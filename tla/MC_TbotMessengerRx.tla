-------------------------- MODULE MC_TbotMessengerRx --------------------------
(***************************************************************************)
(* TbotMessengerRx with commands of every kind, with numbers that use all  *)
(* bytes of a word and both signs, some of them too large for int8_t and   *)
(* int16_t.                                                                *)
(***************************************************************************)
EXTENDS TbotMessengerRx

Speeds(type, l, r) == [type |-> type, left |-> l, right |-> r]
Mode(m) == [type |-> "supervisor", mode |-> m]

SomeCommands ==
  {Mode(0), Mode(2),
   Speeds("pwm", -100, 99), Speeds("pwm", 200, 255), Speeds("pwm", -128, -128),
   Speeds("motor", -32768, 32767), Speeds("motor", 40000, -40000),
   Speeds("motor", 2147483647, 32768),
   Speeds("motion", 305419896, -305419896), Speeds("motion", 100, -1),
   [type |-> "other"]}
=============================================================================
