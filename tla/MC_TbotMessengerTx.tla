-------------------------- MODULE MC_TbotMessengerTx --------------------------
(***************************************************************************)
(* TbotMessengerTx with speeds that use all bytes of a word and both signs.*)
(***************************************************************************)
EXTENDS TbotMessengerTx

SomeSpeeds == {<< 0, -1 >>, << 305419896, -305419896 >>}
=============================================================================
