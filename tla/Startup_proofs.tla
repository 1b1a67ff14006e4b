--------------------------- MODULE Startup_proofs ---------------------------
(***************************************************************************)
(* The actuators and the start of the robots, for all commands and limits: *)
(* between two commands the motors do what the last one asked, without a   *)
(* surge on the way; the start drives them as TbotActuator says, it        *)
(* enables the reception of the UART once, everything that runs finds what *)
(* it uses, and a panic finds no thread and no motor running.              *)
(*                                                                         *)
(* What main still has to do is described by facts that hold of the        *)
(* programs as they are written and of every rest of them: Once, the UART  *)
(* is started at most once; Ordered, no check of the hardware and no panic *)
(* comes after a step that moves pins or creates a thread; Supplied, every *)
(* step is given what it needs by what is ready or by a step before it.    *)
(***************************************************************************)
EXTENDS Startup, Msgq_proofs, TLAPS

-----------------------------------------------------------------------------
\* The pins of the motors, for all commands and limits.  A motor is Pending while
\* the pins of a command are being written and its duty cycle is not yet: it then
\* has the old duty cycle.  Every other motor does what the command asks.  Before
\* the first command the enable pins are cleared when the duty cycles are set.

Pending(i) == pc # "idle" /\ i >= motor

\* The direction pin that goes with a command.
DirectionOf(in) == IF LimitCommand(in) < 0 THEN 1 ELSE 0

MotorsInv ==
  \A i \in Motors :
    /\ ~Pending(i) => Drive(i) = Wanted(actuator_cmd[i])
    /\ Pending(i) /\ duty[i] > 0 => Full - duty[i] = Magnitude(previous[i])
    /\ en[i] = 0 => duty[i] \in {0, Full}

PinsInv ==
  /\ pc = "idle" => motor = 0
  /\ pc \in {"dir", "duty"} => en[motor] = 1
  /\ pc = "duty" => dir[motor] = DirectionOf(actuator_cmd[motor])

\* While the pins are initialised there is no command, no duty cycle, and the
\* enable pins are cleared before the first duty cycle is given.
InitInv ==
  pc = "init" =>
    /\ writes <= 9 /\ motor = 0 /\ actuator_cmd = Stopped /\ previous = Stopped
    /\ \A i \in Motors : duty[i] = 0 /\ (writes >= 2 * i + 5 => en[i] = 0)

\* The first motor has the duty cycle of InitTbotActuators until that of the first
\* command is written; until that command is taken both enable pins are cleared.
FirstInv ==
  pc # "init" =>
    /\ duty[1] > 0
    /\ duty[0] = 0 => \/ pc = "idle" /\ en = Stopped
                      \/ pc # "idle" /\ motor = 0 /\ previous = Stopped

IInv == TypeOK /\ MotorsInv /\ PinsInv /\ InitInv /\ FirstInv

-----------------------------------------------------------------------------

\* LimitCommand, the direction pin and the inverted duty cycle cancel out.
LEMMA Conversion ==
  ASSUME NEW in \in Int
  PROVE  LET d == DutyCycle(Magnitude(LimitCommand(in)))
         IN  /\ d \in 0..Full /\ d > 0
             /\ (IF DirectionOf(in) = 1 THEN d - Full ELSE Full - d) = Wanted(in)
  BY LimitsAssumption
     DEF DutyCycle, Magnitude, LimitCommand, DirectionOf, Wanted

LEMMA WantedRange ==
  ASSUME NEW in \in Int
  PROVE  Wanted(in) \in -Full..Full
  BY LimitsAssumption DEF Wanted

LEMMA InitialState == Init => IInv
  <1> SUFFICES ASSUME Init PROVE IInv
    OBVIOUS
  <1>1. \A S : << >> \in Seq(S) /\ Len(<< >>) = 0
    OBVIOUS
  <1>2. TypeOK
    BY <1>1, LimitsAssumption, DepthAssumption
       DEF Init, TypeOK, Stopped, Motors
  <1>3. MotorsInv
    BY DEF Init, MotorsInv, Stopped, Pending, Motors
  <1> QED
    BY <1>2, <1>3 DEF Init, IInv, PinsInv, InitInv, FirstInv, Stopped, Motors

\* The command being applied is a command.
LEMMA CmdType == TypeOK => actuator_cmd \in [Motors -> Int]
  BY CmdsAssumption DEF TypeOK, Stopped

LEMMA InitStep == IInv /\ InitTbotActuators => IInv'
  <1> SUFFICES ASSUME IInv, InitTbotActuators PROVE IInv'
    OBVIOUS
  <1>1. /\ DutyCycle(-Full) = 0 /\ DutyCycle(Full) = Full
        /\ Wanted(0) = 0
    BY LimitsAssumption DEF DutyCycle, Wanted
  <1>2. PICK m \in Motors : InitPin(m)
    BY DEF InitTbotActuators
  <1>3. TypeOK'
    BY <1>1, <1>2, LimitsAssumption
       DEF IInv, InitInv, TypeOK, InitTbotActuators, InitPin, history, Motors
  <1>4. InitInv'
    BY <1>1, <1>2
       DEF IInv, InitInv, TypeOK, InitTbotActuators, InitPin, history, Motors
  <1>5. MotorsInv'
    BY <1>1, <1>2
       DEF IInv, InitInv, TypeOK, MotorsInv, InitTbotActuators, InitPin, Pending,
           Drive, Stopped, history, Motors
  <1>6. FirstInv'
    <2> SUFFICES ASSUME writes = 9 PROVE FirstInv'
      BY DEF FirstInv, InitTbotActuators
    <2>1. m = 1
      BY <1>2 DEF InitPin, Motors
    <2>2. /\ duty' = [duty EXCEPT ![1] = Full] /\ en' = en
          /\ duty[0] = 0 /\ en[0] = 0 /\ en[1] = 0 /\ en \in [Motors -> 0..1]
          /\ duty \in [Motors -> 0..Full] /\ pc' = "idle"
      BY <1>1, <1>2, <2>1
         DEF IInv, InitInv, TypeOK, InitTbotActuators, InitPin, Motors
    <2>3. en = Stopped
      BY <2>2 DEF Stopped, Motors
    <2> QED
      BY <2>2, <2>3, LimitsAssumption DEF FirstInv, Motors
  <1> QED
    BY <1>3, <1>4, <1>5, <1>6 DEF IInv, PinsInv, InitInv, InitTbotActuators

LEMMA GetStep == IInv /\ GetCommand => IInv'
  <1> SUFFICES ASSUME IInv, GetCommand PROVE IInv'
    OBVIOUS
  <1>1. actuator_cmd_msgq \in Seq(Cmds) /\ Len(actuator_cmd_msgq) <= Depth
        /\ ~MsgqEmpty(actuator_cmd_msgq)
    BY DEF IInv, TypeOK, GetCommand
  <1>2. /\ MsgqGot(actuator_cmd_msgq) \in Cmds
        /\ MsgqRest(actuator_cmd_msgq) \in Seq(Cmds)
        /\ Len(MsgqRest(actuator_cmd_msgq)) <= Depth
    BY <1>1, GotFits, DepthAssumption
  <1>3. \A i \in Motors : Drive(i) \in -Full..Full
    BY LimitsAssumption DEF IInv, TypeOK, Drive
  <1>4. previous' \in [Motors -> -Full..Full]
    BY <1>3 DEF GetCommand, Drives
  <1>5. TypeOK'
    BY <1>2, <1>4 DEF IInv, TypeOK, GetCommand, Motors
  <1>6. \A i \in Motors : duty[i] > 0 => Full - duty[i] = Magnitude(Drive(i))
    BY LimitsAssumption DEF IInv, TypeOK, MotorsInv, Drive, Magnitude
  <1>7. MotorsInv'
    BY <1>6 DEF IInv, MotorsInv, GetCommand, Pending, Drives, Motors
  <1>8. FirstInv'
    <2>1. en = Stopped => Drives = Stopped
      BY DEF Drives, Drive, Stopped, Motors
    <2> QED
      BY <2>1 DEF IInv, FirstInv, GetCommand
  <1> QED
    BY <1>5, <1>7, <1>8 DEF IInv, PinsInv, InitInv, GetCommand

LEMMA EnableStep == IInv /\ SetEnable => IInv'
  <1> SUFFICES ASSUME IInv, SetEnable PROVE IInv'
    OBVIOUS
  <1>1. TypeOK'
    BY DEF IInv, TypeOK, SetEnable, history
  <1>2. MotorsInv'
    BY DEF IInv, TypeOK, MotorsInv, SetEnable, Pending, Drive, history, Motors
  <1> QED
    BY <1>1, <1>2 DEF IInv, TypeOK, PinsInv, InitInv, FirstInv, SetEnable, history

LEMMA DirectionStep == IInv /\ SetDirection => IInv'
  <1> SUFFICES ASSUME IInv, SetDirection PROVE IInv'
    OBVIOUS
  <1>1. TypeOK'
    BY DEF IInv, TypeOK, SetDirection, history
  <1>2. MotorsInv'
    BY DEF IInv, TypeOK, MotorsInv, SetDirection, Pending, Drive, history, Motors
  <1>3. dir'[motor] = DirectionOf(actuator_cmd[motor])
    BY DEF IInv, TypeOK, SetDirection, DirectionOf
  <1> QED
    BY <1>1, <1>2, <1>3
       DEF IInv, PinsInv, InitInv, FirstInv, SetDirection, history, DirectionOf

LEMMA DutyStep == IInv /\ SetDuty => IInv'
  <1> SUFFICES ASSUME IInv, SetDuty PROVE IInv'
    OBVIOUS
  <1> DEFINE d == DutyCycle(Magnitude(LimitCommand(actuator_cmd[motor])))
  <1>0. motor \in Motors /\ actuator_cmd[motor] \in Int
    BY CmdType DEF IInv, TypeOK
  <1>1. /\ d \in 0..Full /\ d > 0
        /\ (IF DirectionOf(actuator_cmd[motor]) = 1 THEN d - Full ELSE Full - d)
             = Wanted(actuator_cmd[motor])
    BY <1>0, Conversion
  <1>2. duty' = [duty EXCEPT ![motor] = d]
    BY DEF SetDuty
  <1> HIDE DEF d
  <1>3. TypeOK'
    BY <1>0, <1>1, <1>2 DEF IInv, TypeOK, SetDuty, history, Motors
  <1>4. /\ en[motor] = 1 /\ dir[motor] = DirectionOf(actuator_cmd[motor])
        /\ en' = en /\ dir' = dir /\ actuator_cmd' = actuator_cmd
        /\ duty'[motor] = d
    BY <1>0, <1>2 DEF IInv, TypeOK, PinsInv, SetDuty
  <1>5. ASSUME NEW i \in Motors
        PROVE  /\ ~Pending(i)' => Drive(i)' = Wanted(actuator_cmd[i])'
               /\ Pending(i)' /\ (duty[i])' > 0 =>
                    Full - (duty[i])' = Magnitude(previous[i])'
               /\ (en[i])' = 0 => (duty[i])' \in {0, Full}
    <2>1. CASE i = motor
      <3>1. ~Pending(i)'
        BY <1>0, <2>1 DEF SetDuty, Pending, Motors
      <3>2. Drive(i)' = IF dir[i] = 1 THEN d - Full ELSE Full - d
        BY <1>4, <2>1 DEF Drive
      <3>3. Drive(i)' = Wanted(actuator_cmd[i])
        BY <1>1, <1>4, <2>1, <3>2 DEF DirectionOf
      <3> QED
        BY <1>4, <2>1, <3>1, <3>3
    <2>2. CASE i # motor
      <3>1. duty'[i] = duty[i]
        BY <1>0, <1>2, <2>2 DEF IInv, TypeOK
      <3>2. Drive(i)' = Drive(i)
        BY <1>4, <3>1 DEF Drive
      <3>3. Pending(i)' <=> Pending(i)
        BY <1>0, <2>2 DEF SetDuty, Pending, Motors
      <3> QED
        BY <1>4, <3>1, <3>2, <3>3 DEF IInv, MotorsInv, SetDuty, history
    <2> QED
      BY <2>1, <2>2
  <1>6. PinsInv'
    BY DEF PinsInv, SetDuty
  <1>7. FirstInv'
    <2>1. \A i \in Motors : duty'[i] = IF i = motor THEN d ELSE duty[i]
      BY <1>0, <1>2 DEF IInv, TypeOK
    <2> QED
      BY <1>0, <1>1, <2>1 DEF IInv, FirstInv, SetDuty, Motors
  <1> QED
    BY <1>3, <1>5, <1>6, <1>7 DEF IInv, MotorsInv, InitInv, SetDuty

LEMMA ArriveStep ==
  ASSUME IInv, NEW c \in Cmds, CommandArrives(c) PROVE IInv'
  <1>1. /\ actuator_cmd_msgq' \in Seq(Cmds)
        /\ Len(actuator_cmd_msgq') <= Depth
    <2>1. actuator_cmd_msgq \in Seq(Cmds) /\ Len(actuator_cmd_msgq) <= Depth
      BY DEF IInv, TypeOK
    <2>2. /\ Overwrite(actuator_cmd_msgq, c, Depth) \in Seq(Cmds)
          /\ Len(Overwrite(actuator_cmd_msgq, c, Depth)) <= Depth
      BY <2>1, OverwriteFits, DepthAssumption
    <2> QED
      BY <2>2 DEF CommandArrives
  <1> QED
    BY <1>1
       DEF IInv, TypeOK, MotorsInv, PinsInv, InitInv, FirstInv, CommandArrives,
           Pending, Drive

LEMMA StutterStep == IInv /\ UNCHANGED vars => IInv'
  BY DEF IInv, TypeOK, MotorsInv, PinsInv, InitInv, FirstInv, Pending, Drive, vars

LEMMA Invariance == Spec => []IInv
  <1>1. IInv /\ [Next]_vars => IInv'
    BY InitStep, GetStep, EnableStep, DirectionStep, DutyStep, ArriveStep, StutterStep
       DEF Next, Thread
  <1> QED
    BY InitialState, <1>1, PTL DEF Spec

\* The pins stay pins, the duty cycle a fraction, the queue within its capacity.
THEOREM ActuatorTypeCorrect == Spec => []TypeOK
  <1>1. IInv => TypeOK
    BY DEF IInv
  <1> QED
    BY <1>1, Invariance, PTL

\* Between two commands the motors do what the last one asked
\* (tbot_actuators.c:67-103).
THEOREM ActuatorObeys == Spec => []CommandApplied
  <1>1. IInv => CommandApplied
    BY DEF IInv, MotorsInv, Pending, CommandApplied
  <1> QED
    BY <1>1, Invariance, PTL

\* After the initialisation, while the pins are written, a motor has the old power or
\* the new one, but for the first motor in its first command
\* (tbot_actuators.c:83-103).
THEOREM NoSurgeWhileWriting == Spec => []NoSurge
  <1>1. IInv => NoSurge
    <2> SUFFICES ASSUME IInv, pc # "init", NEW i \in Motors, ~BeforeFirstDuty(i)
                 PROVE  Magnitude(Drive(i)) \in
                          {Magnitude(previous[i]),
                           Magnitude(Wanted(actuator_cmd[i]))}
      BY DEF NoSurge
    <2>1. CASE Pending(i)
      <3>0. duty[i] > 0
        BY <2>1 DEF IInv, TypeOK, FirstInv, BeforeFirstDuty, Pending, Motors
      <3>1. Full - duty[i] = Magnitude(previous[i])
        BY <2>1, <3>0 DEF IInv, MotorsInv
      <3>2. Magnitude(Drive(i)) = Full - duty[i]
        <4>1. /\ duty[i] \in 0..Full /\ en[i] \in 0..1
              /\ en[i] = 0 => duty[i] = Full
          BY <3>0 DEF IInv, TypeOK, MotorsInv
        <4> QED
          BY <4>1, LimitsAssumption DEF Drive, Magnitude
      <3> QED
        BY <3>1, <3>2
    <2>2. CASE ~Pending(i)
      BY <2>2 DEF IInv, MotorsInv
    <2> QED
      BY <2>1, <2>2
  <1> QED
    BY <1>1, Invariance, PTL

-----------------------------------------------------------------------------

StartStep == <<"uart", "start">>
Moves == {"create", "pins"}
Fails == {"check", "abort", "blink", "halted"}

Names ==
  {"dio", "led", "pwm", "uart", "can", "encoder", "hardware", "configure",
   "setup", "start", "filter", "init", "kernel", "rc_data", "actuator_cmd", "rpm",
   "desired_rpm", "speed_feedback", "desired_motion", "motion_feedback",
   "robot_state", "can_motion", "supervisor_cmd", "rc_motion", "receiver",
   "actuator", "speed_control", "motion_control", "messenger_rx",
   "messenger_tx", "coordinator"}
Whats ==
  {"init", "check", "on", "off", "uart", "can", "pins", "assign", "create",
   "abort", "blink", "halted"}
Steps == {x \in Whats \X (Names \cup 0..3) : x[1] = "assign" => x[2] \in Names}

\* Steps that neither fail nor start the UART; steps that neither move nor start
\* the UART.
FineSteps == {x \in Steps : x[1] \notin Fails /\ x # StartStep}
TameSteps == {x \in Steps : x[1] \notin Moves /\ x # StartStep}

Once(s) == \A i, j \in 1..Len(s) : s[i] = StartStep /\ s[j] = StartStep => i = j
NoStart(s) == \A i \in 1..Len(s) : s[i] # StartStep

Quiet(s) == \A i \in 1..Len(s) : s[i][1] \notin Fails
Ordered(s) ==
  \A i, j \in 1..Len(s) : i <= j /\ s[i][1] \in Moves => s[j][1] \notin Fails

-----------------------------------------------------------------------------
\* The start of the robots drives the actuators as TbotActuator says.

LEMMA StartupStep ==
  [StartupNext]_<<startVars, uartVars, vars>> => [Next]_vars
  BY DEF StartupNext, MainThread, InitDevices, InitDio, InitLed,
         InitPwm, InitUart, InitCan, InitEncoder, CheckHardware, SetLed,
         ConfigureUart, SetupUart, StartUart, ConfigureCan, InitPins,
         AssignInterface, CreateThread, AbortThread, BlinkLeds, ActuatorThread,
         SomeCommandArrives, Interrupt, Next

\* Whatever the devices found, the pins and the queue of the actuators go
\* through a behaviour of TbotActuator.
THEOREM StartupImplementsActuator == StartupSpec => Spec
  <1>1. StartupInit => Init
    BY DEF StartupInit
  <1> QED
    BY <1>1, StartupStep, PTL DEF StartupSpec, Spec

\* Between two commands the motors do what the last one asked, from the first
\* command after the start on (tbot_actuators.c:19-103).
THEOREM StartedActuatorObeys == StartupSpec => []CommandApplied
  BY StartupImplementsActuator, ActuatorObeys, PTL

\* In the start of the robots too, where the actuator thread takes commands while
\* services are still being started, the only surge after InitTbotActuators is that of
\* the first motor in its first command (tbot_actuators.c:67-103,
\* tbot_interface.c:165-243).
THEOREM StartedWithoutSurge == StartupSpec => []NoSurge
  BY StartupImplementsActuator, NoSurgeWhileWriting, PTL
-----------------------------------------------------------------------------
\* The programs.

LEMMA Steps1 ==
  /\ <<"off", 0>> \in FineSteps /\ <<"off", 1>> \in FineSteps
  /\ <<"off", 2>> \in FineSteps /\ <<"on", 0>> \in FineSteps
  /\ <<"assign", "rc_data">> \in FineSteps
  /\ <<"create", "receiver">> \in FineSteps
  /\ <<"assign", "actuator_cmd">> \in FineSteps
  /\ <<"pins", "init">> \in FineSteps
  /\ <<"create", "actuator">> \in FineSteps
  /\ <<"assign", "rpm">> \in FineSteps
  /\ <<"create", "encoder">> \in FineSteps
  /\ <<"assign", "desired_rpm">> \in FineSteps
  /\ <<"assign", "speed_feedback">> \in FineSteps
  /\ <<"create", "speed_control">> \in FineSteps
  /\ <<"assign", "desired_motion">> \in FineSteps
  /\ <<"assign", "motion_feedback">> \in FineSteps
  /\ <<"create", "motion_control">> \in FineSteps
  /\ <<"can", "filter">> \in FineSteps
  /\ <<"assign", "robot_state">> \in FineSteps
  /\ <<"assign", "can_motion">> \in FineSteps
  /\ <<"assign", "supervisor_cmd">> \in FineSteps
  /\ <<"create", "messenger_rx">> \in FineSteps
  /\ <<"create", "messenger_tx">> \in FineSteps
  /\ <<"create", "coordinator">> \in FineSteps
  /\ <<"assign", "rc_motion">> \in FineSteps
  BY DEF FineSteps, Steps, Whats, Names, Fails, StartStep

LEMMA Steps2 ==
  /\ <<"init", "dio">> \in TameSteps /\ <<"init", "led">> \in TameSteps
  /\ <<"init", "pwm">> \in TameSteps /\ <<"init", "uart">> \in TameSteps
  /\ <<"init", "can">> \in TameSteps /\ <<"init", "encoder">> \in TameSteps
  /\ <<"check", "hardware">> \in TameSteps
  /\ <<"abort", "receiver">> \in TameSteps
  /\ <<"abort", "actuator">> \in TameSteps
  /\ <<"abort", "coordinator">> \in TameSteps
  /\ <<"abort", "encoder">> \in TameSteps
  /\ <<"abort", "messenger_tx">> \in TameSteps
  /\ <<"abort", "messenger_rx">> \in TameSteps /\ <<"on", 0>> \in TameSteps
  /\ <<"on", 1>> \in TameSteps /\ <<"on", 2>> \in TameSteps
  /\ <<"blink", 3>> \in TameSteps /\ <<"blink", 2>> \in TameSteps
  /\ <<"halted", "kernel">> \in TameSteps
  BY DEF TameSteps, Steps, Whats, Names, Moves, StartStep

\* The calls of InitRobot but those for the UART, and the other programs.
LEMMA Services ==
  /\ StartActuatorService \in Seq(FineSteps)
  /\ StartEncoderService \in Seq(FineSteps)
  /\ StartSpeedControlService \in Seq(FineSteps)
  /\ StartMotionService \in Seq(FineSteps)
  /\ StartMessengerService \in Seq(FineSteps)
  /\ StartCoordinatorService \in Seq(FineSteps)
  /\ StartRccarMessengerService \in Seq(FineSteps)
  /\ StartRccarCoordinatorService \in Seq(FineSteps)
  <1>1. StartActuatorService \in Seq(FineSteps)
    BY Steps1 DEF StartActuatorService, Assign, Create
  <1>2. StartEncoderService \in Seq(FineSteps)
    BY Steps1 DEF StartEncoderService, Assign, Create
  <1>3. StartSpeedControlService \in Seq(FineSteps)
    BY Steps1 DEF StartSpeedControlService, Assign, Create
  <1>4. StartMotionService \in Seq(FineSteps)
    BY Steps1 DEF StartMotionService, Assign, Create
  <1>5. StartMessengerService \in Seq(FineSteps)
    BY Steps1 DEF StartMessengerService, Assign, Create
  <1>6. StartCoordinatorService \in Seq(FineSteps)
    BY Steps1 DEF StartCoordinatorService, Assign, Create
  <1>7. StartRccarMessengerService \in Seq(FineSteps)
    BY Steps1 DEF StartRccarMessengerService, Assign, Create
  <1>8. StartRccarCoordinatorService \in Seq(FineSteps)
    BY Steps1 DEF StartRccarCoordinatorService, Create
  <1> QED
    BY <1>1, <1>2, <1>3, <1>4, <1>5, <1>6, <1>7, <1>8

LEMMA Others ==
  /\ InitHardware \in Seq(TameSteps) /\ PanicTbot \in Seq(TameSteps)
  /\ PanicRccar \in Seq(TameSteps) /\ Halted \in Seq(TameSteps)
  <1>1. InitHardware \in Seq(TameSteps)
    BY Steps2 DEF InitHardware
  <1>2. PanicTbot \in Seq(TameSteps)
    BY Steps2 DEF PanicTbot
  <1>3. PanicRccar \in Seq(TameSteps)
    BY Steps2 DEF PanicRccar
  <1>4. Halted \in Seq(TameSteps)
    BY Steps2 DEF Halted
  <1> QED
    BY <1>1, <1>2, <1>3, <1>4

LEMMA Sbus ==
  InitSbus \in Seq(Steps) /\ Once(InitSbus) /\ Quiet(InitSbus)
  <1>1. InitSbus \in Seq(Steps)
    <2>1. /\ <<"uart", "configure">> \in Steps /\ <<"uart", "setup">> \in Steps
          /\ <<"uart", "start">> \in Steps
      BY DEF Steps, Whats, Names
    <2> QED
      BY <2>1 DEF InitSbus
  <1>2. Once(InitSbus)
    BY DEF InitSbus, Once, StartStep
  <1>3. Quiet(InitSbus)
    BY DEF InitSbus, Quiet, Fails
  <1> QED
    BY <1>1, <1>2, <1>3

LEMMA Fine ==
  ASSUME NEW s \in Seq(FineSteps)
  PROVE  s \in Seq(Steps) /\ NoStart(s) /\ Quiet(s)
  <1>1. s \in Seq(Steps)
    BY DEF FineSteps
  <1> QED
    BY <1>1 DEF FineSteps, NoStart, Quiet

LEMMA Tame ==
  ASSUME NEW s \in Seq(TameSteps)
  PROVE  s \in Seq(Steps) /\ NoStart(s) /\ Once(s) /\ Ordered(s)
  <1>1. s \in Seq(Steps)
    BY DEF TameSteps
  <1>2. NoStart(s)
    BY DEF TameSteps, NoStart
  <1> QED
    BY <1>1, <1>2 DEF TameSteps, NoStart, Once, Ordered

LEMMA Concatenation ==
  ASSUME NEW s \in Seq(Steps), NEW t \in Seq(Steps)
  PROVE  /\ s \o t \in Seq(Steps)
         /\ NoStart(s) /\ NoStart(t) => NoStart(s \o t)
         /\ NoStart(s) /\ Once(t) => Once(s \o t)
         /\ Once(s) /\ NoStart(t) => Once(s \o t)
         /\ Quiet(s) /\ Quiet(t) => Quiet(s \o t)
         /\ Ordered(s) /\ Quiet(t) => Ordered(s \o t)
  <1>1. /\ s \o t \in Seq(Steps) /\ Len(s \o t) = Len(s) + Len(t)
        /\ \A i \in 1..Len(s) + Len(t) :
             (s \o t)[i] = IF i <= Len(s) THEN s[i] ELSE t[i - Len(s)]
    OBVIOUS
  <1> DEFINE u == s \o t
  <1> HIDE DEF u
  <1>2. /\ Len(u) = Len(s) + Len(t) /\ Len(s) \in Nat /\ Len(t) \in Nat
        /\ \A i \in 1..Len(u) : i <= Len(s) => i \in 1..Len(s) /\ u[i] = s[i]
        /\ \A i \in 1..Len(u) :
             i > Len(s) => i - Len(s) \in 1..Len(t) /\ u[i] = t[i - Len(s)]
    BY <1>1 DEF u
  <1>3. NoStart(s) /\ NoStart(t) => NoStart(u)
    BY <1>2 DEF NoStart
  <1>4. ASSUME NoStart(s), Once(t) PROVE Once(u)
    <2> SUFFICES ASSUME NEW i \in 1..Len(u), NEW j \in 1..Len(u),
                        u[i] = StartStep, u[j] = StartStep
                 PROVE  i = j
      BY DEF Once
    <2>1. i > Len(s) /\ j > Len(s)
      BY <1>2, <1>4 DEF NoStart
    <2>2. i - Len(s) = j - Len(s)
      BY <1>2, <1>4, <2>1 DEF Once
    <2> QED
      BY <1>2, <2>2
  <1>5. ASSUME Once(s), NoStart(t) PROVE Once(u)
    <2> SUFFICES ASSUME NEW i \in 1..Len(u), NEW j \in 1..Len(u),
                        u[i] = StartStep, u[j] = StartStep
                 PROVE  i = j
      BY DEF Once
    <2>1. i <= Len(s) /\ j <= Len(s)
      BY <1>2, <1>5 DEF NoStart
    <2> QED
      BY <1>2, <1>5, <2>1 DEF Once
  <1>6. Ordered(s) /\ Quiet(t) => Ordered(u)
    BY <1>2 DEF Ordered, Quiet
  <1>7. Quiet(s) /\ Quiet(t) => Quiet(u)
    BY <1>2 DEF Quiet
  <1> QED
    BY <1>1, <1>3, <1>4, <1>5, <1>6, <1>7 DEF u

LEMMA Rest ==
  ASSUME NEW s \in Seq(Steps), s # << >>, Once(s), Ordered(s)
  PROVE  /\ Tail(s) \in Seq(Steps) /\ Once(Tail(s)) /\ Ordered(Tail(s))
         /\ Head(s) = StartStep => NoStart(Tail(s))
         /\ NoStart(s) => NoStart(Tail(s))
         /\ Head(s)[1] \in Moves => Quiet(s)
         /\ Head(s)[1] \in Fails => ~Quiet(s)
         /\ Quiet(s) => Quiet(Tail(s))
  <1>1. /\ Len(s) \in Nat /\ Len(s) >= 1 /\ Head(s) = s[1]
        /\ Tail(s) \in Seq(Steps) /\ Len(Tail(s)) = Len(s) - 1
        /\ \A i \in 1..Len(s) - 1 : Tail(s)[i] = s[i + 1]
    OBVIOUS
  <1> DEFINE t == Tail(s)
  <1> HIDE DEF t
  <1>2. /\ Len(t) = Len(s) - 1
        /\ \A i \in 1..Len(t) : i + 1 \in 1..Len(s) /\ t[i] = s[i + 1]
    BY <1>1 DEF t
  <1>3. Once(t) /\ Ordered(t)
    BY <1>1, <1>2 DEF Once, Ordered
  <1>4. Head(s) = StartStep => NoStart(t)
    BY <1>1, <1>2 DEF Once, NoStart
  <1>5. /\ NoStart(s) => NoStart(t)
        /\ Quiet(s) => Quiet(t)
    BY <1>1, <1>2 DEF NoStart, Quiet
  <1>6. /\ Head(s)[1] \in Moves => Quiet(s)
        /\ Head(s)[1] \in Fails => ~Quiet(s)
    BY <1>1 DEF Ordered, Quiet
  <1> QED
    BY <1>1, <1>3, <1>4, <1>5, <1>6 DEF t

\* A program, or the rest of one.
Good(s) == s \in Seq(Steps) /\ Once(s) /\ Ordered(s)

LEMMA GoodMore ==
  ASSUME NEW s, Good(s), NEW t \in Seq(FineSteps)
  PROVE  Good(s \o t)
  BY Fine, Concatenation DEF Good

LEMMA Beginning ==
  ASSUME NEW leds \in Seq(FineSteps)
  PROVE  Good(InitHardware \o leds \o StartReceiverService)
  <1> DEFINE h == InitHardware
             rest == << Assign("rc_data"), Create("receiver") >>
  <1>1. rest \in Seq(FineSteps)
    BY Steps1 DEF Assign, Create
  <1>2. h \in Seq(Steps) /\ NoStart(h) /\ Ordered(h)
    BY Others, Tame
  <1>3. StartReceiverService = InitSbus \o rest
    BY DEF StartReceiverService
  <1> HIDE DEF h, rest
  <1>4. rest \in Seq(Steps) /\ NoStart(rest) /\ Quiet(rest)
    BY <1>1, Fine
  <1>5. leds \in Seq(Steps) /\ NoStart(leds) /\ Quiet(leds)
    BY Fine
  <1>6. /\ StartReceiverService \in Seq(Steps)
        /\ Once(StartReceiverService) /\ Quiet(StartReceiverService)
    BY <1>3, <1>4, Sbus, Concatenation
  <1>7. h \o leds \in Seq(Steps) /\ NoStart(h \o leds) /\ Ordered(h \o leds)
    BY <1>2, <1>5, Concatenation
  <1> DEFINE b == h \o leds
  <1> HIDE DEF b
  <1>8. b \in Seq(Steps) /\ NoStart(b) /\ Ordered(b)
    BY <1>7 DEF b
  <1>9. Good(b \o StartReceiverService)
    BY <1>6, <1>8, Concatenation DEF Good
  <1> QED
    BY <1>9 DEF b, h

LEMMA Programs == Good(InitTbot) /\ Good(InitRccar)
  <1>1. Good(InitTbot)
    <2> DEFINE leds == << <<"off", 0>>, <<"off", 1>>, <<"off", 2>> >>
               p1 == InitHardware \o leds \o StartReceiverService
               p2 == p1 \o StartActuatorService
               p3 == p2 \o StartEncoderService
               p4 == p3 \o StartSpeedControlService
               p5 == p4 \o StartMotionService
               p6 == p5 \o StartMessengerService
               p7 == p6 \o StartCoordinatorService
    <2>1. leds \in Seq(FineSteps)
      BY Steps1
    <2>2. Good(p1)
      BY <2>1, Beginning
    <2>3. p7 = InitTbot
      BY DEF InitTbot
    <2> HIDE DEF p1
    <2>4. Good(p2)
      BY <2>2, Services, GoodMore
    <2> HIDE DEF p2
    <2>5. Good(p3)
      BY <2>4, Services, GoodMore
    <2> HIDE DEF p3
    <2>6. Good(p4)
      BY <2>5, Services, GoodMore
    <2> HIDE DEF p4
    <2>7. Good(p5)
      BY <2>6, Services, GoodMore
    <2> HIDE DEF p5
    <2>8. Good(p6)
      BY <2>7, Services, GoodMore
    <2> HIDE DEF p6
    <2>9. Good(p7)
      BY <2>8, Services, GoodMore
    <2> QED
      BY <2>3, <2>9
  <1>2. Good(InitRccar)
    <2> DEFINE leds == << <<"on", 0>>, <<"off", 1>> >>
               p1 == InitHardware \o leds \o StartReceiverService
               p2 == p1 \o StartRccarMessengerService
               p3 == p2 \o StartRccarCoordinatorService
    <2>1. leds \in Seq(FineSteps)
      BY Steps1
    <2>2. Good(p1)
      BY <2>1, Beginning
    <2>3. p3 = InitRccar
      BY DEF InitRccar
    <2> HIDE DEF p1
    <2>4. Good(p2)
      BY <2>2, Services, GoodMore
    <2> HIDE DEF p2
    <2>5. Good(p3)
      BY <2>4, Services, GoodMore
    <2> QED
      BY <2>3, <2>5
  <1> QED
    BY <1>1, <1>2

LEMMA Panics ==
  /\ Good(ShowRobotPanic) /\ NoStart(ShowRobotPanic)
  /\ Good(Halted) /\ NoStart(Halted)
  BY Others, Tame DEF Good, ShowRobotPanic

-----------------------------------------------------------------------------
\* The invariant.

\* Nothing was created and no pin was written as long as the start can fail.
Untouched == threads = {} /\ pc = "init" /\ writes = 0

StartInv ==
  /\ Good(main)
  /\ Untouched \/ Quiet(main)
  /\ filling = NoBuffer \/ NoStart(main)
  /\ pc = "init" /\ writes = 0 => en = Stopped
  /\ pc = "init" => writes \in Nat

UartInv ==
  /\ double_buffer_index \in 0..1 /\ filling \in 0..NoBuffer
  /\ next_buffer \in 0..NoBuffer
  /\ filling = NoBuffer => next_buffer = NoBuffer
  /\ filling # NoBuffer =>
       \/ next_buffer = NoBuffer /\ double_buffer_index = filling
       \/ next_buffer = 1 - filling /\ double_buffer_index = next_buffer

SInv == StartInv /\ UartInv

LEMMA StartsGood == StartupInit => SInv
  BY Programs
     DEF StartupInit, Init, UartInit, SInv, StartInv, UartInv, Untouched,
         NoBuffer, Stopped

\* A step of the program that leaves the pins and the UART alone.
LEMMA PlainStep ==
  ASSUME SInv, NEW what, Step(what), UNCHANGED <<vars, uartVars>>,
         UNCHANGED threads \/ what \in Moves
  PROVE  SInv'
  <1>1. main # << >> /\ Head(main)[1] = what /\ main' = Tail(main)
    BY DEF Step, Doing
  <1>2. Good(main') /\ (NoStart(main) => NoStart(main'))
        /\ (Quiet(main) => Quiet(main'))
        /\ (what \in Moves => Quiet(main))
    BY <1>1, Rest DEF SInv, StartInv, Good
  <1> QED
    BY <1>2 DEF SInv, StartInv, UartInv, Untouched, vars, uartVars

LEMMA SetupStep == SInv /\ (SetupUart \/ StartUart) => SInv'
  <1> SUFFICES ASSUME SInv, SetupUart \/ StartUart PROVE SInv'
    OBVIOUS
  <1>1. main # << >> /\ main' = Tail(main) /\ UNCHANGED <<threads, vars>>
    BY DEF SetupUart, StartUart, Step, Doing
  <1>2. /\ Good(main') /\ (NoStart(main) => NoStart(main'))
        /\ (Quiet(main) => Quiet(main'))
        /\ (Head(main) = StartStep => NoStart(main'))
    BY <1>1, Rest DEF SInv, StartInv, Good
  <1>3. CASE SetupUart
    BY <1>1, <1>2, <1>3
       DEF SetupUart, SetupUartAsyncMode, SInv, StartInv, UartInv, Untouched, vars
  <1>4. CASE StartUart
    <2>1. Head(main) = StartStep
      <3>1. Head(main)[1] = "uart" /\ Head(main)[2] = "start"
        BY <1>4 DEF StartUart, Step, Doing, Which
      <3>2. Head(main) \in Steps
        BY <1>1 DEF SInv, StartInv, Good
      <3> QED
        BY <3>1, <3>2 DEF Steps, StartStep
    <2>2. ~NoStart(main)
      <3>1. Head(main) = main[1] /\ 1 \in 1..Len(main)
        BY <1>1 DEF SInv, StartInv, Good
      <3> QED
        BY <2>1, <3>1 DEF NoStart
    <2>3. filling = NoBuffer /\ next_buffer = NoBuffer
      BY <2>2 DEF SInv, StartInv, UartInv
    <2> QED
      BY <1>1, <1>2, <1>4, <2>1, <2>3
         DEF StartUart, StartUartAsyncReceive, SInv, StartInv, UartInv,
             Untouched, NoBuffer, vars
  <1> QED
    BY <1>3, <1>4

LEMMA FailStep == SInv /\ (CheckHardware \/ AbortThread \/ BlinkLeds) => SInv'
  <1> SUFFICES ASSUME SInv, CheckHardware \/ AbortThread \/ BlinkLeds PROVE SInv'
    OBVIOUS
  <1>1. /\ main # << >> /\ Head(main)[1] \in Fails
        /\ main' \in {Tail(main), ShowRobotPanic, Halted, main}
        /\ UNCHANGED <<vars, uartVars>> /\ threads' \subseteq threads
    BY DEF CheckHardware, AbortThread, BlinkLeds, Step, Doing, Fails
  <1>2. ~Quiet(main) /\ Good(Tail(main)) /\ (NoStart(main) => NoStart(Tail(main)))
    BY <1>1, Rest DEF SInv, StartInv, Good
  <1>3. Good(main') /\ (NoStart(main) => NoStart(main'))
    BY <1>1, <1>2, Panics DEF SInv, StartInv
  <1> QED
    BY <1>1, <1>2, <1>3
       DEF SInv, StartInv, UartInv, Untouched, vars, uartVars

LEMMA PinsStep == SInv /\ InitPins => SInv'
  <1> SUFFICES ASSUME SInv, InitPins PROVE SInv'
    OBVIOUS
  <1>1. /\ main # << >> /\ Head(main)[1] \in Moves
        /\ main' \in {Tail(main), main} /\ UNCHANGED <<threads, uartVars>>
        /\ InitTbotActuators
    BY DEF InitPins, Doing, Moves
  <1>2. /\ Quiet(main) /\ Quiet(Tail(main)) /\ Good(Tail(main))
        /\ (NoStart(main) => NoStart(Tail(main)))
    BY <1>1, Rest DEF SInv, StartInv, Good
  <1>3. writes' \in Nat /\ writes' # 0
    BY <1>1 DEF SInv, StartInv, InitTbotActuators
  <1> QED
    BY <1>1, <1>2, <1>3 DEF SInv, StartInv, UartInv, uartVars

LEMMA ThreadStep == SInv /\ (ActuatorThread \/ SomeCommandArrives) => SInv'
  <1> SUFFICES ASSUME SInv, ActuatorThread \/ SomeCommandArrives PROVE SInv'
    OBVIOUS
  <1>1. UNCHANGED <<startVars, uartVars>> /\ threads # {}
    BY DEF ActuatorThread, SomeCommandArrives
  <1>2. Quiet(main)
    BY <1>1 DEF SInv, StartInv, Untouched
  <1>3. pc' = "init" => pc = "init" /\ writes' = writes /\ en' = en
    BY DEF ActuatorThread, SomeCommandArrives, Thread, GetCommand, SetEnable,
           SetDirection, SetDuty, CommandArrives
  <1> QED
    BY <1>1, <1>2, <1>3 DEF SInv, StartInv, UartInv, startVars, uartVars

LEMMA InterruptStep == SInv /\ Interrupt => SInv'
  <1> SUFFICES ASSUME SInv, Interrupt PROVE SInv'
    OBVIOUS
  <1>1. UNCHANGED <<startVars, vars>> /\ filling # NoBuffer
    BY DEF Interrupt, UartInterrupt, BufRequest, BufReleased, RxDisabled
  <1>2. StartInv'
    BY <1>1 DEF SInv, StartInv, Untouched, startVars, vars
  <1>3. UartInv'
    BY DEF SInv, UartInv, Interrupt, UartInterrupt, BufRequest, BufReleased,
           RxDisabled, NoBuffer
  <1> QED
    BY <1>2, <1>3 DEF SInv

LEMMA StartupInvariance == StartupSpec => []SInv
  <1>1. ASSUME SInv, MainThread PROVE SInv'
    <2>1. CASE \/ InitDio \/ InitLed \/ InitPwm
               \/ InitUart \/ InitCan \/ InitEncoder
      BY <1>1, <2>1, PlainStep DEF InitDevices, InitDio, InitLed, InitPwm,
           InitUart, InitCan, InitEncoder
    <2>2. CASE SetLed
      BY <1>1, <2>2, PlainStep DEF SetLed
    <2>3. CASE ConfigureUart
      BY <1>1, <2>3, PlainStep DEF ConfigureUart
    <2>4. CASE ConfigureCan
      BY <1>1, <2>4, PlainStep DEF ConfigureCan
    <2>5. CASE AssignInterface
      BY <1>1, <2>5, PlainStep DEF AssignInterface
    <2>6. CASE CreateThread
      BY <1>1, <2>6, PlainStep DEF CreateThread, Moves
    <2> QED
      BY <1>1, <2>1, <2>2, <2>3, <2>4, <2>5, <2>6, SetupStep, FailStep, PinsStep
         DEF MainThread
  <1>2. SInv /\ UNCHANGED <<startVars, uartVars, vars>> => SInv'
    BY DEF SInv, StartInv, UartInv, Untouched, startVars, uartVars, vars
  <1>3. SInv /\ [StartupNext]_<<startVars, uartVars, vars>> => SInv'
    BY <1>1, <1>2, ThreadStep, InterruptStep DEF StartupNext
  <1> QED
    BY StartsGood, <1>3, PTL DEF StartupSpec

-----------------------------------------------------------------------------
\* What the steps of the programs need and what they give.  The check of the
\* hardware gives "can": behind it there is a CAN device, which has its queue.

Needs(x) ==
  IF x[1] = "create" THEN Uses(x[2]) ELSE IF x = StartStep THEN {"async"} ELSE {}

Gives(x) ==
  IF x[1] = "assign" THEN {x[2]}
  ELSE IF x = <<"pins", "init">> THEN {"pins"}
  ELSE IF x = <<"uart", "setup">> THEN {"async"}
  ELSE IF x[1] = "check" THEN {"can"} ELSE {}

\* With what is ready, or given by an earlier step, every step has what it needs.
Supplied(s, r) ==
  \A i \in 1..Len(s) : \A u \in Needs(s[i]) :
    u \in r \/ \E j \in 1..i - 1 : u \in Gives(s[j])

Gave(s, g) == \A u \in g : \E j \in 1..Len(s) : u \in Gives(s[j])

Brings(s, r, g) == s \in Seq(Steps) /\ Supplied(s, r) /\ Gave(s, g)

LEMMA NeedsFacts ==
  /\ \A t : Needs(<<"create", t>>) = Uses(t)
  /\ \A x : Needs(<<"assign", x>>) = {} /\ Needs(<<"init", x>>) = {}
            /\ Needs(<<"check", x>>) = {} /\ Needs(<<"on", x>>) = {}
            /\ Needs(<<"off", x>>) = {} /\ Needs(<<"can", x>>) = {}
            /\ Needs(<<"pins", x>>) = {} /\ Needs(<<"abort", x>>) = {}
            /\ Needs(<<"blink", x>>) = {} /\ Needs(<<"halted", x>>) = {}
  /\ Needs(<<"uart", "configure">>) = {} /\ Needs(<<"uart", "setup">>) = {}
  /\ Needs(<<"uart", "start">>) = {"async"}
  BY DEF Needs, StartStep

LEMMA GivesFacts ==
  /\ \A x : Gives(<<"assign", x>>) = {x}
  /\ Gives(<<"pins", "init">>) = {"pins"} /\ Gives(<<"uart", "setup">>) = {"async"}
  /\ Gives(<<"check", "hardware">>) = {"can"}
  BY DEF Gives

LEMMA UsesFacts ==
  /\ Uses("receiver") = ReceiverUses /\ Uses("actuator") = ActuatorUses
  /\ Uses("encoder") = EncoderUses /\ Uses("speed_control") = SpeedControlUses
  /\ Uses("motion_control") = MotionControlUses
  /\ Uses("messenger_rx") =
       IF robot = "tbot" THEN MessengerRxUses ELSE RccarMessengerRxUses
  /\ Uses("messenger_tx") =
       IF robot = "tbot" THEN MessengerTxUses ELSE RccarMessengerTxUses
  /\ Uses("coordinator") =
       IF robot = "tbot" THEN CoordinatorUses ELSE RccarCoordinatorUses
  BY DEF Uses

LEMMA SuppliedChain ==
  ASSUME NEW s, NEW r, NEW g, Brings(s, r, g), NEW t, NEW h, Brings(t, g, h)
  PROVE  Brings(s \o t, r, g \cup h)
  <1> DEFINE u == s \o t
  <1>1. /\ u \in Seq(Steps) /\ Len(u) = Len(s) + Len(t)
        /\ Len(s) \in Nat /\ Len(t) \in Nat
        /\ \A i \in 1..Len(s) : u[i] = s[i]
        /\ \A i \in 1..Len(t) : u[Len(s) + i] = t[i]
    BY DEF Brings
  <1> HIDE DEF u
  <1>2. ASSUME NEW k \in g \cup h
        PROVE  \E j \in 1..Len(u) : k \in Gives(u[j])
    <2>1. CASE k \in g
      <3>1. PICK j \in 1..Len(s) : k \in Gives(s[j])
        BY <2>1 DEF Brings, Gave
      <3> QED
        BY <1>1, <3>1
    <2>2. CASE k \in h
      <3>1. PICK j \in 1..Len(t) : k \in Gives(t[j])
        BY <2>2 DEF Brings, Gave
      <3>2. Len(s) + j \in 1..Len(u)
        BY <1>1
      <3> QED
        BY <1>1, <3>1, <3>2
    <2> QED
      BY <2>1, <2>2
  <1>3. ASSUME NEW i \in 1..Len(u), NEW k \in Needs(u[i]), k \notin r
        PROVE  \E j \in 1..i - 1 : k \in Gives(u[j])
    <2>1. CASE i <= Len(s)
      <3>1. i \in 1..Len(s) /\ u[i] = s[i]
        BY <1>1, <2>1
      <3>2. PICK j \in 1..i - 1 : k \in Gives(s[j])
        BY <1>3, <3>1 DEF Brings, Supplied
      <3> QED
        BY <1>1, <3>1, <3>2
    <2>2. CASE i > Len(s)
      <3> DEFINE n == i - Len(s)
      <3>1. n \in 1..Len(t) /\ i = Len(s) + n
        BY <1>1, <2>2
      <3> HIDE DEF n
      <3>2. u[i] = t[n]
        BY <1>1, <3>1
      <3>3. k \in g \/ \E j \in 1..n - 1 : k \in Gives(t[j])
        BY <3>1, <3>2 DEF Brings, Supplied
      <3>4. CASE k \in g
        <4>1. PICK j \in 1..Len(s) : k \in Gives(s[j])
          BY <3>4 DEF Brings, Gave
        <4> QED
          BY <1>1, <2>2, <4>1
      <3>5. CASE \E j \in 1..n - 1 : k \in Gives(t[j])
        <4>1. PICK j \in 1..n - 1 : k \in Gives(t[j])
          BY <3>5
        <4>2. Len(s) + j \in 1..i - 1 /\ u[Len(s) + j] = t[j]
          BY <1>1, <3>1, <4>1
        <4> QED
          BY <4>1, <4>2
      <3> QED
        BY <3>3, <3>4, <3>5
    <2> QED
      BY <1>1, <2>1, <2>2
  <1> QED
    BY <1>1, <1>2, <1>3 DEF Brings, Supplied, Gave, u

LEMMA SuppliedRest ==
  ASSUME NEW s \in Seq(Steps), s # << >>, NEW r, Supplied(s, r)
  PROVE  /\ Needs(Head(s)) \subseteq r
         /\ \A q : r \cup Gives(Head(s)) \subseteq q => Supplied(Tail(s), q)
  <1>1. /\ Len(s) \in Nat /\ Len(s) >= 1 /\ Head(s) = s[1]
        /\ Len(Tail(s)) = Len(s) - 1
        /\ \A i \in 1..Len(s) - 1 : Tail(s)[i] = s[i + 1]
    OBVIOUS
  <1> DEFINE t == Tail(s)
  <1> HIDE DEF t
  <1>2. Len(t) = Len(s) - 1 /\ \A i \in 1..Len(s) - 1 : t[i] = s[i + 1]
    BY <1>1 DEF t
  <1>3. Needs(s[1]) \subseteq r
    BY <1>1 DEF Supplied
  <1>4. ASSUME NEW q, r \cup Gives(s[1]) \subseteq q,
               NEW i \in 1..Len(t), NEW u \in Needs(t[i]), u \notin q
        PROVE  \E j \in 1..i - 1 : u \in Gives(t[j])
    <2>1. i + 1 \in 1..Len(s) /\ t[i] = s[i + 1]
      BY <1>1, <1>2
    <2>2. PICK j \in 1..i : u \in Gives(s[j])
      BY <1>4, <2>1 DEF Supplied
    <2>3. j # 1
      BY <1>4, <2>2
    <2>4. j - 1 \in 1..i - 1 /\ t[j - 1] = s[j]
      BY <1>1, <1>2, <2>1, <2>2, <2>3
    <2> QED
      BY <2>2, <2>4
  <1> QED
    BY <1>1, <1>3, <1>4 DEF Supplied, t

LEMMA Needless ==
  ASSUME NEW s \in Seq(Steps), \A i \in 1..Len(s) : Needs(s[i]) = {}, NEW r
  PROVE  Supplied(s, r)
  BY DEF Supplied


\* What each service needs of those before it, and what it sets up.
LEMMA HardwareBrings ==
  Brings(InitHardware, {}, {"can"})
  <1>1. InitHardware \in Seq(Steps)
    BY Others, Tame
  <1>2. Supplied(InitHardware, {})
    <2>1. \A i \in 1..Len(InitHardware) : Needs(InitHardware[i]) = {}
      BY NeedsFacts DEF InitHardware
    <2> QED
      BY <1>1, <2>1, Needless
  <1>3. Gave(InitHardware, {"can"})
    <2>1. 7 \in 1..Len(InitHardware) /\ InitHardware[7] = <<"check", "hardware">>
      BY DEF InitHardware
    <2> QED
      BY <2>1, GivesFacts DEF Gave
  <1> QED
    BY <1>1, <1>2, <1>3 DEF Brings

LEMMA ReceiverBrings ==
  ASSUME NEW r
  PROVE  Brings(StartReceiverService, r, {"async", "rc_data"})
  <1> DEFINE s == InitSbus
             t == << Assign("rc_data"), Create("receiver") >>
  <1>1. StartReceiverService = s \o t
    BY DEF StartReceiverService
  <1>2. s \in Seq(Steps) /\ t \in Seq(Steps)
    <2>1. t \in Seq(FineSteps)
      BY Steps1 DEF Assign, Create
    <2> QED
      BY <2>1, Sbus, Fine
  <1>3. /\ Len(s) = 3 /\ Gives(s[2]) = {"async"}
        /\ Needs(s[1]) = {} /\ Needs(s[2]) = {} /\ Needs(s[3]) = {"async"}
    BY NeedsFacts, GivesFacts DEF InitSbus
  <1>4. /\ Len(t) = 2 /\ Gives(t[1]) = {"rc_data"}
        /\ Needs(t[1]) = {} /\ Needs(t[2]) = {"async", "rc_data"}
    BY NeedsFacts, GivesFacts, UsesFacts DEF Assign, Create, ReceiverUses
  <1> HIDE DEF s, t
  <1>5. Brings(s, r, {"async"})
    BY <1>2, <1>3 DEF Brings, Supplied, Gave
  <1>6. Brings(t, {"async"}, {"rc_data"})
    BY <1>2, <1>4 DEF Brings, Supplied, Gave
  <1>7. Brings(s \o t, r, {"async"} \cup {"rc_data"})
    BY <1>5, <1>6, SuppliedChain
  <1> QED
    BY <1>1, <1>7

LEMMA ActuatorBrings ==
  ASSUME NEW r
  PROVE  Brings(StartActuatorService, r, {"actuator_cmd"})
  <1> DEFINE s == StartActuatorService
  <1>1. s \in Seq(Steps)
    BY Services, Fine
  <1>2. /\ Len(s) = 3 /\ Gives(s[1]) = {"actuator_cmd"} /\ Gives(s[2]) = {"pins"}
        /\ Needs(s[1]) = {} /\ Needs(s[2]) = {} /\ Needs(s[3]) = {"actuator_cmd", "pins"}
    BY NeedsFacts, GivesFacts, UsesFacts
       DEF StartActuatorService, Assign, Create, ActuatorUses
  <1> HIDE DEF s
  <1>3. Supplied(s, r) /\ Gave(s, {"actuator_cmd"})
    BY <1>2 DEF Supplied, Gave
  <1> QED
    BY <1>1, <1>3 DEF Brings, s

LEMMA EncoderBrings ==
  ASSUME NEW r
  PROVE  Brings(StartEncoderService, r, {"rpm"})
  <1> DEFINE s == StartEncoderService
  <1>1. s \in Seq(Steps)
    BY Services, Fine
  <1>2. /\ Len(s) = 2 /\ Gives(s[1]) = {"rpm"}
        /\ Needs(s[1]) = {} /\ Needs(s[2]) = {"rpm"}
    BY NeedsFacts, GivesFacts, UsesFacts
       DEF StartEncoderService, Assign, Create, EncoderUses
  <1> HIDE DEF s
  <1>3. Supplied(s, r) /\ Gave(s, {"rpm"})
    BY <1>2 DEF Supplied, Gave
  <1> QED
    BY <1>1, <1>3 DEF Brings, s

LEMMA SpeedControlBrings ==
  ASSUME NEW r, "rpm" \in r, "actuator_cmd" \in r
  PROVE  Brings(StartSpeedControlService, r, {"desired_rpm", "speed_feedback"})
  <1> DEFINE s == StartSpeedControlService
  <1>1. s \in Seq(Steps)
    BY Services, Fine
  <1>2. /\ Len(s) = 3
        /\ Gives(s[1]) = {"desired_rpm"} /\ Gives(s[2]) = {"speed_feedback"}
        /\ Needs(s[1]) = {} /\ Needs(s[2]) = {}
        /\ Needs(s[3]) = {"rpm", "desired_rpm", "speed_feedback", "actuator_cmd"}
    BY NeedsFacts, GivesFacts, UsesFacts
       DEF StartSpeedControlService, Assign, Create, SpeedControlUses
  <1> HIDE DEF s
  <1>3. Supplied(s, r) /\ Gave(s, {"desired_rpm", "speed_feedback"})
    BY <1>2 DEF Supplied, Gave
  <1> QED
    BY <1>1, <1>3 DEF Brings, s

LEMMA MotionBrings ==
  ASSUME NEW r, "desired_rpm" \in r
  PROVE  Brings(StartMotionService, r, {"desired_motion"})
  <1> DEFINE s == StartMotionService
  <1>1. s \in Seq(Steps)
    BY Services, Fine
  <1>2. /\ Len(s) = 3 /\ Gives(s[1]) = {"desired_motion"}
        /\ Needs(s[1]) = {} /\ Needs(s[2]) = {}
        /\ Needs(s[3]) = {"desired_motion", "desired_rpm"}
    BY NeedsFacts, GivesFacts, UsesFacts
       DEF StartMotionService, Assign, Create, MotionControlUses
  <1> HIDE DEF s
  <1>3. Supplied(s, r) /\ Gave(s, {"desired_motion"})
    BY <1>2 DEF Supplied, Gave
  <1> QED
    BY <1>1, <1>3 DEF Brings, s

LEMMA MessengerBrings ==
  ASSUME robot = "tbot",
         NEW r, {"can", "actuator_cmd", "desired_rpm", "speed_feedback"} \subseteq r
  PROVE  Brings(StartMessengerService, r,
                {"robot_state", "can_motion", "supervisor_cmd"})
  <1> DEFINE s == StartMessengerService
  <1>1. s \in Seq(Steps)
    BY Services, Fine
  <1>2. /\ Len(s) = 6 /\ Gives(s[2]) = {"robot_state"}
        /\ Gives(s[3]) = {"can_motion"} /\ Gives(s[4]) = {"supervisor_cmd"}
        /\ Needs(s[1]) = {} /\ Needs(s[2]) = {} /\ Needs(s[3]) = {}
        /\ Needs(s[4]) = {}
        /\ Needs(s[5]) = {"can", "supervisor_cmd", "can_motion", "actuator_cmd",
                          "desired_rpm"}
        /\ Needs(s[6]) = {"can", "robot_state", "speed_feedback"}
    BY NeedsFacts, GivesFacts, UsesFacts
       DEF StartMessengerService, Assign, Create, MessengerRxUses, MessengerTxUses
  <1> HIDE DEF s
  <1>3. Supplied(s, r)
    BY <1>2 DEF Supplied
  <1>4. Gave(s, {"robot_state", "can_motion", "supervisor_cmd"})
    BY <1>2 DEF Gave
  <1> QED
    BY <1>1, <1>3, <1>4 DEF Brings, s

LEMMA CoordinatorBrings ==
  ASSUME robot = "tbot", NEW r, CoordinatorUses \subseteq r
  PROVE  Brings(StartCoordinatorService, r, {})
  <1> DEFINE s == StartCoordinatorService
  <1>1. s \in Seq(Steps)
    BY Services, Fine
  <1>2. Len(s) = 1 /\ Needs(s[1]) = CoordinatorUses
    BY NeedsFacts, UsesFacts DEF StartCoordinatorService, Create
  <1> HIDE DEF s
  <1> QED
    BY <1>1, <1>2 DEF Brings, Supplied, Gave, s

LEMMA RccarServicesBring ==
  ASSUME robot # "tbot", NEW r, {"can", "rc_data"} \subseteq r
  PROVE  /\ Brings(StartRccarMessengerService, r, {"robot_state", "rc_motion"})
         /\ RccarCoordinatorUses \subseteq r => Brings(StartRccarCoordinatorService, r, {})
  <1> DEFINE s == StartRccarMessengerService
             c == StartRccarCoordinatorService
  <1>1. s \in Seq(Steps) /\ c \in Seq(Steps)
    BY Services, Fine
  <1>2. /\ Len(s) = 5 /\ Gives(s[1]) = {"robot_state"} /\ Gives(s[2]) = {"rc_motion"}
        /\ Needs(s[1]) = {} /\ Needs(s[2]) = {} /\ Needs(s[3]) = {}
        /\ Needs(s[4]) = {"can"} /\ Needs(s[5]) = {"can", "robot_state", "rc_motion"}
    BY NeedsFacts, GivesFacts, UsesFacts
       DEF StartRccarMessengerService, Assign, Create, RccarMessengerRxUses,
           RccarMessengerTxUses
  <1>3. Len(c) = 1 /\ Needs(c[1]) = RccarCoordinatorUses
    BY NeedsFacts, UsesFacts DEF StartRccarCoordinatorService, Create
  <1> HIDE DEF s, c
  <1>4. Supplied(s, r) /\ Gave(s, {"robot_state", "rc_motion"})
    BY <1>2 DEF Supplied, Gave
  <1> QED
    BY <1>1, <1>3, <1>4 DEF Brings, Supplied, Gave, s, c

LEMMA ProgramsSupplied ==
  /\ robot = "tbot" => Supplied(InitTbot, {})
  /\ robot # "tbot" => Supplied(InitRccar, {})
  <1>1. ASSUME robot = "tbot" PROVE Supplied(InitTbot, {})
    <2> DEFINE leds == << <<"off", 0>>, <<"off", 1>>, <<"off", 2>> >>
               p0 == InitHardware \o leds
               p1 == p0 \o StartReceiverService
               p2 == p1 \o StartActuatorService
               p3 == p2 \o StartEncoderService
               p4 == p3 \o StartSpeedControlService
               p5 == p4 \o StartMotionService
               p6 == p5 \o StartMessengerService
               p7 == p6 \o StartCoordinatorService
               g0 == {} \cup {"can"}
               g1 == g0 \cup {"async", "rc_data"}
               g2 == g1 \cup {"actuator_cmd"}
               g3 == g2 \cup {"rpm"}
               g4 == g3 \cup {"desired_rpm", "speed_feedback"}
               g5 == g4 \cup {"desired_motion"}
               g6 == g5 \cup {"robot_state", "can_motion", "supervisor_cmd"}
    <2>1. p7 = InitTbot
      BY DEF InitTbot
    <2>2. /\ "rpm" \in g3 /\ "actuator_cmd" \in g3 /\ "desired_rpm" \in g4
          /\ {"can", "actuator_cmd", "desired_rpm", "speed_feedback"} \subseteq g5
          /\ CoordinatorUses \subseteq g6
      BY DEF CoordinatorUses
    <2>3. Brings(p0, {}, g0)
      <3>1. leds \in Seq(Steps) /\ Len(leds) = 3
        <4>1. leds \in Seq(FineSteps) /\ Len(leds) = 3
          BY Steps1
        <4> QED
          BY <4>1, Fine
      <3>2. Needs(leds[1]) = {} /\ Needs(leds[2]) = {} /\ Needs(leds[3]) = {}
        BY NeedsFacts
      <3> HIDE DEF leds
      <3>3. Brings(leds, {"can"}, {})
        BY <3>1, <3>2 DEF Brings, Supplied, Gave
      <3>4. Brings(p0, {}, {"can"} \cup {})
        BY <3>3, HardwareBrings, SuppliedChain
      <3> QED
        BY <3>4
    <2> HIDE DEF p0, g0
    <2>4. Brings(p1, {}, g1)
      BY <2>3, ReceiverBrings, SuppliedChain
    <2> HIDE DEF p1, g1
    <2>5. Brings(p2, {}, g2)
      BY <2>4, ActuatorBrings, SuppliedChain
    <2> HIDE DEF p2, g2
    <2>6. Brings(p3, {}, g3)
      BY <2>5, EncoderBrings, SuppliedChain
    <2> HIDE DEF p3, g3
    <2>7. Brings(p4, {}, g4)
      BY <2>2, <2>6, SpeedControlBrings, SuppliedChain
    <2> HIDE DEF p4, g4
    <2>8. Brings(p5, {}, g5)
      BY <2>2, <2>7, MotionBrings, SuppliedChain
    <2> HIDE DEF p5, g5
    <2>9. Brings(p6, {}, g6)
      BY <1>1, <2>2, <2>8, MessengerBrings, SuppliedChain
    <2> HIDE DEF p6, g6
    <2>10. Brings(p7, {}, g6 \cup {})
      BY <1>1, <2>2, <2>9, CoordinatorBrings, SuppliedChain
    <2> QED
      BY <2>1, <2>10 DEF Brings
  <1>2. ASSUME robot # "tbot" PROVE Supplied(InitRccar, {})
    <2> DEFINE leds == << <<"on", 0>>, <<"off", 1>> >>
               p0 == InitHardware \o leds
               p1 == p0 \o StartReceiverService
               p2 == p1 \o StartRccarMessengerService
               p3 == p2 \o StartRccarCoordinatorService
               g0 == {} \cup {"can"}
               g1 == g0 \cup {"async", "rc_data"}
               g2 == g1 \cup {"robot_state", "rc_motion"}
    <2>1. p3 = InitRccar
      BY DEF InitRccar
    <2>2. /\ {"can", "rc_data"} \subseteq g1 /\ {"can", "rc_data"} \subseteq g2
          /\ RccarCoordinatorUses \subseteq g2
      BY DEF RccarCoordinatorUses
    <2>3. Brings(p0, {}, g0)
      <3>1. leds \in Seq(Steps) /\ Len(leds) = 2
        <4>1. leds \in Seq(FineSteps) /\ Len(leds) = 2
          BY Steps1
        <4> QED
          BY <4>1, Fine
      <3>2. Needs(leds[1]) = {} /\ Needs(leds[2]) = {}
        BY NeedsFacts
      <3> HIDE DEF leds
      <3>3. Brings(leds, {"can"}, {})
        BY <3>1, <3>2 DEF Brings, Supplied, Gave
      <3>4. Brings(p0, {}, {"can"} \cup {})
        BY <3>3, HardwareBrings, SuppliedChain
      <3> QED
        BY <3>4
    <2> HIDE DEF p0, g0
    <2>4. Brings(p1, {}, g1)
      BY <2>3, ReceiverBrings, SuppliedChain
    <2> HIDE DEF p1, g1
    <2>5. Brings(p2, {}, g2)
      BY <1>2, <2>2, <2>4, RccarServicesBring, SuppliedChain
    <2> HIDE DEF p2, g2
    <2>6. Brings(p3, {}, g2 \cup {})
      BY <1>2, <2>2, <2>5, RccarServicesBring, SuppliedChain
    <2> QED
      BY <2>1, <2>6 DEF Brings
  <1> QED
    BY <1>1, <1>2

LEMMA PanicNeedless ==
  \A r : Supplied(ShowRobotPanic, r) /\ Supplied(Halted, r)
  <1>1. /\ PanicTbot \in Seq(Steps) /\ PanicRccar \in Seq(Steps)
        /\ Halted \in Seq(Steps)
    BY Others, Tame
  <1>2. \A i \in 1..Len(PanicTbot) : Needs(PanicTbot[i]) = {}
    BY NeedsFacts DEF PanicTbot
  <1>3. \A i \in 1..Len(PanicRccar) : Needs(PanicRccar[i]) = {}
    BY NeedsFacts DEF PanicRccar
  <1>4. \A i \in 1..Len(Halted) : Needs(Halted[i]) = {}
    BY NeedsFacts DEF Halted
  <1> QED
    BY <1>1, <1>2, <1>3, <1>4, Needless DEF ShowRobotPanic

-----------------------------------------------------------------------------
\* What main still has to do is supplied, and what runs has what it uses.

ReadyInv ==
  /\ Supplied(main, ready)
  /\ \A t \in threads : Uses(t) \subseteq ready
  /\ "async" \in ready => async_mode
  /\ filling # NoBuffer => "async" \in ready
  /\ active["can"] > 0 => "can" \in ready
  /\ DOMAIN active = Kinds

LEMMA StartsReady == StartupInit => ReadyInv
  BY ProgramsSupplied
     DEF StartupInit, UartInit, ReadyInv, NoBuffer, Kinds

LEMMA SameRobot ==
  ASSUME robot' = robot, Supplied(main', ready')
  PROVE  /\ Supplied(main, ready)'
         /\ \A t : Uses(t)' = Uses(t)
  <1>1. \A t : Uses(t)' = Uses(t)
    BY DEF Uses
  <1>2. \A x : Needs(x)' = Needs(x)
    BY <1>1 DEF Needs
  <1> QED
    BY <1>1, <1>2 DEF Supplied

\* A step of the program that takes what it needs and gives what it says.
LEMMA MainStep ==
  ASSUME SInv, ReadyInv, NEW what, Step(what), robot' = robot,
         ready \cup Gives(Head(main)) \subseteq ready'
  PROVE  /\ Supplied(main, ready)'
         /\ Needs(Head(main)) \subseteq ready
         /\ \A t : Uses(t)' = Uses(t)
  <1>1. main # << >> /\ main' = Tail(main) /\ main \in Seq(Steps)
    BY DEF Step, Doing, SInv, StartInv, Good
  <1>2. Supplied(main', ready') /\ Needs(Head(main)) \subseteq ready
    BY <1>1, SuppliedRest DEF ReadyInv
  <1> QED
    BY <1>2, SameRobot

\* A step that gives nothing that is needed later.
LEMMA PlainReady ==
  ASSUME SInv, ReadyInv, NEW what \in Whats \ {"check", "assign", "pins"}, Step(what),
         what = "uart" => Which # "setup",
         robot' = robot, ready \subseteq ready', "async" \in ready' => "async" \in ready,
         UNCHANGED <<threads, active, uartVars>>
  PROVE  ReadyInv'
  <1>1. Gives(Head(main)) = {}
    <2>1. Head(main)[1] = what /\ Head(main)[2] = Which
      BY DEF Step, Doing, Which
    <2> QED
      BY <2>1 DEF Gives
  <1>2. Supplied(main, ready)' /\ \A t : Uses(t)' = Uses(t)
    BY <1>1, MainStep
  <1> QED
    BY <1>2 DEF ReadyInv, uartVars

LEMMA InitReady ==
  ASSUME SInv, ReadyInv,
         InitDio \/ InitLed \/ InitPwm \/ InitUart \/ InitCan \/ InitEncoder
  PROVE  ReadyInv'
  <1>1. PICK kind \in Kinds : InitDevices(kind) /\ (kind # "can" => UNCHANGED ready)
                              /\ (kind = "can" => InitCan)
    BY DEF InitDio, InitLed, InitPwm, InitUart, InitCan, InitEncoder, Kinds
  <1>2. /\ Step("init") /\ UNCHANGED <<robot, threads, uartVars>>
        /\ active' = [active EXCEPT ![kind] = found[kind]]
    BY <1>1 DEF InitDevices
  <1>3. ready \subseteq ready' /\ ("async" \in ready' => "async" \in ready)
    BY <1>1 DEF InitCan
  <1>4. Gives(Head(main)) = {}
    BY <1>2 DEF Step, Doing, Gives
  <1>5. Supplied(main, ready)' /\ \A t : Uses(t)' = Uses(t)
    BY <1>2, <1>3, <1>4, MainStep
  <1>6. active'["can"] > 0 => "can" \in ready'
    <2>1. CASE kind = "can"
      BY <1>1, <2>1 DEF InitCan
    <2>2. CASE kind # "can"
      BY <1>1, <1>2, <2>2 DEF ReadyInv, Kinds
    <2> QED
      BY <2>1, <2>2
  <1> QED
    BY <1>2, <1>3, <1>5, <1>6 DEF ReadyInv, uartVars

\* A step that fails leads to a program that needs nothing.
LEMMA FailReady ==
  ASSUME SInv, ReadyInv, CheckHardware \/ AbortThread \/ BlinkLeds
  PROVE  ReadyInv'
  <1>1. /\ main # << >> /\ main \in Seq(Steps)
        /\ UNCHANGED <<robot, active, ready, uartVars>> /\ threads' \subseteq threads
    BY DEF CheckHardware, AbortThread, BlinkLeds, Step, Doing, SInv, StartInv, Good
  <1>2. Supplied(main', ready)
    <2>1. CASE CheckHardware
      <3>1. CASE active = Devices(robot)
        <4>1. active["can"] > 0
          BY <3>1 DEF Devices, TbotDevices, RccarDevices
        <4>2. "can" \in ready
          BY <4>1 DEF ReadyInv
        <4>3. Gives(Head(main)) = {"can"} /\ main' = Tail(main)
          BY <2>1, <3>1 DEF CheckHardware, Doing, Gives
        <4>4. /\ Supplied(main, ready) /\ ready \cup Gives(Head(main)) \subseteq ready
          BY <4>2, <4>3 DEF ReadyInv
        <4>5. \A q : ready \cup Gives(Head(main)) \subseteq q => Supplied(Tail(main), q)
          BY <1>1, <4>4, SuppliedRest
        <4> QED
          BY <4>3, <4>4, <4>5
      <3>2. CASE active # Devices(robot)
        BY <2>1, <3>2, PanicNeedless DEF CheckHardware
      <3> QED
        BY <3>1, <3>2
    <2>2. CASE AbortThread
      <3>1. Gives(Head(main)) = {}
        BY <2>2 DEF AbortThread, Doing, Gives
      <3>2. main' = Tail(main) \/ main' = Halted
        BY <2>2 DEF AbortThread
      <3>3. \A q : ready \cup Gives(Head(main)) \subseteq q => Supplied(Tail(main), q)
        BY <1>1, SuppliedRest DEF ReadyInv
      <3>4. Supplied(Tail(main), ready)
        BY <3>1, <3>3
      <3> QED
        BY <3>2, <3>4, PanicNeedless
    <2>3. CASE BlinkLeds
      BY <2>3 DEF BlinkLeds, ReadyInv
    <2> QED
      BY <2>1, <2>2, <2>3
  <1>3. Supplied(main, ready)' /\ \A t : Uses(t)' = Uses(t)
    BY <1>1, <1>2, SameRobot
  <1> QED
    BY <1>1, <1>3 DEF ReadyInv, uartVars

LEMMA UartReady ==
  ASSUME SInv, ReadyInv, SetupUart \/ StartUart
  PROVE  ReadyInv'
  <1>1. /\ Step("uart") /\ UNCHANGED <<robot, active, threads>>
        /\ Head(main) \in Steps /\ Head(main)[1] = "uart" /\ Head(main)[2] = Which
    <2>1. Step("uart") /\ UNCHANGED <<robot, active, threads>>
      BY DEF SetupUart, StartUart
    <2>2. main # << >> /\ main \in Seq(Steps)
      BY <2>1 DEF Step, Doing, SInv, StartInv, Good
    <2> QED
      BY <2>1, <2>2 DEF Step, Doing, Which
  <1>2. CASE SetupUart
    <2>1. Gives(Head(main)) \subseteq {"async"}
      BY <1>1 DEF Gives
    <2>2. ready' = ready \cup {"async"} /\ async_mode' = TRUE /\ filling' = filling
      BY <1>2 DEF SetupUart, SetupUartAsyncMode
    <2>3. Supplied(main, ready)' /\ \A t : Uses(t)' = Uses(t)
      BY <1>1, <2>1, <2>2, MainStep
    <2> QED
      BY <1>1, <2>2, <2>3 DEF ReadyInv
  <1>3. CASE StartUart
    <2>1. ready' = ready /\ async_mode' = async_mode /\ Which = "start"
      BY <1>3 DEF StartUart, StartUartAsyncReceive
    <2>2. Gives(Head(main)) = {} /\ Needs(Head(main)) = {"async"}
      <3>1. Head(main) = StartStep
        BY <1>1, <2>1 DEF Steps, StartStep
      <3> QED
        BY <3>1 DEF Gives, Needs, StartStep
    <2>3. /\ Supplied(main, ready)' /\ \A t : Uses(t)' = Uses(t)
          /\ Needs(Head(main)) \subseteq ready
      BY <1>1, <2>1, <2>2, MainStep
    <2> QED
      BY <1>1, <2>1, <2>2, <2>3 DEF ReadyInv
  <1> QED
    BY <1>2, <1>3

LEMMA CreateReady ==
  ASSUME SInv, ReadyInv, InitPins \/ AssignInterface \/ CreateThread
  PROVE  ReadyInv'
  <1>1. main # << >> /\ main \in Seq(Steps) /\ Head(main) \in Steps
    <2>1. main # << >> /\ main \in Seq(Steps)
      BY DEF InitPins, AssignInterface, CreateThread, Step, Doing, SInv, StartInv,
         Good
    <2> QED
      BY <2>1
  <1>2. UNCHANGED <<robot, active, uartVars>> /\ ready \subseteq ready'
    BY DEF InitPins, AssignInterface, CreateThread
  <1>3. CASE InitPins
    <2>1. CASE main' = main /\ ready' = ready
      <3>1. Supplied(main', ready')
        BY <2>1 DEF ReadyInv
      <3> QED
        BY <1>2, <1>3, <2>1, <3>1, SameRobot DEF InitPins, ReadyInv, uartVars
    <2>2. CASE main' = Tail(main) /\ ready' = ready \cup {"pins"}
      <3>1. Step("pins") /\ Gives(Head(main)) \subseteq {"pins"} /\ threads' = threads
        BY <1>3, <2>2 DEF InitPins, Step, Doing, Gives
      <3>2. Supplied(main, ready)' /\ \A t : Uses(t)' = Uses(t)
        BY <1>2, <2>2, <3>1, MainStep
      <3> QED
        BY <1>2, <2>2, <3>1, <3>2 DEF ReadyInv, uartVars
    <2> QED
      BY <1>3, <2>1, <2>2 DEF InitPins
  <1>4. CASE AssignInterface
    <2>1. /\ Step("assign") /\ ready' = ready \cup {Which} /\ threads' = threads
          /\ Head(main)[1] = "assign" /\ Head(main)[2] = Which
      BY <1>4 DEF AssignInterface, Step, Doing, Which
    <2>2. Gives(Head(main)) = {Which}
      BY <2>1 DEF Gives
    <2>3. Supplied(main, ready)' /\ \A t : Uses(t)' = Uses(t)
      BY <1>2, <2>1, <2>2, MainStep
    <2>4. Which # "async"
      BY <1>1, <2>1 DEF Steps, Names
    <2> QED
      BY <1>2, <2>1, <2>3, <2>4 DEF ReadyInv, uartVars
  <1>5. CASE CreateThread
    <2>1. /\ Step("create") /\ ready' = ready /\ threads' = threads \cup {Which}
          /\ Head(main)[1] = "create" /\ Head(main)[2] = Which
      BY <1>5 DEF CreateThread, Step, Doing, Which
    <2>2. Gives(Head(main)) = {} /\ Needs(Head(main)) = Uses(Which)
      BY <2>1 DEF Gives, Needs
    <2>3. /\ Supplied(main, ready)' /\ \A t : Uses(t)' = Uses(t)
          /\ Uses(Which) \subseteq ready
      BY <1>2, <2>1, <2>2, MainStep
    <2> QED
      BY <1>2, <2>1, <2>3 DEF ReadyInv, uartVars
  <1> QED
    BY <1>3, <1>4, <1>5

LEMMA OthersReady ==
  ASSUME ReadyInv,
         ActuatorThread \/ SomeCommandArrives \/ Interrupt
         \/ UNCHANGED <<startVars, uartVars, vars>>
  PROVE  ReadyInv'
  <1>1. UNCHANGED startVars
    BY DEF ActuatorThread, SomeCommandArrives, Interrupt
  <1>2. async_mode' = async_mode /\ (filling # NoBuffer \/ filling' = filling)
    BY DEF ActuatorThread, SomeCommandArrives, Interrupt, UartInterrupt,
       BufRequest, BufReleased, RxDisabled, uartVars
  <1>3. UNCHANGED <<robot, active, main, ready, threads>>
    BY <1>1 DEF startVars
  <1>4. Supplied(main', ready')
    BY <1>3 DEF ReadyInv
  <1>5. Supplied(main, ready)' /\ \A t : Uses(t)' = Uses(t)
    BY <1>3, <1>4, SameRobot
  <1> QED
    BY <1>2, <1>3, <1>5 DEF ReadyInv

LEMMA ReadyInvariance == StartupSpec => []ReadyInv
  <1>1. ASSUME SInv, ReadyInv, MainThread PROVE ReadyInv'
    <2>1. CASE SetLed
      <3>1. PICK what \in {"on", "off"} : Step(what)
        BY <2>1 DEF SetLed
      <3>2. what \in Whats \ {"check", "assign", "pins", "uart"}
        BY DEF Whats
      <3> QED
        BY <1>1, <2>1, <3>1, <3>2, PlainReady DEF SetLed
    <2>2. CASE ConfigureUart
      <3>1. "uart" \in Whats \ {"check", "assign", "pins"}
        BY DEF Whats
      <3> QED
        BY <1>1, <2>2, <3>1, PlainReady DEF ConfigureUart
    <2>3. CASE ConfigureCan
      <3>1. "can" \in Whats \ {"check", "assign", "pins"}
        BY DEF Whats
      <3> QED
        BY <1>1, <2>3, <3>1, PlainReady DEF ConfigureCan
    <2> QED
      BY <1>1, <2>1, <2>2, <2>3, InitReady, FailReady, UartReady, CreateReady
         DEF MainThread
  <1>2. SInv /\ ReadyInv /\ [StartupNext]_<<startVars, uartVars, vars>> => ReadyInv'
    BY <1>1, OthersReady DEF StartupNext
  <1> QED
    BY StartsReady, StartupInvariance, <1>2, PTL DEF StartupSpec

-----------------------------------------------------------------------------
\* The properties.

\* The driver of the UART is never given the buffer it is filling
\* (uart_interface.c:141-185).
THEOREM BuffersStayApart == StartupSpec => []BuffersApart
  <1>1. SInv => BuffersApart
    BY DEF SInv, UartInv, BuffersApart, NoBuffer
  <1> QED
    BY <1>1, StartupInvariance, PTL

\* A panic finds no thread and no motor running: the start fails before it has
\* created or moved anything (tbot_interface.c:76-278, rccar_interface.c:59-173).
THEOREM PanicFindsNothing == StartupSpec => []PanicIsStill
  <1>1. SInv => PanicIsStill
    <2> SUFFICES ASSUME SInv, Panicking PROVE Untouched /\ en = Stopped
      BY DEF PanicIsStill, Untouched, Drive, Stopped, Motors
    <2>1. main # << >> /\ Head(main)[1] \in Fails
      BY DEF Panicking, Halted, Doing, Fails
    <2>2. ~Quiet(main)
      BY <2>1, Rest DEF SInv, StartInv, Good
    <2> QED
      BY <2>2 DEF SInv, StartInv, Untouched
  <1> QED
    BY <1>1, StartupInvariance, PTL

\* Whatever runs, from its creation on, finds the queues and the hardware it uses
\* set up, on both robots and with any devices missing; so does the interrupt of
\* the UART (tbot_interface.c:106-243, rccar_interface.c:78-149).
THEOREM UsedIsReady == StartupSpec => []ReadyBeforeUse
  <1>1. ReadyInv => ReadyBeforeUse
    BY DEF ReadyInv, ReadyBeforeUse
  <1> QED
    BY <1>1, ReadyInvariance, PTL
=============================================================================
