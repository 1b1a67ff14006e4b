------------------------------- MODULE Startup -------------------------------
(***************************************************************************)
(* The start of both robots (app/tbot, app/rccar): the main thread binds   *)
(* the devices, starts the services one after the other and, when a device *)
(* is missing, stops what it started and blinks (ShowRobotPanic).          *)
(*                                                                         *)
(* main is the rest of the main thread's program, a sequence of <<what,    *)
(* which>>.  A thread may run as soon as it is created, whatever its delay  *)
(* and priority; the UART's interrupt may come between any two steps.  Of   *)
(* the threads only the actuator's is detailed (TbotActuator).             *)
(***************************************************************************)
EXTENDS TbotActuator, UartAsync

CONSTANT Lacks   \* kinds of devices that may be missing

VARIABLES
  robot,     \* the firmware: "tbot" or "rccar"
  found,     \* devices of each kind found before the first missing one
  active,    \* devices of each kind that are active
  main,
  ready,     \* interfaces and hardware that are set up
  threads,   \* threads created and not aborted
  lit        \* LEDs that the main thread lights

startVars == <<robot, found, active, main, ready, threads, lit>>

Kinds == {"dio", "led", "pwm", "uart", "can", "encoder"}

\* The aliases of the boards' device trees.
TbotDevices ==
  [dio |-> 5, led |-> 3, pwm |-> 4, uart |-> 3, can |-> 2, encoder |-> 2]
RccarDevices ==
  [dio |-> 5, led |-> 2, pwm |-> 2, uart |-> 3, can |-> 1, encoder |-> 0]

Devices(r) == IF r = "tbot" THEN TbotDevices ELSE RccarDevices

AllFound == found = Devices(robot)

-----------------------------------------------------------------------------
\* The programs.

Assign(interface) == <<"assign", interface>>
Create(thread) == <<"create", thread>>

InitHardware ==
  << <<"init", "dio">>, <<"init", "led">>, <<"init", "pwm">>,
     <<"init", "uart">>, <<"init", "can">>, <<"init", "encoder">>,
     <<"check", "hardware">> >>

InitSbus ==
  << <<"uart", "configure">>, <<"uart", "setup">>, <<"uart", "start">> >>

StartReceiverService ==
  InitSbus \o << Assign("rc_data"), Create("receiver") >>

StartActuatorService ==
  << Assign("actuator_cmd"), <<"pins", "init">>, Create("actuator") >>

StartEncoderService == << Assign("rpm"), Create("encoder") >>

StartSpeedControlService ==
  << Assign("desired_rpm"), Assign("speed_feedback"), Create("speed_control") >>

StartMotionService ==
  << Assign("desired_motion"), Assign("motion_feedback"),
     Create("motion_control") >>

StartMessengerService ==
  << <<"can", "filter">>, Assign("robot_state"), Assign("can_motion"),
     Assign("supervisor_cmd"), Create("messenger_rx"), Create("messenger_tx") >>

StartCoordinatorService == << Create("coordinator") >>

StartRccarMessengerService ==
  << Assign("robot_state"), Assign("rc_motion"), <<"can", "filter">>,
     Create("messenger_rx"), Create("messenger_tx") >>

StartRccarCoordinatorService == << Create("coordinator") >>

\* Faulty variant of the tbot's InitRobot: the messenger is started before the
\* services whose queues it writes.
InitTbotEarlyMessenger ==
  InitHardware \o << <<"off", 0>>, <<"off", 1>>, <<"off", 2>> >>
    \o StartReceiverService \o StartMessengerService \o StartActuatorService
    \o StartEncoderService \o StartSpeedControlService \o StartMotionService
    \o StartCoordinatorService

InitTbot ==
  InitHardware \o << <<"off", 0>>, <<"off", 1>>, <<"off", 2>> >>
    \o StartReceiverService \o StartActuatorService \o StartEncoderService
    \o StartSpeedControlService \o StartMotionService \o StartMessengerService
    \o StartCoordinatorService

InitRccar ==
  InitHardware \o << <<"on", 0>>, <<"off", 1>> >>
    \o StartReceiverService \o StartRccarMessengerService
    \o StartRccarCoordinatorService

PanicTbot ==
  << <<"abort", "receiver">>, <<"abort", "actuator">>,
     <<"abort", "coordinator">>, <<"abort", "encoder">>,
     <<"abort", "messenger_tx">>, <<"abort", "messenger_rx">>,
     <<"on", 0>>, <<"on", 1>>, <<"on", 2>>, <<"blink", 3>> >>

PanicRccar ==
  << <<"abort", "receiver">>, <<"abort", "actuator">>,
     <<"on", 0>>, <<"on", 1>>, <<"blink", 2>> >>

ShowRobotPanic == IF robot = "tbot" THEN PanicTbot ELSE PanicRccar

Halted == << <<"halted", "kernel">> >>

\* What a thread uses from its first turn on: the queues of its service's own
\* interface and of those it depends on, and the hardware of its configuration.
ReceiverUses == {"rc_data", "async"}
ActuatorUses == {"actuator_cmd", "pins"}
EncoderUses == {"rpm"}
SpeedControlUses == {"rpm", "desired_rpm", "speed_feedback", "actuator_cmd"}
MotionControlUses == {"desired_motion", "desired_rpm"}
MessengerRxUses ==
  {"can", "supervisor_cmd", "can_motion", "actuator_cmd", "desired_rpm"}
MessengerTxUses == {"can", "robot_state", "speed_feedback"}
CoordinatorUses ==
  {"rc_data", "robot_state", "supervisor_cmd", "can_motion", "desired_motion"}
RccarMessengerRxUses == {"can"}
RccarMessengerTxUses == {"can", "robot_state", "rc_motion"}
RccarCoordinatorUses == {"rc_data", "robot_state", "rc_motion"}

Uses(thread) ==
  CASE thread = "receiver" -> ReceiverUses
    [] thread = "actuator" -> ActuatorUses
    [] thread = "encoder" -> EncoderUses
    [] thread = "speed_control" -> SpeedControlUses
    [] thread = "motion_control" -> MotionControlUses
    [] thread = "messenger_rx" ->
         IF robot = "tbot" THEN MessengerRxUses ELSE RccarMessengerRxUses
    [] thread = "messenger_tx" ->
         IF robot = "tbot" THEN MessengerTxUses ELSE RccarMessengerTxUses
    [] thread = "coordinator" ->
         IF robot = "tbot" THEN CoordinatorUses ELSE RccarCoordinatorUses

RobotThreads ==
  {"receiver", "messenger_rx", "messenger_tx", "coordinator"} \cup
  IF robot = "tbot" THEN {"actuator", "encoder", "speed_control", "motion_control"}
                    ELSE {}

-----------------------------------------------------------------------------

\* The drivers ran before main.  One that failed, at any step of its own
\* initialisation, has left its device without a binding; the encoders' driver is
\* in this repository (drivers/encoder).
DriversRan ==
  \/ AllFound
  \/ \E k \in Lacks : \E n \in 0..Devices(robot)[k] :
       found = [Devices(robot) EXCEPT ![k] = n]

StartupInit ==
  /\ Init /\ UartInit
  /\ robot \in {"tbot", "rccar"} /\ DriversRan
  /\ active = [k \in Kinds |-> 0]
  /\ main = IF robot = "tbot" THEN InitTbot ELSE InitRccar
  /\ ready = {} /\ threads = {} /\ lit = {}

\* The next step of the program is of this sort.
Doing(what) == main # << >> /\ Head(main)[1] = what
Which == Head(main)[2]
Step(what) == Doing(what) /\ main' = Tail(main)

\* The devices of a kind are bound one by one; the first without a driver, or
\* whose pin or channel cannot be configured, ends it.
InitDevices(kind) ==
  /\ Step("init") /\ Which = kind
  /\ active' = [active EXCEPT ![kind] = found[kind]]
  /\ UNCHANGED <<robot, found, threads, lit, vars, uartVars>>

InitDio == InitDevices("dio") /\ UNCHANGED ready
InitLed == InitDevices("led") /\ UNCHANGED ready
InitPwm == InitDevices("pwm") /\ UNCHANGED ready
InitUart == InitDevices("uart") /\ UNCHANGED ready
InitEncoder == InitDevices("encoder") /\ UNCHANGED ready

\* Only CAN devices get something else here, the queue they receive into.
InitCan ==
  /\ InitDevices("can")
  /\ ready' = IF active'["can"] > 0 THEN ready \cup {"can"} ELSE ready

\* Faulty variant: the encoders are left out of the check.
CheckHardwareNoEncoder ==
  /\ Doing("check")
  /\ main' = IF [active EXCEPT !["encoder"] = 0] =
                [Devices(robot) EXCEPT !["encoder"] = 0]
               THEN Tail(main) ELSE ShowRobotPanic
  /\ UNCHANGED <<robot, found, active, ready, threads, lit, vars, uartVars>>

\* The end of InitHardware, and of InitRobot when a kind of devices failed.
CheckHardware ==
  /\ Doing("check")
  /\ main' = IF active = Devices(robot) THEN Tail(main) ELSE ShowRobotPanic
  /\ UNCHANGED <<robot, found, active, ready, threads, lit, vars, uartVars>>

\* TurnOnLed and TurnOffLed, which ignore an inactive LED.
SetLed ==
  /\ \/ Step("on")  /\ lit' = lit \cup ((0..active["led"] - 1) \cap {Which})
     \/ Step("off") /\ lit' = lit \ {Which}
  /\ UNCHANGED <<robot, found, active, ready, threads, vars, uartVars>>

\* The configuration of the UART for SBUS: its failure is only printed.
ConfigureUart ==
  /\ Step("uart") /\ Which = "configure"
  /\ UNCHANGED <<robot, found, active, ready, threads, lit, vars, uartVars>>

SetupUart ==
  /\ Step("uart") /\ Which = "setup"
  /\ SetupUartAsyncMode
  /\ ready' = ready \cup {"async"}
  /\ UNCHANGED <<robot, found, active, threads, lit, vars>>

StartUart ==
  /\ Step("uart") /\ Which = "start"
  /\ StartUartAsyncReceive
  /\ UNCHANGED <<robot, found, active, ready, threads, lit, vars>>

\* Faulty variant: the messenger does not start without its CAN filter.
ConfigureCanStrict ==
  /\ Doing("can")
  /\ \/ ready' = ready \cup {"can_filter"} /\ main' = Tail(main)
     \/ main' = ShowRobotPanic /\ UNCHANGED ready
  /\ UNCHANGED <<robot, found, active, threads, lit, vars, uartVars>>

\* ConfigureCan, whose result is not looked at.
ConfigureCan ==
  /\ Step("can")
  /\ \/ ready' = ready \cup {"can_filter"}
     \/ UNCHANGED ready
  /\ UNCHANGED <<robot, found, active, threads, lit, vars, uartVars>>

\* InitTbotActuators, one pin at a time.
InitPins ==
  /\ Doing("pins") /\ InitTbotActuators
  /\ IF pc' = "idle" THEN main' = Tail(main) /\ ready' = ready \cup {"pins"}
                     ELSE UNCHANGED <<main, ready>>
  /\ UNCHANGED <<robot, found, active, threads, lit, uartVars>>

AssignInterface ==
  /\ Step("assign")
  /\ ready' = ready \cup {Which}
  /\ UNCHANGED <<robot, found, active, threads, lit, vars, uartVars>>

CreateThread ==
  /\ Step("create")
  /\ threads' = threads \cup {Which}
  /\ UNCHANGED <<robot, found, active, ready, lit, vars, uartVars>>

\* The thread id of a service that was not started is NULL: aborting it is
\* undefined, it does nothing or halts the kernel.
AbortThread ==
  /\ Doing("abort")
  /\ \/ main' = Tail(main)
     \/ Which \notin threads /\ main' = Halted
  /\ threads' = IF main' = Halted THEN {} ELSE threads \ {Which}
  /\ UNCHANGED <<robot, found, active, ready, lit, vars, uartVars>>

\* The loop of ShowRobotPanic toggles every LED.
BlinkLeds ==
  /\ Doing("blink")
  /\ LET leds == (0..Which - 1) \cap (0..active["led"] - 1)
     IN  lit' = (lit \ leds) \cup (leds \ lit)
  /\ UNCHANGED <<robot, found, active, main, ready, threads, vars, uartVars>>

MainThread ==
  \/ InitDio \/ InitLed \/ InitPwm \/ InitUart \/ InitCan \/ InitEncoder
  \/ CheckHardware \/ SetLed
  \/ ConfigureUart \/ SetupUart \/ StartUart \/ ConfigureCan
  \/ InitPins \/ AssignInterface \/ CreateThread
  \/ AbortThread \/ BlinkLeds

ActuatorThread ==
  /\ "actuator" \in threads /\ Thread
  /\ UNCHANGED <<startVars, uartVars>>

\* Speed control, or the messenger, which hears nothing without a filter.
SomeCommandArrives ==
  /\ \/ "speed_control" \in threads
     \/ robot = "tbot" /\ {"can_filter"} \subseteq ready /\ "messenger_rx" \in threads
  /\ \E c \in Cmds : CommandArrives(c)
  /\ UNCHANGED <<startVars, uartVars>>

Interrupt == main # Halted /\ UartInterrupt /\ UNCHANGED <<startVars, vars>>

StartupNext ==
  \/ MainThread \/ ActuatorThread \/ SomeCommandArrives
  \/ Interrupt

StartupSpec == StartupInit /\ [][StartupNext]_<<startVars, uartVars, vars>>

\* The main thread has the highest priority; a thread with work to do is
\* scheduled, for the others sleep.
FairStartup ==
  /\ StartupSpec
  /\ WF_<<startVars, uartVars, vars>>(MainThread)
  /\ WF_<<startVars, uartVars, vars>>(ActuatorThread)

-----------------------------------------------------------------------------

Panicking == main # << >> /\ (main = Halted \/ Doing("blink"))

\* Threads start at once when they are created, and the UART interrupts as soon
\* as reception is enabled, while the main thread is still starting services:
\* all that they use is there by then.  The checks of the code do not ensure
\* it, they compare addresses of static records with NULL; only the order of
\* the calls does (tbot_interface.c:106-243, sbus_receiver.c:23-34).
ReadyBeforeUse ==
  /\ \A t \in threads : Uses(t) \subseteq ready
  /\ filling # NoBuffer => async_mode

\* In panic nothing runs and no motor turns: ShowRobotPanic aborts every thread
\* that can be there.  It does not abort speed and motion control, and a service
\* that failed to start later than these would leave them running
\* (tbot_interface.c:251-278).
PanicIsStill ==
  Panicking => threads = {} /\ \A i \in Motors : Drive(i) = 0

\* With all devices the robot ends up with all its threads, whatever fails
\* later; with one missing it blinks, or the abort of a NULL thread halts it
\* (app/tbot/main.c:22-25).
BootCompletes ==
  /\ AllFound => <>[](main = << >> /\ threads = RobotThreads)
  /\ ~AllFound => <>[]Panicking /\ ([]<>(active["led"] > 0 => 0 \in lit)
                                     \/ <>(main = Halted))
=============================================================================
