# TLA+ models of robofw

robofw is the Zephyr firmware of two small robots: **tbot**, a differential
drive with its own motor controller board (`app/tbot`), and **rccar**, a car
whose motor sits behind a VESC (`app/rccar`).  An application is a set of
*services*.  A service is one Zephyr thread (the messenger has two), and
services talk only over Zephyr message queues (`k_msgq`), nearly all of them of
length 1 and written with one idiom:

    while (k_msgq_put(q, &m, K_NO_WAIT) != 0) k_msgq_purge(q);

This directory holds TLA+ modules of the services, the configurations with
which TLC checks them, and proofs checked by TLAPS.  `PROJECT.json` lists the
components, the runs, for every definition the source lines it stands for, the
hazards, and for every property a mutant of the model that breaks it.

Contents: 1 the system, 2 the modules, 3 the runs, 4 fairness, 5 the proofs,
6 abstractions, 7 divergences between code and text, 8 what is not modelled and
the plan.

## 1. The system

### Threads and queues of the tbot

    UART irq ─ring, sem─► receiver ──rc──► coordinator ──motion──► motion control
                                            ▲      │                    │
    CAN irq ─can q─► messenger rx ─motion,──┘      │state              rpm
                        │    │     mode            ▼                    ▼
                        │    └────rpm──────────────┼──────────► speed control
                        └──pwm──────────┐          │             ▲   │    │
    timer ──► encoder ──rpm─────────────┼──────────┼─────────────┘  cmd  feedback
                                        ▼          ▼                 │    │
    pins ◄───────────── actuator ◄──cmd─┴──────────┼─────────────────┘    │
    CAN  ◄─────────────────────────── messenger tx ◄──────────────────────┘

| Thread | Priority | Runs | State it keeps | Operations |
|---|---|---|---|---|
| receiver (`service/common/receiver`, `module/sbus`) | 1 | woken by a binary semaphore from the UART callback | ring buffer, decoder state, last message | take bytes, decode, scale, send 8 channels |
| messenger rx (`service/robot_tbot/messenger`) | 2 | on a CAN frame | none | decode one of 4 commands, forward it |
| encoder (`service/common/encoder`) | 2 | every 5 ms, estimates every 10 ms | previous reading, time, overflow and direction flags, sums, filter histories | count, estimate, filter, send |
| speed control (`service/robot_tbot/speed_control`) | 2 | every 20 ms | two PID integrals, last target and estimate | take estimate, take target and control, report |
| actuator (`service/common/actuator`) | 2 | on a command | the pins | limit, write enable, direction, duty of two motors |
| coordinator (`service/robot_tbot/coordinator`) | 3 | every 20 ms | link state, e-stop, who drives, supervised mode, two silence counters, last CAN motion | poll RC, CAN, supervisor; send motion; send state |
| motion control (`service/robot_tbot/motion_control`) | 3 | every 20 ms | last target speed of each wheel | kinematics, ramp, send targets |
| messenger tx | 3 | every 20 ms | report and state being sent | report as 3 frames, state as 1 |

Two queues have two writers: the targets for speed control (motion control and
messenger rx) and the actuator commands (speed control and messenger rx).  All
others have one.  A smaller number is a higher priority; a thread that can run
preempts those of higher numbers at any instruction.

### Threads and queues of the rccar

    UART irq ─ring, sem─► receiver ──rc (1)──► coordinator ──motions (2)──► messenger tx ──► CAN, VESC
                                                   └────────state (1)──────────►

The receiver is the same.  The coordinator (priority 2, every 20 ms) keeps link
state, e-stop and mode and sends a robot state in every turn and a motion in every turn in
RC mode; CAN commands are not implemented.  The sending thread of the messenger (priority 3)
takes a state, and only if that says RC and not stopped one motion, which it
turns into a servo position and a speed, two frames.  Its receiving thread
would decode VESC frames and do nothing with them; its decoder accepts none
(section 7).

### Start-up

`main` of each application binds the devices of the board (`module/mcal`), and
if all are there starts the services one after the other: a service's Start
function sets up its hardware, fills in its interface (the queues that others
find it by) and creates its thread.  The order of these calls is all that
ensures that a thread finds the queues of its neighbours.  If a device is
missing, `ShowRobotPanic` aborts the threads it knows of and blinks the LEDs for
ever.  The UART receives into two buffers in turn; its driver asks for the next
one in a callback.

### What is hard about it

* *Interleaving.*  Threads of higher priority run between any two kernel calls
  of a loop body.  Put-or-purge is several kernel calls.  The six pin writes of
  a motor command are seen by the motors one by one.  The UART interrupt runs
  anywhere in the receiver.
* *Silence.*  Nothing is acknowledged.  RC and CAN can stop at any moment and
  the coordinator has to notice by counting empty polls; the e-stop switch
  travels on the link that may be lost.
* *Stale values.*  Every service works with the last value it has got.
* *Numbers.*  16-bit counters and differences, signed bytes, 11-bit channels
  across byte borders, an inverted PWM signal, integer truncation in filters.
* *Failure.*  CAN sends fail or time out, bytes get lost, queues drop what is
  not taken in time, a device can be missing at start.
* *Start order.*  A created thread and an enabled interrupt run before the
  services they work with are started.

`PROJECT.json` lists 40 hazards, each at the line where it bites, with the
properties that would catch it, or with the reason why none does yet.

### What makes the components correct

* queues: nothing newer is lost for something older; one writer sees an atomic
  overwrite.
* coordinator: the e-stop is the switch of the live link; only a live source
  moves the robot; silence stops it; a supervisor silences it.
* motion control: turning wheels are ramped within the limits, towards the
  command, and arrive.
* speed control: the integral does not wind up; full power never works against
  the error.
* actuator: pins agree with the last command, and never give more than the old
  or the new one on the way, but for motor 1 in the first command; the newest command gets through.
* messenger: commands arrive as sent, as far as the widths of the queues hold
  them, the newest is the one offered, a report on
  the bus is one moment's unless a frame was refused.
* receiver: no wakeup is lost, messages are frames that were sent, the last
  frame arrives.
* rccar: a stop takes effect but for what is in flight; of the motions queued
  before a stop none is taken after it; the VESC gets whole commands and in the end obeys the sticks.
* the tbot as a whole: a stop or a supervisor takes effect but for the motions
  already queued; a lasting command reaches the wheels through both queues and the ramp.
* start: nothing is used before it is there; a failed start ends with no
  thread and no motor running; a complete one with every thread.
* encoder: every pulse is counted with the right sign across the wrap of the
  counter unless the wheel reverses within an estimate or meets the flag of the start, a wheel that turns forward is never said to turn backwards, what the
  speed controller uses keeps to the limit, the filter settles.

## 2. The modules

| Module | Models | Notes |
|---|---|---|
| `Msgq` | `k_msgq` as the services use it (no wait) | external to the repository; operators on sequences |
| `Mailbox` | abstract specification: an atomic overwriting box | |
| `OverwriteQueue` | the put-or-purge loop, one action per kernel call | refines `Mailbox` when there is one writer |
| `TbotCoordinator` | `coordinator_service.c` of the tbot | one action per queue operation; implements `CoordinatorPromise` |
| `CoordinatorPromise` | abstract specification: what motion control may expect of the coordinator | decide anything, send only unless supervised, only standstill while stopped |
| `TbotMotionControl` | `motion_control_service.c` | one action per turn |
| `TbotSystem` | coordinator (its promise), motion control, the messenger as second writer, and the taking of targets by speed control, over the queues `InitRobot` shares out | extends `TbotMotionControl` |
| `TbotSpeedControl` | `speed_control_service.c`, `pid_controller.c` | one action per queue operation |
| `TbotActuator` | `tbot_actuators.c`, `pwm_interface.c` | one action per pin, the initialisation included |
| `UartAsync` | `uart_interface.c`: the double buffer and the driver's callback | one action per driver event |
| `Startup` | `tbot_interface.c`, `rccar_interface.c`, both `main.c`, the Start functions of all services, the Init functions of `module/mcal`, the tables of devices | `main` is a program, a sequence of steps; extends `TbotActuator` and `UartAsync` |
| `TbotProtocol` | `tbot_messenger.c`: identifiers, byte order, signs, widths | operators |
| `TbotMessengerRx`, `TbotMessengerTx` | the two threads of `messenger_service.c` | one action per frame received; one per queue or CAN call |
| `Sbus` | `sbus.c`: the frame; and a transmitter written from the header's description | operators |
| `SbusReceiver` | UART callback, ring buffer, semaphore, decoder, receiver thread | one action per chunk and per byte |
| `EncoderService` | `encoder_service.c`, one wheel of either initial flag, and the reading of the counter in `encoder_interface.c` and `drivers/encoder` | one action per sample; the time it measures is open |
| `RccarDrive` | coordinator of the rccar and the sending thread of its messenger | coordinator turn as one step, messenger one action per call |
| `Vesc` | `vesc_cmd_parser.c`: the encoders of the two commands the rccar sends; and the VESC's reading of them, external | operators |
| `*_proofs` | theorems; section 5 says which module is proved where | the messenger's two threads, the remote control's way and the services of one path share a module |
| `MC_*` | values of the constants for TLC | |

Variables have the names of the program's variables; a `pc` says which kernel
call of a loop body comes next, so that other threads can act between any two.
Each module closes its component with actions for the other ends of its queues
(`...Arrives`, `...Taken`): they may act at any time and offer any value of a
small set.  Variables called *history* in their comment exist only for the
properties.  Operators called *faulty variant* are not part of the model: they
are the bugs with which the properties were tried out.

That other modules take put-or-purge as one step (`Overwrite` in `Msgq`) is
justified by `OverwriteQueue`: with one writer the loop implements `Mailbox`
(theorem `LoopIsAtomic`), under the mapping that shows the new message in the box from the
purge on.  The two queues with two writers have only the weaker guarantee
`NewestSurvives`.

The same step is made once more one level up.  `CoordinatorPromise` says in three
actions what motion control may rely on; `TbotCoordinator` is shown to implement
it (run `coordinator`, property `PromiseKept`; theorem
`CoordinatorImplementsPromise` for the safety part) and `TbotSystem` uses it in
the coordinator's place.  So the composition has the loops of the command
path interleaved at every queue operation without the receivers, switches and
counters behind the coordinator's decisions, and what it shows holds for every coordinator
that keeps the promise.  `TbotSystem` and `Startup` in turn implement
`TbotMotionControl` and `TbotActuator` (theorems
`SystemImplementsMotionControl`, `StartupImplementsActuator`), so that what is
proved of one service holds of it in the system.

In `Startup` both robots' starts are data: `InitTbot` and `InitRccar` are
sequences of the calls in the order of the source, and `MainThread` has one action for
each kind of call.  `Uses` names for every thread the interfaces and the
hardware its loop works with.

## 3. The runs

| Run | Module, cfg | Result | What it shows |
|---|---|---|---|
| `overwrite` | `MC_OverwriteQueue`, `Overwrite.cfg` | pass | put-or-purge with zero, one or two writers of priorities 2 and 3 and a reader at any time |
| `coordinator` | `MC_TbotCoordinator`, `Coordinator.cfg` | pass | e-stop, link verdict, live sources, the promise to motion control, and standstill after silence |
| `system` | `MC_TbotSystem`, `System.cfg` | pass | a stop takes effect, the ramp keeps its limits and its direction with two writers of the targets, a lasting command reaches the wheels |
| `speed_pid` | `MC_TbotSpeedControl`, `SpeedPid.cfg` | pass | anti-windup and saturation with blocked and turning wheels |
| `startup` | `MC_Startup`, `Startup.cfg` | pass | the start of both robots, complete or with devices missing, with threads and interrupt running as early as they can, every order of pin writes and new commands, and no surge from the second command on |
| `rx_commands` | `MC_TbotMessengerRx`, `RxCommands.cfg` | pass | commands of every kind through decoding, narrowing and queues |
| `tx_reports` | `MC_TbotMessengerTx`, `TxReports.cfg` | pass | reports on a bus that refuses frames |
| `sbus_frames` | `MC_SbusReceiver`, `SbusFrames.cfg` | pass | frames in chunks, bytes lost on the line and in a full ring, interrupt against thread |
| `encoder` | `MC_EncoderService`, `Encoder.cfg` | pass | both wheels over the whole counter range with a change of speed anywhere and a thread that is early or late |
| `rccar` | `MC_RccarDrive`, `Rccar.cfg` | pass | the rccar from receiver frame to VESC: stop, change of mode, failing sends; whole commands, and speed and steering obeyed in the end |
| `actuator_neutral` | `MC_TbotActuator`, `ActuatorNeutral.cfg` | violation | a neutral first command moves motor 1 for a moment |
| `encoder_reverse` | `MC_EncoderService`, `EncoderReverse.cfg` | violation | the first step backwards of wheel 0 is counted up |

### Bounds, and why they are enough

* `overwrite`: 6 messages through a queue of 2, two writers: fill, overflow,
  purge, preemption in the middle of a retry and a second overflow all happen.
  The theorems hold for every number of messages, writers and any capacity.
* `coordinator`: time-outs of 2 polls instead of 5.  The code only compares a
  counter with the constant, and 2 lets a link be silent, come back in
  time, and be lost.  Four frames cover both positions of the stop and mode
  switches, two CAN motions tell stale from fresh.  History counters stop
  counting two beyond the time-out, where they say nothing new.  The proofs are
  for all time-outs up to 254.
* `system`: the limits of the code (3 and 8 rpm), three motions: rest,
  forward, and backward while turning; all ramps between them happen, in
  whatever order, and the bus interferes with one target of its own.  All queues have the
  code's capacity, 1.
* `speed_pid`: the gains of the code, targets that saturate at once and late;
  the integral takes every value it can reach.  The actuator queue has room
  for one command instead of 16, since nothing here reads it back.
* `startup`: both robots with their real numbers of devices; everything there,
  or one kind missing from any device on.  Commands inside, at and outside both
  limits and the dead zone, in both directions; a queue of 2 instead of 16 so
  that it overflows.  Only `pwm` is never missing: PWM channels are bound when
  the firmware is linked (`pwm_interface.c`).
* `rx_commands`: two or three commands of each kind, words that use all four bytes
  and both signs, a PWM that only a `uint8_t` holds and speeds that no `int16_t`
  does; a CAN queue of 2 so that it can be full
  (then the driver drops the frame, as with 1024).
* `tx_reports`: three reports, so that one can be overwritten while another is
  being sent and one follows.  The bound also lets a report be the last.
* `sbus_frames`: two frames, of a kind that has delimiter bytes among its data
  and one that has none; chunks of 13 and 25 bytes (a frame ends within a chunk, and
  at its end); up to two bytes lost anywhere on the line.  The ring has 20 bytes,
  less than a frame, so that it fills up whenever the thread is late and drops any
  number of bytes more; the real one has 512.  `FramesIntact` is proved for every ring,
  every number of frames and all frames there are.
* `encoder`: `MAX_PULSE_PER_PERIOD` is 16384 instead of 150 and speeds are 0, 8192
  and 16384 pulses per sample in both directions: they divide 65536, so that the readings
  repeat after at most 8 samples and the state space closes.  16384 is the edge of what
  is taken for real.  Samples take 4 or 6 ms, so that estimates are made of 8 to 12 ms.
  With 4915200 pulses to the round (1320), 8192 makes raw speeds of 16 to 25 rpm, all
  below the limit of 26 (600 in the code), and 16384 twice that, beyond it and so outliers.  The average
  is over 2 values (10) and 3 estimates are made before the first is sent (20): the filter
  fills, wraps and is read after wrapping.  Both initial flags are run.
* `rccar`: the queue lengths of the code, 1 and 2; a time-out of 1 poll instead of 5
  (in time and lost both happen); one failing send; frames for both ends of
  the channels (also beyond -1), both dead zones, stop and CAN mode.

## 4. Fairness

Safety properties need none.  Liveness properties use weak fairness of one
thread's step: `Coordinate`, in the system `CoordinatorSends`,
`MotionControlTurn` and `TakeTarget`, the actuator's `Thread`, `TxThread` and
`ReceiverThread` of messenger and receiver, the encoder's `Loop`, `Coordinate` and `Messenger` of the
rccar, and at the start `MainThread` and `ActuatorThread`.  Nothing is assumed of the
encoder's queue being read, nor of the times between samples.  The rest is justified by the scheduler:
each loop either sleeps for its period (`k_msleep`) or blocks on a queue or semaphore, the work
between two sleeps is short against the period, and no thread of higher
priority spins, so a thread that is ready gets the CPU.  Weak fairness is
enough since such a step, once enabled, stays enabled until taken.  Nothing is assumed of operators, the CAN
bus or the radio, with these exceptions: `CommandReachesWheels` assumes that
wheel speeds stop coming over the bus, since these are obeyed in every mode, and
that the robot is not supervised in the end, since nothing is sent then;
`LastFrameArrives` assumes that the transmitter finishes its frames.  That the coordinator
keeps sending is not assumed but part of `PromiseKept`.
`SticksReachVesc` holds with any finite number of failed sends (one in the run); a
bus that fails for ever delivers nothing.

`LastReportTaken` has a premise, that the sending thread comes back to its first loop
again and again.  The code does not guarantee it: if every send waits its 10 ms,
three sends last longer than the 20 ms to the next report, and the robot state
is never sent.

## 5. The proofs

All theorems hold for every value of the constants that satisfies the modules'
named assumptions.  Each rests on one inductive invariant, that is, on what its property
has to be strengthened by so that one step keeps it.  Eight modules hold them; a
module that proves something of two components extends both, which is why the
specifications of the encoder, of the sending thread and of the receiver have
names of their own (`EncoderSpec`, `TxSpec`, `ReceiverSpec`).

* `OverwriteQueue_proofs`.  `LossInv` adds to `NewestSurvives` that the newest message
  of a non-empty queue is the last one put (`NewestIsLast`): without it a get
  that empties the queue could not be known to have read that message.
  `OneInv`, for one writer, adds the order of the numbers in queue, hand and
  reader (`InSendOrder`) and that none is from the future (`IssuedInv`); from
  it follow `OnePurge`, `ReaderForward` and the refinement `LoopIsAtomic`, whose
  step lemma has one case per action: a purge maps to a write, a put after a
  purge to a stutter.
* `Msgq_proofs`.  The facts about the queue operators that the others cite:
  what a get leaves, what put and overwrite append, and that they stay within the
  capacity.
* `TbotCoordinator_proofs`.  The invariant ties the code's counters to the
  history of the links: as long as the link is not given up the counter is the
  number of silent polls; once it is, the flags are those of a lost link; and the
  CAN motion kept is the last one received or zero.  `MotionSafety` looks at the
  step that sends and uses what has been decided earlier in the loop body.
  `CoordinatorImplementsPromise` is a step simulation under the identity: every
  action decides, sends or stutters.
* `TbotSystem_proofs`, the command path.  Of motion control: the ramp operator's
  lemmas split on the five cases of `ApplyMotionLimit`; 16-bit wrap-around is shown not
  to happen while the difference fits (`RampIsLimited`, `RampIsDirected`).
  `SystemStep` shows that each action of the system is an action of
  `TbotMotionControl` or leaves its variables alone, which carries the ramp's
  theorems over (`SystemImplementsMotionControl`, `SystemRampIsLimited`,
  `SystemRampIsDirected`).  `BlockWorks` needs more than its own statement:
  `LateInv` bounds, while driving is blocked, `late + i` for every motion at place i of
  the queue, so that each turn trades one place for one late motion; an
  overwrite puts a standstill behind, and a purge only removes.
* `TbotSpeedControl_proofs`, speed control and the encoder.  `IntegralBounded` is
  inductive with the gains' assumption ki <= kp: an unsaturated output
  u = kp e + ki s bounds the new sum s + e, because ki (s + e) lies between ki s and u.
  The encoder's `CountExact` is an action property; it needs that the previous
  reading is the counter's value, that the pulses pending are those of the wheel, and
  that the overflow flag is up only until it meets its first step down (`CountInv`): that
  step is taken for an overflow.  The wrap-around is a lemma on the difference of two readings modulo 65536,
  so the theorem `EncoderCountExact` holds for every `MaxPulse` below 17896, the code's
  150 among them, and for both wheels.  It leaves out an estimate during which the wheel
  turned round, or stopped after turning backwards (a reading that stays counts up,
  `encoder_service.c:125`), or whose pulses include the flag's step; the run `encoder_reverse`
  shows the last.
  `EncoderSpeedPlausible` rests on `FilterInv`, everything in the filter's memory has passed the
  limit, and on `ForwardInv`, nothing in it is negative as long as the wheel has not turned
  backwards.  Neither depends on the times between samples.  Both need that division
  towards zero keeps the sign and that the average of values within bounds is within
  them (`AverageBounded`), and `ForwardInv` that the product of line 159 does not wrap, which is what bounds
  `MaxPulse`.  Raw speeds have no limit, are published and go into the low-pass.
* `TbotMessenger_proofs`, both threads of the messenger.  Receiving: the
  invariant says of every queue which commands its messages were made from
  (`QueuesInv`), which is inductive because decoding an encoded word gives the word and a
  narrowed number is the number modulo its width (`ByteNarrowed`, `WordNarrowed`); these
  are lemmas on 32, 16 and 8 bits in two's complement.  The commands are all that the
  frames can carry, those that int8_t and int16_t do not hold included.  `NewestOffered` is
  strengthened to `Tracks`: the newest command of a kind is the last of its kind in
  the CAN queue, or none is there and it is last in its own queue, or taken.  The
  stronger form also says what the CAN queue promises, without which decoding a frame
  could not be known to deliver the newest.  Sending: `TxInv` says, for each position of
  `pc`, which of the report's frames the bus has; that a report in hand is not
  replaced before its three frames are out is then the only thing left, since `failed`
  covers the rest.
* `RemoteControl_proofs`, the rccar and the receiver.
  - `OneAfterStop`: a state in the queue that still says go can let one more speed
    through, and so can a messenger that is past the state (`Busy`); `StopInv` bounds what has
    been sent plus what may still be sent, for each place in the state queue.
  - `StaleOnce`: `StaleInv` counts the motions at the head of the queue that were decided before
    the car was muted; while the car is stopped the coordinator keeps writing, so at least one
    motion in the queue is newer than those.
  - `VescReadsCommand`: `FrameInv` says that the last frames are those of the motion in
    hand, and two lemmas that the frames mean that motion to a VESC that reads a speed as an
    int32_t and a position as thousandths.  That reading is an assumption on a part
    outside the repository.
  - `NoLostWakeup` is inductive: the thread only goes to wait with an empty
    ring, and every chunk gives the semaphore.
  - `FramesIntact`: `Decoded` shows that decoding the bytes of a frame gives its 16 channels and its
    flags, for all 2^184 frames.  `RingInv` gives every byte in the ring its place on
    the line; places increase, and by more than one only where bytes were lost.
    `DecoderInv` then says that a decoder within a frame began with a frame's head
    (`Began`), and either has exactly the beginning of that frame or is further down the
    line than it has bytes.  In the second case a byte is missing, and the decoder can
    only end a frame at a tail of a later one, 25 bytes on; so fewer than 25 lost bytes
    cannot bring it there.  That bound is part of the property: the attempt to prove it for any
    number of lost bytes failed, rightly, since the beginning of one frame and the rest
    of the next make up a frame.
* `Startup_proofs`, the actuators and the start.  For the pins, the invariant
  says, for each position of `pc` and `motor`, which pins already agree with the new
  command and which still with the old one.  `NoSurge` holds from the end of the initialisation
  on with one exception, the first motor until the duty of its first command is written;
  `FirstInv` shows that there is no other: the duty that the initialisation leaves at full
  power is replaced in the first command and never comes back.
  `StartupImplementsActuator` carries this over to
  the start.  For `BuffersApart` and `PanicIsStill` the invariant has to say what is
  still to come: in the rest of main's program (`Good`) reception is started at
  most once (`Once`), and no check of the hardware and no part of the panic follows a step
  that moves pins or creates a thread (`Ordered`).  `ReadyBeforeUse` is proved in the same
  way: every step that creates a thread comes after the steps that set up what
  the thread uses, or these are done already (`Supplied`).  All this is shown for the
  programs as they are written (`Programs`, `Panics`), call by call, and every step keeps it
  because a tail of a good program is good.

What the assumptions on constants say, beyond types: integral gain at most the proportional
one, and the time-outs below 255 (a `uint8_t` counter, compared with `>`); motions whose wheel
speeds fit an `int16_t`; commands and speeds of the frames' widths, a byte and an int32_t
(`CommandsAssumption`, `SpeedsAssumption`); channels within what 11 bits scale to
(`Channel`) and a motion queue of at least 2 (`rccar_interface.c:50`); encoder steps of which two make a
product of line 159 that fits 32 bits (`EncoderAssumption`), which nothing but the flag of the start exceeds in the code; frames of 16 channels of 11 bits and a byte of flags (`SbusFrames`).
TLC evaluates all of them in the runs.

Only model-checked: the liveness properties (`SilenceStopsRobot`,
`CommandReachesWheels`, `BootCompletes`, `LastReportTaken`, `LastFrameArrives`, `FilterSettles`,
`SticksReachVesc`, and the fairness part of `PromiseKept`), since fairness and ENABLED are beyond the
prover; `NewestApplied`, which is liveness as well (what is queued last is applied in
the end); and the two violations, which are counterexamples.  Every invariant that a
passing run checks is proved.

## 6. Abstractions

* Time is not modelled: how many messages arrive between two polls is open.
  This admits more behaviours than the real periods.  The one exception is the encoder, which
  divides by the milliseconds that `k_uptime_delta` gives.  They are any value of `Elapsed`,
  whatever number of pulses the wheel made: the pulses of a sample stand for the
  speed of the wheel and the milliseconds for what the thread takes their time to be, early,
  late or rounded.  So `FilterSettles` can only say that the published speed lies between
  those for the longest and the shortest time; with the code's 10 ms per estimate a millisecond
  is a tenth of the speed.  An estimate of less than a period (with 0 ms, a division by
  zero) is ruled out by the sleep at the end of the loop (`encoder_service.c:217`).
* Floats are integers in a unit that makes them exact: stick positions and
  speeds in their steps, rpm conversion as 508 rpm per m/s in fixed point,
  duty cycles in thousandths, PID output in 1/1000 percent with ki*ts folded in, filter gains in
  1/100000.  Motions on the bus stay in hundredths, the division by 100 and its rounding are
  left out.  Rounding of floats is therefore left out.  Both derivative gains
  are 0 in the code and the derivative is left out.
* Uninitialised data (`raw_rpms` in speed control) is a value of its own that
  the code may pass on.
* Prints are left out, and LEDs but for the start and the panic (the coordinator's
  status LED is not modelled).
* A thread may run from its creation on, whatever its start delay and whatever the
  priority of `main` is.  This admits more than the scheduler does, so
  `ReadyBeforeUse` does not lean on the delays.
* At the start at most one kind of device is missing; the check counts all
  kinds alike, and two missing kinds take the same path.
* `k_thread_abort(NULL)` is undefined: it does nothing, or the kernel halts
  (`Halted`).  Since a panic is only reached before any thread was created, every
  abort in it is of this sort.
* Pins at reset are modelled as a duty of 0, enable off.
* A failing `ConfigureUart` or `ConfigureCan` changes nothing in the program: the
  first is only printed, the second not even looked at; without a filter the messenger
  hears nothing.
* The VESC is outside the repository.  It is taken to read an int32_t from a speed frame
  and thousandths from a servo position frame that carry its number (`VescReads`); its number
  is the constant `VescId`.
* The computer of the tbot is outside the repository.  It is taken to send what
  `tbot_protocol.md` says, and for a PWM a byte meant as either sign.

## 7. Divergences between code and text

Shown by runs: see the `findings` of `PROJECT.json`.

* `actuator_neutral`: `InitTbotActuators` writes a duty of -1.0 to channel 0; it is
  clipped to 0, full power of the inverted signal, which only the enable pin
  holds back, and enable is raised before the duty is written.
* `encoder_reverse`: `{true}` initialises the first flag only.

Met while modelling, not runs of their own: the protocol document calls PWM a
`uint8_t` (`tbot_protocol.md:15-16`), the code casts to `int8_t`
(`tbot_messenger.c:109-110`), so that 200 per cent arrive as -56; rpm commands are 32 bits on the bus
and 16 in `DesiredRpm` (`tbot_protocol.md:24-25`, `messenger_service.c:127-130`), so that
40000 rpm arrive as -25536 (`DeliveredAsSent` says exactly which numbers arrive); the right
speed is negated before it is narrowed, which for -2147483648 is an overflow of a signed
integer (the build wraps round, and 0 arrives either way); from
standstill the ramp is skipped (`motion_control_service.c:55`); the difference in
`ApplyMotionLimit` is an `int16_t` and wraps for reversals beyond 32767 rpm; a
channel outside 240..1807 is scaled beyond [-1, 1] (`sbus_receiver.c:54`
against `receiver_service.h:31`); after a lost byte the decoder can take parts
of two frames for one when the data has a 0x0f or 0x00 byte, and with a frame's
worth of bytes lost in a row it does so with any data (`sbus.c:57`);
`frame_loss` and `fault_protection` are decoded and read by nobody; on a stop or a
lost link the rccar sends no standstill, it only falls silent
(`messenger_service.c:140` of the rccar) although the coordinator puts zero
motions into the queue; `CanFrameToCmdPacket` compares `id` with `CAN_EFF_FLAG` set
(`vesc_cmd_parser.c:148-184`), a bit the 29-bit `id` of Zephyr's frame does not have, so that it
always returns false and the rccar understands no command, although
`rccar_vesc_protocol.md:20-27` lists six that come to it (this decoder is not
modelled, and no property leans on it); a short-buffer frame with another command
would be accepted with the packet unset (line 149); a wheel that stops after turning backwards,
or turns round, within an estimate gets the pulses of both directions with the sign of the
last reading (`encoder_service.c:125,148`); a raw speed beyond
`MAX_POSSIBLE_RPM` is published and goes into the low-pass, only the filtered one is held
(`encoder_service.c:168`); a motion that the rccar's messenger has taken before a stop
is still sent when the stop comes between (`OneAfterStop` counts it, `StaleOnce` does not);
in supervised mode the ramp stands still with its last target
(`motion_control_service.c:119`), so that afterwards it goes on from there
whatever the wheels do by then (what it promises is `RampLimited`,
relative to its own last target); `ShowRobotPanic` of the tbot does not abort speed
and motion control (`tbot_interface.c:257`), which is harmless only because
nothing can fail after they are started (`PanicIsStill`); PWM and rpm commands
from the bus are obeyed whatever the supervised mode or the e-stop says.

## 8. Not modelled, and the plan

| Part | Why |
|---|---|
| rccar servo and motor (`rccar_actuators.c`) | never started: `rccar_interface.c:71-89` is commented out |
| receiving thread of the rccar's messenger, `CanFrameToCmdPacket` | accepts no frame (section 7), and would do nothing with one |
| `VescSetDutyCycleCmdPacketToFrame`, `...Current...`, `...CurrentBrake...`, `...Position...` | called only by `Send...Cmd` functions without a caller |
| `ToggleDio`, `StartUartAsyncSend`, `StopUartAsyncReceive`, `IsEncoderCountingUp`, `ValidateSbusMessage` | no caller |
| frequency of the encoder's timer (`encoder_stm32.c`) | written, never read |
| IMU driver (`drivers/sensor/iam20680`) | no application uses it; registers and bus transfers |
| CANopen dictionary (`app/tbot/objdict`), `native_posix` | generated tables; a demo on a desktop's socket CAN |
| demos `blinky`, `encoder`, `hwconfig` | bring-up programs without state of their own |
| `robot/` | empty files |
| `boards`, `scripts`, `python` | configuration (of the device trees only the aliases are used, as `TbotDevices` and `RccarDevices`) and host tools |

What is left is configuration, third party, generated or never called: every
service that an application starts, its start and the drivers it calls are
modelled, and every safety property of the runs is proved.  What could still be
proved: the safety part of more refinements, of `SbusReceiver` (a box of whole frames) and of
the two messenger threads (boxes of commands and reports), so that the composed systems can
be stated over them as `TbotSystem` is over `CoordinatorPromise`; and the properties of the
rccar in a system with its receiver.
