-------------------------- MODULE TbotMessengerTx --------------------------
(***************************************************************************)
(* The sending thread of the tbot messenger                                *)
(* (service/robot_tbot/messenger/src/messenger_service.c).  A report of    *)
(* the speed controller leaves as three frames, one k_msgq_get before the  *)
(* first; the robot state leaves as a fourth.  A send may fail or time out *)
(* and is not repeated.  Meanwhile the other threads go on.                *)
(***************************************************************************)
EXTENDS TbotProtocol, Msgq

CONSTANTS Speeds,     \* pairs of wheel speeds, << left, right >>
          Modes,      \* supervised modes
          MaxReports, \* bound on the reports of one run
          TxDepth       \* capacity of the queues, 1

ASSUME SpeedsAssumption == Speeds \subseteq Int32 \X Int32
ASSUME ReportsAssumption == MaxReports \in Nat /\ TxDepth \in Nat \ {0}

VARIABLES
  control_feedback_msgq,  \* speed control -> messenger
  robot_state_msgq,       \* coordinator -> messenger
  pc,                     \* the next queue or CAN call
  speed_control_feedback, robot_state,
  bus,                    \* the frames that made it, the last of each kind
  failed,                 \* history: a frame of the current report was lost
  reports                 \* number of reports made so far

txVars == <<control_feedback_msgq, robot_state_msgq, pc,
          speed_control_feedback, robot_state, bus, failed, reports>>

NoFrame == [id |-> 0, data |-> << >>]
\* A SpeedControlFeedback; its number is history.
NoReport == [number |-> 0, raw |-> << 0, 0 >>, filtered |-> << 0, 0 >>,
             target |-> << 0, 0 >>]
SpeedIds == {EncoderRawId, EncoderFilteredId, TargetRpmId}
Ids == SpeedIds \cup {SupervisedStateId}

TxInit ==
  /\ control_feedback_msgq = << >> /\ robot_state_msgq = << >>
  /\ pc = "feedback"
  /\ speed_control_feedback = NoReport /\ robot_state = 0
  /\ bus = [id \in Ids |-> NoFrame]
  /\ failed = FALSE /\ reports = 0

-----------------------------------------------------------------------------

\* SendCanFrame: the frame reaches the bus, or the call fails or times out.
Send(frame) ==
  \/ bus' = [bus EXCEPT ![frame.id] = frame] /\ failed' = failed
  \/ bus' = bus /\ failed' = TRUE

GetFeedback ==
  /\ pc = "feedback" /\ ~MsgqEmpty(control_feedback_msgq)
  /\ speed_control_feedback' = MsgqGot(control_feedback_msgq)
  /\ control_feedback_msgq' = MsgqRest(control_feedback_msgq)
  /\ pc' = "raw" /\ failed' = FALSE
  /\ UNCHANGED <<robot_state_msgq, robot_state, bus, reports>>

SendSpeed(at, id, speed, next) ==
  /\ pc = at
  /\ Send(EncodeSpeed(id, speed[1], speed[2]))
  /\ pc' = next
  /\ UNCHANGED <<control_feedback_msgq, robot_state_msgq,
                 speed_control_feedback, robot_state, reports>>

SendRaw == SendSpeed("raw", EncoderRawId, speed_control_feedback.raw, "filtered")

\* Faulty variant: the filtered speeds are taken from the queue's newest report.
SendFilteredFresh ==
  SendSpeed("filtered", EncoderFilteredId,
    (IF MsgqEmpty(control_feedback_msgq) THEN speed_control_feedback
     ELSE MsgqGot(control_feedback_msgq)).filtered, "target")

SendFiltered ==
  SendSpeed("filtered", EncoderFilteredId, speed_control_feedback.filtered,
            "target")

SendTarget ==
  SendSpeed("target", TargetRpmId, speed_control_feedback.target, "feedback")

NoFeedback ==
  /\ pc = "feedback" /\ MsgqEmpty(control_feedback_msgq)
  /\ pc' = "state"
  /\ UNCHANGED <<control_feedback_msgq, robot_state_msgq,
                 speed_control_feedback, robot_state, bus, failed, reports>>

GetState ==
  /\ pc = "state" /\ ~MsgqEmpty(robot_state_msgq)
  /\ robot_state' = MsgqGot(robot_state_msgq)
  /\ robot_state_msgq' = MsgqRest(robot_state_msgq)
  /\ pc' = "send_state"
  /\ UNCHANGED <<control_feedback_msgq, speed_control_feedback, bus, failed,
                 reports>>

SendState ==
  /\ pc = "send_state"
  /\ \/ bus' = [bus EXCEPT ![SupervisedStateId] =
                  EncodeSupervisedState(robot_state)]
     \/ bus' = bus
  /\ pc' = "state"
  /\ UNCHANGED <<control_feedback_msgq, robot_state_msgq,
                 speed_control_feedback, robot_state, failed, reports>>

\* The queue is empty: the thread sleeps and starts again.
Sleep ==
  /\ pc = "state" /\ MsgqEmpty(robot_state_msgq)
  /\ pc' = "feedback"
  /\ UNCHANGED <<control_feedback_msgq, robot_state_msgq,
                 speed_control_feedback, robot_state, bus, failed, reports>>

-----------------------------------------------------------------------------
\* The speed controller and the coordinator.

Report(raw, filtered, target) ==
  /\ reports < MaxReports
  /\ reports' = reports + 1
  /\ control_feedback_msgq' =
       Overwrite(control_feedback_msgq,
                 [number |-> reports + 1, raw |-> raw, filtered |-> filtered,
                  target |-> target], TxDepth)
  /\ UNCHANGED <<robot_state_msgq, pc, speed_control_feedback, robot_state,
                 bus, failed>>

StateArrives(mode) ==
  /\ robot_state_msgq' = Overwrite(robot_state_msgq, mode, TxDepth)
  /\ UNCHANGED <<control_feedback_msgq, pc, speed_control_feedback,
                 robot_state, bus, failed, reports>>

TxThread ==
  \/ GetFeedback \/ SendRaw \/ SendFiltered \/ SendTarget \/ NoFeedback
  \/ GetState \/ SendState \/ Sleep

TxNext ==
  \/ TxThread
  \/ \E raw, filtered, target \in Speeds : Report(raw, filtered, target)
  \/ \E m \in Modes : StateArrives(m)

TxSpec == TxInit /\ [][TxNext]_txVars

\* Every call of the loop returns: the queues are polled, a send times out.
FairTx == TxSpec /\ WF_txVars(TxThread)

-----------------------------------------------------------------------------

Reports == [number : 1..MaxReports, raw : Speeds, filtered : Speeds,
            target : Speeds]

TxTypeOK ==
  /\ control_feedback_msgq \in Seq(Reports) /\ Len(control_feedback_msgq) <= TxDepth
  /\ speed_control_feedback \in Reports \cup {NoReport}
  /\ robot_state_msgq \in Seq(Modes) /\ Len(robot_state_msgq) <= TxDepth
  /\ pc \in {"feedback", "raw", "filtered", "target", "state", "send_state"}
  /\ robot_state \in Modes \cup {0}
  /\ \A id \in Ids : bus[id] = NoFrame \/ bus[id].id = id
  /\ failed \in BOOLEAN /\ reports \in 0..MaxReports

\* When no frame of a report is lost the three frames show one moment: the
\* computer reads, byte for byte, the speeds and the target of one report, though
\* new ones arrive while they are sent (messenger_service.c:173-220).
ReportIsWhole ==
  pc \in {"feedback", "state", "send_state"} /\ ~failed
    /\ speed_control_feedback # NoReport
      => LET reading(id) == << ReadSpeed(bus[id]).left, ReadSpeed(bus[id]).right >>
         IN /\ reading(EncoderRawId) = speed_control_feedback.raw
            /\ reading(EncoderFilteredId) = speed_control_feedback.filtered
            /\ reading(TargetRpmId) = speed_control_feedback.target

\* The last report made is sent, or lost on the bus, but never left waiting, as
\* long as the thread gets back to its first loop: a state comes every 20 ms and
\* its send waits 10 ms at most.  The bound MaxReports lets the report be
\* the last; with one in the queue after every third send (they may take 30 ms,
\* and reports come every 20) the thread would not leave its first loop
\* (messenger_service.c:172-236).
LastReportTaken ==
  []<>(pc = "feedback")
    => <>[](control_feedback_msgq = << >> /\ speed_control_feedback.number = reports)
=============================================================================
