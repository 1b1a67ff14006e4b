---------------------------- MODULE SbusReceiver ----------------------------
(***************************************************************************)
(* The receiver service: the UART's receive callback                       *)
(* (module/mcal/src/uart_interface.c) puts bytes into a ring buffer and    *)
(* gives a binary semaphore; the receiver thread                           *)
(* (service/common/receiver/src/sbus_receiver.c) takes the semaphore,      *)
(* empties the buffer byte by byte through the SBUS decoder                *)
(* (module/sbus/src/sbus.c) and sends every frame's channels to the        *)
(* coordinator.  The callback interrupts the thread anywhere.              *)
(***************************************************************************)
EXTENDS Sbus, Msgq

CONSTANTS Frames,     \* [channels, flags] that the transmitter sends
          Chunks,     \* sizes of the pieces the UART driver delivers
          RingSize,   \* of the ring buffer, 512
          MaxFrames,  \* bound on the frames sent in one run
          MaxLost,    \* bound on the bytes the line loses in one run
          RcDepth       \* capacity of the queue, 1

ASSUME LineAssumption ==
  /\ Frames # {} /\ Frames \subseteq SbusFrames
  /\ Chunks \subseteq 1..FrameLength /\ Chunks # {}
  /\ RingSize \in Nat \ {0} /\ MaxFrames \in Nat /\ MaxLost \in Nat
  /\ RcDepth \in Nat \ {0}

VARIABLES
  frame, position, sent,      \* the line: current frame, bytes of it gone,
                              \* frames sent
  lost,                       \* bytes that were sent and not stored
  ring_buffer, rx_sem,
  receiver_pc,                \* the thread waits or drains the buffer
  decode_state, data,         \* the decoder; its indexer is Len(data) - 1
  sbus_msg_buffer,
  rc_data_msgq_out,
  source,                     \* history: where the byte decoded last is from
  quiet                       \* history: all frames so far were quiet

line == <<frame, position, sent, lost, quiet>>
decoder == <<decode_state, data, sbus_msg_buffer>>
receiverVars == <<line, ring_buffer, rx_sem, receiver_pc, decoder,
                  rc_data_msgq_out, source>>

BytesOf == [f \in Frames |-> FrameBytes(f)]
NoMessage == [channels |-> << >>]

\* No byte of the frame's data looks like a head or a tail.
Quiet(f) == \A k \in 2..(FrameLength - 1) : BytesOf[f][k] \notin {FrameHead, FrameTail}

\* Where a byte is from, which is history: the k-th byte of the n-th frame.
Sources == [of : Frames, n : Nat, k : 0..FrameLength]
Here(k) == [of |-> frame, n |-> sent, k |-> k]

-----------------------------------------------------------------------------

ReceiverInit ==
  /\ frame \in Frames /\ position = 0 /\ sent = 0 /\ lost = 0
  /\ ring_buffer = << >> /\ rx_sem = 0 /\ receiver_pc = "wait"
  /\ decode_state = "WAIT_FOR_SOF" /\ data = << >>
  /\ sbus_msg_buffer = NoMessage
  /\ rc_data_msgq_out = << >> /\ source = Here(0) /\ quiet = Quiet(frame)

\* The line goes on to the last-th byte of the frame, or to the next frame.
Advance(last) ==
  IF last < FrameLength
    THEN position' = last /\ UNCHANGED <<frame, sent, quiet>>
    ELSE /\ position' = 0 /\ sent' = sent + 1 /\ frame' \in Frames
         /\ quiet' = (quiet /\ Quiet(frame'))

\* UART_RX_RDY: the next bytes of the line.  ring_buf_put stores what fits.
RxReady(n) ==
  /\ sent < MaxFrames
  /\ LET last == IF position + n < FrameLength THEN position + n ELSE FrameLength
         room == RingSize - Len(ring_buffer)
         stored == IF last - position < room THEN last - position ELSE room
     IN /\ ring_buffer' = ring_buffer \o
             [i \in 1..stored |-> [byte |-> BytesOf[frame][position + i],
                                   from |-> Here(position + i)]]
        /\ lost' = lost + (last - position) - stored
        /\ Advance(last)
  /\ rx_sem' = 1
  /\ UNCHANGED <<receiver_pc, decoder, rc_data_msgq_out, source>>

\* A byte is lost on the line.
LoseByte ==
  /\ lost < MaxLost /\ sent < MaxFrames
  /\ Advance(position + 1) /\ lost' = lost + 1
  /\ UNCHANGED <<ring_buffer, rx_sem, receiver_pc, decoder, rc_data_msgq_out,
                 source>>

-----------------------------------------------------------------------------
\* The thread.

TakeSem ==
  /\ receiver_pc = "wait" /\ rx_sem = 1
  /\ rx_sem' = 0 /\ receiver_pc' = "drain"
  /\ UNCHANGED <<line, ring_buffer, decoder, rc_data_msgq_out, source>>

\* Faulty variant: one byte for every semaphore.
DrainedOne == receiver_pc = "drain" /\ (ring_buffer = << >> \/ Len(data) = 1)

\* ring_buf_get returns 0.
Drained == receiver_pc = "drain" /\ ring_buffer = << >>

GoWait ==
  /\ Drained
  /\ receiver_pc' = "wait"
  /\ UNCHANGED <<line, ring_buffer, rx_sem, decoder, rc_data_msgq_out, source>>

\* A channel as the pair of numerator and denominator, [-1, 1] over
\* 240..1807 around 1023.
Scaled(raw) ==
  << raw - 1023, IF raw > 1023 THEN 1807 - 1023 ELSE 1023 - 240 >>

\* The first 8 channels go to the coordinator; the flags go nowhere.
ReceiverData(msg) == [i \in 1..8 |-> Scaled(msg.channels[i])]

\* Faulty variant: the payload is one byte short.
PayloadEndsEarly(n) == n = FrameLength - 2

\* The payload is complete with its n-th byte, the head included.
PayloadEnds(n) == n = FrameLength - 1

\* Faulty variant: the last byte of a frame is not looked at.
FrameEndsAnyhow(ch) == ch \in Uint8

FrameEnds(ch) == ch = FrameTail

SbusDecode(ch) ==
  CASE decode_state = "WAIT_FOR_SOF" ->
         /\ IF ch = FrameHead
              THEN decode_state' = "WAIT_FOR_PAYLOAD" /\ data' = << ch >>
              ELSE decode_state' = decode_state /\ data' = << >>
         /\ UNCHANGED <<sbus_msg_buffer, rc_data_msgq_out>>
    [] decode_state = "WAIT_FOR_PAYLOAD" ->
         /\ data' = Append(data, ch)
         /\ decode_state' =
              IF PayloadEnds(Len(data')) THEN "WAIT_FOR_EOF" ELSE decode_state
         /\ UNCHANGED <<sbus_msg_buffer, rc_data_msgq_out>>
    [] decode_state = "WAIT_FOR_EOF" ->
         /\ decode_state' = "WAIT_FOR_SOF"
         /\ IF FrameEnds(ch)
              THEN /\ data' = Append(data, ch)
                   /\ sbus_msg_buffer' = SbusBuildMessage(data')
                   /\ rc_data_msgq_out' = Overwrite(rc_data_msgq_out,
                                        ReceiverData(sbus_msg_buffer'), RcDepth)
              ELSE UNCHANGED <<data, sbus_msg_buffer, rc_data_msgq_out>>

ProcessByte ==
  /\ receiver_pc = "drain" /\ ring_buffer # << >>
  /\ SbusDecode(Head(ring_buffer).byte)
  /\ source' = Head(ring_buffer).from
  /\ ring_buffer' = Tail(ring_buffer)
  /\ UNCHANGED <<line, rx_sem, receiver_pc>>

\* The coordinator polls the queue.
DataTaken ==
  /\ ~MsgqEmpty(rc_data_msgq_out)
  /\ rc_data_msgq_out' = MsgqRest(rc_data_msgq_out)
  /\ UNCHANGED <<line, ring_buffer, rx_sem, receiver_pc, decoder, source>>

ReceiverThread == TakeSem \/ GoWait \/ ProcessByte

ReceiverNext ==
  \/ \E n \in Chunks : RxReady(n)
  \/ LoseByte \/ ReceiverThread \/ DataTaken

ReceiverSpec == ReceiverInit /\ [][ReceiverNext]_receiverVars

\* The thread has the highest priority of all; the transmitter keeps sending.
FairReceiver ==
  /\ ReceiverSpec
  /\ WF_receiverVars(ReceiverThread)
  /\ WF_receiverVars(\E n \in Chunks : RxReady(n))

-----------------------------------------------------------------------------

ReceiverTypeOK ==
  /\ frame \in Frames /\ position \in 0..(FrameLength - 1) /\ sent \in 0..MaxFrames
  /\ lost \in Nat /\ quiet \in BOOLEAN
  /\ ring_buffer \in Seq([byte : Uint8, from : Sources])
  /\ Len(ring_buffer) <= RingSize /\ rx_sem \in 0..1
  /\ receiver_pc \in {"wait", "drain"}
  /\ decode_state \in {"WAIT_FOR_SOF", "WAIT_FOR_PAYLOAD", "WAIT_FOR_EOF"}
  /\ data \in Seq(Uint8) /\ Len(data) <= FrameLength
  /\ Len(rc_data_msgq_out) <= RcDepth /\ source \in Sources

\* No wakeup is lost between the thread's last look into the ring buffer and its
\* wait for the binary semaphore (sbus_receiver.c:45-47,
\* uart_interface.c:167-171).
NoLostWakeup ==
  receiver_pc = "wait" /\ ring_buffer # << >> => rx_sem = 1

\* A message is a frame the transmitter sent, channel by channel and flag by
\* flag: always when nothing was lost, and with bytes lost, on the line or in a full
\* ring, as long as these are fewer than a frame has and the data of no frame has a
\* byte that looks like a head or a tail (sbus.c:35-122).  The decoder needs both
\* conditions: it takes any such byte for what it looks like, and the beginning of a
\* frame with the rest of the next one for a frame.
FramesIntact ==
  (lost = 0 \/ (quiet /\ lost < FrameLength)) /\ Len(data) = FrameLength =>
    sbus_msg_buffer = MessageOf(source.of)

\* When the ring never fills up the thread keeps up with the line, and when the
\* line loses nothing the last frame reaches the coordinator's queue
\* (sbus_receiver.c:44-88).
LastFrameArrives ==
  <>[](/\ sent = MaxFrames /\ ring_buffer = << >>
       /\ lost = 0 => decode_state = "WAIT_FOR_SOF" /\ Len(data) = FrameLength)
=============================================================================
