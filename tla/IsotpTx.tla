------------------------------- MODULE IsotpTx -------------------------------
(***************************************************************************)
(* The segmenter of src/isotp/isotp_tx.c as operators on its context.      *)
(* Each returns the new context, the event and, when there is one, the     *)
(* frame the caller must put on the bus.                                   *)
(***************************************************************************)
EXTENDS Isotp

TxContext ==
  [state   : {"idle", "waitFC", "sending"},
   buffer  : Seq(Byte),
   total   : 0 .. MaxPayload,        \* total_length
   sent    : 0 .. MaxPayload,        \* sent_length
   sn      : 0 .. SnRange - 1,       \* next_sequence_number
   bs      : 0 .. ByteRange - 1,     \* block_size
   inBlock : 0 .. ByteRange - 1,     \* frames_in_block
   stmin   : Time,                   \* stmin_ms
   last    : Time,                   \* last_frame_time_ms
   since   : Time]                   \* wait_start_ms

NoFrame == [kind |-> "none"]

\* isotp_tx_go_idle; the two dates keep their values.
TxIdle(c) ==
  [c EXCEPT !.state = "idle", !.buffer = <<>>, !.total = 0, !.sent = 0,
            !.sn = 0, !.bs = 0, !.inBlock = 0, !.stmin = 0]

TxStart == [state |-> "idle", buffer |-> <<>>, total |-> 0, sent |-> 0,
            sn |-> 0, bs |-> 0, inBlock |-> 0, stmin |-> 0, last |-> 0,
            since |-> 0]

Says(c, event) == [ctx |-> c, event |-> event, frame |-> NoFrame]
Emits(c, f) == [ctx |-> c, event |-> "send", frame |-> f]

\* The bytes of m from position from + 1, padded to a whole frame.
Padded(m, from, size) ==
  [i \in 1 .. size |-> IF from + i <= Len(m) THEN m[from + i] ELSE Pad]

\* isotp_tx_start.
TxBegin(c, m, t) ==
  CASE c.state # "idle" -> Says(c, "busy")
    [] c.state = "idle" /\ Len(m) \notin 1 .. MaxPayload ->
         Says(c, "refused")
    [] c.state = "idle" /\ Len(m) \in 1 .. SFMax ->
         Emits(TxIdle(c), [kind |-> "SF", len |-> Len(m),
                           data |-> Padded(m, 0, SFMax)])
    [] c.state = "idle" /\ Len(m) \in FFMin .. MaxPayload ->
         Emits([c EXCEPT !.state = "waitFC", !.buffer = m,
                         !.total = Len(m), !.sent = FFData, !.sn = 1,
                         !.inBlock = 0, !.since = t, !.last = t],
               [kind |-> "FF", len |-> Len(m),
                data |-> SubSeq(m, 1, FFData)])

\* build_consecutive_frame: what it leaves behind it.
Advance(c) ==
  [c EXCEPT !.sent = @ + Smaller(CFData, c.total - c.sent),
            !.sn = NextSn(@), !.inBlock = NextByte(@)]

\* A block that is counted one frame too long.
BlockFullLate(c) == c.bs # 0 /\ c.inBlock > c.bs

BlockFull(c) == c.bs # 0 /\ c.inBlock >= c.bs

\* A sender that forgets the receiver's separation time.
NeverTooSoon(c, t) == FALSE

\* STmin has not elapsed since the last Consecutive Frame.
TooSoon(c, t) == Since(t, c.last) < c.stmin

\* A sender that waits for its Flow Control without a limit.
WaitsForever(c, t) == FALSE

TxLate(c, t) == Since(t, c.since) >= N_Bs

\* A frame filled after the position has moved past its bytes.
NextFrameLate(c) ==
  [kind |-> "CF", sn |-> c.sn,
   data |-> Padded(c.buffer, Advance(c).sent, CFData)]

NextFrame(c) ==
  [kind |-> "CF", sn |-> c.sn, data |-> Padded(c.buffer, c.sent, CFData)]

EmitNext(c, t) ==
  LET d == [Advance(c) EXCEPT !.last = t] IN
  Emits(IF d.sent >= d.total THEN TxIdle(d) ELSE d, NextFrame(c))

\* isotp_tx_poll.
TxPoll(c, t) ==
  CASE c.state = "idle" -> Says(c, "none")
    [] c.state = "waitFC" /\ TxLate(c, t) -> Says(TxIdle(c), "aborted")
    [] c.state = "waitFC" /\ ~TxLate(c, t) -> Says(c, "wait")
    [] c.state = "sending" /\ BlockFull(c) ->
         Says([c EXCEPT !.state = "waitFC", !.since = t, !.inBlock = 0],
              "wait")
    [] c.state = "sending" /\ ~BlockFull(c) ->
         IF TooSoon(c, t) THEN Says(c, "wait") ELSE EmitNext(c, t)

\* A Flow Control obeyed whether or not one is awaited.
UnsolicitedHeeded(c) == c.state # "idle"

Awaited(c) == c.state = "waitFC"

\* isotp_tx_on_flow_control: a CTS is antedated by STmin so that the first
\* Consecutive Frame leaves at once.
TxOnFlowControl(c, f, t) ==
  CASE ~Awaited(c) -> Says(c, "none")
    [] Awaited(c) /\ f.status = "continue" ->
         TxPoll([c EXCEPT !.bs = f.bs, !.stmin = f.stmin, !.inBlock = 0,
                          !.state = "sending",
                          !.last = Before(t, f.stmin)], t)
    [] Awaited(c) /\ f.status = "wait" ->
         Says([c EXCEPT !.since = t], "wait")
    [] Awaited(c) /\ f.status \in {"overflow", "malformed"} ->
         Says(TxIdle(c), "aborted")
=============================================================================
