------------------------------- MODULE IsotpRx -------------------------------
(***************************************************************************)
(* The reassembler of src/isotp/isotp_rx.c as operators on its context:    *)
(* what one frame, or one look at the N_Cr timer, makes of it and what it  *)
(* tells the caller.  Reassembly gives these operators a clock and an      *)
(* environment; DiagLink runs two of them against each other.              *)
(***************************************************************************)
EXTENDS Isotp

RxContext ==
  [state    : {"idle", "wait"},
   expected : 0 .. MaxPayload,       \* expected_length
   received : 0 .. MaxPayload,       \* received_length
   sn       : 0 .. SnRange - 1,      \* next_sequence_number
   last     : Time,                  \* last_frame_time_ms
   buffer   : Seq(Byte)]             \* the first received_length bytes

\* isotp_rx_result_t: fc is the FlowStatus to answer with, if any.
RxOut ==
  [event   : {"none", "flowControl", "ready", "aborted"},
   message : Seq(Byte),
   fc      : {"none", "continue", "overflow"}]

Quiet == [event |-> "none", message |-> <<>>, fc |-> "none"]
Aborted == [Quiet EXCEPT !.event = "aborted"]
Ready(m) == [Quiet EXCEPT !.event = "ready", !.message = m]
Control(status) == [Quiet EXCEPT !.event = "flowControl", !.fc = status]

RxIdle(c) ==
  [c EXCEPT !.state = "idle", !.expected = 0, !.received = 0, !.sn = 0,
            !.buffer = <<>>]

RxStart == [state |-> "idle", expected |-> 0, received |-> 0, sn |-> 0,
            last |-> 0, buffer |-> <<>>]

Ignore(c) == [ctx |-> c, out |-> Quiet]
Abort(c) == [ctx |-> RxIdle(c), out |-> Aborted]

\* A Single Frame delivered with its padding.
ContentPadded(f) == f.data

Content(f) == SubSeq(f.data, 1, f.len)

\* A reassembler that waits for its transfer to end before it hears anything
\* else.
OnSingleWhenIdle(c, f) ==
  IF c.state = "wait" \/ f.len \notin 1 .. SFMax \/ f.len > Len(f.data)
  THEN Ignore(c)
  ELSE [ctx |-> RxIdle(c), out |-> Ready(Content(f))]

\* A complete message replaces whatever was being assembled; a malformed
\* frame disturbs nothing.
OnSingle(c, f) ==
  IF f.len \notin 1 .. SFMax \/ f.len > Len(f.data)
  THEN Ignore(c)
  ELSE [ctx |-> [RxIdle(c) EXCEPT !.expected = f.len, !.received = f.len,
                                  !.buffer = Content(f)],
        out |-> Ready(Content(f))]

\* A First Frame that leaves a running transfer's progress in place.
OpenKeepingSn(c, f) ==
  [c EXCEPT !.state = "wait", !.expected = f.len,
            !.received = Len(f.data), !.buffer = f.data]

\* The transfer a First Frame opens, over one that was running or not.
Open(c, f) ==
  [c EXCEPT !.state = "wait", !.expected = f.len,
            !.received = Len(f.data), !.sn = 1, !.buffer = f.data]

OnFirst(c, f) ==
  CASE f.len < FFMin      -> Ignore(c)
    [] f.len > MaxPayload -> [ctx |-> RxIdle(c), out |-> Control("overflow")]
    [] f.len \in FFMin .. MaxPayload /\ f.data = <<>> -> Ignore(c)
    [] OTHER -> [ctx |-> Open(c, f), out |-> Control("continue")]

\* The bytes of a Consecutive Frame the message still lacks.
Chunk(c, f) ==
  SubSeq(f.data, 1, Smaller(Len(f.data), c.expected - c.received))

Extended(c, f) ==
  [c EXCEPT !.received = @ + Len(Chunk(c, f)), !.sn = NextSn(@),
            !.buffer = @ \o Chunk(c, f)]

\* A reassembler that takes any Consecutive Frame for the next one.
AnyOrder(c, f) == TRUE

InOrder(c, f) == f.sn = c.sn

OnConsecutive(c, f) ==
  LET d == Extended(c, f) IN
  CASE c.state # "wait" \/ f.data = <<>> -> Ignore(c)
    [] c.state = "wait" /\ f.data # <<>> /\ ~InOrder(c, f) -> Abort(c)
    [] c.state = "wait" /\ f.data # <<>> /\ InOrder(c, f) ->
         IF c.received + Len(Chunk(c, f)) > MaxPayload THEN Abort(c)
         ELSE IF d.received >= d.expected
         THEN [ctx |-> RxIdle(d),
               out |-> Ready(SubSeq(d.buffer, 1, d.expected))]
         ELSE [ctx |-> d, out |-> Quiet]

\* Any frame with at least one byte restarts N_Cr, useful or not.
Stamp(c, f, t) == [c EXCEPT !.last = t]

\* isotp_rx_process.
RxProcess(c, f, t) ==
  CASE f.kind = "empty" -> Ignore(c)
    [] f.kind = "SF"    -> OnSingle(Stamp(c, f, t), f)
    [] f.kind = "FF"    -> OnFirst(Stamp(c, f, t), f)
    [] f.kind = "CF"    -> OnConsecutive(Stamp(c, f, t), f)
    [] f.kind \in {"FC", "other"} -> Ignore(Stamp(c, f, t))

\* A timer that compares dates instead of durations.
LateByDate(c, t) == c.state = "wait" /\ t >= AfterUnwrapped(c.last, N_Cr)

RxLate(c, t) == c.state = "wait" /\ Since(t, c.last) >= N_Cr

\* isotp_rx_poll_timeout.
RxPoll(c, t) == IF RxLate(c, t) THEN Abort(c) ELSE Ignore(c)
=============================================================================
