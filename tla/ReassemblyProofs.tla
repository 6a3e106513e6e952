-------------------------- MODULE ReassemblyProofs ---------------------------
(***************************************************************************)
(* The reassembler's buffer, for every frame size, capacity and modulus:   *)
(* whatever arrives, it holds exactly what was heard since the First Frame *)
(* and never more than was announced, and what it delivers is what was     *)
(* announced.  The two invariants the runs check are inductive together.   *)
(***************************************************************************)
EXTENDS Reassembly, TLAPS

(***************************************************************************)
(* Counting modulo SnRange.                                                *)
(***************************************************************************)

\* A multiple of R that is not null is at least R away from zero.
LEMMA Multiple ==
  ASSUME NEW R \in Nat, R >= 2, NEW d \in Int, d >= 1
  PROVE  R * d >= R
BY Z3

\* A remainder is determined by its range.
LEMMA ModUnique ==
  ASSUME NEW R \in Nat, R >= 2, NEW n \in Nat, NEW q \in Int,
         NEW s \in 0 .. R - 1, n = R * q + s
  PROVE  n % R = s
<1> DEFINE p == n \div R
           t == n % R
<1>1. p \in Int /\ t \in 0 .. R - 1 /\ n = R * p + t
  BY Z3
<1> HIDE DEF p, t
<1>2. R * (p - q) = s - t
  BY <1>1, Z3
<1>3. R * (q - p) = t - s
  BY <1>1, Z3
<1>4. ~(p - q >= 1)
  BY <1>1, <1>2, Multiple, Z3
<1>5. ~(q - p >= 1)
  BY <1>1, <1>3, Multiple, Z3
<1>6. p = q
  BY <1>1, <1>4, <1>5, Z3
<1> QED BY <1>1, <1>6, Z3 DEF t

\* The sequence number's wrap (next_sequence_number + 1) & 0x0F is the
\* successor modulo SnRange.
LEMMA SnSuccessor ==
  ASSUME NEW n \in Nat
  PROVE  /\ n % SnRange \in 0 .. SnRange - 1
         /\ NextSn(n % SnRange) = (n + 1) % SnRange
         /\ 1 % SnRange = 1
<1> DEFINE R == SnRange
           q == n \div R
           r == n % R
<1>0. R \in Nat /\ R >= 2
  BY FrameAssumption
<1> HIDE DEF R
<1>1. q \in Int /\ r \in 0 .. R - 1 /\ n = R * q + r
  BY <1>0, Z3
<1>2. 1 % R = 1
  BY <1>0, Z3
<1> HIDE DEF q, r
<1>3. CASE r + 1 = R
  <2>1. n + 1 \in Nat /\ q + 1 \in Int /\ 0 \in 0 .. R - 1
    BY <1>0, <1>1, Z3
  <2>2. n + 1 = R * (q + 1) + 0
    BY <1>0, <1>1, <1>3, Z3
  <2>3. (n + 1) % R = 0
    BY <1>0, <2>1, <2>2, ModUnique
  <2> QED BY <1>1, <1>2, <1>3, <2>3 DEF r, R, NextSn
<1>4. CASE r + 1 # R
  <2>1. n + 1 \in Nat /\ r + 1 \in 0 .. R - 1
    BY <1>0, <1>1, <1>4, Z3
  <2>2. n + 1 = R * q + (r + 1)
    BY <1>0, <1>1, Z3
  <2>3. (n + 1) % R = r + 1
    BY <1>0, <1>1, <2>1, <2>2, ModUnique
  <2> QED BY <1>1, <1>2, <1>4, <2>3 DEF r, R, NextSn
<1> QED BY <1>3, <1>4

(***************************************************************************)
(* What each handler makes of a context.                                   *)
(***************************************************************************)

Transfers == [heard : Seq(Byte), frames : Nat, announced : 0 .. MaxPayload]

\* A context that waits holds exactly the transfer t.
Holds(c, t) ==
  c.state = "wait" =>
    /\ c.buffer = t.heard
    /\ c.received = Len(c.buffer)
    /\ c.expected = t.announced
    /\ c.received < c.expected /\ c.expected <= MaxPayload
    /\ c.sn = (t.frames + 1) % SnRange

\* The transfer open after frame f, out of a transfer t in context c.
HeardAfter(c, t, f) ==
  CASE f.kind = "FF" /\ f.len \in FFMin .. MaxPayload /\ f.data # <<>> ->
         [heard |-> f.data, frames |-> 0, announced |-> f.len]
    [] f.kind = "CF" /\ c.state = "wait" /\ f.data # <<>> ->
         [t EXCEPT !.heard = @ \o f.data, !.frames = @ + 1]
    [] OTHER -> t

Fine(r, t) == r.ctx \in RxContext /\ r.out \in RxOut /\ Holds(r.ctx, t)

\* The verdicts that carry no message.
LEMMA PlainOutcomes ==
  /\ <<>> \in Seq(Byte) /\ Len(<<>>) = 0
  /\ Quiet \in RxOut /\ Aborted \in RxOut
  /\ Control("continue") \in RxOut /\ Control("overflow") \in RxOut
<1>1. <<>> \in Seq(Byte) /\ Len(<<>>) = 0
  OBVIOUS
<1>2. Quiet \in RxOut
  BY DEF Quiet, RxOut
<1>3. Aborted \in RxOut
  BY <1>2 DEF Aborted, RxOut
<1>4. \A s \in {"continue", "overflow"} : Control(s) \in RxOut
  BY <1>2 DEF Control, RxOut
<1> QED BY <1>1, <1>2, <1>3, <1>4

LEMMA ReadySound ==
  ASSUME NEW m \in Seq(Byte)
  PROVE  Ready(m) \in RxOut
BY PlainOutcomes DEF Ready, RxOut

\* Giving up, or dating a frame, keeps a context well formed.
LEMMA RxIdleSound ==
  ASSUME NEW c \in RxContext
  PROVE  RxIdle(c) \in RxContext /\ RxIdle(c).state = "idle"
<1>1. 0 \in 0 .. MaxPayload /\ 0 \in 0 .. SnRange - 1
  BY FrameAssumption
<1>2. RxIdle(c) \in RxContext
  BY <1>1, PlainOutcomes DEF RxIdle, RxContext
<1>3. RxIdle(c).state = "idle"
  BY DEF RxIdle, RxContext
<1> QED BY <1>2, <1>3

\* A context given a message whole.
LEMMA FilledSound ==
  ASSUME NEW c \in RxContext, NEW n \in 0 .. MaxPayload, NEW m \in Seq(Byte)
  PROVE  /\ [c EXCEPT !.expected = n, !.received = n, !.buffer = m]
              \in RxContext
         /\ [c EXCEPT !.expected = n, !.received = n, !.buffer = m].state
              = c.state
<1>1. [c EXCEPT !.expected = n, !.received = n, !.buffer = m] \in RxContext
  BY DEF RxContext
<1>2. [c EXCEPT !.expected = n, !.received = n, !.buffer = m].state = c.state
  BY DEF RxContext
<1> QED BY <1>1, <1>2

LEMMA IdleIsFine ==
  ASSUME NEW c \in RxContext, NEW t
  PROVE  /\ Fine(Abort(c), t)
         /\ Fine([ctx |-> RxIdle(c), out |-> Control("overflow")], t)
         /\ Holds(c, t) => Fine(Ignore(c), t)
BY RxIdleSound, PlainOutcomes DEF Fine, Ignore, Abort, Holds

LEMMA StampIsFine ==
  ASSUME NEW c \in RxContext, NEW t, NEW f, NEW n \in Time, Holds(c, t)
  PROVE  /\ Stamp(c, f, n) \in RxContext /\ Holds(Stamp(c, f, n), t)
         /\ Stamp(c, f, n).state = c.state
BY DEF RxContext, Stamp, Holds

LEMMA SingleIsFine ==
  ASSUME NEW c \in RxContext, NEW t \in Transfers, Holds(c, t),
         NEW f \in SingleFrames
  PROVE  Fine(OnSingle(c, f), t)
<1>1. CASE f.len \notin 1 .. SFMax \/ f.len > Len(f.data)
  BY <1>1, IdleIsFine DEF OnSingle
<1>2. CASE f.len \in 1 .. SFMax /\ f.len <= Len(f.data)
  <2> DEFINE m == Content(f)
  <2>1. /\ f.data \in Seq(Byte) /\ f.len \in Nat /\ m \in Seq(Byte)
        /\ f.len \in 0 .. MaxPayload
    BY <1>2, FrameAssumption DEF Content, SingleFrames, AtMost, SFMax
  <2> HIDE DEF m
  <2>2. /\ OnSingle(c, f).ctx = [RxIdle(c) EXCEPT !.expected = f.len,
                                                  !.received = f.len,
                                                  !.buffer = m]
        /\ OnSingle(c, f).out = Ready(m)
    BY <1>2, <2>1 DEF OnSingle, m, SingleFrames
  <2>3. Ready(m) \in RxOut
    BY <2>1 DEF Ready, Quiet, RxOut
  <2>4. OnSingle(c, f).ctx \in RxContext /\ OnSingle(c, f).ctx.state = "idle"
    <3>1. RxIdle(c) \in RxContext /\ RxIdle(c).state = "idle"
      BY RxIdleSound
    <3>2. /\ [RxIdle(c) EXCEPT !.expected = f.len, !.received = f.len,
                               !.buffer = m] \in RxContext
          /\ [RxIdle(c) EXCEPT !.expected = f.len, !.received = f.len,
                               !.buffer = m].state = RxIdle(c).state
      BY <2>1, <3>1, FilledSound, Zenon
    <3> QED BY <2>2, <3>1, <3>2, Zenon
  <2> QED BY <2>2, <2>3, <2>4 DEF Fine, Holds
<1> QED BY <1>1, <1>2 DEF SingleFrames

LEMMA FirstIsFine ==
  ASSUME NEW c \in RxContext, NEW t \in Transfers, Holds(c, t),
         NEW f \in FirstFrames
  PROVE  Fine(OnFirst(c, f), HeardAfter(c, t, f))
<1>0. f.kind = "FF" /\ f.len \in Nat /\ f.data \in Seq(Byte)
      /\ Len(f.data) <= FrameSize - 2
  BY DEF FirstFrames, AtMost, FFData
<1>1. CASE f.len < FFMin
  <2>1. HeardAfter(c, t, f) = t
    BY <1>0, <1>1, FrameAssumption DEF HeardAfter, FFMin
  <2> QED BY <1>1, <2>1, IdleIsFine DEF OnFirst
<1>2. CASE f.len >= FFMin /\ f.len > MaxPayload
  BY <1>0, <1>2, IdleIsFine, FrameAssumption DEF OnFirst, FFMin
<1>3. CASE f.len \in FFMin .. MaxPayload /\ f.data = <<>>
  <2>1. HeardAfter(c, t, f) = t
    BY <1>0, <1>3 DEF HeardAfter
  <2> QED BY <1>0, <1>3, <2>1, IdleIsFine, FrameAssumption DEF OnFirst, FFMin
<1>4. CASE f.len \in FFMin .. MaxPayload /\ f.data # <<>>
  <2>1. HeardAfter(c, t, f) =
          [heard |-> f.data, frames |-> 0, announced |-> f.len]
    BY <1>0, <1>4 DEF HeardAfter
  <2>2. OnFirst(c, f) = [ctx |-> Open(c, f), out |-> Control("continue")]
    BY <1>0, <1>4, FrameAssumption DEF OnFirst, FFMin
  <2>3. /\ Len(f.data) \in 0 .. MaxPayload /\ Len(f.data) < f.len
        /\ f.len \in 0 .. MaxPayload /\ 1 \in 0 .. SnRange - 1
    BY <1>0, <1>4, FrameAssumption DEF FFMin
  <2>4. Open(c, f) \in RxContext
    BY <1>0, <2>3 DEF Open, RxContext
  <2>5. Holds(Open(c, f), HeardAfter(c, t, f))
    <3>1. 1 = (0 + 1) % SnRange
      BY SnSuccessor, 0 + 1 = 1
    <3> QED BY <2>1, <2>3, <3>1 DEF Open, Holds, RxContext
  <2>6. Control("continue") \in RxOut
    BY PlainOutcomes
  <2> QED BY <2>2, <2>4, <2>5, <2>6 DEF Fine
<1> QED BY <1>0, <1>1, <1>2, <1>3, <1>4, FrameAssumption DEF FFMin

\* What a Consecutive Frame in its place adds: its bytes, up to the end of
\* the message, which they never pass.
LEMMA ChunkFits ==
  ASSUME NEW c \in RxContext, NEW t \in Transfers, Holds(c, t),
         c.state = "wait", NEW f \in ConsecutiveFrames, f.data # <<>>
  PROVE  /\ Chunk(c, f) \in Seq(Byte) /\ Len(Chunk(c, f)) \in Nat \ {0}
         /\ c.received + Len(Chunk(c, f)) <= c.expected
         /\ c.received + Len(Chunk(c, f)) < c.expected => Chunk(c, f) = f.data
<1> DEFINE d == f.data
           k == Smaller(Len(d), c.expected - c.received)
<1>1. d \in Seq(Byte) /\ Len(d) \in Nat \ {0}
  BY DEF ConsecutiveFrames, AtMost
<1>2. c.expected \in Nat /\ c.received \in Nat /\ c.received < c.expected
  BY FrameAssumption DEF RxContext, Holds
<1> HIDE DEF d
<1>3. /\ k \in 1 .. Len(d) /\ c.received + k <= c.expected
      /\ c.received + k < c.expected => k = Len(d)
  BY <1>1, <1>2 DEF Smaller
<1> HIDE DEF k
<1>4. SubSeq(d, 1, k) \in Seq(Byte) /\ Len(SubSeq(d, 1, k)) = k
  BY <1>1, <1>3
<1>5. k = Len(d) => SubSeq(d, 1, k) = d
  BY <1>1
<1>6. Chunk(c, f) = SubSeq(d, 1, k)
  BY DEF Chunk, d, k
<1> QED BY <1>1, <1>2, <1>3, <1>4, <1>5, <1>6 DEF d

LEMMA ExtendedSound ==
  ASSUME NEW c \in RxContext, NEW t \in Transfers, Holds(c, t),
         c.state = "wait", NEW f \in ConsecutiveFrames, f.data # <<>>
  PROVE  /\ Extended(c, f) \in RxContext
         /\ Extended(c, f).state = "wait"
         /\ Extended(c, f).expected = c.expected
         /\ Extended(c, f).received = c.received + Len(Chunk(c, f))
         /\ Extended(c, f).buffer = c.buffer \o Chunk(c, f)
         /\ Extended(c, f).sn = NextSn(c.sn)
         /\ Extended(c, f).last = c.last
<1> DEFINE k == Chunk(c, f)
           n == c.received + Len(k)
           s == NextSn(c.sn)
           b == c.buffer \o k
<1>1. k \in Seq(Byte) /\ n \in 0 .. MaxPayload
  BY ChunkFits, FrameAssumption DEF RxContext, Holds
<1>2. s \in 0 .. SnRange - 1
  BY FrameAssumption DEF RxContext, NextSn
<1>3. b \in Seq(Byte)
  BY <1>1 DEF RxContext
<1>4. Extended(c, f) = [c EXCEPT !.received = n, !.sn = s, !.buffer = b]
  BY DEF Extended, n, s, b, k
<1> HIDE DEF k, n, s, b
<1>5. [c EXCEPT !.received = n, !.sn = s, !.buffer = b] \in RxContext
  BY <1>1, <1>2, <1>3 DEF RxContext
<1>6. \A d : d = [c EXCEPT !.received = n, !.sn = s, !.buffer = b] =>
        /\ d.state = c.state /\ d.expected = c.expected /\ d.last = c.last
        /\ d.received = n /\ d.sn = s /\ d.buffer = b
  BY DEF RxContext
<1> QED BY <1>4, <1>5, <1>6 DEF n, s, b, k

LEMMA ConsecutiveIsFine ==
  ASSUME NEW c \in RxContext, NEW t \in Transfers, Holds(c, t),
         NEW f \in ConsecutiveFrames
  PROVE  Fine(OnConsecutive(c, f), HeardAfter(c, t, f))
<1>0. f.kind = "CF" /\ f.data \in Seq(Byte)
  BY DEF ConsecutiveFrames, AtMost
<1>1. CASE c.state # "wait" \/ f.data = <<>>
  <2>1. HeardAfter(c, t, f) = t
    BY <1>0, <1>1 DEF HeardAfter
  <2>2. OnConsecutive(c, f) = Ignore(c)
    BY <1>1 DEF OnConsecutive
  <2> QED BY <2>1, <2>2, IdleIsFine
<1>2. CASE c.state = "wait" /\ f.data # <<>> /\ ~InOrder(c, f)
  <2>1. OnConsecutive(c, f) = Abort(c)
    BY <1>2 DEF OnConsecutive
  <2> QED BY <2>1, IdleIsFine
<1>3. CASE c.state = "wait" /\ f.data # <<>> /\ InOrder(c, f)
  <2> DEFINE d == Extended(c, f)
             k == Chunk(c, f)
             u == HeardAfter(c, t, f)
  <2>1. /\ u.heard = t.heard \o f.data /\ u.frames = t.frames + 1
        /\ u.announced = t.announced
    BY <1>0, <1>3 DEF HeardAfter, Transfers
  <2>2. /\ d \in RxContext /\ d.state = "wait" /\ d.expected = c.expected
        /\ d.received = c.received + Len(k) /\ d.buffer = c.buffer \o k
        /\ d.sn = NextSn(c.sn)
    BY <1>3, ExtendedSound
  <2>3. /\ k \in Seq(Byte) /\ Len(k) \in Nat /\ c.received + Len(k) <= c.expected
        /\ c.received + Len(k) < c.expected => k = f.data
    BY <1>3, ChunkFits
  <2>4. /\ c.buffer = t.heard /\ c.received = Len(c.buffer)
        /\ c.expected = t.announced /\ c.expected <= MaxPayload
        /\ c.sn = (t.frames + 1) % SnRange
        /\ c.received \in Nat /\ c.expected \in Nat /\ c.buffer \in Seq(Byte)
    BY <1>3, FrameAssumption DEF Holds, RxContext
  <2>5. ~(c.received + Len(k) > MaxPayload)
    BY <2>3, <2>4, FrameAssumption
  <2>6. CASE d.received >= d.expected
    <3> DEFINE m == SubSeq(d.buffer, 1, d.expected)
    <3>1. OnConsecutive(c, f) = [ctx |-> RxIdle(d), out |-> Ready(m)]
      BY <1>3, <2>5, <2>6 DEF OnConsecutive
    <3>2. m \in Seq(Byte)
      <4>1. d.buffer \in Seq(Byte) /\ Len(d.buffer) = d.received
        BY <2>2, <2>3, <2>4
      <4>2. d.expected \in 0 .. Len(d.buffer)
        BY <2>2, <2>3, <2>4, <2>6, <4>1
      <4> QED BY <4>1, <4>2
    <3> HIDE DEF m, d
    <3>3. Ready(m) \in RxOut
      BY <3>2, ReadySound
    <3>4. RxIdle(d) \in RxContext /\ RxIdle(d).state = "idle"
      BY <2>2, RxIdleSound
    <3> QED BY <3>1, <3>3, <3>4 DEF Fine, Holds
  <2>7. CASE ~(d.received >= d.expected)
    <3>1. OnConsecutive(c, f) = [ctx |-> d, out |-> Quiet]
      BY <1>3, <2>5, <2>7 DEF OnConsecutive
    <3>2. c.received + Len(k) < c.expected /\ k = f.data
      BY <2>2, <2>3, <2>4, <2>7
    <3>3. d.buffer = u.heard /\ d.received = Len(d.buffer)
      BY <2>1, <2>2, <2>3, <2>4, <3>2
    <3>4. d.sn = (u.frames + 1) % SnRange
      <4>1. t.frames + 1 \in Nat
        BY DEF Transfers
      <4> QED BY <2>1, <2>2, <2>4, <4>1, SnSuccessor
    <3>5. d.expected = u.announced /\ d.received < d.expected
          /\ d.expected <= MaxPayload
      BY <2>1, <2>2, <2>4, <3>2
    <3> HIDE DEF d, u
    <3>6. Holds(d, u)
      BY <3>3, <3>4, <3>5 DEF Holds
    <3> QED BY <2>2, <3>1, <3>6, PlainOutcomes DEF Fine, u
  <2> QED BY <2>6, <2>7
<1> QED BY <1>1, <1>2, <1>3

\* The transfer recorded after a frame is well formed, and dating a context
\* does not change which frames open or continue a transfer.
LEMMA HeardAfterSound ==
  ASSUME NEW c \in RxContext, NEW t \in Transfers, NEW f \in Frame,
         NEW n \in Time
  PROVE  /\ HeardAfter(c, t, f) \in Transfers
         /\ HeardAfter(Stamp(c, f, n), t, f) = HeardAfter(c, t, f)
<1>1. CASE f.kind = "FF" /\ f.len \in FFMin .. MaxPayload /\ f.data # <<>>
  <2>1. f.data \in Seq(Byte) /\ f.len \in 0 .. MaxPayload
    BY <1>1, FrameAssumption
    DEF Frame, FirstFrames, SingleFrames, ConsecutiveFrames, FlowControls,
        OtherFrames, AtMost, FFMin
  <2>2. \A d : HeardAfter(d, t, f) =
                 [heard |-> f.data, frames |-> 0, announced |-> f.len]
    BY <1>1 DEF HeardAfter
  <2> QED BY <2>1, <2>2 DEF Transfers
<1>2. CASE f.kind = "CF" /\ c.state = "wait" /\ f.data # <<>>
  <2>1. f.data \in Seq(Byte)
    BY <1>2
    DEF Frame, FirstFrames, SingleFrames, ConsecutiveFrames, FlowControls,
        OtherFrames, AtMost
  <2>2. Stamp(c, f, n).state = "wait"
    BY <1>2 DEF Stamp, RxContext
  <2>3. \A d : d.state = "wait" =>
          HeardAfter(d, t, f) =
            [t EXCEPT !.heard = @ \o f.data, !.frames = @ + 1]
    BY <1>2 DEF HeardAfter
  <2>4. t.heard \o f.data \in Seq(Byte) /\ t.frames + 1 \in Nat
    BY <2>1 DEF Transfers
  <2>5. [t EXCEPT !.heard = @ \o f.data, !.frames = @ + 1] \in Transfers
    <3>1. \A h \in Seq(Byte), k \in Nat :
            [t EXCEPT !.heard = h, !.frames = k] \in Transfers
      BY DEF Transfers
    <3> QED BY <2>4, <3>1
  <2> QED BY <1>2, <2>2, <2>3, <2>5
<1>3. CASE /\ ~(f.kind = "FF" /\ f.len \in FFMin .. MaxPayload /\ f.data # <<>>)
           /\ ~(f.kind = "CF" /\ c.state = "wait" /\ f.data # <<>>)
  <2>1. Stamp(c, f, n).state = c.state
    BY DEF Stamp, RxContext
  <2> QED BY <1>3, <2>1 DEF HeardAfter
<1> QED BY <1>1, <1>2, <1>3

\* isotp_rx_process, whatever the frame.
LEMMA ProcessIsFine ==
  ASSUME NEW c \in RxContext, NEW t \in Transfers, Holds(c, t),
         NEW f \in Frame, NEW n \in Time
  PROVE  Fine(RxProcess(c, f, n), HeardAfter(c, t, f))
<1> DEFINE s == Stamp(c, f, n)
<1>1. s \in RxContext /\ Holds(s, t)
  BY StampIsFine
<1>2. HeardAfter(s, t, f) = HeardAfter(c, t, f)
  BY HeardAfterSound
<1> HIDE DEF s
<1>3. CASE f \in SingleFrames
  <2>1. f.kind = "SF"
    BY <1>3 DEF SingleFrames
  <2>2. HeardAfter(c, t, f) = t
    BY <2>1 DEF HeardAfter
  <2>3. RxProcess(c, f, n) = OnSingle(s, f)
    BY <2>1 DEF RxProcess, s
  <2> QED BY <1>1, <1>3, <2>2, <2>3, SingleIsFine
<1>4. CASE f \in FirstFrames
  <2>1. RxProcess(c, f, n) = OnFirst(s, f)
    BY <1>4 DEF RxProcess, s, FirstFrames
  <2> QED BY <1>1, <1>2, <1>4, <2>1, FirstIsFine
<1>5. CASE f \in ConsecutiveFrames
  <2>1. RxProcess(c, f, n) = OnConsecutive(s, f)
    BY <1>5 DEF RxProcess, s, ConsecutiveFrames
  <2> QED BY <1>1, <1>2, <1>5, <2>1, ConsecutiveIsFine
<1>6. CASE f \in FlowControls \cup OtherFrames
  <2>1. f.kind \in {"FC", "other", "empty"}
    BY <1>6 DEF FlowControls, OtherFrames
  <2>2. HeardAfter(c, t, f) = t
    BY <2>1 DEF HeardAfter
  <2>3. RxProcess(c, f, n) \in {Ignore(s), Ignore(c)}
    BY <2>1 DEF RxProcess, s
  <2> QED BY <1>1, <2>2, <2>3, IdleIsFine
<1> QED BY <1>3, <1>4, <1>5, <1>6 DEF Frame

(***************************************************************************)
(* The invariant.                                                          *)
(***************************************************************************)

IInv == TypeOK /\ BufferIsWhatWasHeard

LEMMA IInvParts ==
  IInv <=> TypeOK /\ Holds(rx, seen.transfer)
BY DEF IInv, BufferIsWhatWasHeard, Holds

LEMMA NothingSound == Nothing \in Transfers
BY PlainOutcomes, FrameAssumption DEF Nothing, Transfers

LEMMA InitSound == Init => IInv
<1> SUFFICES ASSUME Init PROVE IInv
  OBVIOUS
<1>1. now \in Time /\ out \in RxOut
  BY PlainOutcomes DEF Init
<1>2. rx \in RxContext /\ rx.state = "idle"
  BY PlainOutcomes, FrameAssumption, TimerAssumption
  DEF Init, RxStart, RxContext, Time
<1>3. seen.transfer \in Transfers
  BY NothingSound DEF Init
<1>4. /\ seen.silent \in 0 .. Forever /\ seen.starved \in 0 .. Forever
      /\ seen.unpolled \in 0 .. MaxPollGap
  BY TimerAssumption, PollAssumption DEF Init, Forever
<1>5. seen = [transfer |-> seen.transfer, silent |-> seen.silent,
              starved |-> seen.starved, unpolled |-> seen.unpolled]
  BY DEF Init
<1>6. TypeOK
  BY <1>1, <1>2, <1>3, <1>4, <1>5 DEF TypeOK, Transfers
<1> QED BY <1>2, <1>6, IInvParts DEF Holds

LEMMA NextSound == IInv /\ [Next]_vars => IInv'
<1> SUFFICES ASSUME IInv, [Next]_vars PROVE IInv'
  OBVIOUS
<1>0. /\ TypeOK /\ Holds(rx, seen.transfer)
      /\ rx \in RxContext /\ seen.transfer \in Transfers /\ now \in Time
  BY IInvParts DEF TypeOK, Transfers
<1> DEFINE Seen == [transfer : Transfers, silent : 0 .. Forever,
                    starved : 0 .. Forever, unpolled : 0 .. MaxPollGap]
<1>a. seen \in Seen
  BY <1>0 DEF TypeOK, Transfers
<1>b. ASSUME now' \in Time, rx' \in RxContext, out' \in RxOut,
             seen' \in Seen, Holds(rx', seen'.transfer)
      PROVE  IInv'
  <2>1. TypeOK'
    BY <1>b DEF TypeOK, Transfers
  <2>2. BufferIsWhatWasHeard'
    BY <1>b DEF BufferIsWhatWasHeard, Holds
  <2> QED BY <2>1, <2>2 DEF IInv
<1>c. 0 \in 0 .. Forever /\ 0 \in 0 .. MaxPollGap
  BY TimerAssumption, PollAssumption DEF Forever
<1> HIDE DEF Seen
<1>1. CASE Tick
  <2>1. now' \in Time
    BY <1>0, <1>1, TimerAssumption DEF Tick, After, Time
  <2>2. rx' = rx /\ out' \in RxOut
    BY <1>1, PlainOutcomes DEF Tick
  <2>3. seen' \in Seen /\ seen'.transfer = seen.transfer
    <3>1. /\ Smaller(seen.silent + 1, Forever) \in 0 .. Forever
          /\ Smaller(seen.starved + 1, Forever) \in 0 .. Forever
          /\ seen.unpolled + 1 \in 0 .. MaxPollGap
      BY <1>1, <1>a, TimerAssumption, PollAssumption
      DEF Tick, Smaller, Forever, Seen
    <3>2. seen' \in Seen
      BY <1>1, <1>a, <3>1 DEF Tick, Seen
    <3>3. seen'.transfer = seen.transfer
      BY <1>1, <1>a DEF Tick, Seen
    <3> QED BY <3>2, <3>3
  <2> QED BY <1>0, <1>b, <2>1, <2>2, <2>3
<1>2. ASSUME NEW f \in Traffic, Receive(f)
      PROVE  IInv'
  <2> DEFINE r == RxProcess(rx, f, now)
             t == HeardAfter(rx, seen.transfer, f)
  <2>0. f \in Frame
    BY TrafficAssumption
  <2>1. Fine(r, t) /\ t \in Transfers
    BY <1>0, <2>0, ProcessIsFine, HeardAfterSound
  <2>2. rx' = r.ctx /\ out' = r.out /\ now' = now
    BY <1>2 DEF Receive
  <2>3. t = Heard(f)
    BY DEF HeardAfter, Heard, Opens, Continues
  <2>4. seen'.transfer = (IF r.ctx.state = "wait" THEN t ELSE Nothing)
    BY <1>2, <1>a, <2>3 DEF Receive, Seen
  <2>5. seen' \in Seen
    <3> DEFINE u == IF r.ctx.state = "wait" THEN t ELSE Nothing
               v == IF f.kind = "empty" THEN seen.silent ELSE 0
               w == IF Opens(f) \/ Continues(f) THEN 0 ELSE seen.starved
    <3>1. u \in Transfers /\ v \in 0 .. Forever /\ w \in 0 .. Forever
      BY <1>a, <1>c, <2>1, NothingSound DEF Seen
    <3>2. seen' = [seen EXCEPT !.transfer = u, !.silent = v, !.starved = w]
      BY <1>2, <2>3 DEF Receive
    <3> HIDE DEF u, v, w
    <3> QED BY <1>a, <3>1, <3>2 DEF Seen
  <2>6. Holds(rx', seen'.transfer)
    BY <2>1, <2>2, <2>4 DEF Fine, Holds
  <2> QED BY <1>0, <1>b, <2>1, <2>2, <2>5, <2>6 DEF Fine
<1>3. CASE Poll
  <2> DEFINE r == RxPoll(rx, now)
  <2>1. Fine(r, seen.transfer)
    BY <1>0, IdleIsFine DEF RxPoll
  <2>2. rx' = r.ctx /\ out' = r.out /\ now' = now
    BY <1>3 DEF Poll
  <2> DEFINE u == IF r.ctx.state = "wait" THEN seen.transfer ELSE Nothing
  <2>3. seen' = [seen EXCEPT !.transfer = u, !.unpolled = 0]
    BY <1>3 DEF Poll
  <2>4. u \in Transfers
    BY <1>0, NothingSound
  <2>5. Holds(r.ctx, u)
    BY <2>1 DEF Fine, Holds
  <2> HIDE DEF u, r
  <2>6. seen' \in Seen /\ seen'.transfer = u
    BY <1>a, <1>c, <2>3, <2>4 DEF Seen
  <2> QED BY <1>0, <1>b, <2>1, <2>2, <2>5, <2>6 DEF Fine
<1>4. CASE Reset
  <2>1. rx' \in RxContext /\ rx'.state = "idle"
    BY <1>0, <1>4, RxIdleSound DEF Reset
  <2>2. now' = now /\ out' \in RxOut
    BY <1>4, PlainOutcomes DEF Reset
  <2>3. seen' \in Seen
    BY <1>4, <1>a, NothingSound DEF Reset, Seen
  <2> QED BY <1>0, <1>b, <2>1, <2>2, <2>3 DEF Holds
<1>5. CASE UNCHANGED vars
  BY <1>5 DEF vars, IInv, TypeOK, BufferIsWhatWasHeard
<1> QED BY <1>1, <1>2, <1>3, <1>4, <1>5 DEF Next, ReceiveAny

\* The strengthening is an invariant.
THEOREM Invariance == Spec => []IInv
BY InitSound, NextSound, PTL DEF Spec

\* Whatever arrives, in any order, the reassembler's context stays well
\* formed: its lengths never pass the 4095-byte buffer.
THEOREM TypeCorrect == Spec => []TypeOK
<1>1. IInv => TypeOK
  BY DEF IInv
<1> QED BY Invariance, <1>1, PTL

\* TP-3 for every frame size, capacity and modulus: the buffer of an open
\* transfer is exactly what was heard since its First Frame, shorter than
\* what was announced, and the next sequence number is the right one.
THEOREM BufferIsFaithful == Spec => []BufferIsWhatWasHeard
<1>1. IInv => BufferIsWhatWasHeard
  BY DEF IInv
<1> QED BY Invariance, <1>1, PTL

(***************************************************************************)
(* What is delivered.                                                      *)
(***************************************************************************)

\* Cutting the second of two sequences beyond the end of a prefix does not
\* change the prefix.
LEMMA PrefixOfCut ==
  ASSUME NEW b \in Seq(Byte), NEW d \in Seq(Byte), NEW k \in 0 .. Len(d),
         NEW e \in 0 .. Len(b) + k
  PROVE  /\ SubSeq(b \o SubSeq(d, 1, k), 1, e) = SubSeq(b \o d, 1, e)
         /\ Len(SubSeq(b \o d, 1, e)) = e
<1> DEFINE x == b \o SubSeq(d, 1, k)
           y == b \o d
<1>1. SubSeq(d, 1, k) \in Seq(Byte) /\ Len(SubSeq(d, 1, k)) = k
      /\ \A i \in 1 .. k : SubSeq(d, 1, k)[i] = d[i]
  OBVIOUS
<1>2. /\ x \in Seq(Byte) /\ Len(x) = Len(b) + k
      /\ y \in Seq(Byte) /\ Len(y) = Len(b) + Len(d)
  BY <1>1
<1>3. \A i \in 1 .. Len(b) + k : x[i] = y[i]
  BY <1>1
<1> HIDE DEF x, y
<1>4. /\ SubSeq(x, 1, e) \in Seq(Byte) /\ Len(SubSeq(x, 1, e)) = e
      /\ \A i \in 1 .. e : SubSeq(x, 1, e)[i] = x[i]
  BY <1>2
<1>5. /\ SubSeq(y, 1, e) \in Seq(Byte) /\ Len(SubSeq(y, 1, e)) = e
      /\ \A i \in 1 .. e : SubSeq(y, 1, e)[i] = y[i]
  BY <1>2
<1>6. \A i \in 1 .. e : SubSeq(x, 1, e)[i] = SubSeq(y, 1, e)[i]
  BY <1>3, <1>4, <1>5
<1>7. SubSeq(x, 1, e) = SubSeq(y, 1, e)
  BY <1>4, <1>5, <1>6
<1> QED BY <1>5, <1>7 DEF x, y

\* A Consecutive Frame that yields a message, or advances a transfer, was
\* the one awaited; the message is what the First Frame announced.
LEMMA ConsecutiveYields ==
  ASSUME NEW c \in RxContext, NEW t \in Transfers, Holds(c, t),
         NEW f \in ConsecutiveFrames
  PROVE  /\ \/ OnConsecutive(c, f).out.event = "ready"
            \/ OnConsecutive(c, f).ctx.received > c.received
            => c.state = "wait" /\ f.sn = (t.frames + 1) % SnRange
         /\ OnConsecutive(c, f).out.event = "ready" =>
              /\ Len(OnConsecutive(c, f).out.message) = t.announced
              /\ OnConsecutive(c, f).out.message =
                   SubSeq(t.heard \o f.data, 1, t.announced)
<1>0. c.received \in Nat /\ f.data \in Seq(Byte)
  BY FrameAssumption DEF RxContext, ConsecutiveFrames, AtMost
<1>1. CASE c.state # "wait" \/ f.data = <<>>
  <2>1. OnConsecutive(c, f).ctx = c /\ OnConsecutive(c, f).out.event = "none"
    BY <1>1 DEF OnConsecutive, Ignore, Quiet
  <2> QED BY <1>0, <2>1
<1>2. CASE c.state = "wait" /\ f.data # <<>> /\ ~InOrder(c, f)
  <2>1. OnConsecutive(c, f).ctx = RxIdle(c)
        /\ OnConsecutive(c, f).out.event = "aborted"
    BY <1>2 DEF OnConsecutive, Abort, Aborted, Quiet
  <2>2. RxIdle(c).received = 0
    BY DEF RxIdle, RxContext
  <2> QED BY <1>0, <2>1, <2>2
<1>3. CASE c.state = "wait" /\ f.data # <<>> /\ InOrder(c, f)
  <2>1. /\ c.buffer = t.heard /\ c.received = Len(c.buffer)
        /\ c.expected = t.announced /\ c.expected <= MaxPayload
        /\ f.sn = (t.frames + 1) % SnRange
        /\ c.expected \in Nat /\ c.buffer \in Seq(Byte)
    BY <1>3, FrameAssumption DEF Holds, RxContext, InOrder
  <2>2. ASSUME OnConsecutive(c, f).out.event = "ready"
        PROVE  /\ Len(OnConsecutive(c, f).out.message) = t.announced
               /\ OnConsecutive(c, f).out.message =
                    SubSeq(t.heard \o f.data, 1, t.announced)
    <3> DEFINE d == Extended(c, f)
               k == Smaller(Len(f.data), c.expected - c.received)
    <3>1. /\ d.expected = c.expected /\ d.buffer = c.buffer \o Chunk(c, f)
          /\ d.received = c.received + Len(Chunk(c, f))
      BY <1>3, ExtendedSound
    <3>2. ~(c.received + Len(Chunk(c, f)) > MaxPayload)
      BY <1>0, <1>3, <2>1, ChunkFits, FrameAssumption
    <3>3. d.received >= d.expected
          /\ OnConsecutive(c, f).out = Ready(SubSeq(d.buffer, 1, d.expected))
      BY <1>3, <2>2, <3>2 DEF OnConsecutive, Quiet
    <3>4. OnConsecutive(c, f).out.message = SubSeq(d.buffer, 1, d.expected)
      BY <3>3 DEF Ready, Quiet
    <3> HIDE DEF d
    <3>5. Chunk(c, f) = SubSeq(f.data, 1, k)
      BY DEF Chunk
    <3>6. k \in 0 .. Len(f.data) /\ Len(Chunk(c, f)) = k
      <4>1. Len(f.data) \in Nat /\ c.received < c.expected
        BY <1>0, <1>3 DEF Holds
      <4>2. k \in 0 .. Len(f.data)
        BY <1>0, <2>1, <4>1 DEF Smaller
      <4> HIDE DEF k
      <4> QED BY <1>0, <3>5, <4>2
    <3> HIDE DEF k
    <3>7. c.expected \in 0 .. Len(c.buffer) + k
      BY <1>0, <2>1, <3>1, <3>3, <3>6
    <3>8. /\ SubSeq(c.buffer \o SubSeq(f.data, 1, k), 1, c.expected)
               = SubSeq(c.buffer \o f.data, 1, c.expected)
          /\ Len(SubSeq(c.buffer \o f.data, 1, c.expected)) = c.expected
      BY <1>0, <2>1, <3>6, <3>7, PrefixOfCut
    <3> QED BY <2>1, <3>1, <3>4, <3>5, <3>8
  <2> QED BY <1>3, <2>1, <2>2
<1> QED BY <1>1, <1>2, <1>3

\* What a frame received in the invariant may produce.
LEMMA ReceiveYields ==
  ASSUME IInv, NEW f \in Traffic, Receive(f)
  PROVE  /\ out'.event = "ready" =>
              \/ /\ f.kind = "SF"
                 /\ out'.message = SubSeq(f.data, 1, f.len)
              \/ /\ f.kind = "CF" /\ rx.state = "wait"
                 /\ Len(out'.message) = seen.transfer.announced
                 /\ out'.message = SubSeq(seen.transfer.heard \o f.data, 1,
                                          seen.transfer.announced)
         /\ /\ f.kind = "CF"
            /\ out'.event = "ready" \/ rx'.received > rx.received
            => f.sn = (seen.transfer.frames + 1) % SnRange
<1> DEFINE s == Stamp(rx, f, now)
           t == seen.transfer
<1>0. /\ rx \in RxContext /\ t \in Transfers /\ now \in Time /\ Holds(rx, t)
      /\ f \in Frame
  BY IInvParts, TrafficAssumption DEF TypeOK, Transfers
<1>1. s \in RxContext /\ Holds(s, t) /\ s.state = rx.state
  BY <1>0, StampIsFine
<1>2. s.received = rx.received
  BY <1>0 DEF Stamp, RxContext
<1>3. rx' = RxProcess(rx, f, now).ctx /\ out' = RxProcess(rx, f, now).out
  BY DEF Receive
<1>4. CASE f \in SingleFrames
  <2>1. f.kind = "SF"
    BY <1>4 DEF SingleFrames
  <2>2. out' = OnSingle(s, f).out
    BY <1>3, <2>1 DEF RxProcess
  <2> HIDE DEF s
  <2>3. out'.event = "ready" => out'.message = SubSeq(f.data, 1, f.len)
    BY <2>2 DEF OnSingle, Content, Ignore, Ready, Quiet
  <2> QED BY <2>1, <2>3
<1>5. CASE f \in FirstFrames
  <2>1. f.kind = "FF"
    BY <1>5 DEF FirstFrames
  <2>2. out' = OnFirst(s, f).out
    BY <1>3, <2>1 DEF RxProcess
  <2> HIDE DEF s
  <2>3. out'.event # "ready"
    <3>1. Control("overflow").event = "flowControl"
          /\ Control("continue").event = "flowControl"
          /\ Quiet.event = "none"
      BY DEF Control, Quiet
    <3>2. f.len \in Nat
      BY <1>5 DEF FirstFrames
    <3> QED BY <2>2, <3>1, <3>2, FrameAssumption DEF OnFirst, Ignore, FFMin
  <2> QED BY <2>1, <2>3
<1>6. CASE f \in ConsecutiveFrames
  <2>1. f.kind = "CF"
    BY <1>6 DEF ConsecutiveFrames
  <2>2. rx' = OnConsecutive(s, f).ctx /\ out' = OnConsecutive(s, f).out
    BY <1>3, <2>1 DEF RxProcess
  <2> HIDE DEF s, t
  <2> QED BY <1>0, <1>1, <1>2, <1>6, <2>1, <2>2, ConsecutiveYields DEF t
<1>7. CASE f \in FlowControls \cup OtherFrames
  <2>1. f.kind \in {"FC", "other", "empty"}
    BY <1>7 DEF FlowControls, OtherFrames
  <2>2. out' = Quiet
    BY <1>3, <2>1 DEF RxProcess, Ignore
  <2> QED BY <2>1, <2>2 DEF Quiet
<1> QED BY <1>0, <1>4, <1>5, <1>6, <1>7 DEF Frame

\* TP-1 and XL-4 for every frame size and capacity: what the reassembler
\* delivers is one Single Frame's content, or the announced number of bytes
\* heard since one First Frame.
THEOREM DeliveriesAreExact == Spec => DeliveredAsAnnounced
<1>1. IInv /\ [Next]_vars =>
        [\A f \in Traffic :
           Receive(f) /\ out'.event = "ready" =>
             \/ /\ f.kind = "SF"
                /\ out'.message = SubSeq(f.data, 1, f.len)
             \/ /\ f.kind = "CF" /\ rx.state = "wait"
                /\ Len(out'.message) = seen.transfer.announced
                /\ out'.message = SubSeq(seen.transfer.heard \o f.data, 1,
                                         seen.transfer.announced)]_vars
  BY ReceiveYields, Zenon
<1> QED BY Invariance, <1>1, PTL DEF Spec, DeliveredAsAnnounced

\* TP-2 for every modulus: the Consecutive Frames that advance or complete
\* a transfer are numbered one after the other.
THEOREM SequenceIsFollowed == Spec => SequenceIsSuccessor
<1>1. IInv /\ [Next]_vars =>
        [\A f \in Traffic :
           /\ Receive(f) /\ f.kind = "CF"
           /\ out'.event = "ready" \/ rx'.received > rx.received
           => f.sn = (seen.transfer.frames + 1) % SnRange]_vars
  BY ReceiveYields, Zenon
<1> QED BY Invariance, <1>1, PTL DEF Spec, SequenceIsSuccessor

(***************************************************************************)
(* The timer.  While a transfer is open, the age of its date is the true   *)
(* silence on the bus: a poll comes before that age can wrap.              *)
(***************************************************************************)

Timed ==
  rx.state = "wait" =>
    /\ Since(now, rx.last) = seen.silent
    /\ seen.silent < N_Cr + seen.unpolled

\* Any frame with at least one byte dates the context it leaves.
LEMMA ProcessDates ==
  ASSUME NEW c \in RxContext, NEW t \in Transfers, Holds(c, t),
         NEW f \in Frame, NEW n \in Time
  PROVE  /\ f.kind = "empty" => RxProcess(c, f, n).ctx = c
         /\ f.kind # "empty" => RxProcess(c, f, n).ctx.last = n
<1> DEFINE s == Stamp(c, f, n)
<1>1. s \in RxContext /\ Holds(s, t) /\ s.last = n
  <2>1. s.last = n
    BY DEF Stamp, RxContext
  <2> QED BY <2>1, StampIsFine
<1> HIDE DEF s
<1>2. Ignore(s).ctx.last = n /\ Ignore(c).ctx = c
  BY <1>1 DEF Ignore
<1>3. \A d \in RxContext : RxIdle(d).last = d.last
  BY DEF RxIdle, RxContext
<1>4. Abort(s).ctx.last = n
  BY <1>1, <1>3 DEF Abort
<1>5. CASE f \in SingleFrames
  <2>1. RxProcess(c, f, n) = OnSingle(s, f) /\ f.kind = "SF"
    BY <1>5 DEF RxProcess, SingleFrames, s
  <2>2. CASE f.len \notin 1 .. SFMax \/ f.len > Len(f.data)
    BY <1>2, <2>1, <2>2 DEF OnSingle
  <2>3. CASE ~(f.len \notin 1 .. SFMax \/ f.len > Len(f.data))
    <3> DEFINE d == [RxIdle(s) EXCEPT !.expected = f.len, !.received = f.len,
                                      !.buffer = Content(f)]
    <3>1. OnSingle(s, f).ctx = d
      BY <2>3 DEF OnSingle
    <3>2. RxIdle(s) \in RxContext
      BY <1>1, RxIdleSound
    <3>3. d.last = RxIdle(s).last
      BY <3>2 DEF RxContext
    <3> QED BY <1>1, <1>3, <2>1, <3>1, <3>3
  <2> QED BY <2>2, <2>3
<1>6. CASE f \in FirstFrames
  <2>1. RxProcess(c, f, n) = OnFirst(s, f) /\ f.kind = "FF" /\ f.len \in Nat
    BY <1>6 DEF RxProcess, FirstFrames, s
  <2>2. Open(s, f).last = n
    BY <1>1 DEF Open, RxContext
  <2>3. RxIdle(s).last = n
    BY <1>1, <1>3
  <2>4. /\ OnFirst(s, f) \in
              {Ignore(s), [ctx |-> RxIdle(s), out |-> Control("overflow")],
               [ctx |-> Open(s, f), out |-> Control("continue")]}
    BY <2>1, FrameAssumption DEF OnFirst, FFMin
  <2>5. OnFirst(s, f).ctx \in {Ignore(s).ctx, RxIdle(s), Open(s, f)}
    BY <2>4
  <2> QED BY <1>2, <2>1, <2>2, <2>3, <2>5
<1>7. CASE f \in ConsecutiveFrames
  <2>1. RxProcess(c, f, n) = OnConsecutive(s, f) /\ f.kind = "CF"
    BY <1>7 DEF RxProcess, ConsecutiveFrames, s
  <2>2. CASE s.state # "wait" \/ f.data = <<>>
    BY <1>2, <2>1, <2>2 DEF OnConsecutive
  <2>3. CASE s.state = "wait" /\ f.data # <<>> /\ ~InOrder(s, f)
    BY <1>4, <2>1, <2>3 DEF OnConsecutive
  <2>4. CASE s.state = "wait" /\ f.data # <<>> /\ InOrder(s, f)
    <3> DEFINE d == Extended(s, f)
    <3>1. d \in RxContext /\ d.last = n
      BY <1>1, <1>7, <2>4, ExtendedSound
    <3>2. OnConsecutive(s, f).ctx \in {Abort(s).ctx, RxIdle(d), d}
      BY <2>4 DEF OnConsecutive
    <3> HIDE DEF d
    <3>3. RxIdle(d).last = n
      BY <1>3, <3>1
    <3> QED BY <1>4, <2>1, <3>1, <3>2, <3>3
  <2> QED BY <2>2, <2>3, <2>4
<1>8. CASE f \in FlowControls \cup OtherFrames
  <2>1. f.kind \in {"FC", "other", "empty"}
    BY <1>8 DEF FlowControls, OtherFrames
  <2>2. f.kind = "empty" => RxProcess(c, f, n) = Ignore(c)
    BY DEF RxProcess
  <2>3. f.kind # "empty" => RxProcess(c, f, n) = Ignore(s)
    BY <2>1 DEF RxProcess, s
  <2> QED BY <1>2, <2>2, <2>3
<1> QED BY <1>5, <1>6, <1>7, <1>8 DEF Frame

\* The age of a date, one tick later.
LEMMA SinceAtTick ==
  ASSUME NEW n \in Time, NEW t \in Time
  PROVE  /\ Since(n, n) = 0
         /\ Since(n, t) < TimeRange - 1 =>
              Since(After(n, 1), t) = Since(n, t) + 1
BY TimerAssumption DEF Time, Since, After

LEMMA TimedNext ==
  ASSUME N_Cr + MaxPollGap <= TimeRange, IInv, Timed, [Next]_vars
  PROVE  Timed'
<1>0. /\ rx \in RxContext /\ now \in Time /\ seen.transfer \in Transfers
      /\ Holds(rx, seen.transfer)
      /\ seen.silent \in Nat /\ seen.unpolled \in 0 .. MaxPollGap
      /\ N_Cr \in Nat \ {0} /\ TimeRange \in Nat /\ MaxPollGap \in Nat
  <2>1. Forever \in Nat
    BY TimerAssumption DEF Forever
  <2> QED BY <2>1, IInvParts, TimerAssumption, PollAssumption
      DEF TypeOK, Transfers
<1>1. DOMAIN seen = {"transfer", "silent", "starved", "unpolled"}
      /\ rx.last \in Time
  BY <1>0, IInvParts DEF TypeOK, RxContext
<1>2. CASE Tick
  <2>1. rx' = rx /\ now' = After(now, 1) /\ seen.unpolled < MaxPollGap
        /\ seen'.silent = Smaller(seen.silent + 1, Forever)
        /\ seen'.unpolled = seen.unpolled + 1
    BY <1>1, <1>2 DEF Tick
  <2>2. ASSUME rx.state = "wait"
        PROVE  /\ Since(now', rx.last) = seen'.silent
               /\ seen'.silent < N_Cr + seen'.unpolled
    <3>1. Since(now, rx.last) = seen.silent
          /\ seen.silent < N_Cr + seen.unpolled
      BY <2>2 DEF Timed
    <3>2. seen.silent < TimeRange - 1
      BY <1>0, <2>1, <3>1
    <3>3. seen'.silent = seen.silent + 1
      BY <1>0, <2>1, <3>2 DEF Smaller, Forever
    <3> QED BY <1>0, <1>1, <2>1, <3>1, <3>2, <3>3, SinceAtTick
  <2> QED BY <2>1, <2>2 DEF Timed
<1>3. ASSUME NEW f \in Traffic, Receive(f)
      PROVE  Timed'
  <2>0. f \in Frame
    BY TrafficAssumption
  <2>1. rx' = RxProcess(rx, f, now).ctx /\ now' = now
        /\ seen'.silent = (IF f.kind = "empty" THEN seen.silent ELSE 0)
        /\ seen'.unpolled = seen.unpolled
    BY <1>1, <1>3 DEF Receive
  <2>2. CASE f.kind = "empty"
    <3>1. rx' = rx /\ seen'.silent = seen.silent
      BY <1>0, <2>0, <2>1, <2>2, ProcessDates
    <3> QED BY <2>1, <3>1 DEF Timed
  <2>3. CASE f.kind # "empty"
    <3>1. rx'.last = now /\ seen'.silent = 0
      BY <1>0, <2>0, <2>1, <2>3, ProcessDates
    <3>2. Since(now', rx'.last) = 0
      BY <1>0, <2>1, <3>1, SinceAtTick
    <3>3. 0 < N_Cr + seen'.unpolled
      BY <1>0, <2>1
    <3> QED BY <3>1, <3>2, <3>3 DEF Timed
  <2> QED BY <2>2, <2>3
<1>4. CASE Poll
  <2>1. rx' = RxPoll(rx, now).ctx /\ now' = now
        /\ seen'.silent = seen.silent /\ seen'.unpolled = 0
    BY <1>1, <1>4 DEF Poll
  <2>2. CASE RxLate(rx, now)
    <3>1. rx' = RxIdle(rx)
      BY <2>1, <2>2 DEF RxPoll, Abort
    <3>2. rx'.state = "idle"
      BY <1>0, <3>1, RxIdleSound
    <3> QED BY <3>2 DEF Timed
  <2>3. CASE ~RxLate(rx, now)
    <3>1. rx' = rx
      BY <2>1, <2>3 DEF RxPoll, Ignore
    <3>2. rx.state = "wait" => seen.silent < N_Cr
      BY <1>0, <2>3 DEF RxLate, Timed
    <3> QED BY <1>0, <2>1, <3>1, <3>2 DEF Timed
  <2> QED BY <2>2, <2>3
<1>5. CASE Reset
  <2>1. rx'.state = "idle"
    BY <1>0, <1>5, RxIdleSound DEF Reset
  <2> QED BY <2>1 DEF Timed
<1>6. CASE UNCHANGED vars
  BY <1>6 DEF vars, Timed
<1> QED BY <1>2, <1>3, <1>4, <1>5, <1>6 DEF Next, ReceiveAny

\* What a poll decides where the date tells the true silence.
LEMMA PollDecides ==
  ASSUME IInv, Timed, Poll
  PROVE  /\ out'.event = "aborted" => seen.silent >= N_Cr
         /\ rx.state = "wait" /\ seen.silent >= N_Cr => rx'.state = "idle"
<1>1. rx \in RxContext
  BY IInvParts DEF TypeOK
<1>2. rx' = RxPoll(rx, now).ctx /\ out' = RxPoll(rx, now).out
  BY DEF Poll
<1>3. CASE RxLate(rx, now)
  <2>1. rx' = RxIdle(rx)
    BY <1>2, <1>3 DEF RxPoll, Abort
  <2>2. seen.silent >= N_Cr
    BY <1>3 DEF RxLate, Timed
  <2> QED BY <1>1, <2>1, <2>2, RxIdleSound
<1>4. CASE ~RxLate(rx, now)
  <2>1. out' = Quiet
    BY <1>2, <1>4 DEF RxPoll, Ignore
  <2>2. ~(rx.state = "wait" /\ seen.silent >= N_Cr)
    BY <1>4 DEF RxLate, Timed
  <2> QED BY <2>1, <2>2 DEF Quiet
<1> QED BY <1>3, <1>4

\* N_Cr for every clock: no transfer is given up before N_Cr ticks of
\* silence and none survives a poll after them, although dates are compared
\* modulo the clock, as long as the caller polls before an age can wrap.
THEOREM TimerIsExact ==
  ASSUME N_Cr + MaxPollGap <= TimeRange
  PROVE  Spec => TimeoutIsExact
<1>1. Init => Timed
  BY DEF Init, RxStart, Timed
<1>2. IInv /\ Timed /\ [Next]_vars => Timed'
  BY TimedNext
<1>3. IInv /\ Timed /\ [Next]_vars =>
        [/\ Poll /\ out'.event = "aborted" => seen.silent >= N_Cr
         /\ Poll /\ rx.state = "wait" /\ seen.silent >= N_Cr
            => rx'.state = "idle"]_vars
  BY PollDecides, Zenon
<1>4. Spec => []Timed
  BY Invariance, <1>1, <1>2, PTL DEF Spec
<1> QED BY Invariance, <1>3, <1>4, PTL DEF Spec, TimeoutIsExact
=============================================================================
