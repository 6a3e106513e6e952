-------------------------- MODULE SegmentationProofs --------------------------
(***************************************************************************)
(* The segmenter, for every frame size, message, modulus and Flow Control: *)
(* what it has put on the bus is a prefix of its message, it sends nothing *)
(* it was not granted, and it keeps the separation it was asked for.  Its  *)
(* wait ends on time as long as it is polled often enough for its clock.   *)
(***************************************************************************)
EXTENDS Segmentation, SequenceTheorems, TLAPS

(***************************************************************************)
(* Counting modulo SnRange.                                                *)
(***************************************************************************)

\* A multiple of R that is not null is at least R away from zero.
LEMMA Multiple ==
  ASSUME NEW R \in Nat, R >= 2, NEW d \in Int, d >= 1
  PROVE  R * d >= R
BY Z3

\* A remainder is determined by its range.
LEMMA ModUnique ==
  ASSUME NEW R \in Nat, R >= 2, NEW n \in Nat, NEW q \in Int,
         NEW s \in 0 .. R - 1, n = R * q + s
  PROVE  n % R = s
<1> DEFINE p == n \div R
           t == n % R
<1>1. p \in Int /\ t \in 0 .. R - 1 /\ n = R * p + t
  BY Z3
<1> HIDE DEF p, t
<1>2. R * (p - q) = s - t
  BY <1>1, Z3
<1>3. R * (q - p) = t - s
  BY <1>1, Z3
<1>4. ~(p - q >= 1)
  BY <1>1, <1>2, Multiple, Z3
<1>5. ~(q - p >= 1)
  BY <1>1, <1>3, Multiple, Z3
<1>6. p = q
  BY <1>1, <1>4, <1>5, Z3
<1> QED BY <1>1, <1>6, Z3 DEF t

\* The sequence number's wrap (next_sequence_number + 1) & 0x0F is the
\* successor modulo SnRange.
LEMMA SnSuccessor ==
  ASSUME NEW n \in Nat
  PROVE  /\ n % SnRange \in 0 .. SnRange - 1
         /\ NextSn(n % SnRange) = (n + 1) % SnRange
         /\ 1 % SnRange = 1
<1> DEFINE R == SnRange
           q == n \div R
           r == n % R
<1>0. R \in Nat /\ R >= 2
  BY FrameAssumption
<1> HIDE DEF R
<1>1. q \in Int /\ r \in 0 .. R - 1 /\ n = R * q + r
  BY <1>0, Z3
<1>2. 1 % R = 1
  BY <1>0, Z3
<1> HIDE DEF q, r
<1>3. CASE r + 1 = R
  <2>1. n + 1 \in Nat /\ q + 1 \in Int /\ 0 \in 0 .. R - 1
    BY <1>0, <1>1, Z3
  <2>2. n + 1 = R * (q + 1) + 0
    BY <1>0, <1>1, <1>3, Z3
  <2>3. (n + 1) % R = 0
    BY <1>0, <2>1, <2>2, ModUnique
  <2> QED BY <1>1, <1>2, <1>3, <2>3 DEF r, R, NextSn
<1>4. CASE r + 1 # R
  <2>1. n + 1 \in Nat /\ r + 1 \in 0 .. R - 1
    BY <1>0, <1>1, <1>4, Z3
  <2>2. n + 1 = R * q + (r + 1)
    BY <1>0, <1>1, Z3
  <2>3. (n + 1) % R = r + 1
    BY <1>0, <1>1, <2>1, <2>2, ModUnique
  <2> QED BY <1>1, <1>2, <1>4, <2>3 DEF r, R, NextSn
<1> QED BY <1>3, <1>4

(***************************************************************************)
(* The context of the code against the transfer the bus has seen.          *)
(***************************************************************************)

Transfers ==
  [message : Seq(Byte), bytes : Seq(Byte), allowed : 0 .. Unlimited,
   frames : Nat]

\* What is left of the permission, in a block or without a limit.
Granted(c, h) ==
  IF c.bs = 0 THEN h.allowed = Unlimited ELSE c.inBlock + h.allowed = c.bs

\* An open context is in the middle of the transfer h.
Follows(c, h) ==
  c.state # "idle" =>
    /\ c.buffer = h.message /\ c.total = Len(c.buffer)
    /\ c.sent = Len(h.bytes) /\ c.sent < c.total
    /\ h.bytes = SubSeq(c.buffer, 1, c.sent)
    /\ c.sn = (h.frames + 1) % SnRange
    /\ c.state = "sending" => Granted(c, h)

\* The transfer after an outcome r.
Onward(h, r) == IF r.event = "send" THEN Sent(h, r.frame) ELSE h

Events == {"none", "send", "wait", "aborted", "busy", "refused"}

\* An outcome that keeps the context in step with the bus.
Fine(r, h) ==
  /\ r.ctx \in TxContext /\ r.event \in Events
  /\ Onward(h, r) \in Transfers
  /\ Follows(r.ctx, Onward(h, r))

LEMMA TxIdleSound ==
  ASSUME NEW c \in TxContext
  PROVE  TxIdle(c) \in TxContext /\ TxIdle(c).state = "idle"
<1>1. /\ <<>> \in Seq(Byte) /\ 0 \in 0 .. MaxPayload
      /\ 0 \in 0 .. SnRange - 1 /\ 0 \in 0 .. ByteRange - 1 /\ 0 \in Time
  BY FrameAssumption, TimerAssumption DEF Time
<1>2. TxIdle(c) \in TxContext
  BY <1>1 DEF TxIdle, TxContext
<1>3. TxIdle(c).state = "idle"
  BY DEF TxIdle, TxContext
<1> QED BY <1>2, <1>3

\* Saying something leaves the bus alone.
LEMMA SaysIsFine ==
  ASSUME NEW c \in TxContext, NEW h \in Transfers, Follows(c, h),
         NEW e \in Events \ {"send"}
  PROVE  Fine(Says(c, e), h) /\ Fine(Says(TxIdle(c), e), h)
<1>1. \A d \in TxContext : Follows(d, h) => Fine(Says(d, e), h)
  BY DEF Says, Fine, Onward, Events
<1>2. Follows(TxIdle(c), h)
  BY TxIdleSound DEF Follows
<1> QED BY <1>1, <1>2, TxIdleSound

\* A frame filled from the message is a frame of bytes: the message's, then
\* padding.
LEMMA PaddedBytes ==
  ASSUME NEW m \in Seq(Byte), NEW from \in Nat, NEW size \in Nat
  PROVE  /\ Padded(m, from, size) \in Seq(Byte)
         /\ Len(Padded(m, from, size)) = size
         /\ \A i \in 1 .. size :
              Padded(m, from, size)[i]
                = IF from + i <= Len(m) THEN m[from + i] ELSE Pad
<1> DEFINE b(i) == IF from + i <= Len(m) THEN m[from + i] ELSE Pad
<1>1. \A i \in 1 .. size : b(i) \in Byte
  BY FrameAssumption
<1>2. Padded(m, from, size) = [i \in 1 .. size |-> b(i)]
  BY DEF Padded
<1> HIDE DEF b
<1>3. [i \in 1 .. size |-> b(i)] \in Seq(Byte)
  BY <1>1, IsASeq
<1>4. Len([i \in 1 .. size |-> b(i)]) = size
  BY <1>3
<1> QED BY <1>2, <1>3, <1>4 DEF b

\* The prefix of a message followed by its next frame.
Grown(m, n, k) == SubSeq(m, 1, n) \o Padded(m, n, k)

LEMMA PrefixGrows ==
  ASSUME NEW m \in Seq(Byte), NEW n \in Nat, NEW k \in Nat, n <= Len(m)
  PROVE  /\ Grown(m, n, k) \in Seq(Byte) /\ Len(Grown(m, n, k)) = n + k
         /\ \A i \in 1 .. n + k :
              Grown(m, n, k)[i] = IF i <= Len(m) THEN m[i] ELSE Pad
         /\ n + k <= Len(m) => Grown(m, n, k) = SubSeq(m, 1, n + k)
<1> DEFINE p == SubSeq(m, 1, n)
           q == Padded(m, n, k)
           b == p \o q
           s == SubSeq(m, 1, n + k)
<1>1. p \in Seq(Byte) /\ Len(p) = n /\ \A i \in 1 .. n : p[i] = m[i]
  BY SubSeqProperties
<1>2. /\ q \in Seq(Byte) /\ Len(q) = k
      /\ \A i \in 1 .. k : q[i] = IF n + i <= Len(m) THEN m[n + i] ELSE Pad
  BY PaddedBytes
<1> HIDE DEF p, q
<1>3. /\ b \in Seq(Byte) /\ Len(b) = n + k
      /\ \A i \in 1 .. n + k : b[i] = IF i <= n THEN p[i] ELSE q[i - n]
  BY <1>1, <1>2, ConcatProperties
<1> HIDE DEF b
<1>4. \A i \in 1 .. n + k : b[i] = IF i <= Len(m) THEN m[i] ELSE Pad
  <2>1. ASSUME NEW i \in 1 .. n + k, i <= n
        PROVE  b[i] = m[i] /\ i <= Len(m)
    BY <1>1, <1>3, <2>1
  <2>2. ASSUME NEW i \in 1 .. n + k, ~(i <= n)
        PROVE  b[i] = IF i <= Len(m) THEN m[i] ELSE Pad
    <3>1. i - n \in 1 .. k /\ n + (i - n) = i
      BY <2>2
    <3> QED BY <1>2, <1>3, <2>2, <3>1
  <2> QED BY <2>1, <2>2
<1>5. ASSUME n + k <= Len(m)
      PROVE  b = s
  <2>1. s \in Seq(Byte) /\ Len(s) = n + k /\ \A i \in 1 .. n + k : s[i] = m[i]
    BY <1>5, SubSeqProperties
  <2> HIDE DEF s
  <2>2. \A i \in 1 .. Len(b) : b[i] = s[i]
    BY <1>3, <1>4, <1>5, <2>1
  <2> QED BY <1>3, <2>1, <2>2, SeqEqual
<1> QED BY <1>3, <1>4, <1>5 DEF b, p, q, s, Grown

(***************************************************************************)
(* What each handler makes of a context.                                   *)
(***************************************************************************)

\* What a grant allows: something, and less than the code can count.
LEMMA GrantAllows ==
  ASSUME NEW c \in TxContext, NEW h \in Transfers, Granted(c, h),
         ~BlockFull(c)
  PROVE  /\ h.allowed > 0
         /\ c.bs # 0 => h.allowed # Unlimited /\ NextByte(c.inBlock) = c.inBlock + 1
         /\ NextByte(c.inBlock) \in 0 .. ByteRange - 1
<1>1. /\ c.bs \in 0 .. ByteRange - 1 /\ c.inBlock \in 0 .. ByteRange - 1
      /\ h.allowed \in 0 .. ByteRange /\ ByteRange \in Nat /\ ByteRange >= 2
  BY FrameAssumption DEF TxContext, Transfers, Unlimited
<1> QED BY <1>1 DEF Granted, BlockFull, NextByte, Unlimited

\* The context after an emission, before it is closed if it is the last.
Advanced(c, t) == [Advance(c) EXCEPT !.last = t]

\* The context and the frame of an emission, field by field.
LEMMA EmissionForm ==
  ASSUME NEW c \in TxContext, NEW t \in Time, c.sent < c.total,
         NextByte(c.inBlock) \in 0 .. ByteRange - 1
  PROVE  /\ Advanced(c, t) \in TxContext
         /\ Advanced(c, t).state = c.state
         /\ Advanced(c, t).buffer = c.buffer
         /\ Advanced(c, t).total = c.total
         /\ Advanced(c, t).sent = c.sent + Smaller(CFData, c.total - c.sent)
         /\ Advanced(c, t).sn = NextSn(c.sn)
         /\ Advanced(c, t).bs = c.bs
         /\ Advanced(c, t).inBlock = NextByte(c.inBlock)
         /\ Advanced(c, t).last = t
         /\ EmitNext(c, t).event = "send"
         /\ EmitNext(c, t).frame = NextFrame(c)
         /\ EmitNext(c, t).ctx =
              IF Advanced(c, t).sent >= Advanced(c, t).total
              THEN TxIdle(Advanced(c, t)) ELSE Advanced(c, t)
<1> DEFINE n == c.sent + Smaller(CFData, c.total - c.sent)
           d == [c EXCEPT !.sent = n, !.sn = NextSn(c.sn),
                          !.inBlock = NextByte(c.inBlock), !.last = t]
<1>1. n \in 0 .. MaxPayload
  <2>1. /\ c.sent \in 0 .. MaxPayload /\ c.total \in 0 .. MaxPayload
        /\ CFData \in Nat /\ MaxPayload \in Nat
    BY FrameAssumption DEF TxContext, CFData
  <2> QED BY <2>1 DEF Smaller
<1>2. NextSn(c.sn) \in 0 .. SnRange - 1
  BY FrameAssumption DEF TxContext, NextSn
<1>3. Advanced(c, t) = d
  BY DEF Advance, Advanced, TxContext
<1> HIDE DEF n
<1>4. /\ d \in TxContext
      /\ d.state = c.state /\ d.buffer = c.buffer /\ d.total = c.total
      /\ d.sent = n /\ d.sn = NextSn(c.sn) /\ d.bs = c.bs
      /\ d.inBlock = NextByte(c.inBlock) /\ d.last = t
  BY <1>1, <1>2 DEF TxContext
<1> HIDE DEF d
<1>5. EmitNext(c, t) = [ctx |-> IF d.sent >= d.total THEN TxIdle(d) ELSE d,
                        event |-> "send", frame |-> NextFrame(c)]
  BY <1>3 DEF EmitNext, Emits, Advanced
<1>6. /\ EmitNext(c, t).event = "send"
      /\ EmitNext(c, t).frame = NextFrame(c)
      /\ EmitNext(c, t).ctx = IF d.sent >= d.total THEN TxIdle(d) ELSE d
  BY <1>5
<1> QED BY <1>3, <1>4, <1>6 DEF n

\* The transfer after the frame of an emission.
LEMMA SentForm ==
  ASSUME NEW c \in TxContext, NEW h \in Transfers, Follows(c, h),
         c.state = "sending", ~BlockFull(c), NEW u,
         u = Sent(h, NextFrame(c))
  PROVE  /\ u \in Transfers
         /\ u.message = h.message /\ u.frames = h.frames + 1
         /\ u.bytes = Grown(c.buffer, c.sent, CFData)
         /\ u.allowed = IF h.allowed = Unlimited THEN h.allowed
                        ELSE h.allowed - 1
<1> DEFINE f == Padded(c.buffer, c.sent, CFData)
           a == IF h.allowed = Unlimited THEN h.allowed ELSE h.allowed - 1
<1>1. h.allowed > 0
  BY GrantAllows DEF Follows
<1>2. a \in 0 .. Unlimited
  BY <1>1, FrameAssumption DEF Transfers, Unlimited
<1>3. f \in Seq(Byte)
  BY PaddedBytes, FrameAssumption DEF TxContext, CFData
<1>4. NextFrame(c).data = f
  BY DEF NextFrame
<1> HIDE DEF a, f
<1> DEFINE n == h.frames + 1
           w == h.bytes \o f
<1>5. u = [h EXCEPT !.bytes = w, !.frames = n, !.allowed = a]
  BY <1>4 DEF Sent, a
<1>6. w \in Seq(Byte) /\ n \in Nat
  BY <1>3 DEF Transfers
<1>7. h.bytes = SubSeq(c.buffer, 1, c.sent)
  BY DEF Follows
<1>8. w = Grown(c.buffer, c.sent, CFData)
  BY <1>7 DEF Grown, f
<1> HIDE DEF n, w
<1>9. /\ u \in Transfers /\ u.message = h.message /\ u.bytes = w
      /\ u.frames = n /\ u.allowed = a
  BY <1>2, <1>5, <1>6 DEF Transfers
<1> QED BY <1>8, <1>9 DEF n, a

\* The bytes on the bus once a frame is added to those of the transfer.
OnBus(h, f) == h.bytes \o f.data

\* A Consecutive Frame keeps the context in step with the bus, and if it is
\* the last it has carried the end of the message.
LEMMA EmitNextIsFine ==
  ASSUME NEW c \in TxContext, NEW h \in Transfers, Follows(c, h),
         c.state = "sending", ~BlockFull(c), NEW t \in Time,
         NEW r, r = EmitNext(c, t)
  PROVE  /\ Fine(r, h) /\ r.event = "send" /\ r.ctx.last = t
         /\ r.ctx.state \in {"idle", "sending"}
         /\ r.ctx.state = "idle" =>
              /\ Len(OnBus(h, r.frame)) >= Len(h.message)
              /\ Len(OnBus(h, r.frame)) < Len(h.message) + CFData
              /\ \A i \in 1 .. Len(OnBus(h, r.frame)) :
                   OnBus(h, r.frame)[i] =
                     IF i <= Len(h.message) THEN h.message[i] ELSE Pad
<1> DEFINE u == Sent(h, NextFrame(c))
           d == Advanced(c, t)
           m == c.buffer
           b == OnBus(h, r.frame)
<1>1. /\ m \in Seq(Byte) /\ m = h.message /\ c.total = Len(m)
      /\ c.sent \in Nat /\ c.sent < c.total /\ c.total \in Nat
      /\ h.bytes = SubSeq(m, 1, c.sent) /\ c.sn = (h.frames + 1) % SnRange
      /\ Granted(c, h) /\ h.frames \in Nat /\ h.allowed \in 0 .. Unlimited
      /\ c.inBlock \in Nat /\ c.bs \in Nat
  BY FrameAssumption DEF Follows, TxContext, Transfers
<1>2. CFData \in Nat /\ CFData >= 1
  BY FrameAssumption DEF CFData
<1>4. /\ h.allowed > 0
      /\ c.bs # 0 => h.allowed # Unlimited /\ NextByte(c.inBlock) = c.inBlock + 1
      /\ NextByte(c.inBlock) \in 0 .. ByteRange - 1
  BY <1>1, GrantAllows
<1>5. /\ d \in TxContext
      /\ d.state = "sending" /\ d.buffer = m /\ d.total = c.total
      /\ d.sent = c.sent + Smaller(CFData, c.total - c.sent)
      /\ d.sn = NextSn(c.sn) /\ d.bs = c.bs
      /\ d.inBlock = NextByte(c.inBlock) /\ d.last = t
      /\ r.event = "send" /\ r.frame = NextFrame(c)
      /\ r.ctx = IF d.sent >= d.total THEN TxIdle(d) ELSE d
  BY <1>1, <1>4, EmissionForm
<1>6. /\ u \in Transfers /\ u.message = h.message /\ u.frames = h.frames + 1
      /\ u.bytes = Grown(m, c.sent, CFData)
      /\ u.allowed = IF h.allowed = Unlimited THEN h.allowed
                     ELSE h.allowed - 1
  BY SentForm
<1>7. b = Grown(m, c.sent, CFData)
  <2>1. r.frame.data = Padded(m, c.sent, CFData)
    BY <1>5 DEF NextFrame
  <2> QED BY <1>1, <2>1 DEF Grown, OnBus
<1>8. Onward(h, r) = u
  BY <1>5 DEF Onward
<1> HIDE DEF u, d, m, b
<1>3. /\ b \in Seq(Byte) /\ Len(b) = c.sent + CFData
      /\ \A i \in 1 .. c.sent + CFData :
           b[i] = IF i <= Len(m) THEN m[i] ELSE Pad
      /\ c.sent + CFData <= Len(m) => b = SubSeq(m, 1, c.sent + CFData)
  <2>1. c.sent <= Len(m)
    BY <1>1
  <2>2. CFData \in Nat /\ c.sent \in Nat /\ m \in Seq(Byte)
    BY <1>1, <1>2
  <2> DEFINE g == Grown(m, c.sent, CFData)
             k == CFData
  <2> HIDE DEF k
  <2>3. /\ g \in Seq(Byte) /\ Len(g) = c.sent + k
        /\ \A i \in 1 .. c.sent + k :
             g[i] = IF i <= Len(m) THEN m[i] ELSE Pad
        /\ c.sent + k <= Len(m) => g = SubSeq(m, 1, c.sent + k)
    BY <2>1, <2>2, PrefixGrows DEF k
  <2>4. b = g
    BY <1>7
  <2> HIDE DEF g
  <2> QED BY <2>3, <2>4 DEF k
<1>9. CASE d.sent >= d.total
  <2>1. r.ctx \in TxContext /\ r.ctx.state = "idle" /\ r.ctx.last = t
    <3>1. \A e \in TxContext : TxIdle(e).last = e.last
      BY DEF TxIdle, TxContext
    <3> QED BY <1>5, <1>9, <3>1, TxIdleSound
  <2>2. c.sent + CFData >= c.total
    BY <1>1, <1>2, <1>5, <1>9 DEF Smaller
  <2>3. Fine(r, h)
    BY <1>5, <1>6, <1>8, <2>1 DEF Fine, Follows, Events
  <2>4. Len(b) >= Len(m) /\ Len(b) < Len(m) + CFData
    BY <1>1, <1>2, <1>3, <2>2
  <2> QED BY <1>1, <1>3, <1>5, <2>1, <2>3, <2>4 DEF b
<1>10. CASE ~(d.sent >= d.total)
  <2>1. r.ctx = d
    BY <1>5, <1>10
  <2>2. d.sent = c.sent + CFData /\ d.sent < d.total
    BY <1>1, <1>2, <1>5, <1>10 DEF Smaller
  <2>3. u.bytes = SubSeq(m, 1, d.sent) /\ Len(u.bytes) = d.sent
    <3>1. u.bytes = b
      BY <1>6, <1>7
    <3>2. d.total = Len(m)
      BY <1>1, <1>5
    <3>3. c.sent + CFData <= Len(m)
      BY <1>1, <1>2, <2>2, <3>2
    <3> QED BY <1>3, <2>2, <3>1, <3>3
  <2>4. d.sn = (u.frames + 1) % SnRange
    <3>1. h.frames + 1 \in Nat
      BY <1>1
    <3>2. NextSn((h.frames + 1) % SnRange) = (h.frames + 1 + 1) % SnRange
      BY <3>1, SnSuccessor
    <3> QED BY <1>1, <1>5, <1>6, <3>2
  <2>5. Granted(d, u)
    <3>1. CASE c.bs = 0
      BY <1>1, <1>5, <1>6, <3>1 DEF Granted
    <3>2. CASE c.bs # 0
      <4>1. d.inBlock = c.inBlock + 1 /\ u.allowed = h.allowed - 1
        BY <1>4, <1>5, <1>6, <3>2
      <4>2. /\ h.allowed \in Nat /\ c.inBlock \in Nat
            /\ c.inBlock + h.allowed = c.bs
        BY <1>1, <3>2, FrameAssumption DEF Granted, Unlimited
      <4>3. d.inBlock + u.allowed = c.bs
        BY <4>1, <4>2
      <4>4. d.bs = c.bs
        BY <1>5
      <4> QED BY <3>2, <4>3, <4>4 DEF Granted
    <3> QED BY <3>1, <3>2
  <2>6. Follows(d, u)
    BY <1>1, <1>5, <1>6, <2>2, <2>3, <2>4, <2>5 DEF Follows
  <2>7. Fine(r, h)
    BY <1>5, <1>6, <1>8, <2>1, <2>6 DEF Fine, Events
  <2> QED BY <1>5, <2>1, <2>7
<1> QED BY <1>9, <1>10

\* A block used up: the context waits for the next permission.
Paused(c, t) == [c EXCEPT !.state = "waitFC", !.since = t, !.inBlock = 0]

LEMMA PausedSound ==
  ASSUME NEW c \in TxContext, NEW h \in Transfers, Follows(c, h),
         c.state = "sending", NEW t \in Time
  PROVE  /\ Paused(c, t) \in TxContext /\ Follows(Paused(c, t), h)
         /\ Paused(c, t).state = "waitFC" /\ Paused(c, t).since = t
<1> DEFINE d == Paused(c, t)
<1>1. 0 \in 0 .. ByteRange - 1
  BY FrameAssumption
<1>2. /\ d \in TxContext /\ d.state = "waitFC" /\ d.since = t
      /\ d.buffer = c.buffer /\ d.total = c.total /\ d.sent = c.sent
      /\ d.sn = c.sn
  BY <1>1 DEF TxContext, Paused
<1> HIDE DEF d
<1>3. Follows(d, h)
  BY <1>2 DEF Follows
<1> QED BY <1>2, <1>3 DEF d

LEMMA TxPollIsFine ==
  ASSUME NEW c \in TxContext, NEW h \in Transfers, Follows(c, h),
         NEW t \in Time, NEW r, r = TxPoll(c, t)
  PROVE  /\ Fine(r, h)
         /\ \/ /\ r = EmitNext(c, t) /\ r.event = "send"
               /\ c.state = "sending" /\ ~BlockFull(c) /\ ~TooSoon(c, t)
            \/ /\ r.event \in {"none", "wait"} /\ r.frame = NoFrame
               /\ r.ctx = c /\ ~(c.state = "waitFC" /\ TxLate(c, t))
            \/ /\ r.event = "wait" /\ r.frame = NoFrame
               /\ c.state = "sending"
               /\ r.ctx.state = "waitFC" /\ r.ctx.since = t
            \/ /\ r.event = "aborted" /\ r.frame = NoFrame
               /\ r.ctx.state = "idle" /\ c.state = "waitFC" /\ TxLate(c, t)
<1> USE DEF Events
<1>1. CASE c.state = "idle"
  <2>1. r = Says(c, "none")
    BY <1>1 DEF TxPoll
  <2>2. Fine(r, h)
    BY <2>1, SaysIsFine
  <2> QED BY <1>1, <2>1, <2>2 DEF Says
<1>2. CASE c.state = "waitFC" /\ TxLate(c, t)
  <2>1. r = Says(TxIdle(c), "aborted")
    BY <1>2 DEF TxPoll
  <2>2. Fine(r, h)
    BY <2>1, SaysIsFine
  <2> QED BY <1>2, <2>1, <2>2, TxIdleSound DEF Says
<1>3. CASE c.state = "waitFC" /\ ~TxLate(c, t)
  <2>1. r = Says(c, "wait")
    BY <1>3 DEF TxPoll
  <2>2. Fine(r, h)
    BY <2>1, SaysIsFine
  <2> QED BY <1>3, <2>1, <2>2 DEF Says
<1>4. CASE c.state = "sending" /\ BlockFull(c)
  <2> DEFINE d == Paused(c, t)
  <2>1. r = Says(d, "wait")
    BY <1>4 DEF TxPoll, Paused
  <2>2. /\ d \in TxContext /\ Follows(d, h)
        /\ d.state = "waitFC" /\ d.since = t
    BY <1>4, PausedSound
  <2> HIDE DEF d
  <2>3. Fine(r, h)
    BY <2>1, <2>2, SaysIsFine
  <2> QED BY <1>4, <2>1, <2>2, <2>3 DEF Says
<1>5. CASE c.state = "sending" /\ ~BlockFull(c) /\ TooSoon(c, t)
  <2>1. r = Says(c, "wait")
    BY <1>5 DEF TxPoll
  <2>2. Fine(r, h)
    BY <2>1, SaysIsFine
  <2> QED BY <1>5, <2>1, <2>2 DEF Says
<1>6. CASE c.state = "sending" /\ ~BlockFull(c) /\ ~TooSoon(c, t)
  <2>1. r = EmitNext(c, t)
    BY <1>6 DEF TxPoll
  <2>2. Fine(r, h) /\ r.event = "send"
    BY <1>6, <2>1, EmitNextIsFine
  <2> QED BY <1>6, <2>1, <2>2
<1> QED BY <1>1, <1>2, <1>3, <1>4, <1>5, <1>6 DEF TxContext

\* What a Flow Control permits the transfer h.
Permitted(h, c, f) ==
  IF c.state = "waitFC" /\ f.status = "continue"
  THEN [h EXCEPT !.allowed = IF f.bs = 0 THEN Unlimited ELSE f.bs]
  ELSE h

\* A date antedated by a separation time is that far back.
LEMMA SinceBefore ==
  ASSUME NEW t \in Time, NEW d \in Time
  PROVE  Before(t, d) \in Time /\ Since(t, Before(t, d)) = d
  BY TimerAssumption DEF Time, Since, Before

\* The context that obeys a Flow Control, ready to send at once.
Obeying(c, f, t) ==
  [c EXCEPT !.bs = f.bs, !.stmin = f.stmin, !.inBlock = 0,
            !.state = "sending", !.last = Before(t, f.stmin)]

LEMMA ObeySound ==
  ASSUME NEW c \in TxContext, NEW h \in Transfers, Follows(c, h),
         NEW f \in FlowControls, NEW t \in Time,
         c.state = "waitFC", f.status = "continue",
         NEW d, d = Obeying(c, f, t)
  PROVE  /\ d \in TxContext /\ d.state = "sending"
         /\ Permitted(h, c, f) \in Transfers
         /\ Permitted(h, c, f).message = h.message
         /\ Permitted(h, c, f).bytes = h.bytes
         /\ Follows(d, Permitted(h, c, f))
         /\ ~BlockFull(d) /\ ~TooSoon(d, t)
<1> DEFINE a == IF f.bs = 0 THEN Unlimited ELSE f.bs
           u == Permitted(h, c, f)
<1>1. /\ f.bs \in 0 .. ByteRange - 1 /\ f.stmin \in Time
      /\ 0 \in 0 .. ByteRange - 1 /\ a \in 0 .. Unlimited
  BY FrameAssumption DEF FlowControls, Unlimited
<1>2. Before(t, f.stmin) \in Time /\ Since(t, Before(t, f.stmin)) = f.stmin
  BY <1>1, SinceBefore
<1>3. /\ d \in TxContext /\ d.state = "sending" /\ d.bs = f.bs
      /\ d.stmin = f.stmin /\ d.inBlock = 0 /\ d.last = Before(t, f.stmin)
      /\ d.buffer = c.buffer /\ d.total = c.total /\ d.sent = c.sent
      /\ d.sn = c.sn
  BY <1>1, <1>2 DEF TxContext, Obeying
<1>4. u = [h EXCEPT !.allowed = a]
  BY DEF Permitted
<1> HIDE DEF a
<1>5. /\ u \in Transfers /\ u.message = h.message /\ u.bytes = h.bytes
      /\ u.frames = h.frames /\ u.allowed = a
  BY <1>1, <1>4 DEF Transfers
<1> HIDE DEF u
<1>6. Granted(d, u)
  BY <1>1, <1>3, <1>5, FrameAssumption DEF Granted, Unlimited, a
<1>7. Follows(d, u)
  BY <1>3, <1>5, <1>6 DEF Follows
<1>8. ~BlockFull(d)
  BY <1>1, <1>3, FrameAssumption DEF BlockFull
<1>9. ~TooSoon(d, t)
  BY <1>1, <1>2, <1>3, TimerAssumption DEF TooSoon, Time
<1> QED BY <1>3, <1>5, <1>7, <1>8, <1>9 DEF u

LEMMA TxFlowControlIsFine ==
  ASSUME NEW c \in TxContext, NEW h \in Transfers, Follows(c, h),
         NEW f \in FlowControls, NEW t \in Time,
         NEW r, r = TxOnFlowControl(c, f, t)
  PROVE  /\ Fine(r, Permitted(h, c, f))
         /\ \/ /\ r.event = "send"
               /\ c.state = "waitFC" /\ f.status = "continue"
               /\ \E d \in TxContext :
                    /\ d.state = "sending" /\ ~BlockFull(d)
                    /\ Follows(d, Permitted(h, c, f))
                    /\ r = EmitNext(d, t)
            \/ /\ r.event = "none" /\ r.frame = NoFrame /\ r.ctx = c
               /\ c.state # "waitFC"
            \/ /\ r.event = "wait" /\ r.frame = NoFrame
               /\ r.ctx.state = "waitFC" /\ r.ctx.since = t
            \/ /\ r.event = "aborted" /\ r.frame = NoFrame
               /\ r.ctx.state = "idle"
<1> USE DEF Events
<1>1. CASE c.state # "waitFC"
  <2>1. r = Says(c, "none") /\ Permitted(h, c, f) = h
    BY <1>1 DEF TxOnFlowControl, Awaited, Permitted
  <2>2. Fine(r, h)
    BY <2>1, SaysIsFine
  <2> QED BY <1>1, <2>1, <2>2 DEF Says
<1>2. CASE c.state = "waitFC" /\ f.status = "continue"
  <2> DEFINE u == Permitted(h, c, f)
  <2>0. PICK d : d = Obeying(c, f, t)
    OBVIOUS
  <2>1. r = TxPoll(d, t)
    BY <1>2, <2>0 DEF TxOnFlowControl, Awaited, Obeying
  <2>2. /\ d \in TxContext /\ d.state = "sending" /\ u \in Transfers
        /\ Follows(d, u) /\ ~BlockFull(d) /\ ~TooSoon(d, t)
    BY <1>2, <2>0, ObeySound
  <2> HIDE DEF u
  <2>3. r = EmitNext(d, t)
    BY <2>1, <2>2 DEF TxPoll
  <2>4. Fine(r, u) /\ r.event = "send"
    BY <2>2, <2>3, EmitNextIsFine
  <2> QED BY <1>2, <2>2, <2>3, <2>4 DEF u
<1>3. CASE c.state = "waitFC" /\ f.status = "wait"
  <2> DEFINE d == [c EXCEPT !.since = t]
  <2>1. r = Says(d, "wait") /\ Permitted(h, c, f) = h
    BY <1>3 DEF TxOnFlowControl, Awaited, Permitted
  <2>2. /\ d \in TxContext /\ d.state = "waitFC" /\ d.since = t
        /\ d.buffer = c.buffer /\ d.total = c.total /\ d.sent = c.sent
        /\ d.sn = c.sn
    BY <1>3 DEF TxContext
  <2>3. Follows(d, h)
    BY <1>3, <2>2 DEF Follows
  <2> HIDE DEF d
  <2>4. Fine(r, h)
    BY <2>1, <2>2, <2>3, SaysIsFine
  <2> QED BY <1>3, <2>1, <2>2, <2>4 DEF Says
<1>4. CASE c.state = "waitFC" /\ f.status \in {"overflow", "malformed"}
  <2>1. r = Says(TxIdle(c), "aborted") /\ Permitted(h, c, f) = h
    BY <1>4 DEF TxOnFlowControl, Awaited, Permitted
  <2>2. Fine(r, h)
    BY <2>1, SaysIsFine
  <2> QED BY <1>4, <2>1, <2>2, TxIdleSound DEF Says
<1> QED BY <1>1, <1>2, <1>3, <1>4 DEF FlowControls

\* A transfer that has only just begun.
Begun(m, data) == [Fresh EXCEPT !.message = m, !.bytes = data]

\* The context of a segmented message after its First Frame.
Opened(c, m, t) ==
  [c EXCEPT !.state = "waitFC", !.buffer = m, !.total = Len(m),
            !.sent = FFData, !.sn = 1, !.inBlock = 0, !.since = t, !.last = t]

LEMMA BegunForm ==
  ASSUME NEW m \in Seq(Byte), NEW b \in Seq(Byte)
  PROVE  /\ Begun(m, b) \in Transfers
         /\ Begun(m, b).message = m /\ Begun(m, b).bytes = b
         /\ Begun(m, b).frames = 0
<1>1. 0 \in 0 .. Unlimited
  BY FrameAssumption DEF Unlimited
<1>2. Fresh \in Transfers /\ Fresh.frames = 0
  BY <1>1 DEF Fresh, Transfers
<1>3. \A h \in Transfers :
        LET u == [h EXCEPT !.message = m, !.bytes = b] IN
        /\ u \in Transfers /\ u.message = m /\ u.bytes = b
        /\ u.frames = h.frames
  BY DEF Transfers
<1> QED BY <1>2, <1>3 DEF Begun

LEMMA OpenedSound ==
  ASSUME NEW c \in TxContext, NEW m \in Seq(Byte),
         Len(m) \in FFMin .. MaxPayload, NEW t \in Time
  PROVE  /\ Opened(c, m, t) \in TxContext
         /\ Opened(c, m, t).state = "waitFC" /\ Opened(c, m, t).since = t
         /\ Begun(m, SubSeq(m, 1, FFData)) \in Transfers
         /\ Follows(Opened(c, m, t), Begun(m, SubSeq(m, 1, FFData)))
<1> DEFINE d == Opened(c, m, t)
           b == SubSeq(m, 1, FFData)
           u == Begun(m, b)
<1>1. /\ FFData \in 0 .. MaxPayload /\ FFData < Len(m)
      /\ Len(m) \in 0 .. MaxPayload /\ 1 \in 0 .. SnRange - 1
      /\ 0 \in 0 .. ByteRange - 1
  BY FrameAssumption DEF FFData, FFMin
<1>2. /\ d \in TxContext /\ d.state = "waitFC" /\ d.since = t
      /\ d.buffer = m /\ d.total = Len(m) /\ d.sent = FFData /\ d.sn = 1
  BY <1>1 DEF TxContext, Opened
<1>3. b \in Seq(Byte) /\ Len(b) = FFData
  BY <1>1
<1>4. /\ u \in Transfers /\ u.message = m /\ u.bytes = b /\ u.frames = 0
  BY <1>3, BegunForm
<1> HIDE DEF d, u
<1>5. 1 = (0 + 1) % SnRange
  BY SnSuccessor, 0 + 1 = 1
<1>6. Follows(d, u)
  BY <1>1, <1>2, <1>3, <1>4, <1>5 DEF Follows
<1> QED BY <1>2, <1>4, <1>6 DEF d, u

LEMMA TxBeginIsFine ==
  ASSUME NEW c \in TxContext, NEW m \in Seq(Byte), NEW t \in Time,
         NEW r, r = TxBegin(c, m, t)
  PROVE  \/ /\ r.event \in {"busy", "refused"} /\ r.frame = NoFrame
            /\ r.ctx = c
         \/ /\ r.event = "send" /\ r.frame.kind # "CF"
            /\ r.ctx \in TxContext
            /\ \/ r.ctx.state = "idle"
               \/ r.ctx.state = "waitFC" /\ r.ctx.since = t
            /\ Begun(m, r.frame.data) \in Transfers
            /\ Follows(r.ctx, Begun(m, r.frame.data))
<1>0. /\ FrameSize \in Nat /\ FrameSize >= 3 /\ MaxPayload \in Nat
      /\ MaxPayload >= FrameSize /\ Len(m) \in Nat
  BY FrameAssumption
<1>1. CASE c.state # "idle"
  BY <1>1 DEF TxBegin, Says
<1>2. CASE c.state = "idle" /\ Len(m) \notin 1 .. MaxPayload
  <2>1. Len(m) \notin 1 .. SFMax /\ Len(m) \notin FFMin .. MaxPayload
    BY <1>0, <1>2 DEF SFMax, FFMin
  <2> QED BY <1>2, <2>1 DEF TxBegin, Says
<1>3. CASE c.state = "idle" /\ Len(m) \in 1 .. SFMax
  <2> DEFINE g == Padded(m, 0, SFMax)
  <2>1. /\ Len(m) \in 1 .. MaxPayload /\ Len(m) \notin FFMin .. MaxPayload
        /\ SFMax \in Nat
    BY <1>0, <1>3 DEF SFMax, FFMin
  <2>2. r = Emits(TxIdle(c), [kind |-> "SF", len |-> Len(m), data |-> g])
    BY <1>3, <2>1 DEF TxBegin
  <2>3. g \in Seq(Byte)
    BY <2>1, PaddedBytes
  <2> HIDE DEF g
  <2>4. /\ r.event = "send" /\ r.frame.kind = "SF" /\ r.frame.data = g
        /\ r.ctx = TxIdle(c)
    BY <2>2 DEF Emits
  <2>5. Begun(m, g) \in Transfers
    BY <2>3, BegunForm
  <2> QED BY <2>4, <2>5, TxIdleSound DEF Follows
<1>4. CASE c.state = "idle" /\ Len(m) \in FFMin .. MaxPayload
  <2>1. Len(m) \in 1 .. MaxPayload /\ Len(m) \notin 1 .. SFMax
    BY <1>0, <1>4 DEF SFMax, FFMin
  <2>2. r = Emits(Opened(c, m, t),
                  [kind |-> "FF", len |-> Len(m),
                   data |-> SubSeq(m, 1, FFData)])
    BY <1>4, <2>1 DEF TxBegin, Opened
  <2>3. /\ r.event = "send" /\ r.frame.kind = "FF"
        /\ r.frame.data = SubSeq(m, 1, FFData)
        /\ r.ctx = Opened(c, m, t)
    BY <2>2 DEF Emits
  <2> QED BY <1>4, <2>3, OpenedSound
<1> QED BY <1>0, <1>1, <1>2, <1>3, <1>4 DEF SFMax, FFMin

(***************************************************************************)
(* The inductive invariant.                                                *)
(***************************************************************************)

Histories ==
  [transfer : Transfers, gap : 0 .. Forever, waiting : 0 .. Forever,
   unpolled : 0 .. MaxPollGap]

\* While frames flow, the date of the last one is no further back than it
\* really was; a wrap can only make it look younger.
Paced == tx.state = "sending" => Since(now, tx.last) <= seen.gap

SInv ==
  /\ now \in Time /\ tx \in TxContext
  /\ out.event \in Events
  /\ seen \in Histories
  /\ Follows(tx, seen.transfer)
  /\ Paced

LEMMA ForeverIsLong == Forever \in Nat /\ TimeRange \in Nat
                       /\ TimeRange - 1 <= Forever /\ 0 \in 0 .. Forever
  BY TimerAssumption DEF Forever

LEMMA SinceAtTick ==
  ASSUME NEW n \in Time, NEW t \in Time
  PROVE  /\ After(n, 1) \in Time /\ Since(n, t) \in 0 .. TimeRange - 1
         /\ Since(After(n, 1), t) =
              IF Since(n, t) = TimeRange - 1 THEN 0 ELSE Since(n, t) + 1
         /\ Since(n, n) = 0
  BY TimerAssumption DEF Time, Since, After

LEMMA InitSound == Init => SInv
<1> SUFFICES ASSUME Init
             PROVE  SInv
  OBVIOUS
<1>1. /\ 0 \in 0 .. MaxPayload /\ 0 \in 0 .. SnRange - 1
      /\ 0 \in 0 .. ByteRange - 1 /\ 0 \in Time /\ <<>> \in Seq(Byte)
      /\ 0 \in 0 .. Unlimited /\ 0 \in 0 .. MaxPollGap
      /\ Forever \in 0 .. Forever /\ 0 \in 0 .. Forever
  BY FrameAssumption, TimerAssumption, SegmentationAssumption, ForeverIsLong
  DEF Time, Unlimited
<1>2. now \in Time /\ tx \in TxContext /\ tx.state = "idle"
  BY <1>1 DEF Init, TxStart, TxContext
<1>3. seen \in Histories
  BY <1>1 DEF Init, Fresh, Transfers, Histories
<1>4. out.event \in Events
  BY DEF Init, Still, Events
<1> QED BY <1>2, <1>3, <1>4 DEF SInv, Follows, Paced

\* What a call makes of the history, whichever it was.
LEMMA CallSound ==
  ASSUME SInv, NEW r, Results(r), seen' \in Histories,
         r.ctx \in TxContext, r.event \in Events,
         Follows(r.ctx, seen'.transfer),
         r.ctx.state = "sending" =>
           Since(now, r.ctx.last) <= seen'.gap
  PROVE  SInv'
<1>1. tx' = r.ctx /\ out'.event = r.event /\ now' = now
  BY DEF Results
<1> QED BY <1>1 DEF SInv, Paced, Follows, Granted, TxContext, Transfers,
             Histories, Time, Events, Unlimited, Forever, BlockFull

LEMMA StartStep ==
  ASSUME SInv, NEW m \in Messages, Start(m)
  PROVE  SInv'
<1>1. PICK r : r = TxBegin(tx, m, now)
  OBVIOUS
<1>2. /\ tx \in TxContext /\ now \in Time /\ m \in Seq(Byte)
      /\ seen \in Histories /\ Follows(tx, seen.transfer) /\ Paced
  BY SegmentationAssumption DEF SInv
<1>3. Results(r)
  BY <1>1 DEF Start
<1>4. CASE r.event # "send"
  <2>1. r.event \in Events /\ r.ctx = tx
    BY <1>1, <1>2, <1>4, TxBeginIsFine DEF Events
  <2>2. seen' = seen
    BY <1>1, <1>4 DEF Start
  <2>3. seen' \in Histories /\ Follows(tx, seen'.transfer)
    BY <1>2, <2>2
  <2> QED BY <1>2, <1>3, <2>1, <2>2, <2>3, CallSound DEF Paced
<1>5. CASE r.event = "send"
  <2> DEFINE u == Begun(m, r.frame.data)
  <2>1. /\ r.event \in Events /\ r.ctx \in TxContext
        /\ r.ctx.state # "sending" /\ u \in Transfers /\ Follows(r.ctx, u)
    BY <1>1, <1>2, <1>5, TxBeginIsFine DEF Events
  <2> HIDE DEF u
  <2>2. seen' = [seen EXCEPT !.transfer = u, !.waiting = 0, !.unpolled = 0]
    BY <1>1, <1>5 DEF Start, Begun, u
  <2>3. 0 \in 0 .. Forever /\ 0 \in 0 .. MaxPollGap
    BY ForeverIsLong, SegmentationAssumption
  <2>4. seen' \in Histories /\ seen'.transfer = u
    BY <1>2, <2>1, <2>2, <2>3 DEF Histories
  <2> QED BY <1>3, <2>1, <2>4, CallSound
<1> QED BY <1>4, <1>5

LEMMA FlowControlStep ==
  ASSUME SInv, NEW f \in Controls, FlowControl(f)
  PROVE  SInv'
<1>1. PICK r : r = TxOnFlowControl(tx, f, now)
  OBVIOUS
<1>2. /\ tx \in TxContext /\ now \in Time /\ f \in FlowControls
      /\ seen \in Histories /\ Follows(tx, seen.transfer) /\ Paced
      /\ seen.transfer \in Transfers
  BY SegmentationAssumption DEF SInv, Histories
<1> DEFINE h == Permitted(seen.transfer, tx, f)
           u == Onward(h, r)
           g == IF r.event = "send" THEN 0 ELSE seen.gap
           w == IF r.event = "wait" THEN 0 ELSE seen.waiting
<1>3. Results(r)
  BY <1>1 DEF FlowControl
<1>4. Fine(r, h)
  BY <1>1, <1>2, TxFlowControlIsFine
<1>5. seen' = [seen EXCEPT !.transfer = u, !.gap = g, !.waiting = w]
  BY <1>1 DEF FlowControl, Permitted, Onward
<1>6. u \in Transfers /\ Follows(r.ctx, u)
  BY <1>4 DEF Fine
<1>7. g \in 0 .. Forever /\ w \in 0 .. Forever
  BY <1>2, ForeverIsLong DEF Histories
<1>8. r.ctx.state = "sending" => Since(now, r.ctx.last) <= g
  <2>1. CASE r.event = "send"
    <3>0. PICK d \in TxContext :
            /\ d.state = "sending" /\ ~BlockFull(d) /\ Follows(d, h)
            /\ r = EmitNext(d, now)
      BY <1>1, <1>2, <2>1, TxFlowControlIsFine
    <3>1. r.ctx.last = now
      <4>1. h \in Transfers
        <5>1. IF f.bs = 0 THEN Unlimited \in 0 .. Unlimited
                          ELSE f.bs \in 0 .. Unlimited
          BY <1>2, FrameAssumption DEF FlowControls, Unlimited
        <5> QED BY <1>2, <5>1 DEF Permitted, Transfers
      <4> HIDE DEF h
      <4> QED BY <1>2, <3>0, <4>1, EmitNextIsFine
    <3> QED BY <1>2, <2>1, <3>1, SinceAtTick
  <2>2. CASE r.event # "send"
    BY <1>1, <1>2, <2>2, TxFlowControlIsFine DEF Paced
  <2> QED BY <2>1, <2>2
<1> HIDE DEF h, u, g, w
<1>9. seen' \in Histories /\ seen'.transfer = u /\ seen'.gap = g
  BY <1>2, <1>5, <1>6, <1>7 DEF Histories
<1> QED BY <1>3, <1>4, <1>6, <1>8, <1>9, CallSound DEF Fine

LEMMA PollStep ==
  ASSUME SInv, Poll
  PROVE  SInv'
<1>1. PICK r : r = TxPoll(tx, now)
  OBVIOUS
<1>2. /\ tx \in TxContext /\ now \in Time
      /\ seen \in Histories /\ Follows(tx, seen.transfer) /\ Paced
      /\ seen.transfer \in Transfers
  BY DEF SInv, Histories
<1> DEFINE u == Onward(seen.transfer, r)
           g == IF r.event = "send" THEN 0 ELSE seen.gap
           w == IF tx.state = "sending" THEN 0 ELSE seen.waiting
<1>3. Results(r)
  BY <1>1 DEF Poll
<1>4. Fine(r, seen.transfer)
  BY <1>1, <1>2, TxPollIsFine
<1>5. seen' = [seen EXCEPT !.transfer = u, !.gap = g, !.waiting = w,
                           !.unpolled = 0]
  BY <1>1 DEF Poll, Onward
<1>6. u \in Transfers /\ Follows(r.ctx, u)
  BY <1>4 DEF Fine
<1>7. g \in 0 .. Forever /\ w \in 0 .. Forever /\ 0 \in 0 .. MaxPollGap
  BY <1>2, ForeverIsLong, SegmentationAssumption DEF Histories
<1>8. r.ctx.state = "sending" => Since(now, r.ctx.last) <= g
  <2>1. CASE r.event = "send"
    <3>1. r.ctx.last = now
      BY <1>1, <1>2, <2>1, TxPollIsFine, EmitNextIsFine
    <3> QED BY <1>2, <2>1, <3>1, SinceAtTick
  <2>2. CASE r.event # "send"
    BY <1>1, <1>2, <2>2, TxPollIsFine DEF Paced
  <2> QED BY <2>1, <2>2
<1> HIDE DEF u, g, w
<1>9. seen' \in Histories /\ seen'.transfer = u /\ seen'.gap = g
  BY <1>2, <1>5, <1>6, <1>7 DEF Histories
<1> QED BY <1>3, <1>4, <1>6, <1>8, <1>9, CallSound DEF Fine

LEMMA TickStep ==
  ASSUME SInv, Tick
  PROVE  SInv'
<1>1. /\ now \in Time /\ seen \in Histories /\ tx \in TxContext
      /\ Follows(tx, seen.transfer) /\ Paced
  BY DEF SInv
<1> DEFINE g == Smaller(seen.gap + 1, Forever)
           w == Smaller(seen.waiting + 1, Forever)
           n == seen.unpolled + 1
<1>2. /\ now' = After(now, 1) /\ tx' = tx /\ seen.unpolled < MaxPollGap
      /\ seen' = [seen EXCEPT !.gap = g, !.waiting = w, !.unpolled = n]
      /\ out' = Still
  BY DEF Tick
<1>3. /\ g \in 0 .. Forever /\ w \in 0 .. Forever /\ n \in 0 .. MaxPollGap
      /\ g = IF seen.gap = Forever THEN Forever ELSE seen.gap + 1
      /\ seen.gap \in 0 .. Forever
  BY <1>1, <1>2, ForeverIsLong, SegmentationAssumption
  DEF Histories, Smaller
<1> HIDE DEF g, w, n
<1>4. /\ seen' \in Histories /\ seen'.transfer = seen.transfer
      /\ seen'.gap = g
  BY <1>1, <1>2, <1>3 DEF Histories
<1>5. tx.state = "sending" => Since(now', tx.last) <= g
  <2>1. tx.last \in Time
    BY <1>1 DEF TxContext
  <2>2. /\ Since(now, tx.last) \in 0 .. TimeRange - 1
        /\ Since(now', tx.last) =
             IF Since(now, tx.last) = TimeRange - 1 THEN 0
             ELSE Since(now, tx.last) + 1
    BY <1>1, <1>2, <2>1, SinceAtTick
  <2>3. tx.state = "sending" => Since(now, tx.last) <= seen.gap
    BY <1>1 DEF Paced
  <2> QED BY <1>3, <2>2, <2>3, ForeverIsLong
<1>6. now' \in Time
  BY <1>1, <1>2, SinceAtTick
<1>7. out'.event \in Events
  BY <1>2 DEF Still, Events
<1>8. Follows(tx', seen'.transfer) /\ tx' \in TxContext
  BY <1>1, <1>2, <1>4
<1>9. tx'.state = "sending" => Since(now', tx'.last) <= seen'.gap
  BY <1>2, <1>4, <1>5
<1> QED BY <1>4, <1>6, <1>7, <1>8, <1>9
        DEF SInv, Paced, Follows, Granted, TxContext, Transfers, Histories,
            Time, Events, Unlimited, Forever

LEMMA NextSound == SInv /\ [Next]_vars => SInv'
<1> SUFFICES ASSUME SInv, [Next]_vars
             PROVE  SInv'
  OBVIOUS
<1>1. CASE Reset
  <2>1. /\ tx' = TxIdle(tx) /\ out' = Still /\ now' = now /\ seen' = seen
    BY <1>1 DEF Reset
  <2>2. TxIdle(tx) \in TxContext /\ TxIdle(tx).state = "idle"
    BY TxIdleSound DEF SInv
  <2>3. out'.event \in Events
    BY <2>1 DEF Still, Events
  <2> QED BY <2>1, <2>2, <2>3
          DEF SInv, Paced, Follows, Granted, TxContext, Transfers, Histories,
              Time, Events, Unlimited, Forever
<1>2. CASE UNCHANGED vars
  BY <1>2 DEF vars, SInv, Paced, Follows, Granted, TxContext, Transfers,
              Histories, Time, Events, Unlimited, Forever
<1> QED BY <1>1, <1>2, TickStep, StartStep, FlowControlStep, PollStep
        DEF Next, StartAny, FlowControlAny

\* The context and what the bus has seen stay in step.
THEOREM Invariance == Spec => []SInv
  BY InitSound, NextSound, PTL DEF Spec

\* Type correctness.
THEOREM TypeCorrect == Spec => []TypeOK
<1>1. SInv => TypeOK
  BY DEF SInv, TypeOK, Events, Histories, Transfers
<1> QED BY <1>1, Invariance, PTL

\* What is on the bus is a prefix of the message, and the context knows how
\* long a prefix and how much of its block is left.
THEOREM ProgressHonest == Spec => []ProgressIsHonest
<1>1. SInv => ProgressIsHonest
  <2>1. tx \in TxContext => tx.state \in {"idle", "waitFC", "sending"}
    BY DEF TxContext
  <2> QED BY <2>1 DEF SInv, ProgressIsHonest, Follows, Granted
<1> QED BY <1>1, Invariance, PTL

\* A Consecutive Frame leaves out of a context that may send, in a call that
\* found it sending and not too soon, or that brought a permission.
LEMMA Emission ==
  ASSUME SInv, Next, EmitsConsecutive
  PROVE  \E d \in TxContext, h \in Transfers :
           /\ d.state = "sending" /\ ~BlockFull(d) /\ Follows(d, h)
           /\ h.message = seen.transfer.message
           /\ h.bytes = seen.transfer.bytes
           /\ out'.frame = EmitNext(d, now).frame
           /\ tx' = EmitNext(d, now).ctx
           /\ \/ d = tx /\ h = seen.transfer /\ ~TooSoon(d, now)
              \/ /\ tx.state = "waitFC"
                 /\ \E f \in Controls : f.status = "continue" /\ FlowControl(f)
<1>0. /\ tx \in TxContext /\ now \in Time /\ Follows(tx, seen.transfer)
      /\ seen.transfer \in Transfers
  BY DEF SInv, Histories
<1>1. ~Tick /\ ~Reset
  BY DEF Tick, Reset, Still, EmitsConsecutive
<1>2. ASSUME NEW m \in Messages, Start(m)
      PROVE  FALSE
  <2>1. PICK r : r = TxBegin(tx, m, now)
    OBVIOUS
  <2>2. r.event = "send" /\ r.frame.kind = "CF"
    BY <1>2, <2>1 DEF Start, Results, EmitsConsecutive
  <2>3. m \in Seq(Byte)
    BY SegmentationAssumption
  <2> QED BY <1>0, <2>1, <2>2, <2>3, TxBeginIsFine
<1>3. CASE Poll
  <2>1. PICK r : r = TxPoll(tx, now)
    OBVIOUS
  <2>2. tx' = r.ctx /\ out'.frame = r.frame /\ r.event = "send"
    BY <1>3, <2>1 DEF Poll, Results, EmitsConsecutive
  <2>3. /\ r = EmitNext(tx, now) /\ tx.state = "sending"
        /\ ~BlockFull(tx) /\ ~TooSoon(tx, now)
    BY <1>0, <2>1, <2>2, TxPollIsFine
  <2> QED BY <1>0, <2>2, <2>3
<1>4. ASSUME NEW f \in Controls, FlowControl(f)
      PROVE  \E d \in TxContext, h \in Transfers :
               /\ d.state = "sending" /\ ~BlockFull(d) /\ Follows(d, h)
               /\ h.message = seen.transfer.message
               /\ h.bytes = seen.transfer.bytes
               /\ out'.frame = EmitNext(d, now).frame
               /\ tx' = EmitNext(d, now).ctx
               /\ tx.state = "waitFC" /\ f.status = "continue"
  <2>1. PICK r : r = TxOnFlowControl(tx, f, now)
    OBVIOUS
  <2>2. tx' = r.ctx /\ out'.frame = r.frame /\ r.event = "send"
    BY <1>4, <2>1 DEF FlowControl, Results, EmitsConsecutive
  <2>3. f \in FlowControls
    BY SegmentationAssumption
  <2> DEFINE h == Permitted(seen.transfer, tx, f)
  <2>4. tx.state = "waitFC" /\ f.status = "continue"
    BY <1>0, <2>1, <2>2, <2>3, TxFlowControlIsFine
  <2>5. /\ h \in Transfers /\ h.message = seen.transfer.message
        /\ h.bytes = seen.transfer.bytes
    <3>1. PICK d : d = Obeying(tx, f, now)
      OBVIOUS
    <3> QED BY <1>0, <2>3, <2>4, <3>1, ObeySound
  <2>6. PICK d \in TxContext :
          /\ d.state = "sending" /\ ~BlockFull(d) /\ Follows(d, h)
          /\ r = EmitNext(d, now)
    BY <1>0, <2>1, <2>2, <2>3, TxFlowControlIsFine
  <2> HIDE DEF h
  <2> QED BY <2>2, <2>4, <2>5, <2>6
<1> QED BY <1>1, <1>2, <1>3, <1>4 DEF Next, StartAny, FlowControlAny

\* A transfer that ends by sending its last frame has put the whole message
\* on the bus, in order, followed by padding only.
THEOREM TransfersComplete == Spec => LastFrameCompletes
<1> DEFINE P == EmitsConsecutive /\ tx'.state = "idle" =>
                  LET m == seen.transfer.message
                      b == seen.transfer.bytes \o out'.frame.data
                  IN /\ Len(b) >= Len(m) /\ Len(b) < Len(m) + CFData
                     /\ \A i \in 1 .. Len(b) :
                          b[i] = IF i <= Len(m) THEN m[i] ELSE Pad
<1>1. ASSUME SInv, Next
      PROVE  P
  <2> SUFFICES ASSUME EmitsConsecutive, tx'.state = "idle"
               PROVE  P
    OBVIOUS
  <2>1. PICK d \in TxContext, h \in Transfers :
          /\ d.state = "sending" /\ ~BlockFull(d) /\ Follows(d, h)
          /\ h.message = seen.transfer.message
          /\ h.bytes = seen.transfer.bytes
          /\ out'.frame = EmitNext(d, now).frame
          /\ tx' = EmitNext(d, now).ctx
    BY <1>1, Emission
  <2>2. PICK r : r = EmitNext(d, now)
    OBVIOUS
  <2>3. /\ Len(OnBus(h, r.frame)) >= Len(h.message)
        /\ Len(OnBus(h, r.frame)) < Len(h.message) + CFData
        /\ \A i \in 1 .. Len(OnBus(h, r.frame)) :
             OnBus(h, r.frame)[i] =
               IF i <= Len(h.message) THEN h.message[i] ELSE Pad
    BY <1>1, <2>1, <2>2, EmitNextIsFine DEF SInv
  <2>4. OnBus(h, r.frame) = seen.transfer.bytes \o out'.frame.data
    BY <2>1, <2>2 DEF OnBus
  <2> QED BY <2>1, <2>3, <2>4
<1>2. SInv /\ [Next]_vars => [P]_vars
  BY <1>1
<1> QED BY <1>2, Invariance, PTL DEF Spec, LastFrameCompletes

\* No Consecutive Frame leaves without a Flow Control that allows it.
THEOREM NothingUnasked == Spec => NoFrameUnasked
<1> DEFINE P == EmitsConsecutive =>
                  /\ tx.state # "idle"
                  /\ \/ seen.transfer.allowed > 0
                     \/ \E f \in Controls :
                          f.status = "continue" /\ FlowControl(f)
<1>1. ASSUME SInv, Next, EmitsConsecutive
      PROVE  P
  <2>1. PICK d \in TxContext, h \in Transfers :
          /\ d.state = "sending" /\ ~BlockFull(d) /\ Follows(d, h)
          /\ \/ d = tx /\ h = seen.transfer
             \/ /\ tx.state = "waitFC"
                /\ \E f \in Controls : f.status = "continue" /\ FlowControl(f)
    BY <1>1, Emission
  <2>2. h.allowed > 0
    BY <2>1, GrantAllows DEF Follows
  <2> QED BY <2>1, <2>2
<1>2. SInv /\ [Next]_vars => [P]_vars
  BY <1>1
<1> QED BY <1>2, Invariance, PTL DEF Spec, NoFrameUnasked

\* Two Consecutive Frames of one block are never closer than the receiver's
\* separation time, whatever the clock reads.
THEOREM SeparationsKept == Spec => SeparationKept
<1> DEFINE P == EmitsConsecutive /\ tx.state = "sending" =>
                  seen.gap >= tx.stmin
<1>1. ASSUME SInv, Next, EmitsConsecutive, tx.state = "sending"
      PROVE  seen.gap >= tx.stmin
  <2>1. ~TooSoon(tx, now)
    BY <1>1, Emission
  <2>2. /\ tx.stmin \in Nat /\ seen.gap \in Nat
        /\ tx.last \in Time /\ now \in Time
    BY <1>1, ForeverIsLong, TimerAssumption
    DEF SInv, TxContext, Histories, Time
  <2>3. Since(now, tx.last) \in Nat
    BY <2>2, SinceAtTick, TimerAssumption
  <2>4. Since(now, tx.last) <= seen.gap
    BY <1>1 DEF SInv, Paced
  <2> QED BY <2>1, <2>2, <2>3, <2>4 DEF TooSoon
<1>2. SInv /\ [Next]_vars => [P]_vars
  BY <1>1
<1> QED BY <1>2, Invariance, PTL DEF Spec, SeparationKept

(***************************************************************************)
(* The end of a wait, which needs a caller who polls.                      *)
(***************************************************************************)

\* A wait is as old as its date says, and no older than N_Bs and the time
\* since the last poll.
Waited ==
  tx.state = "waitFC" =>
    /\ Since(now, tx.since) = seen.waiting
    /\ seen.waiting < N_Bs + seen.unpolled

LEMMA WaitedStep ==
  ASSUME N_Bs + MaxPollGap <= TimeRange, SInv, Waited, [Next]_vars
  PROVE  Waited'
<1>0. /\ tx \in TxContext /\ now \in Time /\ Follows(tx, seen.transfer)
      /\ seen.transfer \in Transfers /\ tx.since \in Time
      /\ DOMAIN seen = {"transfer", "gap", "waiting", "unpolled"}
      /\ seen.waiting \in Nat /\ seen.unpolled \in Nat
  BY ForeverIsLong, SegmentationAssumption DEF SInv, Histories, TxContext
<1>1. /\ Since(now, now) = 0 /\ N_Bs \in Nat \ {0} /\ TimeRange \in Nat
      /\ MaxPollGap \in Nat
  BY <1>0, SinceAtTick, TimerAssumption, SegmentationAssumption
<1>2. CASE Tick
  <2> DEFINE w == Smaller(seen.waiting + 1, Forever)
  <2>1. /\ now' = After(now, 1) /\ tx' = tx /\ seen.unpolled < MaxPollGap
        /\ seen'.waiting = w /\ seen'.unpolled = seen.unpolled + 1
    BY <1>0, <1>2 DEF Tick
  <2>2. Since(now', tx.since) =
          IF Since(now, tx.since) = TimeRange - 1 THEN 0
          ELSE Since(now, tx.since) + 1
    BY <1>0, <2>1, SinceAtTick
  <2>3. ASSUME tx.state = "waitFC"
        PROVE  /\ Since(now', tx.since) = w
               /\ w < N_Bs + (seen.unpolled + 1)
    <3>1. /\ Since(now, tx.since) = seen.waiting
          /\ seen.waiting < N_Bs + seen.unpolled
      BY <2>3 DEF Waited
    <3>2. seen.waiting + 1 < TimeRange /\ seen.waiting + 1 < Forever
      BY <1>0, <1>1, <2>1, <3>1 DEF Forever
    <3>3. w = seen.waiting + 1
      BY <1>0, <1>1, <3>2 DEF Smaller, Forever
    <3> HIDE DEF w
    <3> QED BY <1>0, <1>1, <2>2, <3>1, <3>2, <3>3
  <2> HIDE DEF w
  <2> QED BY <2>1, <2>3 DEF Waited
<1>3. ASSUME NEW m \in Messages, Start(m)
      PROVE  Waited'
  <2>1. PICK r : r = TxBegin(tx, m, now)
    OBVIOUS
  <2>2. /\ tx' = r.ctx /\ now' = now
        /\ r.event = "send" => seen'.waiting = 0 /\ seen'.unpolled = 0
        /\ r.event # "send" => seen' = seen
    BY <1>0, <1>3, <2>1 DEF Start, Results
  <2>3. m \in Seq(Byte)
    BY SegmentationAssumption
  <2>4. CASE r.event = "send"
    <3>1. \/ r.ctx.state = "idle"
          \/ r.ctx.state = "waitFC" /\ r.ctx.since = now
      BY <1>0, <2>1, <2>3, <2>4, TxBeginIsFine
    <3> QED BY <1>1, <2>2, <2>4, <3>1 DEF Waited
  <2>5. CASE r.event # "send"
    <3>1. r.ctx = tx
      BY <1>0, <2>1, <2>3, <2>5, TxBeginIsFine
    <3> QED BY <2>2, <2>5, <3>1 DEF Waited
  <2> QED BY <2>4, <2>5
<1>4. ASSUME NEW f \in Controls, FlowControl(f)
      PROVE  Waited'
  <2>1. PICK r : r = TxOnFlowControl(tx, f, now)
    OBVIOUS
  <2>2. /\ tx' = r.ctx /\ now' = now /\ seen'.unpolled = seen.unpolled
        /\ r.event = "wait" => seen'.waiting = 0
    BY <1>0, <1>4, <2>1 DEF FlowControl, Results
  <2>3. f \in FlowControls
    BY SegmentationAssumption
  <2>4. CASE r.event = "send"
    <3>1. PICK d \in TxContext :
            /\ d.state = "sending" /\ ~BlockFull(d)
            /\ Follows(d, Permitted(seen.transfer, tx, f))
            /\ r = EmitNext(d, now)
      BY <1>0, <2>1, <2>3, <2>4, TxFlowControlIsFine
    <3>2. Permitted(seen.transfer, tx, f) \in Transfers
      <4>1. PICK e : e = Obeying(tx, f, now)
        OBVIOUS
      <4> QED BY <1>0, <2>3, <4>1, ObeySound DEF Permitted
    <3>3. r.ctx.state # "waitFC"
      BY <1>0, <3>1, <3>2, EmitNextIsFine
    <3> QED BY <2>2, <3>3 DEF Waited
  <2>5. CASE r.event # "send"
    <3>1. \/ r.ctx = tx /\ tx.state # "waitFC"
          \/ r.event = "wait" /\ r.ctx.since = now
          \/ r.ctx.state = "idle"
      BY <1>0, <2>1, <2>3, <2>5, TxFlowControlIsFine
    <3> QED BY <1>0, <1>1, <2>2, <3>1 DEF Waited
  <2> QED BY <2>4, <2>5
<1>5. CASE Poll
  <2>1. PICK r : r = TxPoll(tx, now)
    OBVIOUS
  <2>2. /\ tx' = r.ctx /\ now' = now /\ seen'.unpolled = 0
        /\ seen'.waiting = IF tx.state = "sending" THEN 0 ELSE seen.waiting
    BY <1>0, <1>5, <2>1 DEF Poll, Results
  <2>3. CASE r.event = "send"
    <3>1. /\ r = EmitNext(tx, now) /\ tx.state = "sending" /\ ~BlockFull(tx)
      BY <1>0, <2>1, <2>3, TxPollIsFine
    <3>2. r.ctx.state # "waitFC"
      BY <1>0, <3>1, EmitNextIsFine
    <3> QED BY <2>2, <3>2 DEF Waited
  <2>4. CASE r.event # "send"
    <3>1. \/ r.ctx = tx /\ ~(tx.state = "waitFC" /\ TxLate(tx, now))
          \/ tx.state = "sending" /\ r.ctx.since = now
          \/ r.ctx.state = "idle"
      BY <1>0, <2>1, <2>4, TxPollIsFine
    <3>2. ASSUME tx.state = "waitFC", ~TxLate(tx, now)
          PROVE  /\ Since(now, tx.since) = seen.waiting
                 /\ seen.waiting < N_Bs
      BY <1>0, <1>1, <3>2 DEF Waited, TxLate
    <3> QED BY <1>1, <2>2, <3>1, <3>2 DEF Waited
  <2> QED BY <2>3, <2>4
<1>6. CASE Reset
  BY <1>0, <1>6, TxIdleSound DEF Reset, Waited
<1>7. CASE UNCHANGED vars
  BY <1>7 DEF vars, Waited
<1> QED BY <1>2, <1>3, <1>4, <1>5, <1>6, <1>7
        DEF Next, StartAny, FlowControlAny

\* A wait is given up exactly when N_Bs has really elapsed since it began,
\* if two polls are never so far apart that the clock hides it.
THEOREM WaitsEnd ==
  ASSUME N_Bs + MaxPollGap <= TimeRange
  PROVE  Spec => WaitIsBounded
<1> DEFINE P == /\ Poll /\ out'.event = "aborted" => seen.waiting >= N_Bs
                /\ Poll /\ tx.state = "waitFC" /\ seen.waiting >= N_Bs
                     => tx'.state = "idle"
<1>1. ASSUME SInv, Waited, Poll
      PROVE  P
  <2>1. PICK r : r = TxPoll(tx, now)
    OBVIOUS
  <2>2. tx' = r.ctx /\ out'.event = r.event
    BY <1>1, <2>1 DEF Poll, Results
  <2>3. \/ r.event # "aborted" /\ ~(tx.state = "waitFC" /\ TxLate(tx, now))
        \/ r.ctx.state = "idle" /\ tx.state = "waitFC" /\ TxLate(tx, now)
    BY <1>1, <2>1, TxPollIsFine DEF SInv, Histories
  <2>4. tx.state = "waitFC" => (TxLate(tx, now) <=> seen.waiting >= N_Bs)
    BY <1>1 DEF Waited, TxLate
  <2> QED BY <2>2, <2>3, <2>4
<1>2. SInv /\ Waited /\ [Next]_vars => [P]_vars
  BY <1>1
<1>3. Init => Waited
  BY DEF Init, TxStart, Waited
<1>4. SInv /\ Waited /\ [Next]_vars => Waited'
  BY WaitedStep
<1> QED BY <1>2, <1>3, <1>4, Invariance, PTL DEF Spec, WaitIsBounded
=============================================================================
