---------------------------- MODULE DiagLinkProofs ----------------------------
(***************************************************************************)
(* Both ends of a link stay ready as long as no read and no write of their *)
(* sockets fails, for every frame size, timer, length of message, lag,     *)
(* number of lost frames and kind of foreign traffic.                      *)
(*                                                                         *)
(* What a thread is doing and what its segmenter is doing must match: a    *)
(* thread that is not inside diag_link_send has an idle segmenter, and     *)
(* drive_tx only ever runs inside diag_link_send.  The bytes, the timers   *)
(* and the reassembler do not matter: of a segmenter only its state is     *)
(* looked at.                                                              *)
(***************************************************************************)
EXTENDS DiagLink, SequenceTheorems, TLAPS

\* A record with a state of the segmenter, whatever its other fields hold.
Segmenter(c) ==
  /\ c = [x \in DOMAIN c |-> c[x]] /\ "state" \in DOMAIN c
  /\ c.state \in {"idle", "waitFC", "sending"}

Place == [at : {"poll", "driveAnswer", "driveTimeout", "reply", "down"},
          sending : BOOLEAN, began : Time, date : Time]

\* A frame the two halves of isotp.c can read.
Readable(f) ==
  /\ f.kind \in {"SF", "FF", "CF", "FC", "other", "empty"}
  /\ f.kind = "FC" =>
       f.status \in {"continue", "wait", "overflow", "malformed"}

\* The types the argument needs.
Shapes ==
  /\ now \in Time
  /\ tx = [e \in Ends |-> tx[e]] /\ \A e \in Ends : Segmenter(tx[e])
  /\ thread \in [Ends -> Place]
  /\ next \in [Ends -> Nat \ {0}]
  /\ spent \in [lost : Nat, faults : Nat]

\* Whatever is on the bus can be read.
ReadableBus ==
  \E S : (\A f \in S : Readable(f)) /\ chan \in [Ends -> Seq(S)]

\* An end whose thread and segmenter match.
Matched(e) ==
  /\ thread[e].at # "down"
  /\ thread[e].at \in {"driveAnswer", "driveTimeout"} => thread[e].sending
  /\ thread[e].at = "reply" => ~thread[e].sending
  /\ ~thread[e].sending => tx[e].state = "idle"

\* The inductive invariant.
LInv ==
  /\ Shapes /\ ReadableBus
  /\ spent.faults = 0 => \A e \in Ends : Matched(e)

-----------------------------------------------------------------------------
(* The segmenter: an abort leaves it idle, whatever it was doing.          *)

LEMMA TxIdleIsIdle ==
  ASSUME NEW c, Segmenter(c)
  PROVE  Segmenter(TxIdle(c)) /\ TxIdle(c).state = "idle"
  BY DEF Segmenter, TxIdle

\* An outcome: the context it leaves is a segmenter, idle if it gave up, and
\* the frame it emits, if any, is one that can be read.
WellDone(r) ==
  /\ Segmenter(r.ctx)
  /\ r.event = "aborted" => r.ctx.state = "idle"
  /\ r.event = "send" => Readable(r.frame)

LEMMA Outcomes ==
  ASSUME NEW c, Segmenter(c)
  PROVE  /\ \A event : event \notin {"aborted", "send"} =>
                         WellDone(Says(c, event))
         /\ WellDone(Says(TxIdle(c), "aborted"))
         /\ \A f : Readable(f) => WellDone(Emits(c, f))
  BY TxIdleIsIdle DEF WellDone, Says, Emits

LEMMA EmitNextDone ==
  ASSUME NEW c, Segmenter(c), NEW t
  PROVE  WellDone(EmitNext(c, t))
<1> DEFINE d == [Advance(c) EXCEPT !.last = t]
<1>1. Segmenter(d)
  BY DEF Segmenter, Advance
<1> HIDE DEF d
<1>2. Segmenter(IF d.sent >= d.total THEN TxIdle(d) ELSE d)
  BY <1>1, TxIdleIsIdle
<1>3. Readable(NextFrame(c))
  BY DEF Readable, NextFrame
<1>4. QED
  BY <1>2, <1>3, Outcomes DEF EmitNext, d

LEMMA TxPollDone ==
  ASSUME NEW c, Segmenter(c), NEW t
  PROVE  WellDone(TxPoll(c, t))
<1> DEFINE d == [c EXCEPT !.state = "waitFC", !.since = t, !.inBlock = 0]
<1>1. Segmenter(d)
  BY DEF Segmenter
<1> HIDE DEF d
<1>2. /\ WellDone(Says(c, "none")) /\ WellDone(Says(c, "wait"))
      /\ WellDone(Says(d, "wait")) /\ WellDone(EmitNext(c, t))
      /\ WellDone(Says(TxIdle(c), "aborted"))
  BY <1>1, Outcomes, EmitNextDone
<1>3. QED
  BY <1>2 DEF TxPoll, Segmenter, d

LEMMA FlowControlDone ==
  ASSUME NEW c, Segmenter(c), NEW f, Readable(f), f.kind = "FC", NEW t
  PROVE  WellDone(TxOnFlowControl(c, f, t))
<1> DEFINE d == [c EXCEPT !.bs = f.bs, !.stmin = f.stmin, !.inBlock = 0,
                          !.state = "sending", !.last = Before(t, f.stmin)]
           w == [c EXCEPT !.since = t]
<1>1. Segmenter(d) /\ Segmenter(w)
  BY DEF Segmenter
<1> HIDE DEF d, w
<1>2. /\ WellDone(Says(c, "none")) /\ WellDone(TxPoll(d, t))
      /\ WellDone(Says(w, "wait")) /\ WellDone(Says(TxIdle(c), "aborted"))
  BY <1>1, Outcomes, TxPollDone
<1>3. f.status \in {"continue", "wait", "overflow", "malformed"}
  BY DEF Readable
<1>4. QED
  BY <1>2, <1>3 DEF TxOnFlowControl, d, w

\* isotp_tx_start: a message that is refused leaves the segmenter alone.
LEMMA TxBeginDone ==
  ASSUME NEW c, Segmenter(c), NEW m \in Seq(Ends \X Nat \X Nat), NEW t
  PROVE  LET r == TxBegin(c, m, t) IN
         /\ Segmenter(r.ctx)
         /\ r.event = "send" => Readable(r.frame)
         /\ r.event \in {"busy", "refused"} => r.ctx = c
<1> DEFINE d == [c EXCEPT !.state = "waitFC", !.buffer = m, !.total = Len(m),
                          !.sent = FFData, !.sn = 1, !.inBlock = 0,
                          !.since = t, !.last = t]
           sf == [kind |-> "SF", len |-> Len(m), data |-> Padded(m, 0, SFMax)]
           ff == [kind |-> "FF", len |-> Len(m), data |-> SubSeq(m, 1, FFData)]
<1>1. Segmenter(d) /\ Segmenter(TxIdle(c))
  BY TxIdleIsIdle DEF Segmenter
<1>2. Readable(sf) /\ Readable(ff)
  BY DEF Readable
<1>3. \/ Len(m) \notin 1 .. MaxPayload
      \/ Len(m) \in 1 .. SFMax
      \/ Len(m) \in FFMin .. MaxPayload
  <2>1. Len(m) \in Nat
    OBVIOUS
  <2>2. QED
    BY <2>1, FrameAssumption DEF SFMax, FFMin
<1> HIDE DEF d, sf, ff
<1>4. TxBegin(c, m, t) \in {Says(c, "busy"), Says(c, "refused"),
                            Emits(TxIdle(c), sf), Emits(d, ff)}
  BY <1>3 DEF TxBegin, Segmenter, d, sf, ff
<1>5. QED
  BY <1>1, <1>2, <1>4 DEF Says, Emits

-----------------------------------------------------------------------------
(* The reassembler: the Flow Control it asks for is one that can be read.  *)

LEMMA RxAnswers ==
  ASSUME NEW c, NEW f, Readable(f), NEW t,
         RxProcess(c, f, t).out.event = "flowControl"
  PROVE  RxProcess(c, f, t).out.fc \in {"continue", "overflow"}
<1> DEFINE s == Stamp(c, f, t)
           r == RxProcess(c, f, t)
<1>1. /\ Quiet.event # "flowControl" /\ Aborted.event # "flowControl"
      /\ \A m : Ready(m).event # "flowControl"
      /\ \A status : Control(status).fc = status
  BY DEF Quiet, Aborted, Ready, Control
<1>2. \A d : Ignore(d).out = Quiet /\ Abort(d).out = Aborted
  BY DEF Ignore, Abort
<1>3. OnSingle(s, f).out.event # "flowControl"
  BY <1>1, <1>2 DEF OnSingle
<1>4. OnFirst(s, f).out.event = "flowControl" =>
        OnFirst(s, f).out.fc \in {"continue", "overflow"}
  BY <1>1, <1>2 DEF OnFirst
<1>5. OnConsecutive(s, f).out.event # "flowControl"
  BY <1>1, <1>2 DEF OnConsecutive
<1> HIDE DEF s
<1>6. r \in {Ignore(c), Ignore(s), OnSingle(s, f), OnFirst(s, f),
             OnConsecutive(s, f)}
  BY DEF RxProcess, Readable, s
<1>7. QED
  BY <1>1, <1>2, <1>3, <1>4, <1>5, <1>6
-----------------------------------------------------------------------------
(* The threads: where diag_link_poll returns to.                           *)

\* What a step of end e leaves alone at the other end.
OnlyAt(e) ==
  \A x \in Ends \ {e} : tx'[x] = tx[x] /\ thread'[x] = thread[x]

\* The two contexts keep their types.
Kept ==
  /\ tx' = [e \in Ends |-> tx'[e]] /\ \A e \in Ends : Segmenter(tx'[e])
  /\ thread' \in [Ends -> Place]

LEMMA ZeroIsADate == 0 \in Time
  BY TimerAssumption DEF Time

LEMMA TxBecomes ==
  ASSUME Shapes, NEW e \in Ends, NEW d, Segmenter(d),
         tx' = [tx EXCEPT ![e] = d]
  PROVE  /\ tx' = [x \in Ends |-> tx'[x]]
         /\ \A x \in Ends : Segmenter(tx'[x])
         /\ tx'[e] = d /\ \A x \in Ends \ {e} : tx'[x] = tx[x]
  BY DEF Shapes

\* Each field of a place written alone.
LEMMA PlaceUpdates ==
  ASSUME NEW p \in Place
  PROVE  /\ \A at \in {"poll", "driveAnswer", "driveTimeout", "reply", "down"} :
              [p EXCEPT !.at = at] \in Place
         /\ \A sending \in BOOLEAN : [p EXCEPT !.sending = sending] \in Place
         /\ \A t \in Time : [p EXCEPT !.began = t] \in Place
         /\ \A t \in Time : [p EXCEPT !.date = t] \in Place
<1>1. ASSUME NEW at \in {"poll", "driveAnswer", "driveTimeout", "reply", "down"}
      PROVE  [p EXCEPT !.at = at] \in Place
  BY DEF Place
<1>2. ASSUME NEW sending \in BOOLEAN
      PROVE  [p EXCEPT !.sending = sending] \in Place
  BY DEF Place
<1>3. ASSUME NEW t \in Time
      PROVE  [p EXCEPT !.began = t] \in Place
  BY DEF Place
<1>4. ASSUME NEW t \in Time
      PROVE  [p EXCEPT !.date = t] \in Place
  BY DEF Place
<1>5. QED
  BY <1>1, <1>2, <1>3, <1>4

LEMMA GoesTo ==
  ASSUME Shapes, NEW e \in Ends, NEW sending \in BOOLEAN,
         NEW at \in {"poll", "driveAnswer", "driveTimeout", "reply", "down"},
         Goes(e, at, sending)
  PROVE  /\ thread' \in [Ends -> Place]
         /\ thread'[e].at = at /\ thread'[e].sending = sending
         /\ \A x \in Ends \ {e} : thread'[x] = thread[x]
<1> DEFINE p == [thread[e] EXCEPT !.at = at, !.sending = sending,
                   !.began = IF sending THEN thread[e].began ELSE 0,
                   !.date = 0]
<1>1. thread' = [thread EXCEPT ![e] = p]
  BY DEF Goes, Shapes, Place
<1>2. p \in Place
  <2> DEFINE began == IF sending THEN thread[e].began ELSE 0
  <2>1. thread[e] \in Place /\ began \in Time
    BY ZeroIsADate DEF Shapes, Place
  <2> HIDE DEF began
  <2>2. p = [[[[thread[e] EXCEPT !.at = at] EXCEPT !.sending = sending]
                EXCEPT !.began = began] EXCEPT !.date = 0]
    BY DEF began
  <2>3. QED
    BY <2>1, <2>2, ZeroIsADate, PlaceUpdates
<1>3. p.at = at /\ p.sending = sending
  BY DEF Shapes, Place
<1> HIDE DEF p
<1>4. QED
  BY <1>1, <1>2, <1>3 DEF Shapes

\* A return of diag_link_poll leaves thread and segmenter matched, unless it
\* is an error of a server's main loop, or one the segmenter was not told of.
LEMMA ResumesMatched ==
  ASSUME Shapes, NEW e \in Ends, NEW c, Segmenter(c), NEW r \in {-1, 0, 1},
         NEW put, Resumes(e, r, c, put)
  PROVE  /\ Kept /\ OnlyAt(e)
         /\ /\ ~thread[e].sending => r >= 0 /\ c.state = "idle"
            /\ r < 0 => c.state = "idle"
            => Matched(e)'
<1>1. CASE thread[e].sending
  <2>1. SendResumes(e, r, c, put)
    BY <1>1 DEF Resumes
  <2>2. PICK d : /\ Segmenter(d) /\ tx' = [tx EXCEPT ![e] = d]
                 /\ \/ /\ Goes(e, "poll", FALSE)
                       /\ d.state = "idle" \/ (r < 0 /\ d = c)
                    \/ Goes(e, "poll", TRUE)
    <3>1. Segmenter(TxIdle(c)) /\ TxIdle(c).state = "idle"
      BY TxIdleIsIdle
    <3>2. CASE r < 0
      <4>1. ~(r >= 0)
        BY <3>2
      <4>2. tx' = [tx EXCEPT ![e] = c] /\ Goes(e, "poll", FALSE)
        BY <2>1, <3>2, <4>1 DEF SendResumes
      <4>3. QED
        BY <3>2, <4>2
    <3>3. CASE r >= 0 /\ Overdue(e)
      BY <2>1, <3>1, <3>3 DEF SendResumes
    <3>4. CASE r >= 0 /\ ~Overdue(e) /\ ~StillSending(c)
      BY <2>1, <3>4 DEF SendResumes, StillSending
    <3>5. CASE r >= 0 /\ ~Overdue(e) /\ StillSending(c)
      BY <2>1, <3>5 DEF SendResumes
    <3>6. r < 0 \/ r >= 0
      OBVIOUS
    <3>7. QED
      BY <3>6, <3>2, <3>3, <3>4, <3>5
  <2>3. QED
    BY <2>2, <1>1, TxBecomes, GoesTo DEF Kept, OnlyAt, Matched
<1>2. CASE ~thread[e].sending
  <2> DEFINE at == IF e = Server
             THEN CASE r < 0 -> "down" [] r = 0 -> "poll" [] r > 0 -> "reply"
             ELSE "poll"
  <2>1. tx' = [tx EXCEPT ![e] = c] /\ Goes(e, at, FALSE)
    BY <1>2 DEF Resumes, LoopResumes
  <2>2. at \in {"poll", "reply", "down"} /\ (r >= 0 => at # "down")
    OBVIOUS
  <2> HIDE DEF at
  <2>3. /\ Kept /\ OnlyAt(e) /\ tx'[e] = c
        /\ thread'[e].at = at /\ ~thread'[e].sending
    BY <2>1, <2>2, TxBecomes, GoesTo DEF Kept, OnlyAt
  <2>4. QED
    BY <1>2, <2>2, <2>3 DEF Matched
<1>3. QED
  BY <1>1, <1>2

\* drive_tx runs inside diag_link_send.
LEMMA DrivesMatched ==
  ASSUME Shapes, NEW e \in Ends, NEW c, Segmenter(c), NEW put,
         NEW at \in {"driveAnswer", "driveTimeout"}, Drives(e, at, c, put)
  PROVE  Kept /\ OnlyAt(e) /\ (thread[e].sending => Matched(e)')
<1> DEFINE p == [thread[e] EXCEPT !.at = at, !.date = now]
<1>1. thread' = [thread EXCEPT ![e] = p] /\ tx' = [tx EXCEPT ![e] = c]
  BY DEF Drives, Shapes, Place
<1>2. p \in Place /\ p.at = at /\ p.sending = thread[e].sending
  BY DEF Shapes, Place
<1> HIDE DEF p
<1>3. /\ thread' \in [Ends -> Place] /\ thread'[e] = p
      /\ \A x \in Ends \ {e} : thread'[x] = thread[x]
  BY <1>1, <1>2 DEF Shapes
<1>4. QED
  BY <1>1, <1>2, <1>3, TxBecomes DEF Kept, OnlyAt, Matched
-----------------------------------------------------------------------------
(* The bus.                                                                *)

LEMMA PeerIsTheOther ==
  ASSUME NEW e \in Ends
  PROVE  Peer(e) \in Ends /\ Peer(e) # e
  BY LinkAssumption DEF Ends, Peer

LEMMA HeadIsReadable ==
  ASSUME ReadableBus, NEW e \in Ends, chan[e] # <<>>
  PROVE  Readable(Head(chan[e]))
  BY HeadTailProperties DEF ReadableBus

\* A queue may grow by a readable frame, and lose frames.
LEMMA BusChanges ==
  ASSUME ReadableBus, NEW e \in Ends
  PROVE  /\ \A f : Readable(f) /\ Written(e, f) => ReadableBus'
         /\ \A f : Readable(f) /\ chan[e] # <<>> /\ ReadAndWritten(e, f)
                     => ReadableBus'
         /\ chan[e] # <<>> /\ chan' = [chan EXCEPT ![e] = Tail(@)]
              => ReadableBus'
         /\ \A f : Readable(f) /\ chan' = [chan EXCEPT ![e] = <<f>>]
                     => ReadableBus'
         /\ \A i \in 1 .. Len(chan[e]) :
              chan' = [chan EXCEPT ![e] = SubSeq(@, 1, i - 1)
                                            \o SubSeq(@, i + 1, Len(@))]
                => ReadableBus'
<1>1. PICK S : (\A f \in S : Readable(f)) /\ chan \in [Ends -> Seq(S)]
  BY DEF ReadableBus
<1>2. /\ Peer(e) \in Ends /\ Peer(e) # e
      /\ chan[e] \in Seq(S) /\ chan[Peer(e)] \in Seq(S)
  BY <1>1, PeerIsTheOther
<1>3. \A x \in Ends : \A f : chan[x] \in Seq(S \cup {f})
  BY <1>1, SeqMonotonic
<1>4. ASSUME NEW f, Readable(f), Written(e, f)
      PROVE  ReadableBus'
  <2>1. Append(chan[Peer(e)], f) \in Seq(S \cup {f})
    BY <1>2, <1>3
  <2>2. chan' \in [Ends -> Seq(S \cup {f})]
    BY <1>1, <1>2, <1>3, <1>4, <2>1 DEF Written
  <2>3. QED
    BY <1>1, <1>4, <2>2 DEF ReadableBus
<1>5. ASSUME NEW f, Readable(f), chan[e] # <<>>, ReadAndWritten(e, f)
      PROVE  ReadableBus'
  <2>1. /\ Append(chan[Peer(e)], f) \in Seq(S \cup {f})
        /\ Tail(chan[e]) \in Seq(S \cup {f})
    BY <1>2, <1>3, <1>5, HeadTailProperties
  <2>2. chan' \in [Ends -> Seq(S \cup {f})]
    BY <1>1, <1>2, <1>3, <1>5, <2>1 DEF ReadAndWritten
  <2>3. QED
    BY <1>1, <1>5, <2>2 DEF ReadableBus
<1>6. ASSUME chan[e] # <<>>, chan' = [chan EXCEPT ![e] = Tail(@)]
      PROVE  ReadableBus'
  <2>1. Tail(chan[e]) \in Seq(S)
    BY <1>2, <1>6, HeadTailProperties
  <2>2. chan' \in [Ends -> Seq(S)]
    BY <1>1, <1>6, <2>1
  <2>3. QED
    BY <1>1, <2>2 DEF ReadableBus
<1>7. ASSUME NEW f, Readable(f), chan' = [chan EXCEPT ![e] = <<f>>]
      PROVE  ReadableBus'
  <2>1. <<f>> \in Seq(S \cup {f})
    OBVIOUS
  <2>2. chan' \in [Ends -> Seq(S \cup {f})]
    BY <1>1, <1>3, <1>7, <2>1
  <2>3. QED
    BY <1>1, <1>7, <2>2 DEF ReadableBus
<1>8. ASSUME NEW i \in 1 .. Len(chan[e]),
             chan' = [chan EXCEPT ![e] = SubSeq(@, 1, i - 1)
                                           \o SubSeq(@, i + 1, Len(@))]
      PROVE  ReadableBus'
  <2>1. /\ Len(chan[e]) \in Nat
        /\ \A j \in 1 .. Len(chan[e]) : chan[e][j] \in S
    BY <1>2, ElementOfSeq, LenProperties
  <2>2. SubSeq(chan[e], 1, i - 1) \in Seq(S)
    BY <2>1, SubSeqProperties
  <2>3. SubSeq(chan[e], i + 1, Len(chan[e])) \in Seq(S)
    BY <2>1, SubSeqProperties
  <2>4. chan' \in [Ends -> Seq(S)]
    BY <1>1, <1>8, <2>2, <2>3, ConcatProperties
  <2>5. QED
    BY <1>1, <2>4 DEF ReadableBus
<1>9. QED
  BY <1>4, <1>5, <1>6, <1>7, <1>8

-----------------------------------------------------------------------------
(* Every step keeps the two ends matched, or is a failed write.            *)

\* A step of one end: the rest of the invariant follows.
LEMMA StepOfOneEnd ==
  ASSUME LInv, NEW e \in Ends, Kept, OnlyAt(e), ReadableBus', now' = now,
         next' \in [Ends -> Nat \ {0}],
         \/ spent' = spent /\ (spent.faults = 0 => Matched(e)')
         \/ spent' = [spent EXCEPT !.faults = @ + 1]
  PROVE  LInv'
<1>1. Shapes'
  BY DEF LInv, Shapes, Kept
<1>2. CASE spent' = spent /\ (spent.faults = 0 => Matched(e)')
  <2>1. spent.faults = 0 => \A x \in Ends \ {e} : Matched(x)'
    BY DEF LInv, OnlyAt, Matched
  <2>2. QED
    BY <1>1, <1>2, <2>1 DEF LInv
<1>3. CASE spent' = [spent EXCEPT !.faults = @ + 1]
  <2>1. spent'.faults # 0
    BY <1>3 DEF LInv, Shapes
  <2>2. QED
    BY <1>1, <2>1 DEF LInv
<1>4. QED
  BY <1>2, <1>3

LEMMA ReadFlowControlKeepsLInv ==
  ASSUME LInv, NEW e \in Ends, ReadFlowControl(e)
  PROVE  LInv'
<1> DEFINE f == Head(chan[e])
           r == TxOnFlowControl(tx[e], f, now)
<1>1. /\ chan[e] # <<>> /\ Readable(f) /\ f.kind = "FC"
      /\ tx[e].state # "idle" /\ UNCHANGED <<now, next>>
  BY HeadIsReadable DEF ReadFlowControl, ForTx, LInv
<1>2. WellDone(r)
  BY <1>1, FlowControlDone DEF LInv, Shapes
<1>3. Shapes /\ ReadableBus /\ next' \in [Ends -> Nat \ {0}]
  BY <1>1 DEF LInv, Shapes
<1>4. spent.faults = 0 => thread[e].sending
  BY <1>1 DEF LInv, Matched
<1> HIDE DEF r, f
<1>5. CASE /\ r.event = "send" /\ ReadAndWritten(e, r.frame)
           /\ Drives(e, "driveAnswer", r.ctx, log[e].put + 1)
  <2>1. ReadableBus' /\ spent' = spent
    BY <1>1, <1>2, <1>3, <1>5, BusChanges DEF WellDone, ReadAndWritten
  <2>2. Kept /\ OnlyAt(e) /\ (thread[e].sending => Matched(e)')
    BY <1>2, <1>3, <1>5, DrivesMatched DEF WellDone
  <2>3. QED
    BY <1>1, <1>3, <1>4, <2>1, <2>2, StepOfOneEnd
<1>6. CASE /\ r.event = "send" /\ ReadAndFails(e)
           /\ Resumes(e, -1, r.ctx, log[e].put)
  <2>1. ReadableBus' /\ spent' = [spent EXCEPT !.faults = @ + 1]
    BY <1>1, <1>3, <1>6, BusChanges DEF ReadAndFails
  <2>2. Kept /\ OnlyAt(e)
    BY <1>2, <1>3, <1>6, ResumesMatched DEF WellDone
  <2>3. QED
    BY <1>1, <1>3, <2>1, <2>2, StepOfOneEnd
<1>7. CASE /\ r.event # "send" /\ ReadOnly(e)
           /\ Resumes(e, IF r.event = "aborted" THEN -1 ELSE 0, r.ctx,
                      log[e].put)
  <2>1. ReadableBus' /\ spent' = spent
    BY <1>1, <1>3, <1>7, BusChanges DEF ReadOnly
  <2>2. /\ Kept /\ OnlyAt(e)
        /\ thread[e].sending => Matched(e)'
    <3>1. CASE r.event = "aborted"
      BY <1>2, <1>3, <1>7, <3>1, ResumesMatched DEF WellDone
    <3>2. CASE r.event # "aborted"
      BY <1>2, <1>3, <1>7, <3>2, ResumesMatched DEF WellDone
    <3>3. QED
      BY <3>1, <3>2
  <2>3. QED
    BY <1>1, <1>3, <1>4, <2>1, <2>2, StepOfOneEnd
<1>8. QED
  BY <1>5, <1>6, <1>7 DEF ReadFlowControl, r, f

LEMMA ReadFrameKeepsLInv ==
  ASSUME LInv, NEW e \in Ends, ReadFrame(e)
  PROVE  LInv'
<1> DEFINE f == Head(chan[e])
           r == RxProcess(rx[e], f, now)
           fc == FlowControlFrame(r.out.fc)
<1>1. /\ chan[e] # <<>> /\ Readable(f) /\ Segmenter(tx[e])
      /\ UNCHANGED <<now, next>>
  BY HeadIsReadable DEF ReadFrame, LInv, Shapes
<1>2. r.out.event = "flowControl" => Readable(fc)
  BY <1>1, RxAnswers DEF FlowControlFrame, Readable
<1>3. Shapes /\ ReadableBus /\ next' \in [Ends -> Nat \ {0}]
  BY <1>1 DEF LInv, Shapes
<1>4. spent.faults = 0 /\ ~thread[e].sending => tx[e].state = "idle"
  BY DEF LInv, Matched
<1> HIDE DEF f
<1>5. CASE /\ r.out.event = "flowControl" /\ ReadAndFails(e)
           /\ Resumes(e, -1, tx[e], log[e].put)
  <2>1. ReadableBus' /\ spent' = [spent EXCEPT !.faults = @ + 1]
    BY <1>1, <1>3, <1>5, BusChanges DEF ReadAndFails
  <2>2. Kept /\ OnlyAt(e)
    BY <1>1, <1>3, <1>5, ResumesMatched
  <2>3. QED
    BY <1>1, <1>3, <2>1, <2>2, StepOfOneEnd
<1>6. CASE \/ /\ r.out.event = "flowControl"
              /\ ReadAndWritten(e, fc)
              /\ Resumes(e, 0, tx[e], log[e].put)
           \/ /\ r.out.event \in {"ready", "none", "aborted"}
              /\ ReadOnly(e)
              /\ Resumes(e, Returns(r.out.event), tx[e], log[e].put)
  <2>1. ReadableBus' /\ spent' = spent
    BY <1>1, <1>2, <1>3, <1>6, BusChanges DEF ReadAndWritten, ReadOnly
  <2>2. PICK n \in {0, 1} : Resumes(e, n, tx[e], log[e].put)
    BY <1>6 DEF Returns
  <2>3. /\ Kept /\ OnlyAt(e)
        /\ (~thread[e].sending => tx[e].state = "idle") => Matched(e)'
    BY <1>1, <1>3, <2>2, ResumesMatched
  <2>4. QED
    BY <1>1, <1>3, <1>4, <2>1, <2>3, StepOfOneEnd
<1>7. QED
  BY <1>5, <1>6 DEF ReadFrame, f

\* A failed read may leave a transfer open or end the server's loop, which
\* the invariant allows once a fault is counted.
LEMMA ReadFailsKeepsLInv ==
  ASSUME LInv, NEW e \in Ends, ReadFails(e)
  PROVE  LInv'
<1>1. /\ Segmenter(tx[e]) /\ UNCHANGED <<now, next>>
      /\ Shapes /\ ReadableBus' /\ next' \in [Ends -> Nat \ {0}]
      /\ spent' = [spent EXCEPT !.faults = @ + 1]
      /\ Resumes(e, -1, tx[e], log[e].put)
  BY DEF ReadFails, LInv, Shapes, ReadableBus
<1>2. Kept /\ OnlyAt(e)
  BY <1>1, ResumesMatched
<1>3. QED
  BY <1>1, <1>2, StepOfOneEnd

LEMMA ReadTimeoutKeepsLInv ==
  ASSUME LInv, NEW e \in Ends, ReadTimeout(e) \/ ReadForeign(e)
  PROVE  LInv'
<1>1. /\ Segmenter(tx[e]) /\ UNCHANGED <<now, next, chan, spent>>
      /\ \/ Resumes(e, 0, tx[e], log[e].put)
         \/ /\ tx[e].state # "idle"
            /\ Drives(e, "driveTimeout", tx[e], log[e].put)
  BY DEF ReadTimeout, ReadForeign, LInv, Shapes
<1>2. /\ Shapes /\ ReadableBus' /\ next' \in [Ends -> Nat \ {0}]
      /\ spent.faults = 0 /\ ~thread[e].sending => tx[e].state = "idle"
  BY <1>1 DEF LInv, Shapes, ReadableBus, Matched
<1>3. Kept /\ OnlyAt(e) /\ (spent.faults = 0 => Matched(e)')
  <2>1. CASE Resumes(e, 0, tx[e], log[e].put)
    BY <1>1, <1>2, <2>1, ResumesMatched
  <2>2. CASE /\ tx[e].state # "idle"
             /\ Drives(e, "driveTimeout", tx[e], log[e].put)
    BY <1>1, <1>2, <2>2, DrivesMatched
  <2>3. QED
    BY <1>1, <2>1, <2>2
<1>4. QED
  BY <1>1, <1>2, <1>3, StepOfOneEnd

LEMMA DriveKeepsLInv ==
  ASSUME LInv, NEW e \in Ends, Drive(e)
  PROVE  LInv'
<1> DEFINE r == TxPoll(tx[e], thread[e].date)
<1>1. /\ thread[e].at \in {"driveAnswer", "driveTimeout"}
      /\ UNCHANGED <<now, next>>
  BY DEF Drive
<1>2. WellDone(r)
  BY TxPollDone DEF LInv, Shapes
<1>3. Shapes /\ ReadableBus /\ next' \in [Ends -> Nat \ {0}]
  BY <1>1 DEF LInv, Shapes
<1>4. spent.faults = 0 => thread[e].sending
  BY <1>1 DEF LInv, Matched
<1> HIDE DEF r
<1>5. CASE /\ r.event = "send" /\ Written(e, r.frame)
           /\ tx' = [tx EXCEPT ![e] = r.ctx] /\ UNCHANGED thread
  <2>1. ReadableBus' /\ spent' = spent
    BY <1>2, <1>3, <1>5, BusChanges DEF WellDone, Written
  <2>2. Kept /\ OnlyAt(e)
    BY <1>2, <1>3, <1>5, TxBecomes DEF WellDone, Kept, OnlyAt, Shapes
  <2>3. spent.faults = 0 => Matched(e)'
    BY <1>4, <1>5 DEF LInv, Matched
  <2>4. QED
    BY <1>1, <1>3, <2>1, <2>2, <2>3, StepOfOneEnd
<1>6. \A n : n \in {-1, 0} => Driven(e, n) \in {-1, 0}
  BY DEF Driven
<1>7. CASE /\ r.event = "send" /\ WriteFails
           /\ Resumes(e, Driven(e, -1), r.ctx, log[e].put)
  <2>1. ReadableBus' /\ spent' = [spent EXCEPT !.faults = @ + 1]
    BY <1>3, <1>7 DEF WriteFails, ReadableBus
  <2>2. Kept /\ OnlyAt(e)
    BY <1>2, <1>3, <1>6, <1>7, ResumesMatched DEF WellDone
  <2>3. QED
    BY <1>1, <1>3, <2>1, <2>2, StepOfOneEnd
<1>8. CASE /\ r.event # "send" /\ UNCHANGED <<chan, spent>>
           /\ Resumes(e, Driven(e, IF r.event = "aborted" THEN -1 ELSE 0),
                      r.ctx, log[e].put)
  <2>1. ReadableBus' /\ spent' = spent
    BY <1>3, <1>8 DEF ReadableBus
  <2> DEFINE n == Driven(e, IF r.event = "aborted" THEN -1 ELSE 0)
  <2>2. n \in {-1, 0} /\ (n < 0 => r.event = "aborted")
    BY DEF Driven
  <2>3. Kept /\ OnlyAt(e) /\ (thread[e].sending => Matched(e)')
    BY <1>2, <1>3, <1>8, <2>2, ResumesMatched DEF WellDone
  <2>4. QED
    BY <1>1, <1>3, <1>4, <2>1, <2>3, StepOfOneEnd
<1>9. QED
  BY <1>5, <1>7, <1>8 DEF Drive, r

LEMMA SendBeginsKeepsLInv ==
  ASSUME LInv, NEW e \in Ends, SendBegins(e)
  PROVE  LInv'
<1> DEFINE m == Message(e, next[e])
           r == TxBegin(tx[e], m, now)
           failed == [thread[e] EXCEPT !.at = "poll"]
           sent == [at |-> "poll", sending |-> r.ctx.state # "idle",
                    began |-> IF r.ctx.state = "idle" THEN 0 ELSE now,
                    date |-> 0]
<1>1. /\ MayBegin(e) /\ UNCHANGED <<now>>
      /\ next' = [next EXCEPT ![e] = @ + 1]
      /\ tx' = [tx EXCEPT ![e] = r.ctx]
      /\ \/ /\ r.event = "send" /\ Written(e, r.frame)
            /\ thread' = [thread EXCEPT ![e] = sent]
         \/ /\ \/ r.event = "send" /\ WriteFails
               \/ r.event \in {"busy", "refused"} /\ UNCHANGED <<chan, spent>>
            /\ thread' = [thread EXCEPT ![e].at = "poll"]
  BY DEF SendBegins
<1>2. m \in Seq(Ends \X Nat \X Nat)
  <2>0. Lengths[e] \in Seq(Nat) /\ next[e] \in Nat \ {0}
    BY LinkAssumption DEF LInv, Shapes
  <2>1. next[e] \in 1 .. Len(Lengths[e])
    BY <1>1, <2>0, LenProperties DEF MayBegin
  <2>2. Lengths[e][next[e]] \in Nat
    BY <2>0, <2>1, ElementOfSeq
  <2>3. \A i \in 1 .. Lengths[e][next[e]] : <<e, next[e], i>> \in Ends \X Nat \X Nat
    BY <2>0
  <2> DEFINE n == Lengths[e][next[e]]
             k == next[e]
  <2>4. m = [i \in 1 .. n |-> <<e, k, i>>]
    BY DEF Message
  <2> HIDE DEF n, k
  <2>5. m \in [1 .. n -> Ends \X Nat \X Nat]
    BY <2>3, <2>4 DEF n, k
  <2>6. QED
    BY <2>2, <2>5, SeqDef DEF n
<1> HIDE DEF m
<1>3. /\ Segmenter(r.ctx)
      /\ r.event = "send" => Readable(r.frame)
      /\ r.event \in {"busy", "refused"} => r.ctx = tx[e]
  BY <1>2, TxBeginDone DEF LInv, Shapes
<1>4. Shapes /\ ReadableBus /\ next' \in [Ends -> Nat \ {0}]
  BY <1>1 DEF LInv, Shapes
<1>5. spent.faults = 0 => ~thread[e].sending /\ tx[e].state = "idle"
  BY <1>1 DEF LInv, Matched, MayBegin
<1>6. failed \in Place /\ failed.at = "poll"
      /\ failed.sending = thread[e].sending
  <2>1. thread[e] \in Place
    BY <1>4 DEF Shapes
  <2>2. QED
    BY <2>1, PlaceUpdates DEF Place
<1>7. sent \in Place /\ sent.at = "poll"
      /\ sent.sending = (r.ctx.state # "idle")
  BY <1>4, ZeroIsADate DEF Place, Shapes
<1>8. thread' = [thread EXCEPT ![e] = sent]
        \/ thread' = [thread EXCEPT ![e] = failed]
  BY <1>1, <1>4 DEF Shapes, Place
<1> HIDE DEF r, sent, failed
<1>9. Kept /\ OnlyAt(e) /\ tx'[e] = r.ctx
  <2>1. PICK p \in Place : thread' = [thread EXCEPT ![e] = p]
    BY <1>6, <1>7, <1>8
  <2>2. /\ thread' \in [Ends -> Place]
        /\ \A x \in Ends \ {e} : thread'[x] = thread[x]
    BY <1>4, <2>1 DEF Shapes
  <2>3. QED
    BY <1>1, <1>3, <1>4, <2>2, TxBecomes DEF Kept, OnlyAt
<1>10. CASE /\ r.event = "send" /\ Written(e, r.frame)
            /\ thread' = [thread EXCEPT ![e] = sent]
  <2>1. ReadableBus' /\ spent' = spent
    BY <1>3, <1>4, <1>10, BusChanges DEF Written
  <2>2. Matched(e)'
    BY <1>4, <1>7, <1>9, <1>10 DEF Matched, Shapes
  <2>3. QED
    BY <1>1, <1>4, <1>9, <2>1, <2>2, StepOfOneEnd
<1>11. CASE /\ r.event = "send" /\ WriteFails
  <2>1. ReadableBus' /\ spent' = [spent EXCEPT !.faults = @ + 1]
    BY <1>4, <1>11 DEF WriteFails, ReadableBus
  <2>2. QED
    BY <1>1, <1>4, <1>9, <2>1, StepOfOneEnd
<1>12. CASE /\ r.event \in {"busy", "refused"} /\ UNCHANGED <<chan, spent>>
            /\ thread' = [thread EXCEPT ![e].at = "poll"]
  <2>1. ReadableBus' /\ spent' = spent
    BY <1>4, <1>12 DEF ReadableBus
  <2>2. thread'[e] = failed
    BY <1>4, <1>12 DEF Shapes, Place, failed
  <2>3. spent.faults = 0 => Matched(e)'
    BY <1>3, <1>5, <1>6, <1>9, <1>12, <2>2 DEF Matched
  <2>4. QED
    BY <1>1, <1>4, <1>9, <2>1, <2>3, StepOfOneEnd
<1>13. QED
  BY <1>1, <1>10, <1>11, <1>12

LEMMA NoAnswerKeepsLInv ==
  ASSUME LInv, NoAnswer
  PROVE  LInv'
<1> DEFINE p == [thread[Server] EXCEPT !.at = "poll"]
<1>1. /\ thread[Server].at = "reply" /\ thread' = [thread EXCEPT ![Server] = p]
      /\ UNCHANGED <<now, tx, chan, next, spent>> /\ Server \in Ends
  BY DEF NoAnswer, LInv, Shapes, Place, Ends
<1>2. thread[Server] \in Place
  BY <1>1 DEF LInv, Shapes
<1>3. p \in Place /\ p.at = "poll" /\ p.sending = thread[Server].sending
  BY <1>2, PlaceUpdates DEF Place
<1> HIDE DEF p
<1>4. /\ thread' \in [Ends -> Place] /\ thread'[Server] = p
      /\ \A x \in Ends \ {Server} : thread'[x] = thread[x]
  BY <1>1, <1>3 DEF LInv, Shapes
<1>5. Kept /\ OnlyAt(Server) /\ ReadableBus' /\ next' \in [Ends -> Nat \ {0}]
  BY <1>1, <1>4 DEF Kept, OnlyAt, LInv, Shapes, ReadableBus
<1>6. spent.faults = 0 => Matched(Server)'
  BY <1>1, <1>3, <1>4 DEF LInv, Matched
<1>7. QED
  BY <1>1, <1>5, <1>6, StepOfOneEnd

\* The clock and the bus move nothing at either end.
LEMMA OutsideKeepsLInv ==
  ASSUME LInv, \/ Tick \/ UNCHANGED vars
               \/ \E e \in Ends : Lose(e) \/ AskToWait(e)
  PROVE  LInv'
<1>1. UNCHANGED <<tx, thread, next>>
  BY DEF Tick, Lose, AskToWait, vars
<1>2. now' \in Time
  BY TimerAssumption DEF Tick, Lose, AskToWait, vars, After, Time, LInv, Shapes
<1>3. spent' \in [lost : Nat, faults : Nat] /\ spent'.faults = spent.faults
  BY DEF Tick, Lose, AskToWait, vars, LInv, Shapes
<1>4. ReadableBus'
  <2>1. CASE Tick \/ UNCHANGED vars
    BY <2>1 DEF Tick, vars, LInv, ReadableBus
  <2>2. ASSUME NEW e \in Ends, Lose(e)
        PROVE  ReadableBus'
    BY <2>2, BusChanges DEF Lose, LInv
  <2>3. ASSUME NEW e \in Ends, AskToWait(e)
        PROVE  ReadableBus'
    <3>1. Readable(FlowControlFrame("wait"))
      BY DEF Readable, FlowControlFrame
    <3>2. QED
      BY <2>3, <3>1, BusChanges DEF AskToWait, LInv
  <2>4. QED
    BY <2>1, <2>2, <2>3
<1>5. QED
  BY <1>1, <1>2, <1>3, <1>4 DEF LInv, Shapes, Matched

LEMMA LinkInit == Init => LInv
<1> SUFFICES ASSUME Init
             PROVE  LInv
  OBVIOUS
<1>1. Segmenter(TxStart) /\ TxStart.state = "idle"
  BY DEF Segmenter, TxStart
<1>2. Shapes
  BY <1>1, ZeroIsADate DEF Init, Shapes, Place
<1>3. ReadableBus
  <2>1. chan \in [Ends -> Seq({})]
    BY EmptySeq DEF Init
  <2>2. QED
    BY <2>1 DEF ReadableBus
<1>4. \A e \in Ends : Matched(e)
  BY <1>1 DEF Init, Matched
<1>5. QED
  BY <1>2, <1>3, <1>4 DEF LInv

LEMMA LinkNext == LInv /\ [Next]_vars => LInv'
  BY ReadFlowControlKeepsLInv, ReadFrameKeepsLInv, ReadTimeoutKeepsLInv,
     ReadFailsKeepsLInv, DriveKeepsLInv, SendBeginsKeepsLInv,
     NoAnswerKeepsLInv, OutsideKeepsLInv
  DEF Next, Turn

\* AVAIL-2 of the link: whatever the bus loses, the peer sends and the timers
\* do, no transfer outlives the call of diag_link_send that started it, and
\* the server's main loop does not come to its end, as long as no read
\* and no write of a socket failed.
THEOREM BothEndsStayReady == Spec => []LinkStaysReady
<1>1. LInv => LinkStaysReady
  BY DEF LInv, Matched, LinkStaysReady, AtPoll, Ends
<1>2. QED
  BY LinkInit, LinkNext, <1>1, PTL DEF Spec
=============================================================================
