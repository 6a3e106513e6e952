---------------------------- MODULE ExplorerProofs ----------------------------
(***************************************************************************)
(* The server implements DiagnosticAuthority, and no explorer ever makes   *)
(* it do otherwise, for every value of the constants.                      *)
(*                                                                         *)
(* 1. A step of the server is a settlement (what the deadlines take,       *)
(*    Polled) followed by one act on what they leave; the witnesses of the *)
(*    abstract step are the four abstract variables of Polled.             *)
(* 2. Whatever an explorer does, the server sees one call on a request it  *)
(*    knows, a poll, a tick or nothing: its invariants and what its calls  *)
(*    may do carry over.  The requests that arrive in frames are known     *)
(*    because a message of several frames starts as a ReadDataByIdentifier *)
(*    does.                                                                *)
(***************************************************************************)
EXTENDS UdsServerProofs, Explorer, SequenceTheorems

-----------------------------------------------------------------------------
(* 1. The authority.                                                       *)

\* What the authority keeps of a context.
SameView(c, d) ==
  /\ RungOf(c) = RungOf(d) /\ c.seed_pending = d.seed_pending
  /\ c.failed_attempts = d.failed_attempts /\ c.locked_out = d.locked_out

\* The act that leads from the settled context to the new one.
ActOnPolled ==
  Authority!Act(RungOf(Polled), Polled.seed_pending,
                Polled.failed_attempts, Polled.locked_out)

-----------------------------------------------------------------------------
\* A sound context stands on a rung the authority has.
LEMMA RungExists ==
  ASSUME NEW c, Sound(c)
  PROVE  /\ RungOf(c) \in {"none", "session", "unlocked"}
         /\ RungOf(c) = "none" <=> c.session = "default"
         /\ RungOf(c) = "session" <=>
              c.session = "extended" /\ c.security_level = "locked"
         /\ c.seed_pending \in BOOLEAN /\ c.locked_out \in BOOLEAN
         /\ c.failed_attempts \in 0 .. MaxAttempts
  BY DEF Sound, Coherent, Context, RungOf

\* The deadlines only take: the session with all it carried, the lockout
\* with its strikes, or both.
LEMMA DeadlinesSettle ==
  ASSUME IInv
  PROVE  Authority!Settled(RungOf(Polled), Polled.seed_pending,
                           Polled.failed_attempts, Polled.locked_out)
<1>1. Sound(ctx) /\ Sound(Polled)
  BY PolledSound DEF IInv
<1>3. \/ RungOf(Polled) = RungOf(ctx) /\ Polled.seed_pending = ctx.seed_pending
      \/ RungOf(Polled) = "none" /\ ~Polled.seed_pending
  BY PolledFacts DEF RungOf
<1>4. CASE Polled.failed_attempts = ctx.failed_attempts
  <2>1. Polled.locked_out = ctx.locked_out
    BY <1>1, <1>4 DEF Sound, Coherent, Context
  <2>2. QED
    BY <1>3, <1>4, <2>1 DEF Authority!Settled
<1>5. CASE Polled.failed_attempts # ctx.failed_attempts
  <2>1. Polled.failed_attempts = 0 /\ ctx.failed_attempts \in Nat
    BY <1>1, <1>5, PolledFacts DEF Sound, Context
  <2>2. ctx.locked_out /\ ~Polled.locked_out
    BY <1>5, <2>1, PolledFacts
  <2>3. QED
    BY <1>3, <2>1, <2>2 DEF Authority!Settled
<1>6. QED
  BY <1>4, <1>5

\* A step that leaves the view of the settled context is no act, and one
\* that closes the session is the act of closing.
LEMMA IdleActs ==
  ASSUME IInv, SameView(ctx', Polled)
  PROVE  ActOnPolled
  BY DEF ActOnPolled, SameView, Authority!Act, Authority!Become, RungOf

\* 0x27 with the conditions under which it draws a seed or hands out the
\* null one.
LEMMA SecurityActs ==
  ASSUME NEW req \in Request, SecurityAccess(req)
  PROVE  LET c == Refreshed IN
         /\ c.session # "default"
         /\ \/ ctx' = c
            \/ c.security_level # "locked"
               /\ ctx' = [c EXCEPT !.seed_pending = FALSE]
            \/ c.security_level = "locked" /\ ~c.locked_out
               /\ ctx' = Challenge(c)
            \/ c.seed_pending /\ ctx' \in {Grant(c), Bar(Strike(c))}
<1> DEFINE c == Refreshed
<1>1. c.session # "default"
  BY DEF SecurityAccess, Dispatched, Allows, NeedsExtended, Refreshed
<1>2. \/ \E nrc \in {"incorrectMessageLength", "requiredTimeDelayNotExpired",
                    "subFunctionNotSupported"} : Refuse(c, req, nrc)
      \/ ~c.locked_out /\ RequestSeed(c, req)
      \/ SendKey(c, req)
  BY DEF SecurityAccess, Barred
<1> HIDE DEF c
<1>3. CASE ~c.locked_out /\ RequestSeed(c, req)
  BY <1>1, <1>3 DEF RequestSeed, AnswerWith, Refuse, c
<1>4. CASE SendKey(c, req)
  BY <1>1, <1>4 DEF SendKey, WrongKey, Answer, AnswerWith, Refuse, c
<1>5. CASE \E nrc \in {"incorrectMessageLength",
                      "requiredTimeDelayNotExpired",
                      "subFunctionNotSupported"} : Refuse(c, req, nrc)
  BY <1>1, <1>5 DEF Refuse, c
<1>6. QED
  BY <1>2, <1>3, <1>4, <1>5

\* The handlers other than 0x27 open the session, close it, or do nothing.
LEMMA OrdinaryRequestsAct ==
  ASSUME IInv, NEW req \in Request, NEW o, HandleRequest(req, o),
         ~SecurityAccess(req)
  PROVE  ActOnPolled
<1> DEFINE c == Refreshed
<1>1. /\ c \in Context /\ c.session = Polled.session
      /\ c.security_level = Polled.security_level
      /\ c.seed_pending = Polled.seed_pending
      /\ c.failed_attempts = Polled.failed_attempts
      /\ c.locked_out = Polled.locked_out
  BY RefreshedFields
<1>2. Sound(Polled) /\ Current = Polled
  BY PolledSound DEF IInv, Current
<1> HIDE DEF c
<1>3. ctx' \in {Current, c, FallBack(c), [c EXCEPT !.session = "extended"]}
  BY OrdinaryEffect DEF c
<1>4. CASE ctx' \in {Current, c}
  <2>1. SameView(ctx', Polled)
    BY <1>1, <1>2, <1>4 DEF SameView, RungOf
  <2>2. QED
    BY <2>1, IdleActs
<1>5. CASE ctx' = FallBack(c)
  <2>1. /\ ctx'.session = "default" /\ ctx'.security_level = "locked"
        /\ ctx'.seed_pending = FALSE
        /\ ctx'.failed_attempts = Polled.failed_attempts
        /\ ctx'.locked_out = Polled.locked_out
    BY <1>1, <1>5 DEF FallBack, Context
  <2>2. QED
    BY <2>1 DEF ActOnPolled, Authority!Act, Authority!Become, RungOf
<1>6. CASE ctx' = [c EXCEPT !.session = "extended"]
  <2>1. /\ ctx'.session = "extended"
        /\ ctx'.security_level = Polled.security_level
        /\ ctx'.seed_pending = Polled.seed_pending
        /\ ctx'.failed_attempts = Polled.failed_attempts
        /\ ctx'.locked_out = Polled.locked_out
    BY <1>1, <1>6 DEF Context
  <2>2. CASE Polled.session = "default"
    <3>1. /\ Polled.security_level = "locked"
          /\ Polled.seed_pending = FALSE
      BY <1>2, <2>2 DEF Sound, Coherent, Context
    <3>2. RungOf(Polled) = "none" /\ RungOf(ctx') = "session"
      BY <2>1, <2>2, <3>1 DEF RungOf
    <3>3. QED
      BY <2>1, <3>1, <3>2
      DEF ActOnPolled, Authority!Act, Authority!Become, RungOf
  <2>3. CASE Polled.session # "default"
    <3>1. SameView(ctx', Polled)
      BY <2>1, <2>3 DEF SameView, RungOf
    <3>2. QED
      BY <3>1, IdleActs
  <2>4. QED
    BY <2>2, <2>3
<1>7. QED
  BY <1>3, <1>4, <1>5, <1>6

\* 0x27 challenges, grants, strikes, or does nothing.
LEMMA SecurityRequestsAct ==
  ASSUME IInv, NEW req \in Request, SecurityAccess(req)
  PROVE  ActOnPolled
<1> DEFINE c == Refreshed
<1>1. /\ c \in Context /\ c.session = Polled.session
      /\ c.security_level = Polled.security_level
      /\ c.seed_pending = Polled.seed_pending
      /\ c.failed_attempts = Polled.failed_attempts
      /\ c.locked_out = Polled.locked_out
  BY RefreshedFields
<1>2. Sound(Polled) /\ Sound(c)
  BY PolledSound, RefreshedSound DEF IInv
<1>3. /\ c.session # "default"
      /\ \/ ctx' = c
         \/ c.security_level # "locked"
            /\ ctx' = [c EXCEPT !.seed_pending = FALSE]
         \/ c.security_level = "locked" /\ ~c.locked_out
            /\ ctx' = Challenge(c)
         \/ c.seed_pending /\ ctx' \in {Grant(c), Bar(Strike(c))}
  BY SecurityActs
<1> HIDE DEF c
<1>4. Polled.session # "default"
  BY <1>1, <1>3
<1>5. CASE \/ ctx' = c
           \/ c.security_level # "locked"
              /\ ctx' = [c EXCEPT !.seed_pending = FALSE]
  <2>1. c.security_level # "locked" => c.seed_pending = FALSE
    BY <1>2 DEF Sound, Coherent, Context
  <2>2. /\ ctx'.session = c.session
        /\ ctx'.security_level = c.security_level
        /\ ctx'.seed_pending = c.seed_pending
        /\ ctx'.failed_attempts = c.failed_attempts
        /\ ctx'.locked_out = c.locked_out
    BY <1>1, <1>5, <2>1 DEF Context
  <2>3. SameView(ctx', Polled)
    BY <1>1, <2>2 DEF SameView, RungOf
  <2>4. QED
    BY <2>3, IdleActs
<1>6. CASE c.security_level = "locked" /\ ~c.locked_out /\ ctx' = Challenge(c)
  <2>1. /\ ctx'.session = c.session /\ ctx'.security_level = "locked"
        /\ ctx'.seed_pending = TRUE
        /\ ctx'.failed_attempts = c.failed_attempts
        /\ ctx'.locked_out = c.locked_out
    BY <1>1, <1>6 DEF Challenge, Context
  <2>2. RungOf(Polled) = "session" /\ RungOf(ctx') = "session"
    BY <1>1, <1>4, <1>6, <2>1 DEF RungOf
  <2>3. QED
    BY <1>1, <1>6, <2>1, <2>2
    DEF ActOnPolled, Authority!Act, Authority!Become
<1>7. CASE c.seed_pending /\ ctx' \in {Grant(c), Bar(Strike(c))}
  <2>1. c.security_level = "locked" /\ ~c.locked_out
    BY <1>2, <1>7 DEF Sound, Coherent
  <2>2. RungOf(Polled) = "session" /\ Polled.seed_pending /\ ~Polled.locked_out
    BY <1>1, <1>4, <1>7, <2>1 DEF RungOf
  <2>3. CASE ctx' = Grant(c)
    <3>1. /\ ctx'.session = c.session /\ ctx'.security_level = "level1"
          /\ ctx'.seed_pending = FALSE /\ ctx'.failed_attempts = 0
          /\ ctx'.locked_out = c.locked_out
      BY <1>1, <2>3 DEF Grant, Context
    <3>2. RungOf(ctx') = "unlocked"
      BY <1>3, <3>1 DEF RungOf
    <3>3. QED
      BY <1>1, <2>2, <3>1, <3>2
      DEF ActOnPolled, Authority!Act, Authority!Become
  <2>4. CASE ctx' = Bar(Strike(c))
    <3> DEFINE s == Strike(c)
    <3>1. /\ s.session = c.session /\ s.security_level = c.security_level
          /\ s.seed_pending = FALSE
          /\ s.failed_attempts = c.failed_attempts + 1
          /\ s.locked_out = c.locked_out
          /\ DOMAIN s = DOMAIN c
      BY <1>1 DEF Strike, Context
    <3>2. c.failed_attempts \in 0 .. MaxAttempts - 1 /\ c.locked_out = FALSE
      BY <1>2, <2>1, SecurityAssumption DEF Sound, Coherent, Context
    <3>3. /\ ctx'.session = c.session /\ ctx'.security_level = "locked"
          /\ ctx'.seed_pending = FALSE
          /\ ctx'.failed_attempts = c.failed_attempts + 1
          /\ ctx'.locked_out = (c.failed_attempts + 1 = MaxAttempts)
      <4>1. CASE c.failed_attempts + 1 = MaxAttempts
        <5>1. ctx' = [s EXCEPT !.locked_out = TRUE,
                               !.lockout_until = Later(now, Lockout)]
          BY <2>4, <3>1, <4>1, <3>2, SecurityAssumption DEF Bar
        <5>2. /\ "locked_out" \in DOMAIN s
          BY <1>1, <3>1 DEF Context
        <5> HIDE DEF s
        <5>3. ctx'.locked_out = TRUE
          BY <5>1, <5>2
        <5>4. /\ ctx'.session = s.session
              /\ ctx'.security_level = s.security_level
              /\ ctx'.seed_pending = s.seed_pending
              /\ ctx'.failed_attempts = s.failed_attempts
          BY <5>1, <3>1, <1>1 DEF Context
        <5>5. QED
          BY <2>1, <3>1, <4>1, <5>3, <5>4
      <4>2. CASE c.failed_attempts + 1 # MaxAttempts
        <5>1. ctx' = s
          BY <2>4, <3>1, <4>2, <3>2, SecurityAssumption DEF Bar
        <5>2. QED
          BY <2>1, <3>1, <3>2, <4>2, <5>1
      <4>3. QED
        BY <4>1, <4>2
    <3> HIDE DEF s
    <3>4. RungOf(ctx') = "session"
      BY <1>3, <3>3 DEF RungOf
    <3>5. QED
      BY <1>1, <2>2, <3>3, <3>4
      DEF ActOnPolled, Authority!Act, Authority!Become
  <2>5. QED
    BY <1>7, <2>3, <2>4
<1>8. QED
  BY <1>3, <1>5, <1>6, <1>7

\* A call of the server is a step of the authority, or a stutter.
LEMMA ActsAreSteps ==
  ASSUME IInv, ActOnPolled
  PROVE  Authority!Next
<1>1. Sound(Polled)
  BY PolledSound DEF IInv
<1>2. /\ RungOf(Polled) \in {"none", "session", "unlocked"}
      /\ Polled.seed_pending \in BOOLEAN /\ Polled.locked_out \in BOOLEAN
      /\ Polled.failed_attempts \in 0 .. MaxAttempts
  BY <1>1, RungExists
<1>3. QED
  BY <1>2, DeadlinesSettle DEF ActOnPolled, Authority!Next

LEMMA InitRefines == Init => Authority!Init
  BY DEF Init, Authority!Init, RungOf

\* One call of the server, on any request it can be sent, or a step that is
\* no call.
Called == \E req \in Request : \E o \in OutcomesOf(req.sid) :
            HandleRequest(req, o)

ServerStep ==
  Called \/ Poll \/ Tick \/ (reply' = NoReply /\ UNCHANGED <<now, ctx>>)

LEMMA NextIsServerStep == [Next]_vars => ServerStep \/ UNCHANGED vars
  BY RequestAssumption DEF Next, Handle, ServerStep, Called

LEMMA StepRefines ==
  ASSUME IInv, ServerStep \/ UNCHANGED vars
  PROVE  [Authority!Next]_(Authority!avars)
<1>1. CASE Called
  <2>1. PICK req \in Request : \E o \in OutcomesOf(req.sid) :
               HandleRequest(req, o)
    BY <1>1 DEF Called
  <2>2. ActOnPolled
    BY <2>1, OrdinaryRequestsAct, SecurityRequestsAct
  <2>3. QED
    BY <2>2, ActsAreSteps
<1>2. CASE Poll
  <2>1. SameView(ctx', Polled)
    BY <1>2 DEF Poll, SameView
  <2>2. QED
    BY <2>1, IdleActs, ActsAreSteps
<1>3. CASE ctx' = ctx
  BY <1>3 DEF Authority!avars, RungOf
<1>4. QED
  BY <1>1, <1>2, <1>3 DEF ServerStep, Tick, vars

\* Whatever a client sends and whenever, the server's session, level,
\* challenge, attempts and lockout move only as DiagnosticAuthority allows.
THEOREM Refinement == Spec => ImplementsAuthority
<1>1. IInv /\ [Next]_vars => [Authority!Next]_(Authority!avars)
  BY NextIsServerStep, StepRefines
<1>2. QED
  BY InitRefines, <1>1, Invariance, PTL
  DEF Spec, ImplementsAuthority, Authority!Spec

-----------------------------------------------------------------------------
(* 2. The explorers.                                                       *)

\* isotp_rx_t as far as the argument needs it.
Assembler ==
  [state : {"idle", "wait"}, expected : Nat, received : Nat, sn : Nat,
   last : Clock, buffer : Seq(Nat)]

\* The bytes an explorer ever feeds start a request the server knows: what is
\* half assembled is a read of data, and counts no more bytes than announced.
Assembling(c) ==
  /\ c \in Assembler
  /\ c.received <= c.expected
  /\ c.state = "wait" =>
       /\ c.received < c.expected /\ c.received = Len(c.buffer)
       /\ c.buffer # <<>> /\ c.buffer[1] = 34

\* The inductive invariant of the explorers.
EInv ==
  /\ IInv /\ Assembling(rx) /\ lastKey \in Keys
  /\ probe \in [sent : 0 .. 2, served : {TRUE}]

\* A step that is no call, a poll or a tick leaves what it finds.
LEMMA ServerStepSound ==
  ASSUME IInv, ServerStep \/ UNCHANGED vars
  PROVE  IInv'
<1>1. CASE Called
  BY <1>1, HandleRequestSound DEF Called
<1>2. CASE Poll \/ Tick \/ UNCHANGED vars
  BY <1>2, NextSound DEF Next
<1>3. CASE reply' = NoReply /\ UNCHANGED <<now, ctx>>
  <2>1. NoReply \in Reply
    BY SecurityAssumption DEF NoReply, Reply
  <2>2. QED
    BY <1>3, <2>1 DEF IInv, Sound, Coherent, Clock, ClockRange
<1>4. QED
  BY <1>1, <1>2, <1>3 DEF ServerStep

-----------------------------------------------------------------------------
(* The requests.                                                           *)

\* A message whose sub-function, should it have one, is one of four, and
\* that carries no whole key.
Understood(m) ==
  /\ m # <<>>
  /\ ServiceOf(m[1]) \in HasSub /\ Len(m) > 1 => m[2] \in 0 .. 3
  /\ ServiceOf(m[1]) = "SecurityAccess" => Len(m) # 6

\* What the bytes of such a message are to the server is a request it knows.
LEMMA MessageIsARequest ==
  ASSUME NEW m \in Seq(Nat), Understood(m)
  PROVE  RequestOf(m) \in Request /\ "ok" \in OutcomesOf(RequestOf(m).sid)
<1> DEFINE sid == ServiceOf(m[1])
           sub == IF sid \in HasSub /\ Len(m) > 1 THEN m[2] ELSE 0
           size == CASE Len(m) < 2 -> "short"
                     [] Len(m) >= 2 /\ Len(m) = Demanded(sid, sub) -> "exact"
                     [] OTHER -> "long"
           key == IF sid = "SecurityAccess" /\ Len(m) = 6 THEN m[3] ELSE ZeroKey
<1>1. sid \in Services \cup {"unknown"}
  BY DEF ServiceOf, Services
<1>2. sub \in 0 .. 3
  BY DEF Understood
<1>3. size \in {"short", "exact", "long"}
  OBVIOUS
<1>4. RequestOf(m) = [sid |-> sid, size |-> size, sub |-> sub,
                      suppress |-> FALSE, key |-> key]
  BY Zenon DEF RequestOf
<1> HIDE DEF sub, size
<1>5. key \in Keys
  <2>1. ServiceOf(m[1]) = "SecurityAccess" => Len(m) # 6
    BY DEF Understood
  <2>2. QED
    BY <2>1, ExplorerAssumption
<1> HIDE DEF sid, key
<1>6. RequestOf(m) \in Request
  BY <1>1, <1>2, <1>3, <1>4, <1>5 DEF Request
<1>7. QED
  BY <1>6 DEF OutcomesOf, Outcomes

\* The requests of the alphabet.
LEMMA AlphabetIsKnown ==
  /\ PlainRequests \subseteq Request
  /\ \A k \in Keys : SendsKey(k) \in Request
  /\ \A req \in Request : "ok" \in OutcomesOf(req.sid)
<1>1. ZeroKey \in Keys
  BY ExplorerAssumption
<1>2. \A sid \in Services : \A sub \in 0 .. 3 : Asks(sid, sub) \in Request
  BY <1>1 DEF Asks, Request
<1>3. PlainRequests \subseteq Request
  BY <1>2 DEF PlainRequests, Services
<1>4. ASSUME NEW k \in Keys
      PROVE  SendsKey(k) \in Request
  <2> DEFINE a == Asks("SecurityAccess", 2)
  <2>1. a \in Request
    BY <1>2 DEF Services
  <2>2. SendsKey(k) = [a EXCEPT !.key = k]
    BY DEF SendsKey
  <2> HIDE DEF a
  <2>3. QED
    BY <2>1, <2>2 DEF Request
<1>5. QED
  BY <1>3, <1>4 DEF OutcomesOf, Outcomes

-----------------------------------------------------------------------------
(* The frames.                                                             *)

\* What a Single Frame built on the bytes b and announcing n of them holds.
ShortFrame(f, b, n) == f.kind = "SF" /\ f.len = n /\ f.data = Padded(b)

LEMMA PaddedBytes ==
  ASSUME NEW b \in Seq(Nat), Len(b) \in 1 .. 7, NEW n \in 1 .. Len(b)
  PROVE  /\ n \in 1 .. 7 /\ Len(Padded(b)) = 7
         /\ SubSeq(Padded(b), 1, n) \in Seq(Nat)
         /\ Len(SubSeq(Padded(b), 1, n)) = n
         /\ \A i \in 1 .. n : SubSeq(Padded(b), 1, n)[i] = b[i]
<1> DEFINE k == Len(b)
           z == [i \in 1 .. 7 - k |-> 0]
<1>0. k \in 1 .. 7 /\ n \in 1 .. k
  OBVIOUS
<1> HIDE DEF k
<1>1. z \in Seq(Nat) /\ Len(z) = 7 - k
  <2>1. 7 - k \in Nat /\ \A i \in 1 .. 7 - k : 0 \in Nat
    BY <1>0
  <2>2. QED
    BY <2>1, IsASeq
<1>2. Padded(b) = b \o z
  BY DEF Padded, k
<1> HIDE DEF z
<1>3. b \o z \in Seq(Nat) /\ Len(b \o z) = 7
  BY <1>0, <1>1, ConcatProperties DEF k
<1>4. \A i \in 1 .. k : (b \o z)[i] = b[i]
  BY <1>0, <1>1, ConcatProperties DEF k
<1>5. n \in 1 .. 7
  BY <1>0
<1> DEFINE w == b \o z
<1> HIDE DEF w
<1>6. w \in Seq(Nat) /\ Len(w) = 7
  BY <1>3 DEF w
<1>7. /\ SubSeq(w, 1, n) \in Seq(Nat) /\ Len(SubSeq(w, 1, n)) = n
      /\ \A i \in 1 .. n : SubSeq(w, 1, n)[i] = w[i]
  BY <1>5, <1>6, SubSeqProperties
<1>8. QED
  BY <1>0, <1>2, <1>4, <1>5, <1>6, <1>7 DEF w

\* Giving up, dating a frame, filling in a message and opening a transfer
\* keep an assembler well formed.
LEMMA Restarted ==
  ASSUME NEW c \in Assembler
  PROVE  Assembling(Tp!RxIdle(c)) /\ Tp!RxIdle(c).state = "idle"
<1> DEFINE d == Tp!RxIdle(c)
<1>1. <<>> \in Seq(Nat) /\ 0 \in Nat
  OBVIOUS
<1>2. d \in Assembler
  BY <1>1 DEF Assembler, Tp!RxIdle
<1>3. d.state = "idle" /\ d.expected = 0 /\ d.received = 0
  BY DEF Assembler, Tp!RxIdle
<1> HIDE DEF d
<1>4. QED
  BY <1>2, <1>3 DEF Assembling, d

LEMMA Stamped ==
  ASSUME NEW c, Assembling(c), NEW f, NEW t \in Clock
  PROVE  /\ Assembling(Tp!Stamp(c, f, t))
         /\ Tp!Stamp(c, f, t).state = c.state
         /\ Tp!Stamp(c, f, t).expected = c.expected
         /\ Tp!Stamp(c, f, t).received = c.received
         /\ Tp!Stamp(c, f, t).buffer = c.buffer
<1> DEFINE d == Tp!Stamp(c, f, t)
<1>1. c \in Assembler
  BY DEF Assembling
<1>2. d \in Assembler
  BY <1>1 DEF Assembler, Tp!Stamp
<1>3. /\ d.state = c.state /\ d.expected = c.expected
      /\ d.received = c.received /\ d.buffer = c.buffer
  BY <1>1 DEF Assembler, Tp!Stamp
<1> HIDE DEF d
<1>4. QED
  BY <1>2, <1>3 DEF Assembling, d

LEMMA Filled ==
  ASSUME NEW c \in Assembler, c.state = "idle", NEW n \in Nat,
         NEW m \in Seq(Nat)
  PROVE  Assembling([c EXCEPT !.expected = n, !.received = n, !.buffer = m])
<1> DEFINE d == [c EXCEPT !.expected = n, !.received = n, !.buffer = m]
<1>1. d \in Assembler
  BY DEF Assembler
<1>2. d.state = "idle" /\ d.expected = n /\ d.received = n
  BY DEF Assembler
<1> HIDE DEF d
<1>3. Assembling(d)
  BY <1>1, <1>2 DEF Assembling
<1>4. QED
  BY <1>3 DEF d

\* A First Frame that announces n bytes of a read of data, and brings the
\* first six of them, d.
FirstFrame(f, n, d) == f.kind = "FF" /\ f.len = n /\ f.data = d

StartsARead(n, d) ==
  /\ n \in 8 .. 4095 /\ d \in Seq(Nat) /\ d # <<>> /\ d[1] = 34
  /\ Len(d) = 6

LEMMA Opened ==
  ASSUME NEW c \in Assembler, NEW n, NEW d, StartsARead(n, d), NEW f,
         FirstFrame(f, n, d)
  PROVE  Assembling(Tp!Open(c, f))
<1> DEFINE e == Tp!Open(c, f)
           k == Len(d)
<1>1. n \in Nat /\ 6 < n
  BY DEF StartsARead
<1>2. d \in Seq(Nat) /\ d # <<>> /\ d[1] = 34 /\ k = 6
  BY DEF StartsARead
<1> HIDE DEF k
<1>3. e = [c EXCEPT !.state = "wait", !.expected = n, !.received = k,
                    !.sn = 1, !.buffer = d]
  BY DEF FirstFrame, Tp!Open, k
<1> HIDE DEF e
<1>4. k \in Nat /\ k < n
  BY <1>1, <1>2
<1>5. e \in Assembler
  <2>1. \A i, j \in Nat : \A w \in Seq(Nat) :
          [c EXCEPT !.state = "wait", !.expected = i, !.received = j,
                    !.sn = 1, !.buffer = w] \in Assembler
    BY DEF Assembler
  <2>2. QED
    BY <1>1, <1>2, <1>3, <1>4, <2>1
<1>6. e.expected = n /\ e.received = k /\ e.buffer = d
  BY <1>3 DEF Assembler
<1>7. e.received < e.expected /\ e.received <= e.expected
  BY <1>1, <1>4, <1>6
<1>8. e.buffer # <<>> /\ e.buffer[1] = 34 /\ e.received = Len(e.buffer)
  BY <1>2, <1>6 DEF k
<1>9. QED
  BY <1>5, <1>7, <1>8 DEF Assembling, e

\* A Single Frame is delivered at once, whatever was being assembled.
LEMMA ShortFrameArrives ==
  ASSUME Assembling(rx), now \in Clock,
         NEW b \in Seq(Nat), Len(b) \in 1 .. 7, NEW n \in 1 .. Len(b),
         NEW f, ShortFrame(f, b, n)
  PROVE  LET r == Tp!RxProcess(rx, f, now) IN
         /\ r.out.event = "ready" /\ Assembling(r.ctx)
         /\ r.out.message \in Seq(Nat) /\ Len(r.out.message) = n
         /\ \A i \in 1 .. n : r.out.message[i] = b[i]
<1> DEFINE m == SubSeq(Padded(b), 1, n)
           c == Tp!RxIdle(Tp!Stamp(rx, f, now))
           d == [c EXCEPT !.expected = n, !.received = n, !.buffer = m]
<1>1. /\ n \in 1 .. 7 /\ Len(Padded(b)) = 7 /\ m \in Seq(Nat)
      /\ Len(m) = n /\ \A i \in 1 .. n : m[i] = b[i]
  BY PaddedBytes
<1>2. n \in 1 .. 7 /\ n \in Nat /\ ~(n > 7)
  BY <1>1
<1>3. Tp!RxProcess(rx, f, now) = [ctx |-> d, out |-> Tp!Ready(m)]
  BY <1>1, <1>2
  DEF ShortFrame, Tp!RxProcess, Tp!OnSingle, Tp!Content, Tp!SFMax
<1>4. c \in Assembler /\ c.state = "idle"
  BY Stamped, Restarted DEF Assembling
<1> HIDE DEF m, c
<1>5. Assembling(d)
  BY <1>1, <1>2, <1>4, Filled
<1>6. Tp!Ready(m).event = "ready" /\ Tp!Ready(m).message = m
  BY DEF Tp!Ready, Tp!Quiet
<1>7. QED
  BY <1>1, <1>3, <1>5, <1>6

\* The message of a longer transfer starts as the read of data it announced.
LEMMA ConsecutiveArrives ==
  ASSUME NEW c, Assembling(c), NEW sn
  PROVE  LET r == Tp!OnConsecutive(c, Consecutive(sn)) IN
         /\ Assembling(r.ctx)
         /\ r.out.event = "ready" =>
              /\ r.out.message \in Seq(Nat) /\ r.out.message # <<>>
              /\ r.out.message[1] = 34
<1> DEFINE f == Consecutive(sn)
           r == Tp!OnConsecutive(c, f)
           k == Tp!Chunk(c, f)
           b == c.buffer \o k
           n == c.received + Len(k)
           d == Tp!Extended(c, f)
<1>1. Tp!Ignore(c).ctx = c /\ Tp!Ignore(c).out.event = "none"
  BY DEF Tp!Ignore, Tp!Quiet
<1>2. /\ Tp!Abort(c).ctx = Tp!RxIdle(c) /\ Tp!Abort(c).out.event = "aborted"
  BY DEF Tp!Abort, Tp!Aborted, Tp!Quiet
<1>3. c \in Assembler /\ Assembling(Tp!RxIdle(c))
  BY Restarted DEF Assembling
<1>4. f.data \in Seq(Nat) /\ Len(f.data) = 7 /\ f.data # <<>>
  BY DEF Consecutive
<1>5. CASE c.state # "wait"
  BY <1>1, <1>5 DEF Tp!OnConsecutive
<1>6. CASE c.state = "wait" /\ ~Tp!InOrder(c, f)
  <2>1. r = Tp!Abort(c)
    BY <1>4, <1>6 DEF Tp!OnConsecutive
  <2> HIDE DEF r
  <2>2. QED
    BY <1>2, <1>3, <2>1 DEF r
<1>7. CASE c.state = "wait" /\ Tp!InOrder(c, f)
  <2>1. /\ c.received \in Nat /\ c.expected \in Nat
        /\ c.received < c.expected /\ c.received = Len(c.buffer)
        /\ c.buffer \in Seq(Nat) /\ c.buffer # <<>> /\ c.buffer[1] = 34
    BY <1>7 DEF Assembling, Assembler
  <2> DEFINE lacking == c.expected - c.received
  <2>0. lacking \in Nat /\ lacking >= 1
    BY <2>1
  <2>2. /\ k \in Seq(Nat) /\ Len(k) = Tp!Smaller(7, lacking)
    <3> DEFINE u == Tp!Smaller(7, lacking)
    <3> HIDE DEF lacking
    <3>1. u \in 1 .. 7
      BY <2>0 DEF Tp!Smaller
    <3>2. k = SubSeq(f.data, 1, u)
      BY <1>4 DEF Tp!Chunk, lacking
    <3> HIDE DEF u, k, f
    <3>3. \A i \in 1 .. u : f.data[i] \in Nat
      BY <1>4, <3>1
    <3>4. QED
      BY <3>1, <3>2, <3>3, SubSeqProperties DEF u
  <2> HIDE DEF k, f, r, d
  <2>3. Len(k) \in 1 .. 7 /\ n <= c.expected
    <3>1. Len(k) \in 1 .. 7 /\ Len(k) <= lacking
      <4> HIDE DEF lacking
      <4>1. QED
        BY <2>0, <2>2 DEF Tp!Smaller
    <3>2. QED
      BY <2>1, <3>1
  <2>4. b \in Seq(Nat) /\ Len(b) = n /\ b[1] = 34 /\ b # <<>>
    <3>1. b \in Seq(Nat) /\ Len(b) = Len(c.buffer) + Len(k)
      BY <2>1, <2>2, ConcatProperties
    <3>2. Len(c.buffer) >= 1 /\ b[1] = c.buffer[1]
      BY <2>1, <2>2, ConcatProperties
    <3>3. Len(b) = n /\ n # 0
      BY <2>1, <2>3, <3>1, <3>2
    <3>4. QED
      BY <2>1, <3>1, <3>2, <3>3
  <2>5. n \in Nat /\ Tp!NextSn(c.sn) \in Nat
    <3>1. c.sn \in Nat
      BY <1>3 DEF Assembler
    <3>2. QED
      BY <2>1, <2>3, <3>1 DEF Tp!NextSn
  <2>6. d = [c EXCEPT !.received = n, !.sn = Tp!NextSn(c.sn), !.buffer = b]
    BY <1>3 DEF Tp!Extended, k, d, Assembler
  <2> DEFINE s == Tp!NextSn(c.sn)
  <2> HIDE DEF n, b, s
  <2>7. d \in Assembler
    BY <1>3, <2>4, <2>5, <2>6 DEF Assembler, s
  <2>8. /\ d.state = c.state /\ d.expected = c.expected
        /\ d.received = n /\ d.buffer = b
    BY <1>3, <2>6 DEF Assembler, s
  <2> HIDE DEF d
  <2>9. CASE c.received + Len(k) > 4095
    <3>1. r = Tp!Abort(c)
      BY <1>4, <1>7, <2>9 DEF Tp!OnConsecutive, k, f, r
    <3> HIDE DEF r
    <3>2. QED
      BY <1>2, <1>3, <3>1 DEF r, f
  <2>10. CASE ~(c.received + Len(k) > 4095) /\ d.received >= d.expected
    <3> DEFINE m == SubSeq(d.buffer, 1, d.expected)
    <3>1. r = [ctx |-> Tp!RxIdle(d), out |-> Tp!Ready(m)]
      BY <1>4, <1>7, <2>10 DEF Tp!OnConsecutive, k, f, d, r
    <3>2. d.expected \in 1 .. Len(b) /\ d.expected \in Nat
      BY <2>1, <2>4, <2>5, <2>8, <2>10
    <3>3. m \in Seq(Nat) /\ m # <<>> /\ m[1] = 34
      <4> DEFINE e == d.expected
      <4>1. e \in 1 .. Len(b) /\ e \in Nat /\ m = SubSeq(b, 1, e)
        BY <2>8, <3>2
      <4> HIDE DEF e, m
      <4>2. \A i \in 1 .. e : b[i] \in Nat
        BY <2>4, <4>1
      <4>3. /\ m \in Seq(Nat) /\ Len(m) = e
            /\ \A i \in 1 .. e : m[i] = b[i]
        BY <4>1, <4>2, SubSeqProperties
      <4>4. QED
        BY <2>4, <4>1, <4>3
    <3> HIDE DEF m
    <3>4. Tp!Ready(m).event = "ready" /\ Tp!Ready(m).message = m
      BY DEF Tp!Ready, Tp!Quiet
    <3>5. Assembling(Tp!RxIdle(d))
      BY <2>7, Restarted
    <3> HIDE DEF r
    <3>6. QED
      BY <3>1, <3>3, <3>4, <3>5 DEF r, f
  <2>11. CASE ~(c.received + Len(k) > 4095) /\ ~(d.received >= d.expected)
    <3>1. r = [ctx |-> d, out |-> Tp!Quiet]
      BY <1>4, <1>7, <2>11 DEF Tp!OnConsecutive, k, f, d, r
    <3>2. d.received < d.expected
      BY <2>1, <2>5, <2>8, <2>11
    <3>3. Assembling(d)
      BY <2>1, <2>4, <2>5, <2>7, <2>8, <3>2 DEF Assembling
    <3>4. Tp!Quiet.event = "none"
      BY DEF Tp!Quiet
    <3> HIDE DEF r
    <3>5. QED
      BY <3>1, <3>3, <3>4 DEF r, f
  <2>12. QED
    BY <2>9, <2>10, <2>11 DEF f
<1>8. QED
  BY <1>5, <1>6, <1>7

\* What a frame leaves half assembled, and the message it completes.
Arrives(r) ==
  /\ Assembling(r.ctx)
  /\ r.out.event = "ready" =>
       r.out.message \in Seq(Nat) /\ Understood(r.out.message)

LEMMA ShortIsUnderstood ==
  ASSUME Assembling(rx), now \in Clock,
         NEW b \in Seq(Nat), Len(b) \in 1 .. 7, NEW n \in 1 .. Len(b),
         NEW f, ShortFrame(f, b, n),
         n > 1 => ServiceOf(b[1]) \notin HasSub \/ b[2] \in 0 .. 3,
         n = 6 => ServiceOf(b[1]) # "SecurityAccess"
  PROVE  Arrives(Tp!RxProcess(rx, f, now))
<1> DEFINE r == Tp!RxProcess(rx, f, now)
           m == r.out.message
<1>1. /\ Assembling(r.ctx) /\ m \in Seq(Nat) /\ Len(m) = n
      /\ \A i \in 1 .. n : m[i] = b[i]
  BY ShortFrameArrives
<1> HIDE DEF m
<1>2. n \in Nat /\ n >= 1
  OBVIOUS
<1>3. m # <<>> /\ m[1] = b[1]
  BY <1>1, <1>2
<1>4. n > 1 => m[2] = b[2]
  BY <1>1, <1>2
<1>5. Understood(m)
  BY <1>1, <1>3, <1>4 DEF Understood
<1>6. QED
  BY <1>1, <1>5 DEF Arrives, m

\* A First Frame that announces a read of data opens a transfer.
LEMMA FirstFrameArrives ==
  ASSUME Assembling(rx), now \in Clock, NEW f,
         NEW n, NEW d, StartsARead(n, d), FirstFrame(f, n, d)
  PROVE  Arrives(Tp!RxProcess(rx, f, now))
<1> DEFINE c == Tp!Stamp(rx, f, now)
           r == Tp!RxProcess(rx, f, now)
<1>1. Assembling(c) /\ c \in Assembler
  BY Stamped DEF Assembling
<1> HIDE DEF c
<1>2. n \in Nat /\ ~(n < 8) /\ ~(n > 4095)
  BY DEF StartsARead
<1>3. d # <<>>
  BY DEF StartsARead
<1>4. r = [ctx |-> Tp!Open(c, f), out |-> Tp!Control("continue")]
  <2>1. r = Tp!OnFirst(c, f)
    BY DEF Tp!RxProcess, c, FirstFrame
  <2> HIDE DEF r
  <2>2. QED
    BY <1>2, <1>3, <2>1 DEF FirstFrame, Tp!OnFirst, Tp!FFMin
<1>5. Tp!Control("continue").event = "flowControl"
  BY DEF Tp!Control, Tp!Quiet
<1>6. Assembling(Tp!Open(c, f))
  BY <1>1, Opened
<1> HIDE DEF r
<1>7. QED
  BY <1>4, <1>5, <1>6 DEF Arrives, r

LEMMA LaterFrameArrives ==
  ASSUME Assembling(rx), now \in Clock, NEW f, NEW sn, f = Consecutive(sn)
  PROVE  Arrives(Tp!RxProcess(rx, f, now))
<1> DEFINE c == Tp!Stamp(rx, f, now)
           r == Tp!RxProcess(rx, f, now)
<1>1. Assembling(c)
  BY Stamped
<1> HIDE DEF c
<1>2. r = Tp!OnConsecutive(c, f)
  BY DEF Tp!RxProcess, Consecutive, c
<1> HIDE DEF r
<1>3. /\ Assembling(r.ctx)
      /\ r.out.event = "ready" =>
           /\ r.out.message \in Seq(Nat) /\ r.out.message # <<>>
           /\ r.out.message[1] = 34
  BY <1>1, <1>2, ConsecutiveArrives
<1>4. ServiceOf(34) \notin HasSub /\ ServiceOf(34) # "SecurityAccess"
  BY DEF ServiceOf, HasSub
<1>5. QED
  BY <1>3, <1>4 DEF Arrives, Understood, r

LEMMA IgnoredFrameArrives ==
  ASSUME Assembling(rx), now \in Clock, NEW f, f.kind \in {"other", "FC"}
  PROVE  Arrives(Tp!RxProcess(rx, f, now))
<1> DEFINE c == Tp!Stamp(rx, f, now)
<1>1. Assembling(c)
  BY Stamped
<1>2. Tp!RxProcess(rx, f, now) = Tp!Ignore(c)
  BY DEF Tp!RxProcess
<1> HIDE DEF c
<1>3. QED
  BY <1>1, <1>2 DEF Arrives, Tp!Ignore, Tp!Quiet

\* Every frame of the alphabet.
LEMMA AlphabetArrives ==
  ASSUME EInv, NEW f \in FrameAlphabet
  PROVE  Arrives(Tp!RxProcess(rx, f, now))
<1>0. Assembling(rx) /\ now \in Clock
  BY DEF EInv, IInv
<1>1. ASSUME NEW b \in Seq(Nat), Len(b) \in 1 .. 7, f = Single(b),
             Len(b) > 1 => ServiceOf(b[1]) \notin HasSub \/ b[2] \in 0 .. 3,
             Len(b) = 6 => ServiceOf(b[1]) # "SecurityAccess"
      PROVE  Arrives(Tp!RxProcess(rx, f, now))
  <2>1. Len(b) \in 1 .. Len(b)
    BY <1>1
  <2>2. ShortFrame(f, b, Len(b))
    BY <1>1 DEF ShortFrame, Single
  <2>3. QED
    BY <1>0, <1>1, <2>1, <2>2, ShortIsUnderstood
<1>2. CASE f \in {Single(<<16, 3>>), Single(<<16, 1>>), Single(<<39, 1>>),
                  Single(<<17, 1>>), Single(<<62, 0>>)}
  <2>1. \E a \in Nat, i \in 0 .. 3 : f = Single(<<a, i>>)
    BY <1>2
  <2>2. PICK a \in Nat, i \in 0 .. 3 : f = Single(<<a, i>>)
    BY <2>1
  <2> DEFINE b == <<a, i>>
  <2>3. b \in Seq(Nat) /\ Len(b) = 2 /\ b[2] = i /\ f = Single(b)
    BY <2>2
  <2> HIDE DEF b
  <2>4. Len(b) \in 1 .. 7 /\ b[2] \in 0 .. 3 /\ Len(b) # 6
    BY <2>3
  <2>5. QED
    BY <1>1, <2>3, <2>4
<1>3. CASE f = Single(<<34, 241, 144>>)
  <2>1. ServiceOf(34) \notin HasSub
    BY DEF ServiceOf, HasSub
  <2> DEFINE b == <<34, 241, 144>>
  <2>2. b \in Seq(Nat) /\ Len(b) = 3 /\ b[1] = 34 /\ f = Single(b)
    BY <1>3
  <2> HIDE DEF b
  <2>3. Len(b) \in 1 .. 7 /\ Len(b) # 6
    BY <2>2
  <2>4. QED
    BY <1>1, <2>1, <2>2, <2>3
<1>4. CASE f = Single(<<20, 255, 255, 255>>)
  <2>1. ServiceOf(20) \notin HasSub
    BY DEF ServiceOf, HasSub
  <2> DEFINE b == <<20, 255, 255, 255>>
  <2>2. b \in Seq(Nat) /\ Len(b) = 4 /\ b[1] = 20 /\ f = Single(b)
    BY <1>4
  <2> HIDE DEF b
  <2>3. Len(b) \in 1 .. 7 /\ Len(b) # 6
    BY <2>2
  <2>4. QED
    BY <1>1, <2>1, <2>2, <2>3
<1>5. CASE f \in {KeyFrame(KeyOf[ctx.current_seed]), KeyFrame(BadKey)}
  <2>1. KeyOf[ctx.current_seed] \in Keys /\ BadKey \in Keys
    BY SecurityAssumption, ExplorerAssumption DEF EInv, IInv, Sound, Context
  <2>2. PICK k \in Keys : f = KeyFrame(k)
    BY <1>5, <2>1
  <2> DEFINE b == <<39, 2, k, k, k, k>>
  <2>3. k \in Nat
    BY ExplorerAssumption
  <2>4. b \in Seq(Nat) /\ Len(b) = 6 /\ b[2] = 2
    BY <2>3
  <2>5. ShortFrame(f, b, 5)
    BY <2>2 DEF ShortFrame, KeyFrame, Single
  <2> HIDE DEF b
  <2> DEFINE n == 5
  <2>6. /\ n \in 1 .. Len(b) /\ Len(b) \in 1 .. 7 /\ b[2] \in 0 .. 3
        /\ n # 6 /\ ShortFrame(f, b, n)
    BY <2>4, <2>5
  <2> HIDE DEF n
  <2>7. QED
    BY <1>0, <2>4, <2>6, ShortIsUnderstood
<1>6. CASE f \in {[kind |-> "FF", len |-> 20,
                   data |-> <<34, 241, 144, 170, 187, 204>>],
                  [kind |-> "FF", len |-> 12,
                   data |-> <<34, 1, 0, 221, 238, 255>>]}
  <2>1. ASSUME NEW n, NEW m, StartsARead(n, m), FirstFrame(f, n, m)
        PROVE  Arrives(Tp!RxProcess(rx, f, now))
    BY <1>0, <2>1, FirstFrameArrives
  <2>2. CASE f = [kind |-> "FF", len |-> 20,
                  data |-> <<34, 241, 144, 170, 187, 204>>]
    <3> DEFINE m == <<34, 241, 144, 170, 187, 204>>
    <3> DEFINE n == 20
    <3>1. StartsARead(n, m)
      BY DEF StartsARead
    <3>2. FirstFrame(f, n, m)
      BY <2>2 DEF FirstFrame
    <3> HIDE DEF m, n
    <3>3. QED
      BY <2>1, <3>1, <3>2
  <2>3. CASE f = [kind |-> "FF", len |-> 12,
                  data |-> <<34, 1, 0, 221, 238, 255>>]
    <3> DEFINE m == <<34, 1, 0, 221, 238, 255>>
    <3> DEFINE n == 12
    <3>1. StartsARead(n, m)
      BY DEF StartsARead
    <3>2. FirstFrame(f, n, m)
      BY <2>3 DEF FirstFrame
    <3> HIDE DEF m, n
    <3>3. QED
      BY <2>1, <3>1, <3>2
  <2>4. QED
    BY <1>6, <2>2, <2>3
<1>7. CASE f \in {Consecutive(rx.sn), Consecutive(15)}
  BY <1>0, <1>7, LaterFrameArrives
<1>8. CASE f \in {[kind |-> "other"],
                  [kind |-> "FC", status |-> "continue", bs |-> 0,
                   stmin |-> 0]}
  <2>1. f.kind \in {"other", "FC"}
    BY <1>8
  <2>2. QED
    BY <1>0, <2>1, IgnoredFrameArrives
<1>9. QED
  BY <1>2, <1>3, <1>4, <1>5, <1>6, <1>7, <1>8 DEF FrameAlphabet

-----------------------------------------------------------------------------
(* The steps.                                                              *)

\* A frame fed to the pair is at most one call of the server.
LEMMA FedFrame ==
  ASSUME EInv, NEW f, Arrives(Tp!RxProcess(rx, f, now)), Feed(f)
  PROVE  ServerStep /\ Assembling(rx')
<1> DEFINE r == Tp!RxProcess(rx, f, now)
<1>1. /\ rx' = r.ctx
      /\ IF r.out.event = "ready"
         THEN HandleRequest(RequestOf(r.out.message), "ok")
         ELSE reply' = NoReply /\ UNCHANGED <<now, ctx>>
  BY DEF Feed
<1>2. /\ Assembling(r.ctx)
      /\ r.out.event = "ready" =>
           r.out.message \in Seq(Nat) /\ Understood(r.out.message)
  BY DEF Arrives
<1> HIDE DEF r
<1>3. CASE r.out.event = "ready"
  <2>1. /\ RequestOf(r.out.message) \in Request
        /\ "ok" \in OutcomesOf(RequestOf(r.out.message).sid)
    BY <1>2, <1>3, MessageIsARequest
  <2>2. QED
    BY <1>1, <1>2, <1>3, <2>1 DEF ServerStep, Called
<1>4. CASE r.out.event # "ready"
  BY <1>1, <1>2, <1>4 DEF ServerStep
<1>5. QED
  BY <1>3, <1>4

\* The two requests of the golden probe are never refused.
LEMMA GoldenAnswered ==
  ASSUME NEW req, HandleRequest(req, "ok"), req.size = "exact",
         req.suppress = FALSE,
         \/ req.sid = "SessionControl" /\ req.sub = 3
         \/ req.sid = "ReadData"
  PROVE  reply'.kind = "positive"
<1>1. Allows("SessionControl") /\ Allows("ReadData")
  BY DEF Allows, NeedsExtended, NeedsUnlock
<1>2. CASE req.sid = "SessionControl" /\ req.sub = 3
  <2>1. SessionControl(req)
    BY <1>1, <1>2
    DEF HandleRequest, EmptyRequest, UnknownService, AccessRefused,
        TesterPresent, ReadData, ReadDTC, ClearDTC, ECUReset, SecurityAccess,
        Dispatched
  <2>2. AnswerUnlessSuppressed(EnterSession(Refreshed, req.sub), req)
    BY <1>2, <2>1 DEF SessionControl
  <2>3. QED
    BY <2>2 DEF AnswerUnlessSuppressed, Answer, AnswerWith
<1>3. CASE req.sid = "ReadData"
  <2>1. ReadData(req, "ok")
    BY <1>1, <1>3
    DEF HandleRequest, EmptyRequest, UnknownService, AccessRefused,
        TesterPresent, SessionControl, ReadDTC, ClearDTC, ECUReset,
        SecurityAccess, Dispatched
  <2>2. Answer(Refreshed, req)
    BY <2>1 DEF ReadData, Provide
  <2>3. QED
    BY <2>2 DEF Answer, AnswerWith
<1>4. QED
  BY <1>2, <1>3

\* A probe frame completes its message at once, whatever was half assembled.
LEMMA GoldenFrameServed ==
  ASSUME EInv, NEW i \in 1 .. 2, Feed(GoldenFrames[i])
  PROVE  ServerStep /\ Assembling(rx') /\ reply'.kind = "positive"
<1> DEFINE b == IF i = 1 THEN <<16, 3>> ELSE <<34, 241, 137>>
           n == Len(b)
           f == Single(b)
           r == Tp!RxProcess(rx, f, now)
           m == r.out.message
<1>0. i = 1 \/ i = 2
  OBVIOUS
<1>1. GoldenFrames[i] = f
  BY DEF GoldenFrames
<1>2. /\ b \in Seq(Nat) /\ n = (IF i = 1 THEN 2 ELSE 3)
      /\ b[1] = (IF i = 1 THEN 16 ELSE 34) /\ (i = 1 => b[2] = 3)
  OBVIOUS
<1>3. ShortFrame(f, b, n)
  BY DEF ShortFrame, Single
<1>4. Assembling(rx) /\ now \in Clock
  BY DEF EInv, IInv
<1> HIDE DEF b
<1>5. n \in 1 .. 7 /\ n \in 1 .. Len(b)
  BY <1>2
<1> HIDE DEF n, f, r
<1>6. n \in 1 .. Len(b) /\ Len(b) \in 1 .. 7
  BY <1>5 DEF n
<1>7. /\ r.out.event = "ready" /\ Assembling(r.ctx)
      /\ m \in Seq(Nat) /\ Len(m) = n /\ \A j \in 1 .. n : m[j] = b[j]
  BY <1>2, <1>3, <1>4, <1>6, ShortFrameArrives DEF r
<1> HIDE DEF m
<1>8. /\ m[1] = (IF i = 1 THEN 16 ELSE 34) /\ (i = 1 => m[2] = 3)
      /\ Len(m) = (IF i = 1 THEN 2 ELSE 3)
  BY <1>2, <1>7
<1> DEFINE req == RequestOf(m)
<1>9. /\ req.size = "exact" /\ req.suppress = FALSE
      /\ \/ req.sid = "SessionControl" /\ req.sub = 3
         \/ req.sid = "ReadData"
  <2>1. CASE i = 1
    <3>1. ServiceOf(m[1]) = "SessionControl" /\ m[2] = 3 /\ Len(m) = 2
      BY <1>8, <2>1 DEF ServiceOf
    <3>2. Demanded("SessionControl", 3) = 2
      BY DEF Demanded
    <3>3. QED
      BY <3>1, <3>2 DEF RequestOf, HasSub
  <2>2. CASE i = 2
    <3>1. ServiceOf(m[1]) = "ReadData" /\ Len(m) = 3
      BY <1>8, <2>2 DEF ServiceOf
    <3>2. Demanded("ReadData", 0) = 3 /\ "ReadData" \notin HasSub
      BY DEF Demanded, HasSub
    <3>3. req.sid = "ReadData" /\ req.suppress = FALSE
      BY <3>1 DEF RequestOf
    <3>4. req.size = "exact"
      BY <3>1, <3>2 DEF RequestOf
    <3>5. QED
      BY <3>3, <3>4
  <2>3. QED
    BY <1>0, <2>1, <2>2
<1>10. HandleRequest(req, "ok")
  BY <1>1, <1>7 DEF Feed, r, m
<1>11. reply'.kind = "positive"
  BY <1>9, <1>10, GoldenAnswered
<1>12. Arrives(r)
  <2>1. m # <<>> /\ (ServiceOf(m[1]) \in HasSub => m[2] \in 0 .. 3)
        /\ Len(m) # 6
    BY <1>7, <1>8, <1>5 DEF ServiceOf, HasSub
  <2>2. QED
    BY <1>7, <2>1 DEF Arrives, Understood, m
<1>13. QED
  BY <1>1, <1>11, <1>12, FedFrame DEF r

\* The reassembler's timer.
LEMMA TimerKeeps ==
  ASSUME Assembling(rx)
  PROVE  Assembling(Tp!RxPoll(rx, now).ctx)
<1>1. Assembling(Tp!RxIdle(rx))
  BY Restarted DEF Assembling
<1>2. QED
  BY <1>1 DEF Tp!RxPoll, Tp!Abort, Tp!Ignore

LEMMA ExplorerInitSound == ExplorerInit => EInv
<1> SUFFICES ASSUME ExplorerInit
             PROVE  EInv
  OBVIOUS
<1>1. IInv
  BY InitSound DEF ExplorerInit
<1>2. lastKey \in Keys
  BY ExplorerAssumption DEF ExplorerInit
<1>3. probe \in [sent : 0 .. 2, served : {TRUE}]
  BY DEF ExplorerInit
<1>4. Assembling(rx)
  <2>1. <<>> \in Seq(Nat) /\ 0 \in Nat /\ 0 \in Clock
    BY ClockAssumption DEF Clock, ClockRange
  <2>2. rx \in Assembler
    BY <2>1 DEF ExplorerInit, Tp!RxStart, Assembler
  <2>3. rx.state = "idle" /\ rx.expected = 0 /\ rx.received = 0
    BY DEF ExplorerInit, Tp!RxStart
  <2>4. QED
    BY <2>2, <2>3 DEF Assembling
<1>5. QED
  BY <1>1, <1>2, <1>3, <1>4 DEF EInv

\* To the server every step of an explorer is one of its own, and each
\* keeps the invariant.
LEMMA ExplorerStep ==
  ASSUME EInv, ExplorerNext
  PROVE  ServerStep /\ EInv'
<1>0. /\ IInv /\ Assembling(rx) /\ lastKey \in Keys
      /\ probe \in [sent : 0 .. 2, served : {TRUE}]
      /\ KeyOf[ctx.current_seed] \in Keys /\ BadKey \in Keys
  BY SecurityAssumption, ExplorerAssumption
  DEF EInv, IInv, Sound, Context
<1> SUFFICES /\ ServerStep
             /\ Assembling(rx') /\ lastKey' \in Keys
             /\ probe' \in [sent : 0 .. 2, served : {TRUE}]
  BY <1>0, ServerStepSound DEF EInv
<1>1. CASE ClockAdvances
  BY <1>0, <1>1 DEF ClockAdvances, ServerStep
<1>2. CASE ClockJump
  BY <1>0, <1>2 DEF ClockJump, ServerStep
<1>3. CASE FuzzRequest
  BY <1>0, <1>3, RequestAssumption DEF FuzzRequest, Handle, ServerStep, Called
<1>4. CASE ApplyRequest
  BY <1>0, <1>4, AlphabetIsKnown DEF ApplyRequest, ServerStep, Called
<1>5. CASE KeyCorrect \/ KeyWrong \/ KeyReplay
  <2>1. PICK k \in Keys : ApplyKey(k)
    BY <1>0, <1>5 DEF KeyCorrect, KeyWrong, KeyReplay
  <2>2. SendsKey(k) \in Request /\ "ok" \in OutcomesOf(SendsKey(k).sid)
    BY AlphabetIsKnown
  <2>3. QED
    BY <1>0, <2>1, <2>2 DEF ApplyKey, ServerStep, Called
<1>6. CASE FrameAction
  <2>1. PICK f \in FrameAlphabet : ApplyFrame(f)
    BY <1>6 DEF FrameAction
  <2>2. ServerStep /\ Assembling(rx')
    BY <2>1, AlphabetArrives, FedFrame DEF ApplyFrame
  <2>3. QED
    BY <1>0, <2>1, <2>2 DEF ApplyFrame
<1>7. CASE ClockNcr
  <2>1. Assembling(rx')
    BY <1>0, <1>7, TimerKeeps DEF ClockNcr
  <2>2. QED
    BY <1>0, <1>7, <2>1 DEF ClockNcr, ServerStep
<1>8. CASE GoldenProbe
  <2>1. Len(GoldenFrames) = 2
    BY DEF GoldenFrames
  <2>2. probe.sent \in 0 .. 1 /\ probe.sent + 1 \in 1 .. 2
    BY <1>0, <1>8, <2>1 DEF GoldenProbe
  <2>3. ServerStep /\ Assembling(rx') /\ reply'.kind = "positive"
    BY <1>8, <2>2, GoldenFrameServed DEF GoldenProbe
  <2>4. probe' = [sent |-> probe.sent + 1, served |-> TRUE]
    BY <1>0, <1>8, <2>3 DEF GoldenProbe
  <2>5. probe' \in [sent : 0 .. 2, served : {TRUE}]
    <3> DEFINE n == probe.sent + 1
    <3>1. n \in 0 .. 2
      BY <2>2
    <3> HIDE DEF n
    <3>2. QED
      BY <2>4, <3>1 DEF n
  <2>6. lastKey' = lastKey
    BY <1>8 DEF GoldenProbe
  <2>7. QED
    BY <1>0, <2>3, <2>5, <2>6
<1>9. QED
  BY <1>1, <1>2, <1>3, <1>4, <1>5, <1>6, <1>7, <1>8 DEF ExplorerNext

LEMMA ExplorerStutter ==
  ASSUME EInv, UNCHANGED allVars
  PROVE  EInv'
<1>1. IInv'
  BY ServerStepSound DEF EInv, allVars
<1>2. QED
  BY <1>1 DEF EInv, allVars

THEOREM ExplorerInvariance == ExplorerSpec => []EInv
<1>1. EInv /\ [ExplorerNext]_allVars => EInv'
  BY ExplorerStep, ExplorerStutter
<1>2. QED
  BY ExplorerInitSound, <1>1, PTL DEF ExplorerSpec

\* AVAIL-2: whatever frames came before, in whatever order, the pair of a
\* reassembler and a server serves the golden probe.
THEOREM PairNeverWedges == ExplorerSpec => []NoWedgedContext
<1>1. EInv => NoWedgedContext
  BY DEF EInv, NoWedgedContext
<1>2. QED
  BY <1>1, ExplorerInvariance, PTL

\* Whatever an explorer does, the context keeps its type.
THEOREM ExploredTypeCorrect == ExplorerSpec => []TypeOK
<1>1. EInv => TypeOK
  BY DEF EInv, IInv, Sound, TypeOK
<1>2. QED
  BY <1>1, ExplorerInvariance, PTL

\* Whatever an explorer does, the default session holds no authority, a
\* challenge stands only where a key may be tried, and the lockout tells the
\* same story as the attempts.
THEOREM ExploredStatesAreSafe ==
  ExplorerSpec =>
    [](NothingOpenInDefault /\ ChallengeOnlyWhenLocked
       /\ LockoutMatchesAttempts)
<1>1. EInv => NothingOpenInDefault /\ ChallengeOnlyWhenLocked
              /\ LockoutMatchesAttempts
  BY DEF EInv, IInv, Sound, Coherent, NothingOpenInDefault,
         ChallengeOnlyWhenLocked, LockoutMatchesAttempts
<1>2. QED
  BY <1>1, ExplorerInvariance, PTL

\* A step that is no call of the server unlocks nothing, performs no reset
\* and judges no key.
LEMMA NoCallIsQuiet ==
  ASSUME IInv, ServerStep, ~Called
  PROVE  /\ reply' = NoReply /\ ~UnlockStep /\ ~ResetPerformed /\ ~KeyJudged
         /\ Poll \/ ctx' = ctx
<1>1. CASE Tick \/ Poll
  BY <1>1, QuietSteps DEF Tick, Poll
<1>2. CASE reply' = NoReply /\ ctx' = ctx
  BY <1>2 DEF UnlockStep, ResetPerformed, KeyJudged, NoReply
<1>3. QED
  BY <1>1, <1>2 DEF ServerStep

\* The oracle of the explorers has nothing to report of any of them.
LEMMA StepReportsNothing ==
  ASSUME EInv, ServerStep, IInv'
  PROVE  NothingReported(ctx, ctx', reply')
<1>1. IInv
  BY DEF EInv
<1>2. PositiveReset(reply') =>
        /\ ctx.security_level = "level1" /\ ctx'.session = "default"
        /\ ctx'.security_level = "locked"
  BY <1>1, HandleResets, NoCallIsQuiet
  DEF PositiveReset, ResetPerformed, Called
<1>3. PositiveKey(reply') => ctx.seed_pending
  BY <1>1, HandleJudges, NoCallIsQuiet DEF PositiveKey, KeyJudged, Called
<1>4. ctx'.session = "default" =>
        ctx'.security_level = "locked" /\ ~ctx'.seed_pending
  BY DEF IInv, Sound, Coherent
<1>5. ctx'.failed_attempts < ctx.failed_attempts =>
        PositiveKey(reply') \/ (ctx.locked_out /\ ~ctx'.locked_out)
  <2>1. UnlockStep => PositiveKey(reply')
    BY <1>1, HandleUnlocks, NoCallIsQuiet DEF PositiveKey, Called
  <2>2. \/ \E req \in Request : \E o : HandleRequest(req, o)
        \/ Poll \/ ctx' = ctx
    BY <1>1, NoCallIsQuiet DEF Called
  <2>3. QED
    BY <1>1, <2>1, <2>2, AttemptsGivenBack DEF Lifted
<1>6. QED
  BY <1>2, <1>3, <1>4, <1>5 DEF NothingReported

\* SEC-1 to SEC-5 and XL-2, as the oracle states them, hold of every call of
\* every explorer, and no frame leaves more bytes than were announced.
THEOREM OracleNeverSpeaks == ExplorerSpec => OracleIsSilent
<1> DEFINE P == /\ NothingReported(ctx, ctx', reply')
                /\ rx'.received <= rx'.expected
<1>1. EInv /\ [ExplorerNext]_allVars => [P]_allVars
  <2> SUFFICES ASSUME EInv, ExplorerNext
               PROVE  P
    OBVIOUS
  <2>1. ServerStep /\ IInv' /\ Assembling(rx)'
    BY ExplorerStep DEF EInv
  <2>2. QED
    BY <2>1, StepReportsNothing DEF Assembling
<1>2. QED
  BY <1>1, ExplorerInvariance, PTL DEF ExplorerSpec, OracleIsSilent

\* What the server's own specification forbids its steps, no explorer makes
\* it do either: no unlock but by a fresh key, no reset without authority,
\* no seed judged twice, no attempt given back.
THEOREM ExploredStepsAreSafe ==
  ExplorerSpec => /\ UnlockOnlyByFreshKey /\ ResetNeedsAuthority
                  /\ SeedJudgedOnce /\ AttemptsSurvive
<1> DEFINE U == UnlockStep =>
                  /\ ctx.seed_pending /\ ~ctx'.seed_pending
                  /\ ctx.session = "extended"
                  /\ Elapsed(now, ctx.last_activity) < S3
                  /\ ~ctx.locked_out
                  /\ reply'.kind = "positive"
                  /\ reply'.sid = "SecurityAccess"
           R == ResetPerformed =>
                  /\ ctx.session = "extended" /\ ctx.security_level = "level1"
                  /\ Elapsed(now, ctx.last_activity) < S3
                  /\ ctx'.session = "default" /\ ctx'.security_level = "locked"
           J == KeyJudged => ctx.seed_pending /\ ~ctx'.seed_pending
           A == ctx'.failed_attempts < ctx.failed_attempts =>
                  UnlockStep \/ Lifted
<1>1. EInv /\ [ExplorerNext]_allVars =>
        [U]_vars /\ [R]_vars /\ [J]_vars /\ [A]_vars
  <2>1. UNCHANGED allVars => UNCHANGED vars
    BY DEF allVars
  <2> SUFFICES ASSUME EInv, ExplorerNext
               PROVE  U /\ R /\ J /\ A
    BY <2>1
  <2>2. IInv /\ ServerStep
    BY ExplorerStep DEF EInv
  <2>3. U
    BY <2>2, HandleUnlocks, NoCallIsQuiet DEF Called
  <2>4. R
    BY <2>2, HandleResets, NoCallIsQuiet DEF Called
  <2>5. J
    BY <2>2, HandleJudges, NoCallIsQuiet DEF Called
  <2>6. A
    <3>1. \/ \E req \in Request : \E o : HandleRequest(req, o)
          \/ Poll \/ ctx' = ctx
      BY <2>2, NoCallIsQuiet DEF Called
    <3>2. QED
      BY <2>2, <3>1, AttemptsGivenBack
  <2>7. QED
    BY <2>3, <2>4, <2>5, <2>6
<1>2. ExplorerSpec => [][U]_vars /\ [][R]_vars /\ [][J]_vars /\ [][A]_vars
  BY <1>1, ExplorerInvariance, PTL DEF ExplorerSpec
<1>3. QED
  BY <1>2, PTL
  DEF UnlockOnlyByFreshKey, ResetNeedsAuthority, SeedJudgedOnce,
      AttemptsSurvive, Lifted

\* Every program that explores the server sees it move as
\* DiagnosticAuthority allows.
THEOREM ExploredRefinement == ExplorerSpec => ImplementsAuthority
<1>1. EInv /\ [ExplorerNext]_allVars => [Authority!Next]_(Authority!avars)
  <2>1. UNCHANGED allVars => UNCHANGED vars
    BY DEF allVars
  <2>2. QED
    BY <2>1, ExplorerStep, StepRefines DEF EInv
<1>2. ExplorerInit => Authority!Init
  BY InitRefines DEF ExplorerInit
<1>3. QED
  BY <1>1, <1>2, ExplorerInvariance, PTL
  DEF ExplorerSpec, ImplementsAuthority, Authority!Spec
=============================================================================
