----------------------------- MODULE BenchProofs ------------------------------
(***************************************************************************)
(* What the benchmark measures on its corpus, for every number and order   *)
(* of acts, every delay, every seed and key function: an ECU that resets   *)
(* for any client of an extended session never does so unauthorised behind *)
(* the gateway.  And what it costs the legitimate client: nothing, unless  *)
(* the gateway is locked out.  Nothing is assumed of the constants but, in *)
(* the second part, that S3 and the clock are what UdsServer takes them    *)
(* for.                                                                    *)
(*                                                                         *)
(* The first argument is that of gateway.h: the shadow unlocks only on a key for *)
(* the seed the ECU drew, so its level never runs ahead of the ECU's, and  *)
(* a reset is only forwarded from that level.  Of the shadow it needs no   *)
(* more than how each handler moves the level and the challenge.  The      *)
(* second follows the flow act by act: no time passes between its acts, so *)
(* no deadline falls due, and what one act left the next one finds.        *)
(***************************************************************************)
EXTENDS Bench, TLAPS

\* A record with the fields of a context and one of the two levels.
Shape(c) ==
  /\ c = [session |-> c.session, security_level |-> c.security_level,
          last_activity |-> c.last_activity,
          current_seed |-> c.current_seed, seed_pending |-> c.seed_pending,
          failed_attempts |-> c.failed_attempts,
          lockout_until |-> c.lockout_until, locked_out |-> c.locked_out,
          seed_state |-> c.seed_state]
  /\ c.security_level \in {"locked", "level1"}

\* d comes from c and has gained neither a level nor a challenge.
NoStronger(d, c) ==
  /\ Shape(d)
  /\ d.security_level \in {"locked", c.security_level}
  /\ d.seed_pending \in {FALSE, c.seed_pending}
  /\ d.current_seed = c.current_seed

AsksSeed(req)  == req.sid = "SecurityAccess" /\ req.sub = 1
BringsKey(req) == req.sid = "SecurityAccess" /\ req.sub = 2

EcuShape ==
  /\ ecu = [session |-> ecu.session, security |-> ecu.security,
            seed |-> ecu.seed, unauthorized |-> ecu.unauthorized]
  /\ ecu.security \in BOOLEAN /\ ecu.unauthorized = FALSE

\* Shadow and ECU between two requests.
InStep ==
  /\ shadow.security_level = "level1" => ecu.security
  /\ shadow.seed_pending => shadow.current_seed = ecu.seed

\* Shadow and ECU while req has been judged by the one and not yet by the
\* other.
OneAhead(req) ==
  /\ shadow.security_level = "level1" =>
       /\ ecu.security \/ (BringsKey(req) /\ req.key = KeyOf[ecu.seed])
       /\ req.sid # "ECUReset" /\ ~(req.sid = "SessionControl" /\ req.sub = 1)
  /\ req.sid = "ECUReset" => ecu.security
  /\ shadow.seed_pending =>
       shadow.current_seed = ecu.seed \/ AsksSeed(req)

\* The inductive invariant.
BInv ==
  /\ Shape(shadow) /\ EcuShape
  /\ \/ pending = <<>> /\ InStep
     \/ \E req : pending = <<req>> /\ OneAhead(req)

-----------------------------------------------------------------------------
(* What the operators on contexts do to the level and the challenge.       *)

LEMMA AdditionsShaped ==
  ASSUME NEW c, Shape(c),
         NEW d, d = Shadow!Challenge(c), NEW e, e = Shadow!Grant(c)
  PROVE  /\ Shape(d) /\ d.security_level = c.security_level
         /\ Shape(e) /\ e.seed_pending = FALSE
<1>1. Shape(d) /\ d.security_level = c.security_level
  BY DEF Shape, Shadow!Challenge
<1>2. Shape(e) /\ e.seed_pending = FALSE
  BY DEF Shape, Shadow!Grant
<1>3. QED
  BY <1>1, <1>2

LEMMA FallBackWeakens ==
  ASSUME NEW c, Shape(c), NEW d, d = Shadow!FallBack(c)
  PROVE  NoStronger(d, c) /\ d.security_level = "locked"
  BY DEF NoStronger, Shape, Shadow!FallBack

\* Each update of the handlers that adds nothing.  (A name for the result
\* spares the provers the update inside the definition of Shape.)
LEMMA UpdatesWeaken ==
  ASSUME NEW c, Shape(c)
  PROVE  /\ NoStronger(c, c)
         /\ NoStronger([c EXCEPT !.session = "extended"], c)
         /\ NoStronger([c EXCEPT !.seed_pending = FALSE], c)
         /\ \A t : NoStronger([c EXCEPT !.last_activity = t], c)
         /\ NoStronger([c EXCEPT !.locked_out = FALSE,
                                  !.failed_attempts = 0], c)
         /\ \A t : NoStronger([c EXCEPT !.locked_out = TRUE,
                                        !.lockout_until = t], c)
         /\ NoStronger(Shadow!Strike(c), c)
<1>1. NoStronger(c, c)
  BY DEF NoStronger
<1>2. ASSUME NEW d, d = [c EXCEPT !.session = "extended"]
      PROVE  NoStronger(d, c)
  BY <1>2 DEF NoStronger, Shape
<1>3. ASSUME NEW d, d = [c EXCEPT !.seed_pending = FALSE]
      PROVE  NoStronger(d, c)
  BY <1>3 DEF NoStronger, Shape
<1>4. ASSUME NEW d, NEW t, d = [c EXCEPT !.last_activity = t]
      PROVE  NoStronger(d, c)
  BY <1>4 DEF NoStronger, Shape
<1>5. ASSUME NEW d, d = [c EXCEPT !.locked_out = FALSE,
                                  !.failed_attempts = 0]
      PROVE  NoStronger(d, c)
  BY <1>5 DEF NoStronger, Shape
<1>6. ASSUME NEW d, NEW t, d = [c EXCEPT !.locked_out = TRUE,
                                         !.lockout_until = t]
      PROVE  NoStronger(d, c)
  BY <1>6 DEF NoStronger, Shape
<1>7. ASSUME NEW d, d = Shadow!Strike(c)
      PROVE  NoStronger(d, c)
  BY <1>7 DEF NoStronger, Shape, Shadow!Strike
<1>8. QED
  BY <1>1, <1>2, <1>3, <1>4, <1>5, <1>6, <1>7, Zenon

LEMMA OperatorsWeaken ==
  ASSUME NEW c, Shape(c)
  PROVE  /\ NoStronger(Shadow!FallBack(c), c)
         /\ Shadow!FallBack(c).security_level = "locked"
         /\ NoStronger(Shadow!LiftLockout(c), c)
         /\ NoStronger(Shadow!Bar(Shadow!Strike(c)), c)
<1>1. NoStronger(Shadow!LiftLockout(c), c)
  BY UpdatesWeaken, Zenon DEF Shadow!LiftLockout
<1>2. NoStronger(Shadow!Bar(Shadow!Strike(c)), c)
  <2> DEFINE s == Shadow!Strike(c)
  <2>1. NoStronger(s, c)
    BY UpdatesWeaken, Zenon
  <2> HIDE DEF s
  <2>2. Shape(s)
    BY <2>1 DEF NoStronger
  <2>3. NoStronger(Shadow!Bar(s), s)
    BY <2>2, UpdatesWeaken, Zenon DEF Shadow!Bar
  <2>4. QED
    BY <2>1, <2>3 DEF NoStronger, s
<1>3. /\ NoStronger(Shadow!FallBack(c), c)
      /\ Shadow!FallBack(c).security_level = "locked"
  BY FallBackWeakens, Zenon
<1>4. QED
  BY <1>1, <1>2, <1>3

LEMMA WeakeningComposes ==
  ASSUME NEW c, NEW d, NEW e, NoStronger(e, d), NoStronger(d, c)
  PROVE  NoStronger(e, c)
  BY DEF NoStronger

\* What a handler starts from is no stronger than what the shadow was.
LEMMA RefreshedWeaker ==
  ASSUME Shape(shadow)
  PROVE  NoStronger(Shadow!Current, shadow)
         /\ NoStronger(Shadow!Refreshed, shadow)
         /\ Shadow!Refreshed.security_level = Shadow!Current.security_level
<1> DEFINE d == Shadow!LiftLockout(shadow)
<1>1. NoStronger(d, shadow)
  BY OperatorsWeaken
<1> HIDE DEF d
<1>2. NoStronger(Shadow!FallBack(d), d) /\ NoStronger(d, d)
  BY <1>1, OperatorsWeaken DEF NoStronger
<1>3. NoStronger(Shadow!Polled, shadow)
  BY <1>1, <1>2, WeakeningComposes
  DEF Shadow!Polled, Shadow!ExpireSession, d
<1>4. NoStronger(Shadow!Current, shadow)
  BY <1>3 DEF Shadow!Current
<1> DEFINE e == Shadow!Current
<1> HIDE DEF e
<1>5. Shape(e)
  BY <1>4 DEF NoStronger, e
<1>6. /\ NoStronger([e EXCEPT !.last_activity = now], e)
      /\ [e EXCEPT !.last_activity = now].security_level = e.security_level
  <2>1. NoStronger([e EXCEPT !.last_activity = now], e)
    BY <1>5, UpdatesWeaken, Zenon
  <2>2. ASSUME NEW g, g = [e EXCEPT !.last_activity = now]
        PROVE  g.security_level = e.security_level
    BY <1>5, <2>2 DEF Shape
  <2>3. QED
    BY <2>1, <2>2
<1>7. QED
  BY <1>4, <1>6, WeakeningComposes DEF Shadow!Refreshed, e

\* The two ways a judgement adds to the shadow, and that a request which
\* adds to it is not dropped.
Challenges(req) ==
  /\ AsksSeed(req)
  /\ shadow' = Shadow!Challenge(Shadow!Refreshed)
  /\ verdict'.kind = "positive"

Grants(req) ==
  /\ BringsKey(req)
  /\ Shadow!Refreshed.seed_pending
  /\ req.key = KeyOf[Shadow!Refreshed.current_seed]
  /\ shadow' = Shadow!Grant(Shadow!Refreshed)
  /\ verdict'.kind = "positive"

LEMMA JudgementEffect ==
  ASSUME Shape(shadow), NEW req, Shadow!HandleRequest(req, "ok")
  PROVE  NoStronger(shadow', shadow) \/ Challenges(req) \/ Grants(req)
<1> DEFINE c == Shadow!Refreshed
<1>1. NoStronger(c, shadow) /\ NoStronger(Shadow!Current, shadow) /\ Shape(c)
  BY RefreshedWeaker DEF NoStronger
<1> HIDE DEF c
<1>2. /\ NoStronger(Shadow!FallBack(c), shadow)
      /\ NoStronger([c EXCEPT !.session = "extended"], shadow)
      /\ NoStronger([c EXCEPT !.seed_pending = FALSE], shadow)
      /\ NoStronger(Shadow!Bar(Shadow!Strike(c)), shadow)
  BY <1>1, UpdatesWeaken, OperatorsWeaken, WeakeningComposes, Zenon
<1>3. CASE Shadow!SecurityAccess(req)
  <2>1. \/ \E nrc : Shadow!Refuse(c, req, nrc)
        \/ req.sub = 1 /\ Shadow!RequestSeed(c, req)
        \/ req.sub = 2 /\ Shadow!SendKey(c, req)
    BY <1>3 DEF Shadow!SecurityAccess, c
  <2>2. req.sid = "SecurityAccess"
    BY <1>3 DEF Shadow!SecurityAccess, Shadow!Dispatched
  <2>3. CASE \E nrc : Shadow!Refuse(c, req, nrc)
    BY <1>1, <2>3 DEF Shadow!Refuse
  <2>4. CASE req.sub = 1 /\ Shadow!RequestSeed(c, req)
    <3>1. CASE Shadow!AnswerWith(Shadow!Challenge(c), req,
                                 Shadow!Challenge(c).current_seed)
      BY <2>2, <2>4, <3>1 DEF Shadow!AnswerWith, Challenges, AsksSeed, c
    <3>2. CASE Shadow!AnswerWith([c EXCEPT !.seed_pending = FALSE], req,
                                 ZeroSeed)
      BY <1>2, <3>2 DEF Shadow!AnswerWith
    <3>3. CASE Shadow!Refuse(c, req, "incorrectMessageLength")
      BY <1>1, <3>3 DEF Shadow!Refuse
    <3>4. QED
      BY <2>4, <3>1, <3>2, <3>3 DEF Shadow!RequestSeed
  <2>5. CASE req.sub = 2 /\ Shadow!SendKey(c, req)
    BY <1>1, <1>2, <2>2, <2>5
    DEF Shadow!SendKey, Shadow!WrongKey, Shadow!Refuse, Shadow!Answer,
        Shadow!AnswerWith, Grants, BringsKey, c
  <2>6. QED
    BY <2>1, <2>3, <2>4, <2>5
<1>4. CASE ~Shadow!SecurityAccess(req)
  <2>1. shadow' \in {c, Shadow!FallBack(c), [c EXCEPT !.session = "extended"],
                     Shadow!Current}
    BY <1>4
    DEF Shadow!HandleRequest, Shadow!EmptyRequest, Shadow!UnknownService,
        Shadow!AccessRefused, Shadow!SessionControl, Shadow!TesterPresent,
        Shadow!ReadData, Shadow!ReadDTC, Shadow!ClearDTC, Shadow!ECUReset,
        Shadow!AnswerUnlessSuppressed, Shadow!EnterSession, Shadow!Provide,
        Shadow!Silent, Shadow!Refuse, Shadow!Answer, Shadow!AnswerWith, c
  <2>2. QED
    BY <1>1, <1>2, <2>1
<1>5. QED
  BY <1>3, <1>4

\* A reset that is not dropped was admitted from the unlocked level, and
\* locks the shadow; so does the return to the default session.
LEMMA ResetJudged ==
  ASSUME Shape(shadow), NEW req, Shadow!HandleRequest(req, "ok"),
         req.size = "exact", req.sid = "ECUReset", req.sub = 1,
         ~Drops(verdict')
  PROVE  shadow.security_level = "level1" /\ shadow'.security_level = "locked"
<1> DEFINE c == Shadow!Refreshed
<1>1. NoStronger(c, shadow) /\ NoStronger(Shadow!Current, shadow) /\ Shape(c)
  BY RefreshedWeaker DEF NoStronger
<1>2. Shadow!AccessRefused(req) \/ Shadow!ECUReset(req, "ok")
  BY DEF Shadow!HandleRequest, Shadow!EmptyRequest, Shadow!UnknownService,
         Shadow!SessionControl, Shadow!TesterPresent, Shadow!ReadData,
         Shadow!ReadDTC, Shadow!ClearDTC, Shadow!SecurityAccess,
         Shadow!Dispatched
<1>3. ~Shadow!AccessRefused(req)
  BY DEF Shadow!AccessRefused, Shadow!AccessRefusal, Shadow!Refuse, Drops,
         DropReasons
<1>4. Shadow!Allows("ECUReset") /\ shadow' = Shadow!FallBack(c)
  BY <1>2, <1>3
  DEF Shadow!ECUReset, Shadow!Dispatched, Shadow!Answer, Shadow!AnswerWith
<1>5. Shadow!Current.security_level # "locked"
  BY <1>4 DEF Shadow!Allows, Shadow!NeedsUnlock
<1>6. shadow.security_level = "level1"
  BY <1>1, <1>5 DEF NoStronger, Shape
<1>7. shadow'.security_level = "locked"
  BY <1>1, <1>4, OperatorsWeaken
<1>8. QED
  BY <1>6, <1>7

LEMMA ReturnJudged ==
  ASSUME Shape(shadow), NEW req, Shadow!HandleRequest(req, "ok"),
         req.size = "exact", req.sid = "SessionControl", req.sub = 1
  PROVE  shadow'.security_level = "locked"
<1>1. Shadow!Allows("SessionControl")
  BY DEF Shadow!Allows, Shadow!NeedsExtended, Shadow!NeedsUnlock
<1>2. shadow' = Shadow!FallBack(Shadow!Refreshed)
  BY <1>1
  DEF Shadow!HandleRequest, Shadow!EmptyRequest, Shadow!UnknownService,
      Shadow!AccessRefused, Shadow!SessionControl, Shadow!TesterPresent,
      Shadow!ReadData, Shadow!ReadDTC, Shadow!ClearDTC, Shadow!ECUReset,
      Shadow!SecurityAccess, Shadow!Dispatched, Shadow!EnterSession,
      Shadow!AnswerUnlessSuppressed, Shadow!Silent, Shadow!Answer,
      Shadow!AnswerWith
<1>3. Shape(Shadow!Refreshed)
  BY RefreshedWeaker DEF NoStronger
<1>4. QED
  BY <1>2, <1>3, OperatorsWeaken

-----------------------------------------------------------------------------
(* The steps of the benchmark.                                             *)

LEMMA BuiltIsWellFormed ==
  ASSUME NEW act \in Acts
  PROVE  /\ Built(act).size = "exact"
         /\ Built(act).sid = "ECUReset" => Built(act).sub = 1
  BY DEF Acts, Built, Request

LEMMA AdmitKeepsBInv ==
  ASSUME BInv, NEW act \in Acts, Admit(act)
  PROVE  BInv'
<1>0. PICK req : req = Built(act)
  OBVIOUS
<1>1. /\ pending = <<>> /\ Shadow!HandleRequest(req, "ok") /\ ecu' = ecu
      /\ pending' = IF Drops(verdict') THEN <<>> ELSE <<req>>
  BY <1>0 DEF Admit
<1>2. req.size = "exact" /\ (req.sid = "ECUReset" => req.sub = 1)
  BY <1>0, BuiltIsWellFormed
<1>3. Shape(shadow) /\ InStep
  BY <1>1 DEF BInv
<1>4. EcuShape'
  BY <1>1 DEF BInv, EcuShape
<1>5. NoStronger(Shadow!Refreshed, shadow)
  BY <1>3, RefreshedWeaker
<1>6. Drops(verdict') => verdict'.kind # "positive"
  BY DEF Drops
<1>7. ASSUME shadow'.security_level = "level1", ~Drops(verdict')
      PROVE  /\ req.sid # "ECUReset"
             /\ ~(req.sid = "SessionControl" /\ req.sub = 1)
  BY <1>1, <1>2, <1>3, <1>7, ResetJudged, ReturnJudged
<1>8. req.sid = "ECUReset" /\ ~Drops(verdict') => ecu'.security
  BY <1>1, <1>2, <1>3, ResetJudged DEF InStep
<1>9. CASE NoStronger(shadow', shadow)
  <2>1. Shape(shadow') /\ InStep'
    BY <1>1, <1>3, <1>9 DEF NoStronger, InStep
  <2>2. ~Drops(verdict') => OneAhead(req)'
    BY <1>1, <1>7, <1>8, <2>1 DEF OneAhead, InStep, BringsKey, AsksSeed
  <2>3. QED
    BY <1>1, <1>4, <2>1, <2>2 DEF BInv, Shape
<1>10. CASE Challenges(req)
  <2>1. /\ Shape(shadow')
        /\ shadow'.security_level = Shadow!Refreshed.security_level
    BY <1>5, <1>10, AdditionsShaped DEF Challenges, NoStronger
  <2>2. shadow'.security_level = "level1" => ecu.security
    BY <1>3, <1>5, <2>1 DEF NoStronger, InStep
  <2>3. ~Drops(verdict')
    BY <1>6, <1>10 DEF Challenges
  <2>4. OneAhead(req)'
    BY <1>1, <1>7, <1>8, <1>10, <2>2, <2>3
    DEF OneAhead, Challenges, AsksSeed, BringsKey
  <2>5. QED
    BY <1>1, <1>4, <2>1, <2>3, <2>4 DEF BInv, Shape
<1>11. CASE Grants(req)
  <2>1. Shape(shadow') /\ shadow'.seed_pending = FALSE
    BY <1>5, <1>11, AdditionsShaped DEF Grants, NoStronger
  <2>2. req.key = KeyOf[ecu.seed]
    BY <1>3, <1>5, <1>11 DEF Grants, NoStronger, InStep
  <2>3. ~Drops(verdict')
    BY <1>6, <1>11 DEF Grants
  <2>4. OneAhead(req)'
    BY <1>1, <1>7, <1>8, <1>11, <2>1, <2>2, <2>3
    DEF OneAhead, Grants, AsksSeed, BringsKey
  <2>5. QED
    BY <1>1, <1>4, <2>1, <2>3, <2>4 DEF BInv, Shape
<1>12. QED
  BY <1>1, <1>3, <1>9, <1>10, <1>11, JudgementEffect

LEMMA DeliverKeepsBInv ==
  ASSUME BInv, Deliver
  PROVE  BInv'
<1>1. PICK req : pending = <<req>> /\ OneAhead(req)
  BY DEF BInv, Deliver
<1>2. Head(pending) = req /\ pending' = <<>>
  BY <1>1 DEF Deliver
<1>3. PICK drawn \in Seeds \ {ZeroSeed} :
        /\ ecu' = EcuRecv(ecu, req, drawn).ecu
        /\ shadow' = Observed(EcuRecv(ecu, req, drawn).answer)
  BY <1>2 DEF Deliver
<1> DEFINE r == EcuRecv(ecu, req, drawn).answer
<1>4. Shape(shadow) /\ EcuShape
  BY DEF BInv
<1>5. CASE req.sid = "SessionControl"
  <2>1. /\ EcuShape' /\ ecu'.seed = ecu.seed /\ r.sid # "SecurityAccess"
        /\ req.sub # 1 => ecu'.security = ecu.security
    BY <1>3, <1>4, <1>5
    DEF EcuRecv, OnSession, Accepts, Outcome, EcuShape
  <2>2. shadow' = shadow
    BY <1>3, <2>1 DEF Observed, IsSeed
  <2>3. QED
    BY <1>1, <1>2, <1>4, <1>5, <2>1, <2>2
    DEF BInv, InStep, OneAhead, BringsKey, AsksSeed
<1>6. CASE AsksSeed(req)
  <2>1. /\ EcuShape' /\ ecu'.seed = drawn /\ ecu'.security = ecu.security
        /\ IsSeed(r) /\ r.seed = drawn
    BY <1>3, <1>4, <1>6
    DEF EcuRecv, OnSecurity, Outcome, EcuShape, AsksSeed, IsSeed
  <2>2. shadow' = [shadow EXCEPT !.current_seed = drawn,
                                 !.seed_pending = TRUE]
    BY <1>3, <2>1 DEF Observed
  <2>3. /\ Shape(shadow') /\ shadow'.current_seed = drawn
        /\ shadow'.security_level = shadow.security_level
    BY <1>4, <2>2 DEF Shape
  <2>4. QED
    BY <1>1, <1>2, <1>6, <2>1, <2>3
    DEF BInv, InStep, OneAhead, BringsKey, AsksSeed
<1>7. CASE req.sid = "SecurityAccess" /\ req.sub # 1
  <2>1. /\ EcuShape' /\ ecu'.seed = ecu.seed /\ r.sub # 1
        /\ ecu.security => ecu'.security
        /\ req.key = KeyOf[ecu.seed] => ecu'.security
    <3>1. CASE req.key = KeyOf[ecu.seed]
      BY <1>3, <1>4, <1>7, <3>1
      DEF EcuRecv, OnSecurity, Accepts, Outcome, EcuShape
    <3>2. CASE req.key # KeyOf[ecu.seed]
      BY <1>3, <1>4, <1>7, <3>2
      DEF EcuRecv, OnSecurity, Rejects, Outcome, EcuShape
    <3>3. QED
      BY <3>1, <3>2
  <2>2. shadow' = shadow
    BY <1>3, <2>1 DEF Observed, IsSeed
  <2>3. QED
    BY <1>1, <1>2, <1>4, <1>7, <2>1, <2>2
    DEF BInv, InStep, OneAhead, BringsKey, AsksSeed
<1>8. CASE req.sid = "ECUReset"
  <2>1. ecu.security = TRUE
    BY <1>1, <1>4, <1>8 DEF OneAhead, EcuShape
  <2>2. EcuShape' /\ ecu'.seed = ecu.seed /\ r.sid # "SecurityAccess"
    <3>1. CASE ecu.session = "extended"
      BY <1>3, <1>4, <1>8, <2>1, <3>1
      DEF EcuRecv, AfterReset, Accepts, Outcome, EcuShape
    <3>2. CASE ecu.session # "extended"
      BY <1>3, <1>4, <1>8, <3>2
      DEF EcuRecv, Rejects, Outcome, EcuShape
    <3>3. QED
      BY <3>1, <3>2
  <2>3. shadow' = shadow
    BY <1>3, <2>2 DEF Observed, IsSeed
  <2>4. QED
    BY <1>1, <1>2, <1>4, <1>8, <2>2, <2>3
    DEF BInv, InStep, OneAhead, AsksSeed
<1>9. CASE req.sid \notin {"SessionControl", "SecurityAccess", "ECUReset"}
  <2>1. ecu' = ecu /\ r.seed = ZeroSeed
    BY <1>3, <1>9 DEF EcuRecv, Accepts, Rejects, Outcome
  <2>2. shadow' = shadow
    BY <1>3, <2>1 DEF Observed, IsSeed
  <2>3. QED
    BY <1>1, <1>2, <1>4, <1>9, <2>1, <2>2
    DEF BInv, InStep, OneAhead, BringsKey, AsksSeed, EcuShape
<1>10. QED
  BY <1>5, <1>6, <1>7, <1>8, <1>9 DEF AsksSeed

LEMMA InitBInv == Init => BInv
<1> SUFFICES ASSUME Init
             PROVE  BInv
  OBVIOUS
<1>1. Shape(shadow) /\ shadow.security_level = "locked"
      /\ shadow.seed_pending = FALSE
  BY DEF Init, Shadow!Init, Shape
<1>2. EcuShape /\ pending = <<>>
  BY DEF Init, EcuShape
<1>3. QED
  BY <1>1, <1>2 DEF BInv, InStep

LEMMA NextBInv == BInv /\ [Next]_vars => BInv'
<1> SUFFICES ASSUME BInv, [Next]_vars
             PROVE  BInv'
  OBVIOUS
<1>1. CASE \E act \in Acts : Admit(act)
  BY <1>1, AdmitKeepsBInv
<1>2. CASE Deliver
  BY <1>2, DeliverKeepsBInv
<1>3. CASE NewScenario \/ Tick \/ UNCHANGED vars
  <2>1. UNCHANGED <<shadow, ecu, pending>>
    BY <1>3 DEF NewScenario, Tick, vars
  <2>2. QED
    BY <2>1 DEF BInv, Shape, EcuShape, InStep, OneAhead, BringsKey, AsksSeed
<1>4. QED
  BY <1>1, <1>2, <1>3 DEF Next

\* The permissive ECU never resets for a client that did not unlock it.
THEOREM ResetsAreEarned == Spec => []NoUnauthorisedReset
<1>1. BInv => NoUnauthorisedReset
  BY DEF BInv, EcuShape, NoUnauthorisedReset
<1>2. QED
  BY InitBInv, NextBInv, <1>1, PTL DEF Spec

\* Between two requests the shadow's unlocked level implies the ECU's.
THEOREM ShadowFollows == Spec => []ShadowNeverAhead
<1>1. BInv => ShadowNeverAhead
  BY DEF BInv, InStep, ShadowNeverAhead
<1>2. QED
  BY InitBInv, NextBInv, <1>1, PTL DEF Spec

-----------------------------------------------------------------------------
(* The legitimate flow.                                                    *)

\* c is in an extended session touched this very tick, with no lockout that
\* could be lifted: an evaluation of the deadlines changes nothing.
Fresh(c) ==
  c.session = "extended" /\ c.last_activity = now /\ ~Shadow!LockoutServed(c)

\* What each act of the flow leaves for the next one, unless the gateway is
\* locked out.  The seed is the tester's once the ECU has drawn it.
FlowInv ==
  /\ now \in Shadow!Clock /\ flow \in 0 .. 4
  /\ flow \in 1 .. 3 => Fresh(shadow)
  /\ flow = 2 /\ ~shadow.locked_out =>
       \/ pending = <<>> /\ shadow.seed_pending /\ shadow.current_seed = last
       \/ pending = <<Built("SEED")>>
  /\ flow = 3 /\ ~shadow.locked_out => shadow.security_level = "level1"

\* Of the fields of a context, those a deadline is read from.
SameDates(d, c) ==
  /\ d.session = c.session /\ d.last_activity = c.last_activity
  /\ d.lockout_until = c.lockout_until /\ d.locked_out = c.locked_out

LEMMA SameDatesFresh ==
  ASSUME NEW c, Fresh(c), NEW d, SameDates(d, c)
  PROVE  Fresh(d)
  BY DEF Fresh, SameDates, Shadow!LockoutServed

\* In a fresh context a request finds and leaves the deadlines as they were.
LEMMA NothingDue ==
  ASSUME Shadow!ClockAssumption, now \in Shadow!Clock, Shape(shadow),
         Fresh(shadow)
  PROVE  Shadow!Current = shadow /\ Shadow!Refreshed = shadow
<1>1. Shadow!LiftLockout(shadow) = shadow
  BY DEF Shadow!LiftLockout, Fresh
<1>2. Shadow!Elapsed(now, shadow.last_activity) = 0
  BY DEF Fresh, Shadow!Elapsed, Shadow!Clock, Shadow!ClockRange,
         Shadow!ClockAssumption
<1>3. ~Shadow!SessionExpired(shadow)
  BY <1>2 DEF Shadow!SessionExpired, Shadow!ClockAssumption
<1>4. Shadow!Current = shadow
  BY <1>1, <1>3 DEF Shadow!Current, Shadow!Polled, Shadow!ExpireSession
<1>5. [shadow EXCEPT !.last_activity = now] = shadow
  BY DEF Shape, Fresh
<1>6. QED
  BY <1>4, <1>5 DEF Shadow!Refreshed

\* Whatever the gateway was, the session the flow opens is fresh.
LEMMA SessionOpened ==
  ASSUME Shape(shadow), Shadow!HandleRequest(Built("SESSION_EXT"), "ok")
  PROVE  Fresh(shadow') /\ ~Drops(verdict')
<1> DEFINE req == Built("SESSION_EXT")
           l == Shadow!LiftLockout(shadow)
           e == Shadow!ExpireSession(l)
           c == [e EXCEPT !.last_activity = now]
           d == [c EXCEPT !.session = "extended"]
<1>1. /\ req.sid = "SessionControl" /\ req.size = "exact" /\ req.sub = 3
      /\ req.suppress = FALSE
  BY DEF Built, Request
<1> HIDE DEF req
<1>2. Shadow!Allows("SessionControl")
  BY DEF Shadow!Allows, Shadow!NeedsExtended, Shadow!NeedsUnlock
<1>3. Shadow!SessionControl(req)
  BY <1>1, <1>2
  DEF Shadow!HandleRequest, Shadow!EmptyRequest, Shadow!UnknownService,
      Shadow!AccessRefused, Shadow!TesterPresent, Shadow!ReadData,
      Shadow!ReadDTC, Shadow!ClearDTC, Shadow!ECUReset,
      Shadow!SecurityAccess, Shadow!Dispatched, req
<1>4. shadow' = Shadow!EnterSession(Shadow!Refreshed, 3)
      /\ verdict'.kind = "positive"
  BY <1>1, <1>3
  DEF Shadow!SessionControl, Shadow!AnswerUnlessSuppressed, Shadow!Answer,
      Shadow!AnswerWith, Shadow!Refuse
<1>5. shadow' = d
  BY <1>4
  DEF Shadow!EnterSession, Shadow!Refreshed, Shadow!Current, Shadow!Polled
<1>6. Shape(l) /\ ~Shadow!LockoutServed(l)
  <2>1. CASE Shadow!LockoutServed(shadow)
    <3>1. l = [shadow EXCEPT !.locked_out = FALSE, !.failed_attempts = 0]
      BY <2>1 DEF Shadow!LiftLockout
    <3> HIDE DEF l
    <3>2. Shape(l) /\ l.locked_out = FALSE
      BY <3>1 DEF Shape
    <3>3. QED
      BY <3>2 DEF Shadow!LockoutServed
  <2>2. CASE ~Shadow!LockoutServed(shadow)
    BY <2>2 DEF Shadow!LiftLockout
  <2>3. QED
    BY <2>1, <2>2
<1> HIDE DEF l
<1>7. /\ Shape(e) /\ e.locked_out = l.locked_out
      /\ e.lockout_until = l.lockout_until
  <2>1. CASE e = Shadow!FallBack(l)
    <3> HIDE DEF e
    <3>1. QED
      BY <1>6, <2>1 DEF Shape, Shadow!FallBack
  <2>2. CASE e = l
    BY <1>6, <2>2
  <2>3. QED
    BY <2>1, <2>2 DEF Shadow!ExpireSession
<1> HIDE DEF e
<1>8. /\ Shape(c) /\ c.locked_out = e.locked_out
      /\ c.lockout_until = e.lockout_until /\ c.last_activity = now
  <2> SUFFICES ASSUME NEW g, g = [e EXCEPT !.last_activity = now]
               PROVE  /\ Shape(g) /\ g.locked_out = e.locked_out
                      /\ g.lockout_until = e.lockout_until
                      /\ g.last_activity = now
    OBVIOUS
  <2>1. QED
    BY <1>7 DEF Shape
<1> HIDE DEF c
<1>9. /\ d.session = "extended" /\ d.locked_out = c.locked_out
      /\ d.lockout_until = c.lockout_until /\ d.last_activity = now
  <2> SUFFICES ASSUME NEW g, g = [c EXCEPT !.session = "extended"]
               PROVE  /\ g.session = "extended"
                      /\ g.locked_out = c.locked_out
                      /\ g.lockout_until = c.lockout_until
                      /\ g.last_activity = now
    OBVIOUS
  <2>1. QED
    BY <1>8 DEF Shape
<1> HIDE DEF d
<1>10. UNCHANGED now
  BY <1>3 DEF Shadow!SessionControl, Shadow!Dispatched
<1>11. Fresh(shadow')
  BY <1>5, <1>6, <1>7, <1>8, <1>9 DEF Fresh, Shadow!LockoutServed
<1>12. QED
  BY <1>4, <1>11 DEF Drops

LEMMA JudgementTakesNoTime ==
  ASSUME NEW req, Shadow!HandleRequest(req, "ok")
  PROVE  now' = now
  BY DEF Shadow!HandleRequest, Shadow!EmptyRequest, Shadow!UnknownService,
         Shadow!AccessRefused, Shadow!SessionControl, Shadow!TesterPresent,
         Shadow!ReadData, Shadow!ReadDTC, Shadow!ClearDTC, Shadow!ECUReset,
         Shadow!SecurityAccess, Shadow!Dispatched

\* Which handler a well-formed request reaches in a fresh context.
LEMMA ServiceReached ==
  ASSUME Shadow!Current = shadow, shadow.session = "extended",
         NEW req, Shadow!HandleRequest(req, "ok"),
         NEW sid \in {"SecurityAccess", "ECUReset"}, req.sid = sid,
         sid = "ECUReset" => shadow.security_level = "level1"
  PROVE  \/ sid = "SecurityAccess" /\ Shadow!SecurityAccess(req)
         \/ sid = "ECUReset" /\ Shadow!ECUReset(req, "ok")
<1>1. Shadow!Allows(sid)
  BY DEF Shadow!Allows, Shadow!NeedsUnlock
<1>2. ~Shadow!AccessRefused(req)
  BY <1>1 DEF Shadow!AccessRefused
<1>3. /\ ~Shadow!EmptyRequest(req) /\ ~Shadow!UnknownService(req)
      /\ ~Shadow!SessionControl(req) /\ ~Shadow!TesterPresent(req)
      /\ ~Shadow!ReadData(req, "ok") /\ ~Shadow!ReadDTC(req, "ok")
      /\ ~Shadow!ClearDTC(req, "ok")
  BY DEF Shadow!EmptyRequest, Shadow!UnknownService, Shadow!SessionControl,
         Shadow!TesterPresent, Shadow!ReadData, Shadow!ReadDTC,
         Shadow!ClearDTC, Shadow!Dispatched
<1>4. /\ Shadow!SecurityAccess(req) => sid = "SecurityAccess"
      /\ Shadow!ECUReset(req, "ok") => sid = "ECUReset"
  BY DEF Shadow!SecurityAccess, Shadow!ECUReset, Shadow!Dispatched
<1>5. QED
  BY <1>2, <1>3, <1>4 DEF Shadow!HandleRequest

\* The second act: refused during a lockout only, and leaves the dates.
LEMMA SeedAsked ==
  ASSUME Shape(shadow), Shadow!Current = shadow, Shadow!Refreshed = shadow,
         shadow.session = "extended",
         Shadow!HandleRequest(Built("SEED"), "ok")
  PROVE  /\ SameDates(shadow', shadow)
         /\ ~shadow.locked_out => ~Drops(verdict')
<1> DEFINE req == Built("SEED")
<1>1. req.sid = "SecurityAccess" /\ req.size = "exact" /\ req.sub = 1
  BY DEF Built, Request
<1>2. Shadow!SecurityAccess(req)
  BY <1>1, ServiceReached
<1> HIDE DEF req
<1>3. \/ /\ shadow.locked_out
         /\ Shadow!Refuse(shadow, req, "requiredTimeDelayNotExpired")
      \/ ~shadow.locked_out /\ Shadow!RequestSeed(shadow, req)
  BY <1>1, <1>2 DEF Shadow!SecurityAccess, Shadow!Barred
<1>4. CASE shadow.locked_out
  BY <1>3, <1>4 DEF Shadow!Refuse, SameDates
<1>5. CASE ~shadow.locked_out
  <2>1. /\ shadow' \in {[shadow EXCEPT !.seed_pending = FALSE],
                        Shadow!Challenge(shadow)}
        /\ verdict'.kind = "positive"
    BY <1>1, <1>3, <1>5
    DEF Shadow!RequestSeed, Shadow!Refuse, Shadow!AnswerWith
  <2>2. SameDates(shadow', shadow)
    BY <2>1 DEF Shape, SameDates, Shadow!Challenge
  <2>3. QED
    BY <2>1, <2>2 DEF Drops
<1>6. QED
  BY <1>4, <1>5

\* The third act, when the seed the tester last saw is outstanding.
LEMMA KeyBrought ==
  ASSUME Shape(shadow), Shadow!Current = shadow, Shadow!Refreshed = shadow,
         shadow.session = "extended",
         ~shadow.locked_out =>
           shadow.seed_pending /\ shadow.current_seed = last,
         Shadow!HandleRequest(Built("KEY_CORRECT"), "ok")
  PROVE  /\ SameDates(shadow', shadow)
         /\ ~shadow.locked_out =>
              shadow'.security_level = "level1" /\ ~Drops(verdict')
<1> DEFINE req == Built("KEY_CORRECT")
<1>1. /\ req.sid = "SecurityAccess" /\ req.size = "exact" /\ req.sub = 2
      /\ req.key = KeyOf[last]
  BY DEF Built, Request
<1>2. Shadow!SecurityAccess(req)
  BY <1>1, ServiceReached
<1> HIDE DEF req
<1>3. \/ /\ shadow.locked_out
         /\ Shadow!Refuse(shadow, req, "requiredTimeDelayNotExpired")
      \/ ~shadow.locked_out /\ Shadow!SendKey(shadow, req)
  BY <1>1, <1>2 DEF Shadow!SecurityAccess, Shadow!Barred
<1>4. CASE shadow.locked_out
  BY <1>3, <1>4 DEF Shadow!Refuse, SameDates
<1>5. CASE ~shadow.locked_out
  <2>1. shadow' = Shadow!Grant(shadow) /\ verdict'.kind = "positive"
    BY <1>1, <1>3, <1>5
    DEF Shadow!SendKey, Shadow!Refuse, Shadow!Answer, Shadow!AnswerWith
  <2>2. SameDates(shadow', shadow) /\ shadow'.security_level = "level1"
    BY <2>1 DEF Shape, SameDates, Shadow!Grant
  <2>3. QED
    BY <2>1, <2>2 DEF Drops
<1>6. QED
  BY <1>4, <1>5

\* The last act, from the unlocked level; without it, only a lockout that
\* lasts can be the reason.
LEMMA ResetAsked ==
  ASSUME Shape(shadow), Shadow!Current = shadow, Shadow!Refreshed = shadow,
         shadow.session = "extended",
         ~shadow.locked_out => shadow.security_level = "level1",
         Shadow!HandleRequest(Built("RESET"), "ok")
  PROVE  ~shadow'.locked_out => ~Drops(verdict')
<1> DEFINE req == Built("RESET")
<1>1. req.sid = "ECUReset" /\ req.size = "exact" /\ req.sub = 1
  BY DEF Built, Request
<1> HIDE DEF req
<1>2. CASE shadow.security_level = "level1"
  <2>1. Shadow!ECUReset(req, "ok")
    BY <1>1, <1>2, ServiceReached DEF req
  <2>2. verdict'.kind = "positive"
    BY <1>1, <2>1
    DEF Shadow!ECUReset, Shadow!Refuse, Shadow!Answer, Shadow!AnswerWith
  <2>3. QED
    BY <2>2 DEF Drops
<1>3. CASE shadow.security_level # "level1"
  <2>1. ~Shadow!Allows("ECUReset")
    BY <1>3 DEF Shape, Shadow!Allows, Shadow!NeedsUnlock
  <2>2. Shadow!AccessRefused(req)
    BY <1>1, <2>1
    DEF Shadow!HandleRequest, Shadow!EmptyRequest, Shadow!UnknownService,
        Shadow!SessionControl, Shadow!TesterPresent, Shadow!ReadData,
        Shadow!ReadDTC, Shadow!ClearDTC, Shadow!ECUReset,
        Shadow!SecurityAccess, Shadow!Dispatched, req
  <2>3. shadow' = shadow
    BY <2>2 DEF Shadow!AccessRefused, Shadow!Refuse
  <2>4. QED
    BY <1>3, <2>3
<1>4. QED
  BY <1>2, <1>3

\* The judgement of an act, as far as the flow is concerned.
LEMMA AdmitFollowsFlow ==
  ASSUME Shadow!ClockAssumption, BInv, FlowInv, NEW act \in Acts, Admit(act)
  PROVE  /\ FlowInv'
         /\ flow' > flow /\ ~shadow'.locked_out => ~Drops(verdict')
<1>1. /\ pending = <<>> /\ Shadow!HandleRequest(Built(act), "ok")
      /\ pending' = IF Drops(verdict') THEN <<>> ELSE <<Built(act)>>
      /\ flow' = FlowAfter(act) /\ last' = last
  BY DEF Admit
<1>2. now' = now /\ now \in Shadow!Clock /\ flow \in 0 .. 4
  BY <1>1, JudgementTakesNoTime DEF FlowInv
<1>3. Shape(shadow)
  BY DEF BInv
<1>4. ASSUME flow \in 1 .. 3
      PROVE  /\ Fresh(shadow) /\ shadow.session = "extended"
             /\ Shadow!Current = shadow /\ Shadow!Refreshed = shadow
  BY <1>2, <1>3, <1>4, NothingDue DEF FlowInv, Fresh
<1>5. CASE act = "SESSION_EXT"
  <2>1. flow' = 1
    BY <1>1, <1>2, <1>5 DEF FlowAfter, LegitimateFlow
  <2>2. Fresh(shadow') /\ ~Drops(verdict')
    BY <1>1, <1>3, <1>5, SessionOpened
  <2>3. Fresh(shadow)'
    BY <1>2, <2>2 DEF Fresh, Shadow!LockoutServed
  <2>4. QED
    BY <1>2, <2>1, <2>2, <2>3 DEF FlowInv
<1>6. CASE act = "SEED" /\ flow = 1
  <2>1. flow' = 2
    BY <1>1, <1>6 DEF FlowAfter, LegitimateFlow
  <2>2. /\ SameDates(shadow', shadow)
        /\ ~shadow.locked_out => ~Drops(verdict')
    BY <1>1, <1>3, <1>4, <1>6, SeedAsked
  <2>3. Fresh(shadow')
    BY <1>4, <1>6, <2>2, SameDatesFresh
  <2>4. Fresh(shadow)'
    BY <1>2, <2>3 DEF Fresh, Shadow!LockoutServed
  <2>5. ~shadow'.locked_out => ~Drops(verdict')
    BY <2>2 DEF SameDates
  <2>6. ~shadow'.locked_out => pending' = <<Built("SEED")'>>
    BY <1>1, <1>6, <2>5 DEF Built, Request
  <2>7. QED
    BY <1>2, <2>1, <2>4, <2>5, <2>6 DEF FlowInv
<1>7. CASE act = "KEY_CORRECT" /\ flow = 2
  <2>1. flow' = 3
    BY <1>1, <1>7 DEF FlowAfter, LegitimateFlow
  <2>2. /\ SameDates(shadow', shadow)
        /\ ~shadow.locked_out =>
             shadow'.security_level = "level1" /\ ~Drops(verdict')
    BY <1>1, <1>3, <1>4, <1>7, KeyBrought DEF FlowInv
  <2>3. Fresh(shadow')
    BY <1>4, <1>7, <2>2, SameDatesFresh
  <2>4. Fresh(shadow)'
    BY <1>2, <2>3 DEF Fresh, Shadow!LockoutServed
  <2>5. QED
    BY <1>2, <2>1, <2>2, <2>4 DEF FlowInv, SameDates
<1>8. CASE act = "RESET" /\ flow = 3
  <2>1. flow' = 4
    BY <1>1, <1>8 DEF FlowAfter, LegitimateFlow
  <2>2. ~shadow'.locked_out => ~Drops(verdict')
    BY <1>1, <1>3, <1>4, <1>8, ResetAsked DEF FlowInv
  <2>3. QED
    BY <1>2, <2>1, <2>2 DEF FlowInv
<1>9. CASE /\ act # "SESSION_EXT" /\ ~(act = "SEED" /\ flow = 1)
           /\ ~(act = "KEY_CORRECT" /\ flow = 2)
           /\ ~(act = "RESET" /\ flow = 3)
  <2>1. flow' = 0
    BY <1>1, <1>2, <1>9 DEF FlowAfter, LegitimateFlow
  <2>2. QED
    BY <1>2, <2>1 DEF FlowInv
<1>10. QED
  BY <1>5, <1>6, <1>7, <1>8, <1>9

\* The ECU's answer to a request for a seed is the seed of both.
LEMMA DeliverFollowsFlow ==
  ASSUME BInv, FlowInv, Deliver
  PROVE  FlowInv'
<1>1. PICK drawn \in Seeds \ {ZeroSeed} :
        LET r == EcuRecv(ecu, Head(pending), drawn).answer IN
        /\ shadow' = Observed(r)
        /\ last' = IF IsSeed(r) THEN r.seed ELSE last
  BY DEF Deliver
<1> DEFINE r == EcuRecv(ecu, Head(pending), drawn).answer
<1>2. now' = now /\ flow' = flow /\ pending # <<>> /\ pending' = <<>>
  BY DEF Deliver
<1>3. Shape(shadow)
  BY DEF BInv
<1>4. /\ SameDates(shadow', shadow)
      /\ shadow'.security_level = shadow.security_level
      /\ IsSeed(r) => /\ shadow'.current_seed = r.seed
                      /\ shadow'.seed_pending = TRUE
                      /\ last' = r.seed
  <2> HIDE DEF r
  <2>1. shadow' = Observed(r)
        /\ last' = IF IsSeed(r) THEN r.seed ELSE last
    BY <1>1 DEF r
  <2>2. CASE IsSeed(r)
    BY <1>3, <2>1, <2>2 DEF Observed, Shape, SameDates
  <2>3. CASE ~IsSeed(r)
    BY <2>1, <2>3 DEF Observed, SameDates
  <2>4. QED
    BY <2>2, <2>3
<1>5. flow \in 1 .. 3 => Fresh(shadow)'
  <2>1. flow \in 1 .. 3 => Fresh(shadow')
    BY <1>4, SameDatesFresh DEF FlowInv
  <2>2. QED
    BY <1>2, <2>1 DEF Fresh, Shadow!LockoutServed
<1>6. ASSUME pending = <<Built("SEED")>>
      PROVE  IsSeed(r)
  BY <1>6 DEF Built, Request, EcuRecv, OnSecurity, Outcome, IsSeed
<1>7. flow = 2 /\ ~shadow.locked_out =>
        shadow'.seed_pending /\ shadow'.current_seed = last'
  BY <1>2, <1>4, <1>6 DEF FlowInv
<1>8. QED
  BY <1>2, <1>4, <1>5, <1>7 DEF FlowInv, SameDates

LEMMA InitFlowInv ==
  ASSUME Shadow!ClockAssumption
  PROVE  Init => FlowInv
  BY DEF Init, FlowInv, Shadow!Init

LEMMA NextFlowInv ==
  ASSUME Shadow!ClockAssumption
  PROVE  /\ BInv /\ FlowInv /\ [Next]_vars => FlowInv'
         /\ BInv /\ FlowInv /\ [Next]_vars =>
              [flow' > flow /\ ~shadow'.locked_out => ~Drops(verdict')]_vars
<1> SUFFICES ASSUME BInv, FlowInv, [Next]_vars
             PROVE  /\ FlowInv'
                    /\ flow' > flow /\ ~shadow'.locked_out =>
                         ~Drops(verdict')
  OBVIOUS
<1>1. CASE \E act \in Acts : Admit(act)
  BY <1>1, AdmitFollowsFlow
<1>2. CASE Deliver
  BY <1>2, DeliverFollowsFlow DEF Deliver, FlowInv
<1>3. CASE NewScenario \/ Tick
  <2>1. flow' = 0 /\ flow \in 0 .. 4
    BY <1>3 DEF NewScenario, Tick, FlowInv
  <2>2. now' \in Shadow!Clock
    BY <1>3
    DEF NewScenario, Tick, FlowInv, Shadow!Later, Shadow!Clock,
        Shadow!ClockRange, Shadow!ClockAssumption
  <2>3. QED
    BY <2>1, <2>2 DEF FlowInv
<1>4. CASE UNCHANGED vars
  BY <1>4
  DEF vars, FlowInv, Fresh, Shadow!LockoutServed, Built, Request
<1>5. QED
  BY <1>1, <1>2, <1>3, <1>4 DEF Next

\* AVAIL-1: the gateway forwards every act of a legitimate flow, whatever
\* came before it, unless it is locked out.
THEOREM LegitimateFlowsPass ==
  ASSUME Shadow!ClockAssumption
  PROVE  Spec => LegitimateFlowPasses
<1>1. Init => FlowInv
  BY InitFlowInv
<1>2. BInv /\ FlowInv /\ [Next]_vars => FlowInv'
  BY NextFlowInv
<1>3. BInv /\ FlowInv /\ [Next]_vars =>
        [flow' > flow /\ ~shadow'.locked_out => ~Drops(verdict')]_vars
  BY NextFlowInv
<1>4. QED
  BY InitBInv, NextBInv, <1>1, <1>2, <1>3, PTL
  DEF Spec, LegitimateFlowPasses
=============================================================================
