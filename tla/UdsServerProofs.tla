--------------------------- MODULE UdsServerProofs ---------------------------
(***************************************************************************)
(* Theorems about UdsServer, for every clock range, deadline, number of    *)
(* attempts, seed generator, key function and set of client requests that  *)
(* the assumptions of UdsServer allow.                                     *)
(*                                                                         *)
(* Every handler builds the new context from the old one by a few small    *)
(* operators (FallBack, LiftLockout, Challenge, Strike, Bar, Grant).  The  *)
(* argument follows that: Sound says of a context, taken as a value, that  *)
(* it is well typed and that its authority is coherent; one lemma per      *)
(* operator shows that it preserves Sound; the invariant is then Sound of  *)
(* the context the server holds.                                           *)
(***************************************************************************)
EXTENDS UdsServer, TLAPS

\* The coherence of authority, as a predicate of a context.
Coherent(c) ==
  /\ c.session = "default" => c.security_level = "locked" /\ ~c.seed_pending
  /\ c.seed_pending => c.security_level = "locked" /\ ~c.locked_out
  /\ c.failed_attempts \in 0 .. MaxAttempts
  /\ c.locked_out <=> c.failed_attempts = MaxAttempts
  /\ c.locked_out => c.security_level = "locked"

Sound(c) == c \in Context /\ Coherent(c)

\* The inductive invariant.
IInv == now \in Clock /\ reply \in Reply /\ Sound(ctx)

-----------------------------------------------------------------------------
(* Lemmas about the clock and the operators on contexts.                   *)

\* Adding a delay shorter than the period to a date gives a date.
LEMMA LaterIsADate ==
  ASSUME NEW t \in Clock, NEW d \in Nat, d < ClockRange
  PROVE  Later(t, d) \in Clock
  BY ClockAssumption DEF Later, Clock, ClockRange

\* The ticks elapsed between two dates are fewer than the period.
LEMMA ElapsedIsADelay ==
  ASSUME NEW n \in Clock, NEW t \in Clock
  PROVE  Elapsed(n, t) \in Nat /\ Elapsed(n, t) < ClockRange
  BY ClockAssumption DEF Elapsed, Clock, ClockRange

\* Each field written alone keeps a context well typed.  (The provers do
\* one update of a record with Boolean and numeric fields at a time.)
LEMMA FieldUpdates ==
  ASSUME NEW c \in Context
  PROVE  /\ \A n \in Nat : [c EXCEPT !.failed_attempts = n] \in Context
         /\ \A b \in BOOLEAN : [c EXCEPT !.seed_pending = b] \in Context
         /\ \A b \in BOOLEAN : [c EXCEPT !.locked_out = b] \in Context
<1>1. ASSUME NEW n \in Nat
      PROVE  [c EXCEPT !.failed_attempts = n] \in Context
  BY DEF Context
<1>2. ASSUME NEW b \in BOOLEAN
      PROVE  [c EXCEPT !.seed_pending = b] \in Context
  BY DEF Context
<1>3. ASSUME NEW b \in BOOLEAN
      PROVE  [c EXCEPT !.locked_out = b] \in Context
  BY DEF Context
<1>4. QED
  BY <1>1, <1>2, <1>3

LEMMA FallBackSound ==
  ASSUME NEW c, Sound(c)
  PROVE  Sound(FallBack(c)) /\ FallBack(c).failed_attempts = c.failed_attempts
  BY DEF Sound, Coherent, Context, FallBack

LEMMA LiftLockoutSound ==
  ASSUME NEW c, Sound(c)
  PROVE  Sound(LiftLockout(c))
<1>1. CASE LockoutServed(c)
  <2> DEFINE d == LiftLockout(c)
  <2>1. d = [c EXCEPT !.locked_out = FALSE, !.failed_attempts = 0]
    BY <1>1 DEF LiftLockout
  <2>2. d \in Context
    <3>1. [c EXCEPT !.locked_out = FALSE] \in Context
      BY FieldUpdates DEF Sound
    <3>2. QED
      BY <3>1, <2>1, FieldUpdates
  <2>3. /\ d.locked_out = FALSE /\ d.failed_attempts = 0
        /\ d.session = c.session /\ d.security_level = c.security_level
        /\ d.seed_pending = c.seed_pending
    BY <2>1 DEF Sound, Context
  <2> HIDE DEF d
  <2>4. Coherent(d)
    BY <2>3, SecurityAssumption DEF Sound, Coherent
  <2>5. QED
    BY <2>2, <2>4 DEF Sound, d
<1>2. CASE ~LockoutServed(c)
  BY <1>2 DEF LiftLockout
<1>3. QED
  BY <1>1, <1>2

LEMMA PolledSound ==
  ASSUME Sound(ctx)
  PROVE  Sound(Polled)
  BY LiftLockoutSound, FallBackSound DEF Polled, ExpireSession

\* The context a handler starts from.
LEMMA RefreshedSound ==
  ASSUME Sound(ctx), now \in Clock
  PROVE  Sound(Refreshed) /\ Sound(Current)
<1>1. Sound(Current)
  BY PolledSound DEF Current
<1>2. QED
  BY <1>1 DEF Sound, Coherent, Context, Refreshed

LEMMA EnterSessionSound ==
  ASSUME NEW c, Sound(c), NEW sub \in {1, 3}
  PROVE  Sound(EnterSession(c, sub))
<1>1. CASE sub = 1
  BY <1>1, FallBackSound DEF EnterSession
<1>2. CASE sub = 3
  BY <1>2 DEF EnterSession, Sound, Coherent, Context
<1>3. QED
  BY <1>1, <1>2

\* A seed is drawn only for a locked, unbarred client in a session.
LEMMA ChallengeSound ==
  ASSUME NEW c, Sound(c), c.session # "default",
         c.security_level = "locked", ~c.locked_out
  PROVE  Sound(Challenge(c))
<1>1. Step[c.seed_state] \in GenStates /\ SeedOf[Step[c.seed_state]] \in Seeds
  BY SecurityAssumption DEF Sound, Context
<1>2. QED
  BY <1>1 DEF Sound, Coherent, Context, Challenge

\* A wrong key: the attempt is counted, and the last one bars the server.
LEMMA StruckSound ==
  ASSUME NEW c, Sound(c), c.seed_pending, now \in Clock
  PROVE  Sound(Bar(Strike(c)))
<1>1. Later(now, Lockout) \in Clock
  BY LaterIsADate, ClockAssumption DEF ClockRange
<1>2. c.failed_attempts \in 0 .. MaxAttempts - 1 /\ ~c.locked_out
  BY SecurityAssumption DEF Sound, Coherent
<1> DEFINE s == Strike(c)
<1>3. s \in Context
  <2>1. c.failed_attempts + 1 \in Nat
    BY DEF Sound, Context
  <2>2. [c EXCEPT !.failed_attempts = c.failed_attempts + 1] \in Context
    BY <2>1, FieldUpdates DEF Sound
  <2>3. QED
    BY <2>2, FieldUpdates DEF Strike
<1>4. /\ s.failed_attempts = c.failed_attempts + 1 /\ s.seed_pending = FALSE
      /\ s.session = c.session /\ s.security_level = c.security_level
      /\ s.locked_out = c.locked_out
  BY DEF Sound, Context, Strike
<1> HIDE DEF s
<1>5. CASE s.failed_attempts >= MaxAttempts
  <2> DEFINE d == Bar(s)
  <2>1. d = [s EXCEPT !.locked_out = TRUE,
                      !.lockout_until = Later(now, Lockout)]
    BY <1>5 DEF Bar
  <2>2. d \in Context
    BY <2>1, <1>1, <1>3 DEF Context
  <2>3. /\ d.locked_out = TRUE /\ d.failed_attempts = s.failed_attempts
        /\ d.session = s.session /\ d.security_level = s.security_level
        /\ d.seed_pending = s.seed_pending
    BY <2>1, <1>3 DEF Context
  <2> HIDE DEF d
  <2>4. Coherent(d)
    BY <2>3, <1>2, <1>4, <1>5, SecurityAssumption DEF Sound, Coherent
  <2>5. QED
    BY <2>2, <2>4 DEF Sound, d, s
<1>6. CASE ~(s.failed_attempts >= MaxAttempts)
  <2>1. Bar(s) = s
    BY <1>6 DEF Bar
  <2>2. Coherent(s)
    BY <1>2, <1>4, <1>6, SecurityAssumption DEF Sound, Coherent
  <2>3. QED
    BY <2>1, <2>2, <1>3 DEF Sound, s
<1>7. QED
  BY <1>5, <1>6

LEMMA GrantSound ==
  ASSUME NEW c, Sound(c), c.seed_pending
  PROVE  Sound(Grant(c))
<1>1. c.session # "default" /\ ~c.locked_out
  BY DEF Sound, Coherent
<1> DEFINE d == Grant(c)
<1>2. d \in Context
  BY DEF Sound, Context, Grant
<1>3. /\ d.locked_out = c.locked_out /\ d.failed_attempts = 0
      /\ d.session = c.session /\ d.seed_pending = FALSE
  BY DEF Sound, Context, Grant
<1> HIDE DEF d
<1>4. Coherent(d)
  BY <1>1, <1>3, SecurityAssumption DEF Coherent
<1>5. QED
  BY <1>2, <1>4 DEF Sound, d

-----------------------------------------------------------------------------
(* Every step of the server preserves the invariant.                       *)

\* The forms an answer takes: each writes the context it is given and a
\* well-typed reply.
LEMMA SilentSound ==
  ASSUME NEW c, Sound(c), NEW req \in Request, Silent(c, req)
  PROVE  Sound(ctx') /\ reply' \in Reply
  BY SecurityAssumption DEF Silent, Reply, Request

LEMMA RefuseSound ==
  ASSUME NEW c, Sound(c), NEW req \in Request, NEW nrc \in NRC,
         Refuse(c, req, nrc)
  PROVE  Sound(ctx') /\ reply' \in Reply
  BY SecurityAssumption DEF Refuse, Reply, Request

LEMMA AnswerWithSound ==
  ASSUME NEW c, Sound(c), NEW req \in Request, NEW seed \in Seeds,
         AnswerWith(c, req, seed)
  PROVE  Sound(ctx') /\ reply' \in Reply
  BY SecurityAssumption DEF AnswerWith, Reply, Request
\* 0x27, the one handler that climbs.
LEMMA SecurityAccessSound ==
  ASSUME IInv, NEW req \in Request, SecurityAccess(req)
  PROVE  Sound(ctx') /\ reply' \in Reply
<1> DEFINE c == Refreshed
<1>1. Sound(c) /\ now \in Clock
  BY RefreshedSound DEF IInv
<1>2. c.session # "default"
  BY DEF SecurityAccess, Dispatched, Allows, NeedsExtended, Refreshed
<1> HIDE DEF c
<1>3. ASSUME ~Barred(c, req), RequestSeed(c, req)
      PROVE  Sound(ctx') /\ reply' \in Reply
  <2>1. c.security_level = "locked" =>
          Sound(Challenge(c)) /\ Challenge(c).current_seed \in Seeds
    BY <1>1, <1>2, <1>3, ChallengeSound DEF Barred, Sound, Context
  <2>2. Sound([c EXCEPT !.seed_pending = FALSE])
    BY <1>1 DEF Sound, Coherent, Context
  <2>3. QED
    BY <1>1, <1>3, <2>1, <2>2, RefuseSound, AnswerWithSound,
       SecurityAssumption
    DEF RequestSeed, NRC
<1>4. ASSUME SendKey(c, req)
      PROVE  Sound(ctx') /\ reply' \in Reply
  <2>1. c.seed_pending => Sound(Grant(c)) /\ Sound(Bar(Strike(c)))
    BY <1>1, GrantSound, StruckSound
  <2>2. QED
    BY <1>1, <1>4, <2>1, RefuseSound, AnswerWithSound, SecurityAssumption
    DEF SendKey, WrongKey, Answer, NRC
<1>5. QED
  BY <1>1, <1>3, <1>4, RefuseSound DEF SecurityAccess, NRC, c

\* Every handled request leads from a sound context to a sound context.
LEMMA HandleRequestSound ==
  ASSUME IInv, NEW req \in Request, NEW o \in OutcomesOf(req.sid),
         HandleRequest(req, o)
  PROVE  IInv'
<1>1. Sound(Current) /\ Sound(Refreshed)
  BY RefreshedSound DEF IInv
<1>2. Sound(ctx') /\ reply' \in Reply
  <2>1. CASE EmptyRequest(req)
    BY <2>1, <1>1, SilentSound DEF EmptyRequest
  <2>2. CASE UnknownService(req)
    BY <2>2, <1>1, RefuseSound DEF UnknownService, NRC
  <2>3. CASE AccessRefused(req)
    <3>1. AccessRefusal(req.sid) \in NRC
      BY DEF AccessRefusal, NRC
    <3>2. QED
      BY <2>3, <3>1, <1>1, RefuseSound DEF AccessRefused
  <2>4. CASE SessionControl(req)
    <3>1. req.sub \in {1, 3} => Sound(EnterSession(Refreshed, req.sub))
      BY <1>1, EnterSessionSound
    <3>2. QED
      BY <2>4, <3>1, <1>1, RefuseSound, SilentSound, AnswerWithSound,
         SecurityAssumption
      DEF SessionControl, AnswerUnlessSuppressed, Answer, NRC
  <2>5. CASE TesterPresent(req)
    BY <2>5, <1>1, RefuseSound, SilentSound, AnswerWithSound,
       SecurityAssumption
    DEF TesterPresent, AnswerUnlessSuppressed, Answer, NRC
  <2>6. CASE ReadData(req, o)
    <3>1. o # "ok" => DidRefusal[o] \in NRC
      BY DEF OutcomesOf, Outcomes, DidRefusal, NRC
    <3>2. QED
      BY <2>6, <3>1, <1>1, RefuseSound, AnswerWithSound, SecurityAssumption
      DEF ReadData, Provide, Answer, NRC
  <2>7. CASE ReadDTC(req, o)
    <3>1. o # "ok" => DtcRefusal[o] \in NRC
      BY DEF OutcomesOf, Outcomes, DtcRefusal, NRC
    <3>2. QED
      BY <2>7, <3>1, <1>1, RefuseSound, AnswerWithSound, SecurityAssumption
      DEF ReadDTC, Provide, Answer, NRC
  <2>8. CASE ClearDTC(req, o)
    <3>1. o # "ok" => ClearRefusal[o] \in NRC
      BY DEF OutcomesOf, Outcomes, ClearRefusal, NRC
    <3>2. QED
      BY <2>8, <3>1, <1>1, RefuseSound, AnswerWithSound, SecurityAssumption
      DEF ClearDTC, Provide, Answer, NRC
  <2>9. CASE ECUReset(req, o)
    <3>1. o # "ok" => ResetRefusal[o] \in NRC
      BY DEF OutcomesOf, Outcomes, ResetRefusal, NRC
    <3>2. Sound(FallBack(Refreshed))
      BY <1>1, FallBackSound
    <3>3. QED
      BY <2>9, <3>1, <3>2, <1>1, RefuseSound, AnswerWithSound,
         SecurityAssumption
      DEF ECUReset, Answer, NRC
  <2>10. CASE SecurityAccess(req)
    BY <2>10, SecurityAccessSound
  <2>11. QED
    BY <2>1, <2>2, <2>3, <2>4, <2>5, <2>6, <2>7, <2>8, <2>9, <2>10
    DEF HandleRequest
<1>3. now' = now
  BY DEF HandleRequest, EmptyRequest, UnknownService, AccessRefused,
         SessionControl, TesterPresent, ReadData, ReadDTC, ClearDTC,
         ECUReset, SecurityAccess, Dispatched
<1>4. QED
  BY <1>2, <1>3 DEF IInv, Sound, Coherent, Clock, ClockRange
-----------------------------------------------------------------------------
(* The invariant, and the safety invariants it carries.                    *)

LEMMA InitSound == Init => IInv
<1> SUFFICES ASSUME Init
             PROVE  IInv
  OBVIOUS
<1>1. now \in Clock /\ reply \in Reply
  BY SecurityAssumption DEF Init, NoReply, Reply
<1>2. 0 \in Clock
  BY ClockAssumption DEF Clock, ClockRange
<1>3. ctx \in Context
  BY <1>2, SecurityAssumption DEF Init, Context
<1>4. Coherent(ctx)
  BY SecurityAssumption DEF Init, Coherent
<1>5. QED
  BY <1>1, <1>3, <1>4 DEF IInv, Sound

LEMMA NextSound == IInv /\ [Next]_vars => IInv'
<1> SUFFICES ASSUME IInv, [Next]_vars
             PROVE  IInv'
  OBVIOUS
<1>1. NoReply \in Reply
  BY SecurityAssumption DEF NoReply, Reply
<1>2. CASE Tick
  <2>1. now' \in Clock
    BY <1>2, LaterIsADate, ClockAssumption DEF Tick, IInv, ClockRange
  <2>2. reply' \in Reply /\ ctx' = ctx
    BY <1>1, <1>2 DEF Tick
  <2>3. QED
    BY <2>1, <2>2 DEF IInv, Sound, Coherent, Clock, ClockRange
<1>3. CASE Poll
  <2>1. Sound(ctx') /\ reply' \in Reply /\ now' = now
    BY <1>1, <1>3, PolledSound DEF Poll, IInv
  <2>2. QED
    BY <2>1 DEF IInv, Sound, Coherent, Clock, ClockRange
<1>4. CASE Handle
  BY <1>4, HandleRequestSound, RequestAssumption DEF Handle
<1>5. CASE UNCHANGED vars
  BY <1>5 DEF vars, IInv, Sound, Coherent, Clock, ClockRange
<1>6. QED
  BY <1>2, <1>3, <1>4, <1>5 DEF Next

\* The context of the server is coherent after every call.
THEOREM Invariance == Spec => []IInv
  BY InitSound, NextSound, PTL DEF Spec

\* Type correctness.
THEOREM TypeCorrect == Spec => []TypeOK
<1>1. IInv => TypeOK
  BY DEF IInv, Sound, TypeOK
<1>2. QED
  BY <1>1, Invariance, PTL

\* SEC-4: no level is unlocked and no challenge outstanding in the default
\* session.
THEOREM DefaultIsClosed == Spec => []NothingOpenInDefault
<1>1. IInv => NothingOpenInDefault
  BY DEF IInv, Sound, Coherent, NothingOpenInDefault
<1>2. QED
  BY <1>1, Invariance, PTL

\* A challenge never coexists with an unlocked level or with a lockout.
THEOREM ChallengeImpliesLocked == Spec => []ChallengeOnlyWhenLocked
<1>1. IInv => ChallengeOnlyWhenLocked
  BY DEF IInv, Sound, Coherent, ChallengeOnlyWhenLocked
<1>2. QED
  BY <1>1, Invariance, PTL

\* The server is locked out exactly when its attempts are used up, and then
\* nothing is unlocked; the counter never exceeds its limit.
THEOREM LockoutIffExhausted == Spec => []LockoutMatchesAttempts
<1>1. IInv => LockoutMatchesAttempts
  BY DEF IInv, Sound, Coherent, LockoutMatchesAttempts
<1>2. QED
  BY <1>1, Invariance, PTL

-----------------------------------------------------------------------------
(* What one step may do: the action properties.                            *)

\* What the deadlines leave of the context a call finds.
LEMMA PolledFacts ==
  ASSUME IInv
  PROVE  /\ Polled.session # "default" =>
              /\ ctx.session = "extended" /\ Elapsed(now, ctx.last_activity) < S3
              /\ Polled.security_level = ctx.security_level
              /\ Polled.seed_pending = ctx.seed_pending
         /\ Polled.session = "default" =>
              Polled.security_level = "locked" /\ ~Polled.seed_pending
         /\ Polled.failed_attempts < ctx.failed_attempts =>
              /\ ctx.locked_out /\ ~Polled.locked_out
              /\ Elapsed(now, ctx.lockout_until) < HalfRange
         /\ Polled.failed_attempts # ctx.failed_attempts =>
              Polled.failed_attempts = 0
<1> DEFINE d == LiftLockout(ctx)
<1>1. /\ d.session = ctx.session /\ d.last_activity = ctx.last_activity
      /\ d.security_level = ctx.security_level
      /\ d.seed_pending = ctx.seed_pending
  BY DEF IInv, Sound, Context, LiftLockout
<1>2. d.failed_attempts # ctx.failed_attempts =>
        /\ d.failed_attempts = 0 /\ ctx.locked_out /\ ~d.locked_out
        /\ Elapsed(now, ctx.lockout_until) < HalfRange
  BY DEF IInv, Sound, Context, LiftLockout, LockoutServed
<1>3. Sound(d) /\ Sound(Polled)
  BY LiftLockoutSound, PolledSound DEF IInv
<1> HIDE DEF d
<1>4. Polled = IF SessionExpired(d) THEN FallBack(d) ELSE d
  BY DEF Polled, ExpireSession, d
<1>5. /\ FallBack(d).session = "default"
      /\ FallBack(d).failed_attempts = d.failed_attempts
      /\ FallBack(d).locked_out = d.locked_out
  BY <1>3 DEF FallBack, Sound, Context
<1>6. Polled.session # "default" =>
        /\ Polled = d /\ ctx.session = "extended"
        /\ ~(Elapsed(now, ctx.last_activity) >= S3)
  BY <1>1, <1>4, <1>5, <1>3 DEF SessionExpired, Sound, Context
<1>7. Elapsed(now, ctx.last_activity) \in Nat
  BY ElapsedIsADelay DEF IInv, Sound, Context
<1>8. Polled.session # "default" => Elapsed(now, ctx.last_activity) < S3
  BY <1>6, <1>7, ClockAssumption
<1>9. Polled.session = "default" =>
        Polled.security_level = "locked" /\ ~Polled.seed_pending
  BY <1>3 DEF Sound, Coherent
<1>10. /\ Polled.failed_attempts = d.failed_attempts
       /\ Polled.locked_out = d.locked_out
  BY <1>4, <1>5
<1>11. ctx.failed_attempts \in Nat /\ d.failed_attempts \in Nat
  BY <1>3 DEF IInv, Sound, Context
<1>12. Polled.failed_attempts < ctx.failed_attempts =>
         d.failed_attempts # ctx.failed_attempts
  BY <1>10, <1>11
<1>13. QED
  BY <1>1, <1>2, <1>6, <1>8, <1>9, <1>10, <1>12

\* The handlers other than 0x27 leave one of four contexts behind, and the
\* one that resets only runs when the policy let the reset through.
LEMMA OrdinaryEffect ==
  ASSUME NEW req \in Request, NEW o, HandleRequest(req, o),
         ~SecurityAccess(req)
  PROVE  /\ ctx' \in {Current, Refreshed, FallBack(Refreshed),
                      [Refreshed EXCEPT !.session = "extended"]}
         /\ ResetPerformed =>
              ctx' = FallBack(Refreshed) /\ Allows("ECUReset")
         /\ ~KeyJudged
<1>1. CASE EmptyRequest(req)
  BY <1>1 DEF EmptyRequest, Silent, ResetPerformed, KeyJudged
<1>2. CASE UnknownService(req)
  BY <1>2 DEF UnknownService, Refuse, ResetPerformed, KeyJudged
<1>3. CASE AccessRefused(req)
  BY <1>3 DEF AccessRefused, AccessRefusal, Refuse, ResetPerformed, KeyJudged
<1>4. CASE SessionControl(req)
  BY <1>4 DEF SessionControl, Dispatched, EnterSession,
              AnswerUnlessSuppressed, Answer, AnswerWith, Silent, Refuse,
              ResetPerformed, KeyJudged
<1>5. CASE TesterPresent(req)
  BY <1>5 DEF TesterPresent, Dispatched, AnswerUnlessSuppressed, Answer,
              AnswerWith, Silent, Refuse, ResetPerformed, KeyJudged
<1>6. CASE ReadData(req, o)
  BY <1>6 DEF ReadData, Dispatched, Provide, Answer, AnswerWith, Refuse,
              ResetPerformed, KeyJudged
<1>7. CASE ReadDTC(req, o)
  BY <1>7 DEF ReadDTC, Dispatched, Provide, Answer, AnswerWith, Refuse,
              ResetPerformed, KeyJudged
<1>8. CASE ClearDTC(req, o)
  BY <1>8 DEF ClearDTC, Dispatched, Provide, Answer, AnswerWith, Refuse,
              ResetPerformed, KeyJudged
<1>9. CASE ECUReset(req, o)
  BY <1>9 DEF ECUReset, Dispatched, Answer, AnswerWith, Refuse,
              ResetPerformed, KeyJudged
<1>10. QED
  BY <1>1, <1>2, <1>3, <1>4, <1>5, <1>6, <1>7, <1>8, <1>9 DEF HandleRequest

\* 0x27 either grants the level or counts a strike, both against an
\* outstanding challenge, or leaves the level and the attempts alone.
LEMMA SecurityEffect ==
  ASSUME NEW req \in Request, SecurityAccess(req)
  PROVE  LET c == Refreshed IN
         /\ c.session # "default"
         /\ ~ResetPerformed
         /\ \/ /\ ctx' = Grant(c) /\ c.seed_pending
               /\ reply'.kind = "positive" /\ reply'.sid = "SecurityAccess"
               /\ reply'.sub = 2
            \/ ctx' = Bar(Strike(c)) /\ c.seed_pending
            \/ /\ ctx' \in {c, [c EXCEPT !.seed_pending = FALSE], Challenge(c)}
               /\ ~KeyJudged
<1> DEFINE c == Refreshed
<1>1. c.session # "default" /\ req.sid = "SecurityAccess"
  BY DEF SecurityAccess, Dispatched, Allows, NeedsExtended, Refreshed
<1>2. ASSUME RequestSeed(c, req), req.sub = 1
      PROVE  /\ ctx' \in {c, [c EXCEPT !.seed_pending = FALSE], Challenge(c)}
             /\ ~KeyJudged
  BY <1>2 DEF RequestSeed, AnswerWith, Refuse, KeyJudged
<1>3. ASSUME SendKey(c, req), req.sub = 2
      PROVE  \/ /\ ctx' = Grant(c) /\ c.seed_pending
                /\ reply'.kind = "positive" /\ reply'.sid = "SecurityAccess"
                /\ reply'.sub = 2
             \/ ctx' = Bar(Strike(c)) /\ c.seed_pending
             \/ ctx' = c /\ ~KeyJudged
  BY <1>1, <1>3
  DEF SendKey, WrongKey, Answer, AnswerWith, Refuse, KeyJudged
<1>4. \/ \E nrc \in {"incorrectMessageLength", "requiredTimeDelayNotExpired",
                    "subFunctionNotSupported"} : Refuse(c, req, nrc)
      \/ req.sub = 1 /\ RequestSeed(c, req)
      \/ req.sub = 2 /\ SendKey(c, req)
  BY DEF SecurityAccess
<1>5. ~ResetPerformed
  BY <1>1, <1>4 DEF ResetPerformed, RequestSeed, SendKey, WrongKey, Answer,
                    AnswerWith, Refuse
<1>6. QED
  BY <1>1, <1>2, <1>3, <1>4, <1>5 DEF Refuse, KeyJudged

\* A step that is not a handled request produces no answer and takes no
\* authority beyond what the deadlines take.
LEMMA QuietSteps ==
  ASSUME IInv, Tick \/ Poll
  PROVE  ~UnlockStep /\ ~ResetPerformed /\ ~KeyJudged
<1>1. reply' = NoReply
  BY DEF Tick, Poll
<1>2. ~UnlockStep
  <2>1. CASE Tick
    BY <2>1 DEF Tick, UnlockStep
  <2>2. CASE Poll
    BY <2>2, PolledFacts DEF Poll, UnlockStep
  <2>3. QED
    BY <2>1, <2>2
<1>3. QED
  BY <1>1, <1>2 DEF NoReply, ResetPerformed, KeyJudged

\* The fields a handler starts from, besides the date of the activity.
LEMMA RefreshedFields ==
  ASSUME IInv
  PROVE  /\ Refreshed.session = Polled.session
         /\ Refreshed.security_level = Polled.security_level
         /\ Refreshed.seed_pending = Polled.seed_pending
         /\ Refreshed.failed_attempts = Polled.failed_attempts
         /\ Refreshed.locked_out = Polled.locked_out
         /\ Refreshed \in Context
<1>1. Current \in Context /\ Current = Polled
  BY RefreshedSound DEF IInv, Sound, Current
<1>2. QED
  BY <1>1, RefreshedSound DEF Refreshed, Context, IInv, Sound

\* What a handled request does to the level, case by case.
LEMMA HandleUnlocks ==
  ASSUME IInv, NEW req \in Request, NEW o, HandleRequest(req, o), UnlockStep
  PROVE  /\ ctx.seed_pending /\ ~ctx'.seed_pending
         /\ ctx.session = "extended"
         /\ Elapsed(now, ctx.last_activity) < S3
         /\ ~ctx.locked_out
         /\ reply'.kind = "positive" /\ reply'.sid = "SecurityAccess"
         /\ reply'.sub = 2
<1> DEFINE c == Refreshed
<1>0. /\ c \in Context /\ c.security_level = Polled.security_level
      /\ c.session = Polled.session /\ c.seed_pending = Polled.seed_pending
      /\ c.failed_attempts = Polled.failed_attempts
  BY RefreshedFields
<1>1. c.security_level = "locked"
  BY <1>0, PolledFacts DEF UnlockStep, IInv, Sound, Context
<1>2. Current \in Context /\ Current.security_level = "locked"
  BY <1>1, <1>0, RefreshedSound DEF Current, IInv, Sound
<1> HIDE DEF c
<1>3. SecurityAccess(req)
  <2>1. FallBack(c).security_level = "locked"
    BY <1>0 DEF FallBack, Context
  <2>2. [c EXCEPT !.session = "extended"].security_level = "locked"
    BY <1>0, <1>1 DEF Context
  <2>3. QED
    BY <1>1, <1>2, <2>1, <2>2, OrdinaryEffect DEF UnlockStep, c
<1>4. c.session # "default" /\ ctx' \in {Grant(c), Bar(Strike(c)), c,
        [c EXCEPT !.seed_pending = FALSE], Challenge(c)}
  BY <1>3, SecurityEffect DEF c
<1>5. Strike(c).security_level = "locked"
  BY <1>0, <1>1 DEF Strike, Context
<1>6. Bar(Strike(c)).security_level = "locked"
  <2>1. [Strike(c) EXCEPT !.locked_out = TRUE,
           !.lockout_until = Later(now, Lockout)].security_level = "locked"
    BY <1>0, <1>1 DEF Strike, Context
  <2>2. QED
    BY <2>1, <1>5 DEF Bar
<1>7. /\ [c EXCEPT !.seed_pending = FALSE].security_level = "locked"
      /\ Challenge(c).security_level = "locked"
  BY <1>0, <1>1 DEF Challenge, Context
<1>8. /\ ctx' = Grant(c) /\ c.seed_pending
      /\ reply'.kind = "positive" /\ reply'.sid = "SecurityAccess"
      /\ reply'.sub = 2
  BY <1>1, <1>3, <1>6, <1>7, SecurityEffect DEF UnlockStep, c
<1>9. ~Grant(c).seed_pending
  BY <1>0 DEF Grant, Context
<1>10. /\ ctx.seed_pending /\ ctx.session = "extended"
       /\ Elapsed(now, ctx.last_activity) < S3
  BY <1>0, <1>4, <1>8, PolledFacts
<1>11. ~ctx.locked_out
  BY <1>10 DEF IInv, Sound, Coherent
<1>12. QED
  BY <1>8, <1>9, <1>10, <1>11

\* SEC-2: the level is only unlocked by a correct key, given for a seed that
\* was outstanding, in a live session, with attempts left.
THEOREM UnlocksAreEarned == Spec => UnlockOnlyByFreshKey
<1> DEFINE P == UnlockStep =>
       /\ ctx.seed_pending /\ ~ctx'.seed_pending
       /\ ctx.session = "extended"
       /\ Elapsed(now, ctx.last_activity) < S3
       /\ ~ctx.locked_out
       /\ reply'.kind = "positive" /\ reply'.sid = "SecurityAccess"
<1>1. IInv /\ [Next]_vars => [P]_vars
  BY HandleUnlocks, QuietSteps, RequestAssumption DEF Next, Handle
<1>2. QED
  BY <1>1, Invariance, PTL DEF Spec, UnlockOnlyByFreshKey

\* What a handled request that performs a reset found and leaves.
LEMMA HandleResets ==
  ASSUME IInv, NEW req \in Request, NEW o, HandleRequest(req, o),
         ResetPerformed
  PROVE  /\ ctx.session = "extended" /\ ctx.security_level = "level1"
         /\ Elapsed(now, ctx.last_activity) < S3
         /\ ctx'.session = "default" /\ ctx'.security_level = "locked"
<1>1. ctx' = FallBack(Refreshed) /\ Allows("ECUReset")
  BY OrdinaryEffect, SecurityEffect
<1>2. Polled.session # "default" /\ Polled.security_level # "locked"
  BY <1>1 DEF Allows, NeedsExtended, NeedsUnlock, Current
<1>3. /\ ctx.session = "extended" /\ ctx.security_level # "locked"
      /\ Elapsed(now, ctx.last_activity) < S3
  BY <1>2, PolledFacts
<1>4. ctx.security_level = "level1"
  BY <1>3 DEF IInv, Sound, Context
<1>5. ctx'.session = "default" /\ ctx'.security_level = "locked"
  BY <1>1, RefreshedFields DEF FallBack, Context
<1>6. QED
  BY <1>3, <1>4, <1>5

\* SEC-1 and SEC-3: a reset is only performed for a client that held the
\* level in a live session, and nothing of its authority survives it.
THEOREM ResetsAreAuthorised == Spec => ResetNeedsAuthority
<1> DEFINE P == ResetPerformed =>
       /\ ctx.session = "extended" /\ ctx.security_level = "level1"
       /\ Elapsed(now, ctx.last_activity) < S3
       /\ ctx'.session = "default" /\ ctx'.security_level = "locked"
<1>1. IInv /\ [Next]_vars => [P]_vars
  BY HandleResets, QuietSteps, RequestAssumption DEF Next, Handle
<1>2. QED
  BY <1>1, Invariance, PTL DEF Spec, ResetNeedsAuthority

\* What a handled request that judges a key found and leaves.
LEMMA HandleJudges ==
  ASSUME IInv, NEW req \in Request, NEW o, HandleRequest(req, o), KeyJudged
  PROVE  ctx.seed_pending /\ ~ctx'.seed_pending
<1> DEFINE c == Refreshed
<1>1. c \in Context /\ c.seed_pending = Polled.seed_pending
  BY RefreshedFields
<1>2. c.seed_pending /\ (ctx' = Grant(c) \/ ctx' = Bar(Strike(c)))
  BY OrdinaryEffect, SecurityEffect
<1>3. ctx.seed_pending
  BY <1>1, <1>2, PolledFacts
<1> HIDE DEF c
<1>4. ~Grant(c).seed_pending
  BY <1>1 DEF Grant, Context
<1>5. ~Bar(Strike(c)).seed_pending
  BY <1>1 DEF Bar, Strike, Context
<1>6. QED
  BY <1>2, <1>3, <1>4, <1>5

\* SEC-2 again: a key is judged against a seed at most once.
THEOREM SeedsAreConsumed == Spec => SeedJudgedOnce
<1> DEFINE P == KeyJudged => ctx.seed_pending /\ ~ctx'.seed_pending
<1>1. IInv /\ [Next]_vars => [P]_vars
  BY HandleJudges, QuietSteps, RequestAssumption DEF Next, Handle
<1>2. QED
  BY <1>1, Invariance, PTL DEF Spec, SeedJudgedOnce

\* Each context a handler may leave behind keeps the attempts and the bar it
\* found, or grants, or strikes.
LEMMA HandledAttempts ==
  ASSUME IInv, NEW req \in Request, NEW o, HandleRequest(req, o)
  PROVE  \/ /\ ctx'.failed_attempts = Polled.failed_attempts
            /\ ctx'.locked_out = Polled.locked_out
         \/ UnlockStep
         \/ /\ ~ctx.locked_out
            /\ ctx'.failed_attempts = Polled.failed_attempts + 1
<1> DEFINE c == Refreshed
<1>1. /\ c \in Context /\ c.failed_attempts = Polled.failed_attempts
      /\ c.locked_out = Polled.locked_out
      /\ c.session = Polled.session /\ c.seed_pending = Polled.seed_pending
  BY RefreshedFields
<1>2. Current = Polled
  BY DEF Current
<1> HIDE DEF c
<1>3. \A d \in {c, FallBack(c), [c EXCEPT !.session = "extended"],
               [c EXCEPT !.seed_pending = FALSE], Challenge(c)} :
        /\ d.failed_attempts = Polled.failed_attempts
        /\ d.locked_out = Polled.locked_out
  BY <1>1 DEF FallBack, Challenge, Context
<1>4. ASSUME c.session # "default", c.seed_pending
      PROVE  /\ ctx.seed_pending /\ ctx.security_level = "locked"
             /\ ~ctx.locked_out
  <2>1. ctx.seed_pending
    BY <1>1, <1>4, PolledFacts
  <2>2. QED
    BY <2>1 DEF IInv, Sound, Coherent
<1>5. Grant(c).security_level = "level1"
  BY <1>1 DEF Grant, Context
<1>6. Bar(Strike(c)).failed_attempts = Polled.failed_attempts + 1
  BY <1>1 DEF Bar, Strike, Context
<1>7. CASE ~SecurityAccess(req)
  BY <1>2, <1>3, <1>7, OrdinaryEffect DEF c
<1>8. CASE SecurityAccess(req)
  BY <1>3, <1>4, <1>5, <1>6, <1>8, SecurityEffect DEF UnlockStep, c
<1>9. QED
  BY <1>7, <1>8

\* The attempts a lockout whose date has passed gives back.
Lifted ==
  /\ ctx.locked_out /\ ~ctx'.locked_out
  /\ Elapsed(now, ctx.lockout_until) < HalfRange

\* What gives attempts back, in any call of the server.
LEMMA AttemptsGivenBack ==
  ASSUME IInv,
         \/ \E req \in Request : \E o : HandleRequest(req, o)
         \/ Poll
         \/ ctx' = ctx,
         ctx'.failed_attempts < ctx.failed_attempts
  PROVE  UnlockStep \/ Lifted
<1>1. ctx.failed_attempts \in Nat /\ Polled.failed_attempts \in Nat
  BY PolledSound DEF IInv, Sound, Context
<1>2. ASSUME NEW req \in Request, NEW o, HandleRequest(req, o)
      PROVE  UnlockStep \/ Lifted
  <2>1. CASE /\ ctx'.failed_attempts = Polled.failed_attempts
             /\ ctx'.locked_out = Polled.locked_out
    BY <2>1, PolledFacts DEF Lifted
  <2>2. CASE /\ ~ctx.locked_out
             /\ ctx'.failed_attempts = Polled.failed_attempts + 1
    <3>1. ~(Polled.failed_attempts < ctx.failed_attempts)
      BY <2>2, PolledFacts
    <3>2. QED
      BY <1>1, <2>2, <3>1
  <2>3. QED
    BY <1>2, <2>1, <2>2, HandledAttempts
<1>3. CASE Poll
  BY <1>3, PolledFacts DEF Poll, Lifted
<1>4. CASE ctx' = ctx
  BY <1>1, <1>4
<1>5. QED
  BY <1>2, <1>3, <1>4

\* SEC-5: the attempts are only given back by a correct key, or by a lockout
\* whose date has passed.
THEOREM AttemptsAreKept == Spec => AttemptsSurvive
<1> DEFINE P == ctx'.failed_attempts < ctx.failed_attempts =>
                  UnlockStep \/ Lifted
<1>1. IInv /\ [Next]_vars => [P]_vars
  BY AttemptsGivenBack, RequestAssumption DEF Next, Handle, Tick, vars
<1>2. QED
  BY <1>1, Invariance, PTL DEF Spec, AttemptsSurvive, Lifted
=============================================================================
