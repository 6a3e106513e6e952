--------------------------- MODULE VirtualEcuProofs ---------------------------
(***************************************************************************)
(* The deadlines in real time, and what the virtual ECU's application owes *)
(* its server, for every clock range, deadline and poll gap that respects  *)
(* the assumption each theorem names.                                      *)
(*                                                                         *)
(* The server only sees dates.  The invariants below say what the history  *)
(* counters are in terms of those dates; they need a bound on the time the *)
(* caller leaves the deadlines alone, except for the one that a lockout    *)
(* lasts, which holds however long that is.                                *)
(***************************************************************************)
EXTENDS UdsServerProofs, VirtualEcu

CountersTyped ==
  /\ unpolled \in 0 .. MaxPollGap
  /\ idle \in 0 .. S3
  /\ barredFor \in 0 .. LongestBar

\* A young lockout's date is still ahead, by what is missing to its delay.
YoungBar ==
  ctx.locked_out /\ barredFor < Lockout =>
    Elapsed(now, ctx.lockout_until) = ClockRange + barredFor - Lockout

\* A lockout is no older than its delay and the time since the deadlines
\* were evaluated, and past the delay its date lies behind by the rest.
OldBar ==
  ctx.locked_out =>
    /\ barredFor < Lockout + unpolled
    /\ barredFor >= Lockout =>
         Elapsed(now, ctx.lockout_until) = barredFor - Lockout

\* idle is what the server sees of the silence, up to S3, and the silence
\* of an open session is no longer than S3 and the time since the deadlines
\* were evaluated.
OpenSession ==
  ctx.session # "default" =>
    /\ Elapsed(now, ctx.last_activity) < S3 + unpolled
    /\ idle = AtMost(Elapsed(now, ctx.last_activity), S3)

-----------------------------------------------------------------------------
(* The clock.                                                              *)

LEMMA ElapsedAtTick ==
  ASSUME NEW n \in Clock, NEW t \in Clock
  PROVE  Elapsed(Later(n, 1), t) =
           IF Elapsed(n, t) = ClockRange - 1 THEN 0 ELSE Elapsed(n, t) + 1
  BY ClockAssumption DEF Elapsed, Later, Clock, ClockRange

LEMMA ElapsedFresh ==
  ASSUME NEW n \in Clock
  PROVE  /\ Elapsed(n, n) = 0
         /\ Elapsed(n, Later(n, Lockout)) = ClockRange - Lockout
  BY ClockAssumption DEF Elapsed, Later, Clock, ClockRange

-----------------------------------------------------------------------------
(* What a call does to the dates.                                          *)

\* An evaluation of the deadlines keeps the dates of what it keeps.
LEMMA PolledDates ==
  ASSUME IInv
  PROVE  /\ Polled.session # "default" =>
              /\ ctx.session # "default" /\ ~SessionExpired(ctx)
              /\ Polled.last_activity = ctx.last_activity
         /\ ctx.session # "default" /\ ~SessionExpired(ctx) =>
              /\ Polled.session = ctx.session
              /\ Polled.security_level = ctx.security_level
         /\ Polled.locked_out <=> ctx.locked_out /\ ~LockoutServed(ctx)
         /\ Polled.lockout_until = ctx.lockout_until
<1> DEFINE d == LiftLockout(ctx)
<1>1. ctx \in Context
  BY DEF IInv, Sound
<1>2. /\ d.session = ctx.session /\ d.last_activity = ctx.last_activity
      /\ d.security_level = ctx.security_level
      /\ d.lockout_until = ctx.lockout_until
  BY <1>1 DEF Context, LiftLockout
<1>3. d.locked_out <=> ctx.locked_out /\ ~LockoutServed(ctx)
  BY <1>1 DEF Context, LiftLockout, LockoutServed
<1>4. d \in Context
  BY LiftLockoutSound DEF IInv, Sound
<1> HIDE DEF d
<1>5. Polled = IF SessionExpired(d) THEN FallBack(d) ELSE d
  BY DEF Polled, ExpireSession, d
<1>6. SessionExpired(d) <=> SessionExpired(ctx)
  BY <1>2 DEF SessionExpired
<1>7. /\ FallBack(d).session = "default"
      /\ FallBack(d).locked_out = d.locked_out
      /\ FallBack(d).lockout_until = d.lockout_until
  BY <1>4 DEF FallBack, Context
<1>8. /\ Polled.locked_out = d.locked_out
      /\ Polled.lockout_until = d.lockout_until
  BY <1>5, <1>7
<1>9. Polled.session # "default" => Polled = d /\ ~SessionExpired(d)
  BY <1>5, <1>7
<1>10. ~SessionExpired(d) => Polled = d
  BY <1>5
<1>11. QED
  BY <1>2, <1>3, <1>6, <1>8, <1>9, <1>10

\* The same in a session that is not open: nothing opens by itself.
LEMMA PolledClosed ==
  ASSUME IInv, ctx.session = "default"
  PROVE  Polled.session = "default"
  BY PolledDates

\* Only an admitted request touches the date of the activity, and only a
\* session request opens a session.
LEMMA CallEffect ==
  ASSUME NEW req \in Request, NEW o, HandleRequest(req, o)
  PROVE  /\ reply'.sid = req.sid
         /\ ~Admitted(req) => ctx' = Current
         /\ Admitted(req) /\ ~SecurityAccess(req) =>
              \/ ctx' \in {Refreshed, FallBack(Refreshed)}
              \/ /\ req.sid = "SessionControl"
                 /\ ctx' = [Refreshed EXCEPT !.session = "extended"]
<1>1. CASE EmptyRequest(req)
  BY <1>1 DEF EmptyRequest, Silent, Admitted, Services
<1>2. CASE UnknownService(req)
  BY <1>2 DEF UnknownService, Refuse, Admitted, Services
<1>3. CASE AccessRefused(req)
  BY <1>3 DEF AccessRefused, Refuse, Admitted
<1>4. CASE SessionControl(req)
  BY <1>4 DEF SessionControl, Dispatched, EnterSession, Services, Admitted,
              AnswerUnlessSuppressed, Answer, AnswerWith, Silent, Refuse
<1>5. CASE TesterPresent(req)
  BY <1>5 DEF TesterPresent, Dispatched, AnswerUnlessSuppressed, Answer,
              AnswerWith, Silent, Refuse, Services, Admitted
<1>6. CASE ReadData(req, o)
  BY <1>6 DEF ReadData, Dispatched, Provide, Answer, AnswerWith, Refuse,
              Services, Admitted
<1>7. CASE ReadDTC(req, o)
  BY <1>7 DEF ReadDTC, Dispatched, Provide, Answer, AnswerWith, Refuse,
              Services, Admitted
<1>8. CASE ClearDTC(req, o)
  BY <1>8 DEF ClearDTC, Dispatched, Provide, Answer, AnswerWith, Refuse,
              Services, Admitted
<1>9. CASE ECUReset(req, o)
  BY <1>9 DEF ECUReset, Dispatched, Answer, AnswerWith, Refuse, Services,
              Admitted
<1>10. CASE SecurityAccess(req)
  <2>1. Admitted(req)
    BY <1>10 DEF SecurityAccess, Dispatched, Services, Admitted
  <2>2. reply'.sid = req.sid
    BY <1>10 DEF SecurityAccess, RequestSeed, SendKey, WrongKey, Answer,
                 AnswerWith, Refuse
  <2>3. QED
    BY <1>10, <2>1, <2>2
<1>11. QED
  BY <1>1, <1>2, <1>3, <1>4, <1>5, <1>6, <1>7, <1>8, <1>9, <1>10
  DEF HandleRequest

\* The bar after a call is the one the deadlines left, with its date, or a
\* new one dated from now.
LEMMA CallBars ==
  ASSUME IInv, NEW req \in Request, NEW o, HandleRequest(req, o)
  PROVE  \/ /\ ctx'.locked_out = Polled.locked_out
            /\ ctx'.lockout_until = Polled.lockout_until
         \/ /\ ~ctx.locked_out
            /\ ctx'.locked_out => ctx'.lockout_until = Later(now, Lockout)
<1> DEFINE c == Refreshed
<1>1. /\ c \in Context /\ c.session = Polled.session
      /\ c.seed_pending = Polled.seed_pending
      /\ c.locked_out = Polled.locked_out
  BY RefreshedFields
<1>2. c.lockout_until = Polled.lockout_until
  <2>1. Current \in Context /\ Current = Polled
    BY RefreshedSound DEF IInv, Sound, Current
  <2>2. QED
    BY <2>1 DEF Refreshed, Context
<1>3. Current = Polled
  BY DEF Current
<1> HIDE DEF c
<1>4. \A d \in {c, FallBack(c), [c EXCEPT !.session = "extended"],
               [c EXCEPT !.seed_pending = FALSE], Challenge(c), Grant(c)} :
        /\ d.locked_out = Polled.locked_out
        /\ d.lockout_until = Polled.lockout_until
  BY <1>1, <1>2 DEF FallBack, Challenge, Grant, Context
<1>5. CASE ~SecurityAccess(req)
  BY <1>3, <1>4, <1>5, OrdinaryEffect DEF c
<1>6. CASE SecurityAccess(req) /\ ctx' = Bar(Strike(c)) /\ c.seed_pending
  <2>1. c.session # "default"
    BY <1>6, SecurityEffect DEF c
  <2>2. ctx.seed_pending
    BY <1>1, <1>6, <2>1, PolledFacts
  <2>3. ~ctx.locked_out
    BY <2>2 DEF IInv, Sound, Coherent
  <2>4. ~c.locked_out
    BY <1>1, <2>3, PolledDates
  <2>5. /\ Strike(c).locked_out = c.locked_out
        /\ DOMAIN Strike(c) = DOMAIN c
    BY <1>1 DEF Strike, Context
  <2> DEFINE s == Strike(c)
  <2> HIDE DEF s
  <2>6. ctx'.locked_out => ctx' = [s EXCEPT !.locked_out = TRUE,
                                     !.lockout_until = Later(now, Lockout)]
    BY <1>6, <2>4, <2>5 DEF Bar, s
  <2>7. "lockout_until" \in DOMAIN s
    BY <1>1, <2>5 DEF Context, s
  <2>8. QED
    BY <2>3, <2>6, <2>7
<1>7. QED
  BY <1>4, <1>5, <1>6, SecurityEffect DEF c

\* The session after a call: opened or refreshed now, or as it was.
LEMMA CallSessions ==
  ASSUME IInv, NEW req \in Request, NEW o, HandleRequest(req, o)
  PROVE  /\ Admitted(req) => ctx'.last_activity = now
         /\ ~Admitted(req) => ctx' = Polled
         /\ Polled.session = "default" =>
              /\ ctx'.security_level = "locked" /\ ~ctx'.seed_pending
              /\ ctx'.session = "default" \/ reply'.sid = "SessionControl"
<1> DEFINE c == Refreshed
<1>1. /\ c \in Context /\ c.session = Polled.session
      /\ c.security_level = Polled.security_level
      /\ c.seed_pending = Polled.seed_pending
  BY RefreshedFields
<1>2. c.last_activity = now
  <2>1. Current \in Context
    BY RefreshedSound DEF IInv, Sound
  <2>2. QED
    BY <2>1 DEF Refreshed, Context
<1>3. Current = Polled
  BY DEF Current
<1>4. Polled.session = "default" =>
        Polled.security_level = "locked" /\ Polled.seed_pending = FALSE
  BY <1>1, PolledFacts DEF Context
<1> HIDE DEF c
<1>5. CASE ~Admitted(req)
  BY <1>3, <1>4, <1>5, CallEffect
<1>6. CASE Admitted(req) /\ ~SecurityAccess(req)
  <2>1. CASE ctx' = c
    BY <1>1, <1>2, <1>4, <1>6, <2>1
  <2>2. CASE ctx' = FallBack(c)
    BY <1>1, <1>2, <1>6, <2>2 DEF FallBack, Context
  <2>3. CASE req.sid = "SessionControl"
             /\ ctx' = [c EXCEPT !.session = "extended"]
    <3>1. /\ ctx'.last_activity = now
          /\ ctx'.security_level = Polled.security_level
          /\ ctx'.seed_pending = Polled.seed_pending
      BY <1>1, <1>2, <2>3 DEF Context
    <3>2. QED
      BY <1>4, <1>6, <2>3, <3>1, CallEffect
  <2>4. QED
    BY <1>6, <2>1, <2>2, <2>3, CallEffect DEF c
<1>7. CASE Admitted(req) /\ SecurityAccess(req)
  <2>1. c.session # "default"
    BY <1>7, SecurityEffect DEF c
  <2>2. \A d \in {c, [c EXCEPT !.seed_pending = FALSE], Challenge(c),
                  Grant(c), Strike(c)} : d.last_activity = now
    BY <1>1, <1>2 DEF Challenge, Grant, Strike, Context
  <2>3. Bar(Strike(c)).last_activity = now
    <3> DEFINE s == Strike(c)
    <3>1. DOMAIN s = DOMAIN c /\ s = [x \in DOMAIN s |-> s[x]]
      BY <1>1 DEF Strike, Context
    <3>2. "last_activity" \in DOMAIN s
      BY <1>1, <3>1 DEF Context
    <3> HIDE DEF s
    <3>3. s.last_activity = now
      BY <2>2 DEF s
    <3>4. [s EXCEPT !.locked_out = TRUE,
             !.lockout_until = Later(now, Lockout)].last_activity = now
      BY <3>2, <3>3
    <3>5. QED
      BY <3>3, <3>4 DEF Bar, s
  <2>4. ctx'.last_activity = now
    BY <1>7, <2>2, <2>3, SecurityEffect DEF c
  <2>5. QED
    BY <1>1, <1>7, <2>1, <2>4
<1>8. QED
  BY <1>5, <1>6, <1>7

-----------------------------------------------------------------------------
(* The counters against the dates.                                         *)

\* A call, whatever it was: a request, or a look at the deadlines.
Call ==
  /\ unpolled' = 0 /\ now' = now
  /\ BarredForAfterCall
  /\ \/ Poll /\ idle' = idle
     \/ \E req \in Request : \E o :
          /\ HandleRequest(req, o)
          /\ idle' = IF Admitted(req) THEN 0 ELSE idle

LEMMA StepsAreCalls ==
  ASSUME [TNext]_tvars
  PROVE  TTick \/ Call \/ UNCHANGED tvars
<1>1. ASSUME NEW req \in ClientRequests, NEW o, TCall(req, o)
      PROVE  Call
  <2>1. now' = now
    BY <1>1 DEF TCall, HandleRequest, EmptyRequest, UnknownService,
                AccessRefused, SessionControl, TesterPresent, ReadData,
                ReadDTC, ClearDTC, ECUReset, SecurityAccess, Dispatched
  <2>2. QED
    BY <1>1, <2>1, RequestAssumption DEF TCall, Call
<1>2. TPoll => Call
  BY DEF TPoll, Poll, Call
<1>3. QED
  BY <1>1, <1>2 DEF TNext, THandle

\* The bar a call leaves is the one it found, not due, or a new one.
LEMMA CallKeepsBar ==
  ASSUME IInv, Call, ctx'.locked_out
  PROVE  \/ /\ ctx.locked_out /\ ~LockoutServed(ctx)
            /\ ctx'.lockout_until = ctx.lockout_until
            /\ barredFor' = barredFor
         \/ /\ ctx'.lockout_until = Later(now, Lockout)
            /\ barredFor' = 0
<1>1. CASE Poll
  BY <1>1, PolledDates DEF Poll, Call, BarredForAfterCall
<1>2. ASSUME NEW req \in Request, NEW o, HandleRequest(req, o)
      PROVE  \/ /\ ctx.locked_out /\ ~LockoutServed(ctx)
                /\ ctx'.lockout_until = ctx.lockout_until
                /\ barredFor' = barredFor
             \/ /\ ctx'.lockout_until = Later(now, Lockout)
                /\ barredFor' = 0
  BY <1>2, CallBars, PolledDates DEF Call, BarredForAfterCall
<1>3. QED
  BY <1>1, <1>2 DEF Call

LEMMA Typed ==
  ASSUME IInv
  PROVE  /\ now \in Clock
         /\ ctx.lockout_until \in Clock /\ ctx.last_activity \in Clock
         /\ Elapsed(now, ctx.lockout_until) \in 0 .. ClockRange - 1
         /\ Elapsed(now, ctx.last_activity) \in 0 .. ClockRange - 1
         /\ ClockRange \in Nat
<1>1. /\ now \in Clock
      /\ ctx.lockout_until \in Clock /\ ctx.last_activity \in Clock
  BY DEF IInv, Sound, Context
<1>2. ClockRange \in Nat
  BY ClockAssumption DEF ClockRange
<1>3. QED
  BY <1>1, <1>2, ElapsedIsADelay

LEMMA CountersStep ==
  ASSUME CountersTyped, [TNext]_tvars
  PROVE  CountersTyped'
<1>1. CASE TTick
  BY <1>1, ClockAssumption, GapAssumption
  DEF TTick, CountersTyped, AtMost, LongestBar
<1>2. CASE Call
  BY <1>2, ClockAssumption, GapAssumption
  DEF Call, CountersTyped, BarredForAfterCall, LongestBar
<1>3. CASE UNCHANGED tvars
  BY <1>3 DEF tvars, CountersTyped
<1>4. QED
  BY <1>1, <1>2, <1>3, StepsAreCalls

LEMMA YoungBarStep ==
  ASSUME IInv, CountersTyped, YoungBar, [TNext]_tvars
  PROVE  YoungBar'
<1>1. CASE TTick
  <2>1. now' = Later(now, 1) /\ ctx' = ctx
    BY <1>1 DEF TTick, Tick
  <2>2. ctx.locked_out => barredFor' = AtMost(barredFor + 1, LongestBar)
    BY <1>1 DEF TTick
  <2>3. Elapsed(now', ctx.lockout_until) =
          IF Elapsed(now, ctx.lockout_until) = ClockRange - 1 THEN 0
          ELSE Elapsed(now, ctx.lockout_until) + 1
    BY <2>1, Typed, ElapsedAtTick
  <2>4. ASSUME ctx.locked_out, barredFor' < Lockout
        PROVE  Elapsed(now', ctx.lockout_until)
                 = ClockRange + barredFor' - Lockout
    <3>1. barredFor' = barredFor + 1 /\ barredFor \in Nat
      BY <2>2, <2>4, ClockAssumption, GapAssumption
      DEF CountersTyped, AtMost, LongestBar
    <3>2. Elapsed(now, ctx.lockout_until) = ClockRange + barredFor - Lockout
      BY <2>4, <3>1, ClockAssumption DEF YoungBar
    <3>3. QED
      BY <2>3, <2>4, <3>1, <3>2, Typed, ClockAssumption
  <2>5. QED
    BY <2>1, <2>4 DEF YoungBar
<1>2. CASE Call
  <2>1. now' = now
    BY <1>2 DEF Call
  <2>2. Elapsed(now, Later(now, Lockout)) = ClockRange + 0 - Lockout
    BY Typed, ElapsedFresh, ClockAssumption
  <2>3. QED
    BY <1>2, <2>1, <2>2, CallKeepsBar DEF YoungBar
<1>3. CASE UNCHANGED tvars
  BY <1>3 DEF tvars, YoungBar
<1>4. QED
  BY <1>1, <1>2, <1>3, StepsAreCalls

LEMMA OldBarStep ==
  ASSUME MaxPollGap <= HalfRange,
         IInv, CountersTyped, YoungBar, OldBar, [TNext]_tvars
  PROVE  OldBar'
<1>1. CASE TTick
  <2>1. /\ now' = Later(now, 1) /\ ctx' = ctx
        /\ unpolled < MaxPollGap /\ unpolled' = unpolled + 1
    BY <1>1 DEF TTick, Tick
  <2>2. ctx.locked_out => barredFor' = AtMost(barredFor + 1, LongestBar)
    BY <1>1 DEF TTick
  <2>3. Elapsed(now', ctx.lockout_until) =
          IF Elapsed(now, ctx.lockout_until) = ClockRange - 1 THEN 0
          ELSE Elapsed(now, ctx.lockout_until) + 1
    BY <2>1, Typed, ElapsedAtTick
  <2>4. ASSUME ctx.locked_out
        PROVE  /\ barredFor' < Lockout + unpolled'
               /\ barredFor' >= Lockout =>
                    Elapsed(now', ctx.lockout_until) = barredFor' - Lockout
    <3>1. barredFor < Lockout + unpolled
      BY <2>4 DEF OldBar
    <3>2. barredFor \in Nat /\ unpolled \in Nat
      BY GapAssumption, ClockAssumption DEF CountersTyped, LongestBar
    <3>3. barredFor' = barredFor + 1
      BY <2>1, <2>2, <2>4, <3>1, <3>2, ClockAssumption, GapAssumption
      DEF AtMost, LongestBar
    <3>4. barredFor < Lockout =>
            Elapsed(now, ctx.lockout_until) = ClockRange + barredFor - Lockout
      BY <2>4 DEF YoungBar
    <3>5. barredFor >= Lockout =>
            Elapsed(now, ctx.lockout_until) = barredFor - Lockout
      BY <2>4 DEF OldBar
    <3>6. ClockRange = 2 * HalfRange
      BY DEF ClockRange
    <3>7. CASE barredFor >= Lockout
      <4>1. barredFor - Lockout < ClockRange - 1
        BY <2>1, <3>1, <3>2, <3>6, ClockAssumption, GapAssumption
      <4>2. QED
        BY <2>1, <2>3, <3>1, <3>2, <3>3, <3>5, <3>7, <4>1, Typed,
           ClockAssumption
    <3>8. CASE barredFor < Lockout
      BY <2>1, <2>3, <3>1, <3>2, <3>3, <3>4, <3>8, Typed, ClockAssumption
    <3>9. QED
      BY <3>2, <3>7, <3>8, ClockAssumption
  <2>5. QED
    BY <2>1, <2>4 DEF OldBar
<1>2. CASE Call
  <2>1. now' = now /\ unpolled' = 0
    BY <1>2 DEF Call
  <2>2. barredFor \in Nat /\ unpolled \in 0 .. MaxPollGap
    BY GapAssumption, ClockAssumption DEF CountersTyped, LongestBar
  <2>3. ASSUME ctx.locked_out, ~LockoutServed(ctx)
        PROVE  barredFor < Lockout
    <3>1. ~(Elapsed(now, ctx.lockout_until) < HalfRange)
      BY <2>3 DEF LockoutServed
    <3>2. barredFor >= Lockout => barredFor - Lockout < HalfRange
      BY <2>2, <2>3, ClockAssumption, GapAssumption DEF OldBar
    <3>3. QED
      BY <2>2, <2>3, <3>1, <3>2, ClockAssumption DEF OldBar
  <2>4. ASSUME ctx'.locked_out
        PROVE  barredFor' < Lockout
    BY <1>2, <2>3, <2>4, CallKeepsBar, ClockAssumption
  <2>5. barredFor' \in Nat
    BY <1>2, <2>2 DEF Call, BarredForAfterCall
  <2>6. QED
    BY <2>1, <2>4, <2>5, ClockAssumption DEF OldBar
<1>3. CASE UNCHANGED tvars
  BY <1>3 DEF tvars, OldBar
<1>4. QED
  BY <1>1, <1>2, <1>3, StepsAreCalls

LEMMA OpenSessionStep ==
  ASSUME S3 + MaxPollGap <= ClockRange,
         IInv, CountersTyped, OpenSession, [TNext]_tvars
  PROVE  OpenSession'
<1> DEFINE e == Elapsed(now, ctx.last_activity)
<1>0. e \in 0 .. ClockRange - 1 /\ unpolled \in Nat /\ ClockRange \in Nat
  BY Typed, GapAssumption DEF CountersTyped
<1>1. CASE TTick
  <2>1. /\ now' = Later(now, 1) /\ ctx' = ctx
        /\ unpolled < MaxPollGap /\ unpolled' = unpolled + 1
        /\ idle' = AtMost(idle + 1, S3)
    BY <1>1 DEF TTick, Tick
  <2>2. Elapsed(now', ctx.last_activity) =
          IF e = ClockRange - 1 THEN 0 ELSE e + 1
    BY <2>1, Typed, ElapsedAtTick
  <2>3. ASSUME ctx.session # "default"
        PROVE  /\ Elapsed(now', ctx.last_activity) < S3 + unpolled'
               /\ idle' = AtMost(Elapsed(now', ctx.last_activity), S3)
    <3>1. e < S3 + unpolled /\ idle = AtMost(e, S3)
      BY <2>3 DEF OpenSession
    <3> HIDE DEF e
    <3>2. e + 1 < ClockRange
      BY <1>0, <2>1, <3>1, ClockAssumption, GapAssumption
    <3>3. Elapsed(now', ctx.last_activity) = e + 1
      BY <1>0, <2>2, <3>2
    <3>4. QED
      BY <1>0, <2>1, <3>1, <3>3, ClockAssumption, GapAssumption DEF AtMost
  <2>4. QED
    BY <2>1, <2>3 DEF OpenSession
<1>2. ASSUME Call, Poll, idle' = idle
      PROVE  OpenSession'
  <2>1. now' = now /\ unpolled' = 0 /\ ctx' = Polled
    BY <1>2 DEF Call, Poll
  <2>2. Polled.session # "default" =>
          /\ ctx.session # "default" /\ ~(e >= S3)
          /\ Polled.last_activity = ctx.last_activity
    BY PolledDates DEF SessionExpired
  <2>3. QED
    BY <1>0, <1>2, <2>1, <2>2, ClockAssumption DEF OpenSession
<1>3. ASSUME Call, NEW req \in Request, NEW o, HandleRequest(req, o),
             idle' = IF Admitted(req) THEN 0 ELSE idle
      PROVE  OpenSession'
  <2>1. now' = now /\ unpolled' = 0
    BY <1>3 DEF Call
  <2>2. CASE Admitted(req)
    <3>1. ctx'.last_activity = now /\ idle' = 0
      BY <1>3, <2>2, CallSessions
    <3>2. Elapsed(now, now) = 0
      BY Typed, ElapsedFresh
    <3>3. QED
      BY <2>1, <3>1, <3>2, ClockAssumption DEF OpenSession, AtMost
  <2>3. CASE ~Admitted(req)
    <3>1. ctx' = Polled /\ idle' = idle
      BY <1>3, <2>3, CallSessions
    <3>2. Polled.session # "default" =>
            /\ ctx.session # "default" /\ ~(e >= S3)
            /\ Polled.last_activity = ctx.last_activity
      BY PolledDates DEF SessionExpired
    <3>3. QED
      BY <1>0, <2>1, <3>1, <3>2, ClockAssumption DEF OpenSession
  <2>4. QED
    BY <2>2, <2>3
<1>4. CASE UNCHANGED tvars
  BY <1>4 DEF tvars, OpenSession
<1>5. QED
  BY <1>1, <1>2, <1>3, <1>4, StepsAreCalls DEF Call

-----------------------------------------------------------------------------
(* The theorems about the server in real time.                             *)

LEMMA TimedSteps == [TNext]_tvars => [Next]_vars
  BY DEF TNext, TTick, TPoll, THandle, TCall, Next, Handle, tvars, vars

\* The server's invariant holds in real time too.
LEMMA TimedInvariance == TSpec => []IInv
  BY InitSound, NextSound, TimedSteps, PTL DEF TSpec, TInit

LEMMA TimedInit ==
  TInit => CountersTyped /\ YoungBar /\ OldBar /\ OpenSession
<1> SUFFICES ASSUME TInit
             PROVE  CountersTyped /\ YoungBar /\ OldBar /\ OpenSession
  OBVIOUS
<1>1. unpolled = 0 /\ idle = 0 /\ barredFor = 0
  BY DEF TInit
<1>2. ctx.session = "default" /\ ctx.locked_out = FALSE
  BY DEF TInit, Init
<1>3. CountersTyped
  BY <1>1, ClockAssumption, GapAssumption DEF CountersTyped, LongestBar
<1>4. QED
  BY <1>2, <1>3 DEF YoungBar, OldBar, OpenSession

LEMMA BarsAreDated == TSpec => [](IInv /\ CountersTyped /\ YoungBar)
<1>1. IInv /\ CountersTyped /\ YoungBar /\ [TNext]_tvars
        => CountersTyped' /\ YoungBar'
  BY CountersStep, YoungBarStep
<1>2. QED
  BY <1>1, TimedInit, TimedInvariance, PTL DEF TSpec

\* The brute-force barrier: a lockout is never lifted before its full delay
\* has run, however the clock wraps and however seldom it is looked at.
THEOREM LockoutsLast == TSpec => LockoutLastsItsDelay
<1> DEFINE I == IInv /\ CountersTyped /\ YoungBar
           P == ctx.locked_out /\ ~ctx'.locked_out => barredFor >= Lockout
<1>1. ASSUME I, Call, ctx.locked_out, ~ctx'.locked_out
      PROVE  barredFor >= Lockout
  <2>1. LockoutServed(ctx)
    <3>1. CASE Poll
      BY <1>1, <3>1, PolledDates DEF Poll
    <3>2. CASE \E req \in Request : \E o : HandleRequest(req, o)
      BY <1>1, <3>2, PolledDates, CallBars
    <3>3. QED
      BY <1>1, <3>1, <3>2 DEF Call
  <2>2. Elapsed(now, ctx.lockout_until) < HalfRange
    BY <2>1 DEF LockoutServed
  <2>3. barredFor \in Nat
    BY <1>1, ClockAssumption, GapAssumption DEF CountersTyped, LongestBar
  <2>4. ~(barredFor < Lockout)
    BY <1>1, <2>2, <2>3, ClockAssumption DEF YoungBar, ClockRange
  <2>5. QED
    BY <2>3, <2>4, ClockAssumption
<1>2. TTick \/ UNCHANGED tvars => ctx' = ctx
  BY DEF TTick, Tick, tvars
<1>3. I /\ [TNext]_tvars => [P]_tvars
  BY <1>1, <1>2, StepsAreCalls
<1>4. QED
  BY <1>3, BarsAreDated, PTL DEF TSpec, LockoutLastsItsDelay

\* The lockout lifts on its own once the delay elapses, as long as the
\* deadlines are looked at twice in a period of the clock.
THEOREM LockoutsLift ==
  ASSUME MaxPollGap <= HalfRange
  PROVE  TSpec => []LockoutLiftsOnTime
<1>1. IInv /\ CountersTyped /\ YoungBar /\ OldBar /\ [TNext]_tvars => OldBar'
  BY OldBarStep
<1>2. CountersTyped /\ OldBar => LockoutLiftsOnTime
  BY ClockAssumption, GapAssumption
  DEF OldBar, LockoutLiftsOnTime, CountersTyped, LongestBar
<1>3. QED
  BY <1>1, <1>2, TimedInit, BarsAreDated, PTL DEF TSpec

LEMMA SessionsAreDated ==
  ASSUME S3 + MaxPollGap <= ClockRange
  PROVE  TSpec => [](IInv /\ CountersTyped /\ OpenSession)
<1>1. IInv /\ CountersTyped /\ OpenSession /\ [TNext]_tvars
        => CountersTyped' /\ OpenSession'
  BY CountersStep, OpenSessionStep
<1>2. QED
  BY <1>1, TimedInit, TimedInvariance, PTL DEF TSpec

\* S3server, to the tick: the first call after it closes the session before
\* anything else, and no look at the deadlines closes it sooner.
THEOREM SessionsExpireExactly ==
  ASSUME S3 + MaxPollGap <= ClockRange
  PROVE  TSpec => ExpiryIsExact
<1> DEFINE I == IInv /\ CountersTyped /\ OpenSession
           P == unpolled' = 0 /\ now' = now /\ idle = S3 =>
                  /\ ctx'.security_level = "locked" /\ ~ctx'.seed_pending
                  /\ ctx'.session = "default" \/ reply'.sid = "SessionControl"
           Q == TPoll /\ idle < S3 =>
                  /\ ctx'.session = ctx.session
                  /\ ctx'.security_level = ctx.security_level
<1>1. ASSUME I, ctx.session # "default"
      PROVE  idle = S3 <=> SessionExpired(ctx)
  BY <1>1, Typed, ClockAssumption DEF OpenSession, SessionExpired, AtMost
<1>2. ASSUME I, idle = S3
      PROVE  Polled.session = "default"
  BY <1>1, <1>2, PolledDates
<1>3. ASSUME I, Call, idle = S3
      PROVE  P
  <2>1. CASE Poll
    BY <1>2, <1>3, <2>1, PolledFacts DEF Poll
  <2>2. CASE \E req \in Request : \E o : HandleRequest(req, o)
    BY <1>2, <1>3, <2>2, CallSessions
  <2>3. QED
    BY <1>3, <2>1, <2>2 DEF Call
<1>4. ASSUME I, TTick
      PROVE  P
  <2>1. unpolled' = unpolled + 1 /\ unpolled \in Nat
    BY <1>4, GapAssumption DEF TTick, CountersTyped
  <2>2. QED
    BY <2>1
<1>5. ASSUME I, TPoll, idle < S3
      PROVE  /\ ctx'.session = ctx.session
             /\ ctx'.security_level = ctx.security_level
  <2>1. ctx' = Polled /\ idle # S3
    BY <1>5, ClockAssumption DEF TPoll, Poll, CountersTyped
  <2>2. CASE ctx.session # "default"
    BY <1>1, <1>5, <2>1, <2>2, PolledDates
  <2>3. CASE ctx.session = "default"
    BY <1>5, <2>1, <2>3, PolledClosed, PolledFacts
    DEF IInv, Sound, Coherent
  <2>4. QED
    BY <2>2, <2>3
<1>6. I /\ [TNext]_tvars => [P]_tvars
  BY <1>3, <1>4, StepsAreCalls
<1>7. I /\ [TNext]_tvars => [Q]_tvars
  BY <1>5
<1>8. QED
  BY <1>6, <1>7, SessionsAreDated, PTL DEF TSpec, ExpiryIsExact

-----------------------------------------------------------------------------
(* The ECU's loop and its application.                                     *)

\* What the ECU's loop does to its server is what any caller within the gap
\* may do.
LEMMA LoopSteps ==
  ASSUME [EcuNext]_evars
  PROVE  [TNext]_tvars
<1>1. ASSUME NEW req, NEW group, NEW known
      PROVE  Outcome(req, group, known) \in OutcomesOf(req.sid)
  BY DEF Outcome, OutcomesOf, Outcomes
<1>2. HandleOne => THandle
  BY <1>1 DEF HandleOne, THandle
<1>3. QED
  BY <1>2 DEF EcuNext, SilentTick, TimePasses, TNext, evars

\* The ECU's loop implements the timed server: the theorems above are about
\* the ECU too.
THEOREM EcuIsTimed == EcuSpec => TSpec
  BY LoopSteps, PTL DEF EcuSpec, EcuInit, TSpec

\* The application is a record of its three fields, its faults a function.
Wellformed ==
  /\ data = [tick |-> data.tick, faults |-> data.faults,
             resets |-> data.resets]
  /\ data.faults \in [Faults -> {"clear", "confirmed", "failing"}]

LEMMA TickedForm ==
  ASSUME Wellformed
  PROVE  /\ Ticked(data) = [tick |-> Ticked(data).tick,
                            faults |-> Ticked(data).faults,
                            resets |-> data.resets]
         /\ Ticked(data).faults \in
              [Faults -> {"clear", "confirmed", "failing"}]
         /\ \A f \in Faults : data.faults[f] # "clear" =>
              Ticked(data).faults[f] = data.faults[f]
<1> DEFINE u == IF /\ (data.tick + 1) % TickRange \in LowBattery
                  /\ data.faults["undervoltage"] = "clear"
               THEN "failing" ELSE data.faults["undervoltage"]
           t == (data.tick + 1) % TickRange
           g == [data.faults EXCEPT !["undervoltage"] = u]
<1>1. Ticked(data) = [tick |-> t, faults |-> g, resets |-> data.resets]
  <2>1. Ticked(data) = [data EXCEPT !.tick = t, !.faults = g]
    BY DEF Ticked
  <2>2. \A d, f, r, v, w :
          d = [tick |-> v, faults |-> f, resets |-> r] =>
            [d EXCEPT !.tick = w] = [tick |-> w, faults |-> f, resets |-> r]
    OBVIOUS
  <2>3. \A d, f, r, v, w :
          d = [tick |-> v, faults |-> f, resets |-> r] =>
            [d EXCEPT !.faults = w] = [tick |-> v, faults |-> w, resets |-> r]
    OBVIOUS
  <2>4. [data EXCEPT !.tick = t, !.faults = g]
          = [[data EXCEPT !.tick = t] EXCEPT !.faults = g]
    BY DEF Wellformed
  <2> HIDE DEF t, g
  <2>5. QED
    BY <2>1, <2>2, <2>3, <2>4 DEF Wellformed
<1>2. u \in {"clear", "confirmed", "failing"}
  BY DEF Wellformed, Faults
<1>3. data.faults["undervoltage"] # "clear" =>
        u = data.faults["undervoltage"]
  OBVIOUS
<1> HIDE DEF u, t
<1>4. /\ g \in [Faults -> {"clear", "confirmed", "failing"}]
      /\ \A f \in Faults : data.faults[f] # "clear" => g[f] = data.faults[f]
  BY <1>2, <1>3 DEF Wellformed, Faults
<1> HIDE DEF g
<1>5. QED
  BY <1>1, <1>4

\* Naming no fault of the memory clears nothing; naming one keeps the form.
LEMMA ClearedForm ==
  ASSUME Wellformed, NEW group
  PROVE  LET d == Cleared(Ticked(data), group) IN
         /\ d = [tick |-> d.tick, faults |-> d.faults, resets |-> d.resets]
         /\ d.faults \in [Faults -> {"clear", "confirmed", "failing"}]
         /\ group = "unknown" => d = Ticked(data)
<1> DEFINE t == Ticked(data)
<1>1. /\ t = [tick |-> t.tick, faults |-> t.faults, resets |-> data.resets]
      /\ t.faults \in [Faults -> {"clear", "confirmed", "failing"}]
  BY TickedForm
<1> HIDE DEF t
<1>2. group = "unknown" =>
        [f \in Faults |-> IF group \in {f, "all"} THEN "clear"
                          ELSE t.faults[f]] = t.faults
  BY <1>1 DEF Faults
<1>3. Cleared(t, group) =
        [tick |-> t.tick,
         faults |-> [f \in Faults |-> IF group \in {f, "all"} THEN "clear"
                                      ELSE t.faults[f]],
         resets |-> data.resets]
  BY <1>1 DEF Cleared
<1>4. [f \in Faults |-> IF group \in {f, "all"} THEN "clear"
                        ELSE t.faults[f]]
        \in [Faults -> {"clear", "confirmed", "failing"}]
  BY <1>1
<1>5. QED
  BY <1>1, <1>2, <1>3, <1>4 DEF t

LEMMA PowerUpForm ==
  /\ PowerUp = [tick |-> PowerUp.tick, faults |-> PowerUp.faults,
                resets |-> PowerUp.resets]
  /\ PowerUp.faults \in [Faults -> {"clear", "confirmed", "failing"}]
  BY DEF PowerUp, Faults

LEMMA ApplicationStep ==
  ASSUME Wellformed, [EcuNext]_evars
  PROVE  Wellformed'
<1>1. ASSUME NEW req, NEW group, data' = Effect(Ticked(data), req, group)
      PROVE  Wellformed'
  <2>1. CASE req.sid = "ECUReset"
    <3>1. data' = Restarted(Ticked(data))
      BY <1>1, <2>1 DEF Effect
    <3>2. QED
      BY <3>1, PowerUpForm DEF Restarted, Wellformed
  <2>2. CASE req.sid # "ECUReset"
    <3>1. data' = Cleared(Ticked(data), group)
      BY <1>1, <2>2 DEF Effect
    <3>2. QED
      BY <3>1, ClearedForm DEF Wellformed
  <2>3. QED
    BY <2>1, <2>2
<1>2. ASSUME data' = Ticked(data)
      PROVE  Wellformed'
  BY <1>2, TickedForm DEF Wellformed
<1>3. HandleOne => Wellformed'
  BY <1>1, <1>2 DEF HandleOne
<1>4. data' = data => Wellformed'
  BY DEF Wellformed
<1>5. QED
  BY <1>3, <1>4 DEF EcuNext, SilentTick, TimePasses, evars

\* A request that gets as far as the callback is answered by what the
\* callback returns, whatever the layers before it thought of it.
LEMMA CalledAnswers ==
  ASSUME NEW req, NEW o, HandleRequest(req, o), Called(req)
  PROVE  /\ reply'.sid = req.sid
         /\ o = "ok" => reply'.kind = "positive"
         /\ reply'.kind \in {"positive", "negative"}
<1>1. CASE req.sid = "ClearDTC"
  <2>1. ClearDTC(req, o)
    BY <1>1 DEF HandleRequest, EmptyRequest, UnknownService, AccessRefused,
       SessionControl, TesterPresent, ReadData, ReadDTC, ECUReset,
       SecurityAccess, Dispatched, Called
  <2>2. QED
    BY <2>1, <1>1 DEF ClearDTC, Called, Provide, Answer, AnswerWith, Refuse
<1>2. CASE req.sid = "ECUReset"
  <2>1. ECUReset(req, o)
    BY <1>2 DEF HandleRequest, EmptyRequest, UnknownService, AccessRefused,
       SessionControl, TesterPresent, ReadData, ReadDTC, ClearDTC,
       SecurityAccess, Dispatched, Called
  <2>2. QED
    BY <2>1, <1>2 DEF ECUReset, Called, Answer, AnswerWith, Refuse
<1>3. QED
  BY <1>1, <1>2 DEF Called

\* Whoever gets that far holds, now and for real, what the policy asks.
LEMMA CalledHolds ==
  ASSUME IInv, CountersTyped, OpenSession, NEW req, Called(req)
  PROVE  /\ ctx.session = "extended" /\ idle < S3
         /\ req.sid = "ECUReset" => ctx.security_level = "level1"
<1>1. /\ Polled.session # "default"
      /\ req.sid = "ECUReset" => Polled.security_level # "locked"
  BY DEF Called, Allows, NeedsExtended, NeedsUnlock, Current
<1>2. /\ ctx.session = "extended" /\ Elapsed(now, ctx.last_activity) < S3
      /\ req.sid = "ECUReset" => ctx.security_level # "locked"
  BY <1>1, PolledFacts
<1>3. ctx.security_level \in {"locked", "level1"}
  BY DEF IInv, Sound, Context
<1>4. idle < S3
  BY <1>2, Typed, ClockAssumption DEF OpenSession, AtMost
<1>5. QED
  BY <1>2, <1>3, <1>4

\* SEC-1: a refused request leaves the application as a request for nothing
\* would, and a stored fault disappears only for a client entitled to it.
THEOREM ApplicationIsGuarded ==
  ASSUME S3 + MaxPollGap <= ClockRange
  PROVE  EcuSpec => ApplicationChangesOnPurpose
<1> DEFINE I == IInv /\ CountersTyped /\ OpenSession /\ Wellformed
           P == reply'.kind = "negative" => data' = Ticked(data)
           Q == \A f \in Faults :
                  data.faults[f] # "clear" /\ data'.faults[f] = "clear" =>
                    /\ ctx.session = "extended" /\ idle < S3
                    /\ reply'.kind = "positive"
                    /\ \/ reply'.sid = "ClearDTC"
                       \/ /\ reply'.sid = "ECUReset"
                          /\ ctx.security_level = "level1"
<1>1. ASSUME I, NEW req, NEW group, NEW known,
             HandleRequest(req, Outcome(req, group, known)),
             Called(req), data' = Effect(Ticked(data), req, group)
      PROVE  P /\ Q
  <2>1. CASE req.sid = "ClearDTC" /\ group = "unknown"
    <3>1. data' = Ticked(data)
      BY <1>1, <2>1, ClearedForm DEF Effect
    <3>2. QED
      BY <1>1, <3>1, TickedForm
  <2>2. CASE ~(req.sid = "ClearDTC" /\ group = "unknown")
    <3>1. Outcome(req, group, known) = "ok"
      BY <1>1, <2>2 DEF Outcome, Called
    <3>2. reply'.sid = req.sid /\ reply'.kind = "positive"
      BY <1>1, <3>1, CalledAnswers
    <3>3. QED
      BY <1>1, <3>2, CalledHolds DEF Called
  <2>3. QED
    BY <2>1, <2>2
<1>2. ASSUME I, data' = Ticked(data)
      PROVE  P /\ Q
  BY <1>2, TickedForm
<1>3. ASSUME I, HandleOne
      PROVE  P /\ Q
  BY <1>1, <1>2, <1>3 DEF HandleOne, TCall
<1>4. ASSUME SilentTick \/ TimePasses
      PROVE  P /\ Q
  <2>1. data' = data /\ reply' = NoReply
    BY <1>4 DEF SilentTick, TimePasses, TPoll, Poll, TTick, Tick
  <2>2. QED
    BY <2>1 DEF NoReply
<1>5. I /\ [EcuNext]_evars => [P]_evars /\ [Q]_evars
  BY <1>3, <1>4 DEF EcuNext
<1>6. EcuSpec => []I
  <2>1. EcuInit => Wellformed
    BY PowerUpForm DEF EcuInit, Wellformed
  <2>2. Wellformed /\ [EcuNext]_evars => Wellformed'
    BY ApplicationStep
  <2>3. QED
    BY <2>1, <2>2, EcuIsTimed, SessionsAreDated, PTL DEF EcuSpec
<1>7. QED
  BY <1>5, <1>6, PTL DEF EcuSpec, ApplicationChangesOnPurpose
=============================================================================
