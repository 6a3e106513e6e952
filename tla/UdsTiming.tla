------------------------------ MODULE UdsTiming ------------------------------
(***************************************************************************)
(* The UDS server against real time.  The server only sees a clock that    *)
(* wraps; this module adds the time that really passes, in three history   *)
(* variables the code does not have, and the one thing the server depends  *)
(* on its caller for: how long the caller may leave it without evaluating  *)
(* the deadlines.  The ECU's main loop (src/ecu/ecu.c) calls uds_poll on   *)
(* every silent receive tick; the gateway (src/gateway/gateway_main.c)     *)
(* never calls it, so nothing bounds the gap there.                        *)
(***************************************************************************)
EXTENDS UdsServer

CONSTANT MaxPollGap   \* ticks between two evaluations of the deadlines

ASSUME GapAssumption == MaxPollGap \in Nat \ {0}

VARIABLES
  unpolled,  \* ticks since the deadlines were last evaluated
  idle,      \* ticks since the last admitted request, counted up to S3
  barredFor  \* ticks since the running lockout began, 0 without one

tvars == <<now, ctx, reply, unpolled, idle, barredFor>>

\* Past this count a lockout is overdue whatever the gap: the counter stops.
LongestBar == Lockout + MaxPollGap

AtMost(n, bound) == IF n < bound THEN n ELSE bound

TInit ==
  /\ Init
  /\ unpolled = 0 /\ idle = 0 /\ barredFor = 0

TTick ==
  /\ unpolled < MaxPollGap
  /\ Tick
  /\ unpolled' = unpolled + 1
  /\ idle' = AtMost(idle + 1, S3)
  /\ barredFor' = IF ctx.locked_out
                  THEN AtMost(barredFor + 1, LongestBar) ELSE 0

\* A lockout that goes on keeps its age; a new one starts at zero.
BarredForAfterCall ==
  barredFor' = IF ctx.locked_out /\ ctx'.locked_out THEN barredFor ELSE 0

TPoll ==
  /\ Poll
  /\ unpolled' = 0
  /\ BarredForAfterCall
  /\ UNCHANGED idle

\* Only a request the policy admits counts as activity.
Admitted(req) == req.sid \in Services /\ Allows(req.sid)

\* One request, the callback (if any) returning o.
TCall(req, o) ==
  /\ HandleRequest(req, o)
  /\ unpolled' = 0
  /\ BarredForAfterCall
  /\ idle' = IF Admitted(req) THEN 0 ELSE idle

THandle ==
  \E req \in ClientRequests : \E o \in OutcomesOf(req.sid) : TCall(req, o)

TNext == TTick \/ TPoll \/ THandle

TSpec == TInit /\ [][TNext]_tvars

\* Time passes and the caller's loop goes round: on a silent tick it polls,
\* otherwise it handles a request.  Clients need not do anything.
TFairSpec == TSpec /\ WF_tvars(TTick) /\ WF_tvars(TPoll \/ THandle)

-----------------------------------------------------------------------------

\* The history counters stay in their ranges, and so does the server.
TTypeOK ==
  /\ TypeOK
  /\ unpolled \in 0 .. MaxPollGap
  /\ idle \in 0 .. S3
  /\ barredFor \in 0 .. LongestBar

\* S3server, in real time and to the tick.  Once a session has been idle for
\* S3, the next call closes it before anything else, so that call finds
\* nothing unlocked and leaves a session open only if it is itself a session
\* request: no chain of refused requests stretches the deadline.  Until then
\* no poll touches the session or the level.
ExpiryIsExact ==
  /\ [][unpolled' = 0 /\ now' = now /\ idle = S3 =>
          /\ ctx'.security_level = "locked" /\ ~ctx'.seed_pending
          /\ ctx'.session = "default" \/ reply'.sid = "SessionControl"]_tvars
  /\ [][TPoll /\ idle < S3 =>
          /\ ctx'.session = ctx.session
          /\ ctx'.security_level = ctx.security_level]_tvars

\* The brute-force barrier, in real time: a lockout is never lifted before
\* its full delay has run.
LockoutLastsItsDelay ==
  [][ctx.locked_out /\ ~ctx'.locked_out => barredFor >= Lockout]_tvars

\* docs/security.md: the lockout "lifts on its own once the delay elapses":
\* a server still locked out after a call has a lockout younger than that.
LockoutLiftsOnTime ==
  unpolled = 0 /\ ctx.locked_out => barredFor < Lockout

\* Every lockout ends, whatever the clients send meanwhile.
LockoutEnds == ctx.locked_out ~> ~ctx.locked_out

\* A session does not stay open without admitted requests: again and again
\* it is closed or has just been used legitimately.
AbandonedSessionCloses == []<>(ctx.session = "default" \/ idle = 0)
=============================================================================
