------------------------------ MODULE UdsServer ------------------------------
(***************************************************************************)
(* The hardened UDS server of src/uds/uds.c: one diagnostic context, the   *)
(* access policy table, the seven service handlers and the two deadlines   *)
(* (S3server and the anti-brute-force lockout).                            *)
(*                                                                         *)
(* The server is a passive library.  Its caller gives it the date of each  *)
(* call, read from a 32-bit millisecond clock, so the model owns a clock   *)
(* that wraps (now) and lets it advance between any two calls.  One call   *)
(* of uds_handle_request is one step: the deadlines are evaluated, the     *)
(* access rules applied, the handler run and the answer produced, all      *)
(* before the caller regains control.                                      *)
(*                                                                         *)
(* Payload bytes are abstracted to what the code branches on: the service, *)
(* whether the request is shorter than two bytes, exactly as long as the   *)
(* handler demands, or neither, the sub-function, its suppress bit, and    *)
(* the key.  Everything the application supplies (data identifiers, fault  *)
(* memory, the reset itself) is one of the outcomes its callback can have. *)
(***************************************************************************)
EXTENDS Integers, FiniteSets

CONSTANTS
  HalfRange,      \* half the period of the clock, 2^31 in the code
  S3,             \* UDS_S3_SERVER_TIMEOUT_MS
  Lockout,        \* UDS_SECURITY_LOCKOUT_MS
  MaxAttempts,    \* UDS_SECURITY_MAX_ATTEMPTS
  GenStates,      \* the states of the seed generator
  Seeds,          \* the seeds it can draw, ZeroSeed included
  Keys,           \* the keys a client can present
  ZeroSeed,       \* the seed whose four bytes are all zero
  Step,           \* next_seed's transition (its congruential step)
  SeedOf,         \* next_seed's output for a generator state
  KeyOf,          \* uds_demo_key_from_seed
  ClientRequests  \* the requests that can arrive

Services == {"SessionControl", "TesterPresent", "ReadData", "ReadDTC",
             "SecurityAccess", "ClearDTC", "ECUReset"}

\* A request without a single byte has no service at all; "unknown" is any
\* service identifier outside the table.
Request ==
  [sid      : Services \cup {"empty", "unknown"},
   size     : {"short", "exact", "long"},
   sub      : 0..3,
   suppress : BOOLEAN,
   key      : Keys]

ASSUME ClockAssumption ==
  /\ HalfRange \in Nat \ {0}
  /\ S3 \in Nat \ {0}
  /\ Lockout \in Nat \ {0}
  /\ S3 < 2 * HalfRange
  /\ Lockout < HalfRange

ASSUME SecurityAssumption ==
  /\ MaxAttempts \in Nat \ {0}
  /\ ZeroSeed \in Seeds
  /\ Step \in [GenStates -> GenStates]
  /\ SeedOf \in [GenStates -> Seeds]
  /\ KeyOf \in [Seeds -> Keys]

ASSUME RequestAssumption == ClientRequests \subseteq Request

VARIABLES
  now,    \* what the monotonic millisecond clock reads
  ctx,    \* uds_context_t
  reply   \* what the last call left in the response buffer

vars == <<now, ctx, reply>>

-----------------------------------------------------------------------------
(* The clock: 32-bit unsigned arithmetic, written without a division so    *)
(* that both operands stay in range.                                       *)

ClockRange == 2 * HalfRange
Clock == 0 .. ClockRange - 1

\* Unsigned subtraction: the ticks from date t to date n.
Elapsed(n, t) == IF n >= t THEN n - t ELSE n + ClockRange - t

\* A date computed in a type wider than the clock.
LaterUnwrapped(t, d) == t + d

\* Unsigned addition of a delay to a date.
Later(t, d) == IF t + d < ClockRange THEN t + d ELSE t + d - ClockRange

-----------------------------------------------------------------------------
(* Contexts, answers and the vocabulary of refusals.                       *)

Context ==
  [session         : {"default", "extended"},
   security_level  : {"locked", "level1"},
   last_activity   : Clock,
   current_seed    : Seeds,
   seed_pending    : BOOLEAN,
   failed_attempts : Nat,
   lockout_until   : Clock,
   locked_out      : BOOLEAN,
   seed_state      : GenStates]

NRC == {"generalReject", "serviceNotSupported", "subFunctionNotSupported",
        "incorrectMessageLength", "responseTooLong", "conditionsNotCorrect",
        "requestOutOfRange", "securityAccessDenied", "invalidKey",
        "exceedNumberOfAttempts", "requiredTimeDelayNotExpired",
        "serviceNotSupportedInActiveSession"}

Reply ==
  [kind : {"none", "silent", "positive", "negative"},
   sid  : Services \cup {"empty", "unknown"},
   sub  : 0..3,
   nrc  : NRC \cup {"none"},
   seed : Seeds]

\* No request was handled in the last step.
NoReply == [kind |-> "none", sid |-> "empty", sub |-> 0, nrc |-> "none",
            seed |-> ZeroSeed]

\* UDS_NO_RESPONSE: the call ends with response_len = 0.
Silent(c, req) ==
  /\ ctx' = c
  /\ reply' = [kind |-> "silent", sid |-> req.sid, sub |-> 0,
               nrc |-> "none", seed |-> ZeroSeed]

\* make_negative_response: the refused service is echoed with the reason.
Refuse(c, req, nrc) ==
  /\ ctx' = c
  /\ reply' = [kind |-> "negative", sid |-> req.sid, sub |-> 0,
               nrc |-> nrc, seed |-> ZeroSeed]

\* A positive response; the seed field carries the four bytes of 67 01.
AnswerWith(c, req, seed) ==
  /\ ctx' = c
  /\ reply' = [kind |-> "positive", sid |-> req.sid, sub |-> req.sub,
               nrc |-> "none", seed |-> seed]

Answer(c, req) == AnswerWith(c, req, ZeroSeed)

-----------------------------------------------------------------------------
(* The deadlines (uds_poll), evaluated by a poll and at the head of every  *)
(* request.                                                                *)

\* A return to the default session that forgets the security level: the
\* state the project's finding AHDG-0001 is about.
FallBackUnlocked(c) ==
  [c EXCEPT !.session = "default", !.seed_pending = FALSE]

\* What every return to the default session does to the context.
FallBack(c) ==
  [c EXCEPT !.session = "default", !.security_level = "locked",
            !.seed_pending = FALSE]

\* A lockout lifted without waiting for its date.
LockoutServedAtOnce(c) == c.locked_out

\* A lockout whose end is compared as a number instead of modulo the clock.
LockoutByDate(c) == c.locked_out /\ now > c.lockout_until

\* The half-range comparison of the date the lockout ends at.
LockoutServed(c) ==
  c.locked_out /\ Elapsed(now, c.lockout_until) < HalfRange

LiftLockout(c) ==
  IF LockoutServed(c)
  THEN [c EXCEPT !.locked_out = FALSE, !.failed_attempts = 0]
  ELSE c

\* A session that ends one tick early, and one that never ends.
ExpiredOneEarly(c) ==
  c.session # "default" /\ Elapsed(now, c.last_activity) >= S3 - 1

NeverExpired(c) == FALSE

SessionExpired(c) ==
  c.session # "default" /\ Elapsed(now, c.last_activity) >= S3

ExpireSession(c) == IF SessionExpired(c) THEN FallBack(c) ELSE c

Polled == ExpireSession(LiftLockout(ctx))

\* A request handler that forgets to look at the deadlines first.
UncheckedDeadlines == ctx

\* The context a request finds: both deadlines evaluated before it is read.
Current == Polled

\* The caller lets the deadlines fall due while the bus is silent.
Poll ==
  /\ ctx' = Polled
  /\ reply' = NoReply
  /\ UNCHANGED now

-----------------------------------------------------------------------------
(* The access policy, applied before any handler runs.                     *)

NeedsExtended == {"SecurityAccess", "ClearDTC", "ECUReset"}
NeedsUnlock   == {"ECUReset"}

\* The policy table with the reset's unlock requirement lost.
AllowsLocked(sid) ==
  sid \in NeedsExtended => Current.session # "default"

\* A request for sid passes the policy.
Allows(sid) ==
  /\ sid \in NeedsExtended => Current.session # "default"
  /\ sid \in NeedsUnlock => Current.security_level # "locked"

\* What the policy answers when it does not.
AccessRefusal(sid) ==
  IF sid \in NeedsExtended /\ Current.session = "default"
  THEN "serviceNotSupportedInActiveSession"
  ELSE "securityAccessDenied"

\* The context a handler starts from: an admitted request is activity.
Refreshed == [Current EXCEPT !.last_activity = now]

AccessRefused(req) ==
  /\ req.sid \in Services
  /\ ~Allows(req.sid)
  /\ Refuse(Current, req, AccessRefusal(req.sid))
  /\ UNCHANGED now

\* No byte, no service identifier to echo: silence.
EmptyRequest(req) ==
  /\ req.sid = "empty"
  /\ Silent(Current, req)
  /\ UNCHANGED now

UnknownService(req) ==
  /\ req.sid = "unknown"
  /\ Refuse(Current, req, "serviceNotSupported")
  /\ UNCHANGED now

\* The switch of uds_handle_request reaches the handler of sid.
Dispatched(req, sid) ==
  /\ req.sid = sid
  /\ Allows(sid)
  /\ UNCHANGED now

\* A positive answer, unless the client asked for silence.
AnswerUnlessSuppressed(c, req) ==
  IF req.suppress THEN Silent(c, req) ELSE Answer(c, req)

-----------------------------------------------------------------------------
(* 0x10 DiagnosticSessionControl.                                          *)

\* Entering the extended session leaves the security level as it was.
EnterSession(c, sub) ==
  IF sub = 1 THEN FallBack(c) ELSE [c EXCEPT !.session = "extended"]

SessionControl(req) ==
  /\ Dispatched(req, "SessionControl")
  /\ \/ /\ req.size # "exact"
        /\ Refuse(Refreshed, req, "incorrectMessageLength")
     \/ /\ req.size = "exact" /\ req.sub \notin {1, 3}
        /\ Refuse(Refreshed, req, "subFunctionNotSupported")
     \/ /\ req.size = "exact" /\ req.sub \in {1, 3}
        /\ AnswerUnlessSuppressed(EnterSession(Refreshed, req.sub), req)

(* 0x3E TesterPresent.                                                     *)
TesterPresent(req) ==
  /\ Dispatched(req, "TesterPresent")
  /\ \/ /\ req.size # "exact"
        /\ Refuse(Refreshed, req, "incorrectMessageLength")
     \/ /\ req.size = "exact" /\ req.sub # 0
        /\ Refuse(Refreshed, req, "subFunctionNotSupported")
     \/ /\ req.size = "exact" /\ req.sub = 0
        /\ AnswerUnlessSuppressed(Refreshed, req)

-----------------------------------------------------------------------------
(* The services answered by the application.  Its callback returns one of  *)
(* these outcomes; "absent" means no callback was registered.              *)

Outcomes == {"ok", "notFound", "tooSmall", "error", "absent"}

\* Only four services call the application.
OutcomesOf(sid) ==
  IF sid \in {"ReadData", "ReadDTC", "ClearDTC", "ECUReset"}
  THEN Outcomes ELSE {"ok"}

DidRefusal ==
  [notFound |-> "requestOutOfRange", tooSmall |-> "responseTooLong",
   error |-> "generalReject", absent |-> "serviceNotSupported"]

DtcRefusal ==
  [notFound |-> "conditionsNotCorrect", tooSmall |-> "responseTooLong",
   error |-> "conditionsNotCorrect", absent |-> "serviceNotSupported"]

ClearRefusal ==
  [o \in Outcomes \ {"ok"} |->
     IF o = "absent" THEN "serviceNotSupported" ELSE "requestOutOfRange"]

ResetRefusal ==
  [o \in Outcomes \ {"ok"} |->
     IF o = "absent" THEN "serviceNotSupported" ELSE "conditionsNotCorrect"]

\* The answer to a well-formed request whose callback returned o.
Provide(req, o, refusal) ==
  IF o = "ok" THEN Answer(Refreshed, req)
              ELSE Refuse(Refreshed, req, refusal[o])

(* 0x22 ReadDataByIdentifier.                                              *)
ReadData(req, o) ==
  /\ Dispatched(req, "ReadData")
  /\ IF req.size # "exact"
     THEN Refuse(Refreshed, req, "incorrectMessageLength")
     ELSE Provide(req, o, DidRefusal)

(* 0x19 ReadDTCInformation.                                                *)
ReadDTC(req, o) ==
  /\ Dispatched(req, "ReadDTC")
  /\ \/ /\ req.size = "short" \/ (req.size = "long" /\ req.sub = 2)
        /\ Refuse(Refreshed, req, "incorrectMessageLength")
     \/ /\ req.size # "short" /\ req.sub # 2
        /\ Refuse(Refreshed, req, "subFunctionNotSupported")
     \/ /\ req.size = "exact" /\ req.sub = 2
        /\ Provide(req, o, DtcRefusal)

(* 0x14 ClearDiagnosticInformation.                                        *)
ClearDTC(req, o) ==
  /\ Dispatched(req, "ClearDTC")
  /\ IF req.size # "exact"
     THEN Refuse(Refreshed, req, "incorrectMessageLength")
     ELSE Provide(req, o, ClearRefusal)

(* 0x11 ECUReset.  The answer is sent whatever the suppress bit says.      *)
ECUReset(req, o) ==
  /\ Dispatched(req, "ECUReset")
  /\ \/ /\ req.size # "exact"
        /\ Refuse(Refreshed, req, "incorrectMessageLength")
     \/ /\ req.size = "exact" /\ req.sub \notin {1, 3}
        /\ Refuse(Refreshed, req, "subFunctionNotSupported")
     \/ /\ req.size = "exact" /\ req.sub \in {1, 3}
        /\ IF o = "ok" THEN Answer(FallBack(Refreshed), req)
                       ELSE Refuse(Refreshed, req, ResetRefusal[o])

-----------------------------------------------------------------------------
(* 0x27 SecurityAccess.                                                    *)

\* next_seed: advance the generator, hand out its new output, remember it.
Challenge(c) ==
  LET s == Step[c.seed_state] IN
  [c EXCEPT !.seed_state = s, !.current_seed = SeedOf[s],
            !.seed_pending = TRUE]

\* A null seed tells a client that is already unlocked that nothing is due.
RequestSeed(c, req) ==
  \/ /\ req.size # "exact"
     /\ Refuse(c, req, "incorrectMessageLength")
  \/ /\ req.size = "exact" /\ c.security_level # "locked"
     /\ AnswerWith([c EXCEPT !.seed_pending = FALSE], req, ZeroSeed)
  \/ /\ req.size = "exact" /\ c.security_level = "locked"
     /\ AnswerWith(Challenge(c), req, Challenge(c).current_seed)

\* A failed key that leaves its challenge standing.
StrikeKeepsSeed(c) ==
  [c EXCEPT !.failed_attempts = @ + 1]

\* A failed key costs an attempt and its challenge.
Strike(c) ==
  [c EXCEPT !.failed_attempts = @ + 1, !.seed_pending = FALSE]

\* A lockout that begins one attempt too late.
BarOneLate(c) ==
  IF c.failed_attempts > MaxAttempts
  THEN [c EXCEPT !.locked_out = TRUE, !.lockout_until = Later(now, Lockout)]
  ELSE c

\* A lockout dated to end the moment it begins.
BarWithoutDelay(c) ==
  IF c.failed_attempts >= MaxAttempts
  THEN [c EXCEPT !.locked_out = TRUE, !.lockout_until = now]
  ELSE c

\* After the last attempt the server is barred until a date.
Bar(c) ==
  IF c.failed_attempts >= MaxAttempts
  THEN [c EXCEPT !.locked_out = TRUE, !.lockout_until = Later(now, Lockout)]
  ELSE c

WrongKey(c, req) ==
  LET struck == Bar(Strike(c)) IN
  Refuse(struck, req,
         IF struck.locked_out THEN "exceedNumberOfAttempts" ELSE "invalidKey")

Grant(c) ==
  [c EXCEPT !.security_level = "level1", !.failed_attempts = 0,
            !.seed_pending = FALSE]

\* A comparison made without asking whether a seed is outstanding.
KeyComparedUnasked(c, req) ==
  /\ req.size = "exact"
  /\ IF req.key = KeyOf[c.current_seed]
     THEN Answer(Grant(c), req) ELSE WrongKey(c, req)

SendKey(c, req) ==
  \/ /\ req.size # "exact"
     /\ Refuse(c, req, "incorrectMessageLength")
  \/ /\ req.size = "exact" /\ ~c.seed_pending
     /\ Refuse(c, req, "conditionsNotCorrect")
  \/ /\ req.size = "exact" /\ c.seed_pending
     /\ IF req.key = KeyOf[c.current_seed]
        THEN Answer(Grant(c), req) ELSE WrongKey(c, req)

\* A lockout that refuses keys but still hands out seeds.
BarsOnlyKeys(c, req) == c.locked_out /\ req.sub = 2

\* During a lockout everything is refused, a request for a seed included.
Barred(c, req) == c.locked_out

\* The suppress bit is masked off and otherwise ignored by this service.
SecurityAccess(req) ==
  LET c == Refreshed IN
  /\ Dispatched(req, "SecurityAccess")
  /\ \/ /\ req.size = "short"
        /\ Refuse(c, req, "incorrectMessageLength")
     \/ /\ req.size # "short" /\ Barred(c, req)
        /\ Refuse(c, req, "requiredTimeDelayNotExpired")
     \/ /\ req.size # "short" /\ ~Barred(c, req)
        /\ \/ req.sub = 1 /\ RequestSeed(c, req)
           \/ req.sub = 2 /\ SendKey(c, req)
           \/ req.sub \notin {1, 2}
              /\ Refuse(c, req, "subFunctionNotSupported")

-----------------------------------------------------------------------------
(* The specification.                                                      *)

\* uds_init followed by uds_seed_entropy: any generator state, any date.
Init ==
  /\ now \in Clock
  /\ \E s \in GenStates :
       ctx = [session |-> "default", security_level |-> "locked",
              last_activity |-> 0, current_seed |-> ZeroSeed,
              seed_pending |-> FALSE, failed_attempts |-> 0,
              lockout_until |-> 0, locked_out |-> FALSE, seed_state |-> s]
  /\ reply = NoReply

Tick ==
  /\ now' = Later(now, 1)
  /\ reply' = NoReply
  /\ UNCHANGED ctx

\* uds_handle_request on one request, the callback (if any) returning o.
HandleRequest(req, o) ==
  \/ EmptyRequest(req)
  \/ UnknownService(req)
  \/ AccessRefused(req)
  \/ SessionControl(req)
  \/ TesterPresent(req)
  \/ ReadData(req, o)
  \/ ReadDTC(req, o)
  \/ ClearDTC(req, o)
  \/ ECUReset(req, o)
  \/ SecurityAccess(req)

Handle ==
  \E req \in ClientRequests : \E o \in OutcomesOf(req.sid) :
    HandleRequest(req, o)

Next == Tick \/ Poll \/ Handle

Spec == Init /\ [][Next]_vars

-----------------------------------------------------------------------------
(* Properties.                                                             *)

\* Every field keeps the range its C type and its writers give it.
TypeOK ==
  /\ now \in Clock
  /\ ctx \in Context
  /\ reply \in Reply

\* SEC-4 and its neighbours: in the default session nothing is unlocked and
\* no challenge is outstanding, whichever of the three ways (0x10, 0x11,
\* S3server) led back there.
NothingOpenInDefault ==
  ctx.session = "default" =>
    ctx.security_level = "locked" /\ ~ctx.seed_pending

\* A challenge is only ever outstanding while there is something to unlock
\* and a key may be tried: never beside an unlocked level or a lockout.
ChallengeOnlyWhenLocked ==
  ctx.seed_pending => ctx.security_level = "locked" /\ ~ctx.locked_out

\* The lockout and the attempt counter tell the same story: the server is
\* locked out exactly when all attempts are used, and nothing is unlocked
\* then.  The counter cannot run past its limit.
LockoutMatchesAttempts ==
  /\ ctx.failed_attempts \in 0 .. MaxAttempts
  /\ ctx.locked_out <=> ctx.failed_attempts = MaxAttempts
  /\ ctx.locked_out => ctx.security_level = "locked"

\* A step that unlocks the server was the positive answer to a key, sent
\* while its seed was outstanding, in a session that had not expired, with
\* attempts left (SEC-2).
UnlockStep ==
  ctx.security_level = "locked" /\ ctx'.security_level = "level1"

UnlockOnlyByFreshKey ==
  [][UnlockStep =>
       /\ ctx.seed_pending /\ ~ctx'.seed_pending
       /\ ctx.session = "extended"
       /\ Elapsed(now, ctx.last_activity) < S3
       /\ ~ctx.locked_out
       /\ reply'.kind = "positive" /\ reply'.sid = "SecurityAccess"]_vars

\* A reset is only performed for a client that held the unlocked level in a
\* session that had not expired when the request arrived, and it leaves no
\* authority behind it (SEC-1, SEC-3).
ResetPerformed == reply'.kind = "positive" /\ reply'.sid = "ECUReset"

ResetNeedsAuthority ==
  [][ResetPerformed =>
       /\ ctx.session = "extended" /\ ctx.security_level = "level1"
       /\ Elapsed(now, ctx.last_activity) < S3
       /\ ctx'.session = "default" /\ ctx'.security_level = "locked"]_vars

\* The attempt counter is never given back by a session change, a reset, an
\* expiry or a refusal: only a correct key, or a lockout whose date has
\* passed, clears it (SEC-5).
AttemptsSurvive ==
  [][ctx'.failed_attempts < ctx.failed_attempts =>
       \/ UnlockStep
       \/ /\ ctx.locked_out /\ ~ctx'.locked_out
          /\ Elapsed(now, ctx.lockout_until) < HalfRange]_vars

\* A key is judged against a seed at most once: the step that judges it
\* finds the challenge outstanding and leaves none, so a key that failed or
\* succeeded cannot be replayed against the same seed.
KeyJudged ==
  /\ reply'.sid = "SecurityAccess"
  /\ \/ reply'.kind = "positive" /\ reply'.sub = 2
     \/ reply'.nrc \in {"invalidKey", "exceedNumberOfAttempts"}

SeedJudgedOnce ==
  [][KeyJudged => ctx.seed_pending /\ ~ctx'.seed_pending]_vars

-----------------------------------------------------------------------------
(* What the documentation says and the code does not do.                   *)

\* docs/uds.md: "A rejected request does not refresh the deadline."  Every
\* request that is answered negatively leaves last_activity alone.
RejectedRequestDoesNotRefresh ==
  [][reply'.kind = "negative" =>
       ctx'.last_activity = ctx.last_activity]_vars

\* docs/uds.md: the suppress bit "silences positive responses only".  A
\* request that carries it is never answered positively.
SuppressSilencesPositive ==
  [][\A req \in ClientRequests : \A o \in OutcomesOf(req.sid) :
       req.suppress /\ HandleRequest(req, o) => reply'.kind # "positive"]_vars
=============================================================================
