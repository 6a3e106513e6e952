------------------------------- MODULE Gateway --------------------------------
(***************************************************************************)
(* The admission gateway (src/gateway/gateway.c and the loop of            *)
(* gateway_main.c) between a tester and an ECU.  Its policy is a second    *)
(* UDS server, the shadow, that judges every request before the ECU sees   *)
(* it and is kept in step by watching the seeds the ECU hands out.  Shadow *)
(* and ECU are two instances of UdsServer on one clock.                    *)
(*                                                                         *)
(* The gateway's loop is sequential: it judges a request, forwards it,     *)
(* waits for one answer or ECU_TIMEOUT_MS, and only then reads the next    *)
(* request.  Its shadow's deadlines are evaluated by requests alone, the   *)
(* ECU's by its own polls as well.  Messages arrive whole (Transfer), or   *)
(* not at all, some ticks after they were sent.                            *)
(***************************************************************************)
EXTENDS Integers, Sequences

CONSTANTS
  HalfRange, S3, Lockout, MaxAttempts, GenStates, Seeds, Keys, ZeroSeed,
  Step, SeedOf, KeyOf, ClientRequests,   \* those of UdsServer
  EcuTimeout,    \* ECU_TIMEOUT_MS
  MaxLatency,    \* the longest a message between gateway and ECU is under
                 \* way, the ECU's work included, in ticks
  MaxSilence,    \* the longest the tester leaves the idle gateway alone
  MaxPollGap,    \* the longest the ECU goes without evaluating its deadlines
  MaxLost,       \* how many messages may be lost
  KeysPerSeed    \* how many keys the tester tries on one seed, none on the
                 \* null seed; tester.c never has a second one judged

ASSUME GatewayAssumption ==
  /\ EcuTimeout \in Nat \ {0} /\ MaxLatency \in Nat
  /\ MaxSilence \in Nat \ {0} /\ MaxPollGap \in Nat \ {0} /\ MaxLost \in Nat
  /\ KeysPerSeed \in Nat

VARIABLES
  now,       \* the clock both processes read
  shadow,    \* gw_t.shadow
  verdict,   \* what the shadow answered in the last step, if it judged
  ecu,       \* the ECU's context
  response,  \* what the ECU answered in the last step, if it did
  loop,      \* where gateway_main's loop is
  toEcu,     \* requests under way to the ECU
  fromEcu,   \* answers under way to the gateway
  told,      \* what the tester was sent in the last step
  tries,     \* the keys the tester may still send for the seed it holds
  since,     \* ticks of silence, of latency, and since the ECU's last call
  lost       \* messages lost so far

vars == <<now, shadow, verdict, ecu, response, loop, toEcu, fromEcu, told,
          tries, since, lost>>

Shadow == INSTANCE UdsServer WITH ctx <- shadow, reply <- verdict
Ecu    == INSTANCE UdsServer WITH ctx <- ecu, reply <- response

Nothing == Shadow!NoReply

\* Between two iterations of the loop.
Resting == [at |-> "idle", forward |-> <<>>, waited |-> 0]

\* gw_init and the ECU's start: the same server, other seeds.
Init ==
  /\ Shadow!Init /\ Ecu!Init
  /\ loop = Resting
  /\ toEcu = <<>> /\ fromEcu = <<>>
  /\ told = Nothing /\ tries = 0
  /\ since = [silence |-> 0, latency |-> 0, poll |-> 0]
  /\ lost = 0

-----------------------------------------------------------------------------
(* gw_admit_ex and gw_observe_response.                                    *)

\* Only the two reasons that bar a service, as a firewall would.
OnlyBarredServices ==
  {"securityAccessDenied", "serviceNotSupportedInActiveSession"}

\* The refusals of the shadow that stop a request.  Any other refusal is
\* left to the ECU.
DropReasons ==
  {"securityAccessDenied", "serviceNotSupportedInActiveSession",
   "invalidKey", "exceedNumberOfAttempts", "requiredTimeDelayNotExpired"}

SendsKey(req) == req.sid = "SecurityAccess" /\ req.sub = 2

IsSeed(r) ==
  r.kind = "positive" /\ r.sid = "SecurityAccess" /\ r.sub = 1

Drops(r) == r.kind = "negative" /\ r.nrc \in DropReasons

\* A shadow that takes the answer of an unlocked ECU for a challenge.
ObservedBlindly(r) ==
  IF IsSeed(r)
  THEN [shadow EXCEPT !.current_seed = r.seed, !.seed_pending = TRUE]
  ELSE shadow

\* A shadow that keeps the seed it drew itself.
NotObserved(r) == shadow

\* The shadow adopts the seed the ECU really handed out; the null seed of an
\* unlocked ECU, or one that happens to be null, is not one.
Observed(r) ==
  IF IsSeed(r) /\ r.seed # ZeroSeed
  THEN [shadow EXCEPT !.current_seed = r.seed, !.seed_pending = TRUE]
  ELSE shadow

-----------------------------------------------------------------------------
(* The loop of gateway_main.c.                                             *)

\* Neither server answers in this step.
Still == verdict' = Nothing /\ response' = Nothing

\* A request of the tester is judged: refused in the ECU's stead, or kept to
\* be forwarded.  The shadow's providers accept everything.
Admit(req) ==
  /\ loop.at = "idle"
  /\ Shadow!HandleRequest(req, "ok")
  /\ \/ /\ Drops(verdict')
        /\ told' = verdict'
        /\ UNCHANGED loop
     \/ /\ ~Drops(verdict')
        /\ told' = Nothing
        /\ loop' = [at |-> "forward", forward |-> <<req>>, waited |-> 0]
  /\ since' = [since EXCEPT !.silence = 0, !.latency = 0]
  /\ response' = Nothing
  /\ UNCHANGED <<ecu, toEcu, fromEcu, lost>>

Forward ==
  /\ loop.at = "forward"
  /\ toEcu' = toEcu \o loop.forward
  /\ loop' = [at |-> "await", forward |-> <<>>, waited |-> 0]
  /\ told' = Nothing
  /\ Still
  /\ UNCHANGED <<now, shadow, ecu, fromEcu, since, lost, tries>>

\* diag_link_send failed: the request is dropped without a word.
ForwardFails ==
  /\ loop.at = "forward" /\ lost < MaxLost
  /\ lost' = lost + 1
  /\ loop' = Resting
  /\ told' = Nothing
  /\ Still
  /\ UNCHANGED <<now, shadow, ecu, toEcu, fromEcu, since, tries>>

\* The first answer that arrives is taken for the answer to the request.
ReceiveAnswer ==
  /\ loop.at = "await" /\ fromEcu # <<>>
  /\ shadow' = Observed(Head(fromEcu))
  /\ told' = Head(fromEcu)
  /\ tries' = IF ~IsSeed(Head(fromEcu)) THEN tries
              ELSE IF Head(fromEcu).seed = ZeroSeed THEN 0 ELSE KeysPerSeed
  /\ fromEcu' = Tail(fromEcu)
  /\ loop' = Resting
  /\ Still
  /\ UNCHANGED <<now, ecu, toEcu, since, lost>>

\* A wait cut short, and one without an end.
WaitedHalf == 2 * loop.waited >= EcuTimeout
WaitedForever == FALSE

WaitedEnough == loop.waited >= EcuTimeout

\* ECU_TIMEOUT_MS without an answer: a silent ECU, or a lost message.
GiveUp ==
  /\ loop.at = "await" /\ fromEcu = <<>> /\ WaitedEnough
  /\ loop' = Resting
  /\ told' = Nothing
  /\ Still
  /\ UNCHANGED <<now, shadow, ecu, toEcu, fromEcu, since, lost, tries>>

-----------------------------------------------------------------------------
(* The ECU, the clock and the bus.                                         *)

\* The ECU's reset handler never refuses (ecu_data_reset).
EcuOutcomes(sid) ==
  IF sid = "ECUReset" THEN {"ok"} ELSE Ecu!OutcomesOf(sid)

EcuHandles ==
  /\ toEcu # <<>>
  /\ \E o \in EcuOutcomes(Head(toEcu).sid) :
       Ecu!HandleRequest(Head(toEcu), o)
  /\ toEcu' = Tail(toEcu)
  /\ fromEcu' = IF response'.kind = "silent" THEN fromEcu
                                             ELSE Append(fromEcu, response')
  /\ since' = [since EXCEPT !.poll = 0]
  /\ verdict' = Nothing /\ told' = Nothing
  /\ UNCHANGED <<shadow, loop, lost, tries>>

EcuPolls ==
  /\ toEcu = <<>>
  /\ Ecu!Poll
  /\ since' = [since EXCEPT !.poll = 0]
  /\ verdict' = Nothing /\ told' = Nothing
  /\ UNCHANGED <<shadow, loop, toEcu, fromEcu, lost, tries>>

UnderWay == loop.at = "forward" \/ toEcu # <<>> \/ fromEcu # <<>>

Tick ==
  /\ loop.at = "idle" => since.silence < MaxSilence
  /\ since.poll < MaxPollGap
  /\ UnderWay => since.latency < MaxLatency
  /\ loop.at = "await" /\ ~UnderWay => loop.waited < EcuTimeout
  /\ now' = Shadow!Later(now, 1)
  /\ since' = [silence |-> since.silence + (IF loop.at = "idle" THEN 1 ELSE 0),
               latency |-> IF UnderWay THEN since.latency + 1 ELSE 0,
               poll    |-> since.poll + 1]
  /\ loop' = [loop EXCEPT !.waited =
                IF loop.at = "await" /\ @ < EcuTimeout THEN @ + 1 ELSE @]
  /\ told' = Nothing
  /\ Still
  /\ UNCHANGED <<shadow, ecu, toEcu, fromEcu, lost, tries>>

Lose ==
  /\ lost < MaxLost
  /\ \/ toEcu # <<>> /\ toEcu' = Tail(toEcu) /\ UNCHANGED fromEcu
     \/ fromEcu # <<>> /\ fromEcu' = Tail(fromEcu) /\ UNCHANGED toEcu
  /\ lost' = lost + 1
  /\ told' = Nothing
  /\ Still
  /\ UNCHANGED <<now, shadow, ecu, loop, since, tries>>

\* The tester of this module sends anything, but few keys on one seed.
AdmitAny ==
  \E req \in ClientRequests :
    /\ SendsKey(req) => tries > 0
    /\ tries' = IF SendsKey(req) THEN tries - 1 ELSE tries
    /\ Admit(req)

Next ==
  \/ AdmitAny \/ Forward \/ ForwardFails \/ ReceiveAnswer \/ GiveUp
  \/ EcuHandles \/ EcuPolls \/ Tick \/ Lose

Spec == Init /\ [][Next]_vars

\* Both processes run and time passes; the tester need not do anything.
FairSpec ==
  /\ Spec
  /\ WF_vars(Forward) /\ WF_vars(ReceiveAnswer) /\ WF_vars(GiveUp)
  /\ WF_vars(EcuHandles) /\ WF_vars(EcuPolls) /\ WF_vars(Tick)

-----------------------------------------------------------------------------
(* Properties.                                                             *)

TypeOK ==
  /\ Shadow!TypeOK /\ Ecu!TypeOK
  /\ loop.at \in {"idle", "forward", "await"}
  /\ loop.forward \in {<<>>} \cup {<<req>> : req \in ClientRequests}
  /\ loop.waited \in 0 .. EcuTimeout
  /\ told \in Shadow!Reply
  /\ tries \in 0 .. KeysPerSeed

\* While the links are instantaneous and lose nothing, and a tester tries one
\* key per seed, wrong keys stop at the gateway: the ECU behind it never
\* counts a failed attempt, so it is never locked out.
EcuIsNeverStruck == ecu.failed_attempts = 0

\* No exchange outlives its iteration of the loop: when the gateway judges
\* the next request, nothing of the one before is under way, so the next
\* answer it reads belongs to that request.
ExchangesAreClosed ==
  loop.at # "await" => toEcu = <<>> /\ fromEcu = <<>>

\* The seeds the shadow adopts never leave it open: its own rules on when a
\* challenge may be outstanding survive the observation.
ShadowStaysClosed ==
  Shadow!NothingOpenInDefault /\ Shadow!ChallengeOnlyWhenLocked

\* The half of XL_EPOCH_CONSISTENCY that guards the ECU: between two
\* exchanges the shadow and the ECU, their deadlines evaluated, agree on
\* whether the protected services are unlocked.
AuthorityAgrees ==
  loop.at = "idle" =>
    Shadow!Polled.security_level = Ecu!Polled.security_level

\* gateway.h: the key is judged "contre la graine que l'ECU a reellement
\* emise, pas contre une graine qu'elle aurait generee elle-meme": when the
\* shadow unlocks, the seed it used is the ECU's outstanding one.
KeyBoundToEcuSeed ==
  [][Shadow!UnlockStep =>
       shadow.current_seed = ecu.current_seed]_vars

\* The gateway is always back for the next request, whether or not the ECU
\* answers this one.
GatewayReturns == loop.at = "await" ~> loop.at = "idle"

-----------------------------------------------------------------------------
(* What the documentation says and the code does not do.                   *)

\* docs/RESEARCH.md, XL_EPOCH_CONSISTENCY: "a window where they disagree on
\* session or security is itself a violation".
EpochAgrees ==
  loop.at = "idle" => Shadow!Polled.session = Ecu!Polled.session
=============================================================================
