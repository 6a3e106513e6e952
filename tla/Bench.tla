-------------------------------- MODULE Bench ---------------------------------
(***************************************************************************)
(* The benchmark's third system (S2 of bench/bench_core.h): the admission  *)
(* policy of src/gateway/gateway.c in front of an ECU that is permissive   *)
(* on purpose.  That ECU has no lockout and no S3server, judges a key as   *)
(* often as it is sent, and resets for any client in an extended session;  *)
(* what it does not check, the shadow must.                                *)
(*                                                                         *)
(* The harness is sequential: a request is judged (Admit), then handled    *)
(* and its answer observed (Deliver), and only then comes the next act or  *)
(* does time pass.  The corpus is the benchmark's: the nine acts of        *)
(* bench_build, in any order and at any time.                              *)
(***************************************************************************)
EXTENDS Integers, Sequences

CONSTANTS
  HalfRange, S3, Lockout, MaxAttempts, GenStates, Seeds, Keys, ZeroSeed,
  Step, SeedOf, KeyOf,   \* those of UdsServer
  BadKey               \* the key BA_KEY_WRONG sends

VARIABLES
  now,      \* the harness's clock
  shadow,   \* gw_t.shadow
  verdict,  \* what the shadow answered in the last step
  ecu,      \* bench_ecu_t
  pending,  \* the request that was admitted and not yet delivered
  last,     \* last_seed of bench_replay
  flow      \* how many acts of the legitimate flow were just sent in a row

vars == <<now, shadow, verdict, ecu, pending, last, flow>>

\* The well-formed requests of the corpus.
Acts == {"SESSION_EXT", "SESSION_DEF", "SEED", "KEY_CORRECT", "KEY_WRONG",
         "RESET", "READ", "PRESENT", "GARBAGE"}

Request(sid, sub, key) ==
  [sid |-> sid, size |-> "exact", sub |-> sub, suppress |-> FALSE,
   key |-> key]

\* bench_build: the right key is computed from the last seed seen.
Built(act) ==
  CASE act = "SESSION_EXT" -> Request("SessionControl", 3, BadKey)
    [] act = "SESSION_DEF" -> Request("SessionControl", 1, BadKey)
    [] act = "SEED"        -> Request("SecurityAccess", 1, BadKey)
    [] act = "KEY_CORRECT" -> Request("SecurityAccess", 2, KeyOf[last])
    [] act = "KEY_WRONG"   -> Request("SecurityAccess", 2, BadKey)
    [] act = "RESET"       -> Request("ECUReset", 1, BadKey)
    [] act = "READ"        -> Request("ReadData", 0, BadKey)
    [] act = "PRESENT"     -> Request("TesterPresent", 0, BadKey)
    [] act = "GARBAGE"     -> Request("unknown", 0, BadKey)

Corpus ==
  {Request("SessionControl", s, BadKey) : s \in {1, 3}}
  \cup {Request("SecurityAccess", 1, BadKey),
        Request("ECUReset", 1, BadKey), Request("ReadData", 0, BadKey),
        Request("TesterPresent", 0, BadKey), Request("unknown", 0, BadKey)}
  \cup {Request("SecurityAccess", 2, k) : k \in Keys}

Shadow == INSTANCE UdsServer WITH
  ctx <- shadow, reply <- verdict, ClientRequests <- Corpus

Nothing == Shadow!NoReply

-----------------------------------------------------------------------------
(* bench_ecu_recv: what the permissive ECU e answers, and becomes.         *)

Outcome(e, kind, req, nrc, seed) ==
  [ecu |-> e,
   answer |-> [kind |-> kind, sid |-> req.sid,
               sub |-> IF kind = "positive" THEN req.sub ELSE 0,
               nrc |-> nrc, seed |-> seed]]

Accepts(e, req) == Outcome(e, "positive", req, "none", ZeroSeed)
Rejects(e, req, nrc) == Outcome(e, "negative", req, nrc, ZeroSeed)

\* A reset is carried out whether or not the client held the level.
AfterReset(e) ==
  [e EXCEPT !.session = "default", !.security = FALSE,
            !.unauthorized = @ \/ ~e.security]

OnSession(e, req) ==
  Accepts(IF req.sub = 1
          THEN [e EXCEPT !.session = "default", !.security = FALSE]
          ELSE [e EXCEPT !.session = "extended"], req)

\* A fresh seed whatever the state; a key is compared unasked.
OnSecurity(e, req, drawn) ==
  IF req.sub = 1
  THEN Outcome([e EXCEPT !.seed = drawn], "positive", req, "none", drawn)
  ELSE IF req.key = KeyOf[e.seed]
       THEN Accepts([e EXCEPT !.security = TRUE], req)
       ELSE Rejects(e, req, "invalidKey")

EcuRecv(e, req, drawn) ==
  CASE req.sid = "SessionControl" -> OnSession(e, req)
    [] req.sid = "SecurityAccess" -> OnSecurity(e, req, drawn)
    [] req.sid = "ECUReset" ->
         IF e.session = "extended" THEN Accepts(AfterReset(e), req)
         ELSE Rejects(e, req, "serviceNotSupportedInActiveSession")
    [] req.sid \in {"ReadData", "TesterPresent"} -> Accepts(e, req)
    [] OTHER -> Rejects(e, req, "serviceNotSupported")

-----------------------------------------------------------------------------
(* The gateway (gw_admit, gw_observe_response) and the harness.            *)

\* A policy that stops wrong keys only.
DropsKeysOnly == {"invalidKey", "exceedNumberOfAttempts"}

\* The refusals of the shadow that stop a request.
DropReasons ==
  {"securityAccessDenied", "serviceNotSupportedInActiveSession",
   "invalidKey", "exceedNumberOfAttempts", "requiredTimeDelayNotExpired"}

Drops(r) == r.kind = "negative" /\ r.nrc \in DropReasons

IsSeed(r) ==
  r.kind = "positive" /\ r.sid = "SecurityAccess" /\ r.sub = 1
    /\ r.seed # ZeroSeed

\* A shadow that keeps the seed it drew itself.
NotObserved(r) == shadow

Observed(r) ==
  IF IsSeed(r)
  THEN [shadow EXCEPT !.current_seed = r.seed, !.seed_pending = TRUE]
  ELSE shadow

\* bench_avail_legit's four acts, in order.
LegitimateFlow == <<"SESSION_EXT", "SEED", "KEY_CORRECT", "RESET">>

\* How far act brings the flow.
FlowAfter(act) ==
  IF flow < 4 /\ act = LegitimateFlow[flow + 1] THEN flow + 1
  ELSE IF act = "SESSION_EXT" THEN 1 ELSE 0

Init ==
  /\ Shadow!Init
  /\ ecu = [session |-> "default", security |-> FALSE, seed |-> ZeroSeed,
            unauthorized |-> FALSE]
  /\ pending = <<>> /\ last = ZeroSeed /\ flow = 0

\* The gateway's half of one act of bench_replay.
Admit(act) ==
  /\ pending = <<>>
  /\ Shadow!HandleRequest(Built(act), "ok")
  /\ pending' = IF Drops(verdict') THEN <<>> ELSE <<Built(act)>>
  /\ flow' = FlowAfter(act)
  /\ UNCHANGED <<ecu, last>>

\* The ECU's half, and what the gateway and the tester learn from it.
Deliver ==
  /\ pending # <<>>
  /\ \E drawn \in Seeds \ {ZeroSeed} :
       LET out == EcuRecv(ecu, Head(pending), drawn) IN
       /\ ecu' = out.ecu
       /\ shadow' = Observed(out.answer)
       /\ last' = IF IsSeed(out.answer) THEN out.answer.seed ELSE last
  /\ pending' = <<>> /\ verdict' = Nothing
  /\ UNCHANGED <<now, flow>>

\* bench_replay starts every scenario without a seed.
NewScenario ==
  /\ pending = <<>>
  /\ last' = ZeroSeed /\ flow' = 0 /\ verdict' = Nothing
  /\ UNCHANGED <<now, shadow, ecu, pending>>

\* Two milliseconds pass between two acts, any time between two scenarios.
\* A flow that time has passed in is not followed further.
Tick ==
  /\ pending = <<>>
  /\ now' = Shadow!Later(now, 1) /\ flow' = 0 /\ verdict' = Nothing
  /\ UNCHANGED <<shadow, ecu, pending, last>>

Next == (\E act \in Acts : Admit(act)) \/ Deliver \/ NewScenario \/ Tick

Spec == Init /\ [][Next]_vars

-----------------------------------------------------------------------------
(* Properties.                                                             *)

\* The harness's state has its declared types.
TypeOK ==
  /\ Shadow!TypeOK
  /\ ecu \in [session : {"default", "extended"}, security : BOOLEAN,
              seed : Seeds, unauthorized : BOOLEAN]
  /\ pending \in {<<>>} \cup {<<req>> : req \in Corpus}
  /\ last \in Seeds /\ flow \in 0 .. 4

\* The result the benchmark reports for S2: the permissive ECU, which would
\* reset for any client of an extended session, never does so for one that
\* did not unlock it.
NoUnauthorisedReset == ~ecu.unauthorized

\* The shadow never believes in an authority the ECU did not grant: between
\* two requests, its unlocked level implies the ECU's.
ShadowNeverAhead ==
  pending = <<>> /\ shadow.security_level = "level1" => ecu.security

\* AVAIL-1 (bench_avail_legit): the gateway forwards every act of a
\* legitimate flow, whatever happened before it, unless it is locked out.
LegitimateFlowPasses ==
  [][flow' > flow /\ ~shadow'.locked_out => ~Drops(verdict')]_vars
=============================================================================
