------------------------------ MODULE ChainProofs -----------------------------
(***************************************************************************)
(* Theorems about the gateway and the chain in front of it.                *)
(*                                                                         *)
(* 1. The gateway's exchanges do not overlap, for every timeout longer     *)
(*    than the longest latency, whatever the servers answer and whichever  *)
(*    messages are lost.  Only the loop, the two queues and the latency    *)
(*    matter: the servers stay opaque.                                     *)
(* 2. The two waits of the chain nest, for every pair of timeouts that     *)
(*    leaves room for the delays (ChainAssumption for the client's,        *)
(*    MaxLatency < EcuTimeout for the gateway's), whatever the servers     *)
(*    answer and however many messages are lost.                           *)
(* 3. The console's prompt shows every unlock, for the same timeouts and   *)
(*    whatever the delays, as long as nothing is lost.                     *)
(* 4. What a request makes of a server, shadow or ECU.                     *)
(* 5. The seeds the shadow adopts leave it as closed as its own do,        *)
(*    whoever asks, however late the answers are and whatever is lost.     *)
(* 6. The scenario of tester.c unfolds as labelled on a chain that loses   *)
(*    nothing, for every delay within the timeouts, and keeps shadow and   *)
(*    ECU at the same level.                                               *)
(***************************************************************************)
EXTENDS Chain, TLAPS

-----------------------------------------------------------------------------
(* 1. The gateway's exchanges.                                             *)

\* At most one message is between the gateway and the ECU.
AtMostOne ==
  \/ toEcu = <<>> /\ fromEcu = <<>>
  \/ (\E r : toEcu = <<r>>) /\ fromEcu = <<>>
  \/ toEcu = <<>> /\ \E r : fromEcu = <<r>>

LoopTyped ==
  /\ loop = [at |-> loop.at, forward |-> loop.forward, waited |-> loop.waited]
  /\ loop.at \in {"idle", "forward", "await"}
  /\ loop.at = "forward" => \E r : loop.forward = <<r>>
  /\ loop.waited \in 0 .. EcuTimeout

LatencyTyped ==
  /\ since = [silence |-> since.silence, latency |-> since.latency,
              poll |-> since.poll]
  /\ since.latency \in 0 .. MaxLatency

\* The inductive invariant: while a message is under way the wait is no
\* longer than its latency, so it cannot have reached the timeout.
GInv ==
  /\ LoopTyped /\ LatencyTyped /\ AtMostOne
  /\ ExchangesAreClosed
  /\ loop.at = "await" /\ UnderWay => loop.waited <= since.latency

\* What the invariant speaks of.
gvars == <<loop, toEcu, fromEcu, since>>

-----------------------------------------------------------------------------
\* Queues of at most one message.
LEMMA OneMessage ==
  ASSUME NEW r
  PROVE  /\ <<r>> # <<>> /\ Head(<<r>>) = r /\ Tail(<<r>>) = <<>>
         /\ Append(<<>>, r) = <<r>> /\ <<>> \o <<r>> = <<r>>
  OBVIOUS

LEMMA StutterKeepsGInv ==
  ASSUME GInv, UNCHANGED gvars
  PROVE  GInv'
  BY DEF gvars, GInv, LoopTyped, LatencyTyped, AtMostOne, ExchangesAreClosed,
         UnderWay

LEMMA AdmitKeepsGInv ==
  ASSUME GInv, NEW req, Admit(req)
  PROVE  GInv' /\ since'.latency = 0
<1>1. /\ loop.at = "idle" /\ toEcu' = toEcu /\ fromEcu' = fromEcu
      /\ since' = [since EXCEPT !.silence = 0, !.latency = 0]
      /\ \/ loop' = loop
         \/ loop' = [at |-> "forward", forward |-> <<req>>, waited |-> 0]
  BY DEF Admit
<1>2. toEcu = <<>> /\ fromEcu = <<>>
  BY <1>1 DEF GInv, ExchangesAreClosed
<1>3. LatencyTyped' /\ since'.latency = 0
  <2>1. since' = [silence |-> 0, latency |-> 0, poll |-> since.poll]
    BY <1>1 DEF GInv, LatencyTyped
  <2>2. since'.latency = 0 /\ 0 \in 0 .. MaxLatency
    BY <2>1, GatewayAssumption
  <2>3. QED
    BY <2>1, <2>2 DEF LatencyTyped
<1>4. LoopTyped' /\ loop'.at \in {"idle", "forward"}
  BY <1>1, GatewayAssumption DEF GInv, LoopTyped
<1>5. QED
  BY <1>1, <1>2, <1>3, <1>4 DEF GInv, AtMostOne, ExchangesAreClosed

LEMMA ForwardKeepsGInv ==
  ASSUME GInv, Forward
  PROVE  GInv'
<1>1. PICK r : loop.forward = <<r>>
  BY DEF GInv, LoopTyped, Forward
<1>2. toEcu = <<>> /\ fromEcu = <<>>
  BY DEF GInv, ExchangesAreClosed, Forward
<1>3. toEcu' = <<r>> /\ fromEcu' = <<>> /\ since' = since
  BY <1>1, <1>2, OneMessage DEF Forward
<1>4. loop' = [at |-> "await", forward |-> <<>>, waited |-> 0]
  BY DEF Forward
<1>5. LoopTyped' /\ loop'.waited = 0 /\ loop'.at = "await"
  BY <1>4, GatewayAssumption DEF LoopTyped
<1>6. LatencyTyped'
  BY <1>3 DEF GInv, LatencyTyped
<1>7. 0 <= since'.latency
  BY <1>6, GatewayAssumption DEF LatencyTyped
<1>8. QED
  BY <1>3, <1>5, <1>6, <1>7 DEF GInv, AtMostOne, ExchangesAreClosed

\* The loop returns: by an answer, by a failed write, or by the timeout,
\* which leaves nothing under way.
LEMMA ReturnKeepsGInv ==
  ASSUME MaxLatency < EcuTimeout,
         GInv, ForwardFails \/ ReceiveAnswer \/ GiveUp
  PROVE  GInv' /\ loop'.at = "idle"
<1>1. loop' = Resting /\ since' = since
  BY DEF ForwardFails, ReceiveAnswer, GiveUp
<1>2. LoopTyped' /\ loop'.at = "idle"
  BY <1>1, GatewayAssumption DEF LoopTyped, Resting
<1>3. LatencyTyped'
  BY <1>1 DEF GInv, LatencyTyped
<1>4. toEcu' = <<>> /\ fromEcu' = <<>>
  <2>1. CASE ForwardFails
    BY <2>1 DEF ForwardFails, GInv, ExchangesAreClosed
  <2>2. CASE ReceiveAnswer
    <3>1. PICK r : fromEcu = <<r>>
      BY <2>2 DEF ReceiveAnswer, GInv, AtMostOne
    <3>2. toEcu = <<>>
      BY <3>1, OneMessage DEF GInv, AtMostOne
    <3>3. QED
      BY <2>2, <3>1, <3>2, OneMessage DEF ReceiveAnswer
  <2>3. CASE GiveUp
    <3>1. loop.waited \in Nat /\ since.latency \in 0 .. MaxLatency
      BY DEF GInv, LoopTyped, LatencyTyped
    <3>2. loop.at = "await" /\ loop.waited >= EcuTimeout
      BY <2>3 DEF GiveUp, WaitedEnough
    <3>3. ~(loop.waited <= since.latency)
      BY <3>1, <3>2, GatewayAssumption
    <3>4. toEcu = <<>> /\ fromEcu = <<>>
      BY <3>2, <3>3 DEF GInv, UnderWay
    <3>5. QED
      BY <2>3, <3>4 DEF GiveUp
  <2>4. QED
    BY <2>1, <2>2, <2>3
<1>5. QED
  BY <1>2, <1>3, <1>4 DEF GInv, AtMostOne, ExchangesAreClosed

\* A message changes hands, or is lost, while the gateway waits.
LEMMA MessageKeepsGInv ==
  ASSUME GInv, EcuHandles \/ Lose
  PROVE  /\ GInv' /\ loop' = loop /\ loop.at = "await"
         /\ since'.latency = since.latency
<1>1. toEcu # <<>> \/ fromEcu # <<>>
  BY DEF EcuHandles, Lose
<1>2. loop.at = "await" /\ loop' = loop
  BY <1>1 DEF GInv, ExchangesAreClosed, EcuHandles, Lose
<1>3. since' = since \/ since' = [since EXCEPT !.poll = 0]
  BY DEF EcuHandles, Lose
<1>4. LatencyTyped' /\ since'.latency = since.latency
  BY <1>3 DEF GInv, LatencyTyped
<1>5. AtMostOne'
  <2>1. CASE EcuHandles
    <3>1. PICK r : toEcu = <<r>>
      BY <2>1 DEF EcuHandles, GInv, AtMostOne
    <3>2. fromEcu = <<>>
      BY <3>1, OneMessage DEF GInv, AtMostOne
    <3>3. toEcu' = <<>> /\ fromEcu' \in {<<>>, <<response'>>}
      BY <2>1, <3>1, <3>2, OneMessage DEF EcuHandles
    <3>4. QED
      BY <3>3 DEF AtMostOne
  <2>2. CASE Lose
    <3>1. CASE toEcu # <<>>
      <4>1. PICK r : toEcu = <<r>>
        BY <3>1 DEF GInv, AtMostOne
      <4>2. fromEcu = <<>>
        BY <4>1, OneMessage DEF GInv, AtMostOne
      <4>3. toEcu' = <<>> /\ fromEcu' = <<>>
        BY <2>2, <4>1, <4>2, OneMessage DEF Lose
      <4>4. QED
        BY <4>3 DEF AtMostOne
    <3>2. CASE fromEcu # <<>>
      <4>1. PICK r : fromEcu = <<r>>
        BY <3>2 DEF GInv, AtMostOne
      <4>2. toEcu = <<>>
        BY <4>1, OneMessage DEF GInv, AtMostOne
      <4>3. toEcu' = <<>> /\ fromEcu' = <<>>
        BY <2>2, <4>1, <4>2, OneMessage DEF Lose
      <4>4. QED
        BY <4>3 DEF AtMostOne
    <3>3. QED
      BY <1>1, <3>1, <3>2
  <2>3. QED
    BY <2>1, <2>2
<1>6. loop.waited <= since.latency
  BY <1>1, <1>2 DEF GInv, UnderWay
<1>7. QED
  BY <1>2, <1>4, <1>5, <1>6 DEF GInv, LoopTyped, ExchangesAreClosed

LEMMA EcuPollsKeepsGInv ==
  ASSUME GInv, EcuPolls
  PROVE  /\ GInv' /\ UNCHANGED <<loop, toEcu, fromEcu>>
         /\ since'.latency = since.latency
<1>1. /\ UNCHANGED <<loop, toEcu, fromEcu>>
      /\ since' = [since EXCEPT !.poll = 0]
  BY DEF EcuPolls
<1>2. LatencyTyped' /\ since'.latency = since.latency
  BY <1>1 DEF GInv, LatencyTyped
<1>3. QED
  BY <1>1, <1>2 DEF GInv, LoopTyped, AtMostOne, ExchangesAreClosed, UnderWay

\* A tick lengthens the wait and the latency together.
LEMMA TickKeepsGInv ==
  ASSUME GInv, Tick
  PROVE  /\ GInv' /\ UNCHANGED <<toEcu, fromEcu>>
         /\ loop'.at = loop.at /\ loop'.forward = loop.forward
         /\ UnderWay => since'.latency = since.latency + 1
         /\ loop.at = "await" /\ ~UnderWay => loop'.waited = loop.waited + 1
<1>1. /\ UNCHANGED <<toEcu, fromEcu>>
      /\ since' = [silence |-> since.silence
                                 + (IF loop.at = "idle" THEN 1 ELSE 0),
                   latency |-> IF UnderWay THEN since.latency + 1 ELSE 0,
                   poll    |-> since.poll + 1]
      /\ loop' = [loop EXCEPT !.waited =
                    IF loop.at = "await" /\ loop.waited < EcuTimeout
                    THEN loop.waited + 1 ELSE loop.waited]
      /\ UnderWay => since.latency < MaxLatency
      /\ loop.at = "await" /\ ~UnderWay => loop.waited < EcuTimeout
  BY DEF Tick
<1>2. since.latency \in 0 .. MaxLatency /\ loop.waited \in 0 .. EcuTimeout
  BY DEF GInv, LoopTyped, LatencyTyped
<1>3. LatencyTyped'
  BY <1>1, <1>2, GatewayAssumption DEF LatencyTyped
<1>4. /\ LoopTyped' /\ loop'.at = loop.at /\ loop'.forward = loop.forward
      /\ loop'.waited = IF loop.at = "await" /\ loop.waited < EcuTimeout
                        THEN loop.waited + 1 ELSE loop.waited
  BY <1>1, <1>2, GatewayAssumption DEF GInv, LoopTyped
<1>5. UnderWay' = UnderWay
  BY <1>1, <1>4 DEF UnderWay
<1>6. UnderWay => since'.latency = since.latency + 1
  BY <1>1
<1>7. loop'.at = "await" /\ UnderWay' => loop'.waited <= since'.latency
  BY <1>2, <1>4, <1>5, <1>6, GatewayAssumption DEF GInv
<1>8. QED
  BY <1>1, <1>3, <1>4, <1>6, <1>7 DEF GInv, AtMostOne, ExchangesAreClosed

LEMMA InitGInv == Init => GInv
  BY GatewayAssumption
  DEF Init, Resting, GInv, LoopTyped, LatencyTyped, AtMostOne,
      ExchangesAreClosed, UnderWay

LEMMA NextGInv ==
  ASSUME MaxLatency < EcuTimeout, GInv, [Next]_vars
  PROVE  GInv'
<1>1. CASE AdmitAny
  BY <1>1, AdmitKeepsGInv DEF AdmitAny
<1>2. CASE Forward
  BY <1>2, ForwardKeepsGInv
<1>3. CASE ForwardFails \/ ReceiveAnswer \/ GiveUp
  BY <1>3, ReturnKeepsGInv
<1>4. CASE EcuHandles \/ Lose
  BY <1>4, MessageKeepsGInv
<1>5. CASE EcuPolls
  BY <1>5, EcuPollsKeepsGInv
<1>6. CASE Tick
  BY <1>6, TickKeepsGInv
<1>7. CASE UNCHANGED vars
  BY <1>7, StutterKeepsGInv DEF vars, gvars
<1>8. QED
  BY <1>1, <1>2, <1>3, <1>4, <1>5, <1>6, <1>7 DEF Next

\* No exchange of the gateway outlives its iteration of the loop, as long as
\* ECU_TIMEOUT_MS is longer than a message can take.
THEOREM ExchangesClosed ==
  ASSUME MaxLatency < EcuTimeout
  PROVE  Spec => []ExchangesAreClosed
<1>1. GInv /\ [Next]_vars => GInv'
  BY NextGInv
<1>2. GInv => ExchangesAreClosed
  BY DEF GInv
<1>3. QED
  BY InitGInv, <1>1, <1>2, PTL DEF Spec
-----------------------------------------------------------------------------
(* 2. The waits of the chain.                                              *)
(*                                                                         *)
(* While the client waits its request is somewhere: on the way to the      *)
(* gateway, in the gateway's loop, on the way back as an answer, or        *)
(* nowhere any more.  Each place bounds how long the client can have       *)
(* waited; in the first three the bound is below its timeout.              *)

ExchangeTyped ==
  /\ exchange = [at |-> exchange.at, step |-> exchange.step,
                 asked |-> exchange.asked, waited |-> exchange.waited]
  /\ exchange.at \in {"ready", "await", "over"}
  /\ exchange.waited \in Nat
  /\ hop \in 0 .. MaxHop

Outbound ==
  /\ (\E r : toGateway = <<r>>) /\ toClient = <<>> /\ loop.at = "idle"
  /\ exchange.waited <= hop

InTheLoop ==
  /\ toGateway = <<>> /\ toClient = <<>> /\ loop.at \in {"forward", "await"}
  /\ UnderWay => exchange.waited <= MaxHop + since.latency
  /\ ~UnderWay => exchange.waited <= MaxHop + MaxLatency + loop.waited

Homeward ==
  /\ toGateway = <<>> /\ (\E r : toClient = <<r>>) /\ loop.at = "idle"
  /\ exchange.waited <= MaxHop + MaxLatency + EcuTimeout + hop

Nowhere == toGateway = <<>> /\ toClient = <<>> /\ loop.at = "idle"

\* The inductive invariant of the chain.
CInv ==
  /\ GInv /\ ExchangeTyped
  /\ program = "other" => ~Waiting /\ toGateway = <<>>
  /\ program # "other" =>
       IF Waiting THEN Outbound \/ InTheLoop \/ Homeward \/ Nowhere
                  ELSE Nowhere /\ exchange.waited = 0

-----------------------------------------------------------------------------
LEMMA ConcludedIsDone ==
  /\ Concluded.at \in {"ready", "over"} /\ Concluded.waited = 0
  /\ Concluded = [at |-> Concluded.at, step |-> Concluded.step,
                  asked |-> Concluded.asked, waited |-> Concluded.waited]
  BY DEF Concluded

LEMMA SendKeepsCInv ==
  ASSUME CInv, program # "other", NEW req, Send(req)
  PROVE  CInv'
<1>1. /\ exchange.at = "ready" /\ UNCHANGED <<program, loop, toEcu, fromEcu,
                                              since, toClient>>
      /\ hop' = 0
  BY DEF Send, OthersStay
<1>2. Nowhere /\ exchange.waited = 0
  BY <1>1 DEF CInv, Waiting
<1>3. GInv'
  BY <1>1, StutterKeepsGInv DEF CInv, gvars
<1>4. CASE /\ toGateway' = Append(toGateway, req)
           /\ exchange' = [exchange EXCEPT !.at = "await", !.asked = <<req>>]
  <2>1. toGateway' = <<req>> /\ toClient' = <<>> /\ loop'.at = "idle"
    BY <1>1, <1>2, <1>4, OneMessage DEF Nowhere
  <2>2. ExchangeTyped' /\ exchange'.waited = 0
    <3>1. exchange' = [at |-> "await", step |-> exchange.step,
                       asked |-> <<req>>, waited |-> exchange.waited]
      BY <1>4 DEF CInv, ExchangeTyped
    <3>2. hop' \in 0 .. MaxHop
      BY <1>1, ChainAssumption
    <3>3. QED
      BY <1>2, <3>1, <3>2 DEF ExchangeTyped
  <2>3. Outbound'
    BY <1>1, <2>1, <2>2 DEF Outbound
  <2>4. QED
    BY <1>1, <1>3, <2>2, <2>3, <1>4 DEF CInv, Waiting, ExchangeTyped
<1>5. CASE exchange' = Concluded /\ UNCHANGED toGateway
  <2>1. /\ ExchangeTyped' /\ exchange'.waited = 0
        /\ exchange'.at \in {"ready", "over"}
    BY <1>1, <1>5, ConcludedIsDone, ChainAssumption DEF ExchangeTyped
  <2>2. Nowhere'
    BY <1>1, <1>2, <1>5 DEF Nowhere
  <2>3. QED
    BY <1>1, <1>3, <2>1, <2>2 DEF CInv, Waiting
<1>6. QED
  BY <1>4, <1>5 DEF Send

\* Only the client's own bus holds its answer when it takes one.
LEMMA TakeAnswerKeepsCInv ==
  ASSUME CInv, TakeAnswer
  PROVE  CInv'
<1>1. /\ Waiting /\ toClient # <<>> /\ toClient' = Tail(toClient)
      /\ exchange' = Concluded /\ hop' = 0
      /\ UNCHANGED <<program, loop, toEcu, fromEcu, since, toGateway>>
  BY DEF TakeAnswer, OthersStay
<1>2. program # "other" /\ Homeward
  BY <1>1 DEF CInv, Outbound, InTheLoop, Nowhere
<1>3. Nowhere'
  BY <1>1, <1>2, OneMessage DEF Homeward, Nowhere
<1>4. GInv'
  BY <1>1, StutterKeepsGInv DEF CInv, gvars
<1>5. /\ ExchangeTyped' /\ exchange'.waited = 0
      /\ exchange'.at \in {"ready", "over"}
  BY <1>1, ConcludedIsDone, ChainAssumption DEF ExchangeTyped
<1>6. QED
  BY <1>1, <1>2, <1>3, <1>4, <1>5 DEF CInv, Waiting

\* A client that gives up has waited longer than any place its request could
\* still be in allows.
LEMMA GivingUpKeepsCInv ==
  ASSUME CInv, ClientGivesUp
  PROVE  CInv' /\ Nowhere
<1>1. /\ Waiting /\ toClient = <<>> /\ exchange.waited >= ClientTimeout
      /\ exchange' = Concluded
      /\ UNCHANGED <<program, loop, toEcu, fromEcu, since, toGateway,
                     toClient, hop>>
  BY DEF ClientGivesUp, WaitedOut, OthersStay
<1>2. program # "other"
  BY <1>1 DEF CInv
<1>3. ~Outbound
  BY <1>1, ChainAssumption, GatewayAssumption
  DEF CInv, ExchangeTyped, Outbound
<1>4. ~InTheLoop
  <2>1. since.latency \in 0 .. MaxLatency /\ loop.waited \in 0 .. EcuTimeout
    BY DEF CInv, GInv, LoopTyped, LatencyTyped
  <2>2. exchange.waited \in Nat
    BY DEF CInv, ExchangeTyped
  <2>3. /\ ~(exchange.waited <= MaxHop + since.latency)
        /\ ~(exchange.waited <= MaxHop + MaxLatency + loop.waited)
    BY <1>1, <2>1, <2>2, ChainAssumption, GatewayAssumption
  <2>4. QED
    BY <2>3 DEF InTheLoop
<1>5. ~Homeward
  BY <1>1, OneMessage DEF Homeward
<1>6. Nowhere
  BY <1>1, <1>2, <1>3, <1>4, <1>5 DEF CInv
<1>7. GInv' /\ Nowhere'
  BY <1>1, <1>6, StutterKeepsGInv DEF CInv, gvars, Nowhere
<1>8. /\ ExchangeTyped' /\ exchange'.waited = 0
      /\ exchange'.at \in {"ready", "over"}
  BY <1>1, ConcludedIsDone DEF ExchangeTyped, CInv
<1>9. QED
  BY <1>1, <1>2, <1>6, <1>7, <1>8 DEF CInv, Waiting

\* The request is refused and its refusal on its way home, or it enters the
\* loop.
LEMMA JudgingKeepsCInv ==
  ASSUME CInv, GatewayJudges
  PROVE  CInv'
<1>1. /\ toGateway # <<>> /\ toGateway' = Tail(toGateway)
      /\ Admit(Head(toGateway))
      /\ toClient' = IF told' = Nothing THEN toClient
                                        ELSE Append(toClient, told')
      /\ hop' = 0 /\ UNCHANGED <<program, exchange>>
  BY DEF GatewayJudges, ClientStays
<1>2. program # "other" /\ Waiting /\ Outbound
  BY <1>1 DEF CInv, InTheLoop, Homeward, Nowhere
<1>3. GInv'
  BY <1>1, AdmitKeepsGInv DEF CInv
<1>4. toGateway' = <<>> /\ toClient = <<>> /\ exchange.waited <= MaxHop
  BY <1>1, <1>2, OneMessage, ChainAssumption
  DEF Outbound, CInv, ExchangeTyped
<1>5. ExchangeTyped'
  BY <1>1, ChainAssumption DEF CInv, ExchangeTyped
<1>6. \/ told' # Nothing /\ loop' = loop
      \/ told' = Nothing
         /\ loop' = [at |-> "forward", forward |-> <<Head(toGateway)>>,
                     waited |-> 0]
  <2>1. \A r : Drops(r) => r # Nothing
    BY DEF Drops, Nothing, Shadow!NoReply
  <2>2. QED
    BY <1>1, <2>1 DEF Admit
<1>7. exchange.waited \in Nat
  BY DEF CInv, ExchangeTyped
<1>8. CASE told' # Nothing /\ loop' = loop
  <2>1. toClient' = <<told'>> /\ loop'.at = "idle"
    BY <1>1, <1>2, <1>4, <1>8, OneMessage DEF Outbound
  <2>2. exchange.waited <= MaxHop + MaxLatency + EcuTimeout + 0
    BY <1>4, <1>7, ChainAssumption, GatewayAssumption
  <2>3. Homeward'
    BY <1>1, <1>4, <2>1, <2>2 DEF Homeward
  <2>4. QED
    BY <1>1, <1>2, <1>3, <1>5, <2>3 DEF CInv, Waiting
<1>9. CASE told' = Nothing
           /\ loop' = [at |-> "forward", forward |-> <<Head(toGateway)>>,
                       waited |-> 0]
  <2>1. loop'.at = "forward" /\ toClient' = <<>> /\ UnderWay'
    BY <1>1, <1>4, <1>9 DEF UnderWay
  <2>2. since'.latency \in 0 .. MaxLatency
    BY <1>3 DEF GInv, LatencyTyped
  <2>3. exchange.waited <= MaxHop + since'.latency
    BY <1>4, <1>7, <2>2, ChainAssumption, GatewayAssumption
  <2>4. InTheLoop'
    BY <1>1, <1>4, <2>1, <2>3 DEF InTheLoop
  <2>5. QED
    BY <1>1, <1>2, <1>3, <1>5, <2>4 DEF CInv, Waiting
<1>10. QED
  BY <1>6, <1>8, <1>9

\* Where the loop is busy, the client of the chain waits for it.
LEMMA BusyMeansWaiting ==
  ASSUME CInv, program # "other", loop.at # "idle"
  PROVE  Waiting /\ InTheLoop
  BY DEF CInv, Outbound, Homeward, Nowhere

LEMMA RelayingKeepsCInv ==
  ASSUME MaxLatency < EcuTimeout, CInv, GatewayRelays
  PROVE  CInv'
<1>1. /\ program # "other" /\ ReceiveAnswer /\ hop' = 0
      /\ toClient' = Append(toClient, told')
      /\ UNCHANGED <<program, exchange, toGateway>>
  BY DEF GatewayRelays, ClientStays
<1>2. loop.at = "await" /\ UnderWay
  BY <1>1 DEF ReceiveAnswer, UnderWay
<1>3. Waiting /\ InTheLoop
  BY <1>1, <1>2, BusyMeansWaiting
<1>4. GInv' /\ loop'.at = "idle"
  BY <1>1, ReturnKeepsGInv DEF CInv
<1>5. ExchangeTyped'
  BY <1>1, ChainAssumption DEF CInv, ExchangeTyped
<1>6. exchange.waited <= MaxHop + MaxLatency + EcuTimeout + 0
  <2>1. since.latency \in 0 .. MaxLatency /\ exchange.waited \in Nat
    BY DEF CInv, GInv, LatencyTyped, ExchangeTyped
  <2>2. exchange.waited <= MaxHop + since.latency
    BY <1>2, <1>3 DEF InTheLoop
  <2>3. QED
    BY <2>1, <2>2, ChainAssumption, GatewayAssumption
<1>7. toGateway' = <<>> /\ toClient' = <<told'>>
  BY <1>1, <1>3, OneMessage DEF InTheLoop
<1>8. Homeward'
  BY <1>1, <1>4, <1>6, <1>7 DEF Homeward
<1>9. QED
  BY <1>1, <1>3, <1>4, <1>5, <1>8 DEF CInv, Waiting

\* What happens behind the client's bus bounds its wait as before, or ends
\* with nothing left to wait for.
LEMMA BehindKeepsCInv ==
  ASSUME MaxLatency < EcuTimeout, CInv, Behind
  PROVE  CInv'
<1>1. /\ program # "other"
      /\ Forward \/ ForwardFails \/ GiveUp \/ EcuHandles \/ EcuPolls \/ Lose
      /\ UNCHANGED <<program, exchange, toGateway, toClient, hop>>
  BY DEF Behind, ClientStays
<1>2. ExchangeTyped' /\ exchange.waited \in Nat
  BY <1>1 DEF CInv, ExchangeTyped
<1>3. ASSUME loop.at # "idle"
      PROVE  Waiting /\ InTheLoop
  BY <1>1, <1>3, BusyMeansWaiting
<1>4. CASE Forward
  <2>1. Waiting /\ InTheLoop /\ UnderWay
    BY <1>3, <1>4 DEF Forward, UnderWay
  <2>2. GInv'
    BY <1>4, ForwardKeepsGInv DEF CInv
  <2>3. /\ loop'.at = "await" /\ since' = since
        /\ toEcu' = toEcu \o loop.forward
    BY <1>4 DEF Forward
  <2>4. exchange.waited <= MaxHop + since'.latency /\ UnderWay'
    <3>1. PICK r : loop.forward = <<r>>
      BY <1>4 DEF CInv, GInv, LoopTyped, Forward
    <3>2. toEcu = <<>>
      BY <1>4 DEF CInv, GInv, ExchangesAreClosed, Forward
    <3>3. toEcu' # <<>>
      BY <2>3, <3>1, <3>2, OneMessage
    <3>4. QED
      BY <2>1, <2>3, <3>3 DEF InTheLoop, UnderWay
  <2>5. InTheLoop'
    BY <1>1, <2>1, <2>3, <2>4 DEF InTheLoop
  <2>6. QED
    BY <1>1, <1>2, <2>1, <2>2, <2>5 DEF CInv, Waiting
<1>5. CASE ForwardFails \/ GiveUp
  <2>1. Waiting /\ InTheLoop
    BY <1>3, <1>5 DEF ForwardFails, GiveUp
  <2>2. GInv' /\ loop'.at = "idle"
    BY <1>5, ReturnKeepsGInv DEF CInv
  <2>3. Nowhere'
    BY <1>1, <2>1, <2>2 DEF InTheLoop, Nowhere
  <2>4. QED
    BY <1>1, <1>2, <2>1, <2>2, <2>3 DEF CInv, Waiting
<1>6. CASE EcuHandles \/ Lose
  <2>1. /\ GInv' /\ loop' = loop /\ loop.at = "await"
        /\ since'.latency = since.latency
    BY <1>6, MessageKeepsGInv DEF CInv
  <2>2. Waiting /\ InTheLoop /\ UnderWay
    BY <1>3, <1>6, <2>1 DEF EcuHandles, Lose, UnderWay
  <2>3. exchange.waited <= MaxHop + since'.latency
    BY <2>1, <2>2 DEF InTheLoop
  <2>4. since'.latency \in 0 .. MaxLatency /\ loop'.waited \in 0 .. EcuTimeout
    BY <2>1 DEF GInv, LatencyTyped, LoopTyped
  <2>5. exchange.waited <= MaxHop + MaxLatency + loop'.waited
    BY <1>2, <2>3, <2>4, ChainAssumption, GatewayAssumption
  <2>6. InTheLoop'
    BY <1>1, <2>1, <2>2, <2>3, <2>5 DEF InTheLoop
  <2>7. QED
    BY <1>1, <1>2, <2>1, <2>2, <2>6 DEF CInv, Waiting
<1>7. CASE EcuPolls
  <2>1. /\ GInv' /\ UNCHANGED <<loop, toEcu, fromEcu>>
        /\ since'.latency = since.latency
    BY <1>7, EcuPollsKeepsGInv DEF CInv
  <2>2. UnderWay' = UnderWay
    BY <2>1 DEF UnderWay
  <2>3. /\ Outbound => Outbound'
        /\ InTheLoop => InTheLoop'
        /\ Homeward => Homeward'
        /\ Nowhere => Nowhere'
    BY <1>1, <2>1, <2>2 DEF Outbound, InTheLoop, Homeward, Nowhere
  <2>4. QED
    BY <1>1, <1>2, <2>1, <2>3 DEF CInv, Waiting
<1>8. QED
  BY <1>1, <1>4, <1>5, <1>6, <1>7

LEMMA LosingKeepsCInv ==
  ASSUME CInv, LoseHop
  PROVE  CInv'
<1>1. /\ program # "other"
      /\ \/ toGateway # <<>> /\ toGateway' = Tail(toGateway)
            /\ UNCHANGED toClient
         \/ toClient # <<>> /\ toClient' = Tail(toClient)
            /\ UNCHANGED toGateway
      /\ UNCHANGED <<program, exchange, hop, loop, toEcu, fromEcu, since>>
  BY DEF LoseHop, OthersStay, ClientStays
<1>2. Waiting /\ (Outbound \/ Homeward)
  BY <1>1 DEF CInv, InTheLoop, Nowhere
<1>3. Nowhere'
  BY <1>1, <1>2, OneMessage DEF Outbound, Homeward, Nowhere
<1>4. GInv' /\ ExchangeTyped'
  BY <1>1, StutterKeepsGInv DEF CInv, gvars, ExchangeTyped
<1>5. QED
  BY <1>1, <1>2, <1>3, <1>4 DEF CInv, Waiting

\* A tick lengthens the client's wait by one, and with it the age of the
\* message, or the gateway's wait, that the bound is made of.
LEMMA ChainTickKeepsCInv ==
  ASSUME CInv, ChainTick
  PROVE  CInv'
<1>1. /\ program # "other" /\ Tick
      /\ Hopping => hop < MaxHop
      /\ hop' = IF Hopping THEN hop + 1 ELSE 0
      /\ exchange' = [exchange EXCEPT !.waited =
                        IF Waiting /\ exchange.waited < ClientTimeout
                        THEN exchange.waited + 1 ELSE exchange.waited]
      /\ UNCHANGED <<program, toGateway, toClient>>
  BY DEF ChainTick
<1>2. /\ GInv' /\ UNCHANGED <<toEcu, fromEcu>>
      /\ loop'.at = loop.at
      /\ UnderWay => since'.latency = since.latency + 1
      /\ loop.at = "await" /\ ~UnderWay => loop'.waited = loop.waited + 1
  BY <1>1, TickKeepsGInv DEF CInv
<1>3. hop \in 0 .. MaxHop /\ exchange.waited \in Nat
  BY DEF CInv, ExchangeTyped
<1>4. exchange' = [at |-> exchange.at, step |-> exchange.step,
                   asked |-> exchange.asked, waited |-> exchange'.waited]
      /\ exchange'.waited \in {exchange.waited, exchange.waited + 1}
      /\ (~Waiting => exchange'.waited = exchange.waited)
  BY <1>1 DEF CInv, ExchangeTyped
<1>5. hop' \in 0 .. MaxHop
  BY <1>1, <1>3, ChainAssumption
<1>6. ExchangeTyped' /\ exchange'.at = exchange.at
  BY <1>3, <1>4, <1>5 DEF CInv, ExchangeTyped
<1>7. exchange'.waited <= exchange.waited + 1 /\ exchange'.waited \in Nat
  BY <1>3, <1>4
<1>8. CASE Waiting
  <2>1. ASSUME Outbound
        PROVE  Outbound'
    <3>1. Hopping /\ hop' = hop + 1
      BY <1>1, <2>1, OneMessage DEF Outbound, Hopping
    <3>2. exchange'.waited <= hop'
      BY <1>3, <1>7, <2>1, <3>1, ChainAssumption DEF Outbound
    <3>3. QED
      BY <1>1, <1>2, <2>1, <3>2 DEF Outbound
  <2>2. ASSUME InTheLoop
        PROVE  InTheLoop'
    <3>1. /\ since.latency \in 0 .. MaxLatency
          /\ loop.waited \in 0 .. EcuTimeout
      BY DEF CInv, GInv, LatencyTyped, LoopTyped
    <3>2. UnderWay' = UnderWay
      BY <1>2 DEF UnderWay
    <3>3. UnderWay => exchange'.waited <= MaxHop + since'.latency
      BY <1>2, <1>3, <1>7, <2>2, <3>1, ChainAssumption, GatewayAssumption
      DEF InTheLoop
    <3>4. ~UnderWay => exchange'.waited <= MaxHop + MaxLatency + loop'.waited
      <4>1. ~UnderWay => loop.at = "await"
        BY <2>2 DEF InTheLoop, UnderWay
      <4>2. QED
        BY <1>2, <1>3, <1>7, <2>2, <3>1, <4>1, ChainAssumption,
           GatewayAssumption
        DEF InTheLoop
    <3>5. QED
      BY <1>1, <1>2, <2>2, <3>2, <3>3, <3>4 DEF InTheLoop
  <2>3. ASSUME Homeward
        PROVE  Homeward'
    <3>1. Hopping /\ hop' = hop + 1
      BY <1>1, <1>8, <2>3, OneMessage DEF Homeward, Hopping
    <3>2. exchange'.waited <= MaxHop + MaxLatency + EcuTimeout + hop'
      BY <1>3, <1>7, <2>3, <3>1, ChainAssumption, GatewayAssumption
      DEF Homeward
    <3>3. QED
      BY <1>1, <1>2, <2>3, <3>2 DEF Homeward
  <2>4. Nowhere => Nowhere'
    BY <1>1, <1>2 DEF Nowhere
  <2>5. QED
    BY <1>1, <1>2, <1>6, <1>8, <2>1, <2>2, <2>3, <2>4 DEF CInv, Waiting
<1>9. CASE ~Waiting
  <2>1. Nowhere' /\ exchange'.waited = 0
    BY <1>1, <1>2, <1>4, <1>9 DEF CInv, Nowhere
  <2>2. QED
    BY <1>1, <1>2, <1>6, <1>9, <2>1 DEF CInv, Waiting
<1>10. QED
  BY <1>8, <1>9

LEMMA OtherTesterKeepsCInv ==
  ASSUME MaxLatency < EcuTimeout, CInv, OtherTester
  PROVE  CInv'
<1>1. /\ program = "other" /\ Next
      /\ UNCHANGED <<program, exchange, toGateway, hop>>
  BY DEF OtherTester, ClientStays
<1>2. GInv'
  BY <1>1, NextGInv DEF CInv
<1>3. QED
  BY <1>1, <1>2 DEF CInv, ExchangeTyped, Waiting

-----------------------------------------------------------------------------
LEMMA ChainInitCInv == ChainInit => CInv
<1> SUFFICES ASSUME ChainInit
             PROVE  CInv
  OBVIOUS
<1>1. GInv
  BY InitGInv DEF ChainInit
<1>2. loop.at = "idle"
  BY DEF ChainInit, Init, Resting
<1>3. ExchangeTyped /\ ~Waiting /\ exchange.waited = 0
  BY ChainAssumption DEF ChainInit, ExchangeTyped, Waiting
<1>4. QED
  BY <1>1, <1>2, <1>3 DEF ChainInit, CInv, Nowhere

LEMMA ChainNextCInv ==
  ASSUME MaxLatency < EcuTimeout, CInv, [ChainNext]_chainVars
  PROVE  CInv'
<1>1. CASE ConsoleCommand \/ ConsoleKey \/ TesterStep
  <2>1. program # "other" /\ \E req : Send(req)
    BY <1>1 DEF ConsoleCommand, ConsoleKey, ConsoleSends, TesterStep
  <2>2. QED
    BY <2>1, SendKeepsCInv
<1>2. CASE TakeAnswer
  BY <1>2, TakeAnswerKeepsCInv
<1>3. CASE ClientGivesUp
  BY <1>3, GivingUpKeepsCInv
<1>4. CASE GatewayJudges
  BY <1>4, JudgingKeepsCInv
<1>5. CASE GatewayRelays
  BY <1>5, RelayingKeepsCInv
<1>6. CASE Behind
  BY <1>6, BehindKeepsCInv
<1>7. CASE LoseHop
  BY <1>7, LosingKeepsCInv
<1>8. CASE ChainTick
  BY <1>8, ChainTickKeepsCInv
<1>9. CASE OtherTester
  BY <1>9, OtherTesterKeepsCInv
<1>10. CASE UNCHANGED chainVars
  <2>1. /\ UNCHANGED gvars
        /\ UNCHANGED <<program, exchange, toGateway, toClient, hop>>
    BY <1>10 DEF chainVars, vars, gvars
  <2>2. GInv'
    BY <2>1, StutterKeepsGInv DEF CInv
  <2>3. QED
    BY <2>1, <2>2 DEF CInv, ExchangeTyped, Waiting, Outbound, InTheLoop,
                      Homeward, Nowhere, UnderWay, gvars
<1>11. QED
  BY <1>1, <1>2, <1>3, <1>4, <1>5, <1>6, <1>7, <1>8, <1>9, <1>10
  DEF ChainNext

LEMMA ChainInvariance ==
  ASSUME MaxLatency < EcuTimeout
  PROVE  ChainSpec => []CInv
<1>1. CInv /\ [ChainNext]_chainVars => CInv'
  BY ChainNextCInv
<1>2. QED
  BY ChainInitCInv, <1>1, PTL DEF ChainSpec

\* A client that has its answer, or has given it up, has left nothing of its
\* request behind: the next answer it reads is its next request's.
THEOREM ChainClosed ==
  ASSUME MaxLatency < EcuTimeout
  PROVE  ChainSpec => []ChainIsClosed
<1>1. CInv => ChainIsClosed
  BY DEF CInv, GInv, ExchangesAreClosed, Nowhere, ChainIsClosed
<1>2. QED
  BY ChainInvariance, <1>1, PTL

\* The same of the gateway inside the chain: its exchanges do not overlap.
THEOREM ChainedExchangesClosed ==
  ASSUME MaxLatency < EcuTimeout
  PROVE  ChainSpec => []ExchangesAreClosed
<1>1. CInv => ExchangesAreClosed
  BY DEF CInv, GInv
<1>2. QED
  BY ChainInvariance, <1>1, PTL

-----------------------------------------------------------------------------
(* 3. The console's prompt.                                                *)
(*                                                                         *)
(* On a chain that loses nothing every unlock of the ECU is either on      *)
(* display or on its way there, in the one message that is under way; and  *)
(* no answer that would take it off the display comes from an ECU that is  *)
(* still unlocked.  Of the ECU it needs no more than how each handler      *)
(* moves the level, and what it answers.                                   *)

\* A record with the fields of a context and one of the two levels.
Shape(c) ==
  /\ c = [session |-> c.session, security_level |-> c.security_level,
          last_activity |-> c.last_activity,
          current_seed |-> c.current_seed, seed_pending |-> c.seed_pending,
          failed_attempts |-> c.failed_attempts,
          lockout_until |-> c.lockout_until, locked_out |-> c.locked_out,
          seed_state |-> c.seed_state]
  /\ c.security_level \in {"locked", "level1"}

\* d comes from c and has not gained the level.
NoHigher(d, c) ==
  Shape(d) /\ d.security_level \in {"locked", c.security_level}

ConsoleShape ==
  console = [session |-> console.session, security |-> console.security,
             seed |-> console.seed, haveSeed |-> console.haveSeed]

\* The answers that make the prompt show the level, and those that take it
\* off.
ShowsUnlock(r) ==
  r.kind = "positive" /\ r.sid = "SecurityAccess" /\ r.sub # 1

HidesUnlock(r) ==
  /\ r.kind = "positive"
  /\ r.sid = "ECUReset" \/ (r.sid = "SessionControl" /\ r.sub # 3)

\* r is on its way to the client, on either bus.
Coming(r) == fromEcu = <<r>> \/ toClient = <<r>>

\* An unlocked ECU is on display and stays there, or soon will be.
UnlockIsTold ==
  \/ console.security = "level1" /\ \A r : Coming(r) => ~HidesUnlock(r)
  \/ \E r : Coming(r) /\ ShowsUnlock(r)

\* The inductive invariant.
PromptInv ==
  /\ CInv /\ Shape(ecu) /\ ConsoleShape /\ lost \in Nat
  /\ program = "console" /\ lost = 0 /\ ecu.security_level = "level1"
       => UnlockIsTold

-----------------------------------------------------------------------------
(* What the operators on contexts do to the level.                         *)

LEMMA LevelNeverRises ==
  ASSUME NEW c, Shape(c)
  PROVE  /\ NoHigher(c, c)
         /\ NoHigher(Ecu!FallBack(c), c)
         /\ Ecu!FallBack(c).security_level = "locked"
         /\ NoHigher(Ecu!LiftLockout(c), c)
         /\ NoHigher([c EXCEPT !.session = "extended"], c)
         /\ NoHigher([c EXCEPT !.seed_pending = FALSE], c)
         /\ NoHigher([c EXCEPT !.last_activity = now], c)
         /\ NoHigher(Ecu!Challenge(c), c)
         /\ NoHigher(Ecu!Strike(c), c)
<1>1. NoHigher(c, c)
  BY DEF NoHigher
<1>2. ASSUME NEW d, d = Ecu!FallBack(c)
      PROVE  NoHigher(d, c) /\ d.security_level = "locked"
  BY <1>2 DEF NoHigher, Shape, Ecu!FallBack
<1>3. ASSUME NEW d, d = [c EXCEPT !.locked_out = FALSE,
                                  !.failed_attempts = 0]
      PROVE  NoHigher(d, c)
  BY <1>3 DEF NoHigher, Shape
<1>4. NoHigher(Ecu!LiftLockout(c), c)
  BY <1>1, <1>3, Zenon DEF Ecu!LiftLockout
<1>5. ASSUME NEW d, d = [c EXCEPT !.session = "extended"]
      PROVE  NoHigher(d, c)
  BY <1>5 DEF NoHigher, Shape
<1>6. ASSUME NEW d, d = [c EXCEPT !.seed_pending = FALSE]
      PROVE  NoHigher(d, c)
  BY <1>6 DEF NoHigher, Shape
<1>7. ASSUME NEW d, d = [c EXCEPT !.last_activity = now]
      PROVE  NoHigher(d, c)
  BY <1>7 DEF NoHigher, Shape
<1>8. ASSUME NEW d, d = Ecu!Challenge(c)
      PROVE  NoHigher(d, c)
  BY <1>8 DEF NoHigher, Shape, Ecu!Challenge
<1>9. ASSUME NEW d, d = Ecu!Strike(c)
      PROVE  NoHigher(d, c)
  BY <1>9 DEF NoHigher, Shape, Ecu!Strike
<1>10. QED
  BY <1>1, <1>2, <1>4, <1>5, <1>6, <1>7, <1>8, <1>9, Zenon

\* A failed key and the bar it may bring.
LEMMA StrikeNeverRaises ==
  ASSUME NEW c, Shape(c)
  PROVE  NoHigher(Ecu!Bar(Ecu!Strike(c)), c)
<1> DEFINE s == Ecu!Strike(c)
<1>1. NoHigher(s, c)
  BY LevelNeverRises
<1> HIDE DEF s
<1>2. ASSUME NEW t, NEW d, d = [s EXCEPT !.locked_out = TRUE,
                                         !.lockout_until = t]
      PROVE  NoHigher(d, c)
  BY <1>1, <1>2 DEF NoHigher, Shape
<1>3. NoHigher(Ecu!Bar(s), c)
  BY <1>1, <1>2, Zenon DEF Ecu!Bar
<1>4. QED
  BY <1>3 DEF s

LEMMA LevelsCompose ==
  ASSUME NEW c, NEW d, NEW e, NoHigher(e, d), NoHigher(d, c)
  PROVE  NoHigher(e, c)
  BY DEF NoHigher

\* The deadlines can only lock.
LEMMA DeadlinesOnlyLock ==
  ASSUME Shape(ecu)
  PROVE  NoHigher(Ecu!Polled, ecu) /\ NoHigher(Ecu!Refreshed, ecu)
<1> DEFINE d == Ecu!LiftLockout(ecu)
<1>1. NoHigher(d, ecu)
  BY LevelNeverRises
<1> HIDE DEF d
<1>2. NoHigher(Ecu!FallBack(d), d) /\ NoHigher(d, d)
  BY <1>1, LevelNeverRises DEF NoHigher
<1>3. NoHigher(Ecu!Polled, ecu)
  BY <1>1, <1>2, LevelsCompose DEF Ecu!Polled, Ecu!ExpireSession, d
<1> DEFINE e == Ecu!Current
<1>4. NoHigher(e, ecu)
  BY <1>3 DEF Ecu!Current
<1> HIDE DEF e
<1>5. NoHigher([e EXCEPT !.last_activity = now], e)
  BY <1>4, LevelNeverRises DEF NoHigher
<1>6. NoHigher([e EXCEPT !.last_activity = now], ecu)
  BY <1>4, <1>5, LevelsCompose
<1>7. QED
  BY <1>3, <1>6 DEF Ecu!Refreshed, e

\* The ECU unlocks with an answer that says so, and never answers a return
\* to the default session or a reset and stays unlocked.
LEMMA EcuAnswersItsLevel ==
  ASSUME Shape(ecu), NEW req, NEW o, Ecu!HandleRequest(req, o)
  PROVE  /\ Shape(ecu')
         /\ \/ ShowsUnlock(response')
            \/ /\ NoHigher(ecu', ecu)
               /\ HidesUnlock(response') => ecu'.security_level = "locked"
<1> DEFINE c == Ecu!Refreshed
<1>1. NoHigher(c, ecu) /\ NoHigher(Ecu!Current, ecu) /\ Shape(c)
  BY DeadlinesOnlyLock DEF NoHigher, Ecu!Current
<1> HIDE DEF c
<1>2. /\ NoHigher(Ecu!FallBack(c), ecu)
      /\ Ecu!FallBack(c).security_level = "locked"
      /\ NoHigher([c EXCEPT !.session = "extended"], ecu)
      /\ NoHigher([c EXCEPT !.seed_pending = FALSE], ecu)
      /\ NoHigher(Ecu!Challenge(c), ecu)
      /\ NoHigher(Ecu!Bar(Ecu!Strike(c)), ecu)
  BY <1>1, LevelNeverRises, StrikeNeverRaises, LevelsCompose, Zenon
<1>3. CASE Ecu!SecurityAccess(req)
  <2>1. \/ \E nrc : Ecu!Refuse(c, req, nrc)
        \/ req.sub = 1 /\ Ecu!RequestSeed(c, req)
        \/ req.sub = 2 /\ Ecu!SendKey(c, req)
    BY <1>3 DEF Ecu!SecurityAccess, c
  <2>2. req.sid = "SecurityAccess"
    BY <1>3 DEF Ecu!SecurityAccess, Ecu!Dispatched
  <2>3. CASE \E nrc : Ecu!Refuse(c, req, nrc)
    BY <1>1, <2>3 DEF Ecu!Refuse, HidesUnlock, NoHigher
  <2>4. CASE req.sub = 1 /\ Ecu!RequestSeed(c, req)
    <3>1. /\ ecu' \in {c, Ecu!Challenge(c), [c EXCEPT !.seed_pending = FALSE]}
          /\ response'.sid = "SecurityAccess"
      BY <2>2, <2>4 DEF Ecu!RequestSeed, Ecu!AnswerWith, Ecu!Refuse
    <3>2. NoHigher(ecu', ecu)
      BY <1>1, <1>2, <3>1
    <3>3. QED
      BY <3>1, <3>2 DEF HidesUnlock, NoHigher
  <2>5. CASE req.sub = 2 /\ Ecu!SendKey(c, req)
    <3>1. CASE Ecu!Answer(Ecu!Grant(c), req)
      <4>1. /\ ecu' = Ecu!Grant(c) /\ ShowsUnlock(response')
        BY <2>2, <2>5, <3>1 DEF Ecu!Answer, Ecu!AnswerWith, ShowsUnlock
      <4>2. ASSUME NEW d, d = Ecu!Grant(c)
            PROVE  Shape(d)
        BY <1>1, <4>2 DEF Shape, Ecu!Grant
      <4>3. QED
        BY <4>1, <4>2
    <3>2. CASE ~Ecu!Answer(Ecu!Grant(c), req)
      <4>1. /\ ecu' \in {c, Ecu!Bar(Ecu!Strike(c))}
            /\ response'.kind = "negative"
        BY <2>5, <3>2 DEF Ecu!SendKey, Ecu!WrongKey, Ecu!Refuse
      <4>2. NoHigher(ecu', ecu)
        BY <1>1, <1>2, <4>1
      <4>3. QED
        BY <4>1, <4>2 DEF HidesUnlock, NoHigher
    <3>3. QED
      BY <3>1, <3>2
  <2>6. QED
    BY <2>1, <2>3, <2>4, <2>5
<1>4. CASE ~Ecu!SecurityAccess(req)
  <2>1. /\ ecu' \in {c, Ecu!FallBack(c), [c EXCEPT !.session = "extended"],
                    Ecu!Current}
        /\ HidesUnlock(response') => ecu' = Ecu!FallBack(c)
    <3>1. CASE Ecu!SessionControl(req)
      BY <3>1
      DEF Ecu!SessionControl, Ecu!Dispatched, Ecu!AnswerUnlessSuppressed,
          Ecu!EnterSession, Ecu!Silent, Ecu!Refuse, Ecu!Answer,
          Ecu!AnswerWith, HidesUnlock, c
    <3>2. CASE Ecu!ECUReset(req, o)
      BY <3>2
      DEF Ecu!ECUReset, Ecu!Dispatched, Ecu!Refuse, Ecu!Answer,
          Ecu!AnswerWith, HidesUnlock, c
    <3>3. CASE ~Ecu!SessionControl(req) /\ ~Ecu!ECUReset(req, o)
      BY <1>4, <3>3
      DEF Ecu!HandleRequest, Ecu!EmptyRequest, Ecu!UnknownService,
          Ecu!AccessRefused, Ecu!TesterPresent, Ecu!ReadData, Ecu!ReadDTC,
          Ecu!ClearDTC, Ecu!Dispatched, Ecu!AnswerUnlessSuppressed,
          Ecu!Provide, Ecu!Silent, Ecu!Refuse, Ecu!Answer, Ecu!AnswerWith,
          HidesUnlock, c
    <3>4. QED
      BY <3>1, <3>2, <3>3
  <2>2. NoHigher(ecu', ecu)
    BY <1>1, <1>2, <2>1
  <2>3. HidesUnlock(response') => ecu'.security_level = "locked"
    BY <1>2, <2>1
  <2>4. QED
    BY <2>2, <2>3 DEF NoHigher
<1>5. QED
  BY <1>3, <1>4

-----------------------------------------------------------------------------
(* The steps.                                                              *)

\* Steps that move no answer, or lose one.
LEMMA QuietKeepsPrompt ==
  ASSUME PromptInv, CInv', UNCHANGED <<program, console>>,
         NoHigher(ecu', ecu), lost' \in {lost, lost + 1},
         lost' = lost => UNCHANGED <<fromEcu, toClient>>
  PROVE  PromptInv'
<1>1. Shape(ecu)' /\ ConsoleShape' /\ lost' \in Nat
  BY DEF PromptInv, NoHigher, ConsoleShape, Shape
<1>2. ASSUME program' = "console", lost' = 0, ecu'.security_level = "level1"
      PROVE  UnlockIsTold'
  <2>1. lost = 0 /\ lost' = lost
    BY <1>2 DEF PromptInv
  <2>2. ecu.security_level = "level1"
    BY <1>2 DEF NoHigher
  <2>3. UnlockIsTold
    BY <1>2, <2>1, <2>2 DEF PromptInv
  <2>4. QED
    BY <2>1, <2>3 DEF UnlockIsTold, Coming
<1>3. QED
  BY <1>1, <1>2 DEF PromptInv

LEMMA SameLevel ==
  ASSUME PromptInv, ecu' = ecu
  PROVE  NoHigher(ecu', ecu)
  BY DEF PromptInv, NoHigher

\* The console takes the one answer that can be on its bus.
LEMMA TakingKeepsPrompt ==
  ASSUME PromptInv, CInv', TakeAnswer
  PROVE  PromptInv'
<1> DEFINE r == Head(toClient)
<1>1. /\ toClient # <<>> /\ toClient' = Tail(toClient) /\ Waiting
      /\ console' = Noted(r)
      /\ UNCHANGED <<program, ecu, lost, loop, fromEcu>>
  BY DEF TakeAnswer, OthersStay
<1>2. Homeward
  BY <1>1 DEF PromptInv, CInv, Outbound, InTheLoop, Nowhere
<1>3. toClient = <<r>> /\ toClient' = <<>> /\ fromEcu = <<>>
  <2>1. fromEcu = <<>>
    BY <1>2 DEF Homeward, PromptInv, CInv, GInv, ExchangesAreClosed
  <2>2. PICK m : toClient = <<m>>
    BY <1>2 DEF Homeward
  <2>3. QED
    BY <1>1, <2>1, <2>2, OneMessage
<1> HIDE DEF r
<1>4. \A m : ~Coming(m)'
  BY <1>1, <1>3, OneMessage DEF Coming
<1>5. ConsoleShape'
  <2>1. CASE program = "console"
    <3>1. console' = PromptAfter(console, r)
      BY <1>1, <2>1 DEF Noted
    <3>2. QED
      BY <3>1 DEF PromptInv, ConsoleShape, PromptAfter
  <2>2. CASE program # "console"
    <3>1. console' = SeedAfter(console, r)
      BY <1>1, <2>2 DEF Noted
    <3>2. QED
      BY <3>1 DEF PromptInv, ConsoleShape, SeedAfter
  <2>3. QED
    BY <2>1, <2>2
<1>6. ASSUME program' = "console", lost' = 0, ecu'.security_level = "level1"
      PROVE  console'.security = "level1"
  <2>1. UnlockIsTold /\ console' = PromptAfter(console, r)
    BY <1>1, <1>6 DEF PromptInv, Noted
  <2>2. \A m : Coming(m) <=> m = r
    BY <1>3, OneMessage DEF Coming
  <2>3. ShowsUnlock(r) \/ (console.security = "level1" /\ ~HidesUnlock(r))
    BY <2>1, <2>2 DEF UnlockIsTold
  <2>4. CASE ShowsUnlock(r)
    BY <2>1, <2>4 DEF ShowsUnlock, PromptAfter, PromptInv, ConsoleShape
  <2>5. CASE console.security = "level1" /\ ~HidesUnlock(r)
    BY <2>1, <2>5 DEF HidesUnlock, PromptAfter, PromptInv, ConsoleShape
  <2>6. QED
    BY <2>3, <2>4, <2>5
<1>7. UnlockIsTold' \/ ~(/\ program' = "console" /\ lost' = 0
                         /\ ecu'.security_level = "level1")
  BY <1>4, <1>6 DEF UnlockIsTold
<1>8. QED
  BY <1>1, <1>5, <1>7 DEF PromptInv, Shape

\* The shadow's own answers are refusals, which the prompt ignores.
LEMMA JudgingKeepsPrompt ==
  ASSUME PromptInv, CInv', GatewayJudges
  PROVE  PromptInv'
<1>1. /\ toGateway # <<>> /\ Admit(Head(toGateway))
      /\ toClient' = IF told' = Nothing THEN toClient
                                        ELSE Append(toClient, told')
      /\ UNCHANGED <<program, console>>
  BY DEF GatewayJudges, ClientStays
<1>2. /\ UNCHANGED <<ecu, lost, fromEcu>> /\ loop.at = "idle"
      /\ told' = Nothing \/ Drops(told')
  BY <1>1 DEF Admit
<1>3. NoHigher(ecu', ecu)
  BY <1>2, SameLevel
<1>4. CASE told' = Nothing
  BY <1>1, <1>2, <1>3, <1>4, QuietKeepsPrompt
<1>5. CASE told' # Nothing
  <2>1. program # "other" /\ Waiting /\ Outbound
    BY <1>1 DEF PromptInv, CInv, InTheLoop, Homeward, Nowhere
  <2>2. fromEcu = <<>> /\ toClient = <<>>
    BY <2>1 DEF Outbound, PromptInv, CInv, GInv, ExchangesAreClosed
  <2>3. toClient' = <<told'>> /\ fromEcu' = <<>>
    BY <1>1, <1>2, <1>5, <2>2, OneMessage
  <2>4. (\A m : ~Coming(m)) /\ (\A m : Coming(m)' => m = told')
    BY <2>2, <2>3, OneMessage DEF Coming
  <2>5. ~HidesUnlock(told')
    BY <1>2, <1>5 DEF Drops, HidesUnlock
  <2>6. UnlockIsTold => UnlockIsTold'
    BY <1>1, <2>4, <2>5 DEF UnlockIsTold
  <2>7. Shape(ecu)' /\ ConsoleShape'
    BY <1>1, <1>2 DEF PromptInv, ConsoleShape, Shape
  <2>8. QED
    BY <1>1, <1>2, <2>6, <2>7 DEF PromptInv
<1>6. QED
  BY <1>4, <1>5

\* The ECU's answer changes buses.
LEMMA RelayingKeepsPrompt ==
  ASSUME PromptInv, CInv', GatewayRelays
  PROVE  PromptInv'
<1>1. /\ program # "other" /\ ReceiveAnswer
      /\ toClient' = Append(toClient, told')
      /\ UNCHANGED <<program, console>>
  BY DEF GatewayRelays, ClientStays
<1>2. /\ loop.at = "await" /\ fromEcu # <<>> /\ told' = Head(fromEcu)
      /\ fromEcu' = Tail(fromEcu) /\ UNCHANGED <<ecu, lost>>
  BY <1>1 DEF ReceiveAnswer
<1>3. PICK r : fromEcu = <<r>>
  BY <1>2 DEF PromptInv, CInv, GInv, AtMostOne
<1>4. toClient = <<>>
  BY <1>1, <1>2, BusyMeansWaiting DEF PromptInv, InTheLoop
<1>5. fromEcu' = <<>> /\ toClient' = <<r>>
  BY <1>1, <1>2, <1>3, <1>4, OneMessage
<1>6. \A m : Coming(m)' <=> Coming(m)
  BY <1>3, <1>4, <1>5, OneMessage DEF Coming
<1>7. UnlockIsTold => UnlockIsTold'
  BY <1>1, <1>6 DEF UnlockIsTold
<1>8. Shape(ecu)' /\ ConsoleShape'
  BY <1>1, <1>2 DEF PromptInv, ConsoleShape, Shape
<1>9. QED
  BY <1>1, <1>2, <1>7, <1>8 DEF PromptInv

\* An unlock leaves the ECU together with the answer that tells of it.
LEMMA HandlingKeepsPrompt ==
  ASSUME PromptInv, CInv', program # "other", EcuHandles,
         UNCHANGED <<program, console, toClient>>
  PROVE  PromptInv'
<1>1. PICK req, o : Ecu!HandleRequest(req, o)
  BY DEF EcuHandles
<1>2. /\ toEcu # <<>> /\ lost' = lost
      /\ fromEcu' = IF response'.kind = "silent"
                    THEN fromEcu ELSE Append(fromEcu, response')
  BY DEF EcuHandles
<1>3. Shape(ecu) /\ CInv
  BY DEF PromptInv
<1>4. /\ Shape(ecu')
      /\ \/ ShowsUnlock(response')
         \/ /\ NoHigher(ecu', ecu)
            /\ HidesUnlock(response') => ecu'.security_level = "locked"
  BY <1>1, <1>3, EcuAnswersItsLevel
<1>5. loop.at # "idle"
  BY <1>2, <1>3 DEF CInv, GInv, ExchangesAreClosed
<1>6. fromEcu = <<>> /\ toClient = <<>>
  BY <1>2, <1>3, <1>5, BusyMeansWaiting DEF InTheLoop, CInv, GInv, AtMostOne
<1>7. /\ fromEcu' \in {<<>>, <<response'>>} /\ toClient' = <<>>
      /\ ShowsUnlock(response') => fromEcu' = <<response'>>
  BY <1>2, <1>6, OneMessage DEF ShowsUnlock
<1>8. (\A m : ~Coming(m)) /\ (\A m : Coming(m)' => m = response')
  BY <1>6, <1>7, OneMessage DEF Coming
<1>9. ASSUME program' = "console", lost' = 0, ecu'.security_level = "level1"
      PROVE  UnlockIsTold'
  <2>1. CASE ShowsUnlock(response')
    BY <1>7, <2>1 DEF UnlockIsTold, Coming
  <2>2. CASE ~ShowsUnlock(response')
    <3>1. ecu.security_level = "level1" /\ ~HidesUnlock(response')
      BY <1>4, <1>9, <2>2 DEF NoHigher
    <3>2. UnlockIsTold
      BY <1>2, <1>9, <3>1 DEF PromptInv
    <3>3. console.security = "level1"
      BY <1>8, <3>2 DEF UnlockIsTold
    <3>4. QED
      BY <1>8, <3>1, <3>3 DEF UnlockIsTold
  <2>3. QED
    BY <2>1, <2>2
<1>10. ConsoleShape' /\ lost' \in Nat
  BY <1>2 DEF PromptInv, ConsoleShape
<1>11. QED
  BY <1>4, <1>9, <1>10 DEF PromptInv, Shape

\* What any step of the gateway and the ECU does to the ECU's context.
LEMMA NextKeepsEcuShape ==
  ASSUME Shape(ecu), lost \in Nat, Next
  PROVE  Shape(ecu') /\ lost' \in Nat
<1>1. CASE EcuHandles
  <2>1. (\E req, o : Ecu!HandleRequest(req, o)) /\ lost' = lost
    BY <1>1 DEF EcuHandles
  <2>2. QED
    BY <2>1, EcuAnswersItsLevel
<1>2. CASE EcuPolls
  <2>1. ecu' = Ecu!Polled /\ lost' = lost
    BY <1>2 DEF EcuPolls, Ecu!Poll
  <2>2. QED
    BY <2>1, DeadlinesOnlyLock DEF NoHigher
<1>3. CASE ~EcuHandles /\ ~EcuPolls
  <2>1. ecu' = ecu /\ lost' \in {lost, lost + 1}
    BY <1>3 DEF Next, AdmitAny, Admit, Forward, ForwardFails, ReceiveAnswer,
                GiveUp, Tick, Lose
  <2>2. QED
    BY <2>1
<1>4. QED
  BY <1>1, <1>2, <1>3

LEMMA BehindKeepsPrompt ==
  ASSUME PromptInv, CInv', Behind
  PROVE  PromptInv'
<1>1. /\ program # "other"
      /\ Forward \/ ForwardFails \/ GiveUp \/ EcuHandles \/ EcuPolls \/ Lose
      /\ UNCHANGED <<program, console, toClient>>
  BY DEF Behind, ClientStays
<1>2. CASE EcuHandles
  BY <1>1, <1>2, HandlingKeepsPrompt
<1>3. CASE EcuPolls
  <2>1. ecu' = Ecu!Polled /\ UNCHANGED <<lost, fromEcu>>
    BY <1>3 DEF EcuPolls, Ecu!Poll
  <2>2. NoHigher(ecu', ecu)
    BY <2>1, DeadlinesOnlyLock DEF PromptInv
  <2>3. QED
    BY <1>1, <2>1, <2>2, QuietKeepsPrompt
<1>4. CASE Forward \/ GiveUp
  <2>1. UNCHANGED <<ecu, lost, fromEcu>>
    BY <1>4 DEF Forward, GiveUp
  <2>2. QED
    BY <1>1, <2>1, SameLevel, QuietKeepsPrompt
<1>5. CASE ForwardFails \/ Lose
  <2>1. ecu' = ecu /\ lost' = lost + 1
    BY <1>5 DEF ForwardFails, Lose
  <2>2. lost' # lost
    BY <2>1 DEF PromptInv
  <2>3. QED
    BY <1>1, <2>1, <2>2, SameLevel, QuietKeepsPrompt
<1>6. QED
  BY <1>1, <1>2, <1>3, <1>4, <1>5

LEMMA ChainInitPrompt == ChainInit => PromptInv
<1> SUFFICES ASSUME ChainInit
             PROVE  PromptInv
  OBVIOUS
<1>1. CInv
  BY ChainInitCInv
<1>2. Shape(ecu) /\ ecu.security_level = "locked"
  BY DEF ChainInit, Init, Ecu!Init, Shape
<1>3. ConsoleShape /\ lost = 0
  BY DEF ChainInit, Init, ConsoleShape
<1>4. QED
  BY <1>1, <1>2, <1>3 DEF PromptInv

LEMMA ChainNextPrompt ==
  ASSUME MaxLatency < EcuTimeout, PromptInv, [ChainNext]_chainVars
  PROVE  PromptInv'
<1>1. CInv'
  BY ChainNextCInv DEF PromptInv
<1>2. CASE ConsoleCommand \/ ConsoleKey \/ TesterStep
  <2>1. PICK req : Send(req)
    BY <1>2 DEF ConsoleCommand, ConsoleKey, ConsoleSends, TesterStep
  <2>2. /\ UNCHANGED <<program, console, ecu, fromEcu, toClient>>
        /\ lost' \in {lost, lost + 1}
    BY <2>1 DEF Send, OthersStay
  <2>3. QED
    BY <1>1, <2>2, SameLevel, QuietKeepsPrompt
<1>3. CASE ClientGivesUp
  <2>1. UNCHANGED <<program, console, ecu, fromEcu, toClient, lost>>
    BY <1>3 DEF ClientGivesUp, OthersStay
  <2>2. QED
    BY <1>1, <2>1, SameLevel, QuietKeepsPrompt
<1>4. CASE LoseHop
  <2>1. UNCHANGED <<program, console, ecu>> /\ lost' = lost + 1
    BY <1>4 DEF LoseHop, OthersStay, ClientStays
  <2>2. lost' # lost
    BY <2>1 DEF PromptInv
  <2>3. QED
    BY <1>1, <2>1, <2>2, SameLevel, QuietKeepsPrompt
<1>5. CASE ChainTick
  <2>1. UNCHANGED <<program, console, ecu, fromEcu, toClient, lost>>
    BY <1>5 DEF ChainTick, Tick
  <2>2. QED
    BY <1>1, <2>1, SameLevel, QuietKeepsPrompt
<1>6. CASE OtherTester
  <2>1. program = "other" /\ Next /\ UNCHANGED <<program, console>>
    BY <1>6 DEF OtherTester, ClientStays
  <2>2. Shape(ecu') /\ lost' \in Nat
    BY <2>1, NextKeepsEcuShape DEF PromptInv
  <2>3. ConsoleShape' /\ program' # "console"
    BY <2>1 DEF PromptInv, ConsoleShape
  <2>4. QED
    BY <1>1, <2>2, <2>3 DEF PromptInv, Shape
<1>7. CASE UNCHANGED chainVars
  <2>1. UNCHANGED <<program, console, ecu, fromEcu, toClient, lost>>
    BY <1>7 DEF chainVars, vars
  <2>2. QED
    BY <1>1, <2>1, SameLevel, QuietKeepsPrompt
<1>8. CASE TakeAnswer
  BY <1>1, <1>8, TakingKeepsPrompt
<1>9. CASE GatewayJudges
  BY <1>1, <1>9, JudgingKeepsPrompt
<1>10. CASE GatewayRelays
  BY <1>1, <1>10, RelayingKeepsPrompt
<1>11. CASE Behind
  BY <1>1, <1>11, BehindKeepsPrompt
<1>12. QED
  BY <1>2, <1>3, <1>4, <1>5, <1>6, <1>7, <1>8, <1>9, <1>10, <1>11
  DEF ChainNext

\* A console that is ready for a command, on a chain that has lost nothing,
\* shows every unlock the ECU still grants.
THEOREM UnlocksAreDisplayed ==
  ASSUME MaxLatency < EcuTimeout
  PROVE  ChainSpec => []PromptNeverHidesAuthority
<1>1. PromptInv /\ [ChainNext]_chainVars => PromptInv'
  BY ChainNextPrompt
<1>2. PromptInv => PromptNeverHidesAuthority
  <2> SUFFICES ASSUME PromptInv, program = "console", ~Waiting, lost = 0,
                      Ecu!Polled.security_level = "level1"
               PROVE  console.security = "level1"
    BY DEF PromptNeverHidesAuthority
  <2>1. ecu.security_level = "level1"
    BY DeadlinesOnlyLock DEF PromptInv, NoHigher
  <2>2. UnlockIsTold
    BY <2>1 DEF PromptInv
  <2>3. fromEcu = <<>> /\ toClient = <<>>
    BY DEF PromptInv, CInv, GInv, ExchangesAreClosed, Nowhere
  <2>4. \A m : ~Coming(m)
    BY <2>3, OneMessage DEF Coming
  <2>5. QED
    BY <2>2, <2>4 DEF UnlockIsTold
<1>3. QED
  BY ChainInitPrompt, <1>1, <1>2, PTL DEF ChainSpec

-----------------------------------------------------------------------------
(* 4. What a request makes of a server.                                    *)
(*                                                                         *)
(* Shadow and ECU are the same server.  One statement of what handling a   *)
(* request does to a context (Handled), and of what comes of it (Effect),  *)
(* serves for both.                                                        *)

\* What is assumed of the servers' constants.
ServersAssumed == Shadow!ClockAssumption /\ Shadow!SecurityAssumption

Typed(c) ==
  /\ Shape(c)
  /\ c.session \in {"default", "extended"}
  /\ c.last_activity \in Shadow!Clock
  /\ c.current_seed \in Seeds
  /\ c.seed_pending \in BOOLEAN /\ c.locked_out \in BOOLEAN
  /\ c.seed_state \in GenStates

\* Nothing is open in the default session, and no challenge beside a bar.
Closed(c) ==
  /\ c.session = "default" => c.security_level = "locked" /\ ~c.seed_pending
  /\ c.seed_pending => ~c.locked_out

\* What the deadlines leave of a context: a live session, an open level, a
\* bar.
Alive(c) ==
  /\ c.session # "default"
  /\ ~(Shadow!Elapsed(now, c.last_activity) >= S3)

Open(c) == Alive(c) /\ c.security_level = "level1"

Barred(c) == c.locked_out /\ ~Shadow!LockoutServed(c)

Polls(c) == Shadow!ExpireSession(Shadow!LiftLockout(c))

\* The requests that move a session, and the one that asks for a seed.
Enters(req) ==
  req.sid = "SessionControl" /\ req.size = "exact" /\ req.sub = 3

Leaves(req) ==
  /\ req.size = "exact"
  /\ \/ req.sid = "SessionControl" /\ req.sub = 1
     \/ req.sid = "ECUReset" /\ req.sub \in {1, 3}

Seeks(req) ==
  req.sid = "SecurityAccess" /\ req.size = "exact" /\ req.sub = 1

\* A handler runs on the request, and has a key to judge.
Serves(c, req) ==
  /\ req.sid \notin {"empty", "unknown"}
  /\ req.sid \in Shadow!NeedsExtended => Alive(c)
  /\ req.sid \in Shadow!NeedsUnlock => Open(c)

Judges(c, req) ==
  /\ SendsKey(req) /\ req.size = "exact"
  /\ Alive(c) /\ ~Barred(c) /\ c.seed_pending

Unlocks(c, req) == Judges(c, req) /\ req.key = KeyOf[c.current_seed]
Strikes(c, req) == Judges(c, req) /\ req.key # KeyOf[c.current_seed]

\* The gateway lets the request through.
Passes(c, req) ==
  /\ Serves(c, req) \/ req.sid \in {"empty", "unknown"}
  /\ req.sid = "SecurityAccess" /\ req.size # "short" => ~Barred(c)
  /\ ~Strikes(c, req)

\* d is what a server makes of c when it handles req.
Handled(c, d, req) ==
  LET p == Polls(c)
      e == [p EXCEPT !.last_activity = now]
  IN
  \/ ~Serves(c, req) /\ d = p
  \/ /\ Serves(c, req)
     /\ \/ /\ ~Enters(req) /\ ~Leaves(req) /\ ~Judges(c, req)
           /\ ~(Seeks(req) /\ ~Barred(c))
           /\ d = e
        \/ Enters(req) /\ d = [e EXCEPT !.session = "extended"]
        \/ Leaves(req) /\ d = Shadow!FallBack(e)
        \/ /\ Seeks(req) /\ ~Barred(c)
           /\ \/ c.security_level # "locked"
                 /\ d = [e EXCEPT !.seed_pending = FALSE]
              \/ c.security_level = "locked" /\ d = Shadow!Challenge(e)
        \/ Unlocks(c, req) /\ d = Shadow!Grant(e)
        \/ Strikes(c, req) /\ d = Shadow!Bar(Shadow!Strike(e))

\* What comes of it.
Effect(c, d, req) ==
  /\ Typed(d) /\ Closed(d)
  /\ d.session # "default" => Alive(d)
  /\ d.last_activity = IF Serves(c, req) THEN now ELSE c.last_activity
  /\ Alive(d) <=> Enters(req)
                  \/ (Alive(c) /\ ~(Serves(c, req) /\ Leaves(req)))
  /\ Alive(d) =>
       /\ d.security_level = IF Unlocks(c, req) THEN "level1"
                             ELSE IF Alive(c) THEN c.security_level
                             ELSE "locked"
       /\ d.seed_pending <=>
            /\ Alive(c)
            /\ IF Seeks(req) /\ ~Barred(c) THEN c.security_level = "locked"
               ELSE c.seed_pending /\ ~Judges(c, req)
       /\ ~Seeks(req) => d.current_seed = c.current_seed
  /\ ~Strikes(c, req) =>
       /\ d.locked_out <=> Barred(c)
       /\ c.failed_attempts = 0 => d.failed_attempts = 0
  /\ Strikes(c, req) /\ c.failed_attempts = 0 /\ MaxAttempts > 1 =>
       ~d.locked_out

-----------------------------------------------------------------------------
(* What the operators on contexts and a request do.                        *)

LEMMA AgeOfNow ==
  ASSUME ServersAssumed, now \in Shadow!Clock
  PROVE  ~(Shadow!Elapsed(now, now) >= S3)
  BY DEF ServersAssumed, Shadow!ClockAssumption, Shadow!Clock, Shadow!Elapsed

LEMMA LiftFields ==
  ASSUME NEW c, Typed(c), Closed(c), NEW d, d = Shadow!LiftLockout(c)
  PROVE  /\ Typed(d) /\ Closed(d)
         /\ d.session = c.session /\ d.security_level = c.security_level
         /\ d.last_activity = c.last_activity
         /\ d.seed_pending = c.seed_pending
         /\ d.current_seed = c.current_seed
         /\ d.locked_out <=> Barred(c)
         /\ c.failed_attempts = 0 => d.failed_attempts = 0
<1>1. CASE Shadow!LockoutServed(c)
  <2>1. d = [c EXCEPT !.locked_out = FALSE, !.failed_attempts = 0]
    BY <1>1 DEF Shadow!LiftLockout
  <2>2. QED
    BY <1>1, <2>1 DEF Typed, Closed, Shape, Barred
<1>2. CASE ~Shadow!LockoutServed(c)
  BY <1>2 DEF Shadow!LiftLockout, Barred, Typed
<1>3. QED
  BY <1>1, <1>2

\* Both deadlines evaluated.
LEMMA PolledFields ==
  ASSUME NEW c, Typed(c), Closed(c), NEW d, d = Polls(c)
  PROVE  /\ Typed(d) /\ Closed(d)
         /\ d.session = IF Alive(c) THEN "extended" ELSE "default"
         /\ d.security_level = IF Alive(c) THEN c.security_level ELSE "locked"
         /\ d.last_activity = c.last_activity
         /\ d.seed_pending <=> Alive(c) /\ c.seed_pending
         /\ d.current_seed = c.current_seed
         /\ d.locked_out <=> Barred(c)
         /\ c.failed_attempts = 0 => d.failed_attempts = 0
<1> DEFINE m == Shadow!LiftLockout(c)
<1>1. /\ Typed(m) /\ Closed(m)
      /\ m.session = c.session /\ m.security_level = c.security_level
      /\ m.last_activity = c.last_activity
      /\ m.seed_pending = c.seed_pending
      /\ m.current_seed = c.current_seed
      /\ m.locked_out <=> Barred(c)
      /\ c.failed_attempts = 0 => m.failed_attempts = 0
  BY LiftFields
<1>2. d = Shadow!ExpireSession(m)
  BY DEF Polls
<1> HIDE DEF m
<1>3. Shadow!SessionExpired(m) <=> c.session # "default" /\ ~Alive(c)
  BY <1>1 DEF Shadow!SessionExpired, Alive
<1>4. CASE Shadow!SessionExpired(m)
  <2>1. d = [m EXCEPT !.session = "default", !.security_level = "locked",
                      !.seed_pending = FALSE]
    BY <1>2, <1>4 DEF Shadow!ExpireSession, Shadow!FallBack
  <2>2. ~Alive(c)
    BY <1>3, <1>4
  <2> HIDE <1>3
  <2>3. QED
    BY <1>1, <2>1, <2>2 DEF Typed, Closed, Shape
<1>5. CASE ~Shadow!SessionExpired(m)
  <2>1. d = m
    BY <1>2, <1>5 DEF Shadow!ExpireSession
  <2>2. Alive(c) <=> c.session # "default"
    BY <1>3, <1>5 DEF Alive
  <2>3. QED
    BY <1>1, <2>1, <2>2 DEF Typed, Closed, Shape
<1>6. QED
  BY <1>4, <1>5

\* What a handler starts from.
LEMMA RefreshedFields ==
  ASSUME ServersAssumed, now \in Shadow!Clock,
         NEW c, Typed(c), Closed(c),
         NEW d, d = [Polls(c) EXCEPT !.last_activity = now]
  PROVE  /\ Typed(d) /\ Closed(d) /\ d.last_activity = now
         /\ d.session = IF Alive(c) THEN "extended" ELSE "default"
         /\ d.security_level = IF Alive(c) THEN c.security_level ELSE "locked"
         /\ d.seed_pending <=> Alive(c) /\ c.seed_pending
         /\ d.current_seed = c.current_seed
         /\ d.locked_out <=> Barred(c)
         /\ c.failed_attempts = 0 => d.failed_attempts = 0
<1> DEFINE p == Polls(c)
<1>1. /\ Typed(p) /\ Closed(p)
      /\ p.session = IF Alive(c) THEN "extended" ELSE "default"
      /\ p.security_level = IF Alive(c) THEN c.security_level ELSE "locked"
      /\ p.seed_pending <=> Alive(c) /\ c.seed_pending
      /\ p.current_seed = c.current_seed
      /\ p.locked_out <=> Barred(c)
      /\ c.failed_attempts = 0 => p.failed_attempts = 0
  BY PolledFields
<1>2. d = [p EXCEPT !.last_activity = now]
  OBVIOUS
<1> HIDE DEF p
<1>3. QED
  BY <1>1, <1>2 DEF Typed, Closed, Shape

\* Whether a session is live after a request was served.
LEMMA RefreshedIsAlive ==
  ASSUME ServersAssumed, now \in Shadow!Clock, NEW d, d.last_activity = now
  PROVE  Alive(d) <=> d.session # "default"
  BY AgeOfNow DEF Alive

LEMMA HandledEffect ==
  ASSUME ServersAssumed, now \in Shadow!Clock,
         NEW c, Typed(c), Closed(c), NEW d, NEW req, Handled(c, d, req)
  PROVE  Effect(c, d, req)
<1> DEFINE e == [Polls(c) EXCEPT !.last_activity = now]
<1>1. /\ Typed(e) /\ Closed(e) /\ e.last_activity = now
      /\ e.session = IF Alive(c) THEN "extended" ELSE "default"
      /\ e.security_level = IF Alive(c) THEN c.security_level ELSE "locked"
      /\ e.seed_pending <=> Alive(c) /\ c.seed_pending
      /\ e.current_seed = c.current_seed
      /\ e.locked_out <=> Barred(c)
      /\ c.failed_attempts = 0 => e.failed_attempts = 0
  BY RefreshedFields
<1>2. CASE ~Serves(c, req) /\ d = Polls(c)
  <2>1. /\ Typed(d) /\ Closed(d)
        /\ d.session = IF Alive(c) THEN "extended" ELSE "default"
        /\ d.security_level = IF Alive(c) THEN c.security_level ELSE "locked"
        /\ d.last_activity = c.last_activity
        /\ d.seed_pending <=> Alive(c) /\ c.seed_pending
        /\ d.current_seed = c.current_seed
        /\ d.locked_out <=> Barred(c)
        /\ c.failed_attempts = 0 => d.failed_attempts = 0
    BY <1>2, PolledFields
  <2>2. /\ Alive(d) <=> Alive(c)
        /\ d.session # "default" => Alive(d)
    BY <2>1 DEF Alive
  <2>3. ~Enters(req)
    BY <1>2 DEF Enters, Serves, Shadow!NeedsExtended, Shadow!NeedsUnlock
  <2>4. ~Judges(c, req) /\ ~(Alive(c) /\ Seeks(req))
    BY <1>2
    DEF Judges, Seeks, SendsKey, Serves, Shadow!NeedsExtended,
        Shadow!NeedsUnlock
  <2>5. QED
    BY <1>2, <2>1, <2>2, <2>3, <2>4 DEF Effect, Unlocks, Strikes
<1> HIDE DEF e
<1>3. CASE Serves(c, req)
  <2>1. Seeks(req) \/ SendsKey(req) => Alive(c) /\ ~Enters(req) /\ ~Leaves(req)
    BY <1>3
    DEF Seeks, SendsKey, Serves, Enters, Leaves, Shadow!NeedsExtended
  <2>2. Seeks(req) => ~SendsKey(req)
    BY DEF Seeks, SendsKey
  <2>3. Judges(c, req) => SendsKey(req) /\ ~Barred(c) /\ c.seed_pending
                          /\ Alive(c)
    BY DEF Judges
  <2>4. ~(Enters(req) /\ Leaves(req))
    BY DEF Enters, Leaves
  <2>5. CASE /\ ~Enters(req) /\ ~Leaves(req) /\ ~Judges(c, req)
             /\ ~(Seeks(req) /\ ~Barred(c))
             /\ d = e
    <3>1. Alive(d) <=> d.session # "default"
      BY <1>1, <2>5, RefreshedIsAlive
    <3>2. QED
      BY <1>1, <1>3, <2>5, <3>1 DEF Effect, Unlocks, Strikes
  <2>6. CASE Enters(req) /\ d = [e EXCEPT !.session = "extended"]
    <3>1. /\ Typed(d) /\ d.session = "extended"
          /\ d.last_activity = now /\ d.security_level = e.security_level
          /\ d.seed_pending = e.seed_pending
          /\ d.current_seed = e.current_seed /\ d.locked_out = e.locked_out
          /\ d.failed_attempts = e.failed_attempts
      BY <1>1, <2>6 DEF Typed, Shape
    <3>2. Closed(d)
      BY <1>1, <3>1 DEF Closed
    <3>3. Alive(d)
      BY <3>1, RefreshedIsAlive
    <3>4. QED
      BY <1>1, <1>3, <2>1, <2>3, <2>6, <3>1, <3>2, <3>3
      DEF Effect, Unlocks, Strikes, Seeks, Enters
  <2>7. CASE Leaves(req) /\ d = Shadow!FallBack(e)
    <3>1. /\ Typed(d) /\ d.session = "default"
          /\ d.last_activity = now /\ d.security_level = "locked"
          /\ d.seed_pending = FALSE /\ d.locked_out = e.locked_out
          /\ d.failed_attempts = e.failed_attempts
      BY <1>1, <2>7 DEF Typed, Shape, Shadow!FallBack
    <3>2. Closed(d)
      BY <3>1 DEF Closed
    <3>3. ~Alive(d)
      BY <3>1 DEF Alive
    <3>4. ~Strikes(c, req)
      BY <2>7 DEF Strikes, Judges, Leaves, SendsKey
    <3>5. QED
      BY <1>1, <1>3, <2>4, <2>7, <3>1, <3>2, <3>3, <3>4 DEF Effect
  <2>8. CASE /\ Seeks(req) /\ ~Barred(c) /\ c.security_level # "locked"
             /\ d = [e EXCEPT !.seed_pending = FALSE]
    <3>1. /\ Typed(d) /\ d.session = e.session
          /\ d.last_activity = now /\ d.security_level = e.security_level
          /\ d.seed_pending = FALSE /\ d.locked_out = e.locked_out
          /\ d.failed_attempts = e.failed_attempts
      BY <1>1, <2>8 DEF Typed, Shape
    <3>2. Closed(d)
      BY <1>1, <3>1 DEF Closed
    <3>3. Alive(d)
      BY <1>1, <2>1, <2>8, <3>1, RefreshedIsAlive
    <3>4. QED
      BY <1>1, <1>3, <2>1, <2>2, <2>3, <2>8, <3>1, <3>2, <3>3
      DEF Effect, Unlocks, Strikes
  <2>9. CASE /\ Seeks(req) /\ ~Barred(c) /\ c.security_level = "locked"
             /\ d = Shadow!Challenge(e)
    <3>1. /\ Typed(d) /\ d.session = e.session
          /\ d.last_activity = now /\ d.security_level = e.security_level
          /\ d.seed_pending = TRUE /\ d.locked_out = e.locked_out
          /\ d.failed_attempts = e.failed_attempts
      <4>1. /\ Step[e.seed_state] \in GenStates
            /\ SeedOf[Step[e.seed_state]] \in Seeds
        BY <1>1 DEF Typed, ServersAssumed, Shadow!SecurityAssumption
      <4>2. QED
        BY <1>1, <2>9, <4>1 DEF Typed, Shape, Shadow!Challenge
    <3>2. Closed(d)
      BY <1>1, <2>1, <2>9, <3>1 DEF Closed
    <3>3. Alive(d)
      BY <1>1, <2>1, <2>9, <3>1, RefreshedIsAlive
    <3>4. QED
      BY <1>1, <1>3, <2>1, <2>2, <2>3, <2>9, <3>1, <3>2, <3>3
      DEF Effect, Unlocks, Strikes
  <2>10. CASE Unlocks(c, req) /\ d = Shadow!Grant(e)
    <3>1. /\ Typed(d) /\ d.session = e.session
          /\ d.last_activity = now /\ d.security_level = "level1"
          /\ d.seed_pending = FALSE /\ d.locked_out = e.locked_out
          /\ d.current_seed = e.current_seed /\ d.failed_attempts = 0
      BY <1>1, <2>10 DEF Typed, Shape, Shadow!Grant
    <3>2. Judges(c, req) /\ SendsKey(req) /\ Alive(c) /\ ~Barred(c)
      BY <2>3, <2>10 DEF Unlocks
    <3>3. Closed(d)
      BY <1>1, <3>1, <3>2 DEF Closed
    <3>4. Alive(d)
      BY <1>1, <3>1, <3>2, RefreshedIsAlive
    <3>5. ~Seeks(req) /\ ~Strikes(c, req)
      BY <2>2, <2>10, <3>2 DEF Unlocks, Strikes
    <3>6. QED
      BY <1>1, <1>3, <2>1, <2>10, <3>1, <3>2, <3>3, <3>4, <3>5 DEF Effect
  <2>11. CASE Strikes(c, req) /\ d = Shadow!Bar(Shadow!Strike(e))
    <3> DEFINE s == Shadow!Strike(e)
    <3>0. /\ Judges(c, req) /\ SendsKey(req) /\ Alive(c) /\ c.seed_pending
          /\ ~Unlocks(c, req)
      BY <2>3, <2>11 DEF Strikes, Unlocks
    <3>1. /\ Typed(s) /\ s.session = e.session
          /\ s.last_activity = now /\ s.security_level = e.security_level
          /\ s.seed_pending = FALSE /\ s.current_seed = e.current_seed
          /\ s.locked_out = e.locked_out
          /\ s.failed_attempts = e.failed_attempts + 1
      <4>1. s = [e EXCEPT !.failed_attempts = e.failed_attempts + 1,
                          !.seed_pending = FALSE]
        BY DEF Shadow!Strike
      <4> HIDE DEF s
      <4>2. QED
        BY <1>1, <4>1 DEF Typed, Shape
    <3>2. d = Shadow!Bar(s)
      BY <2>11
    <3> HIDE DEF s
    <3>3. /\ Typed(d) /\ d.session = e.session
          /\ d.last_activity = now /\ d.security_level = e.security_level
          /\ d.seed_pending = FALSE /\ d.current_seed = e.current_seed
      <4>1. ASSUME NEW t, d = [s EXCEPT !.locked_out = TRUE,
                                        !.lockout_until = t]
            PROVE  /\ Typed(d) /\ d.session = e.session
                   /\ d.last_activity = now
                   /\ d.security_level = e.security_level
                   /\ d.seed_pending = FALSE
                   /\ d.current_seed = e.current_seed
        BY <3>1, <4>1 DEF Typed, Shape
      <4>2. d = s \/ \E t : d = [s EXCEPT !.locked_out = TRUE,
                                         !.lockout_until = t]
        BY <3>2, Zenon DEF Shadow!Bar
      <4>3. QED
        BY <3>1, <4>1, <4>2
    <3>4. e.session = "extended" /\ ~e.locked_out
      BY <1>1, <3>0, <2>3
    <3>5. Closed(d)
      BY <3>3, <3>4 DEF Closed
    <3>6. Alive(d)
      BY <3>3, <3>4, RefreshedIsAlive
    <3>7. c.failed_attempts = 0 /\ MaxAttempts > 1 => ~d.locked_out
      <4>1. ASSUME c.failed_attempts = 0, MaxAttempts > 1
            PROVE  ~(s.failed_attempts >= MaxAttempts)
        BY <1>1, <3>1, <4>1
        DEF ServersAssumed, Shadow!SecurityAssumption
      <4>2. QED
        BY <3>1, <3>2, <3>4, <4>1 DEF Shadow!Bar
    <3>8. QED
      BY <1>1, <1>3, <2>1, <2>2, <2>11, <3>0, <3>3, <3>4, <3>5, <3>6, <3>7
      DEF Effect
  <2>12. QED
    BY <1>3, <2>5, <2>6, <2>7, <2>8, <2>9, <2>10, <2>11 DEF Handled, e
<1>4. QED
  BY <1>2, <1>3 DEF Handled

-----------------------------------------------------------------------------
(* Shadow and ECU are the same server, and handle requests accordingly.    *)

LEMMA SameOperators ==
  ASSUME NEW c
  PROVE  /\ Ecu!FallBack(c) = Shadow!FallBack(c)
         /\ Ecu!LiftLockout(c) = Shadow!LiftLockout(c)
         /\ Ecu!ExpireSession(c) = Shadow!ExpireSession(c)
         /\ Ecu!Challenge(c) = Shadow!Challenge(c)
         /\ Ecu!Grant(c) = Shadow!Grant(c)
         /\ Ecu!Strike(c) = Shadow!Strike(c)
         /\ Ecu!Bar(c) = Shadow!Bar(c)
<1>1. Ecu!FallBack(c) = Shadow!FallBack(c)
  BY DEF Ecu!FallBack, Shadow!FallBack
<1>2. Ecu!LockoutServed(c) <=> Shadow!LockoutServed(c)
  BY DEF Ecu!LockoutServed, Shadow!LockoutServed, Ecu!Elapsed,
         Shadow!Elapsed, Ecu!ClockRange, Shadow!ClockRange
<1>3. Ecu!SessionExpired(c) <=> Shadow!SessionExpired(c)
  BY DEF Ecu!SessionExpired, Shadow!SessionExpired, Ecu!Elapsed,
         Shadow!Elapsed, Ecu!ClockRange, Shadow!ClockRange
<1>4. Ecu!LiftLockout(c) = Shadow!LiftLockout(c)
  BY <1>2 DEF Ecu!LiftLockout, Shadow!LiftLockout
<1>5. Ecu!ExpireSession(c) = Shadow!ExpireSession(c)
  BY <1>1, <1>3 DEF Ecu!ExpireSession, Shadow!ExpireSession
<1>6. Ecu!Challenge(c) = Shadow!Challenge(c)
  BY DEF Ecu!Challenge, Shadow!Challenge
<1>7. Ecu!Grant(c) = Shadow!Grant(c) /\ Ecu!Strike(c) = Shadow!Strike(c)
  BY DEF Ecu!Grant, Shadow!Grant, Ecu!Strike, Shadow!Strike
<1>8. Ecu!Bar(c) = Shadow!Bar(c)
  BY DEF Ecu!Bar, Shadow!Bar, Ecu!Later, Shadow!Later, Ecu!ClockRange,
         Shadow!ClockRange
<1>9. QED
  BY <1>1, <1>4, <1>5, <1>6, <1>7, <1>8

\* What the shadow makes of a request, and when its answer stops it.
LEMMA ShadowHandles ==
  ASSUME Typed(shadow), Closed(shadow), NEW req,
         Shadow!HandleRequest(req, "ok")
  PROVE  /\ Handled(shadow, shadow', req)
         /\ Drops(verdict') <=> ~Passes(shadow, req)
<1> DEFINE p == Polls(shadow)
           e == [p EXCEPT !.last_activity = now]
<1>1. Shadow!Current = p /\ Shadow!Refreshed = e
  BY DEF Shadow!Polled, Shadow!Current, Shadow!Refreshed, Polls
<1>2. /\ p.session = IF Alive(shadow) THEN "extended" ELSE "default"
      /\ p.security_level = IF Alive(shadow) THEN shadow.security_level
                                             ELSE "locked"
      /\ shadow.security_level \in {"locked", "level1"}
  BY PolledFields DEF Typed, Shape
<1>3. e.security_level = p.security_level /\ e.seed_pending = p.seed_pending
      /\ e.current_seed = p.current_seed /\ e.locked_out = p.locked_out
  BY PolledFields DEF Typed, Shape
<1>4. /\ p.seed_pending <=> Alive(shadow) /\ shadow.seed_pending
      /\ p.current_seed = shadow.current_seed
      /\ p.locked_out <=> Barred(shadow)
  BY PolledFields
<1>5. Serves(shadow, req) <=>
        req.sid \notin {"empty", "unknown"} /\ Shadow!Allows(req.sid)
  BY <1>1, <1>2
  DEF Serves, Open, Shadow!Allows, Shadow!NeedsExtended, Shadow!NeedsUnlock
<1> HIDE DEF p, e
<1>6. CASE Shadow!EmptyRequest(req) \/ Shadow!UnknownService(req)
  <2>1. /\ req.sid \in {"empty", "unknown"} /\ shadow' = p
        /\ ~Drops(verdict')
    BY <1>1, <1>6
    DEF Shadow!EmptyRequest, Shadow!UnknownService, Shadow!Silent,
        Shadow!Refuse, Drops, DropReasons
  <2>2. Passes(shadow, req) /\ ~Serves(shadow, req)
    BY <2>1 DEF Passes, Serves, Strikes, Judges, SendsKey
  <2>3. QED
    BY <2>1, <2>2 DEF Handled, p
<1>7. CASE Shadow!AccessRefused(req)
  <2>1. /\ req.sid \in Shadow!Services /\ ~Shadow!Allows(req.sid)
        /\ shadow' = p /\ Drops(verdict')
    BY <1>1, <1>7
    DEF Shadow!AccessRefused, Shadow!AccessRefusal, Shadow!Refuse, Drops,
        DropReasons
  <2>2. ~Passes(shadow, req) /\ ~Serves(shadow, req)
    BY <1>5, <2>1 DEF Passes, Shadow!Services
  <2>3. QED
    BY <2>1, <2>2 DEF Handled, p
<1>8. CASE Shadow!SessionControl(req) \/ Shadow!ECUReset(req, "ok")
  <2>1. /\ req.sid \in {"SessionControl", "ECUReset"}
        /\ Serves(shadow, req) /\ ~Drops(verdict')
    BY <1>5, <1>8
    DEF Shadow!SessionControl, Shadow!ECUReset, Shadow!Dispatched,
        Shadow!AnswerUnlessSuppressed, Shadow!Silent, Shadow!Refuse,
        Shadow!Answer, Shadow!AnswerWith, Drops, DropReasons
  <2>2. /\ ~Seeks(req) /\ ~Judges(shadow, req)
        /\ Passes(shadow, req)
    BY <2>1 DEF Seeks, Judges, Passes, Strikes, SendsKey
  <2>3. \/ ~Enters(req) /\ ~Leaves(req) /\ shadow' = e
        \/ Enters(req) /\ shadow' = [e EXCEPT !.session = "extended"]
        \/ Leaves(req) /\ shadow' = Shadow!FallBack(e)
    BY <1>1, <1>8
    DEF Shadow!SessionControl, Shadow!ECUReset, Shadow!Dispatched,
        Shadow!EnterSession, Shadow!AnswerUnlessSuppressed, Shadow!Silent,
        Shadow!Refuse, Shadow!Answer, Shadow!AnswerWith, Enters, Leaves
  <2>4. QED
    BY <2>1, <2>2, <2>3 DEF Handled, p, e
<1>9. CASE \/ Shadow!TesterPresent(req) \/ Shadow!ReadData(req, "ok")
           \/ Shadow!ReadDTC(req, "ok") \/ Shadow!ClearDTC(req, "ok")
  <2>1. /\ req.sid \in {"TesterPresent", "ReadData", "ReadDTC", "ClearDTC"}
        /\ Serves(shadow, req) /\ ~Drops(verdict') /\ shadow' = e
    BY <1>1, <1>5, <1>9
    DEF Shadow!TesterPresent, Shadow!ReadData, Shadow!ReadDTC,
        Shadow!ClearDTC, Shadow!Dispatched, Shadow!Provide,
        Shadow!AnswerUnlessSuppressed, Shadow!Silent, Shadow!Refuse,
        Shadow!Answer, Shadow!AnswerWith, Drops, DropReasons
  <2>2. /\ ~Seeks(req) /\ ~Judges(shadow, req) /\ Passes(shadow, req)
        /\ ~Enters(req) /\ ~Leaves(req)
    BY <2>1 DEF Seeks, Judges, Passes, Strikes, SendsKey, Enters, Leaves
  <2>3. QED
    BY <2>1, <2>2 DEF Handled, p, e
<1>10. CASE Shadow!SecurityAccess(req)
  <2>1. /\ req.sid = "SecurityAccess" /\ Serves(shadow, req)
        /\ Alive(shadow)
    BY <1>5, <1>10
    DEF Shadow!SecurityAccess, Shadow!Dispatched, Serves,
        Shadow!NeedsExtended
  <2>2. ~Enters(req) /\ ~Leaves(req)
    BY <2>1 DEF Enters, Leaves
  <2>3. /\ e.security_level = shadow.security_level
        /\ e.seed_pending <=> shadow.seed_pending
        /\ e.current_seed = shadow.current_seed
        /\ e.locked_out <=> Barred(shadow)
    BY <1>2, <1>3, <1>4, <2>1
  <2>4. CASE /\ req.size = "short"
             /\ Shadow!Refuse(e, req, "incorrectMessageLength")
    <3>1. shadow' = e /\ ~Drops(verdict')
      BY <2>4 DEF Shadow!Refuse, Drops, DropReasons
    <3>2. ~Seeks(req) /\ ~Judges(shadow, req) /\ Passes(shadow, req)
      BY <2>1, <2>4 DEF Seeks, Judges, Passes, Strikes
    <3>3. QED
      BY <2>1, <2>2, <3>1, <3>2 DEF Handled, p, e
  <2>5. CASE /\ req.size # "short" /\ e.locked_out
             /\ Shadow!Refuse(e, req, "requiredTimeDelayNotExpired")
    <3>1. shadow' = e /\ Drops(verdict')
      BY <2>5 DEF Shadow!Refuse, Drops, DropReasons
    <3>2. Barred(shadow) /\ ~Judges(shadow, req) /\ ~Passes(shadow, req)
      BY <2>1, <2>3, <2>5 DEF Judges, Passes
    <3>3. QED
      BY <2>1, <2>2, <3>1, <3>2 DEF Handled, p, e
  <2>6. CASE /\ req.size # "short" /\ ~e.locked_out
             /\ req.sub = 1 /\ Shadow!RequestSeed(e, req)
    <3>1. /\ ~Barred(shadow) /\ ~SendsKey(req)
          /\ Seeks(req) <=> req.size = "exact"
      BY <2>1, <2>3, <2>6 DEF SendsKey, Seeks
    <3>2. ~Judges(shadow, req) /\ Passes(shadow, req)
      BY <2>1, <3>1 DEF Judges, Passes, Strikes
    <3>3. /\ ~Drops(verdict')
          /\ \/ ~Seeks(req) /\ shadow' = e
             \/ /\ Seeks(req) /\ shadow.security_level # "locked"
                /\ shadow' = [e EXCEPT !.seed_pending = FALSE]
             \/ /\ Seeks(req) /\ shadow.security_level = "locked"
                /\ shadow' = Shadow!Challenge(e)
      BY <2>3, <2>6, <3>1
      DEF Shadow!RequestSeed, Shadow!Refuse, Shadow!AnswerWith, Drops,
          DropReasons
    <3>4. QED
      BY <2>1, <2>2, <3>1, <3>2, <3>3 DEF Handled, p, e
  <2>7. CASE /\ req.size # "short" /\ ~e.locked_out
             /\ req.sub = 2 /\ Shadow!SendKey(e, req)
    <3>1. /\ ~Barred(shadow) /\ SendsKey(req) /\ ~Seeks(req)
          /\ Judges(shadow, req) <=> req.size = "exact" /\ e.seed_pending
      BY <2>1, <2>3, <2>7 DEF SendsKey, Seeks, Judges
    <3>2. CASE ~Judges(shadow, req)
      <4>1. shadow' = e /\ ~Drops(verdict')
        BY <2>7, <3>1, <3>2
        DEF Shadow!SendKey, Shadow!Refuse, Drops, DropReasons
      <4>2. Passes(shadow, req)
        BY <2>1, <3>1, <3>2 DEF Passes, Strikes
      <4>3. QED
        BY <2>1, <2>2, <3>1, <3>2, <4>1, <4>2 DEF Handled, p, e
    <3>3. CASE Unlocks(shadow, req)
      <4>1. shadow' = Shadow!Grant(e) /\ ~Drops(verdict')
        BY <2>3, <2>7, <3>1, <3>3
        DEF Shadow!SendKey, Shadow!Answer, Shadow!AnswerWith, Drops, Unlocks
      <4>2. Passes(shadow, req)
        BY <2>1, <3>1, <3>3 DEF Passes, Strikes, Unlocks
      <4>3. QED
        BY <2>1, <3>3, <4>1, <4>2 DEF Handled, p, e
    <3>4. CASE Strikes(shadow, req)
      <4>1. /\ shadow' = Shadow!Bar(Shadow!Strike(e))
            /\ Drops(verdict')
        BY <2>3, <2>7, <3>1, <3>4
        DEF Shadow!SendKey, Shadow!WrongKey, Shadow!Refuse, Drops,
            DropReasons, Strikes
      <4>2. ~Passes(shadow, req)
        BY <3>4 DEF Passes
      <4>3. QED
        BY <2>1, <3>4, <4>1, <4>2 DEF Handled, p, e
    <3>5. QED
      BY <3>2, <3>3, <3>4 DEF Unlocks, Strikes
  <2>8. CASE /\ req.size # "short" /\ ~e.locked_out /\ req.sub \notin {1, 2}
             /\ Shadow!Refuse(e, req, "subFunctionNotSupported")
    <3>1. shadow' = e /\ ~Drops(verdict')
      BY <2>8 DEF Shadow!Refuse, Drops, DropReasons
    <3>2. /\ ~Seeks(req) /\ ~Judges(shadow, req) /\ Passes(shadow, req)
      BY <2>1, <2>3, <2>8 DEF Seeks, Judges, Passes, Strikes, SendsKey
    <3>3. QED
      BY <2>1, <2>2, <3>1, <3>2 DEF Handled, p, e
  <2>9. QED
    BY <1>1, <1>10, <2>4, <2>5, <2>6, <2>7, <2>8
    DEF Shadow!SecurityAccess, Shadow!Barred
<1>11. QED
  BY <1>6, <1>7, <1>8, <1>9, <1>10 DEF Shadow!HandleRequest

\* What the ECU makes of a request, and when it hands out a seed.
LEMMA EcuHandled ==
  ASSUME Typed(ecu), Closed(ecu), NEW req, NEW o,
         req.sid = "ECUReset" => o = "ok", Ecu!HandleRequest(req, o)
  PROVE  /\ Handled(ecu, ecu', req)
         /\ IsSeed(response') <=>
              Seeks(req) /\ Serves(ecu, req) /\ ~Barred(ecu)
         /\ IsSeed(response') =>
              response'.seed = IF ecu.security_level = "locked"
                               THEN ecu'.current_seed ELSE ZeroSeed
         /\ IsSeed(response') => response'.kind # "silent"
<1> DEFINE p == Polls(ecu)
           e == [p EXCEPT !.last_activity = now]
<1>1. Ecu!Current = p /\ Ecu!Refreshed = e
  BY SameOperators DEF Ecu!Polled, Ecu!Current, Ecu!Refreshed, Polls
<1>2. /\ p.session = IF Alive(ecu) THEN "extended" ELSE "default"
      /\ p.security_level = IF Alive(ecu) THEN ecu.security_level
                                          ELSE "locked"
      /\ ecu.security_level \in {"locked", "level1"}
  BY PolledFields DEF Typed, Shape
<1>3. /\ e.security_level = p.security_level
      /\ e.seed_pending = p.seed_pending
      /\ e.current_seed = p.current_seed /\ e.locked_out = p.locked_out
      /\ Shape(e)
  BY PolledFields DEF Typed, Shape
<1>4. /\ p.seed_pending <=> Alive(ecu) /\ ecu.seed_pending
      /\ p.current_seed = ecu.current_seed
      /\ p.locked_out <=> Barred(ecu)
  BY PolledFields
<1>5. Serves(ecu, req) <=>
        req.sid \notin {"empty", "unknown"} /\ Ecu!Allows(req.sid)
  BY <1>1, <1>2
  DEF Serves, Open, Ecu!Allows, Ecu!NeedsExtended, Ecu!NeedsUnlock,
      Shadow!NeedsExtended, Shadow!NeedsUnlock
<1> HIDE DEF p, e
<1>6. CASE Ecu!EmptyRequest(req) \/ Ecu!UnknownService(req)
  <2>1. req.sid \in {"empty", "unknown"} /\ ecu' = p /\ ~IsSeed(response')
    BY <1>1, <1>6
    DEF Ecu!EmptyRequest, Ecu!UnknownService, Ecu!Silent, Ecu!Refuse, IsSeed
  <2>2. ~Serves(ecu, req)
    BY <2>1 DEF Serves
  <2>3. QED
    BY <2>1, <2>2 DEF Handled, p
<1>7. CASE Ecu!AccessRefused(req)
  <2>1. /\ ~Ecu!Allows(req.sid) /\ ecu' = p /\ ~IsSeed(response')
    BY <1>1, <1>7 DEF Ecu!AccessRefused, Ecu!Refuse, IsSeed
  <2>2. ~Serves(ecu, req)
    BY <1>5, <2>1
  <2>3. QED
    BY <2>1, <2>2 DEF Handled, p
<1>8. CASE Ecu!SessionControl(req) \/ Ecu!ECUReset(req, o)
  <2>1. /\ req.sid \in {"SessionControl", "ECUReset"}
        /\ Serves(ecu, req) /\ ~IsSeed(response')
    BY <1>5, <1>8
    DEF Ecu!SessionControl, Ecu!ECUReset, Ecu!Dispatched,
        Ecu!AnswerUnlessSuppressed, Ecu!Silent, Ecu!Refuse,
        Ecu!Answer, Ecu!AnswerWith, IsSeed
  <2>2. ~Seeks(req) /\ ~Judges(ecu, req)
    BY <2>1 DEF Seeks, Judges, SendsKey
  <2>3. \/ ~Enters(req) /\ ~Leaves(req) /\ ecu' = e
        \/ Enters(req) /\ ecu' = [e EXCEPT !.session = "extended"]
        \/ Leaves(req) /\ ecu' = Ecu!FallBack(e)
    BY <1>1, <1>8
    DEF Ecu!SessionControl, Ecu!ECUReset, Ecu!Dispatched,
        Ecu!EnterSession, Ecu!AnswerUnlessSuppressed, Ecu!Silent,
        Ecu!Refuse, Ecu!Answer, Ecu!AnswerWith, Enters, Leaves
  <2>4. QED
    BY <2>1, <2>2, <2>3, SameOperators DEF Handled, p, e
<1>9. CASE \/ Ecu!TesterPresent(req) \/ Ecu!ReadData(req, o)
           \/ Ecu!ReadDTC(req, o) \/ Ecu!ClearDTC(req, o)
  <2>1. /\ req.sid \in {"TesterPresent", "ReadData", "ReadDTC", "ClearDTC"}
        /\ Serves(ecu, req) /\ ~IsSeed(response') /\ ecu' = e
    BY <1>1, <1>5, <1>9
    DEF Ecu!TesterPresent, Ecu!ReadData, Ecu!ReadDTC, Ecu!ClearDTC,
        Ecu!Dispatched, Ecu!Provide, Ecu!AnswerUnlessSuppressed,
        Ecu!Silent, Ecu!Refuse, Ecu!Answer, Ecu!AnswerWith, IsSeed
  <2>2. ~Seeks(req) /\ ~Judges(ecu, req) /\ ~Enters(req) /\ ~Leaves(req)
    BY <2>1 DEF Seeks, Judges, SendsKey, Enters, Leaves
  <2>3. QED
    BY <2>1, <2>2 DEF Handled, p, e
<1>10. CASE Ecu!SecurityAccess(req)
  <2>1. req.sid = "SecurityAccess" /\ Serves(ecu, req) /\ Alive(ecu)
    BY <1>5, <1>10
    DEF Ecu!SecurityAccess, Ecu!Dispatched, Serves, Shadow!NeedsExtended
  <2>2. ~Enters(req) /\ ~Leaves(req)
    BY <2>1 DEF Enters, Leaves
  <2>3. /\ e.security_level = ecu.security_level
        /\ e.seed_pending <=> ecu.seed_pending
        /\ e.current_seed = ecu.current_seed
        /\ e.locked_out <=> Barred(ecu)
    BY <1>2, <1>3, <1>4, <2>1
  <2>4. CASE /\ \/ req.size = "short" \/ e.locked_out
                \/ req.sub \notin {1, 2}
             /\ \E nrc : Ecu!Refuse(e, req, nrc)
    <3>1. ecu' = e /\ ~IsSeed(response')
      BY <2>4 DEF Ecu!Refuse, IsSeed
    <3>2. ~(Seeks(req) /\ ~Barred(ecu)) /\ ~Judges(ecu, req)
      BY <2>1, <2>3, <2>4 DEF Seeks, Judges, SendsKey
    <3>3. QED
      BY <2>1, <2>2, <3>1, <3>2 DEF Handled, p, e
  <2>5. CASE ~e.locked_out /\ req.sub = 1 /\ Ecu!RequestSeed(e, req)
    <3>1. /\ ~Barred(ecu) /\ ~SendsKey(req)
          /\ Seeks(req) <=> req.size = "exact"
      BY <2>1, <2>3, <2>5 DEF SendsKey, Seeks
    <3>2. ~Judges(ecu, req)
      BY <3>1 DEF Judges
    <3>3. \/ ~Seeks(req) /\ ecu' = e /\ ~IsSeed(response')
          \/ /\ Seeks(req) /\ ecu.security_level # "locked"
             /\ ecu' = [e EXCEPT !.seed_pending = FALSE]
             /\ IsSeed(response') /\ response'.seed = ZeroSeed
          \/ /\ Seeks(req) /\ ecu.security_level = "locked"
             /\ ecu' = Ecu!Challenge(e)
             /\ IsSeed(response')
             /\ response'.seed = Ecu!Challenge(e).current_seed
      BY <2>1, <2>3, <2>5, <3>1
      DEF Ecu!RequestSeed, Ecu!Refuse, Ecu!AnswerWith, IsSeed
    <3>4. QED
      BY <2>1, <2>2, <3>1, <3>2, <3>3, SameOperators
      DEF Handled, p, e, IsSeed
  <2>6. CASE ~e.locked_out /\ req.sub = 2 /\ Ecu!SendKey(e, req)
    <3>1. /\ ~Barred(ecu) /\ SendsKey(req) /\ ~Seeks(req)
          /\ Judges(ecu, req) <=> req.size = "exact" /\ e.seed_pending
      BY <2>1, <2>3, <2>6 DEF SendsKey, Seeks, Judges
    <3>2. ~IsSeed(response')
      BY <2>6
      DEF Ecu!SendKey, Ecu!WrongKey, Ecu!Refuse, Ecu!Answer, Ecu!AnswerWith,
          IsSeed
    <3>3. CASE ~Judges(ecu, req)
      <4>1. ecu' = e
        BY <2>6, <3>1, <3>3 DEF Ecu!SendKey, Ecu!Refuse
      <4>2. QED
        BY <2>1, <2>2, <3>1, <3>2, <3>3, <4>1 DEF Handled, p, e
    <3>4. CASE Unlocks(ecu, req)
      <4>1. ecu' = Ecu!Grant(e)
        BY <2>3, <2>6, <3>1, <3>4
        DEF Ecu!SendKey, Ecu!Answer, Ecu!AnswerWith, Unlocks
      <4>2. QED
        BY <2>1, <3>1, <3>2, <3>4, <4>1, SameOperators DEF Handled, p, e
    <3>5. CASE Strikes(ecu, req)
      <4>1. ecu' = Ecu!Bar(Ecu!Strike(e))
        BY <2>3, <2>6, <3>1, <3>5
        DEF Ecu!SendKey, Ecu!WrongKey, Ecu!Refuse, Strikes
      <4>2. QED
        BY <2>1, <3>1, <3>2, <3>5, <4>1, SameOperators DEF Handled, p, e
    <3>6. QED
      BY <3>3, <3>4, <3>5 DEF Unlocks, Strikes
  <2>7. QED
    BY <1>1, <1>10, <2>4, <2>5, <2>6 DEF Ecu!SecurityAccess, Ecu!Barred
<1>11. QED
  BY <1>6, <1>7, <1>8, <1>9, <1>10 DEF Ecu!HandleRequest

\* What a request finds the policy, the bar and the challenge of the ECU to
\* be.
LEMMA EcuReads ==
  ASSUME Typed(ecu), Closed(ecu), NEW req
  PROVE  /\ Serves(ecu, req) <=>
              req.sid \notin {"empty", "unknown"} /\ Ecu!Allows(req.sid)
         /\ Ecu!Refreshed.locked_out <=> Barred(ecu)
         /\ Ecu!Refreshed.seed_pending <=> Alive(ecu) /\ ecu.seed_pending
         /\ Ecu!Refreshed.current_seed = ecu.current_seed
<1> DEFINE p == Polls(ecu)
           e == [p EXCEPT !.last_activity = now]
<1>1. Ecu!Current = p /\ Ecu!Refreshed = e
  BY SameOperators DEF Ecu!Polled, Ecu!Current, Ecu!Refreshed, Polls
<1>2. /\ p.session = IF Alive(ecu) THEN "extended" ELSE "default"
      /\ p.security_level = IF Alive(ecu) THEN ecu.security_level
                                          ELSE "locked"
      /\ ecu.security_level \in {"locked", "level1"}
      /\ p.seed_pending <=> Alive(ecu) /\ ecu.seed_pending
      /\ p.current_seed = ecu.current_seed
      /\ p.locked_out <=> Barred(ecu)
      /\ Shape(p)
  BY PolledFields DEF Typed, Shape
<1>3. /\ e.seed_pending = p.seed_pending
      /\ e.current_seed = p.current_seed /\ e.locked_out = p.locked_out
  BY <1>2 DEF Shape
<1>4. Serves(ecu, req) <=>
        req.sid \notin {"empty", "unknown"} /\ Ecu!Allows(req.sid)
  BY <1>1, <1>2
  DEF Serves, Open, Ecu!Allows, Ecu!NeedsExtended, Ecu!NeedsUnlock,
      Shadow!NeedsExtended, Shadow!NeedsUnlock
<1>5. QED
  BY <1>1, <1>2, <1>3, <1>4

\* What the ECU answers: an answer to the request, whenever one is due, and
\* a positive one where the request moved the session or opened the level.
LEMMA EcuAnswers ==
  ASSUME Typed(ecu), Closed(ecu), NEW req, NEW o,
         req.sid = "ECUReset" => o = "ok", Ecu!HandleRequest(req, o)
  PROVE  /\ response'.sid = req.sid
         /\ req.sid # "empty" /\ ~req.suppress => response'.kind # "silent"
         /\ Enters(req) /\ ~req.suppress => response'.kind = "positive"
         /\ Leaves(req) /\ req.sid = "ECUReset" /\ Serves(ecu, req)
              => response'.kind = "positive"
         /\ Unlocks(ecu, req) => response'.kind = "positive"
         /\ SendsKey(req) /\ ~Unlocks(ecu, req)
              => response'.kind = "negative"
         /\ ~Serves(ecu, req) /\ req.sid # "empty"
              => response'.kind = "negative"
<1> DEFINE e == Ecu!Refreshed
<1>1. /\ Serves(ecu, req) <=>
           req.sid \notin {"empty", "unknown"} /\ Ecu!Allows(req.sid)
      /\ e.locked_out <=> Barred(ecu)
      /\ e.seed_pending <=> Alive(ecu) /\ ecu.seed_pending
      /\ e.current_seed = ecu.current_seed
  BY EcuReads
<1> HIDE DEF e
<1>2. CASE Ecu!EmptyRequest(req) \/ Ecu!UnknownService(req)
  BY <1>2
  DEF Ecu!EmptyRequest, Ecu!UnknownService, Ecu!Silent, Ecu!Refuse, Enters,
      Leaves, SendsKey, Unlocks, Judges
<1>3. CASE Ecu!AccessRefused(req)
  <2>1. /\ ~Serves(ecu, req) /\ req.sid \in Ecu!Services
        /\ response'.sid = req.sid /\ response'.kind = "negative"
    BY <1>1, <1>3 DEF Ecu!AccessRefused, Ecu!Refuse
  <2>2. ~Enters(req) /\ ~Unlocks(ecu, req)
    BY <2>1
    DEF Enters, Unlocks, Judges, SendsKey, Serves, Ecu!Services,
        Shadow!NeedsExtended, Shadow!NeedsUnlock
  <2>3. QED
    BY <2>1, <2>2
<1>4. CASE Ecu!SessionControl(req)
  BY <1>1, <1>4
  DEF Ecu!SessionControl, Ecu!Dispatched, Ecu!AnswerUnlessSuppressed,
      Ecu!Silent, Ecu!Refuse, Ecu!Answer, Ecu!AnswerWith, Enters, Leaves,
      SendsKey, Unlocks, Judges
<1>5. CASE Ecu!ECUReset(req, o)
  BY <1>1, <1>5
  DEF Ecu!ECUReset, Ecu!Dispatched, Ecu!Refuse, Ecu!Answer, Ecu!AnswerWith,
      Enters, Leaves, SendsKey, Unlocks, Judges
<1>6. CASE \/ Ecu!TesterPresent(req) \/ Ecu!ReadData(req, o)
           \/ Ecu!ReadDTC(req, o) \/ Ecu!ClearDTC(req, o)
  BY <1>1, <1>6
  DEF Ecu!TesterPresent, Ecu!ReadData, Ecu!ReadDTC, Ecu!ClearDTC,
      Ecu!Dispatched, Ecu!Provide, Ecu!AnswerUnlessSuppressed, Ecu!Silent,
      Ecu!Refuse, Ecu!Answer, Ecu!AnswerWith, Enters, Leaves, SendsKey,
      Unlocks, Judges
<1>7. CASE Ecu!SecurityAccess(req)
  <2>1. req.sid = "SecurityAccess" /\ Serves(ecu, req)
    BY <1>1, <1>7 DEF Ecu!SecurityAccess, Ecu!Dispatched
  <2>2. ~Enters(req) /\ ~Leaves(req)
    BY <2>1 DEF Enters, Leaves
  <2>3. CASE /\ \/ req.size = "short" \/ e.locked_out
                \/ req.sub \notin {1, 2}
             /\ \E nrc : Ecu!Refuse(e, req, nrc)
    <3>1. response'.sid = req.sid /\ response'.kind = "negative"
      BY <2>3 DEF Ecu!Refuse
    <3>2. ~Unlocks(ecu, req)
      BY <1>1, <2>3 DEF Unlocks, Judges, SendsKey
    <3>3. QED
      BY <2>1, <2>2, <3>1, <3>2
  <2>4. CASE ~e.locked_out /\ req.sub = 1 /\ Ecu!RequestSeed(e, req)
    <3>1. /\ response'.sid = req.sid
          /\ response'.kind \in {"positive", "negative"}
      BY <2>4 DEF Ecu!RequestSeed, Ecu!Refuse, Ecu!AnswerWith
    <3>2. ~SendsKey(req)
      BY <2>4 DEF SendsKey
    <3>3. QED
      BY <2>1, <2>2, <3>1, <3>2 DEF Unlocks, Judges
  <2>5. CASE ~e.locked_out /\ req.sub = 2 /\ Ecu!SendKey(e, req)
    <3>1. CASE Ecu!Answer(Ecu!Grant(e), req)
      <4>1. response'.sid = req.sid /\ response'.kind = "positive"
        BY <3>1 DEF Ecu!Answer, Ecu!AnswerWith
      <4>2. Unlocks(ecu, req)
        BY <1>1, <2>1, <2>5, <4>1
        DEF Ecu!SendKey, Ecu!Refuse, Ecu!WrongKey, Unlocks, Judges, SendsKey,
            Serves, Shadow!NeedsExtended
      <4>3. QED
        BY <2>1, <2>2, <4>1, <4>2
    <3>2. CASE ~Ecu!Answer(Ecu!Grant(e), req)
      <4>1. response'.sid = req.sid /\ response'.kind = "negative"
        BY <2>5, <3>2 DEF Ecu!SendKey, Ecu!WrongKey, Ecu!Refuse
      <4>2. ~Unlocks(ecu, req)
        BY <1>1, <2>5, <3>2 DEF Ecu!SendKey, Unlocks, Judges
      <4>3. QED
        BY <2>1, <2>2, <4>1, <4>2
    <3>3. QED
      BY <3>1, <3>2
  <2>6. QED
    BY <1>7, <2>3, <2>4, <2>5 DEF Ecu!SecurityAccess, Ecu!Barred, e
<1>8. QED
  BY <1>2, <1>3, <1>4, <1>5, <1>6, <1>7 DEF Ecu!HandleRequest

\* The shadow's answer is one to the request as well.
LEMMA ShadowAnswers ==
  ASSUME NEW req, Shadow!HandleRequest(req, "ok")
  PROVE  verdict'.sid = req.sid
  BY DEF Shadow!HandleRequest, Shadow!EmptyRequest, Shadow!UnknownService,
         Shadow!AccessRefused, Shadow!SessionControl, Shadow!TesterPresent,
         Shadow!ReadData, Shadow!ReadDTC, Shadow!ClearDTC, Shadow!ECUReset,
         Shadow!SecurityAccess, Shadow!Dispatched, Shadow!RequestSeed,
         Shadow!SendKey, Shadow!WrongKey, Shadow!Provide,
         Shadow!AnswerUnlessSuppressed, Shadow!Silent, Shadow!Refuse,
         Shadow!Answer, Shadow!AnswerWith

LEMMA JudgingTakesNoTime ==
  ASSUME NEW req, Shadow!HandleRequest(req, "ok")
  PROVE  now' = now
  BY DEF Shadow!HandleRequest, Shadow!EmptyRequest, Shadow!UnknownService,
         Shadow!AccessRefused, Shadow!SessionControl, Shadow!TesterPresent,
         Shadow!ReadData, Shadow!ReadDTC, Shadow!ClearDTC, Shadow!ECUReset,
         Shadow!SecurityAccess, Shadow!Dispatched

LEMMA HandlingTakesNoTime ==
  ASSUME NEW req, NEW o, Ecu!HandleRequest(req, o)
  PROVE  now' = now
  BY DEF Ecu!HandleRequest, Ecu!EmptyRequest, Ecu!UnknownService,
         Ecu!AccessRefused, Ecu!SessionControl, Ecu!TesterPresent,
         Ecu!ReadData, Ecu!ReadDTC, Ecu!ClearDTC, Ecu!ECUReset,
         Ecu!SecurityAccess, Ecu!Dispatched

\* A tick makes a date one tick older, as long as the clock has not come
\* round to it.
LEMMA OneTickOlder ==
  ASSUME ServersAssumed, now \in Shadow!Clock, now' = Shadow!Later(now, 1),
         NEW t \in Shadow!Clock,
         Shadow!Elapsed(now, t) + 1 < Shadow!ClockRange
  PROVE  Shadow!Elapsed(now', t) = Shadow!Elapsed(now, t) + 1
  BY DEF ServersAssumed, Shadow!ClockAssumption, Shadow!Clock,
         Shadow!ClockRange, Shadow!Elapsed, Shadow!Later

LEMMA ElapsedIsNat ==
  ASSUME ServersAssumed, now \in Shadow!Clock, NEW t \in Shadow!Clock
  PROVE  Shadow!Elapsed(now, t) \in Nat
  BY DEF ServersAssumed, Shadow!ClockAssumption, Shadow!Clock,
         Shadow!ClockRange, Shadow!Elapsed

-----------------------------------------------------------------------------
(* 5. The seeds the shadow adopts.                                         *)
(*                                                                         *)
(* Whoever asks, however late the answers are and whatever is lost: when a *)
(* seed of the ECU arrives, the shadow is as the judgement of the request  *)
(* for it left it, in a session and under no bar.  For the exchanges do    *)
(* not overlap, and between two requests nothing else moves the shadow.    *)

\* A shadow that may adopt a seed.
Receptive == shadow.session # "default" /\ ~shadow.locked_out

\* The inductive invariant.
SInv ==
  /\ CInv /\ now \in Shadow!Clock
  /\ Typed(shadow) /\ Closed(shadow)
  /\ Typed(ecu) /\ Closed(ecu)
  /\ loop.at = "forward" =>
       \A req : loop.forward = <<req>> /\ Seeks(req) => Receptive
  /\ \A req : toEcu = <<req>> /\ Seeks(req) => Receptive
  /\ \A r : fromEcu = <<r>> /\ IsSeed(r) => Receptive /\ r.seed \in Seeds

-----------------------------------------------------------------------------
LEMMA AdmitKeepsSInv ==
  ASSUME ServersAssumed, SInv, CInv', NEW req, Admit(req)
  PROVE  SInv'
<1>1. /\ loop.at = "idle" /\ Shadow!HandleRequest(req, "ok")
      /\ UNCHANGED <<ecu, toEcu, fromEcu>>
      /\ \/ Drops(verdict') /\ UNCHANGED loop
         \/ ~Drops(verdict') /\ loop'.at = "forward"
            /\ loop'.forward = <<req>>
  BY DEF Admit
<1>2. toEcu' = <<>> /\ fromEcu' = <<>> /\ now' = now
  BY <1>1, JudgingTakesNoTime DEF SInv, CInv, GInv, ExchangesAreClosed
<1>3. /\ Effect(shadow, shadow', req)
      /\ Drops(verdict') <=> ~Passes(shadow, req)
  BY <1>1, ShadowHandles, HandledEffect DEF SInv
<1>4. Typed(shadow') /\ Closed(shadow')
  BY <1>3 DEF Effect
<1>5. ASSUME Passes(shadow, req), Seeks(req)
      PROVE  shadow'.session # "default" /\ ~shadow'.locked_out
  <2>1. /\ Serves(shadow, req) /\ ~Barred(shadow) /\ ~Strikes(shadow, req)
        /\ ~Leaves(req) /\ Alive(shadow)
    BY <1>5 DEF Passes, Seeks, Serves, Leaves, Shadow!NeedsExtended
  <2>2. Alive(shadow') \/ shadow'.session # "default"
    BY <1>3, <2>1 DEF Effect
  <2>3. QED
    BY <1>3, <2>1, <2>2 DEF Effect, Alive
<1>6. loop'.at = "forward" =>
        \A q : loop'.forward = <<q>> /\ Seeks(q) => Receptive'
  BY <1>1, <1>3, <1>5, OneMessage DEF Receptive
<1>7. QED
  BY <1>1, <1>2, <1>4, <1>6, OneMessage
  DEF SInv, Typed, Closed, Shape, Shadow!Clock, Shadow!ClockRange

\* Steps that touch neither server, and make no message but out of another.
LEMMA QuietKeepsSInv ==
  ASSUME SInv, CInv', UNCHANGED <<shadow, ecu>>, now' \in Shadow!Clock,
         loop'.at = "forward" => /\ loop.at = "forward"
                                 /\ loop'.forward = loop.forward,
         \/ toEcu' \in {toEcu, <<>>}
         \/ loop.at = "forward" /\ toEcu' = loop.forward,
         fromEcu' \in {fromEcu, <<>>}
  PROVE  SInv'
<1>1. Receptive' = Receptive
  BY DEF Receptive
<1>2. loop'.at = "forward" =>
        \A req : loop'.forward = <<req>> /\ Seeks(req) => Receptive'
  BY <1>1 DEF SInv
<1>3. \A req : toEcu' = <<req>> /\ Seeks(req) => Receptive'
  BY <1>1, OneMessage DEF SInv
<1>4. \A r : fromEcu' = <<r>> /\ IsSeed(r) => Receptive' /\ r.seed \in Seeds
  BY <1>1, OneMessage DEF SInv
<1>5. QED
  BY <1>2, <1>3, <1>4
  DEF SInv, Typed, Closed, Shape, Shadow!Clock, Shadow!ClockRange

\* The seed meets a receptive shadow.
LEMMA ReceiveKeepsSInv ==
  ASSUME SInv, CInv', ReceiveAnswer
  PROVE  SInv'
<1>1. PICK r : fromEcu = <<r>>
  BY DEF ReceiveAnswer, SInv, CInv, GInv, AtMostOne
<1>2. /\ shadow' = Observed(r) /\ fromEcu' = <<>>
      /\ UNCHANGED <<now, ecu, toEcu>> /\ loop'.at = "idle"
  BY <1>1, OneMessage DEF ReceiveAnswer, Resting
<1>3. toEcu = <<>>
  BY <1>1, OneMessage DEF SInv, CInv, GInv, AtMostOne
<1>4. ASSUME NEW d, d = [shadow EXCEPT !.current_seed = r.seed,
                                       !.seed_pending = TRUE],
             IsSeed(r)
      PROVE  Typed(d) /\ Closed(d)
  <2>1. Receptive /\ r.seed \in Seeds /\ Typed(shadow)
    BY <1>1, <1>4 DEF SInv
  <2>2. QED
    BY <1>4, <2>1 DEF Receptive, Typed, Closed, Shape
<1>5. Typed(shadow') /\ Closed(shadow')
  BY <1>2, <1>4 DEF Observed, SInv
<1>6. QED
  BY <1>2, <1>3, <1>5, OneMessage
  DEF SInv, Typed, Closed, Shape, Shadow!Clock, Shadow!ClockRange

LEMMA HandlingKeepsSInv ==
  ASSUME ServersAssumed, SInv, CInv', EcuHandles
  PROVE  SInv'
<1>1. PICK req : toEcu = <<req>>
  BY DEF EcuHandles, SInv, CInv, GInv, AtMostOne
<1>2. fromEcu = <<>> /\ loop.at = "await"
  BY <1>1, OneMessage DEF SInv, CInv, GInv, AtMostOne, ExchangesAreClosed
<1>3. PICK o \in EcuOutcomes(req.sid) : Ecu!HandleRequest(req, o)
  BY <1>1, OneMessage DEF EcuHandles
<1>4. req.sid = "ECUReset" => o = "ok"
  BY <1>3 DEF EcuOutcomes
<1>5. /\ toEcu' = <<>> /\ fromEcu' \in {<<>>, <<response'>>}
      /\ UNCHANGED <<shadow, loop>> /\ now' = now
  BY <1>1, <1>2, <1>3, HandlingTakesNoTime, OneMessage DEF EcuHandles
<1>6. /\ Handled(ecu, ecu', req)
      /\ IsSeed(response') <=>
           Seeks(req) /\ Serves(ecu, req) /\ ~Barred(ecu)
      /\ IsSeed(response') =>
           response'.seed = IF ecu.security_level = "locked"
                            THEN ecu'.current_seed ELSE ZeroSeed
  BY <1>3, <1>4, EcuHandled DEF SInv
<1>7. Typed(ecu') /\ Closed(ecu')
  BY <1>6, HandledEffect DEF SInv, Effect
<1>8. IsSeed(response') => Receptive /\ response'.seed \in Seeds
  <2>1. ecu'.current_seed \in Seeds /\ ZeroSeed \in Seeds
    BY <1>7 DEF Typed, ServersAssumed, Shadow!SecurityAssumption
  <2>2. QED
    BY <1>1, <1>6, <2>1 DEF SInv
<1>9. \A r : fromEcu' = <<r>> /\ IsSeed(r) => Receptive' /\ r.seed \in Seeds
  BY <1>5, <1>8, OneMessage DEF Receptive
<1>10. QED
  BY <1>2, <1>5, <1>7, <1>9, OneMessage
  DEF SInv, Typed, Closed, Shape, Shadow!Clock, Shadow!ClockRange

LEMMA PollingKeepsSInv ==
  ASSUME SInv, CInv', EcuPolls
  PROVE  SInv'
<1>1. /\ ecu' = Polls(ecu)
      /\ UNCHANGED <<now, shadow, loop, toEcu, fromEcu>>
  BY SameOperators DEF EcuPolls, Ecu!Poll, Ecu!Polled, Polls
<1>2. Typed(ecu') /\ Closed(ecu')
  BY <1>1, PolledFields DEF SInv
<1>3. QED
  BY <1>1, <1>2
  DEF SInv, Receptive, Typed, Closed, Shape, Shadow!Clock,
      Shadow!ClockRange

LEMMA LaterIsADate ==
  ASSUME ServersAssumed, now \in Shadow!Clock
  PROVE  Shadow!Later(now, 1) \in Shadow!Clock
  BY DEF ServersAssumed, Shadow!ClockAssumption, Shadow!Clock,
         Shadow!ClockRange, Shadow!Later

\* What the gateway's loop, the ECU, the clock and the second bus do.
LEMMA GatewayKeepsSInv ==
  ASSUME ServersAssumed, SInv, CInv',
         \/ \E req : Admit(req)
         \/ Forward \/ ForwardFails \/ ReceiveAnswer \/ GiveUp \/ EcuHandles
         \/ EcuPolls \/ Tick \/ Lose
  PROVE  SInv'
<1>1. CASE \E req : Admit(req)
  BY <1>1, AdmitKeepsSInv
<1>2. CASE Forward
  <2>1. toEcu = <<>> /\ \E r : loop.forward = <<r>>
    BY <1>2 DEF Forward, SInv, CInv, GInv, ExchangesAreClosed, LoopTyped
  <2>2. toEcu' = loop.forward
    BY <1>2, <2>1, OneMessage DEF Forward
  <2>3. /\ UNCHANGED <<now, shadow, ecu, fromEcu>>
        /\ loop.at = "forward" /\ loop'.at = "await"
    BY <1>2 DEF Forward
  <2>4. QED
    BY <2>2, <2>3, QuietKeepsSInv DEF SInv
<1>3. CASE ForwardFails \/ GiveUp
  <2>1. /\ UNCHANGED <<now, shadow, ecu, toEcu, fromEcu>>
        /\ loop'.at = "idle"
    BY <1>3 DEF ForwardFails, GiveUp, Resting
  <2>2. QED
    BY <2>1, QuietKeepsSInv DEF SInv
<1>4. CASE ReceiveAnswer
  BY <1>4, ReceiveKeepsSInv
<1>5. CASE EcuHandles
  BY <1>5, HandlingKeepsSInv
<1>6. CASE EcuPolls
  BY <1>6, PollingKeepsSInv
<1>7. CASE Tick
  <2>1. /\ UNCHANGED <<shadow, ecu, toEcu, fromEcu>>
        /\ loop'.at = loop.at /\ loop'.forward = loop.forward
        /\ now' = Shadow!Later(now, 1)
    BY <1>7, TickKeepsGInv DEF Tick, SInv, CInv
  <2>2. QED
    BY <2>1, LaterIsADate, QuietKeepsSInv DEF SInv
<1>8. CASE Lose
  <2>1. UNCHANGED <<now, shadow, ecu, loop>>
    BY <1>8 DEF Lose
  <2>2. toEcu' \in {toEcu, <<>>} /\ fromEcu' \in {fromEcu, <<>>}
    BY <1>8, OneMessage DEF Lose, SInv, CInv, GInv, AtMostOne
  <2>3. QED
    BY <2>1, <2>2, QuietKeepsSInv DEF SInv
<1>9. QED
  BY <1>1, <1>2, <1>3, <1>4, <1>5, <1>6, <1>7, <1>8

LEMMA ChainInitSInv ==
  ASSUME ServersAssumed, ChainInit
  PROVE  SInv
<1>1. CInv /\ loop.at = "idle" /\ toEcu = <<>> /\ fromEcu = <<>>
  BY ChainInitCInv DEF ChainInit, Init, Resting
<1>2. now \in Shadow!Clock /\ Typed(shadow) /\ Closed(shadow)
  BY DEF ChainInit, Init, Shadow!Init, Typed, Closed, Shape, Shadow!Clock,
         Shadow!ClockRange, ServersAssumed, Shadow!ClockAssumption,
         Shadow!SecurityAssumption
<1>3. Typed(ecu) /\ Closed(ecu)
  BY DEF ChainInit, Init, Ecu!Init, Typed, Closed, Shape, Shadow!Clock,
         Shadow!ClockRange, ServersAssumed, Shadow!ClockAssumption,
         Shadow!SecurityAssumption
<1>4. QED
  BY <1>1, <1>2, <1>3, OneMessage DEF SInv

LEMMA ChainNextSInv ==
  ASSUME MaxLatency < EcuTimeout, ServersAssumed, SInv,
         [ChainNext]_chainVars
  PROVE  SInv'
<1>1. CInv'
  BY ChainNextCInv DEF SInv
<1>2. CASE \/ ConsoleCommand \/ ConsoleKey \/ TesterStep \/ TakeAnswer
           \/ ClientGivesUp \/ LoseHop \/ UNCHANGED chainVars
  <2>1. UNCHANGED <<now, shadow, ecu, loop, toEcu, fromEcu>>
    BY <1>2
    DEF ConsoleCommand, ConsoleKey, ConsoleSends, TesterStep, Send,
        TakeAnswer, ClientGivesUp, LoseHop, OthersStay, chainVars, vars
  <2>2. QED
    BY <1>1, <2>1, QuietKeepsSInv DEF SInv
<1>3. CASE \/ GatewayJudges \/ GatewayRelays \/ Behind \/ ChainTick
           \/ OtherTester
  <2>1. \/ \E req : Admit(req)
        \/ Forward \/ ForwardFails \/ ReceiveAnswer \/ GiveUp \/ EcuHandles
        \/ EcuPolls \/ Tick \/ Lose
    BY <1>3 DEF GatewayJudges, GatewayRelays, Behind, ChainTick,
                OtherTester, Next, AdmitAny
  <2>2. QED
    BY <1>1, <2>1, GatewayKeepsSInv
<1>4. QED
  BY <1>2, <1>3 DEF ChainNext

LEMMA SeedInvariance ==
  ASSUME MaxLatency < EcuTimeout, ServersAssumed
  PROVE  ChainSpec => []SInv
<1>1. ChainInit => SInv
  BY ChainInitSInv
<1>2. SInv /\ [ChainNext]_chainVars => SInv'
  BY ChainNextSInv
<1>3. QED
  BY <1>1, <1>2, PTL DEF ChainSpec

\* A seed of the ECU, adopted however late and after whatever was lost,
\* never opens the shadow (gw_observe_response writes into a context that
\* its own deadlines and requests move): in the default session neither a
\* level nor a challenge is open in it, and under a bar no challenge is.
THEOREM AdoptedSeedsAreSafe ==
  ASSUME MaxLatency < EcuTimeout, ServersAssumed
  PROVE  ChainSpec => [](/\ Shadow!NothingOpenInDefault
                         /\ shadow.seed_pending => ~shadow.locked_out)
<1>1. SInv => /\ Shadow!NothingOpenInDefault
              /\ shadow.seed_pending => ~shadow.locked_out
  BY DEF SInv, Closed, Shadow!NothingOpenInDefault
<1>2. QED
  BY SeedInvariance, <1>1, PTL

-----------------------------------------------------------------------------
(* 6. The scenario of tester.c.                                            *)
(*                                                                         *)
(* On a chain that loses nothing the request of a step is at one of four   *)
(* places, and each place says how far shadow and ECU have come: both      *)
(* before the step, the shadow past it, both past it with the answer on    *)
(* its way to the gateway, and both past it with the answer on its way to  *)
(* the tester.  Their sessions do not fall due meanwhile, for a bound on   *)
(* their age goes with each place.                                         *)

\* Nothing was lost, and the seed the tester answers at step 12 is not the
\* null one.
TesterUndisturbed ==
  /\ program = "tester" /\ lost = 0
  /\ exchange.step >= 12 => console.seed # ZeroSeed

\* A session outlives two requests, the second of which the gateway stops.
SessionOutlivesSteps == S3 > 4 * MaxHop + 2 * MaxLatency

\* What a server has come to when the requests before step k are handled.
\* It is the same for both: the gateway stops the requests of Dropped, and
\* what they would change is only the challenge of step 10.
Stage(c, k) ==
  /\ c.session = IF k \in 4 .. 16 THEN "extended" ELSE "default"
  /\ c.security_level = IF k \in 13 .. 16 THEN "level1" ELSE "locked"
  /\ ~c.locked_out
  /\ k \in {10, 12} => c.seed_pending
  /\ c.seed_pending => k \in 10 .. 12
  /\ k <= 10 => c.failed_attempts = 0

Dropped == {2, 8, 10, 17}

\* At date n the session of c, if it holds one, is at most b ticks old.
Fresh(n, c, b) ==
  c.session # "default" => Shadow!Elapsed(n, c.last_activity) <= b

\* How old a session can be when the tester is about to send step k, and
\* when the answer to step k leaves the gateway.
Rest(k) == MaxLatency + (IF k \in {9, 11} THEN 3 * MaxHop ELSE MaxHop)
Home(k) == MaxLatency + (IF k \in {8, 10} THEN 2 * MaxHop ELSE 0)

\* The request of the tester's step, and an answer its label allows.
Asked == Script(console.seed)[exchange.step].req

Suits(a, s, k) ==
  LET step == Script(s)[k] IN
  /\ a.sid = step.req.sid
  /\ step.expect = "accepted" => a.kind = "positive"
  /\ step.expect = "refused" => a.kind = "negative"

AtRest ==
  LET k == exchange.step IN
  /\ loop.at = "idle" /\ toClient = <<>>
  /\ Waiting => toGateway # <<>>
  /\ ~Waiting => hop = 0
  /\ Stage(shadow, k) /\ Stage(ecu, k) /\ ecu.failed_attempts = 0
  /\ Fresh(now, shadow, Rest(k) + hop) /\ Fresh(now, ecu, Rest(k) + hop)
  /\ k = 12 => /\ shadow.current_seed = console.seed
               /\ ecu.current_seed = console.seed

Judged ==
  LET k == exchange.step IN
  /\ Waiting /\ k \notin Dropped
  /\ loop.at = "forward" \/ toEcu # <<>>
  /\ Stage(shadow, k + 1) /\ Stage(ecu, k) /\ ecu.failed_attempts = 0
  /\ Fresh(now, shadow, since.latency)
  /\ Fresh(now, ecu, Rest(k) + MaxHop + since.latency)
  /\ k = 12 => ecu.current_seed = console.seed

Answered ==
  LET k == exchange.step IN
  /\ Waiting /\ k \notin Dropped
  /\ Stage(shadow, k + 1) /\ Stage(ecu, k + 1) /\ ecu.failed_attempts = 0
  /\ Fresh(now, shadow, since.latency) /\ Fresh(now, ecu, since.latency)
  /\ \E a : /\ fromEcu = <<a>> /\ Suits(a, console.seed, k)
            /\ k = 11 => IsSeed(a) /\ a.seed = ecu.current_seed

Returning ==
  LET k == exchange.step IN
  /\ Waiting
  /\ Stage(shadow, k + 1) /\ Stage(ecu, k + 1) /\ ecu.failed_attempts = 0
  /\ Fresh(now, shadow, Home(k) + hop) /\ Fresh(now, ecu, Home(k) + hop)
  /\ \E a : /\ toClient = <<a>> /\ Suits(a, console.seed, k)
            /\ k = 11 => /\ IsSeed(a) /\ a.seed = ecu.current_seed
                         /\ a.seed # ZeroSeed => shadow.current_seed = a.seed

Unfolding == AtRest \/ Judged \/ Answered \/ Returning

\* Whatever is lost, the tester's messages are those of its step.
Tracked ==
  program = "tester" =>
    /\ exchange.step \in 1 .. LastStep
    /\ exchange.at = "over" => exchange.step = LastStep
    /\ toGateway # <<>> => toGateway = <<Asked>>
    /\ loop.at = "forward" => loop.forward = <<Asked>>
    /\ toEcu # <<>> => toEcu = <<Asked>>
    /\ \A a : (fromEcu = <<a>> \/ toClient = <<a>>) /\ IsSeed(a)
                => Seeks(Asked)

KInv == SInv /\ lost \in Nat /\ Tracked

\* The inductive invariant.
TInv == KInv /\ (TesterUndisturbed => Unfolding)

-----------------------------------------------------------------------------
(* The script, and what its requests make of a server.                     *)

LEMMA ScriptTable ==
  ASSUME NEW s, NEW k \in 1 .. LastStep, NEW req, req = Script(s)[k].req,
         NEW label, label = Script(s)[k].expect
  PROVE  /\ req.sid # "empty" /\ ~req.suppress
         /\ Enters(req) <=> k = 3
         /\ Leaves(req) <=> k \in {2, 8, 16, 17}
         /\ Seeks(req) <=> k \in {9, 11}
         /\ SendsKey(req) <=> k \in {10, 12, 13}
         /\ req.sid = "unknown" <=> k = 19
         /\ req.size = "exact" <=> k # 19
         /\ req.sid \in Shadow!NeedsExtended
              <=> k \in {2, 8, 9, 10, 11, 12, 13, 14, 16, 17}
         /\ req.sid \in Shadow!NeedsUnlock <=> k \in {2, 8, 16, 17}
         /\ k = 10 => req.key = BadKey
         /\ k = 12 => req.key = KeyOf[s]
         /\ label = "accepted" <=> k \in {3, 9, 11, 12, 16}
         /\ label = "refused" <=> k \in {2, 8, 10, 13, 17, 19}
<1>1. \/ k = 1 \/ k = 2 \/ k = 3 \/ k = 4 \/ k = 5 \/ k = 6 \/ k = 7
      \/ k = 8 \/ k = 9 \/ k = 10 \/ k = 11 \/ k = 12 \/ k = 13 \/ k = 14
      \/ k = 15 \/ k = 16 \/ k = 17 \/ k = 18 \/ k = 19
  BY DEF LastStep
<1>2. CASE k = 1
  BY <1>2 DEF Script, At, Asks, SendsKeyOf, Enters, Leaves, Seeks,
     SendsKey, Shadow!NeedsExtended, Shadow!NeedsUnlock
<1>3. CASE k = 2
  BY <1>3 DEF Script, At, Asks, SendsKeyOf, Enters, Leaves, Seeks,
     SendsKey, Shadow!NeedsExtended, Shadow!NeedsUnlock
<1>4. CASE k = 3
  BY <1>4 DEF Script, At, Asks, SendsKeyOf, Enters, Leaves, Seeks,
     SendsKey, Shadow!NeedsExtended, Shadow!NeedsUnlock
<1>5. CASE k = 4
  BY <1>5 DEF Script, At, Asks, SendsKeyOf, Enters, Leaves, Seeks,
     SendsKey, Shadow!NeedsExtended, Shadow!NeedsUnlock
<1>6. CASE k = 5
  BY <1>6 DEF Script, At, Asks, SendsKeyOf, Enters, Leaves, Seeks,
     SendsKey, Shadow!NeedsExtended, Shadow!NeedsUnlock
<1>7. CASE k = 6
  BY <1>7 DEF Script, At, Asks, SendsKeyOf, Enters, Leaves, Seeks,
     SendsKey, Shadow!NeedsExtended, Shadow!NeedsUnlock
<1>8. CASE k = 7
  BY <1>8 DEF Script, At, Asks, SendsKeyOf, Enters, Leaves, Seeks,
     SendsKey, Shadow!NeedsExtended, Shadow!NeedsUnlock
<1>9. CASE k = 8
  BY <1>9 DEF Script, At, Asks, SendsKeyOf, Enters, Leaves, Seeks,
     SendsKey, Shadow!NeedsExtended, Shadow!NeedsUnlock
<1>10. CASE k = 9
  BY <1>10 DEF Script, At, Asks, SendsKeyOf, Enters, Leaves, Seeks,
     SendsKey, Shadow!NeedsExtended, Shadow!NeedsUnlock
<1>11. CASE k = 10
  BY <1>11 DEF Script, At, Asks, SendsKeyOf, Enters, Leaves, Seeks,
     SendsKey, Shadow!NeedsExtended, Shadow!NeedsUnlock
<1>12. CASE k = 11
  BY <1>12 DEF Script, At, Asks, SendsKeyOf, Enters, Leaves, Seeks,
     SendsKey, Shadow!NeedsExtended, Shadow!NeedsUnlock
<1>13. CASE k = 12
  BY <1>13 DEF Script, At, Asks, SendsKeyOf, Enters, Leaves, Seeks,
     SendsKey, Shadow!NeedsExtended, Shadow!NeedsUnlock
<1>14. CASE k = 13
  BY <1>14 DEF Script, At, Asks, SendsKeyOf, Enters, Leaves, Seeks,
     SendsKey, Shadow!NeedsExtended, Shadow!NeedsUnlock
<1>15. CASE k = 14
  BY <1>15 DEF Script, At, Asks, SendsKeyOf, Enters, Leaves, Seeks,
     SendsKey, Shadow!NeedsExtended, Shadow!NeedsUnlock
<1>16. CASE k = 15
  BY <1>16 DEF Script, At, Asks, SendsKeyOf, Enters, Leaves, Seeks,
     SendsKey, Shadow!NeedsExtended, Shadow!NeedsUnlock
<1>17. CASE k = 16
  BY <1>17 DEF Script, At, Asks, SendsKeyOf, Enters, Leaves, Seeks,
     SendsKey, Shadow!NeedsExtended, Shadow!NeedsUnlock
<1>18. CASE k = 17
  BY <1>18 DEF Script, At, Asks, SendsKeyOf, Enters, Leaves, Seeks,
     SendsKey, Shadow!NeedsExtended, Shadow!NeedsUnlock
<1>19. CASE k = 18
  BY <1>19 DEF Script, At, Asks, SendsKeyOf, Enters, Leaves, Seeks,
     SendsKey, Shadow!NeedsExtended, Shadow!NeedsUnlock
<1>20. CASE k = 19
  BY <1>20 DEF Script, At, Asks, SendsKeyOf, Enters, Leaves, Seeks,
     SendsKey, Shadow!NeedsExtended, Shadow!NeedsUnlock
<1>21. QED
  BY <1>1, <1>2, <1>3, <1>4, <1>5, <1>6, <1>7, <1>8, <1>9, <1>10,
     <1>11, <1>12, <1>13, <1>14, <1>15, <1>16, <1>17, <1>18, <1>19, <1>20

\* What a server at step k makes of the request of step k.
LEMMA ServedInScript ==
  ASSUME NEW s, NEW k \in 1 .. LastStep, NEW req, req = Script(s)[k].req,
         NEW c, Typed(c), Stage(c, k), c.session # "default" => Alive(c),
         k = 12 => c.current_seed = s
  PROVE  /\ Alive(c) <=> k \in 4 .. 16
         /\ ~Barred(c)
         /\ Serves(c, req) <=> k \notin {2, 8, 17, 19}
         /\ Judges(c, req) <=> k \in {10, 12}
         /\ Strikes(c, req) <=> k = 10
         /\ Unlocks(c, req) <=> k = 12
         /\ Passes(c, req) <=> k \notin Dropped
<1>1. /\ req.sid # "empty"
      /\ SendsKey(req) <=> k \in {10, 12, 13}
      /\ req.sid = "unknown" <=> k = 19
      /\ req.size = "exact" <=> k # 19
      /\ req.sid \in Shadow!NeedsExtended
           <=> k \in {2, 8, 9, 10, 11, 12, 13, 14, 16, 17}
      /\ req.sid \in Shadow!NeedsUnlock <=> k \in {2, 8, 16, 17}
      /\ k = 10 => req.key = BadKey
      /\ k = 12 => req.key = KeyOf[s]
  BY ScriptTable
<1>2. k \in Int /\ 1 <= k /\ k <= 19
  BY DEF LastStep
<1>3. (Alive(c) <=> k \in 4 .. 16) /\ ~Barred(c)
  BY <1>2 DEF Stage, Alive, Barred
<1>4. Open(c) <=> k \in 13 .. 16
  BY <1>2, <1>3 DEF Open, Stage
<1>5. Serves(c, req) <=> k \notin {2, 8, 17, 19}
  BY <1>1, <1>2, <1>3, <1>4 DEF Serves
<1>6. Judges(c, req) <=> k \in {10, 12}
  BY <1>1, <1>2, <1>3 DEF Judges, Stage
<1>7. k = 10 => req.key # KeyOf[c.current_seed]
  BY <1>1, ChainAssumption DEF Typed
<1>8. k = 12 => req.key = KeyOf[c.current_seed]
  BY <1>1
<1>9. /\ Strikes(c, req) <=> k = 10
      /\ Unlocks(c, req) <=> k = 12
  BY <1>6, <1>7, <1>8 DEF Strikes, Unlocks
<1>10. Passes(c, req) <=> k \notin Dropped
  BY <1>1, <1>2, <1>3, <1>5, <1>9 DEF Passes, Dropped
<1>11. QED
  BY <1>3, <1>5, <1>6, <1>9, <1>10

\* It comes to the next step.
LEMMA ScriptAdvances ==
  ASSUME MaxAttempts > 1,
         NEW s, NEW k \in 1 .. LastStep, NEW req, req = Script(s)[k].req,
         NEW c, Typed(c), Stage(c, k), c.session # "default" => Alive(c),
         k = 12 => c.current_seed = s, NEW d, Effect(c, d, req)
  PROVE  /\ Stage(d, k + 1)
         /\ k # 10 /\ c.failed_attempts = 0 => d.failed_attempts = 0
         /\ k \notin {9, 11} => d.current_seed = c.current_seed
              \/ d.session = "default"
         /\ d.session # "default" =>
              d.last_activity = IF k = 8 THEN c.last_activity ELSE now
<1>1. /\ Alive(c) <=> k \in 4 .. 16
      /\ ~Barred(c)
      /\ Serves(c, req) <=> k \notin {2, 8, 17, 19}
      /\ Judges(c, req) <=> k \in {10, 12}
      /\ Strikes(c, req) <=> k = 10
      /\ Unlocks(c, req) <=> k = 12
  BY ServedInScript
<1>2. /\ Enters(req) <=> k = 3
      /\ Leaves(req) <=> k \in {2, 8, 16, 17}
      /\ Seeks(req) <=> k \in {9, 11}
  BY ScriptTable
<1>3. k \in Int /\ 1 <= k /\ k <= 19
  BY DEF LastStep
<1>4. Alive(d) <=> k + 1 \in 4 .. 16
  BY <1>1, <1>2, <1>3 DEF Effect
<1>5. d.session = IF k + 1 \in 4 .. 16 THEN "extended" ELSE "default"
  BY <1>4 DEF Effect, Typed, Alive
<1>6. d.security_level = IF k + 1 \in 13 .. 16 THEN "level1" ELSE "locked"
  <2>1. CASE Alive(d)
    BY <1>1, <1>3, <1>4, <2>1 DEF Effect, Stage
  <2>2. CASE ~Alive(d)
    BY <1>3, <1>4, <1>5, <2>2 DEF Effect, Closed
  <2>3. QED
    BY <2>1, <2>2
<1>7. ~d.locked_out
  BY <1>1, <1>3 DEF Effect, Stage
<1>8. d.seed_pending <=> k \in {9, 11}
  <2>1. CASE Alive(d)
    <3>1. d.seed_pending <=>
            /\ Alive(c)
            /\ IF Seeks(req) THEN c.security_level = "locked"
               ELSE c.seed_pending /\ ~Judges(c, req)
      BY <1>1, <2>1 DEF Effect
    <3>2. CASE k \in {9, 11}
      BY <1>1, <1>2, <1>3, <3>1, <3>2 DEF Stage
    <3>3. CASE k \notin {9, 11}
      BY <1>1, <1>2, <1>3, <3>1, <3>3 DEF Stage
    <3>4. QED
      BY <3>2, <3>3
  <2>2. CASE ~Alive(d)
    BY <1>3, <1>4, <1>5, <2>2 DEF Effect, Closed
  <2>3. QED
    BY <2>1, <2>2
<1>9. k # 10 /\ c.failed_attempts = 0 => d.failed_attempts = 0
  BY <1>1 DEF Effect
<1>10. k + 1 <= 10 => d.failed_attempts = 0
  BY <1>3, <1>9 DEF Stage
<1>11. Stage(d, k + 1)
  BY <1>3, <1>5, <1>6, <1>7, <1>8, <1>10 DEF Stage
<1>12. k \notin {9, 11} => d.current_seed = c.current_seed
                          \/ d.session = "default"
  BY <1>2 DEF Effect
<1>13. d.session # "default" =>
         d.last_activity = IF k = 8 THEN c.last_activity ELSE now
  BY <1>1, <1>3, <1>5 DEF Effect
<1>14. QED
  BY <1>9, <1>11, <1>12, <1>13

\* A server that is spared the request of a step gets there as well.
LEMMA ScriptSpares ==
  ASSUME NEW k \in Dropped, NEW c, Stage(c, k)
  PROVE  Stage(c, k + 1)
<1>1. k = 2 \/ k = 8 \/ k = 10 \/ k = 17
  BY DEF Dropped
<1>2. CASE k = 2
  BY <1>2 DEF Stage
<1>3. CASE k = 8
  BY <1>3 DEF Stage
<1>4. CASE k = 10
  BY <1>4 DEF Stage
<1>5. CASE k = 17
  BY <1>5 DEF Stage
<1>6. QED
  BY <1>1, <1>2, <1>3, <1>4, <1>5

\* The tester's last step leaves its step where it is.
LEMMA LastStage ==
  ASSUME NEW c, Stage(c, LastStep + 1)
  PROVE  Stage(c, LastStep) /\ c.session = "default"
  BY DEF Stage, LastStep

\* Polls that find a session alive change nothing of this.
LEMMA PolledStage ==
  ASSUME NEW k \in 1 .. LastStep + 1, NEW c, Typed(c), Closed(c),
         Stage(c, k), c.session # "default" => Alive(c),
         NEW d, d = Polls(c)
  PROVE  /\ Stage(d, k) /\ d.session = c.session
         /\ d.last_activity = c.last_activity
         /\ d.current_seed = c.current_seed
         /\ c.failed_attempts = 0 => d.failed_attempts = 0
<1>1. /\ d.session = IF Alive(c) THEN "extended" ELSE "default"
      /\ d.security_level = IF Alive(c) THEN c.security_level ELSE "locked"
      /\ d.last_activity = c.last_activity
      /\ d.seed_pending <=> Alive(c) /\ c.seed_pending
      /\ d.current_seed = c.current_seed
      /\ d.locked_out <=> Barred(c)
      /\ c.failed_attempts = 0 => d.failed_attempts = 0
  BY PolledFields
<1>2. ~Barred(c)
  BY DEF Stage, Barred
<1>3. d.session = c.session
  BY <1>1 DEF Alive, Typed
<1>4. d.security_level = c.security_level
  BY <1>1 DEF Closed, Typed, Shape
<1>5. d.seed_pending <=> c.seed_pending
  BY <1>1 DEF Closed
<1>6. QED
  BY <1>1, <1>2, <1>3, <1>4, <1>5 DEF Stage

-----------------------------------------------------------------------------
(* Whatever is lost, the messages are those of the step.                   *)

\* Nothing is under way between two exchanges.
LEMMA NothingUnderWay ==
  ASSUME CInv, program # "other", ~Waiting
  PROVE  /\ toGateway = <<>> /\ toClient = <<>> /\ loop.at = "idle"
         /\ toEcu = <<>> /\ fromEcu = <<>>
  BY DEF CInv, GInv, ExchangesAreClosed, Nowhere

LEMMA ConcludedKeepsKInv ==
  ASSUME KInv, SInv', lost' \in Nat, program' = program,
         exchange' = Concluded
  PROVE  KInv'
<1>1. CASE program = "tester"
  <2>1. /\ exchange'.step \in 1 .. LastStep
        /\ exchange'.at = "over" => exchange'.step = LastStep
        /\ exchange'.at # "await"
    BY <1>1 DEF Concluded, KInv, Tracked, LastStep
  <2>2. /\ toGateway' = <<>> /\ toClient' = <<>> /\ loop'.at = "idle"
        /\ toEcu' = <<>> /\ fromEcu' = <<>>
    BY <1>1, <2>1, NothingUnderWay DEF SInv, Waiting, CInv, GInv,
       ExchangesAreClosed, Nowhere
  <2>3. QED
    BY <2>1, <2>2, OneMessage DEF KInv, Tracked
<1>2. CASE program # "tester"
  BY <1>2 DEF KInv, Tracked
<1>3. QED
  BY <1>1, <1>2

\* Steps that bring no message to where there was none.
LEMMA SameAsked ==
  ASSUME UNCHANGED console, exchange'.step = exchange.step
  PROVE  Asked' = Asked
  BY DEF Asked, Script, At, Asks, SendsKeyOf

LEMMA QuietKeepsKInv ==
  ASSUME KInv, SInv', lost' \in Nat, UNCHANGED <<program, console>>,
         exchange'.step = exchange.step, exchange'.at = exchange.at,
         toGateway' \in {toGateway, <<>>},
         loop'.at = "forward" => /\ loop.at = "forward"
                                 /\ loop'.forward = loop.forward,
         \/ toEcu' \in {toEcu, <<>>}
         \/ loop.at = "forward" /\ toEcu' = loop.forward,
         \/ fromEcu' \in {fromEcu, <<>>} /\ toClient' \in {toClient, <<>>}
         \/ fromEcu' = <<>> /\ toClient' = fromEcu
  PROVE  KInv'
<1>1. Asked' = Asked
  BY SameAsked
<1>2. CASE program = "tester"
  <2>1. /\ toGateway' # <<>> => toGateway' = <<Asked>>
        /\ loop'.at = "forward" => loop'.forward = <<Asked>>
        /\ toEcu' # <<>> => toEcu' = <<Asked>>
    BY <1>2 DEF KInv, Tracked
  <2>2. \A a : (fromEcu' = <<a>> \/ toClient' = <<a>>) /\ IsSeed(a)
                 => Seeks(Asked)
    BY <1>2, OneMessage DEF KInv, Tracked
  <2>3. QED
    BY <1>1, <1>2, <2>1, <2>2 DEF KInv, Tracked
<1>3. CASE program # "tester"
  BY <1>3 DEF KInv, Tracked
<1>4. QED
  BY <1>2, <1>3

LEMMA TesterStepKeepsKInv ==
  ASSUME KInv, SInv', TesterStep
  PROVE  KInv'
<1>1. /\ program = "tester" /\ Send(Asked)
      /\ exchange.at = "ready"
      /\ UNCHANGED <<program, console, toClient, loop, toEcu, fromEcu>>
  BY DEF TesterStep, Send, OthersStay, Asked
<1>2. /\ toGateway = <<>> /\ toClient = <<>> /\ loop.at = "idle"
      /\ toEcu = <<>> /\ fromEcu = <<>>
  BY <1>1, NothingUnderWay DEF KInv, SInv, Waiting
<1>3. CASE /\ toGateway' = Append(toGateway, Asked) /\ lost' = lost
           /\ exchange' = [exchange EXCEPT !.at = "await",
                                           !.asked = <<Asked>>]
  <2>1. exchange'.step = exchange.step /\ exchange'.at = "await"
    BY <1>3 DEF KInv, SInv, CInv, ExchangeTyped
  <2>2. Asked' = Asked /\ toGateway' = <<Asked>>
    BY <1>1, <1>2, <1>3, <2>1, SameAsked, OneMessage
  <2>3. QED
    BY <1>1, <1>2, <1>3, <2>1, <2>2, OneMessage DEF KInv, Tracked
<1>4. CASE lost' = lost + 1 /\ exchange' = Concluded
  BY <1>1, <1>4, ConcludedKeepsKInv DEF KInv
<1>5. QED
  BY <1>1, <1>3, <1>4 DEF Send

\* The refusal of the shadow is no seed; what it lets through goes on.
LEMMA JudgingKeepsKInv ==
  ASSUME KInv, SInv', GatewayJudges
  PROVE  KInv'
<1>1. /\ toGateway # <<>> /\ toGateway' = Tail(toGateway)
      /\ Admit(Head(toGateway))
      /\ toClient' = IF told' = Nothing THEN toClient
                                        ELSE Append(toClient, told')
      /\ UNCHANGED <<program, exchange, console>>
  BY DEF GatewayJudges, ClientStays
<1>2. /\ loop.at = "idle" /\ UNCHANGED <<toEcu, fromEcu, lost>>
      /\ \/ Drops(told') /\ loop' = loop
         \/ told' = Nothing /\ loop'.at = "forward"
            /\ loop'.forward = <<Head(toGateway)>>
  BY <1>1 DEF Admit
<1>3. program # "other" /\ Waiting /\ Outbound
  BY <1>1 DEF KInv, SInv, CInv, InTheLoop, Homeward, Nowhere
<1>4. toClient = <<>> /\ toGateway' = <<>> /\ toEcu = <<>> /\ fromEcu = <<>>
  BY <1>1, <1>2, <1>3, OneMessage
  DEF Outbound, KInv, SInv, CInv, GInv, ExchangesAreClosed
<1>5. Asked' = Asked
  BY <1>1, SameAsked
<1>6. CASE program = "tester"
  <2>1. Head(toGateway) = Asked
    BY <1>1, <1>6, OneMessage DEF KInv, Tracked
  <2>2. loop'.at = "forward" => loop'.forward = <<Asked>>
    BY <1>2, <2>1
  <2>3. \A a : toClient' = <<a>> => ~IsSeed(a)
    BY <1>1, <1>2, <1>4, OneMessage DEF Drops, IsSeed, Nothing,
       Shadow!NoReply
  <2>4. QED
    BY <1>1, <1>2, <1>4, <1>5, <1>6, <2>2, <2>3, OneMessage
    DEF KInv, Tracked
<1>7. CASE program # "tester"
  BY <1>1, <1>2, <1>7 DEF KInv, Tracked
<1>8. QED
  BY <1>6, <1>7

\* The ECU hands out a seed for a request that asks for one.
LEMMA HandlingKeepsKInv ==
  ASSUME KInv, SInv', EcuHandles, program # "other",
         UNCHANGED <<program, exchange, console, toGateway, toClient>>
  PROVE  KInv'
<1>1. PICK req : toEcu = <<req>>
  BY DEF EcuHandles, KInv, SInv, CInv, GInv, AtMostOne
<1>2. fromEcu = <<>> /\ loop.at = "await"
  BY <1>1, OneMessage
  DEF KInv, SInv, CInv, GInv, AtMostOne, ExchangesAreClosed
<1>3. toClient = <<>>
  BY <1>2, BusyMeansWaiting DEF InTheLoop, KInv, SInv
<1>4. PICK o \in EcuOutcomes(req.sid) : Ecu!HandleRequest(req, o)
  BY <1>1, OneMessage DEF EcuHandles
<1>5. req.sid = "ECUReset" => o = "ok"
  BY <1>4 DEF EcuOutcomes
<1>6. IsSeed(response') => Seeks(req)
  BY <1>4, <1>5, EcuHandled DEF KInv, SInv
<1>7. /\ toEcu' = <<>> /\ fromEcu' \in {<<>>, <<response'>>}
      /\ UNCHANGED <<loop, lost>>
  BY <1>1, <1>2, OneMessage DEF EcuHandles
<1>8. Asked' = Asked
  BY SameAsked
<1>9. CASE program = "tester"
  <2>1. req = Asked
    BY <1>1, <1>9, OneMessage DEF KInv, Tracked
  <2>2. \A a : (fromEcu' = <<a>> \/ toClient' = <<a>>) /\ IsSeed(a)
                 => Seeks(Asked)
    BY <1>3, <1>6, <1>7, <2>1, OneMessage
  <2>3. QED
    BY <1>7, <1>8, <1>9, <2>2 DEF KInv, Tracked
<1>10. CASE program # "tester"
  BY <1>7, <1>10 DEF KInv, Tracked
<1>11. QED
  BY <1>9, <1>10

LEMMA RelayingKeepsKInv ==
  ASSUME KInv, SInv', GatewayRelays
  PROVE  KInv'
<1>1. /\ program # "other" /\ ReceiveAnswer
      /\ toClient' = Append(toClient, told')
      /\ UNCHANGED <<program, exchange, console, toGateway, toEcu, lost>>
  BY DEF GatewayRelays, ClientStays, ReceiveAnswer
<1>2. /\ loop.at = "await" /\ fromEcu # <<>> /\ told' = Head(fromEcu)
      /\ fromEcu' = Tail(fromEcu) /\ loop'.at = "idle"
  BY <1>1 DEF ReceiveAnswer, Resting
<1>3. PICK r : fromEcu = <<r>>
  BY <1>2 DEF KInv, SInv, CInv, GInv, AtMostOne
<1>4. toClient = <<>>
  BY <1>1, <1>2, BusyMeansWaiting DEF KInv, SInv, InTheLoop
<1>5. fromEcu' = <<>> /\ toClient' = fromEcu
  BY <1>1, <1>2, <1>3, <1>4, OneMessage
<1>6. QED
  BY <1>1, <1>2, <1>5, QuietKeepsKInv DEF KInv

LEMMA BehindKeepsKInv ==
  ASSUME KInv, SInv', Behind
  PROVE  KInv'
<1>1. /\ program # "other"
      /\ Forward \/ ForwardFails \/ GiveUp \/ EcuHandles \/ EcuPolls \/ Lose
      /\ UNCHANGED <<program, exchange, console, toGateway, toClient>>
  BY DEF Behind, ClientStays
<1>2. CASE Forward
  <2>1. toEcu = <<>> /\ \E r : loop.forward = <<r>>
    BY <1>2 DEF Forward, KInv, SInv, CInv, GInv, ExchangesAreClosed, LoopTyped
  <2>2. toEcu' = loop.forward
    BY <1>2, <2>1, OneMessage DEF Forward
  <2>3. /\ UNCHANGED <<fromEcu, lost>>
        /\ loop.at = "forward" /\ loop'.at = "await"
    BY <1>2 DEF Forward
  <2>4. QED
    BY <1>1, <2>2, <2>3, QuietKeepsKInv DEF KInv
<1>3. CASE ForwardFails \/ GiveUp
  <2>1. /\ UNCHANGED <<toEcu, fromEcu>> /\ loop'.at = "idle"
        /\ lost' \in {lost, lost + 1}
    BY <1>3 DEF ForwardFails, GiveUp, Resting
  <2>2. lost' \in Nat
    BY <2>1 DEF KInv
  <2>3. QED
    BY <1>1, <2>1, <2>2, QuietKeepsKInv
<1>4. CASE EcuHandles
  BY <1>1, <1>4, HandlingKeepsKInv
<1>5. CASE EcuPolls
  <2>1. UNCHANGED <<loop, toEcu, fromEcu, lost>>
    BY <1>5 DEF EcuPolls
  <2>2. QED
    BY <1>1, <2>1, QuietKeepsKInv DEF KInv
<1>6. CASE Lose
  <2>1. loop' = loop /\ lost' = lost + 1
    BY <1>6 DEF Lose
  <2>2. toEcu' \in {toEcu, <<>>} /\ fromEcu' \in {fromEcu, <<>>}
    BY <1>6, OneMessage DEF Lose, KInv, SInv, CInv, GInv, AtMostOne
  <2>3. lost' \in Nat
    BY <2>1 DEF KInv
  <2>4. QED
    BY <1>1, <2>1, <2>2, <2>3, QuietKeepsKInv
<1>7. QED
  BY <1>1, <1>2, <1>3, <1>4, <1>5, <1>6

LEMMA LosingKeepsKInv ==
  ASSUME KInv, SInv', LoseHop
  PROVE  KInv'
<1>1. /\ program # "other" /\ lost' = lost + 1
      /\ \/ toGateway # <<>> /\ toGateway' = Tail(toGateway)
            /\ UNCHANGED toClient
         \/ toClient # <<>> /\ toClient' = Tail(toClient)
            /\ UNCHANGED toGateway
      /\ UNCHANGED <<program, exchange, console, loop, toEcu, fromEcu>>
  BY DEF LoseHop, OthersStay, ClientStays
<1>2. Waiting /\ (Outbound \/ Homeward)
  BY <1>1 DEF KInv, SInv, CInv, InTheLoop, Nowhere
<1>3. toGateway' \in {toGateway, <<>>} /\ toClient' \in {toClient, <<>>}
  BY <1>1, <1>2, OneMessage DEF Outbound, Homeward
<1>4. lost' \in Nat
  BY <1>1 DEF KInv
<1>5. QED
  BY <1>1, <1>3, <1>4, QuietKeepsKInv

LEMMA ChainTickKeepsKInv ==
  ASSUME KInv, SInv', ChainTick
  PROVE  KInv'
<1>1. /\ Tick
      /\ exchange' = [exchange EXCEPT !.waited =
                        IF Waiting /\ exchange.waited < ClientTimeout
                        THEN exchange.waited + 1 ELSE exchange.waited]
      /\ UNCHANGED <<program, console, toGateway, toClient>>
  BY DEF ChainTick
<1>2. /\ UNCHANGED <<toEcu, fromEcu, lost>>
      /\ loop'.at = loop.at /\ loop'.forward = loop.forward
  BY <1>1, TickKeepsGInv DEF Tick, KInv, SInv, CInv
<1>3. exchange'.at = exchange.at /\ exchange'.step = exchange.step
  BY <1>1 DEF KInv, SInv, CInv, ExchangeTyped
<1>4. QED
  BY <1>1, <1>2, <1>3, QuietKeepsKInv DEF KInv

LEMMA ChainNextKInv ==
  ASSUME MaxLatency < EcuTimeout, ServersAssumed, KInv,
         [ChainNext]_chainVars
  PROVE  KInv'
<1>1. SInv'
  BY ChainNextSInv DEF KInv
<1>2. CASE ConsoleCommand \/ ConsoleKey \/ OtherTester
  <2>1. program # "tester" /\ program' = program
    BY <1>2 DEF ConsoleCommand, ConsoleKey, ConsoleSends, Send, OtherTester,
                ClientStays
  <2>2. lost' \in {lost, lost + 1}
    BY <1>2
    DEF ConsoleCommand, ConsoleKey, ConsoleSends, Send, OtherTester, Next,
        AdmitAny, Admit, Forward, ForwardFails, ReceiveAnswer, GiveUp,
        EcuHandles, EcuPolls, Tick, Lose
  <2>3. lost' \in Nat
    BY <2>2 DEF KInv
  <2>4. QED
    BY <1>1, <2>1, <2>3 DEF KInv, Tracked
<1>3. CASE TesterStep
  BY <1>1, <1>3, TesterStepKeepsKInv
<1>4. CASE TakeAnswer \/ ClientGivesUp
  <2>1. exchange' = Concluded /\ UNCHANGED <<program, lost>>
    BY <1>4 DEF TakeAnswer, ClientGivesUp
  <2>2. QED
    BY <1>1, <2>1, ConcludedKeepsKInv DEF KInv
<1>5. CASE GatewayJudges
  BY <1>1, <1>5, JudgingKeepsKInv
<1>6. CASE GatewayRelays
  BY <1>1, <1>6, RelayingKeepsKInv
<1>7. CASE Behind
  BY <1>1, <1>7, BehindKeepsKInv
<1>8. CASE LoseHop
  BY <1>1, <1>8, LosingKeepsKInv
<1>9. CASE ChainTick
  BY <1>1, <1>9, ChainTickKeepsKInv
<1>10. CASE UNCHANGED chainVars
  <2>1. UNCHANGED <<program, exchange, console, toGateway, toClient, loop,
                    toEcu, fromEcu, lost>>
    BY <1>10 DEF chainVars, vars
  <2>2. QED
    BY <1>1, <2>1, QuietKeepsKInv DEF KInv
<1>11. QED
  BY <1>2, <1>3, <1>4, <1>5, <1>6, <1>7, <1>8, <1>9, <1>10 DEF ChainNext


-----------------------------------------------------------------------------
(* How old the sessions can be.                                            *)

\* So it is for the timeouts of the code: UDS_S3_SERVER_TIMEOUT_MS, 5000,
\* is more than twice RESPONSE_TIMEOUT_MS, 2000, within which a request has
\* its answer.
LEMMA TimeoutsOfTheCode ==
  ASSUME ServersAssumed, S3 >= 2 * ClientTimeout
  PROVE  SessionOutlivesSteps
<1>1. /\ S3 \in Nat /\ ClientTimeout \in Nat /\ EcuTimeout \in Nat
      /\ MaxHop \in Nat /\ MaxLatency \in Nat
  BY ChainAssumption, GatewayAssumption
  DEF ServersAssumed, Shadow!ClockAssumption
<1>2. ClientTimeout > 2 * MaxHop + MaxLatency + EcuTimeout
  BY ChainAssumption
<1>3. QED
  BY <1>1, <1>2 DEF SessionOutlivesSteps

LEMMA Budgets ==
  ASSUME ServersAssumed, SessionOutlivesSteps, NEW k \in 1 .. LastStep,
         NEW h \in 0 .. MaxHop, NEW l \in 0 .. MaxLatency
  PROVE  /\ Rest(k) \in Nat /\ Home(k) \in Nat
         /\ Rest(k) + h < S3 /\ Rest(k) + MaxHop + l < S3
         /\ Home(k) + h < S3 /\ l < S3
         /\ k \in {8, 10} => Rest(k) + h <= Home(k)
         /\ Rest(k) + h <= Rest(k) + MaxHop
         /\ l <= Home(k)
         /\ Home(k) + h <= Rest(k + 1)
<1>1. /\ k \in Int /\ MaxHop \in Nat /\ MaxLatency \in Nat
      /\ h \in Nat /\ h <= MaxHop /\ l \in Nat /\ l <= MaxLatency
      /\ S3 \in Nat /\ S3 > 4 * MaxHop + 2 * MaxLatency
  BY ChainAssumption, GatewayAssumption
  DEF SessionOutlivesSteps, ServersAssumed, Shadow!ClockAssumption
<1>2. CASE k \in {8, 10}
  <2>1. Rest(k) = MaxLatency + MaxHop
    BY <1>2 DEF Rest
  <2>2. Home(k) = MaxLatency + 2 * MaxHop
    BY <1>2 DEF Home
  <2>3. Rest(k + 1) = MaxLatency + 3 * MaxHop
    BY <1>2 DEF Rest
  <2>4. QED
    BY <1>1, <2>1, <2>2, <2>3
<1>3. CASE k \in {9, 11}
  <2>1. Rest(k) = MaxLatency + 3 * MaxHop
    BY <1>3 DEF Rest
  <2>2. Home(k) = MaxLatency
    BY <1>1, <1>3 DEF Home
  <2>3. Rest(k + 1) = MaxLatency + MaxHop
    BY <1>3 DEF Rest
  <2>4. QED
    BY <1>1, <1>3, <2>1, <2>2, <2>3
<1>4. CASE k \notin {8, 9, 10, 11}
  <2>1. Rest(k) = MaxLatency + MaxHop
    BY <1>4 DEF Rest
  <2>2. Home(k) = MaxLatency
    BY <1>1, <1>4 DEF Home
  <2>3. Rest(k + 1) = MaxLatency + MaxHop
    BY <1>1, <1>4 DEF Rest
  <2>4. QED
    BY <1>1, <1>4, <2>1, <2>2, <2>3
<1>5. QED
  BY <1>2, <1>3, <1>4

LEMMA FreshIsAlive ==
  ASSUME ServersAssumed, now \in Shadow!Clock, NEW c, Typed(c),
         NEW b \in Int, b < S3, Fresh(now, c, b)
  PROVE  c.session # "default" => Alive(c)
<1>1. Shadow!Elapsed(now, c.last_activity) \in Nat
  BY ElapsedIsNat DEF Typed
<1>2. S3 \in Nat
  BY DEF ServersAssumed, Shadow!ClockAssumption
<1>3. QED
  BY <1>1, <1>2 DEF Fresh, Alive

LEMMA FreshAges ==
  ASSUME ServersAssumed, now \in Shadow!Clock, now' = Shadow!Later(now, 1),
         NEW c, Typed(c), NEW b \in Int, b < S3, Fresh(now, c, b)
  PROVE  Fresh(now', c, b + 1)
<1>1. Shadow!Elapsed(now, c.last_activity) \in Nat
  BY ElapsedIsNat DEF Typed
<1>2. S3 \in Nat /\ S3 < Shadow!ClockRange /\ Shadow!ClockRange \in Nat
  BY DEF ServersAssumed, Shadow!ClockAssumption, Shadow!ClockRange
<1>3. ASSUME c.session # "default"
      PROVE  Shadow!Elapsed(now', c.last_activity) <= b + 1
  <2>1. Shadow!Elapsed(now, c.last_activity) <= b
    BY <1>3 DEF Fresh
  <2>2. Shadow!Elapsed(now, c.last_activity) + 1 < Shadow!ClockRange
    BY <1>1, <1>2, <2>1
  <2>3. Shadow!Elapsed(now', c.last_activity)
          = Shadow!Elapsed(now, c.last_activity) + 1
    BY <2>2, OneTickOlder DEF Typed
  <2>4. QED
    BY <1>1, <2>1, <2>3
<1>4. QED
  BY <1>3 DEF Fresh

LEMMA FreshNow ==
  ASSUME ServersAssumed, now \in Shadow!Clock, NEW c,
         c.session # "default" => c.last_activity = now, NEW b \in Nat
  PROVE  Fresh(now, c, b)
<1>1. Shadow!Elapsed(now, now) = 0
  BY DEF Shadow!Clock, Shadow!ClockRange, Shadow!Elapsed, ServersAssumed,
         Shadow!ClockAssumption
<1>2. QED
  BY <1>1 DEF Fresh

LEMMA FreshLonger ==
  ASSUME ServersAssumed, now \in Shadow!Clock, NEW c, Typed(c),
         NEW b \in Int, NEW e \in Int, b <= e, Fresh(now, c, b)
  PROVE  Fresh(now, c, e)
<1>1. Shadow!Elapsed(now, c.last_activity) \in Nat
  BY ElapsedIsNat DEF Typed
<1>2. QED
  BY <1>1 DEF Fresh

\* A date or a session that does not matter.
LEMMA FreshSame ==
  ASSUME NEW n, NEW c, NEW d, NEW b, Fresh(n, c, b),
         d.session = c.session, d.last_activity = c.last_activity
  PROVE  Fresh(n, d, b)
  BY DEF Fresh

-----------------------------------------------------------------------------
(* The four places.                                                        *)

\* What else is known at each of them.
LEMMA Places ==
  ASSUME KInv, program = "tester"
  PROVE  /\ AtRest => toEcu = <<>> /\ fromEcu = <<>>
         /\ Judged => InTheLoop /\ UnderWay /\ fromEcu = <<>>
         /\ Answered => /\ InTheLoop /\ UnderWay /\ toEcu = <<>>
                        /\ fromEcu # <<>> /\ loop.at = "await"
         /\ Returning => /\ Homeward /\ toEcu = <<>> /\ fromEcu = <<>>
                         /\ toClient # <<>>
<1>1. CInv /\ ExchangesAreClosed /\ AtMostOne /\ program # "other"
  BY DEF KInv, SInv, CInv, GInv
<1>2. AtRest => toEcu = <<>> /\ fromEcu = <<>>
  BY <1>1 DEF AtRest, ExchangesAreClosed
<1>3. Judged => InTheLoop /\ UnderWay /\ fromEcu = <<>>
  <2>1. Judged => loop.at # "idle" /\ UnderWay
    BY <1>1 DEF Judged, ExchangesAreClosed, UnderWay
  <2>2. Judged => fromEcu = <<>>
    BY <1>1, OneMessage DEF Judged, ExchangesAreClosed, AtMostOne
  <2>3. QED
    BY <1>1, <2>1, <2>2, BusyMeansWaiting
<1>4. ASSUME Answered
      PROVE  /\ InTheLoop /\ UnderWay /\ toEcu = <<>>
             /\ fromEcu # <<>> /\ loop.at = "await"
  <2>1. fromEcu # <<>>
    BY <1>4, OneMessage DEF Answered
  <2>2. toEcu = <<>> /\ loop.at = "await" /\ UnderWay
    BY <1>1, <2>1 DEF AtMostOne, ExchangesAreClosed, UnderWay
  <2>3. QED
    BY <1>1, <2>1, <2>2, BusyMeansWaiting
<1>5. ASSUME Returning
      PROVE  Homeward /\ toEcu = <<>> /\ fromEcu = <<>> /\ toClient # <<>>
  <2>1. toClient # <<>> /\ Waiting
    BY <1>5, OneMessage DEF Returning
  <2>2. Homeward
    BY <1>1, <2>1 DEF CInv, Outbound, InTheLoop, Nowhere
  <2>3. QED
    BY <1>1, <2>1, <2>2 DEF Homeward, ExchangesAreClosed
<1>6. QED
  BY <1>2, <1>3, <1>4, <1>5

\* What has to be shown of the next state at each of them.
LEMMA NowAtRest ==
  ASSUME NEW k, exchange'.step = k,
         loop'.at = "idle", toClient' = <<>>,
         exchange'.at = "await" => toGateway' # <<>>,
         exchange'.at # "await" => hop' = 0,
         Stage(shadow', k), Stage(ecu', k), ecu'.failed_attempts = 0,
         Fresh(now', shadow', Rest(k) + hop'),
         Fresh(now', ecu', Rest(k) + hop'),
         k = 12 => /\ shadow'.current_seed = console'.seed
                   /\ ecu'.current_seed = console'.seed
  PROVE  Unfolding'
<1>1. AtRest'
  BY DEF AtRest, Waiting, Stage, Fresh, Rest, Shadow!Elapsed,
         Shadow!ClockRange
<1>2. QED
  BY <1>1 DEF Unfolding

LEMMA NowJudged ==
  ASSUME NEW k, exchange'.step = k, exchange'.at = "await", k \notin Dropped,
         loop'.at = "forward" \/ toEcu' # <<>>,
         Stage(shadow', k + 1), Stage(ecu', k), ecu'.failed_attempts = 0,
         Fresh(now', shadow', since'.latency),
         Fresh(now', ecu', Rest(k) + MaxHop + since'.latency),
         k = 12 => ecu'.current_seed = console'.seed
  PROVE  Unfolding'
<1>1. Judged'
  BY DEF Judged, Waiting, Stage, Fresh, Rest, Dropped, Shadow!Elapsed,
         Shadow!ClockRange
<1>2. QED
  BY <1>1 DEF Unfolding

LEMMA NowAnswered ==
  ASSUME NEW k, exchange'.step = k, exchange'.at = "await", k \notin Dropped,
         Stage(shadow', k + 1), Stage(ecu', k + 1),
         ecu'.failed_attempts = 0,
         Fresh(now', shadow', since'.latency),
         Fresh(now', ecu', since'.latency),
         NEW a, fromEcu' = <<a>>, UNCHANGED console,
         Suits(a, console.seed, k),
         k = 11 => IsSeed(a) /\ a.seed = ecu'.current_seed
  PROVE  Unfolding'
<1>1. Suits(a, console'.seed, k)
  BY DEF Suits, Script, At, Asks, SendsKeyOf
<1>2. Answered'
  BY <1>1 DEF Answered, Waiting, Stage, Fresh, Dropped, Suits, Script, At,
     Asks, SendsKeyOf, Shadow!Elapsed, Shadow!ClockRange
<1>3. QED
  BY <1>2 DEF Unfolding

LEMMA NowReturning ==
  ASSUME NEW k, exchange'.step = k, exchange'.at = "await",
         Stage(shadow', k + 1), Stage(ecu', k + 1),
         ecu'.failed_attempts = 0,
         Fresh(now', shadow', Home(k) + hop'),
         Fresh(now', ecu', Home(k) + hop'),
         NEW a, toClient' = <<a>>, UNCHANGED console,
         Suits(a, console.seed, k),
         k = 11 => /\ IsSeed(a) /\ a.seed = ecu'.current_seed
                   /\ a.seed # ZeroSeed => shadow'.current_seed = a.seed
  PROVE  Unfolding'
<1>1. Returning'
  BY DEF Returning, Waiting, Stage, Fresh, Home, Suits, Script, At, Asks,
     SendsKeyOf, Shadow!Elapsed, Shadow!ClockRange
<1>2. QED
  BY <1>1 DEF Unfolding

-----------------------------------------------------------------------------
(* The steps of the scenario.                                              *)

LEMMA Ranges ==
  ASSUME KInv, program = "tester"
  PROVE  /\ exchange.step \in 1 .. LastStep /\ ExchangeTyped
         /\ hop \in 0 .. MaxHop /\ since.latency \in 0 .. MaxLatency
         /\ now \in Shadow!Clock
         /\ Typed(shadow) /\ Closed(shadow) /\ Typed(ecu) /\ Closed(ecu)
  BY DEF KInv, Tracked, SInv, CInv, GInv, ExchangeTyped, LatencyTyped

\* No session falls due at any of the places.
LEMMA SessionsLive ==
  ASSUME ServersAssumed, SessionOutlivesSteps, KInv, program = "tester",
         Unfolding
  PROVE  /\ shadow.session # "default" => Alive(shadow)
         /\ ecu.session # "default" => Alive(ecu)
<1> DEFINE k == exchange.step
           l == since.latency
<1>1. /\ k \in 1 .. LastStep /\ hop \in 0 .. MaxHop /\ l \in 0 .. MaxLatency
      /\ now \in Shadow!Clock /\ Typed(shadow) /\ Typed(ecu)
  BY Ranges
<1>2. /\ Rest(k) \in Nat /\ Home(k) \in Nat
      /\ Rest(k) + hop < S3 /\ Rest(k) + MaxHop + l < S3
      /\ Home(k) + hop < S3 /\ l < S3
  BY <1>1, Budgets
<1>3. MaxHop \in Nat /\ hop \in Int /\ l \in Int
  BY <1>1, ChainAssumption
<1>4. \E b, e \in Int : /\ b < S3 /\ Fresh(now, shadow, b)
                        /\ e < S3 /\ Fresh(now, ecu, e)
  <2>1. CASE AtRest
    <3>1. /\ Fresh(now, shadow, Rest(k) + hop)
          /\ Fresh(now, ecu, Rest(k) + hop)
      BY <2>1 DEF AtRest
    <3>2. QED
      BY <1>2, <1>3, <3>1
  <2>2. CASE Judged
    <3>1. /\ Fresh(now, shadow, l)
          /\ Fresh(now, ecu, Rest(k) + MaxHop + l)
      BY <2>2 DEF Judged
    <3>2. QED
      BY <1>2, <1>3, <3>1
  <2>3. CASE Answered
    <3>1. Fresh(now, shadow, l) /\ Fresh(now, ecu, l)
      BY <2>3 DEF Answered
    <3>2. QED
      BY <1>2, <1>3, <3>1
  <2>4. CASE Returning
    <3>1. /\ Fresh(now, shadow, Home(k) + hop)
          /\ Fresh(now, ecu, Home(k) + hop)
      BY <2>4 DEF Returning
    <3>2. QED
      BY <1>2, <1>3, <3>1
  <2>5. QED
    BY <2>1, <2>2, <2>3, <2>4 DEF Unfolding
<1>5. QED
  BY <1>1, <1>4, FreshIsAlive

LEMMA AskingUnfolds ==
  ASSUME KInv, program = "tester", Unfolding, TesterStep, lost' = lost
  PROVE  Unfolding'
<1>1. /\ exchange.at = "ready" /\ hop' = 0 /\ lost \in Nat
      /\ UNCHANGED <<now, shadow, ecu, loop, console, toClient>>
      /\ \/ /\ toGateway' = Append(toGateway, Asked)
            /\ exchange' = [exchange EXCEPT !.at = "await",
                                            !.asked = <<Asked>>]
         \/ lost' = lost + 1
  BY DEF TesterStep, Send, OthersStay, Asked, KInv
<1>2. AtRest /\ hop = 0
  BY <1>1 DEF Unfolding, AtRest, Judged, Answered, Returning, Waiting
<1>3. toGateway = <<>>
  BY <1>1, NothingUnderWay DEF KInv, SInv, Waiting
<1>4. /\ toGateway' # <<>>
      /\ exchange'.step = exchange.step /\ exchange'.at = "await"
  <2>1. /\ toGateway' = <<Asked>>
        /\ exchange' = [exchange EXCEPT !.at = "await", !.asked = <<Asked>>]
    BY <1>1, <1>3, OneMessage
  <2>2. ExchangeTyped
    BY Ranges
  <2>3. QED
    BY <2>1, <2>2, OneMessage DEF ExchangeTyped
<1>5. QED
  BY <1>1, <1>2, <1>4, NowAtRest DEF AtRest

\* The answer taken is the one to the step.
LEMMA TheAnswerTaken ==
  ASSUME KInv, program = "tester", Unfolding, TakeAnswer
  PROVE  /\ Returning /\ toClient' = <<>> /\ toClient = <<shown'>>
         /\ Suits(shown', console.seed, exchange.step)
<1>1. Waiting /\ toClient # <<>> /\ toClient' = Tail(toClient)
      /\ shown' = Head(toClient)
  BY DEF TakeAnswer
<1>2. Returning
  BY <1>1, Places DEF Unfolding, AtRest, InTheLoop
<1>3. PICK a : toClient = <<a>> /\ Suits(a, console.seed, exchange.step)
  BY <1>2 DEF Returning
<1>4. shown' = a /\ toClient' = <<>>
  BY <1>1, <1>3, OneMessage
<1>5. QED
  BY <1>2, <1>3, <1>4

LEMMA TakingUnfolds ==
  ASSUME ServersAssumed, SessionOutlivesSteps, KInv, program = "tester",
         Unfolding, TakeAnswer, TesterUndisturbed'
  PROVE  Unfolding'
<1> DEFINE k == exchange.step
<1>1. /\ Returning /\ toClient' = <<>> /\ toClient = <<shown'>>
  BY TheAnswerTaken
<1>2. /\ hop' = 0 /\ exchange' = Concluded /\ console' = Noted(shown')
      /\ UNCHANGED <<now, shadow, ecu, loop>>
  BY DEF TakeAnswer, OthersStay
<1>3. /\ k \in 1 .. LastStep /\ hop \in 0 .. MaxHop
      /\ now \in Shadow!Clock /\ Typed(shadow) /\ Typed(ecu)
  BY Ranges
<1>4. /\ Stage(shadow, k + 1) /\ Stage(ecu, k + 1)
      /\ ecu.failed_attempts = 0
      /\ Fresh(now, shadow, Home(k) + hop) /\ Fresh(now, ecu, Home(k) + hop)
      /\ k = 11 => /\ IsSeed(shown') /\ shown'.seed = ecu.current_seed
                   /\ shown'.seed # ZeroSeed
                        => shadow.current_seed = shown'.seed
  BY <1>1, OneMessage DEF Returning
<1>5. loop'.at = "idle"
  BY <1>1, <1>2, Places DEF Homeward
<1>6. exchange'.at # "await"
  BY <1>2, ConcludedIsDone
<1>7. CASE k < LastStep
  <2>1. exchange'.step = k + 1 /\ k + 1 \in Int
    BY <1>2, <1>3, <1>7 DEF Concluded
  <2>2. /\ Home(k) \in Nat /\ Rest(k) \in Nat
        /\ Home(k) + hop <= Rest(k + 1)
    BY <1>3, Budgets, GatewayAssumption
  <2>3. Rest(k + 1) \in Nat /\ hop \in Nat
    BY <1>3, ChainAssumption, GatewayAssumption DEF Rest
  <2>4. /\ Fresh(now, shadow, Rest(k + 1) + 0)
        /\ Fresh(now, ecu, Rest(k + 1) + 0)
    BY <1>3, <1>4, <2>2, <2>3, FreshLonger
  <2>5. k + 1 = 12 => /\ shadow.current_seed = console'.seed
                      /\ ecu.current_seed = console'.seed
    <3>1. SUFFICES ASSUME k = 11
                   PROVE  /\ shadow.current_seed = console'.seed
                          /\ ecu.current_seed = console'.seed
      BY <1>3
    <3>2. IsSeed(shown') /\ shown'.seed = ecu.current_seed
      BY <1>4, <3>1
    <3>3. console'.seed = shown'.seed
      BY <1>2, <3>2 DEF Noted, SeedAfter, KInv, SInv
    <3>4. console'.seed # ZeroSeed
      BY <2>1, <3>1 DEF TesterUndisturbed
    <3>5. QED
      BY <1>4, <3>1, <3>2, <3>3, <3>4
  <2>6. QED
    BY <1>1, <1>2, <1>4, <1>5, <1>6, <2>1, <2>4, <2>5, NowAtRest
<1>8. CASE ~(k < LastStep)
  <2>1. k = LastStep /\ exchange'.step = k
    BY <1>2, <1>3, <1>8 DEF Concluded, LastStep
  <2>2. /\ Stage(shadow, k) /\ shadow.session = "default"
        /\ Stage(ecu, k) /\ ecu.session = "default"
    BY <1>4, <2>1, LastStage
  <2>3. /\ Fresh(now, shadow, Rest(k) + 0) /\ Fresh(now, ecu, Rest(k) + 0)
    BY <2>2 DEF Fresh
  <2>4. k # 12
    BY <2>1 DEF LastStep
  <2>5. QED
    BY <1>1, <1>2, <1>4, <1>5, <1>6, <2>1, <2>2, <2>3, <2>4, NowAtRest
<1>9. QED
  BY <1>7, <1>8

\* The tester never waits in vain.
LEMMA NoGivingUp ==
  ASSUME KInv, program = "tester", Unfolding
  PROVE  ~ClientGivesUp
<1> SUFFICES ASSUME ClientGivesUp
             PROVE  FALSE
  OBVIOUS
<1>1. Nowhere /\ Waiting
  BY GivingUpKeepsCInv DEF KInv, SInv, ClientGivesUp
<1>2. QED
  BY <1>1, Places DEF Unfolding, AtRest, InTheLoop, Nowhere

\* A request of Dropped is refused in the ECU's stead, any other is let
\* through; the shadow moves on in either case.
LEMMA JudgingUnfolds ==
  ASSUME ServersAssumed, SessionOutlivesSteps, MaxAttempts > 1,
         KInv, program = "tester", Unfolding, GatewayJudges
  PROVE  Unfolding'
<1> DEFINE k == exchange.step
           req == Asked
<1>1. /\ toGateway # <<>> /\ toGateway' = Tail(toGateway)
      /\ Admit(Head(toGateway)) /\ hop' = 0
      /\ toClient' = IF told' = Nothing THEN toClient
                                        ELSE Append(toClient, told')
      /\ UNCHANGED <<program, exchange, console>>
  BY DEF GatewayJudges, ClientStays
<1>2. /\ k \in 1 .. LastStep /\ hop \in 0 .. MaxHop
      /\ now \in Shadow!Clock /\ Typed(shadow) /\ Closed(shadow)
      /\ Typed(ecu) /\ CInv
  BY Ranges DEF KInv, SInv
<1>3. Waiting /\ exchange'.at = "await" /\ exchange'.step = k
  BY <1>1, <1>2 DEF CInv, Waiting, InTheLoop, Homeward, Nowhere
<1>4. AtRest
  BY <1>1, Places DEF Unfolding, InTheLoop, Homeward
<1>5. /\ loop.at = "idle" /\ toClient = <<>>
      /\ Stage(shadow, k) /\ Stage(ecu, k) /\ ecu.failed_attempts = 0
      /\ Fresh(now, shadow, Rest(k) + hop) /\ Fresh(now, ecu, Rest(k) + hop)
      /\ k = 12 => /\ shadow.current_seed = console.seed
                   /\ ecu.current_seed = console.seed
  BY <1>4 DEF AtRest
<1>6. Admit(req) /\ req = Script(console.seed)[k].req
  BY <1>1, OneMessage DEF KInv, Tracked, Asked
<1>7. /\ Shadow!HandleRequest(req, "ok") /\ ecu' = ecu
      /\ \/ Drops(verdict') /\ told' = verdict' /\ loop' = loop
         \/ ~Drops(verdict') /\ told' = Nothing /\ loop'.at = "forward"
  BY <1>6 DEF Admit
<1>8. now' = now /\ verdict'.sid = req.sid /\ since'.latency = 0
  BY <1>2, <1>6, <1>7, JudgingTakesNoTime, ShadowAnswers, AdmitKeepsGInv
  DEF CInv
<1>9. shadow.session # "default" => Alive(shadow)
  BY SessionsLive
<1>10. /\ Effect(shadow, shadow', req)
       /\ Drops(verdict') <=> ~Passes(shadow, req)
  BY <1>2, <1>7, ShadowHandles, HandledEffect
<1>11. Drops(verdict') <=> k \in Dropped
  BY <1>2, <1>5, <1>6, <1>9, <1>10, ServedInScript
<1>12. /\ Stage(shadow', k + 1)
       /\ shadow'.session # "default" =>
            shadow'.last_activity = IF k = 8 THEN shadow.last_activity
                                             ELSE now
  <2>1. \A d : Effect(shadow, d, req) =>
          /\ Stage(d, k + 1)
          /\ d.session # "default" =>
               d.last_activity = IF k = 8 THEN shadow.last_activity ELSE now
    <3> HIDE DEF k, req
    <3> TAKE d
    <3> HAVE Effect(shadow, d, req)
    <3>1. /\ k \in 1 .. LastStep /\ Typed(shadow) /\ Stage(shadow, k)
          /\ req = Script(console.seed)[k].req
          /\ k = 12 => shadow.current_seed = console.seed
      BY <1>2, <1>5, <1>6
    <3>2. QED
      BY <1>9, <3>1, ScriptAdvances
  <2>2. QED
    BY <1>10, <2>1
<1>13. Typed(shadow')
  BY <1>10 DEF Effect
<1>14. /\ Rest(k) \in Nat /\ Home(k) \in Nat /\ 0 <= Home(k)
       /\ k \in {8, 10} => Rest(k) + hop <= Home(k)
       /\ Rest(k) + hop <= Rest(k) + MaxHop
       /\ hop \in Nat /\ MaxHop \in Nat
  BY <1>2, Budgets, ChainAssumption, GatewayAssumption
<1> HIDE DEF k, req
<1>15. CASE k \in Dropped
  <2>1. /\ Drops(verdict') /\ told' = verdict' /\ loop' = loop
    BY <1>7, <1>11, <1>15
  <2>2. toClient' = <<verdict'>>
    BY <1>1, <1>5, <2>1, OneMessage DEF Drops, Nothing, Shadow!NoReply
  <2>3. Suits(verdict', console.seed, k)
    <3>1. Script(console.seed)[k].expect # "accepted"
      BY <1>2, <1>15, ScriptTable DEF Dropped
    <3>2. QED
      BY <1>6, <1>8, <2>1, <3>1 DEF Suits, Drops
  <2>4. Stage(ecu, k + 1)
    BY <1>5, <1>15, ScriptSpares
  <2>5. CASE k \in {8, 10}
    <3>1. Fresh(now, ecu, Home(k) + 0)
      BY <1>2, <1>5, <1>14, <2>5, FreshLonger
    <3>2. Fresh(now, shadow', Home(k) + 0)
      <4>1. CASE k = 8
        <5>1. Fresh(now, shadow, Home(k) + 0)
          BY <1>2, <1>5, <1>14, <2>5, FreshLonger
        <5>2. shadow.session # "default"
          BY <1>5, <4>1 DEF Stage
        <5>3. QED
          BY <1>12, <4>1, <5>1, <5>2 DEF Fresh
      <4>2. CASE k # 8
        BY <1>2, <1>12, <1>14, <4>2, FreshNow
      <4>3. QED
        BY <4>1, <4>2
    <3>3. k # 11
      BY <2>5
    <3>4. QED
      BY <1>1, <1>3, <1>5, <1>7, <1>8, <1>12, <2>2, <2>3, <2>4, <3>1, <3>2,
         <3>3, NowReturning
  <2>6. CASE k \notin {8, 10}
    <3>1. shadow'.session = "default" /\ ecu.session = "default"
      BY <1>12, <1>15, <2>4, <2>6 DEF Dropped, Stage
    <3>2. /\ Fresh(now, ecu, Home(k) + 0)
          /\ Fresh(now, shadow', Home(k) + 0)
      BY <3>1 DEF Fresh
    <3>3. k # 11
      BY <1>15 DEF Dropped
    <3>4. QED
      BY <1>1, <1>3, <1>5, <1>7, <1>8, <1>12, <2>2, <2>3, <2>4, <3>2,
         <3>3, NowReturning
  <2>7. QED
    BY <2>5, <2>6
<1>16. CASE k \notin Dropped
  <2>1. loop'.at = "forward"
    BY <1>7, <1>11, <1>16
  <2>2. Fresh(now, shadow', 0)
    BY <1>2, <1>12, <1>16, FreshNow DEF Dropped
  <2>3. Fresh(now, ecu, Rest(k) + MaxHop + 0)
    BY <1>2, <1>5, <1>14, FreshLonger
  <2>4. QED
    BY <1>1, <1>3, <1>5, <1>7, <1>8, <1>12, <1>16, <2>1, <2>2, <2>3,
       NowJudged
<1>17. QED
  BY <1>15, <1>16

\* The ECU follows, and its answer is what the label says.
LEMMA HandlingUnfolds ==
  ASSUME ServersAssumed, SessionOutlivesSteps, MaxAttempts > 1,
         KInv, program = "tester", Unfolding, EcuHandles,
         UNCHANGED <<exchange, console>>
  PROVE  Unfolding'
<1> DEFINE k == exchange.step
           req == Asked
<1>1. toEcu # <<>> /\ UNCHANGED <<shadow, loop>>
  BY DEF EcuHandles
<1>2. /\ k \in 1 .. LastStep /\ since.latency \in 0 .. MaxLatency
      /\ now \in Shadow!Clock /\ Typed(ecu) /\ Closed(ecu) /\ CInv
  BY Ranges DEF KInv, SInv
<1>3. Judged
  BY <1>1, Places DEF Unfolding
<1>4. /\ Waiting /\ k \notin Dropped /\ fromEcu = <<>>
      /\ Stage(shadow, k + 1) /\ Stage(ecu, k) /\ ecu.failed_attempts = 0
      /\ Fresh(now, shadow, since.latency)
      /\ k = 12 => ecu.current_seed = console.seed
  BY <1>3, Places DEF Judged
<1>5. toEcu = <<req>> /\ req = Script(console.seed)[k].req
  BY <1>1 DEF KInv, Tracked, Asked
<1>6. PICK o \in EcuOutcomes(req.sid) : Ecu!HandleRequest(req, o)
  BY <1>5, OneMessage DEF EcuHandles
<1>7. req.sid = "ECUReset" => o = "ok"
  BY <1>6 DEF EcuOutcomes
<1>8. /\ Handled(ecu, ecu', req) /\ now' = now
      /\ IsSeed(response') <=> Seeks(req) /\ Serves(ecu, req) /\ ~Barred(ecu)
      /\ IsSeed(response') =>
           response'.seed = IF ecu.security_level = "locked"
                            THEN ecu'.current_seed ELSE ZeroSeed
  BY <1>2, <1>6, <1>7, EcuHandled, HandlingTakesNoTime
<1>9. /\ response'.sid = req.sid
      /\ req.sid # "empty" /\ ~req.suppress => response'.kind # "silent"
      /\ Enters(req) /\ ~req.suppress => response'.kind = "positive"
      /\ Leaves(req) /\ req.sid = "ECUReset" /\ Serves(ecu, req)
           => response'.kind = "positive"
      /\ Unlocks(ecu, req) => response'.kind = "positive"
      /\ SendsKey(req) /\ ~Unlocks(ecu, req) => response'.kind = "negative"
      /\ ~Serves(ecu, req) /\ req.sid # "empty"
           => response'.kind = "negative"
  BY <1>2, <1>6, <1>7, EcuAnswers
<1>10. ecu.session # "default" => Alive(ecu)
  BY SessionsLive
<1>11. Effect(ecu, ecu', req)
  BY <1>2, <1>8, HandledEffect
<1>12. /\ ~Barred(ecu)
       /\ Serves(ecu, req) <=> k \notin {2, 8, 17, 19}
       /\ Unlocks(ecu, req) <=> k = 12
  BY <1>2, <1>4, <1>5, <1>10, ServedInScript
<1>13. /\ Stage(ecu', k + 1)
       /\ k # 10 => ecu'.failed_attempts = 0
       /\ ecu'.session # "default" =>
            ecu'.last_activity = IF k = 8 THEN ecu.last_activity ELSE now
  <2>1. \A d : Effect(ecu, d, req) =>
          /\ Stage(d, k + 1)
          /\ k # 10 => d.failed_attempts = 0
          /\ d.session # "default" =>
               d.last_activity = IF k = 8 THEN ecu.last_activity ELSE now
    <3> HIDE DEF k, req
    <3> TAKE d
    <3> HAVE Effect(ecu, d, req)
    <3>1. /\ k \in 1 .. LastStep /\ Typed(ecu) /\ Stage(ecu, k)
          /\ req = Script(console.seed)[k].req
          /\ k = 12 => ecu.current_seed = console.seed
          /\ ecu.failed_attempts = 0
      BY <1>2, <1>4, <1>5
    <3>2. QED
      BY <1>10, <3>1, ScriptAdvances
  <2>2. QED
    BY <1>11, <2>1
<1>14. /\ req.sid # "empty" /\ ~req.suppress
       /\ Enters(req) <=> k = 3
       /\ Leaves(req) <=> k \in {2, 8, 16, 17}
       /\ Seeks(req) <=> k \in {9, 11}
       /\ SendsKey(req) <=> k \in {10, 12, 13}
       /\ req.sid \in Shadow!NeedsUnlock <=> k \in {2, 8, 16, 17}
  BY <1>2, <1>5, ScriptTable
<1>15. k # 8 /\ k # 10
  BY <1>4 DEF Dropped
<1>16. fromEcu' = <<response'>>
  BY <1>4, <1>9, <1>14, OneMessage DEF EcuHandles
<1>17. since'.latency = since.latency
  BY <1>2, MessageKeepsGInv DEF CInv
<1>18. exchange'.step = k /\ exchange'.at = "await"
  BY <1>4 DEF Waiting
<1>19. Fresh(now, ecu', since.latency)
  BY <1>2, <1>13, <1>15, FreshNow, GatewayAssumption
<1>20. /\ Script(console.seed)[k].expect = "accepted"
            <=> k \in {3, 9, 11, 12, 16}
       /\ Script(console.seed)[k].expect = "refused"
            <=> k \in {2, 8, 10, 13, 17, 19}
  BY <1>2, ScriptTable
<1>21. req.sid \in Shadow!NeedsUnlock => req.sid = "ECUReset"
  BY <1>2, <1>5, <1>14 DEF Shadow!NeedsUnlock
<1> HIDE DEF k, req
<1>22. k \in {3, 9, 11, 12, 16} => response'.kind = "positive"
  BY <1>8, <1>9, <1>12, <1>14, <1>21 DEF IsSeed
<1>23. k \in {13, 19} => response'.kind = "negative"
  BY <1>9, <1>12, <1>14
<1>24. Suits(response', console.seed, k)
  BY <1>4, <1>5, <1>9, <1>20, <1>22, <1>23 DEF Suits, Dropped
<1>25. k = 11 => IsSeed(response') /\ response'.seed = ecu'.current_seed
  BY <1>4, <1>8, <1>12, <1>14 DEF Stage
<1>26. QED
  BY <1>1, <1>4, <1>8, <1>13, <1>15, <1>16, <1>17, <1>18, <1>19, <1>24,
     <1>25, NowAnswered

\* The gateway sees the answer pass, and with it the seed.
LEMMA RelayingUnfolds ==
  ASSUME ServersAssumed, SessionOutlivesSteps, KInv, program = "tester",
         Unfolding, GatewayRelays
  PROVE  Unfolding'
<1> DEFINE k == exchange.step
<1>1. /\ loop.at = "await" /\ fromEcu # <<>> /\ told' = Head(fromEcu)
      /\ shadow' = Observed(Head(fromEcu)) /\ loop'.at = "idle"
      /\ toClient' = Append(toClient, told') /\ hop' = 0
      /\ UNCHANGED <<now, ecu, exchange, console>>
  BY DEF GatewayRelays, ReceiveAnswer, Resting, ClientStays
<1>2. Answered /\ toClient = <<>>
  BY <1>1, Places DEF Unfolding, InTheLoop, Homeward
<1>3. PICK a : /\ fromEcu = <<a>> /\ Suits(a, console.seed, k)
               /\ k = 11 => IsSeed(a) /\ a.seed = ecu.current_seed
  BY <1>2 DEF Answered
<1>4. toClient' = <<a>> /\ shadow' = Observed(a)
  BY <1>1, <1>2, <1>3, OneMessage
<1>5. /\ Stage(shadow, k + 1) /\ Stage(ecu, k + 1)
      /\ ecu.failed_attempts = 0
      /\ Fresh(now, shadow, since.latency) /\ Fresh(now, ecu, since.latency)
      /\ exchange'.at = "await" /\ exchange'.step = k
  BY <1>1, <1>2 DEF Answered, Waiting
<1>6. /\ k \in 1 .. LastStep /\ since.latency \in 0 .. MaxLatency
      /\ now \in Shadow!Clock /\ Typed(shadow) /\ Typed(ecu)
  BY Ranges
<1>7. Home(k) \in Nat /\ since.latency <= Home(k) /\ 0 \in 0 .. MaxHop
  BY <1>6, Budgets, ChainAssumption
<1>8. Fresh(now, shadow, Home(k) + 0) /\ Fresh(now, ecu, Home(k) + 0)
  BY <1>5, <1>6, <1>7, FreshLonger
<1>9. IsSeed(a) => k \in {9, 11}
  <2>1. IsSeed(a) => Seeks(Asked)
    BY <1>3 DEF KInv, Tracked
  <2>2. QED
    BY <1>6, <2>1, ScriptTable DEF Asked
<1> HIDE DEF k
<1>10. ASSUME NEW d, d = [shadow EXCEPT !.current_seed = a.seed,
                                        !.seed_pending = TRUE],
              IsSeed(a)
       PROVE  /\ Stage(d, k + 1) /\ Fresh(now, d, Home(k) + 0)
              /\ d.current_seed = a.seed
  <2>1. k \in {9, 11} /\ Typed(shadow)
    BY <1>6, <1>9, <1>10
  <2>2. /\ d.session = shadow.session
        /\ d.security_level = shadow.security_level
        /\ d.last_activity = shadow.last_activity
        /\ d.locked_out = shadow.locked_out
        /\ d.failed_attempts = shadow.failed_attempts
        /\ d.seed_pending /\ d.current_seed = a.seed
    BY <1>10, <2>1 DEF Typed, Shape
  <2>3. Stage(d, k + 1)
    <3>1. CASE k = 9
      BY <1>5, <2>2, <3>1 DEF Stage
    <3>2. CASE k = 11
      BY <1>5, <2>2, <3>2 DEF Stage
    <3>3. QED
      BY <2>1, <3>1, <3>2
  <2>4. QED
    BY <1>8, <2>2, <2>3, FreshSame
<1>11. /\ Stage(shadow', k + 1) /\ Fresh(now, shadow', Home(k) + 0)
       /\ k = 11 => /\ IsSeed(a) /\ a.seed = ecu.current_seed
                    /\ a.seed # ZeroSeed => shadow'.current_seed = a.seed
  <2>1. CASE IsSeed(a) /\ a.seed # ZeroSeed
    <3>1. shadow' = [shadow EXCEPT !.current_seed = a.seed,
                                   !.seed_pending = TRUE]
      BY <1>4, <2>1 DEF Observed
    <3>2. QED
      BY <1>3, <1>10, <2>1, <3>1
  <2>2. CASE ~(IsSeed(a) /\ a.seed # ZeroSeed)
    <3>1. shadow' = shadow
      BY <1>4, <2>2 DEF Observed
    <3>2. QED
      BY <1>3, <1>5, <1>8, <2>2, <3>1
  <2>3. QED
    BY <2>1, <2>2
<1>12. QED
  BY <1>1, <1>3, <1>4, <1>5, <1>8, <1>11, NowReturning

LEMMA ForwardingUnfolds ==
  ASSUME KInv, program = "tester", Unfolding, Forward,
         UNCHANGED <<exchange, console>>
  PROVE  Unfolding'
<1> DEFINE k == exchange.step
<1>1. /\ loop.at = "forward" /\ toEcu' = toEcu \o loop.forward
      /\ UNCHANGED <<now, shadow, ecu, since>>
  BY DEF Forward
<1>2. Judged
  BY <1>1, Places DEF Unfolding, AtRest, Homeward
<1>3. toEcu' = <<Asked>>
  <2>1. loop.forward = <<Asked>> /\ toEcu = <<>>
    BY <1>1 DEF KInv, Tracked, SInv, CInv, GInv, ExchangesAreClosed
  <2>2. QED
    BY <1>1, <2>1, OneMessage
<1>4. QED
  BY <1>1, <1>2, <1>3, OneMessage, NowJudged DEF Judged, Waiting

\* A poll finds no session due.
LEMMA PollingUnfolds ==
  ASSUME ServersAssumed, SessionOutlivesSteps, KInv, program = "tester",
         Unfolding, EcuPolls,
         UNCHANGED <<exchange, console, toGateway, toClient, hop>>
  PROVE  Unfolding'
<1> DEFINE k == exchange.step
<1>1. /\ toEcu = <<>> /\ ecu' = Polls(ecu)
      /\ UNCHANGED <<now, shadow, loop, toEcu, fromEcu>>
  BY SameOperators DEF EcuPolls, Ecu!Poll, Ecu!Polled, Polls
<1>2. since'.latency = since.latency
  BY EcuPollsKeepsGInv DEF KInv, SInv, CInv
<1>3. k \in 1 .. LastStep /\ Typed(ecu) /\ Closed(ecu)
  BY Ranges
<1>4. ecu.session # "default" => Alive(ecu)
  BY SessionsLive
<1>5. ASSUME NEW n \in 1 .. LastStep + 1, Stage(ecu, n)
      PROVE  /\ Stage(ecu', n) /\ ecu'.session = ecu.session
             /\ ecu'.last_activity = ecu.last_activity
             /\ ecu'.current_seed = ecu.current_seed
             /\ ecu.failed_attempts = 0 => ecu'.failed_attempts = 0
  BY <1>1, <1>3, <1>4, <1>5, PolledStage
<1>6. k \in 1 .. LastStep + 1 /\ k + 1 \in 1 .. LastStep + 1
  BY <1>3 DEF LastStep
<1> HIDE DEF k
<1>7. CASE AtRest
  <2>1. Stage(ecu, k) /\ ecu.failed_attempts = 0
        /\ Fresh(now, ecu, Rest(k) + hop)
    BY <1>7 DEF AtRest, k
  <2>2. /\ Stage(ecu', k) /\ ecu'.failed_attempts = 0
        /\ ecu'.current_seed = ecu.current_seed
        /\ Fresh(now, ecu', Rest(k) + hop)
    BY <1>5, <1>6, <2>1, FreshSame
  <2>3. QED
    BY <1>1, <1>7, <2>2, NowAtRest DEF AtRest, Waiting, k
<1>8. CASE Judged
  <2>1. Stage(ecu, k) /\ ecu.failed_attempts = 0
        /\ Fresh(now, ecu, Rest(k) + MaxHop + since.latency)
    BY <1>8 DEF Judged, k
  <2>2. /\ Stage(ecu', k) /\ ecu'.failed_attempts = 0
        /\ ecu'.current_seed = ecu.current_seed
        /\ Fresh(now, ecu', Rest(k) + MaxHop + since.latency)
    BY <1>5, <1>6, <2>1, FreshSame
  <2>3. QED
    BY <1>1, <1>2, <1>8, <2>2, NowJudged DEF Judged, Waiting, k
<1>9. CASE Answered
  <2>1. Stage(ecu, k + 1) /\ ecu.failed_attempts = 0
        /\ Fresh(now, ecu, since.latency)
    BY <1>9 DEF Answered, k
  <2>2. /\ Stage(ecu', k + 1) /\ ecu'.failed_attempts = 0
        /\ ecu'.current_seed = ecu.current_seed
        /\ Fresh(now, ecu', since.latency)
    BY <1>5, <1>6, <2>1, FreshSame
  <2>3. QED
    BY <1>1, <1>2, <1>9, <2>2, NowAnswered DEF Answered, Waiting, k
<1>10. CASE Returning
  <2>1. Stage(ecu, k + 1) /\ ecu.failed_attempts = 0
        /\ Fresh(now, ecu, Home(k) + hop)
    BY <1>10 DEF Returning, k
  <2>2. /\ Stage(ecu', k + 1) /\ ecu'.failed_attempts = 0
        /\ ecu'.current_seed = ecu.current_seed
        /\ Fresh(now, ecu', Home(k) + hop)
    BY <1>5, <1>6, <2>1, FreshSame
  <2>3. QED
    BY <1>1, <1>10, <2>2, NowReturning DEF Returning, Waiting, k
<1>11. QED
  BY <1>7, <1>8, <1>9, <1>10 DEF Unfolding

\* The gateway's wait is not over while a message is under way.
LEMMA NoGatewayTimeout ==
  ASSUME MaxLatency < EcuTimeout, KInv, program = "tester", Unfolding
  PROVE  ~GiveUp
<1> SUFFICES ASSUME GiveUp
             PROVE  FALSE
  OBVIOUS
<1>1. loop.at = "await" /\ loop.waited >= EcuTimeout
  BY DEF GiveUp, WaitedEnough
<1>2. UnderWay
  BY <1>1, Places DEF Unfolding, AtRest, Homeward
<1>3. /\ loop.waited <= since.latency /\ loop.waited \in 0 .. EcuTimeout
      /\ since.latency \in 0 .. MaxLatency
  BY <1>1, <1>2 DEF KInv, SInv, CInv, GInv, LoopTyped, LatencyTyped
<1>4. QED
  BY <1>1, <1>3, GatewayAssumption

\* A tick makes the sessions older, and whatever bounds their age.
LEMMA TickUnfolds ==
  ASSUME ServersAssumed, SessionOutlivesSteps, KInv, program = "tester",
         Unfolding, ChainTick
  PROVE  Unfolding'
<1> DEFINE k == exchange.step
           l == since.latency
<1>1. /\ exchange.at # "ready" /\ Tick
      /\ hop' = IF Hopping THEN hop + 1 ELSE 0
      /\ exchange' = [exchange EXCEPT !.waited =
                        IF Waiting /\ exchange.waited < ClientTimeout
                        THEN exchange.waited + 1 ELSE exchange.waited]
      /\ UNCHANGED <<console, toGateway, toClient>>
  BY DEF ChainTick
<1>2. /\ now' = Shadow!Later(now, 1) /\ UNCHANGED <<shadow, ecu>>
  BY <1>1 DEF Tick
<1>3. /\ UNCHANGED <<toEcu, fromEcu>> /\ loop'.at = loop.at
      /\ UnderWay => since'.latency = l + 1
  BY <1>1, TickKeepsGInv DEF KInv, SInv, CInv
<1>4. /\ k \in 1 .. LastStep /\ hop \in 0 .. MaxHop /\ l \in 0 .. MaxLatency
      /\ now \in Shadow!Clock /\ Typed(shadow) /\ Typed(ecu)
      /\ ExchangeTyped
  BY Ranges
<1>5. exchange'.at = exchange.at /\ exchange'.step = k
  BY <1>1, <1>4 DEF ExchangeTyped
<1>6. /\ Rest(k) \in Nat /\ Home(k) \in Nat
      /\ Rest(k) + hop < S3 /\ Rest(k) + MaxHop + l < S3
      /\ Home(k) + hop < S3 /\ l < S3
  BY <1>4, Budgets
<1>7. MaxHop \in Nat /\ hop \in Nat /\ l \in Nat
  BY <1>4, ChainAssumption, GatewayAssumption
<1>8. ASSUME NEW c, Typed(c), NEW b \in Int, b < S3, Fresh(now, c, b)
      PROVE  Fresh(now', c, b + 1)
  BY <1>2, <1>4, <1>8, FreshAges
<1>9. CASE AtRest
  <2>1. /\ Fresh(now, shadow, Rest(k) + hop)
        /\ Fresh(now, ecu, Rest(k) + hop)
        /\ Stage(shadow, k) /\ Stage(ecu, k) /\ loop.at = "idle"
        /\ Waiting => toGateway # <<>>
    BY <1>9 DEF AtRest
  <2>2. CASE Waiting
    <3>1. hop' = hop + 1
      BY <1>1, <2>1, <2>2 DEF Hopping
    <3>2. /\ Fresh(now', shadow, Rest(k) + hop + 1)
          /\ Fresh(now', ecu, Rest(k) + hop + 1)
      BY <1>4, <1>6, <1>7, <1>8, <2>1
    <3>3. Rest(k) + hop + 1 = Rest(k) + hop'
      BY <1>6, <1>7, <3>1
    <3>4. QED
      BY <1>1, <1>2, <1>3, <1>5, <1>9, <2>2, <3>2, <3>3, NowAtRest
      DEF AtRest, Waiting
  <2>3. CASE ~Waiting
    <3>1. exchange.at = "over"
      BY <1>1, <1>4, <2>3 DEF Waiting, ExchangeTyped
    <3>2. k = LastStep
      BY <3>1 DEF KInv, Tracked
    <3>3. shadow.session = "default" /\ ecu.session = "default"
      BY <2>1, <3>2 DEF Stage, LastStep
    <3>4. /\ Fresh(now', shadow, Rest(k) + hop')
          /\ Fresh(now', ecu, Rest(k) + hop')
      BY <3>3 DEF Fresh
    <3>5. toGateway = <<>> /\ toClient = <<>>
      BY <2>3, NothingUnderWay DEF KInv, SInv
    <3>6. hop' = 0
      BY <1>1, <3>5 DEF Hopping
    <3>7. QED
      BY <1>1, <1>2, <1>3, <1>5, <1>9, <2>3, <3>4, <3>6, NowAtRest
      DEF AtRest, Waiting
  <2>4. QED
    BY <2>2, <2>3
<1>10. CASE Judged
  <2>1. /\ Fresh(now, shadow, l) /\ Fresh(now, ecu, Rest(k) + MaxHop + l)
        /\ since'.latency = l + 1
    BY <1>3, <1>10, Places DEF Judged
  <2>2. /\ Fresh(now', shadow, l + 1)
        /\ Fresh(now', ecu, Rest(k) + MaxHop + l + 1)
    BY <1>4, <1>6, <1>7, <1>8, <2>1
  <2>3. Rest(k) + MaxHop + l + 1 = Rest(k) + MaxHop + (l + 1)
    BY <1>6, <1>7
  <2>4. QED
    BY <1>1, <1>2, <1>3, <1>5, <1>10, <2>1, <2>2, <2>3, NowJudged
    DEF Judged, Waiting
<1>11. CASE Answered
  <2>1. /\ Fresh(now, shadow, l) /\ Fresh(now, ecu, l)
        /\ since'.latency = l + 1
    BY <1>3, <1>11, Places DEF Answered
  <2>2. Fresh(now', shadow, l + 1) /\ Fresh(now', ecu, l + 1)
    BY <1>4, <1>6, <1>7, <1>8, <2>1
  <2>3. QED
    BY <1>1, <1>2, <1>3, <1>5, <1>11, <2>1, <2>2, NowAnswered
    DEF Answered, Waiting
<1>12. CASE Returning
  <2>1. /\ Fresh(now, shadow, Home(k) + hop) /\ Fresh(now, ecu, Home(k) + hop)
        /\ Hopping
    BY <1>12, OneMessage DEF Returning, Hopping
  <2>2. /\ Fresh(now', shadow, Home(k) + hop + 1)
        /\ Fresh(now', ecu, Home(k) + hop + 1)
    BY <1>4, <1>6, <1>7, <1>8, <2>1
  <2>3. Home(k) + hop + 1 = Home(k) + hop'
    BY <1>1, <1>6, <1>7, <2>1
  <2>4. QED
    BY <1>1, <1>2, <1>3, <1>5, <1>12, <2>1, <2>2, <2>3, NowReturning
    DEF Returning, Waiting
<1>13. QED
  BY <1>9, <1>10, <1>11, <1>12 DEF Unfolding

LEMMA StutterUnfolds ==
  ASSUME Unfolding, UNCHANGED chainVars
  PROVE  Unfolding'
<1>1. UNCHANGED <<now, shadow, ecu, loop, toEcu, fromEcu, since, exchange,
                  console, toGateway, toClient, hop>>
  BY DEF chainVars, vars
<1>2. CASE AtRest
  BY <1>1, <1>2, NowAtRest DEF AtRest, Waiting
<1>3. CASE Judged
  BY <1>1, <1>3, NowJudged DEF Judged, Waiting
<1>4. CASE Answered
  BY <1>1, <1>4, NowAnswered DEF Answered, Waiting
<1>5. CASE Returning
  BY <1>1, <1>5, NowReturning DEF Returning, Waiting
<1>6. QED
  BY <1>2, <1>3, <1>4, <1>5 DEF Unfolding

-----------------------------------------------------------------------------
(* The scenario.                                                           *)

\* What has been lost stays lost, and the seed of step 12 stays the seed.
LEMMA AlwaysUndisturbed ==
  ASSUME KInv, [ChainNext]_chainVars, TesterUndisturbed'
  PROVE  TesterUndisturbed /\ lost' = lost
<1>1. program' = program /\ lost' \in {lost, lost + 1}
  BY DEF ChainNext, chainVars, vars, ConsoleCommand, ConsoleKey,
         ConsoleSends, TesterStep, Send, TakeAnswer, ClientGivesUp,
         GatewayJudges, GatewayRelays, Behind, LoseHop, ChainTick,
         OtherTester, ClientStays, Next, AdmitAny, Admit, Forward,
         ForwardFails, ReceiveAnswer, GiveUp, EcuHandles, EcuPolls, Tick,
         Lose, OthersStay
<1>2. program = "tester" /\ lost = 0 /\ lost' = lost
  BY <1>1 DEF TesterUndisturbed, KInv
<1>3. ASSUME exchange.step >= 12
      PROVE  console.seed # ZeroSeed
  <2>1. exchange.step \in 1 .. LastStep /\ ExchangeTyped
    BY <1>2, Ranges
  <2>2. exchange'.step \in {exchange.step, exchange.step + 1}
    <3>1. Concluded.step \in {exchange.step, exchange.step + 1}
      BY DEF Concluded
    <3>2. CASE TesterStep \/ TakeAnswer \/ ClientGivesUp
      BY <2>1, <3>1, <3>2
      DEF TesterStep, Send, TakeAnswer, ClientGivesUp, ExchangeTyped
    <3>3. CASE ChainTick
      BY <2>1, <3>3 DEF ChainTick, ExchangeTyped
    <3>4. CASE ~TesterStep /\ ~TakeAnswer /\ ~ClientGivesUp /\ ~ChainTick
      <4>1. exchange' = exchange
        BY <1>2, <3>4
        DEF ChainNext, chainVars, ConsoleCommand, ConsoleKey, ConsoleSends,
            GatewayJudges, GatewayRelays, Behind, LoseHop, OtherTester,
            ClientStays
      <4>2. QED
        BY <4>1
    <3>5. QED
      BY <3>2, <3>3, <3>4
  <2>3. console'.seed # ZeroSeed
    BY <1>3, <2>1, <2>2 DEF TesterUndisturbed
  <2>4. CASE TakeAnswer
    <3>1. /\ Waiting /\ toClient # <<>> /\ console' = Noted(Head(toClient))
      BY <2>4 DEF TakeAnswer
    <3>2. PICK a : toClient = <<a>>
      BY <1>2, <3>1 DEF KInv, SInv, CInv, Outbound, InTheLoop, Homeward,
                        Nowhere
    <3>3. ~IsSeed(a)
      <4>1. IsSeed(a) => Seeks(Asked)
        BY <1>2, <3>2 DEF KInv, Tracked
      <4>2. Seeks(Asked) <=> exchange.step \in {9, 11}
        BY <2>1, ScriptTable DEF Asked
      <4>3. QED
        BY <1>3, <2>1, <4>1, <4>2
    <3>4. console' = console
      BY <1>2, <3>1, <3>2, <3>3, OneMessage DEF Noted, SeedAfter
    <3>5. QED
      BY <2>3, <3>4
  <2>5. CASE ~TakeAnswer
    <3>1. console' = console
      BY <1>2, <2>5
      DEF ChainNext, chainVars, ConsoleCommand, ConsoleKey, ConsoleSends,
          TesterStep, Send, ClientGivesUp, GatewayJudges, GatewayRelays,
          Behind, LoseHop, ChainTick, OtherTester, ClientStays
    <3>2. QED
      BY <2>3, <3>1
  <2>6. QED
    BY <2>4, <2>5
<1>4. QED
  BY <1>2, <1>3 DEF TesterUndisturbed

LEMMA ChainInitTInv ==
  ASSUME ServersAssumed, ChainInit
  PROVE  TInv
<1>1. /\ loop.at = "idle" /\ toEcu = <<>> /\ fromEcu = <<>> /\ lost = 0
      /\ toGateway = <<>> /\ toClient = <<>> /\ hop = 0
      /\ exchange.at = "ready" /\ exchange.step = 1
  BY DEF ChainInit, Init, Resting
<1>2. SInv
  BY ChainInitSInv
<1>3. Tracked
  BY <1>1, OneMessage DEF Tracked, LastStep
<1>4. /\ shadow.session = "default" /\ shadow.security_level = "locked"
      /\ ~shadow.locked_out /\ ~shadow.seed_pending
      /\ shadow.failed_attempts = 0
  BY DEF ChainInit, Init, Shadow!Init
<1>5. /\ ecu.session = "default" /\ ecu.security_level = "locked"
      /\ ~ecu.locked_out /\ ~ecu.seed_pending /\ ecu.failed_attempts = 0
  BY DEF ChainInit, Init, Ecu!Init
<1>6. AtRest
  BY <1>1, <1>4, <1>5 DEF AtRest, Waiting, Stage, Fresh
<1>7. QED
  BY <1>1, <1>2, <1>3, <1>6 DEF TInv, KInv, Unfolding

LEMMA ChainNextTInv ==
  ASSUME MaxLatency < EcuTimeout, ServersAssumed, SessionOutlivesSteps,
         MaxAttempts > 1, TInv, [ChainNext]_chainVars
  PROVE  TInv'
<1>1. KInv /\ KInv'
  BY ChainNextKInv DEF TInv
<1>2. SUFFICES ASSUME TesterUndisturbed'
               PROVE  Unfolding'
  BY <1>1 DEF TInv
<1>3. /\ TesterUndisturbed /\ lost' = lost /\ lost \in Nat
      /\ program = "tester" /\ Unfolding
  BY <1>1, <1>2, AlwaysUndisturbed DEF TInv, KInv, TesterUndisturbed
<1>4. CASE TesterStep
  BY <1>1, <1>3, <1>4, AskingUnfolds
<1>5. CASE TakeAnswer
  BY <1>1, <1>2, <1>3, <1>5, TakingUnfolds
<1>6. CASE ClientGivesUp
  BY <1>1, <1>3, <1>6, NoGivingUp
<1>7. CASE GatewayJudges
  BY <1>1, <1>3, <1>7, JudgingUnfolds
<1>8. CASE GatewayRelays
  BY <1>1, <1>3, <1>8, RelayingUnfolds
<1>9. CASE Behind
  <2>1. /\ Forward \/ ForwardFails \/ GiveUp \/ EcuHandles \/ EcuPolls \/ Lose
        /\ UNCHANGED <<exchange, console, toGateway, toClient, hop>>
    BY <1>9 DEF Behind, ClientStays
  <2>2. ~ForwardFails /\ ~Lose
    BY <1>3 DEF ForwardFails, Lose
  <2>3. ~GiveUp
    BY <1>1, <1>3, NoGatewayTimeout
  <2>4. CASE Forward
    BY <1>1, <1>3, <2>1, <2>4, ForwardingUnfolds
  <2>5. CASE EcuHandles
    BY <1>1, <1>3, <2>1, <2>5, HandlingUnfolds
  <2>6. CASE EcuPolls
    BY <1>1, <1>3, <2>1, <2>6, PollingUnfolds
  <2>7. QED
    BY <2>1, <2>2, <2>3, <2>4, <2>5, <2>6
<1>10. CASE ChainTick
  BY <1>1, <1>3, <1>10, TickUnfolds
<1>11. CASE UNCHANGED chainVars
  BY <1>3, <1>11, StutterUnfolds
<1>12. ~ConsoleCommand /\ ~ConsoleKey /\ ~OtherTester /\ ~LoseHop
  BY <1>3 DEF ConsoleCommand, ConsoleKey, ConsoleSends, OtherTester, LoseHop
<1>13. QED
  BY <1>4, <1>5, <1>6, <1>7, <1>8, <1>9, <1>10, <1>11, <1>12 DEF ChainNext

LEMMA ScenarioInvariance ==
  ASSUME MaxLatency < EcuTimeout, ServersAssumed, SessionOutlivesSteps,
         MaxAttempts > 1
  PROVE  ChainSpec => []TInv
<1>1. ChainInit => TInv
  BY ChainInitTInv
<1>2. TInv /\ [ChainNext]_chainVars => TInv'
  BY ChainNextTInv
<1>3. QED
  BY <1>1, <1>2, PTL DEF ChainSpec

\* tester.c's labels: on a chain that loses nothing every step of the script
\* is answered, by an answer to it and as its label says, however long the
\* messages take, as long as the waits nest and no session falls due, and
\* whatever the ECU's callbacks say and whatever the seeds are, but for a
\* null seed at step 11.
THEOREM ScenarioIsAnswered ==
  ASSUME MaxLatency < EcuTimeout, ServersAssumed, SessionOutlivesSteps,
         MaxAttempts > 1
  PROVE  ChainSpec => ScenarioUnfolds
<1> DEFINE Labelled ==
      /\ program = "tester" /\ lost' = 0
      /\ exchange.step >= 12 => console.seed # ZeroSeed
      /\ Waiting /\ exchange'.at # "await"
      => LET step == Script(console.seed)[exchange.step] IN
         /\ shown'.sid = step.req.sid
         /\ step.expect = "accepted" => shown'.kind = "positive"
         /\ step.expect = "refused" => shown'.kind = "negative"
<1>1. TInv /\ [ChainNext]_chainVars => [Labelled]_chainVars
  <2> SUFFICES ASSUME TInv, ChainNext, program = "tester", lost' = 0,
                      exchange.step >= 12 => console.seed # ZeroSeed,
                      Waiting, exchange'.at # "await"
               PROVE  Suits(shown', console.seed, exchange.step)
    BY DEF Suits
  <2>1. KInv /\ lost \in Nat /\ ExchangeTyped
    BY Ranges DEF TInv, KInv
  <2>2. lost = 0
    <3>1. lost' \in {lost, lost + 1}
      BY DEF ChainNext, ConsoleCommand, ConsoleKey,
         ConsoleSends, TesterStep, Send, TakeAnswer, ClientGivesUp,
         GatewayJudges, GatewayRelays, Behind, LoseHop, ChainTick,
         OtherTester, ClientStays, Next, AdmitAny, Admit, Forward,
         ForwardFails, ReceiveAnswer, GiveUp, EcuHandles, EcuPolls, Tick,
         Lose, OthersStay
    <3>2. QED
      BY <2>1, <3>1
  <2>3. Unfolding
    BY <2>2 DEF TInv, TesterUndisturbed
  <2>4. ~ClientGivesUp
    BY <2>1, <2>3, NoGivingUp
  <2>5. ~ChainTick
    BY <2>1 DEF ChainTick, ExchangeTyped, Waiting
  <2>6. TakeAnswer
    BY <2>4, <2>5
    DEF ChainNext, ConsoleCommand, ConsoleKey, ConsoleSends, TesterStep,
        Send, GatewayJudges, GatewayRelays, Behind, LoseHop, OtherTester,
        ClientStays, Waiting
  <2>7. QED
    BY <2>1, <2>3, <2>6, TheAnswerTaken
<1>2. QED
  BY ScenarioInvariance, <1>1, PTL DEF ChainSpec, ScenarioUnfolds

\* XL_EPOCH_CONSISTENCY for the tester of this repository: between two
\* exchanges its requests have brought shadow and ECU to the same level, and
\* the one wrong key it sends has cost the ECU no attempt.
THEOREM ScenarioAgrees ==
  ASSUME MaxLatency < EcuTimeout, ServersAssumed, SessionOutlivesSteps,
         MaxAttempts > 1
  PROVE  ChainSpec =>
           [](TesterUndisturbed => AuthorityAgrees /\ EcuIsNeverStruck)
<1>1. ASSUME TInv, TesterUndisturbed
      PROVE  AuthorityAgrees /\ EcuIsNeverStruck
  <2>1. /\ KInv /\ program = "tester" /\ Unfolding
    BY <1>1 DEF TInv, TesterUndisturbed
  <2>2. /\ shadow.session # "default" => Alive(shadow)
        /\ ecu.session # "default" => Alive(ecu)
        /\ Typed(shadow) /\ Closed(shadow) /\ Typed(ecu) /\ Closed(ecu)
    BY <2>1, SessionsLive, Ranges
  <2>3. EcuIsNeverStruck
    BY <2>1 DEF Unfolding, AtRest, Judged, Answered, Returning,
                EcuIsNeverStruck
  <2>4. ASSUME loop.at = "idle"
        PROVE  shadow.security_level = ecu.security_level
    <3>1. AtRest \/ Returning
      BY <2>1, <2>4, Places DEF Unfolding, InTheLoop
    <3>2. QED
      BY <3>1 DEF AtRest, Returning, Stage
  <2>5. /\ Shadow!Polled = Polls(shadow) /\ Ecu!Polled = Polls(ecu)
    BY SameOperators DEF Shadow!Polled, Ecu!Polled, Polls
  <2>6. /\ Shadow!Polled.security_level = shadow.security_level
        /\ Ecu!Polled.security_level = ecu.security_level
    BY <2>2, <2>5, PolledFields DEF Closed, Alive, Typed
  <2>7. QED
    BY <2>3, <2>4, <2>6 DEF AuthorityAgrees
<1>2. QED
  BY ScenarioInvariance, <1>1, PTL
=============================================================================
