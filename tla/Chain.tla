-------------------------------- MODULE Chain ---------------------------------
(***************************************************************************)
(* A client of this repository in front of the gateway and the ECU behind  *)
(* it: the diagnostic console (src/tester/diagcli.c) or the scripted       *)
(* tester (src/tester/tester.c), over a second bus.  Both send one request *)
(* and then wait RESPONSE_TIMEOUT_MS for one message, whichever it is; the *)
(* gateway in between waits ECU_TIMEOUT_MS in the same way.  A client that *)
(* gives up leaves whatever comes later in its queue, for its next wait.   *)
(*                                                                         *)
(* The console keeps a picture of the session and the security level for   *)
(* its prompt, made from the answers alone, and the last seed it saw.      *)
(* Programs may also hold "other", the tester of Gateway, which talks to   *)
(* the gateway directly and sends what it likes.                           *)
(***************************************************************************)
EXTENDS Gateway

CONSTANTS
  Programs,        \* the clients that may run
  ClientTimeout,   \* RESPONSE_TIMEOUT_MS
  MaxHop,          \* the longest a message between client and gateway is
                   \* under way, in ticks
  BadKey           \* DE AD BE EF, which answers no seed

ASSUME ChainAssumption ==
  /\ Programs \subseteq {"console", "tester", "other"}
  /\ ClientTimeout \in Nat \ {0} /\ MaxHop \in Nat
  /\ BadKey \in Keys /\ \A s \in Seeds : KeyOf[s] # BadKey
  \* The nesting of the two waits, which 2000 ms and 1000 ms give.
  /\ ClientTimeout > 2 * MaxHop + MaxLatency + EcuTimeout

VARIABLES
  program,     \* the client that was started
  exchange,    \* where it is: its step, the request it waits for, how long
  console,     \* g_session, g_security, g_last_seed and g_have_seed; of
               \* tester.c only the seed
  toGateway,   \* requests under way to the gateway
  toClient,    \* answers under way to the client, or unread
  hop,         \* ticks the message between client and gateway was under way
  shown        \* the answer the client took in the last step, if any

chainVars == <<vars, program, exchange, console, toGateway, toClient, hop,
               shown>>

-----------------------------------------------------------------------------
(* The scenario of tester.c.                                               *)

Asks(sid, sub) ==
  [sid |-> sid, size |-> "exact", sub |-> sub, suppress |-> FALSE,
   key |-> BadKey]

SendsKeyOf(seed) == [Asks("SecurityAccess", 2) EXCEPT !.key = KeyOf[seed]]

\* What a step asks, and what its label says of the answer: "refused" or
\* "accepted" where it does, or where the next steps need it.
At(req, expect) == [req |-> req, expect |-> expect]

Script(seed) ==
  <<At(Asks("TesterPresent", 0),  "any"),
    At(Asks("ECUReset", 1),       "refused"),
    At(Asks("SessionControl", 3), "accepted"),
    At(Asks("ReadData", 0),       "any"),
    At(Asks("ReadData", 0),       "any"),
    At(Asks("ReadData", 0),       "any"),
    At(Asks("ReadDTC", 2),        "any"),
    At(Asks("ECUReset", 1),       "refused"),
    At(Asks("SecurityAccess", 1), "accepted"),
    At(Asks("SecurityAccess", 2), "refused"),
    At(Asks("SecurityAccess", 1), "accepted"),
    At(SendsKeyOf(seed),          "accepted"),
    At(SendsKeyOf(seed),          "refused"),
    At(Asks("ClearDTC", 0),       "any"),
    At(Asks("ReadDTC", 2),        "any"),
    At(Asks("ECUReset", 1),       "accepted"),
    At(Asks("ECUReset", 1),       "refused"),
    At(Asks("ReadData", 0),       "any"),
    At([Asks("unknown", 0) EXCEPT !.size = "short"], "refused")>>

LastStep == 19

-----------------------------------------------------------------------------
(* The client.                                                             *)

Waiting == exchange.at = "await"

\* The prompt after a session answer that always locks it again.
PromptRelocks(p, r) ==
  CASE r.kind = "negative" -> p
    [] r.kind = "positive" /\ r.sid = "SessionControl" ->
         [p EXCEPT !.session = IF r.sub = 3 THEN "extended" ELSE "default",
                   !.security = "locked"]
    [] r.kind = "positive" /\ r.sid = "ECUReset" ->
         [p EXCEPT !.session = "default", !.security = "locked"]
    [] r.kind = "positive" /\ r.sid = "SecurityAccess" ->
         IF r.sub = 1 THEN [p EXCEPT !.seed = r.seed, !.haveSeed = TRUE]
                      ELSE [p EXCEPT !.security = "level1"]
    [] OTHER -> p

\* show_response of diagcli.c: what an answer does to the prompt and to the
\* seed.  A refusal changes neither, and an extended session leaves the
\* security level on display.
PromptAfter(p, r) ==
  CASE r.kind = "negative" -> p
    [] r.kind = "positive" /\ r.sid = "SessionControl" ->
         [p EXCEPT !.session = IF r.sub = 3 THEN "extended" ELSE "default",
                   !.security = IF r.sub = 3 THEN @ ELSE "locked"]
    [] r.kind = "positive" /\ r.sid = "ECUReset" ->
         [p EXCEPT !.session = "default", !.security = "locked"]
    [] r.kind = "positive" /\ r.sid = "SecurityAccess" ->
         IF r.sub = 1 THEN [p EXCEPT !.seed = r.seed, !.haveSeed = TRUE]
                      ELSE [p EXCEPT !.security = "level1"]
    [] OTHER -> p

\* A tester that keeps the first seed it was given.
SeedAfterFirst(p, r) ==
  IF IsSeed(r) /\ ~p.haveSeed
  THEN [p EXCEPT !.seed = r.seed, !.haveSeed = TRUE] ELSE p

\* tester.c overwrites its seed with each one it is given.
SeedAfter(p, r) ==
  IF IsSeed(r) THEN [p EXCEPT !.seed = r.seed, !.haveSeed = TRUE] ELSE p

Noted(r) ==
  IF program = "console" THEN PromptAfter(console, r) ELSE SeedAfter(console, r)

\* The exchange is over; the tester moves on to its next step, or ends.
Concluded ==
  [at    |-> IF program = "tester" /\ exchange.step = LastStep
             THEN "over" ELSE "ready",
   step  |-> IF program = "tester" /\ exchange.step < LastStep
             THEN exchange.step + 1 ELSE exchange.step,
   asked |-> <<>>, waited |-> 0]

\* What the client never touches, and what a step of the others leaves.
OthersStay == UNCHANGED <<now, shadow, ecu, loop, toEcu, fromEcu, since>>
ClientStays == UNCHANGED <<program, exchange, console>>

\* request_into and send_uds: the request goes out and the wait begins, or
\* the write fails and the exchange is over.
Send(req) ==
  /\ exchange.at = "ready"
  /\ \/ /\ toGateway' = Append(toGateway, req)
        /\ exchange' = [exchange EXCEPT !.at = "await", !.asked = <<req>>]
        /\ UNCHANGED lost
     \/ /\ lost < MaxLost
        /\ lost' = lost + 1
        /\ exchange' = Concluded
        /\ UNCHANGED toGateway
  /\ hop' = 0
  /\ told' = Nothing /\ shown' = Nothing /\ Still
  /\ OthersStay
  /\ UNCHANGED <<program, console, toClient>>

\* The user tries no more keys on one seed than KeysPerSeed.
ConsoleSends(req) ==
  /\ program = "console"
  /\ SendsKey(req) => tries > 0
  /\ tries' = IF SendsKey(req) THEN tries - 1 ELSE tries
  /\ Send(req)

\* The named commands, raw ones, and keys typed by hand.
ConsoleCommand == \E req \in ClientRequests : ConsoleSends(req)

\* The command "key" without an argument needs a seed, however old.
ConsoleKey == console.haveSeed /\ ConsoleSends(SendsKeyOf(console.seed))

TesterStep ==
  /\ program = "tester"
  /\ Send(Script(console.seed)[exchange.step].req)
  /\ UNCHANGED tries

\* The first message in the queue is taken for the answer.
TakeAnswer ==
  /\ Waiting /\ toClient # <<>>
  /\ toClient' = Tail(toClient)
  /\ console' = Noted(Head(toClient))
  /\ exchange' = Concluded
  /\ shown' = Head(toClient)
  /\ hop' = 0
  /\ told' = Nothing /\ Still
  /\ OthersStay
  /\ UNCHANGED <<program, toGateway, tries, lost>>

\* A client that waits no longer than half the time it should.
WaitsHalf == 2 * exchange.waited >= ClientTimeout

WaitedOut == exchange.waited >= ClientTimeout

ClientGivesUp ==
  /\ Waiting /\ toClient = <<>> /\ WaitedOut
  /\ exchange' = Concluded
  /\ shown' = Nothing /\ told' = Nothing /\ Still
  /\ OthersStay
  /\ UNCHANGED <<program, console, toGateway, toClient, hop, tries, lost>>

-----------------------------------------------------------------------------
(* The gateway's loop and the ECU, with the second bus in front of them.   *)

\* The loop reads a request only between two exchanges; its refusal is sent
\* at once.
GatewayJudges ==
  /\ toGateway # <<>>
  /\ Admit(Head(toGateway))
  /\ toGateway' = Tail(toGateway)
  /\ toClient' = IF told' = Nothing THEN toClient ELSE Append(toClient, told')
  /\ hop' = 0 /\ shown' = Nothing
  /\ ClientStays /\ UNCHANGED tries

GatewayRelays ==
  /\ program # "other"
  /\ ReceiveAnswer
  /\ toClient' = Append(toClient, told')
  /\ hop' = 0 /\ shown' = Nothing
  /\ ClientStays /\ UNCHANGED toGateway

Behind ==
  /\ program # "other"
  /\ Forward \/ ForwardFails \/ GiveUp \/ EcuHandles \/ EcuPolls \/ Lose
  /\ shown' = Nothing
  /\ ClientStays /\ UNCHANGED <<toGateway, toClient, hop>>

\* The messages of the first bus can be lost as well.
LoseHop ==
  /\ program # "other"
  /\ lost < MaxLost
  /\ lost' = lost + 1
  /\ \/ toGateway # <<>> /\ toGateway' = Tail(toGateway) /\ UNCHANGED toClient
     \/ toClient # <<>> /\ toClient' = Tail(toClient) /\ UNCHANGED toGateway
  /\ shown' = Nothing /\ told' = Nothing /\ Still
  /\ OthersStay /\ ClientStays /\ UNCHANGED <<hop, tries>>

\* A message somebody is waiting for.
Hopping ==
  \/ toGateway # <<>> /\ loop.at = "idle"
  \/ toClient # <<>> /\ Waiting

\* The tester thinks no time between two steps; the console's user may.
ChainTick ==
  /\ program # "other"
  /\ Hopping => hop < MaxHop
  /\ Waiting /\ ~Hopping => exchange.waited < ClientTimeout
  /\ program = "tester" => exchange.at # "ready"
  /\ Tick
  /\ hop' = IF Hopping THEN hop + 1 ELSE 0
  /\ exchange' = [exchange EXCEPT !.waited =
                    IF Waiting /\ @ < ClientTimeout THEN @ + 1 ELSE @]
  /\ shown' = Nothing
  /\ UNCHANGED <<program, console, toGateway, toClient>>

OtherTester ==
  /\ program = "other"
  /\ Next
  /\ ClientStays /\ UNCHANGED <<toGateway, toClient, hop, shown>>

ChainInit ==
  /\ Init
  /\ program \in Programs
  /\ exchange = [at |-> "ready", step |-> 1, asked |-> <<>>, waited |-> 0]
  /\ console = [session |-> "default", security |-> "locked",
                seed |-> ZeroSeed, haveSeed |-> FALSE]
  /\ toGateway = <<>> /\ toClient = <<>>
  /\ hop = 0
  /\ shown = Nothing

ChainNext ==
  \/ ConsoleCommand \/ ConsoleKey \/ TesterStep \/ TakeAnswer \/ ClientGivesUp
  \/ GatewayJudges \/ GatewayRelays \/ Behind \/ LoseHop \/ ChainTick
  \/ OtherTester

\* The three processes run and time passes; the client need not ask anything.
ChainSpec ==
  /\ ChainInit /\ [][ChainNext]_chainVars
  /\ WF_chainVars(Behind) /\ WF_chainVars(GatewayRelays)
  /\ WF_chainVars(TakeAnswer) /\ WF_chainVars(ClientGivesUp)
  /\ WF_chainVars(GatewayJudges) /\ WF_chainVars(ChainTick)

-----------------------------------------------------------------------------
(* Properties.                                                             *)

\* The client's state keeps its ranges, and so do the two servers'.
ChainTypeOK ==
  /\ Shadow!TypeOK /\ Ecu!TypeOK
  /\ loop.at \in {"idle", "forward", "await"}
  /\ exchange.at \in {"ready", "await", "over"}
  /\ exchange.step \in 1 .. LastStep /\ exchange.waited \in 0 .. ClientTimeout
  /\ (exchange.at = "await") <=> (exchange.asked # <<>>)
  /\ console \in [session : {"default", "extended"},
                   security : {"locked", "level1"},
                   seed : Seeds, haveSeed : BOOLEAN]
  /\ hop \in 0 .. MaxHop

\* The two waits nest: a client that has its answer, or has given it up, has
\* left nothing of its request behind, neither on a bus, nor in a queue, nor
\* in the gateway's loop.  So the next answer it reads is its next request's.
ChainIsClosed ==
  (program # "other" /\ ~Waiting) =>
    /\ toGateway = <<>> /\ toClient = <<>> /\ loop.at = "idle"
    /\ toEcu = <<>> /\ fromEcu = <<>>

\* README.md: "The prompt tracks the session and the security level".  It may
\* lag behind a lock it was not told of, but never the other way: as long as
\* no message was lost, a console ready for a command shows every unlock the
\* ECU still grants.
PromptNeverHidesAuthority ==
  (program = "console" /\ ~Waiting /\ lost = 0) =>
    (Ecu!Polled.security_level = "level1" => console.security = "level1")

\* tester.c labels its steps "doit etre refuse" and "doit etre accepte", and
\* the later ones need the session, the seed and the key of the earlier: on
\* a chain that loses nothing every step is answered, by an answer to it,
\* and as its label says, whatever the delays were.  And whatever the seeds
\* were, but for the one the ECU draws at step 11: should that be the null
\* seed, the shadow keeps its own, and the key of step 12 is wrong to it.
ScenarioUnfolds ==
  [][/\ program = "tester" /\ lost' = 0
     /\ exchange.step >= 12 => console.seed # ZeroSeed
     /\ Waiting /\ exchange'.at # "await"
     => LET step == Script(console.seed)[exchange.step] IN
        /\ shown'.sid = step.req.sid
        /\ step.expect = "accepted" => shown'.kind = "positive"
        /\ step.expect = "refused" => shown'.kind = "negative"]_chainVars

-----------------------------------------------------------------------------
(* What the documentation says and the code does not do.                   *)

\* The same sentence of README.md, read both ways: the level on display is
\* the level the ECU grants.
PromptTellsTruth ==
  (program = "console" /\ ~Waiting /\ lost = 0) =>
    (console.security = Ecu!Polled.security_level)
=============================================================================
