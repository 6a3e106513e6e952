# Formal model of the hardened diagnostic gateway

This directory holds TLA+ specifications of the diagnostic stack in `src/`: an
ISO-TP transport, a hardened UDS server, a virtual ECU that runs it, an
admission gateway that runs a second copy of it in front of an ECU, the clients
that talk to them and the programs that explore them. TLC checks
the specifications on small instances; TLAPS proves the central theorems for
every value of the constants.

## 1. The system

| Component | Source | State it keeps | Operations |
|---|---|---|---|
| UDS server | `src/uds/uds.c`, `uds.h` | session, security level, outstanding seed, failed attempts, lockout and its date, date of the last activity, seed generator (`uds_context_t`) | `uds_init`, `uds_poll`, `uds_handle_request` (policy table, seven handlers) |
| ISO-TP codec | `src/isotp/isotp.c`, `isotp.h` | none | encode/decode of Single Frame and Flow Control, frame type |
| Reassembler | `src/isotp/isotp_rx.c` | buffer, expected and received bytes, next sequence number, last activity | `isotp_rx_init/reset/process/poll_timeout` |
| Segmenter | `src/isotp/isotp_tx.c` | message, position, sequence number, block size, STmin, dates | `isotp_tx_init/reset/start/on_flow_control/poll` |
| Diagnostic link | `src/platform/diag_link.c` | one segmenter and one reassembler over one socket | `diag_link_send` (blocks), `diag_link_poll`, `diag_link_recv` |
| SocketCAN | `src/platform/socketcan/can_socket.c` | a file descriptor | read with timeout, write, filter |
| Virtual ECU | `src/ecu/ecu.c`, `ecu_data.c` | simulated measurements, fault memory, count of resets | main loop; tick, read, clear, reset |
| Gateway | `src/gateway/gateway.c`, `gateway_main.c`, `invariants.h` | a shadow UDS server | `gw_admit_ex`, `gw_observe_response`, main loop |
| Benchmark | `bench/bench_core.h`, `bench.c` | a permissive ECU, the last seed seen | systems S0 (no guard), S1 (stateless), S2 (gateway) |
| Tester | `src/tester/tester.c` | the step of its scenario, the last seed | nineteen requests, each a send and a bounded receive |
| Console | `src/tester/diagcli.c` | the session and level of its prompt, the last seed | a command, a send and a bounded receive |
| Explorers | `fuzz/ahdg_explore_core.h`, `ahdg_frames.c`, `ahdg_hunt.c`, `fuzz_parser.c` | server, reassembler, last key, clock | one action or frame, then an oracle; a golden probe |
| WebAssembly binding | `web/wasm/ahdg_wasm.c` | a server and its clock | one request, judged by the same oracle |
| Web demos | `tools/webdemo/*`, `web/*` | processes, page state | presentation |

How they interact. A client's `diag_link_send` cuts a message into CAN frames;
the peer's `diag_link_poll` reassembles them, answers a First Frame with a Flow
Control, and hands a complete message to the main loop. The ECU's loop calls
`uds_poll` on every silent receive tick and `uds_handle_request` on every
message; handlers call back into `ecu_data.c`. The gateway's loop asks its
shadow first, refuses in the ECU's stead or forwards, then waits for the ECU's
answer for at most `ECU_TIMEOUT_MS`, and copies the ECU's seeds into the shadow.
A client waits for the gateway in the same way, for `RESPONSE_TIMEOUT_MS`, and
takes the first message it reads for its answer. The explorers call the
reassembler and the server in process, on a clock they move themselves.
There is no shared memory: processes share the bus and the monotonic clock.
Each process is one thread.

What is hard to get right here:

* *dates on a 32-bit millisecond clock*: S3, the lockout, N_Bs, N_Cr and STmin
  are all modular comparisons, exact only while something evaluates them often
  enough;
* *authority that must be lost everywhere*: by request, by expiry, by reset
  (the project's own AHDG-0001 was one such path forgotten);
* *a blocking send in a single thread*, whose timers are looked at only when a
  read times out;
* *lost, late and foreign frames*, and two ends that give up at different times;
* *one failing read or write* in the middle of a transfer;
* *two copies of one state machine* (shadow and ECU) that see the same requests
  at different times, or not at all;
* *two nested waits* (client, gateway), neither of which discards a late answer;
* *a long sequence of legal calls* that might leave the pair of reassembler and
  server unable to serve: what the explorers look for.

`PROJECT.json` lists each hazard at its line, with the properties that cover it.

What makes each component correct, in one line: the server grants authority
only by a fresh key in a live session and loses it on every way out; the
reassembler delivers what was announced and nothing else; the segmenter sends
what it was given at the pace it was asked for; the link moves messages whole,
in order, at most once; the gateway never lets a request through that the ECU
should not see, and always comes back; the application changes only when the
client is told so; a client's answer is its own request's, and its picture of
the server never hides an authority the server still grants.

## 2. The modules

### UDS server

* **`UdsServer`**: variables `now` (the clock, modulo `2 * HalfRange`), `ctx`
  (`uds_context_t`) and `reply` (the response buffer of the last call). `Poll` is
  `uds_poll`; `HandleRequest(req, o)` is one whole call of
  `uds_handle_request`: deadlines (`Current`), the length and service checks
  (`EmptyRequest`, `UnknownService`), the policy (`Allows`, `AccessRefused`),
  the refresh of S3 (`Refreshed`), then the handler of the service
  (`SessionControl`, `TesterPresent`, `ReadData`, `ReadDTC`, `SecurityAccess`,
  `ClearDTC`, `ECUReset`). A request keeps what the code branches on: service,
  shorter/exact/longer than the handler demands, sub-function, suppress bit,
  key. `o` is what the application's callback returns. The seed generator and
  the key function are constants (`Step`, `SeedOf`, `KeyOf`).
* **`UdsTiming`** adds three history counters of real time to the server, and
  the caller's obligation: at most `MaxPollGap` ticks between two calls.
  `TCall` is one request, `THandle` any request. `VirtualEcu` and its run extend it.
* **`DiagnosticAuthority`** is the abstract specification of access control:
  four variables, no clock, no seeds. **`UdsAuthority`** maps the server to it.
* **`UdsServerProofs`**, **`VirtualEcuProofs`**: the theorems of section 4 on the
  server, and on the server in real time. Its refinement is in `ExplorerProofs`.

### ISO-TP and the link

* **`Isotp`** (frames, clock arithmetic), **`IsotpRx`** and **`IsotpTx`**: the
  two state machines as operators from a context, an input and a date to a new
  context and an output, one operator per function of the C code.
* **`Reassembly`** drives `IsotpRx` with every kind of frame in any order, a
  clock, polls and resets, and remembers in `seen` what was heard.
  **`ReassemblyProofs`** proves what it delivers.
* **`Segmentation`** drives `IsotpTx` with any Flow Controls, polls and resets.
  **`SegmentationProofs`** proves what it sends, and when.
* **`DiagLink`** puts two ends together. A step is one return of
  `can_socket_recv` with what `diag_link_poll` does with it (`ReadFlowControl`,
  `ReadFrame`, `ReadTimeout`, `ReadForeign`, `ReadFails`), one turn of `drive_tx`'s loop
  (`Drive`), or the beginning of a send; in between, the other end, the clock
  and the bus (`Lose`) may move. `thread` is the program counter, including
  whether the thread is inside `diag_link_send` and which date `drive_tx` holds.
  Bytes are named after their message, so a delivered message tells where each
  of its bytes comes from.
* **`Transfer`** is the abstract service; **`LinkTransfer`** states that the link
  implements it. **`DiagLinkProofs`** proves that both ends stay ready to send.

### ECU, gateway, benchmark

* **`VirtualEcu`** extends `UdsTiming` with `ecu_data_t`: `HandleOne` is an
  iteration of `ecu.c`'s loop with a message (tick, request, callback),
  `SilentTick` one without. The simulated quantities are reduced to whether the
  battery is low at a given tick.
* **`Gateway`**: two instances of `UdsServer`, `Shadow` and `Ecu`, on one clock.
  `Admit` is `gw_admit_ex`, `Forward`/`ForwardFails`/`ReceiveAnswer`/`GiveUp` the
  loop of `gateway_main.c`, `EcuHandles`/`EcuPolls` the loop of `ecu.c`.
  Messages travel whole, which is what `LinkTransfer` establishes.
* **`Chain`** extends `Gateway` with a client on a second bus. `program` is what
  runs: `"tester"`, whose `Script` is the body of `tester.c`'s `main`, each step
  with what its label says of the answer; `"console"`, which sends any command,
  derives keys from the last seed it saw (`ConsoleKey`) and keeps its prompt
  (`PromptAfter` is `show_response`); or `"other"`, the unconstrained tester of
  `Gateway`. `Send`, `TakeAnswer` and `ClientGivesUp` are `request_into` and
  `send_uds`; `GatewayJudges` and `GatewayRelays` are the gateway's loop with the
  second bus attached; `LoseHop` loses a message of that bus.
* **`Bench`**: the same policy in front of the benchmark's permissive ECU (its
  system S2). `Admit` and `Deliver` are the two halves of one act of
  `bench_replay`.
* **`ChainProofs`**, **`BenchProofs`**: what is proved of the three. `ChainProofs`
  goes from the gateway's exchanges over the two waits of the chain and the
  console's prompt to the seeds the shadow adopts and the tester's scenario.

### Explorers

* **`Explorer`** extends `UdsAuthority` with a reassembler (`IsotpRx`) and the
  three families of programs that drive the code in process. `FuzzRequest` is
  `fuzz_uds_request` and `ahdg_request`; `ApplyRequest`, `KeyCorrect`, `KeyWrong`,
  `KeyReplay` and `ClockJump` are the actions of `ahdg_apply`; `FrameAction` feeds one
  frame of the alphabet of `apply_frame`/`apply_act` (`Feed`), `ClockNcr` lets N_Cr
  pass, `GoldenProbe` is `golden_ok`. `RequestOf` reads a reassembled message the way
  `uds_handle_request` does. The oracle, `NothingReported`, is `ahdg_check`. The
  safety of the UDS server is checked in this module, where every way of calling
  it is present.
* **`ExplorerProofs`**: the server's refinement, and what is proved of every
  program that drives it.

Definitions named as mistakes (`FallBackUnlocked`, `BarOneLate`,
`NextFrameLate`, ...) stand next to the definition they could have been. No
action uses them; substituting one shows that a property notices the mistake.

## 3. What TLC checks

All clocks are a few ticks long and really wrap. Constants have the smallest
values at which the interesting case happens; the table says which.

| Run | Result | Question | Bounds that matter |
|---|---|---|---|
| `MCExplorer` | holds | safety of the server under any requests, polls and frames, its refinement of `DiagnosticAuthority`, the silence of the oracle, the golden probe | clock of 8 ticks, S3 2, lockout 3, N_Cr 1, 2 attempts (so the first strike does not bar), 3 seeds with the null one among them, well-formed and malformed requests of every service; real frames of 8 bytes and real request bytes |
| `MCVirtualEcu` | holds | S3 and lockout in real time; lockouts end, abandoned sessions close; the application changes only when the client is told | clock of 6 ticks, S3 3, lockout 2, calls at most 3 ticks apart: the largest gap for which they hold; a tick counter modulo 2, a reset counter that wraps at once |
| `MCReassembly` | holds | what is delivered is what was heard; N_Cr is exact | frames of 4 bytes, messages of at most 8, sequence numbers modulo 3: a transfer of one-byte frames wraps them twice; N_Cr 2, polls at most 2 apart on a clock of 5: the comparison wraps |
| `MCSegmentation` | holds | progress, completion, pacing, waiting | messages that fit, end on a frame boundary, need padding, are too long, are empty; block sizes 0, 1, 2 with the 8-bit count reduced to modulo 3 |
| `MCDiagLink` | holds | the link implements `Transfer`, and leaves no transfer behind | two requests that need a First Frame and two Consecutive Frames each, a short answer; one lost frame and one failed read or write; threads at most 1 tick late, N_Bs = N_Cr = 2 |
| `MCDiagLinkReturns` | holds | `diag_link_send` returns | endless Wait answers, a failed read or write and endless foreign traffic allowed |
| `MCChain` | holds | the tester's whole scenario through the gateway: answers are never paired with the wrong request by either program; the gateway returns; without a loss every label is right | messages up to 1 tick late between gateway and ECU, one lost anywhere (the proofs take any number), `EcuTimeout` 2, `ClientTimeout` 4 (the smallest that nests), S3 3, seeds of shadow and ECU in any order, the null one among them |
| `MCChainConsole` | holds | the shadow's authority and challenge are the ECU's; the prompt never hides an unlock | console and unconstrained tester, no latency, no loss, one key per seed; the third generator state draws the null seed; a clock of 6 ticks, S3 2, a tester silent for at most 2: the most for which `S3 + MaxSilence + EcuTimeout` stays within the clock |
| `MCBench` | holds | the policy protects a permissive ECU, and lets a legitimate flow pass | the benchmark's nine acts in any order |
| `MCDiagLinkVerdict` | violated | is a message reported as sent really sent? | one request, no loss: the server need only be slow |
| `MCGatewaySecondKey` | violated | does the shadow's authority stay the ECU's when a client tries a second key on a seed? | instantaneous links, two keys per seed |
| `MCExplorerKey` | violated | does the frame explorers' "correct key" frame unlock the server? | the frame programs of `MCExplorer` |

Every module has a type invariant, as the declaration of what its variables hold.
That of `UdsServer` is checked in a run and proved, those of `Reassembly` and
`Segmentation` are proved; the others rest on them, and can be checked with any of
the configurations.

Nothing is bounded by a state constraint. Unbounded histories are capped by a
guard or a saturating count: `MaxPollGap`, `MaxLag`, `MaxSilence`, `MaxLatency`,
`MaxHop`, `MaxLost`, `MaxFaults`, `KeysPerSeed`, `Lengths`, and the counters `Forever` (in
`Reassembly`) and `LongestBar` (in `UdsTiming`), which stop once every comparison
with them is settled.

### Under which conditions the properties hold

Some of the properties that hold do so only within limits that the models make
explicit. Outside them TLC finds a counterexample.

* S3 is honoured if and only if two calls are at most `2 * HalfRange - S3` apart,
  and a lockout lifts on time if and only if they are at most `HalfRange` apart.
  The ECU polls ten times a second, so both hold there with a wide margin; the
  gateway never polls its shadow.
* `TimeoutIsExact` and `WaitIsBounded` need polls that come before the age of a
  transfer can wrap: `N_Cr + MaxPollGap` and `N_Bs + MaxPollGap` at most `TimeRange`.
* `ImplementsTransfer` needs `MaxLag < N_Bs`, and no foreign traffic together with
  a loss or a fault: else a sender and a receiver give up far apart, and the Flow
  Control of the old transfer is taken for the new one.
* `LinkStaysReady` needs sockets that do not fail: a failed read or write leaves
  the segmenter in the middle of its transfer (`diag_link.c:238`, `300`), and one
  that the ECU's loop meets outside a send, the write of a Flow Control included,
  ends that loop. That is why it is stated for the behaviours without a fault, in a
  run that also has faults.
* `ExchangesAreClosed` needs a round trip shorter than `EcuTimeout`, and
  `ChainIsClosed` a `ClientTimeout` above that round trip and the gateway's wait
  together (`ChainAssumption`; 2000 ms around 1000 ms in the code).
* `ScenarioUnfolds` is stated for runs of the tester that lose no message, and
  needs a session that outlives two steps, since the ECU does not see the wrong
  key of step 10 (`S3 > 4 * MaxHop + 2 * MaxLatency`; whatever the delays, an S3
  of twice `ClientTimeout` is enough, 5000 ms against 2000 ms in the code), and
  more than one attempt. The tester thinks no time between steps, as
  `tester.c` does. One seed is excluded: the ECU can draw the null one
  (`uds.c:605`), the gateway then leaves the shadow on a seed of its own
  (`gateway.c:159`), and if that happens at step 11 the correct key of step 12 is
  dropped with invalidKey, against its label. At step 9 a null seed is harmless:
  the key of step 10 is wrong for every seed.
* `PromptNeverHidesAuthority` is stated while nothing was lost: the answer that
  announces an unlock can be lost like any other.
* `AuthorityAgrees`, `ShadowStaysClosed`, `KeyBoundToEcuSeed` and
  `EcuIsNeverStruck` are checked for instantaneous, reliable links and a client
  that tries one key per seed, and none on a null seed. They are no properties of
  the code beyond that. With latency the shadow's S3
  may expire a tick before the ECU's; a key is then refused by the shadow with
  conditionsNotCorrect, which does not stop a request, and reaches the ECU.
  For a null seed the same happens: the shadow takes the answer for one of an
  unlocked ECU and keeps a challenge of its own. A second key and a lost request
  are `MCGatewaySecondKey` and `MCGatewayLostRequest` below. For the tester of this
  repository, which sends a wrong key and a second one, the first and the last of
  the four hold whatever the delays are (`ScenarioAgrees`).

### Disagreements with the documentation

Three of them are runs of the project (`PROJECT.json`, findings).

| Configuration | The documentation | The code |
|---|---|---|
| `MCDiagLinkVerdict` (run) | `diag_link.h:52`: 0 means transmitted | 0 after an N_Bs abort (`diag_link.c:256`); a bug of the code |
| `MCGatewaySecondKey` (run) | `invariants.h:128` (XL-3): gateway and ECU agree on state | after a dropped wrong key the shadow's seed is consumed, the ECU's is not; the next key meets a refusal that does not stop it (`gateway.c:101`) |
| `MCExplorerKey` (run) | `ahdg_frames.c:205`: "correct key (legit unlock)" | the frame's length nibble is 5, the request needs 6 bytes (`ahdg_frames.c:234`, `ahdg_hunt.c:163`): always incorrectMessageLength, so no frame exploration reaches an unlocked server or a lockout; a bug of the code |
| `MCChainPrompt` | `README.md:206`: the prompt tracks the session and the level | it lags behind an S3 expiry or a lock that no answer announces (`diagcli.c:98`) |
| `MCUdsTimingRefresh` | `docs/uds.md:162`: a rejected request does not refresh the deadline | only an access refusal does not; a request its handler rejects does (`uds.c:1100`) |
| `MCUdsTimingSuppress` | `docs/uds.md:143`: the suppress bit silences positive responses | `ECUReset` answers positively all the same (`uds.c:585`) |
| `MCUdsTimingUnpolledLockout` | `docs/security.md:72`: the lockout lifts on its own | not if nothing polls for half a wrap (about 25 days) (`uds.c:1008`) |
| `MCUdsTimingUnpolledSession` | `docs/uds.md:165`: a late request cannot rescue the session | it can, exactly one wrap later (about 50 days) (`uds.c:1020`) |
| `MCReassemblyStrayFrames` | `isotp.h:272`: N_Cr counts from the last Consecutive Frame | any frame restarts it (`isotp_rx.c:443`) |
| `MCDiagLinkForeign` | `invariants.h:142` (TIME-2): no late frame resumes an expired transfer | foreign traffic keeps the timers from being read (`diag_link.c:260`) |
| `MCDiagLinkStaleGrant` | `invariants.h:130` (XL-4): no two transfers interleaved | a thread late by as much as N_Bs takes an old Flow Control for the next transfer's (`isotp_tx.c:264`) |
| `MCDiagLinkSocketFault` | `invariants.h:147` (AVAIL-2): the ECU keeps serving | a failed read, or a failed write of a Flow Control, ends its loop (`ecu.c:114`) |
| `MCGatewaySession` | `docs/RESEARCH.md:166`: no window of disagreement on the session | a dropped key refreshes only the shadow's S3 (`gateway_main.c:101`) |
| `MCGatewayLostRequest` | `gateway.h:85`: the key is judged against the ECU's seed | not if the request for a seed is lost (`gateway_main.c:110`) |

The others are configurations beside the runs: `tlc -config <name>.cfg <module>`
(the module is the part of the name that names one) stops at the counterexample.

One disagreement no model shows: the parser fuzzer's oracle
(`fuzz_parser.c:407`) reads the security level after the request, when a
legitimate reset has already locked it again; it stays silent only because
random keys never unlock. `NothingReported` is the other oracle, which takes
the level before the call.

### Fairness

Liveness is checked under weak fairness of single steps of the running threads
and of the clock, and of nothing else. `UdsTiming` and `VirtualEcu`: the clock ticks and the ECU's
loop goes round, with a silent tick (a poll) or a request, whichever: clients
may keep it busy for ever. `DiagLink`: each thread
that is not down takes its turns, and time passes (`can_socket_recv` returns
after `RX_TICK_MS` at the latest). `Gateway` and `Chain`: the loops of gateway, ECU and client
run and time passes. The
bus is never obliged to lose or to deliver anything beyond what is in a queue,
and no client is obliged to send.

### Stopping

`MCChain` ends with the scenario; the gateway and the ECU go on. Deadlock is
checked in every run: the clock, a poll or a read timeout is always
possible, so a state without a successor would be a mistake.

## 4. What is proved

TLAPS checks, for every value of the constants that the named assumptions allow,
the theorems below. An assumption beyond those the modules declare is part of the
theorem's statement, and is the condition section 3 gives for the property.

*`UdsServerProofs`*: `TypeCorrect`, `DefaultIsClosed`, `ChallengeImpliesLocked`,
`LockoutIffExhausted` (state invariants; no run lists `ChallengeOnlyWhenLocked`,
which the refinement of `DiagnosticAuthority` implies), `UnlocksAreEarned`, `ResetsAreAuthorised`,
`SeedsAreConsumed`, `AttemptsAreKept` (action properties).

The inductive invariant `IInv` says that the clock is in range, the answer well
typed and the context `Sound`. The checked invariants are not inductive alone:
that no challenge survives in the default session needs that a lockout implies
the locked level; that the lockout matches the attempts needs that a challenge
is never outstanding while barred, else a key could be counted beyond the limit.
`Sound` is a predicate of a context *as a value*, so each small operator
(`FallBack`, `LiftLockout`, `Challenge`, `Strike`, `Bar`, `Grant`) gets one lemma,
each handler one that composes them, and the induction step follows. The action
properties need in addition what an evaluation of the deadlines may change
(`PolledFacts`): an unlock or a reset concerns the session the client really had,
not one that had expired when the request arrived. `AttemptsAreKept` follows the
attempt counter through each handler (`HandledAttempts`).

The assumptions are `ClockAssumption` (S3 shorter than the clock's period, the
lockout shorter than half of it; the code has 5 s and 10 s against 2^32 ms),
`SecurityAssumption` (types of the generator and the key function, nothing about
their strength) and `RequestAssumption`.

*`ExplorerProofs`*: `Refinement`, the server implements `DiagnosticAuthority`; and
of every program that drives it in process, frames included, `ExploredRefinement`,
`ExploredTypeCorrect`, `ExploredStatesAreSafe`, `ExploredStepsAreSafe` (what
`UdsServerProofs` says of the server alone), `OracleNeverSpeaks` and
`PairNeverWedges`. No further assumption.

For the refinement each handler is mapped to an abstract action or a stutter, under
`IInv`; an evaluation of the deadlines that changes something is part of the same
step as the request, which the abstract actions allow for. The explorers' invariant
adds the reassembler: what it holds half assembled can only be a read of data that
lacks bytes (the one multi-frame request of the alphabet), so the Single Frames of
the golden probe are delivered as they are, and the two requests they carry, the
extended session and a read of data, are served whatever the server has been
brought to. The oracle's six invariants follow from the action properties
of the server, plus what each handler answers.

*`VirtualEcuProofs`*: of the server in real time, `LockoutsLast` (no further
assumption), `LockoutsLift` (`MaxPollGap <= HalfRange`) and
`SessionsExpireExactly` (`S3 + MaxPollGap <= ClockRange`); of the ECU's loop,
`EcuIsTimed` (it is a timed server) and, on that, `ApplicationIsGuarded`. The
invariant ties each date of the context to the counter of real time it stands
for: the clock is where the date says it is as long as the counter, capped by the
gap between two calls, cannot have gone round. That `LockoutsLast` needs no gap is
the signed comparison's doing: a date half a wrap old looks like one in the future,
which keeps the server locked longer, never shorter.

*`ReassemblyProofs`*: `TypeCorrect`, `BufferIsFaithful` (invariants),
`DeliveriesAreExact`, `SequenceIsFollowed`, and `TimerIsExact`
(`N_Cr + MaxPollGap <= TimeRange`) (action properties).

The invariant relates the buffer to what was heard since the First Frame: the
buffer is the heard bytes, fewer than were announced, the count is their
number, and the next sequence number is the number of Consecutive Frames plus one
modulo `SnRange`. The proof has three layers: arithmetic of the modulus
(`SnSuccessor`), one lemma per frame kind (`SingleIsFine`, `FirstIsFine`,
`ConsecutiveIsFine`), and the history (`HeardAfterSound`). For the timer a second
invariant, `Timed`, says that the age of the context's date is the silence really
heard: every frame with a byte in it dates the context (`ProcessDates`), and no
poll leaves a transfer open at N_Cr.

*`SegmentationProofs`*: `TypeCorrect`, `ProgressHonest` (invariants),
`TransfersComplete`, `NothingUnasked`, `SeparationsKept`, and `WaitsEnd`
(`N_Bs + MaxPollGap <= TimeRange`) (action properties).

`SInv` has the context follow the transfer on the bus: what has been sent is a
prefix of the message (`PrefixGrows`), numbered by its frames, in a block whose
rest is what the peer granted. Two parts concern time. `Paced`: the date of the last
frame is no further back than the frame's true age; the code sets it back by
STmin when a block opens, so that the first frame leaves at once, and a clock that
wraps makes it look younger: both err towards waiting, which is why
`SeparationsKept` needs no bound on the gap. `Waited`: the age of a wait is the age
of its date. One lemma per function of the code (`EmitNextIsFine`, `TxPollIsFine`,
`TxFlowControlIsFine`, `TxBeginIsFine`) carries the first part, the steps the rest.

*`DiagLinkProofs`*: `BothEndsStayReady`, with no assumption. `LInv` says that,
as long as no read or write has failed, an end's segmenter is idle outside
`diag_link_send`, its thread is not down and the place it stands at goes with
whether it is sending (`Matched`); the rest of it types the contexts and
the frames on the bus. That it holds whatever is lost or delayed is because every
way out of the loop, the N_Bs abort behind its back included, leaves the segmenter
idle.

*`ChainProofs`*, the gateway's exchanges: `ExchangesClosed`, if
`MaxLatency < EcuTimeout` (the code waits 1000 ms for an answer on a local bus).
`GInv`: at most one message is under way between gateway and ECU, and the gateway
has waited at most as long as it can have travelled. Without the bound a late answer
meets the next request.

*`ChainProofs`*, the waits: `ChainClosed` and `ChainedExchangesClosed`, under the
same bound and `ChainAssumption` (2000 ms around 1000 ms in the code). `CInv` says
where the client's request is: on its way out, in the gateway's exchange with the
ECU, on its way home, or nowhere; in each place the client's wait is bounded by the
places before it, so that it never gives up while an answer can still come.

*`ChainProofs`*, the prompt: `UnlocksAreDisplayed`, under the same bound, for any
latency. `PromptInv` adds to `CInv` that an unlocked ECU is on display, with nothing
under way that would take it off, or that the answer announcing it is under way. It
holds because a step that leaves the ECU unlocked answers nothing the console reads
as a lock (`EcuAnswersItsLevel`), and because only one answer is ever under way.

*`ChainProofs`*, the adopted seeds: `AdoptedSeedsAreSafe`, under
`MaxLatency < EcuTimeout` and the servers' own assumptions, for every client, any
latency and any number of losses: no seed of the ECU opens the shadow in its
default session or under a lockout. `gw_observe_response` checks neither. It need
not, because of the order of the loop: `SInv` says that while a request for a seed,
or a seed, is between gateway and ECU, the shadow is where its judgement of that
request left it (`Receptive`), and the exchanges do not overlap. That no
challenge stands beside an unlocked level is not among it: after a loss the shadow
can be unlocked when the ECU is not.

*`ChainProofs`*, the scenario: `ScenarioIsAnswered` (`ScenarioUnfolds`) and
`ScenarioAgrees` (`AuthorityAgrees` and `EcuIsNeverStruck` between the tester's
steps), for any delay under `MaxLatency < EcuTimeout` and `SessionOutlivesSteps`,
which the code's timeouts imply (`TimeoutsOfTheCode`), with more than one attempt.
`Handled` and `Effect` describe a call of `uds_handle_request` for shadow and ECU
alike. `Stage(c, k)` is what a server has come to before step `k`; `ScriptAdvances`
moves it to the next one by the step's request, and `ScriptSpares` by not seeing a
request the gateway drops. The invariant, `Unfolding`, is indexed by the
step and by the place of its request: `AtRest` (both servers at the step), `Judged`
(the shadow past it), `Answered` and `Returning` (both past it, the answer as the
label says). Each place bounds the age of both sessions (`Fresh`), so that none
falls due; that bound is what `SessionOutlivesSteps` is for. At step 11 the answer
carries the seed the shadow adopts on its way, which is how both come to judge the
key of step 12 by the seed the tester holds.

*`BenchProofs`*: `ResetsAreEarned` and `ShadowFollows`, with no assumption, and
`LegitimateFlowsPass`, from the clock's assumptions. `BInv`:
between two acts the shadow and the permissive ECU agree on what matters
(`InStep`); between the halves of one act the shadow may be ahead, but only by the
request it has just admitted, and then that is the key the ECU will accept
(`OneAhead`). `FlowInv` follows the legitimate flow act by act: its session is
`Fresh`, so no deadline falls due, and each act leaves what the next needs (the
tester's seed is the shadow's, then the level is open), unless a lockout lasts.

### Only model-checked

* Liveness, and everything under fairness, is out of the prover's reach.
* `ImplementsTransfer`, the refinement of `Transfer` by the link: two reassemblers,
  two segmenters, two programs and a bus that delays and loses. What each half
  sends and delivers is proved separately (`SegmentationProofs`,
  `ReassemblyProofs`), and so is that neither is left busy (`DiagLinkProofs`).
* `AuthorityAgrees`, `ShadowStaysClosed`, `KeyBoundToEcuSeed` and
  `EcuIsNeverStruck` for any other client than the tester. Their conditions
  (section 3) are those of the run, and nothing in the code gives them; a proof
  would only repeat them.

## 5. Plan

Order of work: the most important behaviour (access control) first, then the
transport below it, then the compositions.

1. Done: `UdsServer`, `UdsTiming`, `DiagnosticAuthority`/`UdsAuthority`, and proofs.
2. Done: `Isotp`, `IsotpRx`, `IsotpTx`, `Reassembly` and `Segmentation`, with proofs.
3. Done: `DiagLink`, `Transfer`/`LinkTransfer`, `Gateway`, `VirtualEcu`, `Bench`.
4. Done: `Chain` (tester and console through the gateway), `Explorer` (fuzzers,
   explorers and their oracle), and the real-time properties moved from the
   server alone to the ECU's loop (`VirtualEcu` over `UdsTiming`).
5. Done, proofs: `AttemptsSurvive`; the refinement of `DiagnosticAuthority`; the
   real-time properties; the segmenter; the exchanges of gateway and chain; the
   benchmark, its legitimate flow included; the fault memory; the explorers with their oracle and probe; the
   readiness of the link; the console's prompt; the adopted seeds; the tester's
   scenario.
6. Next, proofs: `ImplementsTransfer` for one direction of the link.

## 6. What is not modelled

* The byte layout of frames, requests and answers, beyond lengths and the fields
  the code branches on; the strings and traces.
* The values of the simulated measurements, except whether the battery is low.
* The strength of the seed generator and of the demonstration key function: both
  are uninterpreted.
* The registration of callbacks, which happens before the first request; a
  missing one is the outcome `absent`.
* SocketCAN's set-up and error codes; a read gives a frame, a foreign frame or
  nothing, or fails, and a write succeeds or fails.
* Of the clients, the parsing of commands, the printing and the counters of the
  summary. The console is modelled as its user's choice among the commands.
* Of the explorers, how they choose (random numbers, coverage tables), the
  minimisation of a sequence and the reports; the frame bursts of `fuzz_parser.c`
  are part of the traffic of `Reassembly`. `fuzz_bus.c` writes random frames to a
  bus and keeps no protocol state.
* The statistics and the last-reason report of the gateway: no branch reads them.
* Systems S0 and S1 of the benchmark (no policy to verify), its random generator
  and its report.
* The web demonstration server (`tools/webdemo/server.py`), a manager of processes
  and their output; its threads share nothing with the C code.
* Web pages, scripts and tests: they drive or show the components above.
