------------------------------- MODULE Explorer -------------------------------
(***************************************************************************)
(* The programs that explore the server with the real code in process, and *)
(* the oracle they share.  program says which one runs:                    *)
(*                                                                         *)
(*   "fuzz"     fuzz/fuzz_parser.c and web/wasm: any request, any callback *)
(*              outcome;                                                   *)
(*   "explore"  fuzz/ahdg_explore_core.h: the fourteen actions of an       *)
(*              attacker who remembers the last key it sent;               *)
(*   "frames"   fuzz/ahdg_frames.c and fuzz/ahdg_hunt.c: CAN frames fed to *)
(*              a reassembler whose messages go to the server, then the    *)
(*              golden probe that asks whether the pair still serves.      *)
(*                                                                         *)
(* The explorers move their clock by a jump at the head of an action; here *)
(* Tick advances it between two actions, so every jump is included.  Bytes *)
(* are bytes; the four bytes of a key are four times the same one.         *)
(***************************************************************************)
EXTENDS UdsAuthority, Sequences

CONSTANTS
  Programs,   \* the programs that may be run
  N_Cr,       \* ISOTP_N_CR_TIMEOUT_MS
  ZeroKey,    \* the key of four null bytes
  BadKey      \* DE AD BE EF, which answers no seed

ASSUME ExplorerAssumption ==
  /\ Programs \subseteq {"fuzz", "explore", "frames"}
  /\ Keys \subseteq 0 .. 255
  /\ {ZeroKey, BadKey} \subseteq Keys
  /\ \A s \in Seeds : KeyOf[s] # BadKey

Tp == INSTANCE IsotpRx WITH
  FrameSize <- 8, MaxPayload <- 4095, SnRange <- 16, ByteRange <- 256,
  Byte <- 0 .. 255, Pad <- 0, TimeRange <- ClockRange, N_Bs <- N_Cr

VARIABLES
  program,    \* the program that was started
  lastKey,    \* ahdg_attacker_t: the last key the attacker sent
  rx,         \* the reassembler of ecu_model_t
  probe       \* how many probe requests were sent, and whether all were served

allVars == <<vars, program, lastKey, rx, probe>>

-----------------------------------------------------------------------------
(* The requests of the explorers' alphabet, as the server reads them.      *)

Asks(sid, sub) ==
  [sid |-> sid, size |-> "exact", sub |-> sub, suppress |-> FALSE,
   key |-> ZeroKey]

SendsKey(k) == [Asks("SecurityAccess", 2) EXCEPT !.key = k]

PlainRequests ==
  {Asks("SessionControl", n) : n \in 1 .. 3} \cup
  {Asks("ReadData", 0), Asks("TesterPresent", 0), Asks("SecurityAccess", 1),
   Asks("ECUReset", 1), Asks("ClearDTC", 0)}

\* What the bytes of a message are to uds_handle_request.
ServiceOf(b) ==
  CASE b = 16 -> "SessionControl" [] b = 17 -> "ECUReset"
    [] b = 20 -> "ClearDTC"       [] b = 34 -> "ReadData"
    [] b = 39 -> "SecurityAccess" [] b = 62 -> "TesterPresent"
    [] OTHER -> "unknown"

HasSub == {"SessionControl", "ECUReset", "SecurityAccess", "TesterPresent"}

Demanded(sid, sub) ==
  CASE sid = "ClearDTC" -> 4
    [] sid = "ReadData" -> 3
    [] sid = "SecurityAccess" /\ sub = 2 -> 6
    [] OTHER -> 2

RequestOf(m) ==
  LET sid == ServiceOf(m[1])
      sub == IF sid \in HasSub /\ Len(m) > 1 THEN m[2] ELSE 0
  IN [sid |-> sid,
      size |-> CASE Len(m) < 2 -> "short"
                 [] Len(m) >= 2 /\ Len(m) = Demanded(sid, sub) -> "exact"
                 [] OTHER -> "long",
      sub |-> sub, suppress |-> FALSE,
      key |-> IF sid = "SecurityAccess" /\ Len(m) = 6 THEN m[3] ELSE ZeroKey]

-----------------------------------------------------------------------------
(* The frames of the explorers' alphabet.                                  *)

Padded(bytes) == bytes \o [i \in 1 .. 7 - Len(bytes) |-> 0]

Single(bytes) ==
  [kind |-> "SF", len |-> Len(bytes), data |-> Padded(bytes)]

\* The header of both key frames announces five bytes of the six.
KeyFrame(k) ==
  [Single(<<39, 2, k, k, k, k>>) EXCEPT !.len = 5]

\* A key frame that announces all its bytes.
KeyFrameWhole(k) == Single(<<39, 2, k, k, k, k>>)

Consecutive(sn) ==
  [kind |-> "CF", sn |-> sn, data |-> <<1, 2, 3, 4, 5, 6, 7>>]

\* F_SF_KEY_CORRECT and F_CF_GOOD read the target's own state.
FrameAlphabet ==
  {Single(<<16, 3>>), Single(<<16, 1>>), Single(<<39, 1>>),
   KeyFrame(KeyOf[ctx.current_seed]), KeyFrame(BadKey),
   Single(<<17, 1>>), Single(<<34, 241, 144>>), Single(<<62, 0>>),
   Single(<<20, 255, 255, 255>>),
   [kind |-> "FF", len |-> 20, data |-> <<34, 241, 144, 170, 187, 204>>],
   [kind |-> "FF", len |-> 12, data |-> <<34, 1, 0, 221, 238, 255>>],
   Consecutive(rx.sn), Consecutive(15),
   [kind |-> "other"],
   [kind |-> "FC", status |-> "continue", bs |-> 0, stmin |-> 0]}

\* golden_ok: the extended session, then the software version.
GoldenFrames == <<Single(<<16, 3>>), Single(<<34, 241, 137>>)>>

-----------------------------------------------------------------------------

ExplorerInit ==
  /\ Init
  /\ program \in Programs
  /\ lastKey = ZeroKey
  /\ rx = Tp!RxStart
  /\ probe = [sent |-> 0, served |-> TRUE]

(* fuzz_parser.c and the WebAssembly front end.                            *)

FuzzRequest ==
  /\ program = "fuzz"
  /\ Handle
  /\ UNCHANGED <<program, lastKey, rx, probe>>

(* ahdg_apply.  The attacker reads the seed out of the context.            *)

ApplyRequest ==
  /\ program = "explore"
  /\ \E req \in PlainRequests : HandleRequest(req, "ok")
  /\ UNCHANGED <<program, lastKey, rx, probe>>

ApplyKey(k) ==
  /\ program = "explore"
  /\ HandleRequest(SendsKey(k), "ok")
  /\ lastKey' = k
  /\ UNCHANGED <<program, rx, probe>>

KeyCorrect == ApplyKey(KeyOf[ctx.current_seed])
KeyWrong   == ApplyKey(BadKey)
KeyReplay  == ApplyKey(lastKey)

\* The clock actions of every program but the parser fuzzer end in uds_poll.
ClockJump ==
  /\ program # "fuzz"
  /\ Poll
  /\ UNCHANGED <<program, lastKey, rx, probe>>

(* ahdg_frames.c and ahdg_hunt.c.                                          *)

\* feed: one frame through the reassembler, and the message it completes, if
\* any, through the server.
Feed(f) ==
  LET r == Tp!RxProcess(rx, f, now) IN
  /\ rx' = r.ctx
  /\ IF r.out.event = "ready"
     THEN HandleRequest(RequestOf(r.out.message), "ok")
     ELSE reply' = NoReply /\ UNCHANGED <<now, ctx>>

Probing == probe.sent > 0

ApplyFrame(f) ==
  /\ program = "frames" /\ ~Probing
  /\ Feed(f)
  /\ UNCHANGED <<program, lastKey, probe>>

FrameAction == \E f \in FrameAlphabet : ApplyFrame(f)

\* F_CLOCK_NCR: only the reassembler looks at its timer.
ClockNcr ==
  /\ program = "frames" /\ ~Probing
  /\ rx' = Tp!RxPoll(rx, now).ctx
  /\ reply' = NoReply
  /\ UNCHANGED <<now, ctx, program, lastKey, probe>>

\* A sequence ends with the probe; what follows is a fresh model.
GoldenProbe ==
  /\ program = "frames" /\ probe.sent < Len(GoldenFrames)
  /\ Feed(GoldenFrames[probe.sent + 1])
  /\ probe' = [sent |-> probe.sent + 1,
               served |-> probe.served /\ reply'.kind = "positive"]
  /\ UNCHANGED <<program, lastKey>>

ClockAdvances == Tick /\ UNCHANGED <<program, lastKey, rx, probe>>

ExplorerNext ==
  \/ ClockAdvances \/ ClockJump
  \/ FuzzRequest
  \/ ApplyRequest \/ KeyCorrect \/ KeyWrong \/ KeyReplay
  \/ FrameAction \/ ClockNcr \/ GoldenProbe

ExplorerSpec == ExplorerInit /\ [][ExplorerNext]_allVars

-----------------------------------------------------------------------------
(* The oracle (ahdg_check, check_uds and the length check of feed): it has *)
(* nothing to report of a call on pre that left post and the answer r.     *)

PositiveReset(r) == r.kind = "positive" /\ r.sid = "ECUReset"

PositiveKey(r) ==
  r.kind = "positive" /\ r.sid = "SecurityAccess" /\ r.sub = 2

NothingReported(pre, post, r) ==
  /\ PositiveReset(r) => pre.security_level # "locked"             \* SEC-1
  /\ PositiveKey(r) => pre.seed_pending                            \* SEC-2
  /\ PositiveReset(r) => post.security_level = "locked"            \* SEC-3
  /\ PositiveReset(r) => ~post.seed_pending                        \* XL-2
  /\ post.session = "default" => post.security_level = "locked"    \* SEC-4
  /\ post.failed_attempts < pre.failed_attempts =>                 \* SEC-5
       PositiveKey(r) \/ (pre.locked_out /\ ~post.locked_out)

\* The oracle looks at the session, the level, the challenge, the attempts
\* and the lockout on both sides of a call and at the answer, never at the
\* clock.  Whatever an explorer does, no call makes it report one of its six
\* invariants, and no frame leaves more bytes received than announced.
OracleIsSilent ==
  [][/\ NothingReported(ctx, ctx', reply')
     /\ rx'.received <= rx'.expected]_allVars

\* AVAIL-2: whatever frames came before, in whatever order and with whatever
\* left half assembled, pending, struck or barred, the pair of a reassembler
\* and a server answers the golden probe, and answers it positively.
NoWedgedContext == probe.served

-----------------------------------------------------------------------------
(* What the explorers say of themselves and do not do.                     *)

\* ahdg_frames.c calls F_SF_KEY_CORRECT "SF: correct key (legit unlock)".
\* The frame with the right key, fed while its seed is outstanding in a
\* session that has not expired, unlocks the server.
CorrectKeyUnlocks ==
  [][/\ ApplyFrame(KeyFrame(KeyOf[ctx.current_seed]))
     /\ ctx.seed_pending
     /\ ctx.session = "extended" /\ Elapsed(now, ctx.last_activity) < S3
     => ctx'.security_level = "level1"]_allVars
=============================================================================
