----------------------------- MODULE Reassembly ------------------------------
(***************************************************************************)
(* A reassembler facing anything the bus can carry: any frame of Traffic   *)
(* in any order, malformed, orphaned, interleaved or repeated, and a       *)
(* caller that looks at the N_Cr timer at least every MaxPollGap ticks.    *)
(*                                                                         *)
(* seen remembers what the code does not: the bytes heard since the last   *)
(* First Frame that opened a transfer, how many Consecutive Frames brought *)
(* them, and the true number of ticks since the last frame, since the last *)
(* one of the open transfer, and since the last poll.  No action reads it  *)
(* except the bound on the poll gap.                                       *)
(***************************************************************************)
EXTENDS IsotpRx

CONSTANTS
  Traffic,      \* the frames that can arrive
  MaxPollGap    \* the longest the caller goes without polling, in ticks

ASSUME TrafficAssumption == Traffic \subseteq Frame

ASSUME PollAssumption == MaxPollGap \in Nat \ {0}

VARIABLES now, rx, out, seen

vars == <<now, rx, out, seen>>

\* Beyond this many ticks the history stops counting.
Forever == TimeRange + N_Cr

Nothing == [heard |-> <<>>, frames |-> 0, announced |-> 0]

\* f opens a transfer, or brings bytes to the one that is open.
Opens(f) ==
  f.kind = "FF" /\ f.len \in FFMin .. MaxPayload /\ f.data # <<>>

Continues(f) == f.kind = "CF" /\ rx.state = "wait" /\ f.data # <<>>

Init ==
  /\ now \in Time
  /\ rx = RxStart
  /\ out = Quiet
  /\ seen = [transfer |-> Nothing, silent |-> Forever,
             starved |-> Forever, unpolled |-> 0]

Tick ==
  /\ seen.unpolled < MaxPollGap
  /\ now' = After(now, 1)
  /\ seen' = [seen EXCEPT !.silent = Smaller(@ + 1, Forever),
                          !.starved = Smaller(@ + 1, Forever),
                          !.unpolled = @ + 1]
  /\ out' = Quiet
  /\ UNCHANGED rx

Heard(f) ==
  LET t == seen.transfer IN
  CASE Opens(f) -> [heard |-> f.data, frames |-> 0, announced |-> f.len]
    [] Continues(f) -> [t EXCEPT !.heard = @ \o f.data, !.frames = @ + 1]
    [] OTHER -> t

\* isotp_rx_process on any frame.
Receive(f) ==
  LET r == RxProcess(rx, f, now) IN
  /\ rx' = r.ctx
  /\ out' = r.out
  /\ seen' = [seen EXCEPT
                !.transfer = IF r.ctx.state = "wait" THEN Heard(f) ELSE Nothing,
                !.silent = IF f.kind = "empty" THEN @ ELSE 0,
                !.starved = IF Opens(f) \/ Continues(f) THEN 0 ELSE @]
  /\ UNCHANGED now

\* isotp_rx_poll_timeout.
Poll ==
  LET r == RxPoll(rx, now) IN
  /\ rx' = r.ctx
  /\ out' = r.out
  /\ seen' = [seen EXCEPT
                !.transfer = IF r.ctx.state = "wait" THEN @ ELSE Nothing,
                !.unpolled = 0]
  /\ UNCHANGED now

\* isotp_rx_reset.
Reset ==
  /\ rx' = RxIdle(rx)
  /\ out' = Quiet
  /\ seen' = [seen EXCEPT !.transfer = Nothing]
  /\ UNCHANGED now

ReceiveAny == \E f \in Traffic : Receive(f)

Next == Tick \/ ReceiveAny \/ Poll \/ Reset

Spec == Init /\ [][Next]_vars

-----------------------------------------------------------------------------
(* Properties.                                                             *)

TypeOK ==
  /\ now \in Time
  /\ rx \in RxContext
  /\ out \in RxOut
  /\ seen \in [transfer : [heard : Seq(Byte), frames : Nat,
                           announced : 0 .. MaxPayload],
               silent : 0 .. Forever, starved : 0 .. Forever,
               unpolled : 0 .. MaxPollGap]

\* TP-3, and what the next frame will be checked against: while a transfer
\* is open the buffer holds exactly the bytes heard since its First Frame,
\* strictly fewer than were announced, the counter agrees with them, and the
\* sequence number awaited is the one after those already taken.
BufferIsWhatWasHeard ==
  rx.state = "wait" =>
    /\ rx.buffer = seen.transfer.heard
    /\ rx.received = Len(rx.buffer)
    /\ rx.expected = seen.transfer.announced
    /\ rx.received < rx.expected /\ rx.expected <= MaxPayload
    /\ rx.sn = (seen.transfer.frames + 1) % SnRange

\* TP-1 and XL-4: a message leaves the reassembler either as the content of
\* one Single Frame, or as the announced number of bytes, all heard since
\* the one First Frame that announced them.
DeliveredAsAnnounced ==
  [][\A f \in Traffic :
       Receive(f) /\ out'.event = "ready" =>
         \/ /\ f.kind = "SF"
            /\ out'.message = SubSeq(f.data, 1, f.len)
         \/ /\ f.kind = "CF" /\ rx.state = "wait"
            /\ Len(out'.message) = seen.transfer.announced
            /\ out'.message = SubSeq(seen.transfer.heard \o f.data, 1,
                                     seen.transfer.announced)]_vars

\* TP-2: every Consecutive Frame that advances or completes a transfer
\* carries the successor, modulo 16, of the one before it.
SequenceIsSuccessor ==
  [][\A f \in Traffic :
       /\ Receive(f) /\ f.kind = "CF"
       /\ out'.event = "ready" \/ rx'.received > rx.received
       => f.sn = (seen.transfer.frames + 1) % SnRange]_vars

\* N_Cr never ends a transfer before its time, whatever the clock reads, and
\* never lets a silent one outlive it by more than the poll gap.
TimeoutIsExact ==
  [][/\ Poll /\ out'.event = "aborted" => seen.silent >= N_Cr
     /\ Poll /\ rx.state = "wait" /\ seen.silent >= N_Cr
        => rx'.state = "idle"]_vars

-----------------------------------------------------------------------------
(* What the header file says and the code does not do.                     *)

\* isotp.h, on isotp_rx_poll_timeout: if a transfer is open "et qu'aucune
\* Consecutive Frame n'est arrivee depuis N_Cr, le transfert est abandonne".
\* A poll that finds a transfer open and starved for N_Cr ticks closes it.
StarvedTransferIsAbandoned ==
  [][Poll /\ rx.state = "wait" /\ seen.starved >= N_Cr
     => rx'.state = "idle"]_vars
=============================================================================
