---------------------------- MODULE Segmentation -----------------------------
(***************************************************************************)
(* A segmenter facing a receiver that answers with any Flow Control at any *)
(* moment, and a caller that may start a message, poll, or reset at any    *)
(* moment too.                                                             *)
(*                                                                         *)
(* seen remembers what the code does not: the message being sent, every    *)
(* byte put on the bus for it, how many Consecutive Frames the last Flow   *)
(* Control still allows, and true ages in ticks (the last Consecutive      *)
(* Frame, the start of the wait, the last poll).                           *)
(***************************************************************************)
EXTENDS IsotpTx

CONSTANTS
  Messages,     \* the payloads the caller can send
  Controls,     \* the Flow Controls that can arrive
  MaxPollGap    \* the longest the caller goes without polling, in ticks

ASSUME SegmentationAssumption ==
  /\ Messages \subseteq Seq(Byte)
  /\ Controls \subseteq FlowControls
  /\ MaxPollGap \in Nat \ {0}

VARIABLES now, tx, out, seen

vars == <<now, tx, out, seen>>

\* Beyond this many ticks the history stops counting.
Forever == 2 * TimeRange

\* A permission without a limit, in Consecutive Frames.
Unlimited == ByteRange

Fresh == [message |-> <<>>, bytes |-> <<>>, allowed |-> 0, frames |-> 0]

Still == [event |-> "none", frame |-> NoFrame]

Init ==
  /\ now \in Time
  /\ tx = TxStart
  /\ out = Still
  /\ seen = [transfer |-> Fresh, gap |-> Forever, waiting |-> 0,
             unpolled |-> 0]

Tick ==
  /\ seen.unpolled < MaxPollGap
  /\ now' = After(now, 1)
  /\ seen' = [seen EXCEPT !.gap = Smaller(@ + 1, Forever),
                          !.waiting = Smaller(@ + 1, Forever),
                          !.unpolled = @ + 1]
  /\ out' = Still
  /\ UNCHANGED tx

\* The step's outcome r, seen by the bus.
Results(r) ==
  /\ tx' = r.ctx
  /\ out' = [event |-> r.event, frame |-> r.frame]
  /\ UNCHANGED now

\* A Consecutive Frame on the bus, out of a transfer h.
Sent(h, f) ==
  [h EXCEPT !.bytes = @ \o f.data, !.frames = @ + 1,
            !.allowed = IF @ = Unlimited THEN @ ELSE @ - 1]

\* isotp_tx_start.
Start(m) ==
  LET r == TxBegin(tx, m, now) IN
  /\ Results(r)
  /\ seen' = IF r.event = "send"
             THEN [seen EXCEPT
                     !.transfer = [Fresh EXCEPT !.message = m,
                                                !.bytes = r.frame.data],
                     !.waiting = 0, !.unpolled = 0]
             ELSE seen

\* isotp_tx_on_flow_control.
FlowControl(f) ==
  LET r == TxOnFlowControl(tx, f, now)
      h == IF tx.state = "waitFC" /\ f.status = "continue"
           THEN [seen.transfer EXCEPT
                   !.allowed = IF f.bs = 0 THEN Unlimited ELSE f.bs]
           ELSE seen.transfer
  IN /\ Results(r)
     /\ seen' = [seen EXCEPT
                   !.transfer = IF r.event = "send" THEN Sent(h, r.frame)
                                                    ELSE h,
                   !.gap = IF r.event = "send" THEN 0 ELSE @,
                   !.waiting = IF r.event = "wait" THEN 0 ELSE @]

\* isotp_tx_poll.
Poll ==
  LET r == TxPoll(tx, now) IN
  /\ Results(r)
  /\ seen' = [seen EXCEPT
                !.transfer = IF r.event = "send" THEN Sent(@, r.frame) ELSE @,
                !.gap = IF r.event = "send" THEN 0 ELSE @,
                !.waiting = IF tx.state = "sending" THEN 0 ELSE @,
                !.unpolled = 0]

\* isotp_tx_reset.
Reset ==
  /\ tx' = TxIdle(tx)
  /\ out' = Still
  /\ UNCHANGED <<now, seen>>

StartAny == \E m \in Messages : Start(m)
FlowControlAny == \E f \in Controls : FlowControl(f)

Next == Tick \/ StartAny \/ FlowControlAny \/ Poll \/ Reset

Spec == Init /\ [][Next]_vars

-----------------------------------------------------------------------------
(* Properties.                                                             *)

EmitsConsecutive == out'.event = "send" /\ out'.frame.kind = "CF"

TypeOK ==
  /\ now \in Time
  /\ tx \in TxContext
  /\ out.event \in {"none", "send", "wait", "aborted", "busy", "refused"}
  /\ seen.transfer.allowed \in 0 .. Unlimited
  /\ seen.unpolled \in 0 .. MaxPollGap

\* While a transfer is open, what is on the bus is a prefix of its message
\* and the context knows how long a prefix; the counter of the block agrees
\* with what the receiver granted.
ProgressIsHonest ==
  tx.state # "idle" =>
    /\ tx.buffer = seen.transfer.message /\ tx.total = Len(tx.buffer)
    /\ tx.sent = Len(seen.transfer.bytes) /\ tx.sent < tx.total
    /\ seen.transfer.bytes = SubSeq(tx.buffer, 1, tx.sent)
    /\ tx.sn = (seen.transfer.frames + 1) % SnRange
    /\ (tx.state = "sending" /\ tx.bs # 0) =>
         tx.inBlock + seen.transfer.allowed = tx.bs

\* A transfer that ends by sending its last frame has put the whole message
\* on the bus, in order, followed by padding only.
LastFrameCompletes ==
  [][EmitsConsecutive /\ tx'.state = "idle" =>
       LET m == seen.transfer.message
           b == seen.transfer.bytes \o out'.frame.data
       IN /\ Len(b) >= Len(m) /\ Len(b) < Len(m) + CFData
          /\ \A i \in 1 .. Len(b) :
               b[i] = IF i <= Len(m) THEN m[i] ELSE Pad]_vars

\* No Consecutive Frame leaves without a Flow Control that allows it: none
\* before the first, none beyond a block, none out of an idle context.
NoFrameUnasked ==
  [][EmitsConsecutive =>
       /\ tx.state # "idle"
       /\ \/ seen.transfer.allowed > 0
          \/ \E f \in Controls : f.status = "continue" /\ FlowControl(f)]_vars

\* Two Consecutive Frames of one block are never closer than the receiver's
\* separation time, whatever the clock reads.
SeparationKept ==
  [][EmitsConsecutive /\ tx.state = "sending" =>
       seen.gap >= tx.stmin]_vars

\* A wait is given up exactly when N_Bs has really elapsed since it began:
\* never before, and at the first poll after.
WaitIsBounded ==
  [][/\ Poll /\ out'.event = "aborted" => seen.waiting >= N_Bs
     /\ Poll /\ tx.state = "waitFC" /\ seen.waiting >= N_Bs
        => tx'.state = "idle"]_vars
=============================================================================
