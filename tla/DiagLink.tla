------------------------------ MODULE DiagLink -------------------------------
(***************************************************************************)
(* Two ends of a diagnostic link (src/platform/diag_link.c), each a single *)
(* thread that owns a segmenter and a reassembler, reads one CAN frame or  *)
(* a receive timeout at a time, and blocks in diag_link_send until its     *)
(* message is out or given up.  The bus between them delivers in order,    *)
(* loses frames, and carries other nodes' traffic; a read or a write of    *)
(* its socket can fail.                                                    *)
(*                                                                         *)
(* A step is one return of can_socket_recv with what diag_link_poll does   *)
(* with it, one turn of drive_tx's loop, or the start of a send: between   *)
(* any two of them the other end, the clock or the bus may move.  Byte i   *)
(* of message k of end e is <<e, k, i>>, so that a delivered message tells *)
(* where each of its bytes comes from.                                     *)
(***************************************************************************)
EXTENDS IsotpRx, IsotpTx

CONSTANTS
  Client, Server,  \* the two ends
  Lengths,         \* the lengths of the messages each end will send
  MaxLag,          \* the longest a thread goes without a turn, in ticks
  MaxLost,         \* how many frames the bus may lose
  MaxFaults,       \* how many reads and writes of the sockets may fail
  ForeignTraffic,  \* whether other nodes use the bus
  PeerWaits        \* whether Flow Controls asking to wait can arrive

Ends == {Client, Server}
Peer(e) == IF e = Client THEN Server ELSE Client

ASSUME LinkAssumption ==
  /\ Client # Server
  /\ Lengths \in [Ends -> Seq(Nat)]
  /\ MaxLag \in Nat /\ MaxLost \in Nat /\ MaxFaults \in Nat
  /\ ForeignTraffic \in BOOLEAN /\ PeerWaits \in BOOLEAN

\* diag_link_send's own limit, beside N_Bs.
SendLimit == 4 * N_Bs

VARIABLES
  now,      \* the clock both ends read
  tx, rx,   \* their ISO-TP contexts
  thread,   \* where each thread is
  chan,     \* the frames each end has not read yet
  next,     \* the message each end sends next
  inbox,    \* what diag_link_poll handed to each end's main loop
  spent,    \* frames lost, and reads and writes failed, so far
  lag,      \* ticks since each thread's last turn
  log       \* frames of its message each end put on the bus, and what
            \* diag_link_send returned in this step

vars == <<now, tx, rx, thread, chan, next, inbox, spent, lag, log>>

Message(e, k) == [i \in 1 .. Lengths[e][k] |-> <<e, k, i>>]

Init ==
  /\ now = 0
  /\ tx = [e \in Ends |-> TxStart]
  /\ rx = [e \in Ends |-> RxStart]
  /\ thread = [e \in Ends |-> [at |-> "poll", sending |-> FALSE,
                               began |-> 0, date |-> 0]]
  /\ chan = [e \in Ends |-> <<>>]
  /\ next = [e \in Ends |-> 1]
  /\ inbox = [e \in Ends |-> <<>>]
  /\ spent = [lost |-> 0, faults |-> 0]
  /\ lag = [e \in Ends |-> 0]
  /\ log = [e \in Ends |-> [put |-> 0, verdict |-> "none"]]

-----------------------------------------------------------------------------
(* The socket.                                                             *)

\* send_frame: the frame reaches the peer's queue, or the write fails.
Written(e, f) ==
  /\ chan' = [chan EXCEPT ![Peer(e)] = Append(@, f)]
  /\ UNCHANGED spent

WriteFails ==
  /\ spent.faults < MaxFaults
  /\ spent' = [spent EXCEPT !.faults = @ + 1]
  /\ UNCHANGED chan

\* A bus frame read by e: gone from its queue, an answer f sent or not.
ReadAndWritten(e, f) ==
  /\ chan' = [chan EXCEPT ![e] = Tail(@), ![Peer(e)] = Append(@, f)]
  /\ UNCHANGED spent

ReadOnly(e) ==
  /\ chan' = [chan EXCEPT ![e] = Tail(@)]
  /\ UNCHANGED spent

ReadAndFails(e) ==
  /\ spent.faults < MaxFaults
  /\ spent' = [spent EXCEPT !.faults = @ + 1]
  /\ chan' = [chan EXCEPT ![e] = Tail(@)]

-----------------------------------------------------------------------------
(* Where diag_link_poll returns to.                                        *)

Log(e, put, verdict) ==
  log' = [x \in Ends |-> IF x = e THEN [put |-> put, verdict |-> verdict]
                                  ELSE [log[x] EXCEPT !.verdict = "none"]]

Goes(e, at, sending) ==
  /\ thread' = [thread EXCEPT ![e].at = at, ![e].sending = sending,
                              ![e].began = IF sending THEN @ ELSE 0,
                              ![e].date = 0]
  /\ lag' = [lag EXCEPT ![e] = 0]

\* The wait of diag_link_send without its own limit.
NoLimit(e) == FALSE

Overdue(e) == Since(now, thread[e].began) >= SendLimit

\* A loop that only minds a transfer that has its Flow Control.
StillSendingData(c) == c.state = "sending"

StillSending(c) == c.state # "idle"

\* diag_link_poll returned r to diag_link_send; c is the segmenter then.
SendResumes(e, r, c, put) ==
  CASE r < 0 ->
         tx' = [tx EXCEPT ![e] = c] /\ Goes(e, "poll", FALSE)
           /\ Log(e, put, "failed")
    [] r >= 0 /\ Overdue(e) ->
         tx' = [tx EXCEPT ![e] = TxIdle(c)] /\ Goes(e, "poll", FALSE)
           /\ Log(e, put, "failed")
    [] r >= 0 /\ ~Overdue(e) /\ ~StillSending(c) ->
         tx' = [tx EXCEPT ![e] = c] /\ Goes(e, "poll", FALSE)
           /\ Log(e, put, "sent")
    [] r >= 0 /\ ~Overdue(e) /\ StillSending(c) ->
         tx' = [tx EXCEPT ![e] = c] /\ Goes(e, "poll", TRUE)
           /\ Log(e, put, "none")

\* It returned r to the main loop.  An error ends the server's loop
\* (ecu.c, gateway_main.c); a client reports it and goes on.
LoopResumes(e, r, c, put) ==
  /\ tx' = [tx EXCEPT ![e] = c]
  /\ Log(e, put, "none")
  /\ Goes(e, IF e = Server
             THEN CASE r < 0 -> "down" [] r = 0 -> "poll" [] r > 0 -> "reply"
             ELSE "poll", FALSE)

Resumes(e, r, c, put) ==
  IF thread[e].sending THEN SendResumes(e, r, c, put)
                       ELSE LoopResumes(e, r, c, put)

\* Into drive_tx, which keeps the date diag_link_poll read.
Drives(e, from, c, put) ==
  /\ tx' = [tx EXCEPT ![e] = c]
  /\ thread' = [thread EXCEPT ![e].at = from, ![e].date = now]
  /\ lag' = [lag EXCEPT ![e] = 0]
  /\ Log(e, put, "none")

-----------------------------------------------------------------------------
(* diag_link_poll.                                                         *)

AtPoll(e) == thread[e].at = "poll"

\* A Flow Control concerns the transfer this end is sending, if any.
ForTx(e, f) == f.kind = "FC" /\ tx[e].state # "idle"

ReadFlowControl(e) ==
  /\ AtPoll(e) /\ chan[e] # <<>> /\ ForTx(e, Head(chan[e]))
  /\ LET r == TxOnFlowControl(tx[e], Head(chan[e]), now) IN
     \/ /\ r.event = "send"
        /\ ReadAndWritten(e, r.frame)
        /\ Drives(e, "driveAnswer", r.ctx, log[e].put + 1)
     \/ /\ r.event = "send"
        /\ ReadAndFails(e)
        /\ Resumes(e, -1, r.ctx, log[e].put)
     \/ /\ r.event # "send"
        /\ ReadOnly(e)
        /\ Resumes(e, IF r.event = "aborted" THEN -1 ELSE 0, r.ctx,
                   log[e].put)
  /\ UNCHANGED <<now, rx, next, inbox>>

\* A reassembly given up counted as an error of the link.
ReturnsStrictly(event) ==
  CASE event = "ready" -> 1 [] event = "aborted" -> -1 [] OTHER -> 0

\* What handle_frame returns for an outcome of the reassembler: a transfer
\* given up is not an error.
Returns(event) == IF event = "ready" THEN 1 ELSE 0

FlowControlFrame(status) ==
  [kind |-> "FC", status |-> status, bs |-> 0, stmin |-> 0]

\* A complete message goes to the main loop; diag_link_send drops it.
ReadFrame(e) ==
  /\ AtPoll(e) /\ chan[e] # <<>> /\ ~ForTx(e, Head(chan[e]))
  /\ LET r == RxProcess(rx[e], Head(chan[e]), now) IN
     /\ rx' = [rx EXCEPT ![e] = r.ctx]
     /\ \/ /\ r.out.event = "flowControl"
           /\ ReadAndWritten(e, FlowControlFrame(r.out.fc))
           /\ Resumes(e, 0, tx[e], log[e].put)
           /\ UNCHANGED inbox
        \/ /\ r.out.event = "flowControl"
           /\ ReadAndFails(e)
           /\ Resumes(e, -1, tx[e], log[e].put)
           /\ UNCHANGED inbox
        \/ /\ r.out.event = "ready"
           /\ ReadOnly(e)
           /\ Resumes(e, Returns(r.out.event), tx[e], log[e].put)
           /\ inbox' = IF thread[e].sending THEN inbox
                       ELSE [inbox EXCEPT ![e] = Append(@, r.out.message)]
        \/ /\ r.out.event \in {"none", "aborted"}
           /\ ReadOnly(e)
           /\ Resumes(e, Returns(r.out.event), tx[e], log[e].put)
           /\ UNCHANGED inbox
  /\ UNCHANGED <<now, next>>

\* The read gave no data frame: it timed out, or another node's error or RTR
\* frame came first.  The only moment the timers are looked at.
ReadTimeout(e) ==
  /\ AtPoll(e) /\ (chan[e] = <<>> \/ ForeignTraffic)
  /\ rx' = [rx EXCEPT ![e] = RxPoll(@, now).ctx]
  /\ IF tx[e].state = "idle" THEN Resumes(e, 0, tx[e], log[e].put)
                             ELSE Drives(e, "driveTimeout", tx[e], log[e].put)
  /\ UNCHANGED <<now, next, inbox, chan, spent>>

\* Another node's frame came first: nothing is done, no timer looked at.
ReadForeign(e) ==
  /\ ForeignTraffic /\ AtPoll(e)
  /\ Resumes(e, 0, tx[e], log[e].put)
  /\ UNCHANGED <<now, rx, next, inbox, chan, spent>>

\* The read itself failed: nothing is done and no timer looked at.
ReadFails(e) ==
  /\ AtPoll(e) /\ spent.faults < MaxFaults
  /\ spent' = [spent EXCEPT !.faults = @ + 1]
  /\ Resumes(e, -1, tx[e], log[e].put)
  /\ UNCHANGED <<now, rx, next, inbox, chan>>

\* One turn of drive_tx.  diag_link_poll ignores what it returns after a
\* read timeout.
Driven(e, r) == IF thread[e].at = "driveTimeout" THEN 0 ELSE r

Drive(e) ==
  /\ thread[e].at \in {"driveAnswer", "driveTimeout"}
  /\ LET r == TxPoll(tx[e], thread[e].date) IN
     \/ /\ r.event = "send"
        /\ Written(e, r.frame)
        /\ tx' = [tx EXCEPT ![e] = r.ctx]
        /\ lag' = [lag EXCEPT ![e] = 0]
        /\ Log(e, log[e].put + 1, "none")
        /\ UNCHANGED thread
     \/ /\ r.event = "send"
        /\ WriteFails
        /\ Resumes(e, Driven(e, -1), r.ctx, log[e].put)
     \/ /\ r.event # "send"
        /\ Resumes(e, Driven(e, IF r.event = "aborted" THEN -1 ELSE 0),
                   r.ctx, log[e].put)
        /\ UNCHANGED <<chan, spent>>
  /\ UNCHANGED <<now, rx, next, inbox>>

-----------------------------------------------------------------------------
(* diag_link_send: the server's answer, or a client's next request.        *)

MayBegin(e) ==
  /\ next[e] <= Len(Lengths[e])
  /\ IF e = Server THEN thread[e].at = "reply"
                   ELSE AtPoll(e) /\ ~thread[e].sending

SendBegins(e) ==
  /\ MayBegin(e)
  /\ next' = [next EXCEPT ![e] = @ + 1]
  /\ LET r == TxBegin(tx[e], Message(e, next[e]), now) IN
     /\ tx' = [tx EXCEPT ![e] = r.ctx]
     /\ \/ /\ r.event = "send"
           /\ Written(e, r.frame)
           /\ Log(e, 1, IF r.ctx.state = "idle" THEN "sent" ELSE "none")
           /\ thread' = [thread EXCEPT
                ![e] = [at |-> "poll", sending |-> r.ctx.state # "idle",
                        began |-> IF r.ctx.state = "idle" THEN 0 ELSE now,
                        date |-> 0]]
        \/ /\ \/ r.event = "send" /\ WriteFails
              \/ r.event \in {"busy", "refused"} /\ UNCHANGED <<chan, spent>>
           /\ Log(e, 0, "failed")
           /\ thread' = [thread EXCEPT ![e].at = "poll"]
  /\ lag' = [lag EXCEPT ![e] = 0]
  /\ UNCHANGED <<now, rx, inbox>>

\* The server has nothing to answer (UDS_NO_RESPONSE).
NoAnswer ==
  /\ thread[Server].at = "reply"
  /\ thread' = [thread EXCEPT ![Server].at = "poll"]
  /\ lag' = [lag EXCEPT ![Server] = 0]
  /\ Log(Server, log[Server].put, "none")
  /\ UNCHANGED <<now, tx, rx, chan, next, inbox, spent>>

-----------------------------------------------------------------------------
(* The clock, the bus and the specification.                               *)

Hush == log' = [e \in Ends |-> [log[e] EXCEPT !.verdict = "none"]]

Tick ==
  /\ \A e \in Ends : thread[e].at = "down" \/ lag[e] < MaxLag
  /\ now' = After(now, 1)
  /\ lag' = [e \in Ends |-> IF thread[e].at = "down" THEN 0 ELSE lag[e] + 1]
  /\ Hush
  /\ UNCHANGED <<tx, rx, thread, chan, next, inbox, spent>>

\* The bus, or a full receive queue, loses one frame on its way to e.
Lose(e) ==
  /\ spent.lost < MaxLost
  /\ \E i \in 1 .. Len(chan[e]) :
       chan' = [chan EXCEPT ![e] = SubSeq(@, 1, i - 1)
                                     \o SubSeq(@, i + 1, Len(@))]
  /\ spent' = [spent EXCEPT !.lost = @ + 1]
  /\ Hush
  /\ UNCHANGED <<now, tx, rx, thread, next, inbox, lag>>

\* A receiver of another make asks e for more time (FlowStatus Wait).
AskToWait(e) ==
  /\ PeerWaits /\ tx[e].state = "waitFC" /\ chan[e] = <<>>
  /\ chan' = [chan EXCEPT ![e] = <<FlowControlFrame("wait")>>]
  /\ Hush
  /\ UNCHANGED <<now, tx, rx, thread, next, inbox, spent, lag>>

Turn(e) ==
  \/ ReadFlowControl(e) \/ ReadFrame(e) \/ ReadTimeout(e) \/ ReadForeign(e)
  \/ ReadFails(e) \/ Drive(e) \/ SendBegins(e)
  \/ e = Server /\ NoAnswer

Next == Tick \/ \E e \in Ends : Turn(e) \/ Lose(e) \/ AskToWait(e)

Spec == Init /\ [][Next]_vars

\* A thread that is not down keeps running, and time passes.
FairSpec == Spec /\ WF_vars(Tick) /\ \A e \in Ends : WF_vars(Turn(e))

-----------------------------------------------------------------------------
(* Properties.                                                             *)

TypeOK ==
  /\ now \in Time
  /\ tx \in [Ends -> TxContext]
  /\ rx \in [Ends -> RxContext]
  /\ thread \in [Ends -> [at : {"poll", "driveAnswer", "driveTimeout",
                                "reply", "down"},
                          sending : BOOLEAN, began : Time, date : Time]]
  /\ \A e \in Ends : \A i \in 1 .. Len(chan[e]) : chan[e][i] \in Frame

\* As long as no read and no write of a socket has failed, whatever the bus
\* loses and the peer sends, both ends stay ready.  No transfer is under way
\* between two calls of diag_link_send: the next one is never refused as
\* busy, and the main loop never carries on a transmission that was reported
\* as over.  And (AVAIL-2) the server's main loop does not come to its end.
LinkStaysReady ==
  spent.faults = 0 =>
    /\ \A e \in Ends :
         AtPoll(e) /\ ~thread[e].sending => tx[e].state = "idle"
    /\ thread[Server].at # "down"

\* diag_link_send always returns, whatever the peer does.
SendReturns ==
  \A e \in Ends : thread[e].sending ~> ~thread[e].sending

-----------------------------------------------------------------------------
(* What the documentation says and the code does not do.                   *)

FramesOf(n) == IF n <= SFMax THEN 1
               ELSE 1 + (n - FFData + CFData - 1) \div CFData

\* TIME-2 (invariants.h): "a late frame resumed an expired transfer".  No
\* frame advances a transfer that has heard nothing for N_Cr and as long
\* again as its thread may take to notice.
NoStaleResume ==
  [][\A e \in Ends :
       rx[e].state = "wait" /\ Since(now, rx[e].last) >= N_Cr + MaxLag
         => rx'[e].received <= rx[e].received]_vars

\* XL-4 (invariants.h): "two interleaved transfers were delivered to UDS".
\* All bytes of a message handed over come from one message.
NeverInterleaved ==
  \A e \in Ends : \A i \in 1 .. Len(inbox[e]) :
    \A j \in 1 .. Len(inbox[e][i]) :
      inbox[e][i][j][2] = inbox[e][i][1][2]

\* AVAIL-2 (invariants.h): "the ECU was left unable to serve diagnostics".
\* The server's main loop never ends.
AlwaysServes == thread[Server].at # "down"

\* diag_link.h, on diag_link_send: it returns "0 message transmis, -1
\* echec".  When it returns 0 every frame of the message is on the bus.
SentMeansTransmitted ==
  [][\A e \in Ends :
       log'[e].verdict = "sent" =>
         log'[e].put = FramesOf(Lengths[e][next'[e] - 1])]_vars
=============================================================================
