------------------------------ MODULE Transfer -------------------------------
(***************************************************************************)
(* What a diagnostic link promises its two users: messages arrive whole,   *)
(* in the order they were sent, each at most once.  A message may be lost  *)
(* (the bus, a timer, or a receiver busy sending), never changed, mixed    *)
(* with another, or delivered twice.                                       *)
(***************************************************************************)
EXTENDS Integers, Sequences

CONSTANTS
  Ends,             \* the two users
  Peer(_),          \* the other one
  Message(_, _)     \* the k-th message of a user

VARIABLES
  next,    \* the message each user sends next
  inbox    \* what each user has been handed

vars == <<next, inbox>>

\* m has been handed to e.
Received(e, m) == \E i \in 1 .. Len(inbox[e]) : inbox[e][i] = m

Init ==
  /\ next = [e \in Ends |-> 1]
  /\ inbox = [e \in Ends |-> <<>>]

Send(e) ==
  /\ next' = [next EXCEPT ![e] = @ + 1]
  /\ UNCHANGED inbox

\* Message k of the peer, already sent, later than any handed over before.
Deliver(e, k) ==
  /\ k < next[Peer(e)]
  /\ \A j \in k .. next[Peer(e)] - 1 : ~Received(e, Message(Peer(e), j))
  /\ inbox' = [inbox EXCEPT ![e] = Append(@, Message(Peer(e), k))]
  /\ UNCHANGED next

Next ==
  \E e \in Ends :
    \/ Send(e)
    \/ \E k \in 1 .. next[Peer(e)] - 1 : Deliver(e, k)

Spec == Init /\ [][Next]_vars
=============================================================================
