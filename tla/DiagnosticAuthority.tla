------------------------- MODULE DiagnosticAuthority -------------------------
(***************************************************************************)
(* What the access control of the server promises, without requests,       *)
(* clocks, seeds or answers: who may do what, and how authority is gained  *)
(* and lost.                                                               *)
(*                                                                         *)
(* Authority climbs one rung at a time (nobody, a session, the unlocked    *)
(* level), each rung by an act of its own, and falls to the bottom in one  *)
(* go.  A challenge is good for one judgement.  After MaxStrikes wrong     *)
(* answers the lockout bars every further challenge until it is lifted.    *)
(***************************************************************************)
EXTENDS Integers

CONSTANT MaxStrikes   \* the wrong answers a lockout takes, at least one

VARIABLES
  authority,   \* the rung reached
  challenged,  \* a challenge awaits its answer
  strikes,     \* wrong answers since the last right one or the last lockout
  barred       \* locked out

avars == <<authority, challenged, strikes, barred>>

Init ==
  /\ authority = "none" /\ ~challenged
  /\ strikes = 0 /\ ~barred

\* Time may close the session and lift the bar before, or instead of, an
\* act.  a, c, s and b are what is left of the four variables.
Settled(a, c, s, b) ==
  /\ \/ a = authority /\ c = challenged
     \/ a = "none" /\ ~c
  /\ \/ s = strikes /\ b = barred
     \/ barred /\ s = 0 /\ ~b

Become(a, c, s, b) ==
  authority' = a /\ challenged' = c /\ strikes' = s /\ barred' = b

\* The acts, on what time has left.  The first one is no act at all.
Act(a, c, s, b) ==
  \/ Become(a, c, s, b)
  \/ a = "none" /\ Become("session", FALSE, s, b)            \* open
  \/ Become("none", FALSE, s, b)                             \* close
  \/ a = "session" /\ ~b /\ Become(a, TRUE, s, b)            \* challenge
  \/ a = "session" /\ c /\ ~b                                \* right answer
     /\ Become("unlocked", FALSE, 0, b)
  \/ a = "session" /\ c /\ ~b                                \* wrong answer
     /\ Become(a, FALSE, s + 1, s + 1 = MaxStrikes)

Next ==
  \E a \in {"none", "session", "unlocked"}, c \in BOOLEAN,
     s \in 0 .. MaxStrikes, b \in BOOLEAN :
    Settled(a, c, s, b) /\ Act(a, c, s, b)

Spec == Init /\ [][Next]_avars
=============================================================================
