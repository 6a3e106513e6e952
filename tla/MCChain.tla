------------------------------- MODULE MCChain --------------------------------
(***************************************************************************)
(* Two generator states, drawing two seeds that are not null, or three,    *)
(* the third drawing the null seed (the shadow and the ECU start           *)
(* anywhere), one key for each seed and one for none, and the commands     *)
(* that move sessions and authority, one of them never answered.           *)
(***************************************************************************)
EXTENDS Chain

MCGenStates == {1, 2}
MCSeeds == 0 .. 2
MCKeys == {"k1", "k2", "bad"}
MCStep == [s \in MCGenStates |-> 3 - s]
MCSeedOf == [s \in MCGenStates |-> s]
MCKeyOf == [s \in MCSeeds |-> IF s = 1 THEN "k1" ELSE "k2"]

\* A generator that also draws the null seed.
MCNullGenStates == 0 .. 2
MCNullStep == [s \in MCNullGenStates |-> IF s = 2 THEN 0 ELSE s + 1]
MCNullSeedOf == [s \in MCNullGenStates |-> s]

\* What moves sessions and authority, and a request that is never answered.
MCCommands ==
  {Asks("SessionControl", 1), Asks("SessionControl", 3),
   Asks("SecurityAccess", 1), Asks("ECUReset", 1),
   [Asks("TesterPresent", 0) EXCEPT !.suppress = TRUE]}

MCRequests == MCCommands \cup {SendsKeyOf(s) : s \in {1, 2}}
=============================================================================
