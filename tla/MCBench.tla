------------------------------- MODULE MCBench --------------------------------
(***************************************************************************)
(* Two seeds that are not null, drawn by the shadow and by the ECU, a key  *)
(* for each and one that fits none, as 0xDEADBEEF does.                    *)
(***************************************************************************)
EXTENDS Bench

MCGenStates == {1, 2}
MCSeeds == 0 .. 2
MCKeys == {"k0", "k1", "k2", "wrong"}
MCStep == [s \in MCGenStates |-> 3 - s]
MCSeedOf == [s \in MCGenStates |-> s]
MCKeyOf == [s \in MCSeeds |-> IF s = 0 THEN "k0" ELSE IF s = 1 THEN "k1" ELSE "k2"]
=============================================================================
