----------------------------- MODULE MCExplorer -----------------------------
(***************************************************************************)
(* Model values for Explorer: a clock of a few ticks, a seed generator     *)
(* that runs through all its states (as the congruential generator of the  *)
(* code does) and draws the null seed on its way, keys that answer one     *)
(* seed each, and one that answers none.                                   *)
(***************************************************************************)
EXTENDS Explorer

MCGenStates == 0 .. 2
MCSeeds == 0 .. 2
MCStep == [s \in MCGenStates |-> (s + 1) % 3]
MCSeedOf == [s \in MCGenStates |-> (2 - s)]
MCKeyOf == [s \in MCSeeds |-> s + 101]
MCKeys == {0, 101, 102, 103, 222}

\* For each service: well-formed and malformed lengths, the sub-functions it
\* accepts and one it refuses, the suppress bit where it has a say, one key
\* per seed.  The key field is only looked at by SecurityAccess.
MCRequests ==
  [sid : {"SessionControl"}, size : {"short", "exact"}, sub : 1 .. 3,
   suppress : BOOLEAN, key : {0}]
  \cup [sid : {"TesterPresent"}, size : {"exact", "long"}, sub : {0, 1},
        suppress : BOOLEAN, key : {0}]
  \cup [sid : {"ReadData", "ClearDTC"}, size : {"short", "exact"},
        sub : {0}, suppress : {FALSE}, key : {0}]
  \cup [sid : {"ReadDTC"}, size : {"short", "exact", "long"}, sub : {1, 2},
        suppress : {FALSE}, key : {0}]
  \cup [sid : {"ECUReset"}, size : {"exact", "long"}, sub : {1, 2},
        suppress : BOOLEAN, key : {0}]
  \cup [sid : {"SecurityAccess"}, size : {"short", "exact", "long"},
        sub : {1, 3}, suppress : {FALSE}, key : {0}]
  \cup [sid : {"SecurityAccess"}, size : {"exact", "long"}, sub : {2},
        suppress : {FALSE}, key : {101, 102, 103}]
  \cup [sid : {"empty", "unknown"}, size : {"short"}, sub : {0},
        suppress : {FALSE}, key : {0}]
=============================================================================
