----------------------------- MODULE MCUdsTiming -----------------------------
(***************************************************************************)
(* Model values for UdsTiming: a two-state seed generator, right and wrong *)
(* keys, and the well-formed requests that move the deadlines.             *)
(***************************************************************************)
EXTENDS UdsTiming

MCGenStates == {0, 1}
MCSeeds == {0, 1}
MCKeys == {"k0", "k1"}
MCStep == [s \in MCGenStates |-> 1 - s]
MCSeedOf == [s \in MCGenStates |-> s]
MCKeyOf == [s \in MCSeeds |-> IF s = 0 THEN "k0" ELSE "k1"]

\* A request admitted in any session, one refused in the default session,
\* one refused while locked (with and without the suppress bit), and one no
\* server knows.
MCRequests ==
  [sid : {"SessionControl"}, size : {"exact"}, sub : {1, 3},
   suppress : {FALSE}, key : {"k0"}]
  \cup [sid : {"SecurityAccess"}, size : {"exact"}, sub : {1},
        suppress : {FALSE}, key : {"k0"}]
  \cup [sid : {"SecurityAccess"}, size : {"exact"}, sub : {2},
        suppress : {FALSE}, key : MCKeys]
  \cup [sid : {"ECUReset"}, size : {"exact"}, sub : {1},
        suppress : BOOLEAN, key : {"k0"}]
  \cup [sid : {"TesterPresent"}, size : {"exact"}, sub : {0},
        suppress : {FALSE}, key : {"k0"}]
  \cup [sid : {"unknown"}, size : {"short"}, sub : {0},
        suppress : {FALSE}, key : {"k0"}]
=============================================================================
