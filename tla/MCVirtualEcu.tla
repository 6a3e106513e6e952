----------------------------- MODULE MCVirtualEcu -----------------------------
(***************************************************************************)
(* One seed that is not null, one right key and one wrong one; the battery *)
(* is low at the first tick and at the one that wraps, and not between.    *)
(***************************************************************************)
EXTENDS VirtualEcu

MCKeyOf == [s \in 0 .. 1 |-> IF s = 1 THEN "right" ELSE "none"]
MCStep == [s \in {1} |-> 1]
MCLow == {1}

\* Requests of the right length, some of the wrong one.
Well(sids, subs, keys) ==
  [sid : sids, size : {"exact"}, sub : subs, suppress : {FALSE}, key : keys]

MCRequests ==
  Well({"SessionControl"}, {1, 3}, {"right"})
  \cup Well({"SecurityAccess"}, {1}, {"right"})
  \cup Well({"SecurityAccess"}, {2}, {"right", "wrong"})
  \cup Well({"ECUReset"}, {1, 2}, {"right"})
  \cup Well({"ReadData", "ReadDTC", "ClearDTC"}, {2}, {"right"})
  \cup [sid : {"ClearDTC", "ECUReset"}, size : {"long"}, sub : {1},
        suppress : {TRUE}, key : {"right"}]
=============================================================================
