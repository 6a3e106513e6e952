------------------------------ MODULE MCGateway -------------------------------
(***************************************************************************)
(* Two generator states, drawing two seeds that are not null (the shadow   *)
(* and the ECU start anywhere), one key for each, and the requests that    *)
(* move sessions and authority.                                            *)
(***************************************************************************)
EXTENDS Gateway

MCGenStates == {1, 2}
MCSeeds == 0 .. 2
MCKeys == {"k1", "k2"}
MCStep == [s \in MCGenStates |-> 3 - s]
MCSeedOf == [s \in MCGenStates |-> s]
MCKeyOf == [s \in MCSeeds |-> IF s = 1 THEN "k1" ELSE "k2"]

Well(sids, subs, keys) ==
  [sid : sids, size : {"exact"}, sub : subs, suppress : {FALSE}, key : keys]

MCRequests ==
  Well({"SessionControl"}, {1, 3}, {"k1"})
  \cup Well({"SecurityAccess"}, {1}, {"k1"})
  \cup Well({"SecurityAccess"}, {2}, MCKeys)
  \cup Well({"ECUReset"}, {1}, {"k1"})
  \cup [sid : {"TesterPresent"}, size : {"exact"}, sub : {0},
        suppress : {TRUE}, key : {"k1"}]

\* Where messages take time: a session, a seed, a key that is right for one
\* seed and wrong for the other, and a request that is never answered.
MCFewRequests ==
  Well({"SessionControl"}, {3}, {"k1"})
  \cup Well({"SecurityAccess"}, {1, 2}, {"k1"})
  \cup [sid : {"TesterPresent"}, size : {"exact"}, sub : {0},
        suppress : {TRUE}, key : {"k1"}]

\* Where the coming and going of messages matters, and no key is sent.
MCPlainRequests == {req \in MCFewRequests : ~SendsKey(req)}
=============================================================================
