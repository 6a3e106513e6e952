---------------------------- MODULE MCReassembly -----------------------------
(***************************************************************************)
(* Frames of four bytes, messages of at most eight, sequence numbers       *)
(* modulo three: a transfer of one-byte frames wraps them twice.           *)
(***************************************************************************)
EXTENDS Reassembly

MCByte == {"a", "b", "c", "d", "e", "pad"}

\* Valid, truncated, empty and over-long Single Frames; First Frames below
\* the minimum, at both ends of the range, beyond it, and with no data;
\* Consecutive Frames full, short and empty under every sequence number.
MCTraffic ==
  [kind : {"SF"}, len : {0, 2, 4}, data : {<<"a", "b", "c">>, <<"a">>}]
  \cup [kind : {"FF"}, len : {0, 3, 4, 8, 9},
        data : {<<>>, <<"a">>, <<"a", "b">>}]
  \cup [kind : {"CF"}, sn : 0 .. SnRange - 1,
        data : {<<>>, <<"c">>, <<"c", "d", "e">>}]
  \cup [kind : {"FC"}, status : {"continue"}, bs : {0}, stmin : {0}]
  \cup [kind : {"other", "empty"}]

\* For the timers: one transfer's frames and one that belongs to nobody.
MCTimingTraffic ==
  [kind : {"FF"}, len : {6}, data : {<<"a", "b">>}]
  \cup [kind : {"CF"}, sn : 0 .. SnRange - 1, data : {<<"c", "d", "e">>}]
  \cup [kind : {"other", "empty"}]
=============================================================================
