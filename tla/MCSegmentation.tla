--------------------------- MODULE MCSegmentation ----------------------------
(***************************************************************************)
(* Frames of four bytes: one payload that fits a Single Frame, one that    *)
(* ends on a frame boundary, one that needs padding and wraps the sequence *)
(* number, one too long, and the empty one.                                *)
(***************************************************************************)
EXTENDS Segmentation

MCByte == 0 .. 13
MCPad == 0

Counting(n) == [i \in 1 .. n |-> i]

MCMessages == {Counting(n) : n \in {0, 3, 5, 12, 13}}

MCControls ==
  [kind : {"FC"}, status : {"continue"}, bs : {0, 1, 2}, stmin : {0, 2}]
  \cup [kind : {"FC"}, status : {"wait", "overflow", "malformed"},
        bs : {0}, stmin : {0}]
=============================================================================
