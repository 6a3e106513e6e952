----------------------------- MODULE MCDiagLink ------------------------------
(***************************************************************************)
(* Frames of three bytes: a message of two fits a Single Frame, one of     *)
(* four takes a First Frame and two Consecutive Frames, the last of them   *)
(* padded.  The bytes are named by their message and their place in it.    *)
(***************************************************************************)
EXTENDS LinkTransfer

MCPad == <<"pad", 0, 0>>
MCByte == {MCPad} \cup ({"client", "server"} \X (1 .. 3) \X (1 .. 6))

\* Two long requests, and a short answer for one of them.
MCLongRequests == [e \in Ends |-> IF e = Client THEN <<4, 4>> ELSE <<2>>]

\* One long request, and nothing to answer.
MCOneRequest == [e \in Ends |-> IF e = Client THEN <<4>> ELSE <<>>]

\* Two long requests, and nothing to answer.
MCRequests == [e \in Ends |-> IF e = Client THEN <<4, 4>> ELSE <<>>]
=============================================================================
