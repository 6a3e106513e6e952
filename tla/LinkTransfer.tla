---------------------------- MODULE LinkTransfer -----------------------------
(***************************************************************************)
(* The diagnostic link implements the transfer of whole messages.  Both    *)
(* abstract variables are variables of the link.                           *)
(***************************************************************************)
EXTENDS DiagLink

Abstract == INSTANCE Transfer

\* Every step of the link sends a message, delivers one that was sent whole
\* and in its turn, or is invisible to the two users.
ImplementsTransfer == Abstract!Spec
=============================================================================
