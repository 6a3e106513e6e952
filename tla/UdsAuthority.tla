----------------------------- MODULE UdsAuthority -----------------------------
(***************************************************************************)
(* The server of src/uds/uds.c implements DiagnosticAuthority: the mapping *)
(* forgets the dates, the seeds, the generator and the answers, and reads  *)
(* the rung of authority off the session and the security level.           *)
(***************************************************************************)
EXTENDS UdsServer

\* The rung a context stands on.  A level unlocked in the default session
\* would be a rung the abstract specification does not have.
RungOf(c) ==
  IF c.session = "default"
  THEN IF c.security_level = "locked" THEN "none" ELSE "forbidden"
  ELSE IF c.security_level = "locked" THEN "session" ELSE "unlocked"

Authority == INSTANCE DiagnosticAuthority WITH
  MaxStrikes <- MaxAttempts,
  authority  <- RungOf(ctx),
  challenged <- ctx.seed_pending,
  strikes    <- ctx.failed_attempts,
  barred     <- ctx.locked_out

\* Whatever a client sends and whenever, the server's session, level,
\* challenge, attempts and lockout move only as the abstract authority may.
ImplementsAuthority == Authority!Spec
=============================================================================
