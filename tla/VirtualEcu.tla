------------------------------ MODULE VirtualEcu ------------------------------
(***************************************************************************)
(* The virtual ECU's application (src/ecu/ecu_data.c) under its UDS        *)
(* server, driven by the main loop of src/ecu/ecu.c: one step of the       *)
(* simulation for every request, then the request, whose handler may call  *)
(* back into the fault memory or the reset, and a look at the deadlines on *)
(* every receive tick without one.  The link is that of DiagLink; here     *)
(* whole requests arrive.                                                  *)
(*                                                                         *)
(* Of the simulated quantities only the battery matters to a branch, and   *)
(* of it only whether it is below the threshold of the undervoltage fault, *)
(* a function of the tick counter.                                         *)
(***************************************************************************)
EXTENDS UdsTiming

CONSTANTS
  TickRange,    \* the tick counter counts modulo 2^32
  LowBattery,   \* the ticks at which the battery is below the threshold
  ResetRange    \* the reset counter counts modulo 2^8

ASSUME EcuAssumption ==
  /\ TickRange \in Nat \ {0} /\ LowBattery \subseteq 0 .. TickRange - 1
  /\ ResetRange \in Nat \ {0}

VARIABLE data   \* ecu_data_t

evars == <<tvars, data>>

Faults == {"temperature", "communication", "undervoltage", "airflow"}

\* A fault is inactive, stored, or stored and failing its test.
Data ==
  [tick   : 0 .. TickRange - 1,
   faults : [Faults -> {"clear", "confirmed", "failing"}],
   resets : 0 .. ResetRange - 1]

\* ecu_data_init: two faults are there from the start.
PowerUp ==
  [tick   |-> 0,
   faults |-> [f \in Faults |-> CASE f = "temperature" -> "failing"
                                  [] f = "communication" -> "confirmed"
                                  [] OTHER -> "clear"],
   resets |-> 0]

\* ecu_data_tick: a low battery stores its fault, unless it is there.
Ticked(d) ==
  [d EXCEPT !.tick = (@ + 1) % TickRange,
            !.faults["undervoltage"] =
              IF (d.tick + 1) % TickRange \in LowBattery /\ @ = "clear"
              THEN "failing" ELSE @]

\* ecu_data_reset: as at power-up, but for the count of resets.
Restarted(d) == [PowerUp EXCEPT !.resets = (d.resets + 1) % ResetRange]

\* What ClearDiagnosticInformation may name; "unknown" is no fault's code.
Groups == Faults \cup {"all", "unknown"}

GroupsOf(req) == IF req.sid = "ClearDTC" THEN Groups ELSE {"all"}

\* Whether the data identifier asked for is one ecu_data_read_did knows.
KnownOf(req) == IF req.sid = "ReadData" THEN BOOLEAN ELSE {TRUE}

\* ecu_data_clear_dtc on a group it knows.
Cleared(d, group) ==
  [d EXCEPT !.faults = [f \in Faults |->
     IF group \in {f, "all"} THEN "clear" ELSE @[f]]]

\* What the callbacks return.  The fault memory always fits the response.
Outcome(req, group, known) ==
  IF \/ req.sid = "ClearDTC" /\ group = "unknown"
     \/ req.sid = "ReadData" /\ ~known
  THEN "notFound" ELSE "ok"

\* A server that calls the application before it applies its policy.
CalledUnchecked(req) ==
  /\ req.sid \in {"ClearDTC", "ECUReset"}
  /\ req.size = "exact"
  /\ req.sid = "ECUReset" => req.sub \in {1, 3}

\* The request gets as far as a callback that changes the application.
Called(req) ==
  /\ req.sid \in {"ClearDTC", "ECUReset"}
  /\ Allows(req.sid)
  /\ req.size = "exact"
  /\ req.sid = "ECUReset" => req.sub \in {1, 3}

\* What that callback does to the application.
Effect(d, req, group) ==
  IF req.sid = "ECUReset" THEN Restarted(d) ELSE Cleared(d, group)

-----------------------------------------------------------------------------
EcuInit == TInit /\ data = PowerUp

\* A request is read from the link (never an empty one) and handled.
HandleOne ==
  \E req \in ClientRequests :
  \E group \in GroupsOf(req), known \in KnownOf(req) :
    /\ req.sid # "empty"
    /\ TCall(req, Outcome(req, group, known))
    /\ data' = IF Called(req) THEN Effect(Ticked(data), req, group)
                              ELSE Ticked(data)

\* The bus is silent: only the deadlines move on.
SilentTick == TPoll /\ UNCHANGED data

TimePasses == TTick /\ UNCHANGED data

EcuNext == HandleOne \/ SilentTick \/ TimePasses

\* The loop never stops: diag_link_poll returns within its receive timeout,
\* and what follows is a silent tick or a request.
EcuSpec ==
  /\ EcuInit /\ [][EcuNext]_evars
  /\ WF_evars(TimePasses) /\ WF_evars(SilentTick \/ HandleOne)

-----------------------------------------------------------------------------
\* Every field of the application keeps the range of its C type, and so do
\* the server's and the history's.
EcuTypeOK == TTypeOK /\ data \in Data

\* SEC-1 (no unauthorised effect).  A request that is refused, on whichever
\* ground and by whichever layer, leaves the application as a request for
\* nothing would: one tick older.  And a stored fault disappears only at the
\* request of a client in an extended session that had really been used
\* within S3: by a clear answered positively or by a reset, and by a reset
\* only if the client held the unlocked level.
ApplicationChangesOnPurpose ==
  /\ [][reply'.kind = "negative" => data' = Ticked(data)]_evars
  /\ [][\A f \in Faults :
          data.faults[f] # "clear" /\ data'.faults[f] = "clear" =>
            /\ ctx.session = "extended" /\ idle < S3
            /\ reply'.kind = "positive"
            /\ \/ reply'.sid = "ClearDTC"
               \/ /\ reply'.sid = "ECUReset"
                  /\ ctx.security_level = "level1"]_evars
=============================================================================
