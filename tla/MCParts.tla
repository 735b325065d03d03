------------------------------ MODULE MCParts -------------------------------
(***************************************************************************)
(* Parts of the server, the client and the bindings that share no state    *)
(* with one another in the model, in one run: the first state chooses the  *)
(* part, and only that part moves.                                         *)
(***************************************************************************)
EXTENDS Store, Telemetry, Logs, WpiLog, Pacing, Values, PyClient, Boundary

CONSTANTS ka, kb

VARIABLE part

HashOfChannel == (ka :> 1) @@ (kb :> 2)

BoundaryItems == {<<>>, <<7>>, <<Bad, 7>>}

Parts ==
  {"store", "telemetry", "logs", "wpilog", "pacing", "values", "python", "c"}

partsVars ==
  <<storeVars, telemetryVars, logVars, wpiVars, pacingVars, valueVars, pyVars,
    boundaryVars, part>>

PartsInit ==
  /\ part \in Parts
  /\ StoreInit /\ TelemetryInit /\ LogsInit /\ WpiInit /\ PacingInit /\ ValuesInit
  /\ PyInit /\ BoundaryInit

Still(parts) ==
  /\ "store" \in parts => UNCHANGED storeVars
  /\ "telemetry" \in parts => UNCHANGED telemetryVars
  /\ "logs" \in parts => UNCHANGED logVars
  /\ "wpilog" \in parts => UNCHANGED wpiVars
  /\ "pacing" \in parts => UNCHANGED pacingVars
  /\ "values" \in parts => UNCHANGED valueVars
  /\ "python" \in parts => UNCHANGED pyVars
  /\ "c" \in parts => UNCHANGED boundaryVars

PartsNext ==
  /\ UNCHANGED part
  /\ Still(Parts \ {part})
  /\ \/ part = "store" /\ StoreNext
     \/ part = "telemetry" /\ TelemetryNext
     \/ part = "logs" /\ LogsNext
     \/ part = "wpilog" /\ WpiNext
     \/ part = "pacing" /\ PacingNext
     \/ part = "values" /\ ValuesNext
     \/ part = "python" /\ PyNext
     \/ part = "c" /\ BoundaryNext

PartsSpec == PartsInit /\ [][PartsNext]_partsVars
=============================================================================
