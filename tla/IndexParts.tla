----------------------------- MODULE IndexParts -----------------------------
(***************************************************************************)
(* The parts an index is made of that share no state while they run: its    *)
(* files (IndexLifecycle), its columns (Columns), the rotation of its codes *)
(* (Rotation), the routing to its clusters (CoarseRouting) and the scan of  *)
(* the codes of one (FastScan).  A behaviour is one of any of them; the     *)
(* others stay as they start.                                               *)
(***************************************************************************)
EXTENDS IndexLifecycle, Columns, Rotation, CoarseRouting, FastScan

CONSTANT Parts  \* which of them an instance is about

ASSUME PartsAssumption ==
  Parts \subseteq {"files", "columns", "rotation", "routing", "codes"}

VARIABLE part

partsVars ==
  <<part, lifecycleVars, columnsVars, rotationVars, routingVars, fastScanVars>>

(* A part that does not run starts in one way only. *)
Idle ==
  /\ part # "rotation" => rotation.matrix.dim = CHOOSE dim \in Dims : TRUE
  /\ part # "routing" => requested_metric = CHOOSE m \in RoutingMetrics : TRUE
  /\ part # "codes" => lut_per_iter = CHOOSE n \in LutPerIters : TRUE

PartsInit ==
  /\ part \in Parts
  /\ Init /\ ColumnsInit /\ RotationInit /\ RoutingInit /\ FastScanInit
  /\ Idle

FilesStep ==
  /\ part = "files" /\ Next
  /\ UNCHANGED <<part, columnsVars, rotationVars, routingVars, fastScanVars>>

ColumnsStep ==
  /\ part = "columns" /\ ColumnsNext
  /\ UNCHANGED <<part, lifecycleVars, rotationVars, routingVars, fastScanVars>>

RotationStep ==
  /\ part = "rotation" /\ RotationNext
  /\ UNCHANGED <<part, lifecycleVars, columnsVars, routingVars, fastScanVars>>

RoutingStep ==
  /\ part = "routing" /\ RoutingNext
  /\ UNCHANGED <<part, lifecycleVars, columnsVars, rotationVars, fastScanVars>>

CodesStep ==
  /\ part = "codes" /\ FastScanNext
  /\ UNCHANGED <<part, lifecycleVars, columnsVars, rotationVars, routingVars>>

PartsNext == FilesStep \/ ColumnsStep \/ RotationStep \/ RoutingStep \/ CodesStep

PartsSpec == PartsInit /\ [][PartsNext]_partsVars
=============================================================================
