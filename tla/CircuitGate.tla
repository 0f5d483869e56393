---------------------------- MODULE CircuitGate ----------------------------
(***************************************************************************)
(* What the storage circuit promises its callers: a gate that changes only *)
(* by the rules of CircuitRules.  StorageCircuit is shown to implement it. *)
(***************************************************************************)
EXTENDS CircuitRules

VARIABLE gate

GateInit == gate = NewCircuit

GateSuccess == gate' = AfterSuccess(gate)

GateFailure == gate' = AfterFailure(gate)

GateCooldown == gate' = AfterCooldown(gate)

GateNext == GateSuccess \/ GateFailure \/ GateCooldown

GateSpec == GateInit /\ [][GateNext]_gate
=============================================================================
