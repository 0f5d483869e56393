-------------------------- MODULE MCStorageCircuit --------------------------
(***************************************************************************)
(* StorageCircuit on a short schedule: window 3, judged after 2 outcomes,  *)
(* opened above 1/2; cooldowns 1, 2, 3, 3, ...; given up after 3 failed    *)
(* probes.  Three writers overlap, so several share a probe window and     *)
(* some report late.  The horizon leaves room for the whole schedule twice.*)
(***************************************************************************)
EXTENDS StorageCircuit
=============================================================================
