------------------------------ MODULE MCLifecycle ------------------------------
(* Lifecycle.cfg: a restart that overlaps the process it replaces, and a   *)
(* further start; one request at a time per process.                       *)
EXTENDS Lifecycle
================================================================================
