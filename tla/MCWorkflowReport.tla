--------------------------- MODULE MCWorkflowReport ---------------------------
(* The trees of MCWorkflowTasks with the runner listening.  *)
EXTENDS WorkflowReport, MCWorkflowTasks
=============================================================================
