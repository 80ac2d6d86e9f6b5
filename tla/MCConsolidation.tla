---------------------------- MODULE MCConsolidation ----------------------------
(* Consolidation is checked as it is: its constants are numbers.              *)
EXTENDS Consolidation
================================================================================
