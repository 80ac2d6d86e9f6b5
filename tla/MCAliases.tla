------------------------------ MODULE MCAliases ------------------------------
(* Aliases is checked as it is: its constants are numbers.                 *)
EXTENDS Aliases
===============================================================================
