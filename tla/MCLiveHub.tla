------------------------------ MODULE MCLiveHub ------------------------------
(* Small instances of LiveHub.                                             *)
EXTENDS LiveHub
===============================================================================
