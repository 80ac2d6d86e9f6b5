----------------------------- MODULE MCAnalytics -----------------------------
(* Small instances of Analytics.                                           *)
EXTENDS Analytics

\* Two partitions, a garbage message in the middle of the first and a poison
\* message at the end of the second.
GarbageInstance == {<<1, 1>>}
PoisonInstance  == {<<2, 1>>}
===============================================================================
