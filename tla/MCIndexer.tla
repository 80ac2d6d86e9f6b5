------------------------------ MODULE MCIndexer ------------------------------
(* Small instances of Indexer.                                             *)
EXTENDS Indexer

\* A garbage message between two events, and a poison message at the end.
GarbageInstance == {<<1, 1>>}
PoisonInstance  == {<<1, 3>>}
===============================================================================
