------------------------------- MODULE MCDemux -------------------------------
(* Small instances of Demux, with the three topics of demux.py:33-37.      *)
EXTENDS Demux

TopicsInstance == <<"index", "analytics", "vandalism">>

\* Two events, and an undecodable message whose commit passes both.
GarbageInstance == {<<1, 2>>}
===============================================================================
