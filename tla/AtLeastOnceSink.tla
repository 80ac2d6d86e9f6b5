--------------------------- MODULE AtLeastOnceSink ---------------------------
(***************************************************************************)
(* What a sink of the pipeline promises (README.md:89-100): it stores      *)
(* events and only then commits their offsets, so that a restart from the  *)
(* committed offsets replays whatever is not stored.                       *)
(*                                                                         *)
(* `base` is the offset the group began at.  A group without a committed   *)
(* offset begins at the log end (auto_offset_reset="latest"); what lies    *)
(* before is not the sink's.  Garbage messages do not decode and are never *)
(* stored.  A sink with Overtaking commits one as soon as it is read, past *)
(* events that still wait in its batch: an event with a garbage message    *)
(* between it and the committed offset is outside its promise (Hidden).    *)
(***************************************************************************)
EXTENDS KafkaGroup, FiniteSets

CONSTANTS Partitions, MaxOffset, Garbage, Overtaking

VARIABLES end, base, committed, stored

sinkVars == <<end, base, committed, stored>>

Message == Partitions \X (0 .. MaxOffset - 1)

\* A garbage message lies after offset o and before the committed offset c.
Hidden(p, o, c) ==
    Overtaking /\ \E u \in (o + 1) .. (c - 1) : <<p, u>> \in Garbage

\* Offset c of p may be committed: all that precedes it is accounted for.
Covered(p, c) ==
    \A o \in base[p] .. (c - 1) :
        <<p, o>> \in stored \union Garbage \/ Hidden(p, o, c)

Init ==
    /\ end = [p \in Partitions |-> 0]
    /\ base = [p \in Partitions |-> 0]
    /\ committed = [p \in Partitions |-> NoOffset]
    /\ stored = {}

Publish ==
    /\ \E p \in Partitions :
          /\ end[p] < MaxOffset
          /\ end' = Replace(end, p, end[p] + 1)
    /\ UNCHANGED <<base, committed, stored>>

\* The store accepts some published events, together.
Store ==
    /\ \E S \in SUBSET Message :
          /\ \A m \in S : m[2] < end[m[1]] /\ m \notin Garbage
          /\ stored' = stored \union S
    /\ UNCHANGED <<end, base, committed>>

Commit ==
    /\ \E p \in Partitions, c \in 1 .. MaxOffset :
          /\ c <= end[p]
          /\ Covered(p, c)
          /\ committed' = Replace(committed, p, c)
    /\ UNCHANGED <<end, base, stored>>

\* Partitions without a committed offset are entered at the log end.
Enter ==
    /\ base' = [p \in Partitions |->
                   IF committed[p] = NoOffset THEN end[p] ELSE base[p]]
    /\ UNCHANGED <<end, committed, stored>>

Next == Publish \/ Store \/ Commit \/ Enter

Spec == Init /\ [][Next]_sinkVars
===============================================================================
