------------------------------ MODULE KafkaGroup ------------------------------
(***************************************************************************)
(* What the consumers of this repository see of a Kafka consumer group: a  *)
(* committed offset per partition, which may be absent, and the offset a   *)
(* group member starts reading at when it is (re)assigned a partition.     *)
(* kafka/client.py:101-123 creates every consumer, with auto-commit off    *)
(* (core/config.py:91) and the reset policy its service asks for.          *)
(*                                                                         *)
(* consumer.commit(message=m) is asynchronous: it queues a request to      *)
(* commit m.offset + 1 and returns.  A request still queued is visible to  *)
(* nobody until the group restarts, so the modules let each commit take    *)
(* effect at once or never: "never" is a fault they count.                 *)
(***************************************************************************)
EXTENDS Integers

NoOffset == -1                       \* the group never committed here

OffsetOrNone(n) == {NoOffset} \union (0 .. n)

\* Where a member starts on a partition whose log holds the offsets below
\* `end`: at the committed offset, or where auto.offset.reset says.
StartLatest(c, end) == IF c = NoOffset THEN end ELSE c
StartEarliest(c)    == IF c = NoOffset THEN 0 ELSE c

Replace(f, p, v) == [f EXCEPT ![p] = v]
===============================================================================
