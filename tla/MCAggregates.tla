----------------------------- MODULE MCAggregates -----------------------------
(* Small instances of Aggregates.                                          *)
EXTENDS Aggregates

Event(h, l, t, u) == [hour |-> h, language |-> l, title |-> t, user |-> u]

\* An hour that expires, with two languages and two users in two flushes, and
\* an event in the next.
LogInstance ==
    <<Event(0, "en", "A", "u"), Event(0, "de", "B", "u"),
      Event(0, "en", "A", "v"), Event(0, "de", "B", "u"),
      Event(1, "en", "A", "u")>>
===============================================================================
