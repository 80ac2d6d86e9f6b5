------------------------------- MODULE MCEvents -------------------------------
(* Small instances of Events.                                              *)
EXTENDS Events

\* An ordinary edit, of which the payloads are variations.
Ordinary ==
    [object |-> TRUE, meta |-> "object", id |-> TRUE, type |-> "edit",
     title |-> "plain", user |-> "name", user_id |-> 7, comment |-> "plain",
     bot |-> FALSE, length |-> TRUE, old |-> 100, new |-> 130,
     time |-> [form |-> "iso", at |-> 4, zone |-> 0]]

Malformed ==
    {[Ordinary EXCEPT !.meta = m, !.id = i, !.type = t, !.title = ti, !.user = u,
                      !.user_id = n, !.time.form = f] :
        m \in {"none", "object", "other"}, i \in BOOLEAN,
        t \in {"", "edit", "categorize"}, ti \in {"", "plain"}, u \in {"", "ip"},
        n \in {Absent, Text, Infinite, 7},
        f \in {"iso", "naive", "unix", "bad", "absent"}}

Sized ==
    {[Ordinary EXCEPT !.length = l, !.old = o, !.new = n] : l \in BOOLEAN,
        o, n \in {Absent, Text, Infinite, 0, 499, 500, 1999, 2000, 2500}}

Suspect ==
    {[Ordinary EXCEPT !.type = t, !.title = ti, !.user = u, !.user_id = i,
                      !.comment = c, !.bot = b, !.old = o] :
        t \in {"edit", "new", "log"}, ti \in {"plain", "offensive", "gibberish"},
        u \in {"name", "ip", "offensive", "offensive ip"}, i \in {0, 7},
        c \in {"", "plain", "offensive"}, b \in BOOLEAN, o \in {0, 629, 630, 2129, 2130}}

Timed == {[Ordinary EXCEPT !.old = 900, !.time.at = a, !.time.zone = z] :
            a \in 0 .. 5, z \in -3 .. 3}

PayloadInstance ==
    {[object |-> FALSE]} \union Malformed \union Sized \union Suspect \union Timed
===============================================================================
