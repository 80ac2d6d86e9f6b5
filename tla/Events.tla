-------------------------------- MODULE Events --------------------------------
(***************************************************************************)
(* What becomes of one recentchange payload: normalised and validated by   *)
(* the producer (events/validation.py), published, and then indexed        *)
(* (enrich_for_es), counted (build_rows, repositories/aggregates.py) and   *)
(* scored (services/vandalism_logic.py, services/vandalism.py) by the      *)
(* three consumers, in any order.                                          *)
(*                                                                         *)
(* A text is reduced to what the code tells apart: "" when it is empty     *)
(* once stripped, "offensive" and "gibberish" for the two patterns; user   *)
(* names to "ip" (a digit and a dot or colon, which a registered name may  *)
(* have too), "offensive", "offensive ip" for both, and "name".            *)
(* Truncation is left out.  A number in the payload is itself, Absent,     *)
(* Text (int() raises TypeError or ValueError) or Infinite (int() raises   *)
(* OverflowError).  Scores are in hundredths: with these weights no binary *)
(* sum falls on the other side of the threshold.  Time is counted in half  *)
(* hours, an hour boundary being an even one.                              *)
(***************************************************************************)
EXTENDS Integers, FiniteSetsExt

CONSTANTS
    Payloads,      \* the raw payloads to consider
    AllowedTypes,  \* settings.wikimedia_event_types
    Threshold,     \* settings.vandalism_threshold, in hundredths
    Now,           \* the clock, in half hours
    Absent, Text, Infinite,  \* what a payload may have for a number
    None           \* no output yet

Number == Int \union {Absent, Text, Infinite}

ASSUME PayloadAssumption == \A r \in Payloads : r.object =>
    /\ r.meta \in {"none", "object", "other"} /\ {r.id, r.bot} \subseteq BOOLEAN
    /\ r.title \in {"", "plain", "offensive", "gibberish"}
    /\ r.user \in {"", "name", "ip", "offensive", "offensive ip"}
    /\ r.comment \in {"", "plain", "offensive"}
    /\ {r.user_id, r.old, r.new} \subseteq Number
    /\ r.time.form \in {"iso", "naive", "unix", "bad", "absent"}
    /\ {r.time.at, r.time.zone} \subseteq Int
ASSUME NoNumberAssumption == {Absent, Text, Infinite} \intersect Int = {}
ASSUME ClockAssumption == Now \in Nat /\ Threshold \in 1 .. 100

VARIABLES
    raw,      \* the payload
    stage,    \* how far it has come
    event,    \* the published payload
    indexed,  \* the Elasticsearch document
    counted,  \* its part of the rows of the hourly tables
    scored    \* whether it is flagged, and the hour of its row then

payloadVars == <<raw, stage, event, indexed, counted, scored>>
-------------------------------------------------------------------------------
(* The conversions.                                                        *)

\* The structured time, a unix time, or the clock when there is neither.
ParseTimestamp(t) ==
    [aware |-> t.form # "naive",
     at    |-> IF t.form \in {"iso", "naive", "unix"} THEN t.at ELSE Now,
     zone  |-> IF t.form = "iso" THEN t.zone ELSE 0]

AsInt_OnlyNone(n) == IF n = Absent THEN 0 ELSE n

AsInt(n) == IF n \in {Absent, Text} THEN 0 ELSE n

LooksLikeIp(user) == user \in {"ip", "offensive ip"}

IsAnonymous(r) == AsInt(r.user_id) = 0 \/ LooksLikeIp(r.user)

Delta(r) == IF r.length THEN AsInt(r.new) - AsInt(r.old) ELSE 0

BytesAdded(delta) == IF delta > 0 THEN delta ELSE 0

BytesRemoved_Signed(delta) == IF delta < 0 THEN delta ELSE 0

BytesRemoved(delta) == IF delta < 0 THEN -delta ELSE 0

\* normalize raises ValidationError.
Rejected(r) ==
    \/ ~r.object
    \/ ~r.id \/ r.type = "" \/ r.title = "" \/ r.user = ""

\* normalize raises something else: meta.get does not exist, or int() overflows.
\* What comes first in the code decides.
Breaks(r) ==
    /\ r.object
    /\ \/ r.meta = "other"
       \/ /\ ~Rejected(r)
          /\ \E n \in {r.user_id} \union (IF r.length THEN {r.old, r.new} ELSE {}) :
                AsInt(n) \notin Int

Normalized(r) ==
    [event_type |-> r.type, timestamp |-> ParseTimestamp(r.time),
     title |-> r.title, user |-> r.user, bot |-> r.bot, comment |-> r.comment,
     is_anonymous |-> IsAnonymous(r),
     bytes_added |-> BytesAdded(Delta(r)), bytes_removed |-> BytesRemoved(Delta(r))]

Validated(e) == e.event_type \in AllowedTypes /\ e.timestamp.aware

\* A time goes through Kafka as text, the local time with its zone.
ToKafkaPayload(e) ==
    [e EXCEPT !.timestamp = [local |-> e.timestamp.at + e.timestamp.zone,
                             zone  |-> e.timestamp.zone]]

Instant(text) == text.local - text.zone

HourFloor_LosesZone(text) == text.local - (text.local % 2)

\* The full hour of the local time, as an instant.
HourFloor(text) == Instant(text) - (text.local % 2)

Weight_NoBlanking ==
    [anonymous_editor |-> 30, no_edit_summary |-> 20, large_removal |-> 25,
     massive_removal |-> 40, page_blank |-> 0, anon_new_page |-> 20,
     offensive_pattern |-> 30, gibberish_title |-> 10]

Weight ==
    [anonymous_editor |-> 30, no_edit_summary |-> 20, large_removal |-> 25,
     massive_removal |-> 40, page_blank |-> 35, anon_new_page |-> 20,
     offensive_pattern |-> 30, gibberish_title |-> 10]

\* The pattern is searched in the title, the user name and the summary.
Offensive(e) == "offensive" \in {e.title, e.user, e.comment} \/ e.user = "offensive ip"

\* Which signals score_event finds in an event.
Signals(e) ==
    [anonymous_editor  |-> e.is_anonymous,
     no_edit_summary   |-> e.comment = "",
     large_removal     |-> e.bytes_removed \in 500 .. 1999,
     massive_removal   |-> e.bytes_removed >= 2000,
     page_blank        |-> e.bytes_removed >= 500 /\ e.bytes_added = 0,
     anon_new_page     |-> e.is_anonymous /\ e.event_type = "new",
     offensive_pattern |-> Offensive(e),
     gibberish_title   |-> e.title = "gibberish" /\ ~Offensive(e)]

ScoreEvent(e) ==
    LET points(s) == IF Signals(e)[s] THEN Weight[s] ELSE 0
    IN  IF e.bot THEN 0
        ELSE Min({100, points("anonymous_editor") + points("no_edit_summary")
                       + points("massive_removal") + points("large_removal")
                       + points("page_blank") + points("anon_new_page")
                       + points("offensive_pattern") + points("gibberish_title")})
-------------------------------------------------------------------------------
(* The steps of the producer and of the consumers.                         *)

PayloadInit ==
    /\ raw \in Payloads
    /\ stage = "raw"
    /\ event = None /\ indexed = None /\ counted = None /\ scored = None

\* _handle_raw. An event that produce() refuses is module Producer's concern.
HandleRaw ==
    /\ stage = "raw"
    /\ IF Breaks(raw) THEN stage' = "dropped" /\ event' = event
       ELSE IF Rejected(raw) \/ ~Validated(Normalized(raw))
            THEN stage' = "deadletter" /\ event' = event
            ELSE stage' = "published" /\ event' = ToKafkaPayload(Normalized(raw))
    /\ UNCHANGED <<raw, indexed, counted, scored>>

Index ==
    /\ stage = "published" /\ indexed = None
    /\ indexed' = [at |-> Instant(event.timestamp)]
    /\ UNCHANGED <<raw, stage, event, counted, scored>>

Count ==
    /\ stage = "published" /\ counted = None
    /\ counted' = [hour |-> HourFloor(event.timestamp),
                   added |-> Max({event.bytes_added, 0}),
                   removed |-> Max({event.bytes_removed, 0})]
    /\ UNCHANGED <<raw, stage, event, indexed, scored>>

Score ==
    /\ stage = "published" /\ scored = None
    /\ scored' = [flagged |-> ScoreEvent(event) >= Threshold,
                  hour    |-> HourFloor(event.timestamp)]
    /\ UNCHANGED <<raw, stage, event, indexed, counted>>

PayloadNext == HandleRaw \/ Index \/ Count \/ Score

PayloadSpec == PayloadInit /\ [][PayloadNext]_payloadVars
-------------------------------------------------------------------------------
(* Properties.                                                             *)

\* Never silently dropped (producer.py:5-6): whatever is an object with an
\* object for its meta and no infinite number is published or dead-lettered,
\* however malformed its fields are.
MalformedIsKept ==
    stage = "dropped" =>
        raw.meta = "other" \/ Infinite \in {raw.user_id, raw.old, raw.new}

\* The bytes a published event adds and removes balance with the lengths it was
\* sent with, one of the two is zero, and the aggregates get the same.
BytesBalance ==
    counted # None /\ raw.length /\ {raw.old, raw.new} \subseteq Int =>
        /\ counted.added - counted.removed = raw.new - raw.old
        /\ counted.added = 0 \/ counted.removed = 0

\* One clock: the hour an event is counted in holds the instant at which it is
\* indexed, it is the hour of its suspicious row, and with a zone of whole hours
\* it is the hour the reconciliation queries the index for.
SameHour ==
    /\ counted # None /\ indexed # None =>
          /\ counted.hour <= indexed.at /\ indexed.at < counted.hour + 2
          /\ event.timestamp.zone % 2 = 0 => counted.hour = indexed.at - (indexed.at % 2)
    /\ counted # None /\ scored # None => counted.hour = scored.hour
    /\ stage = "published" => raw.time.form # "naive"

\* What the weights of vandalism_logic.py:17-24 amount to with the default
\* threshold: a removal of 500 bytes is enough by itself (it always counts as a
\* blanking too, since an event adds nothing when it removes something), any
\* other edit needs an offensive word in its title or in its user's name, and no
\* summary, or an anonymous editor with one of: no summary, a new page, an
\* offensive word in title, name or summary.  Bots are exempt.
FlaggedMeans ==
    stage = "published" /\ Threshold = 50 /\ scored # None =>
        LET e == event
            alone == e.bytes_removed >= 500
            anon  == e.is_anonymous /\
                        (e.comment = "" \/ e.event_type = "new" \/ Offensive(e))
        IN  scored.flagged <=>
                ~e.bot /\ (alone \/ anon \/ (e.comment = "" /\ Offensive(e)))
===============================================================================
