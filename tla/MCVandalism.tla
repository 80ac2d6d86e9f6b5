----------------------------- MODULE MCVandalism -----------------------------
(* Small instances of Vandalism.                                           *)
EXTENDS Vandalism

\* One partition that starts with a skipped event, then a suspicious one, a
\* garbage message and a suspicious one right at the threshold.
GarbageInstance == {<<1, 2>>}
ScoreInstance == [m \in Message |->
    IF m[2] = 0 THEN 49 ELSE IF m[2] = 1 THEN 80 ELSE 50]
===============================================================================
