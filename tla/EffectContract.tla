--------------------------- MODULE EffectContract ---------------------------
(***************************************************************************)
(* What the write state of _create_or_reuse_sales_opportunity promises     *)
(* about a request that must not be repeated and whose answer may be lost: *)
(* it is announced in the database first, there is one request for an      *)
(* announcement, and whatever cuts the request off, the turns never write  *)
(* that there was none.  The record has other writers, which may put an    *)
(* older one in its place: each such write that erases an announcement     *)
(* allows one more, and none touches the record of an effect that is known *)
(* to have happened.                                                       *)
(***************************************************************************)
EXTENDS Naturals

VARIABLES
    record,    \* what the database says: none, pending, unknown or created
    underway,  \* the request is on its way
    done,      \* how often its effect happened
    reopened   \* how often another writer erased an announcement

vars == <<record, underway, done, reopened>>

Init == record = "none" /\ underway = FALSE /\ done = 0 /\ reopened = 0

\* A record that other writers left behind the turn's knowledge is no obstacle.
Announce ==
    /\ ~underway /\ underway' = TRUE
    /\ record = "none" \/ (reopened > 0 /\ record # "created")
    /\ done <= reopened
    /\ record' = "pending"
    /\ UNCHANGED <<done, reopened>>

\* An answer, an answer without an id or an error is recorded; a caller that is
\* cut off leaves the announcement.
Finish ==
    /\ underway /\ underway' = FALSE
    /\ \/ done' = done + 1 /\ record' = "created"
       \/ done' \in {done, done + 1} /\ record' \in {record, "pending", "unknown"}
    /\ UNCHANGED reopened

\* Another writer puts an older record in place, or, after one did, a turn its own.
Rewrite ==
    /\ record # "created" /\ record' \in {"none", "pending", "unknown"}
    /\ record = "none" => record' = "none" \/ reopened > 0
    /\ \/ record # "none" /\ record' = "none" /\ reopened' = reopened + 1
       \/ (record' = "none" => record = "none" \/ reopened > 0) /\ UNCHANGED reopened
    /\ UNCHANGED <<underway, done>>

Next == Announce \/ Finish \/ Rewrite

Spec == Init /\ [][Next]_vars

\* What a reader of the record may build on.
Trustworthy ==
    /\ done =< 1 + reopened
    /\ record = "none" /\ reopened = 0 => done = 0
    /\ record = "created" => done >= 1
=============================================================================
