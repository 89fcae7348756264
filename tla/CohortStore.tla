---------------------------- MODULE CohortStore -----------------------------
(***************************************************************************)
(* What the cohort store promises its users, without files, markers or     *)
(* processes: a cohort is published as a whole, completed, and retired     *)
(* only while enough completed ones are kept; a reader gets hold of it     *)
(* while it is available, and delivers it or gives up.                     *)
(***************************************************************************)
EXTENDS Integers, FiniteSets

CONSTANTS
    Ids,      \* cohort ids
    Readers,  \* pairs of a cohort id and a destination
    Retain    \* completed cohorts to keep

VARIABLES
    phase,    \* of every cohort: absent, ready, complete or retired
    reading,  \* readers that hold their cohort
    delivered \* readers that have delivered it

vars == <<phase, reading, delivered>>

Kept == {c \in Ids : phase[c] = "complete"}

Init == phase = [c \in Ids |-> "absent"] /\ reading = {} /\ delivered = {}

Publish(c) ==
    /\ phase[c] = "absent"
    /\ phase' = [phase EXCEPT ![c] = "ready"]
    /\ UNCHANGED <<reading, delivered>>

Complete(c) ==
    /\ phase[c] = "ready"
    /\ phase' = [phase EXCEPT ![c] = "complete"]
    /\ UNCHANGED <<reading, delivered>>

(* Whoever reads the cohort may lose it, or finish. *)
Retire(c) ==
    /\ phase[c] = "complete" /\ Cardinality(Kept) > Retain
    /\ phase' = [phase EXCEPT ![c] = "retired"]
    /\ reading' \subseteq reading
    /\ \A r \in reading \ reading' : r[1] = c
    /\ UNCHANGED delivered

Open(r) ==
    /\ phase[r[1]] \in {"ready", "complete"}
    /\ reading' = reading \cup {r}
    /\ UNCHANGED <<phase, delivered>>

Deliver(r) ==
    /\ r \in reading
    /\ reading' = reading \ {r}
    /\ delivered' = delivered \cup {r}
    /\ UNCHANGED phase

GiveUp ==
    /\ reading' \subseteq reading
    /\ UNCHANGED <<phase, delivered>>

Next ==
    \/ \E c \in Ids : Publish(c) \/ Complete(c) \/ Retire(c)
    \/ \E r \in Readers : Open(r) \/ Deliver(r)
    \/ GiveUp

Spec == Init /\ [][Next]_vars
=============================================================================
