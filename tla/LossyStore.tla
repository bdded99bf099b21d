----------------------------- MODULE LossyStore -----------------------------
(* What the cache promises its callers, without its laziness: an entry is    *)
(* gone the moment it is past its time; a live entry is lost only to make    *)
(* room in a full store, and then it is one of those closest to expiring;    *)
(* a question is answered by the last live value put under the key.          *)
EXTENDS Naturals, FiniteSets, Functions

CONSTANTS Key, Value, NoValue, MaxEntries, TTL

VARIABLES store, now, answer

vars == <<store, now, answer>>

Fresh(t) == {k \in DOMAIN store : t <= store[k].expires}

Closest ==
    {k \in DOMAIN store :
        \A j \in DOMAIN store : store[k].expires <= store[j].expires}

\* The sets of keys that may survive the arrival of a new entry.
Survivors ==
    IF Cardinality(DOMAIN store) >= MaxEntries
      THEN {DOMAIN store \ {k} : k \in Closest}
      ELSE {DOMAIN store}

Init ==
    /\ store = [k \in {} |-> 0]
    /\ now = 0
    /\ answer = [hit |-> FALSE, value |-> NoValue]

Ask(k) ==
    /\ answer' = IF k \in DOMAIN store
                   THEN [hit |-> TRUE, value |-> store[k].value]
                   ELSE [hit |-> FALSE, value |-> NoValue]
    /\ UNCHANGED <<store, now>>

PutValue(k, v) ==
    /\ \E S \in Survivors :
         store' = [j \in S \cup {k} |->
                     IF j = k THEN [value |-> v, expires |-> now + TTL]
                              ELSE store[j]]
    /\ UNCHANGED <<now, answer>>

Pass ==
    /\ now' = now + 1
    /\ store' = Restrict(store, Fresh(now'))
    /\ UNCHANGED answer

Next ==
    \/ \E k \in Key : Ask(k)
    \/ \E k \in Key, v \in Value : PutValue(k, v)
    \/ Pass

Spec == Init /\ [][Next]_vars
=============================================================================
