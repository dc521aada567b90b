---------------------------- MODULE SemanticWorld ----------------------------
(* org.mgds.unity.semantic/Runtime/SemanticWorld.cs: the entities an agent    *)
(* may ask about, and a bounded queue of their changes that readers follow by *)
(* a cursor, the sequence number of the last event each has seen.             *)
EXTENDS Naturals, Sequences, SequencesExt, FiniteSetsExt, Selection

CONSTANTS Entities, States, Readers, Limits,
          EventCapacity,
          MaxSequence      \* bound: events recorded

ASSUME WorldAssumption ==
    /\ EventCapacity \in Nat \ {0} /\ Limits \subseteq Nat \ {0} /\ MaxSequence \in Nat

VARIABLES entities,        \* the state of every entity known
          events, sequence,
          cursor,          \* external: what each reader passes to EventsAfter
          told             \* history: the sequence numbers each reader has been given

worldVars == <<entities, events, sequence, cursor, told>>

WorldInit ==
    /\ entities = [e \in {} |-> {}]
    /\ events = <<>> /\ sequence = 0
    /\ cursor = [r \in Readers |-> 0] /\ told = [r \in Readers |-> {}]

Newest(queue, size) == SubSeq(queue, Max({1, Len(queue) - size + 1}), Len(queue))

\* Fault variants of Recorded: nothing is dropped; room is made before there is need.
RecordedUnbounded(entityId) ==
    Append(events, [sequence |-> sequence + 1, entityId |-> entityId])

RecordedEarly(entityId) ==
    Append(Newest(events, EventCapacity - 2), [sequence |-> sequence + 1, entityId |-> entityId])

Recorded(entityId) ==
    Newest(Append(events, [sequence |-> sequence + 1, entityId |-> entityId]), EventCapacity)

Upsert(entityId, state) ==
    /\ sequence < MaxSequence
    /\ entities' = [e \in DOMAIN entities \cup {entityId} |->
                       IF e = entityId THEN state ELSE entities[e]]
    /\ events' = Recorded(entityId)
    /\ sequence' = sequence + 1
    /\ UNCHANGED <<cursor, told>>

EventsAfter(after, limit) ==
    LET newer == Selected(events, {i \in DOMAIN events : events[i].sequence > after})
    IN  SubSeq(newer, 1, Min({limit, Len(newer)}))

\* External: a reader asks for more, and goes on from the last event it is given.
Poll(r, limit) ==
    LET given == EventsAfter(cursor[r], limit)
    IN  /\ given # <<>>
        /\ cursor' = [cursor EXCEPT ![r] = Last(given).sequence]
        /\ told' = [told EXCEPT ![r] = @ \cup {event.sequence : event \in Range(given)}]
        /\ UNCHANGED <<entities, events, sequence>>

WorldNext ==
    \/ \E entityId \in Entities, state \in States : Upsert(entityId, state)
    \/ \E r \in Readers, limit \in Limits : Poll(r, limit)

WorldSpec == WorldInit /\ [][WorldNext]_worldVars
-----------------------------------------------------------------------------
WorldTypeOK ==
    /\ DOMAIN entities \subseteq Entities /\ Range(entities) \subseteq States
    /\ Len(events) <= EventCapacity
    /\ \A event \in Range(events) : event.sequence \in 1 .. sequence /\ event.entityId \in Entities
    /\ \A r \in Readers : cursor[r] \in 0 .. sequence /\ told[r] \subseteq 1 .. cursor[r]

(* A reader passes over an event only when it fell so far behind that as many *)
(* newer ones as the queue holds had come in; it is never told why.           *)
GapsOnlyBeyondCapacity ==
    \A r \in Readers : \A n \in 1 .. cursor[r] : n \in told[r] \/ n + EventCapacity <= sequence
=============================================================================
