---------------------------- MODULE ContentStore ----------------------------
(* What a content-addressed store promises. A blob becomes retrievable whole, *)
(* at once; it is listed only when it is; only the disk takes it away again,  *)
(* and then the damage is on record. ArtifactStore implements this; put in    *)
(* ReferenceService is Put and List in one.                                   *)
CONSTANT Blobs

VARIABLES stored,        \* the blobs get returns
          listed,        \* the blobs list names
          damaged        \* the blobs the disk has damaged

vars == <<stored, listed, damaged>>

Init == stored = {} /\ listed = {} /\ damaged = {}

Put(b) == stored' = stored \cup {b} /\ UNCHANGED <<listed, damaged>>

List(b) == /\ b \in stored \cup damaged
           /\ listed' = listed \cup {b}
           /\ UNCHANGED <<stored, damaged>>

Damage(b) == /\ stored' = stored \ {b} /\ damaged' = damaged \cup {b}
             /\ UNCHANGED listed

Next == \E b \in Blobs : Put(b) \/ List(b) \/ Damage(b)

Spec == Init /\ [][Next]_vars
=============================================================================
