--------------------------- MODULE JobController ----------------------------
(* What the job controller promises a caller: every submit and every          *)
(* transition takes effect at once, on the one current snapshot. JobStore     *)
(* shows when the file-backed controller keeps this promise.                  *)
EXTENDS JobSnapshot

CONSTANT Procedures      \* the procedures callers submit, of type Procedure

VARIABLE snapshot        \* what a load would return

Init == snapshot = EMPTY

Submit(p, id) ==
    /\ Accepts(snapshot, p)
    /\ id \notin DOMAIN snapshot.jobs          \* idFactory: a random UUID
    /\ snapshot' = Submitted(snapshot, p, id)

Transition(id, to, payload) ==
    /\ CanTransition(snapshot, id, to)
    /\ snapshot' = Transitioned(snapshot, id, to, payload)

Next == \/ \E p \in Procedures, id \in JobIds : Submit(p, id)
        \/ \E id \in JobIds, to \in JOB_STATES, payload \in Payloads \cup {None} :
              Transition(id, to, payload)

Spec == Init /\ [][Next]_snapshot
=============================================================================
