----------------------------- MODULE MCJobStore -----------------------------
(* Instances of JobStore for TLC.                                             *)
EXTENDS JobStore, TLC

CONSTANTS j1, j2, p1, p2, k1, c1, c2, i1, i2, i3, payload

\* Every branch of submit: two procedures that share a key, one that may not
\* run twice, one that lacks its key.
MCProcedures ==
    {[id |-> p1, idempotency |-> "key-required", idempotencyKey |-> k1],
     [id |-> p2, idempotency |-> "key-required", idempotencyKey |-> k1],
     [id |-> p1, idempotency |-> "never", idempotencyKey |-> None],
     [id |-> p2, idempotency |-> "key-required", idempotencyKey |-> None]}

\* One keyed procedure, for the runs with overlapping calls.
MCKeyedProcedure == {[id |-> p1, idempotency |-> "key-required", idempotencyKey |-> k1]}

MCSymmetry == Permutations(JobIds) \cup Permutations(Inodes) \cup Permutations(Clients)
=============================================================================
