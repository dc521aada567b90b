---------------------------- MODULE JobLifecycle ----------------------------
(* The job lifecycle table of scripts/job-trace.mjs: the states, the legal    *)
(* edges between them, and the checker that conformance tests run over a      *)
(* recorded trace.                                                            *)
EXTENDS Naturals, Sequences, FiniteSets

JOB_STATES ==
    {"queued", "granted", "running", "checkpointed", "cancelling",
     "succeeded", "failed", "cancelled", "timed-out", "expired"}

EDGES ==
    {<<"queued", "granted">>, <<"queued", "cancelled">>,
     <<"granted", "running">>, <<"granted", "cancelled">>, <<"granted", "expired">>}
    \cup ({"running"} \X {"checkpointed", "succeeded", "failed", "cancelling", "timed-out"})
    \cup ({"checkpointed"} \X {"running", "failed", "cancelling", "timed-out"})
    \cup ({"cancelling"} \X {"cancelled", "failed"})

\* Fault variant of isLegalTransition: only the target is looked at.
TargetOnlyTransition(from, to) == \E edge \in EDGES : edge[2] = to

isLegalTransition(from, to) == <<from, to>> \in EDGES

\* The states no edge leaves: the results a job never gives up.
Terminal == {state \in JOB_STATES : ~ \E to \in JOB_STATES : <<state, to>> \in EDGES}

(* assertJobTrace throws unless sequences increase from above zero, every     *)
(* transition is an edge, and a never-idempotent job started at most once.    *)
assertJobTrace(events, idempotency) ==
    /\ \A i \in 1..Len(events) :
          events[i].sequence > (IF i = 1 THEN 0 ELSE events[i - 1].sequence)
    /\ \A i \in 1..Len(events) :
          events[i].type = "transition" => isLegalTransition(events[i].from, events[i].to)
    /\ idempotency = "never" =>
          Cardinality({i \in 1..Len(events) : events[i].type = "execution-started"}) <= 1
=============================================================================
