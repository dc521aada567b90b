---------------------------- MODULE JobSnapshot -----------------------------
(* The value jobs.json holds, and what JobController.submit and .transition   *)
(* do to a snapshot they have loaded (packages/controller/src/jobs).          *)
(* A JavaScript object used as a map is a function on the keys it has. Times, *)
(* project scope and capability ids are carried along unread and left out.    *)
EXTENDS JobLifecycle

CONSTANTS JobIds,        \* ids that pass #assertId
          ProcedureIds,
          Keys,          \* idempotency keys
          Payloads,      \* checkpoint payloads
          None           \* an absent field (undefined)

ASSUME NoneAssumption == None \notin Keys \cup Payloads \cup JOB_STATES

Idempotency == {"safe", "key-required", "never"}

Procedure == [id : ProcedureIds, idempotency : Idempotency,
              idempotencyKey : Keys \cup {None}]

Job == [procedureId : ProcedureIds, state : JOB_STATES, attempt : Nat,
        checkpoint : Payloads \cup {None}]

Event == [sequence : Nat, type : {"submitted", "transition"},
          from : JOB_STATES \cup {None}, to : JOB_STATES \cup {None},
          payload : Payloads \cup {None}]

\* f maps some of S into T.
IsMap(f, S, T) == DOMAIN f \subseteq S /\ f \in [DOMAIN f -> T]

IsSnapshot(s) ==
    /\ s = [jobs |-> s.jobs, events |-> s.events,
            idempotencyKeys |-> s.idempotencyKeys, procedureIds |-> s.procedureIds]
    /\ IsMap(s.jobs, JobIds, Job)
    /\ IsMap(s.events, JobIds, Seq(Event))
    /\ IsMap(s.idempotencyKeys, Keys, JobIds)
    /\ IsMap(s.procedureIds, ProcedureIds, JobIds)

\* The map f after f[k] = v.
Put(f, k, v) == [x \in DOMAIN f \cup {k} |-> IF x = k THEN v ELSE f[x]]

EmptyMap == [x \in {} |-> x]

EMPTY == [jobs |-> EmptyMap, events |-> EmptyMap,
          idempotencyKeys |-> EmptyMap, procedureIds |-> EmptyMap]
-----------------------------------------------------------------------------
(* submit                                                                     *)

\* 'idempotency key required'
KeyMissing(p) == p.idempotency = "key-required" /\ p.idempotencyKey = None

\* The early return of the job the key already names.
KnownKey(s, p) ==
    p.idempotency = "key-required" /\ p.idempotencyKey \in DOMAIN s.idempotencyKeys

\* 'duplicate non-idempotent execution'
Duplicate(s, p) == p.idempotency = "never" /\ p.id \in DOMAIN s.procedureIds

\* Fault variant of Accepts: a key that is already bound is not looked up.
AcceptsKnownKey(s, p) == ~ KeyMissing(p) /\ ~ Duplicate(s, p)

\* submit goes on to create a job.
Accepts(s, p) == ~ KeyMissing(p) /\ ~ KnownKey(s, p) /\ ~ Duplicate(s, p)

\* The snapshot after a submit that creates job id.
Submitted(s, p, id) ==
    [jobs |-> Put(s.jobs, id, [procedureId |-> p.id, state |-> "queued",
                               attempt |-> 0, checkpoint |-> None]),
     events |-> Put(s.events, id, <<[sequence |-> 1, type |-> "submitted",
                                     from |-> None, to |-> None, payload |-> None]>>),
     idempotencyKeys |-> IF p.idempotencyKey = None THEN s.idempotencyKeys
                         ELSE Put(s.idempotencyKeys, p.idempotencyKey, id),
     procedureIds |-> Put(s.procedureIds, p.id, id)]
-----------------------------------------------------------------------------
(* transition (and checkpoint, resume, timeout, which call it)                *)

\* Neither 'job not found' nor 'illegal transition'.
CanTransition(s, id, to) ==
    /\ id \in DOMAIN s.jobs
    /\ isLegalTransition(s.jobs[id].state, to)

TransitionEvent(s, id, to, payload) ==
    [sequence |-> Len(s.events[id]) + 1, type |-> "transition",
     from |-> s.jobs[id].state, to |-> to, payload |-> payload]

\* Fault variant of TransitionedJob: every transition counts as an attempt.
TransitionedJobEachAttempt(job, to, payload) ==
    [job EXCEPT !.state = to, !.attempt = @ + 1,
                !.checkpoint = IF payload = None THEN @ ELSE payload]

TransitionedJob(job, to, payload) ==
    [procedureId |-> job.procedureId,
     state |-> to,
     attempt |-> IF to = "running" THEN job.attempt + 1 ELSE job.attempt,
     checkpoint |-> IF payload = None THEN job.checkpoint ELSE payload]

Transitioned(s, id, to, payload) ==
    [jobs |-> [s.jobs EXCEPT ![id] = TransitionedJob(@, to, payload)],
     events |-> [s.events EXCEPT ![id] = Append(@, TransitionEvent(s, id, to, payload))],
     idempotencyKeys |-> s.idempotencyKeys,
     procedureIds |-> s.procedureIds]
-----------------------------------------------------------------------------
(* What makes a snapshot one that a sequence of legal calls could have left.  *)

StateAfter(event) == IF event.type = "submitted" THEN "queued" ELSE event.to

\* A history starts with its submission and every later event is the next
\* number, leaves the state the one before it entered, and follows an edge.
LegalHistory(h) ==
    /\ h # <<>>
    /\ h[1].type = "submitted"
    /\ \A i \in 1..Len(h) : h[i].sequence = i
    /\ \A i \in 2..Len(h) :
          /\ h[i].type = "transition"
          /\ h[i].from = StateAfter(h[i - 1])
          /\ isLegalTransition(h[i].from, h[i].to)

\* The payload of the last event that carries one.
CheckpointOf(h, payload) ==
    \/ payload = None /\ \A i \in 1..Len(h) : h[i].payload = None
    \/ \E i \in 1..Len(h) :
          /\ payload # None /\ h[i].payload = payload
          /\ \A j \in (i + 1)..Len(h) : h[j].payload = None

\* The job record is what replaying its history gives.
Agrees(job, h) ==
    /\ job.state = StateAfter(h[Len(h)])
    /\ job.attempt = Cardinality({i \in 1..Len(h) : h[i].to = "running"})
    /\ CheckpointOf(h, job.checkpoint)

\* No map names a job that is not there.
Linked(s) ==
    /\ DOMAIN s.events = DOMAIN s.jobs
    /\ \A k \in DOMAIN s.idempotencyKeys : s.idempotencyKeys[k] \in DOMAIN s.jobs
    /\ \A p \in DOMAIN s.procedureIds :
          /\ s.procedureIds[p] \in DOMAIN s.jobs
          /\ s.jobs[s.procedureIds[p]].procedureId = p
    /\ \A id \in DOMAIN s.jobs : s.jobs[id].procedureId \in DOMAIN s.procedureIds

WellFormed(s) ==
    /\ Linked(s)
    /\ \A id \in DOMAIN s.jobs : LegalHistory(s.events[id]) /\ Agrees(s.jobs[id], s.events[id])
-----------------------------------------------------------------------------
(* What may never happen between one published snapshot s and the next, t.    *)

\* A job with a terminal result keeps it, and its record, unchanged.
KeepsTerminalJobs(s, t) ==
    \A id \in DOMAIN s.jobs : s.jobs[id].state \in Terminal =>
        id \in DOMAIN t.jobs /\ t.jobs[id] = s.jobs[id] /\ t.events[id] = s.events[id]

\* Histories are append-only.
ExtendsHistories(s, t) ==
    \A id \in DOMAIN s.events :
        /\ id \in DOMAIN t.events
        /\ Len(s.events[id]) <= Len(t.events[id])
        /\ \A i \in 1..Len(s.events[id]) : t.events[id][i] = s.events[id][i]

\* The key p carries, once bound to a job, stays bound to it: a retry of p is
\* answered with that job.
KeepsKey(s, t, key) ==
    key \in DOMAIN s.idempotencyKeys =>
        /\ key \in DOMAIN t.idempotencyKeys
        /\ t.idempotencyKeys[key] = s.idempotencyKeys[key]
=============================================================================
