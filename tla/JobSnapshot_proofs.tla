------------------------- MODULE JobSnapshot_proofs -------------------------
(* Facts about the operators of JobSnapshot, for every value of the           *)
(* constants: what submit and transition do to a snapshot keeps its type and  *)
(* keeps it well formed.                                                      *)
EXTENDS JobSnapshot, SequenceTheorems, FiniteSetTheorems, TLAPS

\* Put adds one key and types like the map it extends.
LEMMA PutIsMap ==
    ASSUME NEW f, NEW S, NEW T, IsMap(f, S, T), NEW k \in S, NEW v \in T
    PROVE  /\ IsMap(Put(f, k, v), S, T)
           /\ DOMAIN Put(f, k, v) = DOMAIN f \cup {k}
           /\ Put(f, k, v)[k] = v
           /\ \A x \in DOMAIN f : x # k => Put(f, k, v)[x] = f[x]
BY DEF IsMap, Put

\* The snapshot of a store with no file.
LEMMA EmptySnapshot == IsSnapshot(EMPTY) /\ WellFormed(EMPTY)
BY DEF IsSnapshot, WellFormed, Linked, EMPTY, EmptyMap, IsMap

\* submit leaves a snapshot a snapshot (JobController.submit).
LEMMA SubmittedIsSnapshot ==
    ASSUME NEW s, IsSnapshot(s), NEW p \in Procedure, NEW id \in JobIds
    PROVE  IsSnapshot(Submitted(s, p, id))
<1> DEFINE job == [procedureId |-> p.id, state |-> "queued", attempt |-> 0, checkpoint |-> None]
           first == [sequence |-> 1, type |-> "submitted", from |-> None, to |-> None, payload |-> None]
<1>1. job \in Job
  BY DEF Job, Procedure, JOB_STATES
<1>2. <<first>> \in Seq(Event)
  <2>1. first \in Event
    BY DEF Event
  <2>. QED BY <2>1
<1>3. IsMap(Put(s.jobs, id, job), JobIds, Job)
  BY <1>1, PutIsMap DEF IsSnapshot
<1>4. IsMap(Put(s.events, id, <<first>>), JobIds, Seq(Event))
  BY <1>2, PutIsMap DEF IsSnapshot
<1>5. ASSUME p.idempotencyKey # None
      PROVE  IsMap(Put(s.idempotencyKeys, p.idempotencyKey, id), Keys, JobIds)
  <2>1. p.idempotencyKey \in Keys
    BY <1>5 DEF Procedure
  <2>. QED BY <2>1, PutIsMap DEF IsSnapshot
<1>6. IsMap(Put(s.procedureIds, p.id, id), ProcedureIds, JobIds)
  <2>1. p.id \in ProcedureIds
    BY DEF Procedure
  <2>. QED BY <2>1, PutIsMap DEF IsSnapshot
<1>. QED
  BY <1>3, <1>4, <1>5, <1>6 DEF IsSnapshot, Submitted

\* A transition's event is an event.
LEMMA TransitionEventType ==
    ASSUME NEW s, IsSnapshot(s), NEW id \in DOMAIN s.jobs, id \in DOMAIN s.events,
           NEW to \in JOB_STATES, NEW payload \in Payloads \cup {None}
    PROVE  TransitionEvent(s, id, to, payload) \in Event
<1>1. s.events[id] \in Seq(Event) /\ s.jobs[id] \in Job
  BY DEF IsSnapshot, IsMap
<1>2. Len(s.events[id]) + 1 \in Nat
  BY <1>1
<1>. QED
  BY <1>1, <1>2 DEF TransitionEvent, Event, Job

\* transition leaves a snapshot a snapshot (JobController.transition).
LEMMA TransitionedIsSnapshot ==
    ASSUME NEW s, IsSnapshot(s), NEW id \in DOMAIN s.jobs,
           NEW to \in JOB_STATES, NEW payload \in Payloads \cup {None}
    PROVE  IsSnapshot(Transitioned(s, id, to, payload))
<1> DEFINE t == Transitioned(s, id, to, payload)
<1>1. IsMap(t.jobs, JobIds, Job)
  <2>1. s.jobs[id] \in Job
    BY DEF IsSnapshot, IsMap
  <2>2. TransitionedJob(s.jobs[id], to, payload) \in Job
    BY <2>1 DEF TransitionedJob, Job
  <2>3. t.jobs = [s.jobs EXCEPT ![id] = TransitionedJob(s.jobs[id], to, payload)]
    BY DEF Transitioned, IsSnapshot
  <2>. HIDE DEF t
  <2>. QED BY <2>2, <2>3 DEF IsSnapshot, IsMap
<1>2. IsMap(t.events, JobIds, Seq(Event))
  <2>3. t.events = [s.events EXCEPT ![id] = Append(s.events[id], TransitionEvent(s, id, to, payload))]
    BY DEF Transitioned, IsSnapshot
  <2>. HIDE DEF t
  <2>1. CASE id \in DOMAIN s.events
    <3>1. TransitionEvent(s, id, to, payload) \in Event
      BY <2>1, TransitionEventType
    <3>2. s.events[id] \in Seq(Event)
      BY <2>1 DEF IsSnapshot, IsMap
    <3>3. Append(s.events[id], TransitionEvent(s, id, to, payload)) \in Seq(Event)
      BY <3>1, <3>2
    <3>. QED BY <2>3, <3>3 DEF IsSnapshot, IsMap
  <2>2. CASE id \notin DOMAIN s.events
    BY <2>2, <2>3 DEF IsSnapshot, IsMap
  <2>. QED BY <2>1, <2>2
<1>3. /\ t.idempotencyKeys = s.idempotencyKeys
      /\ t.procedureIds = s.procedureIds
      /\ t = [jobs |-> t.jobs, events |-> t.events,
              idempotencyKeys |-> t.idempotencyKeys, procedureIds |-> t.procedureIds]
  BY DEF Transitioned, IsSnapshot
<1>. QED
  BY <1>1, <1>2, <1>3 DEF IsSnapshot
-----------------------------------------------------------------------------
\* The history submit starts is legal and agrees with the job it starts.
LEMMA FirstHistory ==
    ASSUME NEW q
    PROVE  LET first == [sequence |-> 1, type |-> "submitted",
                         from |-> None, to |-> None, payload |-> None]
               job == [procedureId |-> q, state |-> "queued",
                       attempt |-> 0, checkpoint |-> None]
           IN  LegalHistory(<<first>>) /\ Agrees(job, <<first>>)
<1> DEFINE first == [sequence |-> 1, type |-> "submitted", from |-> None, to |-> None, payload |-> None]
           h == <<first>>
<1>1. Len(h) = 1 /\ h[1] = first /\ h # <<>>
  OBVIOUS
<1>2. {i \in 1..Len(h) : h[i].to = "running"} = {}
  <2>1. None # "running"
    BY NoneAssumption DEF JOB_STATES
  <2>. QED BY <1>1, <2>1
<1>3. Cardinality({i \in 1..Len(h) : h[i].to = "running"}) = 0
  BY <1>2, FS_EmptySet
<1>4. LegalHistory(h)
  BY <1>1 DEF LegalHistory
<1>5. StateAfter(h[Len(h)]) = "queued" /\ CheckpointOf(h, None)
  BY <1>1 DEF StateAfter, CheckpointOf
<1>. QED
  BY <1>3, <1>4, <1>5 DEF Agrees

\* A submit under a fresh id leaves a well-formed snapshot well formed.
LEMMA SubmittedWellFormed ==
    ASSUME NEW s, IsSnapshot(s), WellFormed(s),
           NEW p \in Procedure, NEW id \in JobIds, id \notin DOMAIN s.jobs
    PROVE  WellFormed(Submitted(s, p, id))
<1> DEFINE t == Submitted(s, p, id)
           job == [procedureId |-> p.id, state |-> "queued", attempt |-> 0, checkpoint |-> None]
           first == [sequence |-> 1, type |-> "submitted", from |-> None, to |-> None, payload |-> None]
<1>1. /\ DOMAIN t.jobs = DOMAIN s.jobs \cup {id}
      /\ DOMAIN t.events = DOMAIN s.events \cup {id}
      /\ t.jobs[id] = job
      /\ t.events[id] = <<first>>
      /\ \A x \in DOMAIN s.jobs : t.jobs[x] = s.jobs[x]
      /\ \A x \in DOMAIN s.jobs : x \in DOMAIN s.events => t.events[x] = s.events[x]
  BY DEF Submitted, Put
<1>2. /\ DOMAIN t.procedureIds = DOMAIN s.procedureIds \cup {p.id}
      /\ t.procedureIds[p.id] = id
      /\ \A q \in DOMAIN s.procedureIds : q # p.id => t.procedureIds[q] = s.procedureIds[q]
  BY DEF Submitted, Put
<1>3. \A k \in DOMAIN t.idempotencyKeys :
         t.idempotencyKeys[k] = id
         \/ (k \in DOMAIN s.idempotencyKeys /\ t.idempotencyKeys[k] = s.idempotencyKeys[k])
  BY DEF Submitted, Put
<1>4. job.procedureId = p.id
  OBVIOUS
<1>5. LegalHistory(<<first>>) /\ Agrees(job, <<first>>)
  BY FirstHistory
<1>. HIDE DEF t, job, first
<1>6. Linked(t)
  BY <1>1, <1>2, <1>3, <1>4 DEF WellFormed, Linked
<1>7. ASSUME NEW x \in DOMAIN t.jobs
      PROVE  LegalHistory(t.events[x]) /\ Agrees(t.jobs[x], t.events[x])
  <2>1. CASE x = id
    BY <1>1, <1>5, <2>1
  <2>2. CASE x # id
    BY <1>1, <2>2 DEF WellFormed, Linked
  <2>. QED BY <2>1, <2>2
<1>. QED
  BY <1>6, <1>7 DEF WellFormed, t

\* A legal event appended to a history that agrees with its job.
LEMMA NextHistory ==
    ASSUME NEW job \in Job, NEW h \in Seq(Event), LegalHistory(h), Agrees(job, h),
           NEW to \in JOB_STATES, isLegalTransition(job.state, to),
           NEW payload \in Payloads \cup {None}
    PROVE  LET event == [sequence |-> Len(h) + 1, type |-> "transition",
                         from |-> job.state, to |-> to, payload |-> payload]
           IN  /\ LegalHistory(Append(h, event))
               /\ Agrees(TransitionedJob(job, to, payload), Append(h, event))
<1> DEFINE event == [sequence |-> Len(h) + 1, type |-> "transition",
                     from |-> job.state, to |-> to, payload |-> payload]
           n == Len(h)
           g == Append(h, event)
           newJob == TransitionedJob(job, to, payload)
           Runs(q) == {i \in 1..Len(q) : q[i].to = "running"}
<1>1. /\ n \in Nat /\ n >= 1
      /\ Len(g) = n + 1
      /\ g[n + 1] = event
      /\ \A i \in 1..n : g[i] = h[i]
      /\ g # <<>>
  BY DEF LegalHistory
<1>2. /\ event.sequence = n + 1 /\ event.type = "transition"
      /\ event.from = job.state /\ event.to = to /\ event.payload = payload
  OBVIOUS
<1>3. /\ newJob.state = to
      /\ newJob.attempt = IF to = "running" THEN job.attempt + 1 ELSE job.attempt
      /\ newJob.checkpoint = IF payload = None THEN job.checkpoint ELSE payload
  BY DEF TransitionedJob
<1>. HIDE DEF event, g, newJob
<1>4. LegalHistory(g)
  <2>1. g[1].type = "submitted"
    BY <1>1 DEF LegalHistory
  <2>2. \A i \in 1..Len(g) : g[i].sequence = i
    BY <1>1, <1>2 DEF LegalHistory
  <2>3. ASSUME NEW i \in 2..Len(g)
        PROVE  /\ g[i].type = "transition"
               /\ g[i].from = StateAfter(g[i - 1])
               /\ isLegalTransition(g[i].from, g[i].to)
    <3>1. CASE i = n + 1
      <4>1. g[i - 1] = h[n]
        BY <1>1, <3>1
      <4>2. job.state = StateAfter(h[n])
        BY DEF Agrees
      <4>. QED BY <1>1, <1>2, <3>1, <4>1, <4>2
    <3>2. CASE i # n + 1
      <4>1. i \in 2..n /\ g[i] = h[i] /\ g[i - 1] = h[i - 1]
        BY <1>1, <3>2
      <4>. QED BY <4>1 DEF LegalHistory
    <3>. QED BY <3>1, <3>2
  <2>. QED BY <1>1, <2>1, <2>2, <2>3 DEF LegalHistory
<1>5. newJob.state = StateAfter(g[Len(g)])
  BY <1>1, <1>2, <1>3 DEF StateAfter
<1>6. newJob.attempt = Cardinality(Runs(g))
  <2>1. IsFiniteSet(Runs(h)) /\ n + 1 \notin Runs(h)
    <3>1. IsFiniteSet(1..n)
      BY <1>1, FS_Interval
    <3>2. Runs(h) \subseteq 1..n
      OBVIOUS
    <3>3. n + 1 \notin Runs(h)
      BY <1>1
    <3>. QED BY <3>1, <3>2, <3>3, FS_Subset
  <2>2. job.attempt = Cardinality(Runs(h))
    BY DEF Agrees
  <2>3. CASE to = "running"
    <3>1. Runs(g) = Runs(h) \cup {n + 1}
      BY <1>1, <1>2, <2>3
    <3>2. Cardinality(Runs(h) \cup {n + 1}) = Cardinality(Runs(h)) + 1
      BY <2>1, FS_AddElement
    <3>. QED BY <1>3, <2>2, <2>3, <3>1, <3>2
  <2>4. CASE to # "running"
    <3>1. Runs(g) = Runs(h)
      BY <1>1, <1>2, <2>4
    <3>. QED BY <1>3, <2>2, <2>4, <3>1
  <2>. QED BY <2>3, <2>4
<1>7. CheckpointOf(g, newJob.checkpoint)
  <2>1. CASE payload # None
    <3>1. \A j \in (n + 1 + 1)..Len(g) : g[j].payload = None
      BY <1>1
    <3>2. n + 1 \in 1..Len(g) /\ g[n + 1].payload = payload
      BY <1>1, <1>2
    <3>. QED BY <1>3, <2>1, <3>1, <3>2 DEF CheckpointOf
  <2>2. CASE payload = None
    <3>1. newJob.checkpoint = job.checkpoint /\ g[n + 1].payload = None
      BY <1>1, <1>2, <1>3, <2>2
    <3>2. CheckpointOf(h, job.checkpoint)
      BY DEF Agrees
    <3>3. CASE job.checkpoint = None /\ \A i \in 1..Len(h) : h[i].payload = None
      BY <1>1, <3>1, <3>3 DEF CheckpointOf
    <3>4. CASE \E i \in 1..Len(h) :
                  /\ job.checkpoint # None /\ h[i].payload = job.checkpoint
                  /\ \A j \in (i + 1)..Len(h) : h[j].payload = None
      <4>1. PICK i \in 1..n :
                  /\ job.checkpoint # None /\ h[i].payload = job.checkpoint
                  /\ \A j \in (i + 1)..n : h[j].payload = None
        BY <3>4
      <4>2. i \in 1..Len(g) /\ g[i].payload = job.checkpoint
        BY <1>1, <4>1
      <4>3. ASSUME NEW j \in (i + 1)..Len(g)
            PROVE  g[j].payload = None
        BY <1>1, <3>1, <4>1
      <4>. QED BY <3>1, <4>1, <4>2, <4>3 DEF CheckpointOf
    <3>. QED BY <3>2, <3>3, <3>4 DEF CheckpointOf
  <2>. QED BY <2>1, <2>2
<1>8. Agrees(newJob, g)
  BY <1>5, <1>6, <1>7 DEF Agrees
<1>. QED
  BY <1>4, <1>8 DEF g, event, newJob

\* A legal transition leaves a well-formed snapshot well formed.
LEMMA TransitionedWellFormed ==
    ASSUME NEW s, IsSnapshot(s), WellFormed(s), NEW id, NEW to \in JOB_STATES,
           CanTransition(s, id, to), NEW payload \in Payloads \cup {None}
    PROVE  WellFormed(Transitioned(s, id, to, payload))
<1> DEFINE t == Transitioned(s, id, to, payload)
           event == TransitionEvent(s, id, to, payload)
<1>1. /\ id \in DOMAIN s.jobs /\ id \in DOMAIN s.events
      /\ isLegalTransition(s.jobs[id].state, to)
      /\ LegalHistory(s.events[id]) /\ Agrees(s.jobs[id], s.events[id])
  BY DEF WellFormed, Linked, CanTransition
<1>2. s.jobs[id] \in Job /\ s.events[id] \in Seq(Event)
  BY <1>1 DEF IsSnapshot, IsMap
<1>3. /\ t.jobs = [s.jobs EXCEPT ![id] = TransitionedJob(s.jobs[id], to, payload)]
      /\ t.events = [s.events EXCEPT ![id] = Append(s.events[id], event)]
      /\ t.idempotencyKeys = s.idempotencyKeys
      /\ t.procedureIds = s.procedureIds
  BY DEF Transitioned
<1>4. /\ LegalHistory(Append(s.events[id], event))
      /\ Agrees(TransitionedJob(s.jobs[id], to, payload), Append(s.events[id], event))
  BY <1>1, <1>2, NextHistory DEF TransitionEvent
<1>5. TransitionedJob(s.jobs[id], to, payload).procedureId = s.jobs[id].procedureId
  BY DEF TransitionedJob
<1>. HIDE DEF t, event
<1>6. IsMap(s.jobs, JobIds, Job) /\ IsMap(s.events, JobIds, Seq(Event))
  BY DEF IsSnapshot
<1>7. /\ DOMAIN t.jobs = DOMAIN s.jobs /\ DOMAIN t.events = DOMAIN s.events
      /\ t.jobs[id] = TransitionedJob(s.jobs[id], to, payload)
      /\ t.events[id] = Append(s.events[id], event)
      /\ \A x \in DOMAIN s.jobs : x # id => t.jobs[x] = s.jobs[x]
      /\ \A x \in DOMAIN s.events : x # id => t.events[x] = s.events[x]
  BY <1>1, <1>3, <1>6 DEF IsMap
<1>8. Linked(t)
  <2>1. \A x \in DOMAIN s.jobs : t.jobs[x].procedureId = s.jobs[x].procedureId
    BY <1>5, <1>7
  <2>. QED BY <1>3, <1>7, <2>1 DEF WellFormed, Linked
<1>9. ASSUME NEW x \in DOMAIN t.jobs
      PROVE  LegalHistory(t.events[x]) /\ Agrees(t.jobs[x], t.events[x])
  <2>1. CASE x = id
    BY <1>4, <1>7, <2>1
  <2>2. CASE x # id
    BY <1>7, <2>2 DEF WellFormed, Linked
  <2>. QED BY <2>1, <2>2
<1>. QED
  BY <1>8, <1>9 DEF WellFormed, t
-----------------------------------------------------------------------------
(* What no call does to a well-formed snapshot.                               *)

\* A submit adds a job under a new id and leaves the others alone.
LEMMA SubmittedKeeps ==
    ASSUME NEW s, IsSnapshot(s), WellFormed(s), NEW p, NEW id, id \notin DOMAIN s.jobs
    PROVE  /\ KeepsTerminalJobs(s, Submitted(s, p, id))
           /\ ExtendsHistories(s, Submitted(s, p, id))
<1> DEFINE t == Submitted(s, p, id)
<1>1. DOMAIN s.events = DOMAIN s.jobs /\ \A x \in DOMAIN s.events : Len(s.events[x]) \in Nat
  BY DEF WellFormed, Linked, IsSnapshot, IsMap
<1>2. KeepsTerminalJobs(s, t)
  BY <1>1 DEF KeepsTerminalJobs, Submitted, Put
<1>3. ExtendsHistories(s, t)
  BY <1>1 DEF ExtendsHistories, Submitted, Put
<1>. QED BY <1>2, <1>3

LEMMA SubmittedKeepsKey ==
    ASSUME NEW s, NEW p, NEW id, NEW key,
           p.idempotencyKey = key => key \notin DOMAIN s.idempotencyKeys
    PROVE  KeepsKey(s, Submitted(s, p, id), key)
BY DEF KeepsKey, Submitted, Put

\* A legal transition changes one job, which is not terminal, and adds to its history.
LEMMA TransitionedKeeps ==
    ASSUME NEW s, NEW id, NEW to, NEW payload
    PROVE  /\ IsSnapshot(s) /\ WellFormed(s) /\ to \in JOB_STATES /\ CanTransition(s, id, to)
                => /\ KeepsTerminalJobs(s, Transitioned(s, id, to, payload))
                   /\ ExtendsHistories(s, Transitioned(s, id, to, payload))
           /\ \A key : KeepsKey(s, Transitioned(s, id, to, payload), key)
<1> DEFINE t == Transitioned(s, id, to, payload)
           event == TransitionEvent(s, id, to, payload)
<1>1. ASSUME IsSnapshot(s), WellFormed(s), to \in JOB_STATES, CanTransition(s, id, to)
      PROVE  KeepsTerminalJobs(s, t) /\ ExtendsHistories(s, t)
  <2>1. /\ t.jobs = [s.jobs EXCEPT ![id] = TransitionedJob(s.jobs[id], to, payload)]
        /\ t.events = [s.events EXCEPT ![id] = Append(s.events[id], event)]
    BY DEF Transitioned
  <2>2. s.jobs[id].state \notin Terminal /\ DOMAIN s.events = DOMAIN s.jobs /\ id \in DOMAIN s.jobs
    BY <1>1 DEF CanTransition, isLegalTransition, Terminal, WellFormed, Linked
  <2>3. IsMap(s.jobs, JobIds, Job) /\ IsMap(s.events, JobIds, Seq(Event))
    BY <1>1 DEF IsSnapshot
  <2>. HIDE DEF t, event
  <2>4. /\ DOMAIN t.jobs = DOMAIN s.jobs /\ DOMAIN t.events = DOMAIN s.events
        /\ t.events[id] = Append(s.events[id], event)
        /\ \A x \in DOMAIN s.jobs : x # id => t.jobs[x] = s.jobs[x] /\ t.events[x] = s.events[x]
    BY <2>1, <2>2, <2>3 DEF IsMap
  <2>5. KeepsTerminalJobs(s, t)
    BY <2>2, <2>4 DEF KeepsTerminalJobs
  <2>6. s.events[id] \in Seq(Event) /\ \A x \in DOMAIN s.events : Len(s.events[x]) \in Nat
    BY <2>2, <2>3 DEF IsMap
  <2>7. /\ Len(s.events[id]) <= Len(Append(s.events[id], event))
        /\ \A i \in 1..Len(s.events[id]) : Append(s.events[id], event)[i] = s.events[id][i]
    BY <2>6
  <2>8. ExtendsHistories(s, t)
    BY <2>2, <2>4, <2>6, <2>7 DEF ExtendsHistories
  <2>. QED BY <2>5, <2>8
<1>2. \A key : KeepsKey(s, t, key)
  BY DEF KeepsKey, Transitioned
<1>. QED BY <1>1, <1>2

LEMMA UnchangedSnapshot ==
    ASSUME NEW s, IsSnapshot(s)
    PROVE  KeepsTerminalJobs(s, s) /\ ExtendsHistories(s, s) /\ \A key : KeepsKey(s, s, key)
<1>1. DOMAIN s.events \subseteq JobIds /\ \A id \in DOMAIN s.events : Len(s.events[id]) \in Nat
  BY DEF IsSnapshot, IsMap
<1>. QED BY <1>1 DEF KeepsTerminalJobs, ExtendsHistories, KeepsKey
=============================================================================
