----------------------- MODULE ReferenceService_proofs -----------------------
(* Proofs about ReferenceService, for any number of tasks and clients, as     *)
(* long as each process runs one call at a time, as the CLI's do, and no two  *)
(* mutating job calls overlap, which is up to the callers: a task is executed *)
(* at most once, a report tells the truth and is lost to a crash only, and    *)
(* the controller is used as it promises to be.                               *)
EXTENDS ReferenceService, JobSnapshot_proofs

\* A process per command. Without it a call may take another's job id.
OwnProcess == \A c, d \in Clients : ProcessOf[c] = ProcessOf[d] => c = d

\* Nobody loads jobs.json while another call that will change it has loaded it
\* and not saved. Without it a save may undo what another has published.
NoOverlap == Serialized = TRUE

\* The awaits of a call that has taken its task's job out of queued, and of one
\* that has executed its task.
Executed == {"put", "succeed", "openReport", "writeReport"}
Running == {"start", "execute"} \cup Executed
Submitting == {"grant"} \cup Running
Cancelling_ == {"cancelling", "cancelled"}
Reporting == {"openReport", "writeReport"}
Awaits == {"idle", "submit"} \cup Submitting \cup Cancelling_

(* Every id the service hands out is the task's own.                          *)
JobsInv ==
    /\ IsSnapshot(jobs) /\ WellFormed(jobs)
    /\ DOMAIN jobs.idempotencyKeys = DOMAIN jobs.jobs
    /\ \A t \in DOMAIN jobs.jobs : jobs.idempotencyKeys[t] = t /\ jobs.jobs[t].procedureId = t

CallsTyped ==
    /\ pc \in [Clients -> Awaits]
    /\ task \in [Clients -> Tasks \cup {None}] /\ job \in [Clients -> Tasks \cup {None}]

(* What the call of client c, at its await, knows of its task.                *)
Knows(c) ==
    /\ pc[c] = "submit" => task[c] \in Tasks /\ currentJobId[ProcessOf[c]] = task[c]
    /\ pc[c] \in Submitting => task[c] \in DOMAIN jobs.jobs /\ job[c] = task[c]
    /\ pc[c] \in Cancelling_ => task[c] \in DOMAIN jobs.jobs

CallsInv ==
    /\ CallsTyped /\ currentJobId \in [Processes -> Tasks \cup {None}]
    /\ \A c \in Clients : Knows(c)

(* One call at most has taken the job of a task out of queued; until it has   *)
(* executed the task, nobody has.                                             *)
RunsInv ==
    /\ executions \in [Tasks -> {0, 1}]
    /\ \A t \in Tasks : t \notin DOMAIN jobs.jobs => executions[t] = 0
    /\ \A t \in DOMAIN jobs.jobs : jobs.jobs[t].state = "queued" =>
          executions[t] = 0 /\ \A c \in Clients : task[c] = t => pc[c] \notin Running
    /\ \A c \in Clients : pc[c] \in Running => executions[task[c]] = IF pc[c] \in Executed THEN 1 ELSE 0
    /\ \A c, d \in Clients : pc[c] \in Running /\ pc[d] \in Running /\ task[c] = task[d] => c = d

(* What stands behind a report, written or being written.                     *)
ReportsInv ==
    /\ reports \in [Tasks -> {Absent, Partial} \cup {Report(t) : t \in Tasks}]
    /\ \A c \in Clients :
          /\ pc[c] \in {"succeed"} \cup Reporting => task[c] \in objects
          /\ pc[c] \in Reporting => jobs.jobs[task[c]].state = "succeeded"
    /\ \A t \in Tasks : reports[t].state = "succeeded" =>
          /\ reports[t].jobId = t /\ t \in DOMAIN jobs.jobs /\ jobs.jobs[t].state = "succeeded"
          /\ executions[t] = 1 /\ t \in objects
    /\ ReportsLostOnlyByCrash

RunInv == JobsInv /\ CallsInv /\ RunsInv /\ ReportsInv

(* A call about to save has in hand what its call makes of the jobs as they   *)
(* are: nothing has been published since it loaded them.                      *)
Pending(c) ==
    \/ /\ pc[c] = "submit" /\ task[c] \in Tasks \ DOMAIN jobs.jobs /\ job[c] = task[c]
       /\ draft[c] = Submitted(jobs, ProcedureOf(task[c]), task[c])
    \/ /\ pc[c] \in DOMAIN Target /\ CanTransition(jobs, Subject(c), Target[pc[c]])
       /\ draft[c] = Transitioned(jobs, Subject(c), Target[pc[c]], None)

DraftsInv ==
    /\ saving \subseteq Clients /\ \A c, d \in saving : c = d
    /\ DOMAIN draft = Clients
    /\ \A c \in saving : Pending(c)

ServiceInv == RunInv /\ DraftsInv
-----------------------------------------------------------------------------
\* Facts about the edge table that the steps of a run rest on.
LEMMA EdgeFacts ==
    ASSUME NEW from, NEW to, isLegalTransition(from, to)
    PROVE  /\ from # "succeeded" /\ to # "queued"
           /\ to = "granted" => from = "queued"
<1>1. <<from, to>> \in EDGES
  BY DEF isLegalTransition
<1>2. \/ <<from, to>> \in {<<"queued", "granted">>, <<"queued", "cancelled">>,
                           <<"granted", "running">>, <<"granted", "cancelled">>, <<"granted", "expired">>}
      \/ from = "running" /\ to \in {"checkpointed", "succeeded", "failed", "cancelling", "timed-out"}
      \/ from = "checkpointed" /\ to \in {"running", "failed", "cancelling", "timed-out"}
      \/ from = "cancelling" /\ to \in {"cancelled", "failed"}
  BY <1>1 DEF EDGES
<1> QED BY <1>2

\* A legal transition of one job leaves every other, and every id, as it is.
LEMMA Moved ==
    ASSUME JobsInv, NEW id, NEW to \in JOB_STATES, CanTransition(jobs, id, to),
           jobs' = Transitioned(jobs, id, to, None)
    PROVE  /\ JobsInv' /\ DOMAIN jobs'.jobs = DOMAIN jobs.jobs
           /\ \A t \in DOMAIN jobs.jobs :
                 jobs'.jobs[t].state = IF t = id THEN to ELSE jobs.jobs[t].state
<1>1. id \in DOMAIN jobs.jobs
  BY DEF CanTransition
<1>2. IsSnapshot(jobs') /\ WellFormed(jobs')
  BY <1>1, TransitionedIsSnapshot, TransitionedWellFormed DEF JobsInv
<1>3. /\ DOMAIN jobs'.jobs = DOMAIN jobs.jobs
      /\ \A t \in DOMAIN jobs.jobs :
            jobs'.jobs[t] = IF t = id THEN TransitionedJob(jobs.jobs[t], to, None) ELSE jobs.jobs[t]
      /\ jobs'.idempotencyKeys = jobs.idempotencyKeys
  BY <1>1 DEF JobsInv, IsSnapshot, IsMap, Transitioned
<1>4. ASSUME NEW t \in DOMAIN jobs.jobs
      PROVE  /\ jobs'.jobs[t].procedureId = jobs.jobs[t].procedureId
             /\ jobs'.jobs[t].state = IF t = id THEN to ELSE jobs.jobs[t].state
  <2>1. CASE t = id
    <3>1. jobs'.jobs[t] = TransitionedJob(jobs.jobs[t], to, None)
      BY <1>3, <2>1
    <3> QED BY <2>1, <3>1 DEF TransitionedJob
  <2>2. CASE t # id
    BY <1>3, <2>2
  <2> QED BY <2>1, <2>2
<1> QED BY <1>2, <1>3, <1>4 DEF JobsInv

\* Every task's procedure is one the controller takes.
LEMMA ProcedureTyped == ASSUME NEW t \in Tasks PROVE ProcedureOf(t) \in Procedure
  BY ServiceAssumption DEF ProcedureOf, Procedure, Idempotency

\* A submit of a task whose key is not known creates its job, queued.
LEMMA Created ==
    ASSUME JobsInv, NEW t \in Tasks, t \notin DOMAIN jobs.jobs,
           jobs' = Submitted(jobs, ProcedureOf(t), t)
    PROVE  /\ JobsInv' /\ DOMAIN jobs'.jobs = DOMAIN jobs.jobs \cup {t}
           /\ jobs'.jobs[t].state = "queued"
           /\ \A u \in DOMAIN jobs.jobs : jobs'.jobs[u] = jobs.jobs[u]
<1>1. ProcedureOf(t) \in Procedure /\ t \in JobIds /\ t \in Keys /\ t # None
  BY ServiceAssumption, ProcedureTyped
<1>2. /\ ProcedureOf(t).idempotencyKey = t /\ ProcedureOf(t).id = t
  BY DEF ProcedureOf
<1>3. ~ KnownKey(jobs, ProcedureOf(t)) /\ ~ KeyMissing(ProcedureOf(t)) /\ ~ Duplicate(jobs, ProcedureOf(t))
  BY <1>1 DEF JobsInv, KnownKey, KeyMissing, Duplicate, ProcedureOf
<1>4. IsSnapshot(jobs') /\ WellFormed(jobs')
  BY <1>1, <1>3, SubmittedIsSnapshot, SubmittedWellFormed DEF JobsInv, Accepts
<1> DEFINE queued == [procedureId |-> t, state |-> "queued", attempt |-> 0, checkpoint |-> None]
<1>5. /\ jobs'.jobs = Put(jobs.jobs, t, queued)
      /\ jobs'.idempotencyKeys = Put(jobs.idempotencyKeys, t, t)
  BY <1>1, <1>2 DEF Submitted
<1> HIDE DEF queued
<1>6. /\ DOMAIN jobs'.jobs = DOMAIN jobs.jobs \cup {t} /\ jobs'.jobs[t] = queued
      /\ \A u \in DOMAIN jobs.jobs : jobs'.jobs[u] = jobs.jobs[u]
      /\ DOMAIN jobs'.idempotencyKeys = DOMAIN jobs.idempotencyKeys \cup {t}
      /\ jobs'.idempotencyKeys[t] = t
      /\ \A u \in DOMAIN jobs.jobs : jobs'.idempotencyKeys[u] = jobs.idempotencyKeys[u]
  BY <1>5 DEF Put, JobsInv
<1>7. queued.procedureId = t /\ queued.state = "queued"
  BY DEF queued
<1> QED BY <1>4, <1>6, <1>7 DEF JobsInv
-----------------------------------------------------------------------------
\* A step of client c leaves the other clients' calls where they are.
Moves(c) ==
    /\ CallsTyped'
    /\ \A d \in Clients \ {c} : pc'[d] = pc[d] /\ task'[d] = task[d] /\ job'[d] = job[d]

\* The step takes job id along an edge, and no other job anywhere.
JobMoves(id, to) ==
    /\ id \in DOMAIN jobs.jobs /\ isLegalTransition(jobs.jobs[id].state, to)
    /\ \A t \in DOMAIN jobs.jobs :
          jobs'.jobs[t].state = IF t = id THEN to ELSE jobs.jobs[t].state

LEMMA GotoMoves ==
    ASSUME CallsTyped, NEW c \in Clients, NEW label \in Awaits, Goto(c, label), UNCHANGED <<task, job>>
    PROVE  Moves(c) /\ pc'[c] = label /\ task'[c] = task[c] /\ job'[c] = job[c]
BY DEF CallsTyped, Goto, Moves

LEMMA FinishMoves ==
    ASSUME CallsTyped, NEW c \in Clients, Finish(c)
    PROVE  Moves(c) /\ pc'[c] = "idle"
<1>1. "idle" \in Awaits
  BY DEF Awaits
<1> QED BY <1>1 DEF CallsTyped, Finish, Goto, Moves

\* What the other calls know stays true while no job is forgotten.
LEMMA CallsKept ==
    ASSUME CallsInv, NEW c \in Clients, Moves(c), Knows(c)',
           DOMAIN jobs.jobs \subseteq DOMAIN jobs'.jobs, currentJobId' = currentJobId
    PROVE  CallsInv'
<1>1. ASSUME NEW d \in Clients, d # c PROVE Knows(d)'
  BY <1>1 DEF CallsInv, Knows, Moves
<1> QED BY <1>1 DEF CallsInv, Moves

\* RunsInv survives a step that executes nothing and starts no run.
LEMMA RunsKept ==
    ASSUME JobsInv', CallsInv, RunsInv, executions' = executions,
           DOMAIN jobs.jobs \subseteq DOMAIN jobs'.jobs,
           \A t \in DOMAIN jobs.jobs : jobs'.jobs[t].state = "queued" => jobs.jobs[t].state = "queued",
           \A d \in Clients : pc'[d] \in Running =>
               /\ pc[d] \in Running /\ task'[d] = task[d]
               /\ pc'[d] \in Executed <=> pc[d] \in Executed
    PROVE  RunsInv'
<1>1. DOMAIN jobs'.jobs \subseteq Tasks
  BY ServiceAssumption DEF JobsInv, IsSnapshot, IsMap
<1>2. ASSUME NEW t \in Tasks, t \notin DOMAIN jobs'.jobs PROVE executions'[t] = 0
  BY <1>2 DEF RunsInv
<1>3. ASSUME NEW t \in DOMAIN jobs'.jobs, jobs'.jobs[t].state = "queued"
      PROVE  executions'[t] = 0 /\ \A c \in Clients : task'[c] = t => pc'[c] \notin Running
  <2>1. CASE t \in DOMAIN jobs.jobs
    BY <1>3, <2>1 DEF RunsInv
  <2>2. CASE t \notin DOMAIN jobs.jobs
    <3>1. executions[t] = 0
      BY <1>1, <2>2 DEF RunsInv
    <3>2. \A c \in Clients : pc[c] \in Running => task[c] # t
      BY <2>2 DEF CallsInv, Knows, Submitting
    <3> QED BY <3>1, <3>2
  <2> QED BY <2>1, <2>2
<1>4. ASSUME NEW c \in Clients, pc'[c] \in Running
      PROVE  executions'[task'[c]] = IF pc'[c] \in Executed THEN 1 ELSE 0
  BY <1>4 DEF RunsInv
<1>5. ASSUME NEW c \in Clients, NEW d \in Clients, pc'[c] \in Running, pc'[d] \in Running, task'[c] = task'[d]
      PROVE  c = d
  BY <1>5 DEF RunsInv
<1>6. executions' \in [Tasks -> {0, 1}]
  BY DEF RunsInv
<1> QED BY <1>2, <1>3, <1>4, <1>5, <1>6 DEF RunsInv

\* No job is forgotten or queued again, and none of them comes to succeed.
Evolves ==
    /\ DOMAIN jobs.jobs \subseteq DOMAIN jobs'.jobs
    /\ \A t \in DOMAIN jobs.jobs : jobs'.jobs[t].state = "queued" => jobs.jobs[t].state = "queued"
    /\ \A t \in DOMAIN jobs'.jobs : jobs'.jobs[t].state = "succeeded" <=>
           t \in DOMAIN jobs.jobs /\ jobs.jobs[t].state = "succeeded"

LEMMA JobEvolves ==
    ASSUME DOMAIN jobs'.jobs = DOMAIN jobs.jobs, NEW id, NEW to, to # "succeeded",
           jobs' = jobs \/ JobMoves(id, to)
    PROVE  Evolves
<1>1. CASE jobs' = jobs
  BY <1>1 DEF Evolves
<1>2. CASE JobMoves(id, to)
  <2>1. jobs.jobs[id].state # "succeeded" /\ to # "queued"
    BY <1>2, EdgeFacts DEF JobMoves
  <2> QED BY <1>2, <2>1 DEF Evolves, JobMoves
<1> QED BY <1>1, <1>2

\* ReportsInv survives a step that writes no report and puts no artifact.
LEMMA ReportsKept ==
    ASSUME CallsInv, ReportsInv, reports' = reports, objects' = objects, Evolves, lost \subseteq lost',
           \A t \in Tasks : executions[t] = 1 => executions'[t] = 1,
           \A d \in Clients :
               /\ pc'[d] \in {"succeed"} \cup Reporting => pc'[d] = pc[d] /\ task'[d] = task[d]
               /\ pc[d] \in Reporting => (pc'[d] = pc[d] /\ task'[d] = task[d]) \/ task[d] \in lost'
    PROVE  ReportsInv'
<1>1. ASSUME NEW d \in Clients
      PROVE  /\ pc'[d] \in {"succeed"} \cup Reporting => task'[d] \in objects'
             /\ pc'[d] \in Reporting => jobs'.jobs[task'[d]].state = "succeeded"
  <2>1. pc[d] \in Reporting => task[d] \in DOMAIN jobs.jobs
    BY DEF CallsInv, Knows, Reporting, Submitting, Running, Executed
  <2> QED BY <2>1 DEF ReportsInv, Evolves
<1>2. ASSUME NEW t \in Tasks, reports'[t].state = "succeeded"
      PROVE  /\ reports'[t].jobId = t /\ t \in DOMAIN jobs'.jobs /\ jobs'.jobs[t].state = "succeeded"
             /\ executions'[t] = 1 /\ t \in objects'
  BY <1>2 DEF ReportsInv, Evolves
<1>3. ReportsLostOnlyByCrash'
  <2> SUFFICES ASSUME NEW t \in DOMAIN jobs'.jobs, jobs'.jobs[t].state = "succeeded",
                      reports'[t].state # "succeeded", t \notin lost'
               PROVE  \E d \in Clients : task'[d] = t /\ pc'[d] \in Reporting
    BY DEF ReportsLostOnlyByCrash, Reporting
  <2>1. t \in DOMAIN jobs.jobs /\ jobs.jobs[t].state = "succeeded" /\ t \notin lost
    BY DEF Evolves
  <2>2. PICK d \in Clients : task[d] = t /\ pc[d] \in Reporting
    BY <2>1 DEF ReportsInv, ReportsLostOnlyByCrash, Reporting
  <2> QED BY <2>2
<1> QED BY <1>1, <1>2, <1>3 DEF ReportsInv

\* A step of client c that neither starts nor ends a run nor enters a later
\* part of one leaves all that is known of runs and reports true.
LEMMA Quiet ==
    ASSUME RunInv, JobsInv', Evolves, NEW c \in Clients, Moves(c),
           UNCHANGED <<executions, reports, objects, lost>>, pc[c] \notin Reporting,
           pc'[c] \notin {"succeed"} \cup Reporting,
           pc'[c] \in Running => /\ pc[c] \in Running /\ task'[c] = task[c]
                                 /\ pc'[c] \in Executed <=> pc[c] \in Executed
    PROVE  RunsInv' /\ ReportsInv'
<1>1. RunsInv'
  <2>1. \A d \in Clients : pc'[d] \in Running =>
            /\ pc[d] \in Running /\ task'[d] = task[d]
            /\ pc'[d] \in Executed <=> pc[d] \in Executed
    BY DEF Moves
  <2> QED BY <2>1, RunsKept DEF RunInv, Evolves
<1>2. ReportsInv'
  <2>1. \A d \in Clients :
            /\ pc'[d] \in {"succeed"} \cup Reporting => pc'[d] = pc[d] /\ task'[d] = task[d]
            /\ pc[d] \in Reporting => (pc'[d] = pc[d] /\ task'[d] = task[d]) \/ task[d] \in lost'
    BY DEF Moves
  <2> QED BY <2>1, ReportsKept DEF RunInv
<1> QED BY <1>1, <1>2

\* The jobs stay as they are.
LEMMA JobsUnchanged == ASSUME JobsInv, jobs' = jobs PROVE JobsInv' /\ Evolves
BY DEF JobsInv, Evolves
-----------------------------------------------------------------------------
(* Each step, one by one.                                                     *)

LEMMA RunTaskKeeps ==
    ASSUME OwnProcess, RunInv, NEW c \in Clients, NEW t \in Tasks, RunTask(c, t)
    PROVE  RunInv'
<1>1. JobsInv' /\ Evolves
  BY JobsUnchanged DEF RunInv, RunTask, store
<1>2. Moves(c) /\ pc'[c] = "submit" /\ task'[c] = t
  BY DEF RunInv, CallsInv, CallsTyped, RunTask, Goto, Moves, Awaits
<1>3. pc[c] = "idle" /\ UNCHANGED <<executions, reports, objects, lost>>
  BY DEF RunTask, store
<1>4. RunsInv' /\ ReportsInv'
  BY <1>1, <1>2, <1>3, Quiet DEF Reporting, Running, Executed
<1>5. /\ currentJobId' \in [Processes -> Tasks \cup {None}] /\ currentJobId'[ProcessOf[c]] = t
      /\ \A p \in Processes \ {ProcessOf[c]} : currentJobId'[p] = currentJobId[p]
  BY ServiceAssumption DEF RunInv, CallsInv, RunTask
<1>6. ASSUME NEW d \in Clients PROVE Knows(d)'
  <2>1. CASE d = c
    BY <1>2, <1>5, <2>1 DEF Knows, Submitting, Running, Executed, Cancelling_
  <2>2. CASE d # c
    <3>1. ProcessOf[d] \in Processes \ {ProcessOf[c]}
      BY <2>2, ServiceAssumption DEF OwnProcess
    <3> QED BY <1>1, <1>2, <1>5, <2>2, <3>1 DEF RunInv, CallsInv, Knows, Moves, Evolves
  <2> QED BY <2>1, <2>2
<1> QED BY <1>1, <1>2, <1>4, <1>5, <1>6 DEF RunInv, CallsInv, Moves

LEMMA CancelKeeps ==
    ASSUME RunInv, NEW c \in Clients, NEW t \in Tasks, Cancel(c, t)
    PROVE  RunInv'
<1>1. JobsInv' /\ Evolves
  BY JobsUnchanged DEF RunInv, Cancel, store
<1>2. PICK label \in Cancelling_ : Goto(c, label)
  BY DEF Cancel, Cancelling_
<1>3. Moves(c) /\ pc'[c] = label /\ task'[c] = t
  BY <1>2 DEF RunInv, CallsInv, CallsTyped, Cancel, Goto, Moves, Awaits
<1>4. /\ pc[c] = "idle" /\ t \in DOMAIN jobs.jobs
      /\ UNCHANGED <<executions, reports, objects, lost, currentJobId, jobs>>
  BY DEF Cancel, store
<1>5. RunsInv' /\ ReportsInv'
  BY <1>1, <1>3, <1>4, Quiet DEF Reporting, Running, Executed, Cancelling_
<1>6. Knows(c)'
  BY <1>3, <1>4 DEF Knows, Submitting, Running, Executed, Cancelling_
<1> QED BY <1>1, <1>3, <1>4, <1>5, <1>6, CallsKept DEF RunInv, Evolves

\* A step that touches nothing but what some call is about to save.
LEMMA UntouchedKeeps ==
    ASSUME RunInv, UNCHANGED <<jobs, objects, reports, currentJobId, pc, task, job, executions, lost>>
    PROVE  RunInv'
BY DEF RunInv, JobsInv, CallsInv, CallsTyped, Knows, RunsInv, ReportsInv, ReportsLostOnlyByCrash

\* A call that throws, or returns, without a change to what is stored.
LEMMA FinishKeeps ==
    ASSUME RunInv, NEW c \in Clients, Finish(c), pc[c] \notin Reporting,
           UNCHANGED <<jobs, objects, reports, currentJobId, executions, lost>>
    PROVE  RunInv' /\ Moves(c)
<1>1. Moves(c) /\ pc'[c] = "idle"
  BY FinishMoves DEF RunInv, CallsInv
<1>2. JobsInv' /\ Evolves
  BY JobsUnchanged DEF RunInv
<1>3. Knows(c)'
  BY <1>1 DEF Knows, Submitting, Running, Executed, Cancelling_
<1>4. RunsInv' /\ ReportsInv'
  BY <1>1, <1>2, Quiet DEF Reporting, Running, Executed
<1> QED BY <1>1, <1>2, <1>3, <1>4, CallsKept DEF RunInv

\* What submit knows of its task when the snapshot has arrived.
LEMMA SubmitArrived ==
    ASSUME RunInv, NEW c \in Clients, Submit(c)
    PROVE  /\ task[c] \in Tasks /\ pc[c] = "submit" /\ job' = [job EXCEPT ![c] = task[c]]
           /\ UNCHANGED <<jobs, objects, reports, currentJobId, task, executions, lost>>
           /\ \/ task[c] \in DOMAIN jobs.jobs /\ Goto(c, "grant") /\ UNCHANGED <<saving, draft>>
              \/ /\ task[c] \notin DOMAIN jobs.jobs /\ UNCHANGED pc
                 /\ Draft(c, Submitted(jobs, ProcedureOf(task[c]), task[c]))
<1> DEFINE t == task[c]
<1>1. t \in Tasks /\ currentJobId[ProcessOf[c]] = t /\ pc[c] = "submit"
  BY DEF RunInv, CallsInv, Knows, Submit
<1>2. KnownKey(jobs, ProcedureOf(t)) <=> t \in DOMAIN jobs.jobs
  BY <1>1 DEF KnownKey, ProcedureOf, RunInv, JobsInv
<1>3. ProcedureOf(t).idempotencyKey = t
  BY DEF ProcedureOf
<1>4. CASE KnownKey(jobs, ProcedureOf(t))
  BY <1>1, <1>2, <1>3, <1>4 DEF Submit, RunInv, JobsInv
<1>5. CASE ~ KnownKey(jobs, ProcedureOf(t))
  <2>1. job' = [job EXCEPT ![c] = t]
    BY <1>1, <1>5 DEF Submit
  <2>2. job'[c] = t
    BY <2>1 DEF RunInv, CallsInv, CallsTyped
  <2> QED BY <1>1, <1>2, <1>5, <2>1, <2>2 DEF Submit
<1> QED BY <1>4, <1>5

LEMMA SubmitKeeps ==
    ASSUME RunInv, NEW c \in Clients, Submit(c)
    PROVE  RunInv' /\ Moves(c) /\ job'[c] = task[c]
<1> DEFINE t == task[c]
<1>1. /\ t \in Tasks /\ pc[c] = "submit" /\ job' = [job EXCEPT ![c] = t]
      /\ UNCHANGED <<jobs, objects, reports, currentJobId, task, executions, lost>>
      /\ (Goto(c, "grant") /\ t \in DOMAIN jobs.jobs) \/ UNCHANGED pc
  BY SubmitArrived
<1>2. JobsInv' /\ Evolves
  BY <1>1, JobsUnchanged DEF RunInv
<1>3. /\ Moves(c) /\ task'[c] = t /\ job'[c] = t
      /\ (pc'[c] = "submit" \/ (pc'[c] = "grant" /\ t \in DOMAIN jobs.jobs))
  <2>1. /\ task \in [Clients -> Tasks \cup {None}] /\ pc \in [Clients -> Awaits]
        /\ job' \in [Clients -> Tasks \cup {None}] /\ job'[c] = t
        /\ \A d \in Clients \ {c} : job'[d] = job[d]
    BY <1>1 DEF RunInv, CallsInv, CallsTyped
  <2>2. CASE Goto(c, "grant") /\ t \in DOMAIN jobs.jobs
    <3>1. "grant" \in Awaits
      BY DEF Awaits, Submitting
    <3> QED BY <1>1, <2>1, <2>2, <3>1 DEF CallsTyped, Goto, Moves
  <2>3. CASE UNCHANGED pc
    <3>1. CallsTyped'
      BY <1>1, <2>1, <2>3 DEF CallsTyped
    <3>2. \A d \in Clients \ {c} : pc'[d] = pc[d] /\ task'[d] = task[d] /\ job'[d] = job[d]
      BY <1>1, <2>1, <2>3
    <3>3. Moves(c)
      BY <3>1, <3>2 DEF Moves
    <3>4. pc'[c] = "submit" /\ task'[c] = t
      BY <1>1, <2>3
    <3> QED BY <2>1, <3>3, <3>4
  <2> QED BY <1>1, <2>2, <2>3
<1>4. RunsInv' /\ ReportsInv'
  BY <1>1, <1>2, <1>3, Quiet DEF Reporting, Running, Executed
<1>5. currentJobId'[ProcessOf[c]] = t
  BY <1>1 DEF RunInv, CallsInv, Knows
<1>6. Knows(c)'
  BY <1>1, <1>3, <1>5 DEF Knows, Submitting, Running, Executed, Cancelling_
<1> QED BY <1>1, <1>2, <1>3, <1>4, <1>6, CallsKept DEF RunInv, Evolves

LEMMA TransitKeeps ==
    ASSUME RunInv, NEW c \in Clients, Transit(c)
    PROVE  RunInv' /\ Moves(c)
<1>1. /\ pc[c] \notin Reporting
      /\ UNCHANGED <<jobs, objects, reports, currentJobId, executions, lost>>
      /\ Finish(c) \/ UNCHANGED <<pc, task, job>>
  BY DEF Transit, call, Target, Reporting
<1>2. CASE Finish(c)
  BY <1>1, <1>2, FinishKeeps
<1>3. CASE UNCHANGED <<pc, task, job>>
  BY <1>1, <1>3, UntouchedKeeps DEF Moves, RunInv, CallsInv
<1> QED BY <1>1, <1>2, <1>3

LEMMA SaveSubmit ==
    ASSUME ServiceInv, NEW c \in Clients, Save(c), pc[c] = "submit"
    PROVE  RunInv'
<1> DEFINE t == task[c]
<1>1. /\ t \in Tasks \ DOMAIN jobs.jobs /\ job[c] = t /\ jobs' = Submitted(jobs, ProcedureOf(t), t)
      /\ RunInv
  BY DEF Save, ServiceInv, DraftsInv, Pending, Target
<1>2. /\ Goto(c, "grant") /\ UNCHANGED <<task, job>>
      /\ UNCHANGED <<objects, reports, currentJobId, executions, lost>>
  BY DEF Save, After, Following, call
<1>3. /\ JobsInv' /\ DOMAIN jobs'.jobs = DOMAIN jobs.jobs \cup {t}
      /\ jobs'.jobs[t].state = "queued"
      /\ \A u \in DOMAIN jobs.jobs : jobs'.jobs[u] = jobs.jobs[u]
  BY <1>1, Created DEF RunInv
<1>4. Evolves
  BY <1>1, <1>3 DEF Evolves
<1>5. Moves(c) /\ pc'[c] = "grant" /\ task'[c] = t /\ job'[c] = t
  BY <1>1, <1>2 DEF RunInv, CallsInv, CallsTyped, Goto, Moves, Awaits, Submitting
<1>6. RunsInv' /\ ReportsInv'
  BY <1>1, <1>2, <1>3, <1>4, <1>5, Quiet DEF Reporting, Running, Executed
<1>7. Knows(c)'
  BY <1>3, <1>5 DEF Knows, Submitting, Running, Executed, Cancelling_
<1> QED BY <1>1, <1>2, <1>3, <1>4, <1>5, <1>6, <1>7, CallsKept DEF RunInv, Evolves

\* What the save of a transition does to the jobs and to its caller.
LEMMA SaveMoves ==
    ASSUME ServiceInv, NEW c \in Clients, Save(c), pc[c] # "submit"
    PROVE  /\ RunInv /\ pc[c] \in DOMAIN Target
           /\ Subject(c) = task[c] /\ task[c] \in DOMAIN jobs.jobs
           /\ UNCHANGED <<objects, reports, currentJobId, executions, lost>>
           /\ Moves(c) /\ JobsInv' /\ DOMAIN jobs'.jobs = DOMAIN jobs.jobs
           /\ JobMoves(task[c], Target[pc[c]])
           /\ \/ After(c) = "idle" /\ pc'[c] = "idle"
              \/ /\ After(c) # "idle" /\ pc'[c] = After(c)
                 /\ task'[c] = task[c] /\ job'[c] = job[c]
<1>1. /\ pc[c] \in DOMAIN Target /\ CanTransition(jobs, Subject(c), Target[pc[c]])
      /\ jobs' = Transitioned(jobs, Subject(c), Target[pc[c]], None)
      /\ RunInv
  BY DEF Save, ServiceInv, DraftsInv, Pending
<1>2. Subject(c) = task[c] /\ task[c] \in DOMAIN jobs.jobs
  BY <1>1 DEF RunInv, CallsInv, Knows, Subject, Target, Submitting, Running, Executed, Cancelling_
<1>3. UNCHANGED <<objects, reports, currentJobId, executions, lost>>
  BY DEF Save
<1>4. Target[pc[c]] \in JOB_STATES
  BY <1>1 DEF Target, JOB_STATES
<1>5. JobsInv' /\ DOMAIN jobs'.jobs = DOMAIN jobs.jobs /\ JobMoves(task[c], Target[pc[c]])
  BY <1>1, <1>2, <1>4, Moved DEF RunInv, JobMoves, CanTransition
<1>6. CASE After(c) = "idle"
  <2>1. Finish(c)
    BY <1>6 DEF Save
  <2> QED BY <1>1, <1>2, <1>3, <1>5, <1>6, <2>1, FinishMoves DEF RunInv, CallsInv
<1>7. CASE After(c) # "idle"
  <2>1. Goto(c, After(c)) /\ UNCHANGED <<task, job>>
    BY <1>7 DEF Save, call
  <2>2. After(c) \in Awaits
    BY <1>1 DEF After, Following, Target, Awaits, Submitting, Running, Executed, Cancelling_
  <2> QED BY <1>1, <1>2, <1>3, <1>5, <1>7, <2>1, <2>2, GotoMoves DEF RunInv, CallsInv
<1> QED BY <1>6, <1>7

LEMMA SaveGrant ==
    ASSUME ServiceInv, NEW c \in Clients, Save(c), pc[c] = "grant"
    PROVE  RunInv'
<1> DEFINE t == task[c]
<1>1. /\ RunInv /\ t \in DOMAIN jobs.jobs
      /\ UNCHANGED <<objects, reports, currentJobId, executions, lost>>
      /\ Moves(c) /\ JobsInv' /\ DOMAIN jobs'.jobs = DOMAIN jobs.jobs
      /\ JobMoves(t, "granted") /\ pc'[c] = "start" /\ task'[c] = t /\ job'[c] = job[c]
  BY SaveMoves DEF Target, After, Following
<1>2. job[c] = t
  BY <1>1 DEF RunInv, CallsInv, Knows, Submitting
<1>3. Evolves
  BY <1>1, JobEvolves
<1>4. Knows(c)'
  BY <1>1, <1>2 DEF Knows, Submitting, Running, Executed, Cancelling_
<1>5. CallsInv'
  BY <1>1, <1>4, CallsKept DEF RunInv
<1>6. jobs.jobs[t].state = "queued" /\ jobs'.jobs[t].state = "granted" /\ t \in Tasks
  BY <1>1, EdgeFacts, ServiceAssumption DEF JobMoves, RunInv, JobsInv, IsSnapshot, IsMap
<1>7. executions[t] = 0 /\ \A d \in Clients : task[d] = t => pc[d] \notin Running
  BY <1>1, <1>6 DEF RunInv, RunsInv
<1>8. \A d \in Clients \ {c} : pc'[d] = pc[d] /\ task'[d] = task[d]
  BY <1>1 DEF Moves
<1>9. RunsInv'
  <2>1. executions' \in [Tasks -> {0, 1}]
        /\ \A u \in Tasks : u \notin DOMAIN jobs'.jobs => executions'[u] = 0
    BY <1>1 DEF RunInv, RunsInv
  <2>2. ASSUME NEW u \in DOMAIN jobs'.jobs, jobs'.jobs[u].state = "queued"
        PROVE  executions'[u] = 0 /\ \A d \in Clients : task'[d] = u => pc'[d] \notin Running
    <3>1. u # t /\ jobs.jobs[u].state = "queued"
      BY <1>1, <1>3, <1>6, <2>2 DEF Evolves
    <3> QED BY <1>1, <1>8, <3>1 DEF RunInv, RunsInv
  <2>3. ASSUME NEW d \in Clients, pc'[d] \in Running
        PROVE  executions'[task'[d]] = IF pc'[d] \in Executed THEN 1 ELSE 0
    <3>1. CASE d = c
      BY <1>1, <1>7, <3>1 DEF Executed
    <3>2. CASE d # c
      BY <1>1, <1>8, <2>3, <3>2 DEF RunInv, RunsInv
    <3> QED BY <3>1, <3>2
  <2>4. ASSUME NEW d \in Clients, NEW e \in Clients, pc'[d] \in Running, pc'[e] \in Running, task'[d] = task'[e]
        PROVE  d = e
    BY <1>1, <1>7, <1>8, <2>4 DEF RunInv, RunsInv
  <2> QED BY <2>1, <2>2, <2>3, <2>4 DEF RunsInv
<1>10. ReportsInv'
  <2>1. \A d \in Clients :
            /\ pc'[d] \in {"succeed"} \cup Reporting => pc'[d] = pc[d] /\ task'[d] = task[d]
            /\ pc[d] \in Reporting => (pc'[d] = pc[d] /\ task'[d] = task[d]) \/ task[d] \in lost'
    BY <1>1, <1>8 DEF Reporting
  <2> QED BY <1>1, <1>3, <2>1, ReportsKept DEF RunInv
<1> QED BY <1>1, <1>5, <1>9, <1>10 DEF RunInv

\* The saves that neither grant a job nor let it succeed.
LEMMA SaveOther ==
    ASSUME ServiceInv, NEW c \in Clients, Save(c), pc[c] \in {"start", "cancelling", "cancelled"}
    PROVE  RunInv'
<1> DEFINE t == task[c]
           to == Target[pc[c]]
<1>1. /\ RunInv /\ t \in DOMAIN jobs.jobs
      /\ UNCHANGED <<objects, reports, currentJobId, executions, lost>>
      /\ Moves(c) /\ JobsInv' /\ DOMAIN jobs'.jobs = DOMAIN jobs.jobs
      /\ JobMoves(t, to)
      /\ pc'[c] = "idle" \/ (pc'[c] = After(c) /\ task'[c] = t /\ job'[c] = job[c])
  BY SaveMoves
<1>2. to # "succeeded"
  BY DEF Target
<1>3. After(c) \in {"idle", "execute", "cancelled"} /\ (After(c) = "execute" => pc[c] = "start")
  BY DEF After, Following
<1>4. Evolves
  BY <1>1, <1>2, JobEvolves
<1>5. pc[c] = "start" => job[c] = t
  BY <1>1 DEF RunInv, CallsInv, Knows, Submitting, Running
<1>6. Knows(c)'
  BY <1>1, <1>3, <1>5 DEF Knows, Submitting, Running, Executed, Cancelling_
<1>7. RunsInv' /\ ReportsInv'
  BY <1>1, <1>3, <1>4, Quiet DEF Reporting, Running, Executed
<1> QED BY <1>1, <1>6, <1>7, CallsKept DEF RunInv

LEMMA ExecuteKeeps ==
    ASSUME RunInv, NEW c \in Clients, Execute(c)
    PROVE  RunInv'
<1> DEFINE t == task[c]
<1>1. /\ pc[c] = "execute" /\ t \in DOMAIN jobs.jobs /\ job[c] = t /\ t \in Tasks
      /\ UNCHANGED <<jobs, objects, reports, currentJobId, lost>>
  BY ServiceAssumption DEF RunInv, JobsInv, IsSnapshot, IsMap, CallsInv, Knows, Execute, store, Submitting, Running
<1>2. JobsInv' /\ Evolves
  BY <1>1, JobsUnchanged DEF RunInv
<1>3. CASE Finish(c) /\ UNCHANGED executions
  <2>1. Moves(c) /\ pc'[c] = "idle"
    BY <1>3, FinishMoves DEF RunInv, CallsInv
  <2>2. Knows(c)'
    BY <2>1 DEF Knows, Submitting, Running, Executed, Cancelling_
  <2>3. RunsInv' /\ ReportsInv'
    BY <1>1, <1>2, <1>3, <2>1, Quiet DEF Reporting, Running, Executed
  <2> QED BY <1>1, <1>2, <2>1, <2>2, <2>3, CallsKept DEF RunInv
<1>4. CASE /\ Goto(c, "put") /\ UNCHANGED <<task, job>>
           /\ executions' = [executions EXCEPT ![t] = @ + 1]
  <2>1. "put" \in Awaits
    BY DEF Awaits, Submitting, Running, Executed
  <2>2. Moves(c) /\ pc'[c] = "put" /\ task'[c] = t /\ job'[c] = t
    BY <1>1, <1>4, <2>1, GotoMoves DEF RunInv, CallsInv
  <2>3. Knows(c)'
    BY <1>1, <2>2 DEF Knows, Submitting, Running, Executed, Cancelling_
  <2>4. executions[t] = 0 /\ jobs.jobs[t].state # "queued"
    BY <1>1 DEF RunInv, RunsInv, Running, Executed
  <2>5. /\ executions' \in [Tasks -> {0, 1}] /\ executions'[t] = 1
        /\ \A u \in Tasks \ {t} : executions'[u] = executions[u]
    BY <1>1, <1>4, <2>4 DEF RunInv, RunsInv
  <2>6. \A d \in Clients \ {c} : pc[d] \in Running => task[d] \in Tasks \ {t}
    <3>1. ASSUME NEW d \in Clients \ {c}, pc[d] \in Running PROVE task[d] \in Tasks \ {t}
      <4>1. task[d] \in Tasks
        BY <3>1, ServiceAssumption DEF RunInv, JobsInv, IsSnapshot, IsMap, CallsInv, Knows, Submitting
      <4>2. task[d] # t
        BY <1>1, <3>1 DEF RunInv, RunsInv, Running
      <4> QED BY <4>1, <4>2
    <3> QED BY <3>1
  <2>7. RunsInv'
    <3>1. ASSUME NEW u \in Tasks, u \notin DOMAIN jobs'.jobs PROVE executions'[u] = 0
      BY <1>1, <2>5, <3>1 DEF RunInv, RunsInv
    <3>2. ASSUME NEW u \in DOMAIN jobs'.jobs, jobs'.jobs[u].state = "queued"
          PROVE  executions'[u] = 0 /\ \A d \in Clients : task'[d] = u => pc'[d] \notin Running
      <4>1. u \in Tasks \ {t} /\ u \in DOMAIN jobs.jobs /\ jobs.jobs[u].state = "queued"
        BY <1>1, <2>4, <3>2, ServiceAssumption DEF RunInv, JobsInv, IsSnapshot, IsMap
      <4> QED BY <2>2, <2>5, <4>1 DEF RunInv, RunsInv, Moves
    <3>3. ASSUME NEW d \in Clients, pc'[d] \in Running
          PROVE  executions'[task'[d]] = IF pc'[d] \in Executed THEN 1 ELSE 0
      <4>1. CASE d = c
        BY <2>2, <2>5, <4>1 DEF Executed
      <4>2. CASE d # c
        BY <2>2, <2>5, <2>6, <3>3, <4>2 DEF RunInv, RunsInv, Moves
      <4> QED BY <4>1, <4>2
    <3>4. ASSUME NEW d \in Clients, NEW e \in Clients, pc'[d] \in Running, pc'[e] \in Running, task'[d] = task'[e]
          PROVE  d = e
      BY <1>1, <2>2, <2>6, <3>4 DEF RunInv, RunsInv, Moves
    <3> QED BY <2>5, <3>1, <3>2, <3>3, <3>4 DEF RunsInv
  <2>8. ReportsInv'
    <3>1. \A d \in Clients :
              /\ pc'[d] \in {"succeed"} \cup Reporting => pc'[d] = pc[d] /\ task'[d] = task[d]
              /\ pc[d] \in Reporting => (pc'[d] = pc[d] /\ task'[d] = task[d]) \/ task[d] \in lost'
      BY <1>1, <2>2 DEF Moves, Reporting
    <3>2. \A u \in Tasks : executions[u] = 1 => executions'[u] = 1
      BY <2>5
    <3> QED BY <1>1, <1>2, <3>1, <3>2, ReportsKept DEF RunInv
  <2> QED BY <1>1, <1>2, <2>2, <2>3, <2>7, <2>8, CallsKept DEF RunInv
<1> QED BY <1>3, <1>4 DEF Execute, call

\* The part of a run after the task was executed starts no other run.
LEMMA ExecutedKeeps ==
    ASSUME RunInv, JobsInv', NEW c \in Clients, Moves(c), pc[c] \in Executed, executions' = executions,
           DOMAIN jobs'.jobs = DOMAIN jobs.jobs,
           \A t \in DOMAIN jobs.jobs : jobs'.jobs[t].state = "queued" => jobs.jobs[t].state = "queued",
           pc'[c] = "idle" \/ (pc'[c] \in Executed /\ task'[c] = task[c])
    PROVE  RunsInv'
<1>1. \A d \in Clients : pc'[d] \in Running =>
          /\ pc[d] \in Running /\ task'[d] = task[d]
          /\ pc'[d] \in Executed <=> pc[d] \in Executed
  BY DEF Moves, Running, Executed
<1> QED BY <1>1, RunsKept DEF RunInv

LEMMA PutArtifactKeeps ==
    ASSUME RunInv, NEW c \in Clients, PutArtifact(c)
    PROVE  RunInv'
<1> DEFINE t == task[c]
<1>1. /\ pc[c] = "put" /\ t \in DOMAIN jobs.jobs /\ job[c] = t
      /\ objects' = objects \cup {t} /\ Goto(c, "succeed")
      /\ UNCHANGED <<jobs, reports, currentJobId, task, job, executions, lost>>
  BY DEF RunInv, CallsInv, Knows, PutArtifact, store, call, Submitting, Running, Executed
<1>2. JobsInv'
  BY <1>1, JobsUnchanged DEF RunInv
<1>3. "succeed" \in Awaits
  BY DEF Awaits, Submitting, Running, Executed
<1>4. Moves(c) /\ pc'[c] = "succeed" /\ task'[c] = t /\ job'[c] = t
  BY <1>1, <1>3, GotoMoves DEF RunInv, CallsInv
<1>5. Knows(c)'
  BY <1>1, <1>4 DEF Knows, Submitting, Running, Executed, Cancelling_
<1>6. RunsInv'
  BY <1>1, <1>2, <1>4, ExecutedKeeps DEF Executed
<1>7. ReportsInv'
  <2>1. ReportsLostOnlyByCrash'
    BY <1>1, <1>4 DEF RunInv, ReportsInv, ReportsLostOnlyByCrash, Moves
  <2>2. ASSUME NEW d \in Clients
        PROVE  /\ pc'[d] \in {"succeed"} \cup Reporting => task'[d] \in objects'
               /\ pc'[d] \in Reporting => jobs'.jobs[task'[d]].state = "succeeded"
    BY <1>1, <1>4 DEF RunInv, ReportsInv, Moves, Reporting
  <2> QED BY <1>1, <2>1, <2>2 DEF RunInv, ReportsInv
<1> QED BY <1>1, <1>2, <1>4, <1>5, <1>6, <1>7, CallsKept DEF RunInv

LEMMA PutFailsKeeps ==
    ASSUME RunInv, NEW c \in Clients, PutFails(c)
    PROVE  RunInv'
<1>1. /\ Finish(c) /\ pc[c] \notin Reporting
      /\ UNCHANGED <<jobs, objects, reports, currentJobId, executions, lost>>
  BY DEF PutFails, store, Reporting
<1> QED BY <1>1, FinishKeeps

LEMMA SaveSucceed ==
    ASSUME ServiceInv, NEW c \in Clients, Save(c), pc[c] = "succeed"
    PROVE  RunInv'
<1> DEFINE t == task[c]
<1>1. /\ RunInv /\ t \in DOMAIN jobs.jobs
      /\ UNCHANGED <<objects, reports, currentJobId, executions, lost>>
      /\ Moves(c) /\ JobsInv' /\ DOMAIN jobs'.jobs = DOMAIN jobs.jobs
      /\ JobMoves(t, "succeeded") /\ pc'[c] = "openReport" /\ task'[c] = t /\ job'[c] = job[c]
  BY SaveMoves DEF Target, After, Following
<1>2. pc[c] = "succeed" /\ job[c] = t
  BY <1>1 DEF RunInv, CallsInv, Knows, Submitting, Running, Executed
<1>3. Knows(c)'
  BY <1>1, <1>2 DEF Knows, Submitting, Running, Executed, Cancelling_
<1>4. CallsInv'
  BY <1>1, <1>3, CallsKept DEF RunInv
<1>5. \A u \in DOMAIN jobs.jobs : jobs'.jobs[u].state = IF u = t THEN "succeeded" ELSE jobs.jobs[u].state
  BY <1>1 DEF JobMoves
<1>6. RunsInv'
  BY <1>1, <1>2, <1>5, ExecutedKeeps DEF Executed
<1>7. ASSUME NEW d \in Clients
      PROVE  /\ pc'[d] \in {"succeed"} \cup Reporting => task'[d] \in objects'
             /\ pc'[d] \in Reporting => jobs'.jobs[task'[d]].state = "succeeded"
  <2>1. CASE d = c
    BY <1>1, <1>5, <2>1 DEF RunInv, ReportsInv
  <2>2. CASE d # c
    <3>1. pc'[d] = pc[d] /\ task'[d] = task[d]
      BY <1>1, <2>2 DEF Moves
    <3>2. pc[d] \in Reporting => task[d] \in DOMAIN jobs.jobs
      BY <1>1 DEF RunInv, CallsInv, Knows, Submitting, Running, Executed, Reporting
    <3>3. pc[d] \in {"succeed"} \cup Reporting => task[d] \in objects
      BY <1>1 DEF RunInv, ReportsInv
    <3>4. pc[d] \in Reporting => jobs.jobs[task[d]].state = "succeeded"
      BY <1>1 DEF RunInv, ReportsInv
    <3> QED BY <1>1, <1>5, <3>1, <3>2, <3>3, <3>4
  <2> QED BY <2>1, <2>2
<1>8. ASSUME NEW u \in Tasks, reports'[u].state = "succeeded"
      PROVE  /\ reports'[u].jobId = u /\ u \in DOMAIN jobs'.jobs /\ jobs'.jobs[u].state = "succeeded"
             /\ executions'[u] = 1 /\ u \in objects'
  BY <1>1, <1>2, <1>5, <1>8 DEF RunInv, ReportsInv
<1>9. ReportsLostOnlyByCrash'
  <2> SUFFICES ASSUME NEW u \in DOMAIN jobs'.jobs, jobs'.jobs[u].state = "succeeded",
                      reports'[u].state # "succeeded", u \notin lost'
               PROVE  \E d \in Clients : task'[d] = u /\ pc'[d] \in Reporting
    BY DEF ReportsLostOnlyByCrash, Reporting
  <2>1. CASE u = t
    BY <1>1, <2>1 DEF Reporting
  <2>2. CASE u # t
    <3>1. PICK d \in Clients : task[d] = u /\ pc[d] \in Reporting
      BY <1>1, <1>2, <1>5, <2>2 DEF RunInv, ReportsInv, ReportsLostOnlyByCrash, Reporting
    <3> QED BY <1>1, <2>2, <3>1 DEF Moves
  <2> QED BY <2>1, <2>2
<1> QED BY <1>1, <1>2, <1>4, <1>6, <1>7, <1>8, <1>9 DEF RunInv, ReportsInv

\* What both steps of a report's writeFile leave as it is.
LEMMA WritingKeeps ==
    ASSUME RunInv, NEW c \in Clients, Moves(c), pc[c] \in Reporting,
           pc'[c] = "idle" \/ (pc'[c] \in Reporting /\ task'[c] = task[c] /\ job'[c] = job[c]),
           UNCHANGED <<jobs, objects, currentJobId, executions, lost>>
    PROVE  /\ JobsInv' /\ CallsInv' /\ RunsInv'
           /\ task[c] \in Tasks /\ task[c] \in DOMAIN jobs.jobs /\ jobs.jobs[task[c]].state = "succeeded"
           /\ task[c] \in objects /\ executions[task[c]] = 1
           /\ \A d \in Clients : /\ pc'[d] \in {"succeed"} \cup Reporting => task'[d] \in objects
                                 /\ pc'[d] \in Reporting => jobs.jobs[task'[d]].state = "succeeded"
<1>1. JobsInv'
  BY JobsUnchanged DEF RunInv
<1>2. task[c] \in DOMAIN jobs.jobs /\ job[c] = task[c]
  BY DEF RunInv, CallsInv, Knows, Submitting, Running, Executed, Reporting
<1>3. Knows(c)'
  BY <1>2 DEF Knows, Submitting, Running, Executed, Reporting, Cancelling_
<1>4. CallsInv'
  BY <1>3, CallsKept DEF RunInv
<1>5. RunsInv'
  BY <1>1, ExecutedKeeps DEF Executed, Reporting
<1>6. task[c] \in Tasks
  BY <1>2, ServiceAssumption DEF RunInv, JobsInv, IsSnapshot, IsMap
<1>7. executions[task[c]] = 1
  BY DEF RunInv, RunsInv, Running, Executed, Reporting
<1>8. jobs.jobs[task[c]].state = "succeeded" /\ task[c] \in objects
  BY DEF RunInv, ReportsInv
<1>9. ASSUME NEW d \in Clients
      PROVE  /\ pc'[d] \in {"succeed"} \cup Reporting => task'[d] \in objects
             /\ pc'[d] \in Reporting => jobs.jobs[task'[d]].state = "succeeded"
  BY <1>8 DEF RunInv, ReportsInv, Moves, Reporting
<1> QED BY <1>1, <1>2, <1>4, <1>5, <1>6, <1>7, <1>8, <1>9

LEMMA OpenReportKeeps ==
    ASSUME RunInv, NEW c \in Clients, OpenReport(c)
    PROVE  RunInv'
<1> DEFINE t == task[c]
<1>1. /\ pc[c] = "openReport" /\ Goto(c, "writeReport") /\ reports' = [reports EXCEPT ![t] = Partial]
      /\ UNCHANGED <<jobs, objects, currentJobId, task, job, executions, lost>>
  BY DEF OpenReport, store, call
<1>2. "writeReport" \in Awaits
  BY DEF Awaits, Submitting, Running, Executed
<1>3. Moves(c) /\ pc'[c] = "writeReport" /\ task'[c] = t /\ job'[c] = job[c]
  BY <1>1, <1>2, GotoMoves DEF RunInv, CallsInv
<1>4. /\ JobsInv' /\ CallsInv' /\ RunsInv' /\ t \in Tasks
      /\ \A d \in Clients : /\ pc'[d] \in {"succeed"} \cup Reporting => task'[d] \in objects
                            /\ pc'[d] \in Reporting => jobs.jobs[task'[d]].state = "succeeded"
  BY <1>1, <1>3, WritingKeeps DEF Reporting
<1>5. /\ reports' \in [Tasks -> {Absent, Partial} \cup {Report(u) : u \in Tasks}]
      /\ reports'[t] = Partial /\ \A u \in Tasks \ {t} : reports'[u] = reports[u]
  BY <1>1, <1>4 DEF RunInv, ReportsInv
<1>6. ASSUME NEW u \in Tasks, reports'[u].state = "succeeded"
      PROVE  /\ reports'[u].jobId = u /\ u \in DOMAIN jobs'.jobs /\ jobs'.jobs[u].state = "succeeded"
             /\ executions'[u] = 1 /\ u \in objects'
  <2>1. u # t
    BY <1>5, <1>6 DEF Partial
  <2> QED BY <1>1, <1>5, <1>6, <2>1 DEF RunInv, ReportsInv
<1>7. ReportsLostOnlyByCrash'
  <2> SUFFICES ASSUME NEW u \in DOMAIN jobs'.jobs, jobs'.jobs[u].state = "succeeded",
                      reports'[u].state # "succeeded", u \notin lost'
               PROVE  \E d \in Clients : task'[d] = u /\ pc'[d] \in Reporting
    BY DEF ReportsLostOnlyByCrash, Reporting
  <2>1. CASE u = t
    BY <1>3, <2>1 DEF Reporting
  <2>2. CASE u # t
    <3>1. u \in Tasks
      BY <1>1, ServiceAssumption DEF RunInv, JobsInv, IsSnapshot, IsMap
    <3>2. PICK d \in Clients : task[d] = u /\ pc[d] \in Reporting
      BY <1>1, <1>5, <2>2, <3>1 DEF RunInv, ReportsInv, ReportsLostOnlyByCrash, Reporting
    <3> QED BY <1>3, <2>2, <3>2 DEF Moves
  <2> QED BY <2>1, <2>2
<1> QED BY <1>1, <1>4, <1>5, <1>6, <1>7 DEF RunInv, ReportsInv

LEMMA WriteReportKeeps ==
    ASSUME RunInv, NEW c \in Clients, WriteReport(c)
    PROVE  RunInv'
<1> DEFINE t == task[c]
<1>1. /\ pc[c] = "writeReport" /\ Finish(c) /\ reports' = [reports EXCEPT ![t] = Report(t)]
      /\ UNCHANGED <<jobs, objects, currentJobId, executions, lost>>
  BY DEF WriteReport, store
<1>2. Moves(c) /\ pc'[c] = "idle"
  BY <1>1, FinishMoves DEF RunInv, CallsInv
<1>3. /\ JobsInv' /\ CallsInv' /\ RunsInv' /\ t \in Tasks
      /\ t \in DOMAIN jobs.jobs /\ jobs.jobs[t].state = "succeeded" /\ t \in objects /\ executions[t] = 1
      /\ \A d \in Clients : /\ pc'[d] \in {"succeed"} \cup Reporting => task'[d] \in objects
                            /\ pc'[d] \in Reporting => jobs.jobs[task'[d]].state = "succeeded"
  BY <1>1, <1>2, WritingKeeps DEF Reporting
<1>4. /\ reports' \in [Tasks -> {Absent, Partial} \cup {Report(u) : u \in Tasks}]
      /\ reports'[t] = Report(t) /\ \A u \in Tasks \ {t} : reports'[u] = reports[u]
  BY <1>1, <1>3 DEF RunInv, ReportsInv
<1>5. ASSUME NEW u \in Tasks, reports'[u].state = "succeeded"
      PROVE  /\ reports'[u].jobId = u /\ u \in DOMAIN jobs'.jobs /\ jobs'.jobs[u].state = "succeeded"
             /\ executions'[u] = 1 /\ u \in objects'
  <2>1. CASE u = t
    BY <1>1, <1>3, <1>4, <2>1 DEF Report
  <2>2. CASE u # t
    BY <1>1, <1>4, <1>5, <2>2 DEF RunInv, ReportsInv
  <2> QED BY <2>1, <2>2
<1>6. ReportsLostOnlyByCrash'
  <2> SUFFICES ASSUME NEW u \in DOMAIN jobs'.jobs, jobs'.jobs[u].state = "succeeded",
                      reports'[u].state # "succeeded", u \notin lost'
               PROVE  \E d \in Clients : task'[d] = u /\ pc'[d] \in Reporting
    BY DEF ReportsLostOnlyByCrash, Reporting
  <2>1. u \in Tasks \ {t}
    BY <1>1, <1>4, ServiceAssumption DEF RunInv, JobsInv, IsSnapshot, IsMap, Report
  <2>2. PICK d \in Clients : task[d] = u /\ pc[d] \in Reporting
    BY <1>1, <1>4, <2>1 DEF RunInv, ReportsInv, ReportsLostOnlyByCrash, Reporting
  <2> QED BY <1>2, <2>1, <2>2 DEF Moves
<1> QED BY <1>1, <1>3, <1>4, <1>5, <1>6 DEF RunInv, ReportsInv

LEMMA CrashKeeps ==
    ASSUME RunInv, NEW p \in Processes, Crash(p)
    PROVE  RunInv'
<1> DEFINE calls == {c \in Clients : ProcessOf[c] = p}
<1>1. /\ UNCHANGED <<jobs, objects, reports, executions>> /\ currentJobId' = [currentJobId EXCEPT ![p] = None]
      /\ lost' = lost \cup {task[c] : c \in {d \in calls : pc[d] \in Reporting}}
      /\ pc' = [c \in Clients |-> IF c \in calls THEN "idle" ELSE pc[c]]
      /\ task' = [c \in Clients |-> IF c \in calls THEN None ELSE task[c]]
      /\ job' = [c \in Clients |-> IF c \in calls THEN None ELSE job[c]]
  BY DEF Crash, Reporting
<1>2. JobsInv' /\ Evolves
  BY <1>1, JobsUnchanged DEF RunInv
<1>3. "idle" \in Awaits \ ({"succeed"} \cup Submitting \cup Cancelling_)
  BY DEF Awaits, Submitting, Running, Executed, Cancelling_
<1>4. CallsInv'
  <2>1. CallsTyped' /\ currentJobId' \in [Processes -> Tasks \cup {None}]
    BY <1>1, <1>3 DEF RunInv, CallsInv, CallsTyped
  <2>2. ASSUME NEW d \in Clients PROVE Knows(d)'
    <3>1. CASE d \in calls
      BY <1>1, <1>3, <3>1 DEF Knows
    <3>2. CASE d \notin calls
      <4>1. ProcessOf[d] \in Processes \ {p}
        BY <3>2, ServiceAssumption
      <4>2. currentJobId'[ProcessOf[d]] = currentJobId[ProcessOf[d]]
        BY <1>1, <4>1 DEF RunInv, CallsInv
      <4>3. pc'[d] = pc[d] /\ task'[d] = task[d] /\ job'[d] = job[d]
        BY <1>1, <3>2
      <4> QED BY <1>1, <4>2, <4>3 DEF RunInv, CallsInv, Knows
    <3> QED BY <3>1, <3>2
  <2> QED BY <2>1, <2>2 DEF CallsInv
<1>5. RunsInv'
  <2>1. \A d \in Clients : pc'[d] \in Running =>
            /\ pc[d] \in Running /\ task'[d] = task[d]
            /\ pc'[d] \in Executed <=> pc[d] \in Executed
    BY <1>1, <1>3 DEF Submitting
  <2> QED BY <1>1, <1>2, <2>1, RunsKept DEF RunInv, Evolves
<1>6. ReportsInv'
  <2>1. ASSUME NEW d \in Clients
        PROVE  /\ pc'[d] \in {"succeed"} \cup Reporting => pc'[d] = pc[d] /\ task'[d] = task[d]
               /\ pc[d] \in Reporting => (pc'[d] = pc[d] /\ task'[d] = task[d]) \/ task[d] \in lost'
    BY <1>1 DEF Reporting
  <2> QED BY <1>1, <1>2, <2>1, ReportsKept DEF RunInv
<1> QED BY <1>2, <1>4, <1>5, <1>6 DEF RunInv
-----------------------------------------------------------------------------
LEMMA SaveKeeps == ASSUME ServiceInv, NEW c \in Clients, Save(c) PROVE RunInv'
<1>1. pc[c] \in {"submit", "grant", "start", "succeed", "cancelling", "cancelled"}
  BY DEF Save, ServiceInv, DraftsInv, Pending, Target
<1> QED BY <1>1, SaveSubmit, SaveGrant, SaveSucceed, SaveOther
-----------------------------------------------------------------------------
(* What a call is about to save stays what its call makes of the jobs.        *)

\* A step of client c that is not at its job call's save.
LEMMA DraftsKept ==
    ASSUME DraftsInv, NEW c \in Clients, Moves(c), c \notin saving, UNCHANGED <<jobs, saving, draft>>
    PROVE  DraftsInv'
<1>1. ASSUME NEW d \in saving PROVE Pending(d)'
  BY DEF DraftsInv, Pending, Moves, Subject
<1> QED BY <1>1 DEF DraftsInv

\* A call other than a job call saves nothing.
LEMMA NotSaving ==
    ASSUME DraftsInv, NEW c \in Clients, pc[c] \notin {"submit"} \cup DOMAIN Target
    PROVE  c \notin saving
BY DEF DraftsInv, Pending

\* A call goes on to save what it has made of the jobs as they are.
LEMMA DraftTaken ==
    ASSUME DraftsInv, NoOverlap, NEW c \in Clients, NEW s, Arrives(c), Draft(c, s),
           DOMAIN draft' = Clients /\ draft'[c] = s => Pending(c)'
    PROVE  DraftsInv'
<1>1. saving' = {c} /\ draft' = [draft EXCEPT ![c] = s]
  BY DEF Arrives, Draft, NoOverlap
<1>2. DOMAIN draft' = Clients /\ draft'[c] = s
  BY <1>1 DEF DraftsInv
<1> QED BY <1>1, <1>2 DEF DraftsInv

LEMMA SubmitDrafts ==
    ASSUME ServiceInv, NoOverlap, NEW c \in Clients, Submit(c)
    PROVE  DraftsInv'
<1> DEFINE s == Submitted(jobs, ProcedureOf(task[c]), task[c])
<1>1. /\ RunInv /\ DraftsInv /\ Arrives(c) /\ c \notin saving
      /\ task[c] \in Tasks /\ pc[c] = "submit" /\ UNCHANGED <<jobs, task>>
  BY SubmitArrived DEF ServiceInv, Submit, Arrives
<1>2. Moves(c) /\ job'[c] = task[c]
  BY <1>1, SubmitKeeps
<1>3. CASE UNCHANGED <<saving, draft>>
  BY <1>1, <1>2, <1>3, DraftsKept
<1>4. CASE task[c] \notin DOMAIN jobs.jobs /\ UNCHANGED pc /\ Draft(c, s)
  <2>1. draft'[c] = s => Pending(c)'
    BY <1>1, <1>2, <1>4 DEF Pending
  <2> QED BY <1>1, <1>4, <2>1, DraftTaken
<1> QED BY <1>1, <1>3, <1>4, SubmitArrived

LEMMA TransitDrafts ==
    ASSUME ServiceInv, NoOverlap, NEW c \in Clients, Transit(c)
    PROVE  DraftsInv'
<1> DEFINE s == Transitioned(jobs, Subject(c), Target[pc[c]], None)
<1>1. /\ RunInv /\ DraftsInv /\ Arrives(c) /\ c \notin saving /\ pc[c] \in DOMAIN Target
      /\ jobs' = jobs
  BY DEF ServiceInv, Transit, Arrives
<1>2. Moves(c)
  BY <1>1, TransitKeeps
<1>3. CASE UNCHANGED <<saving, draft>>
  BY <1>1, <1>2, <1>3, DraftsKept
<1>4. CASE CanTransition(jobs, Subject(c), Target[pc[c]]) /\ Draft(c, s) /\ UNCHANGED <<pc, task, job>>
  <2>1. draft'[c] = s => Pending(c)'
    BY <1>1, <1>4 DEF Pending, Subject
  <2> QED BY <1>1, <1>4, <2>1, DraftTaken
<1> QED BY <1>3, <1>4 DEF Transit, call

LEMMA SaveDrafts == ASSUME ServiceInv, NEW c \in Clients, Save(c) PROVE DraftsInv'
<1>1. saving' = {}
  BY DEF Save, ServiceInv, DraftsInv
<1>2. DOMAIN draft' = Clients
  BY DEF Save, ServiceInv, DraftsInv
<1> QED BY <1>1, <1>2 DEF DraftsInv

LEMMA CrashDrafts == ASSUME ServiceInv, NEW p \in Processes, Crash(p) PROVE DraftsInv'
<1>1. /\ DraftsInv /\ jobs' = jobs /\ saving' \subseteq saving /\ DOMAIN draft' = Clients
      /\ \A d \in saving' : /\ d \in Clients /\ draft'[d] = draft[d]
                            /\ pc'[d] = pc[d] /\ task'[d] = task[d] /\ job'[d] = job[d]
  BY DEF Crash, ServiceInv, DraftsInv
<1>2. ASSUME NEW d \in saving' PROVE Pending(d)'
  BY <1>1 DEF DraftsInv, Pending, Subject
<1> QED BY <1>1, <1>2 DEF DraftsInv

\* The steps of a run or a cancel that are not job calls.
LEMMA OtherDrafts ==
    ASSUME ServiceInv, RunInv', NEW c \in Clients,
           (\E t \in Tasks : RunTask(c, t) \/ Cancel(c, t)) \/ Execute(c) \/ PutArtifact(c) \/ PutFails(c)
           \/ OpenReport(c) \/ WriteReport(c)
    PROVE  DraftsInv'
<1>1. DraftsInv /\ pc[c] \notin {"submit"} \cup DOMAIN Target /\ UNCHANGED <<jobs, saving, draft>>
  BY DEF ServiceInv, RunTask, Cancel, Execute, PutArtifact, PutFails, OpenReport, WriteReport, store, Target
<1>2. \A d \in Clients \ {c} : pc'[d] = pc[d] /\ task'[d] = task[d] /\ job'[d] = job[d]
  BY DEF ServiceInv, RunInv, CallsInv, CallsTyped, RunTask, Cancel, Execute, PutArtifact, PutFails,
         OpenReport, WriteReport, Goto, Finish, call
<1>3. Moves(c)
  BY <1>2 DEF RunInv, CallsInv, Moves
<1> QED BY <1>1, <1>3, NotSaving, DraftsKept
-----------------------------------------------------------------------------
LEMMA InitService == Init => ServiceInv
<1> SUFFICES ASSUME Init PROVE ServiceInv
  OBVIOUS
<1>1. JobsInv /\ DOMAIN jobs.jobs = {}
  BY EmptySnapshot DEF Init, JobsInv, EMPTY, EmptyMap
<1>2. CallsInv
  BY ServiceAssumption DEF Init, CallsInv, CallsTyped, Knows, Awaits, Submitting, Running, Executed, Cancelling_
<1>3. RunsInv
  BY <1>1 DEF Init, RunsInv, Running, Executed
<1>4. ReportsInv
  BY <1>1 DEF Init, ReportsInv, ReportsLostOnlyByCrash, Absent, Reporting
<1>5. DraftsInv
  BY DEF Init, DraftsInv
<1> QED BY <1>1, <1>2, <1>3, <1>4, <1>5 DEF ServiceInv, RunInv

LEMMA NextService == ASSUME OwnProcess, NoOverlap, ServiceInv, [Next]_vars PROVE ServiceInv'
<1>1. RunInv /\ DraftsInv
  BY DEF ServiceInv
<1>2. CASE UNCHANGED vars
  <2>1. UNCHANGED <<jobs, saving, draft, objects, reports, currentJobId, pc, task, job, executions, lost>>
    BY <1>2 DEF vars, store, call
  <2>2. RunInv'
    BY <1>1, <2>1, UntouchedKeeps
  <2>3. DraftsInv'
    BY <1>1, <2>1 DEF DraftsInv, Pending, Subject
  <2> QED BY <2>2, <2>3 DEF ServiceInv
<1>3. ASSUME NEW c \in Clients, NEW t \in Tasks, RunTask(c, t) \/ Cancel(c, t) PROVE ServiceInv'
  <2>1. RunInv'
    BY <1>1, <1>3, RunTaskKeeps, CancelKeeps
  <2> QED BY <1>3, <2>1, OtherDrafts DEF ServiceInv
<1>4. ASSUME NEW c \in Clients, Submit(c) \/ Transit(c) \/ Save(c) PROVE ServiceInv'
  BY <1>1, <1>4, SubmitKeeps, SubmitDrafts, TransitKeeps, TransitDrafts, SaveKeeps, SaveDrafts DEF ServiceInv
<1>5. ASSUME NEW c \in Clients,
             Execute(c) \/ PutArtifact(c) \/ PutFails(c) \/ OpenReport(c) \/ WriteReport(c)
      PROVE  ServiceInv'
  <2>1. RunInv'
    BY <1>1, <1>5, ExecuteKeeps, PutArtifactKeeps, PutFailsKeeps, OpenReportKeeps, WriteReportKeeps
  <2> QED BY <1>5, <2>1, OtherDrafts DEF ServiceInv
<1>6. ASSUME NEW p \in Processes, Crash(p) PROVE ServiceInv'
  BY <1>1, <1>6, CrashKeeps, CrashDrafts DEF ServiceInv
<1> QED BY <1>2, <1>3, <1>4, <1>5, <1>6 DEF Next

(* Along every behaviour of the service whose processes run one call at a     *)
(* time and whose mutating job calls do not overlap, ServiceInv holds.        *)
THEOREM ServiceInductive == ASSUME OwnProcess, NoOverlap PROVE Spec => []ServiceInv
<1>1. ServiceInv /\ [Next]_vars => ServiceInv'
  BY NextService
<1> QED BY <1>1, InitService, PTL DEF Spec

(* A task is executed at most once, by however many processes it is run and   *)
(* wherever they die, if no two mutating job calls overlap and no two calls   *)
(* share a process: only one caller takes its job out of queued.              *)
THEOREM OncePerTask == ASSUME OwnProcess, NoOverlap PROVE Spec => []ExecutedAtMostOnce
<1>1. ServiceInv => ExecutedAtMostOnce
  BY DEF ServiceInv, RunInv, RunsInv, ExecutedAtMostOnce
<1> QED BY <1>1, ServiceInductive, PTL

(* A report that parses names the succeeded job of the executed task, and the *)
(* artifact it cites is stored, if no two mutating job calls overlap and no   *)
(* two calls share a process.                                                 *)
THEOREM ReportsTrue == ASSUME OwnProcess, NoOverlap PROVE Spec => []ReportsTruthful
<1>1. ServiceInv => ReportsTruthful
  BY DEF ServiceInv, RunInv, JobsInv, ReportsInv, ReportsTruthful
<1> QED BY <1>1, ServiceInductive, PTL

(* Only a crash between success and report loses a report, if no two mutating *)
(* job calls overlap and no two calls share a process.                        *)
THEOREM ReportsNotLost == ASSUME OwnProcess, NoOverlap PROVE Spec => []ReportsLostOnlyByCrash
<1>1. ServiceInv => ReportsLostOnlyByCrash
  BY DEF ServiceInv, RunInv, ReportsInv
<1> QED BY <1>1, ServiceInductive, PTL

(* Whatever the calls of the service and their crashes, if no two mutating    *)
(* job calls overlap and no two calls share a process, the job snapshot is    *)
(* one that a sequence of legal calls leaves: every history follows the       *)
(* edges, and every record is what its history gives.                         *)
THEOREM ServiceJobsWellFormed == ASSUME OwnProcess, NoOverlap PROVE Spec => [](IsSnapshot(jobs) /\ WellFormed(jobs))
<1>1. ServiceInv => IsSnapshot(jobs) /\ WellFormed(jobs)
  BY DEF ServiceInv, RunInv, JobsInv
<1> QED BY <1>1, ServiceInductive, PTL
-----------------------------------------------------------------------------
\* What a step of the service does to its jobs: nothing, a submit under the task's
\* own id, or a legal transition.
LEMMA JobSteps ==
    ASSUME ServiceInv, [Next]_vars
    PROVE  \/ jobs' = jobs
           \/ \E t \in Tasks \ DOMAIN jobs.jobs : jobs' = Submitted(jobs, ProcedureOf(t), t)
           \/ \E id : \E to \in JOB_STATES :
                 CanTransition(jobs, id, to) /\ jobs' = Transitioned(jobs, id, to, None)
<1>1. CASE UNCHANGED vars
  BY <1>1 DEF vars, store
<1>2. ASSUME NEW c \in Clients, NEW t \in Tasks, RunTask(c, t) \/ Cancel(c, t) PROVE jobs' = jobs
  BY <1>2 DEF RunTask, Cancel, store
<1>3. ASSUME NEW c \in Clients, Submit(c) \/ Transit(c) PROVE jobs' = jobs
  BY <1>3 DEF Submit, Transit
<1>4. ASSUME NEW c \in Clients,
             Execute(c) \/ PutArtifact(c) \/ PutFails(c) \/ OpenReport(c) \/ WriteReport(c)
      PROVE  jobs' = jobs
  BY <1>4 DEF Execute, PutArtifact, PutFails, OpenReport, WriteReport, store
<1>5. ASSUME NEW c \in Clients, Save(c)
      PROVE  \/ \E t \in Tasks \ DOMAIN jobs.jobs : jobs' = Submitted(jobs, ProcedureOf(t), t)
             \/ \E id : \E to \in JOB_STATES :
                   CanTransition(jobs, id, to) /\ jobs' = Transitioned(jobs, id, to, None)
  <2>1. Pending(c) /\ jobs' = draft[c]
    BY <1>5 DEF Save, ServiceInv, DraftsInv
  <2>2. pc[c] \in DOMAIN Target => Target[pc[c]] \in JOB_STATES
    BY DEF Target, JOB_STATES
  <2> QED BY <2>1, <2>2 DEF Pending
<1>6. ASSUME NEW p \in Processes, Crash(p) PROVE jobs' = jobs
  BY <1>6 DEF Crash
<1> QED BY <1>1, <1>2, <1>3, <1>4, <1>5, <1>6 DEF Next

\* The controller's snapshots are the service's.
LEMMA SameSnapshots ==
    /\ Controller!EMPTY = EMPTY /\ Controller!JOB_STATES = JOB_STATES
    /\ \A s, p, id : /\ Controller!Accepts(s, p) <=> Accepts(s, p)
                     /\ Controller!Submitted(s, p, id) = Submitted(s, p, id)
    /\ \A s, id, to, payload :
          /\ Controller!CanTransition(s, id, to) <=> CanTransition(s, id, to)
          /\ Controller!Transitioned(s, id, to, payload) = Transitioned(s, id, to, payload)
<1>1. Controller!EMPTY = EMPTY /\ Controller!JOB_STATES = JOB_STATES
  BY DEF Controller!EMPTY, EMPTY, Controller!EmptyMap, EmptyMap, Controller!JOB_STATES, JOB_STATES
<1>2. ASSUME NEW s, NEW p, NEW id
      PROVE  /\ Controller!Accepts(s, p) <=> Accepts(s, p)
             /\ Controller!Submitted(s, p, id) = Submitted(s, p, id)
  <2>1. Controller!Accepts(s, p) <=> Accepts(s, p)
    BY DEF Controller!Accepts, Accepts, Controller!KeyMissing, KeyMissing, Controller!KnownKey,
           KnownKey, Controller!Duplicate, Duplicate
  <2>2. Controller!Submitted(s, p, id) = Submitted(s, p, id)
    BY DEF Controller!Submitted, Submitted, Controller!Put, Put
  <2> QED BY <2>1, <2>2
<1>3. ASSUME NEW s, NEW id, NEW to, NEW payload
      PROVE  /\ Controller!CanTransition(s, id, to) <=> CanTransition(s, id, to)
             /\ Controller!Transitioned(s, id, to, payload) = Transitioned(s, id, to, payload)
  <2>1. Controller!CanTransition(s, id, to) <=> CanTransition(s, id, to)
    BY DEF Controller!CanTransition, CanTransition, Controller!isLegalTransition, isLegalTransition,
           Controller!EDGES, EDGES
  <2>2. Controller!Transitioned(s, id, to, payload) = Transitioned(s, id, to, payload)
    BY DEF Controller!Transitioned, Transitioned, Controller!TransitionedJob, TransitionedJob,
           Controller!TransitionEvent, TransitionEvent
  <2> QED BY <2>1, <2>2
<1> QED BY <1>1, <1>2, <1>3

\* A call of the service is one the controller answers.
LEMMA StepUses == ASSUME ServiceInv, [Next]_vars PROVE [Controller!Next]_jobs
<1>1. CASE jobs' = jobs
  BY <1>1
<1>2. ASSUME NEW t \in Tasks \ DOMAIN jobs.jobs, jobs' = Submitted(jobs, ProcedureOf(t), t)
      PROVE  Controller!Next
  <2>1. Accepts(jobs, ProcedureOf(t))
    BY <1>2, ServiceAssumption
       DEF Accepts, KeyMissing, KnownKey, Duplicate, ProcedureOf, ServiceInv, RunInv, JobsInv
  <2>2. Controller!Submit(ProcedureOf(t), t)
    BY <1>2, <2>1, SameSnapshots DEF Controller!Submit
  <2>3. t \in JobIds /\ ProcedureOf(t) \in {ProcedureOf(u) : u \in Tasks}
    BY ServiceAssumption
  <2> QED BY <2>2, <2>3 DEF Controller!Next
<1>3. ASSUME NEW id, NEW to \in JOB_STATES, CanTransition(jobs, id, to),
             jobs' = Transitioned(jobs, id, to, None)
      PROVE  Controller!Next
  <2>1. id \in JobIds
    BY <1>3 DEF CanTransition, ServiceInv, RunInv, JobsInv, IsSnapshot, IsMap
  <2>2. Controller!Transition(id, to, None)
    BY <1>3, SameSnapshots DEF Controller!Transition
  <2> QED BY <2>1, <2>2, SameSnapshots DEF Controller!Next
<1> QED BY <1>1, <1>2, <1>3, JobSteps

(* The service uses the controller as it promises to be used: every change of *)
(* the job snapshot is a submit it accepts, under a fresh id, or one legal    *)
(* transition; every other step is a stutter of the controller. The same two  *)
(* conditions hold for it: no overlap, no shared process.                     *)
THEOREM ServiceUsesController == ASSUME OwnProcess, NoOverlap PROVE Spec => UsesController
<1>1. Init => Controller!Init
  BY SameSnapshots DEF Init, Controller!Init
<1>2. ServiceInv /\ [Next]_vars => [Controller!Next]_jobs
  BY StepUses
<1> QED BY <1>1, <1>2, ServiceInductive, PTL DEF Spec, UsesController, Controller!Spec

\* What no step of the service does to its jobs.
LEMMA StepKeepsJobs ==
    ASSUME ServiceInv, [Next]_vars
    PROVE  /\ KeepsTerminalJobs(jobs, jobs') /\ ExtendsHistories(jobs, jobs')
           /\ \A key \in Keys : KeepsKey(jobs, jobs', key)
<1>1. IsSnapshot(jobs) /\ WellFormed(jobs)
  BY DEF ServiceInv, RunInv, JobsInv
<1>2. CASE jobs' = jobs
  BY <1>1, <1>2, UnchangedSnapshot
<1>3. ASSUME NEW t \in Tasks \ DOMAIN jobs.jobs, jobs' = Submitted(jobs, ProcedureOf(t), t)
      PROVE  /\ KeepsTerminalJobs(jobs, jobs') /\ ExtendsHistories(jobs, jobs')
             /\ \A key \in Keys : KeepsKey(jobs, jobs', key)
  <2>1. ProcedureOf(t).idempotencyKey = t /\ t \notin DOMAIN jobs.idempotencyKeys
    BY <1>3 DEF ProcedureOf, ServiceInv, RunInv, JobsInv
  <2>2. \A key \in Keys : KeepsKey(jobs, jobs', key)
    BY <1>3, <2>1, SubmittedKeepsKey
  <2> QED BY <1>1, <1>3, <2>2, SubmittedKeeps
<1>4. ASSUME NEW id, NEW to \in JOB_STATES, CanTransition(jobs, id, to),
             jobs' = Transitioned(jobs, id, to, None)
      PROVE  /\ KeepsTerminalJobs(jobs, jobs') /\ ExtendsHistories(jobs, jobs')
             /\ \A key \in Keys : KeepsKey(jobs, jobs', key)
  BY <1>1, <1>4, TransitionedKeeps
<1> QED BY <1>2, <1>3, <1>4, JobSteps

(* What a caller of the service may rely on: a job that has ended stays as it *)
(* is, however often its task is run or cancelled again; no event is lost or  *)
(* rewritten; a task keeps the job it was submitted as. A save that overlaps  *)
(* another call's breaks this, so no two mutating job calls may overlap.      *)
THEOREM ServiceJobsKept ==
    ASSUME OwnProcess, NoOverlap
    PROVE  Spec => [][/\ KeepsTerminalJobs(jobs, jobs') /\ ExtendsHistories(jobs, jobs')
                      /\ \A key \in Keys : KeepsKey(jobs, jobs', key)]_vars
<1> DEFINE Kept == /\ KeepsTerminalJobs(jobs, jobs') /\ ExtendsHistories(jobs, jobs')
                   /\ \A key \in Keys : KeepsKey(jobs, jobs', key)
<1>1. ServiceInv /\ [Next]_vars => [Kept]_vars
  BY StepKeepsJobs
<1> QED BY <1>1, ServiceInductive, PTL DEF Spec
=============================================================================
