-------------------------- MODULE ReferenceService --------------------------
(* packages/controller/src/reference-service.mjs: runTask and cancel, called  *)
(* through the CLI (a process per command) or the MCP projection (one process *)
(* for all calls). Every await is a step; the calls of other clients run      *)
(* between steps, and a process may die at any of them.                       *)
(*                                                                            *)
(* A submit or transition is two steps: the loaded snapshot arrives and the   *)
(* call decides on its copy, and the save publishes the copy. Nothing in the  *)
(* code keeps two such calls apart. Serialized says that callers do; what     *)
(* overlapping saves do to the temporary file they share is left to JobStore. *)
(* An artifact put is one step, which is what ArtifactStore shows; a report's *)
(* writeFile is two.                                                          *)
(*                                                                            *)
(* Job, procedure, key and run ids are all derived from the task's digest, so *)
(* each is written as the task it is derived from.                            *)
EXTENDS JobSnapshot

CONSTANTS Tasks,
          Deferred,      \* the tasks with defer set
          Unsupported,   \* the tasks whose capability the adapter does not have
          Clients,
          Processes,
          ProcessOf,     \* the process that runs each client's calls
          Serialized     \* TRUE when callers never overlap two mutating job calls

ASSUME ServiceAssumption ==
    /\ Tasks = JobIds /\ Tasks = ProcedureIds /\ Tasks = Keys
    /\ Deferred \subseteq Tasks /\ Unsupported \subseteq Tasks
    /\ ProcessOf \in [Clients -> Processes]
    /\ Serialized \in BOOLEAN
    /\ None \notin Tasks

VARIABLES jobs,          \* the published job snapshot (durable)
          objects,       \* the tasks whose output the artifact store holds (durable)
          reports,       \* runs/<runId>.json of each task (durable)
          currentJobId,  \* the field of each process's service
          pc, task,      \* the await each client is at, and for which task
          job,           \* what submit returned to it
          saving, draft, \* the clients whose job call is saving, and what it saves
          executions,    \* history: how often the adapter executed each task
          lost           \* history: tasks whose process died between success and report

call == <<task, job>>
store == <<jobs, saving, draft>>
vars == <<store, objects, reports, currentJobId, pc, call, executions, lost>>

Absent == [state |-> "absent", jobId |-> None]
Partial == [state |-> "partial", jobId |-> None]
Report(id) == [state |-> "succeeded", jobId |-> id]

ProcedureOf(t) == [id |-> t, idempotency |-> "key-required", idempotencyKey |-> t]

Init ==
    /\ jobs = EMPTY /\ objects = {} /\ reports = [t \in Tasks |-> Absent]
    /\ currentJobId = [p \in Processes |-> None]
    /\ pc = [c \in Clients |-> "idle"] /\ task = [c \in Clients |-> None]
    /\ job = [c \in Clients |-> None]
    /\ saving = {} /\ draft = [c \in Clients |-> EMPTY]
    /\ executions = [t \in Tasks |-> 0] /\ lost = {}
-----------------------------------------------------------------------------
Goto(c, label) == pc' = [pc EXCEPT ![c] = label]

\* The call of client c returns or throws.
Finish(c) == /\ Goto(c, "idle")
             /\ task' = [task EXCEPT ![c] = None]
             /\ job' = [job EXCEPT ![c] = None]

\* What transition is asked for at each await that calls it, of which job, and
\* the await that follows each job call; a deferred task returns once running.
Target == [grant |-> "granted", start |-> "running", succeed |-> "succeeded",
           cancelling |-> "cancelling", cancelled |-> "cancelled"]
Subject(c) == IF pc[c] \in {"cancelling", "cancelled"} THEN task[c] ELSE job[c]
Following == [submit |-> "grant", grant |-> "start", start |-> "execute",
              succeed |-> "openReport", cancelling |-> "cancelled", cancelled |-> "idle"]
After(c) == IF pc[c] = "start" /\ task[c] \in Deferred THEN "idle" ELSE Following[pc[c]]

\* The snapshot a job call of client c has asked for arrives.
Arrives(c) == c \notin saving /\ (Serialized => saving = {})

\* The call goes on to save snapshot s.
Draft(c, s) == saving' = saving \cup {c} /\ draft' = [draft EXCEPT ![c] = s]

\* runTask up to its first await: the job id is left in a field of the service.
RunTask(c, t) ==
    /\ pc[c] = "idle"
    /\ Goto(c, "submit") /\ task' = [task EXCEPT ![c] = t]
    /\ currentJobId' = [currentJobId EXCEPT ![ProcessOf[c]] = t]
    /\ UNCHANGED <<store, objects, reports, job, executions, lost>>

\* Fault variant of Submit: the key of an earlier run is not looked up.
SubmitAfresh(c) ==
    /\ pc[c] = "submit" /\ Arrives(c)
    /\ job' = [job EXCEPT ![c] = currentJobId[ProcessOf[c]]]
    /\ Draft(c, Submitted(jobs, ProcedureOf(task[c]), job'[c])) /\ UNCHANGED pc
    /\ UNCHANGED <<jobs, objects, reports, currentJobId, task, executions, lost>>

\* submit: a known key's job is returned, or a new one made in the copy. Its id
\* is read from the field now that the snapshot has arrived.
Submit(c) ==
    LET p == ProcedureOf(task[c])
    IN  /\ pc[c] = "submit" /\ Arrives(c)
        /\ \/ /\ KnownKey(jobs, p)
              /\ job' = [job EXCEPT ![c] = jobs.idempotencyKeys[p.idempotencyKey]]
              /\ Goto(c, "grant") /\ UNCHANGED <<saving, draft>>
           \/ /\ ~ KnownKey(jobs, p)
              /\ job' = [job EXCEPT ![c] = currentJobId[ProcessOf[c]]]
              /\ Draft(c, Submitted(jobs, p, job'[c])) /\ UNCHANGED pc
        /\ UNCHANGED <<jobs, objects, reports, currentJobId, task, executions, lost>>

\* Fault variant of Transit: a job that is already there counts as moved there.
TransitAgain(c) ==
    LET id == Subject(c)
        to == Target[pc[c]]
    IN  /\ pc[c] \in DOMAIN Target /\ Arrives(c)
        /\ \/ /\ CanTransition(jobs, id, to)
              /\ Draft(c, Transitioned(jobs, id, to, None)) /\ UNCHANGED <<pc, call>>
           \/ /\ ~ CanTransition(jobs, id, to) /\ id \in DOMAIN jobs.jobs
              /\ jobs.jobs[id].state = to
              /\ Draft(c, jobs) /\ UNCHANGED <<pc, call>>
        /\ UNCHANGED <<jobs, objects, reports, currentJobId, executions, lost>>

\* Fault variant of Transit: the edge is not looked up.
TransitUnchecked(c) ==
    /\ pc[c] \in DOMAIN Target /\ Arrives(c) /\ Subject(c) \in DOMAIN jobs.jobs
    /\ Draft(c, Transitioned(jobs, Subject(c), Target[pc[c]], None)) /\ UNCHANGED <<pc, call>>
    /\ UNCHANGED <<jobs, objects, reports, currentJobId, executions, lost>>

\* transition: the job is moved in the copy, or the call, and runTask or cancel
\* with it, throws.
Transit(c) ==
    LET id == Subject(c)
        to == Target[pc[c]]
    IN  /\ pc[c] \in DOMAIN Target /\ Arrives(c)
        /\ \/ /\ CanTransition(jobs, id, to)
              /\ Draft(c, Transitioned(jobs, id, to, None)) /\ UNCHANGED <<pc, call>>
           \/ ~ CanTransition(jobs, id, to) /\ Finish(c) /\ UNCHANGED <<saving, draft>>
        /\ UNCHANGED <<jobs, objects, reports, currentJobId, executions, lost>>

\* The save publishes the copy, and the caller goes on.
Save(c) ==
    /\ c \in saving
    /\ jobs' = draft[c]
    /\ saving' = saving \ {c} /\ draft' = [draft EXCEPT ![c] = EMPTY]
    /\ IF After(c) = "idle" THEN Finish(c) ELSE Goto(c, After(c)) /\ UNCHANGED call
    /\ UNCHANGED <<objects, reports, currentJobId, executions, lost>>

\* adapter.execute; MGDS_UNSUPPORTED_CAPABILITY leaves the job running.
Execute(c) ==
    /\ pc[c] = "execute"
    /\ IF task[c] \in Unsupported
       THEN Finish(c) /\ UNCHANGED executions
       ELSE /\ Goto(c, "put") /\ UNCHANGED <<task, job>>
            /\ executions' = [executions EXCEPT ![task[c]] = @ + 1]
    /\ UNCHANGED <<store, objects, reports, currentJobId, lost>>

PutArtifact(c) ==
    /\ pc[c] = "put"
    /\ objects' = objects \cup {task[c]}
    /\ Goto(c, "succeed")
    /\ UNCHANGED <<store, reports, currentJobId, call, executions, lost>>

\* put throws: another put has made the directory first, or a damaged object is
\* in the way. The job is left running.
PutFails(c) ==
    /\ pc[c] = "put"
    /\ Finish(c)
    /\ UNCHANGED <<store, objects, reports, currentJobId, executions, lost>>

\* writeFile of the report: the file is truncated, then written.
OpenReport(c) ==
    /\ pc[c] = "openReport"
    /\ reports' = [reports EXCEPT ![task[c]] = Partial]
    /\ Goto(c, "writeReport")
    /\ UNCHANGED <<store, objects, currentJobId, call, executions, lost>>

\* Fault variant of WriteReport: the call returns with the report half written.
WriteReportUnflushed(c) ==
    /\ pc[c] = "writeReport"
    /\ Finish(c)
    /\ UNCHANGED <<store, objects, reports, currentJobId, executions, lost>>

\* The report names runTask's own jobId, not the id submit returned.
WriteReport(c) ==
    /\ pc[c] = "writeReport"
    /\ reports' = [reports EXCEPT ![task[c]] = Report(task[c])]
    /\ Finish(c)
    /\ UNCHANGED <<store, objects, currentJobId, executions, lost>>
-----------------------------------------------------------------------------
\* cancel: what get saw decides whether the job is asked to cancel first.
Cancel(c, id) ==
    /\ pc[c] = "idle" /\ id \in DOMAIN jobs.jobs
    /\ task' = [task EXCEPT ![c] = id]
    /\ Goto(c, IF jobs.jobs[id].state \in {"running", "checkpointed"} THEN "cancelling" ELSE "cancelled")
    /\ UNCHANGED <<store, objects, reports, currentJobId, job, executions, lost>>

\* A process dies, and with it every call it runs.
Crash(p) ==
    LET calls == {c \in Clients : ProcessOf[c] = p}
    IN  /\ \E c \in calls : pc[c] # "idle"
        /\ lost' = lost \cup {task[c] : c \in {d \in calls : pc[d] \in {"openReport", "writeReport"}}}
        /\ pc' = [c \in Clients |-> IF c \in calls THEN "idle" ELSE pc[c]]
        /\ task' = [c \in Clients |-> IF c \in calls THEN None ELSE task[c]]
        /\ job' = [c \in Clients |-> IF c \in calls THEN None ELSE job[c]]
        /\ saving' = saving \ calls
        /\ draft' = [c \in Clients |-> IF c \in calls THEN EMPTY ELSE draft[c]]
        /\ currentJobId' = [currentJobId EXCEPT ![p] = None]
        /\ UNCHANGED <<jobs, objects, reports, executions>>

Next ==
    \/ \E c \in Clients :
          \/ \E t \in Tasks : RunTask(c, t) \/ Cancel(c, t)
          \/ Submit(c) \/ Transit(c) \/ Save(c)
          \/ Execute(c) \/ PutArtifact(c) \/ PutFails(c)
          \/ OpenReport(c) \/ WriteReport(c)
    \/ \E p \in Processes : Crash(p)

Spec == Init /\ [][Next]_vars
-----------------------------------------------------------------------------
(* What follows is promised to callers that never overlap two mutating job    *)
(* calls (Serialized) and run one call per process. Two that both load        *)
(* 'queued' would both go on to execute; a stale save would undo the          *)
(* 'succeeded' behind a report; a save that throws would lose one.            *)

(* A task is executed at most once, however often it is run, from however     *)
(* many processes, and wherever they die, as long as their mutating job calls *)
(* do not overlap: only one caller can take its job out of queued.            *)
ExecutedAtMostOnce == \A t \in Tasks : executions[t] <= 1

(* A report that parses tells the truth, as long as mutating job calls do not *)
(* overlap: the job it names is the record of that very task and has          *)
(* succeeded, its task was executed, and the artifact it cites is in the      *)
(* store. A cancelled task is never reported.                                 *)
ReportsTruthful ==
    \A t \in Tasks : reports[t].state = "succeeded" =>
        /\ reports[t].jobId \in DOMAIN jobs.jobs
        /\ jobs.jobs[reports[t].jobId].procedureId = t
        /\ jobs.jobs[reports[t].jobId].state = "succeeded"
        /\ executions[t] = 1 /\ t \in objects

(* A succeeded job without a readable report has a call still writing it, or  *)
(* lost it to a crash in that window; as long as mutating job calls do not    *)
(* overlap and the file system takes the report, nothing else loses one.      *)
ReportsLostOnlyByCrash ==
    \A t \in DOMAIN jobs.jobs :
        jobs.jobs[t].state = "succeeded" /\ reports[t].state # "succeeded" =>
            t \in lost \/ \E c \in Clients : task[c] = t /\ pc[c] \in {"openReport", "writeReport"}

(* The service uses the controller as it promises to be used: each change of  *)
(* the job snapshot is a submit under a fresh id or one legal transition, as  *)
(* long as mutating job calls do not overlap.                                 *)
Controller == INSTANCE JobController
                WITH snapshot <- jobs, Procedures <- {ProcedureOf(t) : t \in Tasks}
UsesController == Controller!Spec
=============================================================================
