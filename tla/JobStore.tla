------------------------------ MODULE JobStore ------------------------------
(* JobController over JsonJobStore: each call loads jobs.json, changes the    *)
(* snapshot in memory and saves it by writing jobs.json.tmp and renaming it.  *)
(* Calls run in Clients, each a call slot of some process; between any two    *)
(* awaits of one call the others may run, and a process may die.              *)
(*                                                                            *)
(* The file system is external: two names, each naming an inode or nothing;   *)
(* an open file refers to its inode whatever the name refers to later.        *)
EXTENDS JobSnapshot

CONSTANTS Procedures,    \* the procedures callers submit
          Clients,
          Inodes,
          Targets,       \* the states callers ask transition for
          Serialized,    \* TRUE when callers never overlap two mutating calls
          MaxEvents      \* bound: events in one history

ASSUME StoreAssumption ==
    /\ Procedures \subseteq Procedure
    /\ None \notin Inodes
    /\ Targets \subseteq JOB_STATES
    /\ Serialized \in BOOLEAN
    /\ MaxEvents \in Nat

VARIABLES file,          \* the inode named jobs.json, or None
          tmp,           \* the inode named jobs.json.tmp, or None
          content,       \* what each inode holds
          issued,        \* the ids idFactory has returned
          pc,            \* the await each client is at
          call,          \* the call it runs
          fd,            \* the inode it has open
          draft,         \* the snapshot it will save
          result         \* how its last call ended

client == <<pc, call, fd, draft, result>>
vars == <<file, tmp, content, issued, client>>

Json(s) == [text |-> "json", value |-> s]
Truncated == [text |-> "empty", value |-> EMPTY]
Torn == [text |-> "torn", value |-> EMPTY]      \* bytes of two writes, or half of one

\* What load sees if it runs now; a missing file is EMPTY.
Readable == file # None => content[file].text = "json"
Published == IF file = None THEN EMPTY ELSE content[file].value

Calls == [kind : {"submit"}, procedure : Procedures]
         \cup [kind : {"transition"}, id : JobIds, to : Targets,
               payload : Payloads \cup {None}]
         \cup [kind : {"get"}, id : JobIds]

Mutating(c) == pc[c] # "idle" /\ call[c].kind # "get"

Init ==
    /\ file = None /\ tmp = None
    /\ content = [i \in Inodes |-> Truncated]
    /\ issued = {}
    /\ pc = [c \in Clients |-> "idle"]
    /\ call = [c \in Clients |-> None]
    /\ fd = [c \in Clients |-> None]
    /\ draft = [c \in Clients |-> EMPTY]
    /\ result = [c \in Clients |-> "none"]
-----------------------------------------------------------------------------
Goto(c, label) == pc' = [pc EXCEPT ![c] = label]

\* The call returns or throws: outcome is what its caller sees.
Finish(c, outcome) ==
    /\ Goto(c, "idle")
    /\ call' = [call EXCEPT ![c] = None]
    /\ fd' = [fd EXCEPT ![c] = None]
    /\ draft' = [draft EXCEPT ![c] = EMPTY]
    /\ result' = [result EXCEPT ![c] = outcome]

\* A client calls submit, transition or get (events reads as get does).
Call(c, request) ==
    /\ pc[c] = "idle"
    /\ Serialized /\ request.kind # "get" => \A d \in Clients : ~ Mutating(d)
    /\ Goto(c, "load")
    /\ call' = [call EXCEPT ![c] = request]
    /\ result' = [result EXCEPT ![c] = "none"]
    /\ UNCHANGED <<file, tmp, content, issued, fd, draft>>

\* load: readFile opens jobs.json.
OpenForRead(c) ==
    /\ pc[c] = "load"
    /\ Goto(c, "read")
    /\ fd' = [fd EXCEPT ![c] = file]
    /\ UNCHANGED <<file, tmp, content, issued, call, draft, result>>

\* What the opened file parses to; ENOENT is caught and stands for EMPTY.
Parses(c) == fd[c] # None => content[fd[c]].text = "json"
Loaded(c) == IF fd[c] = None THEN EMPTY ELSE content[fd[c]].value

\* JSON.parse throws on an empty or torn file.
LoadFails(c) ==
    /\ pc[c] = "read" /\ ~ Parses(c)
    /\ Finish(c, "SyntaxError")
    /\ UNCHANGED <<file, tmp, content, issued>>

\* get returns the job, or throws 'job not found'.
Get(c) ==
    /\ pc[c] = "read" /\ Parses(c) /\ call[c].kind = "get"
    /\ Finish(c, IF call[c].id \in DOMAIN Loaded(c).jobs THEN "returned" ELSE "refused")
    /\ UNCHANGED <<file, tmp, content, issued>>

\* The calls that end without a save: the job an idempotency key already
\* names is returned, or one of the four errors is thrown.
Answer(c) ==
    /\ pc[c] = "read" /\ Parses(c)
    /\ \/ /\ call[c].kind = "submit"
          /\ ~ Accepts(Loaded(c), call[c].procedure)
          /\ Finish(c, IF KnownKey(Loaded(c), call[c].procedure) THEN "returned" ELSE "refused")
       \/ /\ call[c].kind = "transition"
          /\ ~ CanTransition(Loaded(c), call[c].id, call[c].to)
          /\ Finish(c, "refused")
    /\ UNCHANGED <<file, tmp, content, issued>>

\* Fault variant of MakeJob: idFactory may return an id it has returned before.
MakeJobAnyId(c, id) ==
    /\ pc[c] = "read" /\ Parses(c) /\ call[c].kind = "submit"
    /\ Accepts(Loaded(c), call[c].procedure)
    /\ issued' = issued \cup {id}
    /\ draft' = [draft EXCEPT ![c] = Submitted(Loaded(c), call[c].procedure, id)]
    /\ Goto(c, "open")
    /\ fd' = [fd EXCEPT ![c] = None]
    /\ UNCHANGED <<file, tmp, content, call, result>>

\* submit makes the job in its copy of the snapshot, under a fresh id.
MakeJob(c, id) ==
    /\ pc[c] = "read" /\ Parses(c) /\ call[c].kind = "submit"
    /\ Accepts(Loaded(c), call[c].procedure)
    /\ id \notin issued
    /\ issued' = issued \cup {id}
    /\ draft' = [draft EXCEPT ![c] = Submitted(Loaded(c), call[c].procedure, id)]
    /\ Goto(c, "open")
    /\ fd' = [fd EXCEPT ![c] = None]
    /\ UNCHANGED <<file, tmp, content, call, result>>

\* transition moves the job in its copy of the snapshot.
MoveJob(c) ==
    /\ pc[c] = "read" /\ Parses(c) /\ call[c].kind = "transition"
    /\ CanTransition(Loaded(c), call[c].id, call[c].to)
    /\ Len(Loaded(c).events[call[c].id]) < MaxEvents
    /\ draft' = [draft EXCEPT ![c] =
                    Transitioned(Loaded(c), call[c].id, call[c].to, call[c].payload)]
    /\ Goto(c, "open")
    /\ fd' = [fd EXCEPT ![c] = None]
    /\ UNCHANGED <<file, tmp, content, issued, call, result>>
-----------------------------------------------------------------------------
\* An inode no name and no open file refers to.
FreeInode(i) == i # file /\ i # tmp /\ \A d \in Clients : fd[d] # i

\* Fault variant of OpenForWrite: save opens jobs.json itself.
OpenInPlace(c) ==
    /\ pc[c] = "open"
    /\ \E i \in Inodes :
          /\ IF file = None THEN FreeInode(i) ELSE i = file
          /\ file' = i
          /\ content' = [content EXCEPT ![i] = Truncated]
          /\ fd' = [fd EXCEPT ![c] = i]
    /\ Goto(c, "write")
    /\ UNCHANGED <<tmp, issued, call, draft, result>>

\* save: writeFile opens jobs.json.tmp with flag 'w', which truncates it or
\* creates it.
OpenForWrite(c) ==
    /\ pc[c] = "open"
    /\ \E i \in Inodes :
          /\ IF tmp = None THEN FreeInode(i) ELSE i = tmp
          /\ tmp' = i
          /\ content' = [content EXCEPT ![i] = Truncated]
          /\ fd' = [fd EXCEPT ![c] = i]
    /\ Goto(c, "write")
    /\ UNCHANGED <<file, issued, call, draft, result>>

\* The bytes arrive at offset 0. If another call has written to this inode
\* since it was truncated, the tail of a longer text stays behind the new one.
Write(c) ==
    /\ pc[c] = "write"
    /\ \E text \in {Json(draft[c])} \cup
                   (IF content[fd[c]] \in {Truncated, Json(draft[c])} THEN {} ELSE {Torn}) :
          content' = [content EXCEPT ![fd[c]] = text]
    /\ Goto(c, "rename")
    /\ fd' = [fd EXCEPT ![c] = None]
    /\ UNCHANGED <<file, tmp, issued, call, draft, result>>

\* Fault variant of Rename: the temporary name is left behind.
RenameAsLink(c) ==
    /\ pc[c] = "rename" /\ tmp # None
    /\ file' = tmp
    /\ tmp' = tmp
    /\ Finish(c, "returned")
    /\ UNCHANGED <<content, issued>>

\* rename publishes whatever jobs.json.tmp names by now, and the call returns.
Rename(c) ==
    /\ pc[c] = "rename" /\ tmp # None
    /\ file' = tmp
    /\ tmp' = None
    /\ Finish(c, "returned")
    /\ UNCHANGED <<content, issued>>

\* Another call has renamed it away.
RenameFails(c) ==
    /\ pc[c] = "rename" /\ tmp = None
    /\ Finish(c, "ENOENT")
    /\ UNCHANGED <<file, tmp, content, issued>>

\* The process dies. A write in progress may have left part of its bytes.
Crash(c) ==
    /\ pc[c] # "idle"
    /\ \/ pc[c] = "write" /\ content' = [content EXCEPT ![fd[c]] = Torn]
       \/ UNCHANGED content
    /\ Finish(c, "none")
    /\ UNCHANGED <<file, tmp, issued>>

Step(c) ==
    \/ OpenForRead(c) \/ LoadFails(c) \/ Get(c) \/ Answer(c)
    \/ \E id \in JobIds : MakeJob(c, id)
    \/ MoveJob(c)
    \/ OpenForWrite(c) \/ Write(c) \/ Rename(c) \/ RenameFails(c)

Next == \E c \in Clients :
            \/ \E request \in Calls : Call(c, request)
            \/ Step(c)
            \/ Crash(c)

Spec == Init /\ [][Next]_vars
-----------------------------------------------------------------------------
IsContent(f) == /\ f = [text |-> f.text, value |-> f.value]
                /\ f.text \in {"json", "empty", "torn"}
                /\ IsSnapshot(f.value)

TypeOK ==
    /\ file \in Inodes \cup {None} /\ tmp \in Inodes \cup {None}
    /\ DOMAIN content = Inodes
    /\ \A i \in Inodes : IsContent(content[i])
    /\ issued \subseteq JobIds
    /\ pc \in [Clients -> {"idle", "load", "read", "open", "write", "rename"}]
    /\ call \in [Clients -> Calls \cup {None}]
    /\ fd \in [Clients -> Inodes \cup {None}]
    /\ DOMAIN draft = Clients /\ \A c \in Clients : IsSnapshot(draft[c])
    /\ result \in [Clients -> {"none", "returned", "refused", "SyntaxError", "ENOENT"}]

(* However calls interleave and wherever processes die, every snapshot that   *)
(* parses, in a file or in a call's memory, is one that some sequence of      *)
(* legal calls leaves: contiguous sequence numbers, legal and chained edges,  *)
(* state, attempt and checkpoint equal to what the history replays to, and    *)
(* no key or procedure bound to a missing job.                                *)
SnapshotsWellFormed ==
    /\ \A i \in Inodes : WellFormed(content[i].value)
    /\ \A c \in Clients : WellFormed(draft[c])

(* jobs.json always parses: temporary file and rename hide every half-done    *)
(* write from load.                                                           *)
AlwaysReadable == Readable

(* No call fails for a reason inside the store.                               *)
NoStoreErrors == \A c \in Clients : result[c] \notin {"SyntaxError", "ENOENT"}

(* A terminal result is immutable.                                            *)
TerminalJobsImmutable == [][KeepsTerminalJobs(Published, Published')]_vars

(* An event once published is never lost, renumbered or rewritten.            *)
HistoriesAppendOnly == [][ExtendsHistories(Published, Published')]_vars

(* A key that only key-required procedures carry names one job for ever, so   *)
(* a retried submit is answered with the original job.                        *)
KeysNameOneJob ==
    [][\A key \in Keys :
          (\A p \in Procedures : p.idempotencyKey = key => p.idempotency = "key-required")
              => KeepsKey(Published, Published', key)]_vars

(* Serialized calls take effect atomically: each rename is one Submit or      *)
(* Transition of the promised controller, every other step changes nothing.   *)
Promise == INSTANCE JobController WITH snapshot <- Published
ImplementsJobController == Promise!Spec
=============================================================================
