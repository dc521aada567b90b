--------------------------- MODULE JobStore_proofs ---------------------------
(* What holds of the file-backed store for any number of clients, inodes,     *)
(* jobs and procedures, whatever interleaves and wherever a process dies.     *)
EXTENDS JobStore, JobSnapshot_proofs

\* A client past its call has one.
CallsPresent == \A c \in Clients : pc[c] # "idle" => call[c] \in Calls

\* Every id in a snapshot came from idFactory.
IdsIssued ==
    /\ \A i \in Inodes : DOMAIN content[i].value.jobs \subseteq issued
    /\ \A c \in Clients : DOMAIN draft[c].jobs \subseteq issued

\* What a call loads is a snapshot, and it parses only if something wrote it.
LEMMA LoadedIsSnapshot ==
    ASSUME TypeOK, NEW c \in Clients
    PROVE  IsSnapshot(Loaded(c))
<1>1. CASE fd[c] = None
  BY <1>1, EmptySnapshot DEF Loaded
<1>2. CASE fd[c] # None
  BY <1>2 DEF Loaded, TypeOK, IsContent
<1>. QED BY <1>1, <1>2

LEMMA LoadedWellFormed ==
    ASSUME TypeOK, SnapshotsWellFormed, IdsIssued, NEW c \in Clients
    PROVE  WellFormed(Loaded(c)) /\ DOMAIN Loaded(c).jobs \subseteq issued
<1>1. CASE fd[c] = None
  <2>1. DOMAIN EMPTY.jobs = {}
    BY DEF EMPTY, EmptyMap
  <2>. QED BY <1>1, <2>1, EmptySnapshot DEF Loaded
<1>2. CASE fd[c] # None
  BY <1>2 DEF Loaded, TypeOK, SnapshotsWellFormed, IdsIssued
<1>. QED BY <1>1, <1>2

\* The requests of submit and transition carry what those calls take.
LEMMA CallFields ==
    ASSUME NEW request \in Calls
    PROVE  /\ request.kind = "submit" => request.procedure \in Procedure
           /\ request.kind = "transition" => /\ request.id \in JobIds
                                             /\ request.to \in JOB_STATES
                                             /\ request.payload \in Payloads \cup {None}
BY StoreAssumption DEF Calls

\* Finish keeps the client variables typed.
LEMMA FinishTyped ==
    ASSUME TypeOK, CallsPresent, NEW c \in Clients,
           NEW outcome \in {"none", "returned", "refused", "SyntaxError", "ENOENT"},
           Finish(c, outcome)
    PROVE  /\ pc' \in [Clients -> {"idle", "load", "read", "open", "write", "rename"}]
           /\ call' \in [Clients -> Calls \cup {None}]
           /\ fd' \in [Clients -> Inodes \cup {None}]
           /\ DOMAIN draft' = Clients /\ \A d \in Clients : IsSnapshot(draft'[d])
           /\ result' \in [Clients -> {"none", "returned", "refused", "SyntaxError", "ENOENT"}]
           /\ CallsPresent'
<1>1. DOMAIN draft' = Clients /\ \A d \in Clients : IsSnapshot(draft'[d])
  BY EmptySnapshot DEF TypeOK, Finish
<1>. QED BY <1>1 DEF TypeOK, Finish, Goto, CallsPresent

\* The texts the store writes.
LEMMA Written ==
    /\ IsContent(Truncated) /\ IsContent(Torn)
    /\ \A s : IsSnapshot(s) => IsContent(Json(s))
BY EmptySnapshot DEF IsContent, Truncated, Torn, Json

LEMMA ContentTyped ==
    ASSUME TypeOK, NEW i, NEW f, IsContent(f), content' = [content EXCEPT ![i] = f]
    PROVE  DOMAIN content' = Inodes /\ \A j \in Inodes : IsContent(content'[j])
BY DEF TypeOK, IsContent
-----------------------------------------------------------------------------
TypeInv == TypeOK /\ CallsPresent

LEMMA TypeInit == Init => TypeInv
<1> SUFFICES ASSUME Init PROVE TypeInv
  OBVIOUS
<1>1. IsContent(Truncated) /\ IsSnapshot(EMPTY)
  BY Written, EmptySnapshot
<1>. QED BY <1>1 DEF Init, TypeInv, TypeOK, CallsPresent

LEMMA TypeStep == TypeInv /\ [Next]_vars => TypeInv'
<1> SUFFICES ASSUME TypeInv, [Next]_vars PROVE TypeInv'
  OBVIOUS
<1> USE DEF TypeInv
<1>1. ASSUME NEW c \in Clients, NEW request \in Calls, Call(c, request)
      PROVE  TypeInv'
  BY <1>1 DEF Call, Goto, TypeOK, CallsPresent
<1>2. ASSUME NEW c \in Clients, OpenForRead(c)
      PROVE  TypeInv'
  BY <1>2 DEF OpenForRead, Goto, TypeOK, CallsPresent
<1>3. ASSUME NEW c \in Clients, LoadFails(c)
      PROVE  TypeInv'
  BY <1>3, FinishTyped DEF LoadFails, TypeOK
<1>4. ASSUME NEW c \in Clients, Get(c)
      PROVE  TypeInv'
  BY <1>4, FinishTyped DEF Get, TypeOK
<1>5. ASSUME NEW c \in Clients, Answer(c)
      PROVE  TypeInv'
  BY <1>5, FinishTyped DEF Answer, TypeOK
<1>6. ASSUME NEW c \in Clients, NEW id \in JobIds, MakeJob(c, id)
      PROVE  TypeInv'
  <2>1. call[c] \in Calls
    BY <1>6 DEF MakeJob, CallsPresent
  <2>2. IsSnapshot(Submitted(Loaded(c), call[c].procedure, id))
    BY <1>6, <2>1, CallFields, LoadedIsSnapshot, SubmittedIsSnapshot DEF MakeJob
  <2>3. DOMAIN draft' = Clients /\ \A d \in Clients : IsSnapshot(draft'[d])
    BY <1>6, <2>2 DEF MakeJob, TypeOK
  <2>. QED BY <1>6, <2>1, <2>3 DEF MakeJob, Goto, TypeOK, CallsPresent
<1>7. ASSUME NEW c \in Clients, MoveJob(c)
      PROVE  TypeInv'
  <2>1. call[c] \in Calls
    BY <1>7 DEF MoveJob, CallsPresent
  <2>2. IsSnapshot(Transitioned(Loaded(c), call[c].id, call[c].to, call[c].payload))
    BY <1>7, <2>1, CallFields, LoadedIsSnapshot, TransitionedIsSnapshot DEF MoveJob, CanTransition
  <2>3. DOMAIN draft' = Clients /\ \A d \in Clients : IsSnapshot(draft'[d])
    BY <1>7, <2>2 DEF MoveJob, TypeOK
  <2>. QED BY <1>7, <2>1, <2>3 DEF MoveJob, Goto, TypeOK, CallsPresent
<1>8. ASSUME NEW c \in Clients, OpenForWrite(c)
      PROVE  TypeInv'
  <2>1. PICK i \in Inodes :
          /\ tmp' = i
          /\ content' = [content EXCEPT ![i] = Truncated]
          /\ fd' = [fd EXCEPT ![c] = i]
    BY <1>8 DEF OpenForWrite
  <2>2. DOMAIN content' = Inodes /\ \A j \in Inodes : IsContent(content'[j])
    BY <2>1, Written, ContentTyped
  <2>. QED BY <1>8, <2>1, <2>2 DEF OpenForWrite, Goto, TypeOK, CallsPresent
<1>9. ASSUME NEW c \in Clients, Write(c)
      PROVE  TypeInv'
  <2>1. PICK text \in {Json(draft[c]), Torn} : content' = [content EXCEPT ![fd[c]] = text]
    BY <1>9 DEF Write
  <2>2. IsContent(text)
    BY <2>1, Written DEF TypeOK
  <2>3. DOMAIN content' = Inodes /\ \A j \in Inodes : IsContent(content'[j])
    BY <2>1, <2>2, ContentTyped
  <2>. QED BY <1>9, <2>3 DEF Write, Goto, TypeOK, CallsPresent
<1>10. ASSUME NEW c \in Clients, Rename(c)
       PROVE  TypeInv'
  BY <1>10, FinishTyped DEF Rename, TypeOK
<1>11. ASSUME NEW c \in Clients, RenameFails(c)
       PROVE  TypeInv'
  BY <1>11, FinishTyped DEF RenameFails, TypeOK
<1>12. ASSUME NEW c \in Clients, Crash(c)
       PROVE  TypeInv'
  <2>1. DOMAIN content' = Inodes /\ \A j \in Inodes : IsContent(content'[j])
    <3>1. CASE content' = [content EXCEPT ![fd[c]] = Torn]
      BY <3>1, Written, ContentTyped
    <3>2. CASE UNCHANGED content
      BY <3>2 DEF TypeOK
    <3>. QED BY <1>12, <3>1, <3>2 DEF Crash
  <2>2. Finish(c, "none") /\ UNCHANGED <<file, tmp, issued>>
    BY <1>12 DEF Crash
  <2>. QED BY <2>1, <2>2, FinishTyped DEF TypeOK
<1>13. CASE UNCHANGED vars
  BY <1>13 DEF vars, client, TypeOK, CallsPresent
<1>. QED
  BY <1>1, <1>2, <1>3, <1>4, <1>5, <1>6, <1>7, <1>8, <1>9, <1>10, <1>11, <1>12, <1>13
     DEF Next, Step

\* Every variable keeps its type, for any number of clients and inodes.
THEOREM TypeCorrect == Spec => []TypeOK
<1>1. TypeInv => TypeOK
  BY DEF TypeInv
<1>. QED BY TypeInit, TypeStep, <1>1, PTL DEF Spec
-----------------------------------------------------------------------------
(* Well-formedness. A call may load a stale snapshot and overwrite a newer    *)
(* one, but each snapshot it can load is well formed, ids are never reused,   *)
(* and what it saves is one legal step away from what it loaded.              *)
WellFormedInv == TypeInv /\ SnapshotsWellFormed /\ IdsIssued

LEMMA WellFormedInit == Init => WellFormedInv
<1> SUFFICES ASSUME Init PROVE WellFormedInv
  OBVIOUS
<1>1. WellFormed(EMPTY) /\ DOMAIN EMPTY.jobs = {} /\ Truncated.value = EMPTY
  BY EmptySnapshot DEF EMPTY, EmptyMap, Truncated
<1>. QED
  BY <1>1, TypeInit DEF Init, WellFormedInv, SnapshotsWellFormed, IdsIssued

\* What is in the files and the drafts changes in three ways only: a draft is
\* made, a draft is dropped, or a file gets a draft's or EMPTY's value.
LEMMA WellFormedFrame ==
    ASSUME WellFormedInv, TypeInv', issued \subseteq issued',
           \A i \in Inodes :
              \/ content'[i].value = content[i].value
              \/ content'[i].value = EMPTY
              \/ \E c \in Clients : content'[i].value = draft[c],
           \A c \in Clients :
              \/ draft'[c] = draft[c]
              \/ draft'[c] = EMPTY
              \/ WellFormed(draft'[c]) /\ DOMAIN draft'[c].jobs \subseteq issued'
    PROVE  WellFormedInv'
<1>1. WellFormed(EMPTY) /\ DOMAIN EMPTY.jobs = {}
  BY EmptySnapshot DEF EMPTY, EmptyMap
<1>2. \A i \in Inodes : WellFormed(content'[i].value) /\ DOMAIN content'[i].value.jobs \subseteq issued'
  BY <1>1 DEF WellFormedInv, SnapshotsWellFormed, IdsIssued
<1>3. \A c \in Clients : WellFormed(draft'[c]) /\ DOMAIN draft'[c].jobs \subseteq issued'
  BY <1>1 DEF WellFormedInv, SnapshotsWellFormed, IdsIssued
<1>. QED
  BY <1>2, <1>3 DEF WellFormedInv, SnapshotsWellFormed, IdsIssued

\* Finish drops the client's draft.
LEMMA FinishDrafts ==
    ASSUME TypeOK, NEW c \in Clients, NEW outcome, Finish(c, outcome)
    PROVE  \A d \in Clients : draft'[d] = draft[d] \/ draft'[d] = EMPTY
BY DEF Finish, TypeOK

LEMMA WellFormedStep == WellFormedInv /\ [Next]_vars => WellFormedInv'
<1> SUFFICES ASSUME WellFormedInv, [Next]_vars PROVE WellFormedInv'
  OBVIOUS
<1>0. TypeInv /\ TypeOK /\ TypeInv'
  BY TypeStep DEF WellFormedInv, TypeInv
<1>1. ASSUME NEW c \in Clients, NEW request \in Calls, Call(c, request)
      PROVE  WellFormedInv'
  BY <1>0, <1>1, WellFormedFrame DEF Call
<1>2. ASSUME NEW c \in Clients, OpenForRead(c)
      PROVE  WellFormedInv'
  BY <1>0, <1>2, WellFormedFrame DEF OpenForRead
<1>3. ASSUME NEW c \in Clients, LoadFails(c) \/ Get(c) \/ Answer(c) \/ Rename(c) \/ RenameFails(c)
      PROVE  WellFormedInv'
  <2>1. content' = content /\ issued' = issued /\ \E outcome : Finish(c, outcome)
    BY <1>3 DEF LoadFails, Get, Answer, Rename, RenameFails
  <2>. QED BY <1>0, <2>1, FinishDrafts, WellFormedFrame
<1>4. ASSUME NEW c \in Clients, NEW id \in JobIds, MakeJob(c, id)
      PROVE  WellFormedInv'
  <2> DEFINE s == Loaded(c)
             p == call[c].procedure
  <2>1. IsSnapshot(s) /\ WellFormed(s) /\ DOMAIN s.jobs \subseteq issued
    BY <1>0, LoadedIsSnapshot, LoadedWellFormed DEF WellFormedInv
  <2>2. p \in Procedure
    BY <1>0, <1>4, CallFields DEF MakeJob, TypeInv, CallsPresent
  <2>3. /\ id \notin issued /\ issued' = issued \cup {id} /\ content' = content
        /\ draft' = [draft EXCEPT ![c] = Submitted(s, p, id)]
    BY <1>4 DEF MakeJob
  <2>4. WellFormed(Submitted(s, p, id))
    BY <2>1, <2>2, <2>3, SubmittedWellFormed
  <2>5. DOMAIN Submitted(s, p, id).jobs \subseteq issued'
    BY <2>1, <2>3 DEF Submitted, Put
  <2>. HIDE DEF s, p
  <2>. QED BY <1>0, <2>3, <2>4, <2>5, WellFormedFrame DEF TypeOK
<1>5. ASSUME NEW c \in Clients, MoveJob(c)
      PROVE  WellFormedInv'
  <2> DEFINE s == Loaded(c)
             t == Transitioned(s, call[c].id, call[c].to, call[c].payload)
  <2>1. IsSnapshot(s) /\ WellFormed(s) /\ DOMAIN s.jobs \subseteq issued
    BY <1>0, LoadedIsSnapshot, LoadedWellFormed DEF WellFormedInv
  <2>2. /\ call[c].to \in JOB_STATES /\ call[c].payload \in Payloads \cup {None}
        /\ CanTransition(s, call[c].id, call[c].to)
    BY <1>0, <1>5, CallFields DEF MoveJob, TypeInv, CallsPresent
  <2>3. issued' = issued /\ content' = content /\ draft' = [draft EXCEPT ![c] = t]
    BY <1>5 DEF MoveJob
  <2>4. WellFormed(t)
    BY <2>1, <2>2, TransitionedWellFormed
  <2>5. DOMAIN t.jobs \subseteq issued'
    BY <2>1, <2>3 DEF Transitioned
  <2>. HIDE DEF s, t
  <2>. QED BY <1>0, <2>3, <2>4, <2>5, WellFormedFrame DEF TypeOK
<1>6. ASSUME NEW c \in Clients, OpenForWrite(c)
      PROVE  WellFormedInv'
  <2>1. PICK i \in Inodes : content' = [content EXCEPT ![i] = Truncated]
    BY <1>6 DEF OpenForWrite
  <2>2. draft' = draft /\ issued' = issued /\ Truncated.value = EMPTY
    BY <1>6 DEF OpenForWrite, Truncated
  <2>3. \A j \in Inodes : content'[j].value = content[j].value \/ content'[j].value = EMPTY
    BY <1>0, <2>1, <2>2 DEF TypeOK
  <2>. QED BY <1>0, <2>2, <2>3, WellFormedFrame
<1>7. ASSUME NEW c \in Clients, Write(c)
      PROVE  WellFormedInv'
  <2>1. PICK text \in {Json(draft[c]), Torn} : content' = [content EXCEPT ![fd[c]] = text]
    BY <1>7 DEF Write
  <2>2. text.value = draft[c] \/ text.value = EMPTY
    BY <2>1 DEF Json, Torn
  <2>3. draft' = draft /\ issued' = issued
    BY <1>7 DEF Write
  <2>4. \A j \in Inodes : \/ content'[j].value = content[j].value
                         \/ content'[j].value = EMPTY
                         \/ content'[j].value = draft[c]
    BY <1>0, <2>1, <2>2 DEF TypeOK
  <2>. QED BY <1>0, <2>3, <2>4, WellFormedFrame
<1>8. ASSUME NEW c \in Clients, Crash(c)
      PROVE  WellFormedInv'
  <2>1. Finish(c, "none") /\ issued' = issued
    BY <1>8 DEF Crash
  <2>2. \A j \in Inodes : content'[j].value = content[j].value \/ content'[j].value = EMPTY
    BY <1>0, <1>8 DEF Crash, TypeOK, Torn
  <2>. QED BY <1>0, <2>1, <2>2, FinishDrafts, WellFormedFrame
<1>9. CASE UNCHANGED vars
  BY <1>0, <1>9, WellFormedFrame DEF vars, client
<1>. QED
  BY <1>1, <1>2, <1>3, <1>4, <1>5, <1>6, <1>7, <1>8, <1>9 DEF Next, Step

\* However calls interleave and wherever processes die, every snapshot in a
\* file or in a call's memory is one that some sequence of legal calls leaves.
THEOREM SnapshotsStayWellFormed == Spec => []SnapshotsWellFormed
<1>1. WellFormedInv => SnapshotsWellFormed
  BY DEF WellFormedInv
<1>. QED BY WellFormedInit, WellFormedStep, <1>1, PTL DEF Spec
-----------------------------------------------------------------------------
(* Serialized callers. One mutating call at a time owns the temporary file    *)
(* from its open to its rename, and what it loaded is still what is           *)
(* published; readers only ever hold an inode that was published complete.    *)

\* t is what one accepted submit or legal transition makes of s.
OneCallFrom(s, t) ==
    \/ \E p \in Procedures, id \in JobIds :
          Accepts(s, p) /\ id \notin DOMAIN s.jobs /\ t = Submitted(s, p, id)
    \/ \E id \in JobIds, to \in JOB_STATES, payload \in Payloads \cup {None} :
          CanTransition(s, id, to) /\ t = Transitioned(s, id, to, payload)

OneWriter == \A c, d \in Clients : Mutating(c) /\ Mutating(d) => c = d

Separate == file # None => file # tmp

ReadersSafe ==
    \A c \in Clients : pc[c] = "read" /\ fd[c] # None =>
        fd[c] # tmp /\ content[fd[c]].text = "json"

WriterCurrent ==
    \A c \in Clients :
        /\ pc[c] = "read" /\ Mutating(c) => fd[c] = file
        /\ pc[c] \in {"open", "write", "rename"} =>
              Mutating(c) /\ OneCallFrom(Published, draft[c])
        /\ pc[c] = "write" => fd[c] # None /\ fd[c] = tmp /\ content[tmp] = Truncated
        /\ pc[c] = "rename" => tmp # None /\ content[tmp] = Json(draft[c])

SerializedInv ==
    /\ WellFormedInv
    /\ Readable /\ Separate /\ OneWriter /\ ReadersSafe /\ WriterCurrent

LEMMA SerializedInit == Init => SerializedInv
BY WellFormedInit DEF Init, SerializedInv, Readable, Separate, OneWriter, ReadersSafe,
                      WriterCurrent, Mutating

\* The client that finishes is idle, the others are where they were.
LEMMA FinishOthers ==
    ASSUME TypeOK, NEW c \in Clients, NEW outcome, Finish(c, outcome)
    PROVE  /\ pc'[c] = "idle"
           /\ \A d \in Clients \ {c} : /\ pc'[d] = pc[d] /\ call'[d] = call[d]
                                       /\ fd'[d] = fd[d] /\ draft'[d] = draft[d]
           /\ \A d \in Clients : Mutating(d)' => Mutating(d) /\ d # c
BY DEF Finish, Goto, TypeOK, Mutating

\* A step that leaves the files alone and finishes a call.
LEMMA FinishSerialized ==
    ASSUME SerializedInv, TypeInv', WellFormedInv', NEW c \in Clients, NEW outcome,
           Finish(c, outcome), UNCHANGED <<file, tmp, content, issued>>
    PROVE  SerializedInv'
<1>1. TypeOK
  BY DEF SerializedInv, WellFormedInv, TypeInv
<1>2. Published' = Published /\ (Readable' <=> Readable)
  BY DEF Published, Readable
<1>3. OneWriter'
  BY <1>1, FinishOthers DEF SerializedInv, OneWriter
<1>4. ReadersSafe'
  BY <1>1, FinishOthers DEF SerializedInv, ReadersSafe
<1>5. WriterCurrent'
  <2> SUFFICES ASSUME NEW d \in Clients
               PROVE  /\ pc'[d] = "read" /\ Mutating(d)' => fd'[d] = file'
                      /\ pc'[d] \in {"open", "write", "rename"} =>
                            Mutating(d)' /\ OneCallFrom(Published, draft[d])'
                      /\ pc'[d] = "write" => fd'[d] # None /\ fd'[d] = tmp' /\ content'[tmp'] = Truncated
                      /\ pc'[d] = "rename" => tmp' # None /\ content'[tmp'] = Json(draft'[d])
    BY DEF WriterCurrent
  <2>1. CASE d = c
    BY <1>1, <2>1, FinishOthers
  <2>2. CASE d # c
    <3>1. /\ pc'[d] = pc[d] /\ call'[d] = call[d] /\ fd'[d] = fd[d] /\ draft'[d] = draft[d]
          /\ (Mutating(d)' <=> Mutating(d))
      BY <1>1, <2>2, FinishOthers DEF Mutating
    <3>2. OneCallFrom(Published, draft[d]) => OneCallFrom(Published, draft[d])'
      BY <1>2, <3>1 DEF OneCallFrom
    <3>. QED BY <3>1, <3>2 DEF SerializedInv, WriterCurrent
  <2>. QED BY <2>1, <2>2
<1>. QED
  BY <1>2, <1>3, <1>4, <1>5 DEF SerializedInv, Separate

\* The writing client is alone: what every other client does is read.
LEMMA OthersRead ==
    ASSUME SerializedInv, NEW c \in Clients, Mutating(c), NEW d \in Clients \ {c}
    PROVE  ~ Mutating(d) /\ pc[d] \in {"idle", "load", "read"}
<1>1. ~ Mutating(d)
  BY DEF SerializedInv, OneWriter
<1>2. pc[d] \in {"idle", "load", "read", "open", "write", "rename"}
  BY DEF SerializedInv, WellFormedInv, TypeInv, TypeOK
<1>. QED BY <1>1, <1>2 DEF SerializedInv, WriterCurrent

LEMMA SerializedCall ==
    ASSUME Serialized, SerializedInv, WellFormedInv', NEW c \in Clients, NEW request \in Calls,
           Call(c, request)
    PROVE  SerializedInv'
<1>1. TypeOK /\ UNCHANGED <<file, tmp, content, fd, draft>>
  BY DEF SerializedInv, WellFormedInv, TypeInv, Call
<1>2. /\ pc'[c] = "load" /\ call'[c] = request
      /\ \A d \in Clients \ {c} : pc'[d] = pc[d] /\ call'[d] = call[d]
  BY <1>1 DEF Call, Goto, TypeOK
<1>3. /\ \A d \in Clients \ {c} : Mutating(d)' <=> Mutating(d)
      /\ Mutating(c)' => \A d \in Clients : ~ Mutating(d)
  BY <1>2 DEF Mutating, Call
<1>4. Published' = Published /\ Readable' /\ Separate' /\ OneWriter'
  BY <1>1, <1>3 DEF SerializedInv, Published, Readable, Separate, OneWriter
<1>5. ReadersSafe'
  BY <1>1, <1>2 DEF SerializedInv, ReadersSafe
<1>6. WriterCurrent'
  BY <1>1, <1>2, <1>3, <1>4 DEF SerializedInv, WriterCurrent, OneCallFrom
<1>. QED BY <1>4, <1>5, <1>6 DEF SerializedInv

LEMMA SerializedOpenForRead ==
    ASSUME SerializedInv, WellFormedInv', NEW c \in Clients, OpenForRead(c)
    PROVE  SerializedInv'
<1>1. TypeOK /\ UNCHANGED <<file, tmp, content, call, draft>>
  BY DEF SerializedInv, WellFormedInv, TypeInv, OpenForRead
<1>2. /\ pc[c] = "load" /\ pc'[c] = "read" /\ fd'[c] = file
      /\ \A d \in Clients \ {c} : pc'[d] = pc[d] /\ fd'[d] = fd[d]
  BY <1>1 DEF OpenForRead, Goto, TypeOK
<1>3. \A d \in Clients : Mutating(d)' <=> Mutating(d)
  BY <1>1, <1>2 DEF Mutating
<1>4. Published' = Published /\ Readable' /\ Separate' /\ OneWriter'
  BY <1>1, <1>3 DEF SerializedInv, Published, Readable, Separate, OneWriter
<1>5. ReadersSafe'
  BY <1>1, <1>2 DEF SerializedInv, ReadersSafe, Readable, Separate
<1>6. WriterCurrent'
  BY <1>1, <1>2, <1>3, <1>4 DEF SerializedInv, WriterCurrent, OneCallFrom
<1>. QED BY <1>4, <1>5, <1>6 DEF SerializedInv

\* A mutating call that has loaded works on what is published.
LEMMA LoadedIsPublished ==
    ASSUME SerializedInv, NEW c \in Clients, pc[c] = "read", call[c].kind # "get"
    PROVE  Mutating(c) /\ Loaded(c) = Published
BY DEF SerializedInv, WriterCurrent, Mutating, Loaded, Published

\* Making the draft: the call is one step away from what is published.
LEMMA SerializedDraft ==
    ASSUME SerializedInv, WellFormedInv', NEW c \in Clients,
           pc[c] = "read", call[c].kind # "get", NEW t, OneCallFrom(Published, t),
           draft' = [draft EXCEPT ![c] = t], Goto(c, "open"),
           fd' = [fd EXCEPT ![c] = None], UNCHANGED <<file, tmp, content, call>>
    PROVE  SerializedInv'
<1>1. TypeOK
  BY DEF SerializedInv, WellFormedInv, TypeInv
<1>2. /\ pc'[c] = "open" /\ fd'[c] = None /\ draft'[c] = t
      /\ \A d \in Clients \ {c} : pc'[d] = pc[d] /\ fd'[d] = fd[d] /\ draft'[d] = draft[d]
  BY <1>1 DEF Goto, TypeOK
<1>3. \A d \in Clients : Mutating(d)' <=> Mutating(d)
  BY <1>2 DEF Mutating
<1>4. Published' = Published /\ Readable' /\ Separate' /\ OneWriter'
  BY <1>3 DEF SerializedInv, Published, Readable, Separate, OneWriter
<1>5. ReadersSafe'
  BY <1>2 DEF SerializedInv, ReadersSafe
<1>6. WriterCurrent'
  <2>1. Mutating(c)
    BY LoadedIsPublished
  <2>2. \A d \in Clients \ {c} : ~ Mutating(d)' /\ pc'[d] \in {"idle", "load", "read"}
    BY <1>2, <1>3, <2>1, OthersRead
  <2>3. OneCallFrom(Published, draft[c])'
    BY <1>2, <1>4 DEF OneCallFrom
  <2>. QED BY <1>2, <1>3, <2>1, <2>2, <2>3 DEF WriterCurrent
<1>. QED BY <1>4, <1>5, <1>6 DEF SerializedInv

LEMMA SerializedMakeJob ==
    ASSUME SerializedInv, WellFormedInv', NEW c \in Clients, NEW id \in JobIds, MakeJob(c, id)
    PROVE  SerializedInv'
<1>1. TypeOK /\ SnapshotsWellFormed /\ IdsIssued /\ CallsPresent
  BY DEF SerializedInv, WellFormedInv, TypeInv
<1>2. Loaded(c) = Published /\ DOMAIN Loaded(c).jobs \subseteq issued
  BY <1>1, LoadedIsPublished, LoadedWellFormed DEF MakeJob
<1>3. call[c].procedure \in Procedures
  BY <1>1 DEF MakeJob, CallsPresent, Calls
<1>4. OneCallFrom(Published, Submitted(Published, call[c].procedure, id))
  BY <1>2, <1>3 DEF MakeJob, OneCallFrom
<1>. QED BY <1>2, <1>4, SerializedDraft DEF MakeJob

LEMMA SerializedMoveJob ==
    ASSUME SerializedInv, WellFormedInv', NEW c \in Clients, MoveJob(c)
    PROVE  SerializedInv'
<1> DEFINE t == Transitioned(Published, call[c].id, call[c].to, call[c].payload)
<1>1. CallsPresent
  BY DEF SerializedInv, WellFormedInv, TypeInv
<1>2. Loaded(c) = Published
  BY LoadedIsPublished DEF MoveJob
<1>3. call[c].id \in JobIds /\ call[c].to \in JOB_STATES /\ call[c].payload \in Payloads \cup {None}
  BY <1>1, CallFields DEF MoveJob, CallsPresent
<1>4. OneCallFrom(Published, t)
  BY <1>2, <1>3 DEF MoveJob, OneCallFrom
<1>. HIDE DEF t
<1>5. draft' = [draft EXCEPT ![c] = t]
  BY <1>2 DEF MoveJob, t
<1>. QED BY <1>4, <1>5, SerializedDraft DEF MoveJob

LEMMA SerializedOpenForWrite ==
    ASSUME SerializedInv, WellFormedInv', NEW c \in Clients, OpenForWrite(c)
    PROVE  SerializedInv'
<1>1. TypeOK /\ UNCHANGED <<file, call, draft>>
  BY DEF SerializedInv, WellFormedInv, TypeInv, OpenForWrite
<1>2. PICK i \in Inodes :
        /\ IF tmp = None THEN FreeInode(i) ELSE i = tmp
        /\ tmp' = i
        /\ content' = [content EXCEPT ![i] = Truncated]
        /\ fd' = [fd EXCEPT ![c] = i]
  BY DEF OpenForWrite
<1>3. i # None /\ i # file /\ \A d \in Clients : pc[d] = "read" => fd[d] # i
  BY <1>2, StoreAssumption DEF SerializedInv, Separate, ReadersSafe, FreeInode
<1>4. /\ pc[c] = "open" /\ pc'[c] = "write" /\ fd'[c] = i
      /\ content'[i] = Truncated
      /\ \A j \in Inodes \ {i} : content'[j] = content[j]
      /\ \A d \in Clients \ {c} : pc'[d] = pc[d] /\ fd'[d] = fd[d]
  BY <1>1, <1>2 DEF OpenForWrite, Goto, TypeOK
<1>5. Mutating(c) /\ OneCallFrom(Published, draft[c])
  BY <1>4 DEF SerializedInv, WriterCurrent
<1>6. \A d \in Clients : Mutating(d)' <=> Mutating(d)
  BY <1>1, <1>4 DEF Mutating
<1>7. Published' = Published /\ Readable'
  BY <1>1, <1>3, <1>4 DEF SerializedInv, Published, Readable, TypeOK
<1>8. Separate' /\ OneWriter'
  BY <1>1, <1>2, <1>3, <1>6 DEF SerializedInv, Separate, OneWriter
<1>9. ReadersSafe'
  BY <1>1, <1>2, <1>3, <1>4 DEF SerializedInv, ReadersSafe, TypeOK
<1>10. WriterCurrent'
  <2>1. \A d \in Clients \ {c} : ~ Mutating(d)' /\ pc'[d] \in {"idle", "load", "read"}
    BY <1>4, <1>5, <1>6, OthersRead
  <2>2. OneCallFrom(Published, draft[c])'
    BY <1>1, <1>5, <1>7 DEF OneCallFrom
  <2>. QED BY <1>2, <1>3, <1>4, <1>5, <1>6, <2>1, <2>2 DEF WriterCurrent
<1>. QED BY <1>7, <1>8, <1>9, <1>10 DEF SerializedInv

LEMMA SerializedWrite ==
    ASSUME SerializedInv, WellFormedInv', NEW c \in Clients, Write(c)
    PROVE  SerializedInv'
<1>1. TypeOK /\ UNCHANGED <<file, tmp, call, draft>>
  BY DEF SerializedInv, WellFormedInv, TypeInv, Write
<1>2. pc[c] = "write" /\ fd[c] # None /\ fd[c] = tmp /\ content[tmp] = Truncated /\ tmp \in Inodes
  BY <1>1 DEF Write, SerializedInv, WriterCurrent, TypeOK
<1>3. content' = [content EXCEPT ![tmp] = Json(draft[c])]
  BY <1>2 DEF Write
<1>4. /\ pc'[c] = "rename" /\ fd'[c] = None
      /\ content'[tmp] = Json(draft[c])
      /\ \A j \in Inodes \ {tmp} : content'[j] = content[j]
      /\ \A d \in Clients \ {c} : pc'[d] = pc[d] /\ fd'[d] = fd[d]
  BY <1>1, <1>2, <1>3 DEF Write, Goto, TypeOK
<1>5. Mutating(c) /\ OneCallFrom(Published, draft[c])
  BY <1>2 DEF SerializedInv, WriterCurrent
<1>6. \A d \in Clients : Mutating(d)' <=> Mutating(d)
  BY <1>1, <1>2, <1>4 DEF Mutating
<1>7. Published' = Published /\ Readable'
  BY <1>1, <1>2, <1>4 DEF SerializedInv, Separate, Published, Readable, TypeOK
<1>8. Separate' /\ OneWriter'
  BY <1>1, <1>6 DEF SerializedInv, Separate, OneWriter
<1>9. ReadersSafe'
  BY <1>1, <1>2, <1>4 DEF SerializedInv, ReadersSafe, TypeOK
<1>10. WriterCurrent'
  <2>1. \A d \in Clients \ {c} : ~ Mutating(d)' /\ pc'[d] \in {"idle", "load", "read"}
    BY <1>4, <1>5, <1>6, OthersRead
  <2>2. OneCallFrom(Published, draft[c])'
    BY <1>1, <1>5, <1>7 DEF OneCallFrom
  <2>. QED BY <1>1, <1>2, <1>4, <1>5, <1>6, <2>1, <2>2 DEF WriterCurrent
<1>. QED BY <1>7, <1>8, <1>9, <1>10 DEF SerializedInv

\* A rename publishes the caller's own, complete draft.
LEMMA RenamePublishes ==
    ASSUME SerializedInv, NEW c \in Clients, Rename(c)
    PROVE  Mutating(c) /\ OneCallFrom(Published, Published') /\ Readable'
<1>1. TypeOK /\ pc[c] = "rename" /\ file' = tmp /\ tmp # None /\ content' = content
  BY DEF SerializedInv, WellFormedInv, TypeInv, Rename
<1>2. Mutating(c) /\ OneCallFrom(Published, draft[c]) /\ content[tmp] = Json(draft[c])
  BY <1>1 DEF SerializedInv, WriterCurrent
<1>3. Published' = draft[c] /\ Readable'
  BY <1>1, <1>2 DEF Published, Readable, Json
<1>. QED BY <1>2, <1>3

LEMMA SerializedRename ==
    ASSUME SerializedInv, WellFormedInv', NEW c \in Clients, Rename(c)
    PROVE  SerializedInv'
<1>1. TypeOK /\ Finish(c, "returned") /\ file' = tmp /\ tmp' = None /\ content' = content
      /\ tmp # None
  BY DEF SerializedInv, WellFormedInv, TypeInv, Rename
<1>2. Mutating(c) /\ Readable'
  BY RenamePublishes
<1>3. \A d \in Clients : ~ Mutating(d)'
  BY <1>1, <1>2, FinishOthers DEF SerializedInv, OneWriter
<1>4. pc'[c] = "idle" /\ \A d \in Clients \ {c} : pc'[d] \in {"idle", "load", "read"}
  BY <1>1, <1>2, FinishOthers, OthersRead
<1>5. ReadersSafe'
  BY <1>1, <1>4, FinishOthers DEF SerializedInv, ReadersSafe
<1>6. WriterCurrent'
  BY <1>3, <1>4 DEF WriterCurrent
<1>. QED BY <1>1, <1>2, <1>3, <1>5, <1>6 DEF SerializedInv, Separate, OneWriter

\* A process that dies leaves at most a torn temporary file.
LEMMA SerializedCrash ==
    ASSUME SerializedInv, TypeInv', WellFormedInv', NEW c \in Clients, Crash(c)
    PROVE  SerializedInv' /\ Published' = Published
<1>1. TypeOK /\ Finish(c, "none") /\ UNCHANGED <<file, tmp, issued>>
  BY DEF SerializedInv, WellFormedInv, TypeInv, Crash
<1>2. CASE UNCHANGED content
  BY <1>1, <1>2, FinishSerialized DEF Published
<1>3. CASE pc[c] = "write" /\ content' = [content EXCEPT ![fd[c]] = Torn]
  <2>1. Mutating(c) /\ fd[c] = tmp /\ tmp # None /\ tmp \in Inodes
    BY <1>1, <1>3 DEF SerializedInv, WriterCurrent, TypeOK
  <2>2. \A j \in Inodes \ {tmp} : content'[j] = content[j]
    BY <1>1, <1>3, <2>1 DEF TypeOK
  <2>3. Published' = Published /\ Readable'
    BY <1>1, <2>1, <2>2 DEF SerializedInv, Separate, Published, Readable, TypeOK
  <2>4. \A d \in Clients : ~ Mutating(d)'
    BY <1>1, <2>1, FinishOthers DEF SerializedInv, OneWriter
  <2>5. pc'[c] = "idle" /\ \A d \in Clients \ {c} : pc'[d] \in {"idle", "load", "read"}
    BY <1>1, <2>1, FinishOthers, OthersRead
  <2>6. ReadersSafe'
    BY <1>1, <2>1, <2>2, <2>5, FinishOthers DEF SerializedInv, ReadersSafe, TypeOK
  <2>7. WriterCurrent'
    BY <2>4, <2>5 DEF WriterCurrent
  <2>. QED BY <1>1, <2>3, <2>4, <2>6, <2>7 DEF SerializedInv, Separate, OneWriter
<1>. QED BY <1>2, <1>3 DEF Crash

LEMMA SerializedStep == Serialized /\ SerializedInv /\ [Next]_vars => SerializedInv'
<1> SUFFICES ASSUME Serialized, SerializedInv, [Next]_vars PROVE SerializedInv'
  OBVIOUS
<1>0. TypeInv' /\ WellFormedInv'
  BY WellFormedStep DEF SerializedInv, WellFormedInv
<1>1. ASSUME NEW c \in Clients, LoadFails(c) \/ Get(c) \/ Answer(c) \/ RenameFails(c)
      PROVE  SerializedInv'
  <2>1. UNCHANGED <<file, tmp, content, issued>> /\ \E outcome : Finish(c, outcome)
    BY <1>1 DEF LoadFails, Get, Answer, RenameFails
  <2>. QED BY <1>0, <2>1, FinishSerialized
<1>2. CASE UNCHANGED vars
  BY <1>0, <1>2 DEF vars, client, SerializedInv, Readable, Separate, OneWriter, ReadersSafe,
                    WriterCurrent, Mutating, OneCallFrom, Published
<1>. QED
  BY <1>0, <1>1, <1>2, SerializedCall, SerializedOpenForRead, SerializedMakeJob,
     SerializedMoveJob, SerializedOpenForWrite, SerializedWrite, SerializedRename,
     SerializedCrash DEF Next, Step

\* While callers do not overlap, jobs.json parses at every moment, readers and
\* crashes at any point included.
THEOREM SerializedAlwaysReadable == ASSUME Serialized PROVE Spec => []AlwaysReadable
<1>1. SerializedInv => AlwaysReadable
  BY DEF SerializedInv, AlwaysReadable
<1>. QED BY SerializedInit, SerializedStep, <1>1, PTL DEF Spec

LEMMA NoErrorsStep == SerializedInv /\ NoStoreErrors /\ [Next]_vars => NoStoreErrors'
<1> SUFFICES ASSUME SerializedInv, NoStoreErrors, [Next]_vars PROVE NoStoreErrors'
  OBVIOUS
<1>0. TypeOK
  BY DEF SerializedInv, WellFormedInv, TypeInv
<1>1. ASSUME NEW c \in Clients, NEW outcome \in {"none", "returned", "refused"}, Finish(c, outcome)
      PROVE  NoStoreErrors'
  BY <1>0, <1>1 DEF NoStoreErrors, Finish, TypeOK
<1>2. ASSUME NEW c \in Clients
      PROVE  ~ LoadFails(c) /\ ~ RenameFails(c)
  BY DEF SerializedInv, ReadersSafe, WriterCurrent, LoadFails, Parses, RenameFails
<1>3. ASSUME NEW c \in Clients, Get(c) \/ Answer(c) \/ Rename(c) \/ Crash(c)
      PROVE  NoStoreErrors'
  BY <1>1, <1>3 DEF Get, Answer, Rename, Crash
<1>4. ASSUME NEW c \in Clients, NEW request \in Calls, Call(c, request)
      PROVE  NoStoreErrors'
  BY <1>0, <1>4 DEF NoStoreErrors, Call, TypeOK
<1>5. ASSUME NEW c \in Clients, NEW id \in JobIds, MakeJob(c, id)
      PROVE  NoStoreErrors'
  BY <1>5 DEF NoStoreErrors, MakeJob
<1>6. ASSUME NEW c \in Clients, OpenForRead(c) \/ MoveJob(c) \/ OpenForWrite(c) \/ Write(c)
      PROVE  NoStoreErrors'
  BY <1>6 DEF NoStoreErrors, OpenForRead, MoveJob, OpenForWrite, Write
<1>7. CASE UNCHANGED vars
  BY <1>7 DEF NoStoreErrors, vars, client
<1>. QED
  BY <1>2, <1>3, <1>4, <1>5, <1>6, <1>7 DEF Next, Step

\* While callers do not overlap, no call fails for a reason inside the store:
\* no reader ever parses half a file, no rename finds its source gone.
THEOREM SerializedNoStoreErrors == ASSUME Serialized PROVE Spec => []NoStoreErrors
<1>1. Init => NoStoreErrors
  BY DEF Init, NoStoreErrors
<1>. QED BY SerializedInit, SerializedStep, NoErrorsStep, <1>1, PTL DEF Spec
-----------------------------------------------------------------------------
(* The refinement. Every step publishes nothing, except a rename, which       *)
(* publishes one accepted submit or one legal transition.                     *)

LEMMA PublishedChanges ==
    ASSUME Serialized, SerializedInv, SerializedInv', [Next]_vars
    PROVE  Published' = Published \/ OneCallFrom(Published, Published')
<1>1. TypeOK
  BY DEF SerializedInv, WellFormedInv, TypeInv
<1>2. CASE UNCHANGED <<file, content>>
  BY <1>2 DEF Published
<1>3. ASSUME NEW c \in Clients, OpenForWrite(c)
      PROVE  Published' = Published
  <2>1. PICK i \in Inodes :
          /\ IF tmp = None THEN FreeInode(i) ELSE i = tmp
          /\ content' = [content EXCEPT ![i] = Truncated]
    BY <1>3 DEF OpenForWrite
  <2>2. i # file /\ file' = file
    BY <1>3, <2>1, StoreAssumption DEF OpenForWrite, SerializedInv, Separate, FreeInode
  <2>. QED BY <1>1, <2>1, <2>2 DEF Published, TypeOK
<1>4. ASSUME NEW c \in Clients, Write(c)
      PROVE  Published' = Published
  <2>1. file' = file /\ fd[c] = tmp /\ tmp \in Inodes
    BY <1>1, <1>4 DEF Write, SerializedInv, WriterCurrent, TypeOK
  <2>2. \E text : content' = [content EXCEPT ![fd[c]] = text]
    BY <1>4 DEF Write
  <2>. QED BY <1>1, <2>1, <2>2 DEF Published, SerializedInv, Separate, TypeOK
<1>5. ASSUME NEW c \in Clients, Rename(c)
      PROVE  OneCallFrom(Published, Published')
  BY <1>5, RenamePublishes
<1>6. ASSUME NEW c \in Clients, Crash(c)
      PROVE  Published' = Published
  <2>1. TypeInv' /\ WellFormedInv'
    BY DEF SerializedInv, WellFormedInv
  <2>. QED BY <1>6, <2>1, SerializedCrash
<1>7. ASSUME NEW c \in Clients, NEW request \in Calls, Call(c, request)
      PROVE  UNCHANGED <<file, content>>
  BY <1>7 DEF Call
<1>8. ASSUME NEW c \in Clients, NEW id \in JobIds, MakeJob(c, id)
      PROVE  UNCHANGED <<file, content>>
  BY <1>8 DEF MakeJob
<1>9. ASSUME NEW c \in Clients,
             OpenForRead(c) \/ LoadFails(c) \/ Get(c) \/ Answer(c) \/ MoveJob(c) \/ RenameFails(c)
      PROVE  UNCHANGED <<file, content>>
  BY <1>9 DEF OpenForRead, LoadFails, Get, Answer, MoveJob, RenameFails
<1>10. CASE UNCHANGED vars
  BY <1>10 DEF vars, Published
<1>. QED
  BY <1>2, <1>3, <1>4, <1>5, <1>6, <1>7, <1>8, <1>9, <1>10 DEF Next, Step

\* One call from s to t is a step of the promised controller.
LEMMA OneCallIsPromised ==
    ASSUME OneCallFrom(Published, Published')
    PROVE  Promise!Next
<1>1. ASSUME NEW p \in Procedures, NEW id \in JobIds,
             Accepts(Published, p), id \notin DOMAIN Published.jobs,
             Published' = Submitted(Published, p, id)
      PROVE  Promise!Submit(p, id)
  BY <1>1 DEF Promise!Submit, Promise!Accepts, Promise!KeyMissing, Promise!KnownKey,
              Promise!Duplicate, Promise!Submitted, Promise!Put,
              Accepts, KeyMissing, KnownKey, Duplicate, Submitted, Put
<1>2. ASSUME NEW id \in JobIds, NEW to \in JOB_STATES, NEW payload \in Payloads \cup {None},
             CanTransition(Published, id, to),
             Published' = Transitioned(Published, id, to, payload)
      PROVE  Promise!Transition(id, to, payload)
  BY <1>2 DEF Promise!Transition, Promise!CanTransition, Promise!isLegalTransition, Promise!EDGES,
              Promise!Transitioned, Promise!TransitionedJob, Promise!TransitionEvent,
              CanTransition, isLegalTransition, EDGES,
              Transitioned, TransitionedJob, TransitionEvent
<1>. QED
  BY <1>1, <1>2 DEF OneCallFrom, Promise!Next, Promise!JOB_STATES, JOB_STATES

\* Serialized calls take effect atomically: the file-backed store implements
\* JobController, whatever readers do and wherever processes die.
THEOREM SerializedImplements == ASSUME Serialized PROVE Spec => ImplementsJobController
<1>1. Init => Promise!Init
  BY DEF Init, Promise!Init, Published, EMPTY, EmptyMap, Promise!EMPTY, Promise!EmptyMap
<1>2. SerializedInv /\ SerializedInv' /\ [Next]_vars => [Promise!Next]_Published
  BY PublishedChanges, OneCallIsPromised
<1>. QED
  BY SerializedInit, SerializedStep, <1>1, <1>2, PTL DEF Spec, ImplementsJobController, Promise!Spec
-----------------------------------------------------------------------------
(* What one call may not do to a well-formed snapshot, and with it what no    *)
(* step of a serialized store does to the published one.                      *)

LEMMA OneCallKeeps ==
    ASSUME NEW s, NEW t, IsSnapshot(s), WellFormed(s), OneCallFrom(s, t)
    PROVE  KeepsTerminalJobs(s, t) /\ ExtendsHistories(s, t)
BY SubmittedKeeps, TransitionedKeeps DEF OneCallFrom

LEMMA OneCallKeepsKey ==
    ASSUME NEW s, NEW t, OneCallFrom(s, t), NEW key \in Keys,
           \A p \in Procedures : p.idempotencyKey = key => p.idempotency = "key-required"
    PROVE  KeepsKey(s, t, key)
<1>1. ASSUME NEW p \in Procedures, NEW id, Accepts(s, p), t = Submitted(s, p, id)
      PROVE  KeepsKey(s, t, key)
  <2>1. p.idempotencyKey = key => key \notin DOMAIN s.idempotencyKeys
    BY <1>1 DEF Accepts, KnownKey
  <2>. QED BY <1>1, <2>1, SubmittedKeepsKey
<1>. QED BY <1>1, TransitionedKeeps DEF OneCallFrom

LEMMA PublishedIsWellFormed == SerializedInv => IsSnapshot(Published) /\ WellFormed(Published)
<1>1. CASE file = None
  BY <1>1, EmptySnapshot DEF Published
<1>2. CASE file # None
  BY <1>2 DEF Published, SerializedInv, WellFormedInv, TypeInv, TypeOK, IsContent, SnapshotsWellFormed
<1>. QED BY <1>1, <1>2

\* Between two published snapshots lies nothing or one call.
LEMMA PublishedSteps ==
    ASSUME Serialized, SerializedInv, SerializedInv', [Next]_vars
    PROVE  /\ KeepsTerminalJobs(Published, Published')
           /\ ExtendsHistories(Published, Published')
           /\ \A key \in Keys :
                (\A p \in Procedures : p.idempotencyKey = key => p.idempotency = "key-required")
                    => KeepsKey(Published, Published', key)
<1>1. IsSnapshot(Published) /\ WellFormed(Published)
  BY PublishedIsWellFormed
<1>2. CASE Published' = Published
  BY <1>1, <1>2, UnchangedSnapshot
<1>3. CASE OneCallFrom(Published, Published')
  BY <1>1, <1>3, OneCallKeeps, OneCallKeepsKey
<1>. QED BY <1>2, <1>3, PublishedChanges

\* While callers do not overlap, a terminal result is immutable.
THEOREM SerializedTerminalImmutable == ASSUME Serialized PROVE Spec => TerminalJobsImmutable
<1>1. SerializedInv /\ SerializedInv' /\ [Next]_vars => [KeepsTerminalJobs(Published, Published')]_vars
  BY PublishedSteps
<1>. QED BY SerializedInit, SerializedStep, <1>1, PTL DEF Spec, TerminalJobsImmutable

\* While callers do not overlap, no published event is lost or rewritten.
THEOREM SerializedAppendOnly == ASSUME Serialized PROVE Spec => HistoriesAppendOnly
<1>1. SerializedInv /\ SerializedInv' /\ [Next]_vars => [ExtendsHistories(Published, Published')]_vars
  BY PublishedSteps
<1>. QED BY SerializedInit, SerializedStep, <1>1, PTL DEF Spec, HistoriesAppendOnly

\* While callers do not overlap, an idempotency key names one job for ever.
THEOREM SerializedKeysNameOneJob == ASSUME Serialized PROVE Spec => KeysNameOneJob
<1> DEFINE Step1 == \A key \in Keys :
              (\A p \in Procedures : p.idempotencyKey = key => p.idempotency = "key-required")
                  => KeepsKey(Published, Published', key)
<1>1. SerializedInv /\ SerializedInv' /\ [Next]_vars => [Step1]_vars
  BY PublishedSteps
<1>. QED BY SerializedInit, SerializedStep, <1>1, PTL DEF Spec, KeysNameOneJob
-----------------------------------------------------------------------------
\* Every history of a well-formed snapshot passes the trace checker that the
\* conformance tests run, whatever the procedure's idempotency.
THEOREM HistoriesPassTheChecker ==
    ASSUME NEW s, IsSnapshot(s), WellFormed(s), NEW id \in DOMAIN s.jobs,
           NEW idempotency \in Idempotency
    PROVE  assertJobTrace(s.events[id], idempotency)
<1> DEFINE h == s.events[id]
<1>1. h \in Seq(Event) /\ LegalHistory(h)
  BY DEF IsSnapshot, IsMap, WellFormed, Linked
<1>. HIDE DEF h
<1>2. \A i \in 1..Len(h) : h[i].sequence > (IF i = 1 THEN 0 ELSE h[i - 1].sequence)
  BY <1>1 DEF LegalHistory
<1>3. ASSUME NEW i \in 1..Len(h), h[i].type = "transition"
      PROVE  isLegalTransition(h[i].from, h[i].to)
  BY <1>1, <1>3 DEF LegalHistory
<1>4. Cardinality({i \in 1..Len(h) : h[i].type = "execution-started"}) <= 1
  <2>1. \A i \in 1..Len(h) : h[i].type \in {"submitted", "transition"}
    <3>1. \A i \in 1..Len(h) : h[i] \in Event
      BY <1>1
    <3>. QED BY <3>1 DEF Event
  <2>2. {i \in 1..Len(h) : h[i].type = "execution-started"} = {}
    BY <2>1
  <2>3. Cardinality({}) = 0
    BY FS_EmptySet
  <2>4. Cardinality({i \in 1..Len(h) : h[i].type = "execution-started"}) = 0
    BY <2>2, <2>3, Zenon
  <2>. QED BY <2>4
<1>. QED BY <1>2, <1>3, <1>4 DEF assertJobTrace, h
=============================================================================
