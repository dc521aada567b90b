---------------------------- MODULE CampaignShard ----------------------------
(* One host's shard of a campaign on its way through the operator's tools:    *)
(* scripts/campaign-shard-status.mjs, scripts/run-harness.mjs and             *)
(* packages/campaign-operator/src/index.mjs. The checkpoint is one file that  *)
(* status and the operator's own checkpointing read and replace, each in a    *)
(* process that may die; nothing locks it. A file of another campaign or host *)
(* is refused before anything is written, and is left out.                    *)
EXTENDS Naturals, Sequences, FiniteSets, SequencesExt

CONSTANTS Plan,          \* plan.slots: its slots, each with a host and a harness
          Host, Filters, NoFilter,        \* the --harness option, or none
          Pids, NoSlot, NoFile, Cut,
          MaxAppended    \* bound: runs in the runs file

ASSUME ShardAssumption ==
    /\ \A i \in DOMAIN Plan : {"host", "harness"} \subseteq DOMAIN Plan[i]
    /\ \A i, j \in DOMAIN Plan : Plan[i] = Plan[j] => i = j
    /\ DOMAIN Plan \subseteq Nat /\ NoSlot \notin Range(Plan)
    /\ NoFilter \notin Filters /\ (Filters \cup {NoFilter}) \cap Range(Plan) = {}
    /\ NoFile # Cut /\ {NoFile, Cut} \cap Seq(Range(Plan)) = {} /\ MaxAppended \in Nat

VARIABLES checkpoint,    \* the file: completedSlotIds, Cut, or NoFile
          temp,          \* <checkpoint>.<pid>.tmp, likewise
          writing,       \* how far each process is in writeCampaignCheckpointAtomic
          draft,         \* the completed slots it read, or read and added to
          purpose,       \* the filter of a status, the slot of a checkpointing
          hand, progress,                 \* the operator's slot, and what is done of it
          offer,         \* nextSlotId as last reported to the operator
          appended,      \* the runs file, as slots
          published,     \* history: slots whose checkpointing has returned
          overlapped,    \* history: two processes were between read and rename
          interrupted,   \* history: the operator died between run and checkpoint
          died           \* history: pids of processes that died

fileVars == <<checkpoint, temp, writing, draft, purpose, published, overlapped, died>>
operatorVars == <<hand, progress, offer, appended, interrupted>>
shardVars == <<fileVars, operatorVars>>

Local(filter) == {s \in Range(Plan) : s.host = Host /\ (filter = NoFilter \/ s.harness = filter)}

ShardInit ==
    /\ checkpoint = NoFile /\ temp = [p \in Pids |-> NoFile]
    /\ writing = [p \in Pids |-> "no"] /\ draft = [p \in Pids |-> <<>>]
    /\ purpose = [p \in Pids |-> NoFilter]
    /\ hand = NoSlot /\ progress = "free" /\ offer = NoSlot /\ appended = <<>>
    /\ published = {} /\ died = {}
    /\ overlapped = FALSE /\ interrupted = FALSE
-----------------------------------------------------------------------------
\* readCheckpoint: a missing file is an empty list; a file cut short throws.
Readable == checkpoint # Cut
Completed == IF checkpoint = NoFile THEN <<>> ELSE checkpoint

\* selectHostSlots throws on a duplicate and on a slot that is not of this shard.
SelectThrows(completed, filter) == ~ IsInjective(completed) \/ ~ Range(completed) \subseteq Local(filter)

\* Fault variant of Pending: completed slots are not left out.
PendingAll(completed, filter) == {i \in DOMAIN Plan : Plan[i] \in Local(filter)}

\* The places of the slots yet to be done, in the plan's order.
Pending(completed, filter) ==
    {i \in DOMAIN Plan : Plan[i] \in Local(filter) \ Range(completed)}

NextSlot(completed, filter) ==
    LET pending == Pending(completed, filter) IN IF pending = {} THEN NoSlot ELSE Plan[Min(pending)]

Enter(p, slots, aim) ==
    /\ writing' = [writing EXCEPT ![p] = "open"]
    /\ draft' = [draft EXCEPT ![p] = slots]
    /\ purpose' = [purpose EXCEPT ![p] = aim]
    /\ overlapped' = (overlapped \/ \E q \in Pids : writing[q] # "no")

Leave(p) ==
    /\ writing' = [writing EXCEPT ![p] = "no"]
    /\ draft' = [draft EXCEPT ![p] = <<>>]
    /\ purpose' = [purpose EXCEPT ![p] = NoFilter]

\* Fault variant of ShardStatus: foreign slots are dropped, not refused.
ShardStatusDropping(p, filter) ==
    /\ writing[p] = "no" /\ Readable
    /\ Enter(p, SelectSeq(Completed, LAMBDA s : s \in Local(filter)), filter)
    /\ UNCHANGED <<checkpoint, temp, published, died, operatorVars>>

\* campaign-shard-status reads the checkpoint and selects what is pending; a
\* status that throws changes nothing.
ShardStatus(p, filter) ==
    /\ writing[p] = "no" /\ Readable
    /\ ~ SelectThrows(Completed, filter)
    /\ Enter(p, Completed, filter)
    /\ UNCHANGED <<checkpoint, temp, published, died, operatorVars>>

\* Fault variant of TemporaryPath: one name for all processes.
SharedPath(p) == CHOOSE q \in Pids : TRUE

TemporaryPath(p) == p

\* writeFile with flag 'wx' opens the temporary file, or throws EEXIST.
OpenTemporary(p) ==
    /\ writing[p] = "open"
    /\ IF temp[TemporaryPath(p)] = NoFile
       THEN /\ temp' = [temp EXCEPT ![TemporaryPath(p)] = Cut]
            /\ writing' = [writing EXCEPT ![p] = "write"]
            /\ UNCHANGED <<draft, purpose>>
       ELSE Leave(p) /\ UNCHANGED temp
    /\ UNCHANGED <<checkpoint, published, overlapped, died, operatorVars>>

\* Fault variant of FillTemporary: the checkpoint itself is opened for writing.
FillInPlace(p) ==
    /\ writing[p] = "write"
    /\ temp' = [temp EXCEPT ![TemporaryPath(p)] = draft[p]]
    /\ checkpoint' = Cut
    /\ writing' = [writing EXCEPT ![p] = "rename"]
    /\ UNCHANGED <<draft, purpose, published, overlapped, died, operatorVars>>

FillTemporary(p) ==
    /\ writing[p] = "write"
    /\ temp' = [temp EXCEPT ![TemporaryPath(p)] = draft[p]]
    /\ writing' = [writing EXCEPT ![p] = "rename"]
    /\ UNCHANGED <<checkpoint, draft, purpose, published, overlapped, died, operatorVars>>

Publish(p) ==
    /\ writing[p] = "rename"
    /\ checkpoint' = temp[TemporaryPath(p)]
    /\ temp' = [temp EXCEPT ![TemporaryPath(p)] = NoFile]
    /\ Leave(p)

\* A status reports what was pending when it read; an operator who has a slot in
\* hand does not look.
RenameReport(p) ==
    /\ purpose[p] \in Filters \cup {NoFilter}
    /\ Publish(p)
    /\ offer' = IF progress = "free" THEN NextSlot(draft[p], purpose[p]) ELSE offer
    /\ UNCHANGED <<published, overlapped, died, hand, progress, appended, interrupted>>

\* A checkpointing returns, and the operator is free for the next slot.
RenameCompleted(p) ==
    /\ purpose[p] \in Range(Plan)
    /\ Publish(p)
    /\ published' = published \cup {purpose[p]}
    /\ IF progress = "appended" /\ hand = purpose[p]
       THEN progress' = "free" /\ hand' = NoSlot
       ELSE UNCHANGED <<progress, hand>>
    /\ UNCHANGED <<overlapped, died, offer, appended, interrupted>>

\* A process dies, its pid may come again; the temporary file stays.
ProcessDies(p) ==
    /\ writing[p] # "no"
    /\ Leave(p)
    /\ died' = died \cup {p}
    /\ UNCHANGED <<checkpoint, temp, published, overlapped, operatorVars>>
-----------------------------------------------------------------------------
\* The operator takes the reported slot, and gives it up when a step of it fails.
TakeSlot ==
    /\ progress = "free" /\ offer # NoSlot
    /\ hand' = offer /\ progress' = "taken" /\ offer' = NoSlot
    /\ UNCHANGED <<appended, interrupted, fileVars>>

GiveUp == hand' = NoSlot /\ progress' = "free"

\* run-harness: the slot must be planned for this host and harness, and the outcome
\* completed or blocked; anything else throws before a record is written.
RunHarness(harness, outcome) ==
    /\ progress = "taken"
    /\ IF hand \in Local(harness) /\ outcome \in {"completed", "blocked"}
       THEN progress' = "recorded" /\ UNCHANGED hand
       ELSE GiveUp
    /\ UNCHANGED <<offer, appended, interrupted, fileVars>>

\* buildCampaignEvidence and signEvaluatorRun: the evaluator's evidence is accepted
\* when its roles are those required and none is empty or private.
Evaluate(publishable) ==
    /\ progress = "recorded"
    /\ IF publishable THEN progress' = "evaluated" /\ UNCHANGED hand ELSE GiveUp
    /\ UNCHANGED <<offer, appended, interrupted, fileVars>>

\* External: the run is appended, and its slot checkpointed after that.
AppendRun ==
    /\ progress = "evaluated" /\ Len(appended) < MaxAppended
    /\ appended' = Append(appended, hand)
    /\ progress' = "appended"
    /\ UNCHANGED <<hand, offer, interrupted, fileVars>>

\* writeCampaignCheckpointAtomic refuses a slot that is in the list already.
CheckpointSlot(p) ==
    /\ progress = "appended" /\ writing[p] = "no" /\ Readable
    /\ \A q \in Pids : purpose[q] # hand
    /\ IF hand \in Range(Completed)
       THEN GiveUp /\ UNCHANGED <<writing, draft, purpose, overlapped>>
       ELSE Enter(p, Append(Completed, hand), hand) /\ UNCHANGED <<hand, progress>>
    /\ UNCHANGED <<checkpoint, temp, published, died, offer, appended, interrupted>>

OperatorDies ==
    /\ progress # "free"
    /\ GiveUp /\ offer' = NoSlot
    /\ interrupted' = (interrupted \/ progress = "appended")
    /\ UNCHANGED <<appended, fileVars>>

ShardNext ==
    \/ \E p \in Pids :
          \/ \E filter \in Filters \cup {NoFilter} : ShardStatus(p, filter)
          \/ OpenTemporary(p) \/ FillTemporary(p) \/ RenameReport(p) \/ RenameCompleted(p)
          \/ ProcessDies(p) \/ CheckpointSlot(p)
    \/ TakeSlot \/ AppendRun \/ OperatorDies
    \/ \E harness \in Filters, outcome \in {"completed", "blocked", "invalid"} : RunHarness(harness, outcome)
    \/ \E publishable \in BOOLEAN : Evaluate(publishable)

ShardSpec == ShardInit /\ [][ShardNext]_shardVars
-----------------------------------------------------------------------------
ShardTypeOK ==
    /\ checkpoint \in {NoFile} \cup Seq(Range(Plan))
    /\ temp \in [Pids -> {Cut, NoFile} \cup Seq(Range(Plan))]
    /\ writing \in [Pids -> {"no", "open", "write", "rename"}]
    /\ draft \in [Pids -> Seq(Range(Plan))]
    /\ purpose \in [Pids -> Filters \cup {NoFilter} \cup Range(Plan)]
    /\ hand \in Range(Plan) \cup {NoSlot} /\ offer \in Range(Plan) \cup {NoSlot}
    /\ progress \in {"free", "taken", "recorded", "evaluated", "appended"}
    /\ appended \in Seq(Range(Plan))

(* A slot whose checkpointing has returned stays completed, whatever dies and *)
(* whatever statuses are asked with which filter, as long as no two processes *)
(* are between reading the file and replacing it.                             *)
CompletedStay == ~ overlapped => published \subseteq Range(Completed)

(* No slot's run is appended twice, unless processes overlap or the operator  *)
(* dies with a run appended and its slot not yet checkpointed.                *)
RunOnce == ~ overlapped /\ ~ interrupted => IsInjective(appended)

(* The shard can be resumed at any moment: the checkpoint is whole, and holds *)
(* slots of this host, none twice, so that a status without a filter goes on. *)
AlwaysResumable == checkpoint # Cut /\ ~ SelectThrows(Completed, NoFilter)

(* A process meets a temporary file only where one of its own pid has died    *)
(* before: processes that live side by side never meet.                       *)
OnlyLeftoversCollide ==
    \A p \in Pids : writing[p] = "open" /\ temp[TemporaryPath(p)] # NoFile => p \in died
=============================================================================
