----------------------------- MODULE MCCampaign -----------------------------
(* A campaign for TLC, from both ends: the aggregation of its runs, and one   *)
(* host's shard. They share no state (the runs file of the shard is any list  *)
(* to the aggregation), so a behaviour exercises one of the two while the     *)
(* other stays as it began.                                                   *)
(*                                                                            *)
(* The aggregation has one task, host and seed, two harnesses and             *)
(* repetitions. A run is as it should be or deviates in one way, before or    *)
(* after it is signed; any number of the runs of a list deviate alike. The    *)
(* shard has a slot of each harness, and the plan one of another host.        *)
EXTENDS Campaign, CampaignShard, TLC

CONSTANTS h1, h2, codex, claude, p1, p2, MaxRuns

Matrix1 == Matrix({"task"})
MCPassRate == <<3, 4>>
MCSeedAgreement == <<1, 2>>
MCRequired == [t \in TaskIds |-> {"compile", "tests"}]

MCBundle(s, n) == [runId |-> <<s, n>>, slot |-> s, roles |-> {"compile", "tests"}, sound |-> TRUE]

Record(s, n) ==
    [slot |-> s, claims |-> s, runId |-> <<s, n>>, evidence |-> MCBundle(s, n),
     verdict |-> "valid", workspaceState |-> "known-clean", orphanProcesses |-> 0,
     privateAffordances |-> FALSE, soak |-> s.repetition = 1,
     durationMinutes |-> IF s.repetition = 1 THEN SoakMinutes ELSE 1,
     evaluator |-> [id |-> "e1", digest |-> "d1"]]

Signed(r) == r @@ [attestation |-> [authority |-> r.evaluator.id, signedBy |-> r.evaluator.id,
                                    payload |-> r]]

Nominal == {Signed(Record(s, 1)) : s \in Matrix1}

\* Beside what it says: evidence that is lost (n = 0), a second run of the slot (n = 2).
Deviation(kind, s) ==
    LET r == Record(s, 1)
        b == MCBundle(s, 1)
    IN  CASE kind = "verdict" -> Signed([r EXCEPT !.verdict = "invalid"])
          [] kind = "workspace" -> Signed([r EXCEPT !.workspaceState = "unknown"])
          [] kind = "orphan" -> Signed([r EXCEPT !.orphanProcesses = 1])
          [] kind = "soak" -> Signed([r EXCEPT !.soak = FALSE])
          [] kind = "short" -> Signed([r EXCEPT !.durationMinutes = 1])
          [] kind = "private" -> Signed([r EXCEPT !.privateAffordances = TRUE])
          [] kind = "evaluator" -> Signed([r EXCEPT !.evaluator.digest = "d2"])
          [] kind = "untrusted" -> Signed([r EXCEPT !.evaluator.id = "e3"])
          [] kind = "claims" -> Signed([r EXCEPT !.claims.repetition = 3 - @])
          [] kind = "identity" -> Signed([r EXCEPT !.runId = <<"reused">>, !.evidence.runId = <<"reused">>])
          [] kind = "roles" -> Signed([r EXCEPT !.evidence.roles = {"compile"}])
          [] kind = "unsound" -> Signed([r EXCEPT !.evidence.sound = FALSE])
          [] kind = "lost" -> Signed(Record(s, 0))
          [] kind = "rerun" -> Signed(Record(s, 2))
          [] kind = "altered" -> [Signed([r EXCEPT !.verdict = "invalid"]) EXCEPT !.verdict = "valid"]
          [] kind = "foreign" -> Signed(Record([s EXCEPT !.task = "other"], 1))

Kinds == {"verdict", "workspace", "orphan", "soak", "short", "private", "evaluator", "untrusted",
          "claims", "identity", "roles", "unsound", "lost", "rerun", "altered", "foreign"}
Deviant == [kind \in Kinds |-> {Deviation(kind, s) : s \in Matrix1}]

MCRuns == Nominal \cup UNION {Deviant[kind] : kind \in Kinds}
MCStored == {r.evidence : r \in MCRuns \ Deviant["lost"]}

MCBounded(list) ==
    /\ Len(list) <= MaxRuns
    /\ \E kind \in Kinds : \A i \in DOMAIN list : list[i] \in Nominal \cup Deviant[kind]

MCPlan == << [host |-> Host, harness |-> codex], [host |-> Host, harness |-> claude],
             [host |-> "windows-x64", harness |-> codex] >>

MCSymmetry == Permutations(Pids) \cup Permutations(Harnesses)

\* While one of the two is exercised.
AggregationOnly == ShardInit /\ UNCHANGED shardVars
ShardOnly == loaded /\ runs = <<>> /\ UNCHANGED vars

CampaignInit == Init /\ ShardInit

CampaignNext ==
    \/ \E run \in Runs : AggregationOnly /\ Consider(run)
    \/ \E p \in Pids :
          \/ \E filter \in Filters \cup {NoFilter} : ShardStatus(p, filter) /\ ShardOnly
          \/ OpenTemporary(p) /\ ShardOnly
          \/ FillTemporary(p) /\ ShardOnly
          \/ RenameReport(p) /\ ShardOnly
          \/ RenameCompleted(p) /\ ShardOnly
          \/ ProcessDies(p) /\ ShardOnly
          \/ CheckpointSlot(p) /\ ShardOnly
    \/ TakeSlot /\ ShardOnly
    \/ AppendRun /\ ShardOnly
    \/ OperatorDies /\ ShardOnly
    \/ \E harness \in Filters, outcome \in {"completed", "blocked", "invalid"} :
          RunHarness(harness, outcome) /\ ShardOnly
    \/ \E publishable \in BOOLEAN : Evaluate(publishable) /\ ShardOnly

CampaignSpec == CampaignInit /\ [][CampaignNext]_<<vars, shardVars>>

\* The variables of both keep their types.
CampaignTypeOK == TypeOK /\ ShardTypeOK
=============================================================================
