------------------------------ MODULE Campaign ------------------------------
(* aggregateCampaign and loadCampaignEvidence of packages/campaign/src, as    *)
(* scripts/evaluate-campaign.mjs calls them: the runs file may hold anything, *)
(* in any order, and the list may end after any run. Each step takes one more *)
(* run through the loop; Status is what is returned if the list ends there.   *)
(*                                                                            *)
(* The loader goes over the whole list before the aggregation does. Neither   *)
(* changes anything the other reads, so a run passes both in one step. An     *)
(* index with an entry no run asks for is refused at once, and is left out.   *)
(*                                                                            *)
(* Evidence is content addressed: a bundle stands for its hash too, and the   *)
(* hash on a run matches the bytes the index leads to iff they are the bundle.*)
EXTENDS CampaignPlan, Sequences, FiniteSetsExt

CONSTANTS Runs,           \* the run records that may stand in the file
          Stored,         \* the bundles the evidence index leads to, whole
          Evaluators,     \* authorities whose key has the trusted fingerprint
          PassRate, SeedAgreement,        \* thresholds, as <<numerator, denominator>>
          MaxOrphans, MaxUnknown,         \* thresholds
          SoakMinutes,
          Bounded(_)      \* bound: the lists considered

VARIABLES loaded,         \* the bundles come from loadCampaignEvidence
          runs,           \* the list so far
          rejected,       \* the loader threw: there is no result
          seen, seenRunIds,
          accepted,       \* the places of the accepted runs in the list
          attested, failures

vars == <<loaded, runs, rejected, seen, seenRunIds, accepted, attested, failures>>

Verdicts == {"valid", "invalid", "inconclusive"}

Init ==
    /\ loaded \in BOOLEAN
    /\ runs = <<>> /\ rejected = FALSE
    /\ seen = {} /\ seenRunIds = {} /\ accepted = {} /\ attested = {} /\ failures = {}
-----------------------------------------------------------------------------
\* campaignRunAttestationPayload
Payload(run) == [field \in DOMAIN run \ {"attestation"} |-> run[field]]

\* verifyEvidenceAttestation; a signature stands for the evaluator who made it.
Attested(run) ==
    /\ run.attestation.authority = run.evaluator.id
    /\ run.attestation.signedBy = run.evaluator.id /\ run.evaluator.id \in Evaluators
    /\ run.attestation.payload = Payload(run)

\* The checks of a run's own fields.
RecordValid(run) ==
    /\ run.claims = run.slot
    /\ ~ run.privateAffordances
    /\ run.verdict \in Verdicts
    /\ run.orphanProcesses \in Nat
    /\ run.durationMinutes \in 1 .. 1440

Required(slot) == IF slot \in Slots THEN RequiredEvidence[slot.task] ELSE {}

\* verifyEvidenceBundle over the bytes themselves.
BytesVerify(run) ==
    /\ run.evidence \in Stored
    /\ run.evidence.sound       \* schema, privacy, ledger chain, artifact hashes, role content
    /\ run.evidence.runId = run.runId /\ run.evidence.slot = run.slot
    /\ run.evidence.roles # {} /\ run.evidence.roles = Required(run.slot)

\* Fault variant of Loads: the bundle's hash is checked, not whom it is about.
LoadsUnverified(run) ==
    /\ \A i \in DOMAIN runs : runs[i].evidence # run.evidence
    /\ run.evidence \in Stored

\* loadCampaignEvidence takes this run too.
Loads(run) ==
    /\ \A i \in DOMAIN runs : runs[i].evidence # run.evidence
    /\ BytesVerify(run)

\* What loadCampaignEvidence leaves in the map for a hash: the identity of its last run.
Marker(list, evidence) ==
    LET last == Max({i \in DOMAIN list : list[i].evidence = evidence})
    IN  [runId |-> list[last].runId, slot |-> list[last].slot]

\* verifyEvidenceBundle: a bundle the loader has verified only has its identity compared.
EvidenceVerified(run, list) ==
    IF loaded THEN Marker(list, run.evidence) = [runId |-> run.runId, slot |-> run.slot]
    ELSE BytesVerify(run)

Fail(kinds, run) == failures' = failures \cup {[kind |-> k, slot |-> run.slot] : k \in kinds}

\* Fault variant of Unexpected: the slot is recorded as seen before the loop goes on.
UnexpectedSeen(run) ==
    /\ run.slot \notin Slots
    /\ Fail({"unexpected"}, run)
    /\ seen' = seen \cup {run.slot}
    /\ UNCHANGED <<seenRunIds, accepted, attested>>

Unexpected(run) ==
    /\ run.slot \notin Slots
    /\ Fail({"unexpected"}, run)
    /\ UNCHANGED <<seen, seenRunIds, accepted, attested>>

\* Fault variant of Duplicate: a second run of a slot is skipped without a word.
DuplicateSkipped(run) ==
    /\ run.slot \in seen
    /\ UNCHANGED <<seen, seenRunIds, accepted, attested, failures>>

Duplicate(run) ==
    /\ run.slot \in seen
    /\ Fail({"duplicate"}, run)
    /\ UNCHANGED <<seen, seenRunIds, accepted, attested>>

Accept(run) ==
    /\ run.slot \in Slots \ seen
    /\ seen' = seen \cup {run.slot}
    /\ seenRunIds' = seenRunIds \cup {run.runId}
    /\ accepted' = accepted \cup {Len(runs) + 1}
    /\ attested' = IF Attested(run) THEN attested \cup {run.slot} ELSE attested
    /\ Fail({k \in {"identity", "record", "attestation", "evidence"} :
                \/ k = "identity" /\ run.runId \in seenRunIds
                \/ k = "record" /\ ~ RecordValid(run)
                \/ k = "attestation" /\ ~ Attested(run)
                \/ k = "evidence" /\ ~ EvidenceVerified(run, runs')}, run)

\* One turn of the loops over the runs.
Consider(run) ==
    /\ ~ rejected /\ Bounded(Append(runs, run))
    /\ runs' = Append(runs, run)
    /\ rejected' = (loaded /\ ~ Loads(run))
    /\ Unexpected(run) \/ Duplicate(run) \/ Accept(run)
    /\ UNCHANGED loaded

Next == \E run \in Runs : Consider(run)

Spec == Init /\ [][Next]_vars
-----------------------------------------------------------------------------
Below(count, total, threshold) == count * threshold[2] < threshold[1] * total

\* The counts are over places in the list.
Agreeing(places) ==
    {g \in {SeedGroup(runs[i].claims) : i \in places} :
        \A i, j \in places : SeedGroup(runs[i].claims) = g /\ SeedGroup(runs[j].claims) = g
                                 => runs[i].verdict = runs[j].verdict}

Orphans(places) ==
    MapThenSumSet(LAMBDA i : IF runs[i].orphanProcesses \in Nat THEN runs[i].orphanProcesses ELSE 0,
                  places)

RatesMet(places) ==
    /\ ~ Below(Cardinality({i \in places : runs[i].verdict = "valid"}), Cardinality(places), PassRate)
    /\ ~ Below(Cardinality(Agreeing(places)), Cardinality({SeedGroup(runs[i].claims) : i \in places}),
               SeedAgreement)

ThresholdsMet(places) ==
    /\ places # {} => RatesMet(places)
    /\ Orphans(places) <= MaxOrphans
    /\ Cardinality({i \in places : runs[i].workspaceState # "known-clean"}) <= MaxUnknown

\* enforceEvaluatorFairness
EvaluatorFair(places) ==
    \A i, j \in places :
        FairnessGroup(runs[i].claims) = FairnessGroup(runs[j].claims) => runs[i].evaluator = runs[j].evaluator

\* Fault variant of SoakCovered: the soak marker is taken for the soak.
SoakCoveredUnmeasured(places, att) ==
    \A s \in Slots : \E i \in places :
        SoakPair(runs[i].claims) = SoakPair(s) /\ runs[i].slot \in att /\ runs[i].soak

\* enforceSoakCoverage
SoakCovered(places, att) ==
    \A s \in Slots : \E i \in places :
        /\ SoakPair(runs[i].claims) = SoakPair(s) /\ runs[i].slot \in att
        /\ runs[i].soak /\ runs[i].durationMinutes >= SoakMinutes

Missing == Slots \ seen

\* What aggregateCampaign returns if the list ends here.
Status ==
    IF \/ failures # {}
       \/ ~ ThresholdsMet(accepted) \/ ~ EvaluatorFair(accepted)
       \/ Missing = {} /\ ~ SoakCovered(accepted, attested)
    THEN "invalid"
    ELSE IF Missing # {} THEN "incomplete" ELSE "pass"
-----------------------------------------------------------------------------
TypeOK ==
    /\ loaded \in BOOLEAN /\ rejected \in BOOLEAN
    /\ runs \in Seq(Runs) /\ accepted \subseteq DOMAIN runs
    /\ seen = {runs[i].slot : i \in accepted} /\ seen \subseteq Slots
    /\ seenRunIds = {runs[i].runId : i \in accepted}
    /\ attested \subseteq seen
    /\ \A f \in failures :
          /\ f.kind \in {"unexpected", "duplicate", "identity", "record", "attestation", "evidence"}
          /\ \E run \in Runs : f.slot = run.slot

Complete == \A s \in Slots : \E i \in DOMAIN runs : runs[i].slot = s

\* The runs fill distinct slots of the plan under distinct identities, each in order by itself.
InOrder ==
    /\ \A i, j \in DOMAIN runs :
          i # j => runs[i].slot # runs[j].slot /\ runs[i].runId # runs[j].runId
    /\ \A i \in DOMAIN runs : /\ runs[i].slot \in Slots /\ RecordValid(runs[i])
                              /\ Attested(runs[i]) /\ BytesVerify(runs[i])

\* What the list deserves, said of all of it at once and without any order.
Deserved ==
    IF \/ ~ InOrder
       \/ ~ ThresholdsMet(DOMAIN runs) \/ ~ EvaluatorFair(DOMAIN runs)
       \/ Complete /\ ~ SoakCovered(DOMAIN runs, Slots)
    THEN "invalid" ELSE IF Complete THEN "pass" ELSE "incomplete"

(* The loop, with its early exits and running sets, returns the status the    *)
(* list deserves; in particular the order of the runs does not matter, and a  *)
(* run dropped from the counts never hides what is wrong with the list.       *)
StatusIsDeserved == ~ rejected => Status = Deserved

(* A pass means one run per planned slot and nothing else, each attested as   *)
(* it stands, no evidence used twice, the harnesses of a cell judged by one   *)
(* evaluator, and every host and harness soaked.                              *)
PassIsEarned ==
    ~ rejected /\ Status = "pass" =>
        /\ Len(runs) = Cardinality(Slots)
        /\ \A s \in Slots : \E i \in DOMAIN runs : runs[i].claims = s /\ Attested(runs[i])
        /\ \A i, j \in DOMAIN runs : i # j => runs[i].evidence # runs[j].evidence
        /\ \A i, j \in DOMAIN runs : FairnessGroup(runs[i].slot) = FairnessGroup(runs[j].slot)
                                          => runs[i].evaluator = runs[j].evaluator
        /\ \A s \in Slots : \E i \in DOMAIN runs :
              SoakPair(runs[i].slot) = SoakPair(s) /\ runs[i].durationMinutes >= SoakMinutes

(* Loader and aggregation agree: what the first let through the second never  *)
(* refuses for its slot being unplanned or for its evidence.                  *)
LoaderAgrees ==
    loaded /\ ~ rejected => \A f \in failures : f.kind \notin {"unexpected", "evidence"}
=============================================================================
