--------------------------- MODULE Campaign_proofs ---------------------------
(* Proofs about a campaign from both ends. The aggregation returns what the   *)
(* list of runs deserves, whatever the plan, the thresholds and the length of *)
(* the list. On a host, for any plan, any number of processes and any deaths, *)
(* the checkpoint is always one a shard can be resumed from, and while no two *)
(* processes overlap nothing completed is lost and nothing run twice. What    *)
(* TLC checks is an instance of both.                                         *)
EXTENDS MCCampaign, FiniteSetTheorems, WellFoundedInduction, TLAPS

\* A list without a failure so far: everything was accepted and attested.
CleanSoFar ==
    failures = {} => /\ accepted = DOMAIN runs
                     /\ attested = {runs[i].slot : i \in DOMAIN runs}

\* The failures found are exactly those there are.
FailuresExact == ~ rejected => (failures = {} <=> InOrder)

\* What the loader let through is verified.
LoadedVerified ==
    loaded /\ ~ rejected => \A i \in DOMAIN runs : BytesVerify(runs[i])

IInv == TypeOK /\ CleanSoFar /\ FailuresExact /\ LoadedVerified /\ LoaderAgrees

(* The last place that holds some evidence is the last place, if it does.     *)
LEMMA LastMarker ==
    ASSUME NEW list, NEW n \in Nat \ {0}, DOMAIN list = 1 .. n
    PROVE  Marker(list, list[n].evidence) = [runId |-> list[n].runId, slot |-> list[n].slot]
<1> DEFINE S == {i \in DOMAIN list : list[i].evidence = list[n].evidence}
<1>1. n \in S /\ \A i \in S : n >= i
    OBVIOUS
<1>2. Max(S) = n
    <2>1. \A m \in S : (\A i \in S : m >= i) => m = n
        BY <1>1
    <2> QED BY <1>1, <2>1 DEF Max
<1> QED BY <1>2 DEF Marker

(* What one more run does to the list, and to what was said of its places.    *)
LEMMA OneMore ==
    ASSUME NEW run \in Runs, runs \in Seq(Runs), runs' = Append(runs, run)
    PROVE  /\ runs' \in Seq(Runs) /\ Len(runs') = Len(runs) + 1
           /\ Len(runs) \in Nat /\ DOMAIN runs = 1 .. Len(runs)
           /\ DOMAIN runs' = DOMAIN runs \cup {Len(runs) + 1}
           /\ Len(runs) + 1 \notin DOMAIN runs
           /\ runs'[Len(runs) + 1] = run
           /\ \A i \in DOMAIN runs : runs'[i] = runs[i]
    OBVIOUS

(* A slot outside the plan requires no evidence, and no bundle is about it.   *)
LEMMA VerifiedIsPlanned ==
    ASSUME NEW run, BytesVerify(run)
    PROVE  run.slot \in Slots
    BY DEF BytesVerify, Required

FailureKinds == {"unexpected", "duplicate", "identity", "record", "attestation", "evidence"}
FailuresTyped == \A f \in failures : f.kind \in FailureKinds /\ \E run \in Runs : f.slot = run.slot

LEMMA FailTyped ==
    ASSUME NEW run \in Runs, NEW kinds \in SUBSET FailureKinds, FailuresTyped, Fail(kinds, run)
    PROVE  FailuresTyped'
    BY DEF Fail, FailuresTyped

LEMMA TypeCorrectStep == TypeOK /\ [Next]_vars => TypeOK'
<1> SUFFICES ASSUME TypeOK, [Next]_vars PROVE TypeOK'
    OBVIOUS
<1>1. CASE UNCHANGED vars
    BY <1>1 DEF vars, TypeOK
<1>2. ASSUME NEW run \in Runs, Consider(run) PROVE TypeOK'
    <2> DEFINE n == Len(runs) + 1
    <2>1. runs' = Append(runs, run) /\ runs \in Seq(Runs)
        BY <1>2 DEF Consider, TypeOK
    <2>2. /\ runs' \in Seq(Runs) /\ DOMAIN runs' = DOMAIN runs \cup {n}
          /\ runs'[n] = run /\ \A i \in DOMAIN runs : runs'[i] = runs[i]
        BY <2>1, OneMore
    <2>3. loaded' \in BOOLEAN /\ rejected' \in BOOLEAN
        BY <1>2 DEF Consider, TypeOK
    <2>4. \A i \in accepted : i \in DOMAIN runs /\ runs'[i] = runs[i]
        BY <2>2 DEF TypeOK
    <2>5. CASE Unexpected(run) \/ Duplicate(run)
        <3>1. UNCHANGED <<seen, seenRunIds, accepted, attested>>
            BY <2>5 DEF Unexpected, Duplicate
        <3>2. FailuresTyped'
            BY <2>5, FailTyped DEF Unexpected, Duplicate, TypeOK, FailuresTyped, FailureKinds
        <3>3. accepted \subseteq DOMAIN runs'
            BY <2>2 DEF TypeOK
        <3>4. /\ {runs'[i].slot : i \in accepted} = {runs[i].slot : i \in accepted}
              /\ {runs'[i].runId : i \in accepted} = {runs[i].runId : i \in accepted}
            BY <2>4
        <3> QED BY <2>2, <2>3, <3>1, <3>2, <3>3, <3>4 DEF TypeOK, FailuresTyped, FailureKinds
    <2>6. CASE Accept(run)
        <3>1. /\ seen' = seen \cup {run.slot} /\ run.slot \in Slots
              /\ seenRunIds' = seenRunIds \cup {run.runId}
              /\ accepted' = accepted \cup {n}
              /\ attested' \in {attested, attested \cup {run.slot}}
            BY <2>6 DEF Accept
        <3>2. FailuresTyped'
            BY <2>6, FailTyped DEF Accept, TypeOK, FailuresTyped, FailureKinds
        <3>3. accepted' \subseteq DOMAIN runs'
            BY <2>2, <3>1 DEF TypeOK
        <3>4. {runs'[i].slot : i \in accepted'} = {runs[i].slot : i \in accepted} \cup {run.slot}
            BY <2>2, <2>4, <3>1
        <3>5. {runs'[i].runId : i \in accepted'} = {runs[i].runId : i \in accepted} \cup {run.runId}
            BY <2>2, <2>4, <3>1
        <3>6. seen' = {runs'[i].slot : i \in accepted'} /\ seen' \subseteq Slots
            BY <3>1, <3>4 DEF TypeOK
        <3>7. seenRunIds' = {runs'[i].runId : i \in accepted'}
            BY <3>1, <3>5 DEF TypeOK
        <3>8. attested' \subseteq seen'
            BY <3>1 DEF TypeOK
        <3> QED BY <2>2, <2>3, <3>2, <3>3, <3>6, <3>7, <3>8 DEF TypeOK, FailuresTyped, FailureKinds
    <2> QED BY <1>2, <2>5, <2>6 DEF Consider
<1> QED BY <1>1, <1>2 DEF Next

\* The run is in order by itself.
Good(run) == run.slot \in Slots /\ RecordValid(run) /\ Attested(run) /\ BytesVerify(run)

\* The run repeats neither the slot nor the identity of an earlier one.
Fresh(run) == \A i \in DOMAIN runs : runs[i].slot # run.slot /\ runs[i].runId # run.runId

(* A longer list is in order if the shorter one is and the new run fits.      *)
LEMMA InOrderAppend ==
    ASSUME NEW run \in Runs, runs \in Seq(Runs), runs' = Append(runs, run)
    PROVE  InOrder' <=> InOrder /\ Good(run) /\ Fresh(run)
<1> DEFINE n == Len(runs) + 1
<1>1. /\ DOMAIN runs' = DOMAIN runs \cup {n} /\ n \notin DOMAIN runs
      /\ runs'[n] = run /\ \A i \in DOMAIN runs : runs'[i] = runs[i]
    BY OneMore
<1>2. (\A i \in DOMAIN runs : Good(runs[i])) /\ Good(run) <=> \A i \in DOMAIN runs' : Good(runs'[i])
    BY <1>1
<1>3. (\A i, j \in DOMAIN runs' :
          i # j => runs'[i].slot # runs'[j].slot /\ runs'[i].runId # runs'[j].runId)
      <=> (\A i, j \in DOMAIN runs :
              i # j => runs[i].slot # runs[j].slot /\ runs[i].runId # runs[j].runId) /\ Fresh(run)
    BY <1>1 DEF Fresh
<1> QED BY <1>2, <1>3 DEF InOrder, Good

(* An accepted run adds no failure iff there is nothing wrong with it.        *)
LEMMA AcceptClean ==
    ASSUME NEW run, Accept(run)
    PROVE  failures' = {} <=> /\ failures = {} /\ run.runId \notin seenRunIds /\ RecordValid(run)
                             /\ Attested(run) /\ EvidenceVerified(run, runs')
<1> DEFINE faults == {k \in {"identity", "record", "attestation", "evidence"} :
                        \/ k = "identity" /\ run.runId \in seenRunIds
                        \/ k = "record" /\ ~ RecordValid(run)
                        \/ k = "attestation" /\ ~ Attested(run)
                        \/ k = "evidence" /\ ~ EvidenceVerified(run, runs')}
<1>1. failures' = failures \cup {[kind |-> k, slot |-> run.slot] : k \in faults}
    BY DEF Accept, Fail
<1>2. failures' = {} <=> failures = {} /\ faults = {}
    BY <1>1
<1>3. faults = {} <=> /\ run.runId \notin seenRunIds /\ RecordValid(run)
                      /\ Attested(run) /\ EvidenceVerified(run, runs')
    OBVIOUS
<1> QED BY <1>2, <1>3

(* Where the loader did not throw, the aggregation finds the evidence good    *)
(* exactly if its bytes are.                                                  *)
LEMMA EvidenceAgrees ==
    ASSUME NEW run \in Runs, TypeOK, Consider(run), ~ rejected'
    PROVE  /\ EvidenceVerified(run, runs') <=> BytesVerify(run)
           /\ loaded => BytesVerify(run)
<1>1. runs' = Append(runs, run) /\ runs \in Seq(Runs)
    BY DEF Consider, TypeOK
<1>2. /\ DOMAIN runs' = 1 .. Len(runs) + 1 /\ runs'[Len(runs) + 1] = run
      /\ Len(runs) + 1 \in Nat \ {0}
    BY <1>1
<1>3. Marker(runs', run.evidence) = [runId |-> run.runId, slot |-> run.slot]
    BY <1>2, LastMarker
<1>4. loaded => BytesVerify(run)
    BY DEF Consider, Loads
<1> QED BY <1>3, <1>4 DEF EvidenceVerified

LEMMA CleanStep ==
    ASSUME IInv, [Next]_vars
    PROVE  CleanSoFar' /\ FailuresExact' /\ LoadedVerified' /\ LoaderAgrees'
<1>1. CASE UNCHANGED vars
    BY <1>1 DEF vars, IInv, CleanSoFar, FailuresExact, LoadedVerified, LoaderAgrees, InOrder
<1>2. ASSUME NEW run \in Runs, Consider(run)
      PROVE  CleanSoFar' /\ FailuresExact' /\ LoadedVerified' /\ LoaderAgrees'
    <2> DEFINE n == Len(runs) + 1
    <2>1. /\ runs' = Append(runs, run) /\ runs \in Seq(Runs) /\ ~ rejected /\ loaded' = loaded
          /\ Unexpected(run) \/ Duplicate(run) \/ Accept(run)
        BY <1>2 DEF Consider, IInv, TypeOK
    <2>2. /\ DOMAIN runs' = DOMAIN runs \cup {n} /\ n \notin DOMAIN runs
          /\ runs'[n] = run /\ \A i \in DOMAIN runs : runs'[i] = runs[i]
        BY <2>1, OneMore
    <2>3. InOrder' <=> InOrder /\ Good(run) /\ Fresh(run)
        BY <2>1, InOrderAppend
    <2>4. failures = {} <=> InOrder
        BY <2>1 DEF IInv, FailuresExact
    <2>5. seen = {runs[i].slot : i \in accepted} /\ seenRunIds = {runs[i].runId : i \in accepted}
          /\ accepted \subseteq DOMAIN runs /\ seen \subseteq Slots
        BY DEF IInv, TypeOK
    <2>6. Fresh(run) => run.slot \notin seen /\ run.runId \notin seenRunIds
        BY <2>5 DEF Fresh
    <2>7. failures = {} /\ run.slot \notin seen /\ run.runId \notin seenRunIds => Fresh(run)
        BY <2>5 DEF Fresh, IInv, CleanSoFar
    <2>8. CASE Unexpected(run) \/ Duplicate(run)
        <3>1. failures' # {} /\ failures \subseteq failures'
            BY <2>8 DEF Unexpected, Duplicate, Fail
        <3>2. ~ (Good(run) /\ Fresh(run))
            BY <2>8, <2>6 DEF Unexpected, Duplicate, Good
        <3>3. loaded /\ ~ rejected' => Duplicate(run) /\ BytesVerify(run)
            <4>1. loaded /\ ~ rejected' => BytesVerify(run)
                BY <1>2, EvidenceAgrees DEF IInv
            <4>2. BytesVerify(run) => run.slot \in Slots
                BY VerifiedIsPlanned
            <4> QED BY <4>1, <4>2, <2>8 DEF Unexpected
        <3>4. LoadedVerified'
            BY <2>1, <2>2, <3>3 DEF IInv, LoadedVerified
        <3>5. LoaderAgrees'
            <4>1. Duplicate(run) => failures' = failures \cup {[kind |-> "duplicate", slot |-> run.slot]}
                BY DEF Duplicate, Fail
            <4> QED BY <4>1, <2>1, <3>3 DEF IInv, LoaderAgrees
        <3> QED BY <2>3, <3>1, <3>2, <3>4, <3>5 DEF CleanSoFar, FailuresExact
    <2>9. CASE Accept(run)
        <3>1. failures' = {} <=> /\ failures = {} /\ run.runId \notin seenRunIds /\ RecordValid(run)
                                 /\ Attested(run) /\ EvidenceVerified(run, runs')
            BY <2>9, AcceptClean
        <3>2. ~ rejected' => (EvidenceVerified(run, runs') <=> BytesVerify(run))
                             /\ (loaded => BytesVerify(run))
            BY <1>2, EvidenceAgrees DEF IInv
        <3>3. run.slot \in Slots /\ run.slot \notin seen
            BY <2>9 DEF Accept
        <3>4. CleanSoFar'
            <4>1. SUFFICES ASSUME failures' = {}
                           PROVE  accepted' = DOMAIN runs' /\ attested' = {runs'[i].slot : i \in DOMAIN runs'}
                BY DEF CleanSoFar
            <4>2. /\ accepted = DOMAIN runs /\ attested = {runs[i].slot : i \in DOMAIN runs}
                  /\ Attested(run)
                BY <4>1, <3>1 DEF IInv, CleanSoFar
            <4>3. accepted' = accepted \cup {n} /\ attested' = attested \cup {run.slot}
                BY <2>9, <4>2 DEF Accept
            <4>4. {runs'[i].slot : i \in DOMAIN runs'} = {runs[i].slot : i \in DOMAIN runs} \cup {run.slot}
                BY <2>2
            <4> QED BY <4>2, <4>3, <4>4, <2>2
        <3>5. FailuresExact'
            BY <2>3, <2>4, <2>6, <2>7, <3>1, <3>2, <3>3 DEF FailuresExact, Good
        <3>6. LoadedVerified'
            BY <2>1, <2>2, <3>2 DEF IInv, LoadedVerified
        <3>7. LoaderAgrees'
            <4>1. \A f \in failures' :
                      \/ f \in failures
                      \/ f.kind # "unexpected" /\ (f.kind = "evidence" => ~ EvidenceVerified(run, runs'))
                BY <2>9 DEF Accept, Fail
            <4> QED BY <4>1, <2>1, <3>2 DEF IInv, LoaderAgrees
        <3> QED BY <3>4, <3>5, <3>6, <3>7
    <2> QED BY <2>1, <2>8, <2>9
<1> QED BY <1>1, <1>2 DEF Next

(* The invariant of the loop: it has accepted the whole list and found no     *)
(* failure exactly as long as the list is in order.                           *)
THEOREM Inductive == Spec => []IInv
<1>1. Init => IInv
    <2> SUFFICES ASSUME Init PROVE IInv
        OBVIOUS
    <2>1. runs \in Seq(Runs) /\ DOMAIN runs = {}
        BY DEF Init
    <2> QED BY <2>1 DEF Init, IInv, TypeOK, CleanSoFar, FailuresExact, LoadedVerified, LoaderAgrees, InOrder
<1>2. IInv /\ [Next]_vars => IInv'
    <2> SUFFICES ASSUME IInv, [Next]_vars PROVE IInv'
        OBVIOUS
    <2>1. TypeOK'
        BY TypeCorrectStep DEF IInv
    <2>2. CleanSoFar' /\ FailuresExact' /\ LoadedVerified' /\ LoaderAgrees'
        BY CleanStep
    <2> QED BY <2>1, <2>2 DEF IInv
<1> QED BY <1>1, <1>2, PTL DEF Spec

(* Every variable of the aggregation keeps its type.                          *)
THEOREM TypeCorrect == Spec => []TypeOK
<1>1. IInv => TypeOK
    BY DEF IInv
<1> QED BY <1>1, Inductive, PTL

(* What a state without failures says about the whole list.                   *)
LEMMA WholeList ==
    ASSUME IInv, ~ rejected, failures = {}
    PROVE  /\ InOrder /\ accepted = DOMAIN runs
           /\ Missing = {} <=> Complete
           /\ SoakCovered(accepted, attested) <=> SoakCovered(DOMAIN runs, Slots)
<1>1. InOrder
    BY DEF IInv, FailuresExact
<1>2. accepted = DOMAIN runs /\ attested = {runs[i].slot : i \in DOMAIN runs}
    BY DEF IInv, CleanSoFar
<1>3. seen = {runs[i].slot : i \in DOMAIN runs}
    BY <1>2 DEF IInv, TypeOK
<1>4. Missing = {} <=> Complete
    BY <1>3 DEF Missing, Complete
<1>5. \A i \in DOMAIN runs : runs[i].slot \in attested /\ runs[i].slot \in Slots
    BY <1>1, <1>2 DEF InOrder
<1>6. SoakCovered(accepted, attested) <=> SoakCovered(DOMAIN runs, Slots)
    BY <1>2, <1>5 DEF SoakCovered
<1> QED BY <1>1, <1>2, <1>4, <1>6

(* aggregateCampaign returns the status the list deserves, for every plan,    *)
(* every threshold and every list of runs, in whatever order they stand.      *)
THEOREM StatusCorrect == Spec => []StatusIsDeserved
<1>1. IInv => StatusIsDeserved
    <2> SUFFICES ASSUME IInv, ~ rejected PROVE Status = Deserved
        BY DEF StatusIsDeserved
    <2>1. CASE failures = {}
        BY <2>1, WholeList DEF Status, Deserved
    <2>2. CASE failures # {}
        <3>1. ~ InOrder
            BY <2>2 DEF IInv, FailuresExact
        <3> QED BY <2>2, <3>1 DEF Status, Deserved
    <2> QED BY <2>1, <2>2
<1> QED BY <1>1, Inductive, PTL

(* The aggregation never refuses, as unplanned or for its evidence, a run the *)
(* loader let through.                                                        *)
THEOREM LoaderAgreesAlways == Spec => []LoaderAgrees
<1>1. IInv => LoaderAgrees
    BY DEF IInv
<1> QED BY <1>1, Inductive, PTL

(* A pass is earned: one attested run per slot, each on evidence of its own,  *)
(* judged alike and soaked.                                                   *)
THEOREM PassEarned == Spec => []PassIsEarned
<1>1. IInv => PassIsEarned
    <2> SUFFICES ASSUME IInv, ~ rejected, Status = "pass"
                 PROVE  /\ Len(runs) = Cardinality(Slots)
                        /\ \A s \in Slots : \E i \in DOMAIN runs : runs[i].claims = s /\ Attested(runs[i])
                        /\ \A i, j \in DOMAIN runs : i # j => runs[i].evidence # runs[j].evidence
                        /\ \A i, j \in DOMAIN runs :
                              FairnessGroup(runs[i].slot) = FairnessGroup(runs[j].slot)
                                => runs[i].evaluator = runs[j].evaluator
                        /\ \A s \in Slots : \E i \in DOMAIN runs :
                              SoakPair(runs[i].slot) = SoakPair(s) /\ runs[i].durationMinutes >= SoakMinutes
        BY DEF PassIsEarned
    <2>1. /\ failures = {} /\ Missing = {}
          /\ EvaluatorFair(accepted) /\ SoakCovered(accepted, attested)
        BY DEF Status
    <2>2. /\ InOrder /\ accepted = DOMAIN runs /\ Complete
        BY <2>1, WholeList
    <2>3. \A i \in DOMAIN runs : /\ runs[i].slot \in Slots /\ runs[i].claims = runs[i].slot
                               /\ Attested(runs[i]) /\ runs[i].evidence.slot = runs[i].slot
        BY <2>2 DEF InOrder, RecordValid, BytesVerify
    <2>4. Len(runs) = Cardinality(Slots)
        <3>1. Len(runs) \in Nat /\ DOMAIN runs = 1 .. Len(runs)
            BY DEF IInv, TypeOK
        <3> DEFINE slotOf == [i \in 1 .. Len(runs) |-> runs[i].slot]
        <3>2. slotOf \in Bijection(1 .. Len(runs), Slots)
            <4>1. slotOf \in [1 .. Len(runs) -> Slots]
                BY <3>1, <2>3
            <4>2. \A i, j \in 1 .. Len(runs) : slotOf[i] = slotOf[j] => i = j
                BY <3>1, <2>2 DEF InOrder
            <4>3. \A s \in Slots : \E i \in 1 .. Len(runs) : slotOf[i] = s
                BY <3>1, <2>2 DEF Complete
            <4> HIDE DEF slotOf
            <4> QED BY <4>1, <4>2, <4>3 DEF Bijection, Injection, Surjection, IsInjective
        <3>3. ExistsBijection(1 .. Len(runs), Slots)
            BY <3>2 DEF ExistsBijection
        <3>4. IsFiniteSet(1 .. Len(runs)) /\ Cardinality(1 .. Len(runs)) = Len(runs)
            <4>1. /\ IsFiniteSet(1 .. Len(runs))
                  /\ Cardinality(1 .. Len(runs)) = IF 1 > Len(runs) THEN 0 ELSE Len(runs) - 1 + 1
                BY <3>1, FS_Interval
            <4> QED BY <3>1, <4>1
        <3> QED BY <3>3, <3>4, FS_Bijection
    <2>5. \A s \in Slots : \E i \in DOMAIN runs : runs[i].claims = s /\ Attested(runs[i])
        BY <2>2, <2>3 DEF Complete
    <2>6. \A i, j \in DOMAIN runs : i # j => runs[i].evidence # runs[j].evidence
        BY <2>2, <2>3 DEF InOrder
    <2>7. \A i, j \in DOMAIN runs : FairnessGroup(runs[i].slot) = FairnessGroup(runs[j].slot)
                                      => runs[i].evaluator = runs[j].evaluator
        BY <2>1, <2>2, <2>3 DEF EvaluatorFair
    <2>8. \A s \in Slots : \E i \in DOMAIN runs :
              SoakPair(runs[i].slot) = SoakPair(s) /\ runs[i].durationMinutes >= SoakMinutes
        BY <2>1, <2>2, <2>3 DEF SoakCovered
    <2> QED BY <2>4, <2>5, <2>6, <2>7, <2>8
<1> QED BY <1>1, Inductive, PTL
-----------------------------------------------------------------------------
ShardSlots == Range(Plan)
Lists == Seq(ShardSlots)

\* A list of completed slots that a status without a filter accepts.
Sound(list) == list \in Lists /\ ~ SelectThrows(list, NoFilter)

(* What a process has in its temporary file and what it is about to publish.  *)
FilesInv ==
    /\ checkpoint = NoFile \/ Sound(checkpoint)
    /\ temp \in [Pids -> {Cut, NoFile} \cup Lists]
    /\ writing \in [Pids -> {"no", "open", "write", "rename"}]
    /\ draft \in [Pids -> Lists]
    /\ \A p \in Pids : Sound(draft[p])
    /\ \A p \in Pids : writing[p] = "rename" => temp[p] = draft[p]
    /\ \A p \in Pids : writing[p] \in {"no", "open"} /\ temp[p] # NoFile => p \in died
    /\ purpose \in [Pids -> Filters \cup {NoFilter} \cup ShardSlots]

(* The operator's slot: one of this host's once a harness has run it.         *)
HandInv ==
    /\ hand \in ShardSlots \cup {NoSlot} /\ offer \in ShardSlots \cup {NoSlot}
    /\ progress \in {"free", "taken", "recorded", "evaluated", "appended"}
    /\ progress = "taken" => hand \in ShardSlots
    /\ progress \in {"recorded", "evaluated", "appended"} => hand \in Local(NoFilter)
    /\ appended \in Lists

ShardInv == FilesInv /\ HandInv

(* The least of a set of numbers.                                             *)
LEMMA MinIsMember ==
    ASSUME NEW T \in SUBSET Nat, T # {}
    PROVE  Min(T) \in T
<1>1. PICK x \in T : \A y \in T : ~ (<<y, x>> \in OpToRel(<, Nat))
  BY NatLessThanWellFounded, WFMin, Zenon
<1>2. \A y \in T : ~ (y < x)
  BY <1>1, Zenon DEF OpToRel
<1>3. \A y \in T : x <= y
  BY <1>2
<1> QED BY <1>3 DEF Min

LEMMA NextSlotPending ==
    ASSUME NEW list, NEW filter
    PROVE  /\ NextSlot(list, filter) \in ShardSlots \cup {NoSlot}
           /\ NextSlot(list, filter) # NoSlot => NextSlot(list, filter) \notin Range(list)
<1>1. CASE Pending(list, filter) = {}
  BY <1>1 DEF NextSlot
<1>2. CASE Pending(list, filter) # {}
  <2>1. Pending(list, filter) \in SUBSET Nat
    BY ShardAssumption DEF Pending
  <2>2. Min(Pending(list, filter)) \in Pending(list, filter)
    BY <1>2, <2>1, MinIsMember
  <2>3. Plan[Min(Pending(list, filter))] \in ShardSlots \ Range(list)
    BY <2>2 DEF Pending, Local, ShardSlots
  <2> QED BY <1>2, <2>3 DEF NextSlot
<1> QED BY <1>1, <1>2

LEMMA LocalSlots == \A filter : Local(filter) \subseteq Local(NoFilter) /\ Local(filter) \subseteq ShardSlots
  BY DEF Local, ShardSlots

LEMMA EmptySound == Sound(<<>>)
  BY DEF Sound, SelectThrows, IsInjective, Range, Lists

\* What a status read is sound whatever its filter.
LEMMA AcceptedSound ==
    ASSUME NEW list \in Lists, NEW filter, ~ SelectThrows(list, filter)
    PROVE  Sound(list)
  BY LocalSlots DEF SelectThrows, Sound

\* A slot added to a sound list.
LEMMA AddedSound ==
    ASSUME NEW list, Sound(list), NEW s \in Local(NoFilter), s \notin Range(list)
    PROVE  Sound(Append(list, s)) /\ Range(Append(list, s)) = Range(list) \cup {s}
<1>1. list \in Seq(ShardSlots) /\ s \in ShardSlots /\ Append(list, s) \in Seq(ShardSlots)
  BY LocalSlots DEF Sound, Lists
<1>2. /\ DOMAIN Append(list, s) = DOMAIN list \cup {Len(list) + 1}
      /\ Append(list, s)[Len(list) + 1] = s
      /\ \A i \in DOMAIN list : Append(list, s)[i] = list[i]
  BY <1>1
<1>3. Range(Append(list, s)) = Range(list) \cup {s}
  BY <1>2 DEF Range
<1>4. IsInjective(Append(list, s))
  <2>1. \A i \in DOMAIN list : list[i] # s
    BY DEF Range
  <2>2. \A i, j \in DOMAIN list : list[i] = list[j] => i = j
    BY DEF Sound, SelectThrows, IsInjective
  <2> QED BY <1>2, <2>1, <2>2 DEF IsInjective
<1> QED BY <1>1, <1>3, <1>4 DEF Sound, SelectThrows, Lists

LEMMA CompletedSound == FilesInv => Sound(Completed)
  BY EmptySound DEF FilesInv, Completed
-----------------------------------------------------------------------------
LEMMA LeaveKeeps ==
    ASSUME FilesInv, NEW p \in Pids, Leave(p)
    PROVE  /\ writing' \in [Pids -> {"no", "open", "write", "rename"}]
           /\ draft' \in [Pids -> Lists] /\ \A q \in Pids : Sound(draft'[q])
           /\ purpose' \in [Pids -> Filters \cup {NoFilter} \cup ShardSlots]
           /\ writing'[p] = "no"
           /\ \A q \in Pids \ {p} : writing'[q] = writing[q] /\ draft'[q] = draft[q]
  BY EmptySound DEF FilesInv, Leave, Lists

LEMMA EnterKeeps ==
    ASSUME FilesInv, NEW p \in Pids, NEW list, NEW aim \in Filters \cup {NoFilter} \cup ShardSlots,
           Sound(list), writing[p] = "no", Enter(p, list, aim),
           UNCHANGED <<checkpoint, temp, died>>
    PROVE  FilesInv'
<1>1. /\ writing' \in [Pids -> {"no", "open", "write", "rename"}]
      /\ draft' \in [Pids -> Lists]
      /\ purpose' \in [Pids -> Filters \cup {NoFilter} \cup ShardSlots]
  BY DEF FilesInv, Enter, Sound
<1>2. \A q \in Pids : Sound(draft'[q])
  BY DEF FilesInv, Enter
<1>3. \A q \in Pids : writing'[q] = IF q = p THEN "open" ELSE writing[q]
  BY DEF FilesInv, Enter
<1>4. \A q \in Pids : q # p => draft'[q] = draft[q]
  BY DEF FilesInv, Enter
<1> QED BY <1>1, <1>2, <1>3, <1>4 DEF FilesInv, Sound, SelectThrows, Local

LEMMA PublishKeeps ==
    ASSUME FilesInv, NEW p \in Pids, Publish(p), died' = died
    PROVE  FilesInv' /\ checkpoint' = draft[p]
<1>1. checkpoint' = draft[p] /\ Sound(draft[p]) /\ temp' = [temp EXCEPT ![p] = NoFile]
  BY DEF Publish, FilesInv, TemporaryPath
<1>2. Leave(p)
  BY DEF Publish
<1>3. /\ writing' \in [Pids -> {"no", "open", "write", "rename"}]
      /\ draft' \in [Pids -> Lists] /\ \A q \in Pids : Sound(draft'[q])
      /\ purpose' \in [Pids -> Filters \cup {NoFilter} \cup ShardSlots]
      /\ writing'[p] = "no"
      /\ \A q \in Pids \ {p} : writing'[q] = writing[q] /\ draft'[q] = draft[q]
  BY <1>2, LeaveKeeps
<1>4. temp' \in [Pids -> {Cut, NoFile} \cup Lists] /\ temp'[p] = NoFile
      /\ \A q \in Pids \ {p} : temp'[q] = temp[q]
  BY <1>1 DEF FilesInv
<1>5. \A q \in Pids : writing'[q] = "rename" => temp'[q] = draft'[q]
  BY <1>3, <1>4 DEF FilesInv
<1>6. \A q \in Pids : writing'[q] \in {"no", "open"} /\ temp'[q] # NoFile => q \in died'
  BY <1>3, <1>4 DEF FilesInv
<1> QED BY <1>1, <1>3, <1>4, <1>5, <1>6 DEF FilesInv, Sound, SelectThrows, Local

(* The files: each process is alone with its temporary name, and only a whole *)
(* and sound list is ever renamed over the checkpoint.                        *)
LEMMA FilesStep == ShardInv /\ [ShardNext]_shardVars => FilesInv'
<1> SUFFICES ASSUME FilesInv, HandInv, [ShardNext]_shardVars PROVE FilesInv'
  BY DEF ShardInv
<1>1. CASE UNCHANGED fileVars
  BY <1>1 DEF fileVars, FilesInv, Sound, SelectThrows, Local
<1>2. ASSUME NEW p \in Pids, NEW filter \in Filters \cup {NoFilter}, ShardStatus(p, filter)
      PROVE  FilesInv'
  <2>1. Sound(Completed) /\ Enter(p, Completed, filter) /\ writing[p] = "no"
    BY <1>2, CompletedSound DEF ShardStatus
  <2> QED BY <1>2, <2>1, EnterKeeps DEF ShardStatus
<1>3. ASSUME NEW p \in Pids, OpenTemporary(p) PROVE FilesInv'
  <2>1. CASE temp[p] = NoFile
    <3>1. temp' = [temp EXCEPT ![p] = Cut] /\ writing' = [writing EXCEPT ![p] = "write"]
          /\ UNCHANGED <<checkpoint, draft, purpose, died>>
      BY <1>3, <2>1 DEF OpenTemporary, TemporaryPath
    <3> QED BY <3>1 DEF FilesInv, Sound, SelectThrows, Local
  <2>2. CASE temp[p] # NoFile
    <3>1. Leave(p) /\ UNCHANGED <<temp, checkpoint, died>> /\ p \in died
      BY <1>3, <2>2 DEF OpenTemporary, TemporaryPath, FilesInv
    <3> QED BY <3>1, LeaveKeeps DEF FilesInv, Sound, SelectThrows, Local
  <2> QED BY <2>1, <2>2
<1>4. ASSUME NEW p \in Pids, FillTemporary(p) PROVE FilesInv'
  <2>1. /\ temp' = [temp EXCEPT ![p] = draft[p]] /\ writing' = [writing EXCEPT ![p] = "rename"]
        /\ UNCHANGED <<checkpoint, draft, purpose, died>>
    BY <1>4 DEF FillTemporary, TemporaryPath
  <2> QED BY <2>1 DEF FilesInv, Sound, SelectThrows, Local
<1>5. ASSUME NEW p \in Pids, RenameReport(p) \/ RenameCompleted(p) PROVE FilesInv'
  BY <1>5, PublishKeeps DEF RenameReport, RenameCompleted
<1>6. ASSUME NEW p \in Pids, ProcessDies(p) PROVE FilesInv'
  <2>1. Leave(p) /\ UNCHANGED <<temp, checkpoint>> /\ died' = died \cup {p}
    BY <1>6 DEF ProcessDies
  <2> QED BY <2>1, LeaveKeeps DEF FilesInv, Sound, SelectThrows, Local
<1>7. ASSUME NEW p \in Pids, CheckpointSlot(p) PROVE FilesInv'
  <2>1. CASE hand \in Range(Completed)
    BY <1>7, <2>1 DEF CheckpointSlot, FilesInv, Sound, SelectThrows, Local
  <2>2. CASE hand \notin Range(Completed)
    <3>1. hand \in Local(NoFilter) /\ hand \in ShardSlots
      BY <1>7, LocalSlots DEF CheckpointSlot, HandInv
    <3>2. Sound(Append(Completed, hand))
      BY <2>2, <3>1, CompletedSound, AddedSound
    <3> QED BY <1>7, <2>2, <3>1, <3>2, EnterKeeps DEF CheckpointSlot
  <2> QED BY <2>1, <2>2
<1>8. CASE TakeSlot \/ AppendRun \/ OperatorDies
  BY <1>1, <1>8 DEF TakeSlot, AppendRun, OperatorDies
<1>9. CASE (\E harness \in Filters, outcome \in {"completed", "blocked", "invalid"} : RunHarness(harness, outcome))
           \/ \E publishable \in BOOLEAN : Evaluate(publishable)
  BY <1>1, <1>9 DEF RunHarness, Evaluate
<1>10. CASE UNCHANGED shardVars
  BY <1>1, <1>10 DEF shardVars
<1> QED BY <1>2, <1>3, <1>4, <1>5, <1>6, <1>7, <1>8, <1>9, <1>10 DEF ShardNext

(* The operator's slot.                                                       *)
LEMMA HandStep == ShardInv /\ [ShardNext]_shardVars => HandInv'
<1> SUFFICES ASSUME FilesInv, HandInv, [ShardNext]_shardVars PROVE HandInv'
  BY DEF ShardInv
<1>1. CASE UNCHANGED operatorVars
  BY <1>1 DEF operatorVars, HandInv, Local
<1>2. ASSUME NEW p \in Pids, RenameReport(p) PROVE HandInv'
  <2>1. offer' \in ShardSlots \cup {NoSlot}
    BY <1>2, NextSlotPending DEF RenameReport, HandInv
  <2> QED BY <1>2, <2>1 DEF RenameReport, HandInv, Local
<1>3. ASSUME NEW p \in Pids, RenameCompleted(p) PROVE HandInv'
  BY <1>3 DEF RenameCompleted, HandInv, Local
<1>4. CASE TakeSlot
  BY <1>4 DEF TakeSlot, HandInv, Local
<1>5. ASSUME NEW harness \in Filters, NEW outcome, RunHarness(harness, outcome) PROVE HandInv'
  BY <1>5, LocalSlots DEF RunHarness, GiveUp, HandInv, Local
<1>6. ASSUME NEW publishable \in BOOLEAN, Evaluate(publishable) PROVE HandInv'
  BY <1>6 DEF Evaluate, GiveUp, HandInv, Local
<1>7. CASE AppendRun
  <2>1. hand \in ShardSlots /\ appended' \in Lists
    BY <1>7, LocalSlots DEF AppendRun, HandInv, Lists
  <2> QED BY <1>7, <2>1 DEF AppendRun, HandInv, Local
<1>8. ASSUME NEW p \in Pids, CheckpointSlot(p) PROVE HandInv'
  BY <1>8 DEF CheckpointSlot, GiveUp, HandInv, Local
<1>9. CASE OperatorDies
  BY <1>9 DEF OperatorDies, GiveUp, HandInv, Local
<1>10. ASSUME NEW p \in Pids, NEW filter, ShardStatus(p, filter) \/ OpenTemporary(p) \/ FillTemporary(p) \/ ProcessDies(p)
       PROVE  HandInv'
  BY <1>1, <1>10 DEF ShardStatus, OpenTemporary, FillTemporary, ProcessDies
<1>11. CASE UNCHANGED shardVars
  BY <1>1, <1>11 DEF shardVars
<1> QED BY <1>2, <1>3, <1>4, <1>5, <1>6, <1>7, <1>8, <1>9, <1>10, <1>11 DEF ShardNext

THEOREM ShardInductive == ShardSpec => []ShardInv
<1>1. ShardInit => ShardInv
  <2> SUFFICES ASSUME ShardInit PROVE ShardInv
    OBVIOUS
  <2>1. <<>> \in Lists
    BY DEF Lists
  <2> QED BY <2>1, EmptySound DEF ShardInit, ShardInv, FilesInv, HandInv
<1> QED BY <1>1, FilesStep, HandStep, PTL DEF ShardSpec, ShardInv
-----------------------------------------------------------------------------
(* Every variable of the shard keeps its type; in particular no step ever     *)
(* leaves the checkpoint cut short.                                           *)
THEOREM ShardTypeCorrect == ShardSpec => []ShardTypeOK
<1>1. ShardInv => ShardTypeOK
  BY DEF ShardInv, FilesInv, HandInv, ShardTypeOK, Sound, Lists, ShardSlots
<1> QED BY <1>1, ShardInductive, PTL

(* Whatever dies and overlaps, the shard can be resumed from its checkpoint.  *)
THEOREM Resumable == ShardSpec => []AlwaysResumable
<1>1. ShardInv => AlwaysResumable
  <2> SUFFICES ASSUME FilesInv PROVE AlwaysResumable
    BY DEF ShardInv
  <2>1. Sound(Completed)
    BY CompletedSound
  <2>2. checkpoint # Cut
    BY ShardAssumption DEF FilesInv, Sound, Lists, ShardSlots
  <2> QED BY <2>1, <2>2 DEF AlwaysResumable, Sound
<1> QED BY <1>1, ShardInductive, PTL

(* A process that lives meets only what a dead one of its own pid left.       *)
THEOREM LeftoversOnly == ShardSpec => []OnlyLeftoversCollide
<1>1. ShardInv => OnlyLeftoversCollide
  BY DEF ShardInv, FilesInv, OnlyLeftoversCollide, TemporaryPath
<1> QED BY <1>1, ShardInductive, PTL
-----------------------------------------------------------------------------
\* As long as processes take turns: one at most is at work, and what it is about
\* to publish holds everything the checkpoint holds and the slot it is about.
TurnsInv ==
    ~ overlapped =>
        /\ \A p, q \in Pids : writing[p] # "no" /\ writing[q] # "no" => p = q
        /\ \A p \in Pids : writing[p] # "no" => Range(Completed) \subseteq Range(draft[p])
        /\ \A p \in Pids : writing[p] # "no" /\ purpose[p] \in ShardSlots => purpose[p] \in Range(draft[p])
        /\ published \subseteq Range(Completed)

LEMMA EnterTurns ==
    ASSUME FilesInv, TurnsInv, NEW p \in Pids, NEW list, NEW aim, Enter(p, list, aim), Sound(list),
           Range(Completed) \subseteq Range(list), aim \in ShardSlots => aim \in Range(list),
           UNCHANGED <<checkpoint, published>>
    PROVE  TurnsInv'
<1> SUFFICES ASSUME ~ overlapped' PROVE TurnsInv'
  BY DEF TurnsInv
<1>1. ~ overlapped /\ \A q \in Pids : writing[q] = "no"
  BY DEF Enter
<1>2. \A q \in Pids : writing'[q] # "no" => q = p
  BY <1>1 DEF Enter, FilesInv
<1>3. draft'[p] = list /\ purpose'[p] = aim /\ Range(Completed)' = Range(Completed)
  BY DEF Enter, FilesInv, Completed, Range
<1> QED BY <1>1, <1>2, <1>3 DEF TurnsInv

\* A process at work goes on without touching the checkpoint, or ends.
LEMMA OnTurns ==
    ASSUME FilesInv, TurnsInv, NEW p \in Pids, NEW now \in {"write", "rename", "no"},
           writing[p] # "no", writing' = [writing EXCEPT ![p] = now],
           now # "no" => draft' = draft /\ purpose' = purpose,
           \A q \in Pids \ {p} : draft'[q] = draft[q] /\ purpose'[q] = purpose[q],
           UNCHANGED <<checkpoint, published, overlapped>>
    PROVE  TurnsInv'
<1>1. \A q \in Pids : writing'[q] # "no" => writing[q] # "no" /\ draft'[q] = draft[q] /\ purpose'[q] = purpose[q]
  BY DEF FilesInv
<1>2. Range(Completed)' = Range(Completed)
  BY DEF Completed, Range
<1> QED BY <1>1, <1>2 DEF TurnsInv

LEMMA LeaveTurns ==
    ASSUME FilesInv, TurnsInv, NEW p \in Pids, writing[p] # "no", Leave(p),
           UNCHANGED <<checkpoint, published, overlapped>>
    PROVE  TurnsInv'
  BY OnTurns DEF Leave, FilesInv

\* A publication: the list was that of the one process at work.
LEMMA PublishTurns ==
    ASSUME FilesInv, TurnsInv, NEW p \in Pids, Publish(p), overlapped' = overlapped, died' = died,
           published' \subseteq published \cup {s \in {purpose[p]} : s \in ShardSlots}
    PROVE  /\ TurnsInv'
           /\ Completed' = draft[p]
           /\ ~ overlapped => Range(Completed) \subseteq Range(Completed')
<1>1. checkpoint' = draft[p] /\ writing[p] = "rename"
  BY PublishKeeps DEF Publish
<1>2. draft[p] \in Lists /\ draft[p] # NoFile
  BY ShardAssumption DEF FilesInv, Lists, ShardSlots
<1>3. Completed' = draft[p]
  BY <1>1, <1>2 DEF Completed
<1>4. ~ overlapped => Range(Completed) \subseteq Range(Completed')
  BY <1>1, <1>3 DEF TurnsInv
<1>5. TurnsInv'
  <2> SUFFICES ASSUME ~ overlapped PROVE TurnsInv'
    BY DEF TurnsInv
  <2>1. \A q \in Pids : writing'[q] = "no"
    BY <1>1 DEF Publish, Leave, FilesInv, TurnsInv
  <2>2. published' \subseteq Range(draft[p])
    BY <1>1 DEF TurnsInv
  <2>3. Range(Completed)' = Range(draft[p])
    BY <1>3 DEF Range
  <2> QED BY <2>1, <2>2, <2>3 DEF TurnsInv
<1> QED BY <1>3, <1>4, <1>5

LEMMA TurnsStep == ShardInv /\ TurnsInv /\ [ShardNext]_shardVars => TurnsInv'
<1> SUFFICES ASSUME FilesInv, HandInv, TurnsInv, [ShardNext]_shardVars PROVE TurnsInv'
  BY DEF ShardInv
<1>1. CASE UNCHANGED fileVars
  BY <1>1 DEF fileVars, TurnsInv, Completed
<1>2. ASSUME NEW p \in Pids, NEW filter \in Filters \cup {NoFilter}, ShardStatus(p, filter)
      PROVE  TurnsInv'
  <2>1. filter \notin ShardSlots
    BY ShardAssumption DEF ShardSlots
  <2> QED BY <1>2, <2>1, CompletedSound, EnterTurns DEF ShardStatus
<1>3. ASSUME NEW p \in Pids, OpenTemporary(p) PROVE TurnsInv'
  <2>1. CASE temp[p] = NoFile
    BY <1>3, <2>1, OnTurns DEF OpenTemporary, TemporaryPath
  <2>2. CASE temp[p] # NoFile
    BY <1>3, <2>2, LeaveTurns DEF OpenTemporary, TemporaryPath
  <2> QED BY <2>1, <2>2
<1>4. ASSUME NEW p \in Pids, FillTemporary(p) PROVE TurnsInv'
  BY <1>4, OnTurns DEF FillTemporary
<1>5. ASSUME NEW p \in Pids, RenameReport(p) PROVE TurnsInv'
  BY <1>5, PublishTurns DEF RenameReport
<1>6. ASSUME NEW p \in Pids, RenameCompleted(p) PROVE TurnsInv'
  BY <1>6, PublishTurns DEF RenameCompleted, ShardSlots
<1>7. ASSUME NEW p \in Pids, ProcessDies(p) PROVE TurnsInv'
  BY <1>7, LeaveTurns DEF ProcessDies
<1>8. ASSUME NEW p \in Pids, CheckpointSlot(p) PROVE TurnsInv'
  <2>1. CASE hand \in Range(Completed)
    <3>1. UNCHANGED <<checkpoint, writing, draft, purpose, overlapped, published>>
      BY <1>8, <2>1 DEF CheckpointSlot
    <3> QED BY <3>1 DEF TurnsInv, Completed
  <2>2. CASE hand \notin Range(Completed)
    <3>1. hand \in Local(NoFilter)
      BY <1>8 DEF CheckpointSlot, HandInv
    <3>2. /\ Sound(Append(Completed, hand))
          /\ Range(Append(Completed, hand)) = Range(Completed) \cup {hand}
      BY <2>2, <3>1, CompletedSound, AddedSound
    <3> QED BY <1>8, <2>2, <3>2, EnterTurns DEF CheckpointSlot
  <2> QED BY <2>1, <2>2
<1>9. CASE TakeSlot \/ AppendRun \/ OperatorDies
  BY <1>1, <1>9 DEF TakeSlot, AppendRun, OperatorDies
<1>10. CASE (\E harness \in Filters, outcome \in {"completed", "blocked", "invalid"} : RunHarness(harness, outcome))
            \/ \E publishable \in BOOLEAN : Evaluate(publishable)
  BY <1>1, <1>10 DEF RunHarness, Evaluate
<1>11. CASE UNCHANGED shardVars
  BY <1>1, <1>11 DEF shardVars
<1> QED BY <1>2, <1>3, <1>4, <1>5, <1>6, <1>7, <1>8, <1>9, <1>10, <1>11 DEF ShardNext

LEMMA Turns == ShardSpec => []TurnsInv
<1>1. ShardInit => TurnsInv
  BY DEF ShardInit, TurnsInv
<1> QED BY <1>1, TurnsStep, ShardInductive, PTL DEF ShardSpec

(* A slot whose checkpointing has returned stays completed, whatever dies and *)
(* whatever statuses are asked with whatever filter, while processes take     *)
(* turns.                                                                     *)
THEOREM CompletedStays == ShardSpec => []CompletedStay
<1>1. TurnsInv => CompletedStay
  BY DEF TurnsInv, CompletedStay
<1> QED BY <1>1, Turns, PTL
-----------------------------------------------------------------------------
\* As long as processes take turns and the operator lives from append to
\* checkpoint: what was run is completed or in hand, and what is offered or taken
\* was not run before.
OnceInv ==
    ~ overlapped /\ ~ interrupted =>
        /\ IsInjective(appended)
        /\ \A s \in Range(appended) :
              s \in Range(Completed) \/ (progress = "appended" /\ s = hand)
        /\ progress \in {"taken", "recorded", "evaluated"} => hand \notin Range(appended)
        /\ progress = "free" => offer \notin Range(appended)
        /\ progress # "free" => offer = NoSlot

\* The checkpoint only grew, and the operator stayed as it was.
LEMMA GrownOnce ==
    ASSUME OnceInv, ~ overlapped /\ ~ interrupted => Range(Completed) \subseteq Range(Completed'),
           overlapped => overlapped', UNCHANGED operatorVars
    PROVE  OnceInv'
<1>1. Range(Completed)' = Range(Completed')
  BY DEF Range
<1> QED BY <1>1 DEF OnceInv, operatorVars

LEMMA OnceStep == ShardInv /\ TurnsInv /\ OnceInv /\ [ShardNext]_shardVars => OnceInv'
<1> SUFFICES ASSUME FilesInv, HandInv, TurnsInv, OnceInv, [ShardNext]_shardVars PROVE OnceInv'
  BY DEF ShardInv
<1>1. \A s \in Range(appended) : s # NoSlot
  BY ShardAssumption DEF HandInv, Lists, ShardSlots, Range
<1>2. CASE UNCHANGED <<checkpoint, operatorVars>> /\ (overlapped => overlapped')
  BY <1>2, GrownOnce DEF Completed
<1>3. ASSUME NEW p \in Pids, RenameReport(p) PROVE OnceInv'
  <2>1. /\ Completed' = draft[p] /\ (~ overlapped => Range(Completed) \subseteq Range(Completed'))
        /\ Range(Completed)' = Range(draft[p])
    BY <1>3, PublishTurns DEF RenameReport, Range
  <2>2. CASE progress # "free"
    BY <1>3, <2>1, <2>2, GrownOnce DEF RenameReport, operatorVars
  <2>3. CASE progress = "free"
    <3>1. SUFFICES ASSUME ~ overlapped, ~ interrupted PROVE OnceInv'
      BY <1>3 DEF RenameReport, OnceInv
    <3>2. Range(appended) \subseteq Range(draft[p])
      BY <2>1, <2>3, <3>1 DEF OnceInv
    <3>3. offer' = NoSlot \/ offer' \notin Range(draft[p])
      BY <1>3, <2>3, NextSlotPending DEF RenameReport
    <3>4. offer' \notin Range(appended)
      BY <1>1, <3>2, <3>3
    <3>5. UNCHANGED <<hand, progress, appended, interrupted, overlapped>>
      BY <1>3 DEF RenameReport
    <3> QED BY <2>1, <2>3, <3>1, <3>2, <3>4, <3>5 DEF OnceInv
  <2> QED BY <2>2, <2>3
<1>4. ASSUME NEW p \in Pids, RenameCompleted(p) PROVE OnceInv'
  <2>1. /\ Completed' = draft[p] /\ (~ overlapped => Range(Completed) \subseteq Range(Completed'))
        /\ Range(Completed)' = Range(draft[p])
    BY <1>4, PublishTurns DEF RenameCompleted, Range, ShardSlots
  <2>2. /\ UNCHANGED <<offer, appended, interrupted, overlapped>>
        /\ \/ UNCHANGED <<progress, hand>>
           \/ progress = "appended" /\ hand = purpose[p] /\ progress' = "free" /\ hand' = NoSlot
    BY <1>4 DEF RenameCompleted
  <2>3. CASE UNCHANGED <<progress, hand>>
    BY <2>1, <2>2, <2>3, GrownOnce DEF operatorVars
  <2>4. CASE progress = "appended" /\ hand = purpose[p] /\ progress' = "free"
    <3>1. SUFFICES ASSUME ~ overlapped, ~ interrupted PROVE OnceInv'
      BY <2>2 DEF OnceInv
    <3>2. hand \in Range(draft[p])
      BY <1>4, <2>4, <3>1 DEF RenameCompleted, Publish, TurnsInv, ShardSlots
    <3>3. Range(appended) \subseteq Range(draft[p])
      BY <2>1, <3>1, <3>2 DEF OnceInv
    <3>4. offer = NoSlot /\ IsInjective(appended)
      BY <2>4, <3>1 DEF OnceInv
    <3> QED BY <1>1, <2>1, <2>2, <2>4, <3>3, <3>4 DEF OnceInv
  <2> QED BY <2>2, <2>3, <2>4
<1>5. CASE TakeSlot
  BY <1>5 DEF TakeSlot, OnceInv, fileVars, Completed
<1>6. ASSUME NEW harness \in Filters, NEW outcome, RunHarness(harness, outcome) PROVE OnceInv'
  BY <1>1, <1>6 DEF RunHarness, GiveUp, OnceInv, fileVars, Completed
<1>7. ASSUME NEW publishable \in BOOLEAN, Evaluate(publishable) PROVE OnceInv'
  BY <1>1, <1>7 DEF Evaluate, GiveUp, OnceInv, fileVars, Completed
<1>8. CASE AppendRun
  <2>1. SUFFICES ASSUME ~ overlapped, ~ interrupted PROVE OnceInv'
    BY <1>8 DEF AppendRun, fileVars, OnceInv
  <2>2. /\ progress = "evaluated" /\ progress' = "appended" /\ appended' = Append(appended, hand)
        /\ UNCHANGED <<hand, offer, checkpoint>>
    BY <1>8 DEF AppendRun, fileVars
  <2>3. /\ appended \in Seq(ShardSlots) /\ hand \notin Range(appended) /\ IsInjective(appended)
        /\ offer = NoSlot
    BY <2>1, <2>2 DEF OnceInv, HandInv, Lists
  <2>4. /\ DOMAIN appended' = DOMAIN appended \cup {Len(appended) + 1}
        /\ appended'[Len(appended) + 1] = hand
        /\ \A i \in DOMAIN appended : appended'[i] = appended[i]
    BY <2>2, <2>3
  <2>5. IsInjective(appended')
    <3>1. \A i \in DOMAIN appended : appended[i] # hand
      BY <2>3 DEF Range
    <3> QED BY <2>3, <2>4, <3>1 DEF IsInjective
  <2>6. Range(appended)' = Range(appended) \cup {hand}
    BY <2>4 DEF Range
  <2>7. \A s \in Range(appended) : s \in Range(Completed)
    BY <2>1, <2>2 DEF OnceInv
  <2>8. Range(Completed)' = Range(Completed) /\ IsInjective(appended)'
    BY <2>2, <2>5 DEF Completed, Range, IsInjective
  <2> QED BY <2>2, <2>3, <2>6, <2>7, <2>8 DEF OnceInv
<1>9. ASSUME NEW p \in Pids, CheckpointSlot(p) PROVE OnceInv'
  <2>1. CASE hand \in Range(Completed)
    BY <1>1, <1>9, <2>1 DEF CheckpointSlot, GiveUp, OnceInv, Completed
  <2>2. CASE hand \notin Range(Completed)
    BY <1>2, <1>9, <2>2 DEF CheckpointSlot, Enter, operatorVars
  <2> QED BY <2>1, <2>2
<1>10. CASE OperatorDies
  BY <1>1, <1>10 DEF OperatorDies, GiveUp, HandInv, OnceInv, fileVars, Completed
<1>11. ASSUME NEW p \in Pids, NEW filter, ShardStatus(p, filter) PROVE OnceInv'
  BY <1>2, <1>11 DEF ShardStatus, Enter
<1>12. ASSUME NEW p \in Pids, OpenTemporary(p) \/ FillTemporary(p) \/ ProcessDies(p) PROVE OnceInv'
  BY <1>2, <1>12 DEF OpenTemporary, FillTemporary, ProcessDies
<1>13. CASE UNCHANGED shardVars
  BY <1>2, <1>13 DEF shardVars, fileVars
<1> QED BY <1>3, <1>4, <1>5, <1>6, <1>7, <1>8, <1>9, <1>10, <1>11, <1>12, <1>13 DEF ShardNext

(* No slot is run twice, unless processes overlap or the operator dies with a *)
(* run appended and its slot not yet checkpointed.                            *)
THEOREM RunsOnce == ShardSpec => []RunOnce
<1>1. ShardInit => OnceInv
  <2> SUFFICES ASSUME ShardInit PROVE OnceInv
    OBVIOUS
  <2>1. appended = <<>> /\ Range(appended) = {} /\ IsInjective(appended)
    BY DEF ShardInit, Range, IsInjective
  <2> QED BY <2>1 DEF ShardInit, OnceInv
<1>2. OnceInv => RunOnce
  BY DEF OnceInv, RunOnce
<1> QED BY <1>1, <1>2, OnceStep, ShardInductive, Turns, PTL DEF ShardSpec
-----------------------------------------------------------------------------
(* What TLC runs is both specifications: the theorems about the aggregation   *)
(* and about the shard hold of the instance it checks.                        *)
THEOREM CampaignComposes == CampaignSpec => Spec /\ ShardSpec
<1>1. CampaignInit => Init /\ ShardInit
  BY DEF CampaignInit
<1>2. [CampaignNext]_<<vars, shardVars>> => [Next]_vars /\ [ShardNext]_shardVars
  BY DEF CampaignNext, AggregationOnly, ShardOnly, Next, ShardNext
<1> QED BY <1>1, <1>2, PTL DEF CampaignSpec, Spec, ShardSpec

(* The variables of the aggregation and of the shard keep their types.        *)
THEOREM CampaignTypeCorrect == CampaignSpec => []CampaignTypeOK
<1>1. TypeOK /\ ShardTypeOK => CampaignTypeOK
  BY DEF CampaignTypeOK
<1> QED BY <1>1, CampaignComposes, TypeCorrect, ShardTypeCorrect, PTL
=============================================================================
