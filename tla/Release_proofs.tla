---------------------------- MODULE Release_proofs ----------------------------
(* Proofs about what leaves the project, for any commits, files, reports and  *)
(* bounds: what a ready release was agreed on, and, where the tree stands     *)
(* still while the gate runs, where it came from; and what a P3 submission    *)
(* that replay verifies is.                                                   *)
EXTENDS MCRelease, FiniteSetTheorems, TLAPS

\* A review is a record of four fields; what its signature is over was approved.
Reviewed(a) == [severe |-> a.severe, report |-> a.report, target |-> a.target, signature |-> {}]

Genuine(r) ==
    r # None =>
        /\ r = [severe |-> r.severe, report |-> r.report, target |-> r.target,
                signature |-> r.signature]
        /\ \A a \in r.signature : Reviewed(a) \in approvals

\* The review, the signing and what the gate has read of them were made by the two parties.
AgreedInv ==
    /\ DOMAIN got = TreeFiles \cup Detached
    /\ Genuine(review) /\ Genuine(got["review"])
    /\ signing # None => signing \in releases
    /\ got["signing"] # None => got["signing"] \in releases
    /\ ReadyIsAgreed

Read == [candidate |-> {"plan", "inputs", "head", "status", "hosts", "judge"},
         plan |-> {"inputs", "head", "status", "hosts", "judge"},
         evidence |-> {"head", "status", "hosts", "judge"}]

\* With a still tree, what has been read is what lies there, and a clean one is the source's.
SourceInv ==
    /\ DOMAIN got = TreeFiles \cup Detached
    /\ pc \in Read.candidate => got["candidate"] = tree["candidate"]
    /\ pc \in Read.plan => got["plan"] = tree["plan"]
    /\ pc \in Read.evidence \/ (pc = "inputs" /\ "evidence" \notin left) =>
           got["evidence"] = tree["evidence"]
    /\ pc = "status" => head = source
    /\ pc = "hosts" => clean
    /\ clean => pc \in {"hosts", "judge"} /\ head = source /\ tree = Content[source]
    /\ verified # None =>
           clean /\ verified = got["evidence"] /\ <<verified, source>> \in Provenance
    /\ ReadyIsFromSource
-----------------------------------------------------------------------------
LEMMA AgreedInit == Init => AgreedInv
BY DEF Init, AgreedInv, Genuine, ReadyIsAgreed, Unread, TreeFiles, Detached

\* No blocker stands: what the gate had read, and from whom.
LEMMA NoBlockers ==
    ASSUME Blockers = {}
    PROVE  /\ got["review"] # None /\ got["report"] # None
           /\ got["review"].report = got["report"]
           /\ ~ got["review"].severe /\ got["review"].target = Target
           /\ got["review"].signature = {Approval(got["review"])}
           /\ <<got["plan"], got["evidence"]>> \in Passing
           /\ clean /\ verified # None
           /\ got["signing"] # None /\ got["signing"] = Subject
<1>1. got["review"] # None /\ got["report"] # None
  <2>1. SUFFICES ASSUME got["review"] = None \/ got["report"] = None PROVE FALSE
    OBVIOUS
  <2>2. "NOT_APPROVED" \in Blockers
    BY <2>1 DEF Blockers
  <2> QED BY <2>2
<1>2. got["review"].report = got["report"]
  <2>1. SUFFICES ASSUME got["review"].report # got["report"] PROVE FALSE
    OBVIOUS
  <2>2. "NOT_APPROVED" \in Blockers
    BY <1>1, <2>1 DEF Blockers
  <2> QED BY <2>2
<1>3. ReviewBlockers(got["review"]) = {}
  BY <1>1, <1>2 DEF Blockers
<1>4. /\ ~ got["review"].severe /\ got["review"].target = Target
      /\ got["review"].signature = {Approval(got["review"])}
  BY <1>3 DEF ReviewBlockers
<1>5. {code \in {"CAMPAIGN_NOT_PASS", "CHECKOUT_MISMATCH", "HOSTS_MISSING", "NOT_SIGNED",
                 "SIGNATURE_INVALID"} :
         \/ code = "CAMPAIGN_NOT_PASS" /\ <<got["plan"], got["evidence"]>> \notin Passing
         \/ code = "CHECKOUT_MISMATCH" /\ ~ clean
         \/ code = "HOSTS_MISSING" /\ verified = None
         \/ code = "NOT_SIGNED" /\ got["signing"] = None
         \/ code = "SIGNATURE_INVALID" /\ got["signing"] \notin {None, Subject}} = {}
  BY DEF Blockers
<1> QED BY <1>1, <1>2, <1>4, <1>5

\* The output of the gate is what everybody agreed on.
LEMMA JudgeAgrees ==
    ASSUME AgreedInv, Judge
    PROVE  ReadyIsAgreed'
<1>1. result' = [ready |-> Blockers = {}, target |-> Target, subject |-> Subject]
  BY DEF Judge
<1>2. approvals' = approvals /\ releases' = releases
  BY DEF Judge, history
<1>3. SUFFICES ASSUME Blockers = {}
               PROVE  /\ Subject \in releases /\ Subject.target = Target
                      /\ Unsigned(Subject.review) \in approvals /\ ~ Subject.review.severe
                      /\ Subject.review.target = Subject.target
                      /\ Subject.review.report = Subject.report
  BY <1>1, <1>2 DEF ReadyIsAgreed, Unsigned
<1> DEFINE r == got["review"]
<1>4. /\ Subject.review = r /\ Subject.target = Target /\ Subject.report = got["report"]
  BY DEF Subject
<1>5. Genuine(r) /\ Approval(r) \in r.signature
  BY <1>3, NoBlockers DEF AgreedInv
<1>6. Reviewed(Approval(r)) \in approvals
  BY <1>3, <1>5, NoBlockers DEF Genuine
<1>7. Unsigned(r) = Reviewed(Approval(r))
  <2>1. r = [severe |-> r.severe, report |-> r.report, target |-> r.target,
             signature |-> r.signature]
    BY <1>3, <1>5, NoBlockers DEF Genuine
  <2> QED BY <2>1 DEF Unsigned, Reviewed, Approval
<1>8. Subject \in releases
  BY <1>3, NoBlockers DEF AgreedInv
<1> QED BY <1>3, <1>4, <1>6, <1>7, <1>8, NoBlockers

\* A step that leaves the gate's output and the histories alone keeps ReadyIsAgreed.
LEMMA AgreedStays ==
    ASSUME ReadyIsAgreed, result' = result, approvals \subseteq approvals', releases \subseteq releases'
    PROVE  ReadyIsAgreed'
BY DEF ReadyIsAgreed, Unsigned

LEMMA GenuineStays ==
    ASSUME NEW r, Genuine(r), approvals \subseteq approvals'
    PROVE  Genuine(r)'
BY DEF Genuine, Reviewed

\* What the two parties and the gate do to AgreedInv.
LEMMA AgreedStep == AgreedInv /\ [Next]_vars => AgreedInv'
<1> SUFFICES ASSUME AgreedInv, [Next]_vars PROVE AgreedInv'
  OBVIOUS
<1> USE DEF AgreedInv
<1>a. ASSUME UNCHANGED <<review, signing, got, result, history>> PROVE AgreedInv'
  BY <1>a, AgreedStays, GenuineStays DEF history, Genuine, Reviewed
<1>1. CASE \E d \in Digests : Start(d)
  BY <1>1, <1>a DEF Start, detached
<1>2. CASE ReadCandidate
  <2>1. got' = [got EXCEPT !["candidate"] = tree["candidate"]]
        /\ UNCHANGED <<review, signing, result, approvals, releases>>
    BY <1>2 DEF ReadCandidate, detached, history
  <2>2. got'["review"] = got["review"] /\ got'["signing"] = got["signing"]
        /\ DOMAIN got' = TreeFiles \cup Detached
    BY <2>1 DEF TreeFiles, Detached
  <2> QED BY <2>1, <2>2, AgreedStays DEF Genuine, Reviewed
<1>3. CASE SealPlan
  <2>1. got' = [got EXCEPT !["plan"] = tree["plan"]]
        /\ UNCHANGED <<review, signing, result, approvals, releases>>
    BY <1>3 DEF SealPlan, detached, history
  <2>2. got'["review"] = got["review"] /\ got'["signing"] = got["signing"]
        /\ DOMAIN got' = TreeFiles \cup Detached
    BY <2>1 DEF TreeFiles, Detached
  <2> QED BY <2>1, <2>2, AgreedStays DEF Genuine, Reviewed
<1>4. ASSUME NEW f \in TreeFiles \cup Detached, ReadInput(f) PROVE AgreedInv'
  <2>1. got' = [got EXCEPT ![f] = OnDisk(f)]
        /\ UNCHANGED <<review, signing, result, approvals, releases>>
    BY <1>4 DEF ReadInput, detached, history
  <2>2. got'["review"] \in {got["review"], review}
    <3>1. CASE f = "review"
      BY <3>1, <2>1 DEF OnDisk, TreeFiles, Detached
    <3>2. CASE f # "review"
      BY <3>2, <2>1 DEF TreeFiles, Detached
    <3> QED BY <3>1, <3>2
  <2>3. got'["signing"] \in {got["signing"], signing}
    <3>1. CASE f = "signing"
      BY <3>1, <2>1 DEF OnDisk, TreeFiles, Detached
    <3>2. CASE f # "signing"
      BY <3>2, <2>1 DEF TreeFiles, Detached
    <3> QED BY <3>1, <3>2
  <2>4. DOMAIN got' = TreeFiles \cup Detached
    BY <2>1
  <2> QED BY <2>1, <2>2, <2>3, <2>4, AgreedStays DEF Genuine, Reviewed
<1>5. CASE ReadHead \/ ReadStatus \/ VerifyHosts
  BY <1>5, <1>a DEF ReadHead, ReadStatus, VerifyHosts, detached
<1>6. CASE Judge
  <2>1. UNCHANGED <<review, signing, approvals, releases>> /\ got' = Unread
    BY <1>6 DEF Judge, Exit, detached, history
  <2>2. ReadyIsAgreed'
    BY <1>6, JudgeAgrees
  <2> QED BY <2>1, <2>2 DEF Genuine, Reviewed, Unread, TreeFiles, Detached
<1>7. CASE Abort
  <2>1. UNCHANGED <<review, signing, result, approvals, releases>> /\ got' = Unread
    BY <1>7 DEF Abort, Exit, detached, history
  <2> QED BY <2>1, AgreedStays DEF Genuine, Reviewed, Unread, TreeFiles, Detached
<1>8. CASE \E d \in Digests : Checkout(d)
  BY <1>8, <1>a DEF Checkout, detached, gate
<1>9. CASE \E f \in Editable, v \in Versions : Edit(f, v)
  BY <1>9, <1>a DEF Edit, detached, gate
<1>10. CASE \E r \in Reports : AlterReport(r)
  BY <1>10, <1>a DEF AlterReport, gate
<1>11. ASSUME NEW r \in Reports, NEW severe \in BOOLEAN, DraftReview(r, severe)
       PROVE  AgreedInv'
  <2>1. review' = [severe |-> severe, report |-> r, target |-> result.target, signature |-> {}]
        /\ UNCHANGED <<signing, got, result, approvals, releases>>
    BY <1>11 DEF DraftReview, gate, history
  <2>2. Genuine(review)'
    BY <2>1 DEF Genuine
  <2> QED BY <2>1, <2>2, AgreedStays DEF Genuine, Reviewed
<1>12. CASE SignReview
  <2>1. /\ review # None /\ review' = [review EXCEPT !.signature = {Approval(review)}]
        /\ approvals' = approvals \cup {Unsigned(review)}
        /\ UNCHANGED <<signing, got, result, releases>>
    BY <1>12 DEF SignReview, gate
  <2>2. review = [severe |-> review.severe, report |-> review.report,
                  target |-> review.target, signature |-> review.signature]
    BY <2>1 DEF Genuine
  <2>3. Unsigned(review) = Reviewed(Approval(review))
    BY <2>2 DEF Unsigned, Reviewed, Approval
  <2>4. review' = [severe |-> review.severe, report |-> review.report,
                   target |-> review.target, signature |-> {Approval(review)}]
    BY <2>1, <2>2
  <2>5. Genuine(review)'
    <3>1. \A a \in review'.signature : a = Approval(review)
      BY <2>4
    <3>2. \A a \in review'.signature : Reviewed(a) \in approvals'
      BY <3>1, <2>1, <2>3
    <3>3. review' = [severe |-> review'.severe, report |-> review'.report,
                     target |-> review'.target, signature |-> review'.signature]
      BY <2>4
    <3> QED BY <3>2, <3>3 DEF Genuine, Reviewed
  <2>6. Genuine(got["review"])'
    BY <2>1 DEF Genuine, Reviewed
  <2> QED BY <2>1, <2>5, <2>6, AgreedStays
<1>13. CASE AlterReview
  <2>1. /\ review # None /\ review' = [review EXCEPT !.severe = ~ @]
        /\ UNCHANGED <<signing, got, result, approvals, releases>>
    BY <1>13 DEF AlterReview, gate, history
  <2>2. review = [severe |-> review.severe, report |-> review.report,
                  target |-> review.target, signature |-> review.signature]
        /\ \A a \in review.signature : Reviewed(a) \in approvals
    BY <2>1 DEF Genuine
  <2>3. review' = [severe |-> ~ review.severe, report |-> review.report,
                   target |-> review.target, signature |-> review.signature]
    BY <2>1, <2>2
  <2>4. Genuine(review)'
    BY <2>1, <2>2, <2>3 DEF Genuine, Reviewed
  <2> QED BY <2>1, <2>4, AgreedStays DEF Genuine, Reviewed
<1>14. CASE SignRelease
  <2>1. /\ signing' = result.subject /\ releases' = releases \cup {result.subject}
        /\ UNCHANGED <<review, got, result, approvals>>
    BY <1>14 DEF SignRelease, gate
  <2> QED BY <2>1, AgreedStays DEF Genuine, Reviewed
<1>15. CASE UNCHANGED vars
  BY <1>15, <1>a DEF vars, detached, gate
<1> QED
  BY <1>1, <1>2, <1>3, <1>4, <1>5, <1>6, <1>7, <1>8, <1>9, <1>10, <1>11, <1>12, <1>13, <1>14,
     <1>15 DEF Next, GateStep

\* A ready release was agreed on by the authority and the reviewer over the very bytes that
\* the gate judged, whoever else edits the review, the report or the tree meanwhile.
THEOREM Agreed == Spec => []ReadyIsAgreed
<1>1. AgreedInv => ReadyIsAgreed
  BY DEF AgreedInv
<1> QED BY <1>1, AgreedInit, AgreedStep, PTL DEF Spec
-----------------------------------------------------------------------------
LEMMA SourceInit == Init => SourceInv
BY DEF Init, SourceInv, ReadyIsFromSource, Unread, Read, TreeFiles, Detached

LEMMA SourceStays == ASSUME ReadyIsFromSource, result' = result PROVE ReadyIsFromSource'
BY DEF ReadyIsFromSource

\* A step of the gate up to its judgement: the tree stands still.
LEMMA GateReads ==
    ASSUME SourceInv,
           \/ \E d \in Digests : Start(d)
           \/ ReadCandidate \/ SealPlan \/ ReadHead \/ ReadStatus \/ VerifyHosts \/ Abort
           \/ \E f \in TreeFiles \cup Detached : ReadInput(f)
    PROVE  SourceInv'
<1> USE DEF SourceInv, Read
<1>1. CASE \E d \in Digests : Start(d)
  BY <1>1, SourceStays DEF Start, repository
<1>2. CASE ReadCandidate
  <2>1. /\ got' = [got EXCEPT !["candidate"] = tree["candidate"]]
        /\ pc = "candidate" /\ pc' = "plan"
        /\ UNCHANGED <<head, tree, source, clean, verified, result>>
    BY <1>2 DEF ReadCandidate, repository
  <2>2. got'["candidate"] = tree["candidate"] /\ DOMAIN got' = DOMAIN got
    BY <2>1 DEF TreeFiles
  <2>3. ~ clean /\ verified = None
    BY <2>1
  <2> QED BY <2>1, <2>2, <2>3, SourceStays
<1>3. CASE SealPlan
  <2>1. /\ got' = [got EXCEPT !["plan"] = tree["plan"]]
        /\ pc = "plan" /\ pc' = "inputs" /\ left' = {"evidence"} \cup Detached
        /\ UNCHANGED <<head, tree, source, clean, verified, result>>
    BY <1>3 DEF SealPlan, repository
  <2>2. /\ got'["plan"] = tree["plan"] /\ got'["candidate"] = got["candidate"]
        /\ DOMAIN got' = DOMAIN got
    BY <2>1 DEF TreeFiles
  <2>3. ~ clean /\ verified = None
    BY <2>1
  <2> QED BY <2>1, <2>2, <2>3, SourceStays
<1>4. ASSUME NEW f \in TreeFiles \cup Detached, ReadInput(f) PROVE SourceInv'
  <2>1. /\ got' = [got EXCEPT ![f] = OnDisk(f)]
        /\ pc = "inputs" /\ left' = left \ {f} /\ f \in left
        /\ pc' = IF left' = {} THEN "head" ELSE "inputs"
        /\ UNCHANGED <<head, tree, source, clean, verified, result>>
    BY <1>4 DEF ReadInput, repository
  <2>2. DOMAIN got' = DOMAIN got
    BY <2>1
  <2>3. \A g \in TreeFiles : got'[g] = IF g = f THEN tree[g] ELSE got[g]
    BY <2>1 DEF OnDisk, TreeFiles, Detached
  <2>4. got'["candidate"] = tree["candidate"] /\ got'["plan"] = tree["plan"]
    BY <2>1, <2>3 DEF TreeFiles
  <2>5. "evidence" \notin left' => got'["evidence"] = tree["evidence"]
    BY <2>1, <2>3 DEF TreeFiles
  <2>6. ~ clean /\ verified = None
    BY <2>1
  <2> QED BY <2>1, <2>2, <2>4, <2>5, <2>6, SourceStays
<1>5. CASE ReadHead
  BY <1>5, SourceStays DEF ReadHead, repository
<1>6. CASE ReadStatus
  <2>1. /\ pc = "status" /\ clean' = (tree = Content[head])
        /\ pc' = IF clean' THEN "hosts" ELSE "judge"
        /\ UNCHANGED <<head, tree, source, got, left, verified, result>>
    BY <1>6 DEF ReadStatus, repository
  <2>2. head = source /\ ~ clean /\ verified = None
    BY <2>1
  <2>3. clean' => tree = Content[source] /\ pc' = "hosts"
    BY <2>1, <2>2
  <2>4. pc' \in {"hosts", "judge"}
    BY <2>1
  <2> QED BY <2>1, <2>2, <2>3, <2>4, SourceStays
<1>7. CASE VerifyHosts
  BY <1>7, SourceStays DEF VerifyHosts, repository
<1>8. CASE Abort
  BY <1>8, SourceStays DEF Abort, Exit, repository, Unread
<1> QED BY <1>1, <1>2, <1>3, <1>4, <1>5, <1>6, <1>7, <1>8

LEMMA JudgeFromSource == ASSUME SourceInv, Judge PROVE SourceInv'
<1>1. /\ pc = "judge" /\ pc' = "idle" /\ got' = Unread /\ clean' = FALSE /\ verified' = None
      /\ result' = [ready |-> Blockers = {}, target |-> Target, subject |-> Subject]
      /\ UNCHANGED <<head, tree>>
  BY DEF Judge, Exit, repository
<1>2. ASSUME Blockers = {}
      PROVE  /\ Target.candidate = Content[Target.source]["candidate"]
             /\ Target.plan = Content[Target.source]["plan"]
             /\ Target.runs = Content[Target.source]["evidence"]
             /\ <<Target.plan, Target.runs>> \in Passing
             /\ <<Target.hosts, Target.source>> \in Provenance
  <2>1. /\ clean /\ verified # None /\ <<got["plan"], got["evidence"]>> \in Passing
    BY <1>2, NoBlockers
  <2>2. /\ got["candidate"] = tree["candidate"] /\ got["plan"] = tree["plan"]
        /\ got["evidence"] = tree["evidence"]
    <3>1. pc = "judge"
      BY <1>1
    <3>2. pc \in Read.candidate /\ pc \in Read.plan /\ pc \in Read.evidence
      BY <3>1 DEF Read
    <3> QED BY <3>2, Zenon DEF SourceInv
  <2>4. tree = Content[source]
    BY <2>1, Zenon DEF SourceInv
  <2>5. <<verified, source>> \in Provenance
    BY <2>1, Zenon DEF SourceInv
  <2>3. /\ Target.candidate = got["candidate"] /\ Target.plan = got["plan"]
        /\ Target.runs = got["evidence"] /\ Target.hosts = verified /\ Target.source = source
    BY DEF Target
  <2> QED BY <2>1, <2>2, <2>3, <2>4, <2>5
<1>3. ReadyIsFromSource'
  BY <1>1, <1>2 DEF ReadyIsFromSource
<1> QED BY <1>1, <1>3 DEF SourceInv, Read, Unread

LEMMA SourceStep == ASSUME ~ EditsDuringGate PROVE SourceInv /\ [Next]_vars => SourceInv'
<1> SUFFICES ASSUME SourceInv, [Next]_vars PROVE SourceInv'
  OBVIOUS
<1>a. ASSUME UNCHANGED <<repository, gate, result>> PROVE SourceInv'
  BY <1>a, SourceStays DEF SourceInv, Read, repository, gate
<1>b. ASSUME pc = "idle", UNCHANGED <<gate, result>> PROVE SourceInv'
  BY <1>b, SourceStays DEF SourceInv, Read, gate
<1>1. CASE GateStep
  BY <1>1, GateReads, JudgeFromSource DEF GateStep
<1>2. CASE \E d \in Digests : Checkout(d)
  BY <1>2, <1>b DEF Checkout
<1>3. CASE \E f \in Editable, v \in Versions : Edit(f, v)
  BY <1>3, <1>b DEF Edit
<1>4. CASE \E r \in Reports : AlterReport(r) \/ \E severe \in BOOLEAN : DraftReview(r, severe)
  BY <1>4, <1>a DEF AlterReport, DraftReview
<1>5. CASE SignReview \/ AlterReview \/ SignRelease
  BY <1>5, <1>a DEF SignReview, AlterReview, SignRelease
<1>6. CASE UNCHANGED vars
  BY <1>6, <1>a DEF vars
<1> QED BY <1>1, <1>2, <1>3, <1>4, <1>5, <1>6 DEF Next

\* If nobody touches the tree while the gate runs, a ready release was judged from the bytes of
\* the commit it names, its campaign passes under that commit's plan, and GitHub attests its
\* host artifacts for that commit.
THEOREM FromSource == ASSUME ~ EditsDuringGate PROVE Spec => []ReadyIsFromSource
<1>1. SourceInv => ReadyIsFromSource
  BY DEF SourceInv
<1>2. SourceInv /\ [Next]_vars => SourceInv'
  BY SourceStep
<1> QED BY <1>1, <1>2, SourceInit, PTL DEF Spec
-----------------------------------------------------------------------------
\* A gate that runs was started within the bound.
RunsLeft == pc # "idle" => runs < MaxRuns

LEMMA RunsLeftStep == TypeOK /\ RunsLeft /\ [Next]_vars => RunsLeft'
<1> SUFFICES ASSUME TypeOK, RunsLeft, [Next]_vars PROVE RunsLeft'
  OBVIOUS
<1>1. CASE GateStep
  BY <1>1 DEF RunsLeft, GateStep, Start, ReadCandidate, SealPlan, ReadInput, ReadHead, ReadStatus,
              VerifyHosts, Judge, Abort, Exit, counters
<1>2. CASE UNCHANGED <<pc, runs>>
  BY <1>2 DEF RunsLeft
<1> QED BY <1>1, <1>2 DEF Next, Checkout, Edit, AlterReport, DraftReview, SignReview, AlterReview,
                          SignRelease, vars, gate, counters

LEMMA TypeStep == TypeOK /\ RunsLeft /\ [Next]_vars => TypeOK'
<1> SUFFICES ASSUME TypeOK, RunsLeft, [Next]_vars PROVE TypeOK'
  OBVIOUS
<1> USE GateAssumption DEF TypeOK, Labels
<1>1. CASE UNCHANGED <<gate, runs>> /\ edits' \in {edits, edits + 1} /\ edits' <= MaxEdits
           /\ head' \in Digests /\ tree' \in [TreeFiles -> Versions] /\ report' \in Reports \cup {None}
  BY <1>1 DEF gate
<1>2. CASE Exit /\ UNCHANGED <<head, tree, report, edits>> /\ runs' \in 0 .. MaxRuns
  BY <1>2 DEF Exit, Unread
<1>3. ASSUME NEW d \in Digests, Start(d) PROVE TypeOK'
  BY <1>3 DEF Start, repository, detached, counters
<1>4. CASE ReadCandidate
  <2>1. tree["candidate"] \in Versions
    BY DEF TreeFiles
  <2> QED BY <1>4, <2>1 DEF ReadCandidate, repository, detached, counters
<1>5. CASE SealPlan
  <2>1. tree["plan"] \in Versions /\ {"evidence"} \cup Detached \subseteq TreeFiles \cup Detached
    BY DEF TreeFiles
  <2> QED BY <1>5, <2>1 DEF SealPlan, repository, detached, counters
<1>6. ASSUME NEW f \in TreeFiles \cup Detached, ReadInput(f) PROVE TypeOK'
  <2>1. f \in TreeFiles => OnDisk(f) \in Versions
    BY DEF OnDisk, TreeFiles
  <2>2. /\ DOMAIN got' = TreeFiles \cup Detached
        /\ \A g \in TreeFiles : got'[g] \in Versions \cup {None}
    BY <1>6, <2>1 DEF ReadInput
  <2>3. left' \subseteq TreeFiles \cup Detached /\ (pc' = "inputs" <=> left' # {}) /\ pc' \in Labels
    BY <1>6 DEF ReadInput
  <2> QED BY <1>6, <2>2, <2>3 DEF ReadInput, repository, detached, counters
<1>7. CASE ReadHead \/ ReadStatus
  BY <1>7 DEF ReadHead, ReadStatus, repository, detached, counters
<1>8. CASE VerifyHosts
  BY <1>8 DEF VerifyHosts, TreeFiles, repository, detached, counters
<1>9. CASE Judge
  <2>1. runs' \in 0 .. MaxRuns
    BY <1>9 DEF Judge, RunsLeft
  <2> QED BY <1>2, <1>9, <2>1 DEF Judge, repository, detached
<1>10. CASE Abort
  BY <1>2, <1>10 DEF Abort, repository, detached, counters
<1>11. CASE (\E d \in Digests : Checkout(d)) \/ (\E f \in Editable, v \in Versions : Edit(f, v))
  BY <1>1, <1>11 DEF Checkout, Edit, Edited, detached
<1>12. CASE (\E r \in Reports : AlterReport(r) \/ \E severe \in BOOLEAN : DraftReview(r, severe))
            \/ SignReview \/ AlterReview \/ SignRelease
  BY <1>1, <1>12 DEF AlterReport, DraftReview, SignReview, AlterReview, SignRelease, Edited,
                     repository, counters
<1>13. CASE UNCHANGED vars
  BY <1>1, <1>13 DEF vars, repository, detached, counters
<1> QED BY <1>3, <1>4, <1>5, <1>6, <1>7, <1>8, <1>9, <1>10, <1>11, <1>12, <1>13 DEF Next, GateStep

(* Every variable of the ceremony keeps its type, while the tree moves too.   *)
THEOREM TypeCorrect == Spec => []TypeOK
<1>1. Init => TypeOK /\ RunsLeft
  <2> SUFFICES ASSUME Init PROVE TypeOK /\ RunsLeft
    OBVIOUS
  <2>1. tree \in [TreeFiles -> Versions]
    BY GateAssumption DEF Init
  <2>2. DOMAIN got = TreeFiles \cup Detached /\ \A f \in TreeFiles : got[f] = None
    BY DEF Init, Unread
  <2>3. edits \in 0 .. MaxEdits /\ runs \in 0 .. MaxRuns
    BY GateAssumption DEF Init
  <2> QED BY <2>1, <2>2, <2>3 DEF Init, TypeOK, Labels, RunsLeft
<1> QED BY <1>1, TypeStep, RunsLeftStep, PTL DEF Spec
-----------------------------------------------------------------------------
Artifact == [path : Range(PathOrder), hash : Contents, bytes : Contents]

Payloads == [manifest : Manifests, artifacts : Seq([path : Range(PathOrder), hash : Contents]),
             authority : Authorities]

Bundles == [manifest : Manifests, artifacts : Seq(Artifact), authority : Authorities,
            payloadHash : Payloads, signature : [by : PublicKeys, over : Payloads]]

\* What replay asks of a bundle, but for the limit on its size.
Authentic(b) ==
    LET payload == SignedPayload(b.manifest, b.artifacts, b.authority)
    IN  /\ ManifestValid(b.manifest) /\ ArtifactsHold(b.artifacts)
        /\ b.payloadHash = payload /\ b.signature.over = payload

\* A bundle was authentic when it was built, and its signature has stayed what it was.
SubmissionInv ==
    bundle # NoBundle =>
        /\ bundle \in Bundles /\ built \in Bundles
        /\ Authentic(built) /\ bundle.signature = built.signature
-----------------------------------------------------------------------------
LEMMA PlaceWithin ==
    ASSUME NEW keep, IsFiniteSet(keep), keep \subseteq Nat, NEW i \in keep
    PROVE  Place(i, keep) \in 1 .. Cardinality(keep)
<1>1. {j \in keep : j <= i} \subseteq keep /\ i \in {j \in keep : j <= i}
  <2>1. i \in Int /\ i <= i
    OBVIOUS
  <2> QED BY <2>1
<1> DEFINE below == {j \in keep : j <= i}
<1>2. IsFiniteSet(below) /\ Cardinality(below) <= Cardinality(keep) /\ below # {}
  BY <1>1, FS_Subset
<1> HIDE DEF below
<1>3. Cardinality(below) \in Nat /\ Cardinality(below) # 0 /\ Cardinality(keep) \in Nat
  BY <1>2, FS_CardinalityType, FS_EmptySet
<1> QED BY <1>2, <1>3 DEF Place, below

LEMMA PlaceGrows ==
    ASSUME NEW keep, IsFiniteSet(keep), keep \subseteq Nat, NEW i \in keep, NEW k \in keep, i < k
    PROVE  Place(i, keep) # Place(k, keep)
<1> DEFINE upTo(n) == {j \in keep : j <= n}
<1>1. IsFiniteSet(upTo(k))
  <2>1. upTo(k) \subseteq keep
    OBVIOUS
  <2> QED BY <2>1, FS_Subset
<1>2. upTo(i) \subseteq upTo(k) /\ k \in upTo(k) /\ k \notin upTo(i)
  <2>1. i \in Nat /\ k \in Nat
    OBVIOUS
  <2>2. \A j \in Nat : j <= i => j <= k
    BY <2>1
  <2>3. k <= k /\ ~ (k <= i)
    BY <2>1
  <2>4. upTo(i) \subseteq upTo(k)
    BY <2>2
  <2> QED BY <2>3, <2>4
<1>3. upTo(i) # upTo(k)
  BY <1>2
<1> HIDE DEF upTo
<1>4. Cardinality(upTo(i)) # Cardinality(upTo(k))
  BY <1>1, <1>2, <1>3, FS_Subset
<1> QED BY <1>4 DEF Place, upTo

\* Every number up to how many there are is the place of one of them, which AtPlace finds.
LEMMA AtPlaceFinds ==
    ASSUME NEW keep, IsFiniteSet(keep), keep \subseteq Nat, NEW n \in 1 .. Cardinality(keep)
    PROVE  AtPlace(n, keep) \in keep /\ Place(AtPlace(n, keep), keep) = n
<1> DEFINE f == [i \in keep |-> Place(i, keep)]
           T == 1 .. Cardinality(keep)
<1>1. Cardinality(keep) \in Nat
  BY FS_CardinalityType
<1>2. IsFiniteSet(T) /\ Cardinality(T) = Cardinality(keep)
  <2>1. PICK c \in Nat : c = Cardinality(keep)
    BY <1>1
  <2>2. IsFiniteSet(1 .. c) /\ Cardinality(1 .. c) = IF 1 > c THEN 0 ELSE c - 1 + 1
    BY FS_Interval
  <2>3. (IF 1 > c THEN 0 ELSE c - 1 + 1) = c
    OBVIOUS
  <2> QED BY <2>1, <2>2, <2>3
<1>3. f \in [keep -> T]
  BY PlaceWithin
<1>4. \A i, k \in keep : Place(i, keep) = Place(k, keep) => i = k
  <2> SUFFICES ASSUME NEW i \in keep, NEW k \in keep, i # k PROVE Place(i, keep) # Place(k, keep)
    OBVIOUS
  <2>1. i < k \/ k < i
    OBVIOUS
  <2> QED BY <2>1, PlaceGrows
<1>5. f \in Injection(keep, T)
  BY <1>3, <1>4 DEF Injection, IsInjective
<1>6. f \in Surjection(keep, T)
  BY <1>2, <1>5, FS_Injection
<1>7. \E i \in keep : Place(i, keep) = n
  BY <1>6 DEF Surjection
<1> QED BY <1>7 DEF AtPlace

\* The index a bundle is built with becomes a sequence of its artifacts, no path twice.
LEMMA EncodedIndex ==
    ASSUME NEW paths \in SUBSET Range(PathOrder), NEW index \in [paths -> Contents]
    PROVE  /\ Encoded(index) \in Seq(Artifact)
           /\ \A i \in DOMAIN Encoded(index) :
                 /\ Encoded(index)[i].path \in paths
                 /\ Encoded(index)[i].hash = index[Encoded(index)[i].path]
                 /\ Encoded(index)[i].bytes = index[Encoded(index)[i].path]
           /\ \A i, j \in DOMAIN Encoded(index) :
                 Encoded(index)[i].path = Encoded(index)[j].path => i = j
           /\ paths # {} => Encoded(index) # <<>>
<1> DEFINE keep == {n \in DOMAIN PathOrder : PathOrder[n] \in DOMAIN index}
           order == Selected(PathOrder, keep)
           artifact(path) == [path |-> path, hash |-> index[path], bytes |-> index[path]]
<1>1. DOMAIN index = paths /\ DOMAIN PathOrder = 1 .. Len(PathOrder) /\ Len(PathOrder) \in Nat
  BY SubmissionAssumption
<1>2. IsFiniteSet(keep) /\ keep \subseteq Nat
  <2>1. keep \subseteq 1 .. Len(PathOrder)
    BY <1>1
  <2>2. IsFiniteSet(1 .. Len(PathOrder))
    BY <1>1, FS_Interval
  <2> QED BY <1>1, <2>1, <2>2, FS_Subset
<1>3. \A n \in keep : n \in DOMAIN PathOrder /\ PathOrder[n] \in paths
  BY <1>1
<1>4. paths # {} => keep # {}
  <2>1. \A p \in paths : \E n \in DOMAIN PathOrder : PathOrder[n] = p
    BY DEF Range
  <2> QED BY <1>1, <2>1
<1>5. Encoded(index) = [i \in DOMAIN order |-> artifact(order[i])]
  BY DEF Encoded
<1> HIDE DEF keep, artifact
<1>6. PICK size \in Nat : size = Cardinality(keep)
  BY <1>2, FS_CardinalityType
<1>7. DOMAIN order = 1 .. size /\ \A i \in 1 .. size : order[i] = PathOrder[AtPlace(i, keep)]
  BY <1>6 DEF Selected
<1>8. \A i \in 1 .. size : AtPlace(i, keep) \in keep /\ Place(AtPlace(i, keep), keep) = i
  BY <1>2, <1>6, AtPlaceFinds
<1> HIDE DEF order
<1>9. \A i \in 1 .. size : order[i] \in paths
  BY <1>3, <1>7, <1>8
<1>10. \A i, j \in 1 .. size : order[i] = order[j] => i = j
  <2> SUFFICES ASSUME NEW i \in 1 .. size, NEW j \in 1 .. size, order[i] = order[j] PROVE i = j
    OBVIOUS
  <2>1. AtPlace(i, keep) = AtPlace(j, keep)
    BY <1>3, <1>7, <1>8, SubmissionAssumption
  <2> QED BY <1>8, <2>1
<1>11. \A p \in paths : /\ artifact(p) \in Artifact /\ artifact(p).path = p
                        /\ artifact(p).hash = index[p] /\ artifact(p).bytes = index[p]
  BY DEF artifact, Artifact
<1>12. DOMAIN Encoded(index) = 1 .. size /\ \A i \in 1 .. size : Encoded(index)[i] = artifact(order[i])
  BY <1>5, <1>7
<1>13. Encoded(index) \in Seq(Artifact)
  <2>1. Encoded(index) \in [1 .. size -> Artifact]
    BY <1>5, <1>7, <1>9, <1>11
  <2> QED BY <2>1
<1>14. paths # {} => Encoded(index) # <<>>
  <2>1. paths # {} => size # 0
    BY <1>2, <1>4, <1>6, FS_EmptySet
  <2> QED BY <1>12, <2>1
<1> HIDE DEF artifact
<1>15. \A i \in 1 .. size : /\ Encoded(index)[i].path = order[i]
                            /\ Encoded(index)[i].hash = index[order[i]]
                            /\ Encoded(index)[i].bytes = index[order[i]]
  BY <1>9, <1>11, <1>12
<1> QED BY <1>9, <1>10, <1>12, <1>13, <1>14, <1>15

LEMMA FunctionIsSeq ==
    ASSUME NEW S, NEW n \in Nat, NEW f \in [1 .. n -> S]
    PROVE  f \in Seq(S)
OBVIOUS

LEMMA PayloadType ==
    ASSUME NEW manifest \in Manifests, NEW artifacts \in Seq(Artifact), NEW authority \in Authorities
    PROVE  SignedPayload(manifest, artifacts, authority) \in Payloads
<1>1. Identities(artifacts) \in Seq([path : Range(PathOrder), hash : Contents])
  <2>1. PICK n \in Nat : artifacts \in [1 .. n -> Artifact]
    <3>1. Len(artifacts) \in Nat /\ artifacts \in [1 .. Len(artifacts) -> Artifact]
      OBVIOUS
    <3> QED BY <3>1
  <2>2. Identities(artifacts) \in [1 .. n -> [path : Range(PathOrder), hash : Contents]]
    <3>1. \A i \in 1 .. n : [path |-> artifacts[i].path, hash |-> artifacts[i].hash]
                              \in [path : Range(PathOrder), hash : Contents]
      BY <2>1 DEF Artifact
    <3>2. Identities(artifacts) = [i \in 1 .. n |-> [path |-> artifacts[i].path, hash |-> artifacts[i].hash]]
      BY <2>1 DEF Identities
    <3> QED BY <3>1, <3>2
  <2> QED BY <2>2, FunctionIsSeq
<1> QED BY <1>1 DEF SignedPayload, Payloads

\* What is built is authentic: build checks what replay will.
LEMMA BuildKeeps ==
    ASSUME NEW manifest \in Manifests, NEW paths \in SUBSET Range(PathOrder), NEW index \in [paths -> Contents],
           NEW authority \in Authorities, NEW key \in SubmitterKeys,
           BuildSubmission(manifest, index, authority, key)
    PROVE  SubmissionInv'
<1> DEFINE artifacts == Encoded(index)
           payload == SignedPayload(manifest, artifacts, authority)
<1>1. /\ BuildAccepts(manifest, index)
      /\ bundle' = [manifest |-> manifest, artifacts |-> artifacts, authority |-> authority,
                    payloadHash |-> payload, signature |-> [by |-> key, over |-> payload]]
      /\ built' = bundle'
  BY DEF BuildSubmission
<1>2. DOMAIN index = paths
  OBVIOUS
<1>3. paths # {}
  <2>1. Cardinality(paths) \in 1 .. MaxArtifacts
    BY <1>1, <1>2 DEF BuildAccepts
  <2>2. Cardinality({}) = 0
    BY FS_EmptySet
  <2> QED BY <2>1, <2>2
<1>4. /\ artifacts \in Seq(Artifact)
      /\ \A i \in DOMAIN artifacts : /\ artifacts[i].path \in paths
                                     /\ artifacts[i].hash = index[artifacts[i].path]
                                     /\ artifacts[i].bytes = index[artifacts[i].path]
      /\ \A i, j \in DOMAIN artifacts : artifacts[i].path = artifacts[j].path => i = j
      /\ artifacts # <<>>
  BY <1>3, EncodedIndex
<1> HIDE DEF artifacts
<1>5. /\ \A p \in paths : p \in PortablePaths /\ index[p] \notin Private /\ Size[index[p]] \in 1 .. MaxArtifactSize
      /\ \A p, q \in paths : LowerCase[q] = LowerCase[p] => q = p
      /\ ManifestValid(manifest)
  BY <1>1, <1>2 DEF BuildAccepts
<1>6. ArtifactsHold(artifacts)
  <2>1. DOMAIN artifacts = 1 .. Len(artifacts) /\ Len(artifacts) \in Nat
    BY <1>4
  <2>2. ASSUME NEW i \in DOMAIN artifacts
        PROVE  /\ artifacts[i].path \in PortablePaths
               /\ Size[artifacts[i].bytes] > 0 /\ artifacts[i].hash = artifacts[i].bytes
               /\ artifacts[i].bytes \notin Private
    <3>1. \A n \in 1 .. MaxArtifactSize : n > 0
      BY SubmissionAssumption
    <3> QED BY <1>4, <1>5, <3>1
  <2>3. ASSUME NEW i \in DOMAIN artifacts, NEW j \in 1 .. i - 1
        PROVE  LowerCase[artifacts[j].path] # LowerCase[artifacts[i].path]
    <3>1. j \in DOMAIN artifacts /\ j # i
      BY <2>1
    <3> QED BY <1>4, <1>5, <3>1
  <2> QED BY <1>4, <2>2, <2>3 DEF ArtifactsHold
<1>7. payload \in Payloads /\ key \in PublicKeys
  BY <1>4, PayloadType, SubmissionAssumption
<1>8. bundle' \in Bundles
  BY <1>1, <1>4, <1>7 DEF Bundles
<1>9. Authentic(bundle')
  BY <1>1, <1>5, <1>6 DEF Authentic
<1> QED BY <1>1, <1>8, <1>9 DEF SubmissionInv

LEMMA WithArtifacts ==
    ASSUME NEW b \in Bundles, NEW artifacts \in Seq(Artifact)
    PROVE  [b EXCEPT !.artifacts = artifacts] \in Bundles /\ [b EXCEPT !.artifacts = artifacts].signature = b.signature
BY DEF Bundles

\* An alteration that leaves the signature alone.
LEMMA AlteredKeeps ==
    ASSUME SubmissionInv, bundle # NoBundle, NEW altered \in Bundles, altered.signature = bundle.signature,
           Alter_(altered)
    PROVE  SubmissionInv'
BY DEF SubmissionInv, Alter_

\* Whatever is altered, the bundle stays one, with the signature it had.
LEMMA AlterKeeps ==
    ASSUME SubmissionInv, bundle # NoBundle,
           \/ \E manifest \in Manifests : AlterManifest(manifest)
           \/ \E authority \in Authorities : AlterAuthority(authority)
           \/ Rehash
           \/ \E path \in Range(PathOrder), content \in Contents : AddArtifact(path, content)
           \/ ReorderArtifacts
    PROVE  SubmissionInv'
<1>1. bundle \in Bundles /\ bundle.artifacts \in Seq(Artifact)
  BY DEF SubmissionInv, Bundles
<1>2. ASSUME NEW artifacts \in Seq(Artifact), Alter_([bundle EXCEPT !.artifacts = artifacts]) PROVE SubmissionInv'
  BY <1>1, <1>2, WithArtifacts, AlteredKeeps
<1>3. ASSUME NEW manifest \in Manifests, AlterManifest(manifest) PROVE SubmissionInv'
  <2>1. /\ [bundle EXCEPT !.manifest = manifest] \in Bundles
        /\ [bundle EXCEPT !.manifest = manifest].signature = bundle.signature
    BY <1>1 DEF Bundles
  <2> QED BY <1>3, <2>1, AlteredKeeps DEF AlterManifest
<1>4. ASSUME NEW authority \in Authorities, AlterAuthority(authority) PROVE SubmissionInv'
  <2>1. /\ [bundle EXCEPT !.authority = authority] \in Bundles
        /\ [bundle EXCEPT !.authority = authority].signature = bundle.signature
    BY <1>1 DEF Bundles
  <2> QED BY <1>4, <2>1, AlteredKeeps DEF AlterAuthority
<1>5. ASSUME Rehash PROVE SubmissionInv'
  <2>1. PICK payload : payload = SignedPayload(bundle.manifest, bundle.artifacts, bundle.authority)
    OBVIOUS
  <2>2. payload \in Payloads
    BY <1>1, <2>1, PayloadType DEF Bundles
  <2>3. /\ [bundle EXCEPT !.payloadHash = payload] \in Bundles
        /\ [bundle EXCEPT !.payloadHash = payload].signature = bundle.signature
    BY <1>1, <2>2 DEF Bundles
  <2> QED BY <1>5, <2>1, <2>3, AlteredKeeps DEF Rehash
<1>6. ASSUME NEW path \in Range(PathOrder), NEW content \in Contents, AddArtifact(path, content)
      PROVE  SubmissionInv'
  <2>1. PICK added : added = [path |-> path, hash |-> content, bytes |-> content]
    OBVIOUS
  <2>2. added \in Artifact
    BY <2>1 DEF Artifact
  <2>3. Append(bundle.artifacts, added) \in Seq(Artifact)
    BY <1>1, <2>2
  <2>4. Alter_([bundle EXCEPT !.artifacts = Append(bundle.artifacts, added)])
    BY <1>6, <2>1 DEF AddArtifact
  <2> QED BY <1>2, <2>3, <2>4
<1>7. ASSUME ReorderArtifacts PROVE SubmissionInv'
  <2>1. Reverse(bundle.artifacts) \in Seq(Artifact)
    <3>1. PICK n \in Nat : n = Len(bundle.artifacts)
      BY <1>1
    <3>2. Reverse(bundle.artifacts) \in [1 .. n -> Artifact]
      BY <1>1, <3>1 DEF Reverse
    <3> QED BY <3>2
  <2>2. Alter_([bundle EXCEPT !.artifacts = Reverse(bundle.artifacts)])
    BY <1>7 DEF ReorderArtifacts
  <2> QED BY <1>2, <2>1, <2>2
<1> QED BY <1>3, <1>4, <1>5, <1>6, <1>7

LEMMA AlterArtifactKeeps ==
    ASSUME SubmissionInv, bundle # NoBundle, NEW i \in DOMAIN bundle.artifacts,
           \/ \E path \in Range(PathOrder) : AlterName(i, path)
           \/ \E content \in Contents : AlterBytes(i, content) \/ ReplaceBytes(i, content)
           \/ DropArtifact(i)
    PROVE  SubmissionInv'
<1>1. bundle \in Bundles /\ bundle.artifacts \in Seq(Artifact) /\ bundle.artifacts[i] \in Artifact
  BY DEF SubmissionInv, Bundles
<1>2. ASSUME NEW artifacts \in Seq(Artifact), Alter_([bundle EXCEPT !.artifacts = artifacts]) PROVE SubmissionInv'
  BY <1>1, <1>2, WithArtifacts, AlteredKeeps
<1>3. ASSUME NEW one \in Artifact, Alter_([bundle EXCEPT !.artifacts = [bundle.artifacts EXCEPT ![i] = one]])
      PROVE  SubmissionInv'
  <2>1. [bundle.artifacts EXCEPT ![i] = one] \in Seq(Artifact)
    BY <1>1
  <2> QED BY <1>2, <1>3, <2>1
<1>4. ASSUME NEW path \in Range(PathOrder), AlterName(i, path) PROVE SubmissionInv'
  <2>1. [bundle.artifacts[i] EXCEPT !.path = path] \in Artifact
    BY <1>1 DEF Artifact
  <2>2. Alter_([bundle EXCEPT !.artifacts = [bundle.artifacts EXCEPT ![i] = [bundle.artifacts[i] EXCEPT !.path = path]]])
    BY <1>4 DEF AlterName
  <2> QED BY <1>3, <2>1, <2>2
<1>5. ASSUME NEW content \in Contents, AlterBytes(i, content) PROVE SubmissionInv'
  <2>1. [bundle.artifacts[i] EXCEPT !.bytes = content] \in Artifact
    BY <1>1 DEF Artifact
  <2>2. Alter_([bundle EXCEPT !.artifacts = [bundle.artifacts EXCEPT ![i] = [bundle.artifacts[i] EXCEPT !.bytes = content]]])
    BY <1>5 DEF AlterBytes
  <2> QED BY <1>3, <2>1, <2>2
<1>6. ASSUME NEW content \in Contents, ReplaceBytes(i, content) PROVE SubmissionInv'
  <2>1. [bundle.artifacts[i] EXCEPT !.bytes = content, !.hash = content] \in Artifact
    BY <1>1 DEF Artifact
  <2>2. Alter_([bundle EXCEPT !.artifacts =
                  [bundle.artifacts EXCEPT ![i] = [bundle.artifacts[i] EXCEPT !.bytes = content, !.hash = content]]])
    <3>1. [bundle EXCEPT !.artifacts[i].bytes = content, !.artifacts[i].hash = content] =
          [bundle EXCEPT !.artifacts =
              [bundle.artifacts EXCEPT ![i] = [bundle.artifacts[i] EXCEPT !.bytes = content, !.hash = content]]]
      BY <1>1 DEF Bundles, Artifact
    <3> QED BY <1>6, <3>1 DEF ReplaceBytes
  <2> QED BY <1>3, <2>1, <2>2
<1>7. ASSUME DropArtifact(i) PROVE SubmissionInv'
  <2>1. RemoveAt(bundle.artifacts, i) \in Seq(Artifact)
    <3>1. /\ SubSeq(bundle.artifacts, 1, i - 1) \in Seq(Artifact)
          /\ SubSeq(bundle.artifacts, i + 1, Len(bundle.artifacts)) \in Seq(Artifact)
      BY <1>1
    <3> QED BY <3>1 DEF RemoveAt
  <2>2. Alter_([bundle EXCEPT !.artifacts = RemoveAt(bundle.artifacts, i)])
    BY <1>7 DEF DropArtifact
  <2> QED BY <1>2, <2>1, <2>2
<1> QED BY <1>4, <1>5, <1>6, <1>7

LEMMA NextSubmission == SubmissionInv /\ [SubmissionNext]_submissionVars => SubmissionInv'
<1> SUFFICES ASSUME SubmissionInv, [SubmissionNext]_submissionVars PROVE SubmissionInv'
  OBVIOUS
<1>1. CASE UNCHANGED submissionVars
  BY <1>1 DEF submissionVars, SubmissionInv
<1>2. CASE SubmissionNext
  BY <1>2, BuildKeeps, AlterKeeps, AlterArtifactKeeps DEF SubmissionNext
<1> QED BY <1>1, <1>2

\* A bundle that verifies under the signature of an authentic one is that one: it
\* signs manifest, names, hashes and authority, and the hashes stand for the bytes.
LEMMA SignatureIdentifies ==
    ASSUME NEW b \in Bundles, NEW c \in Bundles, NEW key, Verified(b, key), Authentic(c), b.signature = c.signature
    PROVE  b = c
<1>1. SignedPayload(b.manifest, b.artifacts, b.authority) = SignedPayload(c.manifest, c.artifacts, c.authority)
  BY DEF Verified, Authentic
<1>2. /\ b.manifest = c.manifest /\ b.authority = c.authority
      /\ Identities(b.artifacts) = Identities(c.artifacts)
  BY <1>1 DEF SignedPayload
<1>3. b.payloadHash = c.payloadHash
  BY <1>1 DEF Verified, Authentic
<1>4. PICK n \in Nat, m \in Nat : b.artifacts \in [1 .. n -> Artifact] /\ c.artifacts \in [1 .. m -> Artifact]
  <2>1. \A s \in Seq(Artifact) : Len(s) \in Nat /\ s \in [1 .. Len(s) -> Artifact]
    OBVIOUS
  <2> QED BY <2>1 DEF Bundles
<1>5. 1 .. n = 1 .. m
  <2>1. DOMAIN Identities(b.artifacts) = 1 .. n /\ DOMAIN Identities(c.artifacts) = 1 .. m
    BY <1>4 DEF Identities
  <2> QED BY <1>2, <2>1
<1>6. ASSUME NEW i \in 1 .. n PROVE b.artifacts[i] = c.artifacts[i]
  <2>1. Identities(b.artifacts)[i] = [path |-> b.artifacts[i].path, hash |-> b.artifacts[i].hash]
    BY <1>4 DEF Identities
  <2>2. Identities(c.artifacts)[i] = [path |-> c.artifacts[i].path, hash |-> c.artifacts[i].hash]
    BY <1>4, <1>5 DEF Identities
  <2>3. b.artifacts[i].path = c.artifacts[i].path /\ b.artifacts[i].hash = c.artifacts[i].hash
    BY <1>2, <2>1, <2>2
  <2>4. b.artifacts[i].bytes = b.artifacts[i].hash
    BY <1>4 DEF Verified, ArtifactsHold
  <2>5. c.artifacts[i].bytes = c.artifacts[i].hash
    BY <1>4, <1>5 DEF Authentic, ArtifactsHold
  <2>6. b.artifacts[i] \in Artifact /\ c.artifacts[i] \in Artifact
    BY <1>4, <1>5
  <2> QED BY <2>3, <2>4, <2>5, <2>6 DEF Artifact
<1>7. b.artifacts = c.artifacts
  BY <1>4, <1>5, <1>6
<1> QED BY <1>2, <1>3, <1>7 DEF Bundles

(* A bundle is authentic when it is built, and no alteration reaches the      *)
(* signature.                                                                 *)
THEOREM SubmissionInductive == SubmissionSpec => []SubmissionInv
<1>1. SubmissionInit => SubmissionInv
  BY DEF SubmissionInit, SubmissionInv
<1> QED BY <1>1, NextSubmission, PTL DEF SubmissionSpec

(* Replay verifies under a key exactly what the owner of the key has built,   *)
(* for any artifacts, contents, limits and alterations.                       *)
THEOREM ReplayVerifies == SubmissionSpec => []ReplayVerifiesWhatWasBuilt
<1>1. SubmissionInv => ReplayVerifiesWhatWasBuilt
  <2> SUFFICES ASSUME SubmissionInv, bundle # NoBundle, NEW key \in PublicKeys
               PROVE  Verified(bundle, key) <=> /\ bundle = built /\ built.signature.by = key
                                                /\ BundleSize(bundle.artifacts) <= MaxBundleSize
    BY DEF ReplayVerifiesWhatWasBuilt
  <2>1. bundle \in Bundles /\ built \in Bundles /\ Authentic(built) /\ bundle.signature = built.signature
    BY DEF SubmissionInv
  <2>2. ASSUME Verified(bundle, key)
        PROVE  bundle = built /\ built.signature.by = key /\ BundleSize(bundle.artifacts) <= MaxBundleSize
    <3>1. bundle = built
      BY <2>1, <2>2, SignatureIdentifies
    <3> QED BY <2>2, <3>1 DEF Verified
  <2>3. ASSUME bundle = built, built.signature.by = key, BundleSize(bundle.artifacts) <= MaxBundleSize
        PROVE  Verified(bundle, key)
    <3>1. built.signature = [by |-> built.signature.by, over |-> built.signature.over]
      BY <2>1 DEF Bundles
    <3> QED BY <2>1, <2>3, <3>1 DEF Verified, Authentic
  <2> QED BY <2>2, <2>3
<1> QED BY <1>1, SubmissionInductive, PTL
-----------------------------------------------------------------------------
(* The gate and the submission share nothing: each goes on as if the other    *)
(* were not there, so what is proved of one holds where both are.             *)
THEOREM ReleaseComposes == ReleaseSpec => Spec /\ SubmissionSpec
<1>1. ReleaseInit => Init /\ SubmissionInit
  BY DEF ReleaseInit
<1>2. ReleaseNext => [Next]_vars /\ [SubmissionNext]_submissionVars
  <2> SUFFICES ASSUME ReleaseNext PROVE [Next]_vars /\ [SubmissionNext]_submissionVars
    OBVIOUS
  <2>1. CASE Next /\ UNCHANGED submissionVars
    BY <2>1
  <2>2. CASE SubmissionNext /\ UNCHANGED vars
    BY <2>2
  <2>3. \/ Next /\ UNCHANGED submissionVars
        \/ SubmissionNext /\ UNCHANGED vars
    BY DEF ReleaseNext, GateOnly, SubmissionOnly, Next, GateStep, SubmissionNext
  <2> QED BY <2>1, <2>2, <2>3
<1>3. UNCHANGED <<vars, submissionVars>> => UNCHANGED vars /\ UNCHANGED submissionVars
  OBVIOUS
<1>4. [ReleaseNext]_<<vars, submissionVars>> => [Next]_vars /\ [SubmissionNext]_submissionVars
  BY <1>2, <1>3
<1> QED BY <1>1, <1>4, PTL DEF ReleaseSpec, Spec, SubmissionSpec
=============================================================================
