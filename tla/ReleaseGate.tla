----------------------------- MODULE ReleaseGate -----------------------------
(* The P2 release ceremony: scripts/check-p2-release.mjs, which reads the     *)
(* release inputs one after another, verifies the checkout they lie in and    *)
(* hands them to evaluateP2ReleaseGate, beside a working tree that is edited  *)
(* and checked out, a reviewer and a release authority (sign-p2-*.mjs). The   *)
(* gate runs as often as one likes; its output carries the hashes that the    *)
(* other two sign.                                                            *)
(*                                                                            *)
(* A hash is written as what it is the hash of. Campaign shows which runs     *)
(* pass under a plan; which do is a constant here. Trust anchors do not       *)
(* change, so a signature is the set of what the pinned party signed.         *)
EXTENDS Integers, FiniteSets

CONSTANTS Digests,           \* source commits
          Versions,          \* contents of a file
          Content,           \* the tracked files of each commit
          Passing,           \* <<plan, evidence>>: the campaign passes under the plan
          Provenance,        \* <<evidence, digest>>: GitHub attests its host artifacts
          Reports,           \* review reports, none of them empty
          EditsDuringGate,   \* the tree may change while the gate runs
          Editable,          \* the tracked files that are edited by hand
          MaxEdits,          \* bound: edits, checkouts and alterations
          MaxRuns,           \* bound: outputs of the gate
          MaxSigned,         \* bound: distinct things each party signs
          None

\* The recorded runs, their index and the host entries are one file here.
TreeFiles == {"candidate", "plan", "evidence"}
Detached == {"review", "report", "signing"}

ASSUME GateAssumption ==
    /\ Content \in [Digests -> [TreeFiles -> Versions]]
    /\ EditsDuringGate \in BOOLEAN /\ Editable \subseteq TreeFiles
    /\ MaxEdits \in Nat /\ MaxSigned \in Nat /\ MaxRuns \in Nat
    /\ None \notin Versions /\ None \notin Digests /\ None \notin Reports

VARIABLES head, tree,                  \* the checkout
          review, report, signing,     \* detached, ignored by version control
          pc, source,                  \* the gate: where it is, MGDS_RELEASE_SOURCE_DIGEST
          got, left,                   \* what it has read, what it has yet to read
          clean, verified,             \* releaseSourceState, verifiedHostEvidence
          result,                      \* its last output
          approvals, releases,         \* history: what the two parties signed
          edits, runs

repository == <<head, tree>>
detached == <<review, report, signing>>
gate == <<pc, source, got, left, clean, verified>>
history == <<approvals, releases>>
counters == <<edits, runs>>
vars == <<repository, detached, gate, result, history, counters>>

Unread == [f \in TreeFiles \cup Detached |-> None]

Init ==
    /\ head \in Digests /\ tree = Content[head]
    /\ review = None /\ report = None /\ signing = None
    /\ pc = "idle" /\ source = None /\ got = Unread /\ left = {}
    /\ clean = FALSE /\ verified = None /\ result = None
    /\ approvals = {} /\ releases = {} /\ edits = 0 /\ runs = 0
-----------------------------------------------------------------------------
\* buildP2ReviewTarget
Target == [candidate |-> got["candidate"], source |-> source, plan |-> got["plan"],
           runs |-> got["evidence"], hosts |-> verified]

\* buildP2ReleaseSubject
Subject == [target |-> Target, report |-> got["report"], review |-> got["review"]]

\* Fault variant of Approval: the findings are not signed.
ApprovalWithoutFindings(r) == [report |-> r.report, target |-> r.target]

\* buildP2ReviewApprovalPayload
Approval(r) == [severe |-> r.severe, report |-> r.report, target |-> r.target]

\* What is wrong with the review, if it is over the report's bytes.
ReviewBlockers(r) ==
    {code \in {"SEVERE_FINDINGS", "TARGET_INVALID", "SIGNATURE_INVALID"} :
        \/ code = "SEVERE_FINDINGS" /\ r.severe
        \/ code = "TARGET_INVALID" /\ r.target # Target
        \/ code = "SIGNATURE_INVALID" /\ r.signature # {Approval(r)}}

\* Fault variant of Blockers: the state of the checkout is not asked for.
BlockersAnywhere ==
    (IF got["review"] = None \/ got["report"] = None THEN {"NOT_APPROVED"}
     ELSE IF got["review"].report # got["report"] THEN {"NOT_APPROVED"}
     ELSE ReviewBlockers(got["review"]))
    \cup {code \in {"CAMPAIGN_NOT_PASS", "NOT_SIGNED", "SIGNATURE_INVALID"} :
            \/ code = "CAMPAIGN_NOT_PASS" /\ <<got["plan"], got["evidence"]>> \notin Passing
            \/ code = "NOT_SIGNED" /\ got["signing"] = None
            \/ code = "SIGNATURE_INVALID" /\ got["signing"] \notin {None, Subject}}

\* evaluateP2ReleaseGate; the candidate's own form is taken to be valid.
Blockers ==
    (IF got["review"] = None \/ got["report"] = None THEN {"NOT_APPROVED"}
     ELSE IF got["review"].report # got["report"] THEN {"NOT_APPROVED"}
     ELSE ReviewBlockers(got["review"]))
    \cup {code \in {"CAMPAIGN_NOT_PASS", "CHECKOUT_MISMATCH", "HOSTS_MISSING", "NOT_SIGNED",
                    "SIGNATURE_INVALID"} :
            \/ code = "CAMPAIGN_NOT_PASS" /\ <<got["plan"], got["evidence"]>> \notin Passing
            \/ code = "CHECKOUT_MISMATCH" /\ ~ clean
            \/ code = "HOSTS_MISSING" /\ verified = None
            \/ code = "NOT_SIGNED" /\ got["signing"] = None
            \/ code = "SIGNATURE_INVALID" /\ got["signing"] \notin {None, Subject}}
-----------------------------------------------------------------------------
\* The gate, read by read. What it has read is gone when its process ends.
Exit ==
    /\ pc' = "idle" /\ source' = None /\ got' = Unread /\ left' = {}
    /\ clean' = FALSE /\ verified' = None

Start(d) ==
    /\ pc = "idle" /\ runs < MaxRuns
    /\ pc' = "candidate" /\ source' = d
    /\ UNCHANGED <<repository, detached, got, left, clean, verified, result, history, counters>>

ReadCandidate ==
    /\ pc = "candidate"
    /\ got' = [got EXCEPT !["candidate"] = tree["candidate"]]
    /\ pc' = "plan"
    /\ UNCHANGED <<repository, detached, source, left, clean, verified, result, history, counters>>

\* sealCampaignInputs and buildCampaignPlan over the config, tasks and environment inputs.
SealPlan ==
    /\ pc = "plan"
    /\ got' = [got EXCEPT !["plan"] = tree["plan"]]
    /\ pc' = "inputs" /\ left' = {"evidence"} \cup Detached
    /\ UNCHANGED <<repository, detached, source, clean, verified, result, history, counters>>

OnDisk(f) == CASE f = "review" -> review [] f = "report" -> report [] f = "signing" -> signing
               [] OTHER -> tree[f]

\* Promise.all: the reads end in any order.
ReadInput(f) ==
    /\ pc = "inputs" /\ f \in left
    /\ got' = [got EXCEPT ![f] = OnDisk(f)]
    /\ left' = left \ {f}
    /\ pc' = IF left' = {} THEN "head" ELSE "inputs"
    /\ UNCHANGED <<repository, detached, source, clean, verified, result, history, counters>>

\* verifyReleaseCheckout: rev-parse, then status; what it throws means "not clean".
ReadHead ==
    /\ pc = "head"
    /\ pc' = IF head = source THEN "status" ELSE "judge"
    /\ UNCHANGED <<repository, detached, source, got, left, clean, verified, result, history, counters>>

ReadStatus ==
    /\ pc = "status"
    /\ clean' = (tree = Content[head])
    /\ pc' = IF clean' THEN "hosts" ELSE "judge"
    /\ UNCHANGED <<repository, detached, source, got, left, verified, result, history, counters>>

\* verifyHostEvidenceEntries; without a matching attestation the script ends (Abort).
VerifyHosts ==
    /\ pc = "hosts"
    /\ <<got["evidence"], source>> \in Provenance
    /\ verified' = got["evidence"] /\ pc' = "judge"
    /\ UNCHANGED <<repository, detached, source, got, left, clean, result, history, counters>>

Judge ==
    /\ pc = "judge"
    /\ result' = [ready |-> Blockers = {}, target |-> Target, subject |-> Subject]
    /\ runs' = runs + 1 /\ Exit
    /\ UNCHANGED <<repository, detached, history, edits>>

\* A read or check throws, evidence does not load, or the process is killed.
Abort ==
    /\ pc # "idle" /\ Exit
    /\ UNCHANGED <<repository, detached, result, history, counters>>

GateStep ==
    \/ \E d \in Digests : Start(d)
    \/ ReadCandidate \/ SealPlan \/ ReadHead \/ ReadStatus \/ VerifyHosts \/ Judge \/ Abort
    \/ \E f \in TreeFiles \cup Detached : ReadInput(f)
-----------------------------------------------------------------------------
\* The people. Each change of the checkout, or of a file by other hands, counts as an edit.
Edited == edits < MaxEdits /\ edits' = edits + 1

Checkout(d) ==
    /\ EditsDuringGate \/ pc = "idle"
    /\ <<head, tree>> # <<d, Content[d]>>
    /\ head' = d /\ tree' = Content[d] /\ Edited
    /\ UNCHANGED <<detached, gate, result, history, runs>>

Edit(f, v) ==
    /\ EditsDuringGate \/ pc = "idle"
    /\ tree[f] # v /\ tree' = [tree EXCEPT ![f] = v] /\ Edited
    /\ UNCHANGED <<head, detached, gate, result, history, runs>>

\* The reviewer writes a report and an unsigned approval of the target the gate put
\* out, unless that one is under review already.
DraftReview(r, severe) ==
    /\ result # None
    /\ review # None => review.target # result.target
    /\ report' = r
    /\ review' = [severe |-> severe, report |-> r, target |-> result.target, signature |-> {}]
    /\ UNCHANGED <<repository, signing, gate, result, history, counters>>

Unsigned(r) == [r EXCEPT !.signature = {}]
Signed(given, s) == s \in given \/ Cardinality(given) < MaxSigned

\* sign-p2-review.mjs
SignReview ==
    /\ review # None /\ report # None
    /\ review.report = report
    /\ review' = [review EXCEPT !.signature = {Approval(review)}]
    /\ Signed(approvals, Unsigned(review)) /\ approvals' = approvals \cup {Unsigned(review)}
    /\ UNCHANGED <<repository, report, signing, gate, result, releases, counters>>

\* Somebody else changes the findings, or the report.
AlterReview ==
    /\ review # None /\ Edited
    /\ review' = [review EXCEPT !.severe = ~ @]
    /\ UNCHANGED <<repository, report, signing, gate, result, history, runs>>

AlterReport(r) ==
    /\ report \notin {r, None} /\ report' = r /\ Edited
    /\ UNCHANGED <<repository, review, signing, gate, result, history, runs>>

\* sign-p2-release.mjs, over the subject the gate put out.
SignRelease ==
    /\ result # None
    /\ signing' = result.subject
    /\ Signed(releases, result.subject) /\ releases' = releases \cup {result.subject}
    /\ UNCHANGED <<repository, review, report, gate, result, approvals, counters>>

Next ==
    \/ GateStep
    \/ \E d \in Digests : Checkout(d)
    \/ \E f \in Editable, v \in Versions : Edit(f, v)
    \/ \E r \in Reports : AlterReport(r) \/ \E severe \in BOOLEAN : DraftReview(r, severe)
    \/ SignReview \/ AlterReview \/ SignRelease

Spec == Init /\ [][Next]_vars
-----------------------------------------------------------------------------
Labels == {"idle", "candidate", "plan", "inputs", "head", "status", "hosts", "judge"}

TypeOK ==
    /\ head \in Digests /\ tree \in [TreeFiles -> Versions]
    /\ report \in Reports \cup {None} /\ pc \in Labels /\ source \in Digests \cup {None}
    /\ DOMAIN got = TreeFiles \cup Detached
    /\ \A f \in TreeFiles : got[f] \in Versions \cup {None}
    /\ left \subseteq TreeFiles \cup Detached /\ (pc = "inputs" <=> left # {})
    /\ clean \in BOOLEAN
    /\ verified \in Versions \cup {None} /\ edits \in 0 .. MaxEdits /\ runs \in 0 .. MaxRuns

(* A release that is ready was agreed on by everybody over the same bytes:    *)
(* the authority signed this very subject, the subject holds an approval the  *)
(* reviewer signed, without severe findings, of the target and the report     *)
(* that were judged.                                                          *)
ReadyIsAgreed ==
    result # None /\ result.ready =>
        LET s == result.subject IN
        /\ s \in releases /\ s.target = result.target
        /\ Unsigned(s.review) \in approvals /\ ~ s.review.severe
        /\ s.review.target = s.target /\ s.review.report = s.report

(* A gate that found its checkout clean judges the bytes of the source commit *)
(* ("proven to come from a clean checkout", p2-gate.mjs:75). The candidate,   *)
(* the plan and the runs are read before the checkout is looked at.           *)
InputsAreSource ==
    pc = "judge" /\ clean => \A f \in TreeFiles : got[f] = Content[source][f]

(* A release that is ready was judged from the source commit it names: every  *)
(* source-bound input read was that commit's, the campaign passes under the   *)
(* plan of that commit, and the hosts are attested for it.                    *)
ReadyIsFromSource ==
    result # None /\ result.ready =>
        LET t == result.target IN
        /\ t.candidate = Content[t.source]["candidate"] /\ t.plan = Content[t.source]["plan"]
        /\ t.runs = Content[t.source]["evidence"]
        /\ <<t.plan, t.runs>> \in Passing /\ <<t.hosts, t.source>> \in Provenance
=============================================================================
