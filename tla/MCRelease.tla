------------------------------ MODULE MCRelease ------------------------------
(* What leaves the project, for TLC: the release that the P2 gate decides on  *)
(* and the bundle that is submitted for P3. The two share no state, so a      *)
(* behaviour exercises one while the other stays as it began.                 *)
(*                                                                            *)
(* Of four paths one leaves its directory and two differ in their case only.  *)
EXTENDS MCReleaseGate, P3Submission

MCPathOrder == <<"../c", "a", "A", "b">>
MCLowerCase == "../c" :> "../c" @@ "a" :> "a" @@ "A" :> "a" @@ "b" :> "b"
MCSize == "c1" :> 1 @@ "c2" :> 2 @@ "empty" :> 0 @@ "secret" :> 1

GateOnly == SubmissionInit /\ UNCHANGED submissionVars
SubmissionOnly == Init /\ head = d1 /\ UNCHANGED vars

ReleaseInit == Init /\ SubmissionInit

ReleaseNext ==
    \/ \E d \in Digests : Start(d) /\ GateOnly
    \/ ReadCandidate /\ GateOnly
    \/ SealPlan /\ GateOnly
    \/ \E f \in TreeFiles \cup Detached : ReadInput(f) /\ GateOnly
    \/ ReadHead /\ GateOnly
    \/ ReadStatus /\ GateOnly
    \/ VerifyHosts /\ GateOnly
    \/ Judge /\ GateOnly
    \/ Abort /\ GateOnly
    \/ \E d \in Digests : Checkout(d) /\ GateOnly
    \/ \E f \in Editable, v \in Versions : Edit(f, v) /\ GateOnly
    \/ \E r \in Reports : AlterReport(r) /\ GateOnly
    \/ \E r \in Reports, severe \in BOOLEAN : DraftReview(r, severe) /\ GateOnly
    \/ SignReview /\ GateOnly
    \/ AlterReview /\ GateOnly
    \/ SignRelease /\ GateOnly
    \/ /\ SubmissionOnly /\ bundle = NoBundle
       /\ \E manifest \in Manifests, paths \in SUBSET Range(PathOrder) :
             \E index \in [paths -> Contents], authority \in Authorities, key \in SubmitterKeys :
                BuildSubmission(manifest, index, authority, key)
    \/ /\ SubmissionOnly /\ bundle # NoBundle
       /\ \/ \E manifest \in Manifests : AlterManifest(manifest)
          \/ \E authority \in Authorities : AlterAuthority(authority)
          \/ Rehash
          \/ ReorderArtifacts
          \/ \E path \in Range(PathOrder), content \in Contents : AddArtifact(path, content)
          \/ \E i \in DOMAIN bundle.artifacts, path \in Range(PathOrder) : AlterName(i, path)
          \/ \E i \in DOMAIN bundle.artifacts, content \in Contents : AlterBytes(i, content)
          \/ \E i \in DOMAIN bundle.artifacts, content \in Contents : ReplaceBytes(i, content)
          \/ \E i \in DOMAIN bundle.artifacts : DropArtifact(i)

ReleaseSpec == ReleaseInit /\ [][ReleaseNext]_<<vars, submissionVars>>
=============================================================================
