---------------------------- MODULE P3Submission ----------------------------
(* packages/p3-submission/src/index.mjs as scripts/build-p3-submission.mjs    *)
(* and scripts/replay-p3-submission.mjs call it: a submitter builds and signs *)
(* a bundle, which somebody may alter, step by step, before it is replayed.   *)
(*                                                                            *)
(* What validateManifest and assertPublishable look at is a verdict on the    *)
(* whole (WellFormed, Private); a hash is written as what it is the hash of,  *)
(* a size is that of the contents, and a key goes by one name on both sides.  *)
(* Submissions share nothing, so a behaviour builds one.                      *)
EXTENDS Naturals, Sequences, FiniteSets, SequencesExt, Selection

CONSTANTS Manifests, WellFormed,
          PathOrder,       \* the paths in localeCompare's order
          PortablePaths,   \* those validateArtifactPath lets through
          LowerCase,       \* path.toLowerCase()
          Contents, Size, Private,
          Authorities,
          SubmitterKeys,   \* those bundles are built with
          PublicKeys,      \* those bundles are replayed with
          MaxArtifacts, MaxArtifactSize, MaxBundleSize,     \* the limits of the code
          NoBundle,
          MaxAlterations   \* bound

ASSUME SubmissionAssumption ==
    /\ WellFormed \subseteq Manifests /\ SubmitterKeys \subseteq PublicKeys /\ PortablePaths \subseteq Range(PathOrder)
    /\ PathOrder \in Seq(Range(PathOrder)) /\ \A i, j \in DOMAIN PathOrder : PathOrder[i] = PathOrder[j] => i = j
    /\ Size \in [Contents -> Nat] /\ Private \subseteq Contents
    /\ {MaxArtifacts, MaxArtifactSize, MaxBundleSize, MaxAlterations} \subseteq Nat

VARIABLES bundle,          \* the file
          built,           \* history: the bundle as it was built
          alterations      \* how often it was altered since

submissionVars == <<bundle, built, alterations>>

Identities(artifacts) == [i \in DOMAIN artifacts |-> [path |-> artifacts[i].path, hash |-> artifacts[i].hash]]

\* What is signed.
SignedPayload(manifest, artifacts, authority) ==
    [manifest |-> manifest, artifacts |-> Identities(artifacts), authority |-> authority]

\* The artifact index as it goes into a bundle.
Encoded(index) ==
    LET paths == Selected(PathOrder, {n \in DOMAIN PathOrder : PathOrder[n] \in DOMAIN index})
    IN  [i \in DOMAIN paths |-> [path |-> paths[i], hash |-> index[paths[i]], bytes |-> index[paths[i]]]]

BundleSize(artifacts) == FoldLeft(LAMBDA sum, a : sum + Size[a.bytes], 0, artifacts)

SubmissionInit == bundle = NoBundle /\ built = NoBundle /\ alterations = 0
-----------------------------------------------------------------------------
ManifestValid(manifest) == manifest \in WellFormed

\* Fault variant of BuildAccepts: names that differ in their case pass.
BuildAcceptsAnyCase(manifest, index) ==
    /\ ManifestValid(manifest)
    /\ Cardinality(DOMAIN index) \in 1 .. MaxArtifacts
    /\ \A p \in DOMAIN index : /\ p \in PortablePaths
                               /\ Size[index[p]] \in 1 .. MaxArtifactSize /\ index[p] \notin Private

BuildAccepts(manifest, index) ==
    /\ ManifestValid(manifest)
    /\ Cardinality(DOMAIN index) \in 1 .. MaxArtifacts
    /\ \A p \in DOMAIN index : /\ p \in PortablePaths
                               /\ Size[index[p]] \in 1 .. MaxArtifactSize /\ index[p] \notin Private
                               /\ \A q \in DOMAIN index : LowerCase[q] = LowerCase[p] => q = p

BuildSubmission(manifest, index, authority, key) ==
    LET payload == SignedPayload(manifest, Encoded(index), authority)
    IN  /\ bundle = NoBundle /\ BuildAccepts(manifest, index)
        /\ bundle' = [manifest |-> manifest, artifacts |-> Encoded(index), authority |-> authority,
                      payloadHash |-> payload, signature |-> [by |-> key, over |-> payload]]
        /\ built' = bundle'
        /\ UNCHANGED alterations

\* External: one thing about the bundle is altered; hashes may be computed anew.
Alter_(altered) ==
    /\ alterations < MaxAlterations
    /\ bundle' = altered /\ alterations' = alterations + 1
    /\ UNCHANGED built

AlterManifest(manifest) == Alter_([bundle EXCEPT !.manifest = manifest])
AlterAuthority(authority) == Alter_([bundle EXCEPT !.authority = authority])
Rehash == Alter_([bundle EXCEPT !.payloadHash =
                     SignedPayload(bundle.manifest, bundle.artifacts, bundle.authority)])
AlterName(i, path) == Alter_([bundle EXCEPT !.artifacts[i].path = path])
AlterBytes(i, content) == Alter_([bundle EXCEPT !.artifacts[i].bytes = content])
ReplaceBytes(i, content) == Alter_([bundle EXCEPT !.artifacts[i].bytes = content, !.artifacts[i].hash = content])
AddArtifact(path, content) ==
    Alter_([bundle EXCEPT !.artifacts = Append(@, [path |-> path, hash |-> content, bytes |-> content])])
DropArtifact(i) == Alter_([bundle EXCEPT !.artifacts = RemoveAt(@, i)])
ReorderArtifacts == Alter_([bundle EXCEPT !.artifacts = Reverse(@)])
-----------------------------------------------------------------------------
ArtifactsHold(artifacts) ==
    /\ artifacts # <<>>
    /\ \A i \in DOMAIN artifacts :
          /\ artifacts[i].path \in PortablePaths
          /\ Size[artifacts[i].bytes] > 0 /\ artifacts[i].hash = artifacts[i].bytes
          /\ artifacts[i].bytes \notin Private
          /\ \A j \in 1 .. i - 1 : LowerCase[artifacts[j].path] # LowerCase[artifacts[i].path]

\* verifyP3Submission does not throw.
Verified(b, publicKey) ==
    LET payload == SignedPayload(b.manifest, b.artifacts, b.authority)
    IN  /\ ManifestValid(b.manifest)
        /\ ArtifactsHold(b.artifacts)
        /\ b.payloadHash = payload
        /\ b.signature = [by |-> publicKey, over |-> payload]
        /\ BundleSize(b.artifacts) <= MaxBundleSize

SubmissionNext ==
    \/ \E manifest \in Manifests, paths \in SUBSET Range(PathOrder) :
          \E index \in [paths -> Contents], authority \in Authorities, key \in SubmitterKeys :
             BuildSubmission(manifest, index, authority, key)
    \/ /\ bundle # NoBundle
       /\ \/ \E manifest \in Manifests : AlterManifest(manifest)
          \/ \E authority \in Authorities : AlterAuthority(authority)
          \/ Rehash
          \/ \E path \in Range(PathOrder), content \in Contents : AddArtifact(path, content)
          \/ ReorderArtifacts
          \/ \E i \in DOMAIN bundle.artifacts :
                \/ \E path \in Range(PathOrder) : AlterName(i, path)
                \/ \E content \in Contents : AlterBytes(i, content) \/ ReplaceBytes(i, content)
                \/ DropArtifact(i)

SubmissionSpec == SubmissionInit /\ [][SubmissionNext]_submissionVars
-----------------------------------------------------------------------------
(* Replay verifies under a key exactly what the owner of the key has built,   *)
(* up to the size it takes: build and replay check alike, and no alterations  *)
(* of manifest, artifacts, names, order, authority or hashes go unnoticed.    *)
ReplayVerifiesWhatWasBuilt ==
    bundle # NoBundle =>
        \A key \in PublicKeys :
            Verified(bundle, key) <=> /\ bundle = built /\ built.signature.by = key
                                      /\ BundleSize(bundle.artifacts) <= MaxBundleSize
=============================================================================
