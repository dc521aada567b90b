--------------------------- MODULE ArtifactStore ----------------------------
(* packages/artifacts/src/artifact-store.mjs: put, get and list by Clients    *)
(* that share one root, each await a step, processes dying at any of them.    *)
(* A blob stands for its SHA-256 digest, which is taken to be injective.      *)
(* Partial files carry a random UUID, so each belongs to one call; those of   *)
(* dead calls stay behind under names that nothing reads.                     *)
EXTENDS Naturals, Sequences

CONSTANTS Blobs, Names,     \* bytes and logical names of artifacts
          Shards, ShardOf,  \* the two-digit directory of each digest
          Clients, None

ASSUME ArtifactAssumption ==
    /\ ShardOf \in [Blobs -> Shards]
    /\ None \notin Blobs \cup Names
    /\ "cut" \notin Blobs \cup {None}

VARIABLES dirs,          \* the directories that exist
          objects,       \* objects/<shard>/<sha256>: its bytes, "cut", or None
          manifests,     \* manifests/<sha256>.json: its logical name, or None
          damaged,       \* history: blobs whose object the disk has damaged
          pc, op,        \* each client's await and call
          at             \* the directory it is making sure of

vars == <<dirs, objects, manifests, damaged, pc, op, at>>

Ops == [kind : {"put"}, blob : Blobs, name : Names]
       \cup [kind : {"get"}, blob : Blobs] \cup [kind : {"list"}]

Init ==
    /\ dirs = {} /\ damaged = {}
    /\ objects = [b \in Blobs |-> None] /\ manifests = [b \in Blobs |-> None]
    /\ pc = [c \in Clients |-> "idle"] /\ op = [c \in Clients |-> None]
    /\ at = [c \in Clients |-> 1]

\* The directories a call makes sure of, in order: #initialize, then the shard.
DirectoriesOf(call) ==
    IF call.kind = "list" THEN <<"objects", "manifests">>
    ELSE <<"objects", "manifests", ShardOf[call.blob]>>

Directory(c) == DirectoriesOf(op[c])[at[c]]
-----------------------------------------------------------------------------
Goto(c, label) == pc' = [pc EXCEPT ![c] = label]

\* The call returns or throws.
Finish(c) == /\ Goto(c, "idle")
             /\ op' = [op EXCEPT ![c] = None]
             /\ at' = [at EXCEPT ![c] = 1]

Call(c, call) ==
    /\ pc[c] = "idle"
    /\ Goto(c, "lstat") /\ op' = [op EXCEPT ![c] = call]
    /\ UNCHANGED <<dirs, objects, manifests, damaged, at>>

NextDirectory(c) ==
    IF at[c] < Len(DirectoriesOf(op[c]))
    THEN at' = [at EXCEPT ![c] = @ + 1] /\ Goto(c, "lstat")
    ELSE at' = [at EXCEPT ![c] = 1] /\ Goto(c, "read")

\* safeDirectory: lstat finds the directory, or mkdir follows.
Lstat(c) ==
    /\ pc[c] = "lstat"
    /\ IF Directory(c) \in dirs THEN NextDirectory(c) ELSE Goto(c, "mkdir") /\ UNCHANGED at
    /\ UNCHANGED <<dirs, objects, manifests, damaged, op>>

\* mkdir throws EEXIST if another call made the directory meanwhile.
Mkdir(c) ==
    /\ pc[c] = "mkdir"
    /\ IF Directory(c) \in dirs
       THEN Finish(c) /\ UNCHANGED dirs
       ELSE dirs' = dirs \cup {Directory(c)} /\ NextDirectory(c) /\ UNCHANGED op
    /\ UNCHANGED <<objects, manifests, damaged>>

\* get reads and verifies the object, list reads the manifests.
Read(c) ==
    /\ pc[c] = "read" /\ op[c].kind # "put"
    /\ Finish(c)
    /\ UNCHANGED <<dirs, objects, manifests, damaged>>

\* Fault variant of ReadExisting: put clears the manifest before it goes on.
ReadExistingUnlisting(c) ==
    LET existing == objects[op[c].blob]
    IN  /\ pc[c] = "read" /\ op[c].kind = "put"
        /\ Goto(c, IF existing = None THEN "write" ELSE "writeManifest")
        /\ manifests' = [manifests EXCEPT ![op[c].blob] = None]
        /\ UNCHANGED <<dirs, objects, damaged, op, at>>

\* put looks for the object: 'existing artifact hash mismatch' if it is not whole.
ReadExisting(c) ==
    LET existing == objects[op[c].blob]
    IN  /\ pc[c] = "read" /\ op[c].kind = "put"
        /\ IF existing \in {None, op[c].blob}
           THEN /\ Goto(c, IF existing = None THEN "write" ELSE "writeManifest")
                /\ UNCHANGED <<op, at>>
           ELSE Finish(c)
        /\ UNCHANGED <<dirs, objects, manifests, damaged>>

\* Fault variant of WritePartial: the object is written under its own name.
WriteInPlace(c) ==
    /\ pc[c] \in {"write", "writeManifest"}
    /\ Goto(c, IF pc[c] = "write" THEN "rename" ELSE "renameManifest")
    /\ objects' = [objects EXCEPT ![op[c].blob] = IF pc[c] = "write" THEN "cut" ELSE @]
    /\ UNCHANGED <<dirs, manifests, damaged, op, at>>

\* writeFile of a partial with flag 'wx': nothing reads it before its rename.
WritePartial(c) ==
    /\ pc[c] \in {"write", "writeManifest"}
    /\ Goto(c, IF pc[c] = "write" THEN "rename" ELSE "renameManifest")
    /\ UNCHANGED <<dirs, objects, manifests, damaged, op, at>>

\* Fault variant of RenameObject: an error of the rename is swallowed.
RenameSwallowed(c) ==
    /\ pc[c] = "rename"
    /\ objects' \in {objects, [objects EXCEPT ![op[c].blob] = op[c].blob]}
    /\ Goto(c, "writeManifest")
    /\ UNCHANGED <<dirs, manifests, damaged, op, at>>

RenameObject(c) ==
    /\ pc[c] = "rename"
    /\ objects' = [objects EXCEPT ![op[c].blob] = op[c].blob]
    /\ Goto(c, "writeManifest")
    /\ UNCHANGED <<dirs, manifests, damaged, op, at>>

\* A later put of the same bytes replaces the manifest, name and all.
RenameManifest(c) ==
    /\ pc[c] = "renameManifest"
    /\ manifests' = [manifests EXCEPT ![op[c].blob] = op[c].name]
    /\ Finish(c)
    /\ UNCHANGED <<dirs, objects, damaged>>

Crash(c) ==
    /\ pc[c] # "idle"
    /\ Finish(c)
    /\ UNCHANGED <<dirs, objects, manifests, damaged>>

\* External: the disk, or whoever can write to it, damages an object.
Damage(b) ==
    /\ objects[b] # None
    /\ objects' = [objects EXCEPT ![b] = "cut"]
    /\ damaged' = damaged \cup {b}
    /\ UNCHANGED <<dirs, manifests, pc, op, at>>

Next ==
    \/ \E c \in Clients :
          \/ \E call \in Ops : Call(c, call)
          \/ Lstat(c) \/ Mkdir(c) \/ Read(c) \/ ReadExisting(c)
          \/ WritePartial(c) \/ RenameObject(c) \/ RenameManifest(c)
          \/ Crash(c)
    \/ \E b \in Blobs : Damage(b)

Spec == Init /\ [][Next]_vars
-----------------------------------------------------------------------------
Labels == {"idle", "lstat", "mkdir", "read", "write", "rename",
           "writeManifest", "renameManifest"}

TypeOK ==
    /\ dirs \subseteq {"objects", "manifests"} \cup Shards
    /\ objects \in [Blobs -> Blobs \cup {"cut", None}]
    /\ manifests \in [Blobs -> Names \cup {None}]
    /\ damaged \subseteq Blobs
    /\ pc \in [Clients -> Labels]
    /\ op \in [Clients -> Ops \cup {None}]
    /\ at \in [Clients -> 1..3]

(* However puts overlap and wherever they die, the file under a digest's name *)
(* is the whole of that digest's bytes, unless the disk damaged it.           *)
ObjectsWhole == \A b \in Blobs : objects[b] \in {None, b} \/ b \in damaged

(* Whatever list names can be got: no manifest precedes its object.           *)
ListedRetrievable ==
    \A b \in Blobs : manifests[b] # None /\ b \notin damaged => objects[b] = b

(* The promise as a whole: blobs appear at once, are listed after they are    *)
(* stored, stay listed, and only damage takes one away.                       *)
Promise == INSTANCE ContentStore
             WITH stored <- {b \in Blobs : objects[b] = b},
                  listed <- {b \in Blobs : manifests[b] # None}
ImplementsContentStore == Promise!Spec
=============================================================================
