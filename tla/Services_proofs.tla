--------------------------- MODULE Services_proofs ---------------------------
(* Proofs about the services of a controller root: for any clients, blobs and *)
(* shards, what the artifact store holds and lists, and that it implements    *)
(* ContentStore; for any appenders and events, what a ledger that verifies    *)
(* holds; for any grants, requests, leases and usages, who is authorized and  *)
(* what is spent; and that the instance TLC checks is of all three.           *)
EXTENDS MCServices, SequenceTheorems, WellFoundedInduction, TLAPS

PutLabels == {"write", "rename", "writeManifest", "renameManifest"}

\* The call a client is in, and the directory it is at, fit its label.
InCall ==
    \A c \in Clients : IF pc[c] = "idle" THEN at[c] = 1 ELSE
        /\ op[c] \in Ops /\ at[c] \in 1..Len(DirectoriesOf(op[c]))
        /\ pc[c] \in PutLabels => op[c].kind = "put"

\* A put that is at its manifest has made sure of its object.
ObjectFirst ==
    \A c \in Clients : pc[c] \in {"writeManifest", "renameManifest"} =>
        op[c].blob \in damaged \/ objects[op[c].blob] = op[c].blob

Inv == TypeOK /\ InCall /\ ObjectsWhole /\ ObjectFirst /\ ListedRetrievable
-----------------------------------------------------------------------------
LEMMA OpFields ==
    ASSUME NEW call \in Ops
    PROVE  /\ call.kind \in {"put", "get", "list"}
           /\ call.kind = "put" => call.blob \in Blobs /\ call.name \in Names
           /\ call.kind = "get" => call.blob \in Blobs
  BY DEF Ops

LEMMA DirectoriesFit ==
    ASSUME NEW call \in Ops
    PROVE  /\ Len(DirectoriesOf(call)) \in 1..3
           /\ \A i \in 1..Len(DirectoriesOf(call)) :
                 DirectoriesOf(call)[i] \in {"objects", "manifests"} \cup Shards
<1>1. CASE call.kind = "list"
  BY <1>1 DEF DirectoriesOf
<1>2. CASE call.kind # "list"
  <2>1. ShardOf[call.blob] \in Shards
    BY <1>2, OpFields, ArtifactAssumption
  <2>2. QED
    BY <1>2, <2>1 DEF DirectoriesOf
<1>3. QED
  BY <1>1, <1>2

LEMMA InitInv == Init => Inv
  BY DEF Init, Inv, TypeOK, InCall, ObjectsWhole, ObjectFirst, ListedRetrievable, Labels, PutLabels

\* Steps of one client that leave the stored files alone.
LEMMA FilesKept ==
    ASSUME Inv, UNCHANGED <<objects, manifests, damaged>>, NEW c \in Clients,
           \A d \in Clients \ {c} : pc'[d] = pc[d] /\ op'[d] = op[d],
           pc'[c] \in {"writeManifest", "renameManifest"} =>
              op'[c].blob \in damaged \/ objects[op'[c].blob] = op'[c].blob
    PROVE  ObjectsWhole' /\ ObjectFirst' /\ ListedRetrievable'
  BY DEF Inv, ObjectsWhole, ObjectFirst, ListedRetrievable

\* A client that goes on with its call, or ends it.
LEMMA GoesOn ==
    ASSUME Inv, NEW c \in Clients, pc[c] # "idle",
           NEW label \in Labels \ {"idle"}, Goto(c, label), UNCHANGED op,
           at' \in [Clients -> 1..3], \A d \in Clients \ {c} : at'[d] = at[d],
           at'[c] \in 1..Len(DirectoriesOf(op[c])),
           label \in PutLabels => op[c].kind = "put"
    PROVE  /\ InCall' /\ pc' \in [Clients -> Labels] /\ op' \in [Clients -> Ops \cup {None}]
           /\ pc'[c] = label /\ \A d \in Clients \ {c} : pc'[d] = pc[d]
  BY DEF Inv, TypeOK, InCall, Goto

LEMMA Ends ==
    ASSUME Inv, NEW c \in Clients, Finish(c)
    PROVE  /\ InCall' /\ pc' \in [Clients -> Labels] /\ op' \in [Clients -> Ops \cup {None}]
           /\ at' \in [Clients -> 1..3]
           /\ pc'[c] = "idle" /\ \A d \in Clients \ {c} : pc'[d] = pc[d] /\ op'[d] = op[d]
  BY DEF Inv, TypeOK, InCall, Goto, Finish, Labels

LEMMA NextOf == ASSUME NEW l \in 1..3, NEW i \in 1..l, i < l PROVE i + 1 \in 1..3 /\ i + 1 \in 1..l
  OBVIOUS

\* To the next directory, or to the read.
LEMMA Advances ==
    ASSUME Inv, NEW c \in Clients, pc[c] \in {"lstat", "mkdir"}, NextDirectory(c), UNCHANGED op
    PROVE  /\ InCall' /\ pc' \in [Clients -> Labels] /\ op' \in [Clients -> Ops \cup {None}]
           /\ at' \in [Clients -> 1..3]
           /\ pc'[c] \notin PutLabels /\ \A d \in Clients \ {c} : pc'[d] = pc[d]
<1>1. op[c] \in Ops /\ at[c] \in 1..Len(DirectoriesOf(op[c])) /\ at \in [Clients -> 1..3]
  BY DEF Inv, InCall, TypeOK
<1>2. Len(DirectoriesOf(op[c])) \in 1..3
  BY <1>1, DirectoriesFit
<1>3. CASE at[c] < Len(DirectoriesOf(op[c]))
  <2>1. at' = [at EXCEPT ![c] = @ + 1] /\ Goto(c, "lstat")
    BY <1>3 DEF NextDirectory
  <2>2. at' \in [Clients -> 1..3] /\ at'[c] \in 1..Len(DirectoriesOf(op[c]))
    <3>1. at[c] + 1 \in 1..3 /\ at[c] + 1 \in 1..Len(DirectoriesOf(op[c]))
      BY <1>1, <1>2, <1>3, NextOf
    <3>2. QED
      BY <1>1, <2>1, <3>1
  <2>3. \A d \in Clients \ {c} : at'[d] = at[d]
    BY <1>1, <2>1
  <2>4. "lstat" \in Labels \ {"idle"} /\ "lstat" \notin PutLabels
    BY DEF Labels, PutLabels
  <2>5. QED
    BY <2>1, <2>2, <2>3, <2>4, GoesOn
<1>4. CASE ~ (at[c] < Len(DirectoriesOf(op[c])))
  <2>1. at' = [at EXCEPT ![c] = 1] /\ Goto(c, "read")
    BY <1>4 DEF NextDirectory
  <2>2. at' \in [Clients -> 1..3] /\ at'[c] \in 1..Len(DirectoriesOf(op[c]))
    BY <1>1, <1>2, <2>1
  <2>3. \A d \in Clients \ {c} : at'[d] = at[d]
    BY <1>1, <2>1
  <2>4. "read" \in Labels \ {"idle"} /\ "read" \notin PutLabels
    BY DEF Labels, PutLabels
  <2>5. QED
    BY <2>1, <2>2, <2>3, <2>4, GoesOn
<1>5. QED
  BY <1>3, <1>4

\* A put that goes on at the same directory counter.
LEMMA PutGoesOn ==
    ASSUME Inv, NEW c \in Clients, pc[c] \in PutLabels \cup {"read"}, op[c].kind = "put",
           NEW label \in PutLabels, Goto(c, label), UNCHANGED <<op, at>>
    PROVE  /\ InCall' /\ pc' \in [Clients -> Labels] /\ op' \in [Clients -> Ops \cup {None}]
           /\ at' \in [Clients -> 1..3]
           /\ pc'[c] = label /\ \A d \in Clients \ {c} : pc'[d] = pc[d] /\ op'[d] = op[d]
           /\ op[c].blob \in Blobs /\ op[c].name \in Names
<1>1. pc[c] # "idle" /\ label \in Labels \ {"idle"}
  BY DEF PutLabels, Labels
<1>2. op[c] \in Ops /\ at' \in [Clients -> 1..3] /\ at'[c] \in 1..Len(DirectoriesOf(op[c]))
  BY <1>1 DEF Inv, InCall, TypeOK
<1>3. op[c].blob \in Blobs /\ op[c].name \in Names
  BY <1>2, OpFields
<1>4. QED
  BY <1>1, <1>2, <1>3, GoesOn
-----------------------------------------------------------------------------
LEMMA CallInv == ASSUME Inv, NEW c \in Clients, NEW call \in Ops, Call(c, call) PROVE Inv'
<1>1. UNCHANGED <<dirs, objects, manifests, damaged, at>> /\ Goto(c, "lstat")
      /\ op' = [op EXCEPT ![c] = call]
  BY DEF Call
<1>2. TypeOK'
  BY <1>1 DEF Inv, TypeOK, Goto, Labels
<1>3. pc[c] = "idle" /\ at[c] = 1
  BY DEF Call, Inv, InCall
<1>4. InCall'
  <2>1. 1 \in 1..Len(DirectoriesOf(call))
    BY DirectoriesFit
  <2>2. pc'[c] = "lstat" /\ op'[c] = call /\ at'[c] = 1
    BY <1>1, <1>3 DEF Inv, TypeOK, Goto
  <2>3. \A d \in Clients \ {c} : pc'[d] = pc[d] /\ op'[d] = op[d] /\ at'[d] = at[d]
    BY <1>1 DEF Inv, TypeOK, Goto
  <2>4. QED
    BY <2>1, <2>2, <2>3 DEF Inv, InCall, PutLabels
<1>5. ObjectsWhole' /\ ObjectFirst' /\ ListedRetrievable'
  BY <1>1, FilesKept DEF Inv, TypeOK, Goto
<1>6. QED
  BY <1>2, <1>4, <1>5 DEF Inv

LEMMA LstatInv == ASSUME Inv, NEW c \in Clients, Lstat(c) PROVE Inv'
<1>1. UNCHANGED <<dirs, objects, manifests, damaged, op>> /\ pc[c] = "lstat"
  BY DEF Lstat
<1>2. /\ InCall' /\ pc' \in [Clients -> Labels] /\ op' \in [Clients -> Ops \cup {None}]
      /\ at' \in [Clients -> 1..3]
      /\ pc'[c] \notin PutLabels /\ \A d \in Clients \ {c} : pc'[d] = pc[d]
  <2>1. CASE Directory(c) \in dirs
    BY <1>1, <2>1, Advances DEF Lstat
  <2>2. CASE Directory(c) \notin dirs
    <3>1. Goto(c, "mkdir") /\ at' = at
      BY <2>2 DEF Lstat
    <3>2. "mkdir" \in Labels \ {"idle"} /\ "mkdir" \notin PutLabels
      BY DEF Labels, PutLabels
    <3>3. at \in [Clients -> 1..3] /\ at[c] \in 1..Len(DirectoriesOf(op[c]))
      BY <1>1 DEF Inv, TypeOK, InCall
    <3>4. QED
      BY <1>1, <3>1, <3>2, <3>3, GoesOn
  <2>3. QED
    BY <2>1, <2>2
<1>3. TypeOK'
  BY <1>1, <1>2 DEF Inv, TypeOK
<1>4. ObjectsWhole' /\ ObjectFirst' /\ ListedRetrievable'
  BY <1>1, <1>2, FilesKept DEF PutLabels
<1>5. QED
  BY <1>2, <1>3, <1>4 DEF Inv

LEMMA MkdirInv == ASSUME Inv, NEW c \in Clients, Mkdir(c) PROVE Inv'
<1>1. UNCHANGED <<objects, manifests, damaged>> /\ pc[c] = "mkdir"
  BY DEF Mkdir
<1>2. /\ InCall' /\ pc' \in [Clients -> Labels] /\ op' \in [Clients -> Ops \cup {None}]
      /\ at' \in [Clients -> 1..3]
      /\ pc'[c] \notin PutLabels
      /\ \A d \in Clients \ {c} : pc'[d] = pc[d] /\ op'[d] = op[d]
      /\ dirs' \subseteq {"objects", "manifests"} \cup Shards
  <2>1. CASE Directory(c) \in dirs
    BY <2>1, Ends DEF Mkdir, PutLabels, Inv, TypeOK
  <2>2. CASE Directory(c) \notin dirs
    <3>1. dirs' = dirs \cup {Directory(c)} /\ NextDirectory(c) /\ UNCHANGED op
      BY <2>2 DEF Mkdir
    <3>2. op[c] \in Ops /\ at[c] \in 1..Len(DirectoriesOf(op[c]))
      BY <1>1 DEF Inv, InCall
    <3>3. Directory(c) \in {"objects", "manifests"} \cup Shards
      BY <3>2, DirectoriesFit DEF Directory
    <3>4. QED
      BY <1>1, <3>1, <3>3, Advances DEF Inv, TypeOK
  <2>3. QED
    BY <2>1, <2>2
<1>3. TypeOK'
  BY <1>1, <1>2 DEF Inv, TypeOK
<1>4. ObjectsWhole' /\ ObjectFirst' /\ ListedRetrievable'
  BY <1>1, <1>2, FilesKept DEF PutLabels
<1>5. QED
  BY <1>2, <1>3, <1>4 DEF Inv

\* The call ends and the files stay as they are: get, list, a mismatch, a crash.
LEMMA EndsInv ==
    ASSUME Inv, NEW c \in Clients, Finish(c), UNCHANGED <<dirs, objects, manifests, damaged>>
    PROVE  Inv'
<1>1. TypeOK' /\ InCall'
  BY Ends DEF Inv, TypeOK
<1>2. ObjectsWhole' /\ ObjectFirst' /\ ListedRetrievable'
  BY Ends, FilesKept
<1>3. QED
  BY <1>1, <1>2 DEF Inv

\* ReadExisting goes on to the manifest only over a whole object.
LEMMA ReadExistingInv == ASSUME Inv, NEW c \in Clients, ReadExisting(c) PROVE Inv'
<1>1. CASE objects[op[c].blob] \in {None, op[c].blob}
  <2> DEFINE label == IF objects[op[c].blob] = None THEN "write" ELSE "writeManifest"
  <2>1. /\ pc[c] = "read" /\ op[c].kind = "put" /\ Goto(c, label)
        /\ UNCHANGED <<op, at, dirs, objects, manifests, damaged>>
    BY <1>1 DEF ReadExisting
  <2>2. label \in PutLabels /\ pc[c] \in PutLabels \cup {"read"}
    BY <2>1 DEF PutLabels
  <2> HIDE DEF label
  <2>3. /\ InCall' /\ pc' \in [Clients -> Labels] /\ op' \in [Clients -> Ops \cup {None}]
        /\ at' \in [Clients -> 1..3]
        /\ pc'[c] = label /\ \A d \in Clients \ {c} : pc'[d] = pc[d] /\ op'[d] = op[d]
        /\ op[c].blob \in Blobs
    BY <2>1, <2>2, PutGoesOn
  <2>4. TypeOK'
    BY <2>1, <2>3 DEF Inv, TypeOK
  <2>5. pc'[c] \in {"writeManifest", "renameManifest"} => objects[op'[c].blob] = op'[c].blob
    BY <1>1, <2>1, <2>3 DEF label
  <2>6. ObjectsWhole' /\ ObjectFirst' /\ ListedRetrievable'
    BY <2>1, <2>3, <2>5, FilesKept
  <2>7. QED
    BY <2>3, <2>4, <2>6 DEF Inv
<1>2. CASE objects[op[c].blob] \notin {None, op[c].blob}
  BY <1>2, EndsInv DEF ReadExisting
<1>3. QED
  BY <1>1, <1>2

LEMMA WritePartialInv == ASSUME Inv, NEW c \in Clients, WritePartial(c) PROVE Inv'
<1> DEFINE label == IF pc[c] = "write" THEN "rename" ELSE "renameManifest"
<1>1. /\ pc[c] \in {"write", "writeManifest"} /\ Goto(c, label)
      /\ UNCHANGED <<op, at, dirs, objects, manifests, damaged>>
  BY DEF WritePartial
<1>2. label \in PutLabels /\ pc[c] \in PutLabels /\ op[c].kind = "put"
  BY <1>1 DEF PutLabels, Inv, InCall
<1>3. label = "renameManifest" => pc[c] = "writeManifest"
  BY <1>1
<1>4. label # "writeManifest"
  OBVIOUS
<1> HIDE DEF label
<1>5. /\ InCall' /\ pc' \in [Clients -> Labels] /\ op' \in [Clients -> Ops \cup {None}]
      /\ at' \in [Clients -> 1..3]
      /\ pc'[c] = label /\ \A d \in Clients \ {c} : pc'[d] = pc[d] /\ op'[d] = op[d]
  BY <1>1, <1>2, PutGoesOn
<1>6. TypeOK'
  BY <1>1, <1>5 DEF Inv, TypeOK
<1>7. pc'[c] \in {"writeManifest", "renameManifest"} =>
        op'[c].blob \in damaged \/ objects[op'[c].blob] = op'[c].blob
  BY <1>1, <1>3, <1>4, <1>5 DEF Inv, ObjectFirst
<1>8. ObjectsWhole' /\ ObjectFirst' /\ ListedRetrievable'
  BY <1>1, <1>5, <1>7, FilesKept
<1>9. QED
  BY <1>5, <1>6, <1>8 DEF Inv

LEMMA RenameObjectInv == ASSUME Inv, NEW c \in Clients, RenameObject(c) PROVE Inv'
<1>1. /\ pc[c] = "rename" /\ Goto(c, "writeManifest") /\ UNCHANGED <<op, at, dirs, manifests, damaged>>
      /\ objects' = [objects EXCEPT ![op[c].blob] = op[c].blob]
  BY DEF RenameObject
<1>2. "writeManifest" \in PutLabels /\ pc[c] \in PutLabels /\ op[c].kind = "put"
  BY <1>1 DEF PutLabels, Inv, InCall
<1>3. /\ InCall' /\ pc' \in [Clients -> Labels] /\ op' \in [Clients -> Ops \cup {None}]
      /\ at' \in [Clients -> 1..3]
      /\ pc'[c] = "writeManifest" /\ \A d \in Clients \ {c} : pc'[d] = pc[d] /\ op'[d] = op[d]
      /\ op[c].blob \in Blobs
  BY <1>1, <1>2, PutGoesOn
<1>4. TypeOK'
  BY <1>1, <1>3 DEF Inv, TypeOK
<1>5. \A b \in Blobs : objects'[b] = b \/ objects'[b] = objects[b]
  BY <1>1, <1>3 DEF Inv, TypeOK
<1>6. ObjectsWhole' /\ ListedRetrievable'
  BY <1>1, <1>5 DEF Inv, ObjectsWhole, ListedRetrievable
<1>7. objects'[op[c].blob] = op[c].blob
  BY <1>1, <1>3 DEF Inv, TypeOK
<1>8. ObjectFirst'
  BY <1>1, <1>3, <1>7 DEF Inv, ObjectFirst, TypeOK
<1>9. QED
  BY <1>3, <1>4, <1>6, <1>8 DEF Inv

\* What RenameManifest finds: the object is whole, or the disk's doing.
LEMMA RenameManifestStep ==
    ASSUME Inv, NEW c \in Clients, RenameManifest(c)
    PROVE  /\ op[c].blob \in Blobs /\ op[c].name \in Names
           /\ manifests' = [manifests EXCEPT ![op[c].blob] = op[c].name]
           /\ Finish(c) /\ UNCHANGED <<dirs, objects, damaged>>
           /\ op[c].blob \in damaged \/ objects[op[c].blob] = op[c].blob
<1>1. pc[c] = "renameManifest" /\ op[c] \in Ops /\ op[c].kind = "put"
  BY DEF RenameManifest, Inv, InCall, PutLabels
<1>2. op[c].blob \in Blobs /\ op[c].name \in Names
  BY <1>1, OpFields
<1>3. QED
  BY <1>1, <1>2 DEF RenameManifest, Inv, ObjectFirst

LEMMA RenameManifestInv == ASSUME Inv, NEW c \in Clients, RenameManifest(c) PROVE Inv'
<1>1. /\ op[c].blob \in Blobs /\ op[c].name \in Names
      /\ manifests' = [manifests EXCEPT ![op[c].blob] = op[c].name]
      /\ Finish(c) /\ UNCHANGED <<dirs, objects, damaged>>
      /\ op[c].blob \in damaged \/ objects[op[c].blob] = op[c].blob
  BY RenameManifestStep
<1>2. /\ InCall' /\ pc' \in [Clients -> Labels] /\ op' \in [Clients -> Ops \cup {None}]
      /\ at' \in [Clients -> 1..3]
      /\ pc'[c] = "idle" /\ \A d \in Clients \ {c} : pc'[d] = pc[d] /\ op'[d] = op[d]
  BY <1>1, Ends
<1>3. TypeOK'
  BY <1>1, <1>2 DEF Inv, TypeOK
<1>4. ObjectsWhole' /\ ObjectFirst'
  BY <1>1, <1>2 DEF Inv, ObjectsWhole, ObjectFirst
<1>5. ListedRetrievable'
  BY <1>1 DEF Inv, TypeOK, ListedRetrievable
<1>6. QED
  BY <1>2, <1>3, <1>4, <1>5 DEF Inv

LEMMA DamageInv == ASSUME Inv, NEW b \in Blobs, Damage(b) PROVE Inv'
<1>1. /\ objects' = [objects EXCEPT ![b] = "cut"] /\ damaged' = damaged \cup {b}
      /\ UNCHANGED <<dirs, manifests, pc, op, at>>
  BY DEF Damage
<1>2. TypeOK' /\ InCall'
  BY <1>1 DEF Inv, TypeOK, InCall
<1>3. \A d \in Blobs \ damaged' : objects'[d] = objects[d]
  BY <1>1 DEF Inv, TypeOK
<1>4. ObjectsWhole' /\ ListedRetrievable'
  BY <1>1, <1>3 DEF Inv, ObjectsWhole, ListedRetrievable
<1>5. ObjectFirst'
  BY <1>1 DEF Inv, TypeOK, ObjectFirst
<1>6. QED
  BY <1>2, <1>4, <1>5 DEF Inv

LEMMA NextInv == Inv /\ [Next]_vars => Inv'
<1> SUFFICES ASSUME Inv, [Next]_vars PROVE Inv'
  OBVIOUS
<1>1. ASSUME NEW c \in Clients, NEW call \in Ops, Call(c, call) PROVE Inv'
  BY <1>1, CallInv
<1>2. ASSUME NEW c \in Clients, Lstat(c) \/ Mkdir(c) PROVE Inv'
  BY <1>2, LstatInv, MkdirInv
<1>3. ASSUME NEW c \in Clients, Read(c) \/ Crash(c) PROVE Inv'
  BY <1>3, EndsInv DEF Read, Crash
<1>4. ASSUME NEW c \in Clients, ReadExisting(c) \/ WritePartial(c) PROVE Inv'
  BY <1>4, ReadExistingInv, WritePartialInv
<1>5. ASSUME NEW c \in Clients, RenameObject(c) \/ RenameManifest(c) PROVE Inv'
  BY <1>5, RenameObjectInv, RenameManifestInv
<1>6. ASSUME NEW b \in Blobs, Damage(b) PROVE Inv'
  BY <1>6, DamageInv
<1>7. CASE UNCHANGED vars
  BY <1>7 DEF vars, Inv, TypeOK, InCall, ObjectsWhole, ObjectFirst, ListedRetrievable
<1>8. QED
  BY <1>1, <1>2, <1>3, <1>4, <1>5, <1>6, <1>7 DEF Next
-----------------------------------------------------------------------------
THEOREM Inductive == Spec => []Inv
  BY InitInv, NextInv, PTL DEF Spec

(* Every variable keeps its type, whatever the clients do.                    *)
THEOREM TypeCorrect == Spec => []TypeOK
<1>1. Inv => TypeOK
  BY DEF Inv
<1>2. QED
  BY <1>1, Inductive, PTL

(* However puts overlap and wherever they die, no object is ever in part.     *)
THEOREM ObjectsAreWhole == Spec => []ObjectsWhole
<1>1. Inv => ObjectsWhole
  BY DEF Inv
<1>2. QED
  BY <1>1, Inductive, PTL

(* Whatever list names can be got.                                            *)
THEOREM ListedIsRetrievable == Spec => []ListedRetrievable
<1>1. Inv => ListedRetrievable
  BY DEF Inv
<1>2. QED
  BY <1>1, Inductive, PTL
-----------------------------------------------------------------------------
LEMMA PromiseInit == Init => Promise!Init
  BY ArtifactAssumption DEF Init, Promise!Init

LEMMA PromiseStep == Inv /\ [Next]_vars => [Promise!Next]_(Promise!vars)
<1> SUFFICES ASSUME Inv, [Next]_vars PROVE [Promise!Next]_(Promise!vars)
  OBVIOUS
<1> USE DEF Promise!vars, Promise!Next
<1>1. CASE UNCHANGED <<objects, manifests, damaged>>
  BY <1>1
<1>2. ASSUME NEW c \in Clients, RenameObject(c) PROVE Promise!Next
  <2>1. /\ op[c] \in Ops /\ op[c].kind = "put" /\ UNCHANGED <<manifests, damaged>>
        /\ objects' = [objects EXCEPT ![op[c].blob] = op[c].blob]
    BY <1>2 DEF RenameObject, Inv, InCall, PutLabels
  <2>2. PICK b \in Blobs : b = op[c].blob
    BY <2>1, OpFields
  <2>3. {d \in Blobs : objects'[d] = d} = {d \in Blobs : objects[d] = d} \cup {b}
    BY <2>1, <2>2 DEF Inv, TypeOK
  <2>4. Promise!Put(b)
    BY <2>1, <2>3 DEF Promise!Put
  <2>5. QED
    BY <2>4
<1>3. ASSUME NEW c \in Clients, RenameManifest(c) PROVE Promise!Next
  <2>1. /\ op[c].blob \in Blobs /\ op[c].name \in Names /\ UNCHANGED <<objects, damaged>>
        /\ manifests' = [manifests EXCEPT ![op[c].blob] = op[c].name]
        /\ op[c].blob \in damaged \/ objects[op[c].blob] = op[c].blob
    BY <1>3, RenameManifestStep
  <2>2. PICK b \in Blobs : b = op[c].blob
    BY <2>1
  <2>3. {d \in Blobs : manifests'[d] # None} = {d \in Blobs : manifests[d] # None} \cup {b}
    BY <2>1, <2>2, ArtifactAssumption DEF Inv, TypeOK
  <2>4. Promise!List(b)
    BY <2>1, <2>2, <2>3 DEF Promise!List
  <2>5. QED
    BY <2>4
<1>4. ASSUME NEW b \in Blobs, Damage(b) PROVE Promise!Next
  <2>1. /\ objects' = [objects EXCEPT ![b] = "cut"] /\ damaged' = damaged \cup {b}
        /\ UNCHANGED manifests
    BY <1>4 DEF Damage
  <2>2. {d \in Blobs : objects'[d] = d} = {d \in Blobs : objects[d] = d} \ {b}
    BY <2>1, ArtifactAssumption DEF Inv, TypeOK
  <2>3. Promise!Damage(b)
    BY <2>1, <2>2 DEF Promise!Damage
  <2>4. QED
    BY <2>3
<1>5. ASSUME NEW c \in Clients,
             \/ \E call \in Ops : Call(c, call)
             \/ Lstat(c) \/ Mkdir(c) \/ Read(c) \/ ReadExisting(c) \/ WritePartial(c) \/ Crash(c)
      PROVE  UNCHANGED <<objects, manifests, damaged>>
  BY <1>5 DEF Call, Lstat, Mkdir, Read, ReadExisting, WritePartial, Crash
<1>6. QED
  BY <1>1, <1>2, <1>3, <1>4, <1>5 DEF Next, vars

(* The store is the content store it promises to be.                          *)
THEOREM Implements == Spec => ImplementsContentStore
  BY Inductive, PromiseInit, PromiseStep, PTL DEF Spec, ImplementsContentStore, Promise!Spec

-----------------------------------------------------------------------------
IsSeq(s) == \E S : s \in Seq(S)

LEMMA AppendIsSeq ==
    ASSUME NEW s, NEW e, IsSeq(s)
    PROVE  /\ IsSeq(Append(s, e)) /\ Len(s) \in Nat /\ Len(Append(s, e)) = Len(s) + 1
           /\ Append(s, e)[Len(s) + 1] = e
           /\ \A i \in 1..Len(s) : Append(s, e)[i] = s[i]
<1>1. PICK S : s \in Seq(S)
  BY DEF IsSeq
<1>2. s \in Seq(S \cup {e})
  BY <1>1, SeqMonotonic
<1>3. Append(s, e) \in Seq(S \cup {e})
  BY <1>2
<1> QED BY <1>2, <1>3 DEF IsSeq

LEMMA NoLines == IsSeq(<<>>) /\ Len(<<>>) = 0
<1>1. <<>> \in Seq({})
  OBVIOUS
<1> QED BY <1>1 DEF IsSeq

\* All of a sequence but its last element.
LEMMA FrontOf ==
    ASSUME NEW S, NEW s \in Seq(S), Len(s) # 0
    PROVE  /\ Front(s) \in Seq(S) /\ Len(Front(s)) = Len(s) - 1
           /\ \A i \in 1..Len(s) - 1 : Front(s)[i] = s[i]
<1> DEFINE n == Len(s) - 1
<1>1. n \in Nat /\ 1 \in Int /\ n \in Int
  OBVIOUS
<1>2. \A i \in 1..n : s[i] \in S
  OBVIOUS
<1>3. Front(s) = SubSeq(s, 1, n)
  BY DEF Front
<1> HIDE DEF n
<1>4. SubSeq(s, 1, n) \in Seq(S)
  BY <1>1, <1>2, SubSeqProperties
<1>5. Len(SubSeq(s, 1, n)) = IF 1 <= n THEN n - 1 + 1 ELSE 0
  BY <1>1, <1>2, SubSeqProperties
<1>6. \A i \in 1..n - 1 + 1 : SubSeq(s, 1, n)[i] = s[1 + i - 1]
  BY <1>1, <1>2, SubSeqProperties
<1>7. Len(Front(s)) = n /\ \A i \in 1..n : Front(s)[i] = s[i]
  BY <1>1, <1>3, <1>5, <1>6
<1> QED BY <1>3, <1>4, <1>7 DEF n

\* The first n elements of a sequence.
LEMMA FirstOf ==
    ASSUME NEW s, IsSeq(s), NEW n \in 0..Len(s)
    PROVE  /\ IsSeq(SubSeq(s, 1, n)) /\ Len(SubSeq(s, 1, n)) = n
           /\ \A i \in 1..n : SubSeq(s, 1, n)[i] = s[i]
<1>1. PICK S : s \in Seq(S)
  BY DEF IsSeq
<1>2. /\ n \in Nat /\ 1 \in Int /\ n \in Int /\ \A i \in 1..n : s[i] \in S
  BY <1>1
<1>3. SubSeq(s, 1, n) \in Seq(S)
  BY <1>2, SubSeqProperties
<1>4. Len(SubSeq(s, 1, n)) = IF 1 <= n THEN n - 1 + 1 ELSE 0
  BY <1>2, SubSeqProperties
<1>5. \A i \in 1..n - 1 + 1 : SubSeq(s, 1, n)[i] = s[1 + i - 1]
  BY <1>2, SubSeqProperties
<1> QED BY <1>2, <1>3, <1>4, <1>5 DEF IsSeq

\* A prefix, line by line.
LEMMA PrefixIs ==
    ASSUME NEW s, NEW t, IsSeq(s), IsSeq(t), Len(s) <= Len(t)
    PROVE  IsPrefix(s, t) <=> \A i \in 1..Len(s) : s[i] = t[i]
<1>1. Len(s) \in Nat /\ Len(t) \in Nat
  BY DEF IsSeq
<1>2. PICK n \in Nat : n = Len(s)
  BY <1>1
<1>3. n \in 0..Len(s) /\ n \in 0..Len(t)
  BY <1>1, <1>2
<1>4. /\ IsSeq(SubSeq(s, 1, n)) /\ Len(SubSeq(s, 1, n)) = n
      /\ \A i \in 1..n : SubSeq(s, 1, n)[i] = s[i]
  BY <1>3, FirstOf
<1>5. /\ IsSeq(SubSeq(t, 1, n)) /\ Len(SubSeq(t, 1, n)) = n
      /\ \A i \in 1..n : SubSeq(t, 1, n)[i] = t[i]
  BY <1>3, FirstOf
<1>6. ASSUME \A i \in 1..n : s[i] = t[i] PROVE SubSeq(s, 1, n) = SubSeq(t, 1, n)
  <2>1. PICK S : SubSeq(s, 1, n) \in Seq(S)
    BY <1>4 DEF IsSeq
  <2>2. PICK T : SubSeq(t, 1, n) \in Seq(T)
    BY <1>5 DEF IsSeq
  <2>3. SubSeq(s, 1, n) \in Seq(S \cup T) /\ SubSeq(t, 1, n) \in Seq(S \cup T)
    BY <2>1, <2>2, SeqMonotonic
  <2>4. \A i \in 1..n : SubSeq(s, 1, n)[i] = SubSeq(t, 1, n)[i]
    BY <1>4, <1>5, <1>6
  <2> QED BY <1>4, <1>5, <2>3, <2>4, SeqEqual
<1> QED BY <1>2, <1>4, <1>5, <1>6 DEF IsPrefix

LEMMA HasLeast ==
    ASSUME NEW T \in SUBSET Nat, T # {}
    PROVE  \E x \in T : \A y \in T : x <= y
<1>1. PICK x \in T : \A y \in T : ~ (<<y, x>> \in OpToRel(<, Nat))
  BY NatLessThanWellFounded, WFMin, Zenon
<1>2. \A y \in T : ~ (y < x)
  BY <1>1, Zenon DEF OpToRel
<1>3. \A y \in T : x <= y
  BY <1>2
<1> QED BY <1>3
-----------------------------------------------------------------------------
(* A line that parses has the fields of an entry and no more, a number within *)
(* the bound and one of the events.                                           *)
EntryLike(line) ==
    /\ line = [sequence |-> line.sequence, previousHash |-> line.previousHash,
               event |-> line.event, hash |-> line.hash]
    /\ line.sequence \in 1 .. MaxLines + 1 /\ line.event \in Events

FileLike(file) == IsSeq(file) /\ \A i \in 1..Len(file) : file[i] # Garbage => EntryLike(file[i])

LedgerTypeInv ==
    /\ FileLike(lines) /\ Len(lines) <= MaxLines /\ (open => lines # <<>>)
    /\ {open, overlapped, cut} \subseteq BOOLEAN /\ altered \in 0..MaxAlterations
    /\ stage \in [Appenders -> {"idle", "read", "verify", "write"}]
    /\ DOMAIN seen = Appenders
    /\ \A c \in Appenders : FileLike(seen[c]) /\ Len(seen[c]) <= MaxLines
    /\ \A receipt \in receipts : FileLike(receipt) /\ receipt # <<>>

LEMMA AppendTyped ==
    ASSUME NEW file, FileLike(file), NEW line, line = Garbage \/ EntryLike(line)
    PROVE  FileLike(Append(file, line)) /\ Append(file, line) # <<>>
<1>1. /\ IsSeq(Append(file, line)) /\ Len(file) \in Nat /\ Len(Append(file, line)) = Len(file) + 1
      /\ Append(file, line)[Len(file) + 1] = line
      /\ \A i \in 1..Len(file) : Append(file, line)[i] = file[i]
  BY AppendIsSeq DEF FileLike
<1>2. Append(file, line) # <<>>
  BY <1>1, NoLines
<1>3. ASSUME NEW i \in 1..Len(Append(file, line)), Append(file, line)[i] # Garbage
      PROVE  EntryLike(Append(file, line)[i])
  <2>1. i = Len(file) + 1 \/ i \in 1..Len(file)
    BY <1>1
  <2> QED BY <1>1, <1>3, <2>1 DEF FileLike
<1> QED BY <1>1, <1>2, <1>3 DEF FileLike

LEMMA FirstTyped ==
    ASSUME NEW file, FileLike(file), NEW n \in 0..Len(file)
    PROVE  FileLike(SubSeq(file, 1, n)) /\ Len(SubSeq(file, 1, n)) = n
<1>1. IsSeq(file)
  BY DEF FileLike
<1>2. /\ IsSeq(SubSeq(file, 1, n)) /\ Len(SubSeq(file, 1, n)) = n
      /\ \A i \in 1..n : SubSeq(file, 1, n)[i] = file[i]
  BY <1>1, FirstOf
<1>3. \A i \in 1..n : i \in 1..Len(file)
  BY <1>1 DEF IsSeq
<1> QED BY <1>2, <1>3 DEF FileLike

\* A line more, or one that a line has run into: the others stay as they are.
LEMMA ExtendedTyped ==
    ASSUME LedgerTypeInv, NEW line, line = Garbage \/ EntryLike(line), Len(lines) < MaxLines
    PROVE  FileLike(Extended(line)) /\ Len(Extended(line)) <= MaxLines /\ Extended(line) # <<>>
<1>1. PICK S : lines \in Seq(S)
  BY DEF LedgerTypeInv, FileLike, IsSeq
<1>2. CASE open
  <2>1. Len(lines) \in Nat \ {0}
    BY <1>1, <1>2 DEF LedgerTypeInv
  <2>2. /\ Front(lines) \in Seq(S) /\ Len(Front(lines)) = Len(lines) - 1
        /\ \A i \in 1..Len(lines) - 1 : Front(lines)[i] = lines[i]
    BY <1>1, <2>1, FrontOf
  <2>3. FileLike(Front(lines))
    BY <2>1, <2>2 DEF LedgerTypeInv, FileLike, IsSeq
  <2>4. Extended(line) = Append(Front(lines), Garbage)
    <3>1. Front(lines) \in Seq(S \cup {Garbage})
      BY <2>2, SeqMonotonic
    <3> QED BY <1>2, <3>1 DEF Extended
  <2>5. Len(Append(Front(lines), Garbage)) = Len(Front(lines)) + 1
    BY <2>3, AppendIsSeq DEF FileLike
  <2> QED BY <2>1, <2>2, <2>3, <2>4, <2>5, AppendTyped, LedgerAssumption
<1>3. CASE ~ open
  <2>1. Extended(line) = Append(lines, line) /\ Len(Append(lines, line)) = Len(lines) + 1
        /\ Len(lines) \in Nat
    BY <1>3, AppendIsSeq DEF Extended, LedgerTypeInv, FileLike
  <2> QED BY <2>1, AppendTyped, LedgerAssumption DEF LedgerTypeInv
<1> QED BY <1>2, <1>3

\* The entry an append makes of what it has read.
LEMMA NextEntryTyped ==
    ASSUME LedgerTypeInv, NEW c \in Appenders, NEW event \in Events
    PROVE  EntryLike(NextEntry(c, event))
<1>1. Len(seen[c]) \in Nat /\ Len(seen[c]) <= MaxLines
  BY DEF LedgerTypeInv, FileLike, IsSeq
<1>2. Len(seen[c]) + 1 \in 1 .. MaxLines + 1
  BY <1>1, LedgerAssumption
<1> QED BY <1>2 DEF NextEntry, Entry, EntryLike

\* Whoever returns forgets what it has read.
LEMMA ReturnTyped ==
    ASSUME LedgerTypeInv, NEW c \in Appenders, Return(c)
    PROVE  /\ stage' \in [Appenders -> {"idle", "read", "verify", "write"}] /\ DOMAIN seen' = Appenders
           /\ \A d \in Appenders : FileLike(seen'[d]) /\ Len(seen'[d]) <= MaxLines
<1>1. FileLike(<<>>) /\ Len(<<>>) <= MaxLines
  BY NoLines, LedgerAssumption DEF FileLike
<1>2. \A d \in Appenders : seen'[d] = IF d = c THEN <<>> ELSE seen[d]
  BY DEF Return, LedgerTypeInv
<1>3. \A d \in Appenders : FileLike(seen'[d]) /\ Len(seen'[d]) <= MaxLines
  BY <1>1, <1>2 DEF LedgerTypeInv
<1> QED BY <1>3 DEF Return, LedgerTypeInv

\* Lines changed by somebody else.
LEMMA TamperedTyped ==
    ASSUME LedgerTypeInv, NEW file, Tampered(file), FileLike(file), Len(file) <= MaxLines,
           open' \in BOOLEAN, open' => file # <<>>
    PROVE  LedgerTypeInv'
<1>1. altered' \in 0..MaxAlterations
  BY LedgerAssumption DEF Tampered, LedgerTypeInv
<1> QED BY <1>1 DEF Tampered, LedgerTypeInv

LEMMA ReplacedTyped ==
    ASSUME LedgerTypeInv, NEW i \in 1..Len(lines), NEW line, EntryLike(line)
    PROVE  /\ FileLike([lines EXCEPT ![i] = line]) /\ Len([lines EXCEPT ![i] = line]) <= MaxLines
           /\ [lines EXCEPT ![i] = line] # <<>>
<1> DEFINE file == [lines EXCEPT ![i] = line]
<1>1. PICK S : lines \in Seq(S)
  BY DEF LedgerTypeInv, FileLike, IsSeq
<1>2. lines \in Seq(S \cup {line})
  BY <1>1, SeqMonotonic
<1>3. /\ file \in Seq(S \cup {line}) /\ Len(file) = Len(lines)
      /\ \A j \in 1..Len(lines) : file[j] = IF j = i THEN line ELSE lines[j]
  BY <1>2
<1> HIDE DEF file
<1>4. IsSeq(file) /\ file # <<>>
  BY <1>3 DEF IsSeq
<1>5. FileLike(file)
  BY <1>3, <1>4 DEF LedgerTypeInv, FileLike
<1> QED BY <1>3, <1>4, <1>5 DEF LedgerTypeInv, file

LEMMA LedgerTypeStep == LedgerTypeInv /\ [LedgerNext]_ledgerVars => LedgerTypeInv'
<1> SUFFICES ASSUME LedgerTypeInv, [LedgerNext]_ledgerVars PROVE LedgerTypeInv'
  OBVIOUS
<1>1. ASSUME NEW c \in Appenders, Append_(c) PROVE LedgerTypeInv'
  BY <1>1 DEF Append_, LedgerTypeInv
<1>2. ASSUME NEW c \in Appenders, ReadEntries(c) PROVE LedgerTypeInv'
  <2>1. CASE Parses(lines)
    BY <1>2, <2>1 DEF ReadEntries, LedgerTypeInv
  <2>2. CASE ~ Parses(lines)
    <3>1. Return(c) /\ UNCHANGED <<lines, open, overlapped, cut, altered, receipts>>
      BY <1>2, <2>2 DEF ReadEntries
    <3> QED BY <3>1, ReturnTyped DEF LedgerTypeInv
  <2> QED BY <2>1, <2>2
<1>3. ASSUME NEW c \in Appenders, Verify(c) PROVE LedgerTypeInv'
  <2>1. CASE Verifies(lines)
    BY <1>3, <2>1 DEF Verify, LedgerTypeInv
  <2>2. CASE ~ Verifies(lines)
    <3>1. Return(c) /\ UNCHANGED <<lines, open, overlapped, cut, altered, receipts>>
      BY <1>3, <2>2 DEF Verify
    <3> QED BY <3>1, ReturnTyped DEF LedgerTypeInv
  <2> QED BY <2>1, <2>2
<1>4. ASSUME NEW c \in Appenders, NEW event \in Events, WriteLine(c, event) PROVE LedgerTypeInv'
  <2>1. EntryLike(NextEntry(c, event))
    BY <1>4, NextEntryTyped
  <2>2. /\ FileLike(lines') /\ Len(lines') <= MaxLines /\ lines' # <<>>
    BY <1>4, <2>1, ExtendedTyped DEF WriteLine
  <2>3. \A receipt \in receipts' : FileLike(receipt) /\ receipt # <<>>
    <3>1. FileLike(Append(seen[c], NextEntry(c, event))) /\ Append(seen[c], NextEntry(c, event)) # <<>>
      BY <1>4, <2>1, AppendTyped DEF LedgerTypeInv
    <3> QED BY <1>4, <3>1 DEF WriteLine, LedgerTypeInv
  <2> QED BY <1>4, <2>2, <2>3, ReturnTyped DEF WriteLine, LedgerTypeInv
<1>5. ASSUME NEW c \in Appenders, Die(c) PROVE LedgerTypeInv'
  <2>1. FileLike(lines') /\ Len(lines') <= MaxLines /\ (open' => lines' # <<>>)
        /\ {open', cut'} \subseteq BOOLEAN
    <3>1. CASE UNCHANGED <<lines, open, cut>>
      BY <3>1 DEF LedgerTypeInv
    <3>2. CASE /\ Len(lines) < MaxLines /\ cut' = TRUE /\ open' = TRUE
               /\ lines' \in {Extended(Garbage)} \cup {Extended(NextEntry(c, event)) : event \in Events}
      <4>1. PICK line : lines' = Extended(line) /\ (line = Garbage \/ EntryLike(line))
        BY <1>5, <3>2, NextEntryTyped
      <4>2. {open', cut'} \subseteq BOOLEAN
        BY <3>2
      <4> QED BY <3>2, <4>1, <4>2, ExtendedTyped
    <3> QED BY <1>5, <3>1, <3>2 DEF Die
  <2> QED BY <1>5, <2>1, ReturnTyped DEF Die, LedgerTypeInv
<1>6. ASSUME NEW i \in 1..Len(lines), NEW event \in Events, Alter(i, event) PROVE LedgerTypeInv'
  <2>1. EntryLike([lines[i] EXCEPT !.event = event])
    <3>1. EntryLike(lines[i])
      BY <1>6 DEF Alter, LedgerTypeInv, FileLike
    <3> QED BY <3>1 DEF EntryLike
  <2>2. Tampered([lines EXCEPT ![i] = [lines[i] EXCEPT !.event = event]]) /\ open' = open
    BY <1>6 DEF Alter
  <2>3. open' \in BOOLEAN
    BY <2>2 DEF LedgerTypeInv
  <2> QED BY <2>1, <2>2, <2>3, ReplacedTyped, TamperedTyped
<1>7. ASSUME NEW i \in 1..Len(lines), NEW event \in Events, Rewrite(i, event) PROVE LedgerTypeInv'
  <2>1. PICK hash : Tampered([lines EXCEPT ![i] = Entry(i, hash, event)]) /\ open' = open
    BY <1>7 DEF Rewrite
  <2>2. EntryLike(Entry(i, hash, event))
    <3>1. i \in 1 .. MaxLines + 1
      BY LedgerAssumption DEF LedgerTypeInv, FileLike, IsSeq
    <3> QED BY <3>1 DEF Entry, EntryLike
  <2>3. open' \in BOOLEAN
    BY <2>1 DEF LedgerTypeInv
  <2> QED BY <2>1, <2>2, <2>3, ReplacedTyped, TamperedTyped
<1>8. ASSUME NEW n \in 0..Len(lines), Truncate(n) PROVE LedgerTypeInv'
  <2>1. FileLike(SubSeq(lines, 1, n)) /\ Len(SubSeq(lines, 1, n)) = n
    BY FirstTyped DEF LedgerTypeInv
  <2>2. n <= MaxLines
    BY LedgerAssumption DEF LedgerTypeInv, FileLike, IsSeq
  <2> QED BY <1>8, <2>1, <2>2, TamperedTyped DEF Truncate
<1>9. CASE UNCHANGED ledgerVars
  BY <1>9 DEF ledgerVars, LedgerTypeInv
<1> QED BY <1>1, <1>2, <1>3, <1>4, <1>5, <1>6, <1>7, <1>8, <1>9 DEF LedgerNext

LEMMA LedgerTypes == LedgerSpec => []LedgerTypeInv
<1>1. LedgerInit => LedgerTypeInv
  <2> SUFFICES ASSUME LedgerInit PROVE LedgerTypeInv
    OBVIOUS
  <2>1. FileLike(<<>>) /\ Len(<<>>) <= MaxLines
    BY NoLines, LedgerAssumption DEF FileLike
  <2>2. /\ FileLike(lines) /\ Len(lines) <= MaxLines /\ (open => lines # <<>>)
        /\ {open, overlapped, cut} \subseteq BOOLEAN
    BY <2>1 DEF LedgerInit
  <2>3. /\ \A c \in Appenders : FileLike(seen[c]) /\ Len(seen[c]) <= MaxLines
        /\ DOMAIN seen = Appenders /\ stage \in [Appenders -> {"idle", "read", "verify", "write"}]
    BY <2>1 DEF LedgerInit
  <2>4. altered \in 0..MaxAlterations /\ receipts = {}
    BY LedgerAssumption DEF LedgerInit
  <2> QED BY <2>2, <2>3, <2>4 DEF LedgerTypeInv
<1> QED BY <1>1, LedgerTypeStep, PTL DEF LedgerSpec

(* Whatever is in the file, what parses of it is numbered within the bound    *)
(* and holds an event somebody appended or put there.                         *)
THEOREM LedgerTypeCorrect == LedgerSpec => []LedgerTypeOK
<1>1. LedgerTypeInv => LedgerTypeOK
  BY DEF LedgerTypeInv, LedgerTypeOK, FileLike, EntryLike
<1> QED BY <1>1, LedgerTypes, PTL
-----------------------------------------------------------------------------
(* Two files that verify and agree at a line agree on every line before it:   *)
(* the line fixes the hash of the line before, and that hash its fields. At   *)
(* the last line where they did not agree, the line behind it is the same.    *)
LEMMA AgreeBefore ==
    ASSUME NEW f, NEW g, FileLike(f), FileLike(g), Verifies(f), Verifies(g),
           NEW k \in Nat, k <= Len(f), k <= Len(g), f[k] = g[k]
    PROVE  \A i \in 1..k : f[i] = g[i]
<1>1. Len(f) \in Nat /\ Len(g) \in Nat
  BY DEF FileLike, IsSeq
<1> DEFINE Apart == {d \in Nat : \E i \in 1..k : d = k - i /\ f[i] # g[i]}
<1>2. SUFFICES Apart = {}
  <2>1. \A i \in 1..k : k - i \in Nat
    OBVIOUS
  <2> QED BY <1>2, <2>1
<1>3. SUFFICES ASSUME Apart # {} PROVE FALSE
  OBVIOUS
<1>4. PICK d \in Apart : \A other \in Apart : d <= other
  <2>1. Apart \in SUBSET Nat
    OBVIOUS
  <2> HIDE DEF Apart
  <2> QED BY <1>3, <2>1, HasLeast
<1>5. PICK i \in 1..k : d = k - i /\ f[i] # g[i]
  BY <1>4
<1>6. i < k /\ i + 1 \in 1..k /\ i + 1 \in 1..Len(f) /\ i + 1 \in 1..Len(g)
  BY <1>1, <1>5
<1>7. f[i + 1] = g[i + 1]
  <2>1. k - (i + 1) \in Nat /\ ~ (d <= k - (i + 1))
    BY <1>5, <1>6
  <2>2. PICK e \in Nat : e = k - (i + 1)
    BY <2>1
  <2>3. e \notin Apart
    BY <1>4, <2>1, <2>2
  <2>4. PICK j \in 1..k : j = i + 1
    BY <1>6
  <2>5. e = k - j
    BY <2>2, <2>4
  <2>6. f[j] = g[j]
    BY <2>3, <2>5
  <2> QED BY <2>4, <2>6
<1> HIDE DEF Apart
<1>8. f[i + 1].previousHash = f[i].hash /\ g[i + 1].previousHash = g[i].hash
  <2>1. i + 1 # 1 /\ i + 1 - 1 = i
    BY <1>5
  <2>2. \A j \in 1..Len(f) : f[j].previousHash = IF j = 1 THEN Genesis ELSE f[j - 1].hash
    BY DEF Verifies
  <2>3. \A j \in 1..Len(g) : g[j].previousHash = IF j = 1 THEN Genesis ELSE g[j - 1].hash
    BY DEF Verifies
  <2>4. f[i + 1].previousHash = f[i].hash
    BY <1>6, <2>1, <2>2
  <2>5. g[i + 1].previousHash = g[i].hash
    BY <1>6, <2>1, <2>3
  <2> QED BY <2>4, <2>5
<1>9. i \in 1..Len(f) /\ i \in 1..Len(g)
  BY <1>1, <1>6
<1>10. /\ f[i].hash = digest(f[i].sequence, f[i].previousHash, f[i].event)
       /\ g[i].hash = digest(g[i].sequence, g[i].previousHash, g[i].event)
       /\ EntryLike(f[i]) /\ EntryLike(g[i])
  BY <1>9 DEF Verifies, Parses, FileLike
<1>11. f[i].hash = g[i].hash
  BY <1>7, <1>8
<1>12. f[i].sequence = g[i].sequence /\ f[i].previousHash = g[i].previousHash /\ f[i].event = g[i].event
  BY <1>10, <1>11 DEF digest
<1> QED BY <1>5, <1>10, <1>11, <1>12 DEF EntryLike

(* An entry that append returned fixes what the file holds before it, however *)
(* appends overlap and die and whatever somebody else leaves in the file.     *)
THEOREM EntryFixesItsHistory == LedgerSpec => []EntryFixesHistory
<1>1. LedgerTypeInv => EntryFixesHistory
  <2> SUFFICES ASSUME LedgerTypeInv, Verifies(lines), NEW receipt \in receipts, Verifies(receipt),
                      Len(receipt) <= Len(lines), lines[Len(receipt)] = Last(receipt)
               PROVE  IsPrefix(receipt, lines)
    BY DEF EntryFixesHistory
  <2>1. FileLike(lines) /\ FileLike(receipt) /\ IsSeq(lines) /\ IsSeq(receipt)
    BY DEF LedgerTypeInv, FileLike
  <2>2. Len(receipt) \in Nat /\ Last(receipt) = receipt[Len(receipt)]
    BY <2>1 DEF IsSeq, Last
  <2>3. \A i \in 1..Len(receipt) : receipt[i] = lines[i]
    BY <2>1, <2>2, AgreeBefore
  <2> QED BY <2>1, <2>3, PrefixIs
<1> QED BY <1>1, LedgerTypes, PTL
-----------------------------------------------------------------------------
\* As long as appends take turns and nothing is cut or altered: the file verifies,
\* what an append has read of it is still what it holds, and it holds what every
\* append that returned has read and returned.
ChainInv ==
    /\ ~ overlapped => \A c, d \in Appenders : stage[c] # "idle" /\ stage[d] # "idle" => c = d
    /\ ~ overlapped /\ ~ cut /\ altered = 0 =>
          /\ Verifies(lines) /\ ~ open /\ (lines = <<>> \/ lines \in receipts)
          /\ \A receipt \in receipts : IsPrefix(receipt, lines)
          /\ \A c \in Appenders : stage[c] \in {"verify", "write"} => seen[c] = lines

\* The entry made from a file that verifies keeps it so.
LEMMA NextVerifies ==
    ASSUME NEW c, NEW event, IsSeq(lines), Verifies(lines), seen[c] = lines
    PROVE  Verifies(Append(lines, NextEntry(c, event)))
<1> DEFINE entry == NextEntry(c, event)
           file == Append(lines, entry)
<1>1. /\ Len(lines) \in Nat /\ Len(file) = Len(lines) + 1
      /\ file[Len(lines) + 1] = entry /\ \A i \in 1..Len(lines) : file[i] = lines[i]
  BY AppendIsSeq
<1>2. PICK S : lines \in Seq(S)
  BY DEF IsSeq
<1>3. entry = Entry(Len(lines) + 1, IF lines = <<>> THEN Genesis ELSE lines[Len(lines)].hash, event)
  BY <1>2 DEF NextEntry, Last
<1>4. /\ entry # Garbage /\ entry.sequence = Len(lines) + 1
      /\ entry.previousHash = IF lines = <<>> THEN Genesis ELSE lines[Len(lines)].hash
      /\ entry.hash = digest(entry.sequence, entry.previousHash, entry.event)
  BY <1>3 DEF Entry, Garbage
<1>5. entry.previousHash = IF Len(lines) + 1 = 1 THEN Genesis ELSE file[Len(lines)].hash
  <2>1. lines = <<>> <=> Len(lines) = 0
    BY <1>2
  <2> QED BY <1>1, <1>4, <2>1
<1> HIDE DEF entry, file
<1>6. ASSUME NEW i \in 1..Len(file)
      PROVE  /\ file[i] # Garbage /\ file[i].sequence = i
             /\ file[i].previousHash = IF i = 1 THEN Genesis ELSE file[i - 1].hash
             /\ file[i].hash = digest(file[i].sequence, file[i].previousHash, file[i].event)
  <2>1. CASE i = Len(lines) + 1
    <3>1. i - 1 = Len(lines)
      BY <1>1, <2>1
    <3> QED BY <1>1, <1>4, <1>5, <2>1, <3>1
  <2>2. CASE i \in 1..Len(lines)
    <3>1. file[i] = lines[i] /\ (i # 1 => file[i - 1] = lines[i - 1])
      BY <1>1, <2>2
    <3> QED BY <2>2, <3>1 DEF Verifies, Parses
  <2> QED BY <1>1, <2>1, <2>2
<1> QED BY <1>6 DEF Verifies, Parses, entry, file

\* What a file begins with, it begins with when a line is added.
LEMMA LongerPrefix ==
    ASSUME NEW s, NEW t, NEW line, IsSeq(s), IsSeq(t), s = t \/ IsPrefix(s, t)
    PROVE  IsPrefix(s, Append(t, line))
<1>1. /\ IsSeq(Append(t, line)) /\ Len(Append(t, line)) = Len(t) + 1
      /\ \A i \in 1..Len(t) : Append(t, line)[i] = t[i]
  BY AppendIsSeq
<1>2. Len(s) \in Nat /\ Len(t) \in Nat /\ Len(s) <= Len(t)
  BY DEF IsSeq, IsPrefix
<1>3. \A i \in 1..Len(s) : s[i] = t[i]
  BY <1>2, PrefixIs
<1>4. Len(s) <= Len(Append(t, line)) /\ \A i \in 1..Len(s) : s[i] = Append(t, line)[i]
  BY <1>1, <1>2, <1>3
<1> QED BY <1>1, <1>4, PrefixIs

LEMMA ChainStep == LedgerTypeInv /\ ChainInv /\ [LedgerNext]_ledgerVars => ChainInv'
<1> SUFFICES ASSUME LedgerTypeInv, ChainInv, [LedgerNext]_ledgerVars PROVE ChainInv'
  OBVIOUS
<1>1. ASSUME NEW c \in Appenders, Append_(c) PROVE ChainInv'
  BY <1>1 DEF Append_, LedgerTypeInv, ChainInv
<1>2. ASSUME NEW c \in Appenders, ReadEntries(c) PROVE ChainInv'
  BY <1>2 DEF ReadEntries, Return, LedgerTypeInv, ChainInv
<1>3. ASSUME NEW c \in Appenders, Verify(c) PROVE ChainInv'
  BY <1>3 DEF Verify, Return, LedgerTypeInv, ChainInv
<1>4. ASSUME NEW c \in Appenders, NEW event \in Events, WriteLine(c, event) PROVE ChainInv'
  <2> DEFINE entry == NextEntry(c, event)
  <2>1. /\ stage[c] = "write" /\ lines' = Extended(entry) /\ open' = FALSE
        /\ stage' = [stage EXCEPT ![c] = "idle"] /\ seen' = [seen EXCEPT ![c] = <<>>]
        /\ receipts' = receipts \cup {Append(seen[c], entry)}
        /\ UNCHANGED <<overlapped, cut, altered>>
    BY <1>4 DEF WriteLine, Return
  <2>2. ASSUME ~ overlapped, ~ cut, altered = 0
        PROVE  /\ Verifies(lines)' /\ lines' \in receipts'
               /\ \A receipt \in receipts' : IsPrefix(receipt, lines')
               /\ \A d \in Appenders : stage'[d] = "idle"
    <3>1. seen[c] = lines /\ Verifies(lines) /\ ~ open
          /\ \A receipt \in receipts : IsPrefix(receipt, lines)
      BY <2>1, <2>2 DEF ChainInv
    <3>2. IsSeq(lines) /\ \A receipt \in receipts : IsSeq(receipt)
      BY DEF LedgerTypeInv, FileLike
    <3>3. Verifies(Append(lines, entry))
      BY <3>1, <3>2, NextVerifies
    <3>4. lines' = Append(lines, entry)
      BY <2>1, <3>1 DEF Extended
    <3>5. \A d \in Appenders : stage'[d] = "idle"
      BY <2>1, <2>2 DEF LedgerTypeInv, ChainInv
    <3> HIDE DEF entry
    <3>6. ASSUME NEW receipt \in receipts' PROVE IsPrefix(receipt, lines')
      <4>1. CASE receipt \in receipts
        BY <3>1, <3>2, <3>4, <4>1, LongerPrefix
      <4>2. CASE receipt = Append(lines, entry)
        <5>1. IsSeq(receipt)
          BY <3>2, <4>2, AppendIsSeq
        <5>2. Len(receipt) <= Len(receipt)
          BY <5>1 DEF IsSeq
        <5> QED BY <3>4, <4>2, <5>1, <5>2, PrefixIs
      <4> QED BY <2>1, <3>1, <4>1, <4>2
    <3> QED BY <2>1, <3>1, <3>3, <3>4, <3>5, <3>6 DEF Verifies, Parses
  <2> HIDE DEF entry
  <2> QED BY <2>1, <2>2 DEF ChainInv
<1>5. ASSUME NEW c \in Appenders, Die(c) PROVE ChainInv'
  <2>1. /\ stage' = [stage EXCEPT ![c] = "idle"] /\ seen' = [seen EXCEPT ![c] = <<>>]
        /\ UNCHANGED <<overlapped, altered, receipts>> /\ (cut' \/ UNCHANGED <<lines, open, cut>>)
    BY <1>5 DEF Die, Return
  <2> QED BY <2>1 DEF LedgerTypeInv, ChainInv, Verifies, Parses
<1>6. ASSUME NEW file, Tampered(file) PROVE ChainInv'
  <2>1. altered' # 0
    BY <1>6, LedgerAssumption DEF Tampered, LedgerTypeInv
  <2> QED BY <1>6, <2>1 DEF Tampered, ChainInv
<1>7. CASE UNCHANGED ledgerVars
  BY <1>7 DEF ledgerVars, ChainInv, Verifies, Parses
<1> QED BY <1>1, <1>2, <1>3, <1>4, <1>5, <1>6, <1>7 DEF LedgerNext, Alter, Rewrite, Truncate

(* Appends that take turns, live and have the file to themselves keep the     *)
(* chain, and every entry they return stands where it was put.                *)
THEOREM ChainStaysWhole == LedgerSpec => []ChainUnbroken
<1>1. LedgerInit => ChainInv
  BY DEF LedgerInit, ChainInv, Verifies, Parses
<1>2. ChainInv => ChainUnbroken
  BY DEF ChainInv, ChainUnbroken
<1> QED BY <1>1, <1>2, ChainStep, LedgerTypes, PTL DEF LedgerSpec
-----------------------------------------------------------------------------
(* The authority.                                                             *)
LEMMA LeastIsMember ==
    ASSUME NEW T \in SUBSET Nat, T # {}
    PROVE  Min(T) \in T
  BY HasLeast DEF Min

\* No two leases of a scope share a generation, and none is ahead of its scope's.
LeasesInv ==
    /\ now \in Nat /\ generation \in [Scopes -> Nat]
    /\ \A l \in leases : /\ l.scope \in Scopes /\ l.generation \in Nat /\ l.expiresAt \in Nat
                         /\ l.generation <= generation[l.scope]
    /\ \A l, m \in leases : l.scope = m.scope /\ l.generation = m.generation => l = m
    /\ secrets \in Seq(Nat)

LEMMA LeasesStep == LeasesInv /\ [AuthorityNext]_authorityVars => LeasesInv'
<1> SUFFICES ASSUME LeasesInv, [AuthorityNext]_authorityVars PROVE LeasesInv'
  OBVIOUS
<1> USE AuthorityAssumption
<1>1. CASE UNCHANGED <<now, generation, leases, secrets>>
  BY <1>1 DEF LeasesInv
<1>2. ASSUME NEW ttl \in Lifetimes, Issue(ttl) PROVE LeasesInv'
  <2>1. ttl \in Nat /\ now \in Nat /\ secrets \in Seq(Nat)
    BY DEF LeasesInv
  <2>2. now + ttl \in Nat
    BY <2>1
  <2>3. secrets' \in Seq(Nat)
    BY <1>2, <2>1, <2>2 DEF Issue
  <2> QED BY <1>2, <2>3 DEF Issue, LeasesInv
<1>3. ASSUME NEW h \in DOMAIN secrets, Revoke(h) PROVE LeasesInv'
  BY <1>3 DEF Revoke, LeasesInv
<1>4. CASE Tick
  BY <1>4 DEF Tick, LeasesInv
<1>5. ASSUME NEW scope \in Scopes, NEW capabilities \in SUBSET Capabilities, NEW ttl \in Lifetimes,
             GrantLease(scope, capabilities, ttl)
      PROVE  LeasesInv'
  <2> DEFINE lease == [scope |-> scope, capabilities |-> capabilities,
                       expiresAt |-> now + ttl, generation |-> generation[scope] + 1]
  <2>1. /\ generation' = [generation EXCEPT ![scope] = @ + 1] /\ leases' = leases \cup {lease}
        /\ now' = now /\ secrets' = secrets
    BY <1>5 DEF GrantLease
  <2>2. /\ lease.scope = scope /\ lease.generation = generation[scope] + 1
        /\ lease.expiresAt \in Nat /\ generation[scope] \in Nat
    BY DEF LeasesInv
  <2>3. \A l \in leases : l.scope = scope => l.generation < lease.generation
    BY <2>2 DEF LeasesInv
  <2>4. generation' \in [Scopes -> Nat] /\ generation'[scope] = generation[scope] + 1
        /\ \A t \in Scopes : t # scope => generation'[t] = generation[t]
    BY <2>1 DEF LeasesInv
  <2> HIDE DEF lease
  <2>5. \A l \in leases' : /\ l.scope \in Scopes /\ l.generation \in Nat /\ l.expiresAt \in Nat
                           /\ l.generation <= generation'[l.scope]
    BY <2>1, <2>2, <2>4 DEF LeasesInv
  <2>6. \A l, m \in leases' : l.scope = m.scope /\ l.generation = m.generation => l = m
    BY <2>1, <2>2, <2>3 DEF LeasesInv
  <2> QED BY <2>1, <2>4, <2>5, <2>6 DEF LeasesInv
<1>6. ASSUME NEW scope \in Scopes, WithdrawLease(scope) PROVE LeasesInv'
  BY <1>6 DEF WithdrawLease, LeasesInv
<1>7. CASE (\E request \in Requests, lease \in leases, approval \in Approvals \cup {NoApproval} :
                Authorize(request, lease, approval))
           \/ (\E authorization \in allowed : Budget(authorization))
           \/ \E i \in DOMAIN sessions, usage \in Usages : Consume(i, usage)
  BY <1>1, <1>7 DEF Authorize, Budget, Consume
<1>8. CASE UNCHANGED authorityVars
  BY <1>1, <1>8 DEF authorityVars
<1> QED BY <1>2, <1>3, <1>4, <1>5, <1>6, <1>7, <1>8 DEF AuthorityNext

LEMMA Leases == AuthoritySpec => []LeasesInv
<1>1. AuthorityInit => LeasesInv
  BY DEF AuthorityInit, LeasesInv
<1> QED BY <1>1, LeasesStep, PTL DEF AuthoritySpec

(* At most one lease of a scope authorizes anything at a time.                *)
THEOREM HolderIsOne == AuthoritySpec => []OneHolder
<1>1. LeasesInv => OneHolder
  BY DEF LeasesInv, OneHolder, Allows, LeaseCovers
<1> QED BY <1>1, Leases, PTL

(* What was refused stays refused: the clock and the generations only grow.   *)
THEOREM RefusalsFinal == AuthoritySpec => RefusalsAreFinal
<1>1. LeasesInv /\ [AuthorityNext]_authorityVars =>
         [/\ \A r \in Requests, l \in leases, a \in Approvals \cup {NoApproval} :
                Allows(r, l, a)' => Allows(r, l, a)
          /\ \A h \in DOMAIN secrets, d \in Destinations :
                Resolves(h, d)' => Resolves(h, d)]_authorityVars
  <2> SUFFICES ASSUME LeasesInv, LeasesInv', [AuthorityNext]_authorityVars
               PROVE  /\ \A r \in Requests, l \in leases, a \in Approvals \cup {NoApproval} :
                            Allows(r, l, a)' => Allows(r, l, a)
                      /\ \A h \in DOMAIN secrets, d \in Destinations :
                            Resolves(h, d)' => Resolves(h, d)
    BY LeasesStep
  <2>1. now \in Nat /\ now' \in Nat /\ now <= now'
    <3>1. now' = now \/ now' = now + 1
      BY DEF AuthorityNext, Authorize, Budget, Consume, Issue, Revoke, Tick, GrantLease,
             WithdrawLease, authorityVars
    <3> QED BY <3>1 DEF LeasesInv
  <2>2. \A s \in Scopes : generation[s] <= generation'[s]
    <3>1. \/ generation' = generation
          \/ \E scope \in Scopes : generation' = [generation EXCEPT ![scope] = @ + 1]
      BY DEF AuthorityNext, Authorize, Budget, Consume, Issue, Revoke, Tick, GrantLease,
             WithdrawLease, authorityVars
    <3>2. generation \in [Scopes -> Nat]
      BY DEF LeasesInv
    <3>3. \A s \in Scopes : generation'[s] \in {generation[s], generation[s] + 1}
      <4>1. ASSUME NEW scope \in Scopes, NEW s \in Scopes,
                   generation' = [generation EXCEPT ![scope] = @ + 1]
            PROVE  generation'[s] \in {generation[s], generation[s] + 1}
        BY <3>2, <4>1
      <4> QED BY <3>1, <4>1
    <3> QED BY <3>2, <3>3
  <2>3. \A h \in DOMAIN secrets : secrets'[h] \in {secrets[h], 0}
    <3>1. \/ secrets' = secrets
          \/ \E h \in DOMAIN secrets : secrets' = [secrets EXCEPT ![h] = 0]
          \/ \E ttl \in Lifetimes : secrets' = Append(secrets, now + ttl)
      BY DEF AuthorityNext, Authorize, Budget, Consume, Issue, Revoke, Tick, GrantLease,
             WithdrawLease, authorityVars
    <3>2. secrets \in Seq(Nat)
      BY DEF LeasesInv
    <3>3. ASSUME NEW ttl \in Lifetimes, secrets' = Append(secrets, now + ttl)
          PROVE  \A h \in DOMAIN secrets : secrets'[h] = secrets[h]
      <4>1. ttl \in Nat /\ now + ttl \in Nat
        BY <2>1, AuthorityAssumption
      <4> QED BY <3>2, <3>3, <4>1
    <3> QED BY <3>1, <3>2, <3>3
  <2>4. ASSUME NEW r \in Requests, NEW l \in leases, NEW a \in Approvals \cup {NoApproval},
               Allows(r, l, a)'
        PROVE  Allows(r, l, a)
    <3>1. Matching(r) # {}
      <4>1. PICK i \in DOMAIN Grants : Matches(Grants[i], r)'
        BY <2>4 DEF Allows, Matching
      <4>2. Matches(Grants[i], r)
        BY <4>1, <2>1, AuthorityAssumption DEF Matches
      <4> QED BY <4>2 DEF Matching
    <3>2. LeaseCovers(l, r)
      <4>1. /\ l.scope = r.scope /\ r.capability \in l.capabilities /\ l.expiresAt > now'
            /\ l.generation = generation'[r.scope]
        BY <2>4 DEF Allows, LeaseCovers
      <4>2. l.scope \in Scopes /\ l.generation <= generation[l.scope] /\ l.generation \in Nat
            /\ l.expiresAt \in Nat /\ generation[l.scope] \in Nat
        BY DEF LeasesInv
      <4>3. generation[l.scope] <= l.generation
        BY <4>1, <4>2, <2>2
      <4> QED BY <4>1, <4>2, <4>3, <2>1 DEF LeaseCovers
    <3>3. ApprovalCovers(a, r)
      BY <2>4, <2>1, AuthorityAssumption DEF Allows, ApprovalCovers
    <3> QED BY <3>1, <3>2, <3>3 DEF Allows
  <2>5. ASSUME NEW h \in DOMAIN secrets, NEW d \in Destinations, Resolves(h, d)'
        PROVE  Resolves(h, d)
    <3>1. secrets[h] \in Nat
      BY DEF LeasesInv
    <3>2. d \in Destinations /\ now' < secrets'[h]
      BY <2>5 DEF Resolves
    <3>3. now < secrets[h]
      BY <2>1, <2>3, <3>1, <3>2
    <3> QED BY <3>2, <3>3 DEF Resolves
  <2> QED BY <2>4, <2>5
<1> QED BY <1>1, Leases, PTL DEF AuthoritySpec, RefusalsAreFinal
-----------------------------------------------------------------------------
(* The budgets. A session of a grant holds, dimension by dimension, what the  *)
(* grant gave it: what is left of it and what was charged.                    *)
Dimensions(g) == DOMAIN Grants[g].budget

Funded(g) ==
    {s \in [grant : {g}, terminated : BOOLEAN,
            remaining : [Dimensions(g) -> Nat], charged : [Dimensions(g) -> Int]] :
        \A d \in Dimensions(g) : s.charged[d] + s.remaining[d] = Grants[g].budget[d]}

BudgetInv ==
    /\ \A a \in allowed : a.grant \in DOMAIN Grants
    /\ sessions \in Seq(UNION {Funded(g) : g \in DOMAIN Grants})

\* A usage that is not refused takes from every dimension no more than is left of it.
LEMMA UsedWithin ==
    ASSUME NEW g \in DOMAIN Grants, NEW s \in Funded(g), NEW usage \in Usages,
           Refused(s, usage) = {}, NEW d \in Dimensions(g)
    PROVE  /\ UsedOf(usage, d) \in Int /\ s.remaining[d] - UsedOf(usage, d) \in Nat
           /\ UsedOf(usage, d) \in Nat
<1>1. /\ s.remaining \in [Dimensions(g) -> Nat] /\ s.remaining[d] \in Nat
  BY DEF Funded
<1>2. CASE \E k \in DOMAIN usage : usage[k].dimension = d
  <2>1. PICK k \in DOMAIN usage : usage[k].dimension = d /\ UsedOf(usage, d) = usage[k].amount
    <3>1. /\ (CHOOSE k \in DOMAIN usage : usage[k].dimension = d) \in DOMAIN usage
          /\ usage[CHOOSE k \in DOMAIN usage : usage[k].dimension = d].dimension = d
      BY <1>2
    <3> QED BY <1>2, <3>1 DEF UsedOf
  <2>2. usage[k].amount \in Int
    BY AuthorityAssumption
  <2>3. ~ Malformed(s, usage[k]) /\ ~ (usage[k].amount > s.remaining[usage[k].dimension])
    BY DEF Refused
  <2>4. ~ (usage[k].amount < 0)
    BY <2>3 DEF Malformed
  <2>5. ~ (usage[k].amount > s.remaining[d])
    BY <2>1, <2>3
  <2> QED BY <1>1, <2>1, <2>2, <2>4, <2>5
<1>3. CASE ~ \E k \in DOMAIN usage : usage[k].dimension = d
  BY <1>1, <1>3 DEF UsedOf
<1> QED BY <1>2, <1>3

\* What consume makes of a session, refused or not.
LEMMA ConsumedFunded ==
    ASSUME NEW g \in DOMAIN Grants, NEW s \in Funded(g), NEW usage \in Usages
    PROVE  Consumed(s, usage) \in Funded(g)
<1>1. /\ s.remaining \in [Dimensions(g) -> Nat] /\ s.charged \in [Dimensions(g) -> Int]
      /\ s.terminated \in BOOLEAN /\ s.grant = g
      /\ s = [grant |-> g, terminated |-> s.terminated,
              remaining |-> s.remaining, charged |-> s.charged]
      /\ \A d \in Dimensions(g) : s.charged[d] + s.remaining[d] = Grants[g].budget[d]
  BY DEF Funded
<1>2. CASE s.terminated
  BY <1>2 DEF Consumed
<1>3. CASE ~ s.terminated /\ Refused(s, usage) # {}
  <2> DEFINE ends == ~ Malformed(s, usage[Min(Refused(s, usage))])
  <2>1. Consumed(s, usage) = [s EXCEPT !.terminated = ends]
    BY <1>3 DEF Consumed
  <2>2. ends \in BOOLEAN
    BY DEF Malformed
  <2> HIDE DEF ends
  <2>3. Consumed(s, usage) = [grant |-> g, terminated |-> ends,
                              remaining |-> s.remaining, charged |-> s.charged]
    BY <1>1, <2>1
  <2> QED BY <1>1, <2>2, <2>3 DEF Funded
<1>4. CASE ~ s.terminated /\ Refused(s, usage) = {}
  <2> DEFINE left == Less(s.remaining, usage)
             spent == [d \in DOMAIN s.charged |-> s.charged[d] + UsedOf(usage, d)]
  <2>1. Consumed(s, usage) = [s EXCEPT !.remaining = left, !.charged = spent]
    BY <1>4 DEF Consumed
  <2>2. /\ left \in [Dimensions(g) -> Nat]
        /\ \A d \in Dimensions(g) : left[d] = s.remaining[d] - UsedOf(usage, d)
    BY <1>1, <1>4, UsedWithin DEF Less
  <2>3. /\ spent \in [Dimensions(g) -> Int]
        /\ \A d \in Dimensions(g) : spent[d] = s.charged[d] + UsedOf(usage, d)
    BY <1>1, <1>4, UsedWithin
  <2> HIDE DEF left, spent
  <2>4. Consumed(s, usage) = [grant |-> g, terminated |-> s.terminated,
                              remaining |-> left, charged |-> spent]
    BY <1>1, <2>1
  <2>5. \A d \in Dimensions(g) : spent[d] + left[d] = Grants[g].budget[d]
    <3> TAKE d \in Dimensions(g)
    <3>1. UsedOf(usage, d) \in Int /\ s.remaining[d] \in Int /\ s.charged[d] \in Int
      BY <1>1, <1>4, UsedWithin
    <3> QED BY <1>1, <2>2, <2>3, <3>1
  <2> QED BY <1>1, <2>2, <2>3, <2>4, <2>5 DEF Funded
<1> QED BY <1>2, <1>3, <1>4

LEMMA BudgetStep == BudgetInv /\ [AuthorityNext]_authorityVars => BudgetInv'
<1> SUFFICES ASSUME BudgetInv, [AuthorityNext]_authorityVars PROVE BudgetInv'
  OBVIOUS
<1> DEFINE AllFunded == UNION {Funded(g) : g \in DOMAIN Grants}
<1>1. CASE UNCHANGED <<allowed, sessions>>
  BY <1>1 DEF BudgetInv
<1>2. ASSUME NEW request \in Requests, NEW lease \in leases, NEW approval \in Approvals \cup {NoApproval},
             Authorize(request, lease, approval)
      PROVE  BudgetInv'
  <2>1. Matching(request) \in SUBSET Nat /\ Matching(request) # {}
    BY <1>2, AuthorityAssumption DEF Authorize, Allows, Matching
  <2>2. Min(Matching(request)) \in DOMAIN Grants
    BY <2>1, LeastIsMember DEF Matching
  <2>3. allowed' = allowed \cup {[grant |-> Min(Matching(request)), lease |-> lease]}
    BY <1>2 DEF Authorize
  <2> QED BY <1>2, <2>2, <2>3 DEF Authorize, BudgetInv
<1>3. ASSUME NEW a \in allowed, Budget(a) PROVE BudgetInv'
  <2> DEFINE g == a.grant
             session == [grant |-> g, terminated |-> FALSE, remaining |-> Grants[g].budget,
                         charged |-> [d \in Dimensions(g) |-> 0]]
  <2>1. g \in DOMAIN Grants
    BY DEF BudgetInv
  <2>2. \A d \in Dimensions(g) : Grants[g].budget[d] \in Nat
    BY <2>1, AuthorityAssumption DEF Dimensions
  <2>3. Grants[g].budget \in [Dimensions(g) -> Nat]
    BY <2>1, <2>2, AuthorityAssumption DEF Dimensions
  <2>4. session \in Funded(g)
    BY <2>2, <2>3 DEF Funded
  <2>5. sessions' = Append(sessions, session) /\ allowed' = allowed
    BY <1>3 DEF Budget, Dimensions
  <2>6. session \in AllFunded
    BY <2>1, <2>4
  <2> HIDE DEF session, AllFunded
  <2>7. sessions' \in Seq(AllFunded)
    BY <2>5, <2>6 DEF BudgetInv, AllFunded
  <2> QED BY <2>5, <2>7 DEF BudgetInv, AllFunded
<1>4. ASSUME NEW i \in DOMAIN sessions, NEW usage \in Usages, Consume(i, usage) PROVE BudgetInv'
  <2>1. sessions \in Seq(AllFunded) /\ i \in 1..Len(sessions)
    BY DEF BudgetInv
  <2>2. sessions[i] \in AllFunded
    BY <2>1
  <2>3. PICK g \in DOMAIN Grants : sessions[i] \in Funded(g)
    BY <2>2
  <2>4. Consumed(sessions[i], usage) \in AllFunded
    BY <2>3, ConsumedFunded
  <2>5. sessions' = [sessions EXCEPT ![i] = Consumed(sessions[i], usage)] /\ allowed' = allowed
    BY <1>4 DEF Consume
  <2> HIDE DEF AllFunded
  <2>6. sessions' \in Seq(AllFunded)
    BY <2>1, <2>4, <2>5
  <2> QED BY <2>5, <2>6 DEF BudgetInv, AllFunded
<1>5. CASE \/ \E ttl \in Lifetimes : Issue(ttl)
           \/ \E h \in DOMAIN secrets : Revoke(h)
           \/ Tick
           \/ \E scope \in Scopes, capabilities \in SUBSET Capabilities, ttl \in Lifetimes :
                 GrantLease(scope, capabilities, ttl)
           \/ \E scope \in Scopes : WithdrawLease(scope)
  BY <1>1, <1>5 DEF Issue, Revoke, Tick, GrantLease, WithdrawLease
<1>6. CASE UNCHANGED authorityVars
  BY <1>1, <1>6 DEF authorityVars
<1> QED BY <1>2, <1>3, <1>4, <1>5, <1>6 DEF AuthorityNext

LEMMA Budgets == AuthoritySpec => []BudgetInv
<1>1. AuthorityInit => BudgetInv
  BY DEF AuthorityInit, BudgetInv
<1> QED BY <1>1, BudgetStep, PTL DEF AuthoritySpec

(* No session of any grant hands out more than the grant holds, whatever the  *)
(* usages and however many of them throw.                                     *)
THEOREM SpendingIsBounded == AuthoritySpec => []BudgetHeld
<1>1. BudgetInv => BudgetHeld
  <2> SUFFICES ASSUME BudgetInv, NEW i \in DOMAIN sessions
               PROVE  \A d \in DOMAIN Grants[sessions[i].grant].budget :
                         /\ sessions[i].remaining[d] \in Nat
                         /\ sessions[i].charged[d] + sessions[i].remaining[d]
                               = Grants[sessions[i].grant].budget[d]
    BY DEF BudgetHeld
  <2>1. sessions[i] \in UNION {Funded(g) : g \in DOMAIN Grants}
    BY DEF BudgetInv
  <2>2. PICK g \in DOMAIN Grants : sessions[i] \in Funded(g)
    BY <2>1
  <2> QED BY <2>2 DEF Funded, Dimensions
<1> QED BY <1>1, Budgets, PTL

\* Both files order the risks alike, so both find the same grants.
LEMMA SameRisks == \A requested, ceiling : riskAllowed(requested, ceiling) <=> withinRisk(requested, ceiling)
  BY DEF riskAllowed, withinRisk, RISK, ContractRisks

LEMMA SameGrant ==
    ASSUME NEW request, Matching(request) # {}
    PROVE  evaluatePolicy(request) = <<"allow", Min(Matching(request))>>
<1>1. Matching(request) = {i \in DOMAIN Grants :
                              /\ Grants[i].capability = request.capability
                              /\ Grants[i].scope = request.scope
                              /\ Grants[i].expiresAt > now
                              /\ withinRisk(request.risk, Grants[i].riskCeiling)}
  BY SameRisks DEF Matching, Matches
<1> QED BY <1>1 DEF evaluatePolicy

(* What the engine allows and charges is what the contract of the conformance *)
(* tests allows and computes.                                                 *)
THEOREM ContractKept == AuthoritySpec => []KeepsContract
<1>1. BudgetInv => KeepsContract
  <2> SUFFICES ASSUME BudgetInv PROVE KeepsContract
    OBVIOUS
  <2>1. \A r \in Requests, l \in leases, a \in Approvals \cup {NoApproval} : Allows(r, l, a) =>
           /\ evaluatePolicy(r) = <<"allow", Min(Matching(r))>>
           /\ r.approval = "exact" => a # NoApproval /\ assertApproval(r, a)
    BY SameRisks, SameGrant DEF Allows, ApprovalCovers, assertApproval
  <2>2. ASSUME NEW i \in DOMAIN sessions, NEW usage \in Usages,
               ~ sessions[i].terminated, Refused(sessions[i], usage) = {}
        PROVE  consumeBudget(sessions[i].remaining, usage)
                  = <<"remaining", Consumed(sessions[i], usage).remaining>>
    <3> DEFINE s == sessions[i]
    <3>1. s \in UNION {Funded(g) : g \in DOMAIN Grants}
      BY DEF BudgetInv
    <3>2. PICK g \in DOMAIN Grants : s \in Funded(g)
      BY <3>1
    <3> HIDE DEF s
    <3>3. s.remaining \in [Dimensions(g) -> Nat] /\ DOMAIN s = {"grant", "terminated", "remaining", "charged"}
      BY <3>2 DEF Funded
    <3>4. \A d \in DOMAIN s.remaining : UsedOf(usage, d) <= s.remaining[d]
      <4> TAKE d \in DOMAIN s.remaining
      <4>1. UsedOf(usage, d) \in Int /\ s.remaining[d] - UsedOf(usage, d) \in Nat /\ s.remaining[d] \in Nat
        BY <2>2, <3>2, <3>3, UsedWithin DEF s
      <4> QED BY <4>1
    <3>5. consumeBudget(s.remaining, usage) = <<"remaining", Less(s.remaining, usage)>>
      BY <3>4 DEF consumeBudget
    <3>6. Consumed(s, usage).remaining = Less(s.remaining, usage)
      BY <2>2, <3>3 DEF Consumed, s
    <3> QED BY <3>5, <3>6 DEF s
  <2> QED BY <2>1, <2>2 DEF KeepsContract
<1> QED BY <1>1, Budgets, PTL
-----------------------------------------------------------------------------
\* What the bounds add to the invariants of leases and budgets.
BoundsInv ==
    /\ now \in 0 .. MaxTime
    /\ generation \in [Scopes -> 0 .. MaxLeases]
    /\ \A l \in leases : l.generation \in 1 .. MaxLeases
    /\ \A a \in allowed : a.lease \in leases

LEMMA BoundsStep == BoundsInv /\ [AuthorityNext]_authorityVars => BoundsInv'
<1> SUFFICES ASSUME BoundsInv, [AuthorityNext]_authorityVars PROVE BoundsInv'
  OBVIOUS
<1>1. MaxTime \in Nat /\ MaxLeases \in Nat
  BY AuthorityAssumption
<1>2. CASE UNCHANGED <<now, generation, leases, allowed>>
  BY <1>2 DEF BoundsInv
<1>3. ASSUME NEW request \in Requests, NEW lease \in leases, NEW approval \in Approvals \cup {NoApproval},
             Authorize(request, lease, approval)
      PROVE  BoundsInv'
  <2>1. [grant |-> Min(Matching(request)), lease |-> lease].lease = lease
    OBVIOUS
  <2> QED BY <1>3, <2>1 DEF Authorize, BoundsInv
<1>4. CASE Tick
  BY <1>1, <1>4 DEF Tick, BoundsInv
<1>5. ASSUME NEW scope \in Scopes, NEW capabilities \in SUBSET Capabilities, NEW ttl \in Lifetimes,
             GrantLease(scope, capabilities, ttl)
      PROVE  BoundsInv'
  <2>1. generation[scope] + 1 \in 1 .. MaxLeases
    BY <1>1, <1>5 DEF GrantLease, BoundsInv
  <2> QED BY <1>5, <2>1 DEF GrantLease, BoundsInv
<1>6. ASSUME NEW scope \in Scopes, WithdrawLease(scope) PROVE BoundsInv'
  <2>1. generation[scope] + 1 \in 0 .. MaxLeases
    BY <1>1, <1>6 DEF WithdrawLease, BoundsInv
  <2> QED BY <1>6, <2>1 DEF WithdrawLease, BoundsInv
<1>7. CASE \/ \E authorization \in allowed : Budget(authorization)
           \/ \E i \in DOMAIN sessions, usage \in Usages : Consume(i, usage)
           \/ \E ttl \in Lifetimes : Issue(ttl)
           \/ \E h \in DOMAIN secrets : Revoke(h)
  BY <1>2, <1>7 DEF Budget, Consume, Issue, Revoke
<1>8. CASE UNCHANGED authorityVars
  BY <1>2, <1>8 DEF authorityVars
<1> QED BY <1>3, <1>4, <1>5, <1>6, <1>7, <1>8 DEF AuthorityNext

(* Every variable of the policy engine, the budgets and the broker keeps its  *)
(* type: in particular a budget is only ever opened for an authorization of   *)
(* one of the policy's grants, under a lease that was handed out.             *)
THEOREM AuthorityTypeCorrect == AuthoritySpec => []AuthorityTypeOK
<1>1. AuthorityInit => BoundsInv
  BY AuthorityAssumption DEF AuthorityInit, BoundsInv
<1>2. LeasesInv /\ BudgetInv /\ BoundsInv => AuthorityTypeOK
  <2> SUFFICES ASSUME LeasesInv, BudgetInv, BoundsInv PROVE AuthorityTypeOK
    OBVIOUS
  <2>1. \A i \in DOMAIN sessions : /\ sessions[i].grant \in DOMAIN Grants
                                   /\ sessions[i].terminated \in BOOLEAN
    <3> TAKE i \in DOMAIN sessions
    <3>1. sessions[i] \in UNION {Funded(g) : g \in DOMAIN Grants}
      BY DEF BudgetInv
    <3>2. PICK g \in DOMAIN Grants : sessions[i] \in Funded(g)
      BY <3>1
    <3> QED BY <3>2 DEF Funded
  <2> QED BY <2>1 DEF LeasesInv, BudgetInv, BoundsInv, AuthorityTypeOK
<1> QED BY <1>1, <1>2, BoundsStep, Leases, Budgets, PTL DEF AuthoritySpec
-----------------------------------------------------------------------------
(* What TLC runs is each of the three specifications: the theorems about them *)
(* hold of the instance it checks.                                            *)
THEOREM ServicesCompose == ServicesSpec => Spec /\ LedgerSpec /\ AuthoritySpec
<1>1. ServicesInit => Init /\ LedgerInit /\ AuthorityInit
  BY DEF ServicesInit
<1>2. [ServicesNext]_<<vars, ledgerVars, authorityVars>> =>
          [Next]_vars /\ [LedgerNext]_ledgerVars /\ [AuthorityNext]_authorityVars
  BY DEF ServicesNext, StoreOnly, LedgerOnly, AuthorityOnly, Next, LedgerNext, AuthorityNext
<1> QED BY <1>1, <1>2, PTL DEF ServicesSpec, Spec, LedgerSpec, AuthoritySpec

(* The variables of all three services keep their types.                      *)
THEOREM ServicesTypeCorrect == ServicesSpec => []ServicesTypeOK
<1>1. TypeOK /\ LedgerTypeOK /\ AuthorityTypeOK => ServicesTypeOK
  BY DEF ServicesTypeOK
<1> QED BY <1>1, ServicesCompose, TypeCorrect, LedgerTypeCorrect, AuthorityTypeCorrect, PTL
=============================================================================
