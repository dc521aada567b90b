------------------------------ MODULE MCPlayer -------------------------------
(* A development player for TLC: its probe, and the semantic world it shows.  *)
(* They share no state, so a behaviour exercises one of the two while the     *)
(* other stays as it began.                                                   *)
EXTENDS PlayerProbe, SemanticWorld, TLC

CONSTANTS door, key, r1, r2

\* Selected filters as SelectSeq does, and so as the code's Where does.
ASSUME SelectedIsSelectSeq ==
    \A s \in UNION {[1 .. n -> 1 .. 3] : n \in 0 .. 4}, wanted \in SUBSET (1 .. 3) :
        Selected(s, {i \in DOMAIN s : s[i] \in wanted}) = SelectSeq(s, LAMBDA x : x \in wanted)

\* While one of the two is exercised.
ProbeOnly == WorldInit /\ UNCHANGED worldVars
WorldOnly == Init /\ UNCHANGED vars

PlayerInit == Init /\ WorldInit

PlayerNext ==
    \/ Stop /\ ProbeOnly
    \/ InvalidateHandles /\ ProbeOnly
    \/ StopListener /\ ProbeOnly
    \/ Join /\ ProbeOnly
    \/ JoinTimesOut /\ ProbeOnly
    \/ Close /\ ProbeOnly
    \/ CloseGeneration /\ ProbeOnly
    \/ Clear /\ ProbeOnly
    \/ \E t \in Threads :
          \/ Start(t) /\ ProbeOnly
          \/ StartFails(t) /\ ProbeOnly
          \/ Connect(t) /\ ProbeOnly
          \/ AcceptFails(t) /\ ProbeOnly
          \/ Loop(t) /\ ProbeOnly
          \/ TakeListener(t) /\ ProbeOnly
          \/ AcceptStopped(t) /\ ProbeOnly
          \/ ReadGood(t) /\ ProbeOnly
          \/ ReadBad(t) /\ ProbeOnly
          \/ ReadThrows(t) /\ ProbeOnly
          \/ Authorize(t) /\ ProbeOnly
          \/ Count(t) /\ ProbeOnly
          \/ Format(t) /\ ProbeOnly
          \/ Write(t) /\ ProbeOnly
    \/ \E entityId \in Entities, state \in States : Upsert(entityId, state) /\ WorldOnly
    \/ \E r \in Readers, limit \in Limits : Poll(r, limit) /\ WorldOnly

\* The fairness is the probe's own: it asks for nothing until a Start or a Stop.
PlayerSpec == PlayerInit /\ [][PlayerNext]_<<vars, worldVars>> /\ Fairness

\* The variables of both keep their types.
PlayerTypeOK == TypeOK /\ WorldTypeOK
=============================================================================
