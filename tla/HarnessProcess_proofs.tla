------------------------ MODULE HarnessProcess_proofs ------------------------
(* Proofs about HarnessProcess: what a promise that resolves hands over, for  *)
(* every process tree, every budget and every way the harness may behave.     *)
EXTENDS HarnessProcess, TLAPS

ByteCounts == [Streams -> Nat]

TypeInv ==
    /\ exited \in BOOLEAN /\ terminating \in BOOLEAN
    /\ alive \subseteq Procs
    /\ unread \in ByteCounts /\ written \in ByteCounts /\ kept \in ByteCounts
    /\ outputBytes \in Nat
    /\ failure \in {"none", "time", "output"}
    /\ settled \in {"pending", "resolved", "rejected"}

\* As long as nothing was cut short, every byte written is in a pipe or kept,
\* and every byte read was within the budget.
NothingDropped ==
    ~ terminating =>
        /\ failure = "none" /\ force = "off"
        /\ \A s \in Streams : written[s] = kept[s] + unread[s]
        /\ outputBytes = kept["stdout"] + kept["stderr"] /\ outputBytes <= maxOutputBytes

\* A termination leaves its error.
FailureKept == terminating => failure # "none"

\* Once resolved, the pipes are at their end, the timer is cleared, and nobody
\* can write any more.
Over ==
    settled = "resolved" =>
        /\ ~ terminating /\ timeout = "cleared"
        /\ alive \cap Holders = {} /\ unread["stdout"] = 0 /\ unread["stderr"] = 0

Inv == TypeInv /\ NothingDropped /\ FailureKept /\ Over
-----------------------------------------------------------------------------
LEMMA InitInv == Init => Inv
<1> SUFFICES ASSUME Init PROVE Inv
  OBVIOUS
<1>1. alive \subseteq Procs
  <2>1. alive = {Child} \/ alive = {}
    BY DEF Init
  <2>2. QED
    BY <2>1 DEF Procs
<1>2. TypeInv
  BY <1>1 DEF Init, TypeInv, ByteCounts
<1>3. NothingDropped
  BY HarnessAssumption DEF Init, NothingDropped, Streams
<1>4. FailureKept /\ Over
  BY DEF Init, FailureKept, Over
<1>5. QED
  BY <1>2, <1>3, <1>4 DEF Inv

LEMMA NextInv == Inv /\ [Next]_vars => Inv'
<1> SUFFICES ASSUME Inv, [Next]_vars PROVE Inv'
  OBVIOUS
<1> USE HarnessAssumption DEF Inv
<1>1. ASSUME NEW p \in Procs, Fork(p) PROVE Inv'
  BY <1>1 DEF Fork, TypeInv, NothingDropped, FailureKept, Over, loop, Procs
<1>2. ASSUME NEW p \in Procs, Exit(p) PROVE Inv'
  BY <1>2 DEF Exit, TypeInv, NothingDropped, FailureKept, Over, loop
<1>3. ASSUME NEW p \in Procs, NEW s \in Streams, WriteOutput(p, s) PROVE Inv'
  <2>1. settled # "resolved"
    BY <1>3 DEF WriteOutput, Over
  <2>2. TypeInv'
    BY <1>3 DEF WriteOutput, TypeInv, loop, ByteCounts
  <2>3. NothingDropped'
    BY <1>3 DEF WriteOutput, TypeInv, NothingDropped, loop, ByteCounts
  <2>4. FailureKept' /\ Over'
    BY <1>3, <2>1 DEF WriteOutput, FailureKept, Over, loop
  <2>5. QED
    BY <2>2, <2>3, <2>4
<1>4. ASSUME NEW s \in Streams, NEW n \in 1..MaxWritten, Collect(s, n) PROVE Inv'
  <2>1. settled # "resolved"
    BY <1>4 DEF Collect, Over, TypeInv, ByteCounts, Streams
  <2>2. unread[s] - n \in Nat /\ kept[s] + n \in Nat /\ n \in Nat
    BY <1>4 DEF Collect, TypeInv, ByteCounts
  <2>3. TypeInv'
    <3>1. unread' \in ByteCounts /\ written' \in ByteCounts /\ outputBytes' \in Nat
      BY <1>4, <2>2 DEF Collect, TypeInv, ByteCounts
    <3>2. kept' \in ByteCounts
      BY <1>4, <2>2 DEF Collect, TypeInv, ByteCounts
    <3>3. /\ exited' \in BOOLEAN /\ terminating' \in BOOLEAN /\ alive' \subseteq Procs
          /\ failure' \in {"none", "time", "output"}
          /\ settled' \in {"pending", "resolved", "rejected"}
      BY <1>4 DEF Collect, terminate, TypeInv
    <3>4. QED
      BY <3>1, <3>2, <3>3 DEF TypeInv
  <2>4. NothingDropped'
    <3>1. CASE outputBytes + n > maxOutputBytes
      BY <1>4, <3>1 DEF Collect, terminate, NothingDropped
    <3>2. CASE ~ (outputBytes + n > maxOutputBytes)
      <4>1. ASSUME ~ terminating'
            PROVE  /\ failure' = "none" /\ force' = "off"
                   /\ outputBytes' = outputBytes + n /\ outputBytes' <= maxOutputBytes
                   /\ \A r \in Streams : written[r] = kept[r] + unread[r]
                   /\ outputBytes = kept["stdout"] + kept["stderr"]
        BY <1>4, <3>2, <4>1, <2>2 DEF Collect, NothingDropped, TypeInv
      <4>2. ASSUME ~ terminating', NEW r \in Streams PROVE written'[r] = kept'[r] + unread'[r]
        BY <1>4, <3>2, <4>1, <4>2, <2>2 DEF Collect, TypeInv, ByteCounts
      <4>3. ASSUME ~ terminating' PROVE outputBytes' = kept'["stdout"] + kept'["stderr"]
        BY <1>4, <3>2, <4>1, <4>3, <2>2 DEF Collect, TypeInv, ByteCounts, Streams
      <4>4. QED
        BY <4>1, <4>2, <4>3 DEF NothingDropped
    <3>3. QED
      BY <3>1, <3>2
  <2>5. FailureKept'
    BY <1>4 DEF Collect, terminate, FailureKept
  <2>6. Over'
    BY <1>4, <2>1 DEF Collect, Over
  <2>7. QED
    BY <2>3, <2>4, <2>5, <2>6
<1>5. CASE Timeout
  <2>1. settled # "resolved"
    BY <1>5 DEF Timeout, Over
  <2>2. terminating' /\ settled' = settled
    BY <1>5 DEF Timeout, terminate, TypeInv
  <2>3. TypeInv' /\ FailureKept'
    BY <1>5 DEF Timeout, terminate, TypeInv, FailureKept
  <2>4. QED
    BY <2>1, <2>2, <2>3 DEF NothingDropped, Over
<1>6. CASE ForceKill
  <2>1. alive' \subseteq alive
    BY <1>6 DEF ForceKill
  <2>2. terminating /\ settled # "resolved"
    BY <1>6 DEF ForceKill, NothingDropped, Over, TypeInv
  <2>3. /\ UNCHANGED <<unread, written, exited, kept, outputBytes>>
        /\ UNCHANGED <<failure, terminating, settled>>
    BY <1>6 DEF ForceKill
  <2>4. TypeInv'
    BY <2>1, <2>3 DEF TypeInv
  <2>5. QED
    BY <2>2, <2>3, <2>4 DEF NothingDropped, FailureKept, Over
<1>7. CASE ChildExited
  BY <1>7 DEF ChildExited, group, TypeInv, NothingDropped, FailureKept, Over
<1>8. CASE SpawnError
  BY <1>8 DEF SpawnError, group, TypeInv, NothingDropped, FailureKept, Over
<1>9. CASE Close
  <2>1. TypeInv' /\ NothingDropped' /\ FailureKept'
    BY <1>9 DEF Close, group, TypeInv, NothingDropped, FailureKept
  <2>2. unread["stdout"] = 0 /\ unread["stderr"] = 0
    BY <1>9 DEF Close, Total, TypeInv, ByteCounts, Streams
  <2>3. Over'
    BY <1>9, <2>2 DEF Close, group, Over, FailureKept, TypeInv
  <2>4. QED
    BY <2>1, <2>3
<1>10. CASE UNCHANGED vars
  BY <1>10 DEF vars, group, loop, TypeInv, NothingDropped, FailureKept, Over
<1>11. QED
  BY <1>1, <1>2, <1>3, <1>4, <1>5, <1>6, <1>7, <1>8, <1>9, <1>10 DEF Next

THEOREM Inductive == Spec => []Inv
  BY InitInv, NextInv, PTL DEF Spec

(* A promise that resolves hands over the whole output, within the budget,    *)
(* and nobody is left who could add to it.                                    *)
THEOREM ResolvedIsWhole == Spec => []ResolvedMeansWhole
<1>1. Inv => ResolvedMeansWhole
  <2> SUFFICES ASSUME Inv, settled = "resolved"
               PROVE  kept = written /\ Total(kept) <= maxOutputBytes /\ alive \cap Holders = {}
    BY DEF ResolvedMeansWhole
  <2>1. /\ ~ terminating /\ alive \cap Holders = {}
        /\ unread["stdout"] = 0 /\ unread["stderr"] = 0
    BY DEF Inv, Over
  <2>2. \A s \in Streams : written[s] = kept[s] + unread[s]
    BY <2>1 DEF Inv, NothingDropped
  <2>3. \A s \in Streams : written[s] = kept[s]
    BY <2>1, <2>2 DEF Inv, TypeInv, ByteCounts, Streams
  <2>4. kept = written
    BY <2>3 DEF Inv, TypeInv, ByteCounts
  <2>5. Total(kept) <= maxOutputBytes
    BY <2>1 DEF Inv, NothingDropped, Total
  <2>6. QED
    BY <2>1, <2>4, <2>5
<1>2. QED
  BY <1>1, Inductive, PTL

(* No timer signals the process group of an execution that resolved.          *)
THEOREM ResolvedIsUndisturbed == Spec => []ResolvedUndisturbed
<1>1. Inv => ResolvedUndisturbed
  BY DEF Inv, Over, ResolvedUndisturbed
<1>2. QED
  BY <1>1, Inductive, PTL
-----------------------------------------------------------------------------
\* The rest of the types, and the bookkeeping the bounds on the counters rest on:
\* every byte written is in a pipe or was counted, and every byte kept was counted.
Counted ==
    /\ alive \subseteq started /\ started \subseteq Procs /\ spawned \in BOOLEAN
    /\ timeout \in {"armed", "fired", "cleared"} /\ force \in {"armed", "off"}
    /\ Total(written) \in 0..MaxWritten
    /\ outputBytes + Total(unread) = Total(written)
    /\ Total(kept) <= outputBytes

LEMMA CountedInit == Init => Counted
<1>1. Init => {Child} \subseteq Procs
  BY DEF Procs
<1> QED BY <1>1, HarnessAssumption DEF Init, Counted, Total, Streams

LEMMA CountedStep == Inv /\ Counted /\ [Next]_vars => Counted'
<1> SUFFICES ASSUME Inv, Counted, [Next]_vars PROVE Counted'
  OBVIOUS
<1> USE HarnessAssumption DEF Inv
<1>1. ASSUME NEW p \in Procs, Fork(p) PROVE Counted'
  BY <1>1 DEF Fork, Counted, loop, Procs, Total
<1>2. ASSUME NEW p \in Procs, Exit(p) PROVE Counted'
  BY <1>2 DEF Exit, Counted, loop, Total
<1>3. ASSUME NEW p \in Procs, NEW s \in Streams, WriteOutput(p, s) PROVE Counted'
  <2>1. /\ Total(written)' = Total(written) + 1 /\ Total(unread)' = Total(unread) + 1
        /\ Total(written) \in Nat /\ Total(unread) \in Nat
    BY <1>3 DEF WriteOutput, TypeInv, ByteCounts, Total, Streams
  <2>2. Total(written) < MaxWritten
    BY <1>3 DEF WriteOutput
  <2>3. Total(written)' \in 0..MaxWritten /\ outputBytes' + Total(unread)' = Total(written)'
    BY <1>3, <2>1, <2>2 DEF WriteOutput, loop, Counted, TypeInv
  <2>4. /\ (alive \subseteq started /\ started \subseteq Procs /\ spawned \in BOOLEAN)'
        /\ (timeout \in {"armed", "fired", "cleared"} /\ force \in {"armed", "off"})'
        /\ Total(kept)' <= outputBytes'
    BY <1>3 DEF WriteOutput, loop, Counted, Total
  <2> QED BY <2>3, <2>4 DEF Counted
<1>4. ASSUME NEW s \in Streams, NEW n \in 1..MaxWritten, Collect(s, n) PROVE Counted'
  <2>1. n \in Nat /\ unread[s] - n \in Nat
    BY <1>4 DEF Collect, TypeInv, ByteCounts
  <2>2. Total(unread)' = Total(unread) - n /\ Total(unread) \in Nat
    BY <1>4, <2>1 DEF Collect, TypeInv, ByteCounts, Total, Streams
  <2>3. kept' = kept \/ kept' = [kept EXCEPT ![s] = @ + n]
    BY <1>4 DEF Collect
  <2>4. Total(kept)' <= Total(kept) + n /\ Total(kept)' \in Nat /\ Total(kept) \in Nat
    BY <2>1, <2>3 DEF TypeInv, ByteCounts, Total, Streams
  <2>5. outputBytes' = outputBytes + n /\ outputBytes \in Nat
    BY <1>4 DEF Collect, TypeInv
  <2>6. Total(written)' = Total(written)
    BY <1>4 DEF Collect, Total
  <2>7. (alive \subseteq started /\ started \subseteq Procs /\ spawned \in BOOLEAN)'
    BY <1>4 DEF Collect, terminate, Counted
  <2>8. (timeout \in {"armed", "fired", "cleared"} /\ force \in {"armed", "off"})'
    BY <1>4 DEF Collect, terminate, Counted
  <2>9. outputBytes' + Total(unread)' = Total(written)'
    BY <2>1, <2>2, <2>5, <2>6 DEF Counted
  <2>10. Total(kept)' <= outputBytes'
    BY <2>1, <2>4, <2>5 DEF Counted
  <2>11. Total(written)' \in 0..MaxWritten
    BY <2>6 DEF Counted
  <2> QED BY <2>7, <2>8, <2>9, <2>10, <2>11 DEF Counted
<1>5. CASE Timeout
  BY <1>5 DEF Timeout, terminate, Counted, Total
<1>6. CASE ForceKill
  BY <1>6 DEF ForceKill, Counted, Total
<1>7. CASE ChildExited
  BY <1>7 DEF ChildExited, group, Counted, Total
<1>8. CASE SpawnError
  BY <1>8 DEF SpawnError, group, Counted, Total
<1>9. CASE Close
  BY <1>9 DEF Close, group, Counted, Total
<1>10. CASE UNCHANGED vars
  BY <1>10 DEF vars, group, loop, Counted, Total
<1> QED BY <1>1, <1>2, <1>3, <1>4, <1>5, <1>6, <1>7, <1>8, <1>9, <1>10 DEF Next

(* Every variable keeps its type; no counter outgrows what was written.       *)
THEOREM TypeCorrect == Spec => []TypeOK
<1>1. Inv /\ Counted => TypeOK
  <2> SUFFICES ASSUME Inv, Counted PROVE TypeOK
    OBVIOUS
  <2>1. /\ unread \in ByteCounts /\ kept \in ByteCounts /\ outputBytes \in Nat
        /\ Total(written) <= MaxWritten /\ MaxWritten \in Nat
    BY HarnessAssumption DEF Inv, TypeInv, Counted
  <2>2. outputBytes <= MaxWritten /\ Total(unread) <= MaxWritten /\ Total(kept) <= MaxWritten
    BY <2>1 DEF Counted, Total, ByteCounts, Streams
  <2>3. \A s \in Streams : unread[s] \in 0..MaxWritten /\ kept[s] \in 0..MaxWritten
    BY <2>1, <2>2 DEF Total, ByteCounts, Streams
  <2>4. unread \in [Streams -> 0..MaxWritten] /\ kept \in [Streams -> 0..MaxWritten]
    BY <2>1, <2>3 DEF ByteCounts
  <2>5. outputBytes \in 0..MaxWritten
    BY <2>1, <2>2
  <2> QED BY <2>4, <2>5 DEF Inv, TypeInv, Counted, TypeOK
<1>2. Spec => []Counted
  BY CountedInit, CountedStep, Inductive, PTL DEF Spec
<1> QED BY <1>1, <1>2, Inductive, PTL
=============================================================================
