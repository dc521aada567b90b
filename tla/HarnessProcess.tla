--------------------------- MODULE HarnessProcess ---------------------------
(* packages/harness-runner/src/index.mjs: executeBoundedProcess, which runs a *)
(* harness under a time and an output budget, on a host with process groups.  *)
(* The event loop's callbacks (data, exit, close, the two timers) run between *)
(* the steps of the harness and of the processes it forks, which may write,   *)
(* fork and exit, or run on, whenever they like.                              *)
EXTENDS Naturals, FiniteSets

CONSTANTS Child,         \* the harness, leader of the process group
          Descendants,   \* the processes it may fork, in the same group
          Stubborn,      \* the processes that ignore SIGTERM
          Holders,       \* the processes that hold the ends of the output pipes
          maxOutputBytes,
          MaxWritten     \* bound: bytes written by the whole group

Procs == {Child} \cup Descendants

ASSUME HarnessAssumption ==
    /\ Child \notin Descendants /\ Child \in Holders
    /\ Holders \subseteq Procs /\ Stubborn \subseteq Procs
    /\ maxOutputBytes \in Nat \ {0} /\ MaxWritten \in Nat

Streams == {"stdout", "stderr"}

VARIABLES spawned,       \* FALSE when spawn itself failed
          started, alive,\* the processes forked so far, and those that still run
          unread,        \* bytes in each pipe
          exited,        \* child.exitCode or child.signalCode is set
          kept,          \* bytes collected from each stream
          outputBytes, failure, terminating,
          timeout, force,\* the two timers: "armed", or not
          settled,       \* of the promise
          written        \* history: bytes written to each stream

group == <<started, alive, unread, written>>
loop == <<exited, kept, outputBytes, failure, terminating, timeout, force, settled>>
vars == <<spawned, group, loop>>

Total(bytes) == bytes["stdout"] + bytes["stderr"]

Init ==
    /\ spawned \in BOOLEAN
    /\ started = {Child} /\ alive = IF spawned THEN {Child} ELSE {}
    /\ unread = [s \in Streams |-> 0] /\ written = [s \in Streams |-> 0]
    /\ exited = FALSE /\ kept = [s \in Streams |-> 0] /\ outputBytes = 0
    /\ failure = "none" /\ terminating = FALSE
    /\ timeout = "armed" /\ force = "off" /\ settled = "pending"
-----------------------------------------------------------------------------
(* The harness and its descendants; a pipe's end is inherited or not had.     *)
Fork(p) ==
    /\ p \in alive
    /\ \E d \in Descendants \ started :
          /\ d \in Holders => p \in Holders
          /\ started' = started \cup {d} /\ alive' = alive \cup {d}
    /\ UNCHANGED <<spawned, unread, written, loop>>

WriteOutput(p, s) ==
    /\ p \in alive \cap Holders /\ Total(written) < MaxWritten
    /\ unread' = [unread EXCEPT ![s] = @ + 1]
    /\ written' = [written EXCEPT ![s] = @ + 1]
    /\ UNCHANGED <<spawned, started, alive, loop>>

Exit(p) ==
    /\ p \in alive
    /\ alive' = alive \ {p}
    /\ UNCHANGED <<spawned, started, unread, written, loop>>
-----------------------------------------------------------------------------
(* The runner.                                                                *)

\* terminate: once, SIGTERM to the whole group and a timer to follow it up.
terminate(error) ==
    IF terminating THEN UNCHANGED <<failure, terminating, force, alive>>
    ELSE /\ terminating' = TRUE /\ failure' = error /\ force' = "armed"
         /\ alive' = alive \cap Stubborn

\* Fault variant of Collect: each stream has the budget to itself.
CollectPerStream(s, n) ==
    /\ n <= unread[s]
    /\ unread' = [unread EXCEPT ![s] = @ - n]
    /\ outputBytes' = outputBytes + n
    /\ IF kept[s] + n > maxOutputBytes
       THEN terminate("output") /\ UNCHANGED kept
       ELSE /\ kept' = [kept EXCEPT ![s] = @ + n]
            /\ UNCHANGED <<failure, terminating, force, alive>>
    /\ UNCHANGED <<spawned, started, written, exited, timeout, settled>>

\* collect: a chunk of n bytes; the one that goes over the budget is dropped.
Collect(s, n) ==
    /\ n <= unread[s]
    /\ unread' = [unread EXCEPT ![s] = @ - n]
    /\ outputBytes' = outputBytes + n
    /\ IF outputBytes + n > maxOutputBytes
       THEN terminate("output") /\ UNCHANGED kept
       ELSE /\ kept' = [kept EXCEPT ![s] = @ + n]
            /\ UNCHANGED <<failure, terminating, force, alive>>
    /\ UNCHANGED <<spawned, started, written, exited, timeout, settled>>

Timeout ==
    /\ spawned /\ timeout = "armed"
    /\ timeout' = "fired"
    /\ terminate("time")
    /\ UNCHANGED <<spawned, started, unread, written, exited, kept, outputBytes, settled>>

\* Fault variant of ForceKill: SIGTERM is sent a second time.
ForceGently ==
    /\ force = "armed" /\ force' = "off"
    /\ alive' = IF exited THEN alive ELSE alive \cap Stubborn
    /\ UNCHANGED <<spawned, started, unread, written, exited, kept, outputBytes,
                   failure, terminating, timeout, settled>>

\* A second later: SIGKILL to the group, unless the child itself has exited.
ForceKill ==
    /\ force = "armed" /\ force' = "off"
    /\ alive' = IF exited THEN alive ELSE {}
    /\ UNCHANGED <<spawned, started, unread, written, exited, kept, outputBytes,
                   failure, terminating, timeout, settled>>

\* The loop learns that the child is gone.
ChildExited ==
    /\ spawned /\ Child \notin alive /\ ~ exited
    /\ exited' = TRUE
    /\ UNCHANGED <<spawned, group, kept, outputBytes, failure, terminating, timeout, force, settled>>

\* The error event of a spawn that failed.
SpawnError ==
    /\ ~ spawned /\ settled = "pending"
    /\ timeout' = "cleared" /\ settled' = "rejected"
    /\ UNCHANGED <<spawned, group, exited, kept, outputBytes, failure, terminating, force>>

\* Fault variants of Close: settled on exit, without waiting for the pipes; the
\* timer is left running.
CloseOnExit ==
    /\ exited /\ settled = "pending"
    /\ timeout' = "cleared"
    /\ settled' = IF failure = "none" THEN "resolved" ELSE "rejected"
    /\ UNCHANGED <<spawned, group, exited, kept, outputBytes, failure, terminating, force>>

CloseUncleared ==
    /\ exited /\ settled = "pending"
    /\ alive \cap Holders = {} /\ Total(unread) = 0
    /\ settled' = IF failure = "none" THEN "resolved" ELSE "rejected"
    /\ UNCHANGED <<spawned, group, exited, kept, outputBytes, failure, terminating, timeout, force>>

\* close: the child has exited and both pipes are at their end.
Close ==
    /\ exited /\ settled = "pending"
    /\ alive \cap Holders = {} /\ Total(unread) = 0
    /\ timeout' = "cleared"
    /\ settled' = IF failure = "none" THEN "resolved" ELSE "rejected"
    /\ UNCHANGED <<spawned, group, exited, kept, outputBytes, failure, terminating, force>>

Next ==
    \/ \E p \in Procs : Fork(p) \/ Exit(p) \/ \E s \in Streams : WriteOutput(p, s)
    \/ \E s \in Streams, n \in 1..MaxWritten : Collect(s, n)
    \/ Timeout \/ ForceKill \/ ChildExited \/ SpawnError \/ Close

(* The event loop runs its callbacks. The force timer is unref'd, so nothing  *)
(* keeps it once the promise is settled. The harness owes nothing.            *)
Fairness ==
    /\ \A s \in Streams : WF_vars(\E n \in 1..MaxWritten : Collect(s, n))
    /\ WF_vars(Timeout) /\ WF_vars(settled = "pending" /\ ForceKill)
    /\ WF_vars(ChildExited) /\ WF_vars(SpawnError) /\ WF_vars(Close)

Spec == Init /\ [][Next]_vars /\ Fairness
-----------------------------------------------------------------------------
TypeOK ==
    /\ alive \subseteq started /\ started \subseteq Procs
    /\ unread \in [Streams -> 0..MaxWritten] /\ kept \in [Streams -> 0..MaxWritten]
    /\ outputBytes \in 0..MaxWritten
    /\ {spawned, exited, terminating} \subseteq BOOLEAN
    /\ failure \in {"none", "time", "output"}
    /\ timeout \in {"armed", "fired", "cleared"} /\ force \in {"armed", "off"}
    /\ settled \in {"pending", "resolved", "rejected"}

(* A promise that resolves hands over the harness's whole output, that of its *)
(* descendants on the same pipes included, within the budget for both streams *)
(* together, and nobody is left who could add to it.                          *)
ResolvedMeansWhole ==
    settled = "resolved" =>
        kept = written /\ Total(kept) <= maxOutputBytes /\ alive \cap Holders = {}

(* An execution that resolved is over: no timer signals the process group of  *)
(* a harness that kept to its budgets, then or later.                         *)
ResolvedUndisturbed == settled = "resolved" => ~ terminating

\* close is kept waiting: the harness has gone, a descendant on its pipes has not.
LeftBehind == exited /\ alive \cap Holders # {}

(* The limits: whatever the harness and its descendants write, fork and       *)
(* ignore, the promise settles, unless the harness exits and descendants on   *)
(* its pipes run on for ever. Nothing is sent to those: a process group whose *)
(* leader has exited gets no SIGKILL.                                         *)
Settles == ~ <>[]LeftBehind => <>(settled # "pending")

(* docs/campaign-operations.html: "execution has time and output limits;      *)
(* descendant processes are terminated".                                      *)
DescendantsTerminated == terminating ~> (alive = {})
=============================================================================
