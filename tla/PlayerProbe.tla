---------------------------- MODULE PlayerProbe ------------------------------
(* The probe of a development player, org.mgds.unity.player/Runtime: the main *)
(* thread starts and stops PlayerProbeServer and invalidates handles; each    *)
(* Start gives it a listener and an accept thread, numbered alike, which      *)
(* serve one client at a time from PlayerProbeSession. Nothing is locked.     *)
(*                                                                            *)
(* A client's line either presents the secret and an allowed capability or    *)
(* does not. Join may time out whenever its thread has not ended.             *)
EXTENDS Naturals, FiniteSets

CONSTANTS MaxRequests,     \* maxRequests
          MaxStarts,       \* bound: accept threads started
          MaxGeneration    \* bound on InvalidateHandles

ASSUME ProbeAssumption == {MaxRequests, MaxStarts, MaxGeneration} \subseteq Nat

VARIABLES main,            \* the main thread: idle, or where it is in Stop
          stopping,
          listener,        \* the fields listener and thread: 0 is null
          thread,
          listening,       \* the listeners whose socket is open
          at,              \* the accept threads
          taken,           \* the listener each accepts on
          reply,           \* and the handle it is about to send, or Rejected
          closed, generation, requestCount,    \* the session
          issued,          \* history: handles sent to clients
          timedOut         \* history: Join has timed out

serverVars == <<stopping, listener, thread, listening>>
threadVars == <<at, taken, reply>>
sessionVars == <<closed, generation, requestCount>>
vars == <<main, serverVars, threadVars, sessionVars, issued, timedOut>>

Threads == 1 .. MaxStarts
Rejected == [generation |-> 0, number |-> 0]

Init ==
    /\ main = "idle" /\ stopping = FALSE /\ listener = 0 /\ thread = 0 /\ listening = {}
    /\ at = [t \in Threads |-> "unborn"] /\ taken = [t \in Threads |-> 0]
    /\ reply = [t \in Threads |-> Rejected]
    /\ closed = FALSE /\ generation = 0 /\ requestCount = 0
    /\ issued = {} /\ timedOut = FALSE
-----------------------------------------------------------------------------
\* Start throws if there is a listener; stopping stays what it is.
Start(t) ==
    /\ main = "idle" /\ listener = 0
    /\ at[t] = "unborn" /\ \A u \in Threads : u < t => at[u] # "unborn"
    /\ listener' = t /\ thread' = t /\ listening' = listening \cup {t}
    /\ at' = [at EXCEPT ![t] = "loop"]
    /\ UNCHANGED <<main, stopping, taken, reply, sessionVars, issued, timedOut>>

\* The listener does not start, or the thread does not: the fields stay as they are set.
StartFails(t) ==
    /\ main = "idle" /\ listener = 0
    /\ at[t] = "unborn" /\ \A u \in Threads : u < t => at[u] # "unborn"
    /\ listener' = t
    /\ \/ UNCHANGED <<thread, listening>>
       \/ thread' = t /\ listening' = listening \cup {t}
    /\ UNCHANGED <<main, stopping, threadVars, sessionVars, issued, timedOut>>

\* Stop, called a second time, returns at once.
Stop ==
    /\ main = "idle" /\ ~ stopping
    /\ stopping' = TRUE /\ main' = "stopListener"
    /\ UNCHANGED <<listener, thread, listening, threadVars, sessionVars, issued, timedOut>>

\* Fault variant of StopListener: the socket stays open.
StopListenerLater ==
    /\ main = "stopListener" /\ main' = "join"
    /\ UNCHANGED <<serverVars, threadVars, sessionVars, issued, timedOut>>

StopListener ==
    /\ main = "stopListener" /\ main' = "join"
    /\ listening' = listening \ {listener}
    /\ UNCHANGED <<stopping, listener, thread, threadVars, sessionVars, issued, timedOut>>

\* Fault variant of Join: the thread is not waited for.
JoinWithoutWaiting ==
    /\ main = "join" /\ main' = "close"
    /\ UNCHANGED <<serverVars, threadVars, sessionVars, issued, timedOut>>

\* No thread, or one that is no longer alive.
Ended == {0} \cup {t \in Threads : at[t] \in {"unborn", "done"}}

Join ==
    /\ main = "join" /\ thread \in Ended
    /\ main' = "close"
    /\ UNCHANGED <<serverVars, threadVars, sessionVars, issued, timedOut>>

JoinTimesOut ==
    /\ main = "join" /\ thread \notin Ended
    /\ main' = "close" /\ timedOut' = TRUE
    /\ UNCHANGED <<serverVars, threadVars, sessionVars, issued>>

\* session.Close, whose two assignments other threads may see apart.
Close ==
    /\ main = "close" /\ main' = "increment"
    /\ closed' = TRUE
    /\ UNCHANGED <<serverVars, threadVars, generation, requestCount, issued, timedOut>>

CloseGeneration ==
    /\ main = "increment" /\ main' = "clear"
    /\ generation' = generation + 1
    /\ UNCHANGED <<serverVars, threadVars, closed, requestCount, issued, timedOut>>

\* Stop forgets listener and thread, and returns.
Clear ==
    /\ main = "clear" /\ main' = "idle"
    /\ listener' = 0 /\ thread' = 0
    /\ UNCHANGED <<stopping, listening, threadVars, sessionVars, issued, timedOut>>

InvalidateHandles ==
    /\ main = "idle" /\ generation < MaxGeneration
    /\ generation' = generation + 1
    /\ UNCHANGED <<main, serverVars, threadVars, closed, requestCount, issued, timedOut>>
-----------------------------------------------------------------------------
Goto(t, label) == at' = [at EXCEPT ![t] = label]

\* while (!stopping)
Loop(t) ==
    /\ at[t] = "loop"
    /\ Goto(t, IF stopping THEN "done" ELSE "accept")
    /\ UNCHANGED <<main, serverVars, taken, reply, sessionVars, issued, timedOut>>

\* AcceptTcpClient on whatever the field holds by now; null is caught like any exception.
TakeListener(t) ==
    /\ at[t] = "accept"
    /\ IF listener = 0 THEN Goto(t, "loop") /\ UNCHANGED taken
       ELSE Goto(t, "accepting") /\ taken' = [taken EXCEPT ![t] = listener]
    /\ UNCHANGED <<main, serverVars, reply, sessionVars, issued, timedOut>>

\* External: a client connects.
Connect(t) ==
    /\ at[t] = "accepting" /\ taken[t] \in listening
    /\ Goto(t, "read")
    /\ UNCHANGED <<main, serverVars, taken, reply, sessionVars, issued, timedOut>>

\* An exception of the socket ends the loop once stopping, any other is passed over.
AcceptThrows(t) ==
    /\ \E label \in IF stopping THEN {"done", "loop"} ELSE {"loop"} : Goto(t, label)
    /\ UNCHANGED <<main, serverVars, taken, reply, sessionVars, issued, timedOut>>

\* The listener has been stopped.
AcceptStopped(t) == at[t] = "accepting" /\ taken[t] \notin listening /\ AcceptThrows(t)

\* External: accept fails on an open socket.
AcceptFails(t) == at[t] = "accepting" /\ taken[t] \in listening /\ AcceptThrows(t)

\* ReadBoundedLine and Split: a line that presents what it should.
ReadGood(t) ==
    /\ at[t] = "read" /\ Goto(t, "authorize")
    /\ UNCHANGED <<main, serverVars, taken, reply, sessionVars, issued, timedOut>>

\* A line of other than two fields, or with a wrong secret or capability.
ReadBad(t) ==
    /\ at[t] = "read" /\ Goto(t, "write")
    /\ reply' = [reply EXCEPT ![t] = Rejected]
    /\ UNCHANGED <<main, serverVars, taken, sessionVars, issued, timedOut>>

\* Fault variant of ReadThrows: the exception ends the loop.
ReadThrowsOut(t) ==
    /\ at[t] = "read" /\ Goto(t, "done")
    /\ UNCHANGED <<main, serverVars, taken, reply, sessionVars, issued, timedOut>>

\* The client is gone or too slow, or its line too long or not UTF-8.
ReadThrows(t) ==
    /\ at[t] = "read" /\ Goto(t, "loop")
    /\ UNCHANGED <<main, serverVars, taken, reply, sessionVars, issued, timedOut>>

\* Authorize, as far as it reads and writes what the main thread shares.
Authorize(t) ==
    /\ at[t] = "authorize"
    /\ IF closed THEN Goto(t, "write") /\ reply' = [reply EXCEPT ![t] = Rejected]
       ELSE Goto(t, "count") /\ UNCHANGED reply
    /\ UNCHANGED <<main, serverVars, taken, sessionVars, issued, timedOut>>

\* Bound: requests beyond the budget are not told apart; the code counts on.
Count(t) ==
    /\ at[t] = "count"
    /\ requestCount' = IF requestCount > MaxRequests THEN requestCount ELSE requestCount + 1
    /\ IF requestCount' > MaxRequests
       THEN Goto(t, "write") /\ reply' = [reply EXCEPT ![t] = Rejected]
       ELSE Goto(t, "format") /\ UNCHANGED reply
    /\ UNCHANGED <<main, serverVars, taken, closed, generation, issued, timedOut>>

Format(t) ==
    /\ at[t] = "format" /\ Goto(t, "write")
    /\ reply' = [reply EXCEPT ![t] = [generation |-> generation, number |-> requestCount]]
    /\ UNCHANGED <<main, serverVars, taken, sessionVars, issued, timedOut>>

\* stream.Write, which may throw like everything in Handle.
Write(t) ==
    /\ at[t] = "write" /\ Goto(t, "loop")
    /\ issued' \in {issued, issued \cup ({reply[t]} \ {Rejected})}
    /\ UNCHANGED <<main, serverVars, taken, reply, sessionVars, timedOut>>

StopSteps == StopListener \/ Join \/ JoinTimesOut \/ Close \/ CloseGeneration \/ Clear

\* A thread's own steps: a read ends at the latest by its timeouts.
ThreadSteps(t) ==
    \/ Loop(t) \/ TakeListener(t) \/ AcceptStopped(t)
    \/ ReadGood(t) \/ ReadBad(t) \/ ReadThrows(t)
    \/ Authorize(t) \/ Count(t) \/ Format(t) \/ Write(t)

Next ==
    \/ Stop \/ InvalidateHandles \/ StopSteps
    \/ \E t \in Threads : Start(t) \/ StartFails(t) \/ Connect(t) \/ AcceptFails(t) \/ ThreadSteps(t)

\* Threads run on, and so does a Stop that was called; nobody has to call or connect.
Fairness == WF_vars(StopSteps) /\ \A t \in Threads : WF_vars(ThreadSteps(t))

Spec == Init /\ [][Next]_vars /\ Fairness
-----------------------------------------------------------------------------
Labels == {"unborn", "loop", "accept", "accepting", "read", "authorize", "count", "format",
           "write", "done"}

Handles == [generation : Nat, number : Nat]

TypeOK ==
    /\ main \in {"idle", "stopListener", "join", "close", "increment", "clear"}
    /\ {stopping, closed, timedOut} \subseteq BOOLEAN
    /\ listener \in 0 .. MaxStarts /\ thread \in 0 .. MaxStarts /\ listening \subseteq Threads
    /\ at \in [Threads -> Labels] /\ taken \in [Threads -> 0 .. MaxStarts]
    /\ reply \in [Threads -> Handles] /\ issued \subseteq Handles
    /\ generation \in Nat /\ requestCount \in Nat

(* Until Stop is called, a thread that was started serves a port that is     *)
(* open: whatever clients send and however accepting, reading or writing      *)
(* fails, the loop goes on.                                                   *)
PortServed ==
    ~ stopping => \A t \in Threads : at[t] # "unborn" => at[t] # "done" /\ t \in listening

(* After Stop, however late a client, Join's timeout or a later Start makes   *)
(* it, and wherever the two halves of Close fall, at most one handle of the   *)
(* last generation is given out: by the one thread that had passed Authorize. *)
(* If Join did not time out, no thread is serving anybody, also none of a     *)
(* later Start, and every handle a client holds is invalid.                   *)
StoppedIsSilent ==
    stopping /\ main = "idle" =>
        /\ \A handle, other \in issued :
              handle.generation >= generation /\ other.generation >= generation => handle = other
        /\ ~ timedOut => /\ \A t \in Threads : at[t] \in {"unborn", "loop", "done"}
                         /\ \A handle \in issued : handle.generation < generation

(* Stop returns, and every accept thread ends: all but one that, after a      *)
(* timeout of Join, got hold of the listener of a later Start.                *)
StopSettles ==
    stopping ~> /\ main = "idle"
                /\ \A t \in Threads :
                      \/ at[t] \in {"unborn", "done"}
                      \/ timedOut /\ at[t] = "accepting" /\ taken[t] > t
=============================================================================
