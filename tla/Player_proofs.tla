--------------------------- MODULE Player_proofs ----------------------------
(* Proofs about a development player: what its probe keeps to, for any number *)
(* of starts and requests, and what its semantic world tells those who read   *)
(* it, for any capacity of its queue.                                         *)
EXTENDS MCPlayer, FiniteSetTheorems, TLAPS

\* The handles that were given out, or are about to be, are of some generation
\* the session has been in.
HandlesInv ==
    /\ \A h \in issued : h.generation <= generation
    /\ \A t \in Threads : reply[t].generation <= generation

\* There is but one accept thread until a Stop has forgotten it.
OneThread ==
    /\ thread \in {0, listener}
    /\ main # "idle" => stopping
    /\ ~ stopping \/ main # "idle" => \A t \in Threads \ {thread} : at[t] = "unborn"

\* Once Join has returned in time nobody serves; once Close has, every handle is of the past.
SilentInv ==
    stopping /\ ~ timedOut =>
        /\ main \in {"close", "increment", "clear", "idle"} =>
               \A t \in Threads : at[t] \in {"unborn", "loop", "done"}
        /\ main \in {"clear", "idle"} => \A h \in issued : h.generation < generation

ProbeInv == TypeOK /\ OneThread /\ PortServed /\ HandlesInv /\ SilentInv
-----------------------------------------------------------------------------
LEMMA InitProbe == Init => ProbeInv
<1> SUFFICES ASSUME Init PROVE ProbeInv
  OBVIOUS
<1>1. Rejected \in Handles /\ Rejected.generation = 0
  BY DEF Rejected, Handles
<1>2. TypeOK
  <2>1. MaxStarts \in Nat
    BY ProbeAssumption
  <2>2. {stopping, closed, timedOut} \subseteq BOOLEAN
    BY DEF Init
  <2>3. main = "idle" /\ listener \in 0 .. MaxStarts /\ thread \in 0 .. MaxStarts /\ listening = {}
    BY <2>1 DEF Init
  <2>4. /\ at \in [Threads -> Labels] /\ taken \in [Threads -> 0 .. MaxStarts]
        /\ reply \in [Threads -> Handles]
    BY <1>1, <2>1 DEF Init, Labels
  <2> QED BY <2>2, <2>3, <2>4 DEF TypeOK, Init
<1>3. OneThread /\ PortServed /\ HandlesInv /\ SilentInv
  BY <1>1 DEF Init, OneThread, PortServed, HandlesInv, SilentInv
<1> QED BY <1>2, <1>3 DEF ProbeInv

\* The main thread's steps.
LEMMA MainKeeps ==
    ASSUME ProbeInv, Stop \/ StopListener \/ Join \/ JoinTimesOut \/ Close \/ CloseGeneration \/ Clear
                     \/ InvalidateHandles
    PROVE  ProbeInv'
<1> USE DEF ProbeInv, serverVars, threadVars, sessionVars
<1>1. CASE Stop
  BY <1>1 DEF Stop, TypeOK, OneThread, PortServed, HandlesInv, SilentInv
<1>2. CASE StopListener
  BY <1>2 DEF StopListener, TypeOK, OneThread, PortServed, HandlesInv, SilentInv
<1>3. CASE Join
  <2>1. /\ main = "join" /\ main' = "close"
        /\ UNCHANGED <<serverVars, threadVars, sessionVars, issued, timedOut>>
    BY <1>3 DEF Join
  <2>2. \A t \in Threads : at[t] \in {"unborn", "done"}
    <3>1. 0 \notin Threads
      BY ProbeAssumption DEF Threads
    <3> QED BY <1>3, <2>1, <3>1 DEF Join, Ended, OneThread
  <2>3. TypeOK' /\ OneThread' /\ PortServed' /\ HandlesInv'
    BY <2>1 DEF TypeOK, OneThread, PortServed, HandlesInv
  <2>4. SilentInv'
    BY <2>1, <2>2 DEF SilentInv
  <2> QED BY <2>3, <2>4
<1>4. CASE JoinTimesOut
  BY <1>4 DEF JoinTimesOut, TypeOK, OneThread, PortServed, HandlesInv, SilentInv
<1>5. CASE Close
  BY <1>5 DEF Close, TypeOK, OneThread, PortServed, HandlesInv, SilentInv
<1>6. CASE CloseGeneration \/ InvalidateHandles
  <2>1. generation \in Nat /\ generation' = generation + 1
    BY <1>6 DEF CloseGeneration, InvalidateHandles, TypeOK
  <2>2. /\ UNCHANGED <<serverVars, threadVars, closed, requestCount, issued, timedOut>>
        /\ \/ main = "increment" /\ main' = "clear"
           \/ main = "idle" /\ main' = "idle"
    BY <1>6 DEF CloseGeneration, InvalidateHandles
  <2>3. TypeOK'
    BY <2>1, <2>2 DEF TypeOK
  <2>4. OneThread' /\ PortServed'
    BY <2>2 DEF OneThread, PortServed
  <2>5. HandlesInv' /\ \A h \in issued' : h.generation < generation'
    BY <2>1, <2>2 DEF HandlesInv, TypeOK, Handles
  <2>6. SilentInv'
    BY <2>2, <2>5 DEF SilentInv
  <2> QED BY <2>3, <2>4, <2>5, <2>6
<1>7. CASE Clear
  BY <1>7, ProbeAssumption DEF Clear, TypeOK, OneThread, PortServed, HandlesInv, SilentInv
<1> QED BY <1>1, <1>2, <1>3, <1>4, <1>5, <1>6, <1>7

LEMMA StartKeeps == ASSUME ProbeInv, NEW t \in Threads, Start(t) PROVE ProbeInv'
<1> USE DEF ProbeInv
<1>1. /\ main = "idle" /\ listener = 0 /\ listener' = t /\ thread' = t
      /\ listening' = listening \cup {t} /\ at' = [at EXCEPT ![t] = "loop"]
      /\ UNCHANGED <<main, stopping, taken, reply, closed, generation, requestCount, issued, timedOut>>
  BY DEF Start, sessionVars
<1>2. t \in 1 .. MaxStarts /\ MaxStarts \in Nat
  BY ProbeAssumption DEF Threads
<1>3. TypeOK'
  <2>1. listener' \in 0 .. MaxStarts /\ thread' \in 0 .. MaxStarts /\ listening' \subseteq Threads
    BY <1>1, <1>2 DEF TypeOK, Threads
  <2>2. at' \in [Threads -> Labels]
    BY <1>1 DEF TypeOK, Labels
  <2> QED BY <1>1, <2>1, <2>2 DEF TypeOK
<1>4. /\ at'[t] = "loop" /\ \A u \in Threads \ {t} : at'[u] = at[u]
  BY <1>1 DEF TypeOK
<1>5. OneThread' /\ PortServed'
  BY <1>1, <1>2, <1>4 DEF OneThread, PortServed, TypeOK, Threads
<1>6. HandlesInv' /\ SilentInv'
  BY <1>1, <1>4 DEF HandlesInv, SilentInv
<1> QED BY <1>3, <1>5, <1>6

LEMMA StartFailsKeeps == ASSUME ProbeInv, NEW t \in Threads, StartFails(t) PROVE ProbeInv'
<1> USE DEF ProbeInv
<1>1. /\ main = "idle" /\ listener = 0 /\ listener' = t /\ thread' \in {thread, t}
      /\ listening' \in {listening, listening \cup {t}} /\ at[t] = "unborn"
      /\ UNCHANGED <<main, stopping, at, taken, reply, closed, generation, requestCount, issued, timedOut>>
  BY DEF StartFails, sessionVars, threadVars
<1>2. t \in 1 .. MaxStarts /\ MaxStarts \in Nat
  BY ProbeAssumption DEF Threads
<1>3. TypeOK'
  <2>1. listener' \in 0 .. MaxStarts /\ thread' \in 0 .. MaxStarts /\ listening' \subseteq Threads
    BY <1>1, <1>2 DEF TypeOK, Threads
  <2> QED BY <1>1, <2>1 DEF TypeOK
<1>4. OneThread'
  <2>1. thread = 0 /\ thread' \in {0, listener'}
    BY <1>1 DEF OneThread
  <2>2. 0 \notin Threads
    BY ProbeAssumption DEF Threads
  <2> QED BY <1>1, <2>1, <2>2 DEF OneThread
<1>5. PortServed' /\ HandlesInv' /\ SilentInv'
  BY <1>1 DEF PortServed, HandlesInv, SilentInv
<1> QED BY <1>3, <1>4, <1>5

\* A step of thread t alone, which ends only if it is stopping, serves only if
\* it served before or may, and gives out only the reply it had made.
LEMMA ThreadMoves ==
    ASSUME ProbeInv, NEW t \in Threads, NEW label \in Labels \ {"unborn"}, Goto(t, label),
           at[t] \notin {"unborn", "done"},
           label = "done" => stopping,
           at[t] = "loop" => label \in {"accept", "done"},
           at[t] = "loop" /\ stopping => label = "done",
           taken' \in [Threads -> 0 .. MaxStarts],
           requestCount' \in Nat,
           reply' \in [Threads -> Handles],
           \A u \in Threads : reply'[u] = reply[u] \/ reply'[u].generation \in {0, generation},
           issued' = issued \/ (at[t] = "write" /\ issued' \subseteq issued \cup {reply[t]}),
           UNCHANGED <<main, serverVars, closed, generation, timedOut>>
    PROVE  ProbeInv'
<1> USE DEF ProbeInv, serverVars
<1>1. at' \in [Threads -> Labels] /\ at'[t] = label /\ \A u \in Threads \ {t} : at'[u] = at[u]
  BY DEF Goto, TypeOK
<1>2. generation \in Nat /\ reply[t] \in Handles /\ reply[t].generation <= generation
  BY DEF TypeOK, HandlesInv
<1>3. TypeOK'
  BY <1>1, <1>2 DEF TypeOK
<1>4. OneThread'
  <2>1. ~ stopping \/ main # "idle" => t = thread
    BY DEF OneThread
  <2> QED BY <1>1, <2>1 DEF OneThread
<1>5. PortServed'
  BY <1>1 DEF PortServed
<1>6. HandlesInv'
  BY <1>2 DEF HandlesInv
<1>7. SilentInv'
  BY <1>1 DEF SilentInv
<1> QED BY <1>3, <1>4, <1>5, <1>6, <1>7

\* The steps of an accept thread, and those of its clients.
LEMMA ThreadKeeps ==
    ASSUME ProbeInv, NEW t \in Threads, Connect(t) \/ AcceptFails(t) \/ ThreadSteps(t)
    PROVE  ProbeInv'
<1> DEFINE Kept == UNCHANGED <<main, serverVars, closed, generation, timedOut>>
           Quiet == Kept /\ UNCHANGED <<requestCount, issued>>
           Replies(r) == reply' = [reply EXCEPT ![t] = r]
<1>1. Rejected \in Handles /\ Rejected.generation = 0
  BY DEF Rejected, Handles
<1>2. /\ taken \in [Threads -> 0 .. MaxStarts] /\ requestCount \in Nat /\ generation \in Nat
      /\ reply \in [Threads -> Handles]
  BY DEF ProbeInv, TypeOK
<1>3. ASSUME NEW r \in Handles, Replies(r), r.generation \in {0, generation}
      PROVE  /\ reply' \in [Threads -> Handles]
             /\ \A u \in Threads : reply'[u] = reply[u] \/ reply'[u].generation \in {0, generation}
  BY <1>2, <1>3
\* Reads, accepts and exceptions: only where t is changes, or what it accepts on.
<1>4. CASE \/ Connect(t) \/ ReadGood(t) \/ ReadThrows(t)
  <2>1. /\ Quiet /\ UNCHANGED <<taken, reply>> /\ at[t] \in {"accepting", "read"}
        /\ \E label \in {"read", "authorize", "loop"} : Goto(t, label)
    BY <1>4 DEF Connect, ReadGood, ReadThrows, sessionVars
  <2> QED BY <1>2, <2>1, ThreadMoves DEF Labels
<1>5. CASE AcceptFails(t) \/ AcceptStopped(t)
  <2>1. /\ Quiet /\ UNCHANGED <<taken, reply>> /\ at[t] = "accepting"
        /\ \E label \in {"done", "loop"} : Goto(t, label) /\ (label = "done" => stopping)
    BY <1>5 DEF AcceptFails, AcceptStopped, AcceptThrows, sessionVars
  <2> QED BY <1>2, <2>1, ThreadMoves DEF Labels
<1>6. CASE Loop(t)
  <2>1. /\ Quiet /\ UNCHANGED <<taken, reply>> /\ at[t] = "loop"
        /\ Goto(t, IF stopping THEN "done" ELSE "accept")
    BY <1>6 DEF Loop, sessionVars
  <2> QED BY <1>2, <2>1, ThreadMoves DEF Labels
<1>7. CASE TakeListener(t)
  <2>1. /\ Quiet /\ UNCHANGED reply /\ at[t] = "accept"
        /\ \E label \in {"loop", "accepting"} : Goto(t, label)
        /\ taken' = taken \/ taken' = [taken EXCEPT ![t] = listener]
    BY <1>7 DEF TakeListener, sessionVars
  <2>2. taken' \in [Threads -> 0 .. MaxStarts]
    BY <1>2, <2>1 DEF ProbeInv, TypeOK
  <2> QED BY <1>2, <2>1, <2>2, ThreadMoves DEF Labels
<1>8. CASE ReadBad(t) \/ Authorize(t)
  <2>1. /\ Quiet /\ UNCHANGED taken /\ at[t] \in {"read", "authorize"}
        /\ \E label \in {"write", "count"} : Goto(t, label)
        /\ reply' = reply \/ Replies(Rejected)
    BY <1>8 DEF ReadBad, Authorize, sessionVars
  <2>2. /\ reply' \in [Threads -> Handles]
        /\ \A u \in Threads : reply'[u] = reply[u] \/ reply'[u].generation \in {0, generation}
    BY <1>1, <1>2, <1>3, <2>1
  <2> QED BY <1>2, <2>1, <2>2, ThreadMoves DEF Labels
<1>9. CASE Count(t)
  <2>1. /\ Kept /\ UNCHANGED <<taken, issued>> /\ at[t] = "count"
        /\ requestCount' \in {requestCount, requestCount + 1}
        /\ \E label \in {"write", "format"} : Goto(t, label)
        /\ reply' = reply \/ Replies(Rejected)
    BY <1>9 DEF Count
  <2>2. /\ reply' \in [Threads -> Handles]
        /\ \A u \in Threads : reply'[u] = reply[u] \/ reply'[u].generation \in {0, generation}
    BY <1>1, <1>2, <1>3, <2>1
  <2> QED BY <1>2, <2>1, <2>2, ThreadMoves DEF Labels
<1>10. CASE Format(t)
  <2> DEFINE made == [generation |-> generation, number |-> requestCount]
  <2>1. Quiet /\ UNCHANGED taken /\ at[t] = "format" /\ Goto(t, "write") /\ Replies(made)
    BY <1>10 DEF Format, sessionVars
  <2>2. made \in Handles /\ made.generation = generation
    BY <1>2 DEF Handles
  <2>3. /\ reply' \in [Threads -> Handles]
        /\ \A u \in Threads : reply'[u] = reply[u] \/ reply'[u].generation \in {0, generation}
    BY <1>3, <2>1, <2>2
  <2> QED BY <1>2, <2>1, <2>3, ThreadMoves DEF Labels
<1>11. CASE Write(t)
  <2>1. /\ Kept /\ UNCHANGED <<taken, reply, requestCount>> /\ at[t] = "write" /\ Goto(t, "loop")
        /\ issued' = issued \/ issued' \subseteq issued \cup {reply[t]}
    BY <1>11 DEF Write, sessionVars
  <2> QED BY <1>2, <2>1, ThreadMoves DEF Labels
<1> QED BY <1>4, <1>5, <1>6, <1>7, <1>8, <1>9, <1>10, <1>11 DEF ThreadSteps

LEMMA NextProbe == ProbeInv /\ [Next]_vars => ProbeInv'
<1> SUFFICES ASSUME ProbeInv, [Next]_vars PROVE ProbeInv'
  OBVIOUS
<1>1. CASE UNCHANGED vars
  BY <1>1 DEF vars, serverVars, threadVars, sessionVars, ProbeInv, TypeOK, OneThread, PortServed,
              HandlesInv, SilentInv
<1>2. CASE Stop \/ InvalidateHandles \/ StopSteps
  BY <1>2, MainKeeps DEF StopSteps
<1>3. ASSUME NEW t \in Threads,
             Start(t) \/ StartFails(t) \/ Connect(t) \/ AcceptFails(t) \/ ThreadSteps(t)
      PROVE  ProbeInv'
  BY <1>3, StartKeeps, StartFailsKeeps, ThreadKeeps
<1> QED BY <1>1, <1>2, <1>3 DEF Next

(* Along every behaviour of the probe ProbeInv holds.                         *)
THEOREM ProbeInductive == Spec => []ProbeInv
BY InitProbe, NextProbe, PTL DEF Spec

(* Until Stop is called a thread that was started serves a port that is open, *)
(* whatever clients send and however accepting, reading or writing fails.     *)
THEOREM Served == Spec => []PortServed
<1>1. ProbeInv => PortServed
  BY DEF ProbeInv
<1> QED BY <1>1, ProbeInductive, PTL
-----------------------------------------------------------------------------
\* A thread that has passed Authorize's first check and has yet to answer.
Pending(t) == at[t] \in {"count", "format"} \/ (at[t] = "write" /\ reply[t] # Rejected)

\* The handles of the last generation.
Late == {h \in issued : h.generation >= generation}

\* No two threads are past the check at once; once the session is closed none gets
\* there, and with the first handle after Close none is there any more.
LateInv ==
    /\ stopping /\ main \in {"increment", "clear", "idle"} => closed
    /\ \A t, u \in Threads : Pending(t) /\ Pending(u) => t = u
    /\ stopping /\ main \in {"clear", "idle"} =>
          /\ \A h, g \in Late : h = g
          /\ Late # {} => \A t \in Threads : ~ Pending(t)

LEMMA LateInit == Init => LateInv
  BY DEF Init, LateInv, Pending, Late

\* A step that moves no thread past the check nor answers.
LEMMA MainLate ==
    ASSUME ProbeInv, LateInv, Stop \/ StopSteps \/ InvalidateHandles
    PROVE  LateInv'
<1>1. UNCHANGED <<at, reply, issued>>
  BY DEF Stop, StopSteps, StopListener, Join, JoinTimesOut, Close, CloseGeneration, Clear,
         InvalidateHandles, threadVars
<1>2. \A t \in Threads : Pending(t)' <=> Pending(t)
  BY <1>1 DEF Pending
<1>3. CASE CloseGeneration \/ InvalidateHandles
  <2>1. generation \in Nat /\ generation' = generation + 1
    BY <1>3 DEF CloseGeneration, InvalidateHandles, ProbeInv, TypeOK
  <2>2. \A h \in issued : h.generation \in Nat /\ h.generation <= generation
    BY DEF ProbeInv, TypeOK, HandlesInv, Handles
  <2>3. Late' = {}
    BY <1>1, <2>1, <2>2 DEF Late
  <2>4. UNCHANGED <<stopping, closed>> /\ (main = "increment" \/ main = "idle")
        /\ (main' = main \/ main = "increment")
    BY <1>3 DEF CloseGeneration, InvalidateHandles, serverVars
  <2> QED BY <1>2, <2>3, <2>4 DEF LateInv
<1>4. CASE Stop \/ StopListener \/ Join \/ JoinTimesOut \/ Close \/ Clear
  <2>1. generation' = generation
    BY <1>4 DEF Stop, StopListener, Join, JoinTimesOut, Close, Clear, sessionVars
  <2>2. Late' = Late
    BY <1>1, <2>1 DEF Late
  <2>3. \/ main' \in {"stopListener", "join", "close"}
        \/ main' = "increment" /\ closed'
        \/ main = "clear" /\ main' = "idle" /\ UNCHANGED <<stopping, closed>>
    BY <1>4 DEF Stop, StopListener, Join, JoinTimesOut, Close, Clear, sessionVars
  <2>4. main = "clear" => stopping
    BY DEF ProbeInv, OneThread
  <2> QED BY <1>2, <2>2, <2>3, <2>4 DEF LateInv
<1> QED BY <1>3, <1>4 DEF StopSteps

\* A step of one thread: it gets past the check only of an open session, and
\* answers only if it was past it.
LEMMA OneLate ==
    ASSUME ProbeInv, LateInv, NEW t \in Threads,
           \A u \in Threads \ {t} : at'[u] = at[u] /\ reply'[u] = reply[u],
           Pending(t)' => Pending(t) \/ (at[t] = "authorize" /\ ~ closed),
           issued' = issued \/ (Pending(t) /\ ~ Pending(t)' /\ issued' \subseteq issued \cup {reply[t]}),
           UNCHANGED <<main, stopping, closed, generation>>
    PROVE  LateInv'
<1>1. \A u \in Threads \ {t} : Pending(u)' <=> Pending(u)
  BY DEF Pending
<1>2. CASE Pending(t)' /\ ~ Pending(t)
  <2>1. at[t] = "authorize" /\ ~ closed /\ issued' = issued
    BY <1>2
  <2>2. ~ stopping \/ main \notin {"increment", "clear", "idle"}
    BY <2>1 DEF LateInv
  <2>3. \A u \in Threads \ {t} : at[u] = "unborn"
    BY <2>1, <2>2 DEF ProbeInv, OneThread
  <2>4. \A u \in Threads \ {t} : ~ Pending(u)
    BY <2>3 DEF Pending
  <2> QED BY <1>1, <2>2, <2>4 DEF LateInv
<1>3. CASE Pending(t)' => Pending(t)
  <2>1. \A u \in Threads : Pending(u)' => Pending(u)
    BY <1>1, <1>3
  <2>2. CASE issued' = issued
    <3>1. Late' = Late
      BY <2>2 DEF Late
    <3> QED BY <2>1, <3>1 DEF LateInv
  <2>3. CASE Pending(t) /\ ~ Pending(t)' /\ issued' \subseteq issued \cup {reply[t]}
    <3>1. \A u \in Threads : ~ Pending(u)'
      BY <1>1, <2>3 DEF LateInv
    <3>2. stopping /\ main \in {"clear", "idle"} => Late = {}
      BY <2>3 DEF LateInv
    <3>3. Late = {} => Late' \subseteq {reply[t]}
      BY <2>3 DEF Late
    <3> QED BY <3>1, <3>2, <3>3 DEF LateInv
  <2> QED BY <2>2, <2>3
<1> QED BY <1>2, <1>3

LEMMA ThreadLate ==
    ASSUME ProbeInv, LateInv, NEW t \in Threads,
           Start(t) \/ StartFails(t) \/ Connect(t) \/ AcceptFails(t) \/ ThreadSteps(t)
    PROVE  LateInv'
<1>1. at \in [Threads -> Labels] /\ reply \in [Threads -> Handles]
  BY DEF ProbeInv, TypeOK
<1>2. CASE Start(t) \/ StartFails(t)
  <2>1. /\ UNCHANGED <<main, stopping, closed, generation, issued, reply>>
        /\ at' = at \/ at' = [at EXCEPT ![t] = "loop"]
    BY <1>2 DEF Start, StartFails, sessionVars, threadVars
  <2>2. (Pending(t)' => Pending(t)) /\ \A u \in Threads \ {t} : at'[u] = at[u]
    BY <1>1, <2>1 DEF Pending
  <2> QED BY <2>1, <2>2, OneLate
<1>3. ASSUME NEW label, Goto(t, label)
      PROVE  at'[t] = label /\ \A u \in Threads \ {t} : at'[u] = at[u]
  BY <1>1, <1>3 DEF Goto
<1>4. CASE \/ Connect(t) \/ AcceptFails(t) \/ AcceptStopped(t) \/ Loop(t) \/ TakeListener(t)
           \/ ReadGood(t) \/ ReadThrows(t)
  <2>1. /\ UNCHANGED <<main, stopping, closed, generation, issued, reply>>
        /\ \E label \in {"read", "done", "loop", "accept", "accepting", "authorize"} : Goto(t, label)
    BY <1>4 DEF Connect, AcceptFails, AcceptStopped, AcceptThrows, Loop, TakeListener, ReadGood,
                ReadThrows, sessionVars, serverVars
  <2>2. ~ Pending(t)' /\ \A u \in Threads \ {t} : at'[u] = at[u]
    BY <1>3, <2>1 DEF Pending
  <2> QED BY <2>1, <2>2, OneLate
<1>5. CASE ReadBad(t) \/ Authorize(t) \/ Count(t)
  <2>1. /\ UNCHANGED <<main, stopping, closed, generation, issued>>
        /\ \/ Goto(t, "write") /\ reply' = [reply EXCEPT ![t] = Rejected]
           \/ Goto(t, "count") /\ reply' = reply /\ at[t] = "authorize" /\ ~ closed
           \/ Goto(t, "format") /\ reply' = reply /\ at[t] = "count"
    BY <1>5 DEF ReadBad, Authorize, Count, sessionVars, serverVars
  <2>2. \A u \in Threads \ {t} : at'[u] = at[u] /\ reply'[u] = reply[u]
    BY <1>1, <1>3, <2>1
  <2>3. Pending(t)' => Pending(t) \/ (at[t] = "authorize" /\ ~ closed)
    BY <1>1, <1>3, <2>1 DEF Pending
  <2> QED BY <2>1, <2>2, <2>3, OneLate
<1>6. CASE Format(t)
  <2>1. /\ UNCHANGED <<main, stopping, closed, generation, issued>> /\ at[t] = "format" /\ Goto(t, "write")
        /\ \A u \in Threads \ {t} : reply'[u] = reply[u]
    BY <1>1, <1>6 DEF Format, sessionVars, serverVars
  <2>2. Pending(t)
    BY <2>1 DEF Pending
  <2> QED BY <1>3, <2>1, <2>2, OneLate
<1>7. CASE Write(t)
  <2>1. /\ UNCHANGED <<main, stopping, closed, generation, reply>> /\ at[t] = "write" /\ Goto(t, "loop")
        /\ issued' = issued \/ (reply[t] # Rejected /\ issued' \subseteq issued \cup {reply[t]})
    BY <1>7 DEF Write, sessionVars, serverVars
  <2>2. ~ Pending(t)' /\ \A u \in Threads \ {t} : at'[u] = at[u]
    BY <1>3, <2>1 DEF Pending
  <2>3. reply[t] # Rejected => Pending(t)
    BY <2>1 DEF Pending
  <2> QED BY <2>1, <2>2, <2>3, OneLate
<1> QED BY <1>2, <1>4, <1>5, <1>6, <1>7 DEF ThreadSteps

LEMMA LateStep == ProbeInv /\ LateInv /\ [Next]_vars => LateInv'
<1> SUFFICES ASSUME ProbeInv, LateInv, [Next]_vars PROVE LateInv'
  OBVIOUS
<1>1. CASE UNCHANGED vars
  BY <1>1 DEF vars, serverVars, threadVars, sessionVars, LateInv, Pending, Late
<1> QED BY <1>1, MainLate, ThreadLate DEF Next

(* However late Join's timeout, a client or another Start makes it, after     *)
(* Stop one handle of the last generation is given out at most; if Join did   *)
(* not time out no thread serves anybody, also none of a later Start, and     *)
(* every handle a client holds is of a past generation.                       *)
THEOREM Silent == Spec => []StoppedIsSilent
<1>1. ProbeInv /\ LateInv => StoppedIsSilent
  BY DEF ProbeInv, SilentInv, LateInv, Late, StoppedIsSilent
<1> QED BY <1>1, LateInit, LateStep, ProbeInductive, PTL DEF Spec
-----------------------------------------------------------------------------
Event == [sequence : Nat, entityId : Entities]

\* The queue holds the newest events, one number after the other, and all there
\* were unless it is full.
QueueInv ==
    /\ sequence \in Nat /\ events \in Seq(Event)
    /\ Len(events) <= EventCapacity /\ Len(events) <= sequence
    /\ Len(events) < EventCapacity => Len(events) = sequence
    /\ \A i \in 1 .. Len(events) : events[i].sequence = sequence - Len(events) + i

ReadersInv ==
    /\ cursor \in [Readers -> Nat] /\ DOMAIN told = Readers
    /\ \A r \in Readers : cursor[r] <= sequence /\ told[r] \subseteq 1 .. cursor[r]

EntitiesInv == DOMAIN entities \subseteq Entities /\ \A e \in DOMAIN entities : entities[e] \in States

WorldInv == QueueInv /\ ReadersInv /\ EntitiesInv /\ GapsOnlyBeyondCapacity
\* Selecting a run of positions up to the last gives that part of the sequence.
LEMMA SelectedTail ==
    ASSUME NEW s, NEW m \in Nat, NEW a \in 1 .. m + 1, NEW k \in Nat, k = m - a + 1
    PROVE  /\ Cardinality(a .. m) = k
           /\ \A n \in 1 .. k : Selected(s, a .. m)[n] = s[a + n - 1]
<1>0. a \in Int /\ m \in Int /\ a <= m + 1
  OBVIOUS
<1>1. Cardinality(a .. m) = k
  <2>1. Cardinality(a .. m) = IF a > m THEN 0 ELSE m - a + 1
    BY <1>0, FS_Interval
  <2> QED BY <1>0, <2>1
<1>2. ASSUME NEW i \in a .. m PROVE Place(i, a .. m) = i - a + 1
  <2>1. {j \in a .. m : j <= i} = a .. i
    OBVIOUS
  <2>2. Cardinality(a .. i) = i - a + 1
    BY FS_Interval
  <2> QED BY <2>1, <2>2 DEF Place
<1>3. ASSUME NEW n \in 1 .. k PROVE AtPlace(n, a .. m) = a + n - 1 /\ a + n - 1 \in a .. m
  <2>1. a + n - 1 \in a .. m /\ Place(a + n - 1, a .. m) = n
    BY <1>2
  <2>2. \A i \in a .. m : Place(i, a .. m) = n => i = a + n - 1
    BY <1>2
  <2> QED BY <2>1, <2>2 DEF AtPlace
<1>4. Selected(s, a .. m) = [n \in 1 .. k |-> s[AtPlace(n, a .. m)]]
  BY <1>1 DEF Selected
<1> QED BY <1>1, <1>3, <1>4

LEMMA FunctionIsSeq ==
    ASSUME NEW S, NEW n \in Nat, NEW f \in [1 .. n -> S]
    PROVE  f \in Seq(S) /\ Len(f) = n
OBVIOUS

\* What a reader at cursor after is given: the oldest events in the queue that
\* it has not seen, without a gap between them, and no more than it asked for.
LEMMA Given ==
    ASSUME QueueInv, NEW after \in 0 .. sequence, NEW limit \in Nat \ {0},
           NEW first, first = IF after > sequence - Len(events) THEN after + 1 ELSE sequence - Len(events) + 1
    PROVE  /\ EventsAfter(after, limit) \in Seq(Event)
           /\ Len(EventsAfter(after, limit)) <= sequence - first + 1
           /\ \A i \in 1 .. Len(EventsAfter(after, limit)) : EventsAfter(after, limit)[i].sequence = first + i - 1
<1> DEFINE d == sequence - Len(events)
           keep == {i \in DOMAIN events : events[i].sequence > after}
           newer == Selected(events, keep)
           m == Min({limit, Len(newer)})
<1>1. /\ sequence \in Nat /\ Len(events) \in Nat /\ d \in Nat /\ first \in Nat
      /\ DOMAIN events = 1 .. Len(events)
  BY DEF QueueInv
<1>2. \A i \in 1 .. Len(events) : events[i].sequence = d + i /\ events[i] \in Event
  BY DEF QueueInv
<1> HIDE DEF d
<1>3. PICK a \in 1 .. Len(events) + 1 : first = d + a
  <2>1. first - d \in 1 .. Len(events) + 1 /\ first = d + (first - d)
    BY <1>1 DEF d
  <2> QED BY <2>1
<1>4. keep = a .. Len(events)
  <2>1. \A i \in 1 .. Len(events) : d + i > after <=> i >= a
    BY <1>1, <1>3 DEF d
  <2>2. keep = {i \in 1 .. Len(events) : d + i > after}
    BY <1>1, <1>2 DEF keep
  <2> QED BY <1>1, <1>3, <2>1, <2>2
<1> HIDE DEF keep, newer, m
<1>5. PICK k \in Nat : k = Len(events) - a + 1
  BY <1>1
<1>6. newer \in [1 .. k -> Event] /\ \A n \in 1 .. k : newer[n] = events[a + n - 1]
  <2>1. newer = Selected(events, a .. Len(events))
    BY <1>4 DEF newer
  <2>2. \A i \in a .. Len(events) : events[i] \in Event
    BY <1>1, <1>2
  <2>3. /\ Selected(events, a .. Len(events)) \in [1 .. k -> Event]
        /\ \A n \in 1 .. k : Selected(events, a .. Len(events))[n] = events[a + n - 1]
    <3>1. PICK size \in Nat : size = Len(events)
      BY <1>1
    <3>2. a \in 1 .. size + 1 /\ k = size - a + 1
      BY <1>3, <1>5, <3>1
    <3>3. \A n \in 1 .. k : Selected(events, a .. size)[n] = events[a + n - 1]
      BY <1>5, <3>1, <3>2, SelectedTail
    <3>4. Cardinality(a .. size) = k
      BY <1>5, <3>1, <3>2, SelectedTail
    <3>5. Selected(events, a .. size) = [n \in 1 .. k |-> events[AtPlace(n, a .. size)]]
      BY <3>4 DEF Selected
    <3>6. \A n \in 1 .. k : a + n - 1 \in a .. size
      BY <1>5, <3>1, <3>2
    <3>7. Selected(events, a .. size) \in [1 .. k -> Event]
      BY <2>2, <3>1, <3>3, <3>5, <3>6
    <3> QED BY <3>1, <3>3, <3>7
  <2> QED BY <2>1, <2>3
<1>7. newer \in Seq(Event) /\ Len(newer) = k /\ \A n \in 1 .. k : newer[n].sequence = first + n - 1
  <2>1. newer \in Seq(Event) /\ Len(newer) = k
    BY <1>5, <1>6, FunctionIsSeq
  <2>2. ASSUME NEW n \in 1 .. k PROVE newer[n].sequence = first + n - 1
    <3>1. newer[n] = events[a + n - 1] /\ a + n - 1 \in 1 .. Len(events)
      BY <1>1, <1>3, <1>5, <1>6
    <3>2. newer[n].sequence = d + (a + n - 1)
      BY <1>2, <3>1
    <3>3. d + (a + n - 1) = first + n - 1
      <4>1. d \in Nat /\ a \in Int /\ n \in Int
        BY <1>1, <1>5
      <4> QED BY <1>3, <4>1
    <3> QED BY <3>2, <3>3
  <2> QED BY <2>1, <2>2
<1>8. m \in {limit, Len(newer)} /\ m <= limit /\ m <= Len(newer)
  <2>1. limit \in Nat /\ Len(newer) \in Nat
    BY <1>7
  <2>2. \E x \in {limit, Len(newer)} : \A y \in {limit, Len(newer)} : x <= y
    BY <2>1
  <2> QED BY <2>1, <2>2 DEF Min, m
<1>9. EventsAfter(after, limit) = SubSeq(newer, 1, m)
  BY DEF EventsAfter, newer, keep, m
<1>10. /\ SubSeq(newer, 1, m) \in Seq(Event) /\ Len(SubSeq(newer, 1, m)) = m
      /\ \A i \in 1 .. m : SubSeq(newer, 1, m)[i] = newer[i]
  BY <1>7, <1>8
<1>11. m <= sequence - first + 1
  BY <1>1, <1>3, <1>5, <1>7, <1>8 DEF d
<1> QED BY <1>7, <1>8, <1>9, <1>10, <1>11

LEMMA InitWorld == WorldInit => WorldInv
<1> SUFFICES ASSUME WorldInit PROVE WorldInv
  OBVIOUS
<1>1. EventCapacity \in Nat \ {0} /\ Len(<<>>) = 0 /\ <<>> \in Seq(Event)
  BY WorldAssumption
<1>2. QueueInv
  BY <1>1 DEF WorldInit, QueueInv
<1>3. ReadersInv /\ EntitiesInv /\ GapsOnlyBeyondCapacity
  BY DEF WorldInit, ReadersInv, EntitiesInv, GapsOnlyBeyondCapacity
<1> QED BY <1>2, <1>3 DEF WorldInv

\* A change goes to the end of the queue, whose oldest event makes room if it is full.
LEMMA UpsertKeeps ==
    ASSUME WorldInv, NEW entityId \in Entities, NEW state \in States, Upsert(entityId, state)
    PROVE  WorldInv'
<1> DEFINE event == [sequence |-> sequence + 1, entityId |-> entityId]
           q == Append(events, event)
           size == Len(events)
           k == Max({1, Len(q) - EventCapacity + 1})
<1>1. /\ sequence \in Nat /\ size \in Nat /\ size <= EventCapacity /\ size <= sequence
      /\ size < EventCapacity => size = sequence
      /\ events \in Seq(Event) /\ EventCapacity \in Nat \ {0}
      /\ \A i \in 1 .. size : events[i].sequence = sequence - size + i
  BY WorldAssumption DEF WorldInv, QueueInv
<1>2. event \in Event /\ event.sequence = sequence + 1
  BY <1>1 DEF Event
<1> HIDE DEF event
<1>3. /\ q \in Seq(Event) /\ Len(q) = size + 1 /\ q[size + 1] = event
      /\ \A i \in 1 .. size : q[i] = events[i]
  BY <1>1, <1>2
<1>4. \A i \in 1 .. size + 1 : q[i].sequence = sequence - size + i
  <2>1. ASSUME NEW i \in 1 .. size + 1 PROVE q[i].sequence = sequence - size + i
    <3>1. CASE i = size + 1
      BY <1>1, <1>2, <1>3, <3>1
    <3>2. CASE i # size + 1
      BY <1>1, <1>3, <3>2
    <3> QED BY <3>1, <3>2
  <2> QED BY <2>1
<1>5. k = IF size < EventCapacity THEN 1 ELSE 2
  <2>1. Len(q) - EventCapacity + 1 = size - EventCapacity + 2
    BY <1>1, <1>3
  <2>2. CASE size < EventCapacity
    <3>1. size - EventCapacity + 2 <= 1 /\ size - EventCapacity + 2 \in Int
      BY <1>1, <2>2
    <3> QED BY <2>1, <2>2, <3>1 DEF Max
  <2>3. CASE size = EventCapacity
    <3>1. size - EventCapacity + 2 = 2
      BY <1>1, <2>3
    <3> QED BY <1>1, <2>1, <2>3, <3>1 DEF Max
  <2> QED BY <1>1, <2>2, <2>3
<1>6. events' = SubSeq(q, k, size + 1) /\ sequence' = sequence + 1
  BY <1>3 DEF Upsert, Recorded, Newest, event
<1> HIDE DEF q, k, size
<1>7. /\ SubSeq(q, k, size + 1) \in Seq(Event) /\ Len(SubSeq(q, k, size + 1)) = size + 2 - k
      /\ \A i \in 1 .. size + 2 - k : SubSeq(q, k, size + 1)[i] = q[k + i - 1]
  BY <1>1, <1>3, <1>5
<1>8. QueueInv'
  <2>1. Len(events') = size + 2 - k /\ events' \in Seq(Event) /\ sequence' \in Nat
    BY <1>1, <1>6, <1>7
  <2>2. ASSUME NEW i \in 1 .. size + 2 - k PROVE events'[i].sequence = sequence' - (size + 2 - k) + i
    <3>1. k + i - 1 \in 1 .. size + 1 /\ events'[i] = q[k + i - 1]
      BY <1>1, <1>5, <1>6, <1>7
    <3>2. events'[i].sequence = sequence - size + (k + i - 1)
      BY <1>4, <3>1
    <3>3. k \in {1, 2} /\ i \in Int
      BY <1>1, <1>5
    <3>4. sequence - size + (k + i - 1) = (sequence + 1) - (size + 2 - k) + i
      BY <1>1, <3>3
    <3>5. sequence' = sequence + 1
      BY <1>6
    <3> QED BY <3>2, <3>4, <3>5
  <2>3. /\ size + 2 - k <= EventCapacity /\ size + 2 - k <= sequence'
        /\ size + 2 - k < EventCapacity => size + 2 - k = sequence'
    BY <1>1, <1>5, <1>6
  <2> QED BY <2>1, <2>2, <2>3 DEF QueueInv
<1>9. cursor' = cursor /\ told' = told
  BY DEF Upsert
<1>10. ReadersInv'
  BY <1>1, <1>6, <1>9 DEF WorldInv, ReadersInv
<1>11. EntitiesInv'
  BY DEF WorldInv, EntitiesInv, Upsert
<1>12. GapsOnlyBeyondCapacity'
  <2> SUFFICES ASSUME NEW r \in Readers, NEW n \in 1 .. cursor[r], n \notin told[r]
               PROVE  n + EventCapacity <= sequence + 1
    BY <1>6, <1>9 DEF GapsOnlyBeyondCapacity
  <2>1. n + EventCapacity <= sequence /\ n \in Int
    BY DEF WorldInv, GapsOnlyBeyondCapacity, ReadersInv
  <2> QED BY <1>1, <2>1
<1> QED BY <1>8, <1>10, <1>11, <1>12 DEF WorldInv

\* A poll passes over nothing but what had left the queue.
LEMMA PollKeeps ==
    ASSUME WorldInv, NEW r \in Readers, NEW limit \in Limits, Poll(r, limit)
    PROVE  WorldInv'
<1> DEFINE given == EventsAfter(cursor[r], limit)
           size == Len(given)
           d == sequence - Len(events)
<1>1. /\ cursor[r] \in 0 .. sequence /\ limit \in Nat \ {0} /\ sequence \in Nat
      /\ cursor \in [Readers -> Nat] /\ told[r] \subseteq 1 .. cursor[r] /\ DOMAIN told = Readers
  BY WorldAssumption DEF WorldInv, QueueInv, ReadersInv
<1>2. Len(events) \in Nat /\ d \in Nat /\ (d > 0 => Len(events) = EventCapacity) /\ EventCapacity \in Nat
  BY WorldAssumption DEF WorldInv, QueueInv
<1>3. PICK first : first = IF cursor[r] > d THEN cursor[r] + 1 ELSE d + 1
  OBVIOUS
<1>4. /\ given \in Seq(Event) /\ size <= sequence - first + 1
      /\ \A i \in 1 .. size : given[i].sequence = first + i - 1
  <2>1. QueueInv /\ cursor[r] \in 0 .. sequence /\ limit \in Nat \ {0}
    BY <1>1 DEF WorldInv
  <2>2. first = IF cursor[r] > sequence - Len(events) THEN cursor[r] + 1 ELSE sequence - Len(events) + 1
    BY <1>3
  <2> QED BY <2>1, <2>2, Given
<1>5. first \in Nat /\ first > cursor[r] /\ first > d
  BY <1>1, <1>2, <1>3
<1>6. given # <<>> /\ cursor' = [cursor EXCEPT ![r] = Last(given).sequence]
      /\ told' = [told EXCEPT ![r] = @ \cup {event.sequence : event \in Range(given)}]
      /\ UNCHANGED <<entities, events, sequence>>
  BY DEF Poll
<1> HIDE DEF given, size, d
<1>7. size \in Nat \ {0} /\ DOMAIN given = 1 .. size
  BY <1>4, <1>6 DEF size
<1>8. Last(given).sequence = first + size - 1
  BY <1>4, <1>7 DEF Last, size
<1>9. {event.sequence : event \in Range(given)} = first .. first + size - 1
  <2>1. {event.sequence : event \in Range(given)} = {given[i].sequence : i \in 1 .. size}
    BY <1>7 DEF Range
  <2>2. {given[i].sequence : i \in 1 .. size} = {first + i - 1 : i \in 1 .. size}
    BY <1>4
  <2>3. {first + i - 1 : i \in 1 .. size} = first .. first + size - 1
    <3>1. \A n \in first .. first + size - 1 : n - first + 1 \in 1 .. size /\ n = first + (n - first + 1) - 1
      BY <1>5, <1>7
    <3>2. \A i \in 1 .. size : first + i - 1 \in first .. first + size - 1
      BY <1>5, <1>7
    <3> QED BY <3>1, <3>2
  <2> QED BY <2>1, <2>2, <2>3
<1>10. /\ cursor' \in [Readers -> Nat] /\ cursor'[r] = first + size - 1 /\ DOMAIN told' = Readers
       /\ told'[r] = told[r] \cup (first .. first + size - 1)
       /\ \A q \in Readers \ {r} : cursor'[q] = cursor[q] /\ told'[q] = told[q]
  BY <1>1, <1>5, <1>6, <1>7, <1>8, <1>9
<1>11. first + size - 1 <= sequence
  BY <1>1, <1>4, <1>5, <1>7
<1>12. ReadersInv'
  <2>1. cursor'[r] <= sequence /\ told'[r] \subseteq 1 .. cursor'[r]
    BY <1>1, <1>5, <1>7, <1>10, <1>11
  <2> QED BY <1>6, <1>10, <2>1 DEF WorldInv, ReadersInv
<1>13. QueueInv' /\ EntitiesInv'
  BY <1>6 DEF WorldInv, QueueInv, EntitiesInv
<1>14. GapsOnlyBeyondCapacity'
  <2> SUFFICES ASSUME NEW q \in Readers, NEW n \in 1 .. cursor'[q], n \notin told'[q]
               PROVE  n + EventCapacity <= sequence
    BY <1>6 DEF GapsOnlyBeyondCapacity
  <2>1. CASE q # r
    BY <1>10, <2>1 DEF WorldInv, GapsOnlyBeyondCapacity
  <2>2. CASE q = r
    <3>1. CASE n <= cursor[r]
      BY <1>1, <1>10, <2>2, <3>1 DEF WorldInv, GapsOnlyBeyondCapacity
    <3>2. CASE n > cursor[r]
      <4>1. n < first /\ n \in Nat
        BY <1>1, <1>5, <1>7, <1>10, <2>2
      <4>2. n <= d
        BY <1>1, <1>2, <1>3, <3>2, <4>1
      <4> QED BY <1>1, <1>2, <4>1, <4>2 DEF d
    <3> QED BY <1>1, <1>5, <1>7, <1>10, <2>2, <3>1, <3>2
  <2> QED BY <2>1, <2>2
<1> QED BY <1>12, <1>13, <1>14 DEF WorldInv

LEMMA NextWorld == WorldInv /\ [WorldNext]_worldVars => WorldInv'
<1> SUFFICES ASSUME WorldInv, [WorldNext]_worldVars PROVE WorldInv'
  OBVIOUS
<1>1. CASE UNCHANGED worldVars
  BY <1>1 DEF worldVars, WorldInv, QueueInv, ReadersInv, EntitiesInv, GapsOnlyBeyondCapacity
<1>2. CASE WorldNext
  BY <1>2, UpsertKeeps, PollKeeps DEF WorldNext
<1> QED BY <1>1, <1>2

(* Along every behaviour of the semantic world WorldInv holds: the queue is a *)
(* run of numbers up to the last one given out.                               *)
THEOREM WorldInductive == WorldSpec => []WorldInv
BY InitWorld, NextWorld, PTL DEF WorldSpec

(* Whatever the capacity of the queue, and however many events a reader asks  *)
(* for at a time, it passes over an event only when as many newer ones as the *)
(* queue holds had come in.                                                   *)
THEOREM GapsOnly == WorldSpec => []GapsOnlyBeyondCapacity
<1>1. WorldInv => GapsOnlyBeyondCapacity
  BY DEF WorldInv
<1> QED BY <1>1, WorldInductive, PTL

(* The types of the semantic world: its queue never outgrows its capacity,    *)
(* and a reader is told only of events up to its cursor.                      *)
THEOREM WorldTypeCorrect == WorldSpec => []WorldTypeOK
<1>1. WorldInv => WorldTypeOK
  <2> SUFFICES ASSUME WorldInv PROVE WorldTypeOK
    OBVIOUS
  <2>1. DOMAIN entities \subseteq Entities /\ Range(entities) \subseteq States
    BY DEF WorldInv, EntitiesInv, Range
  <2>2. \A event \in Range(events) : event.sequence \in 1 .. sequence /\ event.entityId \in Entities
    <3>1. ASSUME NEW i \in 1 .. Len(events)
          PROVE  events[i].sequence \in 1 .. sequence /\ events[i].entityId \in Entities
      <4>1. events[i] \in Event
        BY DEF WorldInv, QueueInv
      <4>2. /\ sequence \in Nat /\ Len(events) \in Nat /\ Len(events) <= sequence
            /\ events[i].sequence = sequence - Len(events) + i
        BY DEF WorldInv, QueueInv
      <4> QED BY <4>1, <4>2 DEF Event
    <3>2. DOMAIN events = 1 .. Len(events)
      BY DEF WorldInv, QueueInv
    <3> QED BY <3>1, <3>2 DEF Range
  <2>3. \A r \in Readers : cursor[r] \in 0 .. sequence /\ told[r] \subseteq 1 .. cursor[r]
    BY DEF WorldInv, QueueInv, ReadersInv
  <2>4. Len(events) <= EventCapacity
    BY DEF WorldInv, QueueInv
  <2> QED BY <2>1, <2>2, <2>3, <2>4 DEF WorldTypeOK
<1> QED BY <1>1, WorldInductive, PTL
-----------------------------------------------------------------------------
(* A player is its probe and its world side by side: each goes on as if the   *)
(* other were not there, so what is proved of one holds in the player.        *)
THEOREM PlayerComposes == PlayerSpec => Spec /\ WorldSpec
<1>1. PlayerInit => Init /\ WorldInit
  BY DEF PlayerInit
<1>2. PlayerNext => [Next]_vars /\ [WorldNext]_worldVars
  <2> SUFFICES ASSUME PlayerNext PROVE [Next]_vars /\ [WorldNext]_worldVars
    OBVIOUS
  <2>1. CASE Next /\ UNCHANGED worldVars
    BY <2>1
  <2>2. CASE WorldNext /\ UNCHANGED vars
    BY <2>2
  <2>3. \/ Next /\ UNCHANGED worldVars
        \/ WorldNext /\ UNCHANGED vars
    BY DEF PlayerNext, ProbeOnly, WorldOnly, Next, StopSteps, ThreadSteps, WorldNext
  <2> QED BY <2>1, <2>2, <2>3
<1>3. UNCHANGED <<vars, worldVars>> => UNCHANGED vars /\ UNCHANGED worldVars
  OBVIOUS
<1>4. [PlayerNext]_<<vars, worldVars>> => [Next]_vars /\ [WorldNext]_worldVars
  BY <1>2, <1>3
<1> QED BY <1>1, <1>4, PTL DEF PlayerSpec, Spec, WorldSpec

(* The types of the player's variables.                                       *)
THEOREM PlayerTypeCorrect == PlayerSpec => []PlayerTypeOK
<1>1. ProbeInv /\ WorldTypeOK => PlayerTypeOK
  BY DEF ProbeInv, PlayerTypeOK
<1> QED BY <1>1, ProbeInductive, WorldTypeCorrect, PlayerComposes, PTL
=============================================================================
