---------------------------- MODULE EventLedger -----------------------------
(* packages/artifacts/src/event-ledger.mjs: append and verify on one file of  *)
(* hash-chained lines. append reads the file, reads it again to verify it,    *)
(* and appends a line made from the first reading; nothing locks the file.    *)
EXTENDS Naturals, Sequences, SequencesExt

CONSTANTS Events, Appenders,
          Genesis,       \* sixty-four zeros, where the chain begins
          MaxLines,      \* bound: lines in the file
          MaxAlterations \* bound: times somebody else alters the file

ASSUME LedgerAssumption == MaxLines \in Nat /\ MaxAlterations \in Nat

VARIABLES lines,         \* the lines of the file: entries or Garbage
          open,          \* TRUE when the last line lacks its newline
          stage, seen,   \* each append's await, and the entries it read
          overlapped,    \* history: two appends have been in flight at once
          cut,           \* history: an append has died while writing
          altered,       \* history: how often somebody else has altered the file
          receipts       \* history: for each append that returned, the entries it
                         \* read with the one it returned behind them

ledgerVars == <<lines, open, stage, seen, overlapped, cut, altered, receipts>>

\* A line that JSON.parse rejects.
Garbage == [unparsable |-> TRUE]

\* SHA-256 of the canonical body: equal only for equal bodies.
digest(sequence, previousHash, event) == <<"sha256", sequence, previousHash, event>>

Entry(sequence, previousHash, event) ==
    [sequence |-> sequence, previousHash |-> previousHash, event |-> event,
     hash |-> digest(sequence, previousHash, event)]

\* entries: every line must parse.
Parses(file) == \A i \in 1..Len(file) : file[i] # Garbage

\* Fault variant of Verifies: only the links are compared, no hash is recomputed.
LinksOnly(file) ==
    /\ Parses(file)
    /\ \A i \in 1..Len(file) :
          /\ file[i].sequence = i
          /\ file[i].previousHash = IF i = 1 THEN Genesis ELSE file[i - 1].hash

\* verify: numbered from one, linked to the line before, and hashed as written.
Verifies(file) ==
    /\ Parses(file)
    /\ \A i \in 1..Len(file) :
          /\ file[i].sequence = i
          /\ file[i].previousHash = IF i = 1 THEN Genesis ELSE file[i - 1].hash
          /\ file[i].hash = digest(file[i].sequence, file[i].previousHash, file[i].event)

LedgerInit ==
    /\ lines = <<>> /\ open = FALSE
    /\ stage = [c \in Appenders |-> "idle"] /\ seen = [c \in Appenders |-> <<>>]
    /\ overlapped = FALSE /\ cut = FALSE /\ altered = 0 /\ receipts = {}
-----------------------------------------------------------------------------
Return(c) == stage' = [stage EXCEPT ![c] = "idle"] /\ seen' = [seen EXCEPT ![c] = <<>>]

\* append begins, up to its reading of the file.
Append_(c) ==
    /\ stage[c] = "idle"
    /\ stage' = [stage EXCEPT ![c] = "read"]
    /\ overlapped' = (overlapped \/ \E d \in Appenders : stage[d] # "idle")
    /\ UNCHANGED <<lines, open, seen, cut, altered, receipts>>

\* entries: the reading the new entry is made from.
ReadEntries(c) ==
    /\ stage[c] = "read"
    /\ IF Parses(lines)
       THEN /\ seen' = [seen EXCEPT ![c] = lines]
            /\ stage' = [stage EXCEPT ![c] = IF lines = <<>> THEN "write" ELSE "verify"]
       ELSE Return(c)
    /\ UNCHANGED <<lines, open, overlapped, cut, altered, receipts>>

\* verify reads the file once more.
Verify(c) ==
    /\ stage[c] = "verify"
    /\ IF Verifies(lines) THEN stage' = [stage EXCEPT ![c] = "write"] /\ UNCHANGED seen ELSE Return(c)
    /\ UNCHANGED <<lines, open, overlapped, cut, altered, receipts>>

\* Fault variants of NextEntry: numbered from zero; never linked.
NextEntryFromZero(c, event) ==
    Entry(Len(seen[c]), IF seen[c] = <<>> THEN Genesis ELSE Last(seen[c]).hash, event)

NextEntryUnlinked(c, event) == Entry(Len(seen[c]) + 1, Genesis, event)

NextEntry(c, event) ==
    Entry(Len(seen[c]) + 1, IF seen[c] = <<>> THEN Genesis ELSE Last(seen[c]).hash, event)

\* A line added to the file runs into a last line that lacks its newline.
Extended(line) == IF open THEN Front(lines) \o <<Garbage>> ELSE Append(lines, line)

\* appendFile adds the line at the end, wherever that is by now.
WriteLine(c, event) ==
    /\ stage[c] = "write" /\ Len(lines) < MaxLines
    /\ lines' = Extended(NextEntry(c, event))
    /\ receipts' = receipts \cup {Append(seen[c], NextEntry(c, event))}
    /\ open' = FALSE
    /\ Return(c)
    /\ UNCHANGED <<overlapped, cut, altered>>

\* The process dies. A write it was in may have left part of a line: a part
\* that does not parse, or all of it but the newline.
Die(c) ==
    /\ stage[c] # "idle"
    /\ Return(c)
    /\ \/ UNCHANGED <<lines, open, cut>>
       \/ /\ stage[c] = "write" /\ Len(lines) < MaxLines
          /\ cut' = TRUE /\ open' = TRUE
          /\ lines' \in {Extended(Garbage)} \cup {Extended(NextEntry(c, event)) : event \in Events}
    /\ UNCHANGED <<overlapped, altered, receipts>>

\* External: somebody else leaves other lines in the file.
Tampered(file) ==
    /\ altered < MaxAlterations /\ altered' = altered + 1
    /\ lines' = file /\ lines' # lines
    /\ UNCHANGED <<stage, seen, overlapped, cut, receipts>>

\* The event of one line is altered in place.
Alter(i, event) ==
    /\ lines[i] # Garbage
    /\ Tampered([lines EXCEPT ![i].event = event]) /\ UNCHANGED open

\* One line is written anew, linked to the line before it and hashed.
Rewrite(i, event) ==
    /\ i > 1 => lines[i - 1] # Garbage
    /\ Tampered([lines EXCEPT ![i] = Entry(i, IF i = 1 THEN Genesis ELSE lines[i - 1].hash, event)])
    /\ UNCHANGED open

\* The lines behind the n-th are dropped.
Truncate(n) == Tampered(SubSeq(lines, 1, n)) /\ open' = FALSE

LedgerNext ==
    \/ \E c \in Appenders :
          \/ Append_(c) \/ ReadEntries(c) \/ Verify(c) \/ Die(c)
          \/ \E event \in Events : WriteLine(c, event)
    \/ \E i \in 1..Len(lines), event \in Events : Alter(i, event) \/ Rewrite(i, event)
    \/ \E n \in 0..Len(lines) : Truncate(n)

LedgerSpec == LedgerInit /\ [][LedgerNext]_ledgerVars
-----------------------------------------------------------------------------
LedgerTypeOK ==
    /\ \A i \in 1..Len(lines) : lines[i] # Garbage =>
          lines[i].sequence \in 1..MaxLines + 1 /\ lines[i].event \in Events
    /\ Len(lines) <= MaxLines /\ {open, overlapped, cut} \subseteq BOOLEAN
    /\ stage \in [Appenders -> {"idle", "read", "verify", "write"}]
    /\ altered \in 0..MaxAlterations

(* Appends that take turns, live and have the file to themselves keep the     *)
(* chain: the file verifies, it ends in the entry of an append that returned, *)
(* and whatever an append returned stands where it was put, behind what that  *)
(* append had read. Overlapping appends (nothing locks the file), an append   *)
(* that dies in its write, and anybody else who writes are excluded: each     *)
(* breaks it.                                                                 *)
ChainUnbroken ==
    ~ overlapped /\ ~ cut /\ altered = 0 =>
        /\ Verifies(lines) /\ (lines = <<>> \/ lines \in receipts)
        /\ \A receipt \in receipts : IsPrefix(receipt, lines)

(* However appends overlap and die and whoever alters the file: where it      *)
(* verifies and still holds an entry that an append once returned, made from  *)
(* entries that verified, it holds before that entry exactly those entries.   *)
(* An attestation signs such an entry, the head. The hashes have no key:      *)
(* lines behind the last entry kept may be dropped or written anew, and the   *)
(* file verifies.                                                             *)
EntryFixesHistory ==
    Verifies(lines) =>
        \A receipt \in receipts :
            Verifies(receipt) /\ Len(receipt) <= Len(lines) /\ lines[Len(receipt)] = Last(receipt)
                => IsPrefix(receipt, lines)
=============================================================================
