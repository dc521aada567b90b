----------------------------- MODULE MCServices -----------------------------
(* The services of one controller root for TLC: the artifact store, the event *)
(* ledger and the authority beside them. They share no state, so a behaviour  *)
(* exercises one of the three while the others stay as they began: the states *)
(* of the components add up, and none is missed.                              *)
(*                                                                            *)
(* Two blobs share a shard, so that two puts meet in the directories, in the  *)
(* object and in the manifest. Of two grants the first outlasts the second    *)
(* and allows less; one request asks for an exact approval.                   *)
EXTENDS ArtifactStore, EventLedger, Authority, TLC

CONSTANTS b1, b2, name1, name2, shard, c1, c2, a1, a2, e1, e2

MCShardOf == b1 :> shard @@ b2 :> shard

MCGrants ==
    << [capability |-> "build", scope |-> "project", riskCeiling |-> "bounded_write", expiresAt |-> 2,
        budget |-> [calls |-> 2, seconds |-> 1]],
       [capability |-> "build", scope |-> "project", riskCeiling |-> "elevated", expiresAt |-> 1,
        budget |-> [calls |-> 1]] >>

Request(risk, approval, hash) ==
    [capability |-> "build", scope |-> "project", risk |-> risk, approval |-> approval, requestHash |-> hash]
MCRequests == { Request("read", "none", "r1"), Request("bounded_write", "exact", "r1"),
                Request("elevated", "exact", "r2"), Request("irreversible", "none", "r1") }

MCApprovals ==
    { [requestHash |-> "r1", riskCeiling |-> "elevated", expiresAt |-> 1],
      [requestHash |-> "r2", riskCeiling |-> "bounded_write", expiresAt |-> 3] }

Use(dimension, amount) == [dimension |-> dimension, amount |-> amount]
MCUsages == { <<Use("calls", 1)>>, <<Use("calls", 1), Use("seconds", 1)>>, <<Use("seconds", 1), Use("calls", 2)>>,
              <<Use("calls", 1), Use("seconds", -1)>>, <<Use("bytes", 1)>> }

\* While one component is exercised.
StoreOnly == LedgerInit /\ AuthorityInit /\ UNCHANGED <<ledgerVars, authorityVars>>
LedgerOnly == Init /\ AuthorityInit /\ UNCHANGED <<vars, authorityVars>>
AuthorityOnly == Init /\ LedgerInit /\ UNCHANGED <<vars, ledgerVars>>

ServicesInit == Init /\ LedgerInit /\ AuthorityInit

ServicesNext ==
    \/ \E c \in Clients :
          \/ \E call \in Ops : Call(c, call) /\ StoreOnly
          \/ Lstat(c) /\ StoreOnly
          \/ Mkdir(c) /\ StoreOnly
          \/ Read(c) /\ StoreOnly
          \/ ReadExisting(c) /\ StoreOnly
          \/ WritePartial(c) /\ StoreOnly
          \/ RenameObject(c) /\ StoreOnly
          \/ RenameManifest(c) /\ StoreOnly
          \/ Crash(c) /\ StoreOnly
    \/ \E b \in Blobs : Damage(b) /\ StoreOnly
    \/ \E a \in Appenders :
          \/ Append_(a) /\ LedgerOnly
          \/ ReadEntries(a) /\ LedgerOnly
          \/ Verify(a) /\ LedgerOnly
          \/ Die(a) /\ LedgerOnly
          \/ \E event \in Events : WriteLine(a, event) /\ LedgerOnly
    \/ \E i \in 1..Len(lines), event \in Events :
          \/ Alter(i, event) /\ LedgerOnly
          \/ Rewrite(i, event) /\ LedgerOnly
    \/ \E n \in 0..Len(lines) : Truncate(n) /\ LedgerOnly
    \/ \E request \in Requests, lease \in leases, approval \in Approvals \cup {NoApproval} :
          Authorize(request, lease, approval) /\ AuthorityOnly
    \/ \E authorization \in allowed : Budget(authorization) /\ AuthorityOnly
    \/ \E i \in DOMAIN sessions, usage \in Usages : Consume(i, usage) /\ AuthorityOnly
    \/ \E ttl \in Lifetimes : Issue(ttl) /\ AuthorityOnly
    \/ \E h \in DOMAIN secrets : Revoke(h) /\ AuthorityOnly
    \/ Tick /\ AuthorityOnly
    \/ \E scope \in Scopes, capabilities \in SUBSET Capabilities, ttl \in Lifetimes :
          GrantLease(scope, capabilities, ttl) /\ AuthorityOnly
    \/ \E scope \in Scopes : WithdrawLease(scope) /\ AuthorityOnly

\* Clients, appenders and events are told apart by nothing but their names.
MCSymmetry == Permutations(Clients) \cup Permutations(Appenders) \cup Permutations(Events)

ServicesSpec == ServicesInit /\ [][ServicesNext]_<<vars, ledgerVars, authorityVars>>

\* The variables of all three keep their types.
ServicesTypeOK == TypeOK /\ LedgerTypeOK /\ AuthorityTypeOK
=============================================================================
