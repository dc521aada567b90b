------------------------------ MODULE Authority ------------------------------
(* What a controller may do, and for how long: PolicyEngine and its budget    *)
(* sessions (packages/policy/src/policy-engine.mjs), the secret broker        *)
(* (packages/broker/src/index.mjs), on one clock, beside the contract both    *)
(* tests and documents use (scripts/policy-contract.mjs).                     *)
(*                                                                            *)
(* Identifiers and digests are model values; requests that validateRequest    *)
(* throws out are left out. Leases come from outside the source: a new one    *)
(* takes the next generation of its scope, which ends the one before.         *)
EXTENDS Integers, Sequences, FiniteSets, FiniteSetsExt

CONSTANTS Grants,        \* the policy's grants, in order
          Requests, Approvals, NoApproval,
          Usages,        \* what a caller reports: <<dimension, amount>> pairs in order
          Scopes, Capabilities, Destinations,
          Lifetimes,     \* of leases and secrets
          MaxTime, MaxLeases, MaxSessions, MaxSecrets    \* bounds

ASSUME AuthorityAssumption ==
    /\ {MaxTime, MaxLeases, MaxSessions, MaxSecrets} \subseteq Nat
    /\ Lifetimes \subseteq Nat \ {0}
    /\ NoApproval \notin Approvals
    /\ DOMAIN Grants \subseteq Nat
    /\ \A i \in DOMAIN Grants :
          /\ Grants[i].expiresAt \in Nat
          /\ Grants[i].budget \in [DOMAIN Grants[i].budget -> Nat]
    /\ \A a \in Approvals : a.expiresAt \in Nat
    /\ \A usage \in Usages : \A k \in DOMAIN usage : usage[k].amount \in Int

VARIABLES now,           \* the clock
          generation,    \* currentGeneration, by scope
          leases,        \* the leases handed out
          allowed,       \* the authorizations returned: grant and lease
          sessions,      \* the budget sessions opened, in order
          secrets        \* the broker's map, by handle: expiry, or 0 once revoked

authorityVars == <<now, generation, leases, allowed, sessions, secrets>>

RISK == [read |-> 0, bounded_write |-> 1, elevated |-> 2, irreversible |-> 3]

riskAllowed(requested, ceiling) ==
    /\ {requested, ceiling} \subseteq DOMAIN RISK
    /\ RISK[requested] <= RISK[ceiling]

AuthorityInit ==
    /\ now = 0 /\ generation = [s \in Scopes |-> 0]
    /\ leases = {} /\ allowed = {} /\ sessions = <<>> /\ secrets = <<>>
-----------------------------------------------------------------------------
Matches(grant, request) ==
    /\ grant.capability = request.capability /\ grant.scope = request.scope
    /\ grant.expiresAt > now
    /\ riskAllowed(request.risk, grant.riskCeiling)

Matching(request) == {i \in DOMAIN Grants : Matches(Grants[i], request)}

\* Fault variant of LeaseCovers: a lease counts until it expires.
LeaseCoversAnyGeneration(lease, request) ==
    /\ lease.scope = request.scope /\ request.capability \in lease.capabilities
    /\ lease.expiresAt > now

LeaseCovers(lease, request) ==
    /\ lease.scope = request.scope /\ request.capability \in lease.capabilities
    /\ lease.expiresAt > now
    /\ lease.generation = generation[request.scope]

\* Fault variant of ApprovalCovers: what the approval was given for is not compared.
ApprovalCoversAnyHash(approval, request) ==
    request.approval = "exact" =>
        /\ approval # NoApproval
        /\ approval.expiresAt > now
        /\ riskAllowed(request.risk, approval.riskCeiling)

ApprovalCovers(approval, request) ==
    request.approval = "exact" =>
        /\ approval # NoApproval
        /\ approval.expiresAt > now
        /\ approval.requestHash = request.requestHash
        /\ riskAllowed(request.risk, approval.riskCeiling)

Allows(request, lease, approval) ==
    Matching(request) # {} /\ LeaseCovers(lease, request) /\ ApprovalCovers(approval, request)

\* authorize: the first grant that matches is returned with the lease.
Authorize(request, lease, approval) ==
    /\ Allows(request, lease, approval)
    /\ allowed' = allowed \cup {[grant |-> Min(Matching(request)), lease |-> lease]}
    /\ UNCHANGED <<now, generation, leases, sessions, secrets>>

\* budget: every call opens a session over the whole budget of the grant.
Budget(authorization) ==
    LET budget == Grants[authorization.grant].budget
    IN  /\ Len(sessions) < MaxSessions
        /\ sessions' = Append(sessions,
               [grant |-> authorization.grant, terminated |-> FALSE, remaining |-> budget,
                charged |-> [d \in DOMAIN budget |-> 0]])
        /\ UNCHANGED <<now, generation, leases, allowed, secrets>>

\* The entries of a usage that consume refuses, the first of which it throws on: an
\* unknown dimension or an amount that is no amount (-1), or more than remains.
Malformed(session, entry) ==
    entry.dimension \notin DOMAIN session.remaining \/ entry.amount < 0

Refused(session, usage) ==
    {k \in DOMAIN usage : \/ Malformed(session, usage[k])
                          \/ usage[k].amount > session.remaining[usage[k].dimension]}

UsedOf(usage, d) == IF \E k \in DOMAIN usage : usage[k].dimension = d
                    THEN usage[CHOOSE k \in DOMAIN usage : usage[k].dimension = d].amount
                    ELSE 0

Less(amounts, usage) == [d \in DOMAIN amounts |-> amounts[d] - UsedOf(usage, d)]

\* Fault variant of Consumed: what precedes the entry thrown on stays charged.
ConsumedInPlace(session, usage) ==
    LET bad == Refused(session, usage)
    IN  IF session.terminated THEN session
        ELSE IF bad = {}
        THEN [session EXCEPT !.remaining = Less(@, usage),
                             !.charged = [d \in DOMAIN @ |-> @[d] + UsedOf(usage, d)]]
        ELSE [session EXCEPT !.terminated = ~ Malformed(session, usage[Min(bad)]),
                             !.remaining = Less(@, SubSeq(usage, 1, Min(bad) - 1))]

\* consume: all of a usage is charged or nothing; too much of anything ends the session.
Consumed(session, usage) ==
    LET bad == Refused(session, usage)
    IN  IF session.terminated THEN session
        ELSE IF bad = {}
        THEN [session EXCEPT !.remaining = Less(@, usage),
                             !.charged = [d \in DOMAIN @ |-> @[d] + UsedOf(usage, d)]]
        ELSE [session EXCEPT !.terminated = ~ Malformed(session, usage[Min(bad)])]

Consume(i, usage) ==
    /\ sessions' = [sessions EXCEPT ![i] = Consumed(@, usage)]
    /\ UNCHANGED <<now, generation, leases, allowed, secrets>>
-----------------------------------------------------------------------------
Issue(ttl) ==
    /\ Len(secrets) < MaxSecrets
    /\ secrets' = Append(secrets, now + ttl)
    /\ UNCHANGED <<now, generation, leases, allowed, sessions>>

Revoke(h) ==
    /\ secrets' = [secrets EXCEPT ![h] = 0]
    /\ UNCHANGED <<now, generation, leases, allowed, sessions>>

\* Fault variant of Resolves: one expiry for all handles, that of the last.
ResolvesByLast(h, destination) ==
    destination \in Destinations /\ now < secrets[Len(secrets)]

\* resolve, at the default time.
Resolves(h, destination) == destination \in Destinations /\ now < secrets[h]
-----------------------------------------------------------------------------
\* External: the clock goes on; a lease is handed out or withdrawn.
Tick == /\ now < MaxTime /\ now' = now + 1
        /\ UNCHANGED <<generation, leases, allowed, sessions, secrets>>

GrantLease(scope, capabilities, ttl) ==
    /\ generation[scope] < MaxLeases
    /\ generation' = [generation EXCEPT ![scope] = @ + 1]
    /\ leases' = leases \cup {[scope |-> scope, capabilities |-> capabilities,
                               expiresAt |-> now + ttl, generation |-> generation[scope] + 1]}
    /\ UNCHANGED <<now, allowed, sessions, secrets>>

WithdrawLease(scope) ==
    /\ generation[scope] < MaxLeases
    /\ generation' = [generation EXCEPT ![scope] = @ + 1]
    /\ UNCHANGED <<now, leases, allowed, sessions, secrets>>

AuthorityNext ==
    \/ \E request \in Requests, lease \in leases, approval \in Approvals \cup {NoApproval} :
          Authorize(request, lease, approval)
    \/ \E authorization \in allowed : Budget(authorization)
    \/ \E i \in DOMAIN sessions, usage \in Usages : Consume(i, usage)
    \/ \E ttl \in Lifetimes : Issue(ttl)
    \/ \E h \in DOMAIN secrets : Revoke(h)
    \/ Tick
    \/ \E scope \in Scopes, capabilities \in SUBSET Capabilities, ttl \in Lifetimes :
          GrantLease(scope, capabilities, ttl)
    \/ \E scope \in Scopes : WithdrawLease(scope)

AuthoritySpec == AuthorityInit /\ [][AuthorityNext]_authorityVars
-----------------------------------------------------------------------------
AuthorityTypeOK ==
    /\ now \in 0 .. MaxTime
    /\ generation \in [Scopes -> 0 .. MaxLeases]
    /\ \A l \in leases : l.scope \in Scopes /\ l.generation \in 1 .. MaxLeases
    /\ \A a \in allowed : a.grant \in DOMAIN Grants /\ a.lease \in leases
    /\ \A i \in DOMAIN sessions : /\ sessions[i].grant \in DOMAIN Grants
                                  /\ sessions[i].terminated \in BOOLEAN
    /\ secrets \in Seq(Nat)

(* A lease is exclusive: of all the leases ever handed out for a scope, at    *)
(* most one authorizes anything at a time, however long the older ones would  *)
(* still have lasted.                                                         *)
OneHolder ==
    \A l, m \in leases :
        /\ \E r \in Requests, a \in Approvals \cup {NoApproval} : Allows(r, l, a)
        /\ \E r \in Requests, a \in Approvals \cup {NoApproval} : Allows(r, m, a)
        /\ l.scope = m.scope
        => l = m

(* What was refused stays refused: no passing of time, new lease, new secret  *)
(* or use revives an expired or superseded lease, an approval or a handle.    *)
RefusalsAreFinal ==
    [][/\ \A r \in Requests, l \in leases, a \in Approvals \cup {NoApproval} :
             Allows(r, l, a)' => Allows(r, l, a)
       /\ \A h \in DOMAIN secrets, d \in Destinations :
             Resolves(h, d)' => Resolves(h, d)]_authorityVars

(* No session hands out more than its grant holds, and what is left of it is  *)
(* what its successful calls have not used: a call that throws costs nothing. *)
BudgetHeld ==
    \A i \in DOMAIN sessions :
        LET s == sessions[i]
            budget == Grants[s.grant].budget
        IN  \A d \in DOMAIN budget : s.remaining[d] \in Nat /\ s.charged[d] + s.remaining[d] = budget[d]
-----------------------------------------------------------------------------
\* scripts/policy-contract.mjs has its own order of the risks and its own search.
ContractRisks == <<"read", "bounded_write", "elevated", "irreversible">>

withinRisk(requested, ceiling) ==
    \E i, j \in DOMAIN ContractRisks :
        ContractRisks[i] = requested /\ ContractRisks[j] = ceiling /\ i <= j

\* evaluatePolicy: the first grant for the request, or none.
evaluatePolicy(request) ==
    LET found == {i \in DOMAIN Grants :
                     /\ Grants[i].capability = request.capability
                     /\ Grants[i].scope = request.scope
                     /\ Grants[i].expiresAt > now
                     /\ withinRisk(request.risk, Grants[i].riskCeiling)}
    IN  IF found = {} THEN <<"deny">> ELSE <<"allow", Min(found)>>

assertApproval(request, approval) ==
    /\ approval.requestHash = request.requestHash
    /\ approval.expiresAt > now
    /\ withinRisk(request.risk, approval.riskCeiling)

\* consumeBudget: a dimension that is not in the budget goes unnoticed here.
consumeBudget(budget, usage) ==
    IF \A d \in DOMAIN budget : UsedOf(usage, d) <= budget[d]
    THEN <<"remaining", Less(budget, usage)>> ELSE <<"MGDS_BUDGET_EXHAUSTED">>

(* The engine keeps the contract the conformance tests state: what it allows, *)
(* evaluatePolicy allows by the same grant and assertApproval accepts, and    *)
(* what it charges is what consumeBudget computes; it may refuse more, never  *)
(* less.                                                                      *)
KeepsContract ==
    /\ \A r \in Requests, l \in leases, a \in Approvals \cup {NoApproval} : Allows(r, l, a) =>
          /\ evaluatePolicy(r) = <<"allow", Min(Matching(r))>>
          /\ r.approval = "exact" => a # NoApproval /\ assertApproval(r, a)
    /\ \A i \in DOMAIN sessions, usage \in Usages :
          LET s == sessions[i]
          IN  ~ s.terminated /\ Refused(s, usage) = {} =>
                 consumeBudget(s.remaining, usage) = <<"remaining", Consumed(s, usage).remaining>>
=============================================================================
