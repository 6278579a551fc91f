------------------------------- MODULE Tables -------------------------------
(***************************************************************************)
(* What the tables share: the lists that queries and pages make of them,   *)
(* and the actions the audit log takes.                                    *)
(***************************************************************************)
EXTENDS Integers, Sequences, FiniteSets

\* The members of a finite set, in a strict order given as a set of pairs.
Listing(S, order) ==
    [k \in 1..Cardinality(S) |-> CHOOSE x \in S : Cardinality({y \in S : <<y, x>> \in order}) = k - 1]

\* Places in a table, which is in the order in which its rows were written.
OldestFirst(P) == Listing(P, {p \in P \X P : p[1] < p[2]})
NewestFirst(P) == Listing(P, {p \in P \X P : p[1] > p[2]})

\* The rows at the places listed, and those at the places of a set.
RowsAt(s, places) == [k \in DOMAIN places |-> s[places[k]]]
RowsIn(s, P) == RowsAt(s, OldestFirst(P))
LatestIn(s, P) == RowsAt(s, NewestFirst(P))

-----------------------------------------------------------------------------
\* addAuditLog (database/audit.js) throws on any other action, and its caller answers
\* 500 with its own rows written.
AUDIT_ACTIONS == {"contract_initialized", "distribution_initiated", "secondary_sale_recorded",
                  "royalty_rate_set", "secondary_distribution_initiated"}

Audited(action) == action \in AUDIT_ACTIONS
=============================================================================
