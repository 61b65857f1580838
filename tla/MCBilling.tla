----------------------------- MODULE MCBilling -----------------------------
(* Instances of Billing for TLC. *)
EXTENDS Billing, TLC

CONSTANTS u1, u2, p1

NoReferrers == [u \in Users |-> None]
U2InvitesU1 == [u \in Users |-> IF u = u1 THEN u2 ELSE None]
OnePrice == [p \in Plans |-> 1]

\* Requests are interchangeable, and so are row ids: targets are chosen by
\* content.
Symmetry == Permutations(Orders) \cup Permutations(Requests) \cup Permutations(Subs)
=============================================================================
