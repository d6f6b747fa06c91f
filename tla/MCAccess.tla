------------------------------ MODULE MCAccess ------------------------------
(* Instances of Access for TLC.                                            *)
EXTENDS Access, TLC

CONSTANTS x1, x2

\* A plain user, a tenant's security administrator, the system's, and claims
\* the login refuses.
MCClaims == {[tenant |-> x1, roles |-> {"viewer"}],
             [tenant |-> x1, roles |-> {"security_admin", "intern"}],
             [tenant |-> x2, roles |-> {"system_admin"}],
             [tenant |-> Malformed, roles |-> {"viewer"}]}

Symmetry == Permutations(Tokens) \cup Permutations(Requests)
=============================================================================
