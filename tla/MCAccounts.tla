------------------------------ MODULE MCAccounts ------------------------------
(* Instances of Accounts for TLC: the first account's id sorts first.       *)
EXTENDS Accounts, TLC

CONSTANTS u1, u2, u3, s1, s2, r1, r2

MCRank == [u \in User |-> CASE u = u1 -> 1 [] u = u2 -> 2 [] OTHER -> 3]

Symmetric == Permutations({s1, s2}) \cup Permutations({r1, r2})
=============================================================================
