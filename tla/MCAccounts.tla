----------------------------- MODULE MCAccounts -----------------------------
(* Instances of Accounts for TLC. *)
EXTENDS Accounts, TLC

CONSTANTS o, u1, u2, c1, c2, w1, w2

\* Customers are told apart by nothing but their name, and so are calls.
AccountSymmetry == Permutations({u1, u2}) \union Permutations({c1, c2})

=============================================================================
