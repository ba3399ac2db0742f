----------------------------- MODULE MCAccounts -----------------------------
(* Small instances of Accounts for TLC. *)
EXTENDS Accounts, TLC

Symmetry == Permutations(Handlers) \cup Permutations(Tokens)
              \cup Permutations(Names) \cup Permutations(Users)
=============================================================================
