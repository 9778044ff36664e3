----------------------------- MODULE MCAccounts -----------------------------
(* Instances of Accounts for TLC.                                          *)
EXTENDS Accounts, TLC

AccountSymmetry ==
  Permutations(Ids) \cup Permutations(Names) \cup Permutations(Passwords)
    \cup Permutations(Requests)

=============================================================================
