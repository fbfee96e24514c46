----------------------------- MODULE AccountsMC -----------------------------
(***************************************************************************)
(* Instances of Accounts for TLC.                                          *)
(***************************************************************************)
EXTENDS Accounts, TLC

\* All ids are generated, and no value is special.
Alike ==
    Permutations(UserIds) \cup Permutations(TokenIds) \cup Permutations(Emails)
        \cup Permutations(Passwords) \cup Permutations(Requests)
=============================================================================
