------------------------------- MODULE MCFeed -------------------------------
(***************************************************************************)
(* Two accounts, so that the phone may hold another one than before a      *)
(* wipe, and two jobs, so that two requests cross and two rewritings of    *)
(* the contacts overlap.  The accounts, and the jobs, are alike.           *)
(***************************************************************************)
EXTENDS Feed, TLC

CONSTANTS a1, a2, j1, j2

TwoAccounts == {a1, a2}
TwoJobs == {j1, j2}
Alike == Permutations(TwoAccounts) \union Permutations(TwoJobs)
=============================================================================
