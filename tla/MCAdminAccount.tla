--------------------------- MODULE MCAdminAccount ---------------------------
(* Two requests at a time for AdminAccount.                                *)
EXTENDS AdminAccount, TLC

CONSTANTS r1, r2

RequestsAlike == Permutations({r1, r2})
=============================================================================
