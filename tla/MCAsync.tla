------------------------------ MODULE MCAsync -------------------------------
(* Values for the constants of AsyncOperation.                             *)
EXTENDS AsyncOperation

TwoOps == {1, 2}
=============================================================================
