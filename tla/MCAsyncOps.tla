----------------------------- MODULE MCAsyncOps -----------------------------
(* TLC instance of AsyncOps: requests are model values.                    *)
EXTENDS AsyncOps
=============================================================================
