--------------------------- MODULE MCAsyncSession ---------------------------
(***************************************************************************)
(* Sessions of any length with one device: two sample rates, two attempts   *)
(* per step, answers that may be late by one attempt, and buffers that      *)
(* cannot be had, or only the memory of them.                               *)
(***************************************************************************)
EXTENDS AsyncSession
=============================================================================
