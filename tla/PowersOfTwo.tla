----------------------------- MODULE PowersOfTwo -----------------------------
(***************************************************************************)
(* The powers of two, by the recursion that proofs unfold: for the provers *)
(* the exponents of Integers are symbols without a meaning.                *)
(***************************************************************************)
EXTENDS Naturals

PowerOfTwo[n \in Nat] == IF n = 0 THEN 1 ELSE 2 * PowerOfTwo[n - 1]
=============================================================================
