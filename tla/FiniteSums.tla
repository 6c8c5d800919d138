----------------------------- MODULE FiniteSums -----------------------------
(***************************************************************************)
(* The sum of a mapping over a finite set of addresses, the reference      *)
(* definition behind CollateralVault's totalLiabilities.  The set is       *)
(* enumerated once and summed along the enumeration by a recursive         *)
(* function, a form whose laws TLAPS can establish for every finite set.   *)
(***************************************************************************)
EXTENDS Integers, FiniteSets, Functions

\* Some one-to-one numbering 1..Cardinality(S) of the members of S.
Numbering(S) == CHOOSE e \in Bijection(1..Cardinality(S), S) : TRUE

\* Partial sums of f along the numbering e: element k is f[e[1]] + ... + f[e[k]].
PartialSums(f, e, n) ==
  LET total[k \in 0..n] == IF k = 0 THEN 0 ELSE total[k-1] + f[e[k]]
  IN  total

\* The sum of f over the finite set S.
SumOver(S, f) == PartialSums(f, Numbering(S), Cardinality(S))[Cardinality(S)]

\* f[1] + ... + f[n], and the part of it the members of C contribute.
SumTo(f, n) == PartialSums(f, [k \in 1..n |-> k], n)[n]

SumWithin(f, C, n) == SumTo([k \in 1..n |-> IF k \in C THEN f[k] ELSE 0], n)
=============================================================================
