-------------------------------- MODULE Lists --------------------------------
(***************************************************************************)
(* What the analyzer does with a list of anything: a comprehension with a  *)
(* condition, a sum, the median of numbers.                                *)
(***************************************************************************)
EXTENDS Integers, Sequences, FiniteSets, SequencesExt

\* The elements of s at the places in D, in their order.
Only(s, D) ==
  LET f[n \in 0..Len(s)] ==
        IF n = 0 THEN <<>> ELSE IF n \in D THEN Append(f[n - 1], s[n]) ELSE f[n - 1]
  IN  f[Len(s)]

\* [x for x in s if P(x)]
Where(s, P(_)) == Only(s, {i \in DOMAIN s : P(s[i])})

Total(s) == FoldLeft(+, 0, s)

\* The number at place k of sorted(s), and twice the median.
Smallest(s, k) == Min({v \in Range(s) : Cardinality({i \in DOMAIN s : s[i] <= v}) >= k})

Median2(s) ==
  LET n == Len(s)
  IN  IF n % 2 = 1 THEN 2 * Smallest(s, (n + 1) \div 2)
      ELSE Smallest(s, n \div 2) + Smallest(s, n \div 2 + 1)
=============================================================================
