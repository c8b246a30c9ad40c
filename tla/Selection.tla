----------------------------- MODULE Selection -----------------------------
(***************************************************************************)
(* [e for e in s if e in K] as a recursive function: Sequences!SelectSeq,   *)
(* in a form that SequenceLemmas can reason about.                         *)
(***************************************************************************)
EXTENDS Integers, Sequences

\* The selection of the first n elements, for each n.
Selected(s, K) ==
  LET f[n \in 0 .. Len(s)] ==
        IF n = 0 THEN <<>>
        ELSE IF s[n] \in K THEN Append(f[n - 1], s[n]) ELSE f[n - 1]
  IN f

Select(s, K) == Selected(s, K)[Len(s)]
=============================================================================
