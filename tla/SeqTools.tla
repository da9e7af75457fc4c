------------------------------ MODULE SeqTools ------------------------------
(***************************************************************************)
(* What the modules of this project say of sequences and the community     *)
(* modules do not.                                                         *)
(***************************************************************************)
EXTENDS Integers, FiniteSets, SequencesExt

Tally(seq, Test(_)) == Cardinality({n \in DOMAIN seq : Test(seq[n])})

\* What is in S of a sequence, in its order: SelectSeq with a set for its test,
\* as a fold, so that what it returns can be proved.
Kept(seq, S) ==
    FoldLeft(LAMBDA kept, x : IF x \in S THEN Append(kept, x) ELSE kept, << >>, seq)

\* Nothing stands in it twice.
Distinct(seq) == \A i, k \in DOMAIN seq : seq[i] = seq[k] => i = k

\* All the sequences of at most n elements of S.
UpTo(n, S) == UNION {[1..k -> S] : k \in 0..n}
=============================================================================
