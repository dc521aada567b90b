----------------------------- MODULE Selection -------------------------------
(* What a filter of a sequence leaves, in its order. It says what SelectSeq   *)
(* does without recursion, so that the provers can be told what it is.        *)
EXTENDS Naturals, Sequences, FiniteSets

\* The how-manieth of the positions keep position i is.
Place(i, keep) == Cardinality({j \in keep : j <= i})

\* The n-th of them.
AtPlace(n, keep) == CHOOSE i \in keep : Place(i, keep) = n

\* The elements of s at the positions keep.
Selected(s, keep) == [n \in 1 .. Cardinality(keep) |-> s[AtPlace(n, keep)]]
=============================================================================
