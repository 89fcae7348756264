------------------------------- MODULE Listing -------------------------------
(***************************************************************************)
(* What a service answers that lists things page by page: the order of     *)
(* what it has, and the page behind so many of it.                         *)
(***************************************************************************)
EXTENDS Naturals, Sequences, FiniteSets

\* The ids in the order of numbers they have.
InOrder(ids, key) ==
  {seq \in [1 .. Cardinality(ids) -> ids] :
     /\ \A p \in ids : \E i \in DOMAIN seq : seq[i] = p
     /\ \A i, j \in DOMAIN seq : i < j => key[seq[i]] < key[seq[j]]}

Page(seq, from, size) ==
  SubSeq(seq, from + 1, IF from + size < Len(seq) THEN from + size ELSE Len(seq))

=============================================================================
