-------------------------- MODULE MCSynthesizerPool --------------------------
(***************************************************************************)
(* Instances of SynthesizerPool for TLC.  Requests are numbered; the last  *)
(* one belongs to guild g2, the others to g1.                              *)
(***************************************************************************)
EXTENDS SynthesizerPool, TLC

CONSTANTS g1, g2

One   == {1}
Two   == {1, 2}
Three == {1, 2, 3}

LastElsewhere == [r \in Requests |-> IF r = Cardinality(Requests) THEN g2 ELSE g1]
AllTogether   == [r \in Requests |-> g1]

OneSentence  == [r \in Requests |-> 1]
FirstHasTwo == [r \in Requests |-> IF r = 1 THEN 2 ELSE 1]

WorkerSymmetry == Permutations(Workers)
=============================================================================
