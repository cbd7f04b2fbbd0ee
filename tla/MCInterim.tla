----------------------------- MODULE MCInterim -----------------------------
(* Instances of Interim for TLC. *)
EXTENDS Interim, TLC

\* Frequency and locations of a term; SkipFreqNorm makes the frequency 0.
Tf(freq, locs) == [freq |-> freq, locs |-> locs]
At(field, pos) == [field |-> field, pos |-> pos]

Field(name, tfs, dv, stored, extra, valid) ==
  [name |-> name, tfs |-> tfs, len |-> 1 + Cardinality(DOMAIN tfs), dv |-> dv,
   stored |-> stored, extra |-> extra, valid |-> valid]

\* Field 2 twice, with a term in both, and in the composite field 1.
Twice ==
  <<Field(1, 5 :> Tf(3, <<At(2, 1), At(2, 2), At(2, 3)>>), FALSE, FALSE, <<>>, TRUE),
    Field(0, 1 :> Tf(1, <<>>), FALSE, TRUE, <<>>, TRUE),
    Field(2, 5 :> Tf(2, <<At(Nothing, 1), At(Nothing, 2)>>) @@ 6 :> Tf(1, <<>>),
          TRUE, TRUE, <<>>, TRUE),
    Field(2, 5 :> Tf(1, <<At(Nothing, 3)>>), FALSE, TRUE, <<>>, TRUE)>>

\* No frequencies in field 3, which sorts behind, and a shape in field 2.
Plain ==
  <<Field(0, 2 :> Tf(1, <<>>), FALSE, TRUE, <<>>, TRUE),
    Field(3, 5 :> Tf(0, <<>>) @@ 7 :> Tf(0, <<>>), TRUE, FALSE, <<>>, TRUE),
    Field(2, 7 :> Tf(1, <<At(Nothing, 4)>>), FALSE, FALSE, <<>>, TRUE)>>

\* A shape, and a term that other documents have at other places.
Shape ==
  <<Field(0, 3 :> Tf(1, <<>>), FALSE, TRUE, <<>>, TRUE),
    Field(2, 5 :> Tf(1, <<At(Nothing, 5)>>) @@ 6 :> Tf(4, <<At(Nothing, 6)>>),
          TRUE, FALSE, <<9>>, TRUE)>>

OnlyId == <<Field(0, 4 :> Tf(1, <<>>), FALSE, TRUE, <<>>, TRUE)>>

Refused ==
  <<Field(0, 5 :> Tf(1, <<>>), FALSE, TRUE, <<>>, TRUE),
    Field(3, 6 :> Tf(1, <<>>), FALSE, TRUE, <<>>, FALSE)>>

AllDocs == {Twice, Plain, Shape, OnlyId, Refused}

\* The empty batch, all batches of one and two documents, and eight of three.
AllBatches == UNION {[1..n -> AllDocs] : n \in 0..2} \cup [1..3 -> {Twice, Shape}]
=============================================================================
