-------------------------- MODULE MCSourceDependence --------------------------
(* Relationships of a small investigation for TLC.                         *)
EXTENDS SourceDependence

\* Every pair of three sources may derive, one pair may share an origin.
Triangle == {<<1, 2, "derived_from">>, <<2, 3, "derived_from">>,
             <<1, 3, "derived_from">>, <<1, 2, "common_origin">>}

TriangleRank == [r \in Triangle |->
    CASE r = <<1, 3, "derived_from">> -> 1
      [] r = <<1, 2, "common_origin">> -> 2
      [] r = <<2, 3, "derived_from">> -> 3
      [] OTHER -> 4]
=============================================================================
