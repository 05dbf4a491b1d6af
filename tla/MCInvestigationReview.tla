------------------------- MODULE MCInvestigationReview -------------------------
(* A small investigation for TLC.                                          *)
EXTENDS InvestigationReview

OneQuestion == <<"q">>
FirstCited == [c \in {1} |-> {1}]
Chain == {{1, 2}, {2, 3}}
SecondObserved == [o \in {4} |-> "a"]
SomeOutcomes == {<<"completed", 0>>, <<"completed", 1>>, <<"blocked", 0>>}
ClaimOrSource == {<<{1}, {}>>, <<{}, {1}>>}
=============================================================================
