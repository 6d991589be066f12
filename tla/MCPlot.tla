------------------------------- MODULE MCPlot -------------------------------
(***************************************************************************)
(* Instances of Plot: the numbers a folder may have.                       *)
(***************************************************************************)
EXTENDS Plot

\* All passing, some passing, none passing, unported, part broken, no test at all.
AllTriples == {<<2, 0, 0>>, <<1, 1, 0>>, <<0, 1, 0>>, <<0, 0, 2>>, <<1, 0, 1>>, <<0, 0, 0>>}

\* What brain.py finds when every log of a test can be decoded.
PlainTriples == {<<1, 0, 0>>, <<1, 1, 0>>, <<0, 0, 2>>}

=============================================================================
