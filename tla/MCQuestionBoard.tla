--------------------------- MODULE MCQuestionBoard ---------------------------
(* A small instance of QuestionBoard for TLC.                              *)
EXTENDS QuestionBoard, TLC

Symmetry == Permutations(Workers) \union Permutations(Ids) \union Permutations(Contents)
=============================================================================
