--------------------------- MODULE MCAnswerUpload ----------------------------
(* Two workers, one of which can lose the race for the directory; all files *)
(* have one name, as any two that matter to each other do.                  *)
EXTENDS AnswerUpload

CONSTANTS w1, w2, f1

MCWorkers == {w1, w2}
MCNames == {f1}
MCSizes == {1, 2}
=============================================================================
