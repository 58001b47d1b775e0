--------------------------- MODULE MCVideoUpload -----------------------------
(* Two screens and two videos: both picked, on one screen or on two, or one  *)
(* or both sent by other clients, under one name or two, a wrong one (f2)    *)
(* among them.                                                               *)
EXTENDS VideoUpload

CONSTANTS w1, w2, f1, f2, blank, t1

MCWorkers == {w1, w2}
MCKeys == {f1, f2}
MCVideoKeys == {f1}
MCTitles == {blank, t1}
=============================================================================
