--------------------------- MODULE MCVideoScreen -----------------------------
(* A row has four units and the table six: one full row fits, and there are  *)
(* positions without one.  Four results let a scroll jump over rows, and a   *)
(* pull of three units beyond an end leaves one row alone.                   *)
EXTENDS VideoScreen, SequencesExt

\* One round of the loop of scrollViewDidScroll as it is written, where st is
\* <<rows playing, visibleIP, aboutToBecomeInvisibleCell>>.
Round(st, row, full) ==
  IF row \in full
    THEN IF st[2] = row THEN st ELSE <<st[1] \union {row}, row, st[3]>>
    ELSE IF st[3] = row THEN st ELSE <<st[1] \ {row}, st[2], row>>

\* Acted and LastActed say what the rounds do one after the other.
ASSUME LoopAgrees ==
  \A rows \in SUBSET (0 .. 3) :
    \A full \in SUBSET rows, running \in SUBSET rows :
      \A visible \in 0 .. 4, about \in -1 .. 3 :
        FoldLeft(LAMBDA st, row : Round(st, row, full),
                 <<running, visible, about>>, SetToSortSeq(rows, <))
          = <<(running \union Acted(full, visible)) \ Acted(rows \ full, about),
              LastActed(full, visible), LastActed(rows \ full, about)>>
=============================================================================
