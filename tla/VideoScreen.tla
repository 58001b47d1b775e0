---------------------------- MODULE VideoScreen ------------------------------
(***************************************************************************)
(* The video search of the iOS app and the cell that plays.                *)
(*                                                                         *)
(* Every answer to a search replaces videoArray; the table is reloaded by  *)
(* a block of its own in the main queue, and in between takes new cells    *)
(* from the new array.  While the table scrolls, scrollViewDidScroll       *)
(* starts the cells that are full and stops those that are not, with two   *)
(* fields that remember the last row it started and the last it stopped.   *)
(*                                                                         *)
(* Heights are in units of which a row has RowHeight.                      *)
(***************************************************************************)
EXTENDS Integers, FiniteSetsExt

CONSTANTS RowHeight,    \* height of a row
          Height,       \* height of the table
          Bounce,       \* how far the table can be pulled beyond its ends
          MaxSearches,  \* bound on the searches
          MaxResults    \* bound on the results of a search

ASSUME ScreenAssumption ==
  /\ RowHeight \in Nat \ {0}
  /\ Height \in Nat
  /\ Bounce \in Nat
  /\ MaxSearches \in Nat
  /\ MaxResults \in Nat

VARIABLES asked,        \* number of searches made
          waiting,      \* searches not yet answered
          videoArray,   \* the search it is from, and how many videos it has
          table,        \* what the last reload took from it
          reloads,      \* reloads waiting in the main queue
          offset,       \* scroll position
          cells,        \* row on the screen -> search its video is from
          playing,      \* rows whose player runs
          visibleIP,    \* row started last
          aboutToBecomeInvisibleCell  \* row stopped last

(***************************************************************************)
(* History.                                                                *)
(*   lost       searches whose answer was lost, or made before the app     *)
(*              ended                                                      *)
(*   overlapped searches that waited at the same time as another           *)
(*   alone      since the last reload a pull beyond an end of the table    *)
(*              left one of several rows alone on the screen               *)
(***************************************************************************)
VARIABLES lost, overlapped, alone

cellVars == <<offset, cells, playing, visibleIP, aboutToBecomeInvisibleCell,
              alone>>
searchVars == <<asked, waiting, videoArray, reloads, lost, overlapped>>
vars == <<searchVars, table, cellVars>>

Searches == 1 .. MaxSearches
Results == [search : 0 .. MaxSearches, count : 0 .. MaxResults]
NoResults == [search |-> 0, count |-> 0]

Smaller(a, b) == IF a < b THEN a ELSE b
Larger(a, b) == IF a > b THEN a ELSE b

MaxOffset(count) == Larger(0, count * RowHeight - Height)

\* How much of a row is on the screen.
Shown(row, o) ==
  Smaller((row + 1) * RowHeight, o + Height) - Larger(row * RowHeight, o)

VisibleRows(count, o) == {row \in 0 .. count - 1 : Shown(row, o) > 0}

\* Faulty variant: a row is full when more than half of it shows.
FullByHalf(row, o) == 2 * Shown(row, o) > RowHeight

\* More than 95 percent.
Full(row, o) == 20 * Shown(row, o) > 19 * RowHeight

-----------------------------------------------------------------------------
(* The cells.                                                              *)

\* The loop looks at each row once, from top to bottom.  It acts on the rows of
\* a group (the full ones, the others) but where the row is the one it acted on
\* last, here or in an earlier call.
Acted(group, last) == {row \in group : row # last \/ \E above \in group : above < row}

LastActed(group, last) == IF group = {} THEN last ELSE Max(group)

\* A row of several is alone on the screen only beyond an end of the table.
OnlyOne(rows) == \E row \in rows : rows = {row}

\* scrollViewDidScroll, where the cells of rows exist already.
DidScroll(o, rows, running) ==
  LET full == {row \in rows : Full(row, o)}
      part == rows \ full
  IN  IF OnlyOne(rows)
        THEN /\ playing' = running \union rows
             /\ visibleIP' = Max(rows)
             /\ UNCHANGED aboutToBecomeInvisibleCell
        ELSE /\ playing' = (running \union Acted(full, visibleIP))
                             \ Acted(part, aboutToBecomeInvisibleCell)
             /\ visibleIP' = LastActed(full, visibleIP)
             /\ aboutToBecomeInvisibleCell' = LastActed(part, aboutToBecomeInvisibleCell)

\* Rows that come are filled from videoArray, rows that go are stopped.
Scroll(o) ==
  LET rows == VisibleRows(table.count, o)
      new  == rows \ DOMAIN cells
  IN  /\ o # offset
      /\ \A row \in new : row < videoArray.count
      /\ offset' = o
      /\ cells' = [row \in rows |-> IF row \in new THEN videoArray.search ELSE cells[row]]
      /\ DidScroll(o, rows, playing \intersect rows)
      /\ alone' = (alone \/ (OnlyOne(rows) /\ table.count > 1))
      /\ UNCHANGED <<searchVars, table>>

\* Faulty variant: only the cells that exist already are taken anew.
ReloadOldCells ==
  LET o    == Smaller(offset, MaxOffset(videoArray.count) + Bounce)
      rows == VisibleRows(videoArray.count, o)
  IN  /\ reloads > 0
      /\ reloads' = reloads - 1
      /\ table' = videoArray
      /\ offset' = o
      /\ cells' = [row \in rows \intersect DOMAIN cells |-> videoArray.search]
      /\ alone' = (OnlyOne(rows) /\ videoArray.count > 1)
      /\ IF o # offset THEN DidScroll(o, rows, {})
         ELSE playing' = {} /\ UNCHANGED <<visibleIP, aboutToBecomeInvisibleCell>>
      /\ UNCHANGED <<asked, waiting, videoArray, lost, overlapped>>

\* All cells are taken anew, the position is pulled back when it is beyond
\* the end.
reloadData ==
  LET o    == Smaller(offset, MaxOffset(videoArray.count) + Bounce)
      rows == VisibleRows(videoArray.count, o)
  IN  /\ reloads > 0
      /\ reloads' = reloads - 1
      /\ table' = videoArray
      /\ offset' = o
      /\ cells' = [row \in rows |-> videoArray.search]
      /\ alone' = (OnlyOne(rows) /\ videoArray.count > 1)
      /\ IF o # offset THEN DidScroll(o, rows, {})
         ELSE playing' = {} /\ UNCHANGED <<visibleIP, aboutToBecomeInvisibleCell>>
      /\ UNCHANGED <<asked, waiting, videoArray, lost, overlapped>>

-----------------------------------------------------------------------------
(* The searches.                                                           *)

searchVideoButton ==
  /\ asked < MaxSearches
  /\ asked' = asked + 1
  /\ waiting' = waiting \union {asked'}
  /\ overlapped' = IF waiting = {} THEN overlapped ELSE overlapped \union waiting'
  /\ UNCHANGED <<videoArray, reloads, lost, table, cellVars>>

\* Faulty variant: an answer without results does not reload the table.
AnswerQuiet(n, count) ==
  /\ n \in waiting
  /\ waiting' = waiting \ {n}
  /\ videoArray' = [search |-> n, count |-> count]
  /\ reloads' = IF count = 0 THEN reloads ELSE reloads + 1
  /\ UNCHANGED <<asked, lost, overlapped, table, cellVars>>

\* Faulty variant: the array is filled only while it is empty.
AnswerOnce(n, count) ==
  /\ n \in waiting
  /\ waiting' = waiting \ {n}
  /\ videoArray' = IF videoArray.count = 0 THEN [search |-> n, count |-> count]
                   ELSE videoArray
  /\ reloads' = reloads + 1
  /\ UNCHANGED <<asked, lost, overlapped, table, cellVars>>

Answer(n, count) ==
  /\ n \in waiting
  /\ waiting' = waiting \ {n}
  /\ videoArray' = [search |-> n, count |-> count]
  /\ reloads' = reloads + 1
  /\ UNCHANGED <<asked, lost, overlapped, table, cellVars>>

AnswerLost(n) ==
  /\ n \in waiting
  /\ waiting' = waiting \ {n}
  /\ lost' = lost \union {n}
  /\ UNCHANGED <<asked, videoArray, reloads, overlapped, table, cellVars>>

\* The process ends, the next run of the app begins with an empty screen.
EndOfApp ==
  /\ lost' = 1 .. asked
  /\ waiting' = {}
  /\ videoArray' = NoResults
  /\ table' = NoResults
  /\ reloads' = 0
  /\ offset' = 0
  /\ cells' = <<>>
  /\ playing' = {}
  /\ visibleIP' = 0
  /\ aboutToBecomeInvisibleCell' = -1
  /\ alone' = FALSE
  /\ UNCHANGED <<asked, overlapped>>

\* A video whose source is no URL, as one with a space in its file name.
AnswerUnwrapsNil(n) ==
  /\ n \in waiting
  /\ EndOfApp

\* cellForRowAt for a row that the new array does not have.
ScrollBeyond(o) ==
  /\ \E row \in VisibleRows(table.count, o) \ DOMAIN cells : row >= videoArray.count
  /\ EndOfApp

-----------------------------------------------------------------------------
Init ==
  /\ asked = 0
  /\ waiting = {}
  /\ videoArray = NoResults
  /\ table = NoResults
  /\ reloads = 0
  /\ offset = 0
  /\ cells = <<>>
  /\ playing = {}
  /\ visibleIP = 0
  /\ aboutToBecomeInvisibleCell = -1
  /\ lost = {}
  /\ overlapped = {}
  /\ alone = FALSE

Positions == -Bounce .. MaxOffset(table.count) + Bounce

Receive(n) ==
  \/ \E count \in 0 .. MaxResults : Answer(n, count)
  \/ AnswerLost(n)
  \/ AnswerUnwrapsNil(n)

Next ==
  \/ \E o \in Positions : Scroll(o) \/ ScrollBeyond(o)
  \/ searchVideoButton
  \/ \E n \in Searches : Receive(n)
  \/ reloadData

Spec == Init /\ [][Next]_vars

\* A search is answered or times out, the main queue runs what waits in it.
FairSpec ==
  /\ Spec
  /\ \A n \in Searches : WF_vars(Receive(n))
  /\ WF_vars(reloadData)

-----------------------------------------------------------------------------
(* Properties.                                                             *)

\* Type invariant of the searches, the table and its cells.
TypeOK ==
  /\ asked \in 0 .. MaxSearches
  /\ waiting \subseteq Searches
  /\ {videoArray, table} \subseteq Results
  /\ reloads \in Nat
  /\ offset \in -Bounce .. MaxOffset(MaxResults) + Bounce
  /\ DOMAIN cells = VisibleRows(table.count, offset)
  /\ \A row \in DOMAIN cells : cells[row] \in Searches
  /\ playing \subseteq 0 .. MaxResults - 1
  /\ visibleIP \in 0 .. MaxResults
  /\ aboutToBecomeInvisibleCell \in -1 .. MaxResults - 1
  /\ lost \subseteq Searches
  /\ overlapped \subseteq Searches
  /\ alone \in BOOLEAN

\* The cells on the screen mix the videos of two searches only while a reload
\* is still to come.
CellsMatch ==
  reloads = 0 => /\ table = videoArray
                 /\ \A row \in DOMAIN cells : cells[row] = table.search

\* Two full rows fit on the screen only when it is higher than 1.9 rows.
TwoFullFit == 10 * Height > 19 * RowHeight

\* Only a row on the screen plays, and never two at once as long as two full
\* rows do not fit on it, though visibleIP and aboutToBecomeInvisibleCell
\* outlive scrolls and reloads.  The exception is a table that was pulled so
\* far that one of several rows was alone: it is started without being full,
\* and aboutToBecomeInvisibleCell may keep it from being stopped.
AtMostOnePlays ==
  /\ playing \subseteq DOMAIN cells
  /\ ~ TwoFullFit /\ ~ alone => Cardinality(playing) <= 1

\* A search, or a newer one, is shown in the end, unless it overlapped with
\* another, or its answer was lost, or the app ended first.
SearchShown ==
  \A n \in Searches :
    asked >= n ~> table.search >= n \/ n \in lost \union overlapped
=============================================================================
