-------------------------- MODULE VideoScreenProofs --------------------------
(***************************************************************************)
(* Proofs about VideoScreen, for any heights, pulls, searches and results. *)
(***************************************************************************)
EXTENDS VideoScreen, FiniteSetTheorems, WellFoundedInduction, TLAPS

-----------------------------------------------------------------------------
(* Rows and positions.                                                     *)

\* More rows are at least as high.
LEMMA RowsHigh ==
  ASSUME NEW a \in Int, NEW b \in Int, a <= b
  PROVE  a * RowHeight <= b * RowHeight
<1>1. PICK d \in Nat : b = a + d
  <2>1. b - a \in Nat
    OBVIOUS
  <2> QED
    BY <2>1
<1>2. RowHeight \in Nat
  BY ScreenAssumption
<1>3. d * RowHeight \in Nat
  BY <1>2
<1>4. b * RowHeight = a * RowHeight + d * RowHeight
  BY <1>1, <1>2
<1>5. a * RowHeight \in Int
  BY <1>2
<1> QED
  BY <1>3, <1>4, <1>5

\* The last position grows with the number of rows.
LEMMA MaxOffsetGrows ==
  ASSUME NEW m \in Nat, NEW n \in Nat, m <= n
  PROVE  /\ MaxOffset(m) \in Nat
         /\ MaxOffset(m) <= MaxOffset(n)
<1>1. m * RowHeight <= n * RowHeight
  BY RowsHigh
<1>2. m * RowHeight \in Int /\ n * RowHeight \in Int /\ Height \in Int
  BY ScreenAssumption
<1> QED
  BY <1>1, <1>2 DEF MaxOffset, Larger

\* Visible rows are rows of the table.
LEMMA VisibleType ==
  ASSUME NEW count \in Nat, NEW o \in Int
  PROVE  VisibleRows(count, o) \subseteq 0 .. count - 1
BY DEF VisibleRows

\* Of two different full rows the lower one begins where the other ends, or
\* below, so that they fit only on a table that is higher than 1.9 rows.
LEMMA FullAlone ==
  ASSUME NEW r \in Int, NEW s \in Int, NEW o \in Int,
         Full(r, o), Full(s, o), ~ TwoFullFit
  PROVE  r = s
<1>1. ASSUME NEW a \in Int, NEW b \in Int, a < b, Full(a, o), Full(b, o)
      PROVE  FALSE
  <2>1. (a + 1) * RowHeight <= b * RowHeight
    BY <1>1, RowsHigh
  <2> DEFINE bottom == (a + 1) * RowHeight
             top == b * RowHeight
  <2>2. bottom \in Int /\ top \in Int /\ RowHeight \in Int /\ Height \in Int
    BY ScreenAssumption
  <2>3. a * RowHeight \in Int /\ (b + 1) * RowHeight \in Int
    BY ScreenAssumption
  <2>4. Shown(a, o) \in Int /\ Shown(a, o) <= bottom - o
    BY <2>2, <2>3 DEF Shown, Smaller, Larger
  <2>5. Shown(b, o) \in Int /\ Shown(b, o) <= o + Height - top
    BY <2>2, <2>3 DEF Shown, Smaller, Larger
  <2>6. Shown(a, o) + Shown(b, o) <= Height
    <3> HIDE DEF bottom, top
    <3> QED
      BY <2>1, <2>2, <2>4, <2>5 DEF bottom, top
  <2>7. 20 * Shown(a, o) > 19 * RowHeight /\ 20 * Shown(b, o) > 19 * RowHeight
    BY <1>1 DEF Full
  <2>8. 10 * Height <= 19 * RowHeight
    BY <2>2 DEF TwoFullFit
  <2> QED
    BY <2>2, <2>4, <2>5, <2>6, <2>7, <2>8
<1>2. CASE r < s
  BY <1>1, <1>2
<1>3. CASE s < r
  BY <1>1, <1>3
<1> QED
  BY <1>2, <1>3

\* A set of rows that is not empty has a last one.
LEMMA MaxRow ==
  ASSUME NEW n \in Nat, NEW group \in SUBSET (0 .. n), group # {}
  PROVE  Max(group) \in group
<1> DEFINE gaps == {g \in Nat : \E row \in group : g = n - row}
<1>1. gaps \subseteq Nat
  OBVIOUS
<1>2. gaps # {}
  <2>1. PICK row \in group : TRUE
    OBVIOUS
  <2>2. n - row \in gaps
    BY <2>1
  <2> QED
    BY <2>2
<1>3. PICK g \in gaps : \A h \in gaps : ~ (<<h, g>> \in OpToRel(<, Nat))
  <2> HIDE DEF gaps
  <2> QED
    BY <1>1, <1>2, NatLessThanWellFounded, WFMin
<1>4. \A h \in gaps : g <= h
  <2>1. SUFFICES ASSUME NEW h \in gaps, h < g PROVE FALSE
    OBVIOUS
  <2>2. <<h, g>> \in OpToRel(<, Nat)
    BY <2>1 DEF OpToRel
  <2> QED
    BY <1>3, <2>2
<1>5. PICK row \in group : g = n - row
  OBVIOUS
<1>6. \A other \in group : row >= other
  <2>1. SUFFICES ASSUME NEW other \in group PROVE row >= other
    OBVIOUS
  <2>2. n - other \in gaps
    BY <2>1
  <2> QED
    BY <1>4, <1>5, <2>2
<1> QED
  BY <1>6 DEF Max

\* What one call of scrollViewDidScroll leaves: only rows on the screen run, and
\* both fields name rows.
LEMMA DidScrollType ==
  ASSUME NEW count \in 0 .. MaxResults, NEW o \in Int,
         NEW running \in SUBSET VisibleRows(count, o),
         visibleIP \in 0 .. MaxResults,
         aboutToBecomeInvisibleCell \in -1 .. MaxResults - 1,
         DidScroll(o, VisibleRows(count, o), running)
  PROVE  /\ playing' \subseteq VisibleRows(count, o)
         /\ visibleIP' \in 0 .. MaxResults
         /\ aboutToBecomeInvisibleCell' \in -1 .. MaxResults - 1
<1> DEFINE rows == VisibleRows(count, o)
           full == {row \in rows : Full(row, o)}
           part == rows \ full
<1>1. MaxResults \in Nat /\ rows \subseteq 0 .. count - 1
  BY ScreenAssumption, VisibleType
<1>2. rows \subseteq 0 .. MaxResults - 1
  BY <1>1
<1>3. ASSUME NEW group \in SUBSET rows, group # {}
      PROVE  Max(group) \in group
  <2>1. group \in SUBSET (0 .. MaxResults)
    BY <1>1, <1>2
  <2> QED
    BY <1>1, <1>3, <2>1, MaxRow
<1>4. CASE OnlyOne(rows)
  <2>1. /\ playing' = running \union rows
        /\ visibleIP' = Max(rows)
        /\ UNCHANGED aboutToBecomeInvisibleCell
    BY <1>4 DEF DidScroll
  <2>2. Max(rows) \in rows
    BY <1>3, <1>4 DEF OnlyOne
  <2> HIDE DEF rows
  <2> QED
    BY <1>1, <1>2, <2>1, <2>2 DEF rows
<1>5. CASE ~ OnlyOne(rows)
  <2>1. /\ playing' = (running \union Acted(full, visibleIP))
                       \ Acted(part, aboutToBecomeInvisibleCell)
        /\ visibleIP' = LastActed(full, visibleIP)
        /\ aboutToBecomeInvisibleCell' = LastActed(part, aboutToBecomeInvisibleCell)
    BY <1>5 DEF DidScroll
  <2>2. playing' \subseteq rows
    BY <2>1 DEF Acted
  <2>3. visibleIP' \in full \union {visibleIP}
    BY <1>3, <2>1 DEF LastActed
  <2>4. aboutToBecomeInvisibleCell' \in part \union {aboutToBecomeInvisibleCell}
    BY <1>3, <2>1 DEF LastActed
  <2>5. full \subseteq 0 .. MaxResults /\ part \subseteq -1 .. MaxResults - 1
    BY <1>1, <1>2
  <2> HIDE DEF full, part
  <2> QED
    BY <2>2, <2>3, <2>4, <2>5
<1> QED
  BY <1>4, <1>5

\* When at most one row ran, and not the one stopped last, the same holds after
\* the call, provided that several rows are visible, or none.
LEMMA DidScrollAlone ==
  ASSUME NEW count \in 0 .. MaxResults, NEW o \in Int,
         NEW running \in SUBSET VisibleRows(count, o),
         DidScroll(o, VisibleRows(count, o), running),
         ~ OnlyOne(VisibleRows(count, o)),
         ~ TwoFullFit,
         \A p, q \in running : p = q,
         aboutToBecomeInvisibleCell \notin running
  PROVE  /\ \A p, q \in playing' : p = q
         /\ aboutToBecomeInvisibleCell' \notin playing'
<1> DEFINE rows == VisibleRows(count, o)
           full == {row \in rows : Full(row, o)}
           part == rows \ full
<1>1. /\ playing' = (running \union Acted(full, visibleIP))
                     \ Acted(part, aboutToBecomeInvisibleCell)
      /\ aboutToBecomeInvisibleCell' = LastActed(part, aboutToBecomeInvisibleCell)
  BY DEF DidScroll
<1>2. MaxResults \in Nat /\ rows \subseteq 0 .. count - 1
  BY ScreenAssumption, VisibleType
<1>3. \A p, q \in full : p = q
  BY <1>2, FullAlone
<1>4. running \intersect part \subseteq Acted(part, aboutToBecomeInvisibleCell)
  BY DEF Acted
<1>5. playing' \subseteq full
  BY <1>1, <1>4 DEF Acted
<1>6. \A p, q \in playing' : p = q
  BY <1>3, <1>5
<1>7. CASE part = {}
  <2>1. rows = full
    BY <1>7
  <2>2. rows = {}
    BY <1>3, <2>1 DEF OnlyOne
  <2> QED
    BY <1>5, <1>6, <2>1, <2>2
<1>8. CASE part # {}
  <2>1. part \in SUBSET (0 .. MaxResults)
    BY <1>2
  <2>2. Max(part) \in part
    BY <1>2, <1>8, <2>1, MaxRow
  <2>3. aboutToBecomeInvisibleCell' \in part
    BY <1>1, <1>8, <2>2 DEF LastActed
  <2> QED
    BY <1>5, <1>6, <2>3
<1> QED
  BY <1>7, <1>8

-----------------------------------------------------------------------------
(* Type correctness.                                                       *)

\* An array with videos comes from a search.
Filled ==
  /\ videoArray.count > 0 => videoArray.search \in Searches
  /\ table.count > 0 => table.search \in Searches

TypeInv == TypeOK /\ Filled

\* The components of what the arrays hold.
LEMMA ArrayType ==
  ASSUME NEW array \in Results
  PROVE  /\ array.search \in 0 .. MaxSearches
         /\ array.count \in 0 .. MaxResults
         /\ array.count \in Nat
BY ScreenAssumption DEF Results

\* Positions, and positions pulled back to a shorter table, are within the
\* bounds of the longest table.
LEMMA PositionType ==
  ASSUME NEW count \in 0 .. MaxResults,
         NEW o \in Int, -Bounce <= o, o <= MaxOffset(count) + Bounce
  PROVE  o \in -Bounce .. MaxOffset(MaxResults) + Bounce
<1>1. MaxResults \in Nat /\ Bounce \in Nat
  BY ScreenAssumption
<1>2. MaxOffset(count) \in Nat /\ MaxOffset(MaxResults) \in Nat
      /\ MaxOffset(count) <= MaxOffset(MaxResults)
  BY <1>1, MaxOffsetGrows
<1> QED
  BY <1>1, <1>2

LEMMA PulledBackType ==
  ASSUME NEW count \in 0 .. MaxResults,
         NEW o \in -Bounce .. MaxOffset(MaxResults) + Bounce
  PROVE  Smaller(o, MaxOffset(count) + Bounce)
           \in -Bounce .. MaxOffset(MaxResults) + Bounce
<1>1. MaxResults \in Nat /\ Bounce \in Nat
  BY ScreenAssumption
<1>2. MaxOffset(count) \in Nat /\ MaxOffset(MaxResults) \in Nat
      /\ MaxOffset(count) <= MaxOffset(MaxResults)
  BY <1>1, MaxOffsetGrows
<1> QED
  BY <1>1, <1>2 DEF Smaller

\* The empty screen with which the app begins.
LEMMA EmptyScreenType ==
  /\ NoResults \in Results
  /\ 0 \in -Bounce .. MaxOffset(MaxResults) + Bounce
  /\ 0 \in 0 .. MaxResults
  /\ -1 \in -1 .. MaxResults - 1
  /\ VisibleRows(NoResults.count, 0) = {}
<1>1. MaxResults \in Nat /\ MaxSearches \in Nat /\ Bounce \in Nat
  BY ScreenAssumption
<1>2. MaxOffset(MaxResults) \in Nat
  BY <1>1, MaxOffsetGrows
<1>3. VisibleRows(NoResults.count, 0) = {}
  BY DEF VisibleRows, NoResults
<1>4. 0 \in -Bounce .. MaxOffset(MaxResults) + Bounce
  BY <1>1, <1>2
<1> QED
  BY <1>1, <1>3, <1>4 DEF NoResults, Results

LEMMA EndOfAppType ==
  ASSUME TypeInv, EndOfApp
  PROVE  TypeInv'
<1>1. lost' \subseteq Searches
  BY ScreenAssumption DEF TypeInv, TypeOK, EndOfApp, Searches
<1>2. {videoArray', table'} \subseteq Results
  BY EmptyScreenType DEF EndOfApp
<1>3. DOMAIN cells' = VisibleRows(table'.count, offset')
  BY EmptyScreenType DEF EndOfApp
<1>4. \A row \in DOMAIN cells' : cells'[row] \in Searches
  BY DEF EndOfApp
<1>5. /\ offset' \in -Bounce .. MaxOffset(MaxResults) + Bounce
      /\ visibleIP' \in 0 .. MaxResults
      /\ aboutToBecomeInvisibleCell' \in -1 .. MaxResults - 1
  BY EmptyScreenType DEF EndOfApp
<1>6. Filled'
  BY DEF EndOfApp, NoResults, Filled
<1>7. /\ asked' \in 0 .. MaxSearches
      /\ waiting' \subseteq Searches
      /\ reloads' \in Nat
      /\ playing' \subseteq 0 .. MaxResults - 1
      /\ overlapped' \subseteq Searches
      /\ alone' \in BOOLEAN
  BY DEF TypeInv, TypeOK, EndOfApp
<1> QED
  BY <1>1, <1>2, <1>3, <1>4, <1>5, <1>6, <1>7 DEF TypeInv, TypeOK

LEMMA ScrollType ==
  ASSUME TypeInv, NEW o \in Positions, Scroll(o)
  PROVE  TypeInv'
<1> DEFINE rows == VisibleRows(table.count, o)
           new == rows \ DOMAIN cells
<1>1. /\ table \in Results
      /\ videoArray \in Results
      /\ table.count \in 0 .. MaxResults
      /\ videoArray.count \in Nat
  BY ArrayType DEF TypeInv, TypeOK
<1>2. MaxOffset(table.count) \in Nat
  BY ScreenAssumption, <1>1, ArrayType, MaxOffsetGrows
<1>3. o \in -Bounce .. MaxOffset(MaxResults) + Bounce
  BY ScreenAssumption, <1>1, <1>2, PositionType DEF Positions
<1>4. rows \subseteq Nat
  <2>1. rows \subseteq 0 .. table.count - 1
    BY <1>1, <1>3, ArrayType, VisibleType
  <2> QED
    BY <2>1
<1>5. /\ playing' \subseteq rows
      /\ visibleIP' \in 0 .. MaxResults
      /\ aboutToBecomeInvisibleCell' \in -1 .. MaxResults - 1
  BY <1>1, <1>3, DidScrollType DEF Scroll, TypeInv, TypeOK
<1>6. playing' \subseteq 0 .. MaxResults - 1
  <2>1. rows \subseteq 0 .. table.count - 1
    BY <1>1, <1>3, ArrayType, VisibleType
  <2>2. 0 .. table.count - 1 \subseteq 0 .. MaxResults - 1
    BY ScreenAssumption, <1>1
  <2> QED
    BY <1>5, <2>1, <2>2
<1>7. DOMAIN cells' = VisibleRows(table'.count, offset')
  BY DEF Scroll
<1>8. \A row \in DOMAIN cells' : cells'[row] \in Searches
  <2>1. SUFFICES ASSUME NEW row \in rows
                 PROVE  (IF row \in new THEN videoArray.search ELSE cells[row]) \in Searches
    BY DEF Scroll
  <2>2. CASE row \in new
    <3>1. row < videoArray.count /\ row \in Nat
      BY <1>4, <2>2 DEF Scroll
    <3>2. videoArray.count > 0
      BY <1>1, <3>1
    <3> QED
      BY <2>2, <3>2 DEF TypeInv, Filled
  <2>3. CASE row \notin new
    BY <2>3 DEF TypeInv, TypeOK
  <2> QED
    BY <2>2, <2>3
<1>9. alone' \in BOOLEAN
  BY DEF Scroll, TypeInv, TypeOK
<1> QED
  BY <1>3, <1>5, <1>6, <1>7, <1>8, <1>9
     DEF Scroll, TypeInv, TypeOK, Filled, searchVars

LEMMA ReloadType ==
  ASSUME TypeInv, reloadData
  PROVE  TypeInv'
<1> DEFINE o == Smaller(offset, MaxOffset(videoArray.count) + Bounce)
           rows == VisibleRows(videoArray.count, o)
<1>1. /\ videoArray \in Results
      /\ videoArray.count \in 0 .. MaxResults
      /\ videoArray.count \in Nat
  BY ArrayType DEF TypeInv, TypeOK
<1>2. o \in -Bounce .. MaxOffset(MaxResults) + Bounce
  BY <1>1, PulledBackType DEF TypeInv, TypeOK
<1>3. /\ playing' \subseteq rows
      /\ visibleIP' \in 0 .. MaxResults
      /\ aboutToBecomeInvisibleCell' \in -1 .. MaxResults - 1
  <2>1. CASE o = offset
    BY <2>1 DEF reloadData, TypeInv, TypeOK
  <2>2. CASE o # offset
    BY <1>1, <1>2, <2>2, DidScrollType DEF reloadData, TypeInv, TypeOK
  <2> QED
    BY <2>1, <2>2
<1>4. rows \subseteq 0 .. videoArray.count - 1
  BY <1>1, <1>2, VisibleType
<1>5. playing' \subseteq 0 .. MaxResults - 1
  <2>1. 0 .. videoArray.count - 1 \subseteq 0 .. MaxResults - 1
    BY ScreenAssumption, <1>1
  <2> QED
    BY <1>3, <1>4, <2>1
<1>6. DOMAIN cells' = VisibleRows(table'.count, offset')
  BY DEF reloadData
<1>7. \A row \in DOMAIN cells' : cells'[row] \in Searches
  <2>1. SUFFICES ASSUME NEW row \in rows
                 PROVE  videoArray.search \in Searches
    BY DEF reloadData
  <2>2. videoArray.count > 0
    BY <1>1, <1>4
  <2> QED
    BY <2>2 DEF TypeInv, Filled
<1>8. alone' \in BOOLEAN
  BY DEF reloadData, TypeInv, TypeOK, OnlyOne
<1>9. reloads' \in Nat
  BY DEF reloadData, TypeInv, TypeOK
<1> QED
  BY <1>1, <1>2, <1>3, <1>5, <1>6, <1>7, <1>8, <1>9
     DEF reloadData, TypeInv, TypeOK, Filled

LEMMA AnswerType ==
  ASSUME TypeInv, NEW n \in Searches, NEW count \in 0 .. MaxResults,
         Answer(n, count)
  PROVE  TypeInv'
<1>1. videoArray' \in Results /\ videoArray'.search \in Searches
  BY ScreenAssumption DEF Answer, Results, Searches
<1> QED
  BY <1>1 DEF Answer, cellVars, TypeInv, TypeOK, Filled

LEMMA SearchType ==
  ASSUME TypeInv, searchVideoButton
  PROVE  TypeInv'
<1>1. asked' \in 0 .. MaxSearches /\ asked' \in Searches
  BY ScreenAssumption DEF searchVideoButton, TypeInv, TypeOK, Searches
<1>2. waiting' \subseteq Searches /\ overlapped' \subseteq Searches
  BY <1>1 DEF searchVideoButton, TypeInv, TypeOK
<1> QED
  BY <1>1, <1>2 DEF searchVideoButton, cellVars, TypeInv, TypeOK, Filled

LEMMA ScreenInit ==
  ASSUME Init
  PROVE  TypeInv
<1>1. {videoArray, table} \subseteq Results
  BY EmptyScreenType DEF Init
<1>2. DOMAIN cells = VisibleRows(table.count, offset)
  BY EmptyScreenType DEF Init
<1>3. \A row \in DOMAIN cells : cells[row] \in Searches
  BY DEF Init
<1>4. /\ offset \in -Bounce .. MaxOffset(MaxResults) + Bounce
      /\ visibleIP \in 0 .. MaxResults
      /\ aboutToBecomeInvisibleCell \in -1 .. MaxResults - 1
  BY EmptyScreenType DEF Init
<1>5. Filled
  BY DEF Init, NoResults, Filled
<1>6. asked \in 0 .. MaxSearches
  BY ScreenAssumption DEF Init
<1>7. /\ waiting \subseteq Searches
      /\ reloads \in Nat
      /\ playing \subseteq 0 .. MaxResults - 1
      /\ lost \subseteq Searches
      /\ overlapped \subseteq Searches
      /\ alone \in BOOLEAN
  BY DEF Init
<1> QED
  BY <1>1, <1>2, <1>3, <1>4, <1>5, <1>6, <1>7 DEF TypeInv, TypeOK

LEMMA ScreenStep ==
  ASSUME TypeInv, [Next]_vars
  PROVE  TypeInv'
<1>1. ASSUME NEW o \in Positions, Scroll(o) PROVE TypeInv'
  BY <1>1, ScrollType
<1>2. ASSUME NEW o \in Positions, ScrollBeyond(o) PROVE TypeInv'
  BY <1>2, EndOfAppType DEF ScrollBeyond
<1>3. CASE searchVideoButton
  BY <1>3, SearchType
<1>4. ASSUME NEW n \in Searches, NEW count \in 0 .. MaxResults, Answer(n, count)
      PROVE  TypeInv'
  BY <1>4, AnswerType
<1>5. ASSUME NEW n \in Searches, AnswerLost(n) PROVE TypeInv'
  BY <1>5 DEF AnswerLost, cellVars, TypeInv, TypeOK, Filled
<1>6. ASSUME NEW n \in Searches, AnswerUnwrapsNil(n) PROVE TypeInv'
  BY <1>6, EndOfAppType DEF AnswerUnwrapsNil
<1>7. CASE reloadData
  BY <1>7, ReloadType
<1>8. CASE UNCHANGED vars
  BY <1>8 DEF vars, searchVars, cellVars, TypeInv, TypeOK, Filled
<1> QED
  BY <1>1, <1>2, <1>3, <1>4, <1>5, <1>6, <1>7, <1>8 DEF Next, Receive

\* Type invariant: a cell on the screen shows a video of some search, whatever
\* was answered, lost or reloaded meanwhile, and the positions stay in bounds.
THEOREM ScreenTypeCorrect == Spec => []TypeOK
<1>1. Init => TypeInv
  BY ScreenInit
<1>2. TypeInv /\ [Next]_vars => TypeInv'
  BY ScreenStep
<1>3. TypeInv => TypeOK
  BY DEF TypeInv
<1> QED
  BY <1>1, <1>2, <1>3, PTL DEF Spec

-----------------------------------------------------------------------------
(* Cells, array and table.                                                 *)

LEMMA MatchKept ==
  ASSUME TypeInv, CellsMatch, [Next]_vars
  PROVE  CellsMatch'
<1>1. ASSUME NEW o \in Positions, Scroll(o) PROVE CellsMatch'
  <2>1. DOMAIN cells = VisibleRows(table.count, offset)
    BY DEF TypeInv, TypeOK
  <2>2. SUFFICES ASSUME reloads = 0
                 PROVE  /\ table' = videoArray'
                        /\ \A row \in DOMAIN cells' : cells'[row] = table'.search
    BY <1>1 DEF Scroll, searchVars, CellsMatch
  <2>3. table = videoArray /\ \A row \in DOMAIN cells : cells[row] = table.search
    BY <2>2 DEF CellsMatch
  <2>4. table' = videoArray' /\ table' = table
    BY <1>1, <2>3 DEF Scroll, searchVars
  <2>5. \A row \in DOMAIN cells' : cells'[row] = table.search
    BY <1>1, <2>3 DEF Scroll
  <2> QED
    BY <2>4, <2>5
<1>2. CASE EndOfApp
  BY <1>2 DEF EndOfApp, CellsMatch
<1>3. CASE searchVideoButton
  BY <1>3 DEF searchVideoButton, cellVars, CellsMatch
<1>4. ASSUME NEW n \in Searches, NEW count \in 0 .. MaxResults, Answer(n, count)
      PROVE  CellsMatch'
  <2>1. reloads' # 0
    BY <1>4 DEF Answer, TypeInv, TypeOK
  <2> QED
    BY <2>1 DEF CellsMatch
<1>5. ASSUME NEW n \in Searches, AnswerLost(n) PROVE CellsMatch'
  BY <1>5 DEF AnswerLost, cellVars, CellsMatch
<1>6. CASE reloadData
  BY <1>6 DEF reloadData, CellsMatch
<1>7. CASE UNCHANGED vars
  BY <1>7 DEF vars, searchVars, cellVars, CellsMatch
<1> QED
  BY <1>1, <1>2, <1>3, <1>4, <1>5, <1>6, <1>7
     DEF Next, Receive, ScrollBeyond, AnswerUnwrapsNil

\* Answers replace the array at once and the table later, and between the two
\* scrolling takes cells from the new array into the old table; once no reload
\* waits, array, table and every cell are of one search.
THEOREM CellsMatchAlways == Spec => []CellsMatch
<1>1. Init => TypeInv /\ CellsMatch
  <2>1. Init => CellsMatch
    BY DEF Init, CellsMatch
  <2> QED
    BY <2>1, ScreenInit
<1>2. TypeInv /\ CellsMatch /\ [Next]_vars => TypeInv' /\ CellsMatch'
  BY ScreenStep, MatchKept
<1> QED
  BY <1>1, <1>2, PTL DEF Spec

-----------------------------------------------------------------------------
(* The cell that plays.                                                    *)

\* At most one row plays, and when several rows are in the table it is not the
\* row stopped last: a row that plays is full, the next scroll that finds it
\* partly hidden must not take it for one already stopped.
OnePlays ==
  /\ playing \subseteq DOMAIN cells
  /\ ~ TwoFullFit /\ ~ alone =>
       /\ \A p, q \in playing : p = q
       /\ table.count > 1 => aboutToBecomeInvisibleCell \notin playing

\* A table of one row, or none, has no two rows to play.
LEMMA FewRows ==
  ASSUME NEW count \in Nat, ~ (count > 1), NEW o \in Int
  PROVE  \A p, q \in VisibleRows(count, o) : p = q
<1>1. VisibleRows(count, o) \subseteq 0 .. count - 1
  BY VisibleType
<1> QED
  BY <1>1

LEMMA OnePlaysScroll ==
  ASSUME TypeInv, OnePlays, NEW o \in Positions, Scroll(o)
  PROVE  OnePlays'
<1> DEFINE rows == VisibleRows(table.count, o)
           running == playing \intersect rows
<1>1. /\ table \in Results
      /\ table.count \in 0 .. MaxResults
      /\ table.count \in Nat
      /\ o \in Int
  BY ScreenAssumption, ArrayType, MaxOffsetGrows DEF TypeInv, TypeOK, Positions
<1>2. DidScroll(o, rows, running) /\ DOMAIN cells' = rows /\ table' = table
  BY DEF Scroll
<1>3. playing' \subseteq rows
  BY <1>1, <1>2, DidScrollType DEF TypeInv, TypeOK
<1>4. SUFFICES ASSUME ~ TwoFullFit, ~ alone'
               PROVE  /\ \A p, q \in playing' : p = q
                      /\ table.count > 1 => aboutToBecomeInvisibleCell' \notin playing'
  BY <1>2, <1>3 DEF OnePlays, TwoFullFit
<1>5. ~ alone /\ (table.count > 1 => ~ OnlyOne(rows))
  BY <1>4 DEF Scroll
<1>6. CASE table.count > 1
  <2>1. ~ OnlyOne(rows)
    BY <1>5, <1>6
  <2>2. \A p, q \in running : p = q
    BY <1>4, <1>5 DEF OnePlays
  <2>3. aboutToBecomeInvisibleCell \notin running
    BY <1>4, <1>5, <1>6 DEF OnePlays
  <2> QED
    BY <1>1, <1>2, <1>4, <2>1, <2>2, <2>3, DidScrollAlone
<1>7. CASE ~ (table.count > 1)
  BY <1>1, <1>3, <1>7, FewRows
<1> QED
  BY <1>6, <1>7

LEMMA OnePlaysReload ==
  ASSUME TypeInv, OnePlays, reloadData
  PROVE  OnePlays'
<1> DEFINE o == Smaller(offset, MaxOffset(videoArray.count) + Bounce)
           rows == VisibleRows(videoArray.count, o)
<1>1. /\ videoArray \in Results
      /\ videoArray.count \in 0 .. MaxResults
      /\ videoArray.count \in Nat
      /\ o \in Int
  BY ArrayType, PulledBackType DEF TypeInv, TypeOK
<1>2. DOMAIN cells' = rows /\ table' = videoArray
  BY DEF reloadData
<1>3. CASE o = offset
  <2>1. playing' = {}
    BY <1>3 DEF reloadData
  <2> QED
    BY <2>1 DEF OnePlays
<1>4. CASE o # offset
  <2>1. DidScroll(o, rows, {})
    BY <1>4 DEF reloadData
  <2>2. playing' \subseteq rows
    BY <1>1, <2>1, DidScrollType DEF TypeInv, TypeOK
  <2>3. SUFFICES ASSUME ~ TwoFullFit, ~ alone'
                 PROVE  /\ \A p, q \in playing' : p = q
                        /\ videoArray.count > 1 =>
                             aboutToBecomeInvisibleCell' \notin playing'
    BY <1>2, <2>2 DEF OnePlays, TwoFullFit
  <2>4. CASE videoArray.count > 1
    <3>1. ~ OnlyOne(rows)
      BY <2>3, <2>4 DEF reloadData
    <3> QED
      BY <1>1, <2>1, <2>3, <3>1, DidScrollAlone
  <2>5. CASE ~ (videoArray.count > 1)
    BY <1>1, <2>2, <2>5, FewRows
  <2> QED
    BY <2>4, <2>5
<1> QED
  BY <1>3, <1>4

LEMMA OnePlaysKept ==
  ASSUME TypeInv, OnePlays, [Next]_vars
  PROVE  OnePlays'
<1>1. ASSUME NEW o \in Positions, Scroll(o) PROVE OnePlays'
  BY <1>1, OnePlaysScroll
<1>2. CASE EndOfApp
  BY <1>2 DEF EndOfApp, OnePlays
<1>3. CASE reloadData
  BY <1>3, OnePlaysReload
<1>4. CASE UNCHANGED <<table, cellVars>>
  BY <1>4 DEF cellVars, OnePlays, TwoFullFit
<1> QED
  BY <1>1, <1>2, <1>3, <1>4
     DEF Next, Receive, ScrollBeyond, AnswerUnwrapsNil, searchVideoButton,
         Answer, AnswerLost, vars

\* Rows that are equal to each other are at most one.
LEMMA AtMostOne ==
  ASSUME NEW S, \A p, q \in S : p = q
  PROVE  Cardinality(S) <= 1
<1>1. CASE S = {}
  BY <1>1, FS_EmptySet
<1>2. CASE S # {}
  <2>1. PICK p \in S : S = {p}
    BY <1>2
  <2>2. Cardinality({p}) = 1
    BY FS_Singleton
  <2> QED
    BY <2>1, <2>2
<1> QED
  BY <1>1, <1>2

\* Two fields remember what was started and stopped last and are never reset
\* by a reload; still no two rows play at once, for any heights at which two
\* full rows do not fit, unless one of several rows was pulled away alone.
THEOREM AtMostOnePlaysAlways == Spec => []AtMostOnePlays
<1>1. Init => TypeInv /\ OnePlays
  BY ScreenInit DEF Init, OnePlays
<1>2. TypeInv /\ OnePlays /\ [Next]_vars => TypeInv' /\ OnePlays'
  BY ScreenStep, OnePlaysKept
<1>3. OnePlays => AtMostOnePlays
  BY AtMostOne DEF OnePlays, AtMostOnePlays
<1> QED
  BY <1>1, <1>2, <1>3, PTL DEF Spec
=============================================================================
