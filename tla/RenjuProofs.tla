---------------------------- MODULE RenjuProofs -----------------------------
(***************************************************************************)
(* The Renju rules on a board of any size and for any win length: what a    *)
(* window shows is enough if it reaches as far as the win length; the scan  *)
(* of the board skips no forbidden point; and so no row of the constrained  *)
(* colour ever outgrows the win length.                                     *)
(***************************************************************************)
EXTENDS RenjuGame, GomokuProofs, WellFoundedInduction

-----------------------------------------------------------------------------
(* Stretches of integers *)

\* The unbroken part of S around i; a run is the stretch of own stones.
Stretch(S, i) == {k \in S : (k .. i) \cup (i .. k) \subseteq S}

\* m + 1 consecutive elements of S, among them i.
Spans(S, i, m) == \E s \in Int : s <= i /\ i <= s + m /\ s .. s + m \subseteq S

\* A set of naturals has a least element.
LEMMA LeastNatural ==
    ASSUME NEW T \in SUBSET Nat, T # {}
    PROVE  \E x \in T : \A y \in T : x <= y
  <1> DEFINE Less == OpToRel(<, Nat)
  <1>1. \A x, y \in Nat : y < x => <<y, x>> \in Less
    BY DEF OpToRel
  <1>2. IsWellFoundedOn(Less, Nat)
    BY NatLessThanWellFounded
  <1> HIDE DEF Less
  <1>3. T \subseteq Nat /\ T # {}
    OBVIOUS
  <1>4. \E x \in T : \A y \in T : ~ (<<y, x>> \in Less)
    BY <1>2, <1>3, WFMin, Zenon
  <1>5. PICK x \in T : \A y \in T : ~ (<<y, x>> \in Less)
    BY <1>4
  <1>6. ASSUME NEW y \in T
        PROVE  x <= y
    <2>1. x \in Nat /\ y \in Nat /\ ~ (<<y, x>> \in Less)
      BY <1>3, <1>5
    <2>2. ~ (y < x)
      BY <1>1, <2>1, Zenon
    <2> QED
      BY <2>1, <2>2
  <1> QED
    BY <1>6

\* A stretch is an interval.
LEMMA StretchIsInterval ==
    ASSUME NEW n \in Nat, NEW S \in SUBSET (-n .. n), NEW i \in S
    PROVE  \E a, b \in Int : a <= i /\ i <= b /\ Stretch(S, i) = a .. b
  <1> DEFINE R == Stretch(S, i)
             Up == {t \in Nat : t - n \in R}
             Down == {t \in Nat : n - t \in R}
  <1>1. i \in Int /\ i \in R /\ R \subseteq -n .. n
    <2>1. i \in Int /\ (i .. i) \cup (i .. i) \subseteq S
      OBVIOUS
    <2> QED
      BY <2>1 DEF Stretch
  <1>2. PICK a \in R : \A k \in R : a <= k
    <2>1. i + n \in Up
      BY <1>1
    <2>2. PICK x \in Up : \A y \in Up : x <= y
      BY <2>1, LeastNatural
    <2>3. \A k \in R : k + n \in Up
      BY <1>1
    <2> QED
      BY <1>1, <2>2, <2>3
  <1>3. PICK b \in R : \A k \in R : k <= b
    <2>1. n - i \in Down
      BY <1>1
    <2>2. PICK x \in Down : \A y \in Down : x <= y
      BY <2>1, LeastNatural
    <2>3. \A k \in R : n - k \in Down
      BY <1>1
    <2> QED
      BY <1>1, <2>2, <2>3
  <1>4. a \in Int /\ b \in Int /\ a <= i /\ i <= b
    BY <1>1, <1>2, <1>3
  <1>5. a .. i \subseteq S /\ i .. b \subseteq S
    BY <1>2, <1>3 DEF Stretch
  <1>6. R = a .. b
    <2>1. \A k \in a .. b : k \in S /\ k .. i \subseteq S /\ i .. k \subseteq S
      BY <1>1, <1>4, <1>5
    <2>2. R \subseteq a .. b
      BY <1>1, <1>2, <1>3
    <2> QED
      BY <2>1, <2>2 DEF Stretch
  <1> QED
    BY <1>4, <1>6

\* How long a stretch is, told by the intervals of S around i.
LEMMA StretchLength ==
    ASSUME NEW n \in Nat, NEW S \in SUBSET (-n .. n), NEW i \in S
    PROVE  /\ Cardinality(Stretch(S, i)) \in Nat
           /\ \A m \in Nat : Cardinality(Stretch(S, i)) > m <=> Spans(S, i, m)
  <1>1. PICK a, b \in Int : a <= i /\ i <= b /\ Stretch(S, i) = a .. b
    BY StretchIsInterval
  <1>2. i \in Int /\ Cardinality(Stretch(S, i)) = b - a + 1
    BY <1>1, FS_Interval
  <1>3. ASSUME NEW m \in Nat, b - a + 1 > m
        PROVE  Spans(S, i, m)
    <2>1. a .. b \subseteq S
      BY <1>1 DEF Stretch
    <2>2. CASE a + m >= i
      <3>1. a .. a + m \subseteq a .. b
        BY <1>2, <1>3
      <3> QED
        BY <2>1, <2>2, <3>1, <1>1 DEF Spans
    <2>3. CASE a + m < i
      <3>1. i - m .. i \subseteq a .. b
        BY <2>3, <1>1, <1>2
      <3>2. i - m \in Int /\ i - m <= i /\ i <= i - m + m /\ i - m + m = i
        BY <1>2
      <3> QED
        BY <2>1, <3>1, <3>2 DEF Spans
    <2> QED
      BY <2>2, <2>3, <1>2
  <1>4. ASSUME NEW m \in Nat, Spans(S, i, m)
        PROVE  b - a + 1 > m
    <2>1. PICK s \in Int : s <= i /\ i <= s + m /\ s .. s + m \subseteq S
      BY <1>4 DEF Spans
    <2>2. s \in Stretch(S, i) /\ s + m \in Stretch(S, i)
      BY <2>1, <1>2 DEF Stretch
    <2> QED
      BY <2>1, <2>2, <1>1
  <1> QED
    BY <1>1, <1>2, <1>3, <1>4

-----------------------------------------------------------------------------
(* Lines *)

\* The places of a line that hold c, however far from its centre p.
Line(b, p, d, c) == {k \in Int : Along(p, d, k) \in Points /\ b[Along(p, d, k)] = c}

\* The points of a line are different, and few of them are on the board.
LEMMA LineFacts ==
    ASSUME NEW p \in Points, NEW d \in HalfDirections, NEW i \in Int, NEW j \in Int
    PROVE  /\ Along(p, d, 0) = p
           /\ Along(p, d, i) = Along(p, d, j) => i = j
           /\ Along(Along(p, d, i), d, j) = Along(p, d, i + j)
           /\ Along(p, d, i) \in Points => i \in Reach
  <1>1. p[1] \in Int /\ p[2] \in Int /\ p = <<p[1], p[2]>>
        /\ p[1] \in 0 .. Size - 1 /\ p[2] \in 0 .. Size - 1 /\ Size \in Nat
    BY GomokuAssumption DEF Points, PointsOf
  <1>2. CASE d = <<1, 0>>
    BY <1>1, <1>2 DEF Along, Points, PointsOf, Reach
  <1>3. CASE d = <<0, 1>>
    BY <1>1, <1>3 DEF Along, Points, PointsOf, Reach
  <1>4. CASE d = <<1, 1>>
    BY <1>1, <1>4 DEF Along, Points, PointsOf, Reach
  <1>5. CASE d = <<1, -1>>
    BY <1>1, <1>5 DEF Along, Points, PointsOf, Reach
  <1> QED
    BY <1>2, <1>3, <1>4, <1>5 DEF HalfDirections

\* Two lines through p have no other point in common.
LEMMA LinesCross ==
    ASSUME NEW p \in Points, NEW d \in HalfDirections, NEW e \in HalfDirections, d # e,
           NEW i \in Int, NEW j \in Int, Along(p, d, i) = Along(p, e, j)
    PROVE  i = 0 /\ j = 0
  <1>1. p[1] \in Int /\ p[2] \in Int
    BY GomokuAssumption DEF Points, PointsOf
  <1>2. /\ p[1] + i * d[1] = p[1] + j * e[1]
        /\ p[2] + i * d[2] = p[2] + j * e[2]
    BY DEF Along
  <1>3. CASE d = <<1, 0>>
    BY <1>1, <1>2, <1>3 DEF HalfDirections
  <1>4. CASE d = <<0, 1>>
    BY <1>1, <1>2, <1>4 DEF HalfDirections
  <1>5. CASE d = <<1, 1>>
    BY <1>1, <1>2, <1>5 DEF HalfDirections
  <1>6. CASE d = <<1, -1>>
    BY <1>1, <1>2, <1>6 DEF HalfDirections
  <1> QED
    BY <1>3, <1>4, <1>5, <1>6 DEF HalfDirections

\* A window shows its line as far as it reaches.
LEMMA WindowShowsLine ==
    ASSUME NEW b \in Boards, NEW p \in Points, NEW d \in HalfDirections, NEW c
    PROVE  /\ Window(b, p, d, c).own = Line(b, p, d, c) \cap Offsets
           /\ Window(b, p, d, c).empty = Line(b, p, d, None) \cap Offsets
           /\ Line(b, p, d, c) \subseteq Reach
  <1>1. DOMAIN b = Points /\ Offsets \subseteq Int
    BY RulesAssumption DEF Boards, Offsets
  <1>2. Line(b, p, d, c) \subseteq Reach
    BY LineFacts DEF Line
  <1> QED
    BY <1>1, <1>2 DEF Window, Line

\* How long the row of a stone is, and how long it looks.
LEMMA RowLengths ==
    ASSUME NEW b \in Boards, NEW p \in Points, NEW d \in HalfDirections, NEW c, b[p] = c
    PROVE  /\ Cardinality(WholeRow(b, p, d)) \in Nat
           /\ RunLength(Window(b, p, d, c), 0) \in Nat
           /\ \A m \in Nat :
                /\ Cardinality(WholeRow(b, p, d)) > m <=> Spans(Line(b, p, d, c), 0, m)
                /\ m <= WindowRadius =>
                      (RunLength(Window(b, p, d, c), 0) > m <=> Spans(Line(b, p, d, c), 0, m))
  <1> DEFINE L == Line(b, p, d, c)
             own == Window(b, p, d, c).own
  <1>1. /\ WindowRadius \in Nat /\ Size - 1 \in Nat
        /\ Offsets = -WindowRadius .. WindowRadius /\ Reach = -(Size - 1) .. Size - 1
    BY GomokuAssumption, RulesAssumption DEF Offsets, Reach
  <1>2. own = L \cap Offsets /\ L \subseteq Reach
    BY WindowShowsLine
  <1>3. 0 \in L /\ 0 \in own
    BY <1>1, <1>2, LineFacts DEF Line
  <1>4. Run(Window(b, p, d, c), 0) = Stretch(own, 0)
    BY DEF Run, Stretch
  <1>5. WholeRow(b, p, d) = Stretch(L, 0)
    <2>1. DOMAIN b = Points
      BY DEF Boards
    <2>2. \A k \in Reach : (k .. 0) \cup (0 .. k) \subseteq Int /\ k \in (k .. 0) \cup (0 .. k)
      BY <1>1
    <2> QED
      BY <1>2, <2>1, <2>2 DEF WholeRow, Stretch, Line
  <1>6. /\ Cardinality(Stretch(L, 0)) \in Nat
        /\ \A m \in Nat : Cardinality(Stretch(L, 0)) > m <=> Spans(L, 0, m)
    BY <1>1, <1>2, <1>3, StretchLength
  <1>7. /\ Cardinality(Stretch(own, 0)) \in Nat
        /\ \A m \in Nat : Cardinality(Stretch(own, 0)) > m <=> Spans(own, 0, m)
    <2>1. own \subseteq -WindowRadius .. WindowRadius
      BY <1>1, <1>2
    <2> QED
      BY <1>1, <1>3, <2>1, StretchLength
  <1>8. ASSUME NEW m \in Nat, m <= WindowRadius
        PROVE  Spans(own, 0, m) <=> Spans(L, 0, m)
    <2>1. \A s \in Int : s <= 0 /\ 0 <= s + m => s .. s + m \subseteq Offsets
      BY <1>1, <1>8
    <2> QED
      BY <1>2, <2>1 DEF Spans
  <1> QED
    BY <1>4, <1>5, <1>6, <1>7, <1>8 DEF RunLength

-----------------------------------------------------------------------------
(* Rows and fours *)

\* A board has a stone of some colour at each of its stones.
LEMMA StonesHaveColors ==
    ASSUME board \in Boards, NEW p \in Stones
    PROVE  p \in Points /\ board[p] \in Color /\ board[p] # None
  BY DEF Stones, EmptyPoints, Boards

\* On any board: a window that reaches as far as the win length judges rows by
\* the stones that stand there.
LEMMA RowsExact ==
    ASSUME board \in Boards, WinLength <= WindowRadius
    PROVE  RowsJudgedExactly
  <1>1. WinLength \in Nat /\ WinLength - 1 \in Nat /\ WindowRadius \in Nat
    BY RulesAssumption, GomokuAssumption
  <1>2. ASSUME NEW p \in Stones, NEW d \in HalfDirections
        PROVE  LET row == Cardinality(WholeRow(board, p, d))
                   seen == RunLength(Window(board, p, d, board[p]), 0)
               IN  (seen = WinLength <=> row = WinLength) /\ (seen > WinLength <=> row > WinLength)
    <2> DEFINE row == Cardinality(WholeRow(board, p, d))
               seen == RunLength(Window(board, p, d, board[p]), 0)
    <2>1. row \in Nat /\ seen \in Nat
      BY StonesHaveColors, RowLengths
    <2>2. seen > WinLength <=> row > WinLength
      BY <1>1, StonesHaveColors, RowLengths
    <2>3. seen > WinLength - 1 <=> row > WinLength - 1
      BY <1>1, StonesHaveColors, RowLengths
    <2> QED
      BY <1>1, <2>1, <2>2, <2>3
  <1> QED
    BY <1>2 DEF RowsJudgedExactly, ExactFive, Overline, LongestRunExceeds

\* From b to next, the stone of colour c at p gets one more at place k of a line.
AddsStone(b, next, p, d, c, k) ==
    /\ b[p] = c /\ Along(p, d, k) \in Points /\ b[Along(p, d, k)] = None
    /\ next = [b EXCEPT ![Along(p, d, k)] = c]

\* It is on the line, and seen on it within the window.
LEMMA StoneAdded ==
    ASSUME NEW b \in Boards, NEW p \in Points, NEW d \in HalfDirections,
           NEW c \in Color, NEW k \in Int, NEW next, AddsStone(b, next, p, d, c, k)
    PROVE  /\ next \in Boards /\ next[p] = c
           /\ Line(next, p, d, c) = Line(b, p, d, c) \cup {k}
           /\ k \in Offsets =>
                 RunLength(WithStone(Window(b, p, d, c), k), 0)
                   = RunLength(Window(next, p, d, c), 0)
  <1> DEFINE q == Along(p, d, k)
             w == Window(b, p, d, c)
  <1>1. next \in Boards /\ c # None /\ q # p /\ next[p] = c /\ next[q] = c
        /\ \A r \in Points : r # q => next[r] = b[r]
    BY GomokuAssumption DEF Boards, AddsStone
  <1>2. Line(next, p, d, c) = Line(b, p, d, c) \cup {k}
    BY <1>1, LineFacts DEF Line, AddsStone
  <1>3. ASSUME k \in Offsets
        PROVE  RunLength(WithStone(w, k), 0) = RunLength(Window(next, p, d, c), 0)
    <2>1. WithStone(w, k).own = (Line(b, p, d, c) \cap Offsets) \cup {k}
      BY WindowShowsLine DEF WithStone
    <2>2. Window(next, p, d, c).own = (Line(b, p, d, c) \cup {k}) \cap Offsets
      BY <1>1, <1>2, WindowShowsLine
    <2>3. (Line(b, p, d, c) \cap Offsets) \cup {k} = (Line(b, p, d, c) \cup {k}) \cap Offsets
      BY <1>3
    <2>4. WithStone(w, k).own = Window(next, p, d, c).own
      BY <2>1, <2>2, <2>3
    <2> QED
      BY <2>4 DEF RunLength, Run
  <1> QED
    BY <1>1, <1>2, <1>3

\* Within the window, a stone that completes the row is seen to do so.
LEMMA FourSeen ==
    ASSUME WinLength <= WindowRadius,
           NEW b \in Boards, NEW p \in Points, NEW d \in HalfDirections,
           NEW c \in Color, NEW k \in Offsets, NEW next, AddsStone(b, next, p, d, c, k)
    PROVE  RunLength(WithStone(Window(b, p, d, c), k), 0) = WinLength
             <=> Cardinality(WholeRow(next, p, d)) = WinLength
  <1>1. WinLength \in Nat /\ WinLength - 1 \in Nat /\ WindowRadius \in Nat /\ k \in Int
    BY RulesAssumption, GomokuAssumption DEF Offsets
  <1>2. /\ next \in Boards /\ next[p] = c
        /\ RunLength(WithStone(Window(b, p, d, c), k), 0) = RunLength(Window(next, p, d, c), 0)
    BY <1>1, StoneAdded
  <1>3. PICK row, seen \in Nat :
            /\ row = Cardinality(WholeRow(next, p, d))
            /\ seen = RunLength(Window(next, p, d, c), 0)
            /\ \A m \in Nat : m <= WindowRadius => (seen > m <=> row > m)
    BY <1>2, RowLengths
  <1>4. (seen > WinLength <=> row > WinLength) /\ (seen > WinLength - 1 <=> row > WinLength - 1)
    BY <1>1, <1>3
  <1> QED
    BY <1>1, <1>2, <1>3, <1>4

\* A stone that completes the row is within the window.
LEMMA FourWithinWindow ==
    ASSUME WinLength <= WindowRadius,
           NEW b \in Boards, NEW p \in Points, NEW d \in HalfDirections,
           NEW c \in Color, NEW k \in Int, NEW next, AddsStone(b, next, p, d, c, k),
           Cardinality(WholeRow(b, p, d)) # WinLength,
           Cardinality(WholeRow(next, p, d)) = WinLength
    PROVE  k \in Offsets
  <1> DEFINE L == Line(b, p, d, c)
  <1>1. /\ WinLength \in Nat /\ WinLength - 1 \in Nat /\ WindowRadius \in Nat
        /\ Offsets = -WindowRadius .. WindowRadius
    BY RulesAssumption, GomokuAssumption DEF Offsets
  <1>2. PICK row \in Nat : /\ row = Cardinality(WholeRow(b, p, d))
                           /\ \A m \in Nat : row > m <=> Spans(L, 0, m)
    BY RowLengths DEF AddsStone
  <1>3. next \in Boards /\ next[p] = c /\ Line(next, p, d, c) = L \cup {k}
    BY StoneAdded
  <1>4. \A m \in Nat : WinLength > m <=> Spans(L \cup {k}, 0, m)
    BY <1>3, RowLengths
  <1>5. Spans(L \cup {k}, 0, WinLength - 1) /\ ~ Spans(L \cup {k}, 0, WinLength)
    <2>1. WinLength > WinLength - 1 <=> Spans(L \cup {k}, 0, WinLength - 1)
      BY <1>1, <1>4, Zenon
    <2>2. WinLength > WinLength <=> Spans(L \cup {k}, 0, WinLength)
      BY <1>1, <1>4, Zenon
    <2> QED
      BY <1>1, <2>1, <2>2
  <1>6. ~ Spans(L, 0, WinLength)
    BY <1>5 DEF Spans
  <1>7. ~ Spans(L, 0, WinLength - 1)
    BY <1>1, <1>2, <1>6
  <1>8. PICK s \in Int : /\ s <= 0 /\ 0 <= s + (WinLength - 1)
                         /\ s .. s + (WinLength - 1) \subseteq L \cup {k}
    BY <1>5 DEF Spans
  <1>9. k \in s .. s + (WinLength - 1)
    BY <1>7, <1>8 DEF Spans
  <1> QED
    BY <1>1, <1>8, <1>9

\* Likewise fours, on any board.
LEMMA FoursExact ==
    ASSUME board \in Boards, WinLength <= WindowRadius
    PROVE  FoursJudgedExactly
  <1> SUFFICES ASSUME NEW p \in Stones, NEW d \in HalfDirections,
                      Cardinality(WholeRow(board, p, d)) # WinLength
               PROVE  Four(Window(board, p, d, board[p])) <=>
                        \E k \in Reach :
                            /\ Along(p, d, k) \in Points /\ board[Along(p, d, k)] = None
                            /\ Cardinality(WholeRow([board EXCEPT ![Along(p, d, k)] = board[p]],
                                                    p, d)) = WinLength
    BY DEF FoursJudgedExactly
  <1> DEFINE c == board[p]
             w == Window(board, p, d, c)
             row(k) == Cardinality(WholeRow([board EXCEPT ![Along(p, d, k)] = c], p, d))
             Free(k) == Along(p, d, k) \in Points /\ board[Along(p, d, k)] = None
             next(k) == [board EXCEPT ![Along(p, d, k)] = c]
  <1>1. p \in Points /\ c \in Color /\ Reach \subseteq Int
    BY StonesHaveColors, GomokuAssumption DEF Reach
  <1>2. \A k : k \in w.empty <=> k \in Int /\ k \in Offsets /\ Free(k)
    BY <1>1, WindowShowsLine DEF Line
  <1>3. ASSUME NEW k \in Offsets, Free(k)
        PROVE  RunLength(WithStone(w, k), 0) = WinLength <=> row(k) = WinLength
    <2>1. AddsStone(board, next(k), p, d, c, k)
      BY <1>3 DEF AddsStone
    <2> QED
      BY <1>1, <2>1, FourSeen
  <1>4. ASSUME Four(w)
        PROVE  \E k \in Reach : Free(k) /\ row(k) = WinLength
    <2>1. PICK k \in w.empty : RunLength(WithStone(w, k), 0) = WinLength
      BY <1>4 DEF Four
    <2>2. k \in Offsets /\ k \in Reach /\ Free(k)
      BY <1>1, <1>2, LineFacts
    <2> QED
      BY <1>3, <2>1, <2>2
  <1>5. ASSUME NEW k \in Reach, Free(k), row(k) = WinLength
        PROVE  Four(w)
    <2>1. AddsStone(board, next(k), p, d, c, k)
      BY <1>5 DEF AddsStone
    <2>2. k \in Offsets
      BY <1>1, <1>5, <2>1, FourWithinWindow
    <2>3. k \in w.empty /\ RunLength(WithStone(w, k), 0) = WinLength
      BY <1>1, <1>2, <1>3, <1>5, <2>2
    <2> QED
      BY <2>3 DEF Four
  <1> QED
    BY <1>4, <1>5

\* In every game, under any rule, a window that reaches as far as the win length
\* judges rows as they stand on the board (longest_run, check_exact_five,
\* check_overline).  With a shorter one it does not: renju_long_rows.
THEOREM RowsAlwaysExact ==
    ASSUME WinLength <= WindowRadius
    PROVE  GomokuSpec => []RowsJudgedExactly
  <1>1. GomokuInv => RowsJudgedExactly
    BY RowsExact DEF GomokuInv, FieldsTyped
  <1> QED
    BY <1>1, GomokuInvariant, PTL

\* And fours as one more stone on the board would complete them (_is_four).
THEOREM FoursAlwaysExact ==
    ASSUME WinLength <= WindowRadius
    PROVE  GomokuSpec => []FoursJudgedExactly
  <1>1. GomokuInv => FoursJudgedExactly
    BY FoursExact DEF GomokuInv, FieldsTyped
  <1> QED
    BY <1>1, GomokuInvariant, PTL

-----------------------------------------------------------------------------
(* The prefilter *)

\* A set with two elements or more has two that differ.
LEMMA TwoElements ==
    ASSUME NEW S, IsFiniteSet(S), Cardinality(S) >= 2
    PROVE  \E x, y \in S : x # y
  <1>1. Cardinality(S) # 0 /\ Cardinality(S) # 1
    BY FS_CardinalityType
  <1>2. PICK x \in S : TRUE
    BY <1>1, FS_EmptySet
  <1>3. S # {x}
    BY <1>1, FS_Singleton
  <1> QED
    BY <1>2, <1>3

\* A set with four different elements has at least four.
LEMMA FourElements ==
    ASSUME NEW S, IsFiniteSet(S), NEW x \in S, NEW y \in S, NEW z \in S, NEW t \in S,
           x # y, x # z, x # t, y # z, y # t, z # t
    PROVE  Cardinality(S) >= 4
  <1> DEFINE A == {x}
             B == A \cup {y}
             C == B \cup {z}
             D == C \cup {t}
  <1>1. y \notin A /\ z \notin B /\ t \notin C /\ D \in SUBSET S
    OBVIOUS
  <1>2. IsFiniteSet(A) /\ Cardinality(A) = 1
    BY FS_Singleton
  <1> HIDE DEF A
  <1>3. IsFiniteSet(B) /\ Cardinality(B) = Cardinality(A) + 1
    BY <1>1, <1>2, FS_AddElement
  <1> HIDE DEF B
  <1>4. IsFiniteSet(C) /\ Cardinality(C) = Cardinality(B) + 1
    BY <1>1, <1>3, FS_AddElement
  <1> HIDE DEF C
  <1>5. IsFiniteSet(D) /\ Cardinality(D) = Cardinality(C) + 1
    BY <1>1, <1>4, FS_AddElement
  <1> HIDE DEF D
  <1>6. Cardinality(D) <= Cardinality(S) /\ Cardinality(S) \in Nat
    BY <1>1, FS_Subset, FS_CardinalityType
  <1> QED
    BY <1>2, <1>3, <1>4, <1>5, <1>6

\* Of a long interval around 0, those n + 1 that are near 0.
LEMMA NearZero ==
    ASSUME NEW a \in Int, NEW b \in Int, a <= 0, 0 <= b, NEW n \in Nat, b - a >= n
    PROVE  \E t \in -n .. 0 : t .. t + n \subseteq a .. b
  <1>1. CASE a >= -n
    BY <1>1
  <1>2. CASE a < -n
    BY <1>2
  <1> QED
    BY <1>1, <1>2

\* Two other stones of colour c close to p, on the line in direction d.
TwoNear(b, p, d, c) ==
    \E k, m \in (-3 .. 3) \ {0} : k # m /\ k \in Line(b, p, d, c) /\ m \in Line(b, p, d, c)

\* An interval of four around the centre, all but one of them stones, has two.
LEMMA IntervalHasTwoNear ==
    ASSUME NEW b, NEW p, NEW d, NEW c, NEW i \in Int,
           NEW x \in Int, NEW y \in Int, x <= 0, 0 <= y, y - x >= 3,
           x .. y \subseteq Line(b, p, d, c) \cup {i}
    PROVE  TwoNear(b, p, d, c)
  <1>1. PICK t \in -3 .. 0 : t .. t + 3 \subseteq x .. y
    BY NearZero
  <1>2. t .. t + 3 \subseteq Line(b, p, d, c) \cup {i}
    BY <1>1
  <1>3. \A j \in t .. t + 3 : j # i => j \in Line(b, p, d, c)
    BY <1>2
  <1>4. CASE t = -3
    <2>1. -3 # i => -3 \in Line(b, p, d, c)
      BY <1>3, <1>4
    <2>2. -2 # i => -2 \in Line(b, p, d, c)
      BY <1>3, <1>4
    <2>3. -1 # i => -1 \in Line(b, p, d, c)
      BY <1>3, <1>4
    <2> QED
      BY <2>1, <2>2, <2>3 DEF TwoNear
  <1>5. CASE t = -2
    <2>1. -2 # i => -2 \in Line(b, p, d, c)
      BY <1>3, <1>5
    <2>2. -1 # i => -1 \in Line(b, p, d, c)
      BY <1>3, <1>5
    <2>3. 1 # i => 1 \in Line(b, p, d, c)
      BY <1>3, <1>5
    <2> QED
      BY <2>1, <2>2, <2>3 DEF TwoNear
  <1>6. CASE t = -1
    <2>1. -1 # i => -1 \in Line(b, p, d, c)
      BY <1>3, <1>6
    <2>2. 1 # i => 1 \in Line(b, p, d, c)
      BY <1>3, <1>6
    <2>3. 2 # i => 2 \in Line(b, p, d, c)
      BY <1>3, <1>6
    <2> QED
      BY <2>1, <2>2, <2>3 DEF TwoNear
  <1>7. CASE t = 0
    <2>1. 1 # i => 1 \in Line(b, p, d, c)
      BY <1>3, <1>7
    <2>2. 2 # i => 2 \in Line(b, p, d, c)
      BY <1>3, <1>7
    <2>3. 3 # i => 3 \in Line(b, p, d, c)
      BY <1>3, <1>7
    <2> QED
      BY <2>1, <2>2, <2>3 DEF TwoNear
  <1> QED
    BY <1>4, <1>5, <1>6, <1>7

\* What is seen with a stone added, and where it stretches.
LEMMA AddedRun ==
    ASSUME NEW b \in Boards, NEW p \in Points, NEW d \in HalfDirections, NEW c,
           NEW i \in Window(b, p, d, c).empty
    PROVE  LET s == WithStone(Window(b, p, d, c), i).own
           IN  /\ i \in Int /\ i \in s
               /\ s \subseteq Line(b, p, d, c) \cup {i}
               /\ WindowRadius \in Nat /\ s \in SUBSET (-WindowRadius .. WindowRadius)
               /\ \A j : Run(WithStone(Window(b, p, d, c), i), j) = Stretch(s, j)
  <1>1. Offsets = -WindowRadius .. WindowRadius /\ WindowRadius \in Nat
    BY RulesAssumption DEF Offsets
  <1>2. i \in Offsets /\ WithStone(Window(b, p, d, c), i).own
                           = (Line(b, p, d, c) \cap Offsets) \cup {i}
    BY WindowShowsLine DEF WithStone
  <1> QED
    BY <1>1, <1>2 DEF Run, Stretch

\* A four needs two near stones.
LEMMA FourHasTwoNear ==
    ASSUME WinLength >= 5, NEW b \in Boards, NEW p \in Points, NEW d \in HalfDirections,
           NEW c, b[p] = c,
           Four(Window(b, p, d, c))
    PROVE  TwoNear(b, p, d, c)
  <1> DEFINE w == Window(b, p, d, c)
  <1>1. PICK i \in w.empty : RunLength(WithStone(w, i), 0) = WinLength
    BY DEF Four
  <1>2. PICK s : /\ s = WithStone(w, i).own /\ i \in Int /\ s \subseteq Line(b, p, d, c) \cup {i}
                 /\ WindowRadius \in Nat /\ s \in SUBSET (-WindowRadius .. WindowRadius)
                 /\ \A j : Run(WithStone(w, i), j) = Stretch(s, j)
    BY AddedRun
  <1>3. 0 \in s
    <2>1. 0 \in Line(b, p, d, c) /\ 0 \in Offsets
      BY <1>2, LineFacts DEF Line, Offsets
    <2> QED
      BY <1>2, <2>1, WindowShowsLine DEF WithStone
  <1>4. PICK x, y \in Int : x <= 0 /\ 0 <= y /\ Stretch(s, 0) = x .. y
    BY <1>2, <1>3, StretchIsInterval
  <1>5. y - x + 1 = WinLength
    BY <1>1, <1>2, <1>4, FS_Interval DEF RunLength
  <1>6. x .. y \subseteq Line(b, p, d, c) \cup {i}
    BY <1>2, <1>4 DEF Stretch
  <1>7. y - x >= 3
    BY <1>4, <1>5
  <1> QED
    BY <1>2, <1>4, <1>6, <1>7, IntervalHasTwoNear

\* So does a point that completes an open three.
LEMMA ThreeHasTwoNear ==
    ASSUME WinLength >= 5, NEW b \in Boards, NEW p \in Points, NEW d \in HalfDirections,
           NEW c, Completions(Window(b, p, d, c)) # {}
    PROVE  TwoNear(b, p, d, c)
  <1> DEFINE w == Window(b, p, d, c)
  <1>1. PICK i \in w.empty : StraightFour(WithStone(w, i), i)
    BY DEF Completions
  <1>2. PICK s : /\ s = WithStone(w, i).own /\ i \in Int /\ i \in s
                 /\ s \subseteq Line(b, p, d, c) \cup {i}
                 /\ WindowRadius \in Nat /\ s \in SUBSET (-WindowRadius .. WindowRadius)
                 /\ \A j : Run(WithStone(w, i), j) = Stretch(s, j)
    BY AddedRun
  <1>3. PICK x, y \in Int : x <= i /\ i <= y /\ Stretch(s, i) = x .. y
    BY <1>2, StretchIsInterval
  <1>4. Cardinality(x .. y) = WinLength - 1 /\ 0 \in x .. y
    BY <1>1, <1>2, <1>3 DEF StraightFour
  <1>5. Cardinality(x .. y) = y - x + 1 /\ WinLength \in Int
    BY <1>3, <1>2, FS_Interval, RulesAssumption
  <1>6. x <= 0 /\ 0 <= y /\ y - x >= 3
    BY <1>4, <1>5
  <1>7. x .. y \subseteq Line(b, p, d, c) \cup {i}
    BY <1>2, <1>3 DEF Stretch
  <1> QED
    BY <1>2, <1>6, <1>7, IntervalHasTwoNear

\* The board is finite, and so is every set of its points.
LEMMA PointsFinite == \A S : S \subseteq Points => IsFiniteSet(S)
  <1>1. IsFiniteSet(0 .. Size - 1)
    BY GomokuAssumption, FS_Interval
  <1>2. IsFiniteSet(Points)
    BY <1>1, FS_Product DEF Points, PointsOf
  <1> QED
    BY <1>2, FS_Subset

\* Four stones of colour c near p, all on one line.
FourNear(b, p, d, c) ==
    \E k, l, m, n \in (-4 .. 4) \ {0} :
        /\ k # l /\ k # m /\ k # n /\ l # m /\ l # n /\ m # n
        /\ {k, l, m, n} \subseteq Line(b, p, d, c)

\* An overline has four stones near any of its own.
LEMMA OverlineHasFourNear ==
    ASSUME WinLength >= 5, NEW b \in Boards, NEW p \in Points, NEW d \in HalfDirections,
           NEW c, b[p] = c, RunLength(Window(b, p, d, c), 0) > WinLength
    PROVE  FourNear(b, p, d, c)
  <1> DEFINE L == Line(b, p, d, c)
             own == Window(b, p, d, c).own
  <1>1. Offsets = -WindowRadius .. WindowRadius /\ WindowRadius \in Nat /\ WinLength \in Int
    BY RulesAssumption DEF Offsets
  <1>2. own = L \cap Offsets
    BY WindowShowsLine
  <1>3. 0 \in own /\ own \in SUBSET (-WindowRadius .. WindowRadius)
    BY <1>1, <1>2, LineFacts DEF Line
  <1>4. PICK x, y \in Int : x <= 0 /\ 0 <= y /\ Stretch(own, 0) = x .. y
    BY <1>1, <1>3, StretchIsInterval
  <1>5. Cardinality(x .. y) > WinLength /\ Cardinality(x .. y) = y - x + 1
    <2>1. Run(Window(b, p, d, c), 0) = x .. y
      BY <1>4 DEF Run, Stretch
    <2>2. Cardinality(x .. y) = y - x + 1
      BY <1>4, FS_Interval
    <2> QED
      BY <2>1, <2>2 DEF RunLength
  <1>6. PICK t \in -4 .. 0 : t .. t + 4 \subseteq x .. y
    BY <1>1, <1>4, <1>5, NearZero
  <1>7. \A j \in t .. t + 4 : j \in L
    BY <1>2, <1>4, <1>6 DEF Stretch
  <1>8. CASE t = -4
    <2>1. -4 \in L /\ -3 \in L /\ -2 \in L /\ -1 \in L
      BY <1>7, <1>8
    <2> QED
      BY <2>1 DEF FourNear
  <1>9. CASE t = -3
    <2>1. -3 \in L /\ -2 \in L /\ -1 \in L /\ 1 \in L
      BY <1>7, <1>9
    <2> QED
      BY <2>1 DEF FourNear
  <1>10. CASE t = -2
    <2>1. -2 \in L /\ -1 \in L /\ 1 \in L /\ 2 \in L
      BY <1>7, <1>10
    <2> QED
      BY <2>1 DEF FourNear
  <1>11. CASE t = -1
    <2>1. -1 \in L /\ 1 \in L /\ 2 \in L /\ 3 \in L
      BY <1>7, <1>11
    <2> QED
      BY <2>1 DEF FourNear
  <1>12. CASE t = 0
    <2>1. 1 \in L /\ 2 \in L /\ 3 \in L /\ 4 \in L
      BY <1>7, <1>12
    <2> QED
      BY <2>1 DEF FourNear
  <1> QED
    BY <1>8, <1>9, <1>10, <1>11, <1>12

\* There are finitely many directions.
LEMMA DirectionsFinite == \A S : S \subseteq HalfDirections => IsFiniteSet(S)
  <1>1. IsFiniteSet({<<1, 0>>})
    BY FS_Singleton
  <1>2. IsFiniteSet({<<1, 0>>} \cup {<<0, 1>>})
    BY <1>1, FS_AddElement
  <1>3. IsFiniteSet(({<<1, 0>>} \cup {<<0, 1>>}) \cup {<<1, 1>>})
    BY <1>2, FS_AddElement
  <1>4. IsFiniteSet((({<<1, 0>>} \cup {<<0, 1>>}) \cup {<<1, 1>>}) \cup {<<1, -1>>})
    BY <1>3, FS_AddElement
  <1>5. HalfDirections = (({<<1, 0>>} \cup {<<0, 1>>}) \cup {<<1, 1>>}) \cup {<<1, -1>>}
    BY DEF HalfDirections
  <1> QED
    BY <1>4, <1>5, FS_Subset

\* What a forbidden stone needs, whatever blocks its threes: a long row, or two
\* lines with two near stones each.
LEMMA ForbiddenNeeds ==
    ASSUME WinLength >= 5, NEW b \in Boards, NEW p \in Points, NEW c, b[p] = c,
           NEW blocked, ForbiddenShape(b, p, c, blocked)
    PROVE  \/ \E d \in HalfDirections : RunLength(Window(b, p, d, c), 0) > WinLength
           \/ \E d, e \in HalfDirections : d # e /\ TwoNear(b, p, d, c) /\ TwoNear(b, p, e, c)
  <1>1. \A S : S \subseteq HalfDirections => IsFiniteSet(S)
    BY DirectionsFinite
  <1>2. CASE Overline(b, p, c)
    BY <1>2 DEF Overline, LongestRunExceeds
  <1>3. CASE DoubleFour(b, p, c)
    <2>1. PICK d, e \in HalfDirections :
              d # e /\ Four(Window(b, p, d, c)) /\ Four(Window(b, p, e, c))
      <3> DEFINE S == {d \in HalfDirections : Four(Window(b, p, d, c))}
      <3>1. IsFiniteSet(S) /\ Cardinality(S) >= 2
        BY <1>1, <1>3 DEF DoubleFour
      <3>2. \E x, y \in S : x # y
        BY <3>1, TwoElements
      <3> QED
        BY <3>2
    <2> QED
      BY <2>1, FourHasTwoNear
  <1>4. CASE DoubleThree(b, p, c, blocked)
    <2> DEFINE open(d) == \E i \in Completions(Window(b, p, d, c)) : Along(p, d, i) \notin blocked
               S == {d \in HalfDirections : open(d)}
    <2>1. IsFiniteSet(S) /\ Cardinality(S) >= 2
      BY <1>1, <1>4 DEF DoubleThree
    <2>2. PICK d, e \in S : d # e
      BY <2>1, TwoElements
    <2>3. Completions(Window(b, p, d, c)) # {} /\ Completions(Window(b, p, e, c)) # {}
      BY <2>2
    <2> QED
      BY <2>2, <2>3, ThreeHasTwoNear
  <1> QED
    BY <1>2, <1>3, <1>4 DEF ForbiddenShape

\* The prefilter hides no forbidden point, on any board.
LEMMA PrefilterHidesNothing ==
    ASSUME NEW b \in Boards, NEW p \in EmptyPoints(b), Forbidden(b, p)
    PROVE  MayBeForbidden(b, p, StartingColor)
  <1> DEFINE c == StartingColor
             Radius == (1 - WinLength .. WinLength - 1) \ {0}
             near == {Along(p, d, i) : d \in HalfDirections, i \in Radius}
             S == near \cap StonesOf(b, c)
  <1>a. PICK placed : placed = [b EXCEPT ![p] = c]
    OBVIOUS
  <1>1. /\ p \in Points /\ c \in Color /\ WinLength \in Nat
        /\ placed \in Boards /\ placed[p] = c
        /\ \A q \in Points : q # p => placed[q] = b[q]
    BY <1>a, GomokuAssumption, RulesAssumption DEF EmptyPoints, Boards
  <1>2. SUFFICES ASSUME WinLength >= 5
                 PROVE  Cardinality(S) >= 4
    BY <1>1 DEF MayBeForbidden, PrefilterMinStones, PrefilterMinWinLength
  <1>3. IsFiniteSet(S)
    <2>1. S \subseteq Points
      BY DEF StonesOf, Boards
    <2> QED
      BY <2>1, PointsFinite
  <1>4. -4 .. 4 \subseteq 1 - WinLength .. WinLength - 1 /\ -3 .. 3 \subseteq -4 .. 4
    BY <1>1, <1>2
  <1>5. ASSUME NEW d \in HalfDirections, NEW k \in (-4 .. 4) \ {0}, k \in Line(placed, p, d, c)
        PROVE  Along(p, d, k) \in S
    <2>1. Along(p, d, k) \in Points /\ placed[Along(p, d, k)] = c /\ k # 0 /\ k \in Int
      BY <1>5 DEF Line
    <2>2. Along(p, d, k) # p
      BY <1>1, <2>1, LineFacts
    <2>3. Along(p, d, k) \in StonesOf(b, c)
      BY <1>1, <2>1, <2>2 DEF StonesOf, Boards
    <2> QED
      BY <1>4, <1>5, <2>3
  <1> HIDE DEF S
  <1>6. CASE \E d \in HalfDirections : RunLength(Window(placed, p, d, c), 0) > WinLength
    <2>1. PICK d \in HalfDirections : RunLength(Window(placed, p, d, c), 0) > WinLength
      BY <1>6
    <2>2. PICK k, l, m, n \in (-4 .. 4) \ {0} :
              /\ k # l /\ k # m /\ k # n /\ l # m /\ l # n /\ m # n
              /\ {k, l, m, n} \subseteq Line(placed, p, d, c)
      <3>1. FourNear(placed, p, d, c)
        BY <1>1, <1>2, <2>1, OverlineHasFourNear
      <3> QED
        BY <3>1 DEF FourNear
    <2>3. /\ Along(p, d, k) \in S /\ Along(p, d, l) \in S
          /\ Along(p, d, m) \in S /\ Along(p, d, n) \in S
      BY <1>5, <2>2
    <2>4. \A i, j \in Int : Along(p, d, i) = Along(p, d, j) => i = j
      BY <1>1, LineFacts
    <2> QED
      BY <1>3, <2>2, <2>3, <2>4, FourElements
  <1>7. CASE \E d, e \in HalfDirections :
                d # e /\ TwoNear(placed, p, d, c) /\ TwoNear(placed, p, e, c)
    <2>1. PICK d, e \in HalfDirections :
              d # e /\ TwoNear(placed, p, d, c) /\ TwoNear(placed, p, e, c)
      BY <1>7
    <2>2. PICK k, l \in (-3 .. 3) \ {0} :
              k # l /\ k \in Line(placed, p, d, c) /\ l \in Line(placed, p, d, c)
      BY <2>1 DEF TwoNear
    <2>3. PICK m, n \in (-3 .. 3) \ {0} :
              m # n /\ m \in Line(placed, p, e, c) /\ n \in Line(placed, p, e, c)
      BY <2>1 DEF TwoNear
    <2>4. /\ Along(p, d, k) \in S /\ Along(p, d, l) \in S
          /\ Along(p, e, m) \in S /\ Along(p, e, n) \in S
      BY <1>4, <1>5, <2>2, <2>3
    <2>6. \A i \in {k, l}, j \in {m, n} : Along(p, d, i) # Along(p, e, j)
      BY <1>1, <2>1, <2>2, <2>3, LinesCross
    <2>7. /\ Along(p, d, k) # Along(p, d, l) /\ Along(p, e, m) # Along(p, e, n)
          /\ Along(p, d, k) # Along(p, e, m) /\ Along(p, d, k) # Along(p, e, n)
          /\ Along(p, d, l) # Along(p, e, m) /\ Along(p, d, l) # Along(p, e, n)
      <3>1. k \in Int /\ l \in Int /\ m \in Int /\ n \in Int /\ k # l /\ m # n
        BY <2>2, <2>3
      <3>2. Along(p, d, k) # Along(p, d, l)
        BY <1>1, <2>1, <3>1, LineFacts
      <3>3. Along(p, e, m) # Along(p, e, n)
        BY <1>1, <2>1, <3>1, LineFacts
      <3> QED
        BY <2>6, <3>2, <3>3
    <2> QED
      BY <1>3, <2>4, <2>7, FourElements
  <1>8. ForbiddenShape(placed, p, c, Blocked(placed, p, c))
    BY <1>a DEF Forbidden
  <1> QED
    BY <1>1, <1>2, <1>6, <1>7, <1>8, ForbiddenNeeds

\* In every game, under any rule and whatever the window and the judging depth,
\* the scan skips no forbidden point (_may_be_forbidden in forbidden_points).
THEOREM PrefilterAlwaysSound == GomokuSpec => []PrefilterSound
  <1>1. GomokuInv => PrefilterSound
    BY PrefilterHidesNothing DEF GomokuInv, FieldsTyped, PrefilterSound
  <1> QED
    BY <1>1, GomokuInvariant, PTL
-----------------------------------------------------------------------------
(* No overline, in any game *)

\* The engine plays by the Renju rule.
UnderRenju ==
    \A b \in Boards :
        /\ ForbiddenPoints(b) = RenjuForbidden(b)
        /\ \A p \in Points, c \in Color : Wins(b, p, c) <=> RenjuWins(b, p, c)

\* No stone of the constrained colour has more than WinLength in a row.
NoLongRow(b) ==
    \A q \in StonesOf(b, StartingColor), d \in HalfDirections :
        ~Spans(Line(b, q, d, StartingColor), 0, WinLength)

OverlineInv == GomokuInv /\ NoLongRow(board)

\* Rows counted, or spelled out.
LEMMA NoLongRowCounted ==
    ASSUME board \in Boards
    PROVE  NoOverlineOnBoard <=> NoLongRow(board)
  <1>1. WinLength \in Nat
    BY RulesAssumption, GomokuAssumption
  <1>2. ASSUME NEW q \in StonesOf(board, StartingColor), NEW d \in HalfDirections
        PROVE  Cardinality(WholeRow(board, q, d)) <= WinLength
                 <=> ~Spans(Line(board, q, d, StartingColor), 0, WinLength)
    <2>1. q \in Points /\ board[q] = StartingColor
      BY DEF StonesOf, Boards
    <2>2. Cardinality(WholeRow(board, q, d)) \in Nat
      BY <2>1, RowLengths
    <2>3. Cardinality(WholeRow(board, q, d)) > WinLength
            <=> Spans(Line(board, q, d, StartingColor), 0, WinLength)
      BY <1>1, <2>1, RowLengths
    <2> QED
      BY <1>1, <2>2, <2>3
  <1> QED
    BY <1>2 DEF NoOverlineOnBoard, NoLongRow

\* A row is the row of each of its stones.
LEMMA RowOfEachStone ==
    ASSUME NEW b \in Boards, NEW q \in Points, NEW d \in HalfDirections, NEW c,
           NEW s \in Int, NEW m \in Nat, s .. s + m \subseteq Line(b, q, d, c),
           NEW k \in s .. s + m
    PROVE  Spans(Line(b, Along(q, d, k), d, c), 0, m)
  <1> DEFINE r == Along(q, d, k)
  <1>1. k \in Int /\ s - k \in Int /\ s - k <= 0 /\ 0 <= s - k + m
    OBVIOUS
  <1>2. ASSUME NEW j \in s - k .. s - k + m
        PROVE  j \in Line(b, r, d, c)
    <2>1. j \in Int /\ k + j \in Int /\ k + j \in s .. s + m
      BY <1>1
    <2>2. Along(r, d, j) = Along(q, d, k + j)
      BY <1>1, <2>1, LineFacts
    <2>3. k + j \in Line(b, q, d, c)
      BY <2>1
    <2> QED
      BY <2>1, <2>2, <2>3 DEF Line
  <1> QED
    BY <1>1, <1>2 DEF Spans

\* From b to next, only p changes, to a stone of colour c.
OneMore(b, next, p, c) == next[p] = c /\ \A r \in Points : r # p => next[r] = b[r]

\* A row on the board after a move goes through the new stone, or was there.
LEMMA RowIsNewOrOld ==
    ASSUME NEW b \in Boards, NEW p \in Points, NEW c \in Color, NEW next \in Boards,
           OneMore(b, next, p, c),
           NEW q \in Points, NEW d \in HalfDirections, NEW m \in Nat,
           Spans(Line(next, q, d, next[q]), 0, m)
    PROVE  \/ next[q] = c /\ Spans(Line(next, p, d, c), 0, m)
           \/ next[q] = b[q] /\ Spans(Line(b, q, d, b[q]), 0, m)
  <1>1. PICK s \in Int : /\ s <= 0 /\ 0 <= s + m
                         /\ s .. s + m \subseteq Line(next, q, d, next[q])
    BY DEF Spans
  <1>2. CASE \E k \in s .. s + m : Along(q, d, k) = p
    <2>1. PICK k \in s .. s + m : Along(q, d, k) = p
      BY <1>2
    <2>2. next[q] = c
      BY <1>1, <2>1 DEF Line, OneMore
    <2>3. Spans(Line(next, Along(q, d, k), d, c), 0, m)
      BY <1>1, <2>2, RowOfEachStone
    <2> QED
      BY <2>1, <2>2, <2>3
  <1>3. CASE \A k \in s .. s + m : Along(q, d, k) # p
    <2>1. 0 \in s .. s + m /\ Along(q, d, 0) = q
      BY <1>1, LineFacts
    <2>2. next[q] = b[q]
      BY <1>3, <2>1 DEF OneMore
    <2>3. s .. s + m \subseteq Line(b, q, d, b[q])
      BY <1>1, <1>3, <2>2 DEF Line, OneMore
    <2> QED
      BY <1>1, <2>2, <2>3 DEF Spans
  <1> QED
    BY <1>2, <1>3

\* No row gets longer when no stone of the constrained colour is added.
LEMMA FewerStones ==
    ASSUME NEW b \in Boards, NEW next \in Boards, NoLongRow(b),
           StonesOf(next, StartingColor) \subseteq StonesOf(b, StartingColor)
    PROVE  NoLongRow(next)
  <1>1. ASSUME NEW q \in StonesOf(next, StartingColor), NEW d \in HalfDirections
        PROVE  ~Spans(Line(next, q, d, StartingColor), 0, WinLength)
    <2>1. Line(next, q, d, StartingColor) \subseteq Line(b, q, d, StartingColor)
      BY DEF Line, StonesOf, Boards
    <2>2. ~Spans(Line(b, q, d, StartingColor), 0, WinLength)
      BY DEF NoLongRow
    <2> QED
      BY <2>1, <2>2 DEF Spans
  <1> QED
    BY <1>1 DEF NoLongRow

\* Nor when one is added that the rule does not forbid: a longer row would
\* either go through the new stone, or have been there before.
LEMMA AllowedMoveKeepsRows ==
    ASSUME WinLength <= WindowRadius,
           NEW b \in Boards, NoLongRow(b), NEW p \in EmptyPoints(b), p \notin RenjuForbidden(b),
           NEW next, next = [b EXCEPT ![p] = StartingColor]
    PROVE  NoLongRow(next)
  <1>1. /\ p \in Points /\ b[p] = None /\ StartingColor \in Color
        /\ next \in Boards /\ next[p] = StartingColor
        /\ \A q \in Points : q # p => next[q] = b[q]
    BY GomokuAssumption DEF EmptyPoints, Boards
  <1>2. WinLength \in Nat /\ WinLength <= WindowRadius
    BY RulesAssumption, GomokuAssumption
  <1>3. ~Forbidden(b, p)
    BY PrefilterHidesNothing DEF RenjuForbidden
  <1>4. ASSUME NEW d \in HalfDirections, Spans(Line(next, p, d, StartingColor), 0, WinLength)
        PROVE  FALSE
    <2>1. RunLength(Window(next, p, d, StartingColor), 0) > WinLength
      BY <1>1, <1>2, <1>4, RowLengths
    <2>2. Overline(next, p, StartingColor)
      BY <2>1 DEF Overline, LongestRunExceeds
    <2>3. ForbiddenShape(next, p, StartingColor, Blocked(next, p, StartingColor))
      BY <2>2 DEF ForbiddenShape
    <2> QED
      BY <1>1, <1>3, <2>3 DEF Forbidden
  <1>5. ASSUME NEW q \in StonesOf(next, StartingColor), NEW d \in HalfDirections,
               Spans(Line(next, q, d, StartingColor), 0, WinLength)
        PROVE  FALSE
    <2>1. q \in Points /\ next[q] = StartingColor
      BY <1>1 DEF StonesOf, Boards
    <2>2. Spans(Line(next, q, d, next[q]), 0, WinLength)
      BY <1>5, <2>1
    <2>3. \/ Spans(Line(next, p, d, StartingColor), 0, WinLength)
          \/ next[q] = b[q] /\ Spans(Line(b, q, d, b[q]), 0, WinLength)
      <3>1. OneMore(b, next, p, StartingColor)
        BY <1>1 DEF OneMore
      <3> QED
        BY <1>1, <1>2, <2>1, <2>2, <3>1, RowIsNewOrOld
    <2> QED
      BY <1>4, <2>1, <2>3 DEF NoLongRow, StonesOf, Boards
  <1> QED
    BY <1>5 DEF NoLongRow

\* A stone goes where it is allowed to.
LEMMA MoveKeepsRows ==
    ASSUME UnderRenju, WinLength <= WindowRadius, GomokuInv, NoLongRow(board),
           NEW c \in Color, NEW p \in Points, MakeMove(c, p)
    PROVE  NoLongRow(board')
  <1>1. /\ board \in Boards /\ p \in EmptyPoints(board) /\ status = "PLAYING"
        /\ board' = [board EXCEPT ![p] = c] /\ board' \in Boards
        /\ p \in forbidden => c # StartingColor
    BY DEF GomokuInv, FieldsTyped, MakeMove, MayPlay, Boards, EmptyPoints
  <1>2. forbidden = RenjuForbidden(board)
    BY <1>1 DEF UnderRenju, GomokuInv, ForbiddenFresh
  <1>3. CASE c = StartingColor
    BY <1>1, <1>2, <1>3, AllowedMoveKeepsRows
  <1>4. CASE c # StartingColor
    <2>1. StonesOf(board', StartingColor) \subseteq StonesOf(board, StartingColor)
      BY <1>1, <1>4 DEF StonesOf, Boards
    <2> QED
      BY <1>1, <2>1, FewerStones
  <1> QED
    BY <1>3, <1>4

\* Nothing else puts a stone on the board.
LEMMA OtherStepsKeepRows ==
    ASSUME GomokuInv, GomokuInv', NoLongRow(board),
           \/ UNCHANGED board
           \/ \E n \in {1, 2} : UndoMoves(n)
           \/ \E s \in {"WAITING", "PLAYING"} : Reset(s)
    PROVE  NoLongRow(board')
  <1>1. board \in Boards /\ board' \in Boards /\ StartingColor # None
    BY GomokuAssumption DEF GomokuInv, FieldsTyped
  <1>2. StonesOf(board', StartingColor) \subseteq StonesOf(board, StartingColor)
    <2>1. CASE UNCHANGED board
      BY <2>1
    <2>2. CASE \E n \in {1, 2} : UndoMoves(n)
      BY <1>1, <2>2 DEF UndoMoves, StonesOf, Boards
    <2>3. CASE \E s \in {"WAITING", "PLAYING"} : Reset(s)
      BY <1>1, <2>3 DEF Reset, EmptyBoard, StonesOf, Boards
    <2> QED
      BY <2>1, <2>2, <2>3
  <1> QED
    BY <1>1, <1>2, FewerStones

\* The Renju rule forbids free points only, as the engine's own proofs assume.
LEMMA RenjuIsSound ==
    ASSUME UnderRenju
    PROVE  RuleSound
  BY DEF UnderRenju, RuleSound, RenjuForbidden

\* Rows stay short enough.
LEMMA OverlineInvariant ==
    ASSUME UnderRenju, WinLength <= WindowRadius
    PROVE  GomokuSpec => []OverlineInv
  <1>1. GomokuInit => OverlineInv
    <2>1. GomokuInit => NoLongRow(board)
      BY GomokuAssumption DEF GomokuInit, EmptyBoard, StonesOf, NoLongRow
    <2> QED
      BY <2>1, EmptyBoardKeepsInv DEF GomokuInit, OverlineInv
  <1>2. OverlineInv /\ [GomokuNext]_gomokuVars => OverlineInv'
    <2> SUFFICES ASSUME OverlineInv, [GomokuNext]_gomokuVars
                 PROVE  NoLongRow(board')
      BY GomokuStepKeepsInv DEF OverlineInv
    <2> GomokuInv /\ GomokuInv' /\ NoLongRow(board)
      BY GomokuStepKeepsInv DEF OverlineInv
    <2>1. CASE UNCHANGED gomokuVars
      BY <2>1, OtherStepsKeepRows DEF gomokuVars
    <2>2. CASE \E c \in Color : SkipTurn(c) \/ Resign(c)
      BY <2>2, OtherStepsKeepRows DEF SkipTurn, Resign
    <2>3. CASE \E c \in Color, p \in Points : MakeMove(c, p)
      BY <2>3, MoveKeepsRows
    <2>4. CASE \E n \in {1, 2} : UndoMoves(n)
      BY <2>4, OtherStepsKeepRows
    <2>5. CASE \E s \in {"WAITING", "PLAYING"} : Reset(s)
      BY <2>5, OtherStepsKeepRows
    <2> QED
      BY <2>1, <2>2, <2>3, <2>4, <2>5 DEF GomokuNext
  <1> QED
    BY <1>1, <1>2, PTL DEF GomokuSpec

\* However the game goes, on a board of any size, for any win length the window
\* reaches as far as: moves, skipped turns, undo and new rounds never leave a
\* row of the constrained colour longer than the win length.
THEOREM NoOverlineEver ==
    ASSUME UnderRenju, WinLength <= WindowRadius
    PROVE  GomokuSpec => []NoOverlineOnBoard
  <1>1. OverlineInv => NoOverlineOnBoard
    BY NoLongRowCounted DEF OverlineInv, GomokuInv, FieldsTyped
  <1> QED
    BY <1>1, OverlineInvariant, PTL

-----------------------------------------------------------------------------
(* No row overlooked *)

\* The stone at q stands in a row that wins.
FullRow(b, q, d) == Spans(Line(b, q, d, b[q]), 0, WinLength - 1)

\* Whoever has such a row has won.
RowsDecided ==
    \A q \in Stones, d \in HalfDirections :
        FullRow(board, q, d) => status = "FINISHED" /\ winner = board[q]

RowsInv == OverlineInv /\ RowsDecided

\* Rows counted, or spelled out.
LEMMA FullRowCounted ==
    ASSUME board \in Boards, NEW p \in Stones, NEW d \in HalfDirections
    PROVE  Cardinality(WholeRow(board, p, d)) >= WinLength <=> FullRow(board, p, d)
  <1>1. WinLength \in Nat /\ WinLength - 1 \in Nat
    BY RulesAssumption, GomokuAssumption
  <1>2. /\ Cardinality(WholeRow(board, p, d)) \in Nat
        /\ Cardinality(WholeRow(board, p, d)) > WinLength - 1 <=> FullRow(board, p, d)
    BY <1>1, StonesHaveColors, RowLengths DEF FullRow
  <1> QED
    BY <1>1, <1>2

\* A row of the new stone wins: the constrained colour's cannot be too long, and
\* the window shows enough of it.
LEMMA NewRowWins ==
    ASSUME UnderRenju, WinLength <= WindowRadius,
           NEW b \in Boards, NoLongRow(b), NEW p \in Points, NEW c \in Color, b[p] = c,
           NEW d \in HalfDirections, Spans(Line(b, p, d, c), 0, WinLength - 1)
    PROVE  Wins(b, p, c)
  <1> DEFINE run == RunLength(Window(b, p, d, c), 0)
  <1>1. /\ WinLength \in Nat /\ WinLength - 1 \in Nat /\ WindowRadius \in Nat
        /\ WinLength - 1 <= WindowRadius
    BY RulesAssumption, GomokuAssumption
  <1>2. run \in Nat /\ run > WinLength - 1
    BY <1>1, RowLengths
  <1>3. CASE c # StartingColor
    <2>1. LongestRunExceeds(b, p, c, WinLength - 1)
      BY <1>2 DEF LongestRunExceeds
    <2> QED
      BY <1>3, <2>1 DEF UnderRenju, RenjuWins
  <1>4. CASE c = StartingColor
    <2>1. ~Spans(Line(b, p, d, c), 0, WinLength)
      BY <1>4 DEF NoLongRow, StonesOf, Boards
    <2>2. ~(run > WinLength)
      BY <1>1, <2>1, RowLengths
    <2>3. run = WinLength
      BY <1>1, <1>2, <2>2
    <2>4. ExactFive(b, p, c)
      BY <2>3 DEF ExactFive
    <2> QED
      BY <1>4, <2>4 DEF UnderRenju, RenjuWins
  <1> QED
    BY <1>3, <1>4

\* A move that makes a row ends the round; the rows of others were not there.
LEMMA MoveDecidesRows ==
    ASSUME UnderRenju, WinLength <= WindowRadius, RowsInv, NoLongRow(board'),
           NEW c \in Color, NEW p \in Points, MakeMove(c, p)
    PROVE  RowsDecided'
  <1>1. /\ board \in Boards /\ p \in EmptyPoints(board) /\ status = "PLAYING"
        /\ board' = [board EXCEPT ![p] = c] /\ board' \in Boards /\ board'[p] = c
        /\ Judge(c, p) /\ WinLength - 1 \in Nat
    BY RulesAssumption, GomokuAssumption
       DEF RowsInv, OverlineInv, GomokuInv, FieldsTyped, MakeMove, MayPlay, Boards, EmptyPoints
  <1>2. ASSUME NEW q \in Stones', NEW d \in HalfDirections, FullRow(board', q, d)
        PROVE  status' = "FINISHED" /\ winner' = board'[q]
    <2>1. q \in Points /\ board'[q] # None
      BY <1>1 DEF Stones, EmptyPoints, Boards
    <2>2. CASE board'[q] = c /\ Spans(Line(board', p, d, c), 0, WinLength - 1)
      <3>1. Wins(board', p, c)
        BY <1>1, <2>2, NewRowWins
      <3> QED
        BY <1>1, <2>2, <3>1 DEF Judge, Finish
    <2>3. CASE board'[q] = board[q] /\ Spans(Line(board, q, d, board[q]), 0, WinLength - 1)
      <3>1. q \in Stones /\ FullRow(board, q, d)
        BY <1>1, <2>1, <2>3 DEF Stones, EmptyPoints, Boards, FullRow
      <3> QED
        BY <1>1, <3>1 DEF RowsInv, RowsDecided
    <2>4. \/ board'[q] = c /\ Spans(Line(board', p, d, c), 0, WinLength - 1)
          \/ board'[q] = board[q] /\ Spans(Line(board, q, d, board[q]), 0, WinLength - 1)
      <3>1. p \in Points /\ OneMore(board, board', p, c)
        BY <1>1 DEF Boards, EmptyPoints, OneMore
      <3>2. Spans(Line(board', q, d, board'[q]), 0, WinLength - 1)
        BY <1>2 DEF FullRow
      <3>3. board \in Boards /\ board' \in Boards /\ WinLength - 1 \in Nat
        BY <1>1
      <3> QED
        BY <2>1, <3>1, <3>2, <3>3, RowIsNewOrOld
    <2> QED
      BY <2>2, <2>3, <2>4
  <1> QED
    BY <1>2 DEF RowsDecided

\* An undo makes no row, and a running game had none.
LEMMA UndoMakesNoRow ==
    ASSUME RowsInv, NEW n \in {1, 2}, UndoMoves(n)
    PROVE  RowsDecided'
  <1>1. /\ board \in Boards /\ board' \in Boards /\ status = "PLAYING"
        /\ \A q \in Points : board'[q] = board[q] \/ board'[q] = None
    BY DEF RowsInv, OverlineInv, GomokuInv, FieldsTyped, UndoMoves, Boards
  <1>2. ASSUME NEW q \in Stones', NEW d \in HalfDirections, FullRow(board', q, d)
        PROVE  FALSE
    <2>1. q \in Points /\ board'[q] # None /\ board'[q] = board[q] /\ q \in Stones
      BY <1>1 DEF Stones, EmptyPoints, Boards
    <2>2. Line(board', q, d, board'[q]) \subseteq Line(board, q, d, board[q])
      BY <1>1, <2>1 DEF Line
    <2>3. FullRow(board, q, d)
      BY <1>2, <2>2 DEF FullRow, Spans
    <2> QED
      BY <1>1, <2>1, <2>3 DEF RowsInv, RowsDecided
  <1> QED
    BY <1>2 DEF RowsDecided

\* The engine judges a stone once, when it is placed, on four lines and through
\* a window.  For any board size, and any win length the window reaches as far
\* as, that is enough: whatever is skipped, resigned, taken back or started
\* again, no row of the win length ever stands on the board of a round that
\* goes on or that its owner has not won.
THEOREM NoRowEverOverlooked ==
    ASSUME UnderRenju, WinLength <= WindowRadius
    PROVE  GomokuSpec => []NoRowOverlooked
  <1>1. GomokuInit => RowsDecided
    BY GomokuAssumption DEF GomokuInit, EmptyBoard, Stones, EmptyPoints, RowsDecided
  <1>2. RowsInv /\ OverlineInv' /\ [GomokuNext]_gomokuVars => RowsDecided'
    <2> SUFFICES ASSUME RowsInv, OverlineInv', [GomokuNext]_gomokuVars
                 PROVE  RowsDecided'
      OBVIOUS
    <2>1. CASE UNCHANGED gomokuVars
      BY <2>1 DEF gomokuVars, RowsInv, RowsDecided, FullRow, Stones
    <2>2. ASSUME NEW c \in Color, SkipTurn(c) \/ Resign(c) PROVE RowsDecided'
      BY <2>2 DEF SkipTurn, Resign, RowsInv, RowsDecided, FullRow, Stones
    <2>3. ASSUME NEW c \in Color, NEW p \in Points, MakeMove(c, p) PROVE RowsDecided'
      BY <2>3, MoveDecidesRows DEF OverlineInv
    <2>4. ASSUME NEW n \in {1, 2}, UndoMoves(n) PROVE RowsDecided'
      BY <2>4, UndoMakesNoRow
    <2>5. ASSUME NEW s \in {"WAITING", "PLAYING"}, Reset(s) PROVE RowsDecided'
      BY <2>5, GomokuAssumption DEF Reset, EmptyBoard, Stones, EmptyPoints, RowsDecided
    <2> QED
      BY <2>1, <2>2, <2>3, <2>4, <2>5 DEF GomokuNext
  <1>3. RowsInv => NoRowOverlooked
    BY NoLongRowCounted, FullRowCounted
       DEF RowsInv, OverlineInv, GomokuInv, FieldsTyped, RowsDecided, NoRowOverlooked
  <1> QED
    BY <1>1, <1>2, <1>3, OverlineInvariant, PTL DEF GomokuSpec, RowsInv
=============================================================================
