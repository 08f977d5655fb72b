----------------------------- MODULE RenjuRules -----------------------------
(***************************************************************************)
(* The Renju rule engine (app/rules.py): what a stone makes on the four     *)
(* lines through it, read through a window of fixed radius, and which       *)
(* points the constrained colour may not play.                              *)
(***************************************************************************)
EXTENDS GomokuBoard

CONSTANTS WinLength,       \* win_length
          WindowRadius,    \* _WINDOW_RADIUS
          MaxJudgeDepth    \* MAX_JUDGE_DEPTH

ASSUME RulesAssumption ==
    /\ WinLength \in 2 .. Size
    /\ WindowRadius \in Nat \ {0} /\ MaxJudgeDepth \in Nat

-----------------------------------------------------------------------------
(* Windows: the offsets of own stones and of empty points on a line around a *)
(* point.  An opposing stone and the edge of the board are neither.         *)

Offsets == -WindowRadius .. WindowRadius

\* _window: the line through p in direction d as colour c sees it.
Window(b, p, d, c) ==
    LET onBoard == {i \in Offsets : Along(p, d, i) \in DOMAIN b}
    IN  [own |-> {i \in onBoard : b[Along(p, d, i)] = c},
         empty |-> {i \in onBoard : b[Along(p, d, i)] = None}]

\* Slip: the run is counted to one side only.
Run_Forward(w, i) == {k \in w.own : i <= k /\ i .. k \subseteq w.own}

\* _run_bounds, as the set of offsets in the run of own stones around i.
Run(w, i) == {k \in w.own : (k .. i) \cup (i .. k) \subseteq w.own}

RunLength(w, i) == Cardinality(Run(w, i))

WithStone(w, i) == [own |-> w.own \cup {i}, empty |-> w.empty \ {i}]

-----------------------------------------------------------------------------
(* Checks on a stone of colour c standing at p *)

LongestRunExceeds(b, p, c, n) ==
    \E d \in HalfDirections : RunLength(Window(b, p, d, c), 0) > n

\* check_overline
Overline(b, p, c) == LongestRunExceeds(b, p, c, WinLength)

\* check_exact_five
ExactFive(b, p, c) ==
    \E d \in HalfDirections : RunLength(Window(b, p, d, c), 0) = WinLength

\* Slip: a row that grows too long counts as well.
Four_OrMore(w) == \E i \in w.empty : RunLength(WithStone(w, i), 0) >= WinLength

\* _is_four: one more stone on the line completes an exact five through p.
Four(w) == \E i \in w.empty : RunLength(WithStone(w, i), 0) = WinLength

\* check_double_four
DoubleFour(b, p, c) ==
    Cardinality({d \in HalfDirections : Four(Window(b, p, d, c))}) >= 2

\* _is_straight_four, around i, and through the stone being judged.
StraightFour(w, i) ==
    LET run == Run(w, i)
    IN  /\ Cardinality(run) = WinLength - 1
        /\ 0 \in run
        /\ ({k - 1 : k \in run} \cup {k + 1 : k \in run}) \ run \subseteq w.empty

\* The empty points of a line that complete a straight four through its centre.
Completions(w) == {i \in w.empty : StraightFour(WithStone(w, i), i)}

\* check_double_three: a three is open if a point that completes it is not
\* blocked, being forbidden itself.
DoubleThree(b, p, c, blocked) ==
    LET open(d) == \E i \in Completions(Window(b, p, d, c)) : Along(p, d, i) \notin blocked
    IN  Cardinality({d \in HalfDirections : open(d)}) >= 2

\* _classify_placed: does the stone of colour c at p make a forbidden shape?
ForbiddenShape(b, p, c, blocked) ==
    \/ Overline(b, p, c)
    \/ /\ ~ExactFive(b, p, c)
       /\ DoubleFour(b, p, c) \/ DoubleThree(b, p, c, blocked)

\* _completion_is_forbidden: the points that complete a three of the stone at p
\* and are themselves forbidden, judged by what completes their own threes in
\* turn, down to a depth where nothing is blocked.
Blocked(b, p, c) ==
    LET completing(x, q) ==
            UNION {{Along(q, d, i) : i \in Completions(Window(x, q, d, c))} : d \in HalfDirections}
        blocked[x \in Boards, q \in Points, depth \in 0 .. MaxJudgeDepth] ==
            IF depth = MaxJudgeDepth THEN {}
            ELSE {r \in completing(x, q) :
                     LET next == [x EXCEPT ![r] = c]
                     IN  ForbiddenShape(next, r, c, blocked[next, r, depth + 1])}
    IN  blocked[b, p, 0]

\* _may_be_forbidden: fewer than four own stones near p can forbid nothing.
PrefilterMinStones == 4
PrefilterMinWinLength == 5

\* Slip: the radius is one short.
MayBeForbidden_Short(b, p, c) ==
    \/ WinLength < PrefilterMinWinLength
    \/ LET near == {Along(p, d, i) : d \in HalfDirections, i \in (2 - WinLength .. WinLength - 2) \ {0}}
       IN  Cardinality(near \cap StonesOf(b, c)) >= PrefilterMinStones

MayBeForbidden(b, p, c) ==
    \/ WinLength < PrefilterMinWinLength
    \/ LET near == {Along(p, d, i) : d \in HalfDirections, i \in (1 - WinLength .. WinLength - 1) \ {0}}
       IN  Cardinality(near \cap StonesOf(b, c)) >= PrefilterMinStones

\* classify_forbidden, without the prefilter.
Forbidden(b, p) ==
    LET placed == [b EXCEPT ![p] = StartingColor]
    IN  /\ b[p] = None
        /\ ForbiddenShape(placed, p, StartingColor, Blocked(placed, p, StartingColor))

\* forbidden_points
RenjuForbidden(b) ==
    {p \in EmptyPoints(b) : MayBeForbidden(b, p, StartingColor) /\ Forbidden(b, p)}

\* evaluate_move: the second player may win with a longer row.
RenjuWins(b, p, c) ==
    IF c = StartingColor THEN ExactFive(b, p, c)
    ELSE LongestRunExceeds(b, p, c, WinLength - 1)

-----------------------------------------------------------------------------
(* Properties of the rules on the board *)

Stones == DOMAIN board \ EmptyPoints(board)

\* As far as a line can lead from any point of the board.
Reach == 1 - Size .. Size - 1

\* The whole row of stones around p in direction d, however long.
WholeRow(b, p, d) ==
    {k \in Reach :
        \A j \in (k .. 0) \cup (0 .. k) :
            Along(p, d, j) \in DOMAIN b /\ b[Along(p, d, j)] = b[p]}

\* Rows are judged by the stones that stand there, not by the part of them the
\* window shows: a stone makes an exact five or an overline as a row it belongs
\* to has the win length or more (longest_run, check_exact_five,
\* check_overline).
RowsJudgedExactly ==
    \A p \in Stones :
        LET row(d) == Cardinality(WholeRow(board, p, d))
        IN  /\ ExactFive(board, p, board[p]) <=> \E d \in HalfDirections : row(d) = WinLength
            /\ Overline(board, p, board[p]) <=> \E d \in HalfDirections : row(d) > WinLength

\* Likewise fours: on a line where it has not made the full row, a stone makes
\* a four exactly when one more stone somewhere on that line would (_is_four).
FoursJudgedExactly ==
    \A p \in Stones, d \in HalfDirections :
        LET withStone(k) == [board EXCEPT ![Along(p, d, k)] = board[p]]
        IN  \/ Cardinality(WholeRow(board, p, d)) = WinLength
            \/ Four(Window(board, p, d, board[p])) <=>
                  \E k \in Reach :
                      /\ Along(p, d, k) \in Points /\ board[Along(p, d, k)] = None
                      /\ Cardinality(WholeRow(withStone(k), p, d)) = WinLength

\* The scan of the board never skips a point that the full judgement would
\* forbid (_may_be_forbidden: "can never hide a forbidden move").
PrefilterSound ==
    \A p \in EmptyPoints(board) :
        Forbidden(board, p) => MayBeForbidden(board, p, StartingColor)

\* No longer row than WinLength of the constrained colour is ever on the board
\* (RenjuRule: it "can never end up with an overline on the board").
NoOverlineOnBoard ==
    \A p \in StonesOf(board, StartingColor), d \in HalfDirections :
        Cardinality(WholeRow(board, p, d)) <= WinLength
=============================================================================
