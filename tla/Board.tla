------------------------------- MODULE Board --------------------------------
(***************************************************************************)
(* Colours, points and boards (app/board.py).  A board is a function from  *)
(* the points of a square to the colour of the stone there, or None.       *)
(***************************************************************************)
EXTENDS Integers

CONSTANT None   \* Python's None

Color == {"WHITE", "BLACK"}

Opponent(c) == IF c = "WHITE" THEN "BLACK" ELSE "WHITE"

PointsOf(size) == (0 .. size - 1) \X (0 .. size - 1)

\* The point `step` places from p in direction d.
Along(p, d, step) == <<p[1] + step * d[1], p[2] + step * d[2]>>

\* DIRECTIONS: half-directions, walked both ways.
HalfDirections == {<<1, 0>>, <<0, 1>>, <<1, 1>>, <<1, -1>>}

EmptyPoints(board) == {p \in DOMAIN board : board[p] = None}

StonesOf(board, c) == {p \in DOMAIN board : board[p] = c}
=============================================================================
