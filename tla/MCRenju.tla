------------------------------ MODULE MCRenju -------------------------------
(***************************************************************************)
(* RenjuRules on every board that has stones on a few lines only, placed    *)
(* one at a time: of both colours on the first row, where two opposing      *)
(* stones are enough to close a row at both ends, or of the constrained     *)
(* colour on two lines through the centre.                                  *)
(***************************************************************************)
EXTENDS RenjuRules

FirstRow == {<<x, 0>> : x \in 0 .. Size - 1}

Middle == Size \div 2

CentreRow == {<<x, Middle>> : x \in 0 .. Size - 1}

CentreLines == CentreRow \cup {Along(<<Middle, Middle>>, <<1, 1>>, i) : i \in -2 .. 1}

Place(cells, c) ==
    /\ Stones \subseteq cells
    /\ \E p \in cells \ Stones : board' = [board EXCEPT ![p] = c]

MCInit == board = [p \in Points |-> None]

PlaceOpposing ==
    /\ Cardinality(StonesOf(board, Opponent(StartingColor))) < 2
    /\ Place(FirstRow, Opponent(StartingColor))

MCNext ==
    \/ Place(FirstRow, StartingColor) \/ PlaceOpposing
    \/ Place(CentreLines, StartingColor)

MCSpec == MCInit /\ [][MCNext]_board
=============================================================================
