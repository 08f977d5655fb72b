---------------------------- MODULE GomokuBoard -----------------------------
(***************************************************************************)
(* What the Gomoku engine and its rule share: the board they look at and    *)
(* the colour that opens the game.                                          *)
(***************************************************************************)
EXTENDS Board, FiniteSets

CONSTANTS Size,           \* board_size
          StartingColor   \* the colour that opens and is constrained

ASSUME GomokuAssumption ==
    /\ Size \in Nat \ {0}
    /\ StartingColor \in Color
    /\ None \notin Color

Points == PointsOf(Size)

VARIABLE board

Boards == [Points -> Color \cup {None}]
=============================================================================
