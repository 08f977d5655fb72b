----------------------------- MODULE RenjuGame ------------------------------
(***************************************************************************)
(* The engine playing by the Renju rule: GomokuGame judges a stone when it  *)
(* is placed, on the lines through it and as far as a window shows.  What   *)
(* this must mean for the whole board, for as long as the round lasts.      *)
(***************************************************************************)
EXTENDS GomokuGame, RenjuRules

\* No row is overlooked or counted for the wrong player: at any time, a row of
\* WinLength stones or more, wherever it stands and however it came about, has
\* ended the round and its owner has won it; and the constrained colour never
\* got a longer one (make_move evaluates the last stone only).
NoRowOverlooked ==
    /\ NoOverlineOnBoard
    /\ \A p \in Stones, d \in HalfDirections :
          Cardinality(WholeRow(board, p, d)) >= WinLength =>
              status = "FINISHED" /\ winner = board[p]
=============================================================================
