------------------------------ MODULE MCGomoku ------------------------------
(***************************************************************************)
(* Small instances of GomokuGame under the Renju rule.  The points of the   *)
(* first moves of a round are fixed, so that the rest of the round, down to *)
(* a full board, can be explored in every order with skips and undo.        *)
(***************************************************************************)
EXTENDS RenjuGame

CONSTANT Opening   \* points of the first moves

InOpening == Len(history) < Len(Opening)

\* A bound on the steps: opening moves are at their points, and nobody lets a
\* turn pass before the opening is over.
FollowsOpening ==
    InOpening => /\ Len(history') > Len(history) =>
                       history'[Len(history')].point = Opening[Len(history')]
                 /\ ~(status = "PLAYING" /\ history' = history /\ turn' = Opponent(turn))

MCSpec == GomokuInit /\ [][GomokuNext /\ FollowsOpening]_gomokuVars

\* Openings that leave five points of a board free, around shapes that no row
\* has decided yet.
Opening3x3 == <<<<1, 0>>, <<0, 1>>, <<0, 2>>, <<2, 1>>>>
Opening4x4 == <<<<2, 0>>, <<1, 3>>, <<3, 1>>, <<0, 3>>, <<0, 2>>, <<0, 0>>,
                <<2, 3>>, <<3, 3>>, <<2, 1>>, <<3, 0>>, <<0, 1>>>>
=============================================================================
