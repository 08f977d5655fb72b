------------------------------- MODULE Match -------------------------------
(***************************************************************************)
(* One match as a game room sees its engine: whose turn it is, how it      *)
(* ended, and who made the accepted moves.  GomokuGame (app/game.py) and   *)
(* OthelloGame (app/othello.py) are the two engines; the board is          *)
(* abstracted to the sequence of the colours that moved, and the judgement *)
(* of a move (win, draw, pass, nowhere to play) to a choice among the      *)
(* outcomes the engine can produce after that many moves.                  *)
(***************************************************************************)
EXTENDS Board, Sequences

CONSTANTS GameType,        \* "GOMOKU" or "OTHELLO", fixed per room
          StartingColor,   \* the colour that opens every round
          Area             \* number of moves that fill the board

ASSUME MatchAssumption ==
    /\ GameType \in {"GOMOKU", "OTHELLO"}
    /\ StartingColor \in Color
    /\ Area \in Nat \ {0}
    /\ None \notin Color

Status == {"WAITING", "PLAYING", "FINISHED"}

VARIABLE game

MatchType ==
    [status : Status, turn : Color \cup {None}, winner : Color \cup {None},
     loser : Color \cup {None}, history : Seq(Color)]

-----------------------------------------------------------------------------
(* Engine operations, as functions on the match. *)

\* __init__ and reset: an empty board with the starting colour to move.
NewGame(status) ==
    [status |-> status, turn |-> StartingColor, winner |-> None,
     loser |-> None, history |-> << >>]

\* Slip: the turn is left behind in the finished match.
Finished_KeepsTurn(g, winner, loser) ==
    [g EXCEPT !.status = "FINISHED", !.winner = winner, !.loser = loser]

\* _finish: no turn belongs to a finished game.
Finished(g, winner, loser) ==
    [g EXCEPT !.status = "FINISHED", !.turn = None,
              !.winner = winner, !.loser = loser]

Placed(g, c) == [g EXCEPT !.history = Append(@, c)]

SkipTurn(g, c) == [g EXCEPT !.turn = Opponent(c)]

\* undo_moves: take back the last n moves, give the turn to next.
UndoMoves(g, n, next) ==
    [g EXCEPT !.history = SubSeq(@, 1, Len(@) - n), !.turn = next,
              !.winner = None, !.loser = None, !.status = "PLAYING"]

-----------------------------------------------------------------------------
(* Engine operations, as steps.  A rejected call changes nothing. *)

\* validate_move up to the coordinates, which stand for some free point.
MayMove(c) == game.status = "PLAYING" /\ game.turn = c

\* GomokuGame.make_move: the move wins, or fills the board and draws, or the
\* opponent is next; only the constrained (starting) colour can be left without
\* a point it may play.
GomokuMove(c) ==
    LET p == Placed(game, c)
        full == Len(p.history) >= Area
    IN  \/ game' = Finished(p, c, Opponent(c))
        \/ full /\ game' = Finished(p, None, None)
        \/ ~full /\ game' = [p EXCEPT !.turn = Opponent(c)]
        \/ /\ ~full
           /\ Opponent(c) = StartingColor
           /\ game' = Finished(p, c, Opponent(c))

\* OthelloGame.make_move: the opponent moves next, or passes, or nobody can
\* move; the discs decide, so either colour or neither may win.
OthelloMove(c) ==
    LET p == Placed(game, c)
        full == Len(p.history) >= Area
    IN  \/ game' = Finished(p, None, None)
        \/ \E w \in Color : game' = Finished(p, w, Opponent(w))
        \/ \E next \in Color : ~full /\ game' = [p EXCEPT !.turn = next]

EngineMove(c) == IF GameType = "GOMOKU" THEN GomokuMove(c) ELSE OthelloMove(c)

-----------------------------------------------------------------------------
(* What an engine promises: every change of a match is one of these calls,  *)
(* made in a state where the engine accepts it instead of raising.          *)

Start == game.status # "PLAYING" /\ game' = NewGame("PLAYING")

Discard == game' = NewGame("WAITING")

Move == \E c \in Color : MayMove(c) /\ EngineMove(c)

Skip == \E c \in Color : /\ GameType = "GOMOKU"
                         /\ MayMove(c)
                         /\ game' = SkipTurn(game, c)

Undo == \E n \in {1, 2}, next \in Color : /\ GameType = "GOMOKU"
                                          /\ game.status = "PLAYING"
                                          /\ n <= Len(game.history)
                                          /\ game' = UndoMoves(game, n, next)

Resignation == \E c \in Color : /\ game.status = "PLAYING"
                                /\ game' = Finished(game, Opponent(c), c)

MatchInit == game = NewGame("WAITING")

MatchNext == Start \/ Discard \/ Move \/ Skip \/ Undo \/ Resignation

MatchSpec == MatchInit /\ [][MatchNext]_game

-----------------------------------------------------------------------------

\* A match is consistent: exactly the live states have a turn, a winner always
\* has its opponent as the loser, and only a finished match has a result
\* (GomokuGame._finish and reset, OthelloGame._finish, resign and reset).
ResultConsistent ==
    /\ (game.status = "FINISHED") <=> (game.turn = None)
    /\ game.winner # None => /\ game.status = "FINISHED"
                             /\ game.loser = Opponent(game.winner)
    /\ game.winner = None => game.loser = None
=============================================================================
