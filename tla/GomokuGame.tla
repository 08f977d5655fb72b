----------------------------- MODULE GomokuGame -----------------------------
(***************************************************************************)
(* The Gomoku engine (app/game.py): its board, the cached forbidden points, *)
(* results, skips and undo, over any rule.  The rule is a parameter here as *)
(* it is in the code (class Rule): what wins, and which empty points the    *)
(* constrained colour may not play.  A rejected call raises before it       *)
(* changes anything and is left out.                                        *)
(***************************************************************************)
EXTENDS GomokuBoard, Sequences

CONSTANTS Wins(_, _, _),        \* rule.evaluate_move(board, point, colour).win
          ForbiddenPoints(_)    \* rule.forbidden_points(board)

VARIABLES
    turn,            \* current_turn
    status,
    winner, loser,
    history,         \* move_history; its length is move_count
    forbidden        \* the points of forbidden_moves

gomokuVars == <<board, turn, status, winner, loser, history, forbidden>>

-----------------------------------------------------------------------------

EmptyBoard == [p \in Points |-> None]

MoveType == [point : Points, color : Color]

Area == Size * Size

\* reset: nothing on the board, the starting colour to move.
Reset(newStatus) ==
    /\ board' = EmptyBoard /\ history' = << >>
    /\ turn' = StartingColor /\ status' = newStatus
    /\ winner' = None /\ loser' = None
    /\ forbidden' = ForbiddenPoints(board')

\* _finish: neither a turn nor forbidden points belong to a finished game.
Finish(w, l) ==
    /\ status' = "FINISHED" /\ turn' = None
    /\ winner' = w /\ loser' = l
    /\ forbidden' = {}

\* _is_stuck: as many forbidden points as empty ones.
Stuck(c, points, moves) == c = StartingColor /\ Cardinality(points) >= Area - moves

\* The turn passes, unless the constrained colour has nowhere to play.
PassTurn(c) ==
    IF Stuck(Opponent(c), ForbiddenPoints(board'), Len(history'))
    THEN Finish(c, Opponent(c))
    ELSE /\ forbidden' = ForbiddenPoints(board')
         /\ turn' = Opponent(c) /\ UNCHANGED <<status, winner, loser>>

\* Slip: a full board is a draw before the rule is asked.
Judge_DrawFirst(c, p) ==
    IF Len(history') >= Area THEN Finish(None, None)
    ELSE IF Wins(board', p, c) THEN Finish(c, Opponent(c))
    ELSE PassTurn(c)

Judge(c, p) ==
    IF Wins(board', p, c) THEN Finish(c, Opponent(c))
    ELSE IF Len(history') >= Area THEN Finish(None, None)
    ELSE PassTurn(c)

\* Slip: forbidden points are not refused.
MayPlay_Unconstrained(c, p) == status = "PLAYING" /\ c = turn /\ board[p] = None

\* Slip: the turn is not asked.
MayPlay_OutOfTurn(c, p) ==
    /\ status = "PLAYING"
    /\ board[p] = None
    /\ p \in forbidden => c # StartingColor

\* validate_move
MayPlay(c, p) ==
    /\ status = "PLAYING" /\ c = turn
    /\ board[p] = None
    /\ p \in forbidden => c # StartingColor

MakeMove(c, p) ==
    /\ MayPlay(c, p)
    /\ board' = [board EXCEPT ![p] = c]
    /\ history' = Append(history, [point |-> p, color |-> c])
    /\ Judge(c, p)

\* skip_turn, by the room when the turn of c has expired.
SkipTurn(c) ==
    /\ status = "PLAYING" /\ c = turn
    /\ turn' = Opponent(c)
    /\ forbidden' = ForbiddenPoints(board)
    /\ UNCHANGED <<board, status, winner, loser, history>>

Resign(c) ==
    /\ status = "PLAYING"
    /\ Finish(Opponent(c), c)
    /\ UNCHANGED <<board, history>>

\* The moves request_undo may agree on: the last one, or the last two when they
\* are one of each colour.  The older one was the requester's.
Undoable(n) ==
    /\ n <= Len(history)
    /\ n = 2 => history[Len(history)].color # history[Len(history) - 1].color

\* Slips: the stones stay on the board; the forbidden points are not judged
\* again for the restored position; the turn goes to the other player, whoever
\* asked.
UndoMoves_KeepsStones(n) ==
    /\ status = "PLAYING" /\ Undoable(n)
    /\ history' = SubSeq(history, 1, Len(history) - n)
    /\ turn' = history[Len(history) - n + 1].color
    /\ forbidden' = ForbiddenPoints(board)
    /\ UNCHANGED <<board, status, winner, loser>>
UndoMoves_KeepsForbidden(n) ==
    /\ status = "PLAYING" /\ Undoable(n)
    /\ history' = SubSeq(history, 1, Len(history) - n)
    /\ board' = [p \in Points |->
                    IF \E i \in Len(history) - n + 1 .. Len(history) : history[i].point = p
                    THEN None ELSE board[p]]
    /\ turn' = history[Len(history) - n + 1].color
    /\ UNCHANGED <<forbidden, status, winner, loser>>

UndoMoves_TogglesTurn(n) ==
    /\ status = "PLAYING" /\ Undoable(n)
    /\ history' = SubSeq(history, 1, Len(history) - n)
    /\ board' = [p \in Points |->
                    IF \E i \in Len(history) - n + 1 .. Len(history) : history[i].point = p
                    THEN None ELSE board[p]]
    /\ turn' = Opponent(turn)
    /\ forbidden' = ForbiddenPoints(board')
    /\ UNCHANGED <<status, winner, loser>>

\* undo_moves: the stones come off the board and the requester is to move.  The
\* result fields it clears are clear in every game being played.
UndoMoves(n) ==
    /\ status = "PLAYING" /\ Undoable(n)
    /\ history' = SubSeq(history, 1, Len(history) - n)
    /\ board' = [p \in Points |->
                    IF \E i \in Len(history) - n + 1 .. Len(history) : history[i].point = p
                    THEN None ELSE board[p]]
    /\ turn' = history[Len(history) - n + 1].color
    /\ winner' = None /\ loser' = None /\ status' = "PLAYING"
    /\ forbidden' = ForbiddenPoints(board')

GomokuInit ==
    /\ board = EmptyBoard /\ history = << >>
    /\ turn = StartingColor /\ status = "WAITING"
    /\ winner = None /\ loser = None
    /\ forbidden = ForbiddenPoints(board)

GomokuNext ==
    \/ \E c \in Color : SkipTurn(c) \/ Resign(c) \/ \E p \in Points : MakeMove(c, p)
    \/ \E n \in {1, 2} : UndoMoves(n)
    \/ status # "PLAYING" /\ Reset("PLAYING")
    \/ Reset("WAITING")

GomokuSpec == GomokuInit /\ [][GomokuNext]_gomokuVars

-----------------------------------------------------------------------------
(* Properties *)

\* Every field holds a value of its kind, no more moves are recorded than fit, and
\* only free points are forbidden.
GomokuTypeOK ==
    /\ board \in Boards
    /\ turn \in Color \cup {None}
    /\ status \in {"WAITING", "PLAYING", "FINISHED"}
    /\ winner \in Color \cup {None} /\ loser \in Color \cup {None}
    /\ history \in Seq(MoveType) /\ Len(history) <= Area
    /\ forbidden \subseteq EmptyPoints(board)

\* The board is the history and nothing else, through any number of moves,
\* skipped turns, undone moves and rounds: every move's stone stands where it
\* was played, no point was played twice, and no other stone is there.
BoardMatchesHistory ==
    /\ GomokuTypeOK
    /\ \A i \in DOMAIN history : board[history[i].point] = history[i].color
    /\ \A i, j \in DOMAIN history : history[i].point = history[j].point => i = j
    /\ \A p \in Points : board[p] # None => \E i \in DOMAIN history : history[i].point = p

\* The cached forbidden points are those of the position on the board as long
\* as the game is not over (_refresh_forbidden_moves), and gone when it is.
ForbiddenFresh ==
    forbidden = IF status = "FINISHED" THEN {} ELSE ForbiddenPoints(board)

\* README.md:462: the constrained colour never has the turn with every empty
\* point forbidden to it; the game is over instead.
NeverStuckOnTurn ==
    status = "PLAYING" /\ turn = StartingColor => EmptyPoints(board) \ forbidden # {}

\* Only a skipped turn can leave the constrained colour to move with nowhere to
\* play (see engine_stuck): no move does, and no undo, whatever was skipped or
\* taken back before (make_move asks _is_stuck, undo_moves does not).
StuckOnlyBySkip ==
    [][status = "PLAYING" /\ history' # history => NeverStuckOnTurn']_gomokuVars

\* A move ends the game exactly when it must: with a winner only for the mover,
\* by a winning stone or by leaving the constrained opponent no point to play;
\* without one only on a full board; and otherwise the next player can play.
ResultsAreDue ==
    [][Len(history') > Len(history) =>
         LET last == history'[Len(history')]
             won == Wins(board', last.point, last.color)
             dead == EmptyPoints(board') \subseteq ForbiddenPoints(board')
             full == EmptyPoints(board') = {}
         IN  IF status' = "PLAYING"
             THEN ~won /\ ~full /\ (dead => turn' # StartingColor)
             ELSE \/ won /\ winner' = last.color
                  \/ ~won /\ full /\ winner' = None
                  \/ /\ ~won /\ ~full /\ dead /\ last.color # StartingColor
                     /\ winner' = last.color]_gomokuVars

\* The engine is a Match: what the room and its proofs assume of an engine
\* holds of the one with a board.
M == INSTANCE Match WITH
        GameType <- "GOMOKU",
        game <- [status |-> status, turn |-> turn, winner |-> winner, loser |-> loser,
                 history |-> [i \in DOMAIN history |-> history[i].color]]

ImplementsMatch == M!MatchSpec
=============================================================================
