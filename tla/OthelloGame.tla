---------------------------- MODULE OthelloGame -----------------------------
(***************************************************************************)
(* The Othello engine (app/othello.py): its board, flips, forced passes and *)
(* results, and that it is a Match as a game room expects one.  A rejected  *)
(* call raises before it changes anything and is left out.                  *)
(***************************************************************************)
EXTENDS Board, Sequences, FiniteSets

CONSTANT Size   \* OTHELLO_BOARD_SIZE

ASSUME OthelloAssumption ==
    /\ Size \in Nat /\ Size > 2 /\ Size % 2 = 0
    /\ None \notin Color

StartingColor == "BLACK"   \* OTHELLO_STARTING_COLOR

VARIABLES
    board,
    turn,        \* current_turn
    status,
    winner, loser,
    moveCount,   \* move_count, the four initial discs included
    movers       \* history: the colours that moved, which the code does not keep

othelloVars == <<board, turn, status, winner, loser, moveCount, movers>>

-----------------------------------------------------------------------------
(* Rules *)

Points == PointsOf(Size)

Directions == ({-1, 0, 1} \X {-1, 0, 1}) \ {<<0, 0>>}

InitialBoard ==
    LET middle == Size \div 2
    IN  [p \in Points |->
            IF p \in {<<middle - 1, middle - 1>>, <<middle, middle>>} THEN "WHITE"
            ELSE IF p \in {<<middle, middle - 1>>, <<middle - 1, middle>>} THEN "BLACK"
            ELSE None]

\* The points seen from p in each direction, nearest first.
Rays ==
    LET length(p, d) == Cardinality({k \in 1 .. Size : Along(p, d, k) \in Points})
    IN  [p \in Points |->
            {[k \in 1 .. length(p, d) |-> Along(p, d, k)] : d \in Directions}]

\* The discs a disc of colour c before the ray would enclose are the first
\* k - 1 of it: opposing ones, with an own disc behind them.
Encloses(b, c, ray, k) ==
    b[ray[k]] = c /\ \A j \in 1 .. k - 1 : b[ray[j]] = Opponent(c)

\* _flips_for_move
Flips(b, c, p) ==
    IF b[p] # None THEN {}
    ELSE UNION {{ray[j] : j \in {j \in DOMAIN ray :
                    \E k \in j + 1 .. Len(ray) : Encloses(b, c, ray, k)}} : ray \in Rays[p]}

LegalMoves(b, c) == {p \in EmptyPoints(b) : Flips(b, c, p) # {}}

Placed(b, c, p) ==
    LET flips == Flips(b, c, p)
    IN  [q \in Points |-> IF q = p \/ q \in flips THEN c ELSE b[q]]

Score(b, c) == Cardinality(StonesOf(b, c))

-----------------------------------------------------------------------------
(* Operations *)

\* Slip: the discs of the last game stay counted.
Reset_KeepsCount(newStatus) ==
    /\ board' = InitialBoard /\ UNCHANGED moveCount
    /\ turn' = StartingColor /\ status' = newStatus
    /\ winner' = None /\ loser' = None
    /\ movers' = << >>

\* Slip: the last result stays.
Reset_KeepsResult(newStatus) ==
    /\ board' = InitialBoard /\ moveCount' = 4
    /\ turn' = StartingColor /\ status' = newStatus
    /\ UNCHANGED <<winner, loser>>
    /\ movers' = << >>

\* reset: board, result and disc count start over.
Reset(newStatus) ==
    /\ board' = InitialBoard /\ moveCount' = 4
    /\ turn' = StartingColor /\ status' = newStatus
    /\ winner' = None /\ loser' = None
    /\ movers' = << >>

\* _finish: the discs decide.
Finish ==
    /\ status' = "FINISHED" /\ turn' = None
    /\ \/ Score(board', "BLACK") = Score(board', "WHITE") /\ winner' = None /\ loser' = None
       \/ \E c \in Color : /\ Score(board', c) > Score(board', Opponent(c))
                           /\ winner' = c /\ loser' = Opponent(c)

\* Slips: the opponent moves next though it has no move; the game ends as soon
\* as the opponent has to pass.
NextTurn_NoPass(c) ==
    IF LegalMoves(board', Opponent(c)) = {} /\ LegalMoves(board', c) = {} THEN Finish
    ELSE turn' = Opponent(c) /\ UNCHANGED <<status, winner, loser>>
NextTurn_EndsOnPass(c) ==
    IF LegalMoves(board', Opponent(c)) = {} THEN Finish
    ELSE turn' = Opponent(c) /\ UNCHANGED <<status, winner, loser>>

\* After a move: the opponent, or the same colour again if the opponent has to
\* pass, or nobody.
NextTurn(c) ==
    IF LegalMoves(board', Opponent(c)) # {}
    THEN turn' = Opponent(c) /\ UNCHANGED <<status, winner, loser>>
    ELSE IF LegalMoves(board', c) # {}
    THEN turn' = c /\ UNCHANGED <<status, winner, loser>>
    ELSE Finish

MakeMove(c, p) ==
    /\ status = "PLAYING" /\ c = turn
    /\ Flips(board, c, p) # {}
    /\ board' = Placed(board, c, p)
    /\ moveCount' = moveCount + 1
    /\ movers' = Append(movers, c)
    /\ IF moveCount' = Size * Size THEN Finish ELSE NextTurn(c)

Resign(c) ==
    /\ status = "PLAYING"
    /\ status' = "FINISHED" /\ turn' = None
    /\ winner' = Opponent(c) /\ loser' = c
    /\ UNCHANGED <<board, moveCount, movers>>

OthelloInit ==
    /\ board = InitialBoard /\ moveCount = 4
    /\ turn = StartingColor /\ status = "WAITING"
    /\ winner = None /\ loser = None
    /\ movers = << >>

\* The room resets to PLAYING between rounds, to WAITING at any time.
OthelloNext ==
    \/ \E c \in Color, p \in Points : MakeMove(c, p)
    \/ \E c \in Color : Resign(c)
    \/ status # "PLAYING" /\ Reset("PLAYING")
    \/ Reset("WAITING")

OthelloSpec == OthelloInit /\ [][OthelloNext]_othelloVars

-----------------------------------------------------------------------------
(* Properties *)

\* Every field holds a value of its kind, and no more discs are counted than fit.
OthelloTypeOK ==
    /\ board \in [Points -> Color \cup {None}]
    /\ turn \in Color \cup {None}
    /\ status \in {"WAITING", "PLAYING", "FINISHED"}
    /\ winner \in Color \cup {None} /\ loser \in Color \cup {None}
    /\ moveCount \in 4 .. Size * Size /\ movers \in Seq(Color)

\* The move count, from which a full board is told, is the number of discs,
\* over any number of games and resets.
CountMatchesBoard ==
    /\ OthelloTypeOK
    /\ moveCount = Cardinality(Points) - Cardinality(EmptyPoints(board))

\* Whoever is to move can move: app/room.py plays an expired turn from the
\* legal moves of the current colour and says that there always is one.
TurnCanMove == status # "FINISHED" => LegalMoves(board, turn) # {}

\* A move ends the game only when neither colour can move, the greater number
\* of discs then wins, and the same colour moves twice only when the other one
\* has to pass.
PassesAndEndsOnlyWhenForced ==
    [][movers' # movers /\ movers' # << >> =>
         IF status' = "FINISHED"
         THEN /\ \A c \in Color : LegalMoves(board', c) = {}
              /\ \A c \in Color : winner' = c <=> Score(board', c) > Score(board', Opponent(c))
         ELSE turn' = turn <=> LegalMoves(board', Opponent(turn)) = {}]_othelloVars

\* The engine is a Match: what the room and its proofs assume of an engine
\* holds of the one with a board.
M == INSTANCE Match WITH
        GameType <- "OTHELLO", Area <- Size * Size - 4,
        game <- [status |-> status, turn |-> turn, winner |-> winner,
                 loser |-> loser, history |-> movers]

ImplementsMatch == M!MatchSpec
=============================================================================
