---------------------------- MODULE GomokuProofs ----------------------------
(***************************************************************************)
(* The Gomoku engine on a board of any size, under any rule.  The engine    *)
(* counts (move_count, the number of forbidden points) where the properties *)
(* speak of the stones on the board; that board and history are in step is  *)
(* what makes the counts right.                                             *)
(***************************************************************************)
EXTENDS GomokuGame, FiniteSetTheorems, TLAPS

\* What the engine expects of a rule: only free points are forbidden
\* (Rule.forbidden_points; RenjuForbidden picks from the free points).
RuleSound ==
    \A b \in Boards : ForbiddenPoints(b) \subseteq EmptyPoints(b)

FieldsTyped ==
    /\ board \in Boards
    /\ turn \in Color \cup {None}
    /\ status \in {"WAITING", "PLAYING", "FINISHED"}
    /\ winner \in Color \cup {None} /\ loser \in Color \cup {None}
    /\ history \in Seq(MoveType)

\* BoardMatchesHistory, with the history's indices written out.
StonesAreMoves ==
    /\ \A i \in 1 .. Len(history) : board[history[i].point] = history[i].color
    /\ \A i, j \in 1 .. Len(history) : history[i].point = history[j].point => i = j
    /\ \A p \in Points : board[p] # None => \E i \in 1 .. Len(history) : history[i].point = p

NoResultWhilePlaying == status = "PLAYING" => winner = None /\ loser = None

GomokuInv == FieldsTyped /\ StonesAreMoves /\ ForbiddenFresh /\ NoResultWhilePlaying

-----------------------------------------------------------------------------
(* The operations *)

\* The two colours are each other's opponent, and none of them is None.
LEMMA Colors ==
    ASSUME NEW c \in Color
    PROVE  Opponent(c) \in Color /\ Opponent(c) # c /\ c # None
  BY GomokuAssumption DEF Color, Opponent

\* How a judgement ends the game or passes the turn.
LEMMA JudgementKeepsFields ==
    ASSUME GomokuInv, status = "PLAYING", NEW c \in Color, NEW p, Judge(c, p)
    PROVE  /\ status' \in {"PLAYING", "FINISHED"} /\ turn' \in Color \cup {None}
           /\ winner' \in Color \cup {None} /\ loser' \in Color \cup {None}
           /\ ForbiddenFresh' /\ NoResultWhilePlaying'
  <1>1. CASE \E w, l \in Color \cup {None} : Finish(w, l)
    BY <1>1 DEF Finish, ForbiddenFresh, NoResultWhilePlaying
  <1>2. CASE /\ forbidden' = ForbiddenPoints(board')
             /\ turn' = Opponent(c) /\ UNCHANGED <<status, winner, loser>>
    BY <1>2, Colors DEF ForbiddenFresh, GomokuInv, FieldsTyped, NoResultWhilePlaying
  <1> QED
    BY <1>1, <1>2, Colors DEF Judge, PassTurn

\* A move puts one stone on a free point and judges the points again.
LEMMA MoveKeepsInv ==
    ASSUME GomokuInv, NEW c \in Color, NEW p \in Points, MakeMove(c, p)
    PROVE  GomokuInv'
  <1> DEFINE n == Len(history)
             move == [point |-> p, color |-> c]
  <1>1. /\ status = "PLAYING" /\ board[p] = None /\ Judge(c, p)
        /\ board' = [board EXCEPT ![p] = c] /\ history' = Append(history, move)
    BY DEF MakeMove, MayPlay
  <1>2. history \in Seq(MoveType) /\ n \in Nat /\ move \in MoveType
    BY DEF GomokuInv, FieldsTyped, MoveType
  <1>3. /\ history' \in Seq(MoveType) /\ Len(history') = n + 1
        /\ \A i \in 1 .. n : history'[i] = history[i] /\ history[i] \in MoveType
        /\ history'[n + 1] = move
    BY <1>1, <1>2
  <1>4. FieldsTyped' /\ ForbiddenFresh' /\ NoResultWhilePlaying'
    <2>1. board' \in Boards
      BY <1>1 DEF GomokuInv, FieldsTyped, Boards
    <2> QED
      BY <1>1, <1>3, <2>1, JudgementKeepsFields DEF FieldsTyped
  <1>5. \A i \in 1 .. n : history[i].point \in Points /\ history[i].point # p
    <2> TAKE i \in 1 .. n
    <2>1. history[i].point \in Points /\ history[i].color \in Color
      BY <1>3 DEF MoveType
    <2>2. board[history[i].point] # None
      BY <2>1, Colors DEF GomokuInv, StonesAreMoves
    <2> QED
      BY <2>1, <2>2, <1>1
  <1>6. StonesAreMoves'
    <2>1. /\ board'[p] = c
          /\ \A q \in Points : q # p => board'[q] = board[q]
      BY <1>1 DEF GomokuInv, FieldsTyped, Boards
    <2>2. \A i \in 1 .. n + 1 : board'[history'[i].point] = history'[i].color
      <3> TAKE i \in 1 .. n + 1
      <3>1. CASE i = n + 1
        BY <3>1, <1>3, <2>1
      <3>2. CASE i \in 1 .. n
        BY <3>2, <1>3, <1>5, <2>1 DEF GomokuInv, StonesAreMoves
      <3> QED
        BY <3>1, <3>2, <1>2
    <2>3. \A i, j \in 1 .. n + 1 : history'[i].point = history'[j].point => i = j
      <3> TAKE i, j \in 1 .. n + 1
      <3> HAVE history'[i].point = history'[j].point
      <3>1. CASE i \in 1 .. n /\ j \in 1 .. n
        BY <3>1, <1>3 DEF GomokuInv, StonesAreMoves
      <3>2. CASE i = n + 1 \/ j = n + 1
        BY <3>2, <1>2, <1>3, <1>5
      <3> QED
        BY <3>1, <3>2, <1>2
    <2>4. \A q \in Points : board'[q] # None =>
              \E i \in 1 .. n + 1 : history'[i].point = q
      <3> TAKE q \in Points
      <3> HAVE board'[q] # None
      <3>1. CASE q = p
        BY <3>1, <1>2, <1>3
      <3>2. CASE q # p
        <4>1. PICK i \in 1 .. n : history[i].point = q
          BY <3>2, <2>1 DEF GomokuInv, StonesAreMoves
        <4> QED
          BY <4>1, <1>2, <1>3
      <3> QED
        BY <3>1, <3>2
    <2> QED
      BY <2>2, <2>3, <2>4, <1>3 DEF StonesAreMoves
  <1> QED
    BY <1>4, <1>6 DEF GomokuInv

\* An undo empties the points of the moves it takes back.
LEMMA UndoKeepsInv ==
    ASSUME GomokuInv, NEW n \in {1, 2}, UndoMoves(n)
    PROVE  GomokuInv'
  <1> DEFINE k == Len(history) - n
  <1>1. /\ n <= Len(history) /\ history \in Seq(MoveType) /\ Len(history) \in Nat
        /\ history' = SubSeq(history, 1, k)
        /\ board' = [p \in Points |->
                        IF \E i \in k + 1 .. Len(history) : history[i].point = p
                        THEN None ELSE board[p]]
    BY DEF UndoMoves, Undoable, GomokuInv, FieldsTyped
  <1>2. /\ k \in Nat /\ history' \in Seq(MoveType) /\ Len(history') = k
        /\ \A i \in 1 .. k : history'[i] = history[i]
        /\ \A i \in 1 .. Len(history) : history[i] \in MoveType
        /\ 1 .. k \subseteq 1 .. Len(history)
        /\ k + 1 .. Len(history) \subseteq 1 .. Len(history)
    BY <1>1
  <1>3. FieldsTyped'
    <2>1. board' \in Boards
      BY <1>1 DEF GomokuInv, FieldsTyped, Boards
    <2>2. turn' \in Color
      <3>1. k + 1 \in 1 .. Len(history)
        BY <1>1
      <3>2. history[k + 1].color \in Color
        BY <1>2, <3>1 DEF MoveType
      <3> QED
        BY <3>2 DEF UndoMoves
    <2> QED
      BY <2>1, <2>2, <1>2 DEF UndoMoves, FieldsTyped
  <1>4. ForbiddenFresh' /\ NoResultWhilePlaying'
    BY DEF UndoMoves, ForbiddenFresh, NoResultWhilePlaying
  <1>5. StonesAreMoves'
    <2>1. \A i \in 1 .. k : board'[history'[i].point] = history'[i].color
      <3> TAKE i \in 1 .. k
      <3>1. history[i].point \in Points /\ i \in 1 .. Len(history)
        BY <1>2 DEF MoveType
      <3>2. \A j \in k + 1 .. Len(history) : history[j].point # history[i].point
        <4> TAKE j \in k + 1 .. Len(history)
        <4>1. j \in 1 .. Len(history) /\ j # i
          BY <1>1, <1>2
        <4> QED
          BY <4>1, <3>1 DEF GomokuInv, StonesAreMoves
      <3>3. board'[history[i].point] = board[history[i].point]
        BY <1>1, <3>1, <3>2
      <3> QED
        BY <3>1, <3>3, <1>2 DEF GomokuInv, StonesAreMoves
    <2>2. \A i, j \in 1 .. k : history'[i].point = history'[j].point => i = j
      BY <1>2 DEF GomokuInv, StonesAreMoves
    <2>3. \A q \in Points : board'[q] # None => \E i \in 1 .. k : history'[i].point = q
      <3> TAKE q \in Points
      <3> HAVE board'[q] # None
      <3>1. /\ board[q] # None
            /\ \A i \in k + 1 .. Len(history) : history[i].point # q
        BY <1>1
      <3>2. PICK i \in 1 .. Len(history) : history[i].point = q
        BY <3>1 DEF GomokuInv, StonesAreMoves
      <3>3. i \in 1 .. k
        BY <3>1, <3>2, <1>1, <1>2
      <3> QED
        BY <3>2, <3>3, <1>2
    <2> QED
      BY <2>1, <2>2, <2>3, <1>2 DEF StonesAreMoves
  <1> QED
    BY <1>3, <1>4, <1>5 DEF GomokuInv

\* An empty board and an empty history fit each other.
LEMMA EmptyBoardKeepsInv ==
    ASSUME board = EmptyBoard, history = << >>, turn = StartingColor,
           status \in {"WAITING", "PLAYING"}, winner = None, loser = None,
           forbidden = ForbiddenPoints(board)
    PROVE  GomokuInv
  <1>1. FieldsTyped
    BY GomokuAssumption DEF FieldsTyped, EmptyBoard, Boards
  <1>2. StonesAreMoves
    BY DEF StonesAreMoves, EmptyBoard
  <1> QED
    BY <1>1, <1>2 DEF GomokuInv, ForbiddenFresh, NoResultWhilePlaying

\* So a reset keeps the invariant.
LEMMA ResetKeepsInv ==
    ASSUME NEW s \in {"WAITING", "PLAYING"}, Reset(s)
    PROVE  GomokuInv'
  <1>1. FieldsTyped'
    BY GomokuAssumption DEF Reset, FieldsTyped, EmptyBoard, Boards
  <1>2. StonesAreMoves'
    BY DEF Reset, StonesAreMoves, EmptyBoard
  <1> QED
    BY <1>1, <1>2 DEF Reset, GomokuInv, ForbiddenFresh, NoResultWhilePlaying

\* A skipped turn leaves the board alone.
LEMMA SkipKeepsInv ==
    ASSUME GomokuInv, NEW c \in Color, SkipTurn(c)
    PROVE  GomokuInv'
  <1>1. FieldsTyped'
    BY Colors DEF SkipTurn, GomokuInv, FieldsTyped
  <1>2. StonesAreMoves'
    BY DEF SkipTurn, GomokuInv, StonesAreMoves
  <1> QED
    BY <1>1, <1>2 DEF SkipTurn, GomokuInv, ForbiddenFresh, NoResultWhilePlaying

\* A resignation ends the game and leaves the board alone.
LEMMA ResignKeepsInv ==
    ASSUME GomokuInv, NEW c \in Color, Resign(c)
    PROVE  GomokuInv'
  <1>1. FieldsTyped'
    BY Colors DEF Resign, Finish, GomokuInv, FieldsTyped
  <1>2. StonesAreMoves'
    BY DEF Resign, GomokuInv, StonesAreMoves
  <1> QED
    BY <1>1, <1>2 DEF Resign, Finish, GomokuInv, ForbiddenFresh, NoResultWhilePlaying

\* Every operation keeps the invariant.
LEMMA GomokuStepKeepsInv ==
    ASSUME GomokuInv, [GomokuNext]_gomokuVars
    PROVE  GomokuInv'
  <1>1. CASE UNCHANGED gomokuVars
    BY <1>1 DEF gomokuVars, GomokuInv, FieldsTyped, StonesAreMoves, ForbiddenFresh,
                NoResultWhilePlaying
  <1>2. ASSUME NEW c \in Color, SkipTurn(c) PROVE GomokuInv'
    BY <1>2, SkipKeepsInv
  <1>3. ASSUME NEW c \in Color, Resign(c) PROVE GomokuInv'
    BY <1>3, ResignKeepsInv
  <1>4. ASSUME NEW c \in Color, NEW p \in Points, MakeMove(c, p) PROVE GomokuInv'
    BY <1>4, MoveKeepsInv
  <1>5. ASSUME NEW n \in {1, 2}, UndoMoves(n) PROVE GomokuInv'
    BY <1>5, UndoKeepsInv
  <1>6. ASSUME NEW s \in {"WAITING", "PLAYING"}, Reset(s) PROVE GomokuInv'
    BY <1>6, ResetKeepsInv
  <1> QED
    BY <1>1, <1>2, <1>3, <1>4, <1>5, <1>6 DEF GomokuNext

\* In every reachable state of the engine, whatever the rule forbids, the stones
\* are the moves, the cache is fresh and no result is left in a running game.
THEOREM GomokuInvariant == GomokuSpec => []GomokuInv
  <1>1. GomokuInit => GomokuInv
    BY EmptyBoardKeepsInv DEF GomokuInit
  <1> QED
    BY <1>1, GomokuStepKeepsInv, PTL DEF GomokuSpec

\* The cached forbidden points are those of the board as long as the game goes
\* on (_refresh_forbidden_moves in make_move, skip_turn, undo_moves and reset).
THEOREM ForbiddenAlwaysFresh == GomokuSpec => []ForbiddenFresh
  <1>1. GomokuInv => ForbiddenFresh
    BY DEF GomokuInv
  <1> QED
    BY <1>1, GomokuInvariant, PTL

-----------------------------------------------------------------------------
(* Counting *)

\* The engine's counts are right: as many points are free as moves are missing
\* to fill the board (make_move and _is_stuck count, nobody looks at the board).
LEMMA FreePointsCounted ==
    ASSUME GomokuInv
    PROVE  /\ IsFiniteSet(EmptyPoints(board)) /\ Area \in Nat
           /\ Cardinality(EmptyPoints(board)) \in Nat
           /\ Cardinality(EmptyPoints(board)) = Area - Len(history)
  <1> DEFINE Moves == 1 .. Len(history)
             Taken == Points \ EmptyPoints(board)
             at == [i \in Moves |-> history[i].point]
  <1>1. /\ history \in Seq(MoveType) /\ Len(history) \in Nat
        /\ board \in Boards /\ EmptyPoints(board) \subseteq Points
    BY DEF GomokuInv, FieldsTyped, EmptyPoints, Boards
  <1>2. IsFiniteSet(Points) /\ Cardinality(Points) = Area /\ Area \in Nat
    <2>1. Size \in Int /\ 0 \in Int /\ Size - 1 \in Int
      BY GomokuAssumption
    <2>2. IsFiniteSet(0 .. Size - 1) /\ Cardinality(0 .. Size - 1) = Size
      BY <2>1, FS_Interval, GomokuAssumption
    <2>3. /\ IsFiniteSet((0 .. Size - 1) \X (0 .. Size - 1))
          /\ Cardinality((0 .. Size - 1) \X (0 .. Size - 1)) = Size * Size
      BY <2>2, FS_Product
    <2>4. Size * Size \in Nat
      BY GomokuAssumption
    <2> QED
      BY <2>3, <2>4 DEF Points, PointsOf, Area
  <1>3. at \in Injection(Moves, Taken) /\ at \in Surjection(Moves, Taken)
    <2>1. \A i \in Moves : history[i] \in MoveType
      BY <1>1
    <2>2. \A i \in Moves : /\ history[i].point \in Points
                           /\ board[history[i].point] # None
      BY <2>1, Colors DEF GomokuInv, StonesAreMoves, MoveType
    <2>3. at \in [Moves -> Taken]
      BY <2>2 DEF EmptyPoints
    <2>4. \A i, j \in Moves : at[i] = at[j] => i = j
      BY DEF GomokuInv, StonesAreMoves
    <2>5. \A p \in Taken : \E i \in Moves : at[i] = p
      BY <1>1 DEF GomokuInv, StonesAreMoves, EmptyPoints, Boards
    <2> QED
      BY <2>3, <2>4, <2>5 DEF Injection, Surjection, IsInjective
  <1>4. IsFiniteSet(Moves) /\ Cardinality(Moves) = Len(history)
    <2>1. /\ IsFiniteSet(1 .. Len(history))
          /\ Cardinality(1 .. Len(history)) =
                IF 1 > Len(history) THEN 0 ELSE Len(history) - 1 + 1
      <3>1. 1 \in Int /\ Len(history) \in Int
        BY <1>1
      <3> QED
        BY <3>1, FS_Interval, Zenon
    <2> QED
      BY <1>1, <2>1
  <1>5. IsFiniteSet(Taken) /\ IsFiniteSet(EmptyPoints(board))
    BY <1>1, <1>2, FS_Subset
  <1>6. Cardinality(Taken) = Len(history)
    BY <1>3, <1>4, <1>5, FS_Injection
  <1>7. /\ Points \ EmptyPoints(board) = Taken
        /\ Points \cap EmptyPoints(board) = EmptyPoints(board)
    BY <1>1
  <1>8. Cardinality(Taken) = Area - Cardinality(EmptyPoints(board))
    BY <1>2, <1>7, FS_Difference
  <1>9. Cardinality(EmptyPoints(board)) \in Nat
    BY <1>5, FS_CardinalityType
  <1> QED
    BY <1>1, <1>2, <1>5, <1>6, <1>8, <1>9

\* Board and history never drift apart, and no more moves are recorded than fit,
\* through any number of moves, skipped turns, undone moves and rounds, if the
\* rule forbids free points only.
THEOREM BoardAlwaysMatchesHistory ==
    ASSUME RuleSound
    PROVE  GomokuSpec => []BoardMatchesHistory
  <1>1. ASSUME GomokuInv PROVE BoardMatchesHistory
    <2>1. Len(history) <= Area
      BY <1>1, FreePointsCounted DEF GomokuInv, FieldsTyped
    <2>2. forbidden \subseteq EmptyPoints(board)
      BY <1>1 DEF RuleSound, GomokuInv, FieldsTyped, ForbiddenFresh
    <2>3. GomokuTypeOK
      BY <1>1, <2>1, <2>2 DEF GomokuInv, FieldsTyped, GomokuTypeOK
    <2>4. DOMAIN history = 1 .. Len(history)
      BY <1>1 DEF GomokuInv, FieldsTyped
    <2> QED
      BY <1>1, <2>3, <2>4 DEF GomokuInv, StonesAreMoves, BoardMatchesHistory
  <1> QED
    BY <1>1, GomokuInvariant, PTL

\* The dead end that _is_stuck finds by counting is one on the board.
LEMMA StuckMeansNowhereToPlay ==
    ASSUME GomokuInv, RuleSound
    PROVE  Cardinality(ForbiddenPoints(board)) >= Area - Len(history)
             <=> EmptyPoints(board) \subseteq ForbiddenPoints(board)
  <1> DEFINE Free == EmptyPoints(board)
             Closed == ForbiddenPoints(board)
  <1>1. Closed \subseteq Free
    BY DEF GomokuInv, FieldsTyped, RuleSound
  <1>2. IsFiniteSet(Free) /\ Cardinality(Free) = Area - Len(history) /\ Cardinality(Free) \in Nat
    BY FreePointsCounted
  <1>3. /\ IsFiniteSet(Closed) /\ Cardinality(Closed) <= Cardinality(Free)
        /\ Cardinality(Closed) = Cardinality(Free) => Closed = Free
    BY <1>1, <1>2, FS_Subset
  <1>4. Cardinality(Closed) \in Nat
    BY <1>3, FS_CardinalityType
  <1>5. CASE Cardinality(Closed) >= Cardinality(Free)
    <2>1. Closed = Free
      BY <1>2, <1>3, <1>4, <1>5
    <2> QED
      BY <2>1, <1>2, <1>5
  <1>6. CASE Free \subseteq Closed
    <2>1. Closed = Free
      BY <1>1, <1>6
    <2> QED
      BY <2>1, <1>2
  <1> QED
    BY <1>2, <1>5, <1>6

\* Of all operations only a move makes the history longer.
LEMMA OnlyMovesLengthen ==
    ASSUME GomokuInv, GomokuNext, Len(history') > Len(history)
    PROVE  \E c \in Color, p \in Points : MakeMove(c, p)
  <1>1. history \in Seq(MoveType) /\ Len(history) \in Nat
    BY DEF GomokuInv, FieldsTyped
  <1>2. ASSUME NEW c \in Color, SkipTurn(c) \/ Resign(c) PROVE FALSE
    BY <1>1, <1>2 DEF SkipTurn, Resign
  <1>3. ASSUME NEW n \in {1, 2}, UndoMoves(n) PROVE FALSE
    BY <1>1, <1>3 DEF UndoMoves, Undoable
  <1>4. ASSUME NEW s \in {"WAITING", "PLAYING"}, Reset(s) PROVE FALSE
    <2>1. Len(history') = 0
      BY <1>4 DEF Reset
    <2> QED
      BY <2>1, <1>1
  <1> QED
    BY <1>2, <1>3, <1>4 DEF GomokuNext

\* A move ends the game exactly when it must (Judge counts; this speaks of the
\* stones): by a winning stone, by a full board, or by leaving the constrained
\* opponent no point to play.
THEOREM ResultsAlwaysDue ==
    ASSUME RuleSound
    PROVE  GomokuSpec => ResultsAreDue
  <1> DEFINE last == history'[Len(history')]
             won == Wins(board', last.point, last.color)
             dead == EmptyPoints(board') \subseteq ForbiddenPoints(board')
             full == EmptyPoints(board') = {}
             Due == IF status' = "PLAYING"
                    THEN ~won /\ ~full /\ (dead => turn' # StartingColor)
                    ELSE \/ won /\ winner' = last.color
                         \/ ~won /\ full /\ winner' = None
                         \/ /\ ~won /\ ~full /\ dead /\ last.color # StartingColor
                            /\ winner' = last.color
             Counted == /\ IsFiniteSet(EmptyPoints(board)) /\ Area \in Nat
                        /\ Cardinality(EmptyPoints(board)) = Area - Len(history)
                        /\ Cardinality(ForbiddenPoints(board)) >= Area - Len(history)
                             <=> EmptyPoints(board) \subseteq ForbiddenPoints(board)
  <1>1. GomokuInv => Counted
    BY FreePointsCounted, StuckMeansNowhereToPlay
  <1>2. GomokuInv' => Counted'
    BY <1>1, PTL
  <1>3. ASSUME GomokuInv, GomokuNext, Len(history') > Len(history)
        PROVE  Due
    <2>1. PICK c \in Color, p \in Points : MakeMove(c, p)
      BY <1>3, OnlyMovesLengthen
    <2>2. GomokuInv'
      BY <1>3, GomokuStepKeepsInv
    <2>3. last.point = p /\ last.color = c
      BY <1>3, <2>1 DEF MakeMove, GomokuInv, FieldsTyped
    <2>4. full <=> Len(history') >= Area
      <3>1. /\ IsFiniteSet(EmptyPoints(board')) /\ Area \in Nat
            /\ Cardinality(EmptyPoints(board')) = Area - Len(history')
        BY <2>2, <1>2
      <3>2. Cardinality(EmptyPoints(board')) = 0 <=> full
        BY <3>1, FS_EmptySet
      <3>3. Len(history') \in Nat /\ Cardinality(EmptyPoints(board')) \in Nat
        BY <2>2, <3>1, FS_CardinalityType DEF GomokuInv, FieldsTyped
      <3> QED
        BY <3>1, <3>2, <3>3
    <2>5. Cardinality(ForbiddenPoints(board')) >= Area - Len(history') <=> dead
      BY <2>2, <1>2
    <2>6. status = "PLAYING" /\ Judge(c, p)
      BY <2>1 DEF MakeMove, MayPlay
    <2>7. Opponent(c) \in Color /\ Opponent(c) # c
      BY Colors
    <2>8. Opponent(c) = StartingColor => c # StartingColor
      BY <2>7
    <2> QED
      BY <2>3, <2>4, <2>5, <2>6, <2>8 DEF Judge, PassTurn, Finish, Stuck
  <1>4. ASSUME GomokuInv, [GomokuNext]_gomokuVars
        PROVE  [Len(history') > Len(history) => Due]_gomokuVars
    BY <1>3, <1>4
  <1> QED
    BY <1>4, GomokuInvariant, PTL DEF GomokuSpec, ResultsAreDue

-----------------------------------------------------------------------------
(* Dead ends *)

\* The board as it was when the i-th recorded move was made.
Before(i) ==
    [p \in Points |-> IF \E j \in 1 .. i - 1 : history[j].point = p THEN board[p] ELSE None]

\* Every recorded move of the constrained colour was allowed when it was made.
\* The engine does not keep what was forbidden then, so an undo relies on this.
HistoryLegal ==
    \A i \in 1 .. Len(history) :
        history[i].color = StartingColor => history[i].point \notin ForbiddenPoints(Before(i))

\* Judged before the stone is placed, and never again.
LEMMA MoveKeepsHistoryLegal ==
    ASSUME GomokuInv, HistoryLegal, NEW c \in Color, NEW p \in Points, MakeMove(c, p)
    PROVE  HistoryLegal'
  <1> DEFINE n == Len(history)
             move == [point |-> p, color |-> c]
  <1>1. /\ status = "PLAYING" /\ board[p] = None
        /\ p \in forbidden => c # StartingColor
        /\ board' = [board EXCEPT ![p] = c] /\ history' = Append(history, move)
    BY DEF MakeMove, MayPlay
  <1>2. /\ history \in Seq(MoveType) /\ n \in Nat /\ move \in MoveType
        /\ board \in [Points -> Color \cup {None}]
        /\ move.point = p /\ move.color = c
    BY DEF GomokuInv, FieldsTyped, MoveType, Boards
  <1>3. /\ Len(history') = n + 1
        /\ \A i \in 1 .. n : history'[i] = history[i] /\ history[i] \in MoveType
        /\ history'[n + 1] = move
    BY <1>1, <1>2
  <1>4. \A q \in Points : q # p => board'[q] = board[q]
    BY <1>1, <1>2
  <1>5. \A i \in 1 .. n : history[i].point # p
    <2> TAKE i \in 1 .. n
    <2>1. history[i].color \in Color
      BY <1>3 DEF MoveType
    <2> QED
      BY <1>1, <2>1, Colors DEF GomokuInv, StonesAreMoves
  <1>6. ASSUME NEW i \in 1 .. n + 1 PROVE Before(i)' = Before(i)
    <2>1. \A j \in 1 .. i - 1 : j \in 1 .. n /\ history'[j] = history[j]
      BY <1>2, <1>3
    <2>2. \A q \in Points : (\E j \in 1 .. i - 1 : history'[j].point = q)
                                <=> \E j \in 1 .. i - 1 : history[j].point = q
      BY <2>1
    <2>3. \A q \in Points : (\E j \in 1 .. i - 1 : history[j].point = q)
                                => board'[q] = board[q]
      BY <1>4, <1>5, <2>1
    <2> QED
      BY <2>2, <2>3 DEF Before
  <1>7. Before(n + 1) = board
    <2>1. \A q \in Points : board[q] = None \/ \E j \in 1 .. n : history[j].point = q
      BY DEF GomokuInv, StonesAreMoves
    <2>2. (n + 1) - 1 = n
      BY <1>2
    <2> QED
      BY <1>2, <2>1, <2>2 DEF Before
  <1>8. c = StartingColor => p \notin ForbiddenPoints(board)
    BY <1>1 DEF GomokuInv, ForbiddenFresh
  <1>9. ASSUME NEW i \in 1 .. n + 1, history'[i].color = StartingColor
        PROVE  history'[i].point \notin ForbiddenPoints(Before(i)')
    <2>1. CASE i = n + 1
      BY <2>1, <1>2, <1>3, <1>6, <1>7, <1>8, <1>9
    <2>2. CASE i \in 1 .. n
      BY <2>2, <1>3, <1>6, <1>9 DEF HistoryLegal
    <2> QED
      BY <2>1, <2>2, <1>2
  <1> QED
    BY <1>3, <1>9 DEF HistoryLegal

\* The moves an undo keeps were made on the same boards as before it, and the
\* one it restores is the board on which the oldest move it removes was made.
LEMMA UndoRestores ==
    ASSUME GomokuInv, NEW n \in {1, 2}, UndoMoves(n)
    PROVE  LET k == Len(history) - n IN
           /\ k \in Nat /\ k + 1 \in 1 .. Len(history) /\ Len(history') = k
           /\ \A i \in 1 .. k : history'[i] = history[i] /\ Before(i)' = Before(i)
           /\ board' = Before(k + 1)
  <1> DEFINE k == Len(history) - n
  <1>1. /\ n <= Len(history) /\ history \in Seq(MoveType) /\ Len(history) \in Nat
        /\ history' = SubSeq(history, 1, k)
        /\ board' = [p \in Points |->
                        IF \E i \in k + 1 .. Len(history) : history[i].point = p
                        THEN None ELSE board[p]]
    BY DEF UndoMoves, Undoable, GomokuInv, FieldsTyped
  <1>2. /\ k \in Nat /\ k + 1 \in 1 .. Len(history) /\ Len(history') = k
        /\ \A i \in 1 .. k : history'[i] = history[i] /\ i \in 1 .. Len(history)
        /\ \A j \in k + 1 .. Len(history) : j \in 1 .. Len(history)
    BY <1>1
  <1>3. \A i \in 1 .. k, j \in k + 1 .. Len(history) : history[j].point # history[i].point
    <2> TAKE i \in 1 .. k, j \in k + 1 .. Len(history)
    <2>1. i \in 1 .. Len(history) /\ j \in 1 .. Len(history) /\ i # j
      BY <1>1, <1>2
    <2> QED
      BY <2>1 DEF GomokuInv, StonesAreMoves
  <1>4. \A i \in 1 .. k : \A q \in Points : history[i].point = q => board'[q] = board[q]
    BY <1>1, <1>3
  <1>5. ASSUME NEW i \in 1 .. k PROVE Before(i)' = Before(i)
    <2>1. \A j \in 1 .. i - 1 : j \in 1 .. k /\ history'[j] = history[j]
      BY <1>2
    <2>2. \A q \in Points : (\E j \in 1 .. i - 1 : history'[j].point = q)
                                <=> \E j \in 1 .. i - 1 : history[j].point = q
      BY <2>1
    <2>3. \A q \in Points : (\E j \in 1 .. i - 1 : history[j].point = q)
                                => board'[q] = board[q]
      BY <1>4, <2>1
    <2> QED
      BY <2>2, <2>3 DEF Before
  <1>6. board' = Before(k + 1)
    <2>1. (k + 1) - 1 = k
      BY <1>2
    <2>2. ASSUME NEW q \in Points
          PROVE  (IF \E i \in k + 1 .. Len(history) : history[i].point = q
                  THEN None ELSE board[q])
                 = IF \E j \in 1 .. k : history[j].point = q THEN board[q] ELSE None
      <3>1. CASE \E j \in 1 .. k : history[j].point = q
        BY <3>1, <1>3
      <3>2. CASE ~ \E j \in 1 .. k : history[j].point = q
        <4>1. board[q] = None \/ \E j \in 1 .. Len(history) : history[j].point = q
          BY DEF GomokuInv, StonesAreMoves
        <4>2. \A j \in 1 .. Len(history) : j \in 1 .. k \/ j \in k + 1 .. Len(history)
          BY <1>1, <1>2
        <4> QED
          BY <3>2, <4>1, <4>2
      <3> QED
        BY <3>1, <3>2
    <2>3. Before(k + 1) =
            [q \in Points |-> IF \E j \in 1 .. k : history[j].point = q THEN board[q] ELSE None]
      BY <2>1 DEF Before
    <2> QED
      BY <1>1, <2>2, <2>3
  <1> QED
    BY <1>2, <1>5, <1>6

\* Every operation keeps the history legal.
LEMMA StepKeepsHistoryLegal ==
    ASSUME GomokuInv, HistoryLegal, [GomokuNext]_gomokuVars
    PROVE  HistoryLegal'
  <1>1. ASSUME UNCHANGED <<board, history>> PROVE HistoryLegal'
    BY <1>1 DEF HistoryLegal, Before
  <1>2. ASSUME NEW c \in Color, SkipTurn(c) \/ Resign(c) PROVE HistoryLegal'
    BY <1>1, <1>2 DEF SkipTurn, Resign
  <1>3. ASSUME NEW c \in Color, NEW p \in Points, MakeMove(c, p) PROVE HistoryLegal'
    BY <1>3, MoveKeepsHistoryLegal
  <1>4. ASSUME NEW n \in {1, 2}, UndoMoves(n) PROVE HistoryLegal'
    <2> DEFINE k == Len(history) - n
    <2>1. /\ k \in Nat /\ k + 1 \in 1 .. Len(history) /\ Len(history') = k
          /\ \A i \in 1 .. k : history'[i] = history[i] /\ Before(i)' = Before(i)
      BY <1>4, UndoRestores
    <2>2. \A i \in 1 .. k : i \in 1 .. Len(history)
      BY <2>1 DEF GomokuInv, FieldsTyped
    <2> QED
      BY <2>1, <2>2 DEF HistoryLegal
  <1>5. ASSUME NEW s \in {"WAITING", "PLAYING"}, Reset(s) PROVE HistoryLegal'
    BY <1>5 DEF Reset, HistoryLegal
  <1> QED
    BY <1>1, <1>2, <1>3, <1>4, <1>5 DEF GomokuNext, gomokuVars

\* The constrained colour is never handed a turn without a move by a stone that
\* is placed or taken back: a move asks _is_stuck, and after an undo the point
\* its requester played first is free and allowed again.  Only skip_turn, which
\* does not ask, can do it.
THEOREM StuckOnlyAfterSkips ==
    ASSUME RuleSound
    PROVE  GomokuSpec => StuckOnlyBySkip
  <1> DEFINE Counted == Cardinality(ForbiddenPoints(board)) >= Area - Len(history)
                        <=> EmptyPoints(board) \subseteq ForbiddenPoints(board)
  <1>1. GomokuInit => HistoryLegal
    BY DEF GomokuInit, HistoryLegal
  <1>2. GomokuInv /\ HistoryLegal /\ [GomokuNext]_gomokuVars => HistoryLegal'
    BY StepKeepsHistoryLegal
  <1>3. GomokuInv => Counted
    BY StuckMeansNowhereToPlay
  <1>4. GomokuInv' => Counted'
    BY <1>3, PTL
  <1>5. ASSUME GomokuInv, NEW c \in Color, NEW p \in Points, MakeMove(c, p)
        PROVE  NeverStuckOnTurn'
    <2>1. GomokuInv' /\ Counted'
      BY <1>4, <1>5, MoveKeepsInv
    <2> SUFFICES ASSUME status' = "PLAYING", turn' = StartingColor
                 PROVE  EmptyPoints(board') \ forbidden' # {}
      BY DEF NeverStuckOnTurn
    <2>2. /\ turn' = Opponent(c) /\ forbidden' = ForbiddenPoints(board')
          /\ ~Stuck(Opponent(c), ForbiddenPoints(board'), Len(history'))
      BY <1>5 DEF MakeMove, Judge, PassTurn, Finish
    <2> QED
      BY <2>1, <2>2 DEF Stuck
  <1>6. ASSUME GomokuInv, HistoryLegal, NEW n \in {1, 2}, UndoMoves(n)
        PROVE  NeverStuckOnTurn'
    <2> DEFINE k == Len(history) - n
               p == history[k + 1].point
    <2>1. k \in Nat /\ k + 1 \in 1 .. Len(history) /\ board' = Before(k + 1)
      BY <1>6, UndoRestores
    <2>2. /\ turn' = history[k + 1].color /\ forbidden' = ForbiddenPoints(board')
          /\ history[k + 1] \in MoveType
      BY <1>6, <2>1 DEF UndoMoves, GomokuInv, FieldsTyped
    <2>3. p \in Points /\ board'[p] = None /\ DOMAIN board' = Points
      BY <1>6, <2>1, <2>2 DEF UndoMoves, MoveType
    <2>4. turn' = StartingColor => p \notin forbidden'
      BY <1>6, <2>1, <2>2 DEF HistoryLegal
    <2> QED
      BY <2>3, <2>4 DEF NeverStuckOnTurn, EmptyPoints
  <1>7. ASSUME GomokuInv, HistoryLegal, [GomokuNext]_gomokuVars
        PROVE  [status = "PLAYING" /\ history' # history => NeverStuckOnTurn']_gomokuVars
    <2> SUFFICES ASSUME status = "PLAYING", history' # history PROVE NeverStuckOnTurn'
      OBVIOUS
    <2>1. CASE \E c \in Color : SkipTurn(c) \/ Resign(c)
      BY <2>1 DEF SkipTurn, Resign
    <2>2. CASE Reset("WAITING")
      BY <2>2 DEF Reset, NeverStuckOnTurn
    <2>3. CASE UNCHANGED gomokuVars
      BY <2>3 DEF gomokuVars
    <2> QED
      BY <1>5, <1>6, <1>7, <2>1, <2>2, <2>3 DEF GomokuNext
  <1> QED
    BY <1>1, <1>2, <1>7, GomokuInvariant, PTL DEF GomokuSpec, StuckOnlyBySkip

-----------------------------------------------------------------------------
(* The engine with a board is a Match *)

\* The match that a position stands for (the record game of M).
ColorsOf(h) == [i \in DOMAIN h |-> h[i].color]

MatchOf(s, t, w, l, moved) ==
    [status |-> s, turn |-> t, winner |-> w, loser |-> l, history |-> moved]

MatchNow == MatchOf(status, turn, winner, loser, ColorsOf(history))

\* A move more, or some moves less, and the colours that moved follow suit.
LEMMA ColorsOfMoves ==
    ASSUME NEW h \in Seq(MoveType)
    PROVE  /\ ColorsOf(h) \in Seq(Color) /\ Len(ColorsOf(h)) = Len(h)
           /\ \A m \in MoveType : ColorsOf(Append(h, m)) = Append(ColorsOf(h), m.color)
           /\ \A k \in 0 .. Len(h) : ColorsOf(SubSeq(h, 1, k)) = SubSeq(ColorsOf(h), 1, k)
  <1> USE DEF ColorsOf
  <1>1. \A i \in 1 .. Len(h) : h[i].color \in Color
    <2>1. \A i \in 1 .. Len(h) : h[i] \in MoveType
      OBVIOUS
    <2> QED
      BY <2>1 DEF MoveType
  <1>2. ColorsOf(h) \in Seq(Color) /\ Len(ColorsOf(h)) = Len(h)
    BY <1>1
  <1>3. ASSUME NEW m \in MoveType
        PROVE  ColorsOf(Append(h, m)) = Append(ColorsOf(h), m.color)
    <2>1. m.color \in Color
      BY DEF MoveType
    <2>2. DOMAIN ColorsOf(Append(h, m)) = 1 .. Len(h) + 1
      OBVIOUS
    <2>3. DOMAIN Append(ColorsOf(h), m.color) = 1 .. Len(h) + 1
      BY <1>2, <2>1
    <2>4. \A i \in 1 .. Len(h) + 1 :
             ColorsOf(Append(h, m))[i] = Append(ColorsOf(h), m.color)[i]
      BY <1>2, <2>1
    <2>5. Append(ColorsOf(h), m.color) \in Seq(Color)
      BY <1>2, <2>1
    <2>6. ColorsOf(Append(h, m)) \in Seq(Color)
      BY <2>2, <2>3, <2>4, <2>5
    <2> QED
      BY <2>2, <2>3, <2>4, <2>5, <2>6
  <1>4. ASSUME NEW k \in 0 .. Len(h)
        PROVE  ColorsOf(SubSeq(h, 1, k)) = SubSeq(ColorsOf(h), 1, k)
    <2>1. /\ DOMAIN ColorsOf(SubSeq(h, 1, k)) = 1 .. k
          /\ DOMAIN SubSeq(ColorsOf(h), 1, k) = 1 .. k
      BY <1>2
    <2>2. \A i \in 1 .. k : ColorsOf(SubSeq(h, 1, k))[i] = SubSeq(ColorsOf(h), 1, k)[i]
      BY <1>2
    <2>3. SubSeq(ColorsOf(h), 1, k) \in Seq(Color)
      BY <1>2
    <2>4. ColorsOf(SubSeq(h, 1, k)) \in Seq(Color)
      <3>1. \A i \in 1 .. k : ColorsOf(SubSeq(h, 1, k))[i] \in Color
        BY <1>1
      <3>2. ColorsOf(SubSeq(h, 1, k)) \in [1 .. k -> Color] /\ k \in Nat
        BY <2>1, <3>1
      <3> QED
        BY <3>2
    <2> QED
      BY <2>1, <2>2, <2>3, <2>4
  <1> QED
    BY <1>2, <1>3, <1>4

\* What the engine's functions make of the fields of a match.
LEMMA FieldsOfMatches ==
    ASSUME NEW s, NEW t, NEW w, NEW l, NEW moved
    PROVE  LET g == MatchOf(s, t, w, l, moved) IN
           /\ g.status = s /\ g.turn = t /\ g.history = moved
           /\ \A c : M!Placed(g, c) = MatchOf(s, t, w, l, Append(moved, c))
           /\ \A x, y : M!Finished(g, x, y) = MatchOf("FINISHED", None, x, y, moved)
           /\ \A c : M!SkipTurn(g, c) = MatchOf(s, Opponent(c), w, l, moved)
           /\ \A n, next : M!UndoMoves(g, n, next) =
                 MatchOf("PLAYING", next, None, None, SubSeq(moved, 1, Len(moved) - n))
           /\ \A next : [g EXCEPT !.turn = next] = MatchOf(s, next, w, l, moved)
  <1> DEFINE g == MatchOf(s, t, w, l, moved)
  <1>1. g.status = s /\ g.turn = t /\ g.history = moved
    BY DEF MatchOf
  <1>2. ASSUME NEW c PROVE M!Placed(g, c) = MatchOf(s, t, w, l, Append(moved, c))
    BY DEF MatchOf, M!Placed
  <1>3. ASSUME NEW x, NEW y
        PROVE  M!Finished(g, x, y) = MatchOf("FINISHED", None, x, y, moved)
    <2> DEFINE a == MatchOf("FINISHED", t, w, l, moved)
               b == MatchOf("FINISHED", None, w, l, moved)
               d == MatchOf("FINISHED", None, x, l, moved)
    <2>1. a = [g EXCEPT !.status = "FINISHED"]
      BY DEF MatchOf
    <2>2. b = [a EXCEPT !.turn = None]
      BY DEF MatchOf
    <2>3. d = [b EXCEPT !.winner = x]
      BY DEF MatchOf
    <2>4. MatchOf("FINISHED", None, x, y, moved) = [d EXCEPT !.loser = y]
      BY DEF MatchOf
    <2> HIDE DEF g, a, b, d
    <2>5. M!Finished(g, x, y) = [[[[g EXCEPT !.status = "FINISHED"]
                                      EXCEPT !.turn = None] EXCEPT !.winner = x]
                                      EXCEPT !.loser = y]
      BY DEF M!Finished
    <2> QED
      BY <2>1, <2>2, <2>3, <2>4, <2>5
  <1>4. ASSUME NEW c PROVE M!SkipTurn(g, c) = MatchOf(s, Opponent(c), w, l, moved)
    BY DEF MatchOf, M!SkipTurn, M!Opponent, Opponent
  <1>5. ASSUME NEW n, NEW next
        PROVE  M!UndoMoves(g, n, next) =
                 MatchOf("PLAYING", next, None, None, SubSeq(moved, 1, Len(moved) - n))
    <2> DEFINE less == SubSeq(moved, 1, Len(moved) - n)
               a == MatchOf(s, t, w, l, less)
               b == MatchOf(s, next, w, l, less)
               d == MatchOf(s, next, None, l, less)
               e == MatchOf(s, next, None, None, less)
    <2> HIDE DEF less
    <2>1. a = [g EXCEPT !.history = less]
      BY DEF MatchOf
    <2>2. b = [a EXCEPT !.turn = next]
      BY DEF MatchOf
    <2>3. d = [b EXCEPT !.winner = None]
      BY DEF MatchOf
    <2>4. e = [d EXCEPT !.loser = None]
      BY DEF MatchOf
    <2>5. MatchOf("PLAYING", next, None, None, less) = [e EXCEPT !.status = "PLAYING"]
      BY DEF MatchOf
    <2> HIDE DEF g, a, b, d, e
    <2>6. M!UndoMoves(g, n, next) =
             [[[[[g EXCEPT !.history = less] EXCEPT !.turn = next] EXCEPT !.winner = None]
                 EXCEPT !.loser = None] EXCEPT !.status = "PLAYING"]
      BY <1>1 DEF M!UndoMoves, less
    <2> QED
      BY <2>1, <2>2, <2>3, <2>4, <2>5, <2>6 DEF less
  <1>6. ASSUME NEW next
        PROVE  [g EXCEPT !.turn = next] = MatchOf(s, next, w, l, moved)
    BY DEF MatchOf
  <1> QED
    BY <1>1, <1>2, <1>3, <1>4, <1>5, <1>6, Zenon

\* A move of the engine is one that Match accepts, with one of its outcomes.
LEMMA MoveIsMatchMove ==
    ASSUME GomokuInv, NEW c \in Color, NEW p \in Points, MakeMove(c, p)
    PROVE  M!MatchNext
  <1> DEFINE move == [point |-> p, color |-> c]
             moved == Append(ColorsOf(history), c)
             placed == MatchOf(status, turn, winner, loser, moved)
             full == Len(moved) >= Area
  <1>1. /\ history \in Seq(MoveType) /\ move \in MoveType /\ move.color = c
        /\ history' = Append(history, move) /\ Judge(c, p)
        /\ status = "PLAYING" /\ turn = c
    BY DEF MakeMove, MayPlay, GomokuInv, FieldsTyped, MoveType
  <1>2. ColorsOf(history') = moved /\ Len(moved) = Len(history')
    BY <1>1, ColorsOfMoves
  <1>3. M!Placed(MatchNow, c) = placed
    BY FieldsOfMatches DEF MatchNow
  <1>4. placed.history = moved /\ M!Opponent(c) = Opponent(c) /\ c \in M!Color
    BY DEF MatchOf, M!Opponent, Opponent, M!Color, Color
  <1>5. \/ /\ MatchNow' = M!Finished(placed, c, Opponent(c))
           /\ ((Opponent(c) = StartingColor /\ ~full) \/ Wins(board', p, c))
        \/ full /\ MatchNow' = M!Finished(placed, None, None)
        \/ ~full /\ MatchNow' = [placed EXCEPT !.turn = Opponent(c)]
    <2>1. ASSUME NEW x, NEW y, Finish(x, y) PROVE MatchNow' = M!Finished(placed, x, y)
      BY <2>1, <1>2, FieldsOfMatches DEF Finish, MatchNow
    <2>2. CASE Wins(board', p, c)
      BY <2>1, <2>2, <1>1 DEF Judge
    <2>3. CASE ~Wins(board', p, c) /\ full
      BY <2>1, <2>3, <1>1, <1>2 DEF Judge
    <2>4. CASE ~Wins(board', p, c) /\ ~full /\ Finish(c, Opponent(c))
                 /\ Opponent(c) = StartingColor
      BY <2>1, <2>4
    <2>5. CASE /\ ~Wins(board', p, c) /\ ~full
               /\ turn' = Opponent(c) /\ UNCHANGED <<status, winner, loser>>
      BY <2>5, <1>2, FieldsOfMatches DEF MatchNow
    <2> QED
      BY <2>2, <2>3, <2>4, <2>5, <1>1, <1>2 DEF Judge, PassTurn, Stuck
  <1>6. M!MayMove(c)
    BY <1>1 DEF M!MayMove
  <1>7. M!GomokuMove(c)
    BY <1>3, <1>4, <1>5 DEF M!GomokuMove, MatchNow, MatchOf, ColorsOf
  <1> QED
    BY <1>4, <1>6, <1>7 DEF M!MatchNext, M!Move, M!EngineMove

\* An undo is one of Match.
LEMMA UndoIsMatchUndo ==
    ASSUME GomokuInv, NEW n \in {1, 2}, UndoMoves(n)
    PROVE  M!MatchNext
  <1> DEFINE k == Len(history) - n
             next == history[k + 1].color
  <1>1. /\ status = "PLAYING" /\ n <= Len(history)
        /\ history \in Seq(MoveType) /\ Len(history) \in Nat
        /\ k \in 0 .. Len(history) /\ k + 1 \in 1 .. Len(history)
    BY DEF UndoMoves, Undoable, GomokuInv, FieldsTyped
  <1>2. next \in Color
    <2>1. history[k + 1] \in MoveType
      BY <1>1
    <2> QED
      BY <2>1 DEF MoveType
  <1>3. /\ Len(ColorsOf(history)) = Len(history)
        /\ ColorsOf(history') = SubSeq(ColorsOf(history), 1, k)
    BY <1>1, ColorsOfMoves DEF UndoMoves
  <1>4. MatchNow' = M!UndoMoves(MatchNow, n, next)
    <2> DEFINE less == SubSeq(ColorsOf(history), 1, Len(ColorsOf(history)) - n)
    <2>1. M!UndoMoves(MatchNow, n, next) = MatchOf("PLAYING", next, None, None, less)
      <3>1. \A x, y : M!UndoMoves(MatchNow, x, y) =
               MatchOf("PLAYING", y, None, None,
                       SubSeq(ColorsOf(history), 1, Len(ColorsOf(history)) - x))
        BY FieldsOfMatches DEF MatchNow
      <3> QED
        BY <3>1
    <2>2. ColorsOf(history') = less
      BY <1>3
    <2> QED
      BY <2>1, <2>2 DEF UndoMoves, MatchNow
  <1>5. M!Undo
    BY <1>1, <1>2, <1>3, <1>4 DEF M!Undo, MatchNow, MatchOf, ColorsOf, M!Color, Color
  <1> QED
    BY <1>5 DEF M!MatchNext

\* A skipped turn is one of Match.
LEMMA SkipIsMatchSkip ==
    ASSUME GomokuInv, NEW c \in Color, SkipTurn(c)
    PROVE  M!MatchNext
  <1>1. MatchNow' = M!SkipTurn(MatchNow, c)
    BY FieldsOfMatches DEF SkipTurn, MatchNow
  <1>2. M!MayMove(c) /\ c \in M!Color
    BY DEF SkipTurn, M!MayMove, M!Color, Color
  <1>3. M!Skip
    BY <1>1, <1>2 DEF M!Skip, MatchNow, MatchOf, ColorsOf
  <1> QED
    BY <1>3 DEF M!MatchNext

\* A resignation is one of Match.
LEMMA ResignIsMatchResignation ==
    ASSUME GomokuInv, NEW c \in Color, Resign(c)
    PROVE  M!MatchNext
  <1>1. MatchNow' = M!Finished(MatchNow, M!Opponent(c), c)
    BY FieldsOfMatches DEF Resign, Finish, MatchNow, M!Opponent, Opponent
  <1>2. status = "PLAYING" /\ c \in M!Color
    BY DEF Resign, M!Color, Color
  <1>3. M!Resignation
    BY <1>1, <1>2 DEF M!Resignation, MatchNow, MatchOf, ColorsOf
  <1> QED
    BY <1>3 DEF M!MatchNext

\* A reset starts or discards a round of Match.
LEMMA ResetIsMatchReset ==
    ASSUME NEW s \in {"WAITING", "PLAYING"}, Reset(s), s = "PLAYING" => status # "PLAYING"
    PROVE  M!MatchNext
  <1>1. MatchNow' = M!NewGame(s)
    <2>1. ColorsOf(<< >>) = << >>
      BY DEF ColorsOf
    <2> QED
      BY <2>1 DEF Reset, MatchNow, MatchOf, M!NewGame
  <1>2. CASE s = "PLAYING"
    <2>1. M!Start
      BY <1>1, <1>2 DEF M!Start, MatchNow, MatchOf, ColorsOf
    <2> QED
      BY <2>1 DEF M!MatchNext
  <1>3. CASE s = "WAITING"
    <2>1. M!Discard
      BY <1>1, <1>3 DEF M!Discard, MatchNow, MatchOf, ColorsOf
    <2> QED
      BY <2>1 DEF M!MatchNext
  <1> QED
    BY <1>2, <1>3

\* The engine with a board, of any size and under any rule, is the Match that
\* the room and its proofs assume: every step is one that Match accepts, with an
\* outcome it allows, or leaves the match as it is.
THEOREM GomokuIsAMatch == GomokuSpec => ImplementsMatch
  <1>1. ASSUME GomokuInit PROVE M!MatchInit
    <2>1. ColorsOf(<< >>) = << >>
      BY DEF ColorsOf
    <2> QED
      BY <1>1, <2>1 DEF GomokuInit, M!MatchInit, M!NewGame, ColorsOf
  <1>2. ASSUME GomokuInv, [GomokuNext]_gomokuVars PROVE [M!MatchNext]_MatchNow
    <2>1. CASE UNCHANGED gomokuVars
      BY <2>1 DEF gomokuVars, MatchNow
    <2>2. ASSUME NEW c \in Color, SkipTurn(c) PROVE M!MatchNext
      BY <1>2, <2>2, SkipIsMatchSkip
    <2>3. ASSUME NEW c \in Color, Resign(c) PROVE M!MatchNext
      BY <1>2, <2>3, ResignIsMatchResignation
    <2>4. ASSUME NEW c \in Color, NEW p \in Points, MakeMove(c, p) PROVE M!MatchNext
      BY <1>2, <2>4, MoveIsMatchMove
    <2>5. ASSUME NEW n \in {1, 2}, UndoMoves(n) PROVE M!MatchNext
      BY <1>2, <2>5, UndoIsMatchUndo
    <2>6. ASSUME (status # "PLAYING" /\ Reset("PLAYING")) \/ Reset("WAITING")
          PROVE  M!MatchNext
      BY <2>6, ResetIsMatchReset
    <2> QED
      BY <1>2, <2>1, <2>2, <2>3, <2>4, <2>5, <2>6 DEF GomokuNext
  <1> QED
    BY <1>1, <1>2, GomokuInvariant, PTL
       DEF GomokuSpec, ImplementsMatch, M!MatchSpec, MatchNow, MatchOf, ColorsOf
=============================================================================
