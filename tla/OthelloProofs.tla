---------------------------- MODULE OthelloProofs ---------------------------
(***************************************************************************)
(* The Othello engine on a board of any even size.  That the engine always  *)
(* knows whether its board is full, and that whoever has the turn can use   *)
(* it, rests on one fact about a move: it fills one point and empties none. *)
(***************************************************************************)
EXTENDS OthelloGame, FiniteSetTheorems, TLAPS

FieldsTyped ==
    /\ board \in [Points -> Color \cup {None}]
    /\ turn \in Color \cup {None}
    /\ status \in {"WAITING", "PLAYING", "FINISHED"}
    /\ winner \in Color \cup {None} /\ loser \in Color \cup {None}
    /\ movers \in Seq(Color)

\* Both counts of the engine, of discs and of moves, are those of the board.
CountsAgree ==
    /\ moveCount = Cardinality(Points) - Cardinality(EmptyPoints(board))
    /\ moveCount = Len(movers) + 4

NoResultYet == status # "FINISHED" => turn \in Color /\ winner = None /\ loser = None

OthelloInv == FieldsTyped /\ CountsAgree /\ NoResultYet /\ TurnCanMove

-----------------------------------------------------------------------------
(* The board *)

\* The two colours are each other's opponent, and none of them is None.
LEMMA Colors ==
    ASSUME NEW c \in Color
    PROVE  /\ Opponent(c) \in Color /\ Opponent(c) # c /\ c # None
           /\ \A d \in Color : d = c \/ d = Opponent(c)
  BY OthelloAssumption DEF Color, Opponent

\* The board has Size * Size points.
LEMMA PointsFinite ==
    /\ IsFiniteSet(Points) /\ Cardinality(Points) = Size * Size
    /\ Size * Size \in Nat
  <1>1. 0 \in Int /\ Size - 1 \in Int /\ Size \in Nat /\ Size > 0
    BY OthelloAssumption
  <1>2. IsFiniteSet(0 .. Size - 1) /\ Cardinality(0 .. Size - 1) = Size
    BY <1>1, FS_Interval
  <1>3. /\ IsFiniteSet((0 .. Size - 1) \X (0 .. Size - 1))
        /\ Cardinality((0 .. Size - 1) \X (0 .. Size - 1)) = Size * Size
    BY <1>2, FS_Product
  <1>4. Size * Size \in Nat
    BY <1>1
  <1> QED
    BY <1>3, <1>4 DEF Points, PointsOf

\* The free points of a board are as finite as the board.
LEMMA EmptyPointsFinite ==
    ASSUME NEW b \in [Points -> Color \cup {None}]
    PROVE  /\ EmptyPoints(b) \subseteq Points /\ IsFiniteSet(EmptyPoints(b))
           /\ Cardinality(EmptyPoints(b)) \in Nat
           /\ Cardinality(EmptyPoints(b)) = 0 => EmptyPoints(b) = {}
  <1>1. EmptyPoints(b) \subseteq Points
    BY DEF EmptyPoints
  <1>2. IsFiniteSet(EmptyPoints(b))
    BY <1>1, PointsFinite, FS_Subset
  <1> QED
    BY <1>1, <1>2, FS_CardinalityType, FS_EmptySet

\* The steps from p in direction d that stay on the board.
StepsOnBoard(p, d) == {k \in 1 .. Size : Along(p, d, k) \in Points}

RayFrom(p, d) == [k \in 1 .. Cardinality(StepsOnBoard(p, d)) |-> Along(p, d, k)]

\* A ray reaches finitely many points.
LEMMA StepsFinite ==
    ASSUME NEW p, NEW d
    PROVE  /\ IsFiniteSet(StepsOnBoard(p, d))
           /\ Cardinality(StepsOnBoard(p, d)) \in Nat
  <1>1. 1 \in Int /\ Size \in Int
    BY OthelloAssumption
  <1>2. IsFiniteSet(1 .. Size)
    BY <1>1, FS_Interval
  <1>3. StepsOnBoard(p, d) \in SUBSET (1 .. Size)
    BY DEF StepsOnBoard
  <1>4. IsFiniteSet(StepsOnBoard(p, d))
    BY <1>2, <1>3, FS_Subset
  <1> QED
    BY <1>4, FS_CardinalityType

\* A ray is a sequence of points of the board.
LEMMA RaysAreSequences ==
    ASSUME NEW p \in Points
    PROVE  /\ Rays[p] = {RayFrom(p, d) : d \in Directions}
           /\ \A d \in Directions :
                 /\ RayFrom(p, d) \in Seq({Along(p, d, k) : k \in Nat})
                 /\ Len(RayFrom(p, d)) = Cardinality(StepsOnBoard(p, d))
                 /\ DOMAIN RayFrom(p, d) = 1 .. Cardinality(StepsOnBoard(p, d))
  <1>1. Rays[p] = {RayFrom(p, d) : d \in Directions}
    BY DEF Rays, RayFrom, StepsOnBoard
  <1>2. ASSUME NEW d \in Directions
        PROVE  /\ RayFrom(p, d) \in Seq({Along(p, d, k) : k \in Nat})
               /\ Len(RayFrom(p, d)) = Cardinality(StepsOnBoard(p, d))
               /\ DOMAIN RayFrom(p, d) = 1 .. Cardinality(StepsOnBoard(p, d))
    <2> DEFINE n == Cardinality(StepsOnBoard(p, d))
               S == {Along(p, d, k) : k \in Nat}
    <2>1. n \in Nat
      BY StepsFinite
    <2>2. RayFrom(p, d) = [k \in 1 .. n |-> Along(p, d, k)]
      BY DEF RayFrom
    <2> HIDE DEF n
    <2>3. \A k \in 1 .. n : Along(p, d, k) \in S
      BY <2>1
    <2> HIDE DEF S
    <2>4. RayFrom(p, d) \in [1 .. n -> S]
      BY <2>2, <2>3
    <2>5. RayFrom(p, d) \in Seq(S) /\ Len(RayFrom(p, d)) = n /\ DOMAIN RayFrom(p, d) = 1 .. n
      BY <2>1, <2>4
    <2> QED
      BY <2>5 DEF n, S
  <1> QED
    BY <1>1, <1>2

\* Only opposing discs are turned: no point is emptied, and none is filled.
LEMMA FlipsAreOpposing ==
    ASSUME NEW b \in [Points -> Color \cup {None}], NEW c \in Color, NEW p \in Points,
           NEW q \in Flips(b, c, p)
    PROVE  b[q] = Opponent(c)
  <1>1. b[p] = None
    BY DEF Flips
  <1>1a. q \in UNION {{ray[j] : j \in {j \in DOMAIN ray :
                    \E k \in j + 1 .. Len(ray) : Encloses(b, c, ray, k)}} : ray \in Rays[p]}
    BY <1>1 DEF Flips
  <1>1b. PICK ray \in Rays[p] :
            \E j \in DOMAIN ray : /\ q = ray[j]
                                  /\ \E k \in j + 1 .. Len(ray) : Encloses(b, c, ray, k)
    BY <1>1a
  <1>1c. PICK j \in DOMAIN ray : /\ q = ray[j]
                                 /\ \E k \in j + 1 .. Len(ray) : Encloses(b, c, ray, k)
    BY <1>1b
  <1>1d. PICK k \in j + 1 .. Len(ray) : Encloses(b, c, ray, k)
    BY <1>1c
  <1>2. PICK d \in Directions : ray = RayFrom(p, d)
    BY <1>1, RaysAreSequences
  <1>3. j \in 1 .. Cardinality(StepsOnBoard(p, d)) /\ Len(ray) = Cardinality(StepsOnBoard(p, d))
    BY <1>2, RaysAreSequences
  <1>4. Cardinality(StepsOnBoard(p, d)) \in Nat
    BY StepsFinite
  <1>5. j \in 1 .. k - 1
    BY <1>3, <1>4
  <1> QED
    BY <1>1c, <1>1d, <1>5 DEF Encloses

\* A move fills its point and leaves every other point filled or free.
LEMMA MoveFillsOnePoint ==
    ASSUME NEW b \in [Points -> Color \cup {None}], NEW c \in Color, NEW p \in Points,
           Flips(b, c, p) # {}
    PROVE  /\ Placed(b, c, p) \in [Points -> Color \cup {None}]
           /\ p \in EmptyPoints(b)
           /\ EmptyPoints(Placed(b, c, p)) = EmptyPoints(b) \ {p}
           /\ Cardinality(EmptyPoints(Placed(b, c, p))) = Cardinality(EmptyPoints(b)) - 1
  <1>1. p \in EmptyPoints(b)
    BY DEF Flips, EmptyPoints
  <1>2. Placed(b, c, p) \in [Points -> Color \cup {None}]
    BY DEF Placed
  <1>3. \A q \in Flips(b, c, p) : b[q] # None
    BY FlipsAreOpposing, Colors
  <1>4. EmptyPoints(Placed(b, c, p)) = EmptyPoints(b) \ {p}
    <2>1. \A q \in Points : Placed(b, c, p)[q] =
             IF q = p \/ q \in Flips(b, c, p) THEN c ELSE b[q]
      BY DEF Placed
    <2>2. \A q \in Points : Placed(b, c, p)[q] = None <=> b[q] = None /\ q # p
      BY <1>3, <2>1, Colors
    <2>3. DOMAIN Placed(b, c, p) = Points /\ DOMAIN b = Points
      BY <1>2
    <2> QED
      BY <2>2, <2>3 DEF EmptyPoints
  <1>5. Cardinality(EmptyPoints(b) \ {p}) = Cardinality(EmptyPoints(b)) - 1
    BY <1>1, EmptyPointsFinite, FS_RemoveElement
  <1> QED
    BY <1>1, <1>2, <1>4, <1>5

-----------------------------------------------------------------------------
(* The opening *)

Middle == Size \div 2

\* The board is twice as wide as its middle is far.
LEMMA MiddleFacts == Middle \in Nat /\ Middle >= 2 /\ Size = 2 * Middle
  BY OthelloAssumption DEF Middle

\* The opening is a board.
LEMMA InitialBoardType == InitialBoard \in [Points -> Color \cup {None}]
  BY DEF InitialBoard, Color

\* Four discs, as the count of the engine says.
LEMMA FourInitialDiscs == Cardinality(EmptyPoints(InitialBoard)) = Cardinality(Points) - 4
  <1> DEFINE m == Middle
             a == <<m - 1, m - 1>>
             b == <<m, m>>
             c == <<m, m - 1>>
             d == <<m - 1, m>>
  <1>1. a \in Points /\ b \in Points /\ c \in Points /\ d \in Points
    BY MiddleFacts DEF Points, PointsOf
  <1>2. a # b /\ a # c /\ a # d /\ b # c /\ b # d /\ c # d
    BY MiddleFacts
  <1>3. InitialBoard = [p \in Points |-> IF p \in {a, b} THEN "WHITE"
                                         ELSE IF p \in {c, d} THEN "BLACK" ELSE None]
    BY DEF InitialBoard, Middle
  <1> HIDE DEF a, b, c, d
  <1>4. EmptyPoints(InitialBoard) = (((Points \ {a}) \ {b}) \ {c}) \ {d}
    BY <1>3, OthelloAssumption DEF EmptyPoints, Color
  <1>5. /\ IsFiniteSet(Points \ {a}) /\ Cardinality(Points \ {a}) = Cardinality(Points) - 1
    BY <1>1, PointsFinite, FS_RemoveElement
  <1>6. /\ IsFiniteSet((Points \ {a}) \ {b})
        /\ Cardinality((Points \ {a}) \ {b}) = Cardinality(Points \ {a}) - 1
    BY <1>1, <1>2, <1>5, FS_RemoveElement
  <1>7. /\ IsFiniteSet(((Points \ {a}) \ {b}) \ {c})
        /\ Cardinality(((Points \ {a}) \ {b}) \ {c}) = Cardinality((Points \ {a}) \ {b}) - 1
    BY <1>1, <1>2, <1>6, FS_RemoveElement
  <1>8. Cardinality((((Points \ {a}) \ {b}) \ {c}) \ {d})
          = Cardinality(((Points \ {a}) \ {b}) \ {c}) - 1
    BY <1>1, <1>2, <1>7, FS_RemoveElement
  <1>9. Cardinality(Points) \in Nat
    BY PointsFinite
  <1> QED
    BY <1>4, <1>5, <1>6, <1>7, <1>8, <1>9

\* The opening colour can move: on its left of the middle it encloses a disc.
LEMMA OpeningMoveExists == LegalMoves(InitialBoard, StartingColor) # {}
  <1> DEFINE m == Middle
             p == <<m - 2, m - 1>>
             d == <<1, 0>>
             ray == RayFrom(p, d)
  <1>1. m \in Nat /\ m >= 2 /\ Size = 2 * m
    BY MiddleFacts
  <1>2. p \in Points /\ <<m - 1, m - 1>> \in Points /\ <<m, m - 1>> \in Points
    BY <1>1 DEF Points, PointsOf
  <1>3. Along(p, d, 1) = <<m - 1, m - 1>> /\ Along(p, d, 2) = <<m, m - 1>>
    BY <1>1 DEF Along
  <1>4. /\ InitialBoard[p] = None
        /\ InitialBoard[<<m - 1, m - 1>>] = "WHITE" /\ InitialBoard[<<m, m - 1>>] = "BLACK"
    BY <1>1, <1>2 DEF InitialBoard, Middle
  <1>5. d \in Directions
    BY DEF Directions
  <1> HIDE DEF p, d
  <1>6. Cardinality(StepsOnBoard(p, d)) \in Nat /\ Cardinality(StepsOnBoard(p, d)) >= 2
    <2>1. 1 \in 1 .. Size /\ 2 \in 1 .. Size
      BY <1>1
    <2>2. 1 .. 2 \in SUBSET StepsOnBoard(p, d)
      BY <1>2, <1>3, <2>1 DEF StepsOnBoard
    <2>3. Cardinality(1 .. 2) <= Cardinality(StepsOnBoard(p, d))
      BY <2>2, StepsFinite, FS_Subset
    <2>4. Cardinality(1 .. 2) = 2
      <3> DEFINE low == 1
                 high == 2
      <3>1. low \in Int /\ high \in Int /\ ~(low > high) /\ high - low + 1 = 2
        OBVIOUS
      <3> HIDE DEF low, high
      <3>2. Cardinality(low .. high) = 2
        BY <3>1, FS_Interval
      <3> QED
        BY <3>2 DEF low, high
    <2> QED
      BY <2>3, <2>4, StepsFinite
  <1>7. /\ ray \in Rays[p] /\ 1 \in DOMAIN ray /\ 2 \in 2 .. Len(ray)
        /\ ray[1] = <<m - 1, m - 1>> /\ ray[2] = <<m, m - 1>>
    BY <1>2, <1>3, <1>5, <1>6, RaysAreSequences DEF RayFrom
  <1> HIDE DEF ray
  <1>8. Encloses(InitialBoard, StartingColor, ray, 2)
    <2>1. \A j \in 1 .. 2 - 1 : j = 1
      OBVIOUS
    <2> QED
      BY <1>4, <1>7, <2>1 DEF Encloses, StartingColor, Opponent
  <1>9. ray[1] \in Flips(InitialBoard, StartingColor, p)
    BY <1>4, <1>7, <1>8 DEF Flips
  <1>10. p \in EmptyPoints(InitialBoard)
    BY <1>2, <1>4, InitialBoardType DEF EmptyPoints
  <1> QED
    BY <1>9, <1>10 DEF LegalMoves

-----------------------------------------------------------------------------
(* Every call keeps the invariant *)

\* The moves played so far never outgrow the board.
LEMMA CountFits ==
    ASSUME OthelloInv
    PROVE  /\ moveCount \in 4 .. Size * Size
           /\ moveCount = Size * Size => EmptyPoints(board) = {}
           /\ Len(movers) \in Nat /\ Size * Size \in Nat
  <1>1. /\ Cardinality(EmptyPoints(board)) \in Nat
        /\ Cardinality(EmptyPoints(board)) = 0 => EmptyPoints(board) = {}
    BY EmptyPointsFinite DEF OthelloInv, FieldsTyped
  <1>2. Len(movers) \in Nat
    BY DEF OthelloInv, FieldsTyped
  <1>3. Cardinality(Points) = Size * Size /\ Size * Size \in Nat
    BY PointsFinite
  <1>4. /\ moveCount = Cardinality(Points) - Cardinality(EmptyPoints(board))
        /\ moveCount = Len(movers) + 4
    BY DEF OthelloInv, CountsAgree
  <1> DEFINE free == Cardinality(EmptyPoints(board))
             area == Size * Size
  <1> HIDE DEF free, area
  <1>5. /\ free \in Nat /\ (free = 0 => EmptyPoints(board) = {})
        /\ area \in Nat /\ moveCount = area - free
    BY <1>1, <1>3, <1>4 DEF free, area
  <1>6. moveCount \in 4 .. area /\ (moveCount = area => EmptyPoints(board) = {})
    BY <1>2, <1>4, <1>5
  <1> QED
    BY <1>2, <1>3, <1>6 DEF area

\* The discs decide a finished game: one colour has more, or nobody wins.
LEMMA FinishOutcome ==
    ASSUME Finish, board' \in [Points -> Color \cup {None}]
    PROVE  /\ status' = "FINISHED" /\ turn' = None
           /\ \/ winner' = None /\ loser' = None
              \/ \E w \in Color : winner' = w /\ loser' = Opponent(w)
           /\ \A c \in Color : winner' = c <=> Score(board', c) > Score(board', Opponent(c))
  <1>1. \A c \in Color : Score(board', c) \in Nat
    <2>1. \A c \in Color : StonesOf(board', c) \in SUBSET Points
      BY DEF StonesOf
    <2>2. \A c \in Color : IsFiniteSet(StonesOf(board', c))
      BY <2>1, PointsFinite, FS_Subset
    <2> QED
      BY <2>2, FS_CardinalityType DEF Score
  <1>2. Opponent("BLACK") = "WHITE" /\ Opponent("WHITE") = "BLACK" /\ Color = {"WHITE", "BLACK"}
    BY DEF Opponent, Color
  <1>3. \A c \in Color : c # None
    BY OthelloAssumption
  <1>4. CASE /\ Score(board', "BLACK") = Score(board', "WHITE")
             /\ winner' = None /\ loser' = None
    <2>1. \A c \in Color : ~(Score(board', c) > Score(board', Opponent(c)))
      BY <1>1, <1>2, <1>4
    <2> QED
      BY <1>3, <1>4, <2>1 DEF Finish
  <1>5. ASSUME NEW w \in Color, Score(board', w) > Score(board', Opponent(w)),
               winner' = w, loser' = Opponent(w)
        PROVE  \A c \in Color : winner' = c <=> Score(board', c) > Score(board', Opponent(c))
    BY <1>1, <1>2, <1>5
  <1> QED
    BY <1>4, <1>5 DEF Finish

\* What a move leaves: a finished game that nobody could go on with, or the turn
\* with a colour that can use it - the same one only if the other has to pass.
LEMMA MoveOutcome ==
    ASSUME OthelloInv, NEW c \in Color, NEW p \in Points, MakeMove(c, p)
    PROVE  /\ status = "PLAYING" /\ turn = c
           /\ board' \in [Points -> Color \cup {None}]
           /\ CountsAgree' /\ movers' = Append(movers, c) /\ movers' \in Seq(Color)
           /\ \/ /\ Finish
                 /\ \A d \in Color : LegalMoves(board', d) = {}
              \/ /\ moveCount' < Size * Size
                 /\ turn' \in Color /\ LegalMoves(board', turn') # {}
                 /\ turn' = turn <=> LegalMoves(board', Opponent(turn)) = {}
                 /\ UNCHANGED <<status, winner, loser>>
  <1>1. /\ status = "PLAYING" /\ turn = c /\ Flips(board, c, p) # {}
        /\ board' = Placed(board, c, p) /\ moveCount' = moveCount + 1
        /\ movers' = Append(movers, c)
        /\ IF moveCount' = Size * Size THEN Finish ELSE NextTurn(c)
    BY DEF MakeMove
  <1>2. board \in [Points -> Color \cup {None}] /\ movers \in Seq(Color)
    BY DEF OthelloInv, FieldsTyped
  <1>3. /\ board' \in [Points -> Color \cup {None}]
        /\ Cardinality(EmptyPoints(board')) = Cardinality(EmptyPoints(board)) - 1
    BY <1>1, <1>2, MoveFillsOnePoint
  <1>4. movers' \in Seq(Color) /\ Len(movers') = Len(movers) + 1
    BY <1>1, <1>2
  <1>5. /\ moveCount = Cardinality(Points) - Cardinality(EmptyPoints(board))
        /\ moveCount = Len(movers) + 4
        /\ Cardinality(Points) \in Nat /\ Cardinality(EmptyPoints(board)) \in Nat
        /\ Len(movers) \in Nat
    BY <1>2, PointsFinite, EmptyPointsFinite DEF OthelloInv, CountsAgree
  <1>6. /\ moveCount' = Cardinality(Points) - Cardinality(EmptyPoints(board'))
        /\ moveCount' = Len(movers') + 4
    BY <1>1, <1>3, <1>4, <1>5
  <1>7. CountsAgree'
    BY <1>6 DEF CountsAgree, Points
  <1>8. CASE moveCount' = Size * Size
    <2>1. Cardinality(EmptyPoints(board')) = 0
      BY <1>3, <1>5, <1>6, <1>8, PointsFinite, EmptyPointsFinite
    <2>2. EmptyPoints(board') = {}
      BY <1>3, <2>1, EmptyPointsFinite
    <2>3. \A d \in Color : LegalMoves(board', d) = {}
      BY <2>2 DEF LegalMoves
    <2> QED
      BY <1>1, <1>3, <1>4, <1>7, <1>8, <2>3
  <1>9. CASE moveCount' # Size * Size
    <2>1. Opponent(c) \in Color /\ Opponent(c) # c /\ \A d \in Color : d = c \/ d = Opponent(c)
      BY Colors
    <2>2. \/ /\ Finish
             /\ \A d \in Color : LegalMoves(board', d) = {}
          \/ /\ turn' \in Color /\ LegalMoves(board', turn') # {}
             /\ turn' = turn <=> LegalMoves(board', Opponent(turn)) = {}
             /\ UNCHANGED <<status, winner, loser>>
      BY <1>1, <1>9, <2>1 DEF NextTurn
    <2>3. moveCount' < Size * Size
      <3>1. Cardinality(EmptyPoints(board')) \in Nat /\ Cardinality(Points) = Size * Size
        BY <1>3, EmptyPointsFinite, PointsFinite
      <3> QED
        BY <1>5, <1>6, <1>9, <3>1
    <2> QED
      BY <1>1, <1>3, <1>4, <1>7, <2>2, <2>3
  <1> QED
    BY <1>8, <1>9

\* The opening has four discs and no mover, and whoever opens it has a move.
LEMMA ResetKeepsInv ==
    ASSUME NEW s \in {"WAITING", "PLAYING"}, Reset(s)
    PROVE  OthelloInv'
  <1>1. /\ board' = InitialBoard /\ moveCount' = 4 /\ turn' = StartingColor
        /\ status' = s /\ winner' = None /\ loser' = None /\ movers' = << >>
    BY DEF Reset
  <1>2. FieldsTyped'
    BY <1>1, InitialBoardType DEF FieldsTyped, StartingColor, Color, Points
  <1>3. CountsAgree'
    BY <1>1, FourInitialDiscs, PointsFinite DEF CountsAgree, Points
  <1>4. NoResultYet' /\ TurnCanMove'
    BY <1>1, OpeningMoveExists DEF NoResultYet, TurnCanMove, StartingColor, Color
  <1> QED
    BY <1>2, <1>3, <1>4 DEF OthelloInv

\* So the invariant holds at first.
LEMMA InitHasInv == OthelloInit => OthelloInv
  <1> SUFFICES ASSUME OthelloInit PROVE OthelloInv
    OBVIOUS
  <1>1. FieldsTyped
    BY InitialBoardType DEF OthelloInit, FieldsTyped, StartingColor, Color
  <1>2. CountsAgree
    BY FourInitialDiscs, PointsFinite DEF OthelloInit, CountsAgree
  <1>3. NoResultYet /\ TurnCanMove
    BY OpeningMoveExists DEF OthelloInit, NoResultYet, TurnCanMove, StartingColor, Color
  <1> QED
    BY <1>1, <1>2, <1>3 DEF OthelloInv

\* A move adds a disc and a mover, and gives the turn to a colour that can move.
LEMMA MoveKeepsInv ==
    ASSUME OthelloInv, NEW c \in Color, NEW p \in Points, MakeMove(c, p)
    PROVE  OthelloInv'
  <1>1. /\ status = "PLAYING" /\ board' \in [Points -> Color \cup {None}]
        /\ CountsAgree' /\ movers' \in Seq(Color)
    BY MoveOutcome
  <1>2. /\ status \in {"WAITING", "PLAYING", "FINISHED"}
        /\ winner \in Color \cup {None} /\ loser \in Color \cup {None}
        /\ winner = None /\ loser = None
    BY <1>1 DEF OthelloInv, FieldsTyped, NoResultYet
  <1>3. CASE Finish
    <2>1. /\ status' = "FINISHED" /\ turn' = None
          /\ winner' \in Color \cup {None} /\ loser' \in Color \cup {None}
      BY <1>1, <1>3, FinishOutcome, Colors
    <2> QED
      BY <1>1, <2>1 DEF OthelloInv, FieldsTyped, NoResultYet, TurnCanMove, Points
  <1>4. CASE /\ turn' \in Color /\ LegalMoves(board', turn') # {}
             /\ UNCHANGED <<status, winner, loser>>
    <2>1. FieldsTyped'
      BY <1>1, <1>2, <1>4 DEF FieldsTyped, Points
    <2>2. NoResultYet' /\ TurnCanMove'
      BY <1>2, <1>4 DEF NoResultYet, TurnCanMove
    <2> QED
      BY <1>1, <2>1, <2>2 DEF OthelloInv
  <1> QED
    BY <1>3, <1>4, MoveOutcome

\* A resignation ends the game and leaves the board alone.
LEMMA ResignKeepsInv ==
    ASSUME OthelloInv, NEW c \in Color, Resign(c)
    PROVE  OthelloInv'
  <1>1. /\ status' = "FINISHED" /\ turn' = None /\ winner' \in Color /\ loser' \in Color
        /\ UNCHANGED <<board, moveCount, movers>>
    BY Colors DEF Resign
  <1> QED
    BY <1>1 DEF OthelloInv, FieldsTyped, CountsAgree, NoResultYet, TurnCanMove, Points

\* Through any number of moves, passes and games, the board, the counts and the
\* turn stay in step (OthelloGame in app/othello.py).
THEOREM OthelloInvariant == OthelloSpec => []OthelloInv
  <1>1. ASSUME OthelloInv, [OthelloNext]_othelloVars PROVE OthelloInv'
    <2>1. CASE UNCHANGED othelloVars
      BY <1>1, <2>1 DEF othelloVars, OthelloInv, FieldsTyped, CountsAgree, NoResultYet,
                        TurnCanMove, Points
    <2>2. ASSUME NEW c \in Color, NEW p \in Points, MakeMove(c, p) PROVE OthelloInv'
      BY <1>1, <2>2, MoveKeepsInv
    <2>3. ASSUME NEW c \in Color, Resign(c) PROVE OthelloInv'
      BY <1>1, <2>3, ResignKeepsInv
    <2>4. ASSUME Reset("PLAYING") \/ Reset("WAITING") PROVE OthelloInv'
      BY <2>4, ResetKeepsInv
    <2> QED
      BY <1>1, <2>1, <2>2, <2>3, <2>4 DEF OthelloNext
  <1> QED
    BY <1>1, InitHasInv, PTL DEF OthelloSpec

\* The move count is the number of discs on the board, so a full board is told
\* when it is full and never before, over any number of games (make_move, reset).
THEOREM MoveCountIsDiscCount == OthelloSpec => []CountMatchesBoard
  <1>1. OthelloInv => CountMatchesBoard
    <2> SUFFICES ASSUME OthelloInv PROVE CountMatchesBoard
      OBVIOUS
    <2>1. moveCount \in 4 .. Size * Size
      BY CountFits
    <2> QED
      BY <2>1 DEF OthelloInv, FieldsTyped, CountsAgree, CountMatchesBoard, OthelloTypeOK
  <1> QED
    BY <1>1, OthelloInvariant, PTL

\* Whoever has the turn has a legal move, so the room always finds one to play
\* when the turn expires (make_move's pass rule; app/room.py handle_turn_timeout).
THEOREM TurnAlwaysPlayable == OthelloSpec => []TurnCanMove
  BY OthelloInvariant, PTL DEF OthelloInv

\* A move ends the game only when no colour can go on, the greater number of
\* discs then wins, and a colour moves twice only when the other must pass.
THEOREM PassesAndEndsOnlyForced == OthelloSpec => PassesAndEndsOnlyWhenForced
  <1> DEFINE Shape ==
        movers' # movers /\ movers' # << >> =>
           IF status' = "FINISHED"
           THEN /\ \A c \in Color : LegalMoves(board', c) = {}
                /\ \A c \in Color : winner' = c <=> Score(board', c) > Score(board', Opponent(c))
           ELSE turn' = turn <=> LegalMoves(board', Opponent(turn)) = {}
  <1>1. ASSUME OthelloInv, [OthelloNext]_othelloVars PROVE Shape
    <2>1. CASE UNCHANGED othelloVars
      BY <2>1 DEF othelloVars
    <2>2. ASSUME NEW c \in Color, NEW p \in Points, MakeMove(c, p) PROVE Shape
      <3>1. CASE Finish /\ \A d \in Color : LegalMoves(board', d) = {}
        BY <1>1, <2>2, <3>1, MoveOutcome, FinishOutcome
      <3>2. CASE /\ turn' = turn <=> LegalMoves(board', Opponent(turn)) = {}
                 /\ UNCHANGED <<status, winner, loser>>
        <4>1. status' = "PLAYING"
          BY <1>1, <2>2, <3>2, MoveOutcome
        <4> QED
          BY <3>2, <4>1
      <3> QED
        BY <1>1, <2>2, <3>1, <3>2, MoveOutcome
    <2>3. ASSUME NEW c \in Color, Resign(c) PROVE Shape
      BY <2>3 DEF Resign
    <2>4. ASSUME Reset("PLAYING") \/ Reset("WAITING") PROVE Shape
      BY <2>4 DEF Reset
    <2> QED
      BY <1>1, <2>1, <2>2, <2>3, <2>4 DEF OthelloNext
  <1> HIDE DEF Shape
  <1>2. OthelloInv /\ [OthelloNext]_othelloVars => [Shape]_othelloVars
    BY <1>1
  <1>3. OthelloSpec => [][Shape]_othelloVars
    BY <1>2, OthelloInvariant, PTL DEF OthelloSpec
  <1> QED
    BY <1>3 DEF PassesAndEndsOnlyWhenForced, Shape

-----------------------------------------------------------------------------
(* The engine is a Match *)

\* A match with these fields, and the one that the engine stands for.
MatchOf(s, t, w, l, moved) ==
    [status |-> s, turn |-> t, winner |-> w, loser |-> l, history |-> moved]

MatchNow == MatchOf(status, turn, winner, loser, movers)

\* What the engine's functions make of the fields of a match.
LEMMA FieldsOfMatches ==
    ASSUME NEW s, NEW t, NEW w, NEW l, NEW moved
    PROVE  LET g == MatchOf(s, t, w, l, moved) IN
           /\ g.status = s /\ g.turn = t /\ g.history = moved
           /\ \A c : M!Placed(g, c) = MatchOf(s, t, w, l, Append(moved, c))
           /\ \A x, y : M!Finished(g, x, y) = MatchOf("FINISHED", None, x, y, moved)
           /\ \A next : [g EXCEPT !.turn = next] = MatchOf(s, next, w, l, moved)
  <1> DEFINE g == MatchOf(s, t, w, l, moved)
  <1>1. g.status = s /\ g.turn = t /\ g.history = moved
    BY DEF MatchOf
  <1>2. ASSUME NEW c PROVE M!Placed(g, c) = MatchOf(s, t, w, l, Append(moved, c))
    BY DEF MatchOf, M!Placed
  <1>3. ASSUME NEW x, NEW y
        PROVE  M!Finished(g, x, y) = MatchOf("FINISHED", None, x, y, moved)
    <2> DEFINE a == MatchOf("FINISHED", t, w, l, moved)
               b == MatchOf("FINISHED", None, w, l, moved)
               d == MatchOf("FINISHED", None, x, l, moved)
    <2>1. a = [g EXCEPT !.status = "FINISHED"]
      BY DEF MatchOf
    <2>2. b = [a EXCEPT !.turn = None]
      BY DEF MatchOf
    <2>3. d = [b EXCEPT !.winner = x]
      BY DEF MatchOf
    <2>4. MatchOf("FINISHED", None, x, y, moved) = [d EXCEPT !.loser = y]
      BY DEF MatchOf
    <2> HIDE DEF g, a, b, d
    <2>5. M!Finished(g, x, y) = [[[[g EXCEPT !.status = "FINISHED"]
                                      EXCEPT !.turn = None] EXCEPT !.winner = x]
                                      EXCEPT !.loser = y]
      BY DEF M!Finished
    <2> QED
      BY <2>1, <2>2, <2>3, <2>4, <2>5
  <1>4. ASSUME NEW next
        PROVE  [g EXCEPT !.turn = next] = MatchOf(s, next, w, l, moved)
    BY DEF MatchOf
  <1> QED
    BY <1>1, <1>2, <1>3, <1>4, Zenon

\* A move of the engine is one that Match accepts, with one of its outcomes.
LEMMA MoveIsMatchMove ==
    ASSUME OthelloInv, NEW c \in Color, NEW p \in Points, MakeMove(c, p)
    PROVE  M!MatchNext
  <1> DEFINE moved == Append(movers, c)
             placed == MatchOf(status, turn, winner, loser, moved)
             full == Len(moved) >= Size * Size - 4
  <1>1. status = "PLAYING" /\ turn = c /\ movers' = moved
    BY MoveOutcome
  <1>2. M!Placed(MatchNow, c) = placed
    BY FieldsOfMatches DEF MatchNow
  <1>3. /\ placed.history = moved /\ M!Opponent(c) = Opponent(c) /\ M!Color = Color
        /\ \A w : M!Opponent(w) = Opponent(w)
    BY DEF MatchOf, M!Opponent, Opponent, M!Color, Color
  <1>4. \/ MatchNow' = M!Finished(placed, None, None)
        \/ \E w \in Color : MatchNow' = M!Finished(placed, w, Opponent(w))
        \/ \E next \in Color : ~full /\ MatchNow' = [placed EXCEPT !.turn = next]
    <2>1. CASE Finish
      <3>1. board' \in [Points -> Color \cup {None}]
        BY MoveOutcome
      <3>2. ASSUME NEW w, NEW l, status' = "FINISHED", turn' = None, winner' = w, loser' = l
            PROVE  MatchNow' = M!Finished(placed, w, l)
        BY <1>1, <3>2, FieldsOfMatches DEF MatchNow
      <3> QED
        BY <2>1, <3>1, <3>2, FinishOutcome
    <2>2. CASE /\ moveCount' < Size * Size /\ turn' \in Color
               /\ UNCHANGED <<status, winner, loser>>
      <3>1. Size * Size \in Nat
        BY PointsFinite
      <3>2. moved \in Seq(Color) /\ Len(moved) \in Nat
        BY <1>1, MoveOutcome
      <3>3. moveCount' = Len(moved) + 4
        BY <1>1, MoveOutcome DEF CountsAgree
      <3>4. ~full
        BY <2>2, <3>1, <3>2, <3>3
      <3>5. MatchNow' = [placed EXCEPT !.turn = turn']
        BY <1>1, <2>2, FieldsOfMatches DEF MatchNow
      <3> QED
        BY <2>2, <3>4, <3>5
    <2> QED
      BY <2>1, <2>2, MoveOutcome
  <1>5. M!MayMove(c)
    BY <1>1 DEF M!MayMove
  <1>6. M!OthelloMove(c)
    BY <1>2, <1>3, <1>4 DEF M!OthelloMove, MatchNow, MatchOf
  <1> QED
    BY <1>3, <1>5, <1>6 DEF M!MatchNext, M!Move, M!EngineMove

\* A resignation is one of Match.
LEMMA ResignIsMatchResignation ==
    ASSUME NEW c \in Color, Resign(c)
    PROVE  M!MatchNext
  <1>1. MatchNow' = M!Finished(MatchNow, M!Opponent(c), c)
    BY FieldsOfMatches DEF Resign, MatchNow, M!Opponent, Opponent
  <1>2. status = "PLAYING" /\ c \in M!Color
    BY DEF Resign, M!Color, Color
  <1>3. M!Resignation
    BY <1>1, <1>2 DEF M!Resignation, MatchNow, MatchOf
  <1> QED
    BY <1>3 DEF M!MatchNext

\* A reset starts or discards a round of Match.
LEMMA ResetIsMatchReset ==
    ASSUME NEW s \in {"WAITING", "PLAYING"}, Reset(s), s = "PLAYING" => status # "PLAYING"
    PROVE  M!MatchNext
  <1>1. MatchNow' = M!NewGame(s)
    BY DEF Reset, MatchNow, MatchOf, M!NewGame
  <1>2. CASE s = "PLAYING"
    <2>1. M!Start
      BY <1>1, <1>2 DEF M!Start, MatchNow, MatchOf
    <2> QED
      BY <2>1 DEF M!MatchNext
  <1>3. CASE s = "WAITING"
    <2>1. M!Discard
      BY <1>1, <1>3 DEF M!Discard, MatchNow, MatchOf
    <2> QED
      BY <2>1 DEF M!MatchNext
  <1> QED
    BY <1>2, <1>3

\* The Othello engine, on a board of any even size, is the Match that the room
\* and its proofs assume: every step is one that Match accepts, with an outcome
\* it allows, or leaves the match as it is.
THEOREM OthelloIsAMatch == OthelloSpec => ImplementsMatch
  <1>1. ASSUME OthelloInit PROVE M!MatchInit
    BY <1>1 DEF OthelloInit, M!MatchInit, M!NewGame
  <1>2. ASSUME OthelloInv, [OthelloNext]_othelloVars PROVE [M!MatchNext]_MatchNow
    <2>1. CASE UNCHANGED othelloVars
      BY <2>1 DEF othelloVars, MatchNow
    <2>2. ASSUME NEW c \in Color, Resign(c) PROVE M!MatchNext
      BY <2>2, ResignIsMatchResignation
    <2>3. ASSUME NEW c \in Color, NEW p \in Points, MakeMove(c, p) PROVE M!MatchNext
      BY <1>2, <2>3, MoveIsMatchMove
    <2>4. ASSUME (status # "PLAYING" /\ Reset("PLAYING")) \/ Reset("WAITING")
          PROVE  M!MatchNext
      BY <2>4, ResetIsMatchReset
    <2> QED
      BY <1>2, <2>1, <2>2, <2>3, <2>4 DEF OthelloNext
  <1> QED
    BY <1>1, <1>2, OthelloInvariant, PTL
       DEF OthelloSpec, ImplementsMatch, M!MatchSpec, MatchNow, MatchOf
=============================================================================
