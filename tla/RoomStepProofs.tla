--------------------------- MODULE RoomStepProofs ---------------------------
(***************************************************************************)
(* What a single step of a room may never do, for all values of its         *)
(* constants, and the conservation of its clock.  Every step has one of a   *)
(* few shapes, told by what it does to the match and to the clock; each     *)
(* theorem then looks at the shapes only.                                   *)
(***************************************************************************)
EXTENDS GameRoomProofs, RoomClock

-----------------------------------------------------------------------------
(* The shapes *)

\* The clock is let alone, and so is a running match.
LeavesTurn ==
    /\ UNCHANGED timerVars /\ UNCHANGED pendingUndo
    /\ \/ UNCHANGED game /\ now' \in {now, now + 1}
       \/ ~Playing /\ game' = NewGame("WAITING") /\ UNCHANGED now

\* A round starts with a full clock, or is over or discarded without a move.
StartsRound ==
    ~Playing /\ game' = NewGame("PLAYING") /\ StartTurnTimer(TurnLimit) /\ UNCHANGED now

EndsRound ==
    /\ ClearTurnTimer /\ UNCHANGED now
    /\ \/ game' = NewGame("WAITING")
       \/ Playing /\ game'.status = "FINISHED" /\ game'.history = game.history

\* A move is made, by a player in time or by the clock for Othello.
Moves ==
    /\ Playing /\ UNCHANGED <<pendingUndo, now>>
    /\ \E c \in Color : game'.history = Append(game.history, c)
    /\ ClearTurnTimer \/ (StartTurnTimer(TurnLimit) /\ game'.status = "PLAYING")
    /\ GameType = "GOMOKU" => ~TurnExpired

Skips ==
    /\ Playing /\ TurnExpired /\ UNCHANGED now
    /\ game' = SkipTurn(game, game.turn) /\ StartTurnTimer(TurnLimit)

Pauses ==
    /\ Playing /\ ~TurnExpired /\ pendingUndo = None /\ UNCHANGED <<game, now>>
    /\ PauseTurnTimer

TakesBack ==
    /\ Playing /\ pendingUndo # None /\ StartTurnTimer(TurnLimit) /\ UNCHANGED now
    /\ game' = UndoMoves(game, pendingUndo.undoCount, pendingUndo.requesterColor)

Resumes ==
    /\ Playing /\ pendingUndo # None /\ UNCHANGED <<game, now>>
    /\ IF pausedRemaining # None THEN StartTurnTimer(pausedRemaining) ELSE UNCHANGED timerVars

Shape ==
    \/ LeavesTurn \/ StartsRound \/ EndsRound \/ Moves
    \/ Skips \/ Pauses \/ TakesBack \/ Resumes

-----------------------------------------------------------------------------
(* Every step has one *)

\* A move of either engine appends one colour to the history.
LEMMA EngineMoveAppends ==
    ASSUME game \in MatchType, NEW c \in Color, GomokuMove(c) \/ OthelloMove(c)
    PROVE  game'.history = Append(game.history, c)
  <1>. DEFINE p == Placed(game, c)
  <1>1. p \in MatchType /\ p.history = Append(game.history, c)
    BY PlacedType
  <1>2. ASSUME NEW w, NEW l, game' = Finished(p, w, l)
        PROVE  game'.history = Append(game.history, c)
    BY <1>1, <1>2 DEF Finished, MatchType
  <1>3. ASSUME NEW next, game' = [p EXCEPT !.turn = next]
        PROVE  game'.history = Append(game.history, c)
    BY <1>1, <1>3 DEF MatchType
  <1>. HIDE DEF p
  <1>4. CASE GomokuMove(c)
    BY <1>2, <1>3, <1>4 DEF GomokuMove, p
  <1>5. CASE OthelloMove(c)
    BY <1>2, <1>3, <1>5 DEF OthelloMove, p
  <1>. QED
    BY <1>4, <1>5

\* A timeout skips the turn in Gomoku and makes a move in Othello.
LEMMA ExpireShape ==
    ASSUME RoomInv, ExpireTurnLocked
    PROVE  Skips \/ Moves
  <1>1. /\ Playing /\ game \in MatchType /\ game.turn \in Color /\ TurnExpired
        /\ UNCHANGED <<pendingUndo, now>>
    BY TurnFacts DEF ExpireTurnLocked, RoomInv, RoomTypeOK
  <1>2. CASE GameType = "GOMOKU" /\ game' = SkipTurn(game, game.turn) /\ StartTurnTimer(TurnLimit)
    BY <1>1, <1>2 DEF Skips
  <1>3. CASE GameType = "OTHELLO" /\ OthelloMove(game.turn) /\ AfterMove
    <2>1. game'.history = Append(game.history, game.turn)
      BY <1>1, <1>3, EngineMoveAppends
    <2>2. game'.status \in {"PLAYING", "FINISHED"}
      BY <1>1, <1>3, EngineMoveStatus DEF Playing
    <2>. QED
      BY <1>1, <1>3, <2>1, <2>2 DEF AfterMove, Moves
  <1>. QED
    BY <1>2, <1>3 DEF ExpireTurnLocked

\* A move in time is a move of its player.
LEMMA MakeMoveShape ==
    ASSUME RoomInv, NEW c \in Conns, MakeMove(c), ~ExpireTurnLocked
    PROVE  Moves
  <1>1. /\ c \in Players /\ ~TurnExpired /\ MayMove(playerColors[c])
        /\ EngineMove(playerColors[c]) /\ AfterMove /\ UNCHANGED <<pendingUndo, now>>
    BY DEF MakeMove
  <1>2. playerColors[c] \in Color /\ game \in MatchType /\ Playing
    BY <1>1, PlayersFacts DEF RoomInv, RoomTypeOK, MayMove, Playing
  <1>3. game'.history = Append(game.history, playerColors[c])
    BY <1>1, <1>2, EngineMoveAppends DEF EngineMove
  <1>4. game'.status \in {"PLAYING", "FINISHED"}
    BY <1>1, <1>2, EngineMoveStatus DEF EngineMove, Playing
  <1>. QED
    BY <1>1, <1>2, <1>3, <1>4 DEF AfterMove, Moves

\* A resignation in time ends the round.
LEMMA ResignShape ==
    ASSUME RoomInv, NEW c \in Conns, Resign(c), ~ExpireTurnLocked
    PROVE  EndsRound
  <1>1. /\ game' = Finished(game, Opponent(playerColors[c]), playerColors[c])
        /\ Playing /\ ClearTurnTimer /\ UNCHANGED now /\ game \in MatchType
    BY DEF Resign, RoomInv, RoomTypeOK
  <1>2. game'.status = "FINISHED" /\ game'.history = game.history
    BY <1>1 DEF Finished, MatchType
  <1>. QED
    BY <1>1, <1>2 DEF EndsRound

\* The operations that do not play.
LEMMA SeatingShape ==
    ASSUME RoomInv, NEW c \in Conns,
           Join(c) \/ Leave(c) \/ BecomePlayer(c) \/ BecomeObserver(c) \/ SetReady(c)
    PROVE  LeavesTurn \/ StartsRound \/ EndsRound
  <1>1. CASE Join(c)
    BY <1>1 DEF Join, LeavesTurn, timerVars
  <1>2. CASE Leave(c)
    BY <1>2 DEF Leave, Discard, LeavesTurn, EndsRound
  <1>3. CASE BecomePlayer(c) \/ BecomeObserver(c)
    BY <1>3 DEF BecomePlayer, BecomeObserver, ChangeRole, Discard, LeavesTurn
  <1>4. CASE SetReady(c)
    BY <1>4 DEF SetReady, LeavesTurn, StartsRound
  <1>. QED
    BY <1>1, <1>2, <1>3, <1>4

\* A request stops the clock, an answer takes moves back or restarts it.
LEMMA UndoShape ==
    ASSUME RoomInv, NEW c \in Conns,
           \/ RequestUndo(c) /\ ~ExpireTurnLocked
           \/ \E accepted \in BOOLEAN : RespondUndo(c, accepted)
    PROVE  Pauses \/ TakesBack \/ Resumes
  <1>1. CASE RequestUndo(c) /\ ~ExpireTurnLocked
    BY <1>1 DEF RequestUndo, Pauses
  <1>2. CASE \E accepted \in BOOLEAN : RespondUndo(c, accepted)
    BY <1>2 DEF RespondUndo, TakesBack, Resumes, RoomInv, UndoRequestValid
  <1>. QED
    BY <1>1, <1>2

\* So every step of a room has one of the shapes.
LEMMA EveryStepHasShape ==
    ASSUME RoomInv, [RoomNext]_roomVars
    PROVE  Shape
  <1>1. CASE ExpireTurnLocked
    BY <1>1, ExpireShape DEF Shape
  <1>2. ASSUME ~ExpireTurnLocked, NEW c \in Conns,
               \/ Join(c) \/ Leave(c) \/ BecomePlayer(c) \/ BecomeObserver(c)
               \/ SetReady(c) \/ MakeMove(c) \/ Resign(c) \/ RequestUndo(c)
               \/ \E accepted \in BOOLEAN : RespondUndo(c, accepted)
        PROVE  Shape
    BY <1>2, SeatingShape, MakeMoveShape, ResignShape, UndoShape DEF Shape
  <1>3. CASE Tick \/ UNCHANGED roomVars
    BY <1>3 DEF Tick, roomVars, timerVars, LeavesTurn, Shape
  <1>. QED
    BY <1>1, <1>2, <1>3 DEF RoomNext, ExpireTurn

\* What the shapes do to the length of the history.
LEMMA ShapeHistory ==
    ASSUME RoomInv
    PROVE  /\ Len(game.history) \in Nat
           /\ LeavesTurn \/ StartsRound \/ EndsRound \/ Skips \/ Pauses \/ Resumes =>
                game'.history = game.history \/ game'.history = << >>
           /\ Moves => Len(game'.history) = Len(game.history) + 1
           /\ TakesBack => /\ pendingUndo.undoCount \in {1, 2}
                           /\ pendingUndo.undoCount <= Len(game.history)
                           /\ game'.history =
                                SubSeq(game.history, 1, Len(game.history) - pendingUndo.undoCount)
                           /\ Len(game'.history) = Len(game.history) - pendingUndo.undoCount
                           /\ game'.turn = pendingUndo.requesterColor
                           /\ game'.status = "PLAYING"
  <1>1. game \in MatchType /\ game.history \in Seq(Color) /\ Len(game.history) \in Nat /\ MatchInv
    BY DEF RoomInv, RoomTypeOK, MatchType, MatchInv
  <1>2. LeavesTurn \/ StartsRound \/ EndsRound \/ Skips \/ Pauses \/ Resumes =>
                game'.history = game.history \/ game'.history = << >>
    BY <1>1 DEF LeavesTurn, StartsRound, EndsRound, Skips, Pauses, Resumes, NewGame, SkipTurn,
       MatchType
  <1>3. Moves => Len(game'.history) = Len(game.history) + 1
    BY <1>1 DEF Moves
  <1>4. ASSUME TakesBack
        PROVE  /\ pendingUndo.undoCount \in {1, 2}
               /\ pendingUndo.undoCount <= Len(game.history)
               /\ game'.history =
                    SubSeq(game.history, 1, Len(game.history) - pendingUndo.undoCount)
               /\ Len(game'.history) = Len(game.history) - pendingUndo.undoCount
               /\ game'.turn = pendingUndo.requesterColor
               /\ game'.status = "PLAYING"
    <2>1. /\ pendingUndo.undoCount \in {1, 2} /\ pendingUndo.requesterColor \in Color
          /\ pendingUndo.undoCount <= Len(game.history)
      BY <1>4 DEF TakesBack, RoomInv, RoomTypeOK, PendingUndo, UndoRequestValid
    <2>. QED
      BY <1>1, <1>4, <2>1, UndoStep DEF TakesBack
  <1>. QED
    BY <1>1, <1>2, <1>3, <1>4

-----------------------------------------------------------------------------
(* The theorems about single steps *)

\* A timer task of an earlier turn can always be told by its revision.
THEOREM RevisionAlwaysNamesTurn == RoomSpec => RevisionNamesTurn
  <1>1. ASSUME RoomInv, [RoomNext]_roomVars,
               (turnDeadline' # turnDeadline) \/ (Playing /\ game' # game)
        PROVE  turnRevision' > turnRevision
    <2>1. turnRevision \in Nat
      BY <1>1 DEF RoomInv, RoomTypeOK
    <2>. QED
      BY <1>1, <2>1, EveryStepHasShape DEF Shape, LeavesTurn, StartsRound, EndsRound, Moves,
         Skips, Pauses, TakesBack, Resumes, ClearTurnTimer, StartTurnTimer, PauseTurnTimer,
         timerVars
  <1>2. RoomInv /\ [RoomNext]_roomVars =>
          [(turnDeadline' # turnDeadline) \/ (Playing /\ game' # game)
             => turnRevision' > turnRevision]_roomVars
    BY <1>1
  <1>. QED
    BY <1>2, RoomInvariant, PTL DEF RoomSpec, RevisionNamesTurn

\* However late the timer task runs, a Gomoku stone is only placed in time.
THEOREM NoStoneEverLate == RoomSpec => NoStoneAfterDeadline
  <1>1. ASSUME RoomInv, [RoomNext]_roomVars,
               GameType = "GOMOKU", Len(game'.history) > Len(game.history)
        PROVE  turnDeadline = None \/ now < turnDeadline
    <2>1. Moves
      <3>1. Len(<< >>) = 0
        OBVIOUS
      <3>. QED
        BY <1>1, <3>1, EveryStepHasShape, ShapeHistory DEF Shape
    <2>2. now \in Nat /\ turnDeadline \in Nat \cup {None}
      BY <1>1 DEF RoomInv, RoomTypeOK
    <2>. QED
      BY <1>1, <2>1, <2>2 DEF Moves, TurnExpired
  <1>2. RoomInv /\ [RoomNext]_roomVars =>
          [GameType = "GOMOKU" /\ Len(game'.history) > Len(game.history)
             => turnDeadline = None \/ now < turnDeadline]_roomVars
    BY <1>1
  <1>. QED
    BY <1>2, RoomInvariant, PTL DEF RoomSpec, NoStoneAfterDeadline

\* Moves leave a running match only as the requester of an undo asked for.
THEOREM UndoAlwaysTakesOwnMove == RoomSpec => UndoTakesBackOwnMove
  <1>. DEFINE kept == Len(game'.history)
              mine == pendingUndo.requesterColor
  <1>1. ASSUME RoomInv, [RoomNext]_roomVars,
               Playing, Playing', Len(game'.history) < Len(game.history)
        PROVE  /\ pendingUndo # None
               /\ game'.history = SubSeq(game.history, 1, kept)
               /\ game.history[kept + 1] = mine
               /\ \A i \in kept + 2 .. Len(game.history) : game.history[i] # mine
               /\ game'.turn = mine
    <2>1. Len(game.history) \in Nat
      BY <1>1, ShapeHistory
    <2>2. TakesBack
      <3>1. Len(<< >>) = 0 /\ game'.status = "PLAYING"
        BY <1>1 DEF Playing
      <3>2. CASE LeavesTurn \/ StartsRound \/ EndsRound
        BY <1>1, <2>1, <3>1, <3>2 DEF LeavesTurn, StartsRound, EndsRound, NewGame, Playing
      <3>3. CASE Skips \/ Pauses \/ Resumes
        <4>1. game \in MatchType
          BY <1>1 DEF RoomInv, RoomTypeOK
        <4>2. game'.history = game.history
          BY <3>3, <4>1 DEF Skips, Pauses, Resumes, SkipTurn, MatchType
        <4>. QED
          BY <1>1, <2>1, <4>2
      <3>. QED
        BY <1>1, <2>1, <3>2, <3>3, EveryStepHasShape, ShapeHistory DEF Shape
    <2>. DEFINE h == game.history
                n == Len(game.history)
                k == pendingUndo.undoCount
    <2>3. /\ k \in {1, 2} /\ k <= n /\ h' = SubSeq(h, 1, n - k) /\ kept = n - k
          /\ game'.turn = mine
      BY <1>1, <2>2, ShapeHistory
    <2>4. /\ pendingUndo # None /\ h[n - k + 1] = mine
          /\ k = 2 => h[n] = Opponent(mine)
      BY <1>1, <2>2 DEF TakesBack, RoomInv, UndoRequestValid
    <2>5. mine \in Color /\ Opponent(mine) # mine
      BY <1>1, <2>4, OpponentFacts DEF RoomInv, RoomTypeOK, PendingUndo
    <2>6. ASSUME NEW i \in kept + 2 .. n PROVE h[i] # mine
      <3>1. k = 2 /\ i = n
        BY <2>1, <2>3
      <3>. QED
        BY <2>4, <2>5, <3>1
    <2>7. kept + 1 = n - k + 1
      BY <2>3
    <2>. QED
      BY <2>3, <2>4, <2>6, <2>7
  <1>2. RoomInv /\ [RoomNext]_roomVars =>
          [Playing /\ Playing' /\ Len(game'.history) < Len(game.history) =>
             /\ pendingUndo # None
             /\ game'.history = SubSeq(game.history, 1, kept)
             /\ game.history[kept + 1] = mine
             /\ \A i \in kept + 2 .. Len(game.history) : game.history[i] # mine
             /\ game'.turn = mine]_roomVars
    BY <1>1
  <1>. QED
    BY <1>2, RoomInvariant, PTL DEF RoomSpec, UndoTakesBackOwnMove

-----------------------------------------------------------------------------
(* Seats and colours *)

\* Who sits where changes only with a departure, a change of role or a new round.
LEMMA SeatStep ==
    ASSUME RoomInv, [RoomNext]_roomVars
    PROVE  \/ playerColors' = playerColors
           \/ readyConnections' = {} /\ ~Playing'
           \/ /\ readyConnections' = {} /\ playerColors' = NextRoundColors
              /\ PlayersFull /\ Players' = Players
  <1>1. ASSUME NEW c \in Conns, Leave(c)
        PROVE  playerColors' = playerColors \/ (readyConnections' = {} /\ ~Playing')
    <2>1. CASE c \in Players
      BY <1>1, <2>1 DEF Leave, Discard, NewGame, Playing
    <2>2. CASE c \notin Players
      <3>1. Players \ {c} = Players /\ playerColors \in [Players -> Color]
        BY <2>2, PlayersFacts
      <3>. QED
        BY <1>1, <3>1 DEF Leave, Unseated
    <2>. QED
      BY <2>1, <2>2
  <1>2. ASSUME NEW c \in Conns, BecomePlayer(c) \/ BecomeObserver(c)
        PROVE  readyConnections' = {} /\ ~Playing'
    BY <1>2 DEF BecomePlayer, BecomeObserver, ChangeRole, Discard, NewGame, Playing
  <1>3. ASSUME NEW c \in Conns, SetReady(c), playerColors' # playerColors
        PROVE  /\ readyConnections' = {} /\ playerColors' = NextRoundColors
               /\ PlayersFull /\ Players' = Players
    <2>1. readyConnections' = {} /\ playerColors' = NextRoundColors /\ PlayersFull
      BY <1>3 DEF SetReady
    <2>. QED
      BY <2>1, NextRoundColorsFacts DEF Players
  <1>4. ASSUME NEW c \in Conns,
               \/ Join(c) \/ MakeMove(c) \/ Resign(c) \/ RequestUndo(c)
               \/ \E accepted \in BOOLEAN : RespondUndo(c, accepted)
        PROVE  playerColors' = playerColors
    BY <1>4 DEF Join, MakeMove, Resign, RequestUndo, RespondUndo, ExpireTurnLocked, seatVars
  <1>5. ASSUME NEW revision \in 0 .. turnRevision, ExpireTurn(revision)
        PROVE  playerColors' = playerColors
    BY <1>5 DEF ExpireTurn, ExpireTurnLocked, seatVars
  <1>6. CASE Tick \/ UNCHANGED roomVars
    BY <1>6 DEF Tick, seatVars, roomVars
  <1>. QED
    BY <1>1, <1>2, <1>3, <1>4, <1>5, <1>6 DEF RoomNext

\* A vote never counts for another opponent than the one it was given for.
THEOREM VotesAlwaysDieWithThePair == RoomSpec => VotesDieWithThePair
  <1>1. RoomInv /\ [RoomNext]_roomVars => [Players' # Players => readyConnections' = {}]_roomVars
    BY SeatStep DEF Players
  <1>. QED
    BY <1>1, RoomInvariant, PTL DEF RoomSpec, VotesDieWithThePair

\* The loser of a decisive round opens the next; nothing else moves a colour.
THEOREM LoserAlwaysOpens == RoomSpec => LoserOpensNextRound
  <1>1. ASSUME RoomInv, [RoomNext]_roomVars, ~Playing, Playing'
        PROVE  IF game.winner # None
               THEN \A p \in Players :
                      playerColors'[p] = StartingColor <=> playerColors[p] = game.loser
               ELSE playerColors' = playerColors
    <2>1. StartsRound
      BY <1>1, EveryStepHasShape DEF Shape, LeavesTurn, EndsRound, Moves, Skips, Pauses,
         TakesBack, Resumes, NewGame, Playing
    <2>2. PICK c \in Conns : SetReady(c) /\ game' # game
      <3>1. game' # game
        BY <1>1 DEF Playing
      <3>2. ASSUME NEW c \in Conns,
                   \/ Join(c) \/ Leave(c) \/ BecomePlayer(c) \/ BecomeObserver(c)
            PROVE  FALSE
        BY <1>1, <3>2 DEF Join, Leave, BecomePlayer, BecomeObserver, ChangeRole, Discard,
           NewGame, Playing
      <3>3. ASSUME NEW c \in Conns,
                   \/ MakeMove(c) \/ Resign(c) \/ RequestUndo(c)
                   \/ \E accepted \in BOOLEAN : RespondUndo(c, accepted)
            PROVE  FALSE
        <4>1. CASE ExpireTurnLocked
          BY <1>1, <4>1, TurnFacts DEF ExpireTurnLocked
        <4>2. CASE MakeMove(c) /\ ~ExpireTurnLocked
          BY <1>1, <4>2 DEF MakeMove, MayMove, Playing
        <4>. QED
          BY <1>1, <3>1, <3>3, <4>1, <4>2 DEF Resign, RequestUndo, RespondUndo, RoomInv,
             UndoRequestValid
      <3>4. ~ExpireTurnLocked /\ ~Tick /\ ~UNCHANGED roomVars
        BY <1>1, <3>1, TurnFacts DEF ExpireTurnLocked, Tick, roomVars
      <3>. QED
        BY <1>1, <3>1, <3>2, <3>3, <3>4 DEF RoomNext, ExpireTurn
    <2>3. PlayersFull /\ playerColors' = NextRoundColors
      BY <2>2 DEF SetReady
    <2>. QED
      BY <1>1, <2>3, NextRoundColorsFacts
  <1>2. RoomInv /\ [RoomNext]_roomVars =>
          [~Playing /\ Playing' =>
             IF game.winner # None
             THEN \A p \in Players :
                    playerColors'[p] = StartingColor <=> playerColors[p] = game.loser
             ELSE playerColors' = playerColors]_roomVars
    BY <1>1
  <1>. QED
    BY <1>2, RoomInvariant, PTL DEF RoomSpec, LoserOpensNextRound

-----------------------------------------------------------------------------
(* The clock *)

ClockInv == RoomInv /\ spent \in Nat /\ ClockConserved

\* Every step conserves the time of the turn.
LEMMA ClockStep ==
    ASSUME ClockInv, [ClockNext]_clockVars
    PROVE  ClockInv'
  <1>1. [RoomNext]_roomVars /\ RoomInv /\ RoomInv'
    BY NextKeepsInv DEF ClockInv, ClockNext, clockVars, roomVars
  <1>2. /\ now \in Nat /\ now' \in Nat /\ spent \in Nat
        /\ turnDeadline \in Nat \cup {None} /\ pausedRemaining \in Nat \cup {None}
        /\ turnDeadline' \in Nat \cup {None} /\ pausedRemaining' \in Nat \cup {None}
        /\ TurnLimit \in (Nat \ {0}) \cup {None} /\ None \notin Int
    BY <1>1, RoomAssumption DEF ClockInv, RoomInv, RoomTypeOK
  <1>3. /\ ClockDiscipline /\ ClockDiscipline' /\ ClockConserved
    BY <1>1 DEF ClockInv, RoomInv
  <1>4. CASE UNCHANGED clockVars
    BY <1>1, <1>2, <1>3, <1>4 DEF clockVars, roomVars, ClockInv, ClockConserved
  <1>5. CASE CountTime
    <2>1. now' \in {now, now + 1}
      BY <1>1, <1>2, EveryStepHasShape DEF Shape, LeavesTurn, StartsRound, EndsRound, Moves,
         Skips, Pauses, TakesBack, Resumes
    <2>2. spent' \in Nat
      <3>1. CASE now' = now
        BY <1>2, <1>5, <3>1 DEF CountTime
      <3>2. CASE now' = now + 1
        BY <1>2, <1>5, <3>2 DEF CountTime
      <3>. QED
        BY <2>1, <3>1, <3>2
    <2>3. ClockConserved'
      <3>1. CASE LeavesTurn
        BY <1>2, <1>3, <1>5, <3>1 DEF LeavesTurn, CountTime, TurnOver, timerVars, Playing,
           ClockConserved, ClockDiscipline
      <3>2. CASE StartsRound
        BY <1>2, <1>5, <3>2 DEF StartsRound, StartTurnTimer, CountTime, TurnOver, NewGame,
           Playing, ClockConserved
      <3>3. CASE EndsRound
        BY <3>3 DEF EndsRound, ClearTurnTimer, ClockConserved
      <3>4. CASE Moves
        <4>1. TurnOver
          BY <1>1, <3>4, ShapeHistory DEF TurnOver
        <4>. QED
          BY <1>2, <1>5, <3>4, <4>1 DEF Moves, StartTurnTimer, ClearTurnTimer, CountTime,
             ClockConserved
      <3>5. CASE Skips
        <4>1. game'.turn # game.turn
          <5>1. game.turn \in Color /\ game \in MatchType
            BY <1>1, <3>5, TurnFacts DEF Skips, RoomInv, RoomTypeOK
          <5>. QED
            BY <3>5, <5>1, OpponentFacts DEF Skips, SkipTurn, MatchType
        <4>. QED
          BY <1>2, <1>5, <3>5, <4>1 DEF Skips, StartTurnTimer, CountTime, TurnOver,
             ClockConserved
      <3>6. CASE Pauses
        BY <1>2, <1>3, <1>5, <3>6 DEF Pauses, PauseTurnTimer, TurnExpired, CountTime, TurnOver,
           timerVars, ClockConserved, ClockDiscipline
      <3>7. CASE TakesBack
        <4>1. TurnOver
          BY <1>1, <3>7, ShapeHistory DEF TurnOver
        <4>. QED
          BY <1>2, <1>5, <3>7, <4>1 DEF TakesBack, StartTurnTimer, CountTime, ClockConserved
      <3>8. CASE Resumes
        BY <1>2, <1>3, <1>5, <3>8 DEF Resumes, StartTurnTimer, CountTime, TurnOver, timerVars,
           ClockConserved, ClockDiscipline
      <3>. QED
        BY <1>1, <3>1, <3>2, <3>3, <3>4, <3>5, <3>6, <3>7, <3>8, EveryStepHasShape DEF Shape
    <2>. QED
      BY <1>1, <2>2, <2>3 DEF ClockInv
  <1>. QED
    BY <1>4, <1>5 DEF ClockNext

\* No clock runs in a new room.
LEMMA ClockStarts == ClockInit => ClockInv
  <1>1. RoomInit => /\ RoomInv /\ turnDeadline = None /\ pausedRemaining = None
    BY InitEstablishesInv DEF RoomInit
  <1>. QED
    BY <1>1 DEF ClockInit, ClockInv, ClockConserved

\* So the time is always conserved.
LEMMA ClockInvariant == ClockSpec => []ClockInv
  BY ClockStarts, ClockStep, PTL DEF ClockSpec

\* Undo requests and their answers neither lengthen nor shorten a turn.
THEOREM ClockAlwaysConserved == ClockSpec => []ClockConserved
  <1>1. ClockInv => ClockConserved
    BY DEF ClockInv
  <1>. QED
    BY <1>1, ClockInvariant, PTL

\* A Gomoku turn is only lost by using up the limit.
THEOREM TurnNeverLostEarly == ClockSpec => TurnLostOnlyWhenSpent
  <1>1. ASSUME ClockInv, [ClockNext]_clockVars,
               Playing, Playing', game'.turn \in Color \ {game.turn},
               game'.history = game.history
        PROVE  TurnLimit # None /\ spent >= TurnLimit
    <2>1. [RoomNext]_roomVars /\ RoomInv /\ ClockConserved /\ game \in MatchType
      BY <1>1 DEF ClockInv, ClockNext, clockVars, roomVars, RoomInv, RoomTypeOK
    <2>2. Len(game.history) \in Nat
      BY <2>1, ShapeHistory
    <2>3. ~Moves /\ ~TakesBack
      BY <1>1, <2>1, <2>2, ShapeHistory
    <2>4. ~LeavesTurn /\ ~StartsRound /\ ~EndsRound /\ ~Pauses /\ ~Resumes
      BY <1>1 DEF LeavesTurn, StartsRound, EndsRound, Pauses, Resumes, NewGame, Playing
    <2>5. Skips
      BY <2>1, <2>3, <2>4, EveryStepHasShape DEF Shape
    <2>6. TurnLimit # None /\ TurnExpired
      BY <2>1, <2>5, TurnFacts DEF Skips
    <2>7. now \in Nat /\ turnDeadline \in Nat /\ spent \in Nat /\ TurnLimit \in Nat
      BY <1>1, <2>1, <2>6, RoomAssumption DEF ClockInv, RoomInv, RoomTypeOK, TurnExpired
    <2>. QED
      BY <2>1, <2>6, <2>7 DEF TurnExpired, ClockConserved
  <1>2. ClockInv /\ [ClockNext]_clockVars =>
          [Playing /\ game'.turn \in Color \ {game.turn} /\ Playing'
             /\ game'.history = game.history
             => TurnLimit # None /\ spent >= TurnLimit]_clockVars
    BY <1>1
  <1>. QED
    BY <1>2, ClockInvariant, PTL DEF ClockSpec, TurnLostOnlyWhenSpent
=============================================================================
