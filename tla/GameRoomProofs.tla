-------------------------- MODULE GameRoomProofs ---------------------------
(***************************************************************************)
(* GameRoom for any number of connections, any member cap, any turn limit  *)
(* and any board area: its safety invariants, and that it drives its       *)
(* engine only through calls the engine accepts.  First the match alone.   *)
(***************************************************************************)
EXTENDS GameRoom, SequenceTheorems, FiniteSetTheorems, TLAPS

-----------------------------------------------------------------------------
(* The match: what every engine call preserves, for any board area, win     *)
(* length and starting colour.                                              *)

MatchInv == game \in MatchType /\ ResultConsistent

\* Finishing a match with a winner and its opponent, or with nobody, leaves a
\* consistent result (_finish).
LEMMA FinishedConsistent ==
    ASSUME NEW g \in MatchType, NEW w \in Color \cup {None}, NEW l \in Color \cup {None},
           game' = Finished(g, w, l),
           IF w = None THEN l = None ELSE l = Opponent(w)
    PROVE  MatchInv'
  <1>1. /\ game' = [status |-> "FINISHED", turn |-> None, winner |-> w,
                    loser |-> l, history |-> g.history]
    BY DEF Finished, MatchType
  <1>2. game' \in MatchType
    BY <1>1 DEF MatchType, Status
  <1>. QED
    BY <1>1, <1>2 DEF MatchInv, ResultConsistent

\* A placed stone keeps the record well formed.
LEMMA PlacedType ==
    ASSUME NEW g \in MatchType, NEW c \in Color
    PROVE  /\ Placed(g, c) \in MatchType
           /\ Placed(g, c).status = g.status
           /\ Placed(g, c).winner = g.winner
           /\ Placed(g, c).loser = g.loser
           /\ Placed(g, c).history = Append(g.history, c)
  BY DEF Placed, MatchType

\* A move of the player to move, played or automatic, keeps the match
\* consistent whatever the engine's judgement (make_move of both engines).
LEMMA EngineMoveStep ==
    ASSUME MatchInv, NEW c \in Color, MayMove(c),
           GomokuMove(c) \/ OthelloMove(c)
    PROVE  MatchInv'
  <1>. DEFINE p == Placed(game, c)
  <1>0. /\ p \in MatchType
        /\ p.status = "PLAYING" /\ p.winner = game.winner /\ p.loser = game.loser
    BY PlacedType DEF MatchInv, MayMove
  <1>1. Opponent(c) \in Color
    BY DEF Opponent, Color
  <1>2. ASSUME NEW w \in Color, game' = Finished(p, w, Opponent(w))
        PROVE  MatchInv'
    <2>1. Opponent(w) \in Color /\ w # None
      BY MatchAssumption DEF Opponent, Color
    <2>. QED
      BY <1>0, <1>2, <2>1, FinishedConsistent
  <1>3. ASSUME game' = Finished(p, None, None)
        PROVE  MatchInv'
    BY <1>0, <1>3, FinishedConsistent
  <1>4. ASSUME NEW next \in Color, game' = [p EXCEPT !.turn = next]
        PROVE  MatchInv'
    <2>1. game' \in MatchType
      BY <1>0, <1>4 DEF MatchType
    <2>2. /\ game'.status = "PLAYING" /\ game'.turn = next
          /\ game'.winner = game.winner /\ game'.loser = game.loser
      BY <1>0, <1>4 DEF MatchType
    <2>3. next # None
      BY MatchAssumption
    <2>. QED
      BY <2>1, <2>2, <2>3 DEF MatchInv, ResultConsistent, MayMove
  <1>5. CASE GomokuMove(c)
    BY <1>1, <1>2, <1>3, <1>4, <1>5 DEF GomokuMove
  <1>6. CASE OthelloMove(c)
    BY <1>2, <1>3, <1>4, <1>6 DEF OthelloMove
  <1>. QED
    BY <1>5, <1>6

\* Taking moves back leaves a live match (undo_moves).
LEMMA UndoStep ==
    ASSUME MatchInv, NEW n \in {1, 2}, NEW next \in Color, n <= Len(game.history),
           game' = UndoMoves(game, n, next)
    PROVE  /\ MatchInv'
           /\ game'.history = SubSeq(game.history, 1, Len(game.history) - n)
           /\ Len(game'.history) = Len(game.history) - n
           /\ game'.turn = next /\ game'.status = "PLAYING"
  <1>. DEFINE h == SubSeq(game.history, 1, Len(game.history) - n)
  <1>1. game.history \in Seq(Color) /\ Len(game.history) \in Nat
    BY DEF MatchInv, MatchType
  <1>2. \A i \in 1 .. Len(game.history) - n : game.history[i] \in Color
    BY <1>1
  <1>3. /\ h \in Seq(Color)
        /\ Len(h) = Len(game.history) - n
    BY <1>1, <1>2, SubSeqProperties
  <1>4. game' = [status |-> "PLAYING", turn |-> next, winner |-> None,
                 loser |-> None, history |-> h]
    BY DEF UndoMoves, MatchInv, MatchType
  <1>5. game' \in MatchType
    BY <1>3, <1>4 DEF MatchType, Status
  <1>6. next # None
    BY MatchAssumption
  <1>. QED
    BY <1>3, <1>4, <1>5, <1>6 DEF MatchInv, ResultConsistent

\* A fresh board is consistent in either live status (reset, __init__).
LEMMA NewGameStep ==
    ASSUME NEW status \in {"WAITING", "PLAYING"}, game' = NewGame(status)
    PROVE  MatchInv'
  <1>1. game' \in MatchType
    BY MatchAssumption DEF NewGame, MatchType, Status
  <1>. QED
    BY <1>1, MatchAssumption DEF NewGame, MatchInv, ResultConsistent

\* Every engine call keeps the match well formed and its result consistent.
LEMMA MatchStep ==
    ASSUME MatchInv, [MatchNext]_game
    PROVE  MatchInv'
  <1>1. CASE Start
    BY <1>1, NewGameStep DEF Start
  <1>2. CASE Discard
    BY <1>2, NewGameStep DEF Discard
  <1>3. CASE Move
    BY <1>3, EngineMoveStep DEF Move, EngineMove
  <1>4. CASE Skip
    <2>. PICK c \in Color : MayMove(c) /\ game' = SkipTurn(game, c)
      BY <1>4 DEF Skip
    <2>1. Opponent(c) \in Color /\ Opponent(c) # None
      BY MatchAssumption DEF Opponent, Color
    <2>2. game' \in MatchType
      BY <2>1 DEF SkipTurn, MatchInv, MatchType
    <2>3. /\ game'.status = game.status /\ game'.turn = Opponent(c)
          /\ game'.winner = game.winner /\ game'.loser = game.loser
      BY DEF SkipTurn, MatchInv, MatchType
    <2>. QED
      BY <2>1, <2>2, <2>3 DEF MatchInv, ResultConsistent, MayMove
  <1>5. CASE Undo
    BY <1>5, UndoStep DEF Undo
  <1>6. CASE Resignation
    <2>. PICK c \in Color : game' = Finished(game, Opponent(c), c)
      BY <1>6 DEF Resignation
    <2>1. /\ Opponent(c) \in Color /\ Opponent(c) # None
          /\ c = Opponent(Opponent(c))
      BY MatchAssumption DEF Opponent, Color
    <2>. QED
      BY <2>1, FinishedConsistent DEF MatchInv
  <1>7. CASE UNCHANGED game
    BY <1>7 DEF MatchInv, ResultConsistent
  <1>. QED
    BY <1>1, <1>2, <1>3, <1>4, <1>5, <1>6, <1>7 DEF MatchNext

\* A match that only changes by engine calls never shows a winner without its
\* opponent as loser, a result before the end, or a turn after it.
THEOREM MatchConsistent == MatchSpec => []ResultConsistent
  <1>1. MatchInit => MatchInv
    <2>. SUFFICES ASSUME MatchInit PROVE MatchInv
      OBVIOUS
    <2>1. game \in MatchType
      BY MatchAssumption DEF MatchInit, NewGame, MatchType, Status
    <2>. QED
      BY <2>1, MatchAssumption DEF MatchInit, NewGame, MatchInv, ResultConsistent
  <1>2. MatchInv /\ [MatchNext]_game => MatchInv'
    BY MatchStep
  <1>3. MatchInv => ResultConsistent
    BY DEF MatchInv
  <1>. QED
    BY <1>1, <1>2, <1>3, PTL DEF MatchSpec

-----------------------------------------------------------------------------
(* The room *)

\* The invariants support each other: a clock implies a round, a round implies
\* two seats, a pending request implies a round that has not moved on.
RoomInv ==
    /\ RoomTypeOK
    /\ IsFiniteSet(members)
    /\ ResultConsistent
    /\ SeatsConsistent
    /\ UndoRequestValid
    /\ ClockDiscipline

-----------------------------------------------------------------------------
(* Facts about the state *)

\* The two colours are each other's opponent.
LEMMA OpponentFacts ==
    \A c \in Color : /\ Opponent(c) \in Color /\ Opponent(c) # c
                     /\ Opponent(Opponent(c)) = c
                     /\ \A d \in Color : d = c \/ d = Opponent(c)
  BY DEF Opponent, Color

\* The seated are members, finitely many, each with a colour.
LEMMA PlayersFacts ==
    ASSUME RoomInv
    PROVE  /\ Players \subseteq Conns
           /\ Players \subseteq members
           /\ IsFiniteSet(Players)
           /\ Cardinality(Players) \in Nat
           /\ \A p \in Players : playerColors[p] \in Color
           /\ playerColors \in [Players -> Color]
  <1>1. /\ Players \subseteq Conns /\ \A p \in Players : playerColors[p] \in Color
        /\ playerColors \in [Players -> Color]
    BY DEF RoomInv, RoomTypeOK, Players
  <1>2. Players \in SUBSET members /\ IsFiniteSet(members)
    BY DEF RoomInv, SeatsConsistent
  <1>. QED
    BY <1>1, <1>2, FS_Subset, FS_CardinalityType

\* A running turn belongs to a colour, an idle clock to no running turn.
LEMMA TurnFacts ==
    ASSUME RoomInv
    PROVE  /\ Playing => game.turn \in Color
           /\ TurnExpired => Playing /\ TurnLimit # None /\ pendingUndo = None
           /\ ~Playing => turnDeadline = None /\ pausedRemaining = None /\ pendingUndo = None
  BY DEF RoomInv, RoomTypeOK, MatchType, ResultConsistent, Playing, TurnExpired,
         ClockDiscipline, UndoRequestValid

-----------------------------------------------------------------------------
(* The room only makes calls its engine accepts. *)

\* An expired turn belongs to a running match.
LEMMA ExpireCallsEngine ==
    ASSUME RoomInv, ExpireTurnLocked
    PROVE  MatchNext
  <1>1. MayMove(game.turn) /\ game.turn \in Color
    BY TurnFacts DEF ExpireTurnLocked, MayMove, Playing
  <1>2. CASE GameType = "GOMOKU" /\ game' = SkipTurn(game, game.turn)
    BY <1>1, <1>2 DEF MatchNext, Skip
  <1>3. CASE GameType = "OTHELLO" /\ OthelloMove(game.turn)
    BY <1>1, <1>3 DEF MatchNext, Move, EngineMove
  <1>. QED
    BY <1>2, <1>3 DEF ExpireTurnLocked

\* A round may start only when none is running, and its colours are settled
\* before the board is cleared (set_ready).
LEMMA RoomCallsEngine ==
    ASSUME RoomInv, [RoomNext]_roomVars
    PROVE  [MatchNext]_game
  <1>1. ASSUME NEW c \in Conns, Join(c) PROVE UNCHANGED game
    BY <1>1 DEF Join
  <1>2. ASSUME NEW c \in Conns, Leave(c) PROVE [MatchNext]_game
    BY <1>2 DEF Leave, MatchNext
  <1>3. ASSUME NEW c \in Conns, BecomePlayer(c) \/ BecomeObserver(c) PROVE [MatchNext]_game
    BY <1>3 DEF BecomePlayer, BecomeObserver, ChangeRole, MatchNext
  <1>4. ASSUME NEW c \in Conns, SetReady(c) PROVE [MatchNext]_game
    BY <1>4 DEF SetReady, MatchNext, Start, Playing
  <1>5. ASSUME NEW c \in Conns, MakeMove(c) PROVE [MatchNext]_game
    <2>1. playerColors[c] \in Color
      BY <1>5, PlayersFacts DEF MakeMove
    <2>. QED
      BY <1>5, <2>1, ExpireCallsEngine DEF MakeMove, MatchNext, Move
  <1>6. ASSUME NEW c \in Conns, Resign(c) PROVE [MatchNext]_game
    <2>1. playerColors[c] \in Color
      BY <1>6, PlayersFacts DEF Resign
    <2>. QED
      BY <1>6, <2>1, ExpireCallsEngine DEF Resign, MatchNext, Resignation, Playing
  <1>7. ASSUME NEW c \in Conns, RequestUndo(c) PROVE [MatchNext]_game
    BY <1>7, ExpireCallsEngine DEF RequestUndo
  <1>8. ASSUME NEW c \in Conns, NEW accepted \in BOOLEAN, RespondUndo(c, accepted)
        PROVE  [MatchNext]_game
    <2>1. /\ pendingUndo.undoCount \in {1, 2} /\ pendingUndo.requesterColor \in Color
          /\ pendingUndo.undoCount <= Len(game.history)
          /\ GameType = "GOMOKU" /\ game.status = "PLAYING"
      BY <1>8 DEF RespondUndo, RoomInv, RoomTypeOK, PendingUndo, UndoRequestValid, Playing
    <2>2. CASE accepted
      BY <1>8, <2>1, <2>2 DEF RespondUndo, MatchNext, Undo
    <2>3. CASE ~accepted
      BY <1>8, <2>3 DEF RespondUndo
    <2>. QED
      BY <2>2, <2>3
  <1>9. ASSUME NEW revision \in 0 .. turnRevision, ExpireTurn(revision)
        PROVE  [MatchNext]_game
    BY <1>9, ExpireCallsEngine DEF ExpireTurn
  <1>10. CASE Tick
    BY <1>10 DEF Tick
  <1>11. CASE UNCHANGED roomVars
    BY <1>11 DEF roomVars
  <1>. QED
    BY <1>1, <1>2, <1>3, <1>4, <1>5, <1>6, <1>7, <1>8, <1>9, <1>10, <1>11 DEF RoomNext

\* So the match itself stays consistent.
LEMMA RoomKeepsMatch ==
    ASSUME RoomInv, [RoomNext]_roomVars
    PROVE  MatchInv'
  BY RoomCallsEngine, MatchStep DEF MatchInv, RoomInv, RoomTypeOK

-----------------------------------------------------------------------------
(* The clock *)

\* Starting or clearing the clock keeps its fields well formed.
LEMMA TimerTypes ==
    ASSUME RoomTypeOK,
           \/ ClearTurnTimer
           \/ \E d \in Nat \cup {TurnLimit} : StartTurnTimer(d)
    PROVE  /\ turnRevision' \in Nat
           /\ turnDeadline' \in Nat \cup {None}
           /\ pausedRemaining' \in Nat \cup {None}
           /\ pausedRemaining' = None
  BY RoomAssumption DEF RoomTypeOK, ClearTurnTimer, StartTurnTimer

\* The clock after an accepted move or timeout runs exactly if the round does.
LEMMA AfterMoveClock ==
    ASSUME RoomTypeOK, MatchInv', game'.status \in {"PLAYING", "FINISHED"},
           pendingUndo' = None, AfterMove
    PROVE  ClockDiscipline'
  <1>1. CASE game'.status = "FINISHED"
    BY <1>1 DEF AfterMove, ClearTurnTimer, ClockDiscipline, Playing
  <1>2. CASE game'.status = "PLAYING"
    BY <1>2, RoomAssumption
       DEF AfterMove, StartTurnTimer, ClockDiscipline, Playing, RoomTypeOK
  <1>. QED
    BY <1>1, <1>2

\* A move ends the match or leaves it running.
LEMMA EngineMoveStatus ==
    ASSUME game \in MatchType, NEW c \in Color, game.status = "PLAYING",
           GomokuMove(c) \/ OthelloMove(c)
    PROVE  game'.status \in {"PLAYING", "FINISHED"}
  <1>. DEFINE p == Placed(game, c)
  <1>1. p \in MatchType /\ p.status = "PLAYING"
    BY PlacedType
  <1>2. ASSUME NEW w, NEW l, game' = Finished(p, w, l)
        PROVE  game'.status = "FINISHED"
    BY <1>1, <1>2 DEF Finished, MatchType
  <1>3. ASSUME NEW next, game' = [p EXCEPT !.turn = next]
        PROVE  game'.status = "PLAYING"
    BY <1>1, <1>3 DEF MatchType
  <1>4. CASE GomokuMove(c)
    BY <1>2, <1>3, <1>4 DEF GomokuMove
  <1>5. CASE OthelloMove(c)
    BY <1>2, <1>3, <1>5 DEF OthelloMove
  <1>. QED
    BY <1>4, <1>5

-----------------------------------------------------------------------------
(* One lemma per operation of the room. *)

\* While the seats stay and a round was running, the members and votes stay
\* consistent whatever happens to the match, short of a discarded round.
LEMMA SeatsStay ==
    ASSUME RoomInv, UNCHANGED seatVars, Playing,
           readyConnections' \in {{}, readyConnections}
    PROVE  SeatsConsistent'
  <1>1. /\ members' = members /\ observers' = observers
        /\ playerColors' = playerColors
        /\ Players' = Players /\ PlayersFull' = PlayersFull
    BY DEF seatVars, Players, PlayersFull
  <1>2. PlayersFull /\ readyConnections = {}
    BY DEF RoomInv, SeatsConsistent, Playing
  <1>3. Players # {}
    BY <1>2, FS_EmptySet DEF PlayersFull, MaxPlayers
  <1>. QED
    BY <1>1, <1>2, <1>3 DEF RoomInv, SeatsConsistent

\* A timeout, noticed by the timer task or by a late call, keeps the
\* invariants (_expire_turn_locked).
LEMMA ExpireKeepsInv ==
    ASSUME RoomInv, ExpireTurnLocked, MatchInv'
    PROVE  RoomInv'
  <1>1. /\ Playing /\ pendingUndo = None /\ game.turn \in Color
        /\ TurnLimit # None /\ pendingUndo' = None
    BY TurnFacts DEF ExpireTurnLocked
  <1>2. game \in MatchType /\ RoomTypeOK
    BY DEF RoomInv, RoomTypeOK
  <1>3. /\ ClockDiscipline'
        /\ readyConnections' \in {{}, readyConnections}
        /\ ClearTurnTimer \/ StartTurnTimer(TurnLimit)
    <2>1. CASE GameType = "GOMOKU" /\ game' = SkipTurn(game, game.turn)
               /\ StartTurnTimer(TurnLimit) /\ UNCHANGED readyConnections
      <3>1. game'.status = "PLAYING"
        BY <1>1, <1>2, <2>1 DEF SkipTurn, MatchType, Playing
      <3>. QED
        BY <1>1, <1>2, <2>1, <3>1, RoomAssumption
           DEF StartTurnTimer, ClockDiscipline, Playing, RoomTypeOK
    <2>2. CASE OthelloMove(game.turn) /\ AfterMove
      <3>1. game'.status \in {"PLAYING", "FINISHED"}
        BY <1>1, <1>2, <2>2, EngineMoveStatus DEF Playing
      <3>2. ClockDiscipline'
        BY <1>1, <1>2, <2>2, <3>1, AfterMoveClock
      <3>. QED
        BY <2>2, <3>2 DEF AfterMove
    <2>. QED
      BY <2>1, <2>2 DEF ExpireTurnLocked
  <1>4. SeatsConsistent'
    BY <1>1, <1>3, SeatsStay DEF ExpireTurnLocked
  <1>5. RoomTypeOK'
    <2>1. /\ turnRevision' \in Nat /\ turnDeadline' \in Nat \cup {None}
          /\ pausedRemaining' \in Nat \cup {None}
      BY <1>2, <1>3, TimerTypes
    <2>. QED
      BY <1>1, <1>2, <1>3, <2>1 DEF ExpireTurnLocked, seatVars, RoomTypeOK, MatchInv
  <1>6. UndoRequestValid'
    BY <1>1 DEF UndoRequestValid
  <1>7. IsFiniteSet(members')
    BY DEF RoomInv, ExpireTurnLocked, seatVars
  <1>. QED
    BY <1>3, <1>4, <1>5, <1>6, <1>7 DEF RoomInv, MatchInv

\* join
LEMMA JoinKeepsInv ==
    ASSUME RoomInv, NEW c \in Conns, Join(c), MatchInv'
    PROVE  RoomInv'
  <1>1. /\ IsFiniteSet(members')
        /\ Cardinality(members') = Cardinality(members) + 1
        /\ Cardinality(members) \in Nat
    BY FS_AddElement, FS_CardinalityType DEF Join, RoomInv
  <1>2. /\ game' = game /\ playerColors' = playerColors
        /\ readyConnections' = readyConnections /\ pendingUndo' = pendingUndo
        /\ turnRevision' = turnRevision /\ turnDeadline' = turnDeadline
        /\ pausedRemaining' = pausedRemaining /\ now' = now
        /\ Players' = Players /\ PlayersFull' = PlayersFull /\ Playing' = Playing
    BY DEF Join, timerVars, Players, PlayersFull, Playing
  <1>3. RoomTypeOK'
    BY <1>1, <1>2, RoomAssumption DEF RoomInv, RoomTypeOK, Join
  <1>4. SeatsConsistent'
    BY <1>2 DEF RoomInv, SeatsConsistent, Join
  <1>5. UndoRequestValid' /\ ClockDiscipline'
    BY <1>2 DEF RoomInv, UndoRequestValid, ClockDiscipline
  <1>. QED
    BY <1>1, <1>3, <1>4, <1>5 DEF RoomInv, MatchInv

\* leave
LEMMA LeaveKeepsInv ==
    ASSUME RoomInv, NEW c \in Conns, Leave(c), MatchInv'
    PROVE  RoomInv'
  <1>1. /\ IsFiniteSet(members')
        /\ Cardinality(members') <= MaxMembers
    <2>1. IsFiniteSet(members) /\ members' \in SUBSET members
      BY DEF Leave, RoomInv
    <2>2. /\ IsFiniteSet(members') /\ Cardinality(members') <= Cardinality(members)
          /\ Cardinality(members') \in Nat /\ Cardinality(members) \in Nat
      BY <2>1, FS_Subset, FS_CardinalityType
    <2>. QED
      BY <2>2, RoomAssumption DEF RoomInv, RoomTypeOK
  <1>2. /\ Players' = Players \ {c}
        /\ \A p \in Players' : playerColors'[p] = playerColors[p]
        /\ playerColors' \in [Players' -> Color]
    BY PlayersFacts DEF Leave, Unseated, Players
  <1>3. CASE c \in Players
    <2>1. /\ readyConnections' = {} /\ pendingUndo' = None
          /\ Discard /\ ClearTurnTimer
      BY <1>3 DEF Leave
    <2>2. game'.status = "WAITING"
      BY <2>1 DEF Discard, NewGame
    <2>3. RoomTypeOK'
      <3>1. /\ turnRevision' \in Nat /\ turnDeadline' \in Nat \cup {None}
            /\ pausedRemaining' \in Nat \cup {None}
        BY <2>1, TimerTypes DEF RoomInv
      <3>. QED
        BY <1>1, <1>2, <2>1, <3>1, PlayersFacts DEF RoomInv, RoomTypeOK, Leave, MatchInv
    <2>4. SeatsConsistent'
      BY <1>2, <2>1, <2>2 DEF RoomInv, SeatsConsistent, Leave, Playing
    <2>5. UndoRequestValid'
      BY <2>1 DEF UndoRequestValid
    <2>6. ClockDiscipline'
      BY <2>1, <2>2 DEF ClockDiscipline, ClearTurnTimer, Playing
    <2>. QED
      BY <1>1, <2>3, <2>4, <2>5, <2>6 DEF RoomInv, MatchInv
  <1>4. CASE c \notin Players
    <2>1. /\ game' = game /\ pendingUndo' = pendingUndo
          /\ turnRevision' = turnRevision /\ turnDeadline' = turnDeadline
          /\ pausedRemaining' = pausedRemaining /\ now' = now
          /\ readyConnections' = readyConnections
      BY <1>4 DEF Leave, timerVars, RoomInv, SeatsConsistent
    <2>2. Players' = Players /\ playerColors' = playerColors
      BY <1>2, <1>4, PlayersFacts
    <2>3. PlayersFull' = PlayersFull /\ Playing' = Playing
      BY <2>1, <2>2 DEF PlayersFull, Playing
    <2>4. RoomTypeOK'
      BY <1>1, <2>1, <2>2 DEF RoomInv, RoomTypeOK, Leave
    <2>5. SeatsConsistent'
      BY <1>4, <2>1, <2>2, <2>3 DEF RoomInv, SeatsConsistent, Leave
    <2>6. UndoRequestValid' /\ ClockDiscipline'
      BY <2>1, <2>2, <2>3 DEF RoomInv, UndoRequestValid, ClockDiscipline
    <2>. QED
      BY <1>1, <2>4, <2>5, <2>6 DEF RoomInv, MatchInv
  <1>. QED
    BY <1>3, <1>4

\* What a change of roles has in common: no round, no votes, no clock.
LEMMA ChangeRoleKeeps ==
    ASSUME RoomInv, ChangeRole
    PROVE  /\ game'.status = "WAITING"
           /\ readyConnections' = {}
           /\ pendingUndo' = None
           /\ members' = members /\ now' = now
           /\ UndoRequestValid' /\ ClockDiscipline'
           /\ turnRevision' = turnRevision /\ turnDeadline' = turnDeadline
           /\ pausedRemaining' = pausedRemaining
  <1>1. /\ turnDeadline = None /\ pausedRemaining = None /\ pendingUndo = None
        /\ turnDeadline' = None /\ pausedRemaining' = None /\ pendingUndo' = None
    BY TurnFacts DEF ChangeRole, timerVars
  <1>2. game'.status = "WAITING"
    BY DEF ChangeRole, Discard, NewGame, Playing, RoomInv, RoomTypeOK, MatchType, Status
  <1>. QED
    BY <1>1, <1>2 DEF ChangeRole, timerVars, UndoRequestValid, ClockDiscipline, Playing

\* free_color hands out a colour nobody holds.
LEMMA FreeColorFree ==
    ASSUME FreeColor # None
    PROVE  FreeColor \in Color /\ \A p \in Players : playerColors[p] # FreeColor
  BY MatchAssumption, OpponentFacts DEF FreeColor, ConnectionsFor

\* become_player
LEMMA BecomePlayerKeepsInv ==
    ASSUME RoomInv, NEW c \in Conns, BecomePlayer(c), MatchInv'
    PROVE  RoomInv'
  <1>1. /\ game'.status = "WAITING" /\ readyConnections' = {}
        /\ pendingUndo' = None /\ members' = members /\ now' = now
        /\ UndoRequestValid' /\ ClockDiscipline'
        /\ turnRevision' = turnRevision /\ turnDeadline' = turnDeadline
        /\ pausedRemaining' = pausedRemaining
    BY ChangeRoleKeeps DEF BecomePlayer
  <1>2. FreeColor \in Color /\ \A p \in Players : playerColors[p] # FreeColor
    BY FreeColorFree DEF BecomePlayer
  <1>3. /\ Players' = Players \cup {c}
        /\ playerColors'[c] = FreeColor
        /\ \A p \in Players : playerColors'[p] = playerColors[p]
        /\ playerColors' \in [Players' -> Color]
    <2>1. playerColors' = [p \in Players \cup {c} |-> IF p = c THEN FreeColor ELSE playerColors[p]]
      BY DEF BecomePlayer, Seated
    <2>2. c \notin Players /\ \A p \in Players : playerColors[p] \in Color
      BY PlayersFacts DEF BecomePlayer
    <2>3. DOMAIN playerColors' = Players \cup {c}
      BY <2>1
    <2>4. Players' = Players \cup {c}
      BY <2>3 DEF Players
    <2>. QED
      BY <1>2, <2>1, <2>2, <2>4
  <1>4. RoomTypeOK'
    BY <1>1, <1>3, PlayersFacts DEF RoomInv, RoomTypeOK, BecomePlayer, MatchInv
  <1>5. SeatsConsistent'
    BY <1>1, <1>2, <1>3 DEF RoomInv, SeatsConsistent, BecomePlayer, Playing
  <1>. QED
    BY <1>1, <1>4, <1>5 DEF RoomInv, MatchInv

\* become_observer
LEMMA BecomeObserverKeepsInv ==
    ASSUME RoomInv, NEW c \in Conns, BecomeObserver(c), MatchInv'
    PROVE  RoomInv'
  <1>1. /\ game'.status = "WAITING" /\ readyConnections' = {}
        /\ pendingUndo' = None /\ members' = members /\ now' = now
        /\ UndoRequestValid' /\ ClockDiscipline'
        /\ turnRevision' = turnRevision /\ turnDeadline' = turnDeadline
        /\ pausedRemaining' = pausedRemaining
    BY ChangeRoleKeeps DEF BecomeObserver
  <1>2. /\ Players' = Players \ {c}
        /\ \A p \in Players' : playerColors'[p] = playerColors[p]
        /\ playerColors' \in [Players' -> Color]
    BY PlayersFacts DEF BecomeObserver, Unseated, Players
  <1>3. RoomTypeOK'
    BY <1>1, <1>2, PlayersFacts DEF RoomInv, RoomTypeOK, BecomeObserver, MatchInv
  <1>4. SeatsConsistent'
    BY <1>1, <1>2, PlayersFacts DEF RoomInv, SeatsConsistent, BecomeObserver, Playing
  <1>. QED
    BY <1>1, <1>3, <1>4 DEF RoomInv, MatchInv

\* Two seated players hold both colours.
LEMMA BothColorsSeated ==
    ASSUME RoomInv, PlayersFull
    PROVE  \A color \in Color : ConnectionsFor(color) # {}
  <1>1. IsFiniteSet(Players) /\ Cardinality(Players) >= 2
    BY PlayersFacts DEF PlayersFull, MaxPlayers
  <1>2. PICK p \in Players : TRUE
    BY <1>1, FS_EmptySet
  <1>3. PICK q \in Players : q # p
    <2>1. Players # {p}
      BY <1>1, FS_Singleton
    <2>. QED
      BY <1>2, <2>1
  <1>4. playerColors[p] # playerColors[q]
    BY <1>3 DEF RoomInv, SeatsConsistent
  <1>5. \A color \in Color : color = playerColors[p] \/ color = playerColors[q]
    BY <1>4, PlayersFacts, OpponentFacts
  <1>. QED
    BY <1>5 DEF ConnectionsFor

\* The colours of the next round are the old ones or the two swapped, so that
\* the loser of a decisive round holds the starting colour.
LEMMA NextRoundColorsFacts ==
    ASSUME RoomInv
    PROVE  /\ NextRoundColors \in [Players -> Color]
           /\ \A p, q \in Players : NextRoundColors[p] = NextRoundColors[q] => p = q
           /\ (game.winner # None /\ PlayersFull) =>
                \A p \in Players :
                  NextRoundColors[p] = StartingColor <=> playerColors[p] = game.loser
           /\ game.winner = None => NextRoundColors = playerColors
  <1>. DEFINE losers == ConnectionsFor(game.loser)
              winners == ConnectionsFor(game.winner)
              swap == /\ game.winner # None /\ game.loser # None
                      /\ game.loser # StartingColor
                      /\ losers # {} /\ winners # {}
  <1>0. /\ \A p, q \in Players : playerColors[p] = playerColors[q] => p = q
        /\ StartingColor \in Color
        /\ \A p \in Players : playerColors[p] \in Color
        /\ playerColors \in [Players -> Color]
    BY PlayersFacts, MatchAssumption DEF RoomInv, SeatsConsistent
  <1>1. game.winner # None => /\ game.winner \in Color /\ game.loser \in Color
                              /\ game.loser = Opponent(game.winner)
    BY OpponentFacts DEF RoomInv, RoomTypeOK, MatchType, ResultConsistent
  <1>2. CASE swap
    <2>1. NextRoundColors = [c \in Players |-> IF c \in losers THEN StartingColor
                                ELSE IF c \in winners THEN Opponent(StartingColor)
                                ELSE playerColors[c]]
      BY <1>2 DEF NextRoundColors
    <2>2. \A c \in Players : /\ c \in losers <=> playerColors[c] = game.loser
                             /\ c \in winners <=> playerColors[c] = game.winner
      BY DEF ConnectionsFor
    <2>3. \A c \in Players : playerColors[c] = game.loser \/ playerColors[c] = game.winner
      BY <1>0, <1>1, <1>2, OpponentFacts
    <2>4. \A c \in Players : NextRoundColors[c] =
             IF playerColors[c] = game.loser THEN StartingColor ELSE Opponent(StartingColor)
      BY <2>1, <2>2, <2>3
    <2>5. Opponent(StartingColor) \in Color /\ Opponent(StartingColor) # StartingColor
      BY <1>0, OpponentFacts
    <2>6. NextRoundColors \in [Players -> Color]
      BY <1>0, <2>1, <2>5
    <2>7. \A p, q \in Players : NextRoundColors[p] = NextRoundColors[q] => p = q
      BY <1>0, <2>3, <2>4, <2>5
    <2>. QED
      BY <1>2, <2>4, <2>5, <2>6, <2>7
  <1>3. CASE ~swap
    <2>1. NextRoundColors = playerColors
      BY <1>3 DEF NextRoundColors
    <2>2. (game.winner # None /\ PlayersFull) => game.loser = StartingColor
      BY <1>1, <1>3, BothColorsSeated, MatchAssumption
    <2>. QED
      BY <1>0, <2>1, <2>2
  <1>. QED
    BY <1>2, <1>3

\* set_ready
LEMMA SetReadyKeepsInv ==
    ASSUME RoomInv, NEW c \in Conns, SetReady(c), MatchInv'
    PROVE  RoomInv'
  <1>1. /\ c \in Players /\ PlayersFull /\ pendingUndo = None /\ ~Playing
        /\ members' = members /\ observers' = observers /\ now' = now
        /\ turnDeadline = None /\ pausedRemaining = None
    BY TurnFacts DEF SetReady
  <1>2. CASE Cardinality(readyConnections \cup {c}) < MaxPlayers
    <2>1. /\ readyConnections' = readyConnections \cup {c}
          /\ game' = game /\ playerColors' = playerColors
          /\ pendingUndo' = pendingUndo /\ turnRevision' = turnRevision
          /\ turnDeadline' = turnDeadline /\ pausedRemaining' = pausedRemaining
      BY <1>2 DEF SetReady, timerVars
    <2>2. Players' = Players /\ PlayersFull' = PlayersFull /\ Playing' = Playing
      BY <2>1 DEF Players, PlayersFull, Playing
    <2>3. readyConnections' # Players
      BY <1>1, <1>2, <2>1, PlayersFacts DEF PlayersFull, MaxPlayers
    <2>4. RoomTypeOK'
      BY <1>1, <2>1 DEF RoomInv, RoomTypeOK
    <2>5. SeatsConsistent'
      BY <1>1, <2>1, <2>2, <2>3 DEF RoomInv, SeatsConsistent
    <2>6. UndoRequestValid' /\ ClockDiscipline'
      BY <1>1, <2>1, <2>2 DEF RoomInv, UndoRequestValid, ClockDiscipline
    <2>. QED
      BY <1>1, <2>4, <2>5, <2>6 DEF RoomInv, MatchInv
  <1>3. CASE ~(Cardinality(readyConnections \cup {c}) < MaxPlayers)
    <2>1. /\ playerColors' = NextRoundColors /\ game' = NewGame("PLAYING")
          /\ StartTurnTimer(TurnLimit) /\ readyConnections' = {} /\ pendingUndo' = None
      BY <1>3 DEF SetReady
    <2>2. /\ playerColors' \in [Players -> Color] /\ Players' = Players
          /\ \A p, q \in Players : playerColors'[p] = playerColors'[q] => p = q
      BY <2>1, NextRoundColorsFacts DEF Players
    <2>3. PlayersFull' /\ Playing'
      BY <1>1, <2>1, <2>2 DEF PlayersFull, Playing, NewGame
    <2>4. Players # {}
      BY <1>1
    <2>5. RoomTypeOK'
      <3>1. /\ turnRevision' \in Nat /\ turnDeadline' \in Nat \cup {None}
            /\ pausedRemaining' \in Nat \cup {None}
        BY <2>1, TimerTypes DEF RoomInv
      <3>. QED
        BY <1>1, <2>1, <2>2, <3>1, PlayersFacts DEF RoomInv, RoomTypeOK, MatchInv
    <2>6. SeatsConsistent'
      BY <1>1, <2>1, <2>2, <2>3, <2>4 DEF RoomInv, SeatsConsistent
    <2>7. UndoRequestValid'
      BY <2>1 DEF UndoRequestValid
    <2>8. ClockDiscipline'
      BY <2>1, <2>3, RoomAssumption
         DEF ClockDiscipline, StartTurnTimer, RoomInv, RoomTypeOK
    <2>. QED
      BY <1>1, <2>5, <2>6, <2>7, <2>8 DEF RoomInv, MatchInv
  <1>. QED
    BY <1>2, <1>3

\* make_move
LEMMA MakeMoveKeepsInv ==
    ASSUME RoomInv, NEW c \in Conns, MakeMove(c), MatchInv'
    PROVE  RoomInv'
  <1>1. CASE ExpireTurnLocked
    BY <1>1, ExpireKeepsInv
  <1>2. CASE /\ MayMove(playerColors[c]) /\ EngineMove(playerColors[c])
             /\ AfterMove /\ UNCHANGED <<seatVars, pendingUndo, now>>
    <2>1. /\ Playing /\ playerColors[c] \in Color /\ RoomTypeOK /\ game \in MatchType
          /\ pendingUndo = None /\ pendingUndo' = None
      BY <1>2, PlayersFacts DEF MakeMove, MayMove, Playing, RoomInv, RoomTypeOK
    <2>2. game'.status \in {"PLAYING", "FINISHED"}
      BY <1>2, <2>1, EngineMoveStatus DEF EngineMove, Playing
    <2>3. /\ readyConnections' \in {{}, readyConnections}
          /\ ClearTurnTimer \/ StartTurnTimer(TurnLimit)
      BY <1>2 DEF AfterMove
    <2>4. ClockDiscipline'
      BY <1>2, <2>1, <2>2, AfterMoveClock
    <2>5. SeatsConsistent'
      BY <1>2, <2>1, <2>3, SeatsStay
    <2>6. RoomTypeOK'
      <3>1. /\ turnRevision' \in Nat /\ turnDeadline' \in Nat \cup {None}
            /\ pausedRemaining' \in Nat \cup {None}
        BY <2>1, <2>3, TimerTypes
      <3>. QED
        BY <1>2, <2>1, <2>3, <3>1 DEF seatVars, RoomTypeOK, MatchInv
    <2>7. UndoRequestValid'
      BY <2>1 DEF UndoRequestValid
    <2>. QED
      BY <1>2, <2>4, <2>5, <2>6, <2>7 DEF RoomInv, MatchInv, seatVars
  <1>. QED
    BY <1>1, <1>2 DEF MakeMove

\* resign
LEMMA ResignKeepsInv ==
    ASSUME RoomInv, NEW c \in Conns, Resign(c), MatchInv'
    PROVE  RoomInv'
  <1>1. CASE ExpireTurnLocked
    BY <1>1, ExpireKeepsInv
  <1>2. CASE /\ game' = Finished(game, Opponent(playerColors[c]), playerColors[c])
             /\ readyConnections' = {} /\ ClearTurnTimer
             /\ UNCHANGED <<seatVars, pendingUndo, now>>
    <2>1. /\ Playing /\ RoomTypeOK /\ pendingUndo' = None
      BY <1>2 DEF Resign, RoomInv
    <2>2. game'.status = "FINISHED"
      BY <1>2, <2>1 DEF Finished, RoomTypeOK, MatchType
    <2>3. RoomTypeOK'
      <3>1. /\ turnRevision' \in Nat /\ turnDeadline' \in Nat \cup {None}
            /\ pausedRemaining' \in Nat \cup {None}
        BY <1>2, <2>1, TimerTypes
      <3>. QED
        BY <1>2, <2>1, <3>1 DEF seatVars, RoomTypeOK, MatchInv
    <2>4. SeatsConsistent'
      BY <1>2, <2>1, SeatsStay
    <2>5. UndoRequestValid' /\ ClockDiscipline'
      BY <1>2, <2>1, <2>2 DEF UndoRequestValid, ClockDiscipline, ClearTurnTimer, Playing
    <2>. QED
      BY <1>2, <2>3, <2>4, <2>5 DEF RoomInv, MatchInv, seatVars
  <1>. QED
    BY <1>1, <1>2 DEF Resign

\* A request is only recorded for moves that are the last ones on the board.
LEMMA UndoCountFacts ==
    ASSUME game \in MatchType, NEW color \in Color, UndoCount(color) # None
    PROVE  LET h == game.history
               k == UndoCount(color)
           IN  /\ k \in {1, 2} /\ k <= Len(h) /\ Len(h) \in Nat
               /\ h[Len(h) - k + 1] = color
               /\ k = 2 => h[Len(h)] = Opponent(color)
  <1>1. game.history \in Seq(Color) /\ Len(game.history) \in Nat
    BY DEF MatchType
  <1>. QED
    BY <1>1 DEF UndoCount

\* request_undo
LEMMA RequestUndoKeepsInv ==
    ASSUME RoomInv, NEW c \in Conns, RequestUndo(c), MatchInv'
    PROVE  RoomInv'
  <1>1. CASE ExpireTurnLocked
    BY <1>1, ExpireKeepsInv
  <1>2. CASE ~ExpireTurnLocked
    <2>. DEFINE color == playerColors[c]
    <2>1. /\ c \in Players /\ GameType = "GOMOKU" /\ Playing /\ pendingUndo = None
          /\ ~TurnExpired /\ UndoCount(color) # None /\ PauseTurnTimer
          /\ UNCHANGED <<game, seatVars, readyConnections, now>>
          /\ color \in Color /\ RoomTypeOK /\ game \in MatchType
      BY <1>2, PlayersFacts DEF RequestUndo, RoomInv, RoomTypeOK
    <2>2. PICK responder \in ConnectionsFor(Opponent(color)) :
            pendingUndo' = [requester |-> c, responder |-> responder,
                            requesterColor |-> color,
                            requestedMoveCount |-> Len(game.history),
                            undoCount |-> UndoCount(color)]
      BY <1>2 DEF RequestUndo
    <2>3. /\ responder \in Players /\ responder \in Conns
          /\ playerColors[responder] = Opponent(color)
      BY <2>2, PlayersFacts DEF ConnectionsFor
    <2>4. pendingUndo' \in PendingUndo
      BY <2>1, <2>2, <2>3, UndoCountFacts DEF PendingUndo
    <2>5. pendingUndo' # None
      BY <2>4, RoomAssumption
    <2>6. UndoRequestValid'
      <3>1. /\ game' = game /\ playerColors' = playerColors /\ Players' = Players
            /\ Playing' = Playing
        BY <2>1 DEF seatVars, Players, Playing
      <3>2. /\ pendingUndo'.requester = c /\ pendingUndo'.responder = responder
            /\ pendingUndo'.requesterColor = color
            /\ pendingUndo'.requestedMoveCount = Len(game.history)
            /\ pendingUndo'.undoCount = UndoCount(color)
        BY <2>2
      <3>3. /\ UndoCount(color) <= Len(game.history)
            /\ game.history[Len(game.history) - UndoCount(color) + 1] = color
            /\ UndoCount(color) = 2 => game.history[Len(game.history)] = Opponent(color)
        BY <2>1, UndoCountFacts
      <3>. QED
        BY <2>1, <2>3, <3>1, <3>2, <3>3 DEF UndoRequestValid
    <2>7. /\ turnRevision' \in Nat /\ turnDeadline' = None
          /\ pausedRemaining' \in Nat \cup {None}
          /\ TurnLimit # None <=> pausedRemaining' # None
      <3>1. /\ turnDeadline # None <=> TurnLimit # None
            /\ pausedRemaining = None
        BY <2>1 DEF RoomInv, ClockDiscipline
      <3>2. turnDeadline \in Nat \cup {None} /\ now \in Nat /\ turnRevision \in Nat
        BY <2>1 DEF RoomTypeOK
      <3>. QED
        BY <2>1, <3>1, <3>2, RoomAssumption DEF PauseTurnTimer, timerVars
    <2>8. ClockDiscipline'
      BY <2>1, <2>5, <2>7 DEF ClockDiscipline, Playing
    <2>9. RoomTypeOK'
      BY <2>1, <2>4, <2>7 DEF RoomTypeOK, seatVars
    <2>10. SeatsConsistent'
      BY <2>1, SeatsStay
    <2>. QED
      BY <2>1, <2>6, <2>8, <2>9, <2>10 DEF RoomInv, MatchInv, seatVars
  <1>. QED
    BY <1>1, <1>2

\* respond_undo
LEMMA RespondUndoKeepsInv ==
    ASSUME RoomInv, NEW c \in Conns, NEW accepted \in BOOLEAN,
           RespondUndo(c, accepted), MatchInv'
    PROVE  RoomInv'
  <1>1. /\ pendingUndo # None /\ pendingUndo' = None /\ Playing /\ RoomTypeOK
        /\ pendingUndo.undoCount \in {1, 2} /\ pendingUndo.requesterColor \in Color
        /\ pendingUndo.undoCount <= Len(game.history)
        /\ UNCHANGED <<seatVars, readyConnections, now>>
    BY DEF RespondUndo, RoomInv, RoomTypeOK, PendingUndo, UndoRequestValid
  <1>2. /\ turnDeadline = None
        /\ pausedRemaining # None <=> TurnLimit # None
        /\ pausedRemaining \in Nat \cup {None}
    BY <1>1 DEF RoomInv, ClockDiscipline, RoomTypeOK
  <1>3. Playing'
    <2>1. CASE accepted
      <3>1. game' = UndoMoves(game, pendingUndo.undoCount, pendingUndo.requesterColor)
        BY <2>1 DEF RespondUndo
      <3>. QED
        BY <1>1, <3>1, UndoStep DEF MatchInv, RoomInv, RoomTypeOK, Playing
    <2>2. CASE ~accepted
      BY <1>1, <2>2 DEF RespondUndo, Playing
    <2>. QED
      BY <2>1, <2>2
  <1>4. \/ \E d \in Nat \cup {TurnLimit} : StartTurnTimer(d)
        \/ TurnLimit = None /\ UNCHANGED timerVars
    BY <1>2 DEF RespondUndo
  <1>5. /\ turnRevision' \in Nat /\ turnDeadline' \in Nat \cup {None}
        /\ pausedRemaining' = None
        /\ turnDeadline' # None <=> TurnLimit # None
    <2>1. ASSUME NEW d \in Nat \cup {TurnLimit}, StartTurnTimer(d)
          PROVE  /\ turnRevision' \in Nat /\ turnDeadline' \in Nat \cup {None}
                 /\ pausedRemaining' = None
                 /\ turnDeadline' # None <=> TurnLimit # None
      BY <1>1, <2>1, RoomAssumption DEF StartTurnTimer, RoomTypeOK
    <2>2. CASE TurnLimit = None /\ UNCHANGED timerVars
      BY <1>1, <1>2, <2>2 DEF timerVars, RoomTypeOK
    <2>. QED
      BY <1>4, <2>1, <2>2
  <1>6. RoomTypeOK'
    BY <1>1, <1>5 DEF RoomTypeOK, seatVars, MatchInv
  <1>7. SeatsConsistent'
    BY <1>1, SeatsStay
  <1>8. UndoRequestValid' /\ ClockDiscipline'
    BY <1>1, <1>3, <1>5 DEF UndoRequestValid, ClockDiscipline
  <1>. QED
    BY <1>1, <1>6, <1>7, <1>8 DEF RoomInv, MatchInv, seatVars

\* Time passing changes nothing the invariants speak of.
LEMMA IdleKeepsInv ==
    ASSUME RoomInv, Tick \/ UNCHANGED roomVars
    PROVE  RoomInv'
  <1>1. /\ game' = game /\ members' = members /\ observers' = observers
        /\ playerColors' = playerColors /\ readyConnections' = readyConnections
        /\ pendingUndo' = pendingUndo /\ turnRevision' = turnRevision
        /\ turnDeadline' = turnDeadline /\ pausedRemaining' = pausedRemaining
        /\ now' \in Nat
    BY DEF Tick, roomVars, seatVars, timerVars, RoomInv, RoomTypeOK
  <1>2. Players' = Players /\ PlayersFull' = PlayersFull /\ Playing' = Playing
    BY <1>1 DEF Players, PlayersFull, Playing
  <1>3. RoomTypeOK' /\ IsFiniteSet(members') /\ ResultConsistent'
    BY <1>1 DEF RoomInv, RoomTypeOK, ResultConsistent
  <1>4. SeatsConsistent'
    BY <1>1, <1>2 DEF RoomInv, SeatsConsistent
  <1>5. UndoRequestValid' /\ ClockDiscipline'
    BY <1>1, <1>2 DEF RoomInv, UndoRequestValid, ClockDiscipline
  <1>. QED
    BY <1>3, <1>4, <1>5 DEF RoomInv

-----------------------------------------------------------------------------
(* The theorems *)

\* A new room has one observer and nothing else.
LEMMA InitEstablishesInv ==
    ASSUME RoomInit
    PROVE  RoomInv
  <1>1. PICK creator \in Conns : members = {creator}
    BY DEF RoomInit
  <1>2. IsFiniteSet(members) /\ Cardinality(members) = 1
    BY <1>1, FS_Singleton
  <1>3. Players = {} /\ playerColors \in [{} -> Color]
    BY DEF RoomInit, Players
  <1>4. game \in MatchType /\ ResultConsistent /\ game.status = "WAITING"
    <2>1. game \in MatchType
      BY MatchAssumption DEF RoomInit, MatchInit, NewGame, MatchType, Status
    <2>. QED
      BY <2>1, MatchAssumption DEF RoomInit, MatchInit, NewGame, ResultConsistent
  <1>5. RoomTypeOK
    BY <1>1, <1>2, <1>3, <1>4, RoomAssumption DEF RoomInit, RoomTypeOK
  <1>6. SeatsConsistent
    BY <1>3, <1>4 DEF RoomInit, SeatsConsistent
  <1>7. UndoRequestValid /\ ClockDiscipline
    BY <1>4 DEF RoomInit, UndoRequestValid, ClockDiscipline, Playing
  <1>. QED
    BY <1>2, <1>4, <1>5, <1>6, <1>7 DEF RoomInv

\* Every operation keeps the invariant.
LEMMA NextKeepsInv ==
    ASSUME RoomInv, [RoomNext]_roomVars
    PROVE  RoomInv'
  <1>0. MatchInv'
    BY RoomKeepsMatch
  <1>1. ASSUME NEW c \in Conns,
               \/ Join(c) \/ Leave(c) \/ BecomePlayer(c) \/ BecomeObserver(c)
               \/ SetReady(c) \/ MakeMove(c) \/ Resign(c) \/ RequestUndo(c)
               \/ \E accepted \in BOOLEAN : RespondUndo(c, accepted)
        PROVE  RoomInv'
    BY <1>0, <1>1, JoinKeepsInv, LeaveKeepsInv, BecomePlayerKeepsInv,
       BecomeObserverKeepsInv, SetReadyKeepsInv, MakeMoveKeepsInv,
       ResignKeepsInv, RequestUndoKeepsInv, RespondUndoKeepsInv
  <1>2. ASSUME NEW revision \in 0 .. turnRevision, ExpireTurn(revision)
        PROVE  RoomInv'
    BY <1>0, <1>2, ExpireKeepsInv DEF ExpireTurn
  <1>3. CASE Tick \/ UNCHANGED roomVars
    BY <1>3, IdleKeepsInv
  <1>. QED
    BY <1>1, <1>2, <1>3 DEF RoomNext

\* The strengthened invariant holds in every reachable state of a room.
THEOREM RoomInvariant == RoomSpec => []RoomInv
  BY InitEstablishesInv, NextKeepsInv, PTL DEF RoomSpec

\* Every field keeps its type and a room never exceeds its member cap.
THEOREM RoomTypeCorrect == RoomSpec => []RoomTypeOK
  <1>1. RoomInv => RoomTypeOK
    BY DEF RoomInv
  <1>. QED
    BY <1>1, RoomInvariant, PTL

\* Seats, observers, votes and match status agree in every reachable state.
THEOREM SeatsAlwaysConsistent == RoomSpec => []SeatsConsistent
  <1>1. RoomInv => SeatsConsistent
    BY DEF RoomInv
  <1>. QED
    BY <1>1, RoomInvariant, PTL

\* A pending undo request can always be carried out as it was asked.
THEOREM UndoRequestAlwaysValid == RoomSpec => []UndoRequestValid
  <1>1. RoomInv => UndoRequestValid
    BY DEF RoomInv
  <1>. QED
    BY <1>1, RoomInvariant, PTL

\* The clock runs exactly during a round and pauses exactly for a request.
THEOREM ClockDisciplined == RoomSpec => []ClockDiscipline
  <1>1. RoomInv => ClockDiscipline
    BY DEF RoomInv
  <1>. QED
    BY <1>1, RoomInvariant, PTL

\* The room implements a match: its engine is never called where it raises.
THEOREM RoomImplementsMatch == RoomSpec => EngineCallsLegal
  <1>1. RoomInit => MatchInit
    BY DEF RoomInit
  <1>2. RoomInv /\ [RoomNext]_roomVars => [MatchNext]_game
    BY RoomCallsEngine
  <1>. QED
    BY <1>1, <1>2, RoomInvariant, PTL DEF RoomSpec, EngineCallsLegal, MatchSpec
=============================================================================
