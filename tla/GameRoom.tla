------------------------------ MODULE GameRoom ------------------------------
(***************************************************************************)
(* One game room (app/room.py): its members, the two seats, ready votes,   *)
(* the undo negotiation and the turn clock, around one Match.  Every       *)
(* public coroutine runs its body under the room lock without suspending,  *)
(* so each is one step.  A call the code rejects changes nothing and is    *)
(* left out, except the calls that find the turn expired, which apply the  *)
(* timeout before they raise TurnExpiredError.                             *)
(***************************************************************************)
EXTENDS Match, FiniteSets

CONSTANTS Conns,        \* connection ids
          MaxMembers,   \* MAX_ROOM_MEMBERS
          TurnLimit     \* turn_time_limit_sec, None for an untimed room

PendingUndo ==
    [requester : Conns, responder : Conns, requesterColor : Color,
     requestedMoveCount : Nat, undoCount : {1, 2}]

ASSUME RoomAssumption ==
    /\ None \notin Conns
    /\ MaxMembers \in Nat \ {0}
    /\ None \notin Int /\ None \notin PendingUndo
    /\ TurnLimit \in (Nat \ {0}) \cup {None}

VARIABLES
    members,            \* members
    observers,          \* observers
    playerColors,       \* player_colors: connection id -> colour
    readyConnections,   \* ready_connections
    pendingUndo,        \* pending_undo, or None
    turnRevision,       \* turn_revision
    turnDeadline,       \* turn_deadline_monotonic, or None
    pausedRemaining,    \* paused_turn_remaining_sec, or None
    now                 \* time.monotonic()

seatVars  == <<members, observers, playerColors>>
timerVars == <<turnRevision, turnDeadline, pausedRemaining>>
roomVars  == <<game, members, observers, playerColors, readyConnections,
               pendingUndo, turnRevision, turnDeadline, pausedRemaining, now>>

MaxPlayers == 2

-----------------------------------------------------------------------------
(* Queries *)

Players == DOMAIN playerColors

PlayersFull == Cardinality(Players) >= MaxPlayers

ConnectionsFor(color) == {c \in Players : playerColors[c] = color}

\* Slip: the second seat gets the starting colour as well.
FreeColor_AlwaysStarting == IF Cardinality(Players) < MaxPlayers THEN StartingColor ELSE None

\* free_color: the starting colour first.
FreeColor ==
    IF ConnectionsFor(StartingColor) = {} THEN StartingColor
    ELSE IF ConnectionsFor(Opponent(StartingColor)) = {}
         THEN Opponent(StartingColor)
         ELSE None

Seated(c, color) == [p \in Players \cup {c} |-> IF p = c THEN color ELSE playerColors[p]]

Unseated(c) == [p \in Players \ {c} |-> playerColors[p]]

Playing == game.status = "PLAYING"

-----------------------------------------------------------------------------
(* The turn clock.  turn_revision names the turn a timer task was made for. *)

\* Slip: the clock of a finished or discarded round is left running.
ClearTurnTimer_Forgotten == UNCHANGED timerVars

ClearTurnTimer ==
    /\ turnRevision' = turnRevision + 1
    /\ turnDeadline' = None
    /\ pausedRemaining' = None

\* Slip: the paused rest of the turn is ignored.
StartTurnTimer_Full(duration) ==
    /\ turnRevision' = turnRevision + 1
    /\ turnDeadline' = IF TurnLimit = None THEN None ELSE now + TurnLimit
    /\ pausedRemaining' = None

\* Slip: the new turn keeps the revision of the old one.
StartTurnTimer_SameRevision(duration) ==
    /\ UNCHANGED turnRevision
    /\ turnDeadline' = IF TurnLimit = None THEN None ELSE now + duration
    /\ pausedRemaining' = None

StartTurnTimer(duration) ==
    /\ turnRevision' = turnRevision + 1
    /\ turnDeadline' = IF TurnLimit = None THEN None ELSE now + duration
    /\ pausedRemaining' = None

\* Slips: the deadline itself still counts as in time; a turn may be expired
\* while it still runs.
TurnExpired_OffByOne == turnDeadline # None /\ now > turnDeadline
TurnExpired_Early == turnDeadline # None /\ now >= turnDeadline - 1

TurnExpired == turnDeadline # None /\ now >= turnDeadline

\* What follows an accepted move, by a player or by the clock.
AfterMove ==
    IF game'.status = "FINISHED"
    THEN readyConnections' = {} /\ ClearTurnTimer
    ELSE StartTurnTimer(TurnLimit) /\ UNCHANGED readyConnections

\* _expire_turn_locked: Gomoku skips the turn, Othello plays a random legal
\* move.  The engine's own checks are not repeated here: that they would pass
\* is part of EngineCallsLegal.
ExpireTurnLocked ==
    /\ TurnExpired
    /\ \/ /\ GameType = "GOMOKU"
          /\ game' = SkipTurn(game, game.turn)
          /\ StartTurnTimer(TurnLimit)
          /\ UNCHANGED readyConnections
       \/ /\ GameType = "OTHELLO"
          /\ OthelloMove(game.turn)
          /\ AfterMove
    /\ UNCHANGED <<seatVars, pendingUndo, now>>

-----------------------------------------------------------------------------
(* Members and seats *)

\* RoomManager publishes a room with its creator inside as an observer.
RoomInit ==
    /\ \E creator \in Conns : members = {creator}
    /\ observers = members
    /\ playerColors = [c \in {} |-> "WHITE"]
    /\ MatchInit
    /\ readyConnections = {}
    /\ pendingUndo = None
    /\ turnRevision = 0
    /\ turnDeadline = None
    /\ pausedRemaining = None
    /\ now = 0

\* Slip: the member cap is not looked at.
Join_Uncapped(c) ==
    /\ members # {} /\ c \notin members
    /\ members' = members \cup {c}
    /\ observers' = observers \cup {c}
    /\ UNCHANGED <<game, playerColors, readyConnections, pendingUndo, timerVars, now>>

\* The lobby lets in only a connection that is in no room, and only while the
\* room is registered, that is while it has a member.
Join(c) ==
    /\ members # {} /\ c \notin members
    /\ Cardinality(members) < MaxMembers
    /\ members' = members \cup {c}
    /\ observers' = observers \cup {c}
    /\ UNCHANGED <<game, playerColors, readyConnections, pendingUndo, timerVars, now>>

\* A leaving player discards the round; a leaving observer disturbs nothing.
Leave(c) ==
    /\ c \in members
    /\ members' = members \ {c}
    /\ observers' = observers \ {c}
    /\ playerColors' = Unseated(c)
    /\ IF c \in Players
       THEN /\ readyConnections' = {}
            /\ pendingUndo' = None
            /\ Discard
            /\ ClearTurnTimer
       ELSE /\ readyConnections' = readyConnections \ {c}
            /\ UNCHANGED <<game, pendingUndo, timerVars>>
    /\ UNCHANGED now

\* Slip: a vote given for another opponent survives.
ChangeRole_KeepsVotes ==
    /\ ~Playing
    /\ IF game.status = "FINISHED" THEN Discard ELSE UNCHANGED game
    /\ UNCHANGED <<members, readyConnections, pendingUndo, timerVars, now>>

\* A change of roles withdraws the votes and a finished result.
ChangeRole ==
    /\ ~Playing
    /\ readyConnections' = {}
    /\ IF game.status = "FINISHED" THEN Discard ELSE UNCHANGED game
    /\ UNCHANGED <<members, pendingUndo, timerVars, now>>

BecomePlayer(c) ==
    /\ c \in members \ Players
    /\ FreeColor # None
    /\ ChangeRole
    /\ observers' = observers \ {c}
    /\ playerColors' = Seated(c, FreeColor)

BecomeObserver(c) ==
    /\ c \in Players
    /\ ChangeRole
    /\ playerColors' = Unseated(c)
    /\ observers' = observers \cup {c}

-----------------------------------------------------------------------------
(* Rounds *)

\* Slip: the colours alternate whoever lost.
NextRoundColors_Alternate == [c \in Players |-> Opponent(playerColors[c])]

\* _assign_next_round_colors: the loser of the finished round opens the next.
NextRoundColors ==
    LET losers == ConnectionsFor(game.loser)
        winners == ConnectionsFor(game.winner)
    IN  IF /\ game.winner # None /\ game.loser # None
           /\ game.loser # StartingColor
           /\ losers # {} /\ winners # {}
        THEN [c \in Players |-> IF c \in losers THEN StartingColor
                                ELSE IF c \in winners THEN Opponent(StartingColor)
                                ELSE playerColors[c]]
        ELSE playerColors

SetReady(c) ==
    /\ c \in Players /\ PlayersFull
    /\ pendingUndo = None
    /\ ~Playing
    /\ IF Cardinality(readyConnections \cup {c}) < MaxPlayers
       THEN /\ readyConnections' = readyConnections \cup {c}
            /\ UNCHANGED <<game, playerColors, pendingUndo, timerVars>>
       ELSE /\ playerColors' = NextRoundColors
            /\ game' = NewGame("PLAYING")
            /\ StartTurnTimer(TurnLimit)
            /\ readyConnections' = {}
            /\ pendingUndo' = None
    /\ UNCHANGED <<members, observers, now>>

MakeMove(c) ==
    /\ c \in Players
    /\ pendingUndo = None
    /\ \/ ExpireTurnLocked
       \/ /\ ~TurnExpired
          /\ PlayersFull \/ game.status # "WAITING"
          /\ MayMove(playerColors[c])
          /\ EngineMove(playerColors[c])
          /\ AfterMove
          /\ UNCHANGED <<seatVars, pendingUndo, now>>

Resign(c) ==
    /\ c \in Players
    /\ Playing
    /\ pendingUndo = None
    /\ \/ ExpireTurnLocked
       \/ /\ ~TurnExpired
          /\ game' = Finished(game, Opponent(playerColors[c]), playerColors[c])
          /\ readyConnections' = {}
          /\ ClearTurnTimer
          /\ UNCHANGED <<seatVars, pendingUndo, now>>

-----------------------------------------------------------------------------
(* Undo negotiation, Gomoku only *)

\* Slip: the colours of the last moves are not compared, so that a skipped turn
\* makes one player's request take back another's move.
UndoCount_IgnoresSkips(color) ==
    LET n == Len(game.history)
    IN  IF game.turn = color THEN IF n >= 2 THEN 2 ELSE None
        ELSE IF n >= 1 THEN 1 ELSE None

\* How many moves the player of this colour may ask back: its own latest move,
\* with the opponent's reply on top of it when there is one; None if neither.
UndoCount(color) ==
    LET h == game.history
        n == Len(h)
    IN  IF game.turn = color
        THEN IF n >= 2 /\ h[n] = Opponent(color) /\ h[n - 1] = color THEN 2 ELSE None
        ELSE IF n >= 1 /\ h[n] = color THEN 1 ELSE None

\* Slip: the clock runs on while the request waits.
PauseTurnTimer_KeepsRunning == UNCHANGED timerVars

\* The clock stops while the opponent thinks about the request.
PauseTurnTimer ==
    IF turnDeadline # None
    THEN /\ pausedRemaining' = IF turnDeadline > now THEN turnDeadline - now ELSE 0
         /\ turnRevision' = turnRevision + 1
         /\ turnDeadline' = None
    ELSE UNCHANGED timerVars

RequestUndo(c) ==
    /\ c \in Players
    /\ GameType = "GOMOKU"
    /\ PlayersFull /\ Playing
    /\ pendingUndo = None
    /\ readyConnections = {}
    /\ \/ ExpireTurnLocked
       \/ /\ ~TurnExpired
          /\ UndoCount(playerColors[c]) # None
          /\ \E responder \in ConnectionsFor(Opponent(playerColors[c])) :
               pendingUndo' = [requester |-> c, responder |-> responder,
                               requesterColor |-> playerColors[c],
                               requestedMoveCount |-> Len(game.history),
                               undoCount |-> UndoCount(playerColors[c])]
          /\ PauseTurnTimer
          /\ UNCHANGED <<game, seatVars, readyConnections, now>>

\* A rejection gives the turn back the time it had left; an acceptance starts
\* the requester's turn afresh.
RespondUndo(c, accepted) ==
    /\ c \in Players
    /\ pendingUndo # None /\ c = pendingUndo.responder
    /\ Len(game.history) = pendingUndo.requestedMoveCount
    /\ pendingUndo' = None
    /\ IF accepted
       THEN /\ game' = UndoMoves(game, pendingUndo.undoCount, pendingUndo.requesterColor)
            /\ StartTurnTimer(TurnLimit)
       ELSE /\ IF pausedRemaining # None THEN StartTurnTimer(pausedRemaining)
                                         ELSE UNCHANGED timerVars
            /\ UNCHANGED game
    /\ UNCHANGED <<seatVars, readyConnections, now>>

-----------------------------------------------------------------------------
(* Time *)

\* expire_turn(revision), called by a timer task when its sleep is over.
ExpireTurn(revision) == revision = turnRevision /\ ExpireTurnLocked

Tick == now' = now + 1 /\ UNCHANGED <<game, seatVars, readyConnections, pendingUndo, timerVars>>

RoomNext ==
    \/ \E c \in Conns :
          \/ Join(c) \/ Leave(c) \/ BecomePlayer(c) \/ BecomeObserver(c)
          \/ SetReady(c) \/ MakeMove(c) \/ Resign(c) \/ RequestUndo(c)
          \/ \E accepted \in BOOLEAN : RespondUndo(c, accepted)
    \/ \E revision \in 0 .. turnRevision : ExpireTurn(revision)
    \/ Tick

RoomSpec == RoomInit /\ [][RoomNext]_roomVars

-----------------------------------------------------------------------------
(* Properties *)

\* Every field holds a value of its kind, and the room never outgrows its cap.
RoomTypeOK ==
    /\ game \in MatchType
    /\ members \in SUBSET Conns /\ Cardinality(members) <= MaxMembers
    /\ observers \in SUBSET Conns
    /\ playerColors \in UNION {[S -> Color] : S \in SUBSET Conns}
    /\ readyConnections \in SUBSET Conns
    /\ pendingUndo \in PendingUndo \cup {None}
    /\ turnRevision \in Nat
    /\ turnDeadline \in Nat \cup {None}
    /\ pausedRemaining \in Nat \cup {None}
    /\ now \in Nat

\* Members are split into seats and observers, no colour is held twice, votes
\* come from the seated pair only and never both stay recorded, and a live or
\* a finished match always belongs to two seated players (join, leave,
\* become_player, become_observer and set_ready together keep this).
SeatsConsistent ==
    /\ members = Players \cup observers
    /\ Players \cap observers = {}
    /\ \A p, q \in Players : playerColors[p] = playerColors[q] => p = q
    /\ readyConnections \subseteq Players
    /\ readyConnections # {} => PlayersFull /\ ~Playing
    /\ readyConnections # Players \/ Players = {}
    /\ game.status # "WAITING" => PlayersFull

\* A pending undo request is always one that respond_undo can carry out: the
\* round is still running, requester and responder still hold opposite seats,
\* and the moves it would take back are still the last ones on the board.  In
\* particular "The game changed after the request." can never be raised.
UndoRequestValid ==
    pendingUndo # None =>
        LET h == game.history
            n == pendingUndo.requestedMoveCount
            k == pendingUndo.undoCount
        IN  /\ GameType = "GOMOKU"
            /\ Playing
            /\ {pendingUndo.requester, pendingUndo.responder} \subseteq Players
            /\ playerColors[pendingUndo.requester] = pendingUndo.requesterColor
            /\ playerColors[pendingUndo.responder] = Opponent(pendingUndo.requesterColor)
            /\ Len(h) = n /\ k <= n
            /\ h[n - k + 1] = pendingUndo.requesterColor
            /\ k = 2 => h[n] = Opponent(pendingUndo.requesterColor)

\* The clock of a timed room runs exactly while a round is being played, and
\* is held exactly while an undo request waits for its answer.
ClockDiscipline ==
    /\ turnDeadline # None <=> /\ TurnLimit # None
                               /\ Playing /\ pendingUndo = None
    /\ pausedRemaining # None <=> /\ TurnLimit # None
                                  /\ Playing /\ pendingUndo # None

\* The room calls its engine only where the engine accepts the call: no
\* timeout skips a finished match or the wrong turn, no undo runs past the
\* first move (app/room.py against the guards of app/game.py).
EngineCallsLegal == MatchSpec

\* Whoever lost the last round opens the next one, and only a decisive result
\* changes colours (set_ready, _assign_next_round_colors).
LoserOpensNextRound ==
    [][~Playing /\ Playing' =>
         IF game.winner # None
         THEN \A p \in Players :
                playerColors'[p] = StartingColor <=> playerColors[p] = game.loser
         ELSE playerColors' = playerColors]_roomVars

\* A vote to start holds for the opponent it was given for: when the pair on
\* the seats changes, no vote remains.
VotesDieWithThePair ==
    [][Players' # Players => readyConnections' = {}]_roomVars

\* Moves disappear from a running match only by an accepted request, which
\* takes back exactly one move of the requester, the oldest one removed, and
\* gives the requester the turn.
UndoTakesBackOwnMove ==
    [][Playing /\ Playing' /\ Len(game'.history) < Len(game.history) =>
         LET kept == Len(game'.history)
             mine == pendingUndo.requesterColor
         IN  /\ pendingUndo # None
             /\ game'.history = SubSeq(game.history, 1, kept)
             /\ game.history[kept + 1] = mine
             /\ \A i \in kept + 2 .. Len(game.history) : game.history[i] # mine
             /\ game'.turn = mine]_roomVars

\* A Gomoku stone never lands after its deadline, however late the timer task
\* runs (make_move expires the turn first).
NoStoneAfterDeadline ==
    [][GameType = "GOMOKU" /\ Len(game'.history) > Len(game.history)
         => turnDeadline = None \/ now < turnDeadline]_roomVars

\* A revision never names two turns: a new deadline, a stopped clock or a
\* change of a running match always comes with a new revision, so a timer task
\* made for an earlier turn is recognised (expire_turn).
RevisionNamesTurn ==
    [][(turnDeadline' # turnDeadline) \/ (Playing /\ game' # game)
         => turnRevision' > turnRevision]_roomVars
=============================================================================
