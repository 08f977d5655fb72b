# A TLA+ model of the Gomoku / Othello server

This directory models the server under `src/`: a FastAPI WebSocket server where clients
log in, meet in rooms, and play Gomoku (with Renju restrictions) or Othello against each
other, with observers, ready votes, undo requests and a turn clock.

## 1. The system

Within a server one asyncio event loop runs everything except the database calls, which
run in worker threads; the operator's window runs on a thread of its own and starts and
stops servers. Three facts shape all of its behaviour:

* a coroutine runs undisturbed until it awaits something that is not ready. The room
  lock and the registry lock are never held across such an await, so every operation of
  a room or of the registry is one atomic step;
* every *send* may suspend. A handler changes the room first and announces the change
  afterwards, in several messages; other handlers and timer tasks run in between;
* the messages of one connection are handled one at a time (`_message_loop`).

| component | source | state | operations | what makes it correct |
|---|---|---|---|---|
| match engine | `app/game.py`, `app/othello.py` | board, turn, status, winner, loser, history | make_move, skip_turn, undo_moves, resign, reset | a turn exactly while not finished, a result exactly when finished; every call is made where the engine accepts it |
| Renju rules | `app/rules.py` | none (pure) | evaluate_move, classify_forbidden, forbidden_points | agrees with the definition of exact five, overline, double four, double three at every size |
| game room | `app/room.py` | members, observers, seats and colours, ready votes, pending undo, turn clock, the match | join, leave, become_player, become_observer, set_ready, make_move, resign, request_undo, respond_undo, expire_turn | seats, votes, round, request and clock always fit each other; colours move only to let the loser open; an undo takes back the requester's own stone; no turn is lost early or lasts longer |
| announcements and timers | `app/main.py`, `app/connection.py` | timer tasks, handlers in flight, what each client was last sent | one handler per message type, disconnect cleanup, the timer task | everybody ends up seeing the match as it is; a result reaches the players; a running clock has its timer; an expired turn is ended |
| lobby and registry | `app/room_manager.py` | rooms, names, id counter, sessions' room | create_room, join_room, leave_room, remove_room, list | names and rooms in bijection, a session's room is the room that holds it, no empty room stays |
| connection registry | `app/connection.py` | sessions | connect, disconnect, send, drop a dead socket | a dead socket is eventually forgotten everywhere |
| accounts | `app/account_repository.py`, `app/main.py` | accounts table, session identity | create_account, login, delete_account | an answered account stays; one account per id; none is deleted under a logged-in client |
| chat limit | `app/main.py` | times of the last accepted messages | accept or refuse | never more than the limit in any window, and nobody held back for longer |
| server controller and its window | `gui/controller.py`, `gui/server_gui.py` | thread, server, error, shown state | start, stop, delete, poll, close | no second server beside a live one that was not given up; every failure shown; every server ends at last |
| protocol, configuration, text checks, widgets | `app/protocol.py`, `app/config.py`, `server.py`, ... | none or fixed | parsing, formatting, layout | not modelled: stateless |

Interactions: handlers call the registry (join, leave) and the room (everything else);
rooms call their engine; handlers and timer tasks share `Gateway.timer_tasks` and cancel
each other through `_sync_turn_timer`; the GUI thread calls the account repository and
reads the registries; account calls run in worker threads while their handler waits.

What is hard: announcements of several handlers interleave and may be cancelled; a timer
races the very move it was waiting for; undo requests stop and restart the clock; a seat
may change hands between a vote or a request and its answer; role changes, departures
and results interact with the colours of the next round. `PROJECT.json` lists each hazard
with its line and the property that watches it.

## 2. Modules

```
Board ─┬─ Match ── GameRoom ─┬─ RoomClock ── MCGameRoom               run room_gomoku
       │                     ├─ Gateway ── MCGateway ── MCGateways     runs gateway, gateway_*
       │                     │                          └─ GatewayProofs (with RoomStepProofs)
       │                     └─ GameRoomProofs ── RoomStepProofs (with RoomClock)
       ├─ OthelloGame ── OthelloProofs                                 run engine_othello
       └─ GomokuBoard ─┬─ GomokuGame ─┬─ GomokuProofs
                       │              └─ RenjuGame (with RenjuRules)
                       │                 ├─ MCGomoku                  runs engine_gomoku, engine_stuck
                       │                 └─ RenjuProofs (with GomokuProofs)
                       └─ RenjuRules ── MCRenju                       runs renju_*
Lobby ─┬─ MCLobby                                                     run lobby
       └─ LobbyProofs
ChatRateLimit ─── Sessions ─┐
                            ├─ Server ─┬─ MCServer                    runs server, account_race
ServerController ───────────┘          └─ ServerProofs
```

A line to the right is EXTENDS, as is "with". MCGateways also instantiates MCGateway for
the other kinds of room. For refinements the two engines, OthelloGame and GomokuGame, also
instantiate Match, and ServerProofs ServerController.

### Board
What the engines share: colours, points, and the four line directions.

### Match
The engine as its room sees it. `game` is a record of status, turn, winner, loser and
the sequence of colours that moved. The board is abstracted away: what a move leads to is
a choice among the outcomes the code can produce after that many moves. For Gomoku the
mover may win at any move (`GomokuGame` decides when), a full board is a draw unless won,
and only the constrained (starting) colour can be left without a playable point. For
Othello the match may go on with either colour (a forced pass keeps the turn) or end with
either winner or none. `MatchSpec` is the abstract specification of an engine: every
change is `Start` (reset to play), `Discard` (reset to wait), `Move`, `Skip`, `Undo` or
`Resignation`, each with the guard under which the code accepts the call instead of
raising. `undo_moves` refuses counts beyond the history; `skip_turn` and `make_move`
refuse the wrong colour; all but reset refuse a match that is not being played.

### OthelloGame
`app/othello.py` with its board: flips along rays, forced passes, the running disc count
(`_move_count`) from which a full board is told, results by discs, resignation, reset.
`movers` records who moved, for the refinement to Match only. Skips and undo do not
exist: the room refuses them for Othello.

### GomokuBoard, GomokuGame, RenjuRules, RenjuGame
`GomokuBoard` holds what engine and rule share, the board and the constrained colour.
`GomokuGame` is `app/game.py` over any rule, as class `GomokuGame` is: `Wins` and
`ForbiddenPoints` are constant operators. The cached forbidden points are state of their
own (`forbidden`), because what can go wrong is that they are stale. `RenjuRules` is
`app/rules.py`: windows of `_WINDOW_RADIUS` points to either side as sets of offsets,
runs, fours, straight fours, and the judgement of threes, with the prefilter that decides
whether a point is judged at all. A three is open if a point that completes it is not
itself forbidden, which the code finds out by calling itself down to `MAX_JUDGE_DEPTH`;
here `Blocked` is that recursion, a recursive function of board, point and depth that
returns the forbidden points among those that complete a three, and everything else is
told with its result as a parameter. The board is a variable of the module so that its
properties can be stated of any board; `RenjuGame` puts the two together, with the board of
the engine, and says what judging one stone at a time must mean for the whole board. Lists
of indices become sets of offsets; what counts is which offsets there are. The operations
`start` and `suspend` and the rule `FreeStyleRule` are used by nothing in `app/` and left
out. `UndoMoves` takes the counts the room asks for (`Undoable`): the last move of the
requester, and the answer to it.

### GameRoom
The state of one `GameRoom` object, plus `now` for `time.monotonic()`. One action per
public coroutine. `ExpireTurnLocked` is the step that `make_move`, `resign` and
`request_undo` take first when they find the turn expired; the code then raises
`TurnExpiredError`, so the rest of the call does not happen. `ExpireTurn(revision)` is
the timer's call. A rejected call changes nothing and has no action.
Branches the code has and the invariants show dead are left out and stay out of reach:
`_expire_turn_locked` with no current turn or with no legal Othello move (a running
clock implies a live turn, `ClockDiscipline`; a live Othello turn has a move,
`TurnCanMove`), "The other player is not connected." and "The game changed after the
request." (`UndoRequestValid`), a free seat with no colour (`SeatsConsistent`).
Each operation reads the clock once: the code reads it twice in `request_undo`, a
distance of microseconds that the model takes as none.

### RoomClock
GameRoom with one history variable, `spent`: how long the clock has run in the current
turn. It exists to state what pausing and restarting must preserve.

### Gateway
The handlers around one room, with their suspensions. `script[c]` holds what connection
`c`'s handler will still do when it resumes: send `game_state` to the room (`state`) or
to itself (`stateToSelf`), `_sync_turn_timer` (`sync`), the same followed by `game_over`
(`syncThenOver`: no suspension lies between the two), `timer_tasks.pop` when the room is
gone (`dropTimer`). The room call happens with the handler's first step and the first
messages nobody's state depends on (`move_result`, `left_room`, `room_members`,
`room_list`, ...) are represented by the suspension they cause. `timer` is the entry of
`timer_tasks`: a task that sleeps until `deadline` with the `revision` it was made for,
or, once it has ended a turn, the announcements it still has to make. `_sync_turn_timer`
replaces the entry, which *cancels* a task in the middle of its announcements unless it
is the caller. `view[c]` is the match in the last `game_state` sent to `c`; `heardOver`
are those sent the `game_over` of the present result.
`HandleDisconnect` is the end of an endpoint: with `CancelEndpoints` the ASGI server may
cancel the handler in flight at any suspension (the comment at `main.py:167-169` says
servers do); without it a peer goes away between two messages, which is the same as
leaving.
A broadcast is delivered at its snapshot: `_send_many` starts one send per member in the
same turn of the event loop. A timer that wakes early and re-registers itself is a
stutter and is left out.

### Lobby
The other side of the server: the room registry, the connection registry and the room
list, with every room reduced to its name, members, players and status. `script[c]` is
again what the handler of `c` has still to send. A peer may vanish at any moment
(`Vanish`); a send to it may then be noticed and drop its session (`Send`, which is
`_drop_dead`), while its endpoint ends later and cleans up (`Disconnect`), possibly
cancelled in the middle of a handler. A login waits for its worker thread
(`LoginResult`), and its connection may be gone when the answer comes. Consecutive
messages to the same audience are one step. A list is seen as of its snapshot: the
snapshot and the targets of a broadcast are taken without a suspension; the sends of a
broadcast run as tasks, so a list sent directly to a newcomer may overtake them, but the
change that list shows is broadcast afterwards, so that the last list is the same.
Left out: rejected commands, which send one error to their sender; `remove_room` and
`update_settings`, which nothing in `app/` calls; the list sent after a match that the
turn clock ended (part of what `gateway_result_lost` is about). The branch "The room
disappeared" of `_require_room` is out of reach (`SessionsMatchRooms`).
`account_request_pending` is never seen set by its own connection, whose messages are
handled one at a time.

### ChatRateLimit
`_enforce_chat_rate_limit`: per connection a deque of times, popped from the left before
each decision, and a log of all accepted lines as a history variable. The pops are one
choice of how many, told by the condition of the loop. Time is in whole units, which
keeps the boundary of the window within reach.

### Sessions
Connections as accounts see them, and the table. A request runs in a worker thread in the
steps in which others can come between: `hashing` then INSERT for create_account; the
SELECT, whose transaction is over before the password is verified, then the verification
for login. A row has a number of its own, so that an id that was deleted and created
again is a different account. The handler resumes when the worker is done
(`RequestAnswered`): `session.account_id`, `session.nickname` and the answer come without
a suspension and are one step. A cancelled endpoint still waits for its worker
(`EndpointMayEnd`; anyio shields the thread) and then ends without an answer.
`account_request_pending` is set around the wait; as the messages of a connection are
handled one at a time, nobody sees it set, and the model has a handler busy instead. That
a client is in no room when it creates an account or logs in follows from `user = None`:
a room asks for an account. A database error is a refusal. Rooms are reduced to being in
one or not, which is what chat asks; the rest is Lobby's.

### ServerController
The controller with its window, and the server threads. `runs` are all threads of the
process, each with the phase uvicorn is in (external) and the two flags `stop()` sets;
`current` is the one `_thread`, `_server` and `_app` belong to. `stop()` blocks the GUI
thread in two joins with a time limit each: `gui` says where it is. `error` holds the run
whose failure `_error` is: `_serve` of any thread writes it, also of one that the
controller has forgotten. `state` is what the window shows, and the buttons follow it, not
the controller. `_on_close` ends the process after its `stop()`; `ProcessRestarts` is also
a crash at any moment. `force_exit` has no effect of its own: it spares uvicorn its wait
for the connections, but `asyncio.run` then waits for the same tasks. Left out:
`ServerAlreadyRunningError` (out of reach, `ControllerSound`), a thread that cannot be
started, and GUI reads that fail.

### Server
The two together: connections belong to the run that serves them, a draining run closes
its connections and ends when the last endpoint has, and the GUI thread deletes accounts
in two steps, a look at the online users of the controller's server and the DELETE
(`DeleteChecks`, `DeleteRuns`). The operator chooses among rows of the table, so that
NOT_FOUND is not reached. `exposed` is a history variable: the logins whose row was
already read while a deletion of the same id was under way.

### The MC modules
The instances for TLC and their bounds. `MCGateway` starts with both seats taken and the
other clients observing, and `MCGateways` joins three such instances, which differ in the
engine, the clock and whether handlers are cancelled, in one run: a behaviour keeps the
`kind` it starts with. `MCServer` joins two kinds of behaviour the same way: an operator
and clients around a new server, and connections in a room that chat. `MCLobby` starts with one room and everybody else logged in: states
every server passes through, chosen so that the bounded number of commands is spent on
what matters. `MCGomoku` fixes the points of the first moves. `MCRenju` is not a game but
an enumeration of positions: stones of both colours on the first row, and own stones on
two crossing lines.

### Definitions named `X_<Slip>`
Beside some definitions stands a wrong version of it, commented `Slip`. No specification
uses them. Each shows that a property notices that slip; `PROJECT.json` pairs them.

## 3. Properties and runs

| run | question | bounds |
|---|---|---|
| `room_gomoku` | do seats, votes, rounds, undo and clock of a timed Gomoku room always fit together? | 4 clients, cap 3 (so the cap is met and a seat changes hands), 4 points, limit 2, clock to 5, 9 revisions |
| `gateway` | who is left with an old picture, an unknown result, no timer or a stale one, and is every expired turn ended, whatever the order of announcements? | three kinds of room, 3 clients and 2 points each: untimed (9 commands); timed Gomoku with cancelled handlers and timed Othello (limit 1, clock to 3, 5 commands) |
| `gateway_result_lost` | *fails*: is the result of a match ended by the clock announced? | the Othello room of `gateway` |
| `gateway_cancelled` | *fails*: do the others learn of a departure whose endpoint was cancelled? | the untimed room of `gateway`, with cancellation |
| `lobby` | do sessions, rooms, names and room lists agree when peers are lost in mid handler? | 3 clients, 2 names, rooms of 2, 4 commands or losses |
| `server` | are accounts kept, failures shown, servers ended and chat limited, through starts, stops, faults and restarts? | 2 connections, 1 id, 2 server runs, 7 requests or faults; chat: window and limit 2, 7 requests, clock to 6 |
| `account_race` | *fails*: is no account deleted under a client logged in to it? | as `server` |
| `engine_othello` | is the Othello engine right, and the engine a room assumes? | 4x4, every game, any number of rounds |
| `engine_gomoku` | are board, history, forbidden points and results of Gomoku in step under moves, skips and undo, is no row overlooked, and does only a skip leave a colour stuck? | 4x4, rows of 3, the last five points of the board in any order |
| `engine_stuck` | *fails*: is the game over when the constrained colour has nowhere to play? | 3x3, rows of 3 |
| `renju_scan` | are rows and fours judged as they stand, and is the prefilter sound? | 8x8, win length 5, window 6; every pattern on a row with up to two opposing stones, or of own stones on two crossing lines |
| `renju_long_rows` | *fails*: are rows judged as they stand, whatever the win length? | 9x9, win length 7, window 6 |

Room: `SeatsConsistent`, `UndoRequestValid`, `ClockDiscipline`, `ResultConsistent`,
`ClockConserved` (invariants); `EngineCallsLegal` (the room implements `MatchSpec`),
`LoserOpensNextRound`, `VotesDieWithThePair`,
`UndoTakesBackOwnMove`, `NoStoneAfterDeadline`, `RevisionNamesTurn`,
`TurnLostOnlyWhenSpent` (action properties). Gateway: `UntimedRoomInformed`,
`TimerArmed`, `SleepingTimerIsCurrentOrStale` (invariants) and
`ExpiredTurnEnds` (liveness). Lobby: `SessionsMatchRooms`, `RegistrySound`,
`RoomListsConverge` (invariants), `GoneMeansGone` (liveness). Server: `RateBounded`,
`ControllerSound`, `AnsweredAccountsKept`, `OrphanedOnlyInRace` (invariants),
`FailureShown`, `ForgottenServersEnd` (liveness). Engines:
`CountMatchesBoard`, `TurnCanMove`, `BoardMatchesHistory`, `ForbiddenFresh`,
`NoRowOverlooked`, `NeverStuckOnTurn` (invariants), `PassesAndEndsOnlyWhenForced`,
`ResultsAreDue`, `StuckOnlyBySkip` (action properties), `ImplementsMatch` (refinement). Rules:
`RowsJudgedExactly`, `FoursJudgedExactly`, `PrefilterSound`. Each is explained where it
is defined. The type invariant of a module is the first conjunct of one of its properties
(`SleepingTimerIsCurrentOrStale`, `RegistrySound`, `CountMatchesBoard`,
`BoardMatchesHistory`, `ControllerSound`, `AnsweredAccountsKept`).

Why the bounds suffice. Four points give a room rounds with a win, a draw, an undo of
one and of two moves, an undo after a skipped turn, and several rounds in a row; a limit
of two gives a request before the deadline with the turn partly used; three members let
a seat pass to a third player between vote and vote. Two points in the gateway give a
round with a move that does not finish it and one that does. Four commands in the lobby
let an id be reused, if it could be, and let a peer be lost while another handler is
announcing to it; the first room lets them start a round. Two server runs are one that
is given up and one beside it; seven requests are enough for a start, a creation, a
login from another connection and a deletion, or for a stop with a request still in its
worker and a second start; two connections race for one id. In a chat of seven lines
with a window of two, lines leave the deque at, before and after the boundary. A 4x4 Othello board has passes
of either colour, games that end on a full board and before, and wipe-outs. The Gomoku
opening leaves shapes on which both colours can win, forbidden points come and go, and
the board fills. A line of eight points puts a stone at every distance from the edges
and lets a row outgrow the window of six points to either side, the case that matters; two
opposing stones can close a row at both ends.
Rooms may become empty, commands may run out and boards may be full: those instances
stop (`CHECK_DEADLOCK FALSE`).

Fairness: weak fairness of `Resume`, `TimerWakes` and `TimerAnnounces` in the gateway,
of `Resume` and `Disconnect` in the lobby, and in the server of the workers, endpoints,
draining and GUI steps and of the server threads (`ByWorker`, `ByEndpoint`,
`ByDraining`, `ByServer`, `ByGui`). The event loop runs every ready task, every
sleep ends, a send to a dead peer returns as undelivered, and a receive from one fails at
last; a worker comes to the end of its query; a join has a time limit; the GUI loop
polls. Faults (`ByFault`), clients and the operator are under no obligation. Clients are never obliged to send anything, so in particular an unanswered undo
request stops a timed game for ever: the code has no time limit for the answer.

### What the failing runs show
* `gateway_result_lost` (`docs/gomoku-turn-timer-server-contract.md:81-86`): the task that
  announces a timeout is still registered in `timer_tasks`, so any other handler that
  reaches `_sync_turn_timer` (`main.py:816`) cancels it. When the automatic move ended
  the match, nobody is sent `game_over`.
* `gateway_cancelled` (`main.py:167-169`): `_handle_leave_room` takes the session out of
  the room before it notifies; cancelled in between, the disconnect cleanup finds no room
  and the remaining members are left with the discarded position.
* `engine_stuck` (`README.md:462-463`): a move that leaves the constrained colour no
  point ends the game, but a turn passed by the clock does not (`game.py:399-407`). The
  constrained colour then has the turn with every free point forbidden. `StuckOnlyBySkip`
  (run `engine_gomoku`) says that this is the only way: no move and no undo does it.
* `account_race` (`gui/controller.py:195`, `:203`): `delete_account` looks for sessions of
  the account and deletes the row afterwards, while a login that has read the row is still
  verifying in its worker thread. The login is answered, and the client is logged in to an
  account that is gone. `OrphanedOnlyInRace` (run `server`) says that this is the only way.
* `renju_long_rows` (`rules.py:173`, `rules.py:50-51`): the window of six points is wide
  enough for every win length up to six (`RowsAlwaysExact`, section 4); the configuration
  accepts rows up to the board's size (`config.py:92-98`). With seven, a row of eight that
  is completed at its end counts as an exact seven and wins instead of being forbidden.

Also met: with the smallest row length the configuration accepts, two
(`config.py:35`), every free point of an empty board is a double four for the constrained
colour, which therefore cannot open. A thread that `stop()` has given up still writes
`_error` when it fails, so that the error shown after the next run may be its and not
"Failure of the last run" (`controller.py:133`); `ControllerSound` allows exactly that. For
the same reason a second server may be started beside one that was given up, although
`start()` says pressing it twice can never do so. `_poll_status` reschedules itself as its
last statement, so a read of the database that raises ends the polling for good. No run is
about these.

## 4. Proofs

Checked by TLAPS for all values of the constants: any number of connections, member cap,
turn limit, board area or size, game type, starting colour, room names, account ids, chat
window and limit, number of server runs. The assumptions are those of the modules
(`MatchAssumption`, `RoomAssumption`, `GatewayAssumption`, `LobbyAssumption`,
`ChatAssumption`, `SessionsAssumption`, `GomokuAssumption`, `OthelloAssumption`, ...): the
constants have the right kinds, an Othello board has an even size, and `None` is different
from everything else. Three theorems about the Gomoku engine also suppose `RuleSound`, that
the rule forbids free points only, which the Renju rule does (`RenjuIsSound`). Four about
the Renju rule suppose `WinLength <= WindowRadius`: the code has a window of six and a
default win length of five, and for a greater win length the statements are false
(`renju_long_rows`). `NoOverlineEver` and `NoRowEverOverlooked` also suppose `UnderRenju`,
that the engine wins and forbids by that rule, as `MCGomoku`'s runs do. The theorems about
rooms without a clock suppose just that, and that handlers are not cancelled; with either,
they are false (`gateway_result_lost`, `gateway_cancelled`). `UntimedRoomAlwaysInformed` is
about the rooms the run starts from, whose seats `SeatsAssumption` asks to be two
connections that are not among the observers.

| module | theorems |
|---|---|
| `GameRoomProofs` | `MatchConsistent`: `MatchSpec => []ResultConsistent`; `RoomInvariant`: `RoomSpec => []RoomInv`, and from it `RoomTypeCorrect`, `SeatsAlwaysConsistent`, `UndoRequestAlwaysValid`, `ClockDisciplined`; `RoomImplementsMatch`: `RoomSpec => EngineCallsLegal` |
| `RoomStepProofs` | `RevisionAlwaysNamesTurn`, `NoStoneEverLate`, `UndoAlwaysTakesOwnMove`, `VotesAlwaysDieWithThePair`, `LoserAlwaysOpens`; `ClockAlwaysConserved` and `TurnNeverLostEarly` for `ClockSpec` |
| `GatewayProofs` | `GatewayImplementsRoom`: `GatewaySpec => RoomSpec`; `GatewayInvariant`, and from it `TimerAlwaysArmed`, `TasksAlwaysCurrentOrStale`; for rooms without a clock whose handlers are not cancelled `UntimedViewsAlwaysConverge`, `UntimedResultAlwaysAnnounced`, and `UntimedRoomAlwaysInformed` for the run's `AnySpec` |
| `GomokuProofs` | `GomokuInvariant`, `ForbiddenAlwaysFresh`, `GomokuIsAMatch`; for a sound rule `BoardAlwaysMatchesHistory`, `ResultsAlwaysDue`, `StuckOnlyAfterSkips` |
| `RenjuProofs` | for win lengths up to the window's radius `RowsAlwaysExact`, `FoursAlwaysExact`, `NoOverlineEver`, `NoRowEverOverlooked`; for all `PrefilterAlwaysSound` |
| `OthelloProofs` | `OthelloInvariant`, and from it `MoveCountIsDiscCount`, `TurnAlwaysPlayable`; `PassesAndEndsOnlyForced`, `OthelloIsAMatch` |
| `LobbyProofs` | `SessionsAlwaysMatchRooms`, `RegistryAlwaysSound`, `RoomListsAlwaysConverge` |
| `ServerProofs` | `RateAlwaysBounded` of the chat and `ControllerAlwaysSound` of the controller alone; of the whole server `ServerInvariant`, `ServerKeepsItsParts`, `ServerImplementsItsParts`: `ServerSpec => ChatSpec /\ Controller!ControllerSpec`, `AnsweredAlwaysKept`, `OrphansComeFromTheRace` |

**Room.** `RoomInv` is the conjunction of the type invariant, the finiteness of `members`
and the four safety invariants: none of them is inductive alone. That the clock implies a
round needs the clock to stop with the round; that a round implies two seats needs seats
to be fixed while playing; that a pending request stays valid needs every other operation
to be refused or to withdraw it, which in turn needs the seats and the clock (an expired
turn cannot meet a pending request, because the clock is held). There is one lemma per
action (`...KeepsInv`), each split by conjunct. `RoomImplementsMatch` uses `RoomInv` at
every step: it is what makes the guards of the engine hold where the room does not test
them. For the properties of steps, `EveryStepHasShape` sorts all steps by what they do to
match and clock (a turn left alone, a round started or ended, a move, a skip, a pause, an
undo, a resumption); each theorem then looks at these eight shapes. The time used up is
conserved because a full clock is only given where the turn is over.

**Gateway.** Every step of a handler or of the timer task is a step of the room or leaves
it alone, so `RoomInv` and with it every theorem about a room holds behind the network
layer. `TimerArmed` is not inductive: it counts an announcement of anybody, but a handler
of somebody who has left the room can be thrown away with its connection. `ClockInHand`
counts only those that cannot be: a member's, because its disconnect leaves the room and
synchronises again, and those of a cleanup, which is shielded. Every command that changes
the revision ends in a sync or stops the clock (`Effect`, `Arms`), and the task is dropped
only where no member is left (`DropsOnlyEmptyRoom`), hence no player and no clock. A task
is never taken for that of another turn because a revision that stands keeps its deadline
(`RevisionStep`, from the shapes). Without a clock there is no task, hence nobody who cuts
off another's announcements, and `ViewsFollow`, `ResultFollows` say that whoever is not up
to date is owed a message by a handler that will send it. With a clock or with cancelled
handlers this is false, which is what the runs `gateway_result_lost` and
`gateway_cancelled` show; the hypotheses of these theorems are exactly their absence.
`GatewaySpec` starts with an empty room, the run with a seated one: nothing is owed to
anybody there either (`SeatedStarts`), and a bounded step is a step of the gateway
(`BoundedStep`), so the same invariant covers the run's own specification.

**Gomoku engine.** `GomokuInv` says that stones and moves are the same, that the cache is
fresh and that a running game has no result. From it `FreePointsCounted`: the moves are a
bijection onto the occupied points, so the engine's comparison of counts (`_is_stuck`, a
full board) decides about the points themselves, which is what `ResultsAreDue` speaks of.
`GomokuIsAMatch` maps each operation to the one of `Match`. For `StuckOnlyAfterSkips` the
engine must be known to have judged the past right: `undo_moves` puts an old position back
without asking whether its colour can move. The history shows that it can, because the
stone that is taken back was a legal answer to that position. `HistoryLegal` says so of
every move on record, each on the board it was made on (`Before`); moves keep it because
the cache is fresh, and an undo because it restores exactly that board (`UndoRestores`).
`HistoryLegal` is needed whole, as the next undo goes one move deeper.

**Renju rules.** A run of stones is an interval of the line, so that how long it is can be
told by the intervals that fit around the stone (`StretchLength`). A window as wide as the
win length shows enough of them to tell whether a row reaches or exceeds it, although not
how long it is (`RowLengths`), and a stone that completes a row lies within it
(`FourWithinWindow`). For the prefilter only what a forbidden stone *needs* counts,
whatever the recursion about threes says (`ForbiddenNeeds` holds for any set of blocked
points): an overline has four of its stones within four points, and a four or a three two
stones within three points on its line; lines cross in one point only, so two of them have
four between them (`PrefilterHidesNothing`). `NoOverlineEver` puts it together with the
engine: the cache is fresh, so a stone is placed only where the scan found nothing; an
overline through it would be seen by the window and, since the scan skips nothing, would
have forbidden it; one that does not go through it was there before, and nothing else puts
stones on the board. So the comment that the constrained colour "can never end up with an
overline on the board" holds through skips, undo and new rounds. `NoRowEverOverlooked` is
about the rows that win. `RowsDecided`, which says the same of every stretch of that many stones on end, is kept by
a move because such a row is new only if it holds the new
stone (`RowIsNewOrOld`), a new one is seen by the window and wins for the second player,
and for the constrained colour wins unless it is an overline, which it is not
(`NewRowWins`); and by an undo because the game it undoes was still running, so that it had
no such row, and taking stones away makes none (`UndoMakesNoRow`).

**Othello engine.** A move flips discs of the opponent and fills one point, so the running
count of discs stays the number of occupied points and is four more than the number of
movers (`CountsAgree`); the refinement to `Match`, which counts moves, needs the latter.
That a turn is always playable is its own induction: the opening has a move for its
colour, and a move gives the turn only to a colour that it has found able to move.

**Lobby.** `SessionsMatchRooms` and `RegistrySound` support each other: that an empty room
is removed with its own name needs the bijection, and that nobody is left in a removed
room needs the sessions. `Supports` adds that only an open endpoint is in a room, without
which a closed connection could be logged out inside one. No assumption is made about
what a handler has still to send, so these theorems cover every cancellation. For the room
lists the announcements matter: `ListsFollow` says that a client in the lobby has the
present list, or is about to be sent its own, or somebody is about to broadcast it. It is
kept because whatever changes a list owes a broadcast, and a broadcast that is owed is
never lost, an endpoint that ends in the middle of a handler owing another one.

**Server.** For the chat: a deque is the end of the log, within the limit, and what has
left it is a window old; the log is ordered; the line that comes `MaxMessages` after
another one then finds it popped. For the controller: `StopInProgress` (what `stop()` has
set by the time it is at each of its joins) and `CurrentIsLast` make `ControllerSound`
inductive. `ServerInv` joins both with `AccountsInv` (every account that was answered has
its row or was deleted by the operator, a job that inserted or read a row knows which, and
what a finished creation is about to tell its client is already true), `DeletionInv` (the
GUI thread is `deleting` only between its two steps, and only while a server is shown) and
`RaceInv`: a login that holds a row is either
`Safe` or among the `exposed`. Every step of the server is one of the chat, one of the
controller or a deletion that leaves its runs alone, and one of the sessions
(`ServerStepParts`), so `ServerKeepsItsParts` carries the two invariants over. `ServerImplementsItsParts` carries
over everything else that is true of the parts: the controller in the server is the
controller alone whose window is idle during a deletion, as every call finds the window
idle or blocked in a join, and none finds it deleting.
`OrphansComeFromTheRace` is the positive side of the run `account_race`: the race between
a login that has read its row and the DELETE is the only way to an orphan.

The room's proofs hold for both game types, so the Othello and the untimed room, which
`room_gomoku` does not instantiate, rest on them. Together with the refinements of the two
engines the chain is closed: the gateway is proved to drive its room only through the
room's operations, the room to call its engine only where Match accepts it, and each
engine to be a Match, on every board.

Only model-checked: liveness (`ExpiredTurnEnds`, `GoneMeansGone`, `FailureShown`,
`ForgottenServersEnd`), which asks for fairness and ENABLED. Every other property of a
passing run has its theorem. Neither checked nor proved in general is what the rules
compute beyond rows, fours and what a forbidden stone needs: which threes count as open is
an induction over the recursion, out of the prover's reach.

## 5. Plan

Next models: `Lobby` and `Gateway` joined for one room, so that a room that is removed
meets its timer and a dropped socket its seat in a running round.

Next proofs, with that model: that its part for one room implements `GatewaySpec` and its
registry `Lobby`'s, so that the theorems of both hold of the joined server.

## 6. Not modelled

The wire protocol, the text checks, password hashing, the SQLite connection, the
configuration and the widgets of the window keep no state that others depend on, or only
pure input and output: what the models need of them are the commands that come out of the
parser, the constants, and a password that is right or wrong. Of the window only the state
it shows, its buttons, its polling and its messages about failures are modelled, not its
tables and log. Pause and resume of an engine (`start`, `suspend`), `FreeStyleRule`,
`remove_room` and `update_settings` are not called by the running server.
