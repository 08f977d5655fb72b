------------------------------ MODULE Gateway ------------------------------
(***************************************************************************)
(* The network layer around one room (app/main.py): the handler coroutine  *)
(* of every connection, the turn timer task, and what each member has been *)
(* told.  A handler calls the room in one step with its first send, then    *)
(* suspends; every later announcement is a step of its own, so that other   *)
(* handlers and the timer run in between.  Messages nothing here depends on *)
(* (move_result, room_members, room_list, ...) are only such suspensions.   *)
(***************************************************************************)
EXTENDS GameRoom

CONSTANT CancelEndpoints   \* may the ASGI server cancel a handler in flight

\* What a handler or a timer task does when it resumes: game_state to the room
\* or to itself, _sync_turn_timer (followed by game_over), timer_tasks.pop.
Announcement == {"state", "stateToSelf", "sync", "syncThenOver", "dropTimer"}

\* A task, the turn it was made for, and what it still has to announce.
TimerTask == [revision : Nat, deadline : Nat, script : Seq(Announcement)]

ASSUME GatewayAssumption == CancelEndpoints \in BOOLEAN /\ None \notin TimerTask

VARIABLES
    script,     \* connection -> announcements its handler still has to make
    timer,      \* timer_tasks[room_id]: None or the registered task
    closing,    \* connections in their shielded disconnect cleanup
    view,       \* connection -> match shown by its last game_state, or None
    heardOver   \* connections sent the game_over of the last finished match

gatewayVars == <<roomVars, script, closing, timer, view, heardOver>>

\* A handler with nothing left to announce waits for its next message; a timer
\* task with nothing to announce sleeps until its deadline.
NoAnnouncements == << >>

-----------------------------------------------------------------------------
(* Announcements *)

\* Slip: a task that is already registered is left in charge.
SyncTurnTimer_KeepsOld ==
    timer' = IF turnDeadline = None THEN None
             ELSE IF timer # None THEN timer
             ELSE [revision |-> turnRevision, deadline |-> turnDeadline,
                   script |-> NoAnnouncements]

\* _sync_turn_timer: whatever task is registered is dropped, and cancelled
\* unless it is the caller itself; a running clock gets a task of its own.
SyncTurnTimer ==
    timer' = IF turnDeadline = None THEN None
             ELSE [revision |-> turnRevision, deadline |-> turnDeadline,
                   script |-> NoAnnouncements]

ShowGameTo(audience) ==
    view' = [c \in Conns |-> IF c \in audience THEN game ELSE view[c]]

EndTurnAnnouncement(a) ==
    \/ a = "sync" /\ SyncTurnTimer /\ UNCHANGED <<view, heardOver>>
    \/ a = "syncThenOver" /\ SyncTurnTimer /\ heardOver' = members /\ UNCHANGED view

Announce(a, self) ==
    \/ a = "state" /\ ShowGameTo(members) /\ UNCHANGED <<timer, heardOver>>
    \/ a = "stateToSelf" /\ ShowGameTo({self}) /\ UNCHANGED <<timer, heardOver>>
    \/ EndTurnAnnouncement(a)
    \/ a = "dropTimer" /\ timer' = None /\ UNCHANGED <<view, heardOver>>

\* Slips: the result is not announced; the timer is not registered again.
TurnAnnouncements_NoResult == <<"state", "sync">>
TurnAnnouncements_NoSync ==
    IF game'.status = "FINISHED" THEN <<"state", "syncThenOver">> ELSE <<"state">>

\* The rest of _handle_move and of _broadcast_turn_timeout after their first
\* message: the snapshot, then the timer and the result in one step.
TurnAnnouncements ==
    IF game'.status = "FINISHED" THEN <<"state", "syncThenOver">>
                                 ELSE <<"state", "sync">>

\* Slip: the members are not shown the cleared board.
LeaveAnnouncements_NoState(c) == IF members' = {} THEN <<"dropTimer">> ELSE <<"sync">>

\* The rest of _handle_leave_room and of _handle_disconnect.
LeaveAnnouncements(c) ==
    IF members' = {} THEN <<"dropTimer">>
    ELSE IF c \in Players THEN <<"state", "sync">>
    ELSE <<"sync">>

Then(c, announcements) == script' = [script EXCEPT ![c] = announcements]

\* A result nobody has been told of yet; resign sends it with its first step.
ForgetOldResult ==
    heardOver' = IF game' # game THEN {} ELSE heardOver

-----------------------------------------------------------------------------
(* Handlers.  A connection's messages are handled one at a time. *)

Idle(c) == script[c] = NoAnnouncements

Listening(c) == Idle(c) /\ c \notin closing

HandleJoin(c) ==
    /\ Listening(c) /\ Join(c)
    /\ Then(c, <<"stateToSelf">>)
    /\ UNCHANGED <<closing, timer, view, heardOver>>

HandleLeave(c) ==
    /\ Listening(c) /\ Leave(c)
    /\ Then(c, LeaveAnnouncements(c))
    /\ view' = [view EXCEPT ![c] = None]
    /\ ForgetOldResult
    /\ UNCHANGED <<closing, timer>>

\* The peer is gone: the handler in flight is abandoned where it was, and the
\* shielded cleanup leaves the room if the session is still in it.  Without
\* cancellation a peer goes away between messages, which is HandleLeave.
HandleDisconnect(c) ==
    /\ CancelEndpoints
    /\ c \notin closing
    /\ closing' = closing \cup {c}
    /\ IF c \in members
       THEN /\ Leave(c)
            /\ Then(c, LeaveAnnouncements(c))
       ELSE /\ ~Idle(c)
            /\ Then(c, NoAnnouncements)
            /\ UNCHANGED roomVars
    /\ view' = [view EXCEPT ![c] = None]
    /\ ForgetOldResult
    /\ UNCHANGED timer

\* The cleanup is over; the same model value may connect again.
Reconnect(c) ==
    /\ c \in closing /\ Idle(c)
    /\ closing' = closing \ {c}
    /\ UNCHANGED <<roomVars, script, timer, view, heardOver>>

HandleRole(c) ==
    /\ Listening(c)
    /\ BecomePlayer(c) \/ BecomeObserver(c)
    /\ Then(c, <<"state">>)
    /\ ForgetOldResult
    /\ UNCHANGED <<closing, timer, view>>

HandleReady(c) ==
    /\ Listening(c) /\ SetReady(c)
    /\ Then(c, IF game' # game THEN <<"state", "sync">> ELSE NoAnnouncements)
    /\ ForgetOldResult
    /\ UNCHANGED <<closing, timer, view>>

HandleMove(c) ==
    /\ Listening(c) /\ MakeMove(c)
    /\ Then(c, TurnAnnouncements)
    /\ ForgetOldResult
    /\ UNCHANGED <<closing, timer, view>>

\* A request that finds the turn expired announces the timeout instead.
HandleUndoRequest(c) ==
    /\ Listening(c) /\ RequestUndo(c)
    /\ Then(c, IF TurnExpired THEN TurnAnnouncements ELSE <<"sync">>)
    /\ ForgetOldResult
    /\ UNCHANGED <<closing, timer, view>>

HandleUndoResponse(c) ==
    /\ Listening(c) /\ \E accepted \in BOOLEAN : RespondUndo(c, accepted)
    /\ Then(c, <<"state", "sync">>)
    /\ ForgetOldResult
    /\ UNCHANGED <<closing, timer, view>>

HandleResign(c) ==
    /\ Listening(c) /\ Resign(c)
    /\ IF TurnExpired
       THEN Then(c, TurnAnnouncements) /\ ForgetOldResult
       ELSE Then(c, <<"state", "sync">>) /\ heardOver' = members
    /\ UNCHANGED <<closing, timer, view>>

\* A handler resumes with its next announcement.
Resume(c) ==
    /\ ~Idle(c)
    /\ Announce(Head(script[c]), c)
    /\ script' = [script EXCEPT ![c] = Tail(@)]
    /\ UNCHANGED <<roomVars, closing>>

-----------------------------------------------------------------------------
(* The timer task *)

Sleeping == timer # None /\ timer.script = NoAnnouncements

\* wait_for_deadline after its sleep: a task of an earlier turn just ends.
TimerWakes ==
    /\ Sleeping /\ now >= timer.deadline
    /\ \/ /\ ExpireTurn(timer.revision)
          /\ timer' = [timer EXCEPT !.script = TurnAnnouncements]
          /\ ForgetOldResult
       \/ /\ timer.revision # turnRevision
          /\ timer' = None
          /\ UNCHANGED <<roomVars, heardOver>>
    /\ UNCHANGED <<script, closing, view>>

\* The task announces the timeout.  Its own sync replaces it.
TimerAnnounces ==
    /\ timer # None /\ ~Sleeping
    /\ \/ /\ Head(timer.script) = "state"
          /\ ShowGameTo(members)
          /\ timer' = [timer EXCEPT !.script = Tail(@)]
          /\ UNCHANGED heardOver
       \/ EndTurnAnnouncement(Head(timer.script))
    /\ UNCHANGED <<roomVars, script, closing>>

-----------------------------------------------------------------------------

GatewayInit ==
    /\ RoomInit
    /\ script = [c \in Conns |-> IF c \in members THEN <<"stateToSelf">> ELSE NoAnnouncements]
    /\ closing = {}
    /\ timer = None
    /\ view = [c \in Conns |-> None]
    /\ heardOver = {}

Command(c) ==
    \/ HandleJoin(c) \/ HandleLeave(c) \/ HandleDisconnect(c) \/ HandleRole(c)
    \/ HandleReady(c) \/ HandleMove(c) \/ HandleUndoRequest(c)
    \/ HandleUndoResponse(c) \/ HandleResign(c)

Passes == Tick /\ UNCHANGED <<script, closing, timer, view, heardOver>>

GatewayNext ==
    \/ \E c \in Conns : Command(c) \/ Resume(c) \/ Reconnect(c)
    \/ TimerWakes \/ TimerAnnounces \/ Passes

\* The event loop runs every ready task; no client has to send anything.
Fairness ==
    /\ \A c \in Conns : WF_gatewayVars(Resume(c))
    /\ WF_gatewayVars(TimerWakes) /\ WF_gatewayVars(TimerAnnounces)

GatewaySpec == GatewayInit /\ [][GatewayNext]_gatewayVars /\ Fairness

-----------------------------------------------------------------------------
(* Properties *)

\* No announcement is outstanding.
Quiet == (\A c \in Conns : Idle(c)) /\ (timer = None \/ Sleeping)

\* Scripts, task and views are well formed, and a task never waits for a turn
\* that is still to come.
GatewayTypeOK ==
    /\ script \in [Conns -> UNION {[1 .. n -> Announcement] : n \in 0 .. 2}]
    /\ timer \in TimerTask \cup {None}
    /\ timer # None => timer.revision <= turnRevision
    /\ view \in [Conns -> MatchType \cup {None}]
    /\ heardOver \in SUBSET Conns /\ closing \in SUBSET Conns

\* Once every announcement is out, each member's last game_state shows the
\* match as it is: nobody is left looking at a turn that has passed, a round
\* that was discarded or a game that is over.
ViewsConverge == Quiet => \A c \in members : view[c] = game

\* Once every announcement is out, a finished match is shown as such to every
\* member, and both its players have been sent the game_over.
ResultAnnounced ==
    Quiet /\ game.status = "FINISHED" =>
        /\ \A c \in members : view[c] = game
        /\ Players \subseteq heardOver

\* A running clock is never left without its timer: either the registered task
\* carries the current revision and deadline, or somebody is still to register
\* one (main.py calls _sync_turn_timer only after its broadcasts, and a handler
\* may be cancelled before it gets there).
TimerArmed ==
    turnDeadline # None =>
        \/ timer # None /\ timer.revision = turnRevision /\ timer.deadline = turnDeadline
        \/ \E c \in Conns, i \in 1 .. 2 :
              i \in DOMAIN script[c] /\ script[c][i] \in {"sync", "syncThenOver"}
        \/ timer # None /\ ~Sleeping

\* A task can only ever end the turn it was made for: while it carries the
\* current revision, its deadline is the deadline of the running turn.  A task
\* that outlived its turn, its round or the last member is recognised as stale
\* (and the variables keep their types).
SleepingTimerIsCurrentOrStale ==
    /\ GatewayTypeOK
    /\ Sleeping /\ timer.revision = turnRevision => timer.deadline = turnDeadline

\* Every expired turn is ended by the server itself, whatever the clients do.
ExpiredTurnEnds == TurnExpired ~> ~TurnExpired
=============================================================================
