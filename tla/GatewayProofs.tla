--------------------------- MODULE GatewayProofs ---------------------------
(***************************************************************************)
(* Gateway for any number of connections, any turn limit and any board      *)
(* area: its steps are steps of the room, a running clock keeps a timer,     *)
(* a task is never taken for that of another turn, and without a clock the   *)
(* announcements of all handlers together leave everybody up to date.        *)
(***************************************************************************)
EXTENDS MCGateways, RoomStepProofs

-----------------------------------------------------------------------------
(* Scripts *)

\* The rest of a handler's announcements, and those of a task, are one of these.
SyncScripts == {<<"sync">>, <<"syncThenOver">>, <<"state", "sync">>, <<"state", "syncThenOver">>}
StateScripts == {<<"state">>, <<"state", "sync">>, <<"state", "syncThenOver">>}
OverScripts == {<<"syncThenOver">>, <<"state", "syncThenOver">>}

Scripts == {NoAnnouncements, <<"stateToSelf">>, <<"dropTimer">>} \cup StateScripts \cup SyncScripts
TaskScripts == {NoAnnouncements} \cup SyncScripts

\* Sequences of at most two elements.
LEMMA ShortSequences ==
    ASSUME NEW S, NEW a \in S, NEW b \in S
    PROVE  /\ << >> \in Seq(S) /\ << >> \in [1 .. 0 -> S]
           /\ <<a>> \in Seq(S) /\ <<a>> \in [1 .. 1 -> S]
           /\ Head(<<a>>) = a /\ Tail(<<a>>) = << >>
           /\ <<a, b>> \in Seq(S) /\ <<a, b>> \in [1 .. 2 -> S]
           /\ Head(<<a, b>>) = a /\ Tail(<<a, b>>) = <<b>>
  <1>1. << >> \in Seq(S) /\ << >> \in [1 .. 0 -> S]
    OBVIOUS
  <1>2. <<a>> \in Seq(S) /\ <<a>> \in [1 .. 1 -> S]
    OBVIOUS
  <1>3. Head(<<a>>) = a /\ Tail(<<a>>) = << >>
    OBVIOUS
  <1>4. <<a, b>> \in Seq(S) /\ <<a, b>> \in [1 .. 2 -> S]
    OBVIOUS
  <1>5. Head(<<a, b>>) = a
    OBVIOUS
  <1>6. Tail(<<a, b>>) = <<b>>
    OBVIOUS
  <1>. QED
    BY <1>1, <1>2, <1>3, <1>4, <1>5, <1>6

\* Every script is a sequence of at most two announcements.
LEMMA ScriptTypes ==
    \A s \in Scripts : /\ s \in Seq(Announcement)
                       /\ s \in UNION {[1 .. n -> Announcement] : n \in 0 .. 2}
  <1>. DEFINE ok(s) == /\ s \in Seq(Announcement)
                      /\ s \in UNION {[1 .. n -> Announcement] : n \in 0 .. 2}
  <1>1. ok(NoAnnouncements)
    BY ShortSequences DEF NoAnnouncements, Announcement
  <1>2. ASSUME NEW a \in Announcement PROVE ok(<<a>>)
    <2>1. <<a>> \in Seq(Announcement) /\ <<a>> \in [1 .. 1 -> Announcement] /\ 1 \in 0 .. 2
      BY ShortSequences
    <2>. QED
      BY <2>1
  <1>3. ASSUME NEW a \in Announcement, NEW b \in Announcement PROVE ok(<<a, b>>)
    <2>1. /\ <<a, b>> \in Seq(Announcement) /\ <<a, b>> \in [1 .. 2 -> Announcement]
          /\ 2 \in 0 .. 2
      BY ShortSequences
    <2>. QED
      BY <2>1
  <1>. SUFFICES \A s \in Scripts : ok(s)
    OBVIOUS
  <1>. HIDE DEF ok
  <1>. QED
    BY <1>1, <1>2, <1>3 DEF Scripts, StateScripts, SyncScripts, Announcement

\* Which kinds of script exclude each other.
LEMMA ScriptKinds ==
    /\ NoAnnouncements \notin StateScripts \cup SyncScripts \cup OverScripts
    /\ OverScripts \subseteq SyncScripts
    /\ {NoAnnouncements, <<"stateToSelf">>, <<"dropTimer">>} \cap (StateScripts \cup SyncScripts) = {}
    /\ NoAnnouncements # <<"dropTimer">> /\ NoAnnouncements # <<"stateToSelf">>
    /\ <<"stateToSelf">> # <<"dropTimer">> /\ <<"sync">> # <<"stateToSelf">>
    /\ <<"syncThenOver">> # <<"stateToSelf">>
    /\ <<"sync">> \notin StateScripts \cup OverScripts /\ <<"syncThenOver">> \notin StateScripts
  BY DEF StateScripts, SyncScripts, OverScripts, NoAnnouncements

\* What a resumed handler announces, and what is left of its script after it.
LEMMA ScriptResumes ==
    ASSUME NEW s \in Scripts, s # NoAnnouncements
    PROVE  \/ /\ Head(s) = "state" /\ s \in StateScripts
              /\ Tail(s) \in {NoAnnouncements, <<"sync">>, <<"syncThenOver">>}
              /\ s \in SyncScripts <=> Tail(s) \in SyncScripts
              /\ s \in OverScripts <=> Tail(s) \in OverScripts
           \/ /\ Head(s) = "sync" /\ s = <<"sync">> /\ Tail(s) = NoAnnouncements
           \/ /\ Head(s) = "syncThenOver" /\ s = <<"syncThenOver">> /\ Tail(s) = NoAnnouncements
           \/ /\ Head(s) = "stateToSelf" /\ s = <<"stateToSelf">> /\ Tail(s) = NoAnnouncements
           \/ /\ Head(s) = "dropTimer" /\ s = <<"dropTimer">> /\ Tail(s) = NoAnnouncements
  <1>1. ASSUME NEW a \in {"state", "sync", "syncThenOver", "stateToSelf", "dropTimer"}
        PROVE  Head(<<a>>) = a /\ Tail(<<a>>) = NoAnnouncements
    BY ShortSequences DEF NoAnnouncements
  <1>2. ASSUME NEW b \in {"sync", "syncThenOver"}
        PROVE  Head(<<"state", b>>) = "state" /\ Tail(<<"state", b>>) = <<b>>
    BY ShortSequences
  <1>3. CASE s \in {<<"stateToSelf">>, <<"dropTimer">>, <<"sync">>, <<"syncThenOver">>}
    BY <1>1, <1>3
  <1>4. CASE s = <<"state">>
    <2>1. Head(s) = "state" /\ Tail(s) = NoAnnouncements
      BY <1>1, <1>4
    <2>2. s \notin SyncScripts
      BY <1>4 DEF SyncScripts
    <2>3. s \in StateScripts
      BY <1>4 DEF StateScripts
    <2>4. NoAnnouncements \notin SyncScripts /\ NoAnnouncements \notin OverScripts
          /\ s \notin OverScripts
      BY <2>2, ScriptKinds
    <2>. QED
      BY <2>1, <2>2, <2>3, <2>4
  <1>5. CASE s \in {<<"state", "sync">>, <<"state", "syncThenOver">>}
    <2>1. PICK b \in {"sync", "syncThenOver"} : s = <<"state", b>>
      BY <1>5
    <2>2. Head(s) = "state" /\ Tail(s) = <<b>>
      BY <1>2, <2>1
    <2>3. s \in StateScripts /\ s \in SyncScripts /\ <<b>> \in SyncScripts
      BY <2>1 DEF StateScripts, SyncScripts
    <2>4. s \in OverScripts <=> <<b>> \in OverScripts
      BY <2>1 DEF OverScripts
    <2>. QED
      BY <2>1, <2>2, <2>3, <2>4
  <1>. QED
    BY <1>3, <1>4, <1>5 DEF Scripts, StateScripts, SyncScripts
-----------------------------------------------------------------------------
(* The room below *)

\* Every step of the gateway is one of the room, or leaves the room alone.
LEMMA GatewayStepsRoom ==
    ASSUME RoomInv, [GatewayNext]_gatewayVars
    PROVE  [RoomNext]_roomVars
  <1>1. ASSUME NEW c \in Conns, Command(c) PROVE [RoomNext]_roomVars
    BY <1>1 DEF Command, HandleJoin, HandleLeave, HandleDisconnect, HandleRole, HandleReady,
       HandleMove, HandleUndoRequest, HandleUndoResponse, HandleResign, RoomNext
  <1>2. ASSUME NEW c \in Conns, Resume(c) \/ Reconnect(c) PROVE UNCHANGED roomVars
    BY <1>2 DEF Resume, Reconnect
  <1>3. CASE TimerWakes
    <2>1. turnRevision \in 0 .. turnRevision
      BY DEF RoomInv, RoomTypeOK
    <2>. QED
      BY <1>3, <2>1 DEF TimerWakes, RoomNext, ExpireTurn
  <1>4. CASE TimerAnnounces
    BY <1>4 DEF TimerAnnounces
  <1>5. CASE Passes
    BY <1>5 DEF Passes, RoomNext
  <1>6. CASE UNCHANGED gatewayVars
    BY <1>6 DEF gatewayVars
  <1>. QED
    BY <1>1, <1>2, <1>3, <1>4, <1>5, <1>6 DEF GatewayNext

\* The network layer drives the room only through operations the room has, so
\* all that is proved of a room holds of a room behind its connections.
THEOREM GatewayImplementsRoom == GatewaySpec => RoomSpec
  <1>1. GatewayInit => RoomInit /\ RoomInv
    BY InitEstablishesInv DEF GatewayInit
  <1>2. RoomInv /\ [GatewayNext]_gatewayVars => RoomInv' /\ [RoomNext]_roomVars
    BY GatewayStepsRoom, NextKeepsInv
  <1>. QED
    BY <1>1, <1>2, PTL DEF GatewaySpec, RoomSpec

\* A revision is never taken back, and while it stands so does the deadline.
LEMMA RevisionStep ==
    ASSUME RoomInv, [RoomNext]_roomVars
    PROVE  /\ turnRevision \in Nat /\ turnRevision' \in Nat
           /\ turnRevision <= turnRevision'
           /\ turnRevision' = turnRevision => turnDeadline' = turnDeadline
  <1>1. turnRevision \in Nat
    BY DEF RoomInv, RoomTypeOK
  <1>. QED
    BY <1>1, EveryStepHasShape DEF Shape, LeavesTurn, StartsRound, EndsRound, Moves,
       Skips, Pauses, TakesBack, Resumes, ClearTurnTimer, StartTurnTimer, PauseTurnTimer,
       timerVars

\* A room without players has no clock.
LEMMA NoPlayersNoClock ==
    ASSUME RoomInv, Players = {}
    PROVE  turnDeadline = None
  <1>1. ~PlayersFull
    BY FS_EmptySet DEF PlayersFull, MaxPlayers
  <1>. QED
    BY <1>1, TurnFacts DEF RoomInv, SeatsConsistent, Playing

-----------------------------------------------------------------------------
(* The invariant *)

\* What the variables of the gateway range over.
WellFormed ==
    /\ script \in [Conns -> Scripts]
    /\ timer \in TimerTask \cup {None}
    /\ timer # None => timer.script \in TaskScripts /\ timer.revision <= turnRevision
    /\ view \in [Conns -> MatchType \cup {None}]
    /\ heardOver \in SUBSET Conns /\ closing \in SUBSET Conns

\* The task is dropped only once the last member has left.
DropsOnlyEmptyRoom ==
    \A c \in Conns : script[c] = <<"dropTimer">> => members = {}

\* The task is the one of the running turn, or about to register that one.
TaskInCharge ==
    timer # None /\ \/ ~Sleeping
                    \/ timer.revision = turnRevision /\ timer.deadline = turnDeadline

\* Only a handler that cannot be thrown away counts: one of a member, whose
\* disconnect leaves the room and synchronises again, or one in its cleanup.
ClockInHand ==
    turnDeadline # None =>
        TaskInCharge \/ \E c \in members \cup closing : script[c] \in SyncScripts

TaskNamesTurn ==
    Sleeping /\ timer.revision = turnRevision => timer.deadline = turnDeadline

GatewayInv ==
    RoomInv /\ WellFormed /\ DropsOnlyEmptyRoom /\ ClockInHand /\ TaskNamesTurn

\* The creator of a room is still to be shown the match; nothing else is owed.
LEMMA GatewayStarts == GatewayInit => GatewayInv
  <1>. SUFFICES ASSUME GatewayInit PROVE GatewayInv
    OBVIOUS
  <1>1. RoomInv /\ members \in SUBSET Conns /\ turnDeadline = None
    BY InitEstablishesInv DEF GatewayInit, RoomInit, RoomInv, RoomTypeOK
  <1>2. script \in [Conns -> Scripts] /\ \A c \in Conns : script[c] # <<"dropTimer">>
    BY ScriptKinds DEF GatewayInit, Scripts
  <1>. QED
    BY <1>1, <1>2 DEF GatewayInit, GatewayInv, WellFormed, DropsOnlyEmptyRoom, ClockInHand,
       TaskNamesTurn, Sleeping

-----------------------------------------------------------------------------
(* Commands *)

\* After its command c still synchronises the clock, or no clock runs.
Arms(c, s) ==
    turnDeadline' = None \/ (s \in SyncScripts /\ c \in members' \cup closing')

\* What a command of c does to the announcements, whatever it does to the room.
Effect(c, s) ==
    /\ s \in Scripts
    /\ script' = [script EXCEPT ![c] = s]
    /\ UNCHANGED timer
    /\ s = <<"dropTimer">> => members' = {}
    /\ turnRevision' # turnRevision => Arms(c, s)
    /\ script[c] \in SyncScripts /\ c \in members \cup closing => Arms(c, s)
    /\ members = {} => members' = {}
    /\ (members \cup closing) \ {c} \subseteq members' \cup closing'
    /\ closing' \in SUBSET Conns /\ heardOver' \in SUBSET Conns
    /\ view' \in [Conns -> MatchType \cup {None}]

\* Whatever arms the clock it changes keeps the invariant.
LEMMA EffectKeepsInv ==
    ASSUME GatewayInv, [RoomNext]_roomVars, NEW c \in Conns, NEW s, Effect(c, s)
    PROVE  GatewayInv'
  <1>1. RoomInv /\ RoomInv'
    BY NextKeepsInv DEF GatewayInv
  <1>2. /\ turnRevision \in Nat /\ turnRevision' \in Nat
        /\ turnRevision <= turnRevision'
        /\ turnRevision' = turnRevision => turnDeadline' = turnDeadline
    BY <1>1, RevisionStep
  <1>3. /\ script \in [Conns -> Scripts] /\ timer \in TimerTask \cup {None}
        /\ timer # None => /\ timer.script \in TaskScripts
                           /\ timer.revision \in Nat /\ timer.revision <= turnRevision
    BY DEF GatewayInv, WellFormed, TimerTask
  <1>4. script' \in [Conns -> Scripts] /\ script'[c] = s
        /\ \A d \in Conns \ {c} : script'[d] = script[d]
    BY <1>3 DEF Effect
  <1>5. WellFormed'
    BY <1>2, <1>3, <1>4 DEF WellFormed, Effect
  <1>6. DropsOnlyEmptyRoom'
    BY <1>4 DEF Effect, GatewayInv, DropsOnlyEmptyRoom
  <1>7. TaskNamesTurn'
    BY <1>2, <1>3 DEF Effect, GatewayInv, TaskNamesTurn, Sleeping
  <1>8. ClockInHand'
    <2>. SUFFICES ASSUME turnDeadline' # None
                  PROVE  TaskInCharge' \/ \E d \in (members \cup closing)' :
                                             script'[d] \in SyncScripts
      BY DEF ClockInHand
    <2>1. ASSUME Arms(c, s)
          PROVE  c \in (members \cup closing)' /\ script'[c] \in SyncScripts
      BY <1>4, <2>1 DEF Arms
    <2>2. ASSUME turnRevision' = turnRevision, TaskInCharge PROVE TaskInCharge'
      BY <1>2, <2>2 DEF TaskInCharge, Sleeping, Effect
    <2>3. ASSUME NEW d \in members \cup closing, script[d] \in SyncScripts, ~Arms(c, s)
          PROVE  d \in (members \cup closing)' /\ script'[d] \in SyncScripts
      <3>1. members \cup closing \subseteq Conns
        BY <1>1 DEF RoomInv, RoomTypeOK, GatewayInv, WellFormed
      <3>. QED
        BY <1>4, <2>3, <3>1 DEF Effect
    <2>4. turnRevision' # turnRevision => Arms(c, s)
      BY DEF Effect
    <2>. QED
      BY <1>2, <2>1, <2>2, <2>3, <2>4 DEF GatewayInv, ClockInHand
  <1>. QED
    BY <1>1, <1>5, <1>6, <1>7, <1>8 DEF GatewayInv

\* The scripts the handlers are given.
LEMMA AnnouncementScripts ==
    /\ \A a \in {<<"stateToSelf">>, <<"state">>, <<"sync">>, <<"dropTimer">>, NoAnnouncements} :
          a \in Scripts
    /\ <<"state", "sync">> \in SyncScripts \cap StateScripts
    /\ <<"sync">> \in SyncScripts
    /\ TurnAnnouncements \in SyncScripts \cap StateScripts
    /\ SyncScripts \subseteq Scripts /\ SyncScripts \subseteq TaskScripts
  BY DEF Scripts, StateScripts, SyncScripts, TurnAnnouncements, TaskScripts

\* A listening connection interrupts nothing of its own.
LEMMA ListeningEffect ==
    ASSUME GatewayInv, RoomInv', NEW c \in Conns, Listening(c), NEW s \in Scripts, Then(c, s),
           UNCHANGED <<closing, timer>>,
           s = <<"dropTimer">> => members' = {},
           turnRevision' # turnRevision => turnDeadline' = None \/ (s \in SyncScripts /\ c \in members'),
           members = {} => members' = {},
           members \ {c} \subseteq members',
           ForgetOldResult \/ heardOver' \in {heardOver, members},
           view' \in {view, [view EXCEPT ![c] = None]}
    PROVE  Effect(c, s)
  <1>1. script[c] \notin SyncScripts
    BY ScriptKinds DEF Listening, Idle
  <1>2. c \notin closing /\ closing \in SUBSET Conns /\ members \in SUBSET Conns
    BY DEF Listening, GatewayInv, WellFormed, RoomInv, RoomTypeOK
  <1>3. heardOver' \in SUBSET Conns
    BY <1>2 DEF ForgetOldResult, GatewayInv, WellFormed
  <1>4. view' \in [Conns -> MatchType \cup {None}]
    BY DEF GatewayInv, WellFormed
  <1>. QED
    BY <1>1, <1>2, <1>3, <1>4 DEF Effect, Then, Arms

\* Whoever leaves drops the task with the room, or synchronises it again.
LEMMA LeaveEffect ==
    ASSUME GatewayInv, NEW c \in Conns, Leave(c)
    PROVE  LET s == LeaveAnnouncements(c)
           IN  /\ s \in Scripts
               /\ s = <<"dropTimer">> => members' = {}
               /\ turnRevision' # turnRevision => turnDeadline' = None
               /\ turnDeadline' = None \/ s \in SyncScripts
               /\ members' = members \ {c}
  <1>. DEFINE s == LeaveAnnouncements(c)
  <1>1. members' = members \ {c}
    BY DEF Leave
  <1>2. \/ s = <<"dropTimer">> /\ members' = {}
        \/ s \in {<<"state", "sync">>, <<"sync">>} /\ members' # {}
    BY DEF LeaveAnnouncements
  <1>3. s \in Scripts /\ (s = <<"dropTimer">> => members' = {})
    BY <1>2, AnnouncementScripts
  <1>4. CASE c \in Players
    <2>1. turnDeadline' = None
      BY <1>4 DEF Leave, ClearTurnTimer
    <2>. QED
      BY <1>1, <1>3, <2>1
  <1>5. CASE c \notin Players
    <2>1. UNCHANGED timerVars
      BY <1>5 DEF Leave
    <2>2. ASSUME members' = {} PROVE turnDeadline = None
      <3>1. RoomInv /\ Players \subseteq members
        BY PlayersFacts DEF GatewayInv
      <3>2. Players = {}
        BY <1>1, <1>5, <2>2, <3>1
      <3>. QED
        BY <3>1, <3>2, NoPlayersNoClock
    <2>. QED
      BY <1>1, <1>2, <1>3, <2>1, <2>2, AnnouncementScripts DEF timerVars
  <1>. QED
    BY <1>4, <1>5

\* Every command arms the clock it changes.
LEMMA CommandHasEffect ==
    ASSUME GatewayInv, RoomInv', NEW c \in Conns, Command(c)
    PROVE  \E s \in Scripts : Effect(c, s)
  <1>1. RoomInv /\ Players \subseteq members
    BY PlayersFacts DEF GatewayInv
  <1>2. CASE HandleJoin(c)
    <2>. DEFINE s == <<"stateToSelf">>
    <2>1. /\ Listening(c) /\ Then(c, s) /\ UNCHANGED <<closing, timer, view, heardOver>>
          /\ members # {} /\ members \subseteq members' /\ turnRevision' = turnRevision
      BY <1>2 DEF HandleJoin, Join, timerVars
    <2>2. s \in Scripts /\ s # <<"dropTimer">>
      BY AnnouncementScripts, ScriptKinds
    <2>. QED
      BY <2>1, <2>2, ListeningEffect
  <1>3. CASE HandleLeave(c)
    BY <1>3, ListeningEffect, LeaveEffect DEF HandleLeave
  <1>4. CASE HandleDisconnect(c)
    <2>1. /\ UNCHANGED timer /\ c \notin closing /\ closing' = closing \cup {c}
          /\ closing' \in SUBSET Conns
          /\ heardOver' \in SUBSET Conns
          /\ view' \in [Conns -> MatchType \cup {None}]
      BY <1>4 DEF HandleDisconnect, ForgetOldResult, GatewayInv, WellFormed
    <2>2. CASE c \in members
      <3>. DEFINE s == LeaveAnnouncements(c)
      <3>1. Leave(c) /\ Then(c, s)
        BY <1>4, <2>2 DEF HandleDisconnect
      <3>2. Arms(c, s)
        BY <2>1, <3>1, LeaveEffect DEF Arms
      <3>. QED
        BY <2>1, <3>1, <3>2, LeaveEffect DEF Effect, Then
    <2>3. CASE c \notin members
      <3>1. Then(c, NoAnnouncements) /\ UNCHANGED roomVars
        BY <1>4, <2>3 DEF HandleDisconnect
      <3>2. NoAnnouncements \in Scripts /\ NoAnnouncements # <<"dropTimer">>
        BY AnnouncementScripts, ScriptKinds
      <3>. QED
        BY <2>1, <2>3, <3>1, <3>2 DEF Effect, Then, roomVars
    <2>. QED
      BY <2>2, <2>3
  <1>5. CASE HandleRole(c)
    <2>. DEFINE s == <<"state">>
    <2>1. /\ Listening(c) /\ Then(c, s) /\ UNCHANGED <<closing, timer, view>>
          /\ ForgetOldResult
          /\ members' = members /\ turnRevision' = turnRevision
      BY <1>5 DEF HandleRole, BecomePlayer, BecomeObserver, ChangeRole, timerVars
    <2>2. s \in Scripts /\ s # <<"dropTimer">>
      BY AnnouncementScripts, ScriptKinds DEF StateScripts
    <2>. QED
      BY <2>1, <2>2, ListeningEffect
  <1>6. CASE HandleReady(c)
    <2>. DEFINE s == IF game' # game THEN <<"state", "sync">> ELSE NoAnnouncements
    <2>1. /\ Listening(c) /\ Then(c, s) /\ UNCHANGED <<closing, timer, view>>
          /\ ForgetOldResult /\ members' = members /\ c \in Players
      BY <1>6 DEF HandleReady, SetReady
    <2>2. turnRevision' # turnRevision => game' # game
      BY <1>1, <1>6 DEF HandleReady, SetReady, timerVars, NewGame, Playing
    <2>3. s \in Scripts /\ s # <<"dropTimer">> /\ (game' # game => s \in SyncScripts)
      BY AnnouncementScripts, ScriptKinds
    <2>. QED
      BY <1>1, <2>1, <2>2, <2>3, ListeningEffect
  <1>7. CASE HandleMove(c) \/ HandleUndoRequest(c) \/ HandleUndoResponse(c) \/ HandleResign(c)
    <2>. DEFINE scripts == {TurnAnnouncements, <<"sync">>, <<"state", "sync">>}
    <2>1. /\ Listening(c) /\ UNCHANGED <<closing, timer, view>>
          /\ ForgetOldResult \/ heardOver' = members
      BY <1>7 DEF HandleMove, HandleUndoRequest, HandleUndoResponse, HandleResign
    <2>2. PICK s \in scripts : Then(c, s)
      BY <1>7 DEF HandleMove, HandleUndoRequest, HandleUndoResponse, HandleResign
    <2>3. members' = members /\ c \in Players
      BY <1>7 DEF HandleMove, HandleUndoRequest, HandleUndoResponse, HandleResign, MakeMove,
         RequestUndo, RespondUndo, Resign, ExpireTurnLocked, seatVars
    <2>4. s \in SyncScripts /\ s \in Scripts /\ s # <<"dropTimer">>
      BY <2>2, AnnouncementScripts, ScriptKinds
    <2>. HIDE DEF scripts
    <2>. QED
      BY <1>1, <2>1, <2>2, <2>3, <2>4, ListeningEffect
  <1>. QED
    BY <1>2, <1>3, <1>4, <1>5, <1>6, <1>7 DEF Command

-----------------------------------------------------------------------------
(* Announcements and the task *)

\* A task made for the running turn is in charge of it.
LEMMA SyncPutsInCharge ==
    ASSUME GatewayInv, UNCHANGED roomVars, SyncTurnTimer
    PROVE  /\ timer' \in TimerTask \cup {None}
           /\ timer' # None => timer'.script \in TaskScripts /\ timer'.revision <= turnRevision'
           /\ turnDeadline' # None => TaskInCharge'
           /\ TaskNamesTurn'
  <1>1. /\ turnRevision \in Nat /\ turnDeadline \in Nat \cup {None}
        /\ UNCHANGED <<turnRevision, turnDeadline>>
    BY DEF GatewayInv, RoomInv, RoomTypeOK, roomVars
  <1>2. CASE turnDeadline = None
    BY <1>1, <1>2 DEF SyncTurnTimer, TaskNamesTurn, Sleeping
  <1>3. CASE turnDeadline # None
    <2>. DEFINE t == [revision |-> turnRevision, deadline |-> turnDeadline,
                      script |-> NoAnnouncements]
    <2>1. t \in TimerTask
      BY <1>1, <1>3, ShortSequences DEF TimerTask, NoAnnouncements
    <2>2. timer' = t /\ timer' # None
      BY <1>3, <2>1, GatewayAssumption DEF SyncTurnTimer
    <2>. QED
      BY <1>1, <2>1, <2>2 DEF TaskInCharge, TaskNamesTurn, Sleeping, TaskScripts
  <1>. QED
    BY <1>2, <1>3

\* While the room stands still, the parts about it carry over.
LEMMA RoomStands ==
    ASSUME GatewayInv, UNCHANGED roomVars
    PROVE  /\ RoomInv'
           /\ UNCHANGED <<members, game, turnDeadline, turnRevision, Players>>
           /\ members \in SUBSET Conns
           /\ game \in MatchType
  <1>1. RoomInv'
    BY NextKeepsInv DEF GatewayInv
  <1>. QED
    BY <1>1 DEF roomVars, Players, GatewayInv, RoomInv, RoomTypeOK

\* A snapshot is one of a match.
LEMMA ShownViews ==
    ASSUME WellFormed, game \in MatchType, NEW audience, ShowGameTo(audience)
    PROVE  view' \in [Conns -> MatchType \cup {None}]
  BY DEF WellFormed, ShowGameTo

\* A resumed handler registers a task, or leaves its clock to be armed.
LEMMA ResumeKeepsInv ==
    ASSUME GatewayInv, NEW c \in Conns, Resume(c)
    PROVE  GatewayInv'
  <1>. DEFINE s == script[c]
  <1>1. /\ RoomInv' /\ UNCHANGED <<members, game, turnDeadline, turnRevision, closing>>
        /\ members \in SUBSET Conns /\ closing \in SUBSET Conns /\ game \in MatchType
    BY RoomStands DEF Resume, GatewayInv, WellFormed
  <1>2. /\ s \in Scripts /\ s # NoAnnouncements /\ Announce(Head(s), c)
        /\ script' = [script EXCEPT ![c] = Tail(s)]
    BY DEF Resume, Idle, GatewayInv, WellFormed
  <1>3. /\ Tail(s) \in Scripts /\ Tail(s) # <<"dropTimer">>
        /\ Head(s) \notin {"sync", "syncThenOver"} /\ s \in SyncScripts => Tail(s) \in SyncScripts
        /\ Head(s) = "dropTimer" => s = <<"dropTimer">>
    BY <1>2, ScriptResumes, ScriptKinds, AnnouncementScripts DEF SyncScripts
  <1>. HIDE DEF s
  <1>4. /\ script' \in [Conns -> Scripts] /\ script'[c] = Tail(s)
        /\ \A d \in Conns \ {c} : script'[d] = script[d]
    BY <1>2, <1>3 DEF GatewayInv, WellFormed
  <1>5. DropsOnlyEmptyRoom'
    BY <1>1, <1>3, <1>4 DEF GatewayInv, DropsOnlyEmptyRoom
  <1>6. view' \in [Conns -> MatchType \cup {None}] /\ heardOver' \in SUBSET Conns
    BY <1>1, <1>2, ShownViews DEF Announce, EndTurnAnnouncement, GatewayInv, WellFormed
  <1>7. CASE UNCHANGED timer /\ Head(s) \notin {"sync", "syncThenOver"}
    <2>1. WellFormed' /\ TaskNamesTurn'
      BY <1>1, <1>4, <1>6, <1>7 DEF GatewayInv, WellFormed, TaskNamesTurn, Sleeping
    <2>2. \A d \in members \cup closing : script[d] \in SyncScripts => script'[d] \in SyncScripts
      BY <1>1, <1>3, <1>4, <1>7 DEF s
    <2>3. ClockInHand'
      BY <1>1, <1>7, <2>2 DEF GatewayInv, ClockInHand, TaskInCharge, Sleeping
    <2>. QED
      BY <1>1, <1>5, <2>1, <2>3 DEF GatewayInv
  <1>8. CASE SyncTurnTimer
    BY <1>1, <1>4, <1>5, <1>6, <1>8, SyncPutsInCharge DEF Resume, GatewayInv, WellFormed,
       ClockInHand
  <1>9. CASE Head(s) = "dropTimer" /\ timer' = None
    <2>1. members = {}
      BY <1>3, <1>9 DEF s, GatewayInv, DropsOnlyEmptyRoom
    <2>2. turnDeadline = None
      <3>1. RoomInv /\ Players = {}
        BY <2>1, PlayersFacts DEF GatewayInv
      <3>. QED
        BY <3>1, NoPlayersNoClock
    <2>3. WellFormed' /\ TaskNamesTurn' /\ ClockInHand'
      BY <1>1, <1>4, <1>6, <1>9, <2>2 DEF GatewayInv, WellFormed, TaskNamesTurn, Sleeping,
         ClockInHand
    <2>. QED
      BY <1>1, <1>5, <2>3 DEF GatewayInv
  <1>. QED
    BY <1>2, <1>7, <1>8, <1>9 DEF Announce, EndTurnAnnouncement

\* A task ends its own turn and stays to announce it, or ends as a stale one.
LEMMA TimerWakesKeepsInv ==
    ASSUME GatewayInv, [RoomNext]_roomVars, TimerWakes
    PROVE  GatewayInv'
  <1>1. RoomInv /\ RoomInv'
    BY NextKeepsInv DEF GatewayInv
  <1>2. /\ turnRevision \in Nat /\ turnRevision' \in Nat /\ turnRevision <= turnRevision'
    BY <1>1, RevisionStep
  <1>3. /\ timer \in TimerTask /\ timer.revision <= turnRevision /\ timer.revision \in Nat
        /\ UNCHANGED <<script, closing, view>>
    BY DEF TimerWakes, Sleeping, GatewayInv, WellFormed, TimerTask
  <1>4. members' = members /\ heardOver' \in SUBSET Conns
    BY DEF TimerWakes, ExpireTurn, ExpireTurnLocked, seatVars, roomVars, ForgetOldResult,
       GatewayInv, WellFormed
  <1>5. DropsOnlyEmptyRoom'
    BY <1>3, <1>4 DEF GatewayInv, DropsOnlyEmptyRoom
  <1>6. CASE timer' = [timer EXCEPT !.script = TurnAnnouncements]
    <2>1. TurnAnnouncements \in Scripts /\ TurnAnnouncements \in TaskScripts
          /\ TurnAnnouncements # NoAnnouncements
      BY AnnouncementScripts, ScriptKinds
    <2>2. TurnAnnouncements \in Seq(Announcement)
      BY <2>1, ScriptTypes
    <2>3. /\ timer' \in TimerTask /\ timer'.script = TurnAnnouncements
          /\ timer'.revision = timer.revision
      BY <1>3, <1>6, <2>2 DEF TimerTask
    <2>4. timer' # None /\ ~Sleeping'
      BY <2>1, <2>3, GatewayAssumption DEF Sleeping
    <2>. QED
      BY <1>1, <1>2, <1>3, <1>4, <1>5, <2>1, <2>3, <2>4 DEF GatewayInv, WellFormed,
         ClockInHand, TaskInCharge, TaskNamesTurn
  <1>7. CASE timer.revision # turnRevision /\ timer' = None /\ UNCHANGED roomVars
    <2>1. ~TaskInCharge
      BY <1>7 DEF TaskInCharge, TimerWakes
    <2>2. ClockInHand'
      BY <1>3, <1>7, <2>1 DEF GatewayInv, ClockInHand, roomVars
    <2>. QED
      BY <1>1, <1>3, <1>4, <1>5, <1>7, <2>2 DEF GatewayInv, WellFormed, TaskNamesTurn, Sleeping
  <1>. QED
    BY <1>6, <1>7 DEF TimerWakes

\* The announcements of a task end with its own sync.
LEMMA TimerAnnouncesKeepsInv ==
    ASSUME GatewayInv, TimerAnnounces
    PROVE  GatewayInv'
  <1>1. /\ RoomInv' /\ UNCHANGED <<members, game, turnDeadline, turnRevision, script, closing>>
        /\ members \in SUBSET Conns /\ game \in MatchType
    BY RoomStands DEF TimerAnnounces
  <1>2. /\ timer \in TimerTask /\ timer.script \in SyncScripts
        /\ timer.script \in Scripts /\ timer.script # NoAnnouncements
        /\ timer.revision <= turnRevision
    BY AnnouncementScripts DEF TimerAnnounces, Sleeping, GatewayInv, WellFormed, TaskScripts
  <1>3. DropsOnlyEmptyRoom'
    BY <1>1 DEF GatewayInv, DropsOnlyEmptyRoom
  <1>4. view' \in [Conns -> MatchType \cup {None}] /\ heardOver' \in SUBSET Conns
    BY <1>1, ShownViews DEF TimerAnnounces, EndTurnAnnouncement, GatewayInv, WellFormed
  <1>5. CASE Head(timer.script) = "state" /\ timer' = [timer EXCEPT !.script = Tail(@)]
    <2>1. Tail(timer.script) \in SyncScripts
      BY <1>2, <1>5, ScriptResumes
    <2>2. /\ Tail(timer.script) \in TaskScripts /\ Tail(timer.script) \in Scripts
          /\ Tail(timer.script) # NoAnnouncements
      BY <2>1, AnnouncementScripts, ScriptKinds
    <2>3. Tail(timer.script) \in Seq(Announcement)
      BY <2>2, ScriptTypes
    <2>4. /\ timer' \in TimerTask /\ timer'.script = Tail(timer.script)
          /\ timer'.revision = timer.revision
      BY <1>2, <1>5, <2>3 DEF TimerTask
    <2>5. timer' # None /\ ~Sleeping'
      BY <2>2, <2>4, GatewayAssumption DEF Sleeping
    <2>. QED
      BY <1>1, <1>2, <1>3, <1>4, <2>2, <2>4, <2>5 DEF GatewayInv, WellFormed, ClockInHand,
         TaskInCharge, TaskNamesTurn
  <1>6. CASE SyncTurnTimer
    BY <1>1, <1>3, <1>4, <1>6, SyncPutsInCharge DEF TimerAnnounces, GatewayInv, WellFormed,
       ClockInHand
  <1>. QED
    BY <1>5, <1>6 DEF TimerAnnounces, EndTurnAnnouncement

\* A cleanup is over only once it has synchronised; time and stuttering wait.
LEMMA OtherStepsKeepInv ==
    ASSUME GatewayInv, Passes \/ UNCHANGED gatewayVars \/ \E c \in Conns : Reconnect(c)
    PROVE  GatewayInv'
  <1>1. [RoomNext]_roomVars
    BY DEF Passes, gatewayVars, Reconnect, RoomNext
  <1>2. /\ RoomInv'
        /\ UNCHANGED <<members, turnDeadline, turnRevision, script, timer, view, heardOver>>
    BY <1>1, NextKeepsInv DEF GatewayInv, Passes, Tick, seatVars, timerVars, gatewayVars,
       roomVars, Reconnect
  <1>3. /\ closing' \subseteq closing
        /\ \A d \in closing : script[d] \in SyncScripts => d \in closing'
    BY ScriptKinds DEF Passes, gatewayVars, Reconnect, Idle
  <1>. QED
    BY <1>2, <1>3 DEF GatewayInv, WellFormed, DropsOnlyEmptyRoom, ClockInHand, TaskInCharge,
       TaskNamesTurn, Sleeping

\* Every step keeps the invariant.
LEMMA GatewayStep ==
    ASSUME GatewayInv, [GatewayNext]_gatewayVars
    PROVE  GatewayInv'
  <1>1. RoomInv /\ RoomInv' /\ [RoomNext]_roomVars
    BY GatewayStepsRoom, NextKeepsInv DEF GatewayInv
  <1>2. ASSUME NEW c \in Conns, Command(c) PROVE GatewayInv'
    BY <1>1, <1>2, CommandHasEffect, EffectKeepsInv
  <1>. QED
    BY <1>1, <1>2, ResumeKeepsInv, TimerWakesKeepsInv, TimerAnnouncesKeepsInv,
       OtherStepsKeepInv DEF GatewayNext

\* The room stays consistent, its clock in hand and its task identifiable.
THEOREM GatewayInvariant == GatewaySpec => []GatewayInv
  BY GatewayStarts, GatewayStep, PTL DEF GatewaySpec

\* A running clock is never left without its timer, even if handlers are
\* cancelled between the room's answer and the call that registers a task.
THEOREM TimerAlwaysArmed == GatewaySpec => []TimerArmed
  <1>1. GatewayInv => TimerArmed
    <2>. SUFFICES ASSUME GatewayInv, NEW c \in members \cup closing, script[c] \in SyncScripts
                  PROVE  \E d \in Conns, i \in 1 .. 2 :
                           i \in DOMAIN script[d] /\ script[d][i] \in {"sync", "syncThenOver"}
      BY DEF GatewayInv, ClockInHand, TaskInCharge, TimerArmed
    <2>1. c \in Conns
      BY DEF GatewayInv, WellFormed, RoomInv, RoomTypeOK
    <2>2. \E i \in 1 .. 2 : i \in DOMAIN script[c] /\ script[c][i] \in {"sync", "syncThenOver"}
      <3>1. CASE script[c] \in {<<"sync">>, <<"syncThenOver">>}
        BY <3>1
      <3>2. CASE script[c] \in {<<"state", "sync">>, <<"state", "syncThenOver">>}
        BY <3>2
      <3>. QED
        BY <3>1, <3>2 DEF SyncScripts
    <2>. QED
      BY <2>1, <2>2
  <1>. QED
    BY <1>1, GatewayInvariant, PTL

\* A task that still sleeps either waits for the deadline of the running turn
\* or is recognised as stale by its revision.
THEOREM TasksAlwaysCurrentOrStale == GatewaySpec => []SleepingTimerIsCurrentOrStale
  <1>1. GatewayInv => SleepingTimerIsCurrentOrStale
    <2>. SUFFICES ASSUME GatewayInv PROVE GatewayTypeOK
      BY DEF GatewayInv, TaskNamesTurn, SleepingTimerIsCurrentOrStale
    <2>1. script \in [Conns -> UNION {[1 .. n -> Announcement] : n \in 0 .. 2}]
      BY ScriptTypes DEF GatewayInv, WellFormed
    <2>. QED
      BY <2>1 DEF GatewayInv, WellFormed, GatewayTypeOK
  <1>. QED
    BY <1>1, GatewayInvariant, PTL

-----------------------------------------------------------------------------
(* Rooms without a clock, whose handlers always run to their end *)

\* Such a room has no task that could cut another's announcements off.
Uninterrupted == TurnLimit = None /\ ~CancelEndpoints

\* Somebody is still to show everybody the match.
StatePending == \E d \in Conns : script[d] \in StateScripts

OverPending == \E d \in Conns : script[d] \in OverScripts

\* A member sees the match as it is, or is about to.
ViewsFollow ==
    \A m \in members : view[m] = game \/ script[m] = <<"stateToSelf">> \/ StatePending

\* The players know the result, or are about to.
ResultFollows ==
    game.status = "FINISHED" => Players \subseteq heardOver \/ OverPending

UntimedInv == GatewayInv /\ timer = None /\ ViewsFollow /\ ResultFollows

\* The creator is about to be shown the match.
LEMMA UntimedStarts ==
    ASSUME GatewayInit
    PROVE  UntimedInv
  <1>1. GatewayInv /\ members \in SUBSET Conns
    BY GatewayStarts DEF GatewayInv, RoomInv, RoomTypeOK
  <1>2. timer = None /\ game.status = "WAITING"
        /\ \A m \in members : script[m] = <<"stateToSelf">>
    BY <1>1 DEF GatewayInit, RoomInit, MatchInit, NewGame
  <1>. QED
    BY <1>1, <1>2 DEF UntimedInv, ViewsFollow, ResultFollows

\* A command that leaves the match alone owes nobody anything new ...
LEMMA QuietCommand ==
    ASSUME UntimedInv, NEW c \in Conns, NEW s \in Scripts, Listening(c), Then(c, s),
           UNCHANGED <<game, timer, Players, heardOver>>,
           members \in SUBSET Conns,
           \A m \in members' \ {c} : m \in members /\ view'[m] = view[m],
           c \in members' => s = <<"stateToSelf">> \/ (c \in members /\ view'[c] = view[c])
    PROVE  timer' = None /\ ViewsFollow' /\ ResultFollows'
  <1>1. /\ script \in [Conns -> Scripts] /\ script[c] = NoAnnouncements
        /\ script' = [script EXCEPT ![c] = s]
    BY DEF UntimedInv, GatewayInv, WellFormed, Listening, Idle, Then
  <1>2. script'[c] = s /\ \A d \in Conns \ {c} : script'[d] = script[d]
    BY <1>1
  <1>3. StatePending => StatePending'
    BY <1>1, <1>2, ScriptKinds DEF StatePending
  <1>4. OverPending => OverPending'
    BY <1>1, <1>2, ScriptKinds DEF OverPending
  <1>5. ViewsFollow'
    BY <1>1, <1>2, <1>3, ScriptKinds DEF UntimedInv, ViewsFollow
  <1>. QED
    BY <1>4, <1>5 DEF UntimedInv, ResultFollows

\* ... and one that changes it sends a snapshot, with the result if it is over.
LEMMA ShowingCommand ==
    ASSUME UntimedInv, NEW c \in Conns, NEW s \in StateScripts, Then(c, s), UNCHANGED timer,
           game'.status = "FINISHED" => s \in OverScripts \/ Players' \subseteq heardOver'
    PROVE  timer' = None /\ ViewsFollow' /\ ResultFollows'
  <1>1. script'[c] = s
    BY DEF UntimedInv, GatewayInv, WellFormed, Then
  <1>2. StatePending' /\ (s \in OverScripts => OverPending')
    BY <1>1 DEF StatePending, OverPending
  <1>. QED
    BY <1>2 DEF UntimedInv, ViewsFollow, ResultFollows

\* No command of any connection leaves somebody behind.
LEMMA UntimedCommand ==
    ASSUME UntimedInv, Uninterrupted, NEW c \in Conns, Command(c)
    PROVE  timer' = None /\ ViewsFollow' /\ ResultFollows'
  <1>1. /\ RoomInv /\ Players \subseteq members /\ members \in SUBSET Conns
        /\ ~TurnExpired /\ game \in MatchType
    BY PlayersFacts, TurnFacts DEF UntimedInv, GatewayInv, Uninterrupted, RoomInv, RoomTypeOK
  <1>2. TurnAnnouncements \in StateScripts
        /\ (game'.status = "FINISHED" => TurnAnnouncements \in OverScripts)
    BY DEF TurnAnnouncements, StateScripts, OverScripts
  <1>3. CASE HandleJoin(c)
    BY <1>1, <1>3, AnnouncementScripts, QuietCommand DEF HandleJoin, Join, Players
  <1>4. CASE HandleLeave(c) /\ c \notin Players
    <2>1. Players \ {c} = Players /\ playerColors \in [Players -> Color]
      BY <1>1, <1>4, PlayersFacts
    <2>2. /\ Leave(c) /\ UNCHANGED <<game, Players, timer, heardOver>> /\ members' = members \ {c}
          /\ view' = [view EXCEPT ![c] = None]
      BY <1>4, <2>1 DEF HandleLeave, Leave, Unseated, ForgetOldResult, Players
    <2>3. LeaveAnnouncements(c) \in Scripts
      BY <2>2, LeaveEffect DEF UntimedInv
    <2>4. view \in [Conns -> MatchType \cup {None}]
      BY DEF UntimedInv, GatewayInv, WellFormed
    <2>5. \A m \in members' \ {c} : m \in members /\ view'[m] = view[m]
      BY <1>1, <2>2, <2>4
    <2>. QED
      BY <1>1, <1>4, <2>2, <2>3, <2>5, QuietCommand DEF HandleLeave
  <1>5. CASE HandleLeave(c) /\ c \in Players
    <2>1. game'.status = "WAITING" /\ Leave(c) /\ UNCHANGED timer
      BY <1>5 DEF HandleLeave, Leave, Discard, NewGame
    <2>2. CASE members' = {}
      BY <2>1, <2>2 DEF UntimedInv, ViewsFollow, ResultFollows
    <2>3. CASE members' # {}
      <3>1. LeaveAnnouncements(c) = <<"state", "sync">>
        BY <1>5, <2>3 DEF LeaveAnnouncements
      <3>. QED
        BY <1>5, <2>1, <3>1, AnnouncementScripts, ShowingCommand DEF HandleLeave
    <2>. QED
      BY <2>2, <2>3
  <1>6. CASE HandleRole(c)
    <2>1. game'.status # "FINISHED" /\ <<"state">> \in StateScripts
      BY <1>6 DEF HandleRole, BecomePlayer, BecomeObserver, ChangeRole, Discard, NewGame,
         StateScripts
    <2>. QED
      BY <1>6, <2>1, ShowingCommand DEF HandleRole
  <1>7. CASE HandleReady(c) /\ game' # game
    <2>1. game'.status # "FINISHED"
      BY <1>7 DEF HandleReady, SetReady, NewGame
    <2>. QED
      BY <1>7, <2>1, AnnouncementScripts, ShowingCommand DEF HandleReady
  <1>8. CASE HandleReady(c) /\ game' = game
    <2>1. UNCHANGED <<playerColors, members>>
      BY <1>8 DEF HandleReady, SetReady, NewGame, Playing
    <2>. QED
      BY <1>1, <1>8, <2>1, AnnouncementScripts, QuietCommand DEF HandleReady, ForgetOldResult,
         Players
  <1>9. CASE HandleMove(c)
    BY <1>2, <1>9, ShowingCommand DEF HandleMove
  <1>10. CASE HandleUndoRequest(c)
    <2>1. ~ExpireTurnLocked
      BY <1>1 DEF ExpireTurnLocked
    <2>2. UNCHANGED <<game, members, playerColors>> /\ Then(c, <<"sync">>)
      BY <1>1, <1>10, <2>1 DEF HandleUndoRequest, RequestUndo, seatVars
    <2>3. <<"sync">> \in Scripts
      BY AnnouncementScripts
    <2>. QED
      BY <1>1, <1>10, <2>2, <2>3, QuietCommand DEF HandleUndoRequest, ForgetOldResult, Players
  <1>11. CASE HandleUndoResponse(c)
    <2>1. game'.status # "FINISHED"
      BY <1>1, <1>11 DEF HandleUndoResponse, RespondUndo, UndoMoves, RoomInv, UndoRequestValid,
         Playing, MatchType
    <2>. QED
      BY <1>11, <2>1, AnnouncementScripts, ShowingCommand DEF HandleUndoResponse
  <1>12. CASE HandleResign(c)
    <2>1. Then(c, <<"state", "sync">>) /\ heardOver' = members
      BY <1>1, <1>12 DEF HandleResign
    <2>2. Players' = Players
      BY <1>1, <1>12 DEF HandleResign, Resign, ExpireTurnLocked, seatVars, Players
    <2>. QED
      BY <1>1, <1>12, <2>1, <2>2, AnnouncementScripts, ShowingCommand DEF HandleResign
  <1>. QED
    BY <1>3, <1>4, <1>5, <1>6, <1>7, <1>8, <1>9, <1>10, <1>11, <1>12
       DEF Command, HandleDisconnect, Uninterrupted

\* An announcement is made to all it is owed to.
LEMMA UntimedResume ==
    ASSUME UntimedInv, Uninterrupted, NEW c \in Conns, Resume(c)
    PROVE  timer' = None /\ ViewsFollow' /\ ResultFollows'
  <1>. DEFINE s == script[c]
  <1>1. /\ RoomInv /\ Players \subseteq members /\ members \in SUBSET Conns
        /\ turnDeadline = None /\ UNCHANGED <<members, game, Players>>
        /\ view \in [Conns -> MatchType \cup {None}]
    BY PlayersFacts DEF UntimedInv, GatewayInv, WellFormed, Uninterrupted, RoomInv, RoomTypeOK,
       ClockDiscipline, Resume, roomVars, Players
  <1>2. /\ s \in Scripts /\ s # NoAnnouncements /\ Announce(Head(s), c)
        /\ script' = [script EXCEPT ![c] = Tail(s)] /\ script \in [Conns -> Scripts]
    BY DEF Resume, Idle, UntimedInv, GatewayInv, WellFormed
  <1>3. script'[c] = Tail(s) /\ \A d \in Conns \ {c} : script'[d] = script[d]
    BY <1>2
  <1>4. timer' = None
    BY <1>1, <1>2 DEF Announce, EndTurnAnnouncement, SyncTurnTimer, UntimedInv
  <1>5. CASE Head(s) = "state"
    <2>1. /\ ShowGameTo(members) /\ UNCHANGED heardOver
          /\ s \in OverScripts => Tail(s) \in OverScripts
      BY <1>2, <1>5, ScriptResumes DEF Announce, EndTurnAnnouncement
    <2>2. ViewsFollow'
      BY <1>1, <2>1 DEF ShowGameTo, ViewsFollow
    <2>3. OverPending => OverPending'
      BY <1>3, <2>1 DEF OverPending
    <2>. QED
      BY <1>1, <1>4, <2>1, <2>2, <2>3 DEF UntimedInv, ResultFollows
  <1>6. CASE Head(s) # "state"
    <2>1. /\ s \notin StateScripts
          /\ Head(s) # "stateToSelf" => s # <<"stateToSelf">>
          /\ Head(s) # "syncThenOver" => s \notin OverScripts
      <3>1. \/ Head(s) = "sync" /\ s = <<"sync">>
            \/ Head(s) = "syncThenOver" /\ s = <<"syncThenOver">>
            \/ Head(s) = "stateToSelf" /\ s = <<"stateToSelf">>
            \/ Head(s) = "dropTimer" /\ s = <<"dropTimer">>
        BY <1>2, <1>6, ScriptResumes
      <3>. HIDE DEF s
      <3>. QED
        BY <3>1, ScriptKinds
    <2>2. StatePending => StatePending'
      BY <1>3, <2>1 DEF StatePending
    <2>3. \A m \in members : view'[m] = view[m] \/ view'[m] = game
      BY <1>1, <1>2 DEF Announce, EndTurnAnnouncement, ShowGameTo
    <2>4. Head(s) = "stateToSelf" /\ c \in members => view'[c] = game
      BY <1>1, <1>2 DEF Announce, EndTurnAnnouncement, ShowGameTo
    <2>5. ViewsFollow'
      BY <1>1, <1>3, <2>1, <2>2, <2>3, <2>4 DEF UntimedInv, ViewsFollow
    <2>6. Head(s) = "syncThenOver" => heardOver' = members
      BY <1>2 DEF Announce, EndTurnAnnouncement
    <2>7. Head(s) # "syncThenOver" => UNCHANGED heardOver /\ (OverPending => OverPending')
      BY <1>2, <1>3, <2>1 DEF Announce, EndTurnAnnouncement, OverPending
    <2>. QED
      BY <1>1, <1>4, <2>5, <2>6, <2>7 DEF UntimedInv, ResultFollows
  <1>. QED
    BY <1>5, <1>6

\* Without a clock there is no task, so nothing else announces or cancels.
LEMMA UntimedStep ==
    ASSUME UntimedInv, Uninterrupted, [GatewayNext]_gatewayVars
    PROVE  UntimedInv'
  <1>1. GatewayInv'
    BY GatewayStep DEF UntimedInv
  <1>2. ASSUME NEW c \in Conns, Command(c) \/ Resume(c)
        PROVE  timer' = None /\ ViewsFollow' /\ ResultFollows'
    BY <1>2, UntimedCommand, UntimedResume
  <1>3. ASSUME Passes \/ UNCHANGED gatewayVars \/ \E c \in Conns : Reconnect(c)
        PROVE  timer' = None /\ ViewsFollow' /\ ResultFollows'
    <2>1. UNCHANGED <<members, game, Players, script, timer, view, heardOver>>
      BY <1>3 DEF Passes, Tick, seatVars, gatewayVars, roomVars, Reconnect, Players
    <2>. QED
      BY <2>1 DEF UntimedInv, ViewsFollow, ResultFollows, StatePending, OverPending
  <1>4. ~TimerWakes /\ ~TimerAnnounces
    BY DEF UntimedInv, TimerWakes, TimerAnnounces, Sleeping
  <1>5. timer' = None /\ ViewsFollow' /\ ResultFollows'
    BY <1>2, <1>3, <1>4 DEF GatewayNext
  <1>. QED
    BY <1>1, <1>5 DEF UntimedInv

\* So everybody is always up to date or about to be.
LEMMA UntimedInvariant ==
    ASSUME Uninterrupted
    PROVE  GatewaySpec => []UntimedInv
  <1>1. UntimedInv /\ [GatewayNext]_gatewayVars => UntimedInv'
    BY UntimedStep
  <1>. QED
    BY <1>1, UntimedStarts, PTL DEF GatewaySpec

\* Everybody is informed in every state in which everybody is about to be.
LEMMA FollowedIsInformed ==
    ASSUME UntimedInv
    PROVE  ViewsConverge /\ ResultAnnounced
  <1>. SUFFICES ASSUME Quiet PROVE ViewsConverge /\ ResultAnnounced
    BY DEF ViewsConverge, ResultAnnounced
  <1>1. members \in SUBSET Conns /\ \A c \in Conns : script[c] = NoAnnouncements
    BY DEF UntimedInv, GatewayInv, RoomInv, RoomTypeOK, Quiet, Idle
  <1>2. ~StatePending /\ ~OverPending /\ \A c \in Conns : script[c] # <<"stateToSelf">>
    BY <1>1, ScriptKinds DEF StatePending, OverPending
  <1>. QED
    BY <1>1, <1>2 DEF UntimedInv, ViewsFollow, ResultFollows, ViewsConverge, ResultAnnounced

\* Without a clock and without cancelled handlers nobody is left with an old
\* picture of the match once every announcement is out, in whatever order the
\* handlers made them.
THEOREM UntimedViewsAlwaysConverge ==
    ASSUME TurnLimit = None, ~CancelEndpoints
    PROVE  GatewaySpec => []ViewsConverge
  <1>1. UntimedInv => ViewsConverge
    BY FollowedIsInformed
  <1>. QED
    BY <1>1, UntimedInvariant, PTL DEF Uninterrupted

\* In such a room every result reaches both its players and is seen by all.
THEOREM UntimedResultAlwaysAnnounced ==
    ASSUME TurnLimit = None, ~CancelEndpoints
    PROVE  GatewaySpec => []ResultAnnounced
  <1>1. UntimedInv => ResultAnnounced
    BY FollowedIsInformed
  <1>. QED
    BY <1>1, UntimedInvariant, PTL DEF Uninterrupted

-----------------------------------------------------------------------------
(* The runs' room, which starts with its seats taken *)

\* Two players on opposite colours, the rest watching: nothing is owed to them.
LEMMA SeatedStarts ==
    ASSUME MCInit
    PROVE  UntimedInv
  <1>1. /\ Opener \in Conns /\ Second \in Conns /\ Opener # Second
        /\ Watchers \in SUBSET Conns /\ Watchers \cap {Opener, Second} = {}
        /\ IsFiniteSet(Watchers) /\ Cardinality(Watchers) + 2 <= MaxMembers
    BY SeatsAssumption
  <1>2. /\ Players = {Opener, Second} /\ members = Players \cup Watchers
        /\ observers = Watchers
        /\ playerColors[Opener] = StartingColor
        /\ playerColors[Second] = Opponent(StartingColor)
        /\ playerColors \in [Players -> Color]
    BY <1>1, OpponentFacts, MatchAssumption DEF MCInit, Players
  <1>3. IsFiniteSet(Players) /\ Cardinality(Players) = 2
    <2>1. IsFiniteSet({Second}) /\ Cardinality({Second}) = 1
      BY FS_Singleton
    <2>2. Cardinality({Second} \cup {Opener}) = 2 /\ IsFiniteSet({Second} \cup {Opener})
      BY <1>1, <2>1, FS_AddElement, Opener \notin {Second}, 1 + 1 = 2
    <2>. QED
      BY <1>2, <2>2
  <1>4. IsFiniteSet(members) /\ Cardinality(members) <= MaxMembers
    <2>1. /\ IsFiniteSet(Players \cup Watchers) /\ Players \cap Watchers = {}
          /\ Cardinality(Players \cup Watchers) =
                Cardinality(Players) + Cardinality(Watchers)
                  - Cardinality(Players \cap Watchers)
      BY <1>1, <1>2, <1>3, FS_Union
    <2>2. Cardinality(Players \cap Watchers) = 0
      BY <2>1, FS_EmptySet
    <2>3. Cardinality(Watchers) \in Nat /\ MaxMembers \in Nat
      BY <1>1, FS_CardinalityType, RoomAssumption
    <2>. QED
      BY <1>1, <1>2, <1>3, <2>1, <2>2, <2>3
  <1>5. /\ game \in MatchType /\ ResultConsistent
        /\ game.status = "WAITING" /\ readyConnections = {} /\ pendingUndo = None
        /\ turnRevision = 0 /\ turnDeadline = None /\ pausedRemaining = None /\ now = 0
    <2>1. game = NewGame("WAITING") /\ game \in MatchType
      BY MatchAssumption DEF MCInit, MatchInit, NewGame, MatchType, Status
    <2>. QED
      BY <2>1, MatchAssumption DEF MCInit, NewGame, ResultConsistent
  <1>6. RoomTypeOK
    BY <1>1, <1>2, <1>4, <1>5 DEF RoomTypeOK
  <1>7. SeatsConsistent
    BY <1>1, <1>2, <1>3, <1>5, OpponentFacts, MatchAssumption
       DEF SeatsConsistent, Playing, PlayersFull, MaxPlayers
  <1>8. RoomInv
    BY <1>4, <1>5, <1>6, <1>7 DEF RoomInv, UndoRequestValid, ClockDiscipline, Playing
  <1>9. /\ script \in [Conns -> Scripts] /\ \A c \in Conns : script[c] # <<"dropTimer">>
        /\ timer = None /\ closing = {} /\ heardOver = {}
        /\ view \in [Conns -> MatchType \cup {None}]
        /\ \A c \in members : view[c] = game
    <2>1. members \in SUBSET Conns
      BY <1>6 DEF RoomTypeOK
    <2>. QED
      BY <1>5, <2>1, ScriptKinds DEF MCInit, Scripts
  <1>10. GatewayInv
    BY <1>5, <1>8, <1>9 DEF GatewayInv, WellFormed, DropsOnlyEmptyRoom, ClockInHand,
       TaskNamesTurn, Sleeping
  <1>. QED
    BY <1>5, <1>9, <1>10 DEF UntimedInv, ViewsFollow, ResultFollows

\* A client command within the bound, or time, is a step of the gateway.
LEMMA BoundedStep ==
    ASSUME [MCNext]_mcVars
    PROVE  [GatewayNext]_gatewayVars
  BY DEF MCNext, mcVars, GatewayNext

UntimedRoomInv == kind = "untimed" => UntimedInv

\* Whatever kinds of room exist beside it, in a room without a clock and with
\* handlers that run to their end nobody is left with an old picture once every
\* announcement is out, and every result reaches both players, whoever sits and
\* watches and however many commands the clients send.
THEOREM UntimedRoomAlwaysInformed ==
    ASSUME TurnLimit = None, ~CancelEndpoints
    PROVE  AnySpec => []UntimedRoomInformed
  <1>1. AnyInit => UntimedRoomInv
    BY SeatedStarts DEF AnyInit, UntimedRoomInv
  <1>2. UntimedRoomInv /\ [AnyNext]_<<mcVars, kind>> => UntimedRoomInv'
    <2>. SUFFICES ASSUME UntimedRoomInv, [AnyNext]_<<mcVars, kind>>, kind' = "untimed"
                  PROVE  UntimedInv'
      BY DEF UntimedRoomInv
    <2>1. kind = "untimed" /\ [MCNext]_mcVars
      BY DEF AnyNext
    <2>. QED
      BY <2>1, BoundedStep, UntimedStep DEF UntimedRoomInv, Uninterrupted
  <1>3. UntimedRoomInv => UntimedRoomInformed
    BY FollowedIsInformed DEF UntimedRoomInv, UntimedRoomInformed
  <1>. QED
    BY <1>1, <1>2, <1>3, PTL DEF AnySpec
=============================================================================
