------------------------------- MODULE Lobby --------------------------------
(***************************************************************************)
(* The server around its rooms: connections that come, log in and vanish,   *)
(* the room registry (app/room_manager.py), the connection registry         *)
(* (app/connection.py), and the room list the lobby is shown (app/main.py). *)
(* A room is only what the registry and the list know of it.  As in module  *)
(* Gateway, a handler makes its calls in one step and its sends in later     *)
(* ones.                                                                    *)
(***************************************************************************)
EXTENDS Integers, Sequences, FiniteSets

CONSTANTS Conns,            \* connections
          Names,            \* room names, as room_name_key tells them apart
          MaxRoomMembers,   \* MAX_ROOM_MEMBERS
          MaxPlayers,       \* MAX_PLAYERS
          None

ASSUME LobbyAssumption ==
    /\ MaxPlayers \in Nat \ {0} /\ MaxRoomMembers \in Nat \ {0}
    /\ None \notin Conns \cup Names \cup Nat

VARIABLES
    rooms,           \* _rooms: id -> room
    idsByName,       \* _room_ids_by_name
    counter,         \* _counter
    sessions,        \* _sessions: connections the registry can send to
    roomOf,          \* session.room_id
    authenticated,   \* connections with an account_id
    endpoint,        \* "closed", "open", or "closing" in its shielded cleanup
    alive,           \* connections whose peer is still there
    script,          \* what the endpoint still has to do
    shown            \* the last room_list a connection was sent, or None

registryVars == <<rooms, idsByName, counter>>
sessionVars == <<sessions, roomOf, authenticated>>
lobbyVars == <<registryVars, sessionVars, endpoint, alive, script, shown>>

RoomIds == Nat \ {0}

RoomType == [name : Names, members : SUBSET Conns, players : SUBSET Conns,
             status : {"WAITING", "PLAYING", "FINISHED"}]

-----------------------------------------------------------------------------
(* Room registry *)

\* Slip: the number of rooms stands in for the counter.
NextRoomId_Reused == Cardinality(DOMAIN rooms) + 1

\* _next_room_id
NextRoomId == counter + 1

Without(f, x) == [y \in DOMAIN f \ {x} |-> f[y]]

With(f, x, v) == [y \in DOMAIN f \cup {x} |-> IF y = x THEN v ELSE f[y]]

\* Slip: the name of a removed room stays taken.
RemoveRoom_KeepsName(r) == rooms' = Without(rooms, r) /\ UNCHANGED idsByName

\* _remove_if_empty, of an empty room
RemoveRoom(r) ==
    /\ rooms' = Without(rooms, r)
    /\ idsByName' = Without(idsByName, rooms[r].name)

Changed(r, room) == rooms' = [rooms EXCEPT ![r] = room] /\ UNCHANGED idsByName

\* leave_room: the round of a player who leaves is discarded.
LeaveRoom(r, c) ==
    LET room == rooms[r]
    IN  IF room.members = {c} THEN RemoveRoom(r)
        ELSE Changed(r, [room EXCEPT
                !.members = @ \ {c}, !.players = @ \ {c},
                !.status = IF c \in room.players THEN "WAITING" ELSE @])

\* get_room_list: the fields of a summary that ever change; a room short of a
\* player shows as waiting (lobby_status).
RoomList ==
    [r \in DOMAIN rooms |->
        [members |-> Cardinality(rooms[r].members), players |-> Cardinality(rooms[r].players),
         status |-> IF Cardinality(rooms[r].players) < MaxPlayers THEN "WAITING"
                    ELSE rooms[r].status]]

-----------------------------------------------------------------------------
(* Sends.  A step of a script is <<kind, room id or None>>. *)

ToSelf == <<"self", None>>       \* messages to the connection itself
ToLobby == <<"lobby", None>>     \* _broadcast_room_list
OwnList == <<"list", None>>      \* _send_room_list
LoginResult == <<"login", None>> \* the worker thread's answer, and its message
ToRoom(r) == <<"room", r>>       \* messages to the members of a room

LobbySessions == {c \in sessions : roomOf[c] = None}

\* A send to a peer that is gone may be noticed: _drop_dead forgets its session.
\* Whoever is sent a list sees the one of this moment.
Send(targets, withList) ==
    /\ \E lost \in SUBSET {c \in targets : ~alive[c]} : sessions' = sessions \ lost
    /\ shown' = IF withList THEN [c \in Conns |-> IF c \in targets THEN RoomList ELSE shown[c]]
                ELSE shown

Announce(step, c) ==
    \/ /\ step = ToSelf /\ Send({c} \cap sessions, FALSE)
       /\ UNCHANGED authenticated
    \/ /\ step = OwnList /\ Send({c} \cap sessions, TRUE)
       /\ UNCHANGED authenticated
    \/ /\ step = ToLobby /\ Send(LobbySessions, TRUE)
       /\ UNCHANGED authenticated
    \/ /\ step[1] = "room"
       /\ Send(IF step[2] \in DOMAIN rooms THEN rooms[step[2]].members \cap sessions ELSE {}, FALSE)
       /\ UNCHANGED authenticated
    \/ /\ step = LoginResult
       /\ authenticated' \in {authenticated, authenticated \cup {c}}
       /\ Send({c} \cap sessions, FALSE)

Then(c, steps) == script' = [script EXCEPT ![c] = steps]

\* A handler resumes after a send, or after its worker thread.
Resume(c) ==
    /\ script[c] # << >>
    /\ Announce(Head(script[c]), c)
    /\ Then(c, Tail(script[c]))
    /\ UNCHANGED <<registryVars, roomOf, endpoint, alive>>

-----------------------------------------------------------------------------
(* Endpoints *)

\* websocket_endpoint up to its message loop
Connect(c) ==
    /\ endpoint[c] = "closed"
    /\ endpoint' = [endpoint EXCEPT ![c] = "open"]
    /\ alive' = [alive EXCEPT ![c] = TRUE]
    /\ sessions' = sessions \cup {c}
    /\ Then(c, <<ToSelf, OwnList>>)
    /\ UNCHANGED <<registryVars, roomOf, authenticated, shown>>

\* The peer goes away.  Messages it has sent before are still handled.
Vanish(c) ==
    /\ endpoint[c] = "open" /\ alive[c]
    /\ alive' = [alive EXCEPT ![c] = FALSE]
    /\ UNCHANGED <<registryVars, sessionVars, endpoint, script, shown>>

\* Slip: the room is left only by a connection that is still registered.
Disconnect_OnlyRegistered(c) ==
    /\ endpoint[c] = "open" /\ ~alive[c]
    /\ endpoint' = [endpoint EXCEPT ![c] = "closing"]
    /\ sessions' = sessions \ {c}
    /\ roomOf' = [roomOf EXCEPT ![c] = None]
    /\ IF roomOf[c] = None \/ c \notin sessions
       THEN UNCHANGED <<rooms, idsByName>> /\ Then(c, <<ToLobby>>)
       ELSE LeaveRoom(roomOf[c], c) /\ Then(c, <<ToRoom(roomOf[c]), ToLobby>>)
    /\ UNCHANGED <<counter, authenticated, alive, shown>>

\* The end of websocket_endpoint: the receive of a message fails, or the task is
\* cancelled wherever its handler is, and _handle_disconnect runs shielded.
Disconnect(c) ==
    /\ endpoint[c] = "open" /\ ~alive[c]
    /\ endpoint' = [endpoint EXCEPT ![c] = "closing"]
    /\ sessions' = sessions \ {c}
    /\ roomOf' = [roomOf EXCEPT ![c] = None]
    /\ IF roomOf[c] = None
       THEN UNCHANGED <<rooms, idsByName>> /\ Then(c, <<ToLobby>>)
       ELSE LeaveRoom(roomOf[c], c) /\ Then(c, <<ToRoom(roomOf[c]), ToLobby>>)
    /\ UNCHANGED <<counter, authenticated, alive, shown>>

\* The endpoint is over; a later connection is a new session.
Closed(c) ==
    /\ endpoint[c] = "closing" /\ script[c] = << >>
    /\ endpoint' = [endpoint EXCEPT ![c] = "closed"]
    /\ authenticated' = authenticated \ {c}
    /\ shown' = [shown EXCEPT ![c] = None]
    /\ UNCHANGED <<registryVars, sessions, roomOf, alive, script>>

-----------------------------------------------------------------------------
(* Handlers *)

Listening(c) == endpoint[c] = "open" /\ script[c] = << >>

\* The account is looked up in a worker thread.
HandleLogin(c) ==
    /\ Listening(c) /\ c \notin authenticated /\ roomOf[c] = None
    /\ Then(c, <<LoginResult>>)
    /\ UNCHANGED <<registryVars, sessionVars, endpoint, alive, shown>>

\* _reject_if_in_room, _require_authenticated_account
MayEnterRoom(c) == Listening(c) /\ roomOf[c] = None /\ c \in authenticated

EnterRoom(c, r) ==
    /\ roomOf' = [roomOf EXCEPT ![c] = r]
    /\ Then(c, <<ToSelf, ToRoom(r), ToLobby>>)
    /\ UNCHANGED <<sessions, authenticated, endpoint, alive, shown>>

HandleCreateRoom(c, name) ==
    /\ MayEnterRoom(c)
    /\ name \notin DOMAIN idsByName
    /\ counter' = counter + 1
    /\ rooms' = With(rooms, NextRoomId,
                     [name |-> name, members |-> {c}, players |-> {}, status |-> "WAITING"])
    /\ idsByName' = With(idsByName, name, NextRoomId)
    /\ EnterRoom(c, NextRoomId)

HandleJoinRoom(c, r) ==
    /\ MayEnterRoom(c)
    /\ Cardinality(rooms[r].members) < MaxRoomMembers
    /\ Changed(r, [rooms[r] EXCEPT !.members = @ \cup {c}])
    /\ EnterRoom(c, r)
    /\ UNCHANGED counter

\* Slip: only the room is told of a departure that leaves it standing.
LeaveSteps_NoList(r) == IF r \in DOMAIN rooms' THEN <<ToSelf, ToRoom(r)>> ELSE <<ToSelf, ToLobby>>

LeaveSteps(r) == IF r \in DOMAIN rooms' THEN <<ToSelf, ToRoom(r), ToLobby>> ELSE <<ToSelf, ToLobby>>

HandleLeaveRoom(c) ==
    /\ Listening(c) /\ roomOf[c] # None
    /\ LeaveRoom(roomOf[c], c)
    /\ roomOf' = [roomOf EXCEPT ![c] = None]
    /\ Then(c, LeaveSteps(roomOf[c]))
    /\ UNCHANGED <<counter, sessions, authenticated, endpoint, alive, shown>>

\* Handlers of a member that change what the lobby is shown of its room: a role
\* changes between rounds and resets a finished one, a round starts (with the
\* second vote; the first changes nothing here), a round ends.
RoomCommand(c, newRoom, steps) ==
    /\ Listening(c) /\ roomOf[c] # None
    /\ Changed(roomOf[c], newRoom)
    /\ Then(c, steps)
    /\ UNCHANGED <<counter, sessionVars, endpoint, alive, shown>>

HandleRole(c) ==
    LET r == roomOf[c]
        room == rooms[r]
        takes == c \notin room.players
    IN  /\ r # None
        /\ room.status # "PLAYING"
        /\ takes => Cardinality(room.players) < MaxPlayers
        /\ RoomCommand(c, [room EXCEPT !.players = IF takes THEN @ \cup {c} ELSE @ \ {c},
                                       !.status = "WAITING"],
                       <<ToSelf, ToRoom(r), ToLobby>>)

HandleRoundStarts(c) ==
    LET r == roomOf[c]
        room == rooms[r]
    IN  /\ r # None
        /\ c \in room.players /\ Cardinality(room.players) = MaxPlayers
        /\ room.status # "PLAYING"
        /\ RoomCommand(c, [room EXCEPT !.status = "PLAYING"], <<ToSelf, ToRoom(r), ToLobby>>)

HandleRoundEnds(c) ==
    LET r == roomOf[c]
        room == rooms[r]
    IN  /\ r # None
        /\ c \in room.players /\ room.status = "PLAYING"
        /\ RoomCommand(c, [room EXCEPT !.status = "FINISHED"], <<ToRoom(r), ToLobby>>)

-----------------------------------------------------------------------------

LobbyInit ==
    /\ rooms = << >> /\ idsByName = << >> /\ counter = 0
    /\ sessions = {} /\ authenticated = {}
    /\ roomOf = [c \in Conns |-> None]
    /\ endpoint = [c \in Conns |-> "closed"]
    /\ alive = [c \in Conns |-> FALSE]
    /\ script = [c \in Conns |-> << >>]
    /\ shown = [c \in Conns |-> None]

Handle(c) ==
    \/ HandleLogin(c)
    \/ \E name \in Names : HandleCreateRoom(c, name)
    \/ \E r \in DOMAIN rooms : HandleJoinRoom(c, r)
    \/ HandleLeaveRoom(c)
    \/ HandleRole(c) \/ HandleRoundStarts(c) \/ HandleRoundEnds(c)

LobbyNext ==
    \E c \in Conns : \/ Connect(c) \/ Vanish(c) \/ Disconnect(c) \/ Closed(c)
                     \/ Handle(c) \/ Resume(c)

\* The event loop runs every ready task, and a receive from a peer that is gone
\* ends at last.
LobbyFairness == \A c \in Conns : WF_lobbyVars(Resume(c)) /\ WF_lobbyVars(Disconnect(c))

LobbySpec == LobbyInit /\ [][LobbyNext]_lobbyVars /\ LobbyFairness

-----------------------------------------------------------------------------
(* Properties *)

\* Registries and sessions hold values of their kinds, within the room's limits.
LobbyTypeOK ==
    /\ DOMAIN rooms \subseteq 1 .. counter
    /\ \A r \in DOMAIN rooms : /\ rooms[r] \in RoomType
                               /\ Cardinality(rooms[r].members) <= MaxRoomMembers
                               /\ rooms[r].players \subseteq rooms[r].members
    /\ sessions \subseteq Conns /\ authenticated \subseteq Conns
    /\ \A c \in Conns : roomOf[c] \in RoomIds \cup {None}

\* Sessions and rooms name each other at every suspension, dropped sockets and
\* abandoned handlers included: a connection is a member of the room its session
\* is in and of no other, and no room has a member that never logged in
\* (_require_room finds the room of every session).
SessionsMatchRooms ==
    \A c \in Conns :
        /\ roomOf[c] # None => roomOf[c] \in DOMAIN rooms /\ c \in authenticated
        /\ \A r \in DOMAIN rooms : c \in rooms[r].members <=> roomOf[c] = r

\* Names and rooms are in bijection, so that a name is free again with its room,
\* and a room is gone with its last member (_remove_if_empty); no room outgrows
\* its limits.
RegistrySound ==
    /\ LobbyTypeOK
    /\ \A name \in DOMAIN idsByName :
          idsByName[name] \in DOMAIN rooms /\ rooms[idsByName[name]].name = name
    /\ \A r \in DOMAIN rooms : /\ rooms[r].name \in DOMAIN idsByName
                               /\ idsByName[rooms[r].name] = r
                               /\ rooms[r].members # {}

\* Once every announcement is out, every client in the lobby has the room list
\* as it is, in whatever order the changes were announced and whichever handlers
\* were abandoned (main.py:342: clients never poll).
RoomListsConverge ==
    (\A c \in Conns : script[c] = << >> /\ endpoint[c] # "closing") =>
        \A c \in LobbySessions : alive[c] => shown[c] = RoomList

\* A peer that is gone keeps no seat: whether or not a failed send has dropped
\* its session before, its endpoint in the end takes it out of its room and of
\* the registry (connection.py:257).
GoneMeansGone ==
    \A c \in Conns :
        endpoint[c] = "open" /\ ~alive[c] ~>
            /\ c \notin sessions
            /\ \A r \in DOMAIN rooms : c \notin rooms[r].members
=============================================================================
