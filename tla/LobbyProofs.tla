---------------------------- MODULE LobbyProofs ----------------------------
(***************************************************************************)
(* The registry and the sessions agree for any number of connections, room *)
(* names and members, and wherever a handler is cut off.  The registry says *)
(* who is in a room twice, in the room and in the session, and what a room  *)
(* is called twice; neither half is inductive without the other, nor        *)
(* without knowing that only an open endpoint is in a room.                 *)
(***************************************************************************)
EXTENDS Lobby, FiniteSetTheorems, TLAPS

\* What the two properties need besides each other.
Supports ==
    /\ counter \in Nat
    /\ roomOf \in [Conns -> RoomIds \cup {None}]
    /\ endpoint \in [Conns -> {"closed", "open", "closing"}]
    /\ \A r \in DOMAIN rooms : IsFiniteSet(rooms[r].members)
    /\ \A c \in Conns : roomOf[c] # None => endpoint[c] = "open"

LobbyInv == Supports /\ SessionsMatchRooms /\ RegistrySound

\* Connections come and go, send, vanish and log in: the registry is let alone,
\* and nobody in a room is closed or logged out.
LEMMA SessionsAlone ==
    ASSUME LobbyInv, UNCHANGED <<registryVars, roomOf>>,
           sessions' \subseteq Conns, authenticated' \subseteq Conns,
           endpoint' \in [Conns -> {"closed", "open", "closing"}],
           \A c \in Conns : roomOf[c] # None =>
               endpoint'[c] = "open" /\ (c \in authenticated => c \in authenticated')
    PROVE  LobbyInv'
  <1>1. /\ rooms' = rooms /\ idsByName' = idsByName /\ counter' = counter /\ roomOf' = roomOf
    BY DEF registryVars
  <1>2. Supports'
    BY <1>1 DEF LobbyInv, Supports
  <1>3. SessionsMatchRooms'
    BY <1>1 DEF LobbyInv, SessionsMatchRooms
  <1>4. RegistrySound'
    BY <1>1 DEF LobbyInv, RegistrySound, LobbyTypeOK
  <1>. QED
    BY <1>2, <1>3, <1>4 DEF LobbyInv

\* A room changes neither its name nor its members.
LEMMA RoomChanges ==
    ASSUME LobbyInv, NEW r \in DOMAIN rooms, NEW room \in RoomType, Changed(r, room),
           room.name = rooms[r].name, room.members = rooms[r].members,
           room.players \subseteq room.members,
           UNCHANGED <<counter, sessionVars, endpoint>>
    PROVE  LobbyInv'
  <1>1. /\ DOMAIN rooms' = DOMAIN rooms /\ rooms'[r] = room
        /\ \A q \in DOMAIN rooms : q # r => rooms'[q] = rooms[q]
        /\ idsByName' = idsByName /\ counter' = counter /\ roomOf' = roomOf
        /\ sessions' = sessions /\ authenticated' = authenticated /\ endpoint' = endpoint
    BY DEF Changed, sessionVars
  <1>2. \A q \in DOMAIN rooms : /\ rooms'[q].name = rooms[q].name
                                /\ rooms'[q].members = rooms[q].members
    BY <1>1
  <1>3. Supports'
    BY <1>1, <1>2 DEF LobbyInv, Supports
  <1>4. SessionsMatchRooms'
    BY <1>1, <1>2 DEF LobbyInv, SessionsMatchRooms
  <1>5. LobbyTypeOK'
    BY <1>1, <1>2 DEF LobbyInv, RegistrySound, LobbyTypeOK
  <1>6. RegistrySound'
    BY <1>1, <1>2, <1>5 DEF LobbyInv, RegistrySound
  <1>. QED
    BY <1>3, <1>4, <1>6 DEF LobbyInv

\* Somebody leaves its room, on request or with its endpoint; an empty room is
\* removed with its name.
LEMMA Leaving ==
    ASSUME LobbyInv, NEW c \in Conns, roomOf[c] # None, LeaveRoom(roomOf[c], c),
           roomOf' = [roomOf EXCEPT ![c] = None],
           UNCHANGED <<counter, authenticated>>, sessions' \subseteq Conns,
           endpoint' \in [Conns -> {"closed", "open", "closing"}],
           \A d \in Conns : d # c => endpoint'[d] = endpoint[d]
    PROVE  LobbyInv'
  <1>. DEFINE r == roomOf[c]
              room == rooms[r]
  <1>1. /\ r \in DOMAIN rooms /\ c \in room.members /\ room \in RoomType
        /\ IsFiniteSet(room.members) /\ room.players \subseteq room.members
        /\ \A q \in DOMAIN rooms : c \in rooms[q].members <=> q = r
    BY DEF LobbyInv, SessionsMatchRooms, RegistrySound, LobbyTypeOK, Supports
  <1>2. roomOf'[c] = None /\ \A d \in Conns : d # c => roomOf'[d] = roomOf[d]
    BY DEF LobbyInv, Supports
  <1>3. \A q \in DOMAIN rooms : q # None
    BY LobbyAssumption DEF LobbyInv, RegistrySound, LobbyTypeOK
  <1>4. /\ counter' \in Nat /\ roomOf' \in [Conns -> RoomIds \cup {None}]
        /\ \A d \in Conns : roomOf'[d] # None => endpoint'[d] = "open"
    BY <1>2 DEF LobbyInv, Supports
  <1>5. CASE room.members = {c}
    <2>1. /\ DOMAIN rooms' = DOMAIN rooms \ {r}
          /\ \A q \in DOMAIN rooms' : rooms'[q] = rooms[q]
          /\ DOMAIN idsByName' = DOMAIN idsByName \ {room.name}
          /\ \A n \in DOMAIN idsByName' : idsByName'[n] = idsByName[n]
      BY <1>5 DEF LeaveRoom, RemoveRoom, Without
    <2>2. Supports'
      BY <1>4, <2>1 DEF LobbyInv, Supports
    <2>3. \A d \in Conns : d # c => roomOf[d] # r
      BY <1>1, <1>5 DEF LobbyInv, SessionsMatchRooms
    <2>4. SessionsMatchRooms'
      BY <1>1, <1>2, <1>3, <2>1, <2>3 DEF LobbyInv, SessionsMatchRooms
    <2>5. LobbyTypeOK'
      BY <1>4, <2>1 DEF LobbyInv, RegistrySound, LobbyTypeOK, Supports
    <2>6. RegistrySound'
      BY <1>1, <2>1, <2>5 DEF LobbyInv, RegistrySound
    <2>. QED
      BY <2>2, <2>4, <2>6 DEF LobbyInv
  <1>6. CASE room.members # {c}
    <2>. DEFINE left == [room EXCEPT !.members = @ \ {c}, !.players = @ \ {c},
                             !.status = IF c \in room.players THEN "WAITING" ELSE @]
    <2>1. Changed(r, left)
      BY <1>6 DEF LeaveRoom
    <2>2. /\ left \in RoomType /\ left.name = room.name
          /\ left.members = room.members \ {c} /\ left.players \subseteq left.members
      BY <1>1 DEF RoomType
    <2>. HIDE DEF left
    <2>3. /\ DOMAIN rooms' = DOMAIN rooms /\ rooms'[r] = left
          /\ \A q \in DOMAIN rooms : q # r => rooms'[q] = rooms[q]
          /\ idsByName' = idsByName
      BY <1>1, <2>1 DEF Changed
    <2>4. /\ IsFiniteSet(left.members) /\ left.members # {}
          /\ Cardinality(left.members) <= MaxRoomMembers
      <3>1. /\ IsFiniteSet(room.members \ {c})
            /\ Cardinality(room.members \ {c}) = Cardinality(room.members) - 1
            /\ Cardinality(room.members) \in Nat
        BY <1>1, FS_RemoveElement, FS_CardinalityType
      <3>2. Cardinality(room.members) <= MaxRoomMembers
        BY <1>1 DEF LobbyInv, RegistrySound, LobbyTypeOK
      <3>. QED
        BY <1>1, <1>6, <2>2, <3>1, <3>2, LobbyAssumption
    <2>5. Supports'
      BY <1>4, <2>3, <2>4 DEF LobbyInv, Supports
    <2>6. SessionsMatchRooms'
      BY <1>1, <1>2, <1>3, <2>2, <2>3 DEF LobbyInv, SessionsMatchRooms
    <2>7. LobbyTypeOK'
      BY <1>4, <2>2, <2>3, <2>4 DEF LobbyInv, RegistrySound, LobbyTypeOK, Supports
    <2>8. RegistrySound'
      BY <2>2, <2>3, <2>4, <2>7 DEF LobbyInv, RegistrySound
    <2>. QED
      BY <2>5, <2>6, <2>8 DEF LobbyInv
  <1>. QED
    BY <1>5, <1>6

\* create_room: a new id and a free name.
LEMMA Creating ==
    ASSUME LobbyInv, NEW c \in Conns, NEW name \in Names, HandleCreateRoom(c, name)
    PROVE  LobbyInv'
  <1>. DEFINE r == counter + 1
              room == [name |-> name, members |-> {c}, players |-> {}, status |-> "WAITING"]
  <1>1. /\ roomOf[c] = None /\ c \in authenticated /\ name \notin DOMAIN idsByName
        /\ endpoint[c] = "open" /\ counter' = r
        /\ UNCHANGED <<sessions, authenticated, endpoint>>
    BY DEF HandleCreateRoom, MayEnterRoom, Listening, EnterRoom
  <1>2. /\ counter \in Nat /\ DOMAIN rooms \subseteq 1 .. counter /\ r \in RoomIds
        /\ r \notin DOMAIN rooms /\ r # None /\ DOMAIN rooms \subseteq 1 .. r
        /\ None \notin DOMAIN rooms /\ r \in Nat /\ r \in 1 .. r
    BY LobbyAssumption DEF LobbyInv, Supports, RegistrySound, LobbyTypeOK, RoomIds
  <1>3. /\ DOMAIN rooms' = DOMAIN rooms \cup {r} /\ rooms'[r] = room
        /\ \A q \in DOMAIN rooms : rooms'[q] = rooms[q]
        /\ DOMAIN idsByName' = DOMAIN idsByName \cup {name} /\ idsByName'[name] = r
        /\ \A n \in DOMAIN idsByName : idsByName'[n] = idsByName[n]
    BY <1>1, <1>2 DEF HandleCreateRoom, NextRoomId, With
  <1>4. roomOf'[c] = r /\ \A d \in Conns : d # c => roomOf'[d] = roomOf[d]
    BY DEF HandleCreateRoom, EnterRoom, NextRoomId, LobbyInv, Supports
  <1>5. /\ room \in RoomType /\ room.name = name /\ room.members = {c} /\ room.players = {}
        /\ IsFiniteSet(room.members) /\ Cardinality(room.members) <= MaxRoomMembers
    <2>1. IsFiniteSet({c}) /\ Cardinality({c}) = 1
      BY FS_Singleton
    <2>2. 1 <= MaxRoomMembers
      BY LobbyAssumption
    <2>3. room \in RoomType
      BY DEF RoomType
    <2>. QED
      BY <2>1, <2>2, <2>3
  <1>6. roomOf' \in [Conns -> RoomIds \cup {None}]
    BY <1>2 DEF HandleCreateRoom, EnterRoom, NextRoomId, LobbyInv, Supports
  <1>. HIDE DEF r, room
  <1>7. Supports'
    BY <1>1, <1>2, <1>3, <1>4, <1>5, <1>6 DEF LobbyInv, Supports
  <1>8. SessionsMatchRooms'
    BY <1>1, <1>2, <1>3, <1>4, <1>5 DEF LobbyInv, SessionsMatchRooms
  <1>9. LobbyTypeOK'
    BY <1>1, <1>2, <1>3, <1>5, <1>6 DEF LobbyInv, RegistrySound, LobbyTypeOK
  <1>10. RegistrySound'
    BY <1>1, <1>2, <1>3, <1>5, <1>9 DEF LobbyInv, RegistrySound
  <1>. QED
    BY <1>7, <1>8, <1>10 DEF LobbyInv

\* join_room: one more member, up to the limit.
LEMMA Joining ==
    ASSUME LobbyInv, NEW c \in Conns, NEW r \in DOMAIN rooms, HandleJoinRoom(c, r)
    PROVE  LobbyInv'
  <1>. DEFINE room == rooms[r]
              joined == [room EXCEPT !.members = @ \cup {c}]
  <1>1. /\ roomOf[c] = None /\ c \in authenticated /\ endpoint[c] = "open"
        /\ Cardinality(room.members) < MaxRoomMembers /\ Changed(r, joined)
        /\ UNCHANGED <<counter, sessions, authenticated, endpoint>>
    BY DEF HandleJoinRoom, MayEnterRoom, Listening, EnterRoom
  <1>2. /\ room \in RoomType /\ IsFiniteSet(room.members) /\ r \in RoomIds
        /\ r # None /\ None \notin DOMAIN rooms
        /\ room.players \subseteq room.members /\ c \notin room.members
    BY <1>1, LobbyAssumption DEF LobbyInv, Supports, SessionsMatchRooms, RegistrySound,
       LobbyTypeOK, RoomIds
  <1>3. /\ joined \in RoomType /\ joined.name = room.name
        /\ joined.members = room.members \cup {c} /\ joined.players \subseteq joined.members
    BY <1>2 DEF RoomType
  <1>. HIDE DEF joined
  <1>4. /\ DOMAIN rooms' = DOMAIN rooms /\ rooms'[r] = joined
        /\ \A q \in DOMAIN rooms : q # r => rooms'[q] = rooms[q]
        /\ idsByName' = idsByName
    BY <1>1 DEF Changed
  <1>5. roomOf'[c] = r /\ \A d \in Conns : d # c => roomOf'[d] = roomOf[d]
    BY DEF HandleJoinRoom, EnterRoom, LobbyInv, Supports
  <1>6. roomOf' \in [Conns -> RoomIds \cup {None}]
    BY <1>2 DEF HandleJoinRoom, EnterRoom, LobbyInv, Supports
  <1>7. IsFiniteSet(joined.members) /\ Cardinality(joined.members) <= MaxRoomMembers
    <2>1. /\ IsFiniteSet(room.members \cup {c})
          /\ Cardinality(room.members \cup {c}) = Cardinality(room.members) + 1
          /\ Cardinality(room.members) \in Nat
      BY <1>2, FS_AddElement, FS_CardinalityType
    <2>. QED
      BY <1>1, <1>3, <2>1, LobbyAssumption
  <1>8. Supports'
    BY <1>1, <1>4, <1>5, <1>6, <1>7 DEF LobbyInv, Supports
  <1>9. SessionsMatchRooms'
    BY <1>1, <1>2, <1>3, <1>4, <1>5 DEF LobbyInv, SessionsMatchRooms
  <1>10. LobbyTypeOK'
    BY <1>1, <1>3, <1>4, <1>6, <1>7 DEF LobbyInv, RegistrySound, LobbyTypeOK
  <1>11. RegistrySound'
    BY <1>3, <1>4, <1>10 DEF LobbyInv, RegistrySound
  <1>. QED
    BY <1>8, <1>9, <1>11 DEF LobbyInv

\* A role, a start or an end of a round: the commands of a member.
LEMMA Commanding ==
    ASSUME LobbyInv, NEW c \in Conns,
           HandleRole(c) \/ HandleRoundStarts(c) \/ HandleRoundEnds(c)
    PROVE  LobbyInv'
  <1>. DEFINE r == roomOf[c]
              room == rooms[r]
              taken == [room EXCEPT !.players = @ \cup {c}, !.status = "WAITING"]
              given == [room EXCEPT !.players = @ \ {c}, !.status = "WAITING"]
              begun == [room EXCEPT !.status = "PLAYING"]
              over == [room EXCEPT !.status = "FINISHED"]
  <1>1. /\ r # None /\ UNCHANGED <<counter, sessionVars, endpoint>>
        /\ \E new \in {taken, given, begun, over} : Changed(r, new)
    BY DEF HandleRole, HandleRoundStarts, HandleRoundEnds, RoomCommand
  <1>2. /\ r \in DOMAIN rooms /\ room \in RoomType /\ c \in room.members
        /\ room.players \subseteq room.members
    BY <1>1 DEF LobbyInv, SessionsMatchRooms, RegistrySound, LobbyTypeOK
  <1>3. \A new \in {taken, given, begun, over} :
            /\ new \in RoomType /\ new.name = room.name /\ new.members = room.members
            /\ new.players \subseteq new.members
    <2>1. /\ taken \in RoomType /\ taken.name = room.name /\ taken.members = room.members
          /\ taken.players \subseteq taken.members
      BY <1>2 DEF RoomType
    <2>2. /\ given \in RoomType /\ given.name = room.name /\ given.members = room.members
          /\ given.players \subseteq given.members
      BY <1>2 DEF RoomType
    <2>3. /\ begun \in RoomType /\ begun.name = room.name /\ begun.members = room.members
          /\ begun.players \subseteq begun.members
      BY <1>2 DEF RoomType
    <2>4. /\ over \in RoomType /\ over.name = room.name /\ over.members = room.members
          /\ over.players \subseteq over.members
      BY <1>2 DEF RoomType
    <2>. HIDE DEF taken, given, begun, over
    <2>. QED
      BY <2>1, <2>2, <2>3, <2>4
  <1>. HIDE DEF taken, given, begun, over
  <1>. QED
    BY <1>1, <1>2, <1>3, RoomChanges

\* What an endpoint does when it resumes, or before and after its messages.
LEMMA Idling ==
    ASSUME LobbyInv, NEW c \in Conns,
           Connect(c) \/ Vanish(c) \/ Closed(c) \/ HandleLogin(c) \/ Resume(c)
    PROVE  LobbyInv'
  <1>1. /\ sessions \subseteq Conns /\ authenticated \subseteq Conns
        /\ endpoint \in [Conns -> {"closed", "open", "closing"}]
        /\ \A d \in Conns : roomOf[d] # None => endpoint[d] = "open"
    BY DEF LobbyInv, Supports, RegistrySound, LobbyTypeOK
  <1>2. CASE Connect(c) \/ Vanish(c) \/ HandleLogin(c)
    BY <1>1, <1>2, SessionsAlone DEF Connect, Vanish, HandleLogin, sessionVars
  <1>3. CASE Closed(c)
    <2>1. roomOf[c] = None
      BY <1>1, <1>3 DEF Closed
    <2>. QED
      BY <1>1, <1>3, <2>1, SessionsAlone DEF Closed
  <1>4. CASE Resume(c)
    <2>1. /\ sessions' \subseteq sessions
          /\ authenticated' \in {authenticated, authenticated \cup {c}}
          /\ UNCHANGED <<registryVars, roomOf, endpoint>>
      BY <1>4 DEF Resume, Announce, Send
    <2>. QED
      BY <1>1, <2>1, SessionsAlone
  <1>. QED
    BY <1>2, <1>3, <1>4

\* The departures: on request, or with the endpoint, whatever it was doing.
LEMMA Departing ==
    ASSUME LobbyInv, NEW c \in Conns, HandleLeaveRoom(c) \/ Disconnect(c)
    PROVE  LobbyInv'
  <1>1. /\ sessions \subseteq Conns /\ authenticated \subseteq Conns
        /\ endpoint \in [Conns -> {"closed", "open", "closing"}]
        /\ roomOf \in [Conns -> RoomIds \cup {None}]
        /\ \A d \in Conns : roomOf[d] # None => endpoint[d] = "open"
    BY DEF LobbyInv, Supports, RegistrySound, LobbyTypeOK
  <1>2. CASE HandleLeaveRoom(c)
    BY <1>1, <1>2, Leaving DEF HandleLeaveRoom
  <1>3. CASE Disconnect(c) /\ roomOf[c] # None
    BY <1>1, <1>3, Leaving DEF Disconnect
  <1>4. CASE Disconnect(c) /\ roomOf[c] = None
    <2>1. roomOf' = roomOf
      BY <1>1, <1>4 DEF Disconnect
    <2>. QED
      BY <1>1, <1>4, <2>1, SessionsAlone DEF Disconnect, registryVars
  <1>. QED
    BY <1>2, <1>3, <1>4

\* An empty server has neither rooms nor sessions.
LEMMA LobbyStarts == LobbyInit => LobbyInv
  <1>1. DOMAIN << >> = {}
    OBVIOUS
  <1>. QED
    BY <1>1 DEF LobbyInit, LobbyInv, Supports, SessionsMatchRooms, RegistrySound, LobbyTypeOK

\* Every step keeps the invariant.
LEMMA LobbyStep == LobbyInv /\ [LobbyNext]_lobbyVars => LobbyInv'
  <1>1. ASSUME LobbyInv, NEW c \in Conns, Handle(c) PROVE LobbyInv'
    BY <1>1, Idling, Creating, Joining, Departing, Commanding DEF Handle
  <1>2. ASSUME LobbyInv, UNCHANGED lobbyVars PROVE LobbyInv'
    BY <1>2, SessionsAlone DEF lobbyVars, sessionVars, LobbyInv, Supports, RegistrySound,
       LobbyTypeOK
  <1>. QED
    BY <1>1, <1>2, Idling, Departing DEF LobbyNext

\* So it always holds.
LEMMA LobbyInvariant == LobbySpec => []LobbyInv
  BY LobbyStarts, LobbyStep, PTL DEF LobbySpec

\* A connection is in the room its session names and in no other, however its
\* endpoint ends (room_manager.py, _handle_disconnect).
THEOREM SessionsAlwaysMatchRooms == LobbySpec => []SessionsMatchRooms
  <1>1. LobbyInv => SessionsMatchRooms
    BY DEF LobbyInv
  <1>. QED
    BY <1>1, LobbyInvariant, PTL

\* Names and rooms stay in bijection and an empty room is gone (room_manager.py).
THEOREM RegistryAlwaysSound == LobbySpec => []RegistrySound
  <1>1. LobbyInv => RegistrySound
    BY DEF LobbyInv
  <1>. QED
    BY <1>1, LobbyInvariant, PTL
-----------------------------------------------------------------------------
(* The room lists *)

\* What an endpoint still has to do: every change of a list ends in a broadcast
\* to the lobby, every arrival in a list of its own.
LobbyScripts ==
    {<<ToLobby>>, <<ToSelf, ToLobby>>}
        \cup {<<ToRoom(r), ToLobby>> : r \in RoomIds}
        \cup {<<ToSelf, ToRoom(r), ToLobby>> : r \in RoomIds}

ListScripts == {<<OwnList>>, <<ToSelf, OwnList>>}

Scripts == {<< >>, <<LoginResult>>} \cup LobbyScripts \cup ListScripts

LobbyPending == \E d \in Conns : script[d] \in LobbyScripts

\* A client in the lobby has the list as it is, or is about to be sent it.
UpToDate(c) == shown[c] = RoomList \/ script[c] \in ListScripts

ListsFollow ==
    \A c \in LobbySessions : alive[c] => UpToDate(c) \/ LobbyPending

\* An endpoint that is closed owes nothing, and one that is not open is no
\* session, so neither a broadcast nor a list of a live client is ever lost.
EndpointsSettled ==
    /\ script \in [Conns -> Scripts]
    /\ shown = [c \in Conns |-> shown[c]]
    /\ alive \in [Conns -> BOOLEAN]
    /\ \A c \in Conns : /\ endpoint[c] = "closed" => script[c] = << >>
                        /\ c \in sessions => endpoint[c] = "open"

ListsInv == LobbyInv /\ EndpointsSettled /\ ListsFollow

\* Sequences of at most three elements.
LEMMA ShortSequences ==
    ASSUME NEW a, NEW b, NEW d
    PROVE  /\ Head(<<a>>) = a /\ Tail(<<a>>) = << >>
           /\ Head(<<a, b>>) = a /\ Tail(<<a, b>>) = <<b>>
           /\ Head(<<a, b, d>>) = a /\ Tail(<<a, b, d>>) = <<b, d>>
           /\ <<a>> # << >> /\ <<a, b>> # << >> /\ <<a, b, d>> # << >>
  <1>1. Head(<<a>>) = a /\ Tail(<<a>>) = << >> /\ <<a>> # << >>
    OBVIOUS
  <1>2. Head(<<a, b>>) = a /\ <<a, b>> # << >>
    OBVIOUS
  <1>3. Tail(<<a, b>>) = <<b>>
    OBVIOUS
  <1>4. Head(<<a, b, d>>) = a /\ <<a, b, d>> # << >>
    OBVIOUS
  <1>5. Tail(<<a, b, d>>) = <<b, d>>
    OBVIOUS
  <1>. QED
    BY <1>1, <1>2, <1>3, <1>4, <1>5

\* A broadcast or a list stays owed until it is sent.
LEMMA ScriptResumes ==
    ASSUME NEW s \in Scripts
    PROVE  /\ s = << >> => s \notin LobbyScripts \cup ListScripts
           /\ s # << >> => Tail(s) \in Scripts
           /\ s \in LobbyScripts => Tail(s) \in LobbyScripts \/ Head(s) = ToLobby
           /\ s \in ListScripts => Tail(s) \in ListScripts \/ Head(s) = OwnList
  <1>1. /\ \A r \in RoomIds : <<ToRoom(r), ToLobby>> \in LobbyScripts
        /\ <<ToLobby>> \in LobbyScripts /\ <<OwnList>> \in ListScripts
    BY DEF LobbyScripts, ListScripts
  <1>2. << >> \notin LobbyScripts /\ << >> \notin ListScripts
    BY ShortSequences DEF LobbyScripts, ListScripts
  <1>3. ASSUME s \in LobbyScripts
        PROVE  Tail(s) \in LobbyScripts \/ (Head(s) = ToLobby /\ Tail(s) = << >>)
    <2>1. CASE s = <<ToLobby>>
      BY <2>1, ShortSequences
    <2>4. CASE s = <<ToSelf, ToLobby>>
      BY <1>1, <2>4, ShortSequences
    <2>2. ASSUME NEW r \in RoomIds, s = <<ToRoom(r), ToLobby>> PROVE Tail(s) \in LobbyScripts
      BY <1>1, <2>2, ShortSequences
    <2>3. ASSUME NEW r \in RoomIds, s = <<ToSelf, ToRoom(r), ToLobby>>
          PROVE  Tail(s) \in LobbyScripts
      BY <1>1, <2>3, ShortSequences
    <2>. QED
      BY <1>3, <2>1, <2>2, <2>3, <2>4 DEF LobbyScripts
  <1>4. ASSUME s \in ListScripts
        PROVE  Tail(s) \in ListScripts \/ (Head(s) = OwnList /\ Tail(s) = << >>)
    <2>1. CASE s = <<OwnList>>
      BY <2>1, ShortSequences
    <2>2. CASE s = <<ToSelf, OwnList>>
      BY <1>1, <2>2, ShortSequences
    <2>. QED
      BY <1>4, <2>1, <2>2 DEF ListScripts
  <1>5. s = <<LoginResult>> => Tail(s) = << >>
    BY ShortSequences
  <1>. QED
    BY <1>2, <1>3, <1>4, <1>5 DEF Scripts

\* The sends differ, so each does only its own work.
LEMMA SendsDiffer ==
    /\ ToLobby # ToSelf /\ ToLobby # OwnList /\ ToLobby[1] # "room" /\ ToLobby # LoginResult
    /\ OwnList # ToSelf /\ OwnList[1] # "room" /\ OwnList # LoginResult
  BY DEF ToLobby, ToSelf, OwnList, LoginResult

\* An endpoint that is given a script ending in a broadcast may change the rooms
\* and who is in the lobby.
LEMMA BroadcastOwed ==
    ASSUME ListsInv, LobbyInv', NEW c \in Conns, NEW s \in LobbyScripts, Then(c, s),
           UNCHANGED <<alive, shown>>, sessions' \subseteq sessions,
           endpoint'[c] # "closed", c \in sessions' => endpoint'[c] = "open",
           \A d \in Conns : d # c => endpoint'[d] = endpoint[d]
    PROVE  ListsInv'
  <1>1. /\ script' \in [Conns -> Scripts] /\ script'[c] = s
        /\ \A d \in Conns : d # c => script'[d] = script[d]
    BY DEF ListsInv, EndpointsSettled, Then, Scripts
  <1>2. EndpointsSettled'
    BY <1>1 DEF ListsInv, EndpointsSettled
  <1>3. LobbyPending'
    BY <1>1 DEF LobbyPending
  <1>. QED
    BY <1>2, <1>3 DEF ListsInv, ListsFollow
\* The scripts of the handlers that change a room, or who is in one.
LEMMA BroadcastScripts ==
    /\ <<ToLobby>> \in LobbyScripts /\ <<ToSelf, ToLobby>> \in LobbyScripts
    /\ \A r \in RoomIds : /\ <<ToRoom(r), ToLobby>> \in LobbyScripts
                          /\ <<ToSelf, ToRoom(r), ToLobby>> \in LobbyScripts
                          /\ LeaveSteps(r) \in LobbyScripts
  BY DEF LobbyScripts, LeaveSteps

\* A room is created, entered, left or changed.
LEMMA ChangesAreOwed ==
    ASSUME ListsInv, LobbyInv', NEW c \in Conns, Handle(c), ~HandleLogin(c)
    PROVE  ListsInv'
  <1>1. roomOf \in [Conns -> RoomIds \cup {None}] /\ counter \in Nat /\ DOMAIN rooms \subseteq RoomIds
    BY DEF ListsInv, LobbyInv, Supports, RegistrySound, LobbyTypeOK, RoomIds
  <1>2. /\ Listening(c) /\ UNCHANGED <<alive, shown, sessions, endpoint>>
    BY DEF Handle, HandleCreateRoom, MayEnterRoom, EnterRoom, HandleJoinRoom, HandleLeaveRoom,
       HandleRole, HandleRoundStarts, HandleRoundEnds, RoomCommand, sessionVars
  <1>3. \E s \in LobbyScripts : Then(c, s)
    <2>1. ASSUME NEW name \in Names, HandleCreateRoom(c, name)
          PROVE  \E s \in LobbyScripts : Then(c, s)
      <3>1. NextRoomId \in RoomIds
        BY <1>1 DEF NextRoomId, RoomIds
      <3>. QED
        BY <2>1, <3>1, BroadcastScripts DEF HandleCreateRoom, EnterRoom
    <2>2. ASSUME NEW r \in DOMAIN rooms, HandleJoinRoom(c, r)
          PROVE  \E s \in LobbyScripts : Then(c, s)
      BY <1>1, <2>2, BroadcastScripts DEF HandleJoinRoom, EnterRoom
    <2>3. CASE HandleLeaveRoom(c)
      BY <1>1, <2>3, BroadcastScripts DEF HandleLeaveRoom
    <2>4. CASE HandleRole(c) \/ HandleRoundStarts(c) \/ HandleRoundEnds(c)
      BY <1>1, <2>4, BroadcastScripts DEF HandleRole, HandleRoundStarts, HandleRoundEnds,
         RoomCommand
    <2>. QED
      BY <2>1, <2>2, <2>3, <2>4 DEF Handle
  <1>. QED
    BY <1>2, <1>3, BroadcastOwed DEF Listening

\* An endpoint that ends broadcasts the list, whatever it still had to do.
LEMMA DisconnectOwes ==
    ASSUME ListsInv, LobbyInv', NEW c \in Conns, Disconnect(c)
    PROVE  ListsInv'
  <1>1. endpoint \in [Conns -> {"closed", "open", "closing"}]
        /\ roomOf \in [Conns -> RoomIds \cup {None}]
    BY DEF ListsInv, LobbyInv, Supports
  <1>2. \E s \in LobbyScripts : Then(c, s)
    BY <1>1, BroadcastScripts DEF Disconnect
  <1>3. /\ UNCHANGED <<alive, shown>> /\ sessions' = sessions \ {c}
        /\ endpoint'[c] = "closing" /\ \A d \in Conns : d # c => endpoint'[d] = endpoint[d]
    BY <1>1 DEF Disconnect
  <1>. QED
    BY <1>2, <1>3, BroadcastOwed

\* A new connection owes itself a list; a login, a lost peer and the end of a
\* cleanup take none from anybody who is in the lobby and there.
LEMMA EndpointsKeepLists ==
    ASSUME ListsInv, LobbyInv', NEW c \in Conns,
           Connect(c) \/ Vanish(c) \/ Closed(c) \/ HandleLogin(c)
    PROVE  ListsInv'
  <1>1. /\ endpoint \in [Conns -> {"closed", "open", "closing"}]
        /\ script \in [Conns -> Scripts] /\ alive \in [Conns -> BOOLEAN]
        /\ shown = [d \in Conns |-> shown[d]]
        /\ \A d \in Conns : /\ endpoint[d] = "closed" => script[d] = << >>
                            /\ d \in sessions => endpoint[d] = "open"
        /\ sessions \subseteq Conns
    BY DEF ListsInv, EndpointsSettled, LobbyInv, Supports, RegistrySound, LobbyTypeOK
  <1>2. RoomList' = RoomList /\ UNCHANGED roomOf
    BY DEF Connect, Vanish, Closed, HandleLogin, registryVars, sessionVars, RoomList
  <1>3. << >> \notin LobbyScripts /\ << >> \notin ListScripts /\ << >> \in Scripts
        /\ <<LoginResult>> \in Scripts /\ <<ToSelf, OwnList>> \in Scripts
        /\ <<ToSelf, OwnList>> \in ListScripts
    BY ScriptResumes DEF Scripts, ListScripts
  <1>4. CASE Connect(c)
    <2>1. /\ script[c] = << >> /\ script'[c] = <<ToSelf, OwnList>> /\ endpoint'[c] = "open"
          /\ script' \in [Conns -> Scripts] /\ alive' \in [Conns -> BOOLEAN]
          /\ \A d \in Conns : d # c => /\ script'[d] = script[d] /\ alive'[d] = alive[d]
                                       /\ endpoint'[d] = endpoint[d]
          /\ sessions' = sessions \cup {c} /\ shown' = shown
      BY <1>1, <1>3, <1>4 DEF Connect, Then
    <2>2. EndpointsSettled'
      BY <1>1, <2>1 DEF EndpointsSettled
    <2>3. LobbyPending => LobbyPending'
      BY <1>3, <2>1 DEF LobbyPending
    <2>4. ListsFollow'
      BY <1>1, <1>2, <1>3, <2>1, <2>3 DEF ListsInv, ListsFollow, UpToDate, LobbySessions
    <2>. QED
      BY <2>2, <2>4 DEF ListsInv
  <1>5. CASE Vanish(c)
    <2>1. /\ alive' \in [Conns -> BOOLEAN] /\ \A d \in Conns : alive'[d] => alive[d]
          /\ UNCHANGED <<script, sessions, endpoint, shown>>
      BY <1>1, <1>5 DEF Vanish, sessionVars
    <2>2. EndpointsSettled'
      BY <1>1, <2>1 DEF EndpointsSettled
    <2>3. ListsFollow'
      BY <1>1, <1>2, <2>1 DEF ListsInv, ListsFollow, UpToDate, LobbySessions, LobbyPending
    <2>. QED
      BY <2>2, <2>3 DEF ListsInv
  <1>6. CASE Closed(c)
    <2>1. /\ script[c] = << >> /\ c \notin sessions /\ endpoint'[c] = "closed"
          /\ \A d \in Conns : d # c => shown'[d] = shown[d] /\ endpoint'[d] = endpoint[d]
          /\ shown' = [d \in Conns |-> shown'[d]]
          /\ UNCHANGED <<script, sessions, alive>>
      BY <1>1, <1>6 DEF Closed
    <2>2. EndpointsSettled'
      BY <1>1, <2>1 DEF EndpointsSettled
    <2>3. ListsFollow'
      BY <1>1, <1>2, <2>1 DEF ListsInv, ListsFollow, UpToDate, LobbySessions, LobbyPending
    <2>. QED
      BY <2>2, <2>3 DEF ListsInv
  <1>7. CASE HandleLogin(c)
    <2>1. /\ script[c] = << >> /\ script' \in [Conns -> Scripts]
          /\ \A d \in Conns : d # c => script'[d] = script[d]
          /\ endpoint[c] = "open" /\ UNCHANGED <<sessions, endpoint, alive, shown>>
      BY <1>1, <1>3, <1>7 DEF HandleLogin, Listening, Then, sessionVars
    <2>2. EndpointsSettled'
      BY <1>1, <2>1 DEF EndpointsSettled
    <2>3. LobbyPending => LobbyPending'
      BY <1>3, <2>1 DEF LobbyPending
    <2>4. ListsFollow'
      BY <1>1, <1>2, <1>3, <2>1, <2>3 DEF ListsInv, ListsFollow, UpToDate, LobbySessions
    <2>. QED
      BY <2>2, <2>4 DEF ListsInv
  <1>. QED
    BY <1>4, <1>5, <1>6, <1>7

\* A list that is sent is the one of this moment.
LEMMA ResumeSendsLists ==
    ASSUME ListsInv, LobbyInv', NEW c \in Conns, Resume(c)
    PROVE  ListsInv'
  <1>. DEFINE s == script[c]
  <1>1. /\ script \in [Conns -> Scripts] /\ shown = [d \in Conns |-> shown[d]]
        /\ \A d \in Conns : /\ endpoint[d] = "closed" => script[d] = << >>
                            /\ d \in sessions => endpoint[d] = "open"
        /\ sessions \subseteq Conns
    BY DEF ListsInv, EndpointsSettled, LobbyInv, RegistrySound, LobbyTypeOK
  <1>2. /\ RoomList' = RoomList /\ UNCHANGED <<roomOf, endpoint, alive>>
        /\ s \in Scripts /\ s # << >> /\ Announce(Head(s), c)
        /\ script' = [script EXCEPT ![c] = Tail(s)]
    BY <1>1 DEF Resume, registryVars, RoomList, Then
  <1>3. /\ Tail(s) \in Scripts
        /\ s \in LobbyScripts => Tail(s) \in LobbyScripts \/ Head(s) = ToLobby
        /\ s \in ListScripts => Tail(s) \in ListScripts \/ Head(s) = OwnList
    BY <1>2, ScriptResumes
  <1>4. /\ script' \in [Conns -> Scripts] /\ script'[c] = Tail(s)
        /\ \A d \in Conns : d # c => script'[d] = script[d]
    BY <1>1, <1>2, <1>3
  <1>5. /\ sessions' \subseteq sessions /\ shown' = [d \in Conns |-> shown'[d]]
        /\ \A d \in Conns : shown'[d] \in {shown[d], RoomList}
    BY <1>1, <1>2 DEF Announce, Send
  <1>6. Head(s) = OwnList /\ c \in sessions => shown'[c] = RoomList
    BY <1>2, SendsDiffer DEF Announce, Send
  <1>7. Head(s) = ToLobby => \A d \in LobbySessions : shown'[d] = RoomList
    BY <1>1, <1>2, SendsDiffer DEF Announce, Send, LobbySessions
  <1>8. EndpointsSettled'
    BY <1>1, <1>2, <1>4, <1>5 DEF ListsInv, EndpointsSettled
  <1>. HIDE DEF s
  <1>9. ListsFollow'
    <2>1. LobbySessions' \subseteq LobbySessions
      BY <1>2, <1>5 DEF LobbySessions
    <2>2. CASE Head(s) = ToLobby
      BY <1>1, <1>2, <1>7, <2>1, <2>2 DEF ListsFollow, UpToDate, LobbySessions
    <2>3. CASE Head(s) # ToLobby
      <3>1. LobbyPending => LobbyPending'
        BY <1>3, <1>4, <2>3 DEF LobbyPending, s
      <3>2. ASSUME NEW d \in LobbySessions', UpToDate(d) PROVE UpToDate(d)'
        BY <1>1, <1>2, <1>3, <1>4, <1>5, <1>6, <2>1, <3>2 DEF UpToDate, s, LobbySessions
      <3>. QED
        BY <1>2, <2>1, <3>1, <3>2 DEF ListsInv, ListsFollow
    <2>. QED
      BY <2>2, <2>3
  <1>. QED
    BY <1>8, <1>9 DEF ListsInv

\* Every step keeps the lists owed or sent.
LEMMA ListsStep == ListsInv /\ [LobbyNext]_lobbyVars => ListsInv'
  <1>. SUFFICES ASSUME ListsInv, [LobbyNext]_lobbyVars PROVE ListsInv'
    OBVIOUS
  <1>1. LobbyInv'
    BY LobbyStep DEF ListsInv
  <1>2. ASSUME UNCHANGED lobbyVars PROVE ListsInv'
    <2>1. UNCHANGED <<rooms, roomOf, sessions, endpoint, alive, script, shown>>
      BY <1>2 DEF lobbyVars, registryVars, sessionVars
    <2>2. EndpointsSettled'
      BY <2>1 DEF ListsInv, EndpointsSettled
    <2>3. ListsFollow'
      BY <2>1 DEF ListsInv, ListsFollow, UpToDate, LobbyPending, LobbySessions, RoomList
    <2>. QED
      BY <1>1, <2>2, <2>3 DEF ListsInv
  <1>3. ASSUME NEW c \in Conns, Handle(c) PROVE ListsInv'
    BY <1>1, <1>3, ChangesAreOwed, EndpointsKeepLists
  <1>. QED
    BY <1>1, <1>2, <1>3, EndpointsKeepLists, DisconnectOwes, ResumeSendsLists DEF LobbyNext

\* Nobody is in the lobby of an empty server.
LEMMA ListsStart == LobbyInit => ListsInv
  BY LobbyStarts DEF LobbyInit, ListsInv, EndpointsSettled, ListsFollow, LobbySessions, Scripts

\* Once every announcement is out, every client in the lobby has the room list
\* as it is, whatever was announced in which order and cut off where
\* (_broadcast_room_list, _send_room_list, _handle_disconnect).
THEOREM RoomListsAlwaysConverge == LobbySpec => []RoomListsConverge
  <1>1. ListsInv => RoomListsConverge
    <2>1. << >> \notin LobbyScripts /\ << >> \notin ListScripts
      BY ScriptResumes DEF Scripts
    <2>2. ListsInv => LobbySessions \subseteq Conns
      BY DEF ListsInv, LobbyInv, RegistrySound, LobbyTypeOK, LobbySessions
    <2>. QED
      BY <2>1, <2>2 DEF ListsInv, ListsFollow, UpToDate, LobbyPending, RoomListsConverge
  <1>2. ListsInv /\ [LobbyNext]_lobbyVars => ListsInv'
    BY ListsStep
  <1>. QED
    BY <1>1, <1>2, ListsStart, PTL DEF LobbySpec
=============================================================================
