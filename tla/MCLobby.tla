------------------------------ MODULE MCLobby -------------------------------
(***************************************************************************)
(* Small instances of Lobby for TLC.  Everybody has come and logged in, the  *)
(* two connections of Seated have taken the seats of a first room, as five   *)
(* commands on an empty server do, and every announcement is out.  A bounded *)
(* number of commands and lost peers follows.                               *)
(***************************************************************************)
EXTENDS Lobby

CONSTANTS MaxCommands, Seated, FirstName

ASSUME MCAssumption ==
    Seated \subseteq Conns /\ Seated # {} /\ Cardinality(Seated) <= MaxPlayers /\ FirstName \in Names

VARIABLE commands   \* handlers called and peers lost so far

FirstRoom == [name |-> FirstName, members |-> Seated, players |-> Seated, status |-> "WAITING"]

MCInit ==
    /\ rooms = <<FirstRoom>> /\ counter = 1
    /\ idsByName = [name \in {FirstName} |-> 1]
    /\ sessions = Conns /\ authenticated = Conns
    /\ roomOf = [c \in Conns |-> IF c \in Seated THEN 1 ELSE None]
    /\ endpoint = [c \in Conns |-> "open"]
    /\ alive = [c \in Conns |-> TRUE]
    /\ script = [c \in Conns |-> << >>]
    /\ shown = [c \in Conns |-> RoomList]
    /\ commands = 0

MCNext ==
    \E c \in Conns :
        \/ /\ commands < MaxCommands /\ commands' = commands + 1
           /\ Handle(c) \/ Vanish(c)
        \/ /\ UNCHANGED commands
           /\ Connect(c) \/ Disconnect(c) \/ Closed(c) \/ Resume(c)

MCSpec == MCInit /\ [][MCNext]_<<lobbyVars, commands>> /\ LobbyFairness
=============================================================================
