----------------------------- MODULE MCGateway -----------------------------
(***************************************************************************)
(* Small instances of Gateway.  The room starts with both seats taken and  *)
(* every other connection either observing or still in the lobby, all       *)
(* announcements made: a state every room passes through before its first   *)
(* round.  Clients send a bounded number of commands, and time stops.       *)
(***************************************************************************)
EXTENDS Gateway

CONSTANTS MaxTime,       \* last instant of the clock
          MaxCommands,   \* client commands in one behaviour
          Opener,        \* the two seated players
          Second,
          Watchers       \* the observers

ASSUME SeatsAssumption ==
    /\ Opener \in Conns /\ Second \in Conns /\ Opener # Second
    /\ Watchers \subseteq Conns \ {Opener, Second} /\ IsFiniteSet(Watchers)
    /\ Cardinality(Watchers) + 2 <= MaxMembers

VARIABLE commands

MCInit ==
    /\ members = {Opener, Second} \cup Watchers
    /\ observers = Watchers
    /\ playerColors = [c \in {Opener, Second} |->
                         IF c = Opener THEN StartingColor ELSE Opponent(StartingColor)]
    /\ MatchInit
    /\ readyConnections = {} /\ pendingUndo = None
    /\ turnRevision = 0 /\ turnDeadline = None /\ pausedRemaining = None
    /\ now = 0
    /\ script = [c \in Conns |-> NoAnnouncements]
    /\ closing = {}
    /\ timer = None
    /\ view = [c \in Conns |-> IF c \in members THEN game ELSE None]
    /\ heardOver = {}
    /\ commands = 0

MCNext ==
    \/ /\ commands < MaxCommands
       /\ commands' = commands + 1
       /\ \E c \in Conns : Command(c)
    \/ /\ UNCHANGED commands
       /\ (\E c \in Conns : Resume(c) \/ Reconnect(c)) \/ TimerWakes \/ TimerAnnounces
    \/ now < MaxTime /\ Passes /\ UNCHANGED commands

mcVars == <<gatewayVars, commands>>

MCSpec == MCInit /\ [][MCNext]_mcVars /\ Fairness
=============================================================================
