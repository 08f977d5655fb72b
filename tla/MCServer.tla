------------------------------ MODULE MCServer ------------------------------
(***************************************************************************)
(* Small instances of Server.  A behaviour is one of two kinds: an operator *)
(* and clients around a server that was just started, without chat; or      *)
(* connections that have logged in, in a room, that chat while time passes. *)
(***************************************************************************)
EXTENDS Server

CONSTANTS MaxRuns,        \* server runs of one process
          MaxCommands,    \* requests and faults in one behaviour
          MaxTime,        \* last instant of the clock while clients chat
          ChatCommands,   \* their requests
          Talker          \* the connection that chats

VARIABLES chatting, commands

mcVars == <<serverVars, chatting, commands>>

Serving == [NewRun EXCEPT !.phase = "serving"]

ChatStarts ==
    /\ ChatInit
    /\ accounts = [id \in Ids |-> 1] /\ rows = 1
    /\ at = [c \in Conns |-> IF c = Talker THEN 1 ELSE None] /\ alive = {Talker}
    /\ \E id \in Ids : user = [c \in Conns |-> IF c = Talker THEN [id |-> id, row |-> 1] ELSE None]
    /\ job = [c \in Conns |-> None]
    /\ inRoom = {Talker}
    /\ answered = {} /\ deleted = {}
    /\ runs = <<Serving>> /\ current = 1 /\ error = NoRun
    /\ state = "RUNNING" /\ gui = "idle" /\ shown = {}
    /\ deleting = None /\ exposed = {}

MCInit ==
    /\ \/ chatting = FALSE /\ ServerInit
       \/ chatting = TRUE /\ ChatStarts
    /\ commands = 0

\* Requests, within the bounds of their kind of behaviour.
Command ==
    \/ ~chatting /\ commands < MaxCommands /\ \E c \in Conns : ByClient(c)
    \/ ~chatting /\ commands < MaxCommands /\ ByOperator /\ Len(runs') <= MaxRuns
    \/ chatting /\ commands < ChatCommands /\ (ByClient(Talker) \/ ByChatter(Talker))

MCNext ==
    \/ Command /\ commands' = commands + 1 /\ UNCHANGED chatting
    \/ /\ \/ \E c \in Conns : ByWorker(c) \/ ByEndpoint(c) \/ ByDraining(c)
          \/ \E r \in RunIds : ~chatting /\ (ByServer(r) \/ ByFault(r))
          \/ ByGui
          \/ chatting /\ now < MaxTime /\ ByClock
       /\ UNCHANGED <<chatting, commands>>

MCFairness ==
    /\ \A c \in Conns : /\ WF_serverVars(ByWorker(c)) /\ WF_serverVars(ByEndpoint(c))
                        /\ WF_serverVars(ByDraining(c))
    /\ \A r \in 1 .. MaxRuns : WF_serverVars(~chatting /\ ByServer(r))
    /\ WF_serverVars(ByGui)

MCSpec == MCInit /\ [][MCNext]_mcVars /\ MCFairness

-----------------------------------------------------------------------------

\* Every failure reaches the operator, for each run of the instance.
FailureShown == \A r \in 1 .. MaxRuns : FailureShownOf(r)

\* Every forgotten server ends, for each run of the instance.
ForgottenServersEnd == \A r \in 1 .. MaxRuns : ForgottenServerEnds(r)
=============================================================================
