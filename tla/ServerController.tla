------------------------- MODULE ServerController -------------------------
(***************************************************************************)
(* The operator's window and the server threads behind it                  *)
(* (gui/controller.py, gui/server_gui.py).  The GUI runs on one thread,     *)
(* which stop() blocks in two joins with a time limit; every run of the     *)
(* server is a thread of its own, in which uvicorn (external) starts up,    *)
(* serves, drains its connections and ends, or fails on the way.            *)
(***************************************************************************)
EXTENDS Integers, Sequences

VARIABLES
    runs,       \* the server threads of this process, in the order of start
    current,    \* _thread, _server and _app: the run they belong to, or NoRun
    error,      \* _error: the run whose failure it holds, or NoRun
    state,      \* _state: what the window shows, which its buttons follow
    gui,        \* what the GUI thread is doing
    shown       \* history: runs whose failure the operator has been shown

controllerVars == <<runs, current, error, state, gui, shown>>

NoRun == 0
RunIds == DOMAIN runs

\* Phase of the thread, the two flags stop() sets in its uvicorn server, and
\* whether its server.run() raises.
Run == [phase : {"starting", "serving", "draining", "ended"},
        shouldExit : BOOLEAN, forceExit : BOOLEAN, failed : BOOLEAN]

NewRun == [phase |-> "starting", shouldExit |-> FALSE, forceExit |-> FALSE, failed |-> FALSE]

\* Closing is stop() called by on_close, after which the process ends.
GuiActivity == {"idle", "joining", "joiningForced", "deleting",
                "closing", "closingForced", "closed"}

Alive(r) == runs[r].phase # "ended"

\* is_running and is_serving; uvicorn never takes back "started".
IsRunning == current # NoRun /\ Alive(current)
IsServing == current # NoRun /\ runs[current].phase \in {"serving", "draining"}

-----------------------------------------------------------------------------
(* The server thread: _serve around uvicorn *)

\* Startup ends: the run serves; or it returns without an error, because it was
\* asked to exit or because the application could not start; or it cannot bind.
StartupEnds(r) ==
    /\ runs[r].phase = "starting"
    /\ \/ /\ ~runs[r].shouldExit
          /\ runs' = [runs EXCEPT ![r].phase = "serving"]
          /\ UNCHANGED error
       \/ /\ runs' = [runs EXCEPT ![r].phase = "ended"]
          /\ UNCHANGED error
       \/ /\ runs' = [runs EXCEPT ![r].phase = "ended", ![r].failed = TRUE]
          /\ error' = r
    /\ UNCHANGED <<current, state, gui, shown>>

\* uvicorn leaves its main loop when asked to.  What force_exit spares it,
\* waiting for its connections, asyncio.run does after it.
ServingEnds(r) ==
    /\ runs[r].phase = "serving" /\ runs[r].shouldExit
    /\ runs' = [runs EXCEPT ![r].phase = "draining"]
    /\ UNCHANGED <<current, error, state, gui, shown>>

\* An exception ends it at any time.
ServingFails(r) ==
    /\ runs[r].phase = "serving"
    /\ runs' = [runs EXCEPT ![r].phase = "draining", ![r].failed = TRUE]
    /\ UNCHANGED <<current, error, state, gui, shown>>

\* The last connection is gone: server.run() returns or raises.
ServeEnds(r) ==
    /\ runs[r].phase = "draining"
    /\ runs' = [runs EXCEPT ![r].phase = "ended"]
    /\ error' = IF runs[r].failed THEN r ELSE error
    /\ UNCHANGED <<current, state, gui, shown>>

-----------------------------------------------------------------------------
(* The GUI thread *)

\* Slip: the failure of the previous run is kept.
OnStart_KeepsError ==
    /\ gui = "idle" /\ state = "STOPPED" /\ ~IsRunning
    /\ runs' = Append(runs, NewRun)
    /\ current' = Len(runs) + 1
    /\ state' = "STARTING"
    /\ UNCHANGED <<error, gui, shown>>

\* The Start button works while the window shows STOPPED; start() refuses when
\* a server is running, which changes nothing.
OnStart ==
    /\ gui = "idle" /\ state = "STOPPED" /\ ~IsRunning
    /\ error' = NoRun
    /\ runs' = Append(runs, NewRun)
    /\ current' = Len(runs) + 1
    /\ state' = "STARTING"
    /\ UNCHANGED <<gui, shown>>

\* create_app raised: nothing is started, but the old failure is forgotten.
OnStartFails ==
    /\ gui = "idle" /\ state = "STOPPED" /\ ~IsRunning
    /\ error' = NoRun
    /\ UNCHANGED <<runs, current, state, gui, shown>>

\* Slip: only a server that accepts connections is told to exit.
AskExit_WhenServing ==
    runs' = [runs EXCEPT ![current].shouldExit = IsServing]

AskExit == runs' = [runs EXCEPT ![current].shouldExit = TRUE]

\* stop() asks a live server to exit and waits; it forgets a dead one.
OnStop ==
    /\ gui = "idle" /\ state # "STOPPED"
    /\ IF IsRunning
       THEN AskExit /\ gui' = "joining" /\ state' = "STARTING" /\ UNCHANGED current
       ELSE current' = NoRun /\ state' = "STOPPED" /\ UNCHANGED <<runs, gui>>
    /\ UNCHANGED <<error, shown>>

OnClose ==
    /\ gui = "idle"
    /\ IF IsRunning
       THEN AskExit /\ gui' = "closing" /\ UNCHANGED current
       ELSE current' = NoRun /\ gui' = "closed" /\ UNCHANGED runs
    /\ UNCHANGED <<error, state, shown>>

\* stop() returns: the thread is forgotten, whether or not it has ended.
StopReturns ==
    /\ current' = NoRun
    /\ IF gui \in {"joining", "joiningForced"}
       THEN gui' = "idle" /\ state' = "STOPPED"
       ELSE gui' = "closed" /\ UNCHANGED state
    /\ UNCHANGED <<runs, error, shown>>

JoinSucceeds ==
    /\ gui \in {"joining", "joiningForced", "closing", "closingForced"}
    /\ ~Alive(current)
    /\ StopReturns

\* Slip: stop() gives up after the first time limit.
JoinTimesOut_GivesUp ==
    gui \in {"joining", "closing"} /\ Alive(current) /\ StopReturns

\* The first time limit: force_exit, and another join.
JoinTimesOut ==
    /\ gui \in {"joining", "closing"}
    /\ Alive(current)
    /\ runs' = [runs EXCEPT ![current].forceExit = TRUE]
    /\ gui' = IF gui = "joining" THEN "joiningForced" ELSE "closingForced"
    /\ UNCHANGED <<current, error, state, shown>>

\* The second time limit: the thread stays alive, unknown to the controller.
ForcedJoinTimesOut ==
    gui \in {"joiningForced", "closingForced"} /\ Alive(current) /\ StopReturns

\* Slip: a failure is only shown of a server that was running.
ShowsFailure_OnlyWhenServed == state = "RUNNING" /\ error # NoRun

\* _on_state_change, when the thread is found dead.
ShowsFailure == state # "STOPPED" /\ error # NoRun

PolledState ==
    IF IsServing THEN "RUNNING" ELSE IF IsRunning THEN "STARTING" ELSE "STOPPED"

\* _poll_status; its reads of the registries and the database change nothing.
PollStatus ==
    /\ gui = "idle" /\ PolledState # state
    /\ state' = PolledState
    /\ shown' = IF PolledState = "STOPPED" /\ ShowsFailure THEN shown \cup {error} ELSE shown
    /\ UNCHANGED <<runs, current, error, gui>>

\* The process ends, after its window was closed or killed at any point, takes
\* its daemon threads with it, and is started again.
ProcessRestarts ==
    /\ runs' = << >> /\ current' = NoRun /\ error' = NoRun
    /\ state' = "STOPPED" /\ gui' = "idle" /\ shown' = {}

ControllerInit ==
    /\ runs = << >> /\ current = NoRun /\ error = NoRun
    /\ state = "STOPPED" /\ gui = "idle" /\ shown = {}

ThreadStep == \E r \in RunIds : StartupEnds(r) \/ ServingEnds(r) \/ ServingFails(r) \/ ServeEnds(r)

StopStep == JoinSucceeds \/ JoinTimesOut \/ ForcedJoinTimesOut

ControllerNext ==
    \/ ThreadStep
    \/ OnStart \/ OnStartFails \/ OnStop \/ OnClose \/ StopStep \/ PollStatus \/ ProcessRestarts

ControllerSpec == ControllerInit /\ [][ControllerNext]_controllerVars

-----------------------------------------------------------------------------
(* Properties *)

ControllerTypeOK ==
    /\ runs \in Seq(Run)
    /\ current \in RunIds \cup {NoRun} /\ error \in RunIds \cup {NoRun}
    /\ state \in {"STOPPED", "STARTING", "RUNNING"}
    /\ gui \in GuiActivity /\ shown \subseteq RunIds

\* A run that both time limits of a stop() have passed by.
GivenUp(r) == r # current /\ runs[r].forceExit

\* While the window shows STOPPED the controller has no live server, so the
\* Start button never meets one (server_gui.py:324 "Should not happen"); any
\* server alive beside the controller's was given up by stop() after both time
\* limits; and the recorded failure is that of the last run (controller.py:133),
\* or of one that was given up.
ControllerSound ==
    /\ ControllerTypeOK
    /\ state = "STOPPED" /\ gui = "idle" => ~IsRunning
    /\ \A r \in RunIds : Alive(r) /\ r # current => GivenUp(r)
    /\ error # NoRun => error = Len(runs) \/ GivenUp(error)
=============================================================================
