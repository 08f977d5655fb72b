------------------------------- MODULE Server -------------------------------
(***************************************************************************)
(* The whole process: the operator's window, the server threads it starts, *)
(* the connections each of them serves, and the accounts they share.  The   *)
(* GUI thread deletes accounts in the same database in which the workers    *)
(* of a server read them.                                                   *)
(***************************************************************************)
EXTENDS Sessions, ServerController

VARIABLES
    deleting,   \* the account the GUI thread is about to delete, or None
    exposed     \* history: connections whose login overlapped a deletion of its id

serverVars == <<chatVars, sessionVars, controllerVars, deleting, exposed>>

\* A login between the read of its row and its answer.
LoginInFlight(request) == request # None /\ request.step \in {"verifying", "verified"}

\* History: which logins a deletion was under way at the same time as.
TrackExposed ==
    exposed' = {c \in exposed : at'[c] # None} \cup
               {c \in Conns : LoginInFlight(job'[c]) /\ deleting' = job'[c].id}

-----------------------------------------------------------------------------
(* Clients and servers *)

ClientConnects(c) ==
    /\ \E r \in RunIds : runs[r].phase = "serving" /\ Connect(c, r)
    /\ NewChatSession(c)

ClientSends(c) ==
    \/ \E id \in Ids : HandleCreateAccount(c, id) \/ HandleLogin(c, id)
    \/ EnterRoom(c) \/ LeaveRoom(c)

WorkerStep(c) == WorkerCreates(c) \/ WorkerSelects(c) \/ WorkerVerifies(c)

\* A server that drains closes the connections it still has.
ServerCloses(c) == at[c] # None /\ runs[at[c]].phase = "draining" /\ Vanish(c)

\* Every endpoint has ended: uvicorn waits for them, forced or not.
Drained(r) == \A c \in Conns : at[c] # r

ServerThread(r) == StartupEnds(r) \/ ServingEnds(r) \/ (Drained(r) /\ ServeEnds(r))

-----------------------------------------------------------------------------
(* delete_account: the GUI thread asks for an online user, then deletes *)

\* The operator picks a row of the window's table, which may lag behind new
\* accounts but not behind deletions: only the window deletes.
DeleteChecks(id) ==
    /\ gui = "idle" /\ IsServing /\ accounts[id] # None
    /\ ~OnlineAt(current, id)
    /\ gui' = "deleting" /\ deleting' = id
    /\ UNCHANGED <<runs, current, error, state, shown>>

DeleteRuns ==
    /\ gui = "deleting"
    /\ DeleteRow(deleting)
    /\ gui' = "idle" /\ deleting' = None
    /\ UNCHANGED <<runs, current, error, state, shown>>

-----------------------------------------------------------------------------

ServerInit ==
    /\ ChatInit /\ SessionsInit /\ ControllerInit
    /\ deleting = None /\ exposed = {}

\* What clients and the operator ask for, and faults: nobody is obliged to.
ByClient(c) ==
    /\ \/ ClientConnects(c)
       \/ ClientSends(c) /\ UNCHANGED chatVars
       \/ Vanish(c) /\ UNCHANGED chatVars
    /\ UNCHANGED <<controllerVars, deleting>> /\ TrackExposed

ByChatter(c) == HandleChat(c) /\ UNCHANGED <<sessionVars, controllerVars, deleting, exposed>>

ByOperator ==
    /\ \/ /\ OnStart \/ OnStartFails \/ OnStop \/ OnClose
          /\ UNCHANGED <<sessionVars, deleting>>
       \/ \E id \in Ids : DeleteChecks(id) /\ UNCHANGED sessionVars
       \/ ProcessRestarts /\ SessionsLost /\ deleting' = None
    /\ UNCHANGED chatVars /\ TrackExposed

\* What the program does by itself.
ByWorker(c) ==
    WorkerStep(c) /\ UNCHANGED <<chatVars, controllerVars, deleting>> /\ TrackExposed

ByEndpoint(c) ==
    /\ RequestAnswered(c) \/ Disconnect(c)
    /\ UNCHANGED <<chatVars, controllerVars, deleting>> /\ TrackExposed

ByDraining(c) ==
    ServerCloses(c) /\ UNCHANGED <<chatVars, controllerVars, deleting>> /\ TrackExposed

ByServer(r) ==
    /\ r \in RunIds /\ ServerThread(r)
    /\ UNCHANGED <<chatVars, sessionVars, deleting>> /\ TrackExposed

ByFault(r) ==
    ServingFails(r) /\ UNCHANGED <<chatVars, sessionVars, deleting>> /\ TrackExposed

ByGui ==
    /\ \/ (StopStep \/ PollStatus) /\ UNCHANGED <<sessionVars, deleting>>
       \/ DeleteRuns
    /\ UNCHANGED chatVars /\ TrackExposed

ByClock == TimePasses /\ UNCHANGED <<sessionVars, controllerVars, deleting, exposed>>

ServerNext ==
    \/ \E c \in Conns : ByClient(c) \/ ByChatter(c) \/ ByWorker(c) \/ ByEndpoint(c) \/ ByDraining(c)
    \/ \E r \in RunIds : ByServer(r) \/ ByFault(r)
    \/ ByOperator \/ ByGui \/ ByClock

\* Threads, the event loop and the GUI loop run; joins have their time limits;
\* a worker thread comes to an end.
ServerFairness ==
    /\ \A c \in Conns : /\ WF_serverVars(ByWorker(c)) /\ WF_serverVars(ByEndpoint(c))
                        /\ WF_serverVars(ByDraining(c))
    /\ \A r \in Nat : WF_serverVars(ByServer(r))
    /\ WF_serverVars(ByGui)

ServerSpec == ServerInit /\ [][ServerNext]_serverVars /\ ServerFairness

-----------------------------------------------------------------------------
(* Properties *)

\* The row a connection logged in with is no longer in the table.
Orphaned(c) ==
    c \in alive /\ at[c] = current /\ user[c] # None /\ accounts[user[c].id] # user[c].row

\* controller.py:195 "Delete an offline account": no account is deleted under a
\* connection that is logged in to it at the controller's server.
OnlineAccountsKept == \A c \in Conns : ~Orphaned(c)

\* What holds of it: an account is only lost under a login whose row was read
\* before the DELETE and that was answered after the check for online users.
OrphanedOnlyInRace == \A c \in Conns : Orphaned(c) => c \in exposed

\* A failure of the controller's server reaches the operator: unless the server
\* is stopped or replaced, or the process ends, a failure is shown (its own, or
\* that of a server given up by stop() that fails later and overwrites it).
FailureShownOf(r) ==
    (current = r /\ error = r /\ ~Alive(r)) ~> (error \in shown \/ current # r)

\* A server thread the controller has forgotten ends at last, whatever its
\* clients and workers are doing.
ForgottenServerEnds(r) ==
    (r \in RunIds /\ r # current) ~> (r \notin RunIds \/ ~Alive(r) \/ r = current)
=============================================================================
