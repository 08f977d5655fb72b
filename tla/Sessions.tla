------------------------------ MODULE Sessions ------------------------------
(***************************************************************************)
(* The connections of the server as accounts and chat see them             *)
(* (app/main.py, app/connection.py) and the accounts table                  *)
(* (app/account_repository.py).  create_account and login run in a worker   *)
(* thread while the handler of their connection waits; the table outlives   *)
(* servers and processes.  A password is what a verification makes of it:    *)
(* right or wrong.                                                          *)
(***************************************************************************)
EXTENDS ChatRateLimit

CONSTANTS None,    \* no row, no server, no account, no job
          Ids      \* account ids, normalised

Account == [id : Ids, row : Nat]

\* A request and how far it has come; row is the row it inserted or read.
Job == [id : Ids, row : Nat \cup {None},
        step : {"hashing", "created", "selecting", "verifying", "verified", "refused"}]

ASSUME SessionsAssumption ==
    None \notin Nat /\ None \notin Ids /\ None \notin Account /\ None \notin Job

VARIABLES
    accounts,   \* id -> the row of the table (its number stands for created_at) or None
    rows,       \* rows inserted so far
    at,         \* connection -> the server run that serves its endpoint, or None
    alive,      \* connections whose peer is still there
    user,       \* connection -> session.account_id, with the row it came from, or None
    job,        \* connection -> the account request its handler waits for, or None
    inRoom,     \* connections in a room
    answered,   \* history: accounts whose creation the client was told of
    deleted     \* history: accounts the operator deleted

sessionVars == <<accounts, rows, at, alive, user, job, inRoom, answered, deleted>>

Request(id, step) == [id |-> id, step |-> step, row |-> None]

-----------------------------------------------------------------------------
(* The worker thread of a request: account_repository.py *)

\* Slip: an INSERT that replaces the row of the id.
Insert_Replaces(c) ==
    /\ accounts' = [accounts EXCEPT ![job[c].id] = rows + 1]
    /\ rows' = rows + 1
    /\ job' = [job EXCEPT ![c].step = "created", ![c].row = rows + 1]

\* The primary key lets one of two INSERTs of an id pass.
Insert(c) ==
    IF accounts[job[c].id] = None
    THEN /\ accounts' = [accounts EXCEPT ![job[c].id] = rows + 1]
         /\ rows' = rows + 1
         /\ job' = [job EXCEPT ![c].step = "created", ![c].row = rows + 1]
    ELSE /\ job' = [job EXCEPT ![c].step = "refused"]
         /\ UNCHANGED <<accounts, rows>>

\* create_account after hash_password; a database error leaves no row.
WorkerCreates(c) ==
    /\ job[c] # None /\ job[c].step = "hashing"
    /\ \/ Insert(c)
       \/ job' = [job EXCEPT ![c].step = "refused"] /\ UNCHANGED <<accounts, rows>>
    /\ UNCHANGED <<at, alive, user, inRoom, answered, deleted>>

\* authenticate reads the row, closes its transaction and only then verifies.
WorkerSelects(c) ==
    /\ job[c] # None /\ job[c].step = "selecting"
    /\ job' = IF accounts[job[c].id] = None
              THEN [job EXCEPT ![c].step = "refused"]
              ELSE [job EXCEPT ![c].step = "verifying", ![c].row = accounts[job[c].id]]
    /\ UNCHANGED <<accounts, rows, at, alive, user, inRoom, answered, deleted>>

WorkerVerifies(c) ==
    /\ job[c] # None /\ job[c].step = "verifying"
    /\ \E result \in {"verified", "refused"} : job' = [job EXCEPT ![c].step = result]
    /\ UNCHANGED <<accounts, rows, at, alive, user, inRoom, answered, deleted>>

WorkerDone(c) == job[c] # None /\ job[c].step \in {"created", "verified", "refused"}

-----------------------------------------------------------------------------
(* Endpoints and handlers *)

\* The handler of a connection is free for its next message.
Listening(c) == at[c] # None /\ c \in alive /\ job[c] = None

Connect(c, server) ==
    /\ at[c] = None
    /\ at' = [at EXCEPT ![c] = server]
    /\ alive' = alive \cup {c}
    /\ UNCHANGED <<accounts, rows, user, job, inRoom, answered, deleted>>

HandleCreateAccount(c, id) ==
    /\ Listening(c) /\ user[c] = None
    /\ job' = [job EXCEPT ![c] = Request(id, "hashing")]
    /\ UNCHANGED <<accounts, rows, at, alive, user, inRoom, answered, deleted>>

HandleLogin(c, id) ==
    /\ Listening(c) /\ user[c] = None
    /\ job' = [job EXCEPT ![c] = Request(id, "selecting")]
    /\ UNCHANGED <<accounts, rows, at, alive, user, inRoom, answered, deleted>>

\* The handler resumes with the worker's result and answers, to whoever is
\* still there; a login marks the session first.
RequestAnswered(c) ==
    /\ WorkerDone(c)
    /\ job' = [job EXCEPT ![c] = None]
    /\ user' = IF job[c].step = "verified"
               THEN [user EXCEPT ![c] = [id |-> job[c].id, row |-> job[c].row]]
               ELSE user
    /\ answered' = IF job[c].step = "created" /\ c \in alive
                   THEN answered \cup {[id |-> job[c].id, row |-> job[c].row]}
                   ELSE answered
    /\ UNCHANGED <<accounts, rows, at, alive, inRoom, deleted>>

\* Room entry needs an account (the rooms themselves: module Lobby).
EnterRoom(c) ==
    /\ Listening(c) /\ user[c] # None /\ c \notin inRoom
    /\ inRoom' = inRoom \cup {c}
    /\ UNCHANGED <<accounts, rows, at, alive, user, job, answered, deleted>>

LeaveRoom(c) ==
    /\ Listening(c) /\ c \in inRoom
    /\ inRoom' = inRoom \ {c}
    /\ UNCHANGED <<accounts, rows, at, alive, user, job, answered, deleted>>

HandleChat(c) == Listening(c) /\ c \in inRoom /\ user[c] # None /\ Chat(c)

\* The peer closes, is lost, or is closed by a server that shuts down.
Vanish(c) ==
    /\ c \in alive
    /\ alive' = alive \ {c}
    /\ UNCHANGED <<accounts, rows, at, user, job, inRoom, answered, deleted>>

\* A request in a worker thread is waited for even when the endpoint is
\* cancelled (anyio); a handler that is not cancelled answers it first.
EndpointMayEnd(c) == job[c] = None \/ WorkerDone(c)

\* The endpoint of a peer that is gone ends with its session.
Disconnect(c) ==
    /\ at[c] # None /\ c \notin alive /\ EndpointMayEnd(c)
    /\ at' = [at EXCEPT ![c] = None]
    /\ user' = [user EXCEPT ![c] = None]
    /\ job' = [job EXCEPT ![c] = None]
    /\ inRoom' = inRoom \ {c}
    /\ UNCHANGED <<accounts, rows, alive, answered, deleted>>

\* Slip: nobody asks whether the user is online.
OnlineAt_Nobody(server, id) == FALSE

\* get_online_users of one server's registry.
OnlineAt(server, id) ==
    \E c \in Conns : at[c] = server /\ user[c] # None /\ user[c].id = id

\* The DELETE of the repository.
DeleteRow(id) ==
    /\ accounts' = [accounts EXCEPT ![id] = None]
    /\ deleted' = IF accounts[id] = None THEN deleted
                  ELSE deleted \cup {[id |-> id, row |-> accounts[id]]}
    /\ UNCHANGED <<rows, at, alive, user, job, inRoom, answered>>

\* The process dies: nothing but the table remains.
SessionsLost ==
    /\ at' = [c \in Conns |-> None] /\ alive' = {}
    /\ user' = [c \in Conns |-> None] /\ job' = [c \in Conns |-> None]
    /\ inRoom' = {}
    /\ UNCHANGED <<accounts, rows, answered, deleted>>

SessionsInit ==
    /\ accounts = [id \in Ids |-> None] /\ rows = 0
    /\ at = [c \in Conns |-> None] /\ alive = {}
    /\ user = [c \in Conns |-> None] /\ job = [c \in Conns |-> None]
    /\ inRoom = {}
    /\ answered = {} /\ deleted = {}

-----------------------------------------------------------------------------
(* Properties *)

SessionsTypeOK ==
    /\ accounts \in [Ids -> Nat \cup {None}] /\ rows \in Nat
    /\ at \in [Conns -> Nat \cup {None}] /\ alive \subseteq Conns
    /\ user \in [Conns -> Account \cup {None}] /\ inRoom \subseteq Conns
    /\ answered \subseteq Account /\ deleted \subseteq Account
    /\ job \in [Conns -> Job \cup {None}]

\* An account whose creation was answered stays until the operator deletes it,
\* whoever else asks for its id at the same time, and whatever server, worker or
\* process ends meanwhile.
AnsweredAccountsKept ==
    /\ SessionsTypeOK
    /\ \A a \in answered : accounts[a.id] = a.row \/ a \in deleted
    /\ \A a, b \in answered : a.id = b.id /\ a # b => a \in deleted \/ b \in deleted
=============================================================================
