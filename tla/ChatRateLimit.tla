--------------------------- MODULE ChatRateLimit ---------------------------
(***************************************************************************)
(* The rate limit of room chat (app/main.py, _enforce_chat_rate_limit): per *)
(* connection, a deque of the times at which its last lines were accepted.  *)
(* Old times are popped from the left before each decision.  chatLog is a   *)
(* history variable: every time the connection had a line accepted.         *)
(***************************************************************************)
EXTENDS Integers, Sequences

CONSTANTS Conns,         \* connections
          Window,        \* CHAT_RATE_LIMIT_WINDOW_SECONDS
          MaxMessages    \* CHAT_RATE_LIMIT_MAX_MESSAGES

ASSUME ChatAssumption == Window \in Nat \ {0} /\ MaxMessages \in Nat \ {0}

VARIABLES now,           \* time.monotonic()
          chatSentAt,    \* connection -> ClientSession.chat_sent_at
          chatLog        \* connection -> times of all its accepted lines

chatVars == <<now, chatSentAt, chatLog>>

\* Slip: a line is forgotten a moment too early.
Outdated_Early(window, n) ==
    /\ \A i \in 1 .. n : now - window[i] >= Window - 1
    /\ n < Len(window) => now - window[n + 1] < Window - 1

\* The while loop pops the first n times and no more.
Outdated(window, n) ==
    /\ \A i \in 1 .. n : now - window[i] >= Window
    /\ n < Len(window) => now - window[n + 1] < Window

\* One chat line: the pops stay even when the line is refused.
Chat(c) ==
    \E n \in 0 .. Len(chatSentAt[c]) :
        LET recent == SubSeq(chatSentAt[c], n + 1, Len(chatSentAt[c])) IN
        /\ Outdated(chatSentAt[c], n)
        /\ \/ /\ Len(recent) < MaxMessages
              /\ chatSentAt' = [chatSentAt EXCEPT ![c] = Append(recent, now)]
              /\ chatLog' = [chatLog EXCEPT ![c] = Append(@, now)]
           \/ /\ Len(recent) >= MaxMessages
              /\ chatSentAt' = [chatSentAt EXCEPT ![c] = recent]
              /\ UNCHANGED chatLog
        /\ UNCHANGED now

\* The limit belongs to the connection: a new one starts with an empty deque.
NewChatSession(c) ==
    /\ chatSentAt' = [chatSentAt EXCEPT ![c] = << >>]
    /\ chatLog' = [chatLog EXCEPT ![c] = << >>]
    /\ UNCHANGED now

TimePasses == now' = now + 1 /\ UNCHANGED <<chatSentAt, chatLog>>

ChatInit ==
    /\ now = 0
    /\ chatSentAt = [c \in Conns |-> << >>]
    /\ chatLog = [c \in Conns |-> << >>]

ChatNext == (\E c \in Conns : Chat(c) \/ NewChatSession(c)) \/ TimePasses

ChatSpec == ChatInit /\ [][ChatNext]_chatVars

-----------------------------------------------------------------------------
(* Properties *)

ChatTypeOK ==
    /\ now \in Nat
    /\ chatSentAt \in [Conns -> Seq(Nat)] /\ chatLog \in [Conns -> Seq(Nat)]

\* How many accepted lines of a connection have left its deque.
Popped(c) == Len(chatLog[c]) - Len(chatSentAt[c])

\* Whatever the pace of a connection, its first line after MaxMessages others
\* comes a whole window after the first of them, the boundary included; and no
\* line is held against it longer than that: the deque is the end of its log,
\* and what has left it is a window old.
RateBounded ==
    \A c \in Conns :
        /\ \A i \in 1 .. Len(chatLog[c]) - MaxMessages :
              chatLog[c][i + MaxMessages] - chatLog[c][i] >= Window
        /\ Popped(c) >= 0
        /\ \A j \in 1 .. Len(chatSentAt[c]) : chatSentAt[c][j] = chatLog[c][Popped(c) + j]
        /\ \A i \in 1 .. Popped(c) : now - chatLog[c][i] >= Window
=============================================================================
