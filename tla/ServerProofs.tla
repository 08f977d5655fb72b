---------------------------- MODULE ServerProofs ----------------------------
(***************************************************************************)
(* The parts of the process, and the process that is made of them, for any  *)
(* numbers of connections, accounts and server runs.                        *)
(*                                                                          *)
(* Chat: the deque is the end of the log (RateBounded says so), never longer *)
(* than the limit, and the log is ordered; so the line that comes MaxMessages *)
(* after another finds it popped, a window old.                             *)
(*                                                                          *)
(* Controller: what ControllerSound says is not inductive.  That stop()      *)
(* forgets a live thread only after both time limits needs to know what it   *)
(* has set by then (StopInProgress), and that a failure is the last run's    *)
(* needs to know that the controller's own run is the last (CurrentIsLast).  *)
(*                                                                          *)
(* Accounts: a created row is kept from its INSERT on, not only from the     *)
(* answer; and a login is safe, or overlapped a deletion, from the SELECT    *)
(* that reads its row on.                                                   *)
(***************************************************************************)
EXTENDS Server, TLAPS

-----------------------------------------------------------------------------
(* Chat *)

\* One connection: its log is ordered and past, the deque is the end of the log
\* and within the limit, and what has left it is a window old.
LogOrdered(log, time) ==
    /\ \A i \in 1 .. Len(log) : log[i] <= time
    /\ \A i, j \in 1 .. Len(log) : i <= j => log[i] <= log[j]

DequeIsEnd(sent, log, time) ==
    /\ Len(sent) <= Len(log) /\ Len(sent) <= MaxMessages
    /\ \A j \in 1 .. Len(sent) : sent[j] = log[Len(log) - Len(sent) + j]
    /\ \A i \in 1 .. Len(log) - Len(sent) : time - log[i] >= Window

Spaced(log) ==
    \A i \in 1 .. Len(log) - MaxMessages : log[i + MaxMessages] - log[i] >= Window

ChatInv ==
    /\ ChatTypeOK
    /\ \A c \in Conns : /\ LogOrdered(chatLog[c], now)
                        /\ DequeIsEnd(chatSentAt[c], chatLog[c], now)
                        /\ Spaced(chatLog[c])

\* A log and its deque stay right while time passes.
LEMMA TimeKeepsDeque ==
    ASSUME NEW log \in Seq(Nat), NEW sent \in Seq(Nat), NEW time \in Nat,
           LogOrdered(log, time), DequeIsEnd(sent, log, time)
    PROVE  LogOrdered(log, time + 1) /\ DequeIsEnd(sent, log, time + 1)
  <1>1. \A i \in 1 .. Len(log) : log[i] \in Nat
    OBVIOUS
  <1> QED
    BY <1>1, ChatAssumption DEF LogOrdered, DequeIsEnd

\* The pops of a decision leave the end of the log.
LEMMA PopsKeepDeque ==
    ASSUME NEW log \in Seq(Nat), NEW sent \in Seq(Nat), NEW time \in Nat,
           NEW n \in 0 .. Len(sent),
           DequeIsEnd(sent, log, time),
           \A i \in 1 .. n : time - sent[i] >= Window
    PROVE  LET recent == SubSeq(sent, n + 1, Len(sent))
           IN  recent \in Seq(Nat) /\ DequeIsEnd(recent, log, time)
  <1> DEFINE recent == SubSeq(sent, n + 1, Len(sent))
  <1>1. /\ recent \in Seq(Nat) /\ Len(recent) = Len(sent) - n
        /\ \A j \in 1 .. Len(recent) : recent[j] = sent[n + j]
        /\ Len(recent) \in Nat /\ Len(sent) \in Nat /\ Len(log) \in Nat
    OBVIOUS
  <1> HIDE DEF recent
  <1>2. Len(recent) <= Len(log) /\ Len(recent) <= MaxMessages
    BY <1>1, ChatAssumption DEF DequeIsEnd
  <1>3. \A j \in 1 .. Len(recent) : recent[j] = log[Len(log) - Len(recent) + j]
    <2> SUFFICES ASSUME NEW j \in 1 .. Len(recent)
                 PROVE  recent[j] = log[Len(log) - Len(recent) + j]
      OBVIOUS
    <2>1. n + j \in 1 .. Len(sent) /\ Len(log) - Len(recent) + j = Len(log) - Len(sent) + (n + j)
      BY <1>1
    <2> QED
      BY <1>1, <2>1 DEF DequeIsEnd
  <1>4. \A i \in 1 .. Len(log) - Len(recent) : time - log[i] >= Window
    <2> SUFFICES ASSUME NEW i \in 1 .. Len(log) - Len(recent)
                 PROVE  time - log[i] >= Window
      OBVIOUS
    <2>1. CASE i <= Len(log) - Len(sent)
      BY <2>1 DEF DequeIsEnd
    <2>2. CASE i > Len(log) - Len(sent)
      <3>1. i - (Len(log) - Len(sent)) \in 1 .. n
        BY <1>1, <2>2
      <3>2. sent[i - (Len(log) - Len(sent))] = log[i]
        BY <3>1 DEF DequeIsEnd
      <3> QED
        BY <3>1, <3>2
    <2> QED
      BY <2>1, <2>2
  <1>5. DequeIsEnd(recent, log, time)
    BY <1>2, <1>3, <1>4 DEF DequeIsEnd
  <1> QED
    BY <1>1, <1>5 DEF recent

\* An accepted line stays ordered, at the end of the deque, and spaced.
LEMMA AcceptKeepsDeque ==
    ASSUME NEW log \in Seq(Nat), NEW recent \in Seq(Nat), NEW time \in Nat,
           LogOrdered(log, time), DequeIsEnd(recent, log, time), Spaced(log),
           Len(recent) < MaxMessages
    PROVE  /\ LogOrdered(Append(log, time), time)
           /\ DequeIsEnd(Append(recent, time), Append(log, time), time)
           /\ Spaced(Append(log, time))
  <1> DEFINE longer == Append(log, time)
             sent == Append(recent, time)
  <1>1. /\ Len(longer) = Len(log) + 1 /\ longer[Len(log) + 1] = time
        /\ \A i \in 1 .. Len(log) : longer[i] = log[i] /\ log[i] \in Nat
        /\ Len(log) \in Nat
    OBVIOUS
  <1>2. /\ Len(sent) = Len(recent) + 1 /\ sent[Len(recent) + 1] = time
        /\ \A i \in 1 .. Len(recent) : sent[i] = recent[i]
        /\ Len(recent) \in Nat
    OBVIOUS
  <1> HIDE DEF longer, sent
  <1>3. LogOrdered(longer, time)
    <2>1. \A i \in 1 .. Len(longer) : i \in 1 .. Len(log) \/ i = Len(log) + 1
      BY <1>1
    <2>2. ASSUME NEW i \in 1 .. Len(longer) PROVE longer[i] <= time
      <3>1. CASE i \in 1 .. Len(log)
        BY <1>1, <3>1 DEF LogOrdered
      <3>2. CASE i = Len(log) + 1
        BY <1>1, <3>2
      <3> QED
        BY <2>1, <3>1, <3>2
    <2>3. ASSUME NEW i \in 1 .. Len(longer), NEW j \in 1 .. Len(longer), i <= j
          PROVE  longer[i] <= longer[j]
      <3>1. CASE j = Len(log) + 1
        BY <1>1, <2>2, <3>1
      <3>2. CASE j \in 1 .. Len(log)
        <4>1. i \in 1 .. Len(log)
          BY <1>1, <2>3, <3>2
        <4> QED
          BY <1>1, <2>3, <3>2, <4>1 DEF LogOrdered
      <3> QED
        BY <2>1, <3>1, <3>2
    <2> QED
      BY <2>2, <2>3 DEF LogOrdered
  <1>4. DequeIsEnd(sent, longer, time)
    <2>1. Len(sent) <= Len(longer) /\ Len(sent) <= MaxMessages
      BY <1>1, <1>2, ChatAssumption DEF DequeIsEnd
    <2>2. Len(longer) - Len(sent) = Len(log) - Len(recent)
      BY <1>1, <1>2
    <2>3. \A j \in 1 .. Len(sent) : sent[j] = longer[Len(longer) - Len(sent) + j]
      <3> SUFFICES ASSUME NEW j \in 1 .. Len(sent)
                   PROVE  sent[j] = longer[Len(log) - Len(recent) + j]
        BY <2>2
      <3>1. CASE j = Len(recent) + 1
        BY <1>1, <1>2, <3>1
      <3>2. CASE j <= Len(recent)
        <4>1. j \in 1 .. Len(recent)
          BY <1>2, <3>2
        <4>2. Len(log) - Len(recent) + j \in 1 .. Len(log)
          BY <1>1, <1>2, <4>1 DEF DequeIsEnd
        <4>3. recent[j] = log[Len(log) - Len(recent) + j]
          BY <4>1 DEF DequeIsEnd
        <4>4. longer[Len(log) - Len(recent) + j] = log[Len(log) - Len(recent) + j]
          BY <1>1, <4>2
        <4> QED
          BY <1>2, <4>1, <4>3, <4>4
      <3> QED
        BY <1>2, <3>1, <3>2
    <2>4. \A i \in 1 .. Len(longer) - Len(sent) : time - longer[i] >= Window
      <3> SUFFICES ASSUME NEW i \in 1 .. Len(log) - Len(recent)
                   PROVE  time - longer[i] >= Window
        BY <2>2
      <3>1. longer[i] = log[i]
        BY <1>1
      <3> QED
        BY <3>1 DEF DequeIsEnd
    <2> QED
      BY <2>1, <2>3, <2>4 DEF DequeIsEnd
  <1>5. Spaced(longer)
    <2> SUFFICES ASSUME NEW i \in 1 .. Len(longer) - MaxMessages
                 PROVE  longer[i + MaxMessages] - longer[i] >= Window
      BY DEF Spaced
    <2>1. CASE i + MaxMessages <= Len(log)
      <3>1. /\ i \in 1 .. Len(log) - MaxMessages
            /\ i \in 1 .. Len(log) /\ i + MaxMessages \in 1 .. Len(log)
        BY <1>1, <2>1, ChatAssumption
      <3> QED
        BY <1>1, <3>1 DEF Spaced
    <2>2. CASE i + MaxMessages = Len(log) + 1
      <3>1. i \in 1 .. Len(log) - Len(recent) /\ i \in 1 .. Len(log)
        BY <1>1, <2>2, ChatAssumption DEF DequeIsEnd
      <3>2. longer[i + MaxMessages] = time /\ longer[i] = log[i]
        BY <1>1, <2>2, <3>1
      <3> QED
        BY <3>1, <3>2 DEF DequeIsEnd
    <2>3. MaxMessages \in Int /\ i \in Int /\ Len(log) \in Int /\ i <= Len(log) + 1 - MaxMessages
      BY <1>1, ChatAssumption
    <2>4. i + MaxMessages <= Len(log) \/ i + MaxMessages = Len(log) + 1
      BY <2>3
    <2> QED
      BY <2>1, <2>2, <2>4
  <1> QED
    BY <1>3, <1>4, <1>5 DEF longer, sent

\* An empty deque of an empty log is right at any time.
LEMMA EmptyDeque ==
    ASSUME NEW time \in Nat
    PROVE  LogOrdered(<< >>, time) /\ DequeIsEnd(<< >>, << >>, time) /\ Spaced(<< >>)
  BY ChatAssumption DEF LogOrdered, DequeIsEnd, Spaced

\* Nobody has said anything yet.
LEMMA ChatInitInv == ChatInit => ChatInv
  BY EmptyDeque DEF ChatInit, ChatInv, ChatTypeOK

\* One line of one connection, accepted or refused.
LEMMA ChatKeepsInv ==
    ASSUME ChatInv, NEW c \in Conns, Chat(c)
    PROVE  ChatInv'
  <1>1. PICK n \in 0 .. Len(chatSentAt[c]) :
            LET recent == SubSeq(chatSentAt[c], n + 1, Len(chatSentAt[c])) IN
            /\ Outdated(chatSentAt[c], n)
            /\ \/ /\ Len(recent) < MaxMessages
                  /\ chatSentAt' = [chatSentAt EXCEPT ![c] = Append(recent, now)]
                  /\ chatLog' = [chatLog EXCEPT ![c] = Append(@, now)]
               \/ /\ Len(recent) >= MaxMessages
                  /\ chatSentAt' = [chatSentAt EXCEPT ![c] = recent]
                  /\ UNCHANGED chatLog
            /\ UNCHANGED now
    BY DEF Chat
  <1> DEFINE recent == SubSeq(chatSentAt[c], n + 1, Len(chatSentAt[c]))
  <1>2. /\ now \in Nat /\ chatSentAt[c] \in Seq(Nat) /\ chatLog[c] \in Seq(Nat)
        /\ LogOrdered(chatLog[c], now) /\ DequeIsEnd(chatSentAt[c], chatLog[c], now)
        /\ Spaced(chatLog[c])
    BY DEF ChatInv, ChatTypeOK
  <1>3. recent \in Seq(Nat) /\ DequeIsEnd(recent, chatLog[c], now)
    BY <1>1, <1>2, PopsKeepDeque DEF Outdated
  <1> HIDE DEF recent
  <1>4. /\ chatSentAt'[c] \in Seq(Nat) /\ chatLog'[c] \in Seq(Nat)
        /\ LogOrdered(chatLog'[c], now) /\ DequeIsEnd(chatSentAt'[c], chatLog'[c], now)
        /\ Spaced(chatLog'[c])
    <2>1. CASE /\ Len(recent) < MaxMessages
               /\ chatSentAt' = [chatSentAt EXCEPT ![c] = Append(recent, now)]
               /\ chatLog' = [chatLog EXCEPT ![c] = Append(@, now)]
      <3>1. chatSentAt'[c] = Append(recent, now) /\ chatLog'[c] = Append(chatLog[c], now)
        BY <2>1 DEF ChatInv, ChatTypeOK
      <3>2. /\ LogOrdered(Append(chatLog[c], now), now)
            /\ DequeIsEnd(Append(recent, now), Append(chatLog[c], now), now)
            /\ Spaced(Append(chatLog[c], now))
        BY <1>2, <1>3, <2>1, AcceptKeepsDeque
      <3>3. Append(recent, now) \in Seq(Nat) /\ Append(chatLog[c], now) \in Seq(Nat)
        BY <1>2, <1>3
      <3> QED
        BY <3>1, <3>2, <3>3
    <2>2. CASE /\ Len(recent) >= MaxMessages
               /\ chatSentAt' = [chatSentAt EXCEPT ![c] = recent]
               /\ UNCHANGED chatLog
      <3>1. chatSentAt'[c] = recent /\ chatLog'[c] = chatLog[c]
        BY <2>2 DEF ChatInv, ChatTypeOK
      <3> QED
        BY <1>2, <1>3, <3>1
    <2> QED
      BY <1>1, <2>1, <2>2 DEF recent
  <1>5. /\ now' = now
        /\ chatSentAt' = [chatSentAt EXCEPT ![c] = chatSentAt'[c]]
        /\ chatLog' = [chatLog EXCEPT ![c] = chatLog'[c]]
    BY <1>1 DEF ChatInv, ChatTypeOK
  <1> QED
    BY <1>4, <1>5 DEF ChatInv, ChatTypeOK

\* A chat line and the passing of time keep the invariant.
LEMMA ChatNextKeepsInv == ChatInv /\ [ChatNext]_chatVars => ChatInv'
  <1> SUFFICES ASSUME ChatInv, [ChatNext]_chatVars PROVE ChatInv'
    OBVIOUS
  <1>1. ASSUME NEW c \in Conns, Chat(c) PROVE ChatInv'
    BY <1>1, ChatKeepsInv
  <1>2. ASSUME NEW c \in Conns, NewChatSession(c) PROVE ChatInv'
    BY <1>2, EmptyDeque DEF NewChatSession, ChatInv, ChatTypeOK
  <1>3. ASSUME TimePasses PROVE ChatInv'
    <2>1. now \in Nat /\ now' = now + 1 /\ UNCHANGED <<chatSentAt, chatLog>>
      BY <1>3 DEF TimePasses, ChatInv, ChatTypeOK
    <2>2. \A c \in Conns : chatSentAt[c] \in Seq(Nat) /\ chatLog[c] \in Seq(Nat)
      BY DEF ChatInv, ChatTypeOK
    <2> QED
      BY <2>1, <2>2, TimeKeepsDeque DEF ChatInv, ChatTypeOK
  <1>4. CASE UNCHANGED chatVars
    BY <1>4 DEF chatVars, ChatInv, ChatTypeOK
  <1> QED
    BY <1>1, <1>2, <1>3, <1>4 DEF ChatNext

\* The invariant bounds the lines of every window.
LEMMA ChatInvBounds == ChatInv => RateBounded
  <1> SUFFICES ASSUME ChatInv, NEW c \in Conns
               PROVE  /\ Spaced(chatLog[c])
                      /\ Popped(c) >= 0
                      /\ \A j \in 1 .. Len(chatSentAt[c]) :
                            chatSentAt[c][j] = chatLog[c][Popped(c) + j]
                      /\ \A i \in 1 .. Popped(c) : now - chatLog[c][i] >= Window
    BY DEF RateBounded, Spaced
  <1>1. chatSentAt[c] \in Seq(Nat) /\ chatLog[c] \in Seq(Nat)
    BY DEF ChatInv, ChatTypeOK
  <1>2. Len(chatSentAt[c]) \in Nat /\ Len(chatLog[c]) \in Nat
    BY <1>1
  <1>3. DequeIsEnd(chatSentAt[c], chatLog[c], now) /\ Spaced(chatLog[c])
    BY DEF ChatInv
  <1>4. Popped(c) = Len(chatLog[c]) - Len(chatSentAt[c])
    BY DEF Popped
  <1>5. Popped(c) >= 0
    BY <1>2, <1>3, <1>4 DEF DequeIsEnd
  <1>6. \A j \in 1 .. Len(chatSentAt[c]) : chatSentAt[c][j] = chatLog[c][Popped(c) + j]
    BY <1>3, <1>4 DEF DequeIsEnd
  <1>7. \A i \in 1 .. Popped(c) : now - chatLog[c][i] >= Window
    BY <1>3, <1>4 DEF DequeIsEnd
  <1> QED
    BY <1>3, <1>5, <1>6, <1>7

\* No connection ever has more than MaxMessages lines accepted in one window,
\* and its deque holds exactly what still counts (_enforce_chat_rate_limit).
THEOREM RateAlwaysBounded == ChatSpec => []RateBounded
  BY ChatInvBounds, ChatInitInv, ChatNextKeepsInv, PTL DEF ChatSpec

-----------------------------------------------------------------------------
(* The controller *)

StopInProgress ==
    /\ gui \in {"joining", "joiningForced", "closing", "closingForced"} => current # NoRun
    /\ gui \in {"joiningForced", "closingForced"} => runs[current].forceExit

CurrentIsLast == current # NoRun => current = Len(runs)

ControllerInv == ControllerSound /\ StopInProgress /\ CurrentIsLast

\* One run of a sequence of runs is replaced.
LEMMA OneRunChanges ==
    ASSUME NEW old \in Seq(Run), NEW r \in DOMAIN old, NEW new \in Run
    PROVE  LET next == [old EXCEPT ![r] = new] IN
           /\ next \in Seq(Run) /\ Len(next) = Len(old) /\ DOMAIN next = DOMAIN old
           /\ next[r] = new
           /\ \A q \in DOMAIN old : q # r => next[q] = old[q]
  OBVIOUS

\* A new run is added at the end.
LEMMA OneRunMore ==
    ASSUME NEW old \in Seq(Run)
    PROVE  LET next == Append(old, NewRun) IN
           /\ next \in Seq(Run) /\ Len(next) = Len(old) + 1
           /\ Len(old) + 1 \in DOMAIN next
           /\ \A q \in DOMAIN old : q \in DOMAIN next /\ next[q] = old[q]
           /\ \A q \in DOMAIN next : q \in DOMAIN old \/ q = Len(old) + 1
           /\ ~NewRun.forceExit
  <1>1. NewRun \in Run /\ ~NewRun.forceExit
    BY DEF NewRun, Run
  <1> QED
    BY <1>1

\* A run that only moves on: it does not come back to life, and is not
\* let off an exit it was forced to.
MovesOn(before, after) ==
    /\ before.phase = "ended" => after.phase = "ended"
    /\ before.forceExit => after.forceExit

\* While the GUI thread is where it was, a thread that moves on and may leave
\* its failure keeps the invariant.
LEMMA ThreadKeepsInv ==
    ASSUME ControllerInv, NEW r \in RunIds, NEW new \in Run,
           Alive(r), MovesOn(runs[r], new),
           runs' = [runs EXCEPT ![r] = new],
           error' = r \/ error' = error,
           UNCHANGED <<current, state, gui, shown>>
    PROVE  ControllerInv'
  <1>1. runs \in Seq(Run) /\ r \in DOMAIN runs
    BY DEF ControllerInv, ControllerSound, ControllerTypeOK, RunIds
  <1>2. /\ runs' \in Seq(Run) /\ Len(runs') = Len(runs) /\ RunIds' = RunIds
        /\ runs'[r] = new /\ \A q \in RunIds : q # r => runs'[q] = runs[q]
    BY <1>1, OneRunChanges DEF RunIds
  <1>3. \A q \in RunIds : /\ Alive(q)' => Alive(q)
                          /\ runs[q].forceExit => runs'[q].forceExit
                          /\ GivenUp(q) => GivenUp(q)'
    BY <1>2 DEF Alive, MovesOn, GivenUp
  <1>4. ControllerTypeOK'
    BY <1>2 DEF ControllerInv, ControllerSound, ControllerTypeOK
  <1>5. (state = "STOPPED" /\ gui = "idle" => ~IsRunning)'
    BY <1>3 DEF ControllerInv, ControllerSound, ControllerTypeOK, IsRunning, NoRun
  <1>6. (\A q \in RunIds : Alive(q) /\ q # current => GivenUp(q))'
    BY <1>2, <1>3 DEF ControllerInv, ControllerSound
  <1>7. (error # NoRun => error = Len(runs) \/ GivenUp(error))'
    <2>1. CASE error' = r
      BY <1>2, <1>3, <2>1 DEF ControllerInv, ControllerSound, CurrentIsLast, NoRun
    <2>2. CASE error' = error
      BY <1>2, <1>3, <2>2 DEF ControllerInv, ControllerSound, ControllerTypeOK, NoRun
    <2> QED
      BY <2>1, <2>2
  <1>8. (StopInProgress /\ CurrentIsLast)'
    BY <1>2, <1>3 DEF ControllerInv, ControllerSound, ControllerTypeOK, StopInProgress,
       CurrentIsLast, NoRun
  <1> QED
    BY <1>4, <1>5, <1>6, <1>7, <1>8 DEF ControllerInv, ControllerSound

\* Every step of a server thread is such a step.
LEMMA ThreadStepKeepsInv == ControllerInv /\ ThreadStep => ControllerInv'
  <1> SUFFICES ASSUME ControllerInv, NEW r \in RunIds,
                      StartupEnds(r) \/ ServingEnds(r) \/ ServingFails(r) \/ ServeEnds(r)
               PROVE  ControllerInv'
    BY DEF ThreadStep
  <1>1. runs[r] \in Run
    BY DEF ControllerInv, ControllerSound, ControllerTypeOK, RunIds
  <1> DEFINE begun  == [runs[r] EXCEPT !.phase = "serving"]
             drains == [runs[r] EXCEPT !.phase = "draining"]
             fails  == [runs[r] EXCEPT !.phase = "draining", !.failed = TRUE]
             ended  == [runs[r] EXCEPT !.phase = "ended"]
             broken == [runs[r] EXCEPT !.phase = "ended", !.failed = TRUE]
  <1>2. \A new \in {begun, drains, fails, ended, broken} :
            new \in Run /\ (Alive(r) => MovesOn(runs[r], new))
    BY <1>1 DEF Run, MovesOn, Alive
  <1>3. PICK new \in {begun, drains, fails, ended, broken} :
            runs' = [runs EXCEPT ![r] = new]
    BY DEF StartupEnds, ServingEnds, ServingFails, ServeEnds
  <1> HIDE DEF begun, drains, fails, ended, broken
  <1>4. /\ Alive(r) /\ UNCHANGED <<current, state, gui, shown>>
        /\ error' = r \/ error' = error
    BY DEF StartupEnds, ServingEnds, ServingFails, ServeEnds, Alive
  <1> QED
    BY <1>2, <1>3, <1>4, ThreadKeepsInv

\* stop() sets a flag of the live server it waits for.
LEMMA FlagKeepsInv ==
    ASSUME ControllerInv, current # NoRun, NEW new \in Run, MovesOn(runs[current], new),
           runs' = [runs EXCEPT ![current] = new],
           \/ gui' \in {"joining", "closing"}
           \/ gui' \in {"joiningForced", "closingForced"} /\ new.forceExit,
           state' \in {"STOPPED", "STARTING", "RUNNING"},
           UNCHANGED <<current, error, shown>>
    PROVE  ControllerInv'
  <1>1. runs \in Seq(Run) /\ current \in DOMAIN runs
    BY DEF ControllerInv, ControllerSound, ControllerTypeOK, RunIds
  <1>2. /\ runs' \in Seq(Run) /\ Len(runs') = Len(runs) /\ RunIds' = RunIds
        /\ runs'[current] = new /\ \A q \in RunIds : q # current => runs'[q] = runs[q]
    BY <1>1, OneRunChanges DEF RunIds
  <1>3. ControllerTypeOK'
    BY <1>2 DEF ControllerInv, ControllerSound, ControllerTypeOK, GuiActivity
  <1>4. (\A q \in RunIds : Alive(q) /\ q # current => GivenUp(q))'
    BY <1>2 DEF ControllerInv, ControllerSound, Alive, GivenUp
  <1>5. (error # NoRun => error = Len(runs) \/ GivenUp(error))'
    BY <1>2 DEF ControllerInv, ControllerSound, ControllerTypeOK, GivenUp, NoRun
  <1>6. (StopInProgress /\ CurrentIsLast)'
    BY <1>2 DEF ControllerInv, StopInProgress, CurrentIsLast
  <1> QED
    BY <1>3, <1>4, <1>5, <1>6 DEF ControllerInv, ControllerSound

\* stop() forgets its thread: a dead one, or one it has forced to exit.
LEMMA ForgettingKeepsInv ==
    ASSUME ControllerInv, current # NoRun /\ Alive(current) => runs[current].forceExit,
           current' = NoRun, gui' \in {"idle", "closed"},
           state' \in {"STOPPED", "STARTING", "RUNNING"},
           UNCHANGED <<runs, error, shown>>
    PROVE  ControllerInv'
  <1>1. ControllerTypeOK' /\ RunIds' = RunIds
    BY DEF ControllerInv, ControllerSound, ControllerTypeOK, GuiActivity, RunIds
  <1>2. \A q \in RunIds : q \in Nat \ {0}
    BY DEF ControllerInv, ControllerSound, ControllerTypeOK, RunIds
  <1>3. (\A q \in RunIds : Alive(q) /\ q # current => GivenUp(q))'
    BY <1>1, <1>2 DEF ControllerInv, ControllerSound, Alive, GivenUp, NoRun
  <1>4. (error # NoRun => error = Len(runs) \/ GivenUp(error))'
    BY DEF ControllerInv, ControllerSound, GivenUp, NoRun
  <1>5. ~IsRunning' /\ StopInProgress' /\ CurrentIsLast'
    BY DEF IsRunning, StopInProgress, CurrentIsLast
  <1> QED
    BY <1>1, <1>3, <1>4, <1>5 DEF ControllerInv, ControllerSound

\* Start makes a run only where none is current.
LEMMA OnStartKeepsInv == ControllerInv /\ OnStart => ControllerInv'
  <1> SUFFICES ASSUME ControllerInv, OnStart PROVE ControllerInv'
    OBVIOUS
  <1>1. runs \in Seq(Run) /\ runs' = Append(runs, NewRun) /\ current' = Len(runs) + 1
    BY DEF OnStart, ControllerInv, ControllerSound, ControllerTypeOK
  <1>2. /\ runs' \in Seq(Run) /\ Len(runs') = Len(runs) + 1 /\ current' \in RunIds'
        /\ \A q \in RunIds : q \in RunIds' /\ runs'[q] = runs[q]
        /\ \A q \in RunIds' : q \in RunIds \/ q = current'
    BY <1>1, OneRunMore DEF RunIds
  <1>3. \A q \in RunIds : q # Len(runs) + 1
    BY <1>1 DEF RunIds
  <1>4. ControllerTypeOK'
    BY <1>2 DEF OnStart, ControllerInv, ControllerSound, ControllerTypeOK, GuiActivity
  <1>5. (\A q \in RunIds : Alive(q) /\ q # current => GivenUp(q))'
    <2> SUFFICES ASSUME NEW q \in RunIds, Alive(q) PROVE GivenUp(q)'
      BY <1>2 DEF Alive
    <2>1. q # NoRun
      BY <1>1 DEF RunIds, NoRun
    <2>2. q # current
      BY <2>1 DEF OnStart, IsRunning
    <2> QED
      BY <1>1, <1>2, <1>3, <2>2 DEF ControllerInv, ControllerSound, GivenUp
  <1>6. error' = NoRun /\ state' # "STOPPED" /\ gui' = "idle"
    BY DEF OnStart
  <1>7. StopInProgress' /\ CurrentIsLast'
    BY <1>1, <1>2, <1>6 DEF StopInProgress, CurrentIsLast
  <1> QED
    BY <1>4, <1>5, <1>6, <1>7 DEF ControllerInv, ControllerSound

\* stop(), pressed or called when the window is closed.
LEMMA StopKeepsInv == ControllerInv /\ (OnStop \/ OnClose) => ControllerInv'
  <1> SUFFICES ASSUME ControllerInv, OnStop \/ OnClose PROVE ControllerInv'
    OBVIOUS
  <1>1. state' \in {"STOPPED", "STARTING", "RUNNING"} /\ UNCHANGED <<error, shown>>
    BY DEF OnStop, OnClose, ControllerInv, ControllerSound, ControllerTypeOK
  <1>2. CASE IsRunning
    <2>1. AskExit /\ gui' \in {"joining", "closing"} /\ UNCHANGED current
      BY <1>2 DEF OnStop, OnClose
    <2>2. current # NoRun /\ runs[current] \in Run
      BY <1>2 DEF IsRunning, ControllerInv, ControllerSound, ControllerTypeOK, RunIds
    <2> DEFINE new == [runs[current] EXCEPT !.shouldExit = TRUE]
    <2>3. new \in Run /\ MovesOn(runs[current], new)
      BY <2>2 DEF Run, MovesOn
    <2>4. runs' = [runs EXCEPT ![current] = new]
      BY <2>1 DEF AskExit
    <2> HIDE DEF new
    <2> QED
      BY <1>1, <2>1, <2>2, <2>3, <2>4, FlagKeepsInv
  <1>3. CASE ~IsRunning
    <2>1. current' = NoRun /\ gui' \in {"idle", "closed"} /\ UNCHANGED runs
      BY <1>3 DEF OnStop, OnClose
    <2> QED
      BY <1>1, <1>3, <2>1, ForgettingKeepsInv DEF IsRunning
  <1> QED
    BY <1>2, <1>3

\* The joins of stop() return: with a dead thread, or at a time limit.
LEMMA StopStepKeepsInv == ControllerInv /\ StopStep => ControllerInv'
  <1> SUFFICES ASSUME ControllerInv, StopStep PROVE ControllerInv'
    OBVIOUS
  <1>1. CASE JoinTimesOut
    <2>1. current # NoRun /\ runs[current] \in Run
      BY <1>1 DEF JoinTimesOut, ControllerInv, ControllerSound, ControllerTypeOK,
         StopInProgress, RunIds
    <2> DEFINE new == [runs[current] EXCEPT !.forceExit = TRUE]
    <2>2. new \in Run /\ MovesOn(runs[current], new) /\ new.forceExit
      BY <2>1 DEF Run, MovesOn
    <2>3. runs' = [runs EXCEPT ![current] = new]
      BY <1>1 DEF JoinTimesOut
    <2> HIDE DEF new
    <2>4. /\ gui' \in {"joiningForced", "closingForced"} /\ UNCHANGED <<current, error, shown>>
          /\ state' \in {"STOPPED", "STARTING", "RUNNING"}
      BY <1>1 DEF JoinTimesOut, ControllerInv, ControllerSound, ControllerTypeOK
    <2> QED
      BY <2>1, <2>2, <2>3, <2>4, FlagKeepsInv
  <1>2. CASE JoinSucceeds \/ ForcedJoinTimesOut
    <2>1. StopReturns
      BY <1>2 DEF JoinSucceeds, ForcedJoinTimesOut
    <2>2. current # NoRun /\ Alive(current) => runs[current].forceExit
      BY <1>2 DEF JoinSucceeds, ForcedJoinTimesOut, ControllerInv, StopInProgress
    <2>3. /\ current' = NoRun /\ gui' \in {"idle", "closed"} /\ UNCHANGED <<runs, error, shown>>
          /\ state' \in {"STOPPED", "STARTING", "RUNNING"}
      BY <2>1 DEF StopReturns, ControllerInv, ControllerSound, ControllerTypeOK
    <2> QED
      BY <2>2, <2>3, ForgettingKeepsInv
  <1> QED
    BY <1>1, <1>2 DEF StopStep

\* A poll shows what the controller knows.
LEMMA PollStatusKeepsInv == ControllerInv /\ PollStatus => ControllerInv'
  <1> SUFFICES ASSUME ControllerInv, PollStatus PROVE ControllerInv'
    OBVIOUS
  <1>1. UNCHANGED <<runs, current, error, gui>> /\ state' = PolledState
    BY DEF PollStatus
  <1>2. shown' \subseteq RunIds /\ state' \in {"STOPPED", "STARTING", "RUNNING"}
    BY <1>1 DEF PollStatus, ShowsFailure, PolledState, ControllerInv, ControllerSound,
       ControllerTypeOK
  <1>3. RunIds' = RunIds /\ ControllerTypeOK'
    BY <1>1, <1>2 DEF RunIds, ControllerInv, ControllerSound, ControllerTypeOK
  <1>4. state' = "STOPPED" => ~IsRunning
    BY <1>1 DEF PolledState, IsServing, IsRunning
  <1> QED
    BY <1>1, <1>3, <1>4 DEF ControllerInv, ControllerSound, StopInProgress, CurrentIsLast,
       IsRunning, Alive, GivenUp

\* A new process has no run.
LEMMA ControllerInitInv == ControllerInit => ControllerInv
  BY DEF ControllerInit, ControllerInv, ControllerSound, ControllerTypeOK, RunIds,
     GuiActivity, IsRunning, StopInProgress, CurrentIsLast

\* Every step of the window and of the server threads keeps the invariant.
LEMMA ControllerNextKeepsInv ==
    ControllerInv /\ [ControllerNext]_controllerVars => ControllerInv'
  <1> SUFFICES ASSUME ControllerInv, [ControllerNext]_controllerVars PROVE ControllerInv'
    OBVIOUS
  <1>1. CASE OnStartFails
    BY <1>1 DEF OnStartFails, ControllerInv, ControllerSound, ControllerTypeOK, RunIds,
       StopInProgress, CurrentIsLast, IsRunning, Alive, GivenUp
  <1>2. CASE ProcessRestarts
    BY <1>2 DEF ProcessRestarts, ControllerInv, ControllerSound, ControllerTypeOK, RunIds,
       GuiActivity, IsRunning, StopInProgress, CurrentIsLast
  <1>3. CASE UNCHANGED controllerVars
    BY <1>3 DEF controllerVars, ControllerInv, ControllerSound, ControllerTypeOK, RunIds,
       StopInProgress, CurrentIsLast, IsRunning, Alive, GivenUp
  <1> QED
    BY <1>1, <1>2, <1>3, ThreadStepKeepsInv, OnStartKeepsInv, StopKeepsInv,
       StopStepKeepsInv, PollStatusKeepsInv DEF ControllerNext

\* Whatever the operator presses and however the server threads end, the
\* controller has no live server while Start can be pressed, forgets one only
\* after both time limits, and holds the last run's failure (gui/controller.py).
THEOREM ControllerAlwaysSound == ControllerSpec => []ControllerSound
  <1>1. ControllerInv => ControllerSound
    BY DEF ControllerInv
  <1> QED
    BY <1>1, ControllerInitInv, ControllerNextKeepsInv, PTL DEF ControllerSpec

-----------------------------------------------------------------------------
(* Accounts *)

\* The row is in the table, or the operator took it out.
Kept(a) == accounts[a.id] = a.row \/ a \in deleted

\* A request that inserted or read a row knows which; and what a finished
\* creation is about to tell its client is true already.
JobSound(c) ==
    job[c] # None =>
        /\ job[c].step \in {"created", "verifying", "verified"} => job[c].row \in Nat
        /\ job[c].step = "created" => Kept([id |-> job[c].id, row |-> job[c].row])

AccountsInv ==
    /\ SessionsTypeOK
    /\ \A a \in answered : Kept(a)
    /\ \A c \in Conns : JobSound(c)

\* What a step of the server is for accounts and sessions.
SessionStep ==
    \/ \E c \in Conns :
          \/ \E r \in RunIds \cap Nat : Connect(c, r)
          \/ ClientSends(c) \/ Vanish(c) \/ WorkerStep(c)
          \/ RequestAnswered(c) \/ Disconnect(c)
    \/ deleting \in Ids /\ DeleteRow(deleting)
    \/ SessionsLost
    \/ UNCHANGED sessionVars

\* An update of a function changes one value.
LEMMA OneChanges ==
    ASSUME NEW S, NEW T, NEW old \in [S -> T], NEW x \in S, NEW y \in T, NEW new,
           new = [old EXCEPT ![x] = y]
    PROVE  /\ new \in [S -> T] /\ new[x] = y
           /\ \A z \in S : z # x => new[z] = old[z]
  OBVIOUS

\* What a job carries has the types of a job.
LEMMA JobFields ==
    ASSUME SessionsTypeOK, NEW c \in Conns, job[c] # None
    PROVE  /\ job[c] \in Job /\ job[c].id \in Ids /\ job[c].row \in Nat \cup {None}
           /\ job[c] = [id |-> job[c].id, row |-> job[c].row, step |-> job[c].step]
  BY DEF SessionsTypeOK, Job

\* A request starts without a row; a worker's result is the request with
\* another step and perhaps a row.
LEMMA RequestFields ==
    ASSUME NEW id \in Ids, NEW step \in {"hashing", "selecting"}
    PROVE  /\ Request(id, step) \in Job
           /\ Request(id, step).step = step /\ Request(id, step).id = id
  BY DEF Request, Job

\* A worker that goes on with a row still has the same request.
LEMMA RowFields ==
    ASSUME NEW j \in Job, NEW step \in {"created", "verifying"}, NEW row \in Nat
    PROVE  LET new == [[j EXCEPT !.step = step] EXCEPT !.row = row]
           IN  new \in Job /\ new.id = j.id /\ new.row = row /\ new.step = step
  BY DEF Job

\* A handler that starts or finishes a request, or a worker that goes on with
\* it, says of no row but its own that it was created.
LEMMA OneJobChanges ==
    ASSUME AccountsInv, NEW c \in Conns, NEW new \in Job \cup {None},
           job' = [job EXCEPT ![c] = new],
           UNCHANGED <<accounts, deleted>>,
           new # None => /\ new.step = "created" => new = job[c]
                         /\ new.step \in {"verifying", "verified"} => new.row \in Nat
    PROVE  job' \in [Conns -> Job \cup {None}] /\ \A d \in Conns : JobSound(d)'
  <1>1. job \in [Conns -> Job \cup {None}]
    BY DEF AccountsInv, SessionsTypeOK
  <1>2. job' \in [Conns -> Job \cup {None}] /\ job'[c] = new
        /\ \A d \in Conns : d # c => job'[d] = job[d]
    BY <1>1
  <1>3. \A d \in Conns : JobSound(d)
    BY DEF AccountsInv
  <1> QED
    BY <1>2, <1>3 DEF JobSound, Kept

\* The primary key: an INSERT takes no other row's place.
LEMMA InsertKeepsAccounts ==
    ASSUME AccountsInv, NEW c \in Conns, job[c] # None, accounts[job[c].id] = None,
           Insert(c), UNCHANGED <<at, alive, user, inRoom, answered, deleted>>
    PROVE  AccountsInv'
  <1> DEFINE id == job[c].id
             made == [[job[c] EXCEPT !.step = "created"] EXCEPT !.row = rows + 1]
  <1>1. job[c] \in Job /\ id \in Ids /\ rows \in Nat /\ rows + 1 \in Nat
    BY JobFields DEF AccountsInv, SessionsTypeOK
  <1>2. made \in Job /\ made.id = id /\ made.row = rows + 1
    BY <1>1, RowFields
  <1>3. job' = [job EXCEPT ![c] = made] /\ rows' = rows + 1
    BY DEF AccountsInv, SessionsTypeOK, Insert
  <1> HIDE DEF id, made
  <1>4. /\ accounts \in [Ids -> Nat \cup {None}] /\ job \in [Conns -> Job \cup {None}]
        /\ accounts' = [accounts EXCEPT ![id] = rows + 1]
    BY DEF AccountsInv, SessionsTypeOK, Insert, id
  <1>5. /\ accounts' \in [Ids -> Nat \cup {None}] /\ accounts'[id] = rows + 1
        /\ \A i \in Ids : i # id => accounts'[i] = accounts[i]
        /\ job' \in [Conns -> Job \cup {None}] /\ job'[c] = made
        /\ \A d \in Conns : d # c => job'[d] = job[d]
    <2>1. rows' \in Nat /\ rows' = rows + 1
      BY <1>1, <1>3
    <2>2. /\ accounts' \in [Ids -> Nat \cup {None}] /\ accounts'[id] = rows + 1
          /\ \A i \in Ids : i # id => accounts'[i] = accounts[i]
      BY <1>1, <1>4
    <2>3. /\ job' \in [Conns -> Job \cup {None}] /\ job'[c] = made
          /\ \A d \in Conns : d # c => job'[d] = job[d]
      BY <1>2, <1>3, <1>4, OneChanges
    <2> QED
      BY <2>1, <2>2, <2>3
  <1>6. SessionsTypeOK'
    BY <1>1, <1>3, <1>5 DEF AccountsInv, SessionsTypeOK
  <1>7. ASSUME NEW a \in Account, Kept(a) PROVE Kept(a)'
    <2>1. a.id \in Ids /\ a.row \in Nat
      BY DEF Account
    <2>2. CASE a \in deleted
      BY <2>2 DEF Kept
    <2>3. CASE accounts[a.id] = a.row
      <3>1. a.id # id
        BY <2>1, <2>3, SessionsAssumption DEF id
      <3> QED
        BY <1>5, <2>1, <2>3, <3>1 DEF Kept
    <2> QED
      BY <1>7, <2>2, <2>3 DEF Kept
  <1>8. \A a \in answered' : Kept(a)'
    BY <1>7 DEF AccountsInv, SessionsTypeOK
  <1>9. ASSUME NEW d \in Conns PROVE JobSound(d)'
    <2>1. CASE d = c
      BY <1>1, <1>2, <1>5, <2>1 DEF JobSound, Kept
    <2>2. CASE d # c
      <3>0. job'[d] # None /\ job'[d].step \in {"verifying", "verified"}
              => job'[d].row \in Nat
        BY <1>5, <2>2 DEF AccountsInv, JobSound
      <3> SUFFICES ASSUME job'[d] # None, job'[d].step = "created"
                   PROVE  /\ job'[d].row \in Nat
                          /\ \/ accounts'[job'[d].id] = job'[d].row
                             \/ [id |-> job'[d].id, row |-> job'[d].row] \in deleted'
        BY <3>0 DEF JobSound, Kept
      <3>1. job'[d] = job[d]
        BY <1>5, <2>2
      <3>2. job[d].row \in Nat /\ Kept([id |-> job[d].id, row |-> job[d].row])
        BY <3>1 DEF AccountsInv, JobSound
      <3>3. PICK a \in Account : a = [id |-> job[d].id, row |-> job[d].row]
        BY <3>1, <3>2, JobFields DEF Account, AccountsInv
      <3>4. Kept(a)'
        BY <1>7, <3>2, <3>3
      <3> QED
        <4>1. /\ a.id = job'[d].id /\ a.row = job'[d].row
              /\ a = [id |-> job'[d].id, row |-> job'[d].row]
          BY <3>1, <3>3
        <4>2. accounts'[a.id] = a.row \/ a \in deleted'
          BY <3>4 DEF Kept
        <4> QED
          BY <3>1, <3>2, <4>1, <4>2
    <2> QED
      BY <2>1, <2>2
  <1> QED
    BY <1>6, <1>8, <1>9 DEF AccountsInv

\* Every step of a session keeps the accounts that were answered.
LEMMA SessionStepKeepsAccounts == AccountsInv /\ SessionStep => AccountsInv'
  <1> SUFFICES ASSUME AccountsInv, SessionStep PROVE AccountsInv'
    OBVIOUS
  <1>1. /\ accounts \in [Ids -> Nat \cup {None}] /\ rows \in Nat
        /\ at \in [Conns -> Nat \cup {None}] /\ alive \subseteq Conns
        /\ user \in [Conns -> Account \cup {None}] /\ inRoom \subseteq Conns
        /\ answered \subseteq Account /\ deleted \subseteq Account
        /\ job \in [Conns -> Job \cup {None}]
    BY DEF AccountsInv, SessionsTypeOK
  <1>2. /\ \A a \in answered : Kept(a)
        /\ \A c \in Conns : JobSound(c)
    BY DEF AccountsInv
  <1>3. ASSUME UNCHANGED <<accounts, rows, job, answered, deleted>>,
               at' \in [Conns -> Nat \cup {None}], alive' \subseteq Conns,
               user' \in [Conns -> Account \cup {None}], inRoom' \subseteq Conns
        PROVE  AccountsInv'
    BY <1>1, <1>2, <1>3 DEF AccountsInv, SessionsTypeOK, Kept, JobSound
  <1>4. ASSUME UNCHANGED <<accounts, rows, at, alive, user, inRoom, answered, deleted>>,
               NEW c \in Conns, NEW new \in Job \cup {None},
               job' = [job EXCEPT ![c] = new],
               new # None => /\ new.step = "created" => new = job[c]
                             /\ new.step \in {"verifying", "verified"} => new.row \in Nat
        PROVE  AccountsInv'
    <2>1. job' \in [Conns -> Job \cup {None}] /\ \A d \in Conns : JobSound(d)'
      BY <1>4, OneJobChanges
    <2> QED
      BY <1>1, <1>2, <1>4, <2>1 DEF AccountsInv, SessionsTypeOK, Kept
  <1>5. ASSUME NEW c \in Conns, NEW r \in RunIds \cap Nat, Connect(c, r) PROVE AccountsInv'
    BY <1>1, <1>3, <1>5 DEF Connect
  <1>6. ASSUME NEW c \in Conns, ClientSends(c) PROVE AccountsInv'
    <2>1. ASSUME NEW id \in Ids, HandleCreateAccount(c, id) \/ HandleLogin(c, id)
          PROVE  AccountsInv'
      <3>1. PICK step \in {"hashing", "selecting"} : job' = [job EXCEPT ![c] = Request(id, step)]
        BY <2>1 DEF HandleCreateAccount, HandleLogin
      <3>2. Request(id, step) \in Job /\ Request(id, step).step = step
        BY RequestFields
      <3> QED
        BY <1>4, <2>1, <3>1, <3>2 DEF HandleCreateAccount, HandleLogin
    <2>2. ASSUME EnterRoom(c) \/ LeaveRoom(c) PROVE AccountsInv'
      BY <1>1, <1>3, <2>2 DEF EnterRoom, LeaveRoom
    <2> QED
      BY <1>6, <2>1, <2>2 DEF ClientSends
  <1>7. ASSUME NEW c \in Conns, Vanish(c) PROVE AccountsInv'
    BY <1>1, <1>3, <1>7 DEF Vanish
  <1>8. ASSUME NEW c \in Conns, WorkerStep(c) PROVE AccountsInv'
    <2>1. job[c] \in Job /\ job[c].id \in Ids /\ job[c] # None
      BY <1>8, JobFields DEF AccountsInv, WorkerStep, WorkerCreates, WorkerSelects, WorkerVerifies
    <2>2. ASSUME NEW step \in {"refused", "verified"}, step = "verified" => job[c].row \in Nat,
                 job' = [job EXCEPT ![c].step = step],
                 UNCHANGED <<accounts, rows, at, alive, user, inRoom, answered, deleted>>
          PROVE  AccountsInv'
      <3> DEFINE new == [job[c] EXCEPT !.step = step]
      <3>1. new \in Job /\ new.step = step /\ new.row = job[c].row
        BY <2>1 DEF Job
      <3>2. job' = [job EXCEPT ![c] = new]
        BY <2>2
      <3> HIDE DEF new
      <3> QED
        BY <1>4, <2>2, <3>1, <3>2
    <2>3. CASE WorkerCreates(c)
      <3>1. CASE Insert(c) /\ accounts[job[c].id] = None
        BY <2>1, <2>3, <3>1, InsertKeepsAccounts DEF WorkerCreates
      <3>2. CASE /\ job' = [job EXCEPT ![c].step = "refused"]
                 /\ UNCHANGED <<accounts, rows>>
        BY <2>2, <2>3, <3>2 DEF WorkerCreates
      <3> QED
        BY <2>3, <3>1, <3>2 DEF WorkerCreates, Insert
    <2>4. CASE WorkerSelects(c)
      <3>1. CASE accounts[job[c].id] = None
        BY <2>2, <2>4, <3>1 DEF WorkerSelects
      <3>2. CASE accounts[job[c].id] # None
        <4> DEFINE row == accounts[job[c].id]
                   new == [[job[c] EXCEPT !.step = "verifying"] EXCEPT !.row = row]
        <4>1. row \in Nat
          BY <1>1, <2>1, <3>2
        <4>2. job' = [job EXCEPT ![c] = new]
          BY <2>4, <3>2 DEF WorkerSelects
        <4> HIDE DEF row
        <4>3. new \in Job /\ new.step = "verifying" /\ new.row = row
          BY <2>1, <4>1, RowFields
        <4> HIDE DEF new
        <4> QED
          BY <1>4, <2>4, <4>1, <4>2, <4>3 DEF WorkerSelects
      <3> QED
        BY <3>1, <3>2
    <2>5. CASE WorkerVerifies(c)
      <3>1. job[c].row \in Nat
        BY <1>2, <2>1, <2>5 DEF WorkerVerifies, JobSound
      <3> QED
        BY <2>2, <2>5, <3>1 DEF WorkerVerifies
    <2> QED
      BY <1>8, <2>3, <2>4, <2>5 DEF WorkerStep
  <1>9. ASSUME NEW c \in Conns, RequestAnswered(c) PROVE AccountsInv'
    <2>1. UNCHANGED <<accounts, rows, at, alive, inRoom, deleted>> /\ job[c] # None
      BY <1>9 DEF RequestAnswered, WorkerDone
    <2>2. job[c] \in Job /\ job[c].id \in Ids /\ job[c].row \in Nat \cup {None}
      BY <2>1, JobFields DEF AccountsInv
    <2>3. job' \in [Conns -> Job \cup {None}] /\ \A d \in Conns : JobSound(d)'
      <3>1. job' = [job EXCEPT ![c] = None]
        BY <1>9 DEF RequestAnswered
      <3> QED
        BY <2>1, <3>1, OneJobChanges
    <2>4. user' \in [Conns -> Account \cup {None}]
      <3>1. CASE job[c].step = "verified"
        <4>1. job[c].row \in Nat
          BY <1>2, <2>1, <3>1 DEF JobSound
        <4>2. [id |-> job[c].id, row |-> job[c].row] \in Account
          BY <2>2, <4>1 DEF Account
        <4> QED
          BY <1>1, <1>9, <3>1, <4>2 DEF RequestAnswered
      <3> QED
        BY <1>1, <1>9, <3>1 DEF RequestAnswered
    <2>5. answered' \subseteq Account /\ \A a \in answered' : Kept(a)
      <3>1. CASE job[c].step = "created"
        <4>1. /\ job[c].row \in Nat
              /\ Kept([id |-> job[c].id, row |-> job[c].row])
          BY <1>2, <2>1, <3>1 DEF JobSound
        <4>2. [id |-> job[c].id, row |-> job[c].row] \in Account
          BY <2>2, <4>1 DEF Account
        <4> QED
          BY <1>1, <1>2, <1>9, <4>1, <4>2 DEF RequestAnswered
      <3> QED
        BY <1>1, <1>2, <1>9, <3>1 DEF RequestAnswered
    <2>6. SessionsTypeOK'
      BY <1>1, <2>1, <2>3, <2>4, <2>5 DEF SessionsTypeOK
    <2> QED
      BY <2>1, <2>3, <2>5, <2>6 DEF AccountsInv, Kept
  <1>10. ASSUME NEW c \in Conns, Disconnect(c) PROVE AccountsInv'
    <2>1. UNCHANGED <<accounts, rows, alive, answered, deleted>>
      BY <1>10 DEF Disconnect
    <2>2. job' \in [Conns -> Job \cup {None}] /\ \A d \in Conns : JobSound(d)'
      <3>1. job' = [job EXCEPT ![c] = None]
        BY <1>10 DEF Disconnect
      <3> QED
        BY <2>1, <3>1, OneJobChanges
    <2>3. SessionsTypeOK'
      BY <1>1, <1>10, <2>1, <2>2 DEF Disconnect, SessionsTypeOK
    <2> QED
      BY <1>2, <2>1, <2>2, <2>3 DEF AccountsInv, Kept
  <1>11. ASSUME NEW id \in Ids, DeleteRow(id) PROVE AccountsInv'
    <2>1. UNCHANGED <<rows, at, alive, user, job, inRoom, answered>>
      BY <1>11 DEF DeleteRow
    <2>2. accounts' \in [Ids -> Nat \cup {None}] /\ \A i \in Ids : i # id => accounts'[i] = accounts[i]
      BY <1>1, <1>11 DEF DeleteRow
    <2>3. deleted' \subseteq Account /\ deleted \subseteq deleted'
      BY <1>1, <1>11 DEF DeleteRow, Account
    <2>4. ASSUME NEW a \in Account, Kept(a) PROVE Kept(a)'
      <3>1. a.id \in Ids /\ a.row \in Nat /\ a = [id |-> a.id, row |-> a.row]
        BY DEF Account
      <3>2. CASE a.id = id /\ accounts[a.id] = a.row
        <4>1. accounts[id] # None
          BY <3>1, <3>2, SessionsAssumption
        <4>2. a \in deleted'
          BY <1>11, <3>1, <3>2, <4>1 DEF DeleteRow
        <4> QED
          BY <4>2 DEF Kept
      <3> QED
        BY <2>2, <2>3, <2>4, <3>1, <3>2 DEF Kept
    <2>5. ASSUME NEW d \in Conns PROVE JobSound(d)'
      <3>1. JobSound(d)
        BY <1>2
      <3>2. ASSUME job[d] # None, job[d].step = "created"
            PROVE  Kept([id |-> job[d].id, row |-> job[d].row])'
        <4>1. PICK a \in Account : a = [id |-> job[d].id, row |-> job[d].row]
          BY <3>1, <3>2, JobFields DEF JobSound, Account, AccountsInv
        <4>2. Kept(a)'
          BY <2>4, <3>1, <3>2, <4>1 DEF JobSound
        <4> QED
          BY <2>1, <4>1, <4>2 DEF Kept
      <3> QED
        BY <2>1, <3>1, <3>2 DEF JobSound
    <2>6. \A a \in answered' : Kept(a)'
      BY <1>1, <1>2, <2>1, <2>4
    <2>7. SessionsTypeOK'
      BY <1>1, <2>1, <2>2, <2>3 DEF SessionsTypeOK
    <2> QED
      BY <2>5, <2>6, <2>7 DEF AccountsInv
  <1>12. ASSUME SessionsLost PROVE AccountsInv'
    <2>1. /\ UNCHANGED <<accounts, rows, answered, deleted>>
          /\ \A c \in Conns : job'[c] = None
      BY <1>12 DEF SessionsLost
    <2>2. SessionsTypeOK'
      BY <1>1, <1>12 DEF SessionsLost, SessionsTypeOK
    <2> QED
      BY <1>2, <2>1, <2>2 DEF AccountsInv, Kept, JobSound
  <1>13. CASE UNCHANGED sessionVars
    BY <1>1, <1>3, <1>13 DEF sessionVars
  <1> QED
    BY <1>5, <1>6, <1>7, <1>8, <1>9, <1>10, <1>11, <1>12, <1>13 DEF SessionStep

-----------------------------------------------------------------------------
(* The process *)

\* The window deletes one account at a time, while it shows a server.
DeletionInv ==
    /\ deleting \in Ids \cup {None}
    /\ deleting # None <=> gui = "deleting"
    /\ gui = "deleting" => state # "STOPPED"

\* A connection is served by a run of this process, and without an endpoint it
\* has neither account nor request.
Placed(c) ==
    /\ at[c] \in RunIds \cup {None}
    /\ at[c] = None => user[c] = None /\ job[c] = None

\* The row is in the table and nobody is about to delete it; or it was read
\* while somebody was.
Safe(c, id, row) == c \in exposed \/ (accounts[id] = row /\ deleting # id)

LoginSafe(c) == LoginInFlight(job[c]) => Safe(c, job[c].id, job[c].row)

UserSafe(c) == user[c] # None /\ at[c] = current => Safe(c, user[c].id, user[c].row)

RaceInv == \A c \in Conns : Placed(c) /\ LoginSafe(c) /\ UserSafe(c)

ServerInv == ChatInv /\ ControllerInv /\ AccountsInv /\ DeletionInv /\ RaceInv

\* Runs are named by numbers.
LEMMA RunIdsAreNumbers ==
    ControllerInv => RunIds \subseteq Nat /\ NoRun \notin RunIds /\ current \in Nat
  BY DEF ControllerInv, ControllerSound, ControllerTypeOK, RunIds, NoRun

\* Every step is a step of the chat, and one of the accounts and sessions.
LEMMA ServerStepParts ==
    ASSUME ServerInv, [ServerNext]_serverVars
    PROVE  [ChatNext]_chatVars /\ SessionStep
  <1>1. RunIds \subseteq Nat
    BY RunIdsAreNumbers DEF ServerInv
  <1>2. CASE UNCHANGED serverVars
    BY <1>2 DEF serverVars, SessionStep
  <1>3. ASSUME NEW c \in Conns,
               ByClient(c) \/ ByChatter(c) \/ ByWorker(c) \/ ByEndpoint(c) \/ ByDraining(c)
        PROVE  [ChatNext]_chatVars /\ SessionStep
    <2>1. CASE ByClient(c)
      BY <1>1, <2>1 DEF ByClient, ClientConnects, ChatNext, SessionStep
    <2>2. CASE ByChatter(c)
      BY <2>2 DEF ByChatter, HandleChat, ChatNext, SessionStep
    <2>3. CASE ByWorker(c) \/ ByEndpoint(c) \/ ByDraining(c)
      BY <2>3 DEF ByWorker, ByEndpoint, ByDraining, ServerCloses, SessionStep
    <2> QED
      BY <1>3, <2>1, <2>2, <2>3
  <1>4. ASSUME NEW r \in RunIds, ByServer(r) \/ ByFault(r)
        PROVE  [ChatNext]_chatVars /\ SessionStep
    BY <1>4 DEF ByServer, ByFault, SessionStep
  <1>5. CASE ByOperator
    BY <1>5 DEF ByOperator, SessionStep
  <1>6. CASE ByGui
    <2>1. ASSUME DeleteRuns PROVE deleting \in Ids
      BY <2>1 DEF DeleteRuns, ServerInv, DeletionInv
    <2> QED
      BY <1>6, <2>1 DEF ByGui, DeleteRuns, SessionStep
  <1>7. CASE ByClock
    BY <1>7 DEF ByClock, ChatNext, SessionStep
  <1> QED
    BY <1>2, <1>3, <1>4, <1>5, <1>6, <1>7 DEF ServerNext

\* Every step is a step of the controller, or the window goes to delete an
\* account and comes back.
LEMMA ControlsOrDeletes ==
    ASSUME [ServerNext]_serverVars
    PROVE  \/ [ControllerNext]_controllerVars \/ DeleteRuns
           \/ \E id \in Ids : DeleteChecks(id)
  <1>1. ASSUME NEW c \in Conns,
               ByClient(c) \/ ByChatter(c) \/ ByWorker(c) \/ ByEndpoint(c) \/ ByDraining(c)
        PROVE  UNCHANGED controllerVars
    BY <1>1 DEF ByClient, ByChatter, ByWorker, ByEndpoint, ByDraining
  <1>2. ASSUME NEW r \in RunIds, ByServer(r) \/ ByFault(r) PROVE ControllerNext
    BY <1>2 DEF ByServer, ServerThread, ByFault, ThreadStep, ControllerNext
  <1>3. ASSUME ByOperator
        PROVE  ControllerNext \/ \E id \in Ids : DeleteChecks(id)
    BY <1>3 DEF ByOperator, ControllerNext
  <1>4. ASSUME ByGui PROVE ControllerNext \/ DeleteRuns
    BY <1>4 DEF ByGui, ControllerNext
  <1>5. ASSUME ByClock \/ UNCHANGED serverVars PROVE UNCHANGED controllerVars
    BY <1>5 DEF ByClock, serverVars
  <1> QED
    BY <1>1, <1>2, <1>3, <1>4, <1>5 DEF ServerNext

\* Deletions leave the runs alone, and happen only while a server is shown.
LEMMA ServerStepController ==
    ASSUME ServerInv, [ServerNext]_serverVars
    PROVE  ControllerInv'
  <1>1. ASSUME UNCHANGED <<runs, current, error, state, shown>>,
               gui' \in {"idle", "deleting"}, gui' = "idle" => state # "STOPPED"
        PROVE  ControllerInv'
    BY <1>1 DEF ServerInv, ControllerInv, ControllerSound, ControllerTypeOK, RunIds,
       GuiActivity, IsRunning, Alive, GivenUp, StopInProgress, CurrentIsLast
  <1>2. CASE \E id \in Ids : DeleteChecks(id)
    BY <1>1, <1>2 DEF DeleteChecks
  <1>3. CASE DeleteRuns
    BY <1>1, <1>3 DEF DeleteRuns, ServerInv, DeletionInv
  <1>4. CASE [ControllerNext]_controllerVars
    BY <1>4, ControllerNextKeepsInv DEF ServerInv
  <1> QED
    BY <1>2, <1>3, <1>4, ControlsOrDeletes

\* While the window deletes, no controller step moves it.
LEMMA ServerStepDeletion ==
    ASSUME ServerInv, [ServerNext]_serverVars
    PROVE  DeletionInv'
  <1>1. DeletionInv
    BY DEF ServerInv
  <1>2. ASSUME UNCHANGED <<deleting, gui, state>> PROVE DeletionInv'
    BY <1>1, <1>2 DEF DeletionInv
  <1>3. ASSUME UNCHANGED deleting, gui # "deleting", gui' # "deleting" PROVE DeletionInv'
    BY <1>1, <1>3 DEF DeletionInv
  <1>4. ASSUME NEW c \in Conns,
               ByClient(c) \/ ByChatter(c) \/ ByWorker(c) \/ ByEndpoint(c) \/ ByDraining(c)
        PROVE  DeletionInv'
    BY <1>2, <1>4 DEF ByClient, ByChatter, ByWorker, ByEndpoint, ByDraining, controllerVars
  <1>5. ASSUME NEW r \in RunIds, ByServer(r) \/ ByFault(r) PROVE DeletionInv'
    BY <1>2, <1>5 DEF ByServer, ByFault, ServerThread, StartupEnds, ServingEnds, ServingFails,
       ServeEnds
  <1>6. CASE ByOperator
    <2>1. CASE (OnStart \/ OnStartFails \/ OnStop \/ OnClose) /\ UNCHANGED deleting
      BY <1>3, <2>1 DEF OnStart, OnStartFails, OnStop, OnClose
    <2>2. ASSUME NEW id \in Ids, DeleteChecks(id) PROVE DeletionInv'
      <3>1. state # "STOPPED"
        BY <2>2 DEF DeleteChecks, ServerInv, ControllerInv, ControllerSound, IsServing,
           IsRunning, Alive
      <3> QED
        BY <2>2, <3>1, SessionsAssumption DEF DeleteChecks, DeletionInv
    <2>3. CASE ProcessRestarts /\ deleting' = None
      BY <2>3 DEF ProcessRestarts, DeletionInv
    <2> QED
      BY <1>6, <2>1, <2>2, <2>3 DEF ByOperator
  <1>7. CASE ByGui
    <2>1. CASE (StopStep \/ PollStatus) /\ UNCHANGED deleting
      BY <1>3, <2>1 DEF StopStep, JoinSucceeds, JoinTimesOut, ForcedJoinTimesOut, StopReturns,
         PollStatus
    <2>2. CASE DeleteRuns
      BY <2>2 DEF DeleteRuns, DeletionInv
    <2> QED
      BY <1>7, <2>1, <2>2 DEF ByGui
  <1>8. CASE ByClock \/ UNCHANGED serverVars
    BY <1>2, <1>8 DEF ByClock, serverVars, controllerVars
  <1> QED
    BY <1>4, <1>5, <1>6, <1>7, <1>8 DEF ServerNext

\* A connection stays exposed as long as it has its endpoint, and is exposed
\* whenever its login and a deletion of its id are under way at once.
LEMMA ExposedStays ==
    ASSUME TrackExposed, NEW c \in Conns
    PROVE  /\ c \in exposed /\ at'[c] # None => c \in exposed'
           /\ LoginInFlight(job'[c]) /\ deleting' = job'[c].id => c \in exposed'
  BY DEF TrackExposed

\* An account that somebody may be logged in to changes by its deletion only.
RowsStay == \A id \in Ids : accounts[id] # None => accounts'[id] = accounts[id]

\* A row that is there, or whose login is known to race a deletion, stays so.
LEMMA SafeStays ==
    ASSUME TrackExposed, RowsStay, deleting' = deleting, NEW c \in Conns, at'[c] # None,
           NEW id \in Ids, NEW row \in Nat, Safe(c, id, row)
    PROVE  Safe(c, id, row)'
  <1>1. CASE c \in exposed
    BY <1>1, ExposedStays DEF Safe
  <1>2. CASE accounts[id] = row /\ deleting # id
    BY <1>2, SessionsAssumption DEF Safe, RowsStay
  <1> QED
    BY <1>1, <1>2 DEF Safe

\* A session or a login knows a row.
LEMMA RowsKnown ==
    ASSUME AccountsInv, NEW c \in Conns
    PROVE  /\ user[c] # None => user[c].id \in Ids /\ user[c].row \in Nat
           /\ LoginInFlight(job[c]) => job[c].id \in Ids /\ job[c].row \in Nat
  <1>1. user[c] # None => user[c] \in Account
    BY DEF AccountsInv, SessionsTypeOK
  <1>2. JobSound(c) /\ SessionsTypeOK
    BY DEF AccountsInv
  <1> QED
    BY <1>1, <1>2, JobFields DEF Account, JobSound, LoginInFlight

\* A step that leaves a connection alone leaves it safe.
LEMMA QuietKeepsRace ==
    ASSUME ServerInv, TrackExposed, NEW c \in Conns,
           at'[c] = at[c], user'[c] = user[c], job'[c] = job[c],
           RunIds \subseteq RunIds', RowsStay, deleting' = deleting,
           current' = current \/ current' # at[c]
    PROVE  (Placed(c) /\ LoginSafe(c) /\ UserSafe(c))'
  <1>1. Placed(c) /\ LoginSafe(c) /\ UserSafe(c)
    BY DEF ServerInv, RaceInv
  <1>2. /\ user[c] # None => user[c].id \in Ids /\ user[c].row \in Nat
        /\ LoginInFlight(job[c]) => job[c].id \in Ids /\ job[c].row \in Nat
    BY RowsKnown DEF ServerInv
  <1>3. \A id \in Ids, row \in Nat : Safe(c, id, row) /\ at[c] # None => Safe(c, id, row)'
    BY SafeStays
  <1>4. Placed(c)'
    BY <1>1 DEF Placed
  <1>5. LoginSafe(c)'
    BY <1>1, <1>2, <1>3 DEF LoginSafe, Placed, LoginInFlight, Safe
  <1>6. UserSafe(c)'
    BY <1>1, <1>2, <1>3 DEF UserSafe, Placed, Safe
  <1> QED
    BY <1>4, <1>5, <1>6

\* What one connection, its handler or its worker does.
StepOf(c) == ByClient(c) \/ ByWorker(c) \/ ByEndpoint(c) \/ ByDraining(c)

\* A step of one connection leaves the others as they are.
LEMMA StepOfOne ==
    ASSUME ServerInv, NEW c \in Conns, StepOf(c)
    PROVE  /\ TrackExposed /\ UNCHANGED controllerVars /\ deleting' = deleting /\ RowsStay
           /\ \A d \in Conns : d # c => at'[d] = at[d] /\ user'[d] = user[d] /\ job'[d] = job[d]
  <1>1. TrackExposed /\ UNCHANGED controllerVars /\ deleting' = deleting
    BY DEF StepOf, ByClient, ByWorker, ByEndpoint, ByDraining
  <1>2. /\ accounts \in [Ids -> Nat \cup {None}] /\ at \in [Conns -> Nat \cup {None}]
        /\ user \in [Conns -> Account \cup {None}] /\ job \in [Conns -> Job \cup {None}]
    BY DEF ServerInv, AccountsInv, SessionsTypeOK
  <1>3. \/ \E r : Connect(c, r)
        \/ ClientSends(c) \/ Vanish(c) \/ WorkerStep(c) \/ RequestAnswered(c) \/ Disconnect(c)
    BY DEF StepOf, ByClient, ClientConnects, ByWorker, ByEndpoint, ByDraining, ServerCloses
  <1>4. RowsStay
    <2>1. CASE WorkerCreates(c)
      BY <1>2, <2>1 DEF WorkerCreates, Insert, RowsStay
    <2> QED
      BY <1>3, <2>1 DEF Connect, ClientSends, HandleCreateAccount, HandleLogin, EnterRoom,
         LeaveRoom, Vanish, WorkerStep, WorkerSelects, WorkerVerifies, RequestAnswered,
         Disconnect, RowsStay
  <1>5. \A d \in Conns : d # c => at'[d] = at[d]
    BY <1>2, <1>3 DEF Connect, ClientSends, HandleCreateAccount, HandleLogin, EnterRoom,
       LeaveRoom, Vanish, WorkerStep, WorkerCreates, WorkerSelects, WorkerVerifies,
       RequestAnswered, Disconnect
  <1>6. \A d \in Conns : d # c => user'[d] = user[d]
    BY <1>2, <1>3 DEF Connect, ClientSends, HandleCreateAccount, HandleLogin, EnterRoom,
       LeaveRoom, Vanish, WorkerStep, WorkerCreates, WorkerSelects, WorkerVerifies,
       RequestAnswered, Disconnect
  <1>7. \A d \in Conns : d # c => job'[d] = job[d]
    BY <1>2, <1>3 DEF Connect, ClientSends, HandleCreateAccount, HandleLogin, EnterRoom,
       LeaveRoom, Vanish, WorkerStep, WorkerCreates, Insert, WorkerSelects, WorkerVerifies,
       RequestAnswered, Disconnect
  <1> QED
    BY <1>1, <1>4, <1>5, <1>6, <1>7

\* The connection that acts: a login is safe from its SELECT on, and its answer
\* hands that on to the session.
LEMMA ActorKeepsRace ==
    ASSUME ServerInv, NEW c \in Conns, StepOf(c)
    PROVE  (Placed(c) /\ LoginSafe(c) /\ UserSafe(c))'
  <1>1. /\ TrackExposed /\ deleting' = deleting /\ RowsStay
        /\ current' = current /\ RunIds' = RunIds
    BY StepOfOne DEF controllerVars, RunIds
  <1>2. Placed(c) /\ LoginSafe(c) /\ UserSafe(c)
    BY DEF ServerInv, RaceInv
  <1>3. /\ accounts \in [Ids -> Nat \cup {None}] /\ at \in [Conns -> Nat \cup {None}]
        /\ user \in [Conns -> Account \cup {None}] /\ job \in [Conns -> Job \cup {None}]
        /\ RunIds \subseteq Nat /\ current \in Nat /\ None \notin Nat
    BY RunIdsAreNumbers, SessionsAssumption DEF ServerInv, AccountsInv, SessionsTypeOK
  <1>4. ASSUME at'[c] = at[c], user'[c] = user[c], job'[c] = job[c]
        PROVE  (Placed(c) /\ LoginSafe(c) /\ UserSafe(c))'
    BY <1>1, <1>4, QuietKeepsRace
  <1>5. ~LoginInFlight(None)
    BY DEF LoginInFlight
  <1>6. ASSUME at'[c] = None, user'[c] = None, job'[c] = None
        PROVE  (Placed(c) /\ LoginSafe(c) /\ UserSafe(c))'
    BY <1>5, <1>6 DEF Placed, LoginSafe, UserSafe
  <1>7. ASSUME NEW r \in RunIds, Connect(c, r)
        PROVE  (Placed(c) /\ LoginSafe(c) /\ UserSafe(c))'
    <2>1. at'[c] = r /\ user'[c] = None /\ job'[c] = None
      BY <1>2, <1>3, <1>7 DEF Connect, Placed
    <2> QED
      BY <1>1, <1>3, <1>5, <2>1 DEF Placed, LoginSafe, UserSafe
  <1>8. \A id \in Ids, row \in Nat : Safe(c, id, row) /\ at'[c] # None => Safe(c, id, row)'
    BY <1>1, SafeStays
  <1>9. /\ user[c] # None => user[c].id \in Ids /\ user[c].row \in Nat
        /\ LoginInFlight(job[c]) => job[c].id \in Ids /\ job[c].row \in Nat
    BY RowsKnown DEF ServerInv
  \* The session stays, and the request goes on.
  <1>10. ASSUME at'[c] = at[c], user'[c] = user[c], at[c] # None, LoginSafe(c)'
         PROVE  (Placed(c) /\ LoginSafe(c) /\ UserSafe(c))'
    <2>1. UserSafe(c)'
      BY <1>1, <1>2, <1>8, <1>9, <1>10 DEF UserSafe, Safe
    <2> QED
      BY <1>1, <1>2, <1>10, <2>1 DEF Placed
  <1>11. ASSUME ClientSends(c) PROVE (Placed(c) /\ LoginSafe(c) /\ UserSafe(c))'
    <2>1. ASSUME NEW id \in Ids, HandleCreateAccount(c, id) \/ HandleLogin(c, id)
          PROVE  (Placed(c) /\ LoginSafe(c) /\ UserSafe(c))'
      <3>1. PICK step \in {"hashing", "selecting"} : job' = [job EXCEPT ![c] = Request(id, step)]
        BY <2>1 DEF HandleCreateAccount, HandleLogin
      <3>2. job'[c].step = step
        BY <1>3, <3>1, RequestFields
      <3>3. LoginSafe(c)'
        BY <3>2 DEF LoginSafe, LoginInFlight
      <3> QED
        BY <1>10, <2>1, <3>3 DEF HandleCreateAccount, HandleLogin, Listening
    <2>2. ASSUME EnterRoom(c) \/ LeaveRoom(c) PROVE (Placed(c) /\ LoginSafe(c) /\ UserSafe(c))'
      BY <1>4, <2>2 DEF EnterRoom, LeaveRoom
    <2> QED
      BY <1>11, <2>1, <2>2 DEF ClientSends
  <1>12. ASSUME Vanish(c) PROVE (Placed(c) /\ LoginSafe(c) /\ UserSafe(c))'
    BY <1>4, <1>12 DEF Vanish
  <1>13. ASSUME WorkerStep(c) PROVE (Placed(c) /\ LoginSafe(c) /\ UserSafe(c))'
    <2>1. /\ job[c] # None /\ job[c] \in Job /\ job[c].id \in Ids
          /\ UNCHANGED <<at, user>> /\ at[c] # None
      BY <1>2, <1>13, JobFields DEF WorkerStep, WorkerCreates, WorkerSelects, WorkerVerifies,
         Placed, ServerInv, AccountsInv
    <2>2. ASSUME NEW step \in {"created", "refused"}, job'[c].step = step
          PROVE  LoginSafe(c)'
      BY <2>2 DEF LoginSafe, LoginInFlight
    <2>3. CASE WorkerCreates(c)
      <3>1. PICK step \in {"created", "refused"} : job'[c].step = step
        BY <1>3, <2>1, <2>3 DEF WorkerCreates, Insert, Job
      <3> QED
        BY <1>10, <2>1, <2>2, <3>1
    <2>4. CASE WorkerSelects(c)
      <3>1. CASE accounts[job[c].id] = None
        <4>1. job'[c].step = "refused"
          BY <1>3, <2>1, <2>4, <3>1 DEF WorkerSelects, Job
        <4> QED
          BY <1>10, <2>1, <2>2, <4>1
      <3>2. CASE accounts[job[c].id] # None
        <4>1. /\ job'[c].id = job[c].id /\ job'[c].row = accounts[job[c].id]
              /\ UNCHANGED accounts
          BY <1>3, <2>1, <2>4, <3>2 DEF WorkerSelects, Job
        <4>2. LoginSafe(c)'
          BY <1>1, <4>1, ExposedStays DEF LoginSafe, Safe
        <4> QED
          BY <1>10, <2>1, <4>2
      <3> QED
        BY <3>1, <3>2
    <2>5. CASE WorkerVerifies(c)
      <3>1. PICK result \in {"verified", "refused"} : job' = [job EXCEPT ![c].step = result]
        BY <2>5 DEF WorkerVerifies
      <3>2. job'[c].id = job[c].id /\ job'[c].row = job[c].row
        BY <1>3, <2>1, <3>1 DEF Job
      <3>3. LoginInFlight(job[c])
        BY <2>5 DEF WorkerVerifies, LoginInFlight
      <3>4. LoginSafe(c)'
        BY <1>2, <1>8, <1>9, <2>1, <3>2, <3>3 DEF LoginSafe, Safe
      <3> QED
        BY <1>10, <2>1, <3>4
    <2> QED
      BY <1>13, <2>3, <2>4, <2>5 DEF WorkerStep
  <1>14. ASSUME RequestAnswered(c) PROVE (Placed(c) /\ LoginSafe(c) /\ UserSafe(c))'
    <2>1. job[c] # None /\ at[c] # None /\ at'[c] = at[c] /\ job'[c] = None
      BY <1>2, <1>3, <1>14 DEF RequestAnswered, WorkerDone, Placed
    <2>2. LoginSafe(c)'
      BY <1>5, <2>1 DEF LoginSafe
    <2>3. CASE job[c].step = "verified"
      <3>1. LoginInFlight(job[c])
        BY <2>1, <2>3 DEF LoginInFlight
      <3>2. PICK id \in Ids, row \in Nat : /\ id = job[c].id /\ row = job[c].row
                                           /\ Safe(c, id, row)
        BY <1>2, <1>9, <3>1 DEF LoginSafe
      <3>3. Safe(c, id, row)'
        BY <1>8, <2>1, <3>2
      <3>4. user'[c].id = id /\ user'[c].row = row
        BY <1>3, <1>14, <2>3, <3>2 DEF RequestAnswered
      <3>5. UserSafe(c)'
        BY <3>3, <3>4 DEF UserSafe, Safe
      <3> QED
        BY <1>1, <1>2, <2>1, <2>2, <3>5 DEF Placed
    <2>4. CASE job[c].step # "verified"
      <3>1. user' = user
        BY <1>14, <2>4 DEF RequestAnswered
      <3> QED
        BY <1>10, <2>1, <2>2, <3>1
    <2> QED
      BY <2>3, <2>4
  <1>15. ASSUME Disconnect(c) PROVE (Placed(c) /\ LoginSafe(c) /\ UserSafe(c))'
    BY <1>3, <1>6, <1>15 DEF Disconnect
  <1> QED
    BY <1>7, <1>11, <1>12, <1>13, <1>14, <1>15
       DEF StepOf, ByClient, ClientConnects, ByWorker, ByEndpoint, ByDraining, ServerCloses

\* A step of the controller, its window or its threads leaves the sessions
\* alone; the run it turns to is one that serves nobody yet.
LEMMA ControllerKeepsRace ==
    ASSUME ServerInv, TrackExposed, UNCHANGED <<sessionVars, deleting>>,
           \/ OnStart \/ OnStartFails \/ OnStop \/ OnClose \/ StopStep \/ PollStatus
           \/ ThreadStep
    PROVE  RaceInv'
  <1>1. runs \in Seq(Run) /\ RunIds \subseteq Nat /\ NoRun \notin RunIds /\ None \notin Nat
    BY RunIdsAreNumbers, SessionsAssumption
       DEF ServerInv, ControllerInv, ControllerSound, ControllerTypeOK
  <1>2. \A c \in Conns : at[c] \in RunIds \cup {None}
    BY DEF ServerInv, RaceInv, Placed
  <1>3. \/ current' = current /\ DOMAIN runs' = DOMAIN runs
        \/ current' = NoRun /\ DOMAIN runs' = DOMAIN runs
        \/ current' = Len(runs) + 1 /\ runs' = Append(runs, NewRun)
    <2>1. CASE OnStart
      BY <2>1 DEF OnStart
    <2>2. CASE OnStartFails \/ PollStatus
      BY <2>2 DEF OnStartFails, PollStatus
    <2>3. CASE OnStop \/ OnClose
      BY <2>3 DEF OnStop, OnClose, AskExit
    <2>4. CASE StopStep
      BY <2>4 DEF StopStep, JoinSucceeds, JoinTimesOut, ForcedJoinTimesOut, StopReturns
    <2>5. CASE ThreadStep
      BY <2>5 DEF ThreadStep, StartupEnds, ServingEnds, ServingFails, ServeEnds
    <2> QED
      BY <2>1, <2>2, <2>3, <2>4, <2>5
  <1>4. \A c \in Conns : RunIds \subseteq RunIds' /\ (current' = current \/ current' # at[c])
    <2>1. CASE current' = Len(runs) + 1 /\ runs' = Append(runs, NewRun)
      <3>1. Len(runs) + 1 \in Nat /\ Len(runs) + 1 \notin DOMAIN runs
            /\ DOMAIN runs \subseteq DOMAIN Append(runs, NewRun)
        BY <1>1
      <3> QED
        BY <1>1, <1>2, <2>1, <3>1 DEF RunIds
    <2> QED
      BY <1>1, <1>2, <1>3, <2>1 DEF RunIds, NoRun
  <1>5. RowsStay
    BY DEF sessionVars, RowsStay
  <1>6. ASSUME NEW c \in Conns PROVE (Placed(c) /\ LoginSafe(c) /\ UserSafe(c))'
    BY <1>4, <1>5, QuietKeepsRace DEF sessionVars
  <1> QED
    BY <1>6 DEF RaceInv

\* delete_account asks for online users first: whoever is logged in to the
\* account then is exposed only by a login that is under way.
LEMMA DeleteChecksKeepsRace ==
    ASSUME ServerInv, TrackExposed, UNCHANGED sessionVars, NEW id \in Ids, DeleteChecks(id)
    PROVE  RaceInv'
  <1> SUFFICES ASSUME NEW c \in Conns PROVE (Placed(c) /\ LoginSafe(c) /\ UserSafe(c))'
    BY DEF RaceInv
  <1>1. /\ deleting' = id /\ ~OnlineAt(current, id) /\ deleting = None
        /\ current' = current /\ RunIds' = RunIds
        /\ UNCHANGED <<accounts, at, user, job>>
    BY DEF DeleteChecks, sessionVars, RunIds, ServerInv, DeletionInv
  <1>2. Placed(c) /\ LoginSafe(c) /\ UserSafe(c)
    BY DEF ServerInv, RaceInv
  <1>3. current \in Nat /\ None \notin Nat
    BY RunIdsAreNumbers, SessionsAssumption DEF ServerInv
  <1>4. Placed(c)'
    BY <1>1, <1>2 DEF Placed
  <1>5. LoginSafe(c)'
    <2>1. LoginInFlight(job[c]) => at[c] # None
      BY <1>2 DEF Placed, LoginInFlight
    <2> QED
      BY <1>1, <1>2, <2>1, ExposedStays DEF LoginSafe, Safe
  <1>6. UserSafe(c)'
    BY <1>1, <1>2, <1>3, ExposedStays DEF UserSafe, Safe, OnlineAt
  <1> QED
    BY <1>4, <1>5, <1>6

\* The DELETE takes the row of nobody who is not exposed.
LEMMA DeleteRunsKeepsRace ==
    ASSUME ServerInv, TrackExposed, DeleteRuns
    PROVE  RaceInv'
  <1> SUFFICES ASSUME NEW c \in Conns PROVE (Placed(c) /\ LoginSafe(c) /\ UserSafe(c))'
    BY DEF RaceInv
  <1>1. /\ accounts' = [accounts EXCEPT ![deleting] = None] /\ deleting' = None
        /\ current' = current /\ RunIds' = RunIds /\ UNCHANGED <<at, user, job>>
    BY DEF DeleteRuns, DeleteRow, RunIds
  <1>2. Placed(c) /\ LoginSafe(c) /\ UserSafe(c)
    BY DEF ServerInv, RaceInv
  <1>3. /\ current \in Nat /\ None \notin Nat /\ None \notin Ids
        /\ accounts \in [Ids -> Nat \cup {None}]
    BY RunIdsAreNumbers, SessionsAssumption DEF ServerInv, AccountsInv, SessionsTypeOK
  <1>4. /\ user[c] # None => user[c].id \in Ids /\ user[c].row \in Nat
        /\ LoginInFlight(job[c]) => job[c].id \in Ids /\ job[c].row \in Nat
    BY RowsKnown DEF ServerInv
  <1>5. ASSUME NEW id \in Ids, NEW row, Safe(c, id, row), at[c] # None
        PROVE  Safe(c, id, row)'
    <2>1. CASE c \in exposed
      BY <1>1, <1>5, <2>1, ExposedStays DEF Safe
    <2>2. CASE accounts[id] = row /\ deleting # id
      BY <1>1, <1>3, <1>5, <2>2 DEF Safe
    <2> QED
      BY <1>5, <2>1, <2>2 DEF Safe
  <1>6. Placed(c)'
    BY <1>1, <1>2 DEF Placed
  <1>7. LoginSafe(c)'
    BY <1>1, <1>2, <1>4, <1>5 DEF LoginSafe, Placed, LoginInFlight, Safe
  <1>8. UserSafe(c)'
    BY <1>1, <1>2, <1>3, <1>4, <1>5 DEF UserSafe, Placed, Safe
  <1> QED
    BY <1>6, <1>7, <1>8

\* Every step of the server keeps the orphans within the race.
LEMMA ServerStepRace ==
    ASSUME ServerInv, [ServerNext]_serverVars
    PROVE  RaceInv'
  <1>1. ASSUME NEW c \in Conns, StepOf(c) PROVE RaceInv'
    <2>1. ASSUME NEW d \in Conns, d # c PROVE (Placed(d) /\ LoginSafe(d) /\ UserSafe(d))'
      <3>1. /\ TrackExposed /\ deleting' = deleting /\ RowsStay /\ current' = current
            /\ RunIds' = RunIds /\ at'[d] = at[d] /\ user'[d] = user[d] /\ job'[d] = job[d]
        BY <1>1, <2>1, StepOfOne DEF controllerVars, RunIds
      <3> QED
        BY <3>1, QuietKeepsRace
    <2>2. (Placed(c) /\ LoginSafe(c) /\ UserSafe(c))'
      BY <1>1, ActorKeepsRace
    <2> QED
      BY <2>1, <2>2 DEF RaceInv
  <1>2. ASSUME UNCHANGED <<sessionVars, controllerVars, deleting, exposed>> PROVE RaceInv'
    BY <1>2 DEF ServerInv, RaceInv, Placed, LoginSafe, UserSafe, Safe, sessionVars,
       controllerVars, RunIds
  <1>3. ASSUME NEW r \in RunIds, ByServer(r) \/ ByFault(r) PROVE RaceInv'
    BY <1>3, ControllerKeepsRace DEF ByServer, ServerThread, ByFault, ThreadStep
  <1>4. CASE ByOperator
    <2>1. CASE (OnStart \/ OnStartFails \/ OnStop \/ OnClose) /\ UNCHANGED <<sessionVars, deleting>>
      BY <1>4, <2>1, ControllerKeepsRace DEF ByOperator
    <2>2. ASSUME NEW id \in Ids, DeleteChecks(id), UNCHANGED sessionVars PROVE RaceInv'
      BY <1>4, <2>2, DeleteChecksKeepsRace DEF ByOperator
    <2>3. CASE SessionsLost
      BY <2>3 DEF SessionsLost, RaceInv, Placed, LoginSafe, LoginInFlight, UserSafe
    <2> QED
      BY <1>4, <2>1, <2>2, <2>3 DEF ByOperator
  <1>5. CASE ByGui
    <2>1. CASE (StopStep \/ PollStatus) /\ UNCHANGED <<sessionVars, deleting>>
      BY <1>5, <2>1, ControllerKeepsRace DEF ByGui
    <2>2. CASE DeleteRuns
      BY <1>5, <2>2, DeleteRunsKeepsRace DEF ByGui
    <2> QED
      BY <1>5, <2>1, <2>2 DEF ByGui
  <1>6. ASSUME NEW c \in Conns, ByChatter(c) PROVE RaceInv'
    BY <1>2, <1>6 DEF ByChatter
  <1>7. CASE ByClock \/ UNCHANGED serverVars
    BY <1>2, <1>7 DEF ByClock, serverVars
  <1> QED
    BY <1>1, <1>3, <1>4, <1>5, <1>6, <1>7 DEF ServerNext, StepOf

\* A new process has no runs and no connections.
LEMMA ServerInitInv == ServerInit => ServerInv
  <1> SUFFICES ASSUME ServerInit PROVE ServerInv
    OBVIOUS
  <1>1. ChatInv /\ ControllerInv
    BY ChatInitInv, ControllerInitInv DEF ServerInit
  <1>2. AccountsInv
    BY DEF ServerInit, SessionsInit, AccountsInv, SessionsTypeOK, JobSound
  <1>3. DeletionInv
    BY DEF ServerInit, ControllerInit, DeletionInv
  <1>4. RaceInv
    BY DEF ServerInit, SessionsInit, RaceInv, Placed, LoginSafe, LoginInFlight, UserSafe
  <1> QED
    BY <1>1, <1>2, <1>3, <1>4 DEF ServerInv

\* The chat, the controller and the accounts stay right together, whatever their
\* clients, their operator and their faults do.
THEOREM ServerInvariant == ServerSpec => []ServerInv
  <1>1. ASSUME ServerInv, [ServerNext]_serverVars PROVE ServerInv'
    <2>1. ChatInv'
      BY <1>1, ServerStepParts, ChatNextKeepsInv DEF ServerInv
    <2>2. ControllerInv'
      BY <1>1, ServerStepController
    <2>3. AccountsInv'
      BY <1>1, ServerStepParts, SessionStepKeepsAccounts DEF ServerInv
    <2>4. DeletionInv'
      BY <1>1, ServerStepDeletion
    <2>5. RaceInv'
      BY <1>1, ServerStepRace
    <2> QED
      BY <2>1, <2>2, <2>3, <2>4, <2>5 DEF ServerInv
  <1> QED
    BY <1>1, ServerInitInv, PTL DEF ServerSpec

\* The parts keep their promises in the whole process, where a drained server
\* closes its clients and the window deletes accounts between its other calls.
THEOREM ServerKeepsItsParts == ServerSpec => [](RateBounded /\ ControllerSound)
  <1>1. ServerInv => RateBounded /\ ControllerSound
    BY ChatInvBounds DEF ServerInv, ControllerInv
  <1> QED
    BY <1>1, ServerInvariant, PTL

\* A client that was told of its new account has it until the operator deletes
\* it: two INSERTs of an id cannot both succeed, and no end of a worker, a
\* server or the process loses a row (account_repository.py create_account).
THEOREM AnsweredAlwaysKept == ServerSpec => []AnsweredAccountsKept
  <1>1. ServerInv => AnsweredAccountsKept
    <2> SUFFICES ASSUME ServerInv PROVE AnsweredAccountsKept
      OBVIOUS
    <2>1. SessionsTypeOK /\ \A a \in answered : accounts[a.id] = a.row \/ a \in deleted
      BY DEF ServerInv, AccountsInv, Kept
    <2>2. \A a, b \in Account : a.id = b.id /\ a.row = b.row => a = b
      BY DEF Account
    <2>3. answered \subseteq Account
      BY <2>1 DEF SessionsTypeOK
    <2> QED
      BY <2>1, <2>2, <2>3 DEF AnsweredAccountsKept
  <1> QED
    BY <1>1, ServerInvariant, PTL

\* An account is deleted under a connection only in the race that remains: its
\* login had read the row and was answered after the check for online users
\* (controller.py delete_account, _handle_login in app/main.py).
THEOREM OrphansComeFromTheRace == ServerSpec => []OrphanedOnlyInRace
  <1>1. ServerInv => OrphanedOnlyInRace
    BY DEF ServerInv, RaceInv, UserSafe, Safe, OrphanedOnlyInRace, Orphaned
  <1> QED
    BY <1>1, ServerInvariant, PTL

-----------------------------------------------------------------------------
(* The parts, refined *)

\* The controller as it is without deletions: during one, its window is idle.
Controller == INSTANCE ServerController
                WITH gui <- IF gui = "deleting" THEN "idle" ELSE gui

\* A deletion is all the window does meanwhile: every call of the controller
\* finds it idle or blocked in a join, and leaves it so.
LEMMA ControllerStepUndisturbed ==
    ASSUME ControllerNext
    PROVE  Controller!ControllerNext
  <1>1. CASE ThreadStep
    <2>1. PICK r \in RunIds : StartupEnds(r) \/ ServingEnds(r) \/ ServingFails(r) \/ ServeEnds(r)
      BY <1>1 DEF ThreadStep
    <2>2. r \in Controller!RunIds
      BY <2>1 DEF RunIds, Controller!RunIds
    <2>3. \/ Controller!StartupEnds(r) \/ Controller!ServingEnds(r)
          \/ Controller!ServingFails(r) \/ Controller!ServeEnds(r)
      BY <2>1 DEF StartupEnds, ServingEnds, ServingFails, ServeEnds, Controller!StartupEnds,
         Controller!ServingEnds, Controller!ServingFails, Controller!ServeEnds
    <2> QED
      BY <2>2, <2>3 DEF Controller!ThreadStep, Controller!ControllerNext
  <1>2. CASE OnStart \/ OnStartFails
    BY <1>2 DEF OnStart, OnStartFails, IsRunning, NoRun, Alive, NewRun, Controller!OnStart,
       Controller!OnStartFails, Controller!IsRunning, Controller!NoRun, Controller!Alive,
       Controller!NewRun, Controller!ControllerNext
  <1>3. CASE OnStop
    BY <1>3 DEF OnStop, AskExit, IsRunning, NoRun, Alive, Controller!OnStop, Controller!AskExit,
       Controller!IsRunning, Controller!NoRun, Controller!Alive, Controller!ControllerNext
  <1>4. CASE OnClose
    BY <1>4 DEF OnClose, AskExit, IsRunning, NoRun, Alive, Controller!OnClose, Controller!AskExit,
       Controller!IsRunning, Controller!NoRun, Controller!Alive, Controller!ControllerNext
  <1>5. CASE StopStep
    <2>1. ASSUME JoinSucceeds \/ ForcedJoinTimesOut
          PROVE  Controller!JoinSucceeds \/ Controller!ForcedJoinTimesOut
      BY <2>1 DEF JoinSucceeds, ForcedJoinTimesOut, StopReturns, Alive, NoRun,
         Controller!JoinSucceeds, Controller!ForcedJoinTimesOut, Controller!StopReturns,
         Controller!Alive, Controller!NoRun
    <2>2. ASSUME JoinTimesOut PROVE Controller!JoinTimesOut
      BY <2>2 DEF JoinTimesOut, Alive, Controller!JoinTimesOut, Controller!Alive
    <2> QED
      BY <1>5, <2>1, <2>2 DEF StopStep, Controller!StopStep, Controller!ControllerNext
  <1>6. CASE PollStatus
    BY <1>6 DEF PollStatus, PolledState, ShowsFailure, IsServing, IsRunning, Alive, NoRun,
       Controller!PollStatus, Controller!PolledState, Controller!ShowsFailure,
       Controller!IsServing, Controller!IsRunning, Controller!Alive, Controller!NoRun,
       Controller!ControllerNext
  <1>7. CASE ProcessRestarts
    BY <1>7 DEF ProcessRestarts, NoRun, Controller!ProcessRestarts, Controller!NoRun,
       Controller!ControllerNext
  <1> QED
    BY <1>1, <1>2, <1>3, <1>4, <1>5, <1>6, <1>7 DEF ControllerNext

\* The process does nothing to its parts that they do not do alone: a client is
\* limited in its chat as if there were no server around it, and the controller
\* starts, stops and shows servers as if no account were ever deleted, however
\* the two steps of a deletion fall between the steps of the server threads.
THEOREM ServerImplementsItsParts == ServerSpec => ChatSpec /\ Controller!ControllerSpec
  <1>1. ServerInit => ChatInit /\ Controller!ControllerInit
    BY DEF ServerInit, ControllerInit, NoRun, Controller!ControllerInit, Controller!NoRun
  <1>2. ServerInv /\ [ServerNext]_serverVars
          => [ChatNext]_chatVars /\ [Controller!ControllerNext]_Controller!controllerVars
    <2> SUFFICES ASSUME ServerInv, [ServerNext]_serverVars
                 PROVE  [Controller!ControllerNext]_Controller!controllerVars
      BY ServerStepParts
    <2>1. CASE [ControllerNext]_controllerVars
      BY <2>1, ControllerStepUndisturbed DEF controllerVars, Controller!controllerVars
    <2>2. CASE DeleteRuns \/ \E id \in Ids : DeleteChecks(id)
      BY <2>2 DEF DeleteRuns, DeleteChecks, Controller!controllerVars
    <2> QED
      BY <2>1, <2>2, ControlsOrDeletes
  <1> QED
    BY <1>1, <1>2, ServerInvariant, PTL DEF ServerSpec, ChatSpec, Controller!ControllerSpec
=============================================================================
