----------------------------- MODULE ClientThreads -----------------------------
(***************************************************************************)
(* The life of the clients of the server (main.c, rfbserver.c, sockets.c   *)
(* of libvncserver, droidlink.c): how their records get into the list of   *)
(* the screen and out of it, who holds references to them, the threads     *)
(* that serve them, and how vncStopServer ends all of it.                  *)
(*                                                                         *)
(* A thread is Main (of the service), Listener, or a client, which stands  *)
(* for its input thread; the output threads are outPc.  A section under    *)
(* rfbClientListMutex, refCountMutex or updateMutex is one action.  The    *)
(* fields next and prev are read and written as in the code, so a record   *)
(* taken out of the list still points to what followed it.  What has been  *)
(* freed keeps its content, the mildest of what the build can do: a thread *)
(* may come to it by a pointer it has read before.  Nobody is being set up when the *)
(* server is stopped, and nobody connects while it stops: the code would   *)
(* free such a client with its threads running.                            *)
(***************************************************************************)
EXTENDS Integers, FiniteSets

CONSTANTS
  Clients,     \* records of clients, each used once
  Main, Listener,
  NoClient,
  Acceptors    \* threads that set up clients: Main does so for reverse connections

Threads == Clients \cup {Main, Listener}

ASSUME ThreadsAssumption ==
  /\ IsFiniteSet(Clients)
  /\ Main \notin Clients /\ Listener \notin Clients /\ Main # Listener
  /\ NoClient \notin Threads
  /\ Acceptors \subseteq {Main, Listener}

VARIABLES
  head, next, prev,   \* screen->clientHead, cl->next, cl->prev
  listed,             \* records between being linked and being unlinked
  state,              \* cl->state: "handshake", "normal", "shutdown"
  open,               \* cl->sock # RFB_INVALID_SOCKET
  refCount,
  freed,              \* records given back
  hooked, gone,       \* clients newClientHook was called for; calls of clientGoneHook
  started,            \* how often the threads of a client were started
  pc,                 \* place of each thread, and what it walks over the list for
  purpose,
  it, cur,            \* the iterator's next, and the client handled while it is ahead
  cli,                \* cl of listenerRun or rfbReverseConnection
  outPc,              \* the output threads
  up,                 \* socketState = RFB_SOCKET_READY
  due                 \* clients to be marked by the walk of Main that is under way

listVars == <<head, next, prev, listed>>
recordVars == <<state, open, refCount, freed>>
hookVars == <<hooked, gone, started>>
walkVars == <<purpose, it, cur>>
vars == <<listVars, recordVars, hookVars, pc, walkVars, cli, outPc, up, due>>

-----------------------------------------------------------------------------
(* Helpers *)

Go(t, from, to) == pc[t] = from /\ pc' = [pc EXCEPT ![t] = to]
OutGo(c, from, to) == outPc[c] = from /\ outPc' = [outPc EXCEPT ![c] = to]

\* TSIGNAL(cl->updateCond)
Signalled(c) == IF outPc[c] = "wait" THEN [outPc EXCEPT ![c] = "test"] ELSE outPc

\* rfbCloseClient: signal, set the state, write to the client's pipe.
CloseClient(c) ==
  /\ state' = [state EXCEPT ![c] = "shutdown"]
  /\ outPc' = Signalled(c)

\* rfbIncrClientRef, rfbDecrClientRef.  Mutant: the reference is not given back.
NotReleased(c) == refCount
Referenced(c) == [refCount EXCEPT ![c] = @ + 1]
Released(c) == [refCount EXCEPT ![c] = @ - 1]

\* Where a thread waits for what comes next.
Home(t) == IF t = Main THEN "idle" ELSE IF t = Listener THEN "select" ELSE "loop"

\* Walks that fetch the next client before they handle one, whose reference is gone then.
Prefetching(t) == purpose[t] \in {"closeOthers", "stop"}

\* The records a thread is about to look into: by the iterator's pointer, by that to
\* the client handled, or by the variable of the listener.
Uses(t) ==
  (IF pc[t] \in {"fetched", "advance"} THEN {it[t]} \ {NoClient} ELSE {}) \cup
  (IF pc[t] = "act" THEN {IF Prefetching(t) THEN cur[t] ELSE it[t]} ELSE {}) \cup
  (IF pc[t] = "start" THEN {cli[t]} ELSE {})

-----------------------------------------------------------------------------
(* Walking over the list: rfbClientIteratorNext.  The pointer is read first   *)
(* ("fetched"), closed clients are skipped, then the reference is taken.      *)

StartWalk(t, for) ==
  /\ purpose' = [purpose EXCEPT ![t] = for]
  /\ it' = [it EXCEPT ![t] = head]
  /\ cur' = [cur EXCEPT ![t] = NoClient]

\* Mutant: the walk ends at a closed client.
StopAtClosed(t) ==
  /\ pc[t] = "fetched" /\ it[t] # NoClient /\ ~open[it[t]]
  /\ it' = [it EXCEPT ![t] = NoClient]
  /\ UNCHANGED <<listVars, recordVars, hookVars, pc, purpose, cur, cli, outPc, up, due>>

SkipClosed(t) ==
  /\ pc[t] = "fetched" /\ it[t] # NoClient /\ ~open[it[t]]
  /\ it' = [it EXCEPT ![t] = next[it[t]]]
  /\ UNCHANGED <<listVars, recordVars, hookVars, pc, purpose, cur, cli, outPc, up, due>>

TakeReference(t) ==
  /\ it[t] # NoClient /\ open[it[t]]
  /\ Go(t, "fetched", IF Prefetching(t) /\ cur[t] = NoClient THEN "advance" ELSE "act")
  /\ refCount' = Referenced(it[t])
  /\ UNCHANGED <<listVars, state, open, freed, hookVars, walkVars, cli, outPc, up, due>>

\* On to the client's successor, without the list's mutex; its reference is given back.
Advance(t) ==
  /\ Go(t, "advance", "fetched")
  /\ it' = [it EXCEPT ![t] = next[it[t]]]
  /\ cur' = IF Prefetching(t) THEN [cur EXCEPT ![t] = it[t]] ELSE cur
  /\ refCount' = Released(it[t])
  /\ UNCHANGED <<listVars, state, open, freed, hookVars, purpose, cli, outPc, up, due>>

\* The last client is handled after the iterator has reached the end.
LastFetched(t) ==
  /\ it[t] = NoClient
  /\ Go(t, "fetched", IF Prefetching(t) /\ cur[t] # NoClient THEN "act" ELSE "walked")
  /\ UNCHANGED <<listVars, recordVars, hookVars, walkVars, cli, outPc, up, due>>

\* After a client has been handled by a walk that is ahead.
Onwards(t) == IF it[t] = NoClient THEN "walked" ELSE "advance"

Walk(t) == SkipClosed(t) \/ TakeReference(t) \/ Advance(t) \/ LastFetched(t)

-----------------------------------------------------------------------------
(* rfbClientConnectionGone, on the client's input thread or on the thread    *)
(* that sets the client up                                                   *)

Leaving(t) == IF t \in Clients THEN t ELSE cli[t]

\* Mutant: the back pointer is not set.
HalfUnlinked(c) == prev
Unlinked(c) == IF next[c] = NoClient THEN prev ELSE [prev EXCEPT ![next[c]] = prev[c]]

Unlink(t) ==
  LET c == Leaving(t) IN
  /\ Go(t, "unlink", "unlinked")
  /\ IF prev[c] # NoClient
     THEN next' = [next EXCEPT ![prev[c]] = next[c]] /\ UNCHANGED head
     ELSE head' = next[c] /\ UNCHANGED next
  /\ prev' = Unlinked(c)
  /\ listed' = listed \ {c}
  /\ UNCHANGED <<recordVars, hookVars, walkVars, cli, outPc, up, due>>

\* The wait on deleteCond, which is signalled when the count gets to zero.  Mutant: no wait.
DoNotWait(c) == TRUE
NoReferences(c) == refCount[c] <= 0

\* Mutant: the hook is called for a client that was never announced.
HookAnyway(c) == [gone EXCEPT ![c] = @ + 1]
GoneHook(c) == IF c \in hooked THEN [gone EXCEPT ![c] = @ + 1] ELSE gone

WaitAndHook(t) ==
  LET c == Leaving(t) IN
  /\ Go(t, "unlinked", "free")
  /\ NoReferences(c)
  /\ open' = [open EXCEPT ![c] = FALSE]
  /\ gone' = GoneHook(c)
  /\ UNCHANGED <<listVars, state, refCount, freed, hooked, started, walkVars, cli, outPc,
                 up, due>>

Free(t) ==
  LET c == Leaving(t) IN
  /\ Go(t, "free", IF t \in Clients THEN "ended" ELSE Home(t))
  /\ freed' = freed \cup {c}
  /\ cli' = IF t \in Clients THEN cli ELSE [cli EXCEPT ![t] = NoClient]
  /\ UNCHANGED <<listVars, state, open, refCount, hookVars, walkVars, outPc, up, due>>

Gone(t) == Unlink(t) \/ WaitAndHook(t) \/ Free(t)

-----------------------------------------------------------------------------
(* Setting up a client: listenerRun and rfbReverseConnection, rfbNewClient *)

\* A connection is made; the other clients are counted.
Accept(t) ==
  /\ t \in Acceptors
  /\ up
  /\ purpose[Main] # "stop"
  /\ Go(t, Home(t), "fetched")
  /\ \E c \in Clients :
       /\ started[c] = 0 /\ c \notin listed \cup freed /\ \A a \in Acceptors : cli[a] # c
       /\ cli' = [cli EXCEPT ![t] = c]
  /\ StartWalk(t, "count")
  /\ UNCHANGED <<listVars, recordVars, hookVars, outPc, up, due>>

Counted(t) ==
  /\ purpose[t] = "count"
  /\ Go(t, "act", "advance")
  /\ UNCHANGED <<listVars, recordVars, hookVars, walkVars, cli, outPc, up, due>>

\* The record is put before the head of the list.
Link(t) ==
  LET c == cli[t] IN
  /\ purpose[t] = "count"
  /\ Go(t, "walked", "hello")
  /\ open' = [open EXCEPT ![c] = TRUE]
  /\ next' = [next EXCEPT ![c] = head]
  /\ prev' = IF head = NoClient THEN prev ELSE [prev EXCEPT ![head] = c]
  /\ head' = c
  /\ listed' = listed \cup {c}
  /\ purpose' = [purpose EXCEPT ![t] = "none"]
  /\ UNCHANGED <<state, refCount, freed, hookVars, it, cur, cli, outPc, up, due>>

\* The version is written, and newClientHook called; or the client is dropped.
Hello(t) ==
  /\ Go(t, "hello", "start")
  /\ hooked' = hooked \cup {cli[t]}
  /\ UNCHANGED <<listVars, recordVars, gone, started, walkVars, cli, outPc, up, due>>

HelloFails(t) ==
  /\ Go(t, "hello", "unlink")
  /\ CloseClient(cli[t])
  /\ UNCHANGED <<listVars, open, refCount, freed, hookVars, walkVars, cli, up, due>>

\* rfbStartOnHoldClient starts the input thread, which starts the output thread.
StartClient(t) ==
  LET c == cli[t] IN
  /\ pc[t] = "start"
  /\ started' = [started EXCEPT ![c] = 1]
  /\ pc' = [pc EXCEPT ![t] = Home(t), ![c] = "loop"]
  /\ outPc' = [outPc EXCEPT ![c] = "test"]
  /\ UNCHANGED <<listVars, recordVars, hooked, gone, walkVars, cli, up, due>>

\* The loop of listenerRun is left when its pipe has woken it after the shutdown.
ListenerEnds ==
  /\ ~up
  /\ Go(Listener, "select", "ended")
  /\ UNCHANGED <<listVars, recordVars, hookVars, walkVars, cli, outPc, up, due>>

SetUp(t) ==
  \/ Counted(t) \/ Link(t) \/ Hello(t) \/ HelloFails(t) \/ StartClient(t)

-----------------------------------------------------------------------------
(* The input thread of a client: clientInput, rfbProcessClientInitMessage *)

\* A message of the handshake: the state is looked at when it comes, and set when it has
\* been read and answered.
HandshakeMessage(c) ==
  /\ state[c] = "handshake"
  /\ Go(c, "loop", "message")
  /\ UNCHANGED <<listVars, recordVars, hookVars, walkVars, cli, outPc, up, due>>

HandshakeGoesOn(c) ==
  /\ Go(c, "message", "loop")
  /\ state' = [state EXCEPT ![c] = "handshake"]
  /\ UNCHANGED <<listVars, open, refCount, freed, hookVars, walkVars, cli, outPc, up, due>>

\* The last one: normal operation begins; if the client does not share, the others are
\* closed.
InitMessage(c) ==
  /\ state' = [state EXCEPT ![c] = "normal"]
  /\ \/ /\ Go(c, "message", "loop")
        /\ UNCHANGED walkVars
     \/ /\ Go(c, "message", "fetched")
        /\ StartWalk(c, "closeOthers")
  /\ UNCHANGED <<listVars, open, refCount, freed, hookVars, cli, outPc, up, due>>

ToBeClosed(c) == cur[c] # c /\ state[cur[c]] = "normal"

CloseOther(c) ==
  /\ purpose[c] = "closeOthers"
  /\ Go(c, "act", Onwards(c))
  /\ IF ToBeClosed(c) THEN CloseClient(cur[c]) ELSE UNCHANGED <<state, outPc>>
  /\ UNCHANGED <<listVars, open, refCount, freed, hookVars, walkVars, cli, up, due>>

OthersClosed(c) ==
  /\ purpose[c] = "closeOthers"
  /\ Go(c, "walked", "loop")
  /\ purpose' = [purpose EXCEPT ![c] = "none"]
  /\ cur' = [cur EXCEPT ![c] = NoClient]
  /\ UNCHANGED <<listVars, recordVars, hookVars, it, cli, outPc, up, due>>

\* A message in normal operation: a request for an update wakes the output thread.
Request(c) ==
  /\ pc[c] = "loop" /\ state[c] = "normal" /\ outPc[c] = "wait"
  /\ outPc' = Signalled(c)
  /\ UNCHANGED <<listVars, recordVars, hookVars, pc, walkVars, cli, up, due>>

\* The peer has gone: reading fails and the client is closed.
PeerGone(c) ==
  /\ \/ pc[c] = "loop" /\ state[c] # "shutdown"
     \/ pc[c] = "message"
  /\ pc' = [pc EXCEPT ![c] = "loop"]
  /\ CloseClient(c)
  /\ UNCHANGED <<listVars, open, refCount, freed, hookVars, walkVars, cli, up, due>>

\* The loop is left; the output thread is signalled, joined, and the socket closed.
LeaveLoop(c) ==
  /\ state[c] = "shutdown"
  /\ Go(c, "loop", "join")
  /\ outPc' = Signalled(c)
  /\ UNCHANGED <<listVars, recordVars, hookVars, walkVars, cli, up, due>>

\* Mutant: the record is disposed of without the join.
NoJoin(c) == TRUE
OutputEnded(c) == outPc[c] = "ended"

JoinOutput(c) ==
  /\ OutputEnded(c)
  /\ Go(c, "join", "unlink")
  /\ open' = [open EXCEPT ![c] = FALSE]
  /\ UNCHANGED <<listVars, state, refCount, freed, hookVars, walkVars, cli, outPc, up, due>>

Answer(c) == HandshakeGoesOn(c) \/ InitMessage(c)
Message(c) == HandshakeMessage(c) \/ Request(c) \/ PeerGone(c)
InputStep(c) == Answer(c) \/ CloseOther(c) \/ OthersClosed(c) \/ LeaveLoop(c) \/ JoinOutput(c)

-----------------------------------------------------------------------------
(* The output thread of a client: clientOutput.  Whether there is something to *)
(* send is left open.                                                          *)

Look(c) ==
  /\ state[c] # "handshake"
  /\ OutGo(c, "test", IF state[c] = "shutdown" \/ ~open[c] THEN "ended" ELSE "look")
  /\ UNCHANGED <<listVars, recordVars, hookVars, pc, walkVars, cli, up, due>>

WaitForUpdate(c) ==
  /\ OutGo(c, "look", "wait")
  /\ UNCHANGED <<listVars, recordVars, hookVars, pc, walkVars, cli, up, due>>

StartSend(c) ==
  /\ OutGo(c, "look", "send")
  /\ refCount' = Referenced(c)
  /\ UNCHANGED <<listVars, state, open, freed, hookVars, pc, walkVars, cli, up, due>>

\* The update is sent, or a write has failed and the client is closed.
EndSend(c) ==
  /\ OutGo(c, "send", "test")
  /\ state' \in {state, [state EXCEPT ![c] = "shutdown"]}
  /\ refCount' = Released(c)
  /\ UNCHANGED <<listVars, open, freed, hookVars, pc, walkVars, cli, up, due>>

OutputStep(c) == Look(c) \/ WaitForUpdate(c) \/ StartSend(c) \/ EndSend(c)

-----------------------------------------------------------------------------
(* The main thread *)

\* An image has been copied: rfbMarkRegionAsModified visits the clients.
StartMark ==
  /\ Go(Main, "idle", "fetched")
  /\ StartWalk(Main, "mark")
  /\ due' = {c \in listed : open[c]}
  /\ UNCHANGED <<listVars, recordVars, hookVars, cli, outPc, up>>

MarkOne ==
  /\ purpose[Main] = "mark"
  /\ Go(Main, "act", "advance")
  /\ outPc' = Signalled(it[Main])
  /\ due' = due \ {it[Main]}
  /\ UNCHANGED <<listVars, recordVars, hookVars, walkVars, cli, up>>

MarkDone ==
  /\ purpose[Main] = "mark"
  /\ Go(Main, "walked", "idle")
  /\ purpose' = [purpose EXCEPT ![Main] = "none"]
  /\ due' = {}
  /\ UNCHANGED <<listVars, recordVars, hookVars, it, cur, cli, outPc, up>>

\* vncStopServer, rfbShutdownServer: each client is closed and its input thread joined.
Stop ==
  /\ pc[Listener] = "select"
  /\ Go(Main, "idle", "fetched")
  /\ StartWalk(Main, "stop")
  /\ UNCHANGED <<listVars, recordVars, hookVars, cli, outPc, up, due>>

StopOne ==
  /\ purpose[Main] = "stop"
  /\ Go(Main, "act", "joinInput")
  /\ IF open[cur[Main]] THEN CloseClient(cur[Main]) ELSE UNCHANGED <<state, outPc>>
  /\ UNCHANGED <<listVars, open, refCount, freed, hookVars, walkVars, cli, up, due>>

\* Joining a thread that has not been started returns at once.
JoinInput ==
  /\ Go(Main, "joinInput", Onwards(Main))
  /\ pc[cur[Main]] \in {"none", "ended"}
  /\ UNCHANGED <<listVars, recordVars, hookVars, walkVars, cli, outPc, up, due>>

\* rfbShutdownSockets; the listener is notified and joined.
ShutdownSockets ==
  /\ purpose[Main] = "stop"
  /\ Go(Main, "walked", "joinListener")
  /\ up' = FALSE
  /\ UNCHANGED <<listVars, recordVars, hookVars, walkVars, cli, outPc, due>>

\* rfbScreenCleanup would dispose of open clients, but meets none; it frees the screen.
JoinListener ==
  /\ pc[Listener] = "ended"
  /\ Go(Main, "joinListener", "fetched")
  /\ StartWalk(Main, "cleanup")
  /\ UNCHANGED <<listVars, recordVars, hookVars, cli, outPc, up, due>>

ScreenFreed ==
  /\ purpose[Main] = "cleanup"
  /\ Go(Main, "walked", "ended")
  /\ UNCHANGED <<listVars, recordVars, hookVars, walkVars, cli, outPc, up, due>>

MainStep ==
  \/ MarkOne \/ MarkDone \/ StopOne \/ JoinInput \/ ShutdownSockets \/ JoinListener
  \/ ScreenFreed

-----------------------------------------------------------------------------
Init ==
  /\ head = NoClient
  /\ next = [c \in Clients |-> NoClient] /\ prev = [c \in Clients |-> NoClient]
  /\ listed = {}
  /\ state = [c \in Clients |-> "handshake"]
  /\ open = [c \in Clients |-> FALSE]
  /\ refCount = [c \in Clients |-> 0]
  /\ freed = {} /\ hooked = {}
  /\ gone = [c \in Clients |-> 0] /\ started = [c \in Clients |-> 0]
  /\ pc = [t \in Threads |-> IF t \in Clients THEN "none" ELSE Home(t)]
  /\ purpose = [t \in Threads |-> "none"]
  /\ it = [t \in Threads |-> NoClient] /\ cur = [t \in Threads |-> NoClient]
  /\ cli = [t \in {Main, Listener} |-> NoClient]
  /\ outPc = [c \in Clients |-> "none"]
  /\ up = TRUE
  /\ due = {}

Next ==
  \/ \E t \in Threads : Walk(t) \/ Gone(t)
  \/ \E t \in {Main, Listener} : Accept(t) \/ SetUp(t)
  \/ \E c \in Clients : Message(c) \/ InputStep(c) \/ OutputStep(c)
  \/ MainStep \/ StartMark \/ Stop \/ ListenerEnds

Spec == Init /\ [][Next]_vars

\* Threads run; connections, messages and images need never come.
Fairness ==
  /\ \A c \in Clients :
       WF_vars(Walk(c) \/ Gone(c) \/ InputStep(c)) /\ WF_vars(OutputStep(c))
  /\ WF_vars(Walk(Listener) \/ Gone(Listener) \/ SetUp(Listener) \/ ListenerEnds)
  /\ WF_vars(Walk(Main) \/ Gone(Main) \/ SetUp(Main) \/ MainStep)

FairSpec == Spec /\ Fairness
-----------------------------------------------------------------------------
(* Properties *)

Places == {"none", "loop", "message", "join", "idle", "select", "fetched", "act", "advance", "walked",
           "hello", "start", "unlink", "unlinked", "free", "joinInput",
           "joinListener", "ended"}

TypeOK ==
  /\ head \in Clients \cup {NoClient}
  /\ next \in [Clients -> Clients \cup {NoClient}]
  /\ prev \in [Clients -> Clients \cup {NoClient}]
  /\ listed \subseteq Clients /\ freed \subseteq Clients /\ hooked \subseteq Clients
  /\ state \in [Clients -> {"handshake", "normal", "shutdown"}]
  /\ open \in [Clients -> BOOLEAN]
  /\ refCount \in [Clients -> Nat]
  /\ gone \in [Clients -> 0..2] /\ started \in [Clients -> 0..1]
  /\ pc \in [Threads -> Places]
  /\ purpose \in [Threads -> {"none", "count", "mark", "closeOthers", "stop", "cleanup"}]
  /\ it \in [Threads -> Clients \cup {NoClient}]
  /\ cur \in [Threads -> Clients \cup {NoClient}]
  /\ cli \in [{Main, Listener} -> Clients \cup {NoClient}]
  /\ outPc \in [Clients -> {"none", "test", "look", "wait", "send", "ended"}]
  /\ up \in BOOLEAN
  /\ due \subseteq Clients

\* The iterators and output threads that hold a reference to a client.
Iterating(c) == {t \in Threads : it[t] = c /\ pc[t] # "fetched"}
SendingRef(c) == IF outPc[c] = "send" THEN 1 ELSE 0

\* "whenever a client is referenced, the refCount has to be incremented and afterwards
\* decremented, so that the client is not cleaned up while being referenced" (rfb.h:628):
\* what has been freed has no reference, no thread of its own, and is not in the list.
NoneFreedInUse ==
  \A c \in freed :
    /\ c \notin listed /\ Iterating(c) = {}
    /\ outPc[c] \in {"none", "ended"}
    /\ \A t \in {Main, Listener} : pc[t] \in {"hello", "start"} => cli[t] # c

\* What the same comment is for: no thread looks into a record that has been freed.
NoDanglingUse ==
  /\ \A t \in Threads : Uses(t) \cap freed = {}
  /\ \A c \in freed : outPc[c] \in {"none", "ended"}

\* The count of a client is that of the references held, on every way out of a walk.
RefsBalanced == \A c \in Clients : refCount[c] = Cardinality(Iterating(c)) + SendingRef(c)

\* The links are those of a list with the records of listed.
ListLinked ==
  /\ head = NoClient <=> listed = {}
  /\ head # NoClient => head \in listed
  /\ \A c \in listed :
       /\ next[c] # NoClient => next[c] \in listed /\ prev[next[c]] = c
       /\ prev[c] # NoClient => prev[c] \in listed /\ next[prev[c]] = c
       /\ prev[c] = NoClient <=> head = c

\* A walk that marks the clients misses none of those that were in the list when it
\* began, whoever leaves on the way, unless the client has been closed itself.
NoneMissed ==
  purpose[Main] = "mark" /\ pc[Main] = "walked" =>
    \A c \in due : ~open[c] \/ state[c] = "shutdown"

\* When the screen is freed no client is served any more: whoever still has a thread is
\* past its connection and its output thread.
NobodyServed ==
  pc[Main] = "ended" =>
    /\ pc[Listener] = "ended"
    /\ \A c \in Clients : /\ pc[c] \in {"none", "unlink", "unlinked", "free", "ended"}
                          /\ ~open[c] /\ outPc[c] \in {"none", "ended"}

\* The wakeup that comes between an output thread's look at the state and its wait is
\* lost (main.c:464 and 488): it waits although its client has been closed, and only an
\* image wakes it.
Overslept == \E c \in Clients : outPc[c] = "wait" /\ state[c] = "shutdown"

\* A client closed while a message of its handshake is handled goes on when that message
\* sets its state: the main thread joins a thread that has not been told to end.
Overwritten == pc[Main] = "joinInput" /\ state[cur[Main]] # "shutdown"

\* Stopping the server comes to its end: each client closed gets through its join, its
\* references and its disposal, unless its output thread has overslept or its state has
\* been overwritten; then the main thread of the app waits, until the peer goes or for ever.
StopEnds == purpose[Main] = "stop" ~> pc[Main] = "ended" \/ Overslept \/ Overwritten

\* "Indicate to client-to-server thread that it should not go on" (sockets.c:587): a
\* client that has been told so stays told.
StaysClosed == [][\A c \in Clients : state[c] = "shutdown" => state'[c] = "shutdown"]_vars

-----------------------------------------------------------------------------
(* Refinement *)

\* What the service knows of a client: nothing before newClientHook, and nothing after
\* the first call of clientGoneHook, which must be the last.
life == [c \in Clients |-> IF gone[c] > 1 THEN "twice" ELSE IF gone[c] = 1 THEN "past"
                           ELSE IF c \in hooked THEN "known" ELSE "new"]

Life == INSTANCE ClientLife WITH serving <- up

\* The service hears of the clients as ClientLife says.
KeepsClients == Life!Spec
=============================================================================
