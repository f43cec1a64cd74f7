-------------------------- MODULE ClientThreads_proofs --------------------------
(***************************************************************************)
(* Proofs about ClientThreads, for any number of clients and whoever sets  *)
(* them up: the list of clients stays linked, the count of each client is  *)
(* that of the references held, the service hears of its clients as        *)
(* ClientLife says, what is referenced is not freed, and the walks of the  *)
(* main thread miss nobody.                                                *)
(***************************************************************************)
EXTENDS ClientThreads, FiniteSetTheorems, TLAPS

Hosts == {Main, Listener}
WalkPlaces == {"fetched", "act", "advance", "walked"}
SetupPlaces == {"hello", "start", "unlink", "unlinked", "free"}
LinkedPlaces == WalkPlaces \cup {"loop", "message", "join", "unlink"}

\* What each thread walks over the list for, and where it can be then.
Kinds ==
  /\ \A c \in Clients :
       /\ pc[c] \in LinkedPlaces \cup {"none", "unlinked", "free", "ended"}
       /\ purpose[c] = IF pc[c] \in WalkPlaces THEN "closeOthers" ELSE "none"
  /\ pc[Listener] \in {"select", "ended"} \cup WalkPlaces \cup SetupPlaces
  /\ purpose[Listener] = IF pc[Listener] \in WalkPlaces THEN "count" ELSE "none"
  /\ pc[Main] \in {"idle", "joinInput", "joinListener",
      "ended"} \cup WalkPlaces \cup SetupPlaces
  /\ pc[Main] \in WalkPlaces => purpose[Main] \in {"count", "mark", "stop", "cleanup"}
  /\ pc[Main] \in {"idle"} \cup SetupPlaces => purpose[Main] = "none"
  /\ pc[Main] \in {"joinInput", "joinListener"} => purpose[Main] = "stop"
  /\ pc[Main] = "ended" => purpose[Main] = "cleanup"

\* Whoever has taken a reference by its iterator is still ahead of giving it back.
Walking ==
  \A t \in Threads :
    /\ pc[t] \notin {"fetched", "act", "advance", "joinInput"} => it[t] = NoClient
    /\ pc[t] = "advance" => it[t] # NoClient
    /\ pc[t] = "act" /\ ~Prefetching(t) => it[t] # NoClient

\* A client has no output thread before it has been started, nor after it has been joined.
Outputs ==
  \A c \in Clients :
    /\ pc[c] = "none" => outPc[c] = "none"
    /\ pc[c] \in {"unlink", "unlinked", "free", "ended"} => outPc[c] = "ended"

\* A client that is set up belongs to one host and has no thread of its own.
SettingUp(h) == pc[h] \in SetupPlaces \/ purpose[h] = "count"
Hosting ==
  /\ \A h \in Hosts :
       /\ SettingUp(h) => cli[h] # NoClient /\ pc[cli[h]] = "none" /\ cli[h] \notin freed
       /\ cli[h] # NoClient => h \in Acceptors
       /\ purpose[h] = "count" \/ pc[h] = "hello" => cli[h] \notin hooked
  /\ cli[Main] = cli[Listener] => cli[Main] = NoClient

SetUpAt(c, places) == \E h \in Hosts : cli[h] = c /\ pc[h] \in places

\* A record is in the list from its linking to its unlinking, by the client's thread or
\* by its host, and is told to be gone once, after that.
Stages ==
  \A c \in Clients :
    /\ pc[c] = "none" <=> started[c] = 0
    /\ c \in freed => pc[c] \in {"none", "ended"}
    /\ c \in listed <=> pc[c] \in LinkedPlaces \/ SetUpAt(c, {"hello", "start", "unlink"})
    /\ gone[c] \in {0, 1}
    /\ gone[c] = 1 => \/ pc[c] \in {"free", "ended"} \/ SetUpAt(c, {"free"})
                      \/ pc[c] = "none" /\ c \in freed

\* A record that has never been linked.
Unused(c) ==
  started[c] = 0 /\ c \notin listed \cup freed /\ ~SetUpAt(c, {"unlinked", "free"})
Blank ==
  \A c \in Clients : Unused(c) => /\ c \notin hooked \cup due /\ prev[c] = NoClient
                                  /\ \A d \in Clients : next[d] # c

\* Once the server is being stopped nobody is set up.
Stopping ==
  /\ ~up <=> purpose[Main] = "cleanup" \/ pc[Main] = "joinListener"
  /\ purpose[Main] \in {"stop", "cleanup"} => pc[Listener] \in {"select", "ended"}

(***************************************************************************)
(* The list has an order: after is the set of the listed records behind    *)
(* each one, also behind one that is not listed any more.  It says that    *)
(* whoever is listed is reached from the head, which nothing about         *)
(* neighbours does.                                                        *)
(***************************************************************************)
InOrder(after) ==
  /\ listed = IF head = NoClient THEN {} ELSE {head} \cup after[head]
  /\ \A c \in listed : c \notin after[c]
  /\ \A c \in Clients :
       /\ after[c] \subseteq listed
       /\ after[c] = IF next[c] = NoClient THEN {}
                     ELSE ({next[c]} \cap listed) \cup after[next[c]]
ListInOrder == \E after \in [Clients -> SUBSET Clients] : InOrder(after)

OwnInv == TypeOK /\ Kinds /\ Hosting /\ Stages /\ Blank /\ Stopping
ThreadsInv == OwnInv /\ Walking /\ Outputs /\ RefsBalanced /\ ListLinked /\ ListInOrder

-----------------------------------------------------------------------------
(* Who owns which record *)

\* A walk that goes on changes nothing of it.
LEMMA WalkKeepsOwn ==
  ASSUME OwnInv, TypeOK', NEW t \in Threads, NEW to \in WalkPlaces,
         pc[t] \in WalkPlaces, pc' = [pc EXCEPT ![t] = to],
         due' \subseteq due,
         UNCHANGED <<purpose, cli, listed, freed, hooked, gone, started, next, prev, up>>
  PROVE  OwnInv'
<1> USE DEF OwnInv, TypeOK, Threads, Hosts
<1>1. Kinds' /\ Stopping'
  BY ThreadsAssumption DEF Kinds, Stopping, WalkPlaces, SetupPlaces, LinkedPlaces
<1>2. Hosting'
  BY ThreadsAssumption DEF Kinds, Hosting, SettingUp, WalkPlaces, SetupPlaces, LinkedPlaces
<1>3. Stages' /\ Blank'
  BY ThreadsAssumption
     DEF Kinds, Stages, Blank, Unused, SetUpAt, WalkPlaces, SetupPlaces, LinkedPlaces
<1> QED BY <1>1, <1>2, <1>3

LEMMA UnlinkOwn ==
  ASSUME OwnInv, ListLinked, refCount' \in [Clients -> Nat], NEW t \in Threads, Unlink(t)
  PROVE  OwnInv'
<1> USE ThreadsAssumption DEF OwnInv, TypeOK, Threads, Hosts, Unlink, Go, Leaving, Unlinked,
                              recordVars, hookVars, walkVars
<1>0. Leaving(t) \in Clients
  BY DEF Kinds, Hosting, SettingUp, SetupPlaces, LinkedPlaces
<1>1. TypeOK'
  BY <1>0 DEF Places, Kinds, Stages
<1>2. Kinds' /\ Stopping'
  BY DEF Kinds, Stopping, WalkPlaces, SetupPlaces, LinkedPlaces
<1>3. Hosting'
  BY DEF Kinds, Hosting, Stages, SettingUp, WalkPlaces, SetupPlaces, LinkedPlaces
<1>4. Stages'
  BY DEF Kinds, Hosting, Stages, SettingUp, SetUpAt, WalkPlaces, SetupPlaces, LinkedPlaces
<1>5. Blank'
  <2> DEFINE c == Leaving(t)
  <2> SUFFICES ASSUME NEW d \in Clients, Unused(d)'
               PROVE  /\ d \notin hooked \cup due /\ prev'[d] = NoClient
                      /\ \A e \in Clients : next'[e] # d
    BY DEF Blank
  <2>1. d # c
    <3>1. CASE t \in Clients
      BY <3>1 DEF Kinds, Stages, Unused, LinkedPlaces
    <3>2. CASE t \in Hosts
      BY <3>2 DEF Unused, SetUpAt
    <3> QED BY <3>1, <3>2
  <2>2. Unused(d) /\ d \notin listed
    BY <2>1 DEF Unused, SetUpAt
  <2>3. next[c] # d
    BY <2>2, <1>0 DEF ListLinked, Stages, Hosting, Kinds, SettingUp, SetUpAt, SetupPlaces,
                      LinkedPlaces
  <2> QED BY <2>2, <2>3, <1>0 DEF Blank
<1> QED BY <1>1, <1>2, <1>3, <1>4, <1>5

LEMMA HookOwn ==
  ASSUME OwnInv, refCount' \in [Clients -> Nat], NEW t \in Threads, WaitAndHook(t)
  PROVE  OwnInv'
<1> USE ThreadsAssumption DEF OwnInv, TypeOK, Threads, Hosts, WaitAndHook, Go, Leaving,
                              GoneHook, listVars, walkVars
<1>0. Leaving(t) \in Clients
  BY DEF Kinds, Hosting, SettingUp, SetupPlaces, LinkedPlaces
<1>1. TypeOK'
  BY <1>0 DEF Places, Kinds, Stages
<1>2. Kinds' /\ Stopping'
  BY DEF Kinds, Stopping, WalkPlaces, SetupPlaces, LinkedPlaces
<1>3. Hosting'
  BY DEF Kinds, Hosting, Stages, SettingUp, WalkPlaces, SetupPlaces, LinkedPlaces
<1>4. Stages'
  BY DEF Kinds, Hosting, Stages, SettingUp, SetUpAt, WalkPlaces, SetupPlaces, LinkedPlaces
<1>5. Blank'
  BY DEF Kinds, Hosting, Stages, Blank, Unused, SettingUp, SetUpAt, WalkPlaces, SetupPlaces,
         LinkedPlaces
<1> QED BY <1>1, <1>2, <1>3, <1>4, <1>5

LEMMA FreeOwn ==
  ASSUME OwnInv, refCount' \in [Clients -> Nat], NEW t \in Threads, Free(t)
  PROVE  OwnInv'
<1> USE ThreadsAssumption DEF OwnInv, TypeOK, Threads, Hosts, Free, Go, Leaving, Home,
                              listVars, hookVars, walkVars
<1>0. Leaving(t) \in Clients
  BY DEF Kinds, Hosting, SettingUp, SetupPlaces, LinkedPlaces
<1>1. TypeOK'
  BY <1>0 DEF Places, Kinds, Stages
<1>2. Kinds' /\ Stopping'
  BY DEF Kinds, Stopping, WalkPlaces, SetupPlaces, LinkedPlaces
<1>3. Hosting'
  BY DEF Kinds, Hosting, Stages, SettingUp, WalkPlaces, SetupPlaces, LinkedPlaces
<1>4. Stages'
  BY DEF Kinds, Hosting, Stages, SettingUp, SetUpAt, WalkPlaces, SetupPlaces, LinkedPlaces
<1>5. Blank'
  BY DEF Kinds, Hosting, Stages, Blank, Unused, SettingUp, SetUpAt, WalkPlaces, SetupPlaces,
         LinkedPlaces
<1> QED BY <1>1, <1>2, <1>3, <1>4, <1>5

LEMMA AcceptOwn ==
  ASSUME OwnInv, refCount' \in [Clients -> Nat], NEW t \in Hosts, Accept(t)
  PROVE  OwnInv'
<1> USE ThreadsAssumption DEF OwnInv, TypeOK, Threads, Hosts, Accept, Go, Home, StartWalk,
                              listVars, recordVars, hookVars
<1>1. TypeOK'
  BY DEF Places, Kinds
<1>2. Kinds' /\ Stopping'
  BY DEF Kinds, Stopping, WalkPlaces, SetupPlaces, LinkedPlaces
<1>3. Hosting'
  <2>1. PICK c \in Clients :
          /\ started[c] = 0 /\ c \notin listed \cup freed /\ \A a \in Acceptors : cli[a] # c
          /\ cli' = [cli EXCEPT ![t] = c]
    OBVIOUS
  <2>2. pc[c] = "none" /\ c # NoClient /\ c \in Clients /\ t \notin Clients
    BY <2>1 DEF Stages
  <2>3. c \notin hooked
    BY <2>1, <2>2 DEF Blank, Unused, SetUpAt, Hosting
  <2>4. ASSUME NEW h \in Hosts, h # t
        PROVE  /\ SettingUp(h)' <=> SettingUp(h)
               /\ cli'[h] = cli[h] /\ cli[h] # c
    BY <2>4, <2>1, <2>2 DEF Hosting, SettingUp
  <2> QED BY <2>1, <2>2, <2>3, <2>4 DEF Hosting, Kinds, SettingUp, SetupPlaces
<1>4. Stages'
  BY DEF Kinds, Hosting, Stages, SettingUp, SetUpAt, WalkPlaces, SetupPlaces, LinkedPlaces
<1>5. Blank'
  BY DEF Kinds, Hosting, Stages, Blank, Unused, SettingUp, SetUpAt, WalkPlaces, SetupPlaces,
         LinkedPlaces
<1> QED BY <1>1, <1>2, <1>3, <1>4, <1>5

LEMMA LinkOwn ==
  ASSUME OwnInv, ListLinked, refCount' \in [Clients -> Nat], NEW t \in Hosts, Link(t)
  PROVE  OwnInv'
<1> USE ThreadsAssumption DEF OwnInv, TypeOK, Threads, Hosts, Link, Go, hookVars
<1>0. cli[t] \in Clients
  BY DEF Kinds, Hosting, SettingUp, SetupPlaces, WalkPlaces
<1>1. TypeOK'
  BY <1>0 DEF Places, Kinds
<1>2. Kinds' /\ Stopping'
  BY DEF Kinds, Stopping, WalkPlaces, SetupPlaces, LinkedPlaces
<1>3. Hosting'
  BY DEF Kinds, Hosting, Stages, SettingUp, WalkPlaces, SetupPlaces, LinkedPlaces
<1>4. Stages'
  BY DEF Kinds, Hosting, Stages, SettingUp, SetUpAt, WalkPlaces, SetupPlaces, LinkedPlaces
<1>5. Blank'
  <2> SUFFICES ASSUME NEW d \in Clients, Unused(d)'
               PROVE  /\ d \notin hooked \cup due /\ prev'[d] = NoClient
                      /\ \A e \in Clients : next'[e] # d
    BY DEF Blank
  <2>1. Unused(d) /\ d # head
    BY <1>0 DEF Unused, SetUpAt, ListLinked, SetupPlaces
  <2> QED BY <2>1, <1>0 DEF Blank
<1> QED BY <1>1, <1>2, <1>3, <1>4, <1>5

LEMMA HelloOwn ==
  ASSUME OwnInv, refCount' \in [Clients -> Nat], NEW t \in Hosts, Hello(t)
  PROVE  OwnInv'
<1> USE ThreadsAssumption DEF OwnInv, TypeOK, Threads, Hosts, Hello, Go, listVars, recordVars,
                              walkVars
<1>0. cli[t] \in Clients
  BY DEF Kinds, Hosting, SettingUp, SetupPlaces, WalkPlaces
<1>1. TypeOK'
  BY <1>0 DEF Places, Kinds
<1>2. Kinds' /\ Stopping'
  BY DEF Kinds, Stopping, WalkPlaces, SetupPlaces, LinkedPlaces
<1>3. Hosting'
  BY DEF Kinds, Hosting, Stages, SettingUp, WalkPlaces, SetupPlaces, LinkedPlaces
<1>4. Stages'
  BY DEF Kinds, Hosting, Stages, SettingUp, SetUpAt, WalkPlaces, SetupPlaces, LinkedPlaces
<1>5. Blank'
  BY DEF Kinds, Hosting, Stages, Blank, Unused, SettingUp, SetUpAt, WalkPlaces, SetupPlaces,
         LinkedPlaces
<1> QED BY <1>1, <1>2, <1>3, <1>4, <1>5

LEMMA HelloFailsOwn ==
  ASSUME OwnInv, refCount' \in [Clients -> Nat], NEW t \in Hosts, HelloFails(t)
  PROVE  OwnInv'
<1> USE ThreadsAssumption DEF OwnInv, TypeOK, Threads, Hosts, HelloFails, CloseClient,
                              Signalled, Go, listVars, hookVars, walkVars
<1>1. TypeOK'
  BY DEF Places, Kinds
<1>2. Kinds' /\ Stopping'
  BY DEF Kinds, Stopping, WalkPlaces, SetupPlaces, LinkedPlaces
<1>3. Hosting'
  BY DEF Kinds, Hosting, Stages, SettingUp, WalkPlaces, SetupPlaces, LinkedPlaces
<1>4. Stages'
  BY DEF Kinds, Hosting, Stages, SettingUp, SetUpAt, WalkPlaces, SetupPlaces, LinkedPlaces
<1>5. Blank'
  BY DEF Kinds, Hosting, Stages, Blank, Unused, SettingUp, SetUpAt, WalkPlaces, SetupPlaces,
         LinkedPlaces
<1> QED BY <1>1, <1>2, <1>3, <1>4, <1>5

LEMMA StartOwn ==
  ASSUME OwnInv, refCount' \in [Clients -> Nat], NEW t \in Hosts, StartClient(t)
  PROVE  OwnInv'
<1> USE ThreadsAssumption DEF OwnInv, TypeOK, Threads, Hosts, StartClient, Home, listVars,
                              recordVars, walkVars
<1>0. cli[t] \in Clients
  BY DEF Kinds, Hosting, SettingUp, SetupPlaces, WalkPlaces
<1>1. TypeOK'
  BY <1>0 DEF Places, Kinds
<1>2. Kinds' /\ Stopping'
  BY <1>0 DEF Hosting, SettingUp, Kinds, Stopping, WalkPlaces, SetupPlaces, LinkedPlaces
<1>3. Hosting'
  BY DEF Kinds, Hosting, Stages, SettingUp, WalkPlaces, SetupPlaces, LinkedPlaces
<1>4. Stages'
  BY DEF Kinds, Hosting, Stages, SettingUp, SetUpAt, WalkPlaces, SetupPlaces, LinkedPlaces
<1>5. Blank'
  BY DEF Kinds, Hosting, Stages, Blank, Unused, SettingUp, SetUpAt, WalkPlaces, SetupPlaces,
         LinkedPlaces
<1> QED BY <1>1, <1>2, <1>3, <1>4, <1>5

LEMMA ListenerOwn ==
  ASSUME OwnInv, refCount' \in [Clients -> Nat], ListenerEnds
  PROVE  OwnInv'
<1> USE ThreadsAssumption DEF OwnInv, TypeOK, Threads, Hosts, ListenerEnds, Go, listVars,
                              recordVars, hookVars, walkVars
<1>1. TypeOK'
  BY DEF Places, Kinds
<1>2. Kinds' /\ Stopping'
  BY DEF Kinds, Stopping, WalkPlaces, SetupPlaces, LinkedPlaces
<1>3. Hosting'
  BY DEF Kinds, Hosting, Stages, SettingUp, WalkPlaces, SetupPlaces, LinkedPlaces
<1>4. Stages'
  BY DEF Kinds, Hosting, Stages, SettingUp, SetUpAt, WalkPlaces, SetupPlaces, LinkedPlaces
<1>5. Blank'
  BY DEF Kinds, Hosting, Stages, Blank, Unused, SettingUp, SetUpAt, WalkPlaces, SetupPlaces,
         LinkedPlaces
<1> QED BY <1>1, <1>2, <1>3, <1>4, <1>5

LEMMA AnswerOwn ==
  ASSUME OwnInv, refCount' \in [Clients -> Nat], NEW c \in Clients, Answer(c)
  PROVE  OwnInv'
<1> USE ThreadsAssumption DEF OwnInv, TypeOK, Threads, Hosts, Answer, HandshakeGoesOn,
                              InitMessage, StartWalk, Go, listVars, hookVars, walkVars
<1>1. TypeOK'
  BY DEF Places, Kinds
<1>2. Kinds' /\ Stopping'
  BY DEF Kinds, Stopping, WalkPlaces, SetupPlaces, LinkedPlaces
<1>3. Hosting'
  BY DEF Kinds, Hosting, Stages, SettingUp, WalkPlaces, SetupPlaces, LinkedPlaces
<1>4. Stages'
  BY DEF Kinds, Hosting, Stages, SettingUp, SetUpAt, WalkPlaces, SetupPlaces, LinkedPlaces
<1>5. Blank'
  BY DEF Kinds, Hosting, Stages, Blank, Unused, SettingUp, SetUpAt, WalkPlaces, SetupPlaces,
         LinkedPlaces
<1> QED BY <1>1, <1>2, <1>3, <1>4, <1>5

LEMMA MessageOwn ==
  ASSUME OwnInv, refCount' \in [Clients -> Nat], NEW c \in Clients, Message(c)
  PROVE  OwnInv'
<1> USE ThreadsAssumption DEF OwnInv, TypeOK, Threads, Hosts, Message, HandshakeMessage,
                              Request, PeerGone, CloseClient, Signalled, Go, listVars,
                              recordVars, hookVars, walkVars
<1>1. TypeOK'
  BY DEF Places, Kinds
<1>2. Kinds' /\ Stopping'
  BY DEF Kinds, Stopping, WalkPlaces, SetupPlaces, LinkedPlaces
<1>3. Hosting'
  BY DEF Kinds, Hosting, Stages, SettingUp, WalkPlaces, SetupPlaces, LinkedPlaces
<1>4. Stages'
  BY DEF Kinds, Hosting, Stages, SettingUp, SetUpAt, WalkPlaces, SetupPlaces, LinkedPlaces
<1>5. Blank'
  BY DEF Kinds, Hosting, Stages, Blank, Unused, SettingUp, SetUpAt, WalkPlaces, SetupPlaces,
         LinkedPlaces
<1> QED BY <1>1, <1>2, <1>3, <1>4, <1>5

LEMMA OthersClosedOwn ==
  ASSUME OwnInv, refCount' \in [Clients -> Nat], NEW c \in Clients, OthersClosed(c)
  PROVE  OwnInv'
<1> USE ThreadsAssumption DEF OwnInv, TypeOK, Threads, Hosts, OthersClosed, Go, listVars,
                              recordVars, hookVars
<1>1. TypeOK'
  BY DEF Places, Kinds
<1>2. Kinds' /\ Stopping'
  BY DEF Kinds, Stopping, WalkPlaces, SetupPlaces, LinkedPlaces
<1>3. Hosting'
  BY DEF Kinds, Hosting, Stages, SettingUp, WalkPlaces, SetupPlaces, LinkedPlaces
<1>4. Stages'
  BY DEF Kinds, Hosting, Stages, SettingUp, SetUpAt, WalkPlaces, SetupPlaces, LinkedPlaces
<1>5. Blank'
  BY DEF Kinds, Hosting, Stages, Blank, Unused, SettingUp, SetUpAt, WalkPlaces, SetupPlaces,
         LinkedPlaces
<1> QED BY <1>1, <1>2, <1>3, <1>4, <1>5

LEMMA LeaveOwn ==
  ASSUME OwnInv, refCount' \in [Clients -> Nat], NEW c \in Clients,
      LeaveLoop(c) \/ JoinOutput(c)
  PROVE  OwnInv'
<1> USE ThreadsAssumption DEF OwnInv, TypeOK, Threads, Hosts, LeaveLoop, JoinOutput, Signalled,
                              Go, listVars, recordVars, hookVars, walkVars
<1>1. TypeOK'
  <2>1. CASE LeaveLoop(c)
    BY <2>1 DEF Places
  <2>2. CASE JoinOutput(c)
    BY <2>2 DEF Places
  <2> QED BY <2>1, <2>2
<1>2. Kinds' /\ Stopping'
  BY DEF Kinds, Stopping, WalkPlaces, SetupPlaces, LinkedPlaces
<1>3. Hosting'
  BY DEF Kinds, Hosting, Stages, SettingUp, WalkPlaces, SetupPlaces, LinkedPlaces
<1>4. Stages'
  BY DEF Kinds, Hosting, Stages, SettingUp, SetUpAt, WalkPlaces, SetupPlaces, LinkedPlaces
<1>5. Blank'
  BY DEF Kinds, Hosting, Stages, Blank, Unused, SettingUp, SetUpAt, WalkPlaces, SetupPlaces,
         LinkedPlaces
<1> QED BY <1>1, <1>2, <1>3, <1>4, <1>5

LEMMA OutputOwn ==
  ASSUME OwnInv, refCount' \in [Clients -> Nat], NEW c \in Clients, OutputStep(c)
  PROVE  OwnInv'
<1> USE ThreadsAssumption DEF OwnInv, TypeOK, Threads, Hosts, OutputStep, Look, WaitForUpdate,
                              StartSend, EndSend, OutGo, listVars, recordVars, hookVars,
                              walkVars
<1>1. TypeOK'
  BY DEF Places, Kinds
<1>2. Kinds' /\ Stopping'
  BY DEF Kinds, Stopping, WalkPlaces, SetupPlaces, LinkedPlaces
<1>3. Hosting'
  BY DEF Kinds, Hosting, Stages, SettingUp, WalkPlaces, SetupPlaces, LinkedPlaces
<1>4. Stages'
  BY DEF Kinds, Hosting, Stages, SettingUp, SetUpAt, WalkPlaces, SetupPlaces, LinkedPlaces
<1>5. Blank'
  BY DEF Kinds, Hosting, Stages, Blank, Unused, SettingUp, SetUpAt, WalkPlaces, SetupPlaces,
         LinkedPlaces
<1> QED BY <1>1, <1>2, <1>3, <1>4, <1>5

LEMMA MarkingOwn ==
  ASSUME OwnInv, refCount' \in [Clients -> Nat], StartMark \/ MarkDone
  PROVE  OwnInv'
<1> USE ThreadsAssumption DEF OwnInv, TypeOK, Threads, Hosts, StartMark, MarkDone, StartWalk,
                              Go, listVars, recordVars, hookVars
<1>1. TypeOK'
  BY DEF Places, Kinds
<1>2. Kinds' /\ Stopping'
  BY DEF Kinds, Stopping, WalkPlaces, SetupPlaces, LinkedPlaces
<1>3. Hosting'
  BY DEF Kinds, Hosting, Stages, SettingUp, WalkPlaces, SetupPlaces, LinkedPlaces
<1>4. Stages'
  BY DEF Kinds, Hosting, Stages, SettingUp, SetUpAt, WalkPlaces, SetupPlaces, LinkedPlaces
<1>5. Blank'
  BY DEF Kinds, Hosting, Stages, Blank, Unused, SettingUp, SetUpAt, WalkPlaces, SetupPlaces,
         LinkedPlaces
<1> QED BY <1>1, <1>2, <1>3, <1>4, <1>5

LEMMA StopOwn ==
  ASSUME OwnInv, refCount' \in [Clients -> Nat], Stop
  PROVE  OwnInv'
<1> USE ThreadsAssumption DEF OwnInv, TypeOK, Threads, Hosts, Stop, StartWalk, Go, listVars,
                              recordVars, hookVars
<1>1. TypeOK'
  BY DEF Places, Kinds
<1>2. Kinds' /\ Stopping'
  BY DEF Kinds, Stopping, WalkPlaces, SetupPlaces, LinkedPlaces
<1>3. Hosting'
  BY DEF Kinds, Hosting, Stages, SettingUp, WalkPlaces, SetupPlaces, LinkedPlaces
<1>4. Stages'
  BY DEF Kinds, Hosting, Stages, SettingUp, SetUpAt, WalkPlaces, SetupPlaces, LinkedPlaces
<1>5. Blank'
  BY DEF Kinds, Hosting, Stages, Blank, Unused, SettingUp, SetUpAt, WalkPlaces, SetupPlaces,
         LinkedPlaces
<1> QED BY <1>1, <1>2, <1>3, <1>4, <1>5

LEMMA JoinOwn ==
  ASSUME OwnInv, refCount' \in [Clients -> Nat], StopOne \/ JoinInput
  PROVE  OwnInv'
<1> USE ThreadsAssumption DEF OwnInv, TypeOK, Threads, Hosts, StopOne, JoinInput, Onwards,
                              CloseClient, Signalled, Go, listVars, recordVars, hookVars,
                              walkVars
<1>1. TypeOK'
  BY DEF Places, Kinds
<1>2. Kinds' /\ Stopping'
  BY DEF Kinds, Stopping, WalkPlaces, SetupPlaces, LinkedPlaces
<1>3. Hosting'
  BY DEF Kinds, Hosting, Stages, SettingUp, WalkPlaces, SetupPlaces, LinkedPlaces
<1>4. Stages'
  BY DEF Kinds, Hosting, Stages, SettingUp, SetUpAt, WalkPlaces, SetupPlaces, LinkedPlaces
<1>5. Blank'
  BY DEF Kinds, Hosting, Stages, Blank, Unused, SettingUp, SetUpAt, WalkPlaces, SetupPlaces,
         LinkedPlaces
<1> QED BY <1>1, <1>2, <1>3, <1>4, <1>5

LEMMA ShutdownOwn ==
  ASSUME OwnInv, refCount' \in [Clients -> Nat], ShutdownSockets \/ JoinListener \/ ScreenFreed
  PROVE  OwnInv'
<1> USE ThreadsAssumption DEF OwnInv, TypeOK, Threads, Hosts, ShutdownSockets, JoinListener,
                              ScreenFreed, StartWalk, Go, listVars, recordVars, hookVars,
                              walkVars
<1>1. TypeOK'
  <2>1. CASE ShutdownSockets
    BY <2>1 DEF Places
  <2>2. CASE JoinListener
    BY <2>2 DEF Places
  <2>3. CASE ScreenFreed
    BY <2>3 DEF Places
  <2> QED BY <2>1, <2>2, <2>3
<1>2. Kinds' /\ Stopping'
  BY DEF Kinds, Stopping, WalkPlaces, SetupPlaces, LinkedPlaces
<1>3. Hosting'
  BY DEF Kinds, Hosting, Stages, SettingUp, WalkPlaces, SetupPlaces, LinkedPlaces
<1>4. Stages'
  BY DEF Kinds, Hosting, Stages, SettingUp, SetUpAt, WalkPlaces, SetupPlaces, LinkedPlaces
<1>5. Blank'
  BY DEF Kinds, Hosting, Stages, Blank, Unused, SettingUp, SetUpAt, WalkPlaces, SetupPlaces,
         LinkedPlaces
<1> QED BY <1>1, <1>2, <1>3, <1>4, <1>5

LEMMA WalkOwn ==
  ASSUME OwnInv, Walking, refCount' \in [Clients -> Nat], NEW t \in Threads, Walk(t)
  PROVE  OwnInv'
<1> USE DEF listVars, recordVars, hookVars, walkVars
<1>1. CASE SkipClosed(t)
  <2>1. TypeOK'
    BY <1>1 DEF OwnInv, TypeOK, SkipClosed
  <2>2. pc[t] \in WalkPlaces /\ pc' = [pc EXCEPT ![t] = "fetched"]
    BY <1>1 DEF SkipClosed, OwnInv, TypeOK, WalkPlaces
  <2> QED BY <1>1, <2>1, <2>2, WalkKeepsOwn DEF SkipClosed, WalkPlaces
<1>2. CASE TakeReference(t)
  <2>1. TypeOK'
    BY <1>2 DEF OwnInv, TypeOK, TakeReference, Go, Places
  <2>2. PICK to \in {"act", "advance"} : pc' = [pc EXCEPT ![t] = to]
    BY <1>2 DEF TakeReference, Go
  <2> QED BY <1>2, <2>1, <2>2, WalkKeepsOwn DEF TakeReference, Go, WalkPlaces
<1>3. CASE Advance(t)
  <2>1. it[t] \in Clients
    BY <1>3 DEF Advance, Go, Walking, OwnInv, TypeOK
  <2>2. TypeOK'
    BY <1>3, <2>1 DEF OwnInv, TypeOK, Advance, Go, Places
  <2> QED BY <1>3, <2>2, WalkKeepsOwn DEF Advance, Go, WalkPlaces
<1>4. CASE LastFetched(t)
  <2>1. TypeOK'
    BY <1>4 DEF OwnInv, TypeOK, LastFetched, Go, Places
  <2>2. PICK to \in {"act", "walked"} : pc' = [pc EXCEPT ![t] = to]
    BY <1>4 DEF LastFetched, Go
  <2> QED BY <1>4, <2>1, <2>2, WalkKeepsOwn DEF LastFetched, Go, WalkPlaces
<1> QED BY <1>1, <1>2, <1>3, <1>4 DEF Walk

\* A walk goes on when one client has been counted, marked or closed.
LEMMA CountedOwn ==
  ASSUME OwnInv, refCount' \in [Clients -> Nat], NEW t \in Threads, Counted(t)
  PROVE  OwnInv'
<1> USE DEF listVars, recordVars, hookVars, walkVars
<1>1. TypeOK'
  BY DEF OwnInv, TypeOK, Counted, Go, Places
<1> QED BY <1>1, WalkKeepsOwn DEF Counted, Go, WalkPlaces

LEMMA CloseOtherOwn ==
  ASSUME OwnInv, refCount' \in [Clients -> Nat], NEW t \in Clients, CloseOther(t)
  PROVE  OwnInv'
<1> USE DEF listVars, recordVars, hookVars, walkVars
<1>1. TypeOK' /\ t \in Threads
  BY DEF OwnInv, TypeOK, CloseOther, CloseClient, Signalled, Go, Onwards, Places, Threads
<1>2. PICK to \in {"walked", "advance"} : pc' = [pc EXCEPT ![t] = to]
  BY DEF CloseOther, Go, Onwards
<1> QED BY <1>1, <1>2, WalkKeepsOwn DEF CloseOther, Go, WalkPlaces

LEMMA MarkOneOwn ==
  ASSUME OwnInv, refCount' \in [Clients -> Nat], MarkOne
  PROVE  OwnInv'
<1> USE DEF listVars, recordVars, hookVars, walkVars
<1>1. TypeOK' /\ Main \in Threads
  BY DEF OwnInv, TypeOK, MarkOne, Signalled, Go, Places, Threads
<1> QED BY <1>1, WalkKeepsOwn DEF MarkOne, Go, WalkPlaces

-----------------------------------------------------------------------------
(* References *)

\* The client a thread holds a reference to by its iterator.
Holds(t) == IF pc[t] = "fetched" THEN NoClient ELSE it[t]
Sends(c) == outPc[c] = "send"

LEMMA IteratingHolds ==
  ASSUME NEW c \in Clients
  PROVE  /\ Iterating(c) = {t \in Threads : Holds(t) = c}
         /\ IsFiniteSet(Iterating(c))
<1>1. Iterating(c) = {t \in Threads : Holds(t) = c}
  BY ThreadsAssumption DEF Iterating, Holds, Threads
<1>2. IsFiniteSet(Threads)
  <2>1. IsFiniteSet(Clients \cup {Main})
    BY ThreadsAssumption, FS_AddElement
  <2> QED BY <2>1, FS_AddElement, Threads = (Clients \cup {Main}) \cup {Listener} DEF Threads
<1>3. Iterating(c) \subseteq Threads
  BY DEF Iterating
<1> QED BY <1>1, <1>2, <1>3, FS_Subset

\* Who takes no reference and gives none back leaves the counts alone.
LEMMA RefsFrame ==
  ASSUME RefsBalanced, UNCHANGED refCount,
         \A t \in Threads : Holds(t)' = Holds(t),
         \A c \in Clients : Sends(c)' <=> Sends(c)
  PROVE  RefsBalanced'
<1> SUFFICES ASSUME NEW c \in Clients
             PROVE  refCount'[c] = Cardinality(Iterating(c)') + SendingRef(c)'
  BY DEF RefsBalanced
<1>1. Iterating(c)' = {t \in Threads : Holds(t)' = c}
  BY ThreadsAssumption DEF Iterating, Holds, Threads
<1>2. Iterating(c)' = Iterating(c)
  BY <1>1, IteratingHolds
<1>3. SendingRef(c)' = SendingRef(c)
  BY DEF SendingRef, Sends
<1> QED BY <1>2, <1>3 DEF RefsBalanced
LEMMA ReferenceTaken ==
  ASSUME TypeOK, RefsBalanced, NEW t \in Threads, NEW c \in Clients,
         Holds(t) = NoClient, Holds(t)' = c, refCount' = Referenced(c),
         \A u \in Threads \ {t} : Holds(u)' = Holds(u),
         \A d \in Clients : Sends(d)' <=> Sends(d)
  PROVE  RefsBalanced' /\ refCount' \in [Clients -> Nat]
<1>1. refCount' \in [Clients -> Nat]
  BY DEF TypeOK, Referenced
<1>2. ASSUME NEW d \in Clients
      PROVE  refCount'[d] = Cardinality(Iterating(d)') + SendingRef(d)'
  <2>1. Iterating(d)' = {u \in Threads : Holds(u)' = d}
    BY ThreadsAssumption DEF Iterating, Holds, Threads
  <2>2. SendingRef(d)' = SendingRef(d) /\ SendingRef(d) \in Nat
    BY DEF SendingRef, Sends
  <2>3. CASE d = c
    <3>1. Iterating(d)' = Iterating(d) \cup {t} /\ t \notin Iterating(d)
      BY <2>1, <2>3, IteratingHolds, ThreadsAssumption DEF Threads
    <3>2. Cardinality(Iterating(d)') = Cardinality(Iterating(d)) + 1
      BY <3>1, IteratingHolds, FS_AddElement
    <3>3. Cardinality(Iterating(d)) \in Nat
      BY IteratingHolds, FS_CardinalityType
    <3> QED BY <2>2, <2>3, <3>2, <3>3 DEF RefsBalanced, TypeOK, Referenced
  <2>4. CASE d # c
    <3>1. Iterating(d)' = Iterating(d)
      BY <2>1, <2>4, IteratingHolds, ThreadsAssumption DEF Threads
    <3> QED BY <2>2, <2>4, <3>1 DEF RefsBalanced, TypeOK, Referenced
  <2> QED BY <2>3, <2>4
<1> QED BY <1>1, <1>2 DEF RefsBalanced

LEMMA ReferenceGiven ==
  ASSUME TypeOK, RefsBalanced, NEW t \in Threads, NEW c \in Clients,
         Holds(t) = c, Holds(t)' = NoClient, refCount' = Released(c),
         \A u \in Threads \ {t} : Holds(u)' = Holds(u),
         \A d \in Clients : Sends(d)' <=> Sends(d)
  PROVE  RefsBalanced' /\ refCount' \in [Clients -> Nat]
<1>0. \A d \in Clients : Cardinality(Iterating(d)) \in Nat /\ SendingRef(d) \in Nat
  BY IteratingHolds, FS_CardinalityType DEF SendingRef
<1>2. ASSUME NEW d \in Clients
      PROVE  /\ refCount'[d] = Cardinality(Iterating(d)') + SendingRef(d)'
             /\ refCount'[d] \in Nat
  <2>1. Iterating(d)' = {u \in Threads : Holds(u)' = d}
    BY ThreadsAssumption DEF Iterating, Holds, Threads
  <2>2. SendingRef(d)' = SendingRef(d) /\ SendingRef(d) \in Nat
    BY DEF SendingRef, Sends
  <2>3. CASE d = c
    <3>1. Iterating(d)' = Iterating(d) \ {t} /\ t \in Iterating(d)
      BY <2>1, <2>3, IteratingHolds, ThreadsAssumption DEF Threads
    <3>2. /\ Cardinality(Iterating(d)') = Cardinality(Iterating(d)) - 1
          /\ Cardinality(Iterating(d)') \in Nat
      BY <3>1, IteratingHolds, FS_RemoveElement, FS_CardinalityType
    <3> QED BY <2>2, <2>3, <3>2, <1>0 DEF RefsBalanced, TypeOK, Released
  <2>4. CASE d # c
    <3>1. Iterating(d)' = Iterating(d)
      BY <2>1, <2>4, IteratingHolds, ThreadsAssumption DEF Threads
    <3> QED BY <2>2, <2>4, <3>1 DEF RefsBalanced, TypeOK, Released
  <2> QED BY <2>3, <2>4
<1>3. refCount' = [d \in Clients |-> refCount'[d]]
  BY DEF TypeOK, Released
<1> QED BY <1>2, <1>3 DEF RefsBalanced

\* An output thread takes a reference while it sends.
LEMMA OutputRefs ==
  ASSUME TypeOK, RefsBalanced, NEW c \in Clients, OutputStep(c)
  PROVE  RefsBalanced' /\ refCount' \in [Clients -> Nat]
<1> USE DEF OutGo, recordVars, walkVars
<1>0. \A d \in Clients : Cardinality(Iterating(d)) \in Nat
  BY IteratingHolds, FS_CardinalityType
<1>1. UNCHANGED <<pc, it>>
  BY DEF OutputStep, Look, WaitForUpdate, StartSend, EndSend
<1>2. \A d \in Clients : Iterating(d)' = Iterating(d)
  BY <1>1 DEF Iterating
<1>3. CASE Look(c) \/ WaitForUpdate(c)
  <2>1. refCount' = refCount /\ \A d \in Clients : Sends(d)' <=> Sends(d)
    BY <1>3 DEF Look, WaitForUpdate, Sends, TypeOK
  <2> QED BY <2>1, <1>2 DEF RefsBalanced, SendingRef, Sends, TypeOK
<1>4. CASE StartSend(c)
  <2>1. \A d \in Clients : SendingRef(d)' = IF d = c THEN SendingRef(c) + 1 ELSE SendingRef(d)
    BY <1>4 DEF StartSend, SendingRef, TypeOK
  <2>2. refCount' \in [Clients -> Nat]
    BY <1>4 DEF StartSend, Referenced, TypeOK
  <2>3. \A d \in Clients : SendingRef(d) \in Nat
    BY DEF SendingRef
  <2>4. ASSUME NEW d \in Clients
        PROVE  refCount'[d] = Cardinality(Iterating(d)') + SendingRef(d)'
    <3>1. refCount[d] = Cardinality(Iterating(d)) + SendingRef(d)
      BY DEF RefsBalanced
    <3>2. refCount'[d] = IF d = c THEN refCount[d] + 1 ELSE refCount[d]
      BY <1>4 DEF StartSend, Referenced, TypeOK
    <3> QED BY <3>1, <3>2, <2>1, <2>3, <1>2, <1>0
  <2> QED BY <2>2, <2>4 DEF RefsBalanced
<1>5. CASE EndSend(c)
  <2>1. /\ \A d \in Clients : SendingRef(d)' = IF d = c THEN 0 ELSE SendingRef(d)
        /\ SendingRef(c) = 1
    BY <1>5 DEF EndSend, SendingRef, TypeOK
  <2>2. \A d \in Clients : SendingRef(d) \in Nat
    BY DEF SendingRef
  <2>3. refCount[c] = Cardinality(Iterating(c)) + 1
    BY <2>1 DEF RefsBalanced
  <2>4. refCount' \in [Clients -> Nat]
    BY <1>5, <2>3, <1>0 DEF EndSend, Released, TypeOK
  <2> QED BY <1>5, <2>1, <2>2, <2>3, <2>4, <1>2, <1>0 DEF RefsBalanced, EndSend, Released,
                                                          TypeOK
<1> QED BY <1>3, <1>4, <1>5 DEF OutputStep
\* A step of a walk: the reference is taken and given back by the iterator.
LEMMA WalkRefs ==
  ASSUME TypeOK, RefsBalanced, Walking, Outputs, NEW t \in Threads, Walk(t)
  PROVE  RefsBalanced' /\ refCount' \in [Clients -> Nat] /\ Walking' /\ Outputs'
<1> USE ThreadsAssumption DEF listVars, recordVars, hookVars, walkVars, Go, Threads
<1>0. \A d \in Clients : Sends(d)' <=> Sends(d)
  BY DEF Walk, SkipClosed, TakeReference, Advance, LastFetched, Sends
<1>1. CASE SkipClosed(t)
  <2>1. next[it[t]] \in Clients \cup {NoClient}
    BY <1>1 DEF SkipClosed, TypeOK
  <2>2. \A u \in Threads : Holds(u)' = Holds(u)
    BY <1>1, <2>1 DEF SkipClosed, Holds, TypeOK
  <2>3. RefsBalanced' /\ refCount' \in [Clients -> Nat]
    BY <1>1, <1>0, <2>2, RefsFrame DEF SkipClosed, TypeOK
  <2>4. Walking' /\ Outputs'
    BY <1>1 DEF SkipClosed, Walking, Outputs, Prefetching, TypeOK
  <2> QED BY <2>3, <2>4
<1>2. CASE TakeReference(t)
  <2>1. it[t] \in Clients
    BY <1>2 DEF TakeReference, TypeOK
  <2>2. Holds(t) = NoClient /\ Holds(t)' = it[t] /\ \A u \in Threads \ {t} : Holds(u)' = Holds(u)
    BY <1>2 DEF TakeReference, Holds, TypeOK
  <2>3. RefsBalanced' /\ refCount' \in [Clients -> Nat]
    BY <1>2, <1>0, <2>1, <2>2, ReferenceTaken DEF TakeReference
  <2>4. Walking' /\ Outputs'
    BY <1>2 DEF TakeReference, Walking, Outputs, Prefetching, TypeOK
  <2> QED BY <2>3, <2>4
<1>3. CASE Advance(t)
  <2>1. it[t] \in Clients /\ next[it[t]] \in Clients \cup {NoClient}
    BY <1>3 DEF Advance, Walking, TypeOK
  <2>2. Holds(t) = it[t] /\ Holds(t)' = NoClient /\ \A u \in Threads \ {t} : Holds(u)' = Holds(u)
    BY <1>3, <2>1 DEF Advance, Holds, TypeOK
  <2>3. RefsBalanced' /\ refCount' \in [Clients -> Nat]
    BY <1>3, <1>0, <2>1, <2>2, ReferenceGiven DEF Advance
  <2>4. Walking' /\ Outputs'
    BY <1>3 DEF Advance, Walking, Outputs, Prefetching, TypeOK
  <2> QED BY <2>3, <2>4
<1>4. CASE LastFetched(t)
  <2>2. \A u \in Threads : Holds(u)' = Holds(u)
    BY <1>4 DEF LastFetched, Holds, TypeOK
  <2>3. RefsBalanced' /\ refCount' \in [Clients -> Nat]
    BY <1>4, <1>0, <2>2, RefsFrame DEF LastFetched, TypeOK
  <2>4. Walking' /\ Outputs'
    BY <1>4 DEF LastFetched, Walking, Outputs, Prefetching, TypeOK
  <2> QED BY <2>3, <2>4
<1> QED BY <1>1, <1>2, <1>3, <1>4 DEF Walk

\* Whoever leaves, is at no walk.
LEMMA GoneRefs ==
  ASSUME OwnInv, RefsBalanced, Walking, Outputs, NEW t \in Threads,
         Unlink(t) \/ WaitAndHook(t) \/ Free(t)
  PROVE  RefsBalanced' /\ refCount' \in [Clients -> Nat] /\ Walking' /\ Outputs'
<1> USE ThreadsAssumption DEF OwnInv, TypeOK, listVars, recordVars, hookVars, walkVars, Go,
                              Threads, Hosts
<1> DEFINE Steady == /\ \A u \in Threads : Holds(u)' = Holds(u)
                     /\ \A d \in Clients : Sends(d)' <=> Sends(d)
                     /\ UNCHANGED refCount
<1>1. CASE Unlink(t)
  <2>1. Steady
    BY <1>1 DEF Unlink, Leaving, Holds, Sends, Walking, Outputs, Kinds, Hosting, SettingUp,
                WalkPlaces, SetupPlaces, LinkedPlaces
  <2>2. Walking' /\ Outputs'
    BY <1>1 DEF Unlink, Leaving, Walking, Outputs, Prefetching, Kinds, Hosting, SettingUp,
                WalkPlaces, SetupPlaces, LinkedPlaces
  <2> QED BY <2>1, <2>2, RefsFrame
<1>2. CASE WaitAndHook(t)
  <2>1. Steady
    BY <1>2 DEF WaitAndHook, Holds, Sends, Walking, Outputs, Kinds, Hosting, SettingUp,
                WalkPlaces, SetupPlaces, LinkedPlaces
  <2>2. Walking' /\ Outputs'
    BY <1>2 DEF WaitAndHook, Walking, Outputs, Prefetching, Kinds, Hosting, SettingUp,
                WalkPlaces, SetupPlaces, LinkedPlaces
  <2> QED BY <2>1, <2>2, RefsFrame
<1>3. CASE Free(t)
  <2>1. Steady
    BY <1>3 DEF Free, Home, Leaving, Holds, Sends, Walking, Outputs, Kinds, Hosting, SettingUp,
                WalkPlaces, SetupPlaces, LinkedPlaces
  <2>2. Walking' /\ Outputs'
    BY <1>3 DEF Free, Home, Leaving, Walking, Outputs, Prefetching, Kinds, Hosting, SettingUp,
                WalkPlaces, SetupPlaces, LinkedPlaces
  <2> QED BY <2>1, <2>2, RefsFrame
<1> QED BY <1>1, <1>2, <1>3

\* Setting up begins with a walk.
LEMMA SetUpRefs ==
  ASSUME OwnInv, RefsBalanced, Walking, Outputs, NEW t \in Hosts,
         Accept(t) \/ Counted(t) \/ Link(t) \/ Hello(t) \/ HelloFails(t) \/ StartClient(t)
  PROVE  RefsBalanced' /\ refCount' \in [Clients -> Nat] /\ Walking' /\ Outputs'
<1> USE ThreadsAssumption DEF OwnInv, TypeOK, listVars, recordVars, hookVars, walkVars, Go,
                              Threads, Hosts
<1> DEFINE Steady == /\ \A u \in Threads : Holds(u)' = Holds(u)
                     /\ \A d \in Clients : Sends(d)' <=> Sends(d)
                     /\ UNCHANGED refCount
<1>1. CASE Accept(t)
  <2>1. Steady
    BY <1>1 DEF Accept, StartWalk, Home, Holds, Sends, Walking, Outputs, Kinds, Hosting,
                SettingUp, WalkPlaces, SetupPlaces, LinkedPlaces
  <2>2. Walking' /\ Outputs'
    BY <1>1 DEF Accept, StartWalk, Home, Walking, Outputs, Prefetching, Kinds, Hosting,
                SettingUp, WalkPlaces, SetupPlaces, LinkedPlaces
  <2> QED BY <2>1, <2>2, RefsFrame
<1>2. CASE Counted(t)
  <2>1. Steady
    BY <1>2 DEF Counted, Holds, Sends, Walking, Outputs, Kinds, Hosting, SettingUp, WalkPlaces,
                SetupPlaces, LinkedPlaces
  <2>2. Walking' /\ Outputs'
    BY <1>2 DEF Counted, Walking, Outputs, Prefetching, Kinds, Hosting, SettingUp, WalkPlaces,
                SetupPlaces, LinkedPlaces
  <2> QED BY <2>1, <2>2, RefsFrame
<1>3. CASE Link(t)
  <2>1. Steady
    BY <1>3 DEF Link, Holds, Sends, Walking, Outputs, Kinds, Hosting, SettingUp, WalkPlaces,
                SetupPlaces, LinkedPlaces
  <2>2. Walking' /\ Outputs'
    BY <1>3 DEF Link, Walking, Outputs, Prefetching, Kinds, Hosting, SettingUp, WalkPlaces,
                SetupPlaces, LinkedPlaces
  <2> QED BY <2>1, <2>2, RefsFrame
<1>4. CASE Hello(t)
  <2>1. Steady
    BY <1>4 DEF Hello, Holds, Sends, Walking, Outputs, Kinds, Hosting, SettingUp, WalkPlaces,
                SetupPlaces, LinkedPlaces
  <2>2. Walking' /\ Outputs'
    BY <1>4 DEF Hello, Walking, Outputs, Prefetching, Kinds, Hosting, SettingUp, WalkPlaces,
                SetupPlaces, LinkedPlaces
  <2> QED BY <2>1, <2>2, RefsFrame
<1>5. CASE HelloFails(t)
  <2>1. Steady
    BY <1>5 DEF HelloFails, CloseClient, Signalled, Holds, Sends, Walking, Outputs, Kinds,
                Hosting, SettingUp, WalkPlaces, SetupPlaces, LinkedPlaces
  <2>2. Walking' /\ Outputs'
    BY <1>5 DEF HelloFails, CloseClient, Signalled, Walking, Outputs, Prefetching, Kinds,
                Hosting, SettingUp, WalkPlaces, SetupPlaces, LinkedPlaces
  <2> QED BY <2>1, <2>2, RefsFrame
<1>6. CASE StartClient(t)
  <2>1. Steady
    BY <1>6 DEF StartClient, Home, Holds, Sends, Walking, Outputs, Kinds, Hosting, SettingUp,
                WalkPlaces, SetupPlaces, LinkedPlaces
  <2>2. Walking' /\ Outputs'
    BY <1>6 DEF StartClient, Home, Walking, Outputs, Prefetching, Kinds, Hosting, SettingUp,
                WalkPlaces, SetupPlaces, LinkedPlaces
  <2> QED BY <2>1, <2>2, RefsFrame
<1> QED BY <1>1, <1>2, <1>3, <1>4, <1>5, <1>6

\* An input thread walks to close the others.
LEMMA InputRefs ==
  ASSUME OwnInv, RefsBalanced, Walking, Outputs, NEW c \in Clients,
         Message(c) \/ Answer(c) \/ CloseOther(c) \/ OthersClosed(c) \/ LeaveLoop(c)
         \/ JoinOutput(c)
  PROVE  RefsBalanced' /\ refCount' \in [Clients -> Nat] /\ Walking' /\ Outputs'
<1> USE ThreadsAssumption DEF OwnInv, TypeOK, listVars, recordVars, hookVars, walkVars, Go,
                              Threads, Hosts
<1> DEFINE Steady == /\ \A u \in Threads : Holds(u)' = Holds(u)
                     /\ \A d \in Clients : Sends(d)' <=> Sends(d)
                     /\ UNCHANGED refCount
<1>1. CASE Message(c)
  <2>1. Steady
    BY <1>1 DEF Message, HandshakeMessage, Request, PeerGone, CloseClient, Signalled, Holds,
                Sends, Walking, Outputs, Kinds, Hosting, SettingUp, WalkPlaces, SetupPlaces,
                LinkedPlaces
  <2>2. Walking' /\ Outputs'
    BY <1>1 DEF Message, HandshakeMessage, Request, PeerGone, CloseClient, Signalled, Walking,
                Outputs, Prefetching, Kinds, Hosting, SettingUp, WalkPlaces, SetupPlaces,
                LinkedPlaces
  <2> QED BY <2>1, <2>2, RefsFrame
<1>2. CASE Answer(c)
  <2>1. Steady
    BY <1>2 DEF Answer, HandshakeGoesOn, InitMessage, StartWalk, Holds, Sends, Walking,
                Outputs, Kinds, Hosting, SettingUp, WalkPlaces, SetupPlaces, LinkedPlaces
  <2>2. Walking' /\ Outputs'
    BY <1>2 DEF Answer, HandshakeGoesOn, InitMessage, StartWalk, Walking, Outputs, Prefetching,
                Kinds, Hosting, SettingUp, WalkPlaces, SetupPlaces, LinkedPlaces
  <2> QED BY <2>1, <2>2, RefsFrame
<1>3. CASE CloseOther(c)
  <2>1. Steady
    BY <1>3 DEF CloseOther, CloseClient, Signalled, Onwards, Holds, Sends, Walking, Outputs,
                Kinds, Hosting, SettingUp, WalkPlaces, SetupPlaces, LinkedPlaces
  <2>2. Walking' /\ Outputs'
    BY <1>3 DEF CloseOther, CloseClient, Signalled, Onwards, Walking, Outputs, Prefetching,
                Kinds, Hosting, SettingUp, WalkPlaces, SetupPlaces, LinkedPlaces
  <2> QED BY <2>1, <2>2, RefsFrame
<1>4. CASE OthersClosed(c)
  <2>1. Steady
    BY <1>4 DEF OthersClosed, Holds, Sends, Walking, Outputs, Kinds, Hosting, SettingUp,
                WalkPlaces, SetupPlaces, LinkedPlaces
  <2>2. Walking' /\ Outputs'
    BY <1>4 DEF OthersClosed, Walking, Outputs, Prefetching, Kinds, Hosting, SettingUp,
                WalkPlaces, SetupPlaces, LinkedPlaces
  <2> QED BY <2>1, <2>2, RefsFrame
<1>5. CASE LeaveLoop(c)
  <2>1. Steady
    BY <1>5 DEF LeaveLoop, Signalled, Holds, Sends, Walking, Outputs, Kinds, Hosting,
                SettingUp, WalkPlaces, SetupPlaces, LinkedPlaces
  <2>2. Walking' /\ Outputs'
    BY <1>5 DEF LeaveLoop, Signalled, Walking, Outputs, Prefetching, Kinds, Hosting, SettingUp,
                WalkPlaces, SetupPlaces, LinkedPlaces
  <2> QED BY <2>1, <2>2, RefsFrame
<1>6. CASE JoinOutput(c)
  <2>1. Steady
    BY <1>6 DEF JoinOutput, Holds, Sends, Walking, Outputs, Kinds, Hosting, SettingUp,
                WalkPlaces, SetupPlaces, LinkedPlaces
  <2>2. Walking' /\ Outputs'
    BY <1>6 DEF JoinOutput, OutputEnded, Walking, Outputs, Prefetching, Kinds, Hosting, SettingUp,
                WalkPlaces, SetupPlaces, LinkedPlaces
  <2> QED BY <2>1, <2>2, RefsFrame
<1> QED BY <1>1, <1>2, <1>3, <1>4, <1>5, <1>6

\* The main thread walks to mark, to stop and to clean up.
LEMMA MainRefs ==
  ASSUME OwnInv, RefsBalanced, Walking, Outputs,
         MarkOne \/ MarkDone \/ StopOne \/ JoinInput \/ ShutdownSockets \/ JoinListener
         \/ ScreenFreed \/ StartMark \/ Stop \/ ListenerEnds
  PROVE  RefsBalanced' /\ refCount' \in [Clients -> Nat] /\ Walking' /\ Outputs'
<1> USE ThreadsAssumption DEF OwnInv, TypeOK, listVars, recordVars, hookVars, walkVars, Go,
                              Threads, Hosts
<1> DEFINE Steady == /\ \A u \in Threads : Holds(u)' = Holds(u)
                     /\ \A d \in Clients : Sends(d)' <=> Sends(d)
                     /\ UNCHANGED refCount
<1>1. CASE MarkOne
  <2>1. Steady
    BY <1>1 DEF MarkOne, Signalled, Holds, Sends, Walking, Outputs, Kinds, Hosting, SettingUp,
                WalkPlaces, SetupPlaces, LinkedPlaces
  <2>2. Walking' /\ Outputs'
    BY <1>1 DEF MarkOne, Signalled, Walking, Outputs, Prefetching, Kinds, Hosting, SettingUp,
                WalkPlaces, SetupPlaces, LinkedPlaces
  <2> QED BY <2>1, <2>2, RefsFrame
<1>2. CASE MarkDone
  <2>1. Steady
    BY <1>2 DEF MarkDone, Holds, Sends, Walking, Outputs, Kinds, Hosting, SettingUp,
                WalkPlaces, SetupPlaces, LinkedPlaces
  <2>2. Walking' /\ Outputs'
    BY <1>2 DEF MarkDone, Walking, Outputs, Prefetching, Kinds, Hosting, SettingUp, WalkPlaces,
                SetupPlaces, LinkedPlaces
  <2> QED BY <2>1, <2>2, RefsFrame
<1>3. CASE StopOne
  <2>1. Steady
    BY <1>3 DEF StopOne, CloseClient, Signalled, Holds, Sends, Walking, Outputs, Kinds,
                Hosting, SettingUp, WalkPlaces, SetupPlaces, LinkedPlaces
  <2>2. Walking' /\ Outputs'
    BY <1>3 DEF StopOne, CloseClient, Signalled, Walking, Outputs, Prefetching, Kinds, Hosting,
                SettingUp, WalkPlaces, SetupPlaces, LinkedPlaces
  <2> QED BY <2>1, <2>2, RefsFrame
<1>4. CASE JoinInput
  <2>1. Steady
    BY <1>4 DEF JoinInput, Onwards, Holds, Sends, Walking, Outputs, Kinds, Hosting, SettingUp,
                WalkPlaces, SetupPlaces, LinkedPlaces
  <2>2. Walking' /\ Outputs'
    BY <1>4 DEF JoinInput, Onwards, Walking, Outputs, Prefetching, Kinds, Hosting, SettingUp,
                WalkPlaces, SetupPlaces, LinkedPlaces
  <2> QED BY <2>1, <2>2, RefsFrame
<1>5. CASE ShutdownSockets
  <2>1. Steady
    BY <1>5 DEF ShutdownSockets, Holds, Sends, Walking, Outputs, Kinds, Hosting, SettingUp,
                WalkPlaces, SetupPlaces, LinkedPlaces
  <2>2. Walking' /\ Outputs'
    BY <1>5 DEF ShutdownSockets, Walking, Outputs, Prefetching, Kinds, Hosting, SettingUp,
                WalkPlaces, SetupPlaces, LinkedPlaces
  <2> QED BY <2>1, <2>2, RefsFrame
<1>6. CASE JoinListener
  <2>1. Steady
    BY <1>6 DEF JoinListener, StartWalk, Holds, Sends, Walking, Outputs, Kinds, Hosting,
                SettingUp, WalkPlaces, SetupPlaces, LinkedPlaces
  <2>2. Walking' /\ Outputs'
    BY <1>6 DEF JoinListener, StartWalk, Walking, Outputs, Prefetching, Kinds, Hosting,
                SettingUp, WalkPlaces, SetupPlaces, LinkedPlaces
  <2> QED BY <2>1, <2>2, RefsFrame
<1>7. CASE ScreenFreed
  <2>1. Steady
    BY <1>7 DEF ScreenFreed, Holds, Sends, Walking, Outputs, Kinds, Hosting, SettingUp,
                WalkPlaces, SetupPlaces, LinkedPlaces
  <2>2. Walking' /\ Outputs'
    BY <1>7 DEF ScreenFreed, Walking, Outputs, Prefetching, Kinds, Hosting, SettingUp,
                WalkPlaces, SetupPlaces, LinkedPlaces
  <2> QED BY <2>1, <2>2, RefsFrame
<1>8. CASE StartMark
  <2>1. Steady
    BY <1>8 DEF StartMark, StartWalk, Holds, Sends, Walking, Outputs, Kinds, Hosting,
                SettingUp, WalkPlaces, SetupPlaces, LinkedPlaces
  <2>2. Walking' /\ Outputs'
    BY <1>8 DEF StartMark, StartWalk, Walking, Outputs, Prefetching, Kinds, Hosting, SettingUp,
                WalkPlaces, SetupPlaces, LinkedPlaces
  <2> QED BY <2>1, <2>2, RefsFrame
<1>9. CASE Stop
  <2>1. Steady
    BY <1>9 DEF Stop, StartWalk, Holds, Sends, Walking, Outputs, Kinds, Hosting, SettingUp,
                WalkPlaces, SetupPlaces, LinkedPlaces
  <2>2. Walking' /\ Outputs'
    BY <1>9 DEF Stop, StartWalk, Walking, Outputs, Prefetching, Kinds, Hosting, SettingUp,
                WalkPlaces, SetupPlaces, LinkedPlaces
  <2> QED BY <2>1, <2>2, RefsFrame
<1>10. CASE ListenerEnds
  <2>1. Steady
    BY <1>10 DEF ListenerEnds, Holds, Sends, Walking, Outputs, Kinds, Hosting, SettingUp,
                 WalkPlaces, SetupPlaces, LinkedPlaces
  <2>2. Walking' /\ Outputs'
    BY <1>10 DEF ListenerEnds, Walking, Outputs, Prefetching, Kinds, Hosting, SettingUp,
                 WalkPlaces, SetupPlaces, LinkedPlaces
  <2> QED BY <2>1, <2>2, RefsFrame
<1> QED BY <1>1, <1>2, <1>3, <1>4, <1>5, <1>6, <1>7, <1>8, <1>9, <1>10
-----------------------------------------------------------------------------
(* The list *)

\* Only linking and unlinking change the list.
LEMMA ListFrame ==
  ASSUME ListLinked, ListInOrder, UNCHANGED listVars
  PROVE  ListLinked' /\ ListInOrder'
<1>1. ListLinked'
  BY DEF ListLinked, listVars
<1>2. PICK after \in [Clients -> SUBSET Clients] : InOrder(after)
  BY DEF ListInOrder
<1>3. InOrder(after)'
  BY <1>2 DEF InOrder, listVars
<1> QED BY <1>1, <1>3 DEF ListInOrder

\* A record is linked that was not in the list, and that nothing points to.
LEMMA LinkOrder ==
  ASSUME TypeOK, ListLinked, NEW t \in Hosts, Link(t),
         NEW c \in Clients, c = cli[t], c \notin listed, \A d \in Clients : next[d] # c,
         NEW after \in [Clients -> SUBSET Clients], InOrder(after),
         NEW newAfter, newAfter = [after EXCEPT ![c] = listed]
  PROVE  InOrder(newAfter)' /\ newAfter \in [Clients -> SUBSET Clients]
<1>0. /\ NoClient \notin Clients
      /\ next' = [next EXCEPT ![c] = head] /\ head' = c /\ listed' = listed \cup {c}
      /\ head # NoClient => head \in listed /\ head \in Clients
  BY ThreadsAssumption DEF Link, ListLinked, TypeOK, Threads
<1>1. newAfter \in [Clients -> SUBSET Clients]
  BY DEF TypeOK
<1>2. listed' = {head'} \cup newAfter[head'] /\ head' # NoClient
  BY <1>0
<1>3. ASSUME NEW d \in listed' PROVE d \notin newAfter[d]
  BY <1>0 DEF InOrder, TypeOK
<1>4. ASSUME NEW d \in Clients
      PROVE  /\ newAfter[d] \subseteq listed'
             /\ newAfter[d] = IF next'[d] = NoClient THEN {}
                              ELSE ({next'[d]} \cap listed') \cup newAfter[next'[d]]
  <2>1. /\ after[d] \subseteq listed
        /\ after[d] = IF next[d] = NoClient THEN {}
                      ELSE ({next[d]} \cap listed) \cup after[next[d]]
    BY DEF InOrder
  <2>2. CASE d = c
    <3>1. newAfter[d] = listed /\ next'[d] = head
      BY <2>2, <1>0 DEF TypeOK
    <3>2. head # NoClient => listed = {head} \cup after[head] /\ newAfter[head] = after[head]
      BY <1>0 DEF InOrder
    <3>3. head = NoClient => listed = {}
      BY DEF ListLinked
    <3> QED BY <3>1, <3>2, <3>3, <1>0
  <2>3. CASE d # c
    <3>1. newAfter[d] = after[d] /\ next'[d] = next[d] /\ next[d] # c
      BY <2>3, <1>0 DEF TypeOK
    <3>2. next[d] # NoClient => next[d] \in Clients /\ newAfter[next[d]] = after[next[d]]
      BY <3>1 DEF TypeOK
    <3> QED BY <3>1, <3>2, <2>1, <1>0
  <2> QED BY <2>2, <2>3
<1> QED BY <1>1, <1>2, <1>3, <1>4 DEF InOrder

LEMMA LinkKeepsList ==
  ASSUME TypeOK, ListLinked, ListInOrder, NEW t \in Hosts, Link(t), cli[t] \in Clients,
         cli[t] \notin listed, prev[cli[t]] = NoClient, \A d \in Clients : next[d] # cli[t]
  PROVE  ListLinked' /\ ListInOrder'
<1>1. PICK c \in Clients : c = cli[t]
  OBVIOUS
<1>2. ListInOrder'
  <2>1. PICK after \in [Clients -> SUBSET Clients] : InOrder(after)
    BY DEF ListInOrder
  <2>2. PICK newAfter : newAfter = [after EXCEPT ![c] = listed]
    OBVIOUS
  <2>3. InOrder(newAfter)' /\ newAfter \in [Clients -> SUBSET Clients]
    BY <1>1, <2>1, <2>2, LinkOrder
  <2> QED BY <2>3 DEF ListInOrder
<1>3. /\ c \in Clients /\ c # NoClient /\ c # head
      /\ next' = [next EXCEPT ![c] = head]
      /\ prev' = IF head = NoClient THEN prev ELSE [prev EXCEPT ![head] = c]
      /\ head' = c /\ listed' = listed \cup {c}
      /\ c \notin listed /\ prev[c] = NoClient
  BY <1>1, ThreadsAssumption DEF Link, ListLinked, Threads
<1>4. ListLinked'
  <2>1. ASSUME NEW d \in listed'
        PROVE  /\ next'[d] # NoClient => next'[d] \in listed' /\ prev'[next'[d]] = d
               /\ prev'[d] # NoClient => prev'[d] \in listed' /\ next'[prev'[d]] = d
               /\ prev'[d] = NoClient <=> head' = d
    <3>1. CASE d = c
      BY <3>1, <1>3 DEF ListLinked, TypeOK
    <3>2. CASE d # c
      <4>1. d \in listed /\ d \in Clients /\ next'[d] = next[d]
        BY <3>2, <1>3 DEF TypeOK
      <4>2. next[d] # NoClient => next[d] \in listed /\ next[d] # head /\ prev[next[d]] = d
        BY <4>1, ThreadsAssumption DEF ListLinked, TypeOK, Threads
      <4>3. CASE d = head
        BY <4>1, <4>2, <4>3, <1>3, <3>2 DEF ListLinked, TypeOK
      <4>4. CASE d # head
        BY <4>1, <4>2, <4>4, <1>3, <3>2 DEF ListLinked, TypeOK
      <4> QED BY <4>3, <4>4
    <3> QED BY <3>1, <3>2
  <2> QED BY <2>1, <1>3 DEF ListLinked
<1> QED BY <1>2, <1>4

\* What unlinking does to the pointers, and what it can rely on.
LEMMA UnlinkFacts ==
  ASSUME TypeOK, ListLinked, NEW t \in Threads, Unlink(t),
         NEW c \in listed, c = Leaving(t),
         NEW after \in [Clients -> SUBSET Clients], InOrder(after)
  PROVE  /\ c \in Clients /\ NoClient \notin Clients
         /\ next[c] # c /\ prev[c] # c
         /\ prev[c] # NoClient => prev[c] \in listed /\ next[prev[c]] = c /\ head # c
         /\ listed' = listed \ {c}
         /\ head' = IF prev[c] = NoClient THEN next[c] ELSE head
         /\ \A d \in Clients : next'[d] = IF d = prev[c] THEN next[c] ELSE next[d]
         /\ \A d \in Clients : prev'[d] = IF d = next[c] THEN prev[c] ELSE prev[d]
<1>1. /\ c \in Clients /\ NoClient \notin Clients
      /\ IF prev[c] # NoClient
         THEN next' = [next EXCEPT ![prev[c]] = next[c]] /\ head' = head
         ELSE head' = next[c] /\ next' = next
      /\ prev' = IF next[c] = NoClient THEN prev ELSE [prev EXCEPT ![next[c]] = prev[c]]
      /\ listed' = listed \ {c}
  BY ThreadsAssumption DEF Unlink, Unlinked, TypeOK, Threads
<1>2. next[c] # c
  BY <1>1 DEF InOrder
<1>3. prev[c] # c /\ (prev[c] # NoClient => prev[c] \in listed /\ next[prev[c]] = c /\ head # c)
  BY <1>1, <1>2 DEF ListLinked
<1>4. \A d \in Clients : next'[d] = IF d = prev[c] THEN next[c] ELSE next[d]
  BY <1>1 DEF TypeOK
<1>5. \A d \in Clients : prev'[d] = IF d = next[c] THEN prev[c] ELSE prev[d]
  BY <1>1 DEF TypeOK
<1> QED BY <1>1, <1>2, <1>3, <1>4, <1>5

\* A record is taken out wherever it is in the list.
LEMMA UnlinkOrder ==
  ASSUME TypeOK, ListLinked, NEW t \in Threads, Unlink(t),
         NEW c \in listed, c = Leaving(t),
         NEW after \in [Clients -> SUBSET Clients], InOrder(after),
         NEW newAfter, newAfter = [d \in Clients |-> after[d] \ {c}]
  PROVE  InOrder(newAfter)' /\ newAfter \in [Clients -> SUBSET Clients]
<1>0. /\ c \in Clients /\ NoClient \notin Clients
      /\ next[c] # c /\ prev[c] # c
      /\ prev[c] # NoClient => prev[c] \in listed /\ next[prev[c]] = c /\ head # c
      /\ listed' = listed \ {c}
      /\ head' = IF prev[c] = NoClient THEN next[c] ELSE head
      /\ \A d \in Clients : next'[d] = IF d = prev[c] THEN next[c] ELSE next[d]
  BY UnlinkFacts
<1>1. newAfter \in [Clients -> SUBSET Clients] /\ \A d \in Clients : newAfter[d] = after[d] \ {c}
  OBVIOUS
<1>2. \A d \in Clients :
        /\ after[d] \subseteq listed
        /\ after[d] = IF next[d] = NoClient THEN {}
                      ELSE ({next[d]} \cap listed) \cup after[next[d]]
  BY DEF InOrder
<1>3. \A d \in Clients : next[d] \in Clients \cup {NoClient}
  BY DEF TypeOK
<1>4. c \notin after[c]
  BY DEF InOrder
<1>5. listed' = IF head' = NoClient THEN {} ELSE {head'} \cup newAfter[head']
  <2>1. listed = {head} \cup after[head] /\ head \in Clients
    BY <1>0 DEF InOrder, ListLinked, TypeOK
  <2>2. CASE prev[c] = NoClient
    <3>1. head = c /\ head' = next[c]
      BY <2>2, <1>0 DEF ListLinked
    <3>2. listed' = after[c]
      BY <3>1, <2>1, <1>0, <1>4
    <3>3. next[c] # NoClient => next[c] \in listed
      BY DEF ListLinked
    <3>4. CASE next[c] = NoClient
      BY <3>1, <3>2, <3>4, <1>0, <1>2
    <3>5. CASE next[c] # NoClient
      <4>1. after[c] = {next[c]} \cup after[next[c]]
        BY <3>3, <3>5, <1>0, <1>2
      <4>2. newAfter[next[c]] = after[next[c]]
        <5>1. next[c] \in Clients
          BY <3>5, <1>0, <1>3
        <5>2. \A e \in after[next[c]] : e \in after[c]
          BY <4>1, Zenon
        <5>3. c \notin after[next[c]]
          BY <5>2, <1>4, Zenon
        <5>4. newAfter[next[c]] = after[next[c]] \ {c}
          BY <5>1, <1>1, Zenon
        <5> QED BY <5>3, <5>4, Zenon
      <4> QED BY <3>1, <3>2, <3>5, <4>1, <4>2
    <3> QED BY <3>4, <3>5
  <2>3. CASE prev[c] # NoClient
    BY <2>1, <2>3, <1>0, <1>1
  <2> QED BY <2>2, <2>3
<1>6. ASSUME NEW d \in listed' PROVE d \notin newAfter[d]
  <2>1. d \in listed /\ d \in Clients
    BY <1>0 DEF TypeOK
  <2> QED BY <2>1, <1>1 DEF InOrder
<1>7. ASSUME NEW d \in Clients
      PROVE  /\ newAfter[d] \subseteq listed'
             /\ newAfter[d] = IF next'[d] = NoClient THEN {}
                              ELSE ({next'[d]} \cap listed') \cup newAfter[next'[d]]
  <2>1. newAfter[d] \subseteq listed'
    BY <1>0, <1>1, <1>2
  <2>2. CASE d = prev[c]
    <3>1. next[d] = c /\ next'[d] = next[c]
      BY <2>2, <1>0
    <3>2. newAfter[d] = after[c]
      BY <3>1, <1>0, <1>1, <1>2, <1>4
    <3> QED BY <2>1, <3>1, <3>2, <1>0, <1>1, <1>2, <1>3, <1>4
  <2>3. CASE d # prev[c]
    <3>1. next'[d] = next[d]
      BY <2>3, <1>0
    <3> QED BY <2>1, <3>1, <1>0, <1>1, <1>2, <1>3
  <2> QED BY <2>2, <2>3
<1> QED BY <1>1, <1>5, <1>6, <1>7 DEF InOrder

LEMMA UnlinkKeepsList ==
  ASSUME TypeOK, ListLinked, ListInOrder, NEW t \in Threads, Unlink(t), Leaving(t) \in listed
  PROVE  ListLinked' /\ ListInOrder'
<1>1. PICK c \in listed : c = Leaving(t)
  OBVIOUS
<1>2. PICK after \in [Clients -> SUBSET Clients] : InOrder(after)
  BY DEF ListInOrder
<1>3. PICK newAfter : newAfter = [d \in Clients |-> after[d] \ {c}]
  OBVIOUS
<1>4. InOrder(newAfter)' /\ newAfter \in [Clients -> SUBSET Clients]
  BY <1>1, <1>2, <1>3, UnlinkOrder
<1>5. ListInOrder'
  BY <1>4 DEF ListInOrder
<1>6. ListLinked'
  <2>0. /\ c \in Clients /\ NoClient \notin Clients
        /\ next[c] # c /\ prev[c] # c
        /\ listed' = listed \ {c}
        /\ head' = IF prev[c] = NoClient THEN next[c] ELSE head
        /\ \A d \in Clients : next'[d] = IF d = prev[c] THEN next[c] ELSE next[d]
        /\ \A d \in Clients : prev'[d] = IF d = next[c] THEN prev[c] ELSE prev[d]
    BY <1>1, <1>2, UnlinkFacts
  <2>1. (head' = NoClient <=> listed' = {}) /\ (head' # NoClient => head' \in listed')
    BY <1>4 DEF InOrder
  <2>2. ASSUME NEW d \in listed
        PROVE  /\ d \in Clients /\ d # NoClient
               /\ next[d] # NoClient => next[d] \in listed /\ prev[next[d]] = d
               /\ prev[d] # NoClient => prev[d] \in listed /\ next[prev[d]] = d
               /\ prev[d] = NoClient <=> head = d
    BY <2>0 DEF ListLinked, TypeOK
  <2>3. ASSUME NEW d \in listed'
        PROVE  /\ next'[d] # NoClient => next'[d] \in listed' /\ prev'[next'[d]] = d
               /\ prev'[d] # NoClient => prev'[d] \in listed' /\ next'[prev'[d]] = d
               /\ prev'[d] = NoClient <=> head' = d
    <3>1. d \in listed /\ d # c
      BY <2>0
    <3>2. next'[d] # NoClient => next'[d] \in listed' /\ prev'[next'[d]] = d
      BY <3>1, <2>0, <2>2
    <3>3. prev'[d] # NoClient => prev'[d] \in listed' /\ next'[prev'[d]] = d
      BY <3>1, <2>0, <2>2
    <3>4. prev'[d] = NoClient <=> head' = d
      BY <3>1, <2>0, <2>2
    <3> QED BY <3>2, <3>3, <3>4
  <2> QED BY <2>1, <2>3 DEF ListLinked
<1> QED BY <1>5, <1>6

-----------------------------------------------------------------------------
(* The invariant *)

LEMMA InitHolds == Init => ThreadsInv
<1> SUFFICES ASSUME Init PROVE ThreadsInv
  OBVIOUS
<1> USE ThreadsAssumption DEF Init, Threads, Hosts, Home
<1>1. TypeOK
  BY DEF TypeOK, Places
<1>2. Kinds /\ Stopping /\ Outputs
  BY DEF Kinds, Stopping, Outputs, WalkPlaces, SetupPlaces, LinkedPlaces
<1>3. Hosting /\ Stages /\ Blank
  BY DEF Hosting, SettingUp, Stages, Blank, Unused, SetUpAt, WalkPlaces, SetupPlaces,
         LinkedPlaces
<1>4. Walking
  BY DEF Walking, Prefetching
<1>5. RefsBalanced
  <2>1. \A c \in Clients : Iterating(c) = {} /\ SendingRef(c) = 0
    BY DEF Iterating, SendingRef
  <2> QED BY <2>1, FS_EmptySet DEF RefsBalanced
<1>6. ListLinked
  BY DEF ListLinked
<1>7. ListInOrder
  <2>1. InOrder([c \in Clients |-> {}])
    BY DEF InOrder
  <2>2. [c \in Clients |-> {}] \in [Clients -> SUBSET Clients]
    OBVIOUS
  <2> QED BY <2>1, <2>2 DEF ListInOrder
<1> QED BY <1>1, <1>2, <1>3, <1>4, <1>5, <1>6, <1>7 DEF ThreadsInv, OwnInv

\* Who unlinks finds the record in the list, who links does not.
LEMMA UnlinkListed ==
  ASSUME OwnInv, NEW t \in Threads, Unlink(t)
  PROVE  Leaving(t) \in listed
<1>1. CASE t \in Clients
  BY <1>1 DEF OwnInv, Stages, Unlink, Leaving, Go, LinkedPlaces
<1>2. CASE t \in Hosts
  <2>1. cli[t] \in Clients
    BY <1>2, ThreadsAssumption
       DEF OwnInv, TypeOK, Hosting, SettingUp, Unlink, Go, SetupPlaces, Hosts, Threads
  <2> QED BY <1>2, <2>1, ThreadsAssumption
          DEF OwnInv, Stages, SetUpAt, Unlink, Leaving, Go, Hosts
<1> QED BY <1>1, <1>2 DEF Threads, Hosts

LEMMA LinkUnlisted ==
  ASSUME OwnInv, NEW t \in Hosts, Link(t)
  PROVE  /\ cli[t] \in Clients /\ cli[t] \notin listed /\ prev[cli[t]] = NoClient
         /\ cli[t] \notin due /\ \A d \in Clients : next[d] # cli[t]
<1> DEFINE c == cli[t]
<1>1. c \in Clients /\ pc[c] = "none" /\ c \notin freed /\ pc[t] = "walked"
  BY ThreadsAssumption DEF OwnInv, TypeOK, Hosting, SettingUp, Link, Go, Hosts, Threads
<1>2. \A h \in Hosts : cli[h] = c => h = t
  BY <1>1, ThreadsAssumption DEF OwnInv, Hosting, Hosts, Threads
<1>3. ~SetUpAt(c, {"hello", "start", "unlink"}) /\ ~SetUpAt(c, {"unlinked", "free"})
  BY <1>1, <1>2 DEF SetUpAt
<1>4. c \notin listed /\ started[c] = 0
  BY <1>1, <1>3 DEF OwnInv, Stages, LinkedPlaces, WalkPlaces
<1>5. prev[c] = NoClient /\ c \notin due /\ \A d \in Clients : next[d] # c
  BY <1>1, <1>3, <1>4 DEF OwnInv, Blank, Unused
<1> QED BY <1>1, <1>4, <1>5

\* Each action keeps the invariant.
LEMMA StepKeeps == ThreadsInv /\ [Next]_vars => ThreadsInv'
<1> SUFFICES ASSUME ThreadsInv, [Next]_vars PROVE ThreadsInv'
  OBVIOUS
<1> USE DEF ThreadsInv
<1> DEFINE Counts == RefsBalanced' /\ refCount' \in [Clients -> Nat] /\ Walking' /\ Outputs'
<1>t. TypeOK
  BY DEF OwnInv
<1>l. ASSUME UNCHANGED listVars, Counts, OwnInv' PROVE ThreadsInv'
  BY <1>l, ListFrame
<1>1. CASE \E t \in Threads : Walk(t)
  <2>1. PICK t \in Threads : Walk(t)
    BY <1>1
  <2>2. Counts
    BY <2>1, <1>t, WalkRefs
  <2>3. OwnInv'
    BY <2>1, <2>2, WalkOwn
  <2>4. UNCHANGED listVars
    BY <2>1 DEF Walk, SkipClosed, TakeReference, Advance, LastFetched
  <2> QED BY <2>2, <2>3, <2>4, <1>l
<1>2. CASE \E t \in Threads : Gone(t)
  <2>1. PICK t \in Threads : Unlink(t) \/ WaitAndHook(t) \/ Free(t)
    BY <1>2 DEF Gone
  <2>2. Counts
    BY <2>1, GoneRefs
  <2>3. CASE Unlink(t)
    <3>1. OwnInv'
      BY <2>2, <2>3, UnlinkOwn
    <3>2. ListLinked' /\ ListInOrder'
      BY <2>3, <1>t, UnlinkListed, UnlinkKeepsList
    <3> QED BY <2>2, <3>1, <3>2
  <2>4. CASE WaitAndHook(t) \/ Free(t)
    <3>1. OwnInv'
      BY <2>2, <2>4, HookOwn, FreeOwn
    <3>2. UNCHANGED listVars
      BY <2>4 DEF WaitAndHook, Free
    <3> QED BY <2>2, <3>1, <3>2, <1>l
  <2> QED BY <2>1, <2>3, <2>4
<1>3. CASE \E t \in {Main, Listener} : Accept(t) \/ SetUp(t)
  <2>1. PICK t \in Hosts :
          Accept(t) \/ Counted(t) \/ Link(t) \/ Hello(t) \/ HelloFails(t) \/ StartClient(t)
    BY <1>3 DEF SetUp, Hosts
  <2>2. Counts
    BY <2>1, SetUpRefs
  <2>3. CASE Link(t)
    <3>1. OwnInv'
      BY <2>2, <2>3, LinkOwn
    <3>2. ListLinked' /\ ListInOrder'
      BY <2>3, <1>t, LinkUnlisted, LinkKeepsList
    <3> QED BY <2>2, <3>1, <3>2
  <2>4. CASE ~Link(t)
    <3>1. t \in Threads
      BY DEF Hosts, Threads
    <3>2. OwnInv'
      <4>1. CASE Accept(t)
        BY <4>1, <2>2, AcceptOwn
      <4>2. CASE Counted(t)
        BY <4>2, <2>2, <3>1, CountedOwn
      <4>3. CASE Hello(t) \/ HelloFails(t)
        BY <4>3, <2>2, HelloOwn, HelloFailsOwn
      <4>4. CASE StartClient(t)
        BY <4>4, <2>2, StartOwn
      <4> QED BY <2>1, <2>4, <4>1, <4>2, <4>3, <4>4
    <3>3. UNCHANGED listVars
      BY <2>1, <2>4 DEF Accept, Counted, Hello, HelloFails, StartClient
    <3> QED BY <2>2, <3>2, <3>3, <1>l
  <2> QED BY <2>3, <2>4
<1>4. CASE \E c \in Clients : Message(c) \/ InputStep(c)
  <2>1. PICK c \in Clients : \/ Message(c) \/ Answer(c) \/ CloseOther(c)
                             \/ OthersClosed(c) \/ LeaveLoop(c) \/ JoinOutput(c)
    BY <1>4 DEF InputStep
  <2>2. Counts
    BY <2>1, InputRefs
  <2>4. OwnInv'
    <3>1. CASE Message(c) \/ Answer(c)
      BY <3>1, <2>2, MessageOwn, AnswerOwn
    <3>2. CASE CloseOther(c)
      BY <3>2, <2>2, CloseOtherOwn
    <3>3. CASE OthersClosed(c)
      BY <3>3, <2>2, OthersClosedOwn
    <3>4. CASE LeaveLoop(c) \/ JoinOutput(c)
      BY <3>4, <2>2, LeaveOwn
    <3> QED BY <2>1, <3>1, <3>2, <3>3, <3>4
  <2>5. UNCHANGED listVars
    BY <2>1 DEF Message, HandshakeMessage, Request, PeerGone, Answer, HandshakeGoesOn,
                InitMessage, CloseOther, OthersClosed, LeaveLoop, JoinOutput
  <2> QED BY <2>2, <2>4, <2>5, <1>l
<1>5. CASE \E c \in Clients : OutputStep(c)
  <2>1. PICK c \in Clients : OutputStep(c)
    BY <1>5
  <2>2. RefsBalanced' /\ refCount' \in [Clients -> Nat]
    BY <2>1, <1>t, OutputRefs
  <2>3. UNCHANGED <<pc, it, purpose, listVars>>
    BY <2>1 DEF OutputStep, Look, WaitForUpdate, StartSend, EndSend, walkVars
  <2>4. Walking' /\ Outputs'
    <3>1. \A d \in Clients : outPc[d] \in {"none", "ended"} => outPc'[d] = outPc[d]
      BY <2>1, <1>t DEF OutputStep, Look, WaitForUpdate, StartSend, EndSend, OutGo, TypeOK
    <3> QED BY <2>3, <3>1 DEF Walking, Outputs, Prefetching
  <2>5. OwnInv'
    BY <2>1, <2>2, OutputOwn
  <2> QED BY <2>2, <2>3, <2>4, <2>5, <1>l
<1>6. CASE MainStep \/ StartMark \/ Stop \/ ListenerEnds
  <2>1. \/ MarkOne \/ MarkDone \/ StopOne \/ JoinInput \/ ShutdownSockets \/ JoinListener
        \/ ScreenFreed \/ StartMark \/ Stop \/ ListenerEnds
    BY <1>6 DEF MainStep
  <2>2. Counts
    BY <2>1, MainRefs
  <2>4. OwnInv'
    BY <2>1, <2>2, MarkOneOwn, MarkingOwn, StopOwn, JoinOwn, ShutdownOwn, ListenerOwn
  <2>5. UNCHANGED listVars
    BY <2>1 DEF MarkOne, MarkDone, StopOne, JoinInput, ShutdownSockets, JoinListener,
                ScreenFreed, StartMark, Stop, ListenerEnds
  <2> QED BY <2>2, <2>4, <2>5, <1>l
<1>7. CASE UNCHANGED vars
  <2>1. OwnInv'
    BY <1>7 DEF OwnInv, TypeOK, Kinds, Hosting, SettingUp, Stages, SetUpAt, Blank, Unused,
                Stopping,
                vars, listVars, recordVars, hookVars, walkVars
  <2>2. Counts
    BY <1>7, <1>t DEF TypeOK, RefsBalanced, Iterating, SendingRef, Walking, Outputs,
                      Prefetching,
                vars, recordVars, walkVars
  <2> QED BY <1>7, <2>1, <2>2, <1>l DEF vars
<1> QED BY <1>1, <1>2, <1>3, <1>4, <1>5, <1>6, <1>7 DEF Next

THEOREM ThreadsInvariant == Spec => []ThreadsInv
BY InitHolds, StepKeeps, PTL DEF Spec

\* What is read from the fields of the records and of the threads has its type, and no
\* count of references gets below zero (main.c and rfbserver.c, rfbDecrClientRef).
THEOREM TypeCorrect == Spec => []TypeOK
<1>1. ThreadsInv => TypeOK
  BY DEF ThreadsInv, OwnInv
<1> QED BY <1>1, ThreadsInvariant, PTL

\* The count of each client is that of the references held (rfbIncrClientRef and
\* rfbDecrClientRef), on every way through a walk and an update.
THEOREM CountsAreRight == Spec => []RefsBalanced
<1>1. ThreadsInv => RefsBalanced
  BY DEF ThreadsInv
<1> QED BY <1>1, ThreadsInvariant, PTL

\* clientHead, next and prev are those of a list, whoever comes and goes (rfbNewClient,
\* rfbClientConnectionGone).
THEOREM ListStaysLinked == Spec => []ListLinked
<1>1. ThreadsInv => ListLinked
  BY DEF ThreadsInv
<1> QED BY <1>1, ThreadsInvariant, PTL
-----------------------------------------------------------------------------
(* Refinement of ClientLife *)

\* A host announces a client while the server serves, and before anything is said of it.
LEMMA HelloAnnounces ==
  ASSUME OwnInv, NEW t \in Hosts, Hello(t)
  PROVE  Life!Next
<1> DEFINE c == cli[t]
<1>1. c \in Clients /\ pc[c] = "none" /\ c \notin freed /\ c \notin hooked
  BY ThreadsAssumption
     DEF OwnInv, TypeOK, Hosting, SettingUp, SetupPlaces, Hello, Go, Hosts, Threads
<1>2. ~SetUpAt(c, {"free"})
  BY <1>1, ThreadsAssumption DEF OwnInv, Hosting, SetUpAt, Hello, Go, Hosts, Threads
<1>3. gone[c] = 0
  BY <1>1, <1>2 DEF OwnInv, Stages
<1>4. up
  <2>1. CASE t = Main
    BY <2>1 DEF OwnInv, Stopping, Kinds, Hello, Go, SetupPlaces
  <2>2. CASE t = Listener
    BY <2>2 DEF OwnInv, Stopping, Kinds, Hello, Go
  <2> QED BY <2>1, <2>2 DEF Hosts
<1>5. hooked' = hooked \cup {c} /\ UNCHANGED <<gone, up>>
  BY DEF Hello
<1> HIDE DEF c
<1>6. life[c] = "new" /\ life' = [life EXCEPT ![c] = "known"]
  <2>1. life[c] = "new"
    BY <1>1, <1>3 DEF life
  <2>2. ASSUME NEW d \in Clients PROVE life'[d] = IF d = c THEN "known" ELSE life[d]
    BY <1>1, <1>3, <1>5 DEF life
  <2>3. life' = [d \in Clients |-> life'[d]] /\ life = [d \in Clients |-> life[d]]
    BY DEF life
  <2> QED BY <1>1, <2>1, <2>2, <2>3
<1>7. Life!Announce(c)
  BY <1>4, <1>5, <1>6 DEF Life!Announce
<1> QED BY <1>1, <1>7 DEF Life!Next

\* The hook is called for a client that is known and not gone, or not at all.
LEMMA GoneLeaves ==
  ASSUME OwnInv, NEW t \in Threads, WaitAndHook(t)
  PROVE  Life!Next \/ UNCHANGED <<life, up>>
<1> DEFINE c == Leaving(t)
<1>1. c \in Clients /\ gone[c] = 0
  <2>1. CASE t \in Clients
    <3>1. pc[t] = "unlinked" /\ c = t
      BY <2>1 DEF WaitAndHook, Go, Leaving
    <3>2. ~SetUpAt(t, {"free"})
      BY <2>1, <3>1, ThreadsAssumption DEF OwnInv, Hosting, SettingUp, SetupPlaces, SetUpAt,
                                           Hosts
    <3> QED BY <2>1, <3>1, <3>2 DEF OwnInv, Stages
  <2>2. CASE t \in Hosts
    <3>1. c = cli[t] /\ c \in Clients /\ pc[c] = "none" /\ c \notin freed /\ pc[t] = "unlinked"
      BY <2>2, ThreadsAssumption DEF OwnInv, TypeOK, Hosting, SettingUp, SetupPlaces,
                                     WaitAndHook,
                                     Go, Leaving, Hosts, Threads
    <3>2. ~SetUpAt(c, {"free"})
      BY <2>2, <3>1, ThreadsAssumption DEF OwnInv, Hosting, SetUpAt, Hosts, Threads
    <3> QED BY <3>1, <3>2 DEF OwnInv, Stages
  <2> QED BY <2>1, <2>2 DEF Threads, Hosts
<1>2. /\ gone' = IF c \in hooked THEN [gone EXCEPT ![c] = @ + 1] ELSE gone
      /\ UNCHANGED <<hooked, up>> /\ gone \in [Clients -> 0..2]
  BY DEF WaitAndHook, GoneHook, OwnInv, TypeOK
<1> HIDE DEF c
<1>3. CASE c \in hooked
  <2>1. life[c] = "known" /\ life' = [life EXCEPT ![c] = "past"]
    <3>1. life[c] = "known"
      BY <1>1, <1>3 DEF life
    <3>2. ASSUME NEW d \in Clients PROVE life'[d] = IF d = c THEN "past" ELSE life[d]
      BY <1>1, <1>2, <1>3 DEF life
    <3>3. life' = [d \in Clients |-> life'[d]] /\ life = [d \in Clients |-> life[d]]
      BY DEF life
    <3> QED BY <1>1, <3>1, <3>2, <3>3
  <2>2. Life!Leave(c)
    BY <1>2, <2>1 DEF Life!Leave
  <2> QED BY <1>1, <2>2 DEF Life!Next
<1>4. CASE c \notin hooked
  BY <1>2, <1>4 DEF life
<1> QED BY <1>3, <1>4

LEMMA LifeStep == ThreadsInv /\ [Next]_vars => [Life!Next]_<<life, up>>
<1> SUFFICES ASSUME ThreadsInv, [Next]_vars PROVE Life!Next \/ UNCHANGED <<life, up>>
  OBVIOUS
<1> USE DEF ThreadsInv, hookVars
<1>s. ASSUME UNCHANGED <<hooked, gone, up>> PROVE UNCHANGED <<life, up>>
  BY <1>s DEF life
<1>1. CASE \E t \in Threads : Walk(t) \/ Gone(t)
  <2>1. PICK t \in Threads : Walk(t) \/ Unlink(t) \/ WaitAndHook(t) \/ Free(t)
    BY <1>1 DEF Gone
  <2>2. CASE WaitAndHook(t)
    BY <2>2, GoneLeaves
  <2>3. CASE Walk(t) \/ Unlink(t) \/ Free(t)
    BY <2>3, <1>s DEF Walk, SkipClosed, TakeReference, Advance, LastFetched, Unlink, Free
  <2> QED BY <2>1, <2>2, <2>3
<1>2. CASE \E t \in {Main, Listener} : Accept(t) \/ SetUp(t)
  <2>1. PICK t \in Hosts :
          Accept(t) \/ Counted(t) \/ Link(t) \/ Hello(t) \/ HelloFails(t) \/ StartClient(t)
    BY <1>2 DEF SetUp, Hosts
  <2>2. CASE Hello(t)
    BY <2>2, HelloAnnounces
  <2>3. CASE Accept(t) \/ Counted(t) \/ Link(t) \/ HelloFails(t) \/ StartClient(t)
    BY <2>3, <1>s DEF Accept, Counted, Link, HelloFails, StartClient
  <2> QED BY <2>1, <2>2, <2>3
<1>3. CASE \E c \in Clients : Message(c) \/ InputStep(c) \/ OutputStep(c)
  BY <1>3, <1>s DEF Message, HandshakeMessage, Request, PeerGone, InputStep, Answer,
                    HandshakeGoesOn,
                    InitMessage, CloseOther, OthersClosed, LeaveLoop, JoinOutput,
                    OutputStep, Look, WaitForUpdate, StartSend, EndSend
<1>4. CASE ShutdownSockets
  <2>1. up = TRUE /\ up' = FALSE /\ UNCHANGED <<hooked, gone>>
    BY <1>4 DEF ShutdownSockets, OwnInv, TypeOK, Stopping, Go
  <2>2. life' = life
    BY <2>1 DEF life
  <2> QED BY <2>1, <2>2 DEF Life!Next, Life!EndService
<1>5. CASE (MainStep /\ ~ShutdownSockets) \/ StartMark \/ Stop \/ ListenerEnds
  BY <1>5, <1>s DEF MainStep, MarkOne, MarkDone, StopOne, JoinInput, JoinListener, ScreenFreed,
                    StartMark, Stop, ListenerEnds
<1>6. CASE UNCHANGED vars
  BY <1>6, <1>s DEF vars
<1> QED BY <1>1, <1>2, <1>3, <1>4, <1>5, <1>6 DEF Next

\* Whatever comes and goes, the service is told of each client once by newClientHook, while
\* the server serves, and once by clientGoneHook, after that: ClientThreads implements
\* ClientLife.
THEOREM ServiceIsTold == Spec => KeepsClients
<1>1. Init => Life!Init
  BY DEF Init, Life!Init, life
<1> QED BY <1>1, ThreadsInvariant, LifeStep, PTL DEF Spec, KeepsClients, Life!Spec
-----------------------------------------------------------------------------
(* What is referenced is not freed                                            *)

\* A record whose disposer has waited for its references.
Disposed(c) == c \in freed \/ pc[c] \in {"free", "ended"} \/ SetUpAt(c, {"free"})

\* A record that is disposed of is closed, so no walk takes a reference to it any more,
\* and its output thread has ended.
Alive ==
  \A c \in Clients : Disposed(c) => /\ ~open[c] /\ outPc[c] \in {"none", "ended"}
                                    /\ \A t \in Threads : Holds(t) # c

LEMMA ListedAlive ==
  ASSUME ThreadsInv
  PROVE  listed \cap freed = {} /\ head \notin freed /\ NoClient \notin freed
<1>1. ASSUME NEW c \in listed PROVE c \notin freed
  BY <1>1, ThreadsAssumption
     DEF ThreadsInv, OwnInv, TypeOK, Hosting, SettingUp, Stages, SetUpAt, Hosts, Threads,
         LinkedPlaces, WalkPlaces, SetupPlaces
<1>2. NoClient \notin freed
  BY ThreadsAssumption DEF ThreadsInv, OwnInv, TypeOK, Threads
<1> QED BY <1>1, <1>2 DEF ThreadsInv, ListLinked

LEMMA WalkAlive ==
  ASSUME ThreadsInv, Alive, NEW t \in Threads, Walk(t)
  PROVE  Alive'
<1> USE ThreadsAssumption DEF ThreadsInv, OwnInv, TypeOK, listVars, recordVars, hookVars, walkVars,
                            Go, Threads, Hosts
<1>1. CASE SkipClosed(t)
  BY <1>1 DEF SkipClosed, Alive, Disposed, Holds, SetUpAt, Prefetching
<1>2. CASE TakeReference(t)
  <2>1. it[t] \in Clients /\ ~Disposed(it[t])
    BY <1>2 DEF TakeReference, Alive
  <2> QED BY <1>2, <2>1 DEF TakeReference, Alive, Disposed, Holds, SetUpAt, Prefetching
<1>3. CASE Advance(t)
  BY <1>3 DEF Advance, Alive, Disposed, Holds, SetUpAt, Prefetching
<1>4. CASE LastFetched(t)
  BY <1>4 DEF LastFetched, Alive, Disposed, Holds, SetUpAt, Prefetching
<1> QED BY <1>1, <1>2, <1>3, <1>4 DEF Walk

LEMMA UnlinkAlive ==
  ASSUME ThreadsInv, Alive, NEW t \in Threads, Unlink(t)
  PROVE  Alive'
<1> USE ThreadsAssumption DEF listVars, recordVars, hookVars, walkVars, Go, Threads, Hosts
<1>1. pc' = [pc EXCEPT ![t] = "unlinked"] /\ pc[t] = "unlink"
      /\ UNCHANGED <<freed, open, outPc, it, cur, purpose, cli>>
  BY DEF Unlink
<1> QED BY <1>1
        DEF Alive, Disposed, Holds, SetUpAt, Prefetching, ThreadsInv, OwnInv, TypeOK

\* No references are left when the hook is called.
LEMMA HookAlive ==
  ASSUME ThreadsInv, Alive, NEW t \in Threads, WaitAndHook(t)
  PROVE  Alive'
<1> USE ThreadsAssumption DEF listVars, recordVars, hookVars, walkVars, Go, Threads, Hosts
<1> DEFINE c == Leaving(t)
<1>1. c \in Clients
  BY DEF ThreadsInv, OwnInv, TypeOK, Hosting, SettingUp, SetupPlaces, WaitAndHook, Leaving
<1>2. \A u \in Threads : Holds(u) # c
  <2>1. refCount[c] <= 0
    BY DEF WaitAndHook, NoReferences
  <2>2. Cardinality(Iterating(c)) \in Nat /\ SendingRef(c) \in Nat
    BY <1>1, IteratingHolds, FS_CardinalityType DEF SendingRef
  <2>3. Cardinality(Iterating(c)) = 0
    BY <1>1, <2>1, <2>2 DEF ThreadsInv, RefsBalanced
  <2>4. Iterating(c) = {}
    BY <1>1, <2>3, IteratingHolds, FS_EmptySet
  <2> QED BY <1>1, <2>4, IteratingHolds
<1>3. outPc[c] \in {"none", "ended"}
  <2>1. CASE t \in Clients
    BY <2>1 DEF ThreadsInv, Outputs, WaitAndHook, Leaving
  <2>2. CASE t \in Hosts
    <3>1. pc[c] = "none"
      BY <2>2 DEF ThreadsInv, OwnInv, TypeOK, Hosting, SettingUp, SetupPlaces, WaitAndHook, Leaving
    <3> QED BY <1>1, <3>1 DEF ThreadsInv, Outputs
  <2> QED BY <2>1, <2>2
<1>4. /\ pc' = [pc EXCEPT ![t] = "free"] /\ pc[t] = "unlinked" /\ open' = [open EXCEPT ![c] = FALSE]
      /\ UNCHANGED <<freed, outPc, it, cur, purpose, cli, next>>
  BY DEF WaitAndHook
<1>5. \A d \in Clients : Disposed(d)' => Disposed(d) \/ d = c
  BY <1>4 DEF Disposed, SetUpAt, Leaving, ThreadsInv, OwnInv, TypeOK
<1>6. \A u \in Threads : Holds(u)' = Holds(u)
  BY <1>4 DEF Holds, ThreadsInv, OwnInv, TypeOK
<1>8. \A d \in Clients : Disposed(d)' => /\ ~open'[d] /\ outPc'[d] \in {"none", "ended"}
                                         /\ \A u \in Threads : Holds(u)' # d
  BY <1>1, <1>2, <1>3, <1>4, <1>5, <1>6 DEF Alive, ThreadsInv, OwnInv, TypeOK
<1> QED BY <1>8 DEF Alive

LEMMA FreeAlive ==
  ASSUME ThreadsInv, Alive, NEW t \in Threads, Free(t)
  PROVE  Alive'
<1> USE ThreadsAssumption DEF listVars, recordVars, hookVars, walkVars, Go, Threads, Hosts
<1> DEFINE c == Leaving(t)
<1>1. c \in Clients
  BY DEF ThreadsInv, OwnInv, TypeOK, Hosting, SettingUp, SetupPlaces, Free, Leaving
<1>2. Disposed(c)
  BY DEF Disposed, SetUpAt, Free, Leaving
<1>3. freed' = freed \cup {c}
  BY DEF Free
<1>4. /\ pc' = [pc EXCEPT ![t] = IF t \in Clients THEN "ended" ELSE Home(t)] /\ pc[t] = "free"
      /\ UNCHANGED <<open, outPc, it, cur, purpose, next>>
      /\ cli' = IF t \in Clients THEN cli ELSE [cli EXCEPT ![t] = NoClient]
  BY DEF Free
<1>5. \A d \in Clients : Disposed(d)' => Disposed(d) \/ d = c
  BY <1>3, <1>4 DEF Disposed, SetUpAt, Leaving, Home, ThreadsInv, OwnInv, TypeOK
<1>6. \A u \in Threads : Holds(u)' = Holds(u)
  BY <1>4 DEF Holds, Home, ThreadsInv, OwnInv, TypeOK
<1> HIDE DEF c
<1>8. \A d \in Clients : Disposed(d)' => /\ ~open'[d] /\ outPc'[d] \in {"none", "ended"}
                                         /\ \A u \in Threads : Holds(u)' # d
  BY <1>2, <1>4, <1>5, <1>6 DEF Alive
<1> QED BY <1>8 DEF Alive

\* A client that is set up is not disposed of.
LEMMA SetUpAlive ==
  ASSUME ThreadsInv, Alive, NEW t \in Hosts,
         Accept(t) \/ Counted(t) \/ Link(t) \/
         Hello(t) \/ HelloFails(t) \/ StartClient(t)
  PROVE  Alive'
<1> USE ThreadsAssumption DEF ThreadsInv, OwnInv, TypeOK, listVars, recordVars, hookVars, walkVars,
                            Go, Threads, Hosts
<1>0. head \notin freed
  BY ListedAlive
<1>1. CASE Accept(t)
  BY <1>1, <1>0 DEF Accept, StartWalk, Home, Alive, Disposed, Holds,
         SetUpAt, Walking, Prefetching, Outputs, Kinds, Hosting, SettingUp, WalkPlaces,
         SetupPlaces, LinkedPlaces
<1>2. CASE Counted(t)
  BY <1>2, <1>0 DEF Counted, Alive, Disposed, Holds,
         SetUpAt, Walking, Prefetching, Outputs, Kinds, Hosting, SettingUp, WalkPlaces,
         SetupPlaces, LinkedPlaces
<1>3. CASE Link(t)
  BY <1>3, <1>0 DEF Link, Alive, Disposed, Holds,
         SetUpAt, Walking, Prefetching, Outputs, Kinds, Hosting, SettingUp, WalkPlaces,
         SetupPlaces, LinkedPlaces
<1>4. CASE Hello(t)
  BY <1>4, <1>0 DEF Hello, Alive, Disposed, Holds,
         SetUpAt, Walking, Prefetching, Outputs, Kinds, Hosting, SettingUp, WalkPlaces,
         SetupPlaces, LinkedPlaces
<1>5. CASE HelloFails(t)
  BY <1>5, <1>0 DEF HelloFails, CloseClient, Signalled, Alive, Disposed, Holds,
         SetUpAt, Walking, Prefetching, Outputs, Kinds, Hosting, SettingUp, WalkPlaces,
         SetupPlaces, LinkedPlaces
<1>6. CASE StartClient(t)
  BY <1>6, <1>0 DEF StartClient, Home, Alive, Disposed, Holds,
         SetUpAt, Walking, Prefetching, Outputs, Kinds, Hosting, SettingUp, WalkPlaces,
         SetupPlaces, LinkedPlaces
<1> QED BY <1>1, <1>2, <1>3, <1>4, <1>5, <1>6

\* The input thread disposes of its client when the output thread has ended.
LEMMA InputAlive ==
  ASSUME ThreadsInv, Alive, NEW c \in Clients,
         Message(c) \/ Answer(c) \/ CloseOther(c) \/
         OthersClosed(c) \/ LeaveLoop(c) \/ JoinOutput(c)
  PROVE  Alive'
<1> USE ThreadsAssumption DEF ThreadsInv, OwnInv, TypeOK, listVars, recordVars, hookVars, walkVars,
                            Go, Threads, Hosts
<1>0. head \notin freed
  BY ListedAlive
<1>1. CASE Message(c)
  BY <1>1, <1>0 DEF Message, HandshakeMessage, Request, PeerGone, CloseClient, Signalled,
         Alive, Disposed, Holds,
         SetUpAt, Walking, Prefetching, Outputs, Kinds, Hosting, SettingUp, WalkPlaces,
         SetupPlaces, LinkedPlaces
<1>2. CASE Answer(c)
  BY <1>2, <1>0 DEF Answer, HandshakeGoesOn, InitMessage, StartWalk, Alive, Disposed,
         Holds,
         SetUpAt, Walking, Prefetching, Outputs, Kinds, Hosting, SettingUp, WalkPlaces,
         SetupPlaces, LinkedPlaces
<1>3. CASE CloseOther(c)
  BY <1>3, <1>0 DEF CloseOther, CloseClient, Signalled, Onwards, Alive, Disposed, Holds,
         SetUpAt, Walking, Prefetching, Outputs, Kinds, Hosting, SettingUp, WalkPlaces,
         SetupPlaces, LinkedPlaces
<1>4. CASE OthersClosed(c)
  BY <1>4, <1>0 DEF OthersClosed, Alive, Disposed, Holds,
         SetUpAt, Walking, Prefetching, Outputs, Kinds, Hosting, SettingUp, WalkPlaces,
         SetupPlaces, LinkedPlaces
<1>5. CASE LeaveLoop(c)
  BY <1>5, <1>0 DEF LeaveLoop, Signalled, Alive, Disposed, Holds,
         SetUpAt, Walking, Prefetching, Outputs, Kinds, Hosting, SettingUp, WalkPlaces,
         SetupPlaces, LinkedPlaces
<1>6. CASE JoinOutput(c)
  BY <1>6, <1>0 DEF JoinOutput, OutputEnded, Alive, Disposed, Holds,
         SetUpAt, Walking, Prefetching, Outputs, Kinds, Hosting, SettingUp, WalkPlaces,
         SetupPlaces, LinkedPlaces
<1> QED BY <1>1, <1>2, <1>3, <1>4, <1>5, <1>6

\* The main thread drops references, and takes none to a client that is disposed of.
LEMMA MainAlive ==
  ASSUME ThreadsInv, Alive,
         MarkOne \/ MarkDone \/ StopOne \/ JoinInput \/ ShutdownSockets \/
         JoinListener \/ ScreenFreed \/ StartMark \/ Stop \/ ListenerEnds
  PROVE  Alive'
<1> USE ThreadsAssumption DEF ThreadsInv, OwnInv, TypeOK, listVars, recordVars, hookVars, walkVars,
                            Go, Threads, Hosts
<1>0. head \notin freed
  BY ListedAlive
<1>1. CASE MarkOne
  BY <1>1, <1>0 DEF MarkOne, Signalled, Alive, Disposed, Holds,
         SetUpAt, Walking, Prefetching, Outputs, Kinds, Hosting, SettingUp, WalkPlaces,
         SetupPlaces, LinkedPlaces
<1>2. CASE MarkDone
  BY <1>2, <1>0 DEF MarkDone, Alive, Disposed, Holds,
         SetUpAt, Walking, Prefetching, Outputs, Kinds, Hosting, SettingUp, WalkPlaces,
         SetupPlaces, LinkedPlaces
<1>3. CASE StopOne
  BY <1>3, <1>0 DEF StopOne, CloseClient, Signalled, Alive, Disposed, Holds,
         SetUpAt, Walking, Prefetching, Outputs, Kinds, Hosting, SettingUp, WalkPlaces,
         SetupPlaces, LinkedPlaces
<1>4. CASE JoinInput
  BY <1>4, <1>0 DEF JoinInput, Onwards, Alive, Disposed, Holds,
         SetUpAt, Walking, Prefetching, Outputs, Kinds, Hosting, SettingUp, WalkPlaces,
         SetupPlaces, LinkedPlaces
<1>5. CASE ShutdownSockets
  BY <1>5, <1>0 DEF ShutdownSockets, Alive, Disposed, Holds,
         SetUpAt, Walking, Prefetching, Outputs, Kinds, Hosting, SettingUp, WalkPlaces,
         SetupPlaces, LinkedPlaces
<1>6. CASE JoinListener
  BY <1>6, <1>0 DEF JoinListener, StartWalk, Alive, Disposed, Holds,
         SetUpAt, Walking, Prefetching, Outputs, Kinds, Hosting, SettingUp, WalkPlaces,
         SetupPlaces, LinkedPlaces
<1>7. CASE ScreenFreed
  BY <1>7, <1>0 DEF ScreenFreed, Alive, Disposed, Holds,
         SetUpAt, Walking, Prefetching, Outputs, Kinds, Hosting, SettingUp, WalkPlaces,
         SetupPlaces, LinkedPlaces
<1>8. CASE StartMark
  BY <1>8, <1>0 DEF StartMark, StartWalk, Alive, Disposed, Holds,
         SetUpAt, Walking, Prefetching, Outputs, Kinds, Hosting, SettingUp, WalkPlaces,
         SetupPlaces, LinkedPlaces
<1>9. CASE Stop
  BY <1>9, <1>0 DEF Stop, StartWalk, Alive, Disposed, Holds,
         SetUpAt, Walking, Prefetching, Outputs, Kinds, Hosting, SettingUp, WalkPlaces,
         SetupPlaces, LinkedPlaces
<1>10. CASE ListenerEnds
  BY <1>10, <1>0 DEF ListenerEnds, Alive, Disposed, Holds,
         SetUpAt, Walking, Prefetching, Outputs, Kinds, Hosting, SettingUp, WalkPlaces,
         SetupPlaces, LinkedPlaces
<1> QED BY <1>1, <1>2, <1>3, <1>4, <1>5, <1>6, <1>7, <1>8, <1>9, <1>10

LEMMA OutputAlive ==
  ASSUME ThreadsInv, Alive, NEW c \in Clients, OutputStep(c)
  PROVE  Alive'
<1>1. outPc[c] \notin {"none", "ended"}
  BY DEF OutputStep, Look, WaitForUpdate, StartSend, EndSend, OutGo
<1>2. UNCHANGED <<pc, it, cur, purpose, cli, freed, open, next>>
      /\ \A d \in Clients : d # c => outPc'[d] = outPc[d]
  BY DEF OutputStep, Look, WaitForUpdate, StartSend, EndSend, OutGo, listVars, recordVars, walkVars,
         ThreadsInv, OwnInv, TypeOK
<1> QED BY <1>1, <1>2 DEF Alive, Disposed, Holds, SetUpAt, Prefetching

LEMMA AliveStep == ThreadsInv /\ Alive /\ [Next]_vars => Alive'
<1> SUFFICES ASSUME ThreadsInv, Alive, [Next]_vars PROVE Alive'
  OBVIOUS
<1>1. CASE \E t \in Threads : Walk(t) \/ Gone(t)
  BY <1>1, WalkAlive, UnlinkAlive, HookAlive, FreeAlive DEF Gone
<1>2. CASE \E t \in {Main, Listener} : Accept(t) \/ SetUp(t)
  <2>1. PICK t \in Hosts :
          Accept(t) \/ Counted(t) \/ Link(t) \/ Hello(t) \/ HelloFails(t) \/ StartClient(t)
    BY <1>2 DEF SetUp, Hosts
  <2> QED BY <2>1, SetUpAlive
<1>3. CASE \E c \in Clients : Message(c) \/ InputStep(c)
  <2>1. PICK c \in Clients : \/ Message(c) \/ Answer(c) \/ CloseOther(c)
                             \/ OthersClosed(c) \/ LeaveLoop(c) \/ JoinOutput(c)
    BY <1>3 DEF InputStep
  <2> QED BY <2>1, InputAlive
<1>4. CASE \E c \in Clients : OutputStep(c)
  BY <1>4, OutputAlive
<1>5. CASE MainStep \/ StartMark \/ Stop \/ ListenerEnds
  BY <1>5, MainAlive DEF MainStep
<1>6. CASE UNCHANGED vars
  BY <1>6 DEF Alive, Disposed, Holds, SetUpAt, Prefetching,
              vars, listVars, recordVars, walkVars
<1> QED BY <1>1, <1>2, <1>3, <1>4, <1>5, <1>6 DEF Next

\* However the walks over the list, the threads of the clients and those that dispose of
\* them interleave, no record is freed that somebody holds a reference to (rfbIncrClientRef,
\* rfbDecrClientRef, rfbClientConnectionGone), none that is in the list or that a thread
\* works for, and no reference is taken to one afterwards: it stays closed.
THEOREM NothingHeldIsFreed == Spec => []NoneFreedInUse
<1>1. Init => Alive
  <2> SUFFICES ASSUME Init PROVE Alive
    OBVIOUS
  <2> USE ThreadsAssumption DEF Init, Threads, Hosts, Home
  <2>1. ASSUME NEW c \in Clients PROVE ~Disposed(c)
    BY DEF Disposed, SetUpAt
  <2> QED BY <2>1 DEF Alive
<1>2. ThreadsInv /\ Alive => NoneFreedInUse
  <2> SUFFICES ASSUME ThreadsInv, Alive, NEW c \in freed
               PROVE  /\ c \notin listed /\ Iterating(c) = {}
                      /\ outPc[c] \in {"none", "ended"}
                      /\ \A t \in {Main, Listener} : pc[t] \in {"hello", "start"} => cli[t] # c
    BY DEF NoneFreedInUse
  <2>1. c \in Clients /\ Disposed(c)
    BY DEF ThreadsInv, OwnInv, TypeOK, Disposed
  <2>2. Iterating(c) = {} /\ outPc[c] \in {"none", "ended"}
    BY <2>1, IteratingHolds DEF Alive
  <2>3. c \notin listed
    BY ListedAlive
  <2>4. ASSUME NEW t \in {Main, Listener}, pc[t] \in {"hello", "start"} PROVE cli[t] # c
    BY <2>4 DEF ThreadsInv, OwnInv, Hosting, SettingUp, SetupPlaces, Hosts
  <2> QED BY <2>2, <2>3, <2>4
<1> QED BY <1>1, <1>2, ThreadsInvariant, AliveStep, PTL DEF Spec

-----------------------------------------------------------------------------
(* The walks of the main thread miss nobody *)

\* Who is still to be visited: the clients to be marked, or all.
Sought(c) == \/ purpose[Main] = "mark" /\ c \in due
             \/ purpose[Main] \in {"stop", "cleanup"}

\* The records the main thread can still come to, by the pointer of its iterator and, if
\* it has fetched the next client already, by the one it handles.
From(after, c) == IF c = NoClient THEN {} ELSE {c} \cup after[c]
Ahead(after) ==
  IF pc[Main] \in {"fetched", "act", "joinInput"}
  THEN From(after, it[Main]) \cup (IF Prefetching(Main) THEN {cur[Main]} ELSE {})
  ELSE IF pc[Main] # "advance" THEN {}
  ELSE IF Prefetching(Main) THEN From(after, it[Main])
  ELSE after[it[Main]]

Covered(after) == \A c \in listed : open[c] /\ Sought(c) => c \in Ahead(after)

\* A client is open from its linking until its output thread has been joined, or until its
\* host drops it, which closes it first; the listener has ended before the screen goes.
Opened ==
  /\ \A c \in Clients : open[c] <=> \/ pc[c] \in LinkedPlaces \ {"unlink"}
                                    \/ SetUpAt(c, {"hello", "start", "unlink", "unlinked"})
  /\ \A h \in Hosts : pc[h] \in {"unlink", "unlinked", "free"} => state[cli[h]] = "shutdown"
  /\ purpose[Main] = "cleanup" => pc[Listener] = "ended"

WalkInv == Opened /\ \E after \in [Clients -> SUBSET Clients] : InOrder(after) /\ Covered(after)

\* Walking opens and closes nothing.
LEMMA WalkOpened ==
  ASSUME ThreadsInv, Opened, NEW t \in Threads,
         SkipClosed(t) \/ TakeReference(t) \/ Advance(t) \/ LastFetched(t)
  PROVE  Opened'
<1> USE ThreadsAssumption DEF ThreadsInv, OwnInv, TypeOK, listVars, recordVars, hookVars, walkVars,
                            Go, Threads, Hosts
<1>1. CASE SkipClosed(t)
  BY <1>1 DEF SkipClosed, Opened, SetUpAt, Kinds, Hosting, SettingUp, Stages, Outputs,
         Stopping, WalkPlaces, SetupPlaces, LinkedPlaces
<1>2. CASE TakeReference(t)
  BY <1>2 DEF TakeReference, Opened, SetUpAt, Kinds, Hosting, SettingUp, Stages, Outputs,
         Stopping, WalkPlaces, SetupPlaces, LinkedPlaces
<1>3. CASE Advance(t)
  BY <1>3 DEF Advance, Opened, SetUpAt, Kinds, Hosting, SettingUp, Stages, Outputs,
         Stopping, WalkPlaces, SetupPlaces, LinkedPlaces
<1>4. CASE LastFetched(t)
  BY <1>4 DEF LastFetched, Opened, SetUpAt, Kinds, Hosting, SettingUp, Stages, Outputs,
         Stopping, WalkPlaces, SetupPlaces, LinkedPlaces
<1> QED BY <1>1, <1>2, <1>3, <1>4

\* A record is disposed of when it is closed, or is closed on the way.
LEMMA GoneOpened ==
  ASSUME ThreadsInv, Opened, NEW t \in Threads,
         Unlink(t) \/ WaitAndHook(t) \/ Free(t)
  PROVE  Opened'
<1> USE ThreadsAssumption DEF ThreadsInv, OwnInv, TypeOK, listVars, recordVars, hookVars, walkVars,
                            Go, Threads, Hosts
<1>1. CASE Unlink(t)
  BY <1>1 DEF Unlink, Leaving, Opened, SetUpAt, Kinds, Hosting, SettingUp, Stages, Outputs,
         Stopping, WalkPlaces, SetupPlaces, LinkedPlaces
<1>2. CASE WaitAndHook(t)
  BY <1>2 DEF WaitAndHook, Leaving, Opened, SetUpAt, Kinds, Hosting, SettingUp, Stages,
         Outputs, Stopping, WalkPlaces, SetupPlaces, LinkedPlaces
<1>3. CASE Free(t)
  BY <1>3 DEF Free, Home, Leaving, Opened, SetUpAt, Kinds, Hosting, SettingUp, Stages,
         Outputs, Stopping, WalkPlaces, SetupPlaces, LinkedPlaces
<1> QED BY <1>1, <1>2, <1>3

\* A client is opened when it is linked.
LEMMA SetUpOpened ==
  ASSUME ThreadsInv, Opened, NEW t \in Hosts,
         Accept(t) \/ Counted(t) \/ Link(t) \/ Hello(t) \/ HelloFails(t) \/ StartClient(t)
  PROVE  Opened'
<1> USE ThreadsAssumption DEF ThreadsInv, OwnInv, TypeOK, listVars, recordVars, hookVars, walkVars,
                            Go, Threads, Hosts
<1>1. CASE Accept(t)
  BY <1>1 DEF Accept, StartWalk, Home, Opened, SetUpAt, Kinds, Hosting, SettingUp, Stages,
         Outputs, Stopping, WalkPlaces, SetupPlaces, LinkedPlaces
<1>2. CASE Counted(t)
  BY <1>2 DEF Counted, Opened, SetUpAt, Kinds, Hosting, SettingUp, Stages, Outputs,
         Stopping, WalkPlaces, SetupPlaces, LinkedPlaces
<1>3. CASE Link(t)
  BY <1>3 DEF Link, Opened, SetUpAt, Kinds, Hosting, SettingUp, Stages, Outputs, Stopping,
         WalkPlaces, SetupPlaces, LinkedPlaces
<1>4. CASE Hello(t)
  BY <1>4 DEF Hello, Opened, SetUpAt, Kinds, Hosting, SettingUp, Stages, Outputs, Stopping,
         WalkPlaces, SetupPlaces, LinkedPlaces
<1>5. CASE HelloFails(t)
  BY <1>5 DEF HelloFails, CloseClient, Signalled, Opened, SetUpAt, Kinds, Hosting,
         SettingUp, Stages, Outputs, Stopping, WalkPlaces, SetupPlaces, LinkedPlaces
<1>6. CASE StartClient(t)
  BY <1>6 DEF StartClient, Home, Opened, SetUpAt, Kinds, Hosting, SettingUp, Stages,
         Outputs, Stopping, WalkPlaces, SetupPlaces, LinkedPlaces
<1> QED BY <1>1, <1>2, <1>3, <1>4, <1>5, <1>6

\* The threads of a client close it when the output thread has ended.
LEMMA InputOpened ==
  ASSUME ThreadsInv, Opened, NEW c \in Clients,
         Message(c) \/ Answer(c) \/ CloseOther(c) \/ OthersClosed(c) \/ LeaveLoop(c) \/
         JoinOutput(c) \/ OutputStep(c)
  PROVE  Opened'
<1> USE ThreadsAssumption DEF ThreadsInv, OwnInv, TypeOK, listVars, recordVars, hookVars, walkVars,
                            Go, Threads, Hosts
<1>1. CASE Message(c)
  BY <1>1 DEF Message, HandshakeMessage, Request, PeerGone, CloseClient, Signalled, Opened,
         SetUpAt, Kinds, Hosting, SettingUp, Stages, Outputs, Stopping, WalkPlaces,
         SetupPlaces, LinkedPlaces
<1>2. CASE Answer(c)
  BY <1>2 DEF Answer, HandshakeGoesOn, InitMessage, StartWalk, Opened, SetUpAt, Kinds,
         Hosting, SettingUp, Stages, Outputs, Stopping, WalkPlaces, SetupPlaces,
         LinkedPlaces
<1>3. CASE CloseOther(c)
  BY <1>3 DEF CloseOther, CloseClient, Signalled, Onwards, Opened, SetUpAt, Kinds, Hosting,
         SettingUp, Stages, Outputs, Stopping, WalkPlaces, SetupPlaces, LinkedPlaces
<1>4. CASE OthersClosed(c)
  BY <1>4 DEF OthersClosed, Opened, SetUpAt, Kinds, Hosting, SettingUp, Stages, Outputs,
         Stopping, WalkPlaces, SetupPlaces, LinkedPlaces
<1>5. CASE LeaveLoop(c)
  BY <1>5 DEF LeaveLoop, Signalled, Opened, SetUpAt, Kinds, Hosting, SettingUp, Stages,
         Outputs, Stopping, WalkPlaces, SetupPlaces, LinkedPlaces
<1>6. CASE JoinOutput(c)
  BY <1>6 DEF JoinOutput, Opened, SetUpAt, Kinds, Hosting, SettingUp, Stages, Outputs,
         Stopping, WalkPlaces, SetupPlaces, LinkedPlaces
<1>7. CASE OutputStep(c)
  BY <1>7 DEF OutputStep, Look, WaitForUpdate, StartSend, EndSend, OutGo, Opened, SetUpAt,
         Kinds, Hosting, SettingUp, Stages, Outputs, Stopping, WalkPlaces, SetupPlaces,
         LinkedPlaces
<1> QED BY <1>1, <1>2, <1>3, <1>4, <1>5, <1>6, <1>7

\* The main thread leaves closing to them.
LEMMA MainOpened ==
  ASSUME ThreadsInv, Opened,
         MarkOne \/ MarkDone \/ StopOne \/ JoinInput \/ ShutdownSockets \/ JoinListener \/
         ScreenFreed \/ StartMark \/ Stop \/ ListenerEnds
  PROVE  Opened'
<1> USE ThreadsAssumption DEF ThreadsInv, OwnInv, TypeOK, listVars, recordVars, hookVars, walkVars,
                            Go, Threads, Hosts
<1>1. CASE MarkOne
  BY <1>1 DEF MarkOne, Signalled, Opened, SetUpAt, Kinds, Hosting, SettingUp, Stages,
         Outputs, Stopping, WalkPlaces, SetupPlaces, LinkedPlaces
<1>2. CASE MarkDone
  BY <1>2 DEF MarkDone, Opened, SetUpAt, Kinds, Hosting, SettingUp, Stages, Outputs,
         Stopping, WalkPlaces, SetupPlaces, LinkedPlaces
<1>3. CASE StopOne
  BY <1>3 DEF StopOne, CloseClient, Signalled, Opened, SetUpAt, Kinds, Hosting, SettingUp,
         Stages, Outputs, Stopping, WalkPlaces, SetupPlaces, LinkedPlaces
<1>4. CASE JoinInput
  BY <1>4 DEF JoinInput, Onwards, Opened, SetUpAt, Kinds, Hosting, SettingUp, Stages,
         Outputs, Stopping, WalkPlaces, SetupPlaces, LinkedPlaces
<1>5. CASE ShutdownSockets
  BY <1>5 DEF ShutdownSockets, Opened, SetUpAt, Kinds, Hosting, SettingUp, Stages, Outputs,
         Stopping, WalkPlaces, SetupPlaces, LinkedPlaces
<1>6. CASE JoinListener
  BY <1>6 DEF JoinListener, StartWalk, Opened, SetUpAt, Kinds, Hosting, SettingUp, Stages,
         Outputs, Stopping, WalkPlaces, SetupPlaces, LinkedPlaces
<1>7. CASE ScreenFreed
  BY <1>7 DEF ScreenFreed, Opened, SetUpAt, Kinds, Hosting, SettingUp, Stages, Outputs,
         Stopping, WalkPlaces, SetupPlaces, LinkedPlaces
<1>8. CASE StartMark
  BY <1>8 DEF StartMark, StartWalk, Opened, SetUpAt, Kinds, Hosting, SettingUp, Stages,
         Outputs, Stopping, WalkPlaces, SetupPlaces, LinkedPlaces
<1>9. CASE Stop
  BY <1>9 DEF Stop, StartWalk, Opened, SetUpAt, Kinds, Hosting, SettingUp, Stages, Outputs,
         Stopping, WalkPlaces, SetupPlaces, LinkedPlaces
<1>10. CASE ListenerEnds
  BY <1>10 DEF ListenerEnds, Opened, SetUpAt, Kinds, Hosting, SettingUp, Stages, Outputs,
         Stopping, WalkPlaces, SetupPlaces, LinkedPlaces
<1> QED BY <1>1, <1>2, <1>3, <1>4, <1>5, <1>6, <1>7, <1>8, <1>9, <1>10

\* Going on to the successor, the main thread keeps what is behind it.
LEMMA WalkCovered ==
  ASSUME ThreadsInv, Opened, NEW t \in Threads, NEW after \in [Clients -> SUBSET Clients],
         InOrder(after), Covered(after),
         SkipClosed(t) \/ TakeReference(t) \/ Advance(t) \/ LastFetched(t)
  PROVE  Covered(after)'
<1> USE ThreadsAssumption DEF ThreadsInv, OwnInv, TypeOK, listVars, recordVars, hookVars, walkVars,
                            Go, Threads, Hosts
<1>0. \A d \in Clients : after[d] = IF next[d] = NoClient THEN {}
                                   ELSE ({next[d]} \cap listed) \cup after[next[d]]
  BY DEF InOrder
<1>1. CASE SkipClosed(t)
  BY <1>1, <1>0 DEF SkipClosed, Covered, Ahead, From, Sought, Prefetching
<1>2. CASE TakeReference(t)
  BY <1>2, <1>0 DEF TakeReference, Covered, Ahead, From, Sought, Prefetching
<1>3. CASE Advance(t)
  <2>1. CASE t # Main
    BY <1>3, <2>1 DEF Advance, Covered, Ahead, From, Sought, Prefetching
  <2>2. CASE t = Main
    <3>1. it[Main] \in Clients /\ it'[Main] = next[it[Main]]
      BY <1>3, <2>2 DEF Advance, Walking
    <3>2. \A d \in Ahead(after) : d \in listed => d \in Ahead(after)'
      <4>1. next[it[Main]] # NoClient =>
              after[it[Main]] = ({next[it[Main]]} \cap listed) \cup after[next[it[Main]]]
        BY <3>1, <1>0
      <4>2. next[it[Main]] = NoClient => after[it[Main]] = {}
        BY <3>1, <1>0
      <4>3. Ahead(after) = IF Prefetching(Main) THEN {it[Main]} \cup after[it[Main]]
                           ELSE after[it[Main]]
        BY <1>3, <2>2, <3>1 DEF Advance, Ahead, From
      <4>4. Ahead(after)' = From(after, next[it[Main]]) \cup
                            (IF Prefetching(Main) THEN {it[Main]} ELSE {})
        BY <1>3, <2>2, <3>1 DEF Advance, Ahead, From, Prefetching
      <4> QED BY <4>1, <4>2, <4>3, <4>4 DEF From
    <3> QED BY <1>3, <2>2, <3>2 DEF Advance, Covered, Sought
  <2> QED BY <2>1, <2>2
<1>4. CASE LastFetched(t)
  BY <1>4, <1>0 DEF LastFetched, Covered, Ahead, From, Sought, Prefetching
<1> QED BY <1>1, <1>2, <1>3, <1>4

\* Who is disposed of has been unlinked.
LEMMA GoneCovered ==
  ASSUME ThreadsInv, Opened, NEW t \in Threads, NEW after \in [Clients -> SUBSET Clients],
         InOrder(after), Covered(after),
         WaitAndHook(t) \/ Free(t)
  PROVE  Covered(after)'
<1> USE ThreadsAssumption DEF ThreadsInv, OwnInv, TypeOK, listVars, recordVars, hookVars, walkVars,
                            Go, Threads, Hosts
<1>1. CASE WaitAndHook(t)
  BY <1>1 DEF WaitAndHook, Leaving, Covered, Ahead, From, Sought, Prefetching, Kinds,
         SetupPlaces, WalkPlaces
<1>2. CASE Free(t)
  BY <1>2 DEF Free, Home, Leaving, Covered, Ahead, From, Sought, Prefetching, Kinds,
         SetupPlaces, WalkPlaces
<1> QED BY <1>1, <1>2

\* Hosts that set up a client seek nobody.
LEMMA SetUpCovered ==
  ASSUME ThreadsInv, Opened, NEW t \in Hosts, NEW after \in [Clients -> SUBSET Clients],
         InOrder(after), Covered(after),
         Accept(t) \/ Counted(t) \/ Hello(t) \/ HelloFails(t) \/ StartClient(t)
  PROVE  Covered(after)'
<1> USE ThreadsAssumption DEF ThreadsInv, OwnInv, TypeOK, listVars, recordVars, hookVars, walkVars,
                            Go, Threads, Hosts
<1>1. CASE Accept(t)
  BY <1>1 DEF Accept, StartWalk, Home, Covered, Ahead, From, Sought, Prefetching, Kinds,
         SetupPlaces, WalkPlaces, Hosting, SettingUp, Stages
<1>2. CASE Counted(t)
  BY <1>2 DEF Counted, Covered, Ahead, From, Sought, Prefetching, Kinds, SetupPlaces,
         WalkPlaces, Hosting, SettingUp, Stages
<1>3. CASE Hello(t)
  BY <1>3 DEF Hello, Covered, Ahead, From, Sought, Prefetching, Kinds, SetupPlaces,
         WalkPlaces, Hosting, SettingUp, Stages
<1>4. CASE HelloFails(t)
  BY <1>4 DEF HelloFails, CloseClient, Signalled, Covered, Ahead, From, Sought,
         Prefetching, Kinds, SetupPlaces, WalkPlaces, Hosting, SettingUp, Stages
<1>5. CASE StartClient(t)
  BY <1>5 DEF StartClient, Home, Covered, Ahead, From, Sought, Prefetching, Kinds,
         SetupPlaces, WalkPlaces, Hosting, SettingUp, Stages
<1> QED BY <1>1, <1>2, <1>3, <1>4, <1>5

\* The threads of the clients do not touch what the main thread walks by.
LEMMA InputCovered ==
  ASSUME ThreadsInv, Opened, NEW c \in Clients, NEW after \in [Clients -> SUBSET Clients],
         InOrder(after), Covered(after),
         Message(c) \/ Answer(c) \/ CloseOther(c) \/ OthersClosed(c) \/ LeaveLoop(c) \/
         JoinOutput(c) \/ OutputStep(c)
  PROVE  Covered(after)'
<1> USE ThreadsAssumption DEF ThreadsInv, OwnInv, TypeOK, listVars, recordVars, hookVars, walkVars,
                            Go, Threads, Hosts
<1>1. CASE Message(c)
  BY <1>1 DEF Message, HandshakeMessage, Request, PeerGone, CloseClient, Signalled,
         Covered, Ahead, From, Sought, Prefetching
<1>2. CASE Answer(c)
  BY <1>2 DEF Answer, HandshakeGoesOn, InitMessage, StartWalk, Covered, Ahead, From,
         Sought, Prefetching
<1>3. CASE CloseOther(c)
  BY <1>3 DEF CloseOther, CloseClient, Signalled, Onwards, Covered, Ahead, From, Sought,
         Prefetching
<1>4. CASE OthersClosed(c)
  BY <1>4 DEF OthersClosed, Covered, Ahead, From, Sought, Prefetching
<1>5. CASE LeaveLoop(c)
  BY <1>5 DEF LeaveLoop, Signalled, Covered, Ahead, From, Sought, Prefetching
<1>6. CASE JoinOutput(c)
  BY <1>6 DEF JoinOutput, Covered, Ahead, From, Sought, Prefetching
<1>7. CASE OutputStep(c)
  BY <1>7 DEF OutputStep, Look, WaitForUpdate, StartSend, EndSend, OutGo, Covered, Ahead,
         From, Sought, Prefetching
<1> QED BY <1>1, <1>2, <1>3, <1>4, <1>5, <1>6, <1>7

\* A walk begins with all that are listed, and leaves a client marked, or joined.
LEMMA MainCovered ==
  ASSUME ThreadsInv, Opened, NEW after \in [Clients -> SUBSET Clients], InOrder(after),
         Covered(after),
         MarkOne \/ MarkDone \/ StopOne \/ JoinInput \/ ShutdownSockets \/ JoinListener \/
         ScreenFreed \/ StartMark \/ Stop \/ ListenerEnds
  PROVE  Covered(after)'
<1> USE ThreadsAssumption DEF ThreadsInv, OwnInv, TypeOK, listVars, recordVars, hookVars, walkVars,
                            Go, Threads, Hosts
<1>0. listed = IF head = NoClient THEN {} ELSE {head} \cup after[head]
  BY DEF InOrder
<1>1. CASE MarkOne
  BY <1>1, <1>0 DEF MarkOne, Signalled, Covered, Ahead, From, Sought, Prefetching, Kinds,
         Stages, SetUpAt, LinkedPlaces, SetupPlaces, WalkPlaces, Walking
<1>2. CASE MarkDone
  BY <1>2, <1>0 DEF MarkDone, Covered, Ahead, From, Sought, Prefetching, Kinds, Stages,
         SetUpAt, LinkedPlaces, SetupPlaces, WalkPlaces, Walking
<1>3. CASE StopOne
  BY <1>3, <1>0 DEF StopOne, CloseClient, Signalled, Covered, Ahead, From, Sought,
         Prefetching, Kinds, Stages, SetUpAt, LinkedPlaces, SetupPlaces, WalkPlaces,
         Walking
<1>4. CASE JoinInput
  <2>1. cur[Main] \notin listed
    <3> SUFFICES ASSUME cur[Main] \in listed PROVE FALSE
      OBVIOUS
    <3>1. pc[Main] = "joinInput" /\ pc[cur[Main]] \in {"none", "ended"}
      BY <1>4 DEF JoinInput
    <3>2. pc[Listener] \in {"select", "ended"}
      BY <3>1 DEF Kinds, Stopping
    <3> QED BY <3>1, <3>2 DEF Stages, SetUpAt, LinkedPlaces, WalkPlaces
  <2> QED BY <1>4, <2>1 DEF JoinInput, Onwards, Covered, Ahead, From, Sought, Prefetching, Kinds
<1>5. CASE ShutdownSockets
  BY <1>5, <1>0 DEF ShutdownSockets, Covered, Ahead, From, Sought, Prefetching, Kinds,
         Stages, SetUpAt, LinkedPlaces, SetupPlaces, WalkPlaces, Walking
<1>6. CASE JoinListener
  BY <1>6, <1>0 DEF JoinListener, StartWalk, Covered, Ahead, From, Sought, Prefetching,
         Kinds, Stages, SetUpAt, LinkedPlaces, SetupPlaces, WalkPlaces, Walking
<1>7. CASE ScreenFreed
  BY <1>7, <1>0 DEF ScreenFreed, Covered, Ahead, From, Sought, Prefetching, Kinds, Stages,
         SetUpAt, LinkedPlaces, SetupPlaces, WalkPlaces, Walking
<1>8. CASE StartMark
  BY <1>8, <1>0 DEF StartMark, StartWalk, Covered, Ahead, From, Sought, Prefetching, Kinds,
         Stages, SetUpAt, LinkedPlaces, SetupPlaces, WalkPlaces, Walking
<1>9. CASE Stop
  BY <1>9, <1>0 DEF Stop, StartWalk, Covered, Ahead, From, Sought, Prefetching, Kinds,
         Stages, SetUpAt, LinkedPlaces, SetupPlaces, WalkPlaces, Walking
<1>10. CASE ListenerEnds
  BY <1>10, <1>0 DEF ListenerEnds, Covered, Ahead, From, Sought, Prefetching, Kinds,
         Stages, SetUpAt, LinkedPlaces, SetupPlaces, WalkPlaces, Walking
<1> QED BY <1>1, <1>2, <1>3, <1>4, <1>5, <1>6, <1>7, <1>8, <1>9, <1>10
LEMMA WalkStep == ThreadsInv /\ WalkInv /\ [Next]_vars => WalkInv'
<1> SUFFICES ASSUME ThreadsInv, WalkInv, [Next]_vars PROVE WalkInv'
  OBVIOUS
<1> USE DEF Hosts
<1>0. PICK after \in [Clients -> SUBSET Clients] : InOrder(after) /\ Covered(after)
  BY DEF WalkInv
<1>1. Opened /\ OwnInv /\ TypeOK /\ ListLinked
  BY DEF WalkInv, ThreadsInv, OwnInv
<1>2. CASE \E t \in Threads : Unlink(t)
  <2>1. PICK t \in Threads : Unlink(t)
    BY <1>2
  <2>2. PICK c \in listed : c = Leaving(t)
    BY <1>1, <2>1, UnlinkListed
  <2>3. PICK new : new = [d \in Clients |-> after[d] \ {c}]
    OBVIOUS
  <2>4. InOrder(new)' /\ new \in [Clients -> SUBSET Clients]
    BY <1>0, <1>1, <2>1, <2>2, <2>3, UnlinkOrder
  <2>5. Covered(new)'
    <3>1. c \in Clients /\ \A d \in Clients : new[d] = after[d] \ {c}
      BY <1>1, <2>3 DEF TypeOK
    <3>2. /\ listed' = listed \ {c} /\ UNCHANGED <<open, purpose, it, cur, due>>
          /\ pc[Main] = "unlink" \/ pc'[Main] = pc[Main]
      BY <1>1, <2>1, <2>2, ThreadsAssumption
         DEF Unlink, Go, recordVars, walkVars, TypeOK, Threads
    <3>3. pc[Main] = "unlink" => purpose[Main] = "none"
      BY DEF ThreadsInv, OwnInv, Kinds, SetupPlaces
    <3>4. it[Main] \in Clients \cup {NoClient} /\ (pc[Main] = "advance" => it[Main] \in Clients)
      BY <1>1 DEF TypeOK, Threads, ThreadsInv, Walking
    <3> QED BY <1>0, <3>1, <3>2, <3>3, <3>4 DEF Covered, Ahead, From, Sought, Prefetching
  <2> QED BY <1>1, <2>1, <2>4, <2>5, GoneOpened DEF WalkInv
<1>3. CASE \E t \in Hosts : Link(t)
  <2>1. PICK t \in Hosts : Link(t)
    BY <1>3
  <2>2. /\ cli[t] \in Clients /\ cli[t] \notin listed /\ cli[t] \notin due
        /\ \A d \in Clients : next[d] # cli[t]
    BY <1>1, <2>1, LinkUnlisted
  <2>3. PICK c \in Clients : c = cli[t]
    BY <2>2
  <2>4. PICK new : new = [after EXCEPT ![c] = listed]
    OBVIOUS
  <2>5. InOrder(new)' /\ new \in [Clients -> SUBSET Clients]
    BY <1>0, <1>1, <2>1, <2>2, <2>3, <2>4, LinkOrder
  <2>6. Covered(new)'
    <3>1. \A d \in Clients : after[d] \subseteq new[d]
      BY <1>0, <2>4 DEF InOrder
    <3>2. /\ listed' = listed \cup {c} /\ UNCHANGED <<it, cur, due>>
          /\ purpose' = [purpose EXCEPT ![t] = "none"] /\ pc' = [pc EXCEPT ![t] = "hello"]
          /\ open' = [open EXCEPT ![c] = TRUE] /\ purpose[t] = "count"
      BY <2>1, <2>3 DEF Link, Go, hookVars
    <3>3. CASE t = Main
      BY <3>2, <3>3, <1>1, ThreadsAssumption DEF Covered, Sought, TypeOK, Threads
    <3>4. CASE t # Main
      <4>1. pc'[Main] = pc[Main] /\ purpose'[Main] = purpose[Main]
        BY <3>2, <3>4, <1>1, ThreadsAssumption DEF TypeOK, Threads
      <4>2. purpose[Main] \notin {"stop", "cleanup"}
        BY <3>2, <3>4 DEF ThreadsInv, OwnInv, Kinds, Stopping, WalkPlaces
      <4>3. it[Main] \in Clients \cup {NoClient} /\ (pc[Main] = "advance" => it[Main] \in Clients)
        BY <1>1 DEF TypeOK, Threads, ThreadsInv, Walking
      <4>4. \A d \in listed : Sought(d)' /\ open'[d] => d \in Ahead(after)
        BY <1>0, <1>1, <2>2, <2>3, <3>2, <4>1 DEF Covered, Sought, TypeOK
      <4>5. Ahead(after) \subseteq Ahead(new)'
        BY <3>1, <3>2, <4>1, <4>3 DEF Ahead, From, Prefetching
      <4> QED BY <2>2, <2>3, <3>2, <4>1, <4>2, <4>4, <4>5 DEF Covered, Sought
    <3> QED BY <3>3, <3>4
  <2> QED BY <1>1, <2>1, <2>5, <2>6, SetUpOpened DEF WalkInv
<1>4. ASSUME listed' = listed /\ head' = head /\ next' = next, Covered(after)', Opened'
      PROVE  WalkInv'
  <2>1. InOrder(after)'
    BY <1>0, <1>4 DEF InOrder
  <2> QED BY <1>0, <1>4, <2>1 DEF WalkInv
<1>5. CASE \E t \in Threads : Walk(t) \/ WaitAndHook(t) \/ Free(t)
  <2>1. PICK t \in Threads : \/ SkipClosed(t) \/ TakeReference(t) \/ Advance(t)
                             \/ LastFetched(t) \/ WaitAndHook(t) \/ Free(t)
    BY <1>5 DEF Walk
  <2>2. Covered(after)' /\ Opened'
    BY <1>0, <1>1, <2>1, WalkCovered, GoneCovered, WalkOpened, GoneOpened
  <2>3. listed' = listed /\ head' = head /\ next' = next
    BY <2>1 DEF SkipClosed, TakeReference, Advance, LastFetched, WaitAndHook, Free, listVars
  <2> QED BY <1>4, <2>2, <2>3
<1>6. CASE \E t \in Hosts : \/ Accept(t) \/ Counted(t) \/ Hello(t) \/ HelloFails(t)
                            \/ StartClient(t)
  <2>1. Covered(after)' /\ Opened'
    BY <1>0, <1>1, <1>6, SetUpCovered, SetUpOpened
  <2>2. listed' = listed /\ head' = head /\ next' = next
    BY <1>6 DEF Accept, Counted, Hello, HelloFails, StartClient, listVars
  <2> QED BY <1>4, <2>1, <2>2
<1>7. CASE \E c \in Clients : Message(c) \/ InputStep(c) \/ OutputStep(c)
  <2>1. PICK c \in Clients : \/ Message(c) \/ Answer(c) \/ CloseOther(c) \/ OthersClosed(c)
                             \/ LeaveLoop(c) \/ JoinOutput(c) \/ OutputStep(c)
    BY <1>7 DEF InputStep
  <2>2. Covered(after)' /\ Opened'
    BY <1>0, <1>1, <2>1, InputCovered, InputOpened
  <2>3. listed' = listed /\ head' = head /\ next' = next
    BY <2>1 DEF Message, HandshakeMessage, Request, PeerGone, Answer, HandshakeGoesOn,
                InitMessage, CloseOther, OthersClosed, LeaveLoop, JoinOutput, OutputStep, Look,
                WaitForUpdate, StartSend, EndSend, listVars
  <2> QED BY <1>4, <2>2, <2>3
<1>8. CASE MainStep \/ StartMark \/ Stop \/ ListenerEnds
  <2>1. Covered(after)' /\ Opened'
    BY <1>0, <1>1, <1>8, MainCovered, MainOpened DEF MainStep
  <2>2. listed' = listed /\ head' = head /\ next' = next
    BY <1>8 DEF MainStep, MarkOne, MarkDone, StopOne, JoinInput, ShutdownSockets, JoinListener,
                ScreenFreed, StartMark, Stop, ListenerEnds, listVars
  <2> QED BY <1>4, <2>1, <2>2
<1>9. CASE UNCHANGED vars
  <2>1. UNCHANGED <<listed, head, next, open, state, cli, pc, purpose, it, cur, due>>
    BY <1>9 DEF vars, listVars, recordVars, walkVars
  <2>2. Covered(after)' /\ Opened'
    BY <1>0, <1>1, <2>1 DEF Covered, Ahead, From, Sought, Prefetching, Opened, SetUpAt
  <2> QED BY <1>4, <2>1, <2>2
<1> QED BY <1>2, <1>3, <1>5, <1>6, <1>7, <1>8, <1>9 DEF Next, Gone, SetUp

LEMMA WalkInvariant == Spec => [](ThreadsInv /\ WalkInv)
<1>1. Init => WalkInv
  <2> SUFFICES ASSUME Init PROVE WalkInv
    OBVIOUS
  <2> USE ThreadsAssumption DEF Init, Threads, Hosts, Home
  <2>1. Opened
    BY DEF Opened, SetUpAt, LinkedPlaces, WalkPlaces
  <2>2. PICK after \in [Clients -> SUBSET Clients] : InOrder(after)
    BY InitHolds DEF ThreadsInv, ListInOrder
  <2>3. Covered(after)
    BY DEF Covered
  <2> QED BY <2>1, <2>2, <2>3 DEF WalkInv
<1> QED BY <1>1, ThreadsInvariant, WalkStep, PTL DEF Spec

\* A walk of rfbMarkRegionAsModified misses none of the clients that were in the list when
\* it began, although records are taken out of the list and put in while it walks: whoever
\* it has not marked has been closed.
THEOREM MarksEverybody == Spec => []NoneMissed
<1>1. ThreadsInv /\ WalkInv => NoneMissed
  <2> SUFFICES ASSUME ThreadsInv, WalkInv, purpose[Main] = "mark", pc[Main] = "walked",
                      NEW c \in due, open[c]
               PROVE  state[c] = "shutdown"
    BY DEF NoneMissed
  <2>1. c \in Clients
    BY DEF ThreadsInv, OwnInv, TypeOK
  <2>2. c \notin listed
    BY DEF WalkInv, Covered, Ahead, Sought
  <2>3. SetUpAt(c, {"unlinked"})
    BY <2>1, <2>2 DEF WalkInv, Opened, ThreadsInv, OwnInv, Stages, SetUpAt
  <2> QED BY <2>3 DEF WalkInv, Opened, SetUpAt
<1> QED BY <1>1, WalkInvariant, PTL

\* When rfbScreenCleanup frees the screen, the walk of rfbShutdownServer has come to every
\* client in the list and has waited for its input thread, which had joined the output
\* thread: nobody is served any more.
THEOREM StoppedServesNobody == Spec => []NobodyServed
<1>1. ThreadsInv /\ WalkInv => NobodyServed
  <2> SUFFICES ASSUME ThreadsInv, WalkInv, pc[Main] = "ended" PROVE NobodyServed
    BY DEF NobodyServed
  <2>1. purpose[Main] = "cleanup" /\ pc[Listener] = "ended"
    BY DEF WalkInv, Opened, ThreadsInv, OwnInv, Kinds
  <2>2. ASSUME NEW c \in listed PROVE ~open[c]
    BY <2>1, <2>2 DEF WalkInv, Covered, Ahead, Sought
  <2>3. \A c \in Clients, places \in {{"hello", "start", "unlink"},
                                      {"hello", "start", "unlink", "unlinked"}} :
          ~SetUpAt(c, places)
    BY <2>1 DEF SetUpAt, Hosts
  <2>4. ASSUME NEW c \in Clients
        PROVE  /\ pc[c] \in {"none", "unlink", "unlinked", "free", "ended"}
               /\ ~open[c] /\ outPc[c] \in {"none", "ended"}
    <3>1. ~open[c] /\ pc[c] \notin LinkedPlaces \ {"unlink"}
      BY <2>2, <2>3 DEF WalkInv, Opened, ThreadsInv, OwnInv, Stages
    <3>2. pc[c] \in {"none", "unlink", "unlinked", "free", "ended"}
      BY <3>1 DEF ThreadsInv, OwnInv, Kinds
    <3> QED BY <3>1, <3>2 DEF ThreadsInv, Outputs
  <2> QED BY <2>1, <2>4 DEF NobodyServed
<1> QED BY <1>1, WalkInvariant, PTL
=============================================================================
