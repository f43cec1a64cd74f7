-------------------------- MODULE RfbHandshake_proofs --------------------------
(***************************************************************************)
(* Proofs about RfbHandshake, for any clients and any of the versions: the *)
(* two sides of a connection go through the protocol together, neither     *)
(* waits for the other in vain, and nobody gets in without the password    *)
(* before the server has made a connection itself.                         *)
(*                                                                         *)
(* Which message each side writes depends on what it is after, so the      *)
(* inductive invariant lists the phases of a connection: the state of the  *)
(* server with the place of the client, and what is under way between      *)
(* them.  Once one side has ended, only what the other one may still find  *)
(* there matters.                                                          *)
(***************************************************************************)
EXTENDS RfbHandshake, SequenceTheorems, TLAPS

Versions == {3, 7, 8, 889}
Wishes == {"shared", "alone"}
Answers == {"right", "wrong"}

\* The server in state s, the client at a, these messages to the client, those to the server.
Talk(c, s, a, out, in) ==
  state[c] = s /\ at[c] = a /\ toClient[c] = out /\ toServer[c] = in

Greeting(c) ==
  \/ Talk(c, "absent", "absent", <<>>, <<>>)
  \/ Talk(c, "version", "version", <<<<"version", 8>>>>, <<>>)
  \/ \E m \in Versions :
       /\ kind[c] = "app" => m = 8
       /\ Talk(c, "version", IF m < 7 THEN "type" ELSE "types", <<>>, <<<<"version", m>>>>)
  \/ /\ minor[c] \in {7, 8, 889} /\ (kind[c] = "app" => minor[c] = 8)
     /\ state[c] \in {"register", "listing"} /\ at[c] = "types"
     /\ toClient[c] = <<>> /\ toServer[c] = <<>>

\* The server decides.
Decided(c) ==
  \/ Talk(c, "init", "type", <<<<"type", "None">>>>, <<>>)
  \/ Talk(c, "authentication", "type", <<<<"type", "VncAuth">>, <<"challenge", 0>>>>, <<>>)

\* The client chooses.
Offered(c) ==
  /\ minor[c] \in {7, 8, 889} /\ (kind[c] = "app" => minor[c] = 8)
  /\ Talk(c, "securityType", "types", <<<<"types", Read(c)>>>>, <<>>)
  /\ Read(c) # <<>>
Chosen(c) ==
  \/ minor[c] = 8 /\ Talk(c, "securityType", "result", <<>>, <<<<"choice", "None">>>>)
  \/ minor[c] = 889 /\ Talk(c, "securityType", "serverInit", <<>>, <<<<"choice", "None">>>>)
  \/ /\ minor[c] = 7
     /\ \E w \in Wishes : Talk(c, "securityType", "serverInit", <<>>,
                               <<<<"choice", "None">>, <<"init", w>>>>)
  \/ Talk(c, "securityType", "challenge", <<>>, <<<<"choice", "VncAuth">>>>)
  \/ minor[c] = 8 /\ Talk(c, "securityType", "tunnelCaps", <<>>, <<<<"choice", "Tight">>>>)

TightWay(c) ==
  \/ Talk(c, "tightType", "tunnelCaps", <<<<"tunnelCaps", 0>>, <<"authCaps", 1>>>>, <<>>)
  \/ Talk(c, "tightType", "authCaps", <<<<"authCaps", 1>>>>, <<>>)
  \/ Talk(c, "tightType", "challenge", <<>>, <<<<"authType", "VncAuth">>>>)
  \/ Talk(c, "init", "tunnelCaps",
          <<<<"tunnelCaps", 0>>, <<"authCaps", 0>>, <<"result", "ok">>>>, <<>>)
  \/ Talk(c, "init", "authCaps", <<<<"authCaps", 0>>, <<"result", "ok">>>>, <<>>)

Challenged(c) ==
  \E s \in {"authentication", "tightResponse"} :
    \/ Talk(c, s, "challenge", <<<<"challenge", 0>>>>, <<>>)
    \/ \E r \in Answers : Talk(c, s, "result", <<>>, <<<<"response", r>>>>)

Admitted(c) ==
  \/ Talk(c, "init", "result", <<<<"result", "ok">>>>, <<>>)
  \/ \E w \in Wishes : Talk(c, "init", "serverInit", <<>>, <<<<"init", w>>>>)

\* What is left to read of the server's last message.
Finishing(c) ==
  \/ at[c] = "serverInit" /\ toClient[c] = InitReply(c)
  \/ at[c] = "caps" /\ toClient[c] = <<<<"caps", 0>>>>
  \/ at[c] = "normal" /\ toClient[c] = <<>>
Serving(c) == state[c] = "normal" /\ toServer[c] = <<>> /\ Finishing(c)

\* The server has closed the connection.
Refusal(c) ==
  \/ /\ at[c] = "result"
     /\ toClient[c] = <<<<"result", "failed">>>> \o
                      (IF minor[c] > 7 THEN <<<<"reason", 0>>>> ELSE <<>>)
  \/ at[c] = "reason" /\ toClient[c] = <<<<"reason", 0>>>>
  \/ at[c] = "types" /\ toClient[c] = <<<<"types", <<>>>>, <<"reason", 0>>>>
Ended(c) ==
  /\ state[c] = "shutdown" /\ at[c] # "absent"
  /\ toClient[c] = <<>> \/ Refusal(c) \/ Finishing(c)

\* The client has: the server goes on with what it had written.
LastWords(c) ==
  \/ /\ state[c] \in {"version", "register", "listing", "securityType", "tightType",
                      "authentication", "tightResponse", "init", "normal"}
     /\ toServer[c] = <<>>
  \/ state[c] = "version" /\ \E m \in Versions : toServer[c] = <<<<"version", m>>>>
  \/ state[c] = "securityType" /\ \E h \in Handlers : toServer[c] = <<<<"choice", h>>>>
  \/ /\ state[c] = "securityType" /\ minor[c] = 7
     /\ \E w \in Wishes : toServer[c] = <<<<"choice", "None">>, <<"init", w>>>>
  \/ state[c] = "tightType" /\ toServer[c] = <<<<"authType", "VncAuth">>>>
  \/ /\ state[c] \in {"authentication", "tightResponse"}
     /\ \E r \in Answers : toServer[c] = <<<<"response", r>>>>
  \/ state[c] = "init" /\ \E w \in Wishes : toServer[c] = <<<<"init", w>>>>
Left(c) == at[c] = "closed" /\ (state[c] = "shutdown" \/ LastWords(c))

Phase(c) ==
  \/ Greeting(c) \/ Decided(c) \/ Offered(c) \/ Chosen(c) \/ TightWay(c) \/ Challenged(c)
  \/ Admitted(c) \/ Serving(c) \/ Ended(c) \/ Left(c)

ShapeOK ==
  /\ kind = [c \in Clients |-> kind[c]] /\ state = [c \in Clients |-> state[c]]
  /\ tight = [c \in Clients |-> tight[c]] /\ at = [c \in Clients |-> at[c]]
  /\ toClient = [c \in Clients |-> toClient[c]] /\ toServer = [c \in Clients |-> toServer[c]]
  /\ minor \in [Clients -> Nat]

PhaseInv == ShapeOK /\ \A c \in Clients : Phase(c)

-----------------------------------------------------------------------------
(* Short queues *)

LEMMA Ones ==
  ASSUME NEW x
  PROVE  Head(<<x>>) = x /\ Tail(<<x>>) = <<>> /\ <<x>> # <<>> /\ <<>> \o <<x>> = <<x>>
OBVIOUS

LEMMA Joined ==
  ASSUME NEW T, NEW p \in Seq(T), NEW q \in Seq(T), NEW r \in Seq(T),
         Len(r) = Len(p) + Len(q), \A i \in 1..Len(p) : r[i] = p[i],
         \A i \in 1..Len(q) : r[Len(p) + i] = q[i]
  PROVE  p \o q = r
<1>1. /\ p \o q \in Seq(T) /\ Len(p \o q) = Len(r)
      /\ \A i \in 1..Len(p) + Len(q) : (p \o q)[i] = IF i <= Len(p) THEN p[i] ELSE q[i - Len(p)]
  BY ConcatProperties
<1>2. Len(p) \in Nat /\ Len(q) \in Nat
  BY LenProperties
<1>3. ASSUME NEW i \in 1..Len(r) PROVE (p \o q)[i] = r[i]
  <2>1. CASE i <= Len(p)
    BY <1>1, <1>2, <2>1
  <2>2. CASE ~(i <= Len(p))
    <3>1. i - Len(p) \in 1..Len(q) /\ i = Len(p) + (i - Len(p))
      BY <1>2, <2>2
    <3>2. r[i] = q[i - Len(p)]
      BY <3>1
    <3> QED BY <1>1, <1>2, <2>2, <3>2
  <2> QED BY <2>1, <2>2
<1> QED BY <1>1, <1>3, SeqEqual

LEMMA Twos ==
  ASSUME NEW x, NEW y
  PROVE  /\ Head(<<x, y>>) = x /\ Tail(<<x, y>>) = <<y>> /\ <<x, y>> # <<>>
         /\ <<>> \o <<x, y>> = <<x, y>> /\ <<x>> \o <<y>> = <<x, y>>
         /\ <<x>> \o <<>> = <<x>>
<1>1. Head(<<x, y>>) = x /\ Tail(<<x, y>>) = <<y>> /\ <<x, y>> # <<>>
  OBVIOUS
<1>2. <<x>> \in Seq({x, y}) /\ <<y>> \in Seq({x, y}) /\ <<x, y>> \in Seq({x, y})
  OBVIOUS
<1>3. <<x>> \o <<y>> = <<x, y>>
  <2> DEFINE p == <<x>> q == <<y>> r == <<x, y>>
  <2>1. r[1] = p[1] /\ r[2] = q[1] /\ Len(p) = 1 /\ Len(q) = 1 /\ Len(r) = 2
    OBVIOUS
  <2>2. p \in Seq({x, y}) /\ q \in Seq({x, y}) /\ r \in Seq({x, y})
    BY <1>2
  <2> HIDE DEF p, q, r
  <2>3. \A i \in 1..Len(p) : r[i] = p[i]
    BY <2>1
  <2>4. \A i \in 1..Len(q) : r[Len(p) + i] = q[i]
    BY <2>1
  <2>5. Len(r) = Len(p) + Len(q)
    BY <2>1
  <2>6. p \o q = r
    BY <2>2, <2>3, <2>4, <2>5, Joined
  <2> QED BY <2>6 DEF p, q, r
<1>4. <<>> \o <<x, y>> = <<x, y>> /\ <<x>> \o <<>> = <<x>>
  BY <1>2, ConcatEmptySeq
<1> QED BY <1>1, <1>3, <1>4

LEMMA Threes ==
  ASSUME NEW x, NEW y, NEW z
  PROVE  /\ Head(<<x, y, z>>) = x /\ Tail(<<x, y, z>>) = <<y, z>> /\ <<x, y, z>> # <<>>
         /\ <<>> \o <<x, y, z>> = <<x, y, z>> /\ <<x, y>> \o <<z>> = <<x, y, z>>
<1>1. Head(<<x, y, z>>) = x /\ Tail(<<x, y, z>>) = <<y, z>> /\ <<x, y, z>> # <<>>
  OBVIOUS
<1> DEFINE T == {x, y, z}
<1>2. <<x, y>> \in Seq(T) /\ <<z>> \in Seq(T) /\ <<x, y, z>> \in Seq(T)
  OBVIOUS
<1>3. <<x, y>> \o <<z>> = <<x, y, z>>
  <2>1. /\ Len(<<x, y, z>>) = Len(<<x, y>>) + Len(<<z>>)
        /\ \A i \in 1..Len(<<x, y>>) : <<x, y, z>>[i] = <<x, y>>[i]
        /\ \A i \in 1..Len(<<z>>) : <<x, y, z>>[Len(<<x, y>>) + i] = <<z>>[i]
    OBVIOUS
  <2> QED BY <1>2, <2>1, Joined
<1>4. <<>> \o <<x, y, z>> = <<x, y, z>>
  BY <1>2, ConcatEmptySeq
<1> QED BY <1>1, <1>3, <1>4

-----------------------------------------------------------------------------
(* A step of one client, seen from another one *)

Aside(c) ==
  /\ ShapeOK'
  /\ \A d \in Clients \ {c} :
       /\ UNCHANGED <<at[d], toClient[d], toServer[d], minor[d], tight[d], kind[d]>>
       /\ state'[d] = state[d] \/ (state[d] = "normal" /\ state'[d] = "shutdown")

LEMMA OthersKept ==
  ASSUME PhaseInv, NEW c \in Clients, Aside(c), NEW d \in Clients \ {c}
  PROVE  Phase(d)'
<1>1. UNCHANGED <<at[d], toClient[d], toServer[d], minor[d], tight[d], kind[d]>>
  BY DEF Aside
<1>2. CASE state'[d] = state[d]
  BY <1>1, <1>2 DEF PhaseInv, Phase, Greeting, Decided, Offered, Chosen, TightWay, Challenged,
     Admitted, Serving, Ended, Left, LastWords, Refusal, Finishing, InitReply, Talk, Read
<1>3. CASE state[d] = "normal" /\ state'[d] = "shutdown"
  <2>1. Serving(d) \/ Left(d)
    BY <1>3 DEF PhaseInv, Phase, Greeting, Decided, Offered, Chosen, TightWay, Challenged,
       Admitted, Ended, Talk
  <2>2. CASE Serving(d)
    BY <1>1, <1>3, <2>2 DEF Serving, Phase, Ended, Finishing, InitReply
  <2>3. CASE Left(d)
    BY <1>1, <1>3, <2>3 DEF Left, Phase
  <2> QED BY <2>1, <2>2, <2>3
<1> QED BY <1>2, <1>3 DEF Aside

\* Each function keeps its domain, and changes at c alone.
LEMMA ChangeAside ==
  ASSUME ShapeOK, NEW c \in Clients,
         UNCHANGED kind \/ \E x : kind' = [kind EXCEPT ![c] = x],
         UNCHANGED tight \/ \E x : tight' = [tight EXCEPT ![c] = x],
         UNCHANGED minor \/ \E x \in Nat : minor' = [minor EXCEPT ![c] = x],
         UNCHANGED at \/ \E x : at' = [at EXCEPT ![c] = x],
         UNCHANGED toClient \/ \E x : toClient' = [toClient EXCEPT ![c] = x],
         UNCHANGED toServer \/ \E x : toServer' = [toServer EXCEPT ![c] = x],
         \/ UNCHANGED state
         \/ \E x : state' = [state EXCEPT ![c] = x]
         \/ \E shared : state' = Initialised(c, shared)
  PROVE  Aside(c)
<1>1. /\ kind' = [d \in Clients |-> kind'[d]] /\ tight' = [d \in Clients |-> tight'[d]]
      /\ \A d \in Clients \ {c} : kind'[d] = kind[d] /\ tight'[d] = tight[d]
  BY DEF ShapeOK
<1>2. /\ minor' \in [Clients -> Nat] /\ at' = [d \in Clients |-> at'[d]]
      /\ \A d \in Clients \ {c} : minor'[d] = minor[d] /\ at'[d] = at[d]
  BY DEF ShapeOK
<1>3. /\ toClient' = [d \in Clients |-> toClient'[d]] /\ toServer' = [d \in Clients |-> toServer'[d]]
      /\ \A d \in Clients \ {c} : toClient'[d] = toClient[d] /\ toServer'[d] = toServer[d]
  BY DEF ShapeOK
<1>4. /\ state' = [d \in Clients |-> state'[d]]
      /\ \A d \in Clients \ {c} :
           state'[d] = state[d] \/ (state[d] = "normal" /\ state'[d] = "shutdown")
  <2>1. CASE \E shared : state' = Initialised(c, shared)
    BY <2>1 DEF Initialised
  <2>2. CASE UNCHANGED state \/ \E x : state' = [state EXCEPT ![c] = x]
    BY <2>2 DEF ShapeOK
  <2> QED BY <2>1, <2>2
<1> QED BY <1>1, <1>2, <1>3, <1>4 DEF Aside, ShapeOK

LEMMA PhaseStep ==
  ASSUME PhaseInv, NEW c \in Clients, Aside(c), Phase(c)'
  PROVE  PhaseInv'
BY OthersKept DEF PhaseInv, Aside

-----------------------------------------------------------------------------
(* What is under way when a message is read *)

\* The server reads in a state of its own each kind of message.
LEMMA AwaitedIn ==
  ASSUME NEW c
  PROVE  /\ Awaited(c) = "version" => state[c] = "version"
         /\ Awaited(c) = "choice" => state[c] = "securityType"
         /\ Awaited(c) = "authType" => state[c] = "tightType"
         /\ Awaited(c) = "response" => state[c] \in {"authentication", "tightResponse"}
         /\ Awaited(c) = "init" => state[c] = "init"
BY DEF Awaited

LEMMA VersionRead ==
  ASSUME PhaseInv, NEW c \in Clients, Gets(c, "version")
  PROVE  \E m \in Versions :
           /\ toServer[c] = <<<<"version", m>>>> /\ Got(c) = m
           /\ toServer' = [toServer EXCEPT ![c] = <<>>]
           /\ \/ at[c] = "closed"
              \/ /\ toClient[c] = <<>> /\ (kind[c] = "app" => m = 8)
                 /\ at[c] = IF m < 7 THEN "type" ELSE "types"
<1>1. state[c] = "version" /\ toServer[c] # <<>>
  BY AwaitedIn DEF Gets
<1>2. \/ Greeting(c) /\ at[c] # "version"
      \/ at[c] = "closed" /\ LastWords(c)
  BY <1>1 DEF PhaseInv, Phase, Greeting, Decided, Offered, Chosen, TightWay, Challenged,
     Admitted, Serving, Ended, Left, Talk
<1>3. PICK m \in Versions :
         /\ toServer[c] = <<<<"version", m>>>>
         /\ \/ at[c] = "closed"
            \/ /\ toClient[c] = <<>> /\ (kind[c] = "app" => m = 8)
               /\ at[c] = IF m < 7 THEN "type" ELSE "types"
  BY <1>1, <1>2 DEF Greeting, LastWords, Talk
<1>4. Got(c) = m /\ Tail(toServer[c]) = <<>>
  BY <1>3, Ones DEF Got
<1> QED BY <1>3, <1>4 DEF Gets

\* The client has sent its choice and nothing else, and waits for what that leads to.
PickedAlone(c, h) ==
  \/ at[c] = "closed"
  \/ /\ toClient[c] = <<>>
     /\ \/ h = "None" /\ minor[c] = 8 /\ at[c] = "result"
        \/ h = "None" /\ minor[c] = 889 /\ at[c] = "serverInit"
        \/ h = "VncAuth" /\ at[c] = "challenge"
        \/ h = "Tight" /\ minor[c] = 8 /\ at[c] = "tunnelCaps"

LEMMA ChoiceRead ==
  ASSUME PhaseInv, NEW c \in Clients, Gets(c, "choice")
  PROVE  \/ /\ toServer[c] = <<<<"choice", Got(c)>>>> /\ Got(c) \in Handlers
            /\ toServer' = [toServer EXCEPT ![c] = <<>>]
            /\ PickedAlone(c, Got(c))
         \/ /\ Got(c) = "None" /\ minor[c] = 7
            /\ \E w \in Wishes : toServer' = [toServer EXCEPT ![c] = <<<<"init", w>>>>]
            /\ at[c] = "closed" \/ (at[c] = "serverInit" /\ toClient[c] = <<>>)
<1>1. state[c] = "securityType" /\ toServer[c] # <<>>
  BY AwaitedIn DEF Gets
<1>2. Chosen(c) \/ (at[c] = "closed" /\ LastWords(c))
  BY <1>1 DEF PhaseInv, Phase, Greeting, Decided, Offered, TightWay, Challenged,
     Admitted, Serving, Ended, Left, Talk
<1>3. \/ \E w \in Wishes :
           /\ minor[c] = 7 /\ toServer[c] = <<<<"choice", "None">>, <<"init", w>>>>
           /\ at[c] = "closed" \/ (at[c] = "serverInit" /\ toClient[c] = <<>>)
      \/ \E h \in Handlers :
           /\ toServer[c] = <<<<"choice", h>>>>
           /\ PickedAlone(c, h)
  BY <1>1, <1>2 DEF Chosen, LastWords, Talk, Handlers, PickedAlone
<1>4. ASSUME NEW w, toServer[c] = <<<<"choice", "None">>, <<"init", w>>>>
      PROVE  Got(c) = "None" /\ Tail(toServer[c]) = <<<<"init", w>>>>
  BY <1>4, Twos DEF Got
<1>5. ASSUME NEW h, toServer[c] = <<<<"choice", h>>>>
      PROVE  Got(c) = h /\ Tail(toServer[c]) = <<>>
  BY <1>5, Ones DEF Got
<1>6. toServer' = [toServer EXCEPT ![c] = Tail(toServer[c])]
  BY DEF Gets
<1>7. ASSUME NEW w \in Wishes, minor[c] = 7,
             toServer[c] = <<<<"choice", "None">>, <<"init", w>>>>
      PROVE  /\ Got(c) = "None"
             /\ \E v \in Wishes : toServer' = [toServer EXCEPT ![c] = <<<<"init", v>>>>]
  BY <1>4, <1>6, <1>7, Zenon
<1>8. ASSUME NEW h \in Handlers, toServer[c] = <<<<"choice", h>>>>
      PROVE  Got(c) = h /\ toServer' = [toServer EXCEPT ![c] = <<>>]
  BY <1>5, <1>6, <1>8, Zenon
<1>9. ASSUME NEW h \in Handlers, toServer[c] = <<<<"choice", h>>>>,
             PickedAlone(c, h)
      PROVE  /\ toServer[c] = <<<<"choice", Got(c)>>>> /\ Got(c) \in Handlers
             /\ toServer' = [toServer EXCEPT ![c] = <<>>]
             /\ PickedAlone(c, Got(c))
  <2>1. Got(c) = h /\ toServer' = [toServer EXCEPT ![c] = <<>>]
    BY <1>8, <1>9, Zenon
  <2> QED BY <1>9, <2>1
<1> QED BY <1>3, <1>7, <1>9

LEMMA AuthTypeRead ==
  ASSUME PhaseInv, NEW c \in Clients, Gets(c, "authType")
  PROVE  /\ toServer' = [toServer EXCEPT ![c] = <<>>]
         /\ at[c] = "closed" \/ (at[c] = "challenge" /\ toClient[c] = <<>>)
<1>1. state[c] = "tightType" /\ toServer[c] # <<>>
  BY AwaitedIn DEF Gets
<1>2. TightWay(c) \/ (at[c] = "closed" /\ LastWords(c))
  BY <1>1 DEF PhaseInv, Phase, Greeting, Decided, Offered, Chosen, Challenged,
     Admitted, Serving, Ended, Left, Talk
<1>3. /\ toServer[c] = <<<<"authType", "VncAuth">>>>
      /\ at[c] = "closed" \/ (at[c] = "challenge" /\ toClient[c] = <<>>)
  BY <1>1, <1>2 DEF TightWay, LastWords, Talk
<1>4. Tail(toServer[c]) = <<>>
  BY <1>3, Ones
<1> QED BY <1>3, <1>4 DEF Gets

LEMMA ResponseRead ==
  ASSUME PhaseInv, NEW c \in Clients, Gets(c, "response")
  PROVE  /\ toServer' = [toServer EXCEPT ![c] = <<>>]
         /\ at[c] = "closed" \/ (at[c] = "result" /\ toClient[c] = <<>>)
<1>1. state[c] \in {"authentication", "tightResponse"} /\ toServer[c] # <<>>
  BY AwaitedIn DEF Gets
<1>2. Challenged(c) \/ (at[c] = "closed" /\ LastWords(c))
  BY <1>1 DEF PhaseInv, Phase, Greeting, Decided, Offered, Chosen, TightWay,
     Admitted, Serving, Ended, Left, Talk
<1>3. PICK r \in Answers :
        /\ toServer[c] = <<<<"response", r>>>>
        /\ at[c] = "closed" \/ (at[c] = "result" /\ toClient[c] = <<>>)
  BY <1>1, <1>2 DEF Challenged, LastWords, Talk
<1>4. Tail(toServer[c]) = <<>>
  BY <1>3, Ones
<1> QED BY <1>3, <1>4 DEF Gets

LEMMA InitRead ==
  ASSUME PhaseInv, NEW c \in Clients, Gets(c, "init")
  PROVE  /\ toServer' = [toServer EXCEPT ![c] = <<>>]
         /\ at[c] = "closed" \/ (at[c] = "serverInit" /\ toClient[c] = <<>>)
<1>1. state[c] = "init" /\ toServer[c] # <<>>
  BY AwaitedIn DEF Gets
<1>2. Admitted(c) \/ (at[c] = "closed" /\ LastWords(c))
  BY <1>1 DEF PhaseInv, Phase, Greeting, Decided, Offered, Chosen, Challenged, TightWay,
     Serving, Ended, Left, Talk
<1>3. PICK w \in Wishes :
        /\ toServer[c] = <<<<"init", w>>>>
        /\ at[c] = "closed" \/ (at[c] = "serverInit" /\ toClient[c] = <<>>)
  BY <1>1, <1>2 DEF Admitted, LastWords, Talk
<1>4. Tail(toServer[c]) = <<>>
  BY <1>3, Ones
<1> QED BY <1>3, <1>4 DEF Gets

-----------------------------------------------------------------------------
(* Each step of the server keeps PhaseInv *)

\* What a message to a client does that has left, and to one that had nothing to read.
LEMMA LeftGoesOn ==
  ASSUME NEW c, at'[c] = "closed", toServer'[c] = <<>>,
         state'[c] \in {"shutdown", "version", "register", "listing", "securityType",
                        "tightType", "authentication", "tightResponse", "init", "normal"}
  PROVE  Phase(c)'
BY DEF Phase, Left, LastWords

LEMMA FirstSent ==
  ASSUME ShapeOK, NEW c \in Clients, NEW q, Send(c, q), toClient[c] = <<>>,
         <<>> \o q = q
  PROVE  toClient'[c] = q
BY DEF Send, ShapeOK

LEMMA ReplySent ==
  ASSUME NEW c
  PROVE  <<>> \o InitReply(c) = InitReply(c)
<1>1. CASE tight[c]
  BY <1>1, Twos DEF InitReply
<1>2. CASE ~tight[c]
  BY <1>2, Ones, Twos DEF InitReply
<1> QED BY <1>1, <1>2

LEMMA ConnectKeeps ==
  ASSUME PhaseInv, NEW c \in Clients, NEW as, Connect(c, as)
  PROVE  PhaseInv'
<1> USE DEF Connect
<1>1. Aside(c)
  BY ChangeAside DEF PhaseInv, Goto, Send
<1>2. state[c] = "absent"
  OBVIOUS
<1>3. Talk(c, "absent", "absent", <<>>, <<>>)
  BY <1>2 DEF PhaseInv, Phase, Greeting, Decided, Offered, Chosen, TightWay, Challenged,
     Admitted, Serving, Ended, Left, LastWords, Talk
<1>4. toClient'[c] = <<<<"version", 8>>>>
  BY <1>3, FirstSent, Ones DEF PhaseInv, Talk
<1>5. state'[c] = "version" /\ at'[c] = "version" /\ toServer'[c] = <<>>
  BY <1>3 DEF PhaseInv, ShapeOK, Goto, Talk
<1> QED BY <1>1, <1>4, <1>5, PhaseStep DEF Phase, Greeting, Talk

LEMMA VersionKeeps ==
  ASSUME PhaseInv, NEW c \in Clients, ProtocolVersion(c)
  PROVE  PhaseInv'
<1> USE DEF ProtocolVersion
<1>1. PICK m \in Versions :
        /\ Got(c) = m /\ toServer' = [toServer EXCEPT ![c] = <<>>]
        /\ \/ at[c] = "closed"
           \/ /\ toClient[c] = <<>> /\ (kind[c] = "app" => m = 8)
              /\ at[c] = IF m < 7 THEN "type" ELSE "types"
  BY VersionRead
<1>2. m \in Nat /\ minor' = [minor EXCEPT ![c] = m] /\ UNCHANGED <<kind, tight, at>>
  BY <1>1 DEF Versions, fixedVars
<1>3. \/ m < 7 /\ Send(c, <<<<"type", "None">>>>) /\ Goto(c, "init")
      \/ /\ m < 7 /\ Goto(c, "authentication")
         /\ Send(c, <<<<"type", "VncAuth">>, <<"challenge", 0>>>>)
      \/ ~(m < 7) /\ Goto(c, "register") /\ UNCHANGED toClient
  BY <1>1
<1>4. Aside(c)
  BY <1>1, <1>2, <1>3, ChangeAside DEF PhaseInv, Goto, Send
<1>5. at'[c] = at[c] /\ kind'[c] = kind[c] /\ toServer'[c] = <<>> /\ minor'[c] = m
  BY <1>1, <1>2 DEF PhaseInv, ShapeOK
<1>6. CASE at[c] = "closed"
  <2>1. state'[c] \in {"init", "authentication", "register"}
    BY <1>3 DEF Goto, PhaseInv, ShapeOK
  <2> QED BY <1>4, <1>5, <1>6, <2>1, LeftGoesOn, PhaseStep
<1>7. CASE at[c] # "closed" /\ m < 7
  <2>1. \/ state'[c] = "init" /\ toClient'[c] = <<<<"type", "None">>>>
        \/ /\ state'[c] = "authentication"
           /\ toClient'[c] = <<<<"type", "VncAuth">>, <<"challenge", 0>>>>
    BY <1>1, <1>3, <1>7, FirstSent, Ones, Twos DEF Goto, PhaseInv, ShapeOK
  <2> QED BY <1>1, <1>4, <1>5, <1>7, <2>1, PhaseStep DEF Phase, Decided, Talk
<1>8. CASE at[c] # "closed" /\ ~(m < 7)
  <2>1. state'[c] = "register" /\ toClient'[c] = <<>>
    BY <1>1, <1>3, <1>8 DEF Goto, PhaseInv, ShapeOK
  <2>2. m \in {7, 8, 889}
    BY <1>8 DEF Versions
  <2> QED BY <1>1, <1>4, <1>5, <1>8, <2>1, <2>2, PhaseStep DEF Phase, Greeting
<1> QED BY <1>6, <1>7, <1>8

\* Who is in rfbSendSecurityTypeList for a client that waits for the list, or has left.
LEMMA ListWaitedFor ==
  ASSUME PhaseInv, NEW c \in Clients, state[c] \in {"register", "listing"}
  PROVE  /\ toServer[c] = <<>>
         /\ \/ at[c] = "closed"
            \/ /\ at[c] = "types" /\ toClient[c] = <<>> /\ minor[c] \in {7, 8, 889}
               /\ kind[c] = "app" => minor[c] = 8
BY DEF PhaseInv, Phase, Greeting, Decided, Offered, Chosen, TightWay, Challenged, Admitted,
   Serving, Ended, Left, LastWords, Talk

LEMMA RegisterTypeKeeps ==
  ASSUME PhaseInv, NEW c \in Clients, RegisterType(c)
  PROVE  PhaseInv'
<1> USE DEF RegisterType
<1>1. Aside(c)
  BY ChangeAside DEF PhaseInv, Goto, fixedVars
<1>2. /\ state'[c] = "listing"
      /\ UNCHANGED <<at[c], toClient[c], toServer[c], minor[c], kind[c]>>
  BY DEF Goto, PhaseInv, ShapeOK, fixedVars
<1>3. CASE at[c] = "closed"
  BY <1>1, <1>2, <1>3, ListWaitedFor, LeftGoesOn, PhaseStep
<1>4. CASE at[c] # "closed"
  BY <1>1, <1>2, <1>4, ListWaitedFor, PhaseStep DEF Phase, Greeting
<1> QED BY <1>3, <1>4

LEMMA SendTypeListKeeps ==
  ASSUME PhaseInv, NEW c \in Clients, SendTypeList(c)
  PROVE  PhaseInv'
<1> USE DEF SendTypeList
<1>1. \/ /\ Send(c, <<<<"types", <<>>>>, <<"reason", 0>>>>) /\ Goto(c, "shutdown")
      \/ /\ Types(list) # <<>>
         /\ Send(c, <<<<"types", Types(list)>>>>) /\ Goto(c, "securityType")
  OBVIOUS
<1>2. Aside(c)
  BY <1>1, ChangeAside DEF PhaseInv, Goto, Send, fixedVars
<1>3. UNCHANGED <<at[c], toServer[c], minor[c], kind[c]>>
  BY DEF fixedVars
<1>4. CASE at[c] = "closed"
  <2>1. state'[c] \in {"shutdown", "securityType"}
    BY <1>1 DEF Goto, PhaseInv, ShapeOK
  <2> QED BY <1>2, <1>3, <1>4, <2>1, ListWaitedFor, LeftGoesOn, PhaseStep
<1>5. CASE at[c] # "closed"
  <2>1. toClient[c] = <<>>
    BY <1>5, ListWaitedFor
  <2>2. \/ state'[c] = "shutdown" /\ toClient'[c] = <<<<"types", <<>>>>, <<"reason", 0>>>>
        \/ /\ Types(list) # <<>>
           /\ state'[c] = "securityType" /\ toClient'[c] = <<<<"types", Types(list)>>>>
    BY <1>1, <2>1, FirstSent, Ones, Twos DEF Goto, PhaseInv, ShapeOK
  <2>3. CASE state'[c] = "shutdown" /\ toClient'[c] = <<<<"types", <<>>>>, <<"reason", 0>>>>
    BY <1>2, <1>3, <1>5, <2>3, ListWaitedFor, PhaseStep DEF Phase, Ended, Refusal
  <2>4. CASE /\ Types(list) # <<>>
             /\ state'[c] = "securityType" /\ toClient'[c] = <<<<"types", Types(list)>>>>
    <3>1. Read(c)' = Types(list)
      BY <2>4, Ones DEF Read
    <3> QED BY <1>2, <1>3, <1>5, <2>4, <3>1, ListWaitedFor, PhaseStep DEF Phase, Offered, Talk
  <2> QED BY <2>2, <2>3, <2>4
<1> QED BY <1>4, <1>5

\* rfbVncAuthNone, for a client that has sent its choice, and for one of version 3.7, which
\* has sent ClientInit with it.
LEMMA NoneKeeps ==
  ASSUME PhaseInv, NEW c \in Clients, Gets(c, "choice"), Got(c) = "None", AuthNone(c),
         UNCHANGED <<fixedVars, list, minor, tight, at>>
  PROVE  PhaseInv'
<1>1. \/ minor[c] = 889 /\ Send(c, InitReply(c)) /\ state' = Initialised(c, TRUE)
      \/ minor[c] # 889 /\ Send(c, ResultOfNone(c)) /\ Goto(c, "init")
  <2>1. CASE minor[c] = 889
    BY <2>1, Zenon DEF AuthNone
  <2>2. CASE minor[c] # 889
    BY <2>2, Zenon DEF AuthNone
  <2> QED BY <2>1, <2>2
<1>2. toServer' = [toServer EXCEPT ![c] = Tail(toServer[c])]
  BY DEF Gets
<1>3. Aside(c)
  BY <1>1, <1>2, ChangeAside DEF PhaseInv, Goto, Send, fixedVars
<1>4. UNCHANGED <<at[c], minor[c], tight[c], kind[c]>>
  BY DEF fixedVars
<1>5. state'[c] = IF minor[c] = 889 THEN "normal" ELSE "init"
  BY <1>1 DEF PhaseInv, ShapeOK, Goto, Initialised
<1>6. CASE PickedAlone(c, "None") /\ toServer' = [toServer EXCEPT ![c] = <<>>]
  <2>1. toServer'[c] = <<>>
    BY <1>6 DEF PhaseInv, ShapeOK
  <2>2. CASE at[c] = "closed"
    BY <1>3, <1>4, <1>5, <2>1, <2>2, LeftGoesOn, PhaseStep
  <2>3. CASE minor[c] = 8 /\ at[c] = "result" /\ toClient[c] = <<>>
    <3>1. Send(c, <<<<"result", "ok">>>>) /\ state'[c] = "init"
      BY <1>1, <1>5, <2>3 DEF ResultOfNone
    <3>2. toClient'[c] = <<<<"result", "ok">>>>
      BY <2>3, <3>1, FirstSent, Ones DEF PhaseInv
    <3> QED BY <1>3, <1>4, <2>1, <2>3, <3>1, <3>2, PhaseStep DEF Phase, Admitted, Talk
  <2>4. CASE minor[c] = 889 /\ at[c] = "serverInit" /\ toClient[c] = <<>>
    <3>1. toClient'[c] = InitReply(c)
      BY <1>1, <2>4, FirstSent, ReplySent DEF PhaseInv
    <3> QED BY <1>3, <1>4, <1>5, <2>1, <2>4, <3>1, PhaseStep
            DEF Phase, Serving, Finishing, InitReply
  <2> QED BY <1>6, <2>2, <2>3, <2>4 DEF PickedAlone
<1>7. CASE /\ minor[c] = 7
           /\ \E w \in Wishes : toServer' = [toServer EXCEPT ![c] = <<<<"init", w>>>>]
           /\ at[c] = "closed" \/ (at[c] = "serverInit" /\ toClient[c] = <<>>)
  <2>1. state'[c] = "init" /\ \E w \in Wishes : toServer'[c] = <<<<"init", w>>>>
    BY <1>5, <1>7 DEF PhaseInv, ShapeOK
  <2>2. CASE at[c] = "closed"
    BY <1>3, <1>4, <2>1, <2>2, PhaseStep DEF Phase, Left, LastWords
  <2>3. CASE at[c] = "serverInit" /\ toClient[c] = <<>>
    <3>1. toClient'[c] = <<>>
      BY <1>1, <1>7, <2>3 DEF Send, ResultOfNone, PhaseInv, ShapeOK
    <3> QED BY <1>3, <1>4, <2>1, <2>3, <3>1, PhaseStep DEF Phase, Admitted, Talk
  <2> QED BY <1>7, <2>2, <2>3
<1> QED BY <1>6, <1>7, ChoiceRead

LEMMA SecurityTypeKeeps ==
  ASSUME PhaseInv, NEW c \in Clients, SecurityType(c)
  PROVE  PhaseInv'
<1> USE DEF SecurityType
<1>1. toServer' = [toServer EXCEPT ![c] = Tail(toServer[c])] /\ UNCHANGED <<kind, minor, at>>
  BY DEF Gets, fixedVars
<1>2. at'[c] = at[c] /\ minor'[c] = minor[c] /\ at[c] # "absent"
  <2>1. state[c] = "securityType"
    BY AwaitedIn DEF Gets
  <2> QED BY <1>1, <2>1 DEF PhaseInv, Phase, Greeting, Decided, Offered, Chosen, TightWay,
          Challenged, Admitted, Serving, Ended, Left, Talk
<1>3. CASE /\ ~Listed(list, Got(c)) /\ Goto(c, "shutdown")
           /\ UNCHANGED <<toClient, tight>>
  <2>1. Aside(c)
    BY <1>1, <1>3, ChangeAside DEF PhaseInv, Goto
  <2>2. at[c] = "closed" \/ toClient'[c] = <<>>
    BY <1>3, ChoiceRead DEF PickedAlone
  <2>3. state'[c] = "shutdown"
    BY <1>3 DEF Goto, PhaseInv, ShapeOK
  <2> QED BY <1>2, <2>1, <2>2, <2>3, PhaseStep DEF Phase, Ended, Left
<1>4. CASE Got(c) = "None" /\ AuthNone(c) /\ UNCHANGED tight
  BY <1>4, NoneKeeps
<1>5. CASE /\ Got(c) = "VncAuth" /\ Send(c, <<<<"challenge", 0>>>>)
           /\ Goto(c, "authentication") /\ UNCHANGED tight
  <2>1. Aside(c)
    BY <1>1, <1>5, ChangeAside DEF PhaseInv, Goto, Send
  <2>2. /\ toServer'[c] = <<>>
        /\ at[c] = "closed" \/ (toClient[c] = <<>> /\ at[c] = "challenge")
    BY <1>5, ChoiceRead DEF PickedAlone, PhaseInv, ShapeOK
  <2>3. state'[c] = "authentication"
    BY <1>5 DEF Goto, PhaseInv, ShapeOK
  <2>4. CASE at[c] = "closed"
    BY <1>2, <2>1, <2>2, <2>3, <2>4, LeftGoesOn, PhaseStep
  <2>5. CASE toClient[c] = <<>> /\ at[c] = "challenge"
    <3>1. toClient'[c] = <<<<"challenge", 0>>>>
      BY <1>5, <2>5, FirstSent, Ones DEF PhaseInv
    <3> QED BY <1>2, <2>1, <2>2, <2>3, <2>5, <3>1, PhaseStep DEF Phase, Challenged, Talk
  <2> QED BY <2>2, <2>4, <2>5
<1>6. CASE Got(c) = "Tight" /\ SecTypeTight(c)
  <2>1. \/ /\ Send(c, <<<<"tunnelCaps", 0>>, <<"authCaps", 1>>>>) /\ Goto(c, "tightType")
        \/ /\ Send(c, <<<<"tunnelCaps", 0>>, <<"authCaps", 0>>>> \o
                      (IF minor[c] > 7 THEN <<<<"result", "ok">>>> ELSE <<>>))
           /\ Goto(c, "init")
    BY <1>6 DEF SecTypeTight
  <2>2. tight' = [tight EXCEPT ![c] = TRUE]
    BY <1>6 DEF SecTypeTight
  <2>3. Aside(c)
    BY <1>1, <2>1, <2>2, ChangeAside DEF PhaseInv, Goto, Send
  <2>4. /\ toServer'[c] = <<>>
        /\ at[c] = "closed" \/ (toClient[c] = <<>> /\ minor[c] = 8 /\ at[c] = "tunnelCaps")
    BY <1>6, ChoiceRead DEF PickedAlone, PhaseInv, ShapeOK
  <2>5. CASE at[c] = "closed"
    <3>1. state'[c] \in {"tightType", "init"}
      BY <2>1 DEF Goto, PhaseInv, ShapeOK
    <3> QED BY <1>2, <2>3, <2>4, <2>5, <3>1, LeftGoesOn, PhaseStep
  <2>6. CASE toClient[c] = <<>> /\ minor[c] = 8 /\ at[c] = "tunnelCaps"
    <3>1. \/ /\ state'[c] = "tightType"
             /\ Send(c, <<<<"tunnelCaps", 0>>, <<"authCaps", 1>>>>)
          \/ /\ state'[c] = "init"
             /\ Send(c, <<<<"tunnelCaps", 0>>, <<"authCaps", 0>>, <<"result", "ok">>>>)
      <4>1. <<<<"tunnelCaps", 0>>, <<"authCaps", 0>>>> \o <<<<"result", "ok">>>>
              = <<<<"tunnelCaps", 0>>, <<"authCaps", 0>>, <<"result", "ok">>>>
        BY Threes
      <4>2. \A x : Goto(c, x) => state'[c] = x
        BY DEF Goto, PhaseInv, ShapeOK
      <4>3. minor[c] > 7
        BY <2>6
      <4>4. \/ /\ Send(c, <<<<"tunnelCaps", 0>>, <<"authCaps", 1>>>>) /\ Goto(c, "tightType")
            \/ /\ Send(c, <<<<"tunnelCaps", 0>>, <<"authCaps", 0>>>> \o <<<<"result", "ok">>>>)
               /\ Goto(c, "init")
        BY <2>1, <4>3
      <4> QED BY <4>1, <4>2, <4>4
    <3>2. \/ /\ state'[c] = "tightType"
             /\ toClient'[c] = <<<<"tunnelCaps", 0>>, <<"authCaps", 1>>>>
          \/ /\ state'[c] = "init"
             /\ toClient'[c] = <<<<"tunnelCaps", 0>>, <<"authCaps", 0>>, <<"result", "ok">>>>
      BY <2>6, <3>1, FirstSent, Twos, Threes DEF PhaseInv
    <3> QED BY <1>2, <2>3, <2>4, <2>6, <3>2, PhaseStep DEF Phase, TightWay, Talk
  <2> QED BY <2>4, <2>5, <2>6
<1> QED BY <1>3, <1>4, <1>5, <1>6

LEMMA AuthTypeKeeps ==
  ASSUME PhaseInv, NEW c \in Clients, AuthType(c)
  PROVE  PhaseInv'
<1> USE DEF AuthType
<1>1. /\ toServer' = [toServer EXCEPT ![c] = <<>>]
      /\ at[c] = "closed" \/ (at[c] = "challenge" /\ toClient[c] = <<>>)
  BY AuthTypeRead
<1>2. Aside(c)
  BY <1>1, ChangeAside DEF PhaseInv, Goto, Send, fixedVars
<1>3. toServer'[c] = <<>> /\ state'[c] = "tightResponse" /\ at'[c] = at[c]
  BY <1>1 DEF Goto, PhaseInv, ShapeOK
<1>4. CASE at[c] = "closed"
  BY <1>2, <1>3, <1>4, LeftGoesOn, PhaseStep
<1>5. CASE at[c] = "challenge" /\ toClient[c] = <<>>
  <2>1. toClient'[c] = <<<<"challenge", 0>>>>
    BY <1>5, FirstSent, Ones DEF PhaseInv
  <2> QED BY <1>2, <1>3, <1>5, <2>1, PhaseStep DEF Phase, Challenged, Talk
<1> QED BY <1>1, <1>4, <1>5

LEMMA AuthMessageKeeps ==
  ASSUME PhaseInv, NEW c \in Clients, AuthMessage(c)
  PROVE  PhaseInv'
<1> USE DEF AuthMessage
<1> DEFINE reason == IF minor[c] > 7 THEN <<<<"reason", 0>>>> ELSE <<>>
<1>1. /\ toServer' = [toServer EXCEPT ![c] = <<>>]
      /\ at[c] = "closed" \/ (at[c] = "result" /\ toClient[c] = <<>>)
  BY ResponseRead
<1>2. \/ Send(c, <<<<"result", "ok">>>>) /\ Goto(c, "init")
      \/ Send(c, <<<<"result", "failed">>>> \o reason) /\ Goto(c, "shutdown")
  OBVIOUS
<1>3. Aside(c)
  BY <1>1, <1>2, ChangeAside DEF PhaseInv, Goto, Send, fixedVars
<1>4. toServer'[c] = <<>> /\ at'[c] = at[c] /\ minor'[c] = minor[c]
  BY <1>1 DEF PhaseInv, ShapeOK
<1>5. CASE at[c] = "closed"
  <2>1. state'[c] \in {"init", "shutdown"}
    BY <1>2 DEF Goto, PhaseInv, ShapeOK
  <2> QED BY <1>3, <1>4, <1>5, <2>1, LeftGoesOn, PhaseStep
<1>6. CASE at[c] = "result" /\ toClient[c] = <<>>
  <2>1. <<>> \o (<<<<"result", "failed">>>> \o reason) = <<<<"result", "failed">>>> \o reason
    <3>1. CASE minor[c] > 7
      BY <3>1, Twos
    <3>2. CASE ~(minor[c] > 7)
      BY <3>2, Ones, Twos
    <3> QED BY <3>1, <3>2
  <2> HIDE DEF reason
  <2>2. \/ toClient'[c] = <<<<"result", "ok">>>> /\ state'[c] = "init"
        \/ toClient'[c] = <<<<"result", "failed">>>> \o reason /\ state'[c] = "shutdown"
    BY <1>2, <1>6, <2>1, FirstSent, Ones DEF Goto, PhaseInv, ShapeOK
  <2> QED BY <1>3, <1>4, <1>6, <2>2, PhaseStep
          DEF Phase, Admitted, Ended, Refusal, Talk, reason
<1> QED BY <1>1, <1>5, <1>6

LEMMA InitMessageKeeps ==
  ASSUME PhaseInv, NEW c \in Clients, InitMessage(c)
  PROVE  PhaseInv'
<1> USE DEF InitMessage
<1>1. /\ toServer' = [toServer EXCEPT ![c] = <<>>]
      /\ at[c] = "closed" \/ (at[c] = "serverInit" /\ toClient[c] = <<>>)
  BY InitRead
<1>2. Aside(c)
  BY <1>1, ChangeAside DEF PhaseInv, Send, fixedVars
<1>3. toServer'[c] = <<>> /\ at'[c] = at[c] /\ tight'[c] = tight[c] /\ state'[c] = "normal"
  BY <1>1 DEF PhaseInv, ShapeOK, Initialised
<1>4. CASE at[c] = "closed"
  BY <1>2, <1>3, <1>4, LeftGoesOn, PhaseStep
<1>5. CASE at[c] = "serverInit" /\ toClient[c] = <<>>
  <2>1. toClient'[c] = InitReply(c)
    BY <1>5, FirstSent, ReplySent DEF PhaseInv
  <2> QED BY <1>2, <1>3, <1>5, <2>1, PhaseStep DEF Phase, Serving, Finishing, InitReply
<1> QED BY <1>1, <1>4, <1>5

LEMMA GoneKeeps ==
  ASSUME PhaseInv, NEW c \in Clients, ClientGone(c)
  PROVE  PhaseInv'
<1>1. Aside(c)
  BY ChangeAside DEF ClientGone, PhaseInv, Goto, fixedVars
<1>2. at'[c] = "closed" /\ state'[c] = "shutdown"
  BY DEF ClientGone, Goto, PhaseInv, ShapeOK
<1> QED BY <1>1, <1>2, PhaseStep DEF Phase, Left

-----------------------------------------------------------------------------
(* Each step of the client keeps PhaseInv *)

\* What a client does that the server has closed the connection to, with nothing to read.
LEMMA ReadsOwn ==
  ASSUME PhaseInv, NEW c \in Clients, NEW what, Reads(c, what)
  PROVE  /\ at[c] = what /\ toClient[c] # <<>>
         /\ toClient' = [toClient EXCEPT ![c] = Tail(toClient[c])]
         /\ toClient'[c] = Tail(toClient[c])
BY DEF Reads, PhaseInv, ShapeOK

LEMMA FirstWritten ==
  ASSUME ShapeOK, NEW c \in Clients, NEW q, Write(c, q), toServer[c] = <<>>,
         <<>> \o q = q
  PROVE  toServer'[c] = q
BY DEF Write, ShapeOK

\* A client that only reads, or writes and goes on reading, disturbs no other one.
LEMMA ClientAside ==
  ASSUME PhaseInv, NEW c \in Clients,
         UNCHANGED <<kind, state, minor, tight>>,
         UNCHANGED toClient \/ \E x : toClient' = [toClient EXCEPT ![c] = x],
         UNCHANGED toServer \/ \E q : Write(c, q),
         \E a : Then(c, a)
  PROVE  Aside(c) /\ UNCHANGED <<kind[c], state[c], minor[c], tight[c]>>
<1>1. /\ UNCHANGED at \/ \E x : at' = [at EXCEPT ![c] = x]
      /\ UNCHANGED toServer \/ \E x : toServer' = [toServer EXCEPT ![c] = x]
  BY DEF Then, Write
<1> QED BY <1>1, ChangeAside DEF PhaseInv

LEMMA PlaceIs ==
  ASSUME ShapeOK, NEW c \in Clients, NEW a, Then(c, a)
  PROVE  at'[c] = a
BY DEF ShapeOK, Then

LEMMA ReadVersionKeeps ==
  ASSUME PhaseInv, NEW c \in Clients, ReadVersion(c)
  PROVE  PhaseInv'
<1> USE DEF ReadVersion
<1>0. /\ at[c] = "version" /\ toClient[c] # <<>>
      /\ toClient' = [toClient EXCEPT ![c] = Tail(toClient[c])]
      /\ toClient'[c] = Tail(toClient[c])
  BY ReadsOwn
<1>1. PICK m \in Versions : /\ kind[c] = "app" => m = 8
                            /\ Write(c, <<<<"version", m>>>>)
                            /\ Then(c, IF m < 7 THEN "type" ELSE "types")
  BY HandshakeAssumption DEF Versions
<1>2. Aside(c) /\ UNCHANGED <<kind[c], state[c], minor[c], tight[c]>>
  BY <1>1, <1>0, ClientAside DEF serverVars, fixedVars
<1>3. Talk(c, "version", "version", <<<<"version", 8>>>>, <<>>)
  BY <1>0 DEF PhaseInv, Phase, Greeting, Decided, Offered, Chosen, TightWay, Challenged,
     Admitted, Serving, Ended, Refusal, Finishing, Left, Talk
<1>4. toClient'[c] = <<>> /\ toServer'[c] = <<<<"version", m>>>>
  <2>1. toClient[c] = <<<<"version", 8>>>> /\ toServer[c] = <<>>
    BY <1>3 DEF Talk
  <2> QED BY <1>0, <1>1, <2>1, FirstWritten, Ones DEF PhaseInv
<1>5. at'[c] = IF m < 7 THEN "type" ELSE "types"
  BY <1>1, PlaceIs DEF PhaseInv
<1> QED BY <1>1, <1>2, <1>3, <1>4, <1>5, PhaseStep DEF Phase, Greeting, Talk

LEMMA WishWritten ==
  ASSUME NEW c, NEW shared, WriteInit(c, shared)
  PROVE  \E w \in Wishes : Write(c, <<<<"init", w>>>>) /\ Then(c, "serverInit")
BY DEF WriteInit, Wishes

LEMMA ReadTypeKeeps ==
  ASSUME PhaseInv, NEW c \in Clients, ReadType(c)
  PROVE  PhaseInv'
<1> USE DEF ReadType
<1>0. /\ at[c] = "type" /\ toClient[c] # <<>>
      /\ toClient' = [toClient EXCEPT ![c] = Tail(toClient[c])]
      /\ toClient'[c] = Tail(toClient[c])
  BY ReadsOwn
<1>1. Decided(c)
  BY <1>0 DEF PhaseInv, Phase, Greeting, Offered, Chosen, TightWay, Challenged,
     Admitted, Serving, Ended, Refusal, Finishing, Left, Talk
<1>2. CASE Talk(c, "init", "type", <<<<"type", "None">>>>, <<>>)
  <2>1. Read(c) = "None" /\ toClient'[c] = <<>>
    <3>1. toClient[c] = <<<<"type", "None">>>>
      BY <1>2 DEF Talk
    <3> QED BY <1>0, <3>1, Ones DEF Read
  <2>2. PICK w \in Wishes : Write(c, <<<<"init", w>>>>) /\ Then(c, "serverInit")
    BY <2>1, WishWritten
  <2>3. Aside(c) /\ UNCHANGED <<kind[c], state[c], minor[c], tight[c]>>
    BY <2>2, <1>0, ClientAside DEF serverVars, fixedVars
  <2>4. toServer'[c] = <<<<"init", w>>>> /\ at'[c] = "serverInit"
    BY <1>2, <2>2, FirstWritten, PlaceIs, Ones DEF PhaseInv, Talk
  <2> QED BY <1>2, <2>1, <2>3, <2>4, PhaseStep DEF Phase, Admitted, Talk
<1>3. CASE Talk(c, "authentication", "type",
                <<<<"type", "VncAuth">>, <<"challenge", 0>>>>, <<>>)
  <2>1. Read(c) = "VncAuth" /\ toClient'[c] = <<<<"challenge", 0>>>>
    <3>1. toClient[c] = <<<<"type", "VncAuth">>, <<"challenge", 0>>>>
      BY <1>3 DEF Talk
    <3> QED BY <1>0, <3>1, Twos DEF Read
  <2>2. Then(c, "challenge") /\ UNCHANGED toServer
    BY <2>1
  <2>3. Aside(c) /\ UNCHANGED <<kind[c], state[c], minor[c], tight[c]>>
    BY <2>2, <1>0, ClientAside DEF serverVars, fixedVars
  <2>4. toServer'[c] = <<>> /\ at'[c] = "challenge"
    BY <1>3, <2>2, PlaceIs DEF PhaseInv, Talk
  <2> QED BY <1>3, <2>1, <2>3, <2>4, PhaseStep DEF Phase, Challenged, Talk
<1> QED BY <1>1, <1>2, <1>3 DEF Decided

\* Tight is taken with version 3.8, the one the viewer of the app speaks.
LEMMA TightWithEight ==
  ASSUME NEW c, NEW types, "Tight" \in Choice(c, types), kind[c] = "app" => minor[c] = 8
  PROVE  minor[c] = 8
BY DEF Choice

LEMMA ReadTypesKeeps ==
  ASSUME PhaseInv, NEW c \in Clients, ReadTypes(c)
  PROVE  PhaseInv'
<1> USE DEF ReadTypes
<1>0. /\ at[c] = "types" /\ toClient[c] # <<>>
      /\ toClient' = [toClient EXCEPT ![c] = Tail(toClient[c])]
      /\ toClient'[c] = Tail(toClient[c])
  BY ReadsOwn
<1>1. Offered(c) \/ (state[c] = "shutdown" /\ Refusal(c))
  BY <1>0 DEF PhaseInv, Phase, Greeting, Decided, Chosen, TightWay, Challenged,
     Admitted, Serving, Ended, Finishing, Left, Talk
<1>8. CASE state[c] = "shutdown" /\ Refusal(c)
  <2>1. toClient[c] = <<<<"types", <<>>>>, <<"reason", 0>>>>
    BY <1>0, <1>8 DEF Refusal
  <2>2. Read(c) = <<>> /\ toClient'[c] = <<<<"reason", 0>>>>
    BY <1>0, <2>1, Twos DEF Read
  <2>3. Then(c, "reason") /\ UNCHANGED toServer
    BY <2>2
  <2>4. Aside(c) /\ UNCHANGED state[c] /\ at'[c] = "reason"
    BY <1>0, <2>3, ClientAside, PlaceIs DEF PhaseInv, serverVars, fixedVars
  <2> QED BY <1>8, <2>2, <2>4, PhaseStep DEF Phase, Ended, Refusal
<1> SUFFICES ASSUME Offered(c) PROVE PhaseInv'
  BY <1>1, <1>8
<1>2. /\ Read(c) # <<>> /\ minor[c] \in {7, 8, 889} /\ (kind[c] = "app" => minor[c] = 8)
      /\ state[c] = "securityType" /\ toServer[c] = <<>> /\ toClient'[c] = <<>>
  <2>1. toClient[c] = <<<<"types", Read(c)>>>>
    BY DEF Offered, Talk
  <2>2. Tail(toClient[c]) = <<>>
    BY <2>1, Ones
  <2> QED BY <1>0, <2>2 DEF Offered, Talk
<1>3. ASSUME NEW q, NEW a, Write(c, q), Then(c, a), <<>> \o q = q
      PROVE  /\ Aside(c) /\ UNCHANGED <<kind[c], state[c], minor[c], tight[c]>>
             /\ toServer'[c] = q /\ at'[c] = a
  <2>1. UNCHANGED <<kind, state, minor, tight>>
    BY DEF serverVars, fixedVars
  <2>2. (\E r : Write(c, r)) /\ (\E b : Then(c, b))
    BY <1>3
  <2>3. Aside(c) /\ UNCHANGED <<kind[c], state[c], minor[c], tight[c]>>
    BY <1>0, <2>1, <2>2, ClientAside
  <2>4. toServer'[c] = q /\ at'[c] = a
    BY <1>2, <1>3, FirstWritten, PlaceIs DEF PhaseInv
  <2> QED BY <2>3, <2>4
<1>4. CASE AfterNone(c)
  <2>1. CASE minor[c] = 8
    <3>1. Write(c, <<<<"choice", "None">>>>) /\ Then(c, "result")
      BY <1>4, <2>1 DEF AfterNone
    <3> QED BY <1>2, <1>3, <2>1, <3>1, Ones, PhaseStep DEF Phase, Chosen, Talk
  <2>2. CASE minor[c] = 889
    <3>1. Write(c, <<<<"choice", "None">>>>) /\ Then(c, "serverInit")
      BY <1>4, <2>2 DEF AfterNone
    <3> QED BY <1>2, <1>3, <2>2, <3>1, Ones, PhaseStep DEF Phase, Chosen, Talk
  <2>3. CASE minor[c] = 7
    <3>1. PICK w \in Wishes : /\ Write(c, <<<<"choice", "None">>, <<"init", w>>>>)
                              /\ Then(c, "serverInit")
      BY <1>4, <2>3 DEF AfterNone, Wishes
    <3> QED BY <1>2, <1>3, <2>3, <3>1, Twos, PhaseStep DEF Phase, Chosen, Talk
  <2> QED BY <1>2, <2>1, <2>2, <2>3
<1>5. CASE Write(c, <<<<"choice", "VncAuth">>>>) /\ Then(c, "challenge")
  BY <1>2, <1>3, <1>5, Ones, PhaseStep DEF Phase, Chosen, Talk
<1>6. CASE /\ "Tight" \in Choice(c, Read(c))
           /\ Write(c, <<<<"choice", "Tight">>>>) /\ Then(c, "tunnelCaps")
  BY <1>2, <1>3, <1>6, TightWithEight, Ones, PhaseStep DEF Phase, Chosen, Talk
<1> QED BY <1>2, <1>4, <1>5, <1>6

\* A message is read, and the client goes on to read another one.
LEMMA OnlyReads ==
  ASSUME PhaseInv, NEW c \in Clients, NEW what, NEW a, Reads(c, what), Then(c, a),
         UNCHANGED <<serverVars, toServer>>
  PROVE  /\ Aside(c) /\ at[c] = what /\ toClient[c] # <<>>
         /\ toClient'[c] = Tail(toClient[c]) /\ at'[c] = a
         /\ UNCHANGED <<toServer[c], kind[c], state[c], minor[c], tight[c]>>
<1>1. /\ at[c] = what /\ toClient[c] # <<>>
      /\ toClient' = [toClient EXCEPT ![c] = Tail(toClient[c])]
      /\ toClient'[c] = Tail(toClient[c])
  BY ReadsOwn
<1>2. UNCHANGED <<kind, state, minor, tight>> /\ \E b : Then(c, b)
  BY DEF serverVars, fixedVars
<1>3. Aside(c) /\ UNCHANGED <<kind[c], state[c], minor[c], tight[c]>>
  BY <1>1, <1>2, ClientAside
<1>4. at'[c] = a
  BY PlaceIs DEF PhaseInv
<1> QED BY <1>1, <1>3, <1>4

\* A message is read and answered.
LEMMA ReadsAndWrites ==
  ASSUME PhaseInv, NEW c \in Clients, NEW what, NEW a, NEW q, Reads(c, what), Then(c, a),
         UNCHANGED serverVars, Write(c, q), toServer[c] = <<>>, <<>> \o q = q
  PROVE  /\ Aside(c) /\ toClient'[c] = Tail(toClient[c]) /\ at'[c] = a /\ toServer'[c] = q
         /\ UNCHANGED <<kind[c], state[c], minor[c], tight[c]>>
<1>1. /\ toClient' = [toClient EXCEPT ![c] = Tail(toClient[c])]
      /\ toClient'[c] = Tail(toClient[c])
  BY ReadsOwn
<1>2. UNCHANGED <<kind, state, minor, tight>> /\ (\E b : Then(c, b)) /\ (\E r : Write(c, r))
  BY DEF serverVars, fixedVars
<1>3. Aside(c) /\ UNCHANGED <<kind[c], state[c], minor[c], tight[c]>>
  BY <1>1, <1>2, ClientAside
<1>4. at'[c] = a /\ toServer'[c] = q
  BY PlaceIs, FirstWritten DEF PhaseInv
<1> QED BY <1>1, <1>3, <1>4

LEMMA ReadTunnelCapsKeeps ==
  ASSUME PhaseInv, NEW c \in Clients, ReadTunnelCaps(c)
  PROVE  PhaseInv'
<1>1. /\ Aside(c) /\ at[c] = "tunnelCaps" /\ toClient[c] # <<>>
      /\ toClient'[c] = Tail(toClient[c]) /\ at'[c] = "authCaps"
      /\ UNCHANGED <<toServer[c], kind[c], state[c], minor[c], tight[c]>>
  BY OnlyReads DEF ReadTunnelCaps
<1>2. TightWay(c) /\ toServer[c] = <<>>
  BY <1>1 DEF PhaseInv, Phase, Greeting, Decided, Offered, Chosen, TightWay, Challenged,
     Admitted, Serving, Ended, Refusal, Finishing, Left, Talk
<1>3. CASE /\ state[c] = "tightType"
           /\ toClient[c] = <<<<"tunnelCaps", 0>>, <<"authCaps", 1>>>>
  <2>1. toClient'[c] = <<<<"authCaps", 1>>>>
    BY <1>1, <1>3, Twos
  <2> QED BY <1>1, <1>2, <1>3, <2>1, PhaseStep DEF Phase, TightWay, Talk
<1>4. CASE /\ state[c] = "init"
           /\ toClient[c] = <<<<"tunnelCaps", 0>>, <<"authCaps", 0>>, <<"result", "ok">>>>
  <2>1. toClient'[c] = <<<<"authCaps", 0>>, <<"result", "ok">>>>
    BY <1>1, <1>4, Threes
  <2> QED BY <1>1, <1>2, <1>4, <2>1, PhaseStep DEF Phase, TightWay, Talk
<1> QED BY <1>1, <1>2, <1>3, <1>4 DEF TightWay, Talk

LEMMA ReadAuthCapsKeeps ==
  ASSUME PhaseInv, NEW c \in Clients, ReadAuthCaps(c)
  PROVE  PhaseInv'
<1> USE DEF ReadAuthCaps
<1>1. at[c] = "authCaps" /\ toClient[c] # <<>>
  BY ReadsOwn
<1>2. TightWay(c) /\ toServer[c] = <<>>
  BY <1>1 DEF PhaseInv, Phase, Greeting, Decided, Offered, Chosen, TightWay, Challenged,
     Admitted, Serving, Ended, Refusal, Finishing, Left, Talk
<1>3. CASE state[c] = "tightType" /\ toClient[c] = <<<<"authCaps", 1>>>>
  <2>1. Read(c) = 1 /\ Tail(toClient[c]) = <<>>
    BY <1>3, Ones DEF Read
  <2>2. Then(c, "challenge") /\ Write(c, <<<<"authType", "VncAuth">>>>)
    BY <2>1
  <2>3. /\ Aside(c) /\ toClient'[c] = <<>> /\ at'[c] = "challenge"
        /\ toServer'[c] = <<<<"authType", "VncAuth">>>> /\ UNCHANGED state[c]
    <3>1. <<>> \o <<<<"authType", "VncAuth">>>> = <<<<"authType", "VncAuth">>>>
      BY Ones
    <3>2. Reads(c, "authCaps") /\ UNCHANGED serverVars
      OBVIOUS
    <3>3. /\ Aside(c) /\ toClient'[c] = Tail(toClient[c]) /\ at'[c] = "challenge"
          /\ toServer'[c] = <<<<"authType", "VncAuth">>>>
          /\ UNCHANGED <<kind[c], state[c], minor[c], tight[c]>>
      BY <1>2, <2>2, <3>1, <3>2, ReadsAndWrites
    <3> QED BY <2>1, <3>3
  <2> QED BY <1>3, <2>3, PhaseStep DEF Phase, TightWay, Talk
<1>4. CASE state[c] = "init" /\ toClient[c] = <<<<"authCaps", 0>>, <<"result", "ok">>>>
  <2>1. Read(c) = 0 /\ Tail(toClient[c]) = <<<<"result", "ok">>>>
    BY <1>4, Twos DEF Read
  <2>2. Then(c, "result") /\ UNCHANGED toServer
    BY <2>1
  <2>3. /\ Aside(c) /\ toClient'[c] = <<<<"result", "ok">>>> /\ at'[c] = "result"
        /\ UNCHANGED <<toServer[c], state[c]>>
    BY <2>1, <2>2, OnlyReads
  <2> QED BY <1>2, <1>4, <2>3, PhaseStep DEF Phase, Admitted, Talk
<1> QED BY <1>1, <1>2, <1>3, <1>4 DEF TightWay, Talk

LEMMA ReadChallengeKeeps ==
  ASSUME PhaseInv, NEW c \in Clients, ReadChallenge(c)
  PROVE  PhaseInv'
<1> USE DEF ReadChallenge
<1>1. at[c] = "challenge" /\ toClient[c] # <<>>
  BY ReadsOwn
<1>2. Challenged(c)
  BY <1>1 DEF PhaseInv, Phase, Greeting, Decided, Offered, Chosen, TightWay,
     Admitted, Serving, Ended, Refusal, Finishing, Left, Talk
<1>3. /\ state[c] \in {"authentication", "tightResponse"}
      /\ toClient[c] = <<<<"challenge", 0>>>> /\ toServer[c] = <<>>
  BY <1>1, <1>2 DEF Challenged, Talk
<1>4. PICK r \in Answers : Write(c, <<<<"response", r>>>>)
  BY DEF Answers
<1>5. /\ Aside(c) /\ toClient'[c] = <<>> /\ at'[c] = "result"
      /\ toServer'[c] = <<<<"response", r>>>> /\ UNCHANGED state[c]
  <2>1. Tail(toClient[c]) = <<>>
    BY <1>3, Ones
  <2>2. <<>> \o <<<<"response", r>>>> = <<<<"response", r>>>>
    BY Ones
  <2>3. Reads(c, "challenge") /\ UNCHANGED serverVars /\ Then(c, "result")
    OBVIOUS
  <2> QED BY <1>3, <1>4, <2>1, <2>2, <2>3, ReadsAndWrites
<1> QED BY <1>3, <1>5, PhaseStep DEF Phase, Challenged, Talk

LEMMA ReadResultKeeps ==
  ASSUME PhaseInv, NEW c \in Clients, ReadResult(c)
  PROVE  PhaseInv'
<1> USE DEF ReadResult
<1>1. at[c] = "result" /\ toClient[c] # <<>>
  BY ReadsOwn
<1>2. Admitted(c) \/ (state[c] = "shutdown" /\ Refusal(c))
  BY <1>1 DEF PhaseInv, Phase, Greeting, Decided, Offered, Chosen, TightWay, Challenged,
     Serving, Ended, Finishing, Left, Talk
<1>3. CASE Admitted(c)
  <2>1. state[c] = "init" /\ toClient[c] = <<<<"result", "ok">>>> /\ toServer[c] = <<>>
    BY <1>1, <1>3 DEF Admitted, Talk
  <2>2. Read(c) = "ok" /\ Tail(toClient[c]) = <<>>
    BY <2>1, Ones DEF Read
  <2>3. PICK w \in Wishes : Write(c, <<<<"init", w>>>>) /\ Then(c, "serverInit")
    BY <2>2, WishWritten
  <2>4. /\ Aside(c) /\ toClient'[c] = <<>> /\ at'[c] = "serverInit"
        /\ toServer'[c] = <<<<"init", w>>>> /\ UNCHANGED state[c]
    BY <2>1, <2>2, <2>3, ReadsAndWrites, Ones
  <2> QED BY <2>1, <2>4, PhaseStep DEF Phase, Admitted, Talk
<1>4. CASE state[c] = "shutdown" /\ Refusal(c)
  <2> DEFINE reason == IF minor[c] > 7 THEN <<<<"reason", 0>>>> ELSE <<>>
  <2>1. toClient[c] = <<<<"result", "failed">>>> \o reason
    BY <1>1, <1>4 DEF Refusal
  <2>2. Head(toClient[c]) = <<"result", "failed">> /\ Tail(toClient[c]) = reason
    <3>1. CASE minor[c] > 7
      <4>1. toClient[c] = <<<<"result", "failed">>, <<"reason", 0>>>>
        BY <2>1, <3>1, Twos
      <4> QED BY <3>1, <4>1, Twos
    <3>2. CASE ~(minor[c] > 7)
      <4>1. toClient[c] = <<<<"result", "failed">>>>
        BY <2>1, <3>2, Twos
      <4> QED BY <3>2, <4>1, Ones
    <3> QED BY <3>1, <3>2
  <2>3. Then(c, IF minor[c] >= 8 THEN "reason" ELSE "closed") /\ UNCHANGED toServer
    BY <2>2 DEF Read
  <2>4. /\ Aside(c) /\ toClient'[c] = reason /\ UNCHANGED state[c]
        /\ at'[c] = IF minor[c] >= 8 THEN "reason" ELSE "closed"
    BY <2>2, <2>3, OnlyReads
  <2>5. CASE minor[c] >= 8
    <3>1. toClient'[c] = <<<<"reason", 0>>>> /\ at'[c] = "reason"
      BY <2>4, <2>5 DEF PhaseInv, ShapeOK
    <3> QED BY <1>4, <2>4, <3>1, PhaseStep DEF Phase, Ended, Refusal
  <2>6. CASE ~(minor[c] >= 8)
    BY <1>4, <2>4, <2>6, PhaseStep DEF Phase, Left
  <2> QED BY <2>5, <2>6
<1> QED BY <1>2, <1>3, <1>4

LEMMA ReadReasonKeeps ==
  ASSUME PhaseInv, NEW c \in Clients, ReadReason(c)
  PROVE  PhaseInv'
<1>1. /\ Aside(c) /\ at[c] = "reason" /\ toClient[c] # <<>> /\ at'[c] = "closed"
      /\ UNCHANGED state[c]
  BY OnlyReads DEF ReadReason
<1>2. state[c] = "shutdown"
  BY <1>1 DEF PhaseInv, Phase, Greeting, Decided, Offered, Chosen, TightWay, Challenged,
     Admitted, Serving, Ended, Finishing, Left, Talk
<1> QED BY <1>1, <1>2, PhaseStep DEF Phase, Left

\* The last message is read to its end by a client that is served, or was.
LEMMA FinishingGoesOn ==
  ASSUME NEW c, Serving(c) \/ state[c] = "shutdown",
         at'[c] # "absent", Finishing(c)', UNCHANGED <<state[c], toServer[c]>>
  PROVE  Phase(c)'
BY DEF Phase, Serving, Ended

LEMMA ReadServerInitKeeps ==
  ASSUME PhaseInv, NEW c \in Clients, ReadServerInit(c)
  PROVE  PhaseInv'
<1> DEFINE next == IF tight[c] THEN "caps" ELSE "normal"
<1>1. /\ Aside(c) /\ at[c] = "serverInit" /\ toClient[c] # <<>>
      /\ toClient'[c] = Tail(toClient[c]) /\ at'[c] = next
      /\ UNCHANGED <<toServer[c], state[c]>>
  BY OnlyReads DEF ReadServerInit
<1>2. (Serving(c) \/ state[c] = "shutdown") /\ Finishing(c)
  BY <1>1 DEF PhaseInv, Phase, Greeting, Decided, Offered, Chosen, TightWay, Challenged,
     Admitted, Serving, Ended, Refusal, Left, Talk
<1>3. toClient[c] = InitReply(c)
  BY <1>1, <1>2 DEF Finishing
<1>4. Finishing(c)' /\ at'[c] # "absent"
  <2>1. CASE tight[c]
    <3>1. Tail(toClient[c]) = <<<<"caps", 0>>>>
      <4>1. toClient[c] = <<<<"serverInit", 0>>, <<"caps", 0>>>>
        BY <1>3, <2>1, Twos DEF InitReply
      <4> QED BY <4>1, Twos
    <3> QED BY <1>1, <2>1, <3>1 DEF Finishing
  <2>2. CASE ~tight[c]
    <3>1. Tail(toClient[c]) = <<>>
      BY <1>3, <2>2, Ones, Twos DEF InitReply
    <3> QED BY <1>1, <2>2, <3>1 DEF Finishing
  <2> QED BY <2>1, <2>2
<1> QED BY <1>1, <1>2, <1>4, FinishingGoesOn, PhaseStep

LEMMA ReadCapsKeeps ==
  ASSUME PhaseInv, NEW c \in Clients, ReadCaps(c)
  PROVE  PhaseInv'
<1>1. /\ Aside(c) /\ at[c] = "caps" /\ toClient[c] # <<>>
      /\ toClient'[c] = Tail(toClient[c]) /\ at'[c] = "normal"
      /\ UNCHANGED <<toServer[c], state[c]>>
  BY OnlyReads DEF ReadCaps
<1>2. (Serving(c) \/ state[c] = "shutdown") /\ Finishing(c)
  BY <1>1 DEF PhaseInv, Phase, Greeting, Decided, Offered, Chosen, TightWay, Challenged,
     Admitted, Serving, Ended, Refusal, Left, Talk
<1>3. toClient[c] = <<<<"caps", 0>>>>
  BY <1>1, <1>2 DEF Finishing
<1>4. Finishing(c)' /\ at'[c] # "absent"
  BY <1>1, <1>3, Ones DEF Finishing
<1> QED BY <1>1, <1>2, <1>4, FinishingGoesOn, PhaseStep

\* The client ends; what the server has not read yet stays.
LEMMA EndKeepsPhase ==
  ASSUME PhaseInv, NEW c \in Clients, at[c] # "absent", at[c] # "closed", Then(c, "closed"),
         UNCHANGED <<serverVars, toClient, toServer>>
  PROVE  PhaseInv'
<1>1. UNCHANGED <<kind, state, minor, tight>> /\ \E a : Then(c, a)
  BY DEF serverVars, fixedVars
<1>2. Aside(c) /\ UNCHANGED <<state[c], minor[c], toServer[c]>> /\ at'[c] = "closed"
  BY <1>1, ClientAside, PlaceIs DEF PhaseInv
<1>3. state[c] = "shutdown" \/ LastWords(c)
  <2>1. CASE Greeting(c) \/ Decided(c) \/ Offered(c)
    BY <2>1 DEF Greeting, Decided, Offered, LastWords, Talk
  <2>2. CASE Chosen(c)
    BY <2>2 DEF Chosen, LastWords, Talk, Handlers
  <2>3. CASE TightWay(c) \/ Challenged(c) \/ Admitted(c)
    BY <2>3 DEF TightWay, Challenged, Admitted, LastWords, Talk
  <2>4. CASE Serving(c) \/ Ended(c)
    BY <2>4 DEF Serving, Ended, LastWords
  <2> QED BY <2>1, <2>2, <2>3, <2>4 DEF PhaseInv, Phase, Left
<1>4. Left(c)'
  BY <1>2, <1>3 DEF Left, LastWords
<1> QED BY <1>2, <1>4, PhaseStep DEF Phase

-----------------------------------------------------------------------------
LEMMA PhaseInvInit == HandshakeInit => PhaseInv
<1> SUFFICES ASSUME HandshakeInit PROVE PhaseInv
  OBVIOUS
<1>1. ShapeOK
  BY DEF HandshakeInit, ShapeOK
<1>2. \A c \in Clients : Greeting(c)
  BY DEF HandshakeInit, Greeting, Talk
<1> QED BY <1>1, <1>2 DEF PhaseInv, Phase

LEMMA PhaseInvNext == PhaseInv /\ [HandshakeNext]_handshakeVars => PhaseInv'
<1> SUFFICES ASSUME PhaseInv, [HandshakeNext]_handshakeVars PROVE PhaseInv'
  OBVIOUS
<1>1. ASSUME NEW c \in Clients, NEW as, Connect(c, as) PROVE PhaseInv'
  BY <1>1, ConnectKeeps
<1>2. ASSUME NEW c \in Clients, ServerStep(c) PROVE PhaseInv'
  BY <1>2, VersionKeeps, RegisterTypeKeeps, SendTypeListKeeps, SecurityTypeKeeps, AuthTypeKeeps,
     AuthMessageKeeps, InitMessageKeeps, GoneKeeps DEF ServerStep
<1>3. ASSUME NEW c \in Clients, ClientStep(c) PROVE PhaseInv'
  <2>1. CASE ServerClosed(c)
    <3>1. at[c] # "absent"
      BY <2>1 DEF ServerClosed, PhaseInv, Phase, Greeting, Decided, Offered, Chosen, TightWay,
         Challenged, Admitted, Serving, Ended, Left, Talk
    <3> QED BY <2>1, <3>1, EndKeepsPhase DEF ServerClosed
  <2> QED BY <1>3, <2>1, ReadVersionKeeps, ReadTypeKeeps, ReadTypesKeeps, ReadTunnelCapsKeeps,
             ReadAuthCapsKeeps, ReadChallengeKeeps, ReadResultKeeps, ReadReasonKeeps,
             ReadServerInitKeeps, ReadCapsKeeps DEF ClientStep
<1>4. ASSUME NEW c \in Clients, Leave(c) PROVE PhaseInv'
  BY <1>4, EndKeepsPhase DEF Leave
<1>5. CASE UNCHANGED handshakeVars
  BY <1>5 DEF handshakeVars, fixedVars, PhaseInv, ShapeOK, Phase, Greeting, Decided, Offered,
     Chosen, TightWay, Challenged, Admitted, Serving, Ended, Refusal, Finishing, InitReply, Left,
     LastWords, Talk, Read
<1> QED BY <1>1, <1>2, <1>3, <1>4, <1>5 DEF HandshakeNext

\* A connection is always in one of the phases of the protocol.
THEOREM PhasesKept == HandshakeSpec => []PhaseInv
BY PhaseInvInit, PhaseInvNext, PTL DEF HandshakeSpec

-----------------------------------------------------------------------------
LEMMA StepOfPhase ==
  ASSUME PhaseInv, NEW c \in Clients
  PROVE  /\ \/ at[c] \in {"absent", "normal", "closed"} \/ toClient[c] = <<>>
            \/ Head(toClient[c])[1] = at[c]
         /\ \/ Awaited(c) = "any" \/ toServer[c] = <<>>
            \/ Head(toServer[c])[1] = Awaited(c)
<1>1. /\ state[c] = "version" => Awaited(c) = "version"
      /\ state[c] = "securityType" => Awaited(c) = "choice"
      /\ state[c] = "tightType" => Awaited(c) = "authType"
      /\ state[c] \in {"authentication", "tightResponse"} => Awaited(c) = "response"
      /\ state[c] = "init" => Awaited(c) = "init"
      /\ state[c] \in {"register", "listing", "shutdown"} => Awaited(c) = "any"
  BY DEF Awaited
<1>2. CASE Greeting(c)
  BY <1>1, <1>2, Ones DEF Greeting, Talk
<1>3. CASE Decided(c)
  BY <1>3, Ones, Twos DEF Decided, Talk
<1>4. CASE Offered(c)
  BY <1>4, Ones DEF Offered, Talk
<1>5. CASE Chosen(c)
  BY <1>1, <1>5, Ones, Twos DEF Chosen, Talk
<1>6. CASE TightWay(c)
  BY <1>1, <1>6, Ones, Twos, Threes DEF TightWay, Talk
<1>7. CASE Challenged(c)
  BY <1>1, <1>7, Ones DEF Challenged, Talk
<1>8. CASE Admitted(c)
  BY <1>1, <1>8, Ones DEF Admitted, Talk
<1>9. Finishing(c) => \/ at[c] = "normal" \/ Head(toClient[c])[1] = at[c]
  BY Ones, Twos DEF Finishing, InitReply
<1>10. CASE Serving(c)
  BY <1>9, <1>10 DEF Serving
<1>11. Refusal(c) => Head(toClient[c])[1] = at[c]
  BY Ones, Twos DEF Refusal
<1>12. CASE Ended(c)
  BY <1>1, <1>9, <1>11, <1>12 DEF Ended
<1>13. CASE Left(c)
  BY <1>1, <1>13, Ones, Twos DEF Left, LastWords
<1> QED BY <1>2, <1>3, <1>4, <1>5, <1>6, <1>7, <1>8, <1>10, <1>12, <1>13 DEF PhaseInv, Phase

\* Whatever the version, the security type and the password, each side finds the message it
\* reads for: rfbProcessClientMessage and connectAndAuthenticate keep in step.
THEOREM SidesInStep == HandshakeSpec => []InStep
<1>1. PhaseInv => InStep
  BY StepOfPhase DEF InStep
<1> QED BY <1>1, PhasesKept, PTL

LEMMA ProgressOfPhase ==
  ASSUME PhaseInv, NEW c \in Clients
  PROVE  /\ at[c] \notin {"absent", "normal", "closed"} =>
              \/ toClient[c] # <<>> \/ state[c] \in {"register", "listing", "shutdown"}
              \/ toServer[c] # <<>> /\ Awaited(c) # "any"
         /\ at[c] = "normal" => state[c] \in {"normal", "shutdown"}
<1>1. state[c] \in {"version", "securityType", "tightType", "authentication", "tightResponse",
                    "init"} => Awaited(c) # "any"
  BY DEF Awaited
<1>2. CASE Greeting(c)
  BY <1>1, <1>2 DEF Greeting, Talk
<1>3. CASE Decided(c)
  <2>1. at[c] = "type" /\ toClient[c] # <<>>
    BY <1>3 DEF Decided, Talk
  <2> QED BY <2>1
<1>4. CASE Offered(c)
  <2>1. at[c] = "types" /\ toClient[c] # <<>>
    BY <1>4 DEF Offered, Talk
  <2> QED BY <2>1
<1>5. CASE Chosen(c)
  BY <1>1, <1>5 DEF Chosen, Talk
<1>6. CASE TightWay(c)
  BY <1>1, <1>6 DEF TightWay, Talk
<1>7. CASE Challenged(c)
  <2>1. \/ at[c] = "challenge" /\ toClient[c] # <<>>
        \/ /\ at[c] = "result" /\ toServer[c] # <<>>
           /\ state[c] \in {"authentication", "tightResponse"}
    <3>1. PICK s \in {"authentication", "tightResponse"} :
            \/ Talk(c, s, "challenge", <<<<"challenge", 0>>>>, <<>>)
            \/ \E r \in Answers : Talk(c, s, "result", <<>>, <<<<"response", r>>>>)
      BY <1>7, Zenon DEF Challenged
    <3>2. CASE Talk(c, s, "challenge", <<<<"challenge", 0>>>>, <<>>)
      BY <3>2 DEF Talk
    <3>3. ASSUME NEW r, Talk(c, s, "result", <<>>, <<<<"response", r>>>>)
          PROVE  at[c] = "result" /\ toServer[c] # <<>> /\ state[c] = s
      BY <3>3, Ones DEF Talk
    <3> QED BY <3>1, <3>2, <3>3
  <2> QED BY <1>1, <2>1
<1>8. CASE Admitted(c)
  BY <1>1, <1>8 DEF Admitted, Talk
<1>9. CASE Serving(c)
  <2>1. InitReply(c) # <<>>
    BY Ones, Twos DEF InitReply
  <2> QED BY <1>9, <2>1 DEF Serving, Finishing
<1>10. CASE Ended(c) \/ Left(c)
  BY <1>10 DEF Ended, Left
<1> QED BY <1>2, <1>3, <1>4, <1>5, <1>6, <1>7, <1>8, <1>9, <1>10 DEF PhaseInv, Phase

\* The two sides never wait for each other, the viewer of Mac OS X and one of version 3.7,
\* which send ClientInit never and unasked, included; and a client that takes itself to be
\* connected is one that the server serves or has closed.
THEOREM NeverStuck == HandshakeSpec => []NobodyStuck
<1>1. PhaseInv => NobodyStuck
  BY ProgressOfPhase DEF NobodyStuck
<1> QED BY <1>1, PhasesKept, PTL
-----------------------------------------------------------------------------
(***************************************************************************)
(* The password.  None is not registered before the server has made a      *)
(* connection itself that got past its version, and nothing points to its  *)
(* handler, so that no step of the walks through the list, which follow    *)
(* stale next fields, can bring it back.  And a client that does not know  *)
(* the password never sends the right answer.                              *)
(***************************************************************************)

Nodes == Handlers \cup {NULL}
ListType == [first : Nodes, after : [Nodes -> Nodes]]
WithoutNone(l) ==
  l \in ListType /\ l.first # "None" /\ \A h \in Nodes : l.after[h] # "None"

\* All that a client without the password may write.
Unknowing ==
  {<<"version", m>> : m \in Versions} \cup {<<"choice", h>> : h \in Handlers}
    \cup {<<"init", w>> : w \in Wishes} \cup {<<"authType", "VncAuth">>, <<"response", "wrong">>}
UnknowingWords == \A c \in Clients : c \notin knows => toServer[c] \in Seq(Unknowing)

Stranger(c) == PasswordNeeded(c) /\ c \notin knows
Guarded ==
  CalledOut \/ (password => /\ WithoutNone(list)
                            /\ \A c \in Clients : Stranger(c) => state[c] \notin {"init", "normal"})

PasswordInv == PhaseInv /\ UnknowingWords /\ Guarded

\* The lists without None.
LEMMA NodesAre ==
  /\ Nodes = {"None", "VncAuth", "Tight", NULL} /\ NULL \notin {"None", "VncAuth", "Tight"}
BY DEF Nodes, Handlers, NULL

LEMMA TakeOutWithout ==
  ASSUME NEW l, WithoutNone(l), NEW h \in Nodes
  PROVE  WithoutNone(TakeOut(l, h))
<1>1. l.after[h] \in Nodes /\ l.after[h] # "None"
  BY DEF WithoutNone, ListType
<1>2. CASE l.first = h
  BY <1>1, <1>2 DEF TakeOut, WithoutNone, ListType
<1>3. CASE l.first # h /\ Listed(l, h)
  <2>1. \E pre : TakeOut(l, h) = [l EXCEPT !.after[pre] = l.after[h]]
    BY <1>3, Zenon DEF TakeOut
  <2> QED BY <1>1, <2>1 DEF WithoutNone, ListType
<1>4. CASE l.first # h /\ ~Listed(l, h)
  BY <1>4 DEF TakeOut
<1> QED BY <1>2, <1>3, <1>4

LEMMA PutInWithout ==
  ASSUME NEW l, WithoutNone(l), NEW h \in Nodes, h # "None"
  PROVE  WithoutNone(PutIn(l, h))
BY DEF PutIn, WithoutNone, ListType

LEMMA UnregisterWithout ==
  ASSUME NEW l, WithoutNone(l), NEW h \in Nodes
  PROVE  WithoutNone(Unregister(l, h))
<1>1. l.after[h] \in Nodes /\ l.after[l.after[h]] \in Nodes
  BY DEF WithoutNone, ListType
<1> QED BY <1>1, TakeOutWithout DEF Unregister

LEMMA RegisterWithout ==
  ASSUME NEW l, WithoutNone(l), NEW h \in Nodes, h # "None"
  PROVE  WithoutNone(Register(l, h))
<1>1. /\ l.after[h] \in Nodes /\ l.after[l.after[h]] \in Nodes
      /\ l.after[h] # "None" /\ l.after[l.after[h]] # "None"
  BY DEF WithoutNone, ListType
<1> QED BY <1>1, PutInWithout DEF Register

LEMMA NoneNotListed ==
  ASSUME NEW l, WithoutNone(l)
  PROVE  ~Listed(l, "None")
<1> DEFINE second == l.after[l.first]
           third == l.after[second]
<1>1. l.first # "None" /\ second # "None" /\ third # "None"
  BY DEF WithoutNone, ListType
<1>2. Types(l) \in {<<>>, <<l.first>>, <<l.first, second>>, <<l.first, second, third>>}
  BY DEF Types, Second, Third
<1> HIDE DEF second, third
<1>3. \A i \in DOMAIN Types(l) : Types(l)[i] # "None"
  BY <1>1, <1>2
<1> QED BY <1>3 DEF Listed, Range

-----------------------------------------------------------------------------
\* A step of c, as the others see it.
Beside(c) ==
  /\ UNCHANGED <<password, knows, kind>>
  /\ \A d \in Clients \ {c} :
       toServer'[d] = toServer[d] /\ state'[d] \in {state[d], "shutdown"}

LEMMA CalledKept ==
  ASSUME NEW c \in Clients, Beside(c), CalledOut,
         state'[c] = state[c] \/ state'[c] \notin {"absent", "version"}
  PROVE  CalledOut'
<1>1. PICK d \in Clients : kind[d] = "called" /\ state[d] \notin {"absent", "version"}
  BY DEF CalledOut
<1>2. kind'[d] = "called" /\ state'[d] \notin {"absent", "version"}
  BY <1>1 DEF Beside
<1> QED BY <1>2 DEF CalledOut

LEMMA GuardedStep ==
  ASSUME Guarded, NEW c \in Clients, Beside(c),
         state'[c] = state[c] \/ state'[c] \notin {"absent", "version"},
         password /\ ~CalledOut' /\ WithoutNone(list)
             /\ (Stranger(c) => state[c] \notin {"init", "normal"})
           => WithoutNone(list') /\ (Stranger(c) => state'[c] \notin {"init", "normal"})
  PROVE  Guarded'
<1> SUFFICES ASSUME ~CalledOut', password
             PROVE  /\ WithoutNone(list')
                    /\ \A d \in Clients : Stranger(d)' => state'[d] \notin {"init", "normal"}
  BY DEF Guarded, Beside
<1>1. ~CalledOut
  BY CalledKept
<1>2. WithoutNone(list) /\ \A d \in Clients : Stranger(d) => state[d] \notin {"init", "normal"}
  BY <1>1 DEF Guarded
<1>3. WithoutNone(list') /\ (Stranger(c) => state'[c] \notin {"init", "normal"})
  BY <1>2
<1>4. ASSUME NEW d \in Clients, Stranger(d)' PROVE state'[d] \notin {"init", "normal"}
  <2>1. Stranger(d)
    BY <1>4 DEF Stranger, PasswordNeeded, Beside
  <2>2. CASE d # c
    BY <1>2, <2>1, <2>2 DEF Beside
  <2> QED BY <1>3, <2>1, <2>2
<1> QED BY <1>3, <1>4

\* What the server does to the connections.
LEMMA ServerBeside ==
  ASSUME PhaseInv, NEW c \in Clients, ServerStep(c)
  PROVE  /\ Beside(c) /\ state'[c] \notin {"absent", "version"}
         /\ \/ toServer' = toServer
            \/ toServer[c] # <<>> /\ toServer' = [toServer EXCEPT ![c] = Tail(toServer[c])]
<1>1. UNCHANGED <<password, knows, kind>>
  BY Zenon DEF ServerStep, ProtocolVersion, RegisterType, SendTypeList, SecurityType, AuthType,
     AuthMessage, InitMessage, ClientGone, fixedVars
<1>2. \/ toServer' = toServer
      \/ toServer[c] # <<>> /\ toServer' = [toServer EXCEPT ![c] = Tail(toServer[c])]
  BY Zenon DEF ServerStep, ProtocolVersion, RegisterType, SendTypeList, SecurityType, AuthType,
     AuthMessage, InitMessage, ClientGone, Gets
<1>3. \/ \E s \in {"init", "authentication", "register", "listing", "securityType", "tightType",
                   "tightResponse", "shutdown"} : Goto(c, s)
      \/ \E shared : state' = Initialised(c, shared)
  <2>1. CASE ProtocolVersion(c)
    BY <2>1 DEF ProtocolVersion
  <2>2. CASE RegisterType(c) \/ SendTypeList(c)
    BY <2>2 DEF RegisterType, SendTypeList
  <2>3. CASE SecurityType(c)
    <3>1. CASE AuthNone(c)
      BY <3>1, Zenon DEF AuthNone
    <3>2. CASE SecTypeTight(c)
      BY <3>2 DEF SecTypeTight
    <3>3. CASE Goto(c, "shutdown") \/ Goto(c, "authentication")
      BY <3>3
    <3> QED BY <2>3, <3>1, <3>2, <3>3 DEF SecurityType
  <2>4. CASE AuthType(c) \/ AuthMessage(c) \/ ClientGone(c)
    BY <2>4 DEF AuthType, AuthMessage, ClientGone
  <2>5. CASE InitMessage(c)
    BY <2>5, Zenon DEF InitMessage
  <2> QED BY <2>1, <2>2, <2>3, <2>4, <2>5 DEF ServerStep
<1>4. state = [d \in Clients |-> state[d]] /\ toServer = [d \in Clients |-> toServer[d]]
  BY DEF PhaseInv, ShapeOK
<1>5. /\ state'[c] \notin {"absent", "version"}
      /\ \A d \in Clients \ {c} : state'[d] \in {state[d], "shutdown"}
  <2>1. CASE \E shared : state' = Initialised(c, shared)
    BY <2>1 DEF Initialised
  <2>2. CASE \E s \in {"init", "authentication", "register", "listing", "securityType",
                       "tightType", "tightResponse", "shutdown"} : Goto(c, s)
    BY <1>4, <2>2 DEF Goto
  <2> QED BY <1>3, <2>1, <2>2
<1>6. \A d \in Clients \ {c} : toServer'[d] = toServer[d]
  BY <1>2, <1>4
<1> QED BY <1>1, <1>2, <1>5, <1>6 DEF Beside

\* What is done for a client that the server wants a password of, or has connected to.
LEMMA WantedType ==
  ASSUME NEW c \in Clients, password, ~CalledOut',
         UNCHANGED kind, state'[c] \notin {"absent", "version"}
  PROVE  PasswordNeeded(c) /\ Primary(c) = "VncAuth" /\ Other(c) = "None"
BY DEF CalledOut, PasswordNeeded, Primary, Other

LEMMA UnknowingSays ==
  ASSUME UnknowingWords, NEW c \in Clients, Gets(c, "response"), Got(c) = "right"
  PROVE  c \in knows
<1> SUFFICES ASSUME c \notin knows PROVE FALSE
  OBVIOUS
<1>1. toServer[c] \in Seq(Unknowing) /\ toServer[c] # <<>>
  BY DEF UnknowingWords, Gets
<1>2. Head(toServer[c]) \in Unknowing
  BY <1>1, HeadTailProperties
<1> QED BY <1>2 DEF Unknowing, Gets, Got

LEMMA ServerGuarded ==
  ASSUME PasswordInv, NEW c \in Clients, ServerStep(c)
  PROVE  Guarded'
<1>1. Beside(c) /\ state'[c] \notin {"absent", "version"}
  BY ServerBeside DEF PasswordInv
<1>2. SUFFICES ASSUME password, ~CalledOut', WithoutNone(list),
                      Stranger(c) => state[c] \notin {"init", "normal"}
               PROVE  WithoutNone(list') /\ (Stranger(c) => state'[c] \notin {"init", "normal"})
  BY <1>1, GuardedStep DEF PasswordInv
<1>3. PasswordNeeded(c) /\ Primary(c) = "VncAuth" /\ Other(c) = "None"
  BY <1>1, <1>2, WantedType DEF Beside
<1>4. \A s : Goto(c, s) => state'[c] = s
  BY DEF Goto, PasswordInv, PhaseInv, ShapeOK
<1>5. CASE ProtocolVersion(c)
  <2>1. \/ UNCHANGED list /\ Goto(c, "authentication")
        \/ list' = Unregister(list, "None") /\ Goto(c, "register")
    BY <1>3, <1>5 DEF ProtocolVersion
  <2> QED BY <1>2, <1>4, <2>1, UnregisterWithout, NodesAre
<1>6. CASE RegisterType(c)
  <2>1. list' = Register(list, "VncAuth") /\ Goto(c, "listing")
    BY <1>3, <1>6 DEF RegisterType
  <2> QED BY <1>2, <1>4, <2>1, RegisterWithout, NodesAre
<1>7. CASE SendTypeList(c)
  <2>1. UNCHANGED list /\ (Goto(c, "shutdown") \/ Goto(c, "securityType"))
    BY <1>7 DEF SendTypeList
  <2> QED BY <1>2, <1>4, <2>1
<1>8. CASE SecurityType(c)
  <2>1. ~Listed(list, "None")
    BY <1>2, NoneNotListed
  <2>2. UNCHANGED list
    BY <1>8 DEF SecurityType
  <2>3. CASE SecTypeTight(c)
    BY <1>2, <1>3, <1>4, <2>2, <2>3 DEF SecTypeTight
  <2>4. Goto(c, "shutdown") \/ Goto(c, "authentication") \/ SecTypeTight(c)
    BY <1>8, <2>1 DEF SecurityType
  <2> QED BY <1>2, <1>4, <2>2, <2>3, <2>4
<1>9. CASE AuthType(c) \/ ClientGone(c)
  <2>1. UNCHANGED list /\ (Goto(c, "tightResponse") \/ Goto(c, "shutdown"))
    BY <1>9 DEF AuthType, ClientGone
  <2> QED BY <1>2, <1>4, <2>1
<1>10. CASE AuthMessage(c)
  <2>1. UNCHANGED list /\ (Got(c) = "right" \/ Goto(c, "shutdown"))
    BY <1>10 DEF AuthMessage
  <2>2. Got(c) = "right" => ~Stranger(c)
    BY <1>10, UnknowingSays DEF AuthMessage, Stranger, PasswordInv
  <2> QED BY <1>2, <1>4, <2>1, <2>2
<1>11. CASE InitMessage(c)
  <2>1. UNCHANGED list /\ state[c] = "init"
    BY <1>11, AwaitedIn DEF InitMessage, Gets
  <2> QED BY <1>2, <2>1
<1> QED BY <1>5, <1>6, <1>7, <1>8, <1>9, <1>10, <1>11 DEF ServerStep

LEMMA ServerWords ==
  ASSUME PhaseInv, UnknowingWords, NEW c \in Clients, ServerStep(c)
  PROVE  UnknowingWords'
<1> SUFFICES ASSUME NEW d \in Clients, d \notin knows' PROVE toServer'[d] \in Seq(Unknowing)
  BY DEF UnknowingWords
<1>1. toServer[d] \in Seq(Unknowing)
  BY ServerBeside DEF UnknowingWords, Beside
<1>2. toServer'[d] = toServer[d] \/ (toServer[d] # <<>> /\ toServer'[d] = Tail(toServer[d]))
  BY ServerBeside DEF PhaseInv, ShapeOK
<1> QED BY <1>1, <1>2, HeadTailProperties

-----------------------------------------------------------------------------
\* What a client writes is fit for one that does not know the password, if it does not.
LEMMA ClientWrites ==
  ASSUME PhaseInv, NEW c \in Clients, ClientStep(c) \/ Leave(c)
  PROVE  /\ UNCHANGED <<password, knows, kind, list, state>>
         /\ \/ UNCHANGED toServer
            \/ \E q \in Seq(Unknowing \cup {<<"response", "right">>}) :
                 Write(c, q) /\ (c \notin knows => q \in Seq(Unknowing))
<1> DEFINE Fit(q) == q \in Seq(Unknowing) /\ Write(c, q)
<1>1. UNCHANGED <<password, knows, kind, list, state>>
  BY Zenon DEF ClientStep, ReadVersion, ReadType, ReadTypes, ReadTunnelCaps, ReadAuthCaps,
     ReadChallenge, ReadResult, ReadReason, ReadServerInit, ReadCaps, ServerClosed, Leave,
     serverVars, fixedVars
<1>2. \A m \in Versions : <<<<"version", m>>>> \in Seq(Unknowing)
  BY DEF Unknowing
<1>3. \A h \in Handlers : <<<<"choice", h>>>> \in Seq(Unknowing)
  BY DEF Unknowing
<1>4. \A w \in Wishes : <<<<"init", w>>>> \in Seq(Unknowing)
  BY DEF Unknowing
<1>5. \A w \in Wishes : <<<<"choice", "None">>, <<"init", w>>>> \in Seq(Unknowing)
  BY DEF Unknowing, Handlers
<1>6. <<<<"authType", "VncAuth">>>> \in Seq(Unknowing)
  BY DEF Unknowing
<1>7. \A q \in Seq(Unknowing) : q \in Seq(Unknowing \cup {<<"response", "right">>})
  OBVIOUS
<1>8. ASSUME NEW q \in Seq(Unknowing), Write(c, q)
      PROVE  \E r \in Seq(Unknowing \cup {<<"response", "right">>}) :
               Write(c, r) /\ (c \notin knows => r \in Seq(Unknowing))
  BY <1>7, <1>8
<1>9. \A shared : WriteInit(c, shared) => \E q \in Seq(Unknowing) : Write(c, q)
  BY <1>4, WishWritten
<1>10. CASE ReadVersion(c)
  <2>1. PICK m \in Versions : Write(c, <<<<"version", m>>>>)
    BY <1>10, HandshakeAssumption DEF ReadVersion, Versions
  <2> QED BY <1>1, <1>2, <1>8, <2>1
<1>11. CASE ReadType(c) \/ ReadResult(c)
  <2>1. UNCHANGED toServer \/ \E shared : WriteInit(c, shared)
    BY <1>11, Zenon DEF ReadType, ReadResult
  <2> QED BY <1>1, <1>8, <1>9, <2>1
<1>12. CASE ReadTypes(c)
  <2>1. \/ UNCHANGED toServer
        \/ AfterNone(c)
        \/ \E h \in {"VncAuth", "Tight"} : Write(c, <<<<"choice", h>>>>)
    BY <1>12, Zenon DEF ReadTypes
  <2>2. CASE AfterNone(c)
    <3>1. \/ Write(c, <<<<"choice", "None">>>>)
          \/ \E w \in Wishes : Write(c, <<<<"choice", "None">>, <<"init", w>>>>)
      BY <2>2 DEF AfterNone, Wishes
    <3>2. \E q \in Seq(Unknowing) : Write(c, q)
      BY <1>3, <1>5, <3>1 DEF Handlers
    <3> QED BY <1>1, <1>8, <3>2
  <2>3. ASSUME NEW h \in {"VncAuth", "Tight"}, Write(c, <<<<"choice", h>>>>)
        PROVE  \E q \in Seq(Unknowing) : Write(c, q)
    BY <1>3, <2>3 DEF Handlers
  <2> QED BY <1>1, <1>8, <2>1, <2>2, <2>3
<1>13. CASE ReadAuthCaps(c)
  <2>1. UNCHANGED toServer \/ Write(c, <<<<"authType", "VncAuth">>>>)
    BY <1>13, Zenon DEF ReadAuthCaps
  <2> QED BY <1>1, <1>6, <1>8, <2>1
<1>14. CASE ReadChallenge(c)
  <2> DEFINE answer == <<"response", IF c \in knows THEN "right" ELSE "wrong">>
  <2>1. Write(c, <<answer>>)
    BY <1>14 DEF ReadChallenge
  <2>2. answer \in Unknowing \cup {<<"response", "right">>} /\ (c \notin knows => answer \in Unknowing)
    BY DEF Unknowing
  <2> HIDE DEF answer
  <2>3. /\ <<answer>> \in Seq(Unknowing \cup {<<"response", "right">>})
        /\ c \notin knows => <<answer>> \in Seq(Unknowing)
    BY <2>2
  <2> QED BY <1>1, <2>1, <2>3
<1>15. CASE \/ ReadTunnelCaps(c) \/ ReadReason(c) \/ ReadServerInit(c) \/ ReadCaps(c)
            \/ ServerClosed(c) \/ Leave(c)
  <2>1. UNCHANGED toServer
    BY <1>15, Zenon DEF ReadTunnelCaps, ReadReason, ReadServerInit, ReadCaps, ServerClosed, Leave
  <2> QED BY <1>1, <2>1
<1> QED BY <1>10, <1>11, <1>12, <1>13, <1>14, <1>15 DEF ClientStep

LEMMA ClientPassword ==
  ASSUME PasswordInv, NEW c \in Clients, ClientStep(c) \/ Leave(c)
  PROVE  UnknowingWords' /\ Guarded'
<1>1. /\ UNCHANGED <<password, knows, kind, list, state>>
      /\ \/ UNCHANGED toServer
         \/ \E q \in Seq(Unknowing \cup {<<"response", "right">>}) :
              Write(c, q) /\ (c \notin knows => q \in Seq(Unknowing))
  BY ClientWrites DEF PasswordInv
<1>2. ASSUME NEW d \in Clients, d \notin knows PROVE toServer'[d] \in Seq(Unknowing)
  <2>1. toServer[d] \in Seq(Unknowing)
    BY <1>2 DEF PasswordInv, UnknowingWords
  <2>2. CASE UNCHANGED toServer
    BY <2>1, <2>2
  <2>3. ASSUME NEW q, Write(c, q), c \notin knows => q \in Seq(Unknowing)
        PROVE  toServer'[d] \in Seq(Unknowing)
    <3>1. toServer'[d] = IF d = c THEN toServer[d] \o q ELSE toServer[d]
      BY <2>3 DEF Write, PasswordInv, PhaseInv, ShapeOK
    <3> QED BY <1>2, <2>1, <2>3, <3>1, ConcatProperties
  <2> QED BY <1>1, <2>2, <2>3
<1>3. Guarded'
  BY <1>1 DEF PasswordInv, Guarded, CalledOut, Stranger, PasswordNeeded, WithoutNone
<1> QED BY <1>1, <1>2, <1>3 DEF UnknowingWords

LEMMA ConnectPassword ==
  ASSUME PasswordInv, NEW c \in Clients, NEW as, Connect(c, as)
  PROVE  UnknowingWords' /\ Guarded'
<1>1. /\ state[c] = "absent" /\ kind' = [kind EXCEPT ![c] = as]
      /\ state' = [state EXCEPT ![c] = "version"]
      /\ UNCHANGED <<password, knows, list, toServer>>
  BY DEF Connect, Goto
<1>2. \A d \in Clients : /\ state'[d] = IF d = c THEN "version" ELSE state[d]
                         /\ d # c => kind'[d] = kind[d]
  BY <1>1 DEF PasswordInv, PhaseInv, ShapeOK
<1>3. CalledOut => CalledOut'
  BY <1>1, <1>2 DEF CalledOut
<1>4. \A d \in Clients : Stranger(d)' /\ d # c => Stranger(d)
  BY <1>1, <1>2 DEF Stranger, PasswordNeeded
<1>5. Guarded'
  BY <1>1, <1>2, <1>3, <1>4 DEF PasswordInv, Guarded, WithoutNone
<1> QED BY <1>1, <1>5 DEF PasswordInv, UnknowingWords

LEMMA PasswordInvInit == HandshakeInit => PasswordInv
<1> SUFFICES ASSUME HandshakeInit PROVE PasswordInv
  OBVIOUS
<1> DEFINE l == [first |-> NULL, after |-> [h \in Handlers \cup {NULL} |-> NULL]]
<1>1. WithoutNone(l)
  BY NodesAre DEF WithoutNone, ListType, Nodes
<1>2. list = Register(l, "Tight")
  BY DEF HandshakeInit
<1> HIDE DEF l
<1>3. WithoutNone(list)
  BY <1>1, <1>2, RegisterWithout, NodesAre
<1>4. Guarded
  BY <1>3 DEF HandshakeInit, Guarded
<1>5. UnknowingWords
  <2>1. <<>> \in Seq(Unknowing)
    OBVIOUS
  <2> QED BY <2>1 DEF HandshakeInit, UnknowingWords
<1> QED BY <1>4, <1>5, PhaseInvInit DEF PasswordInv

LEMMA PasswordInvNext == PasswordInv /\ [HandshakeNext]_handshakeVars => PasswordInv'
<1> SUFFICES ASSUME PasswordInv, [HandshakeNext]_handshakeVars
             PROVE  UnknowingWords' /\ Guarded'
  BY PhaseInvNext DEF PasswordInv
<1>1. ASSUME NEW c \in Clients, NEW as, Connect(c, as) PROVE UnknowingWords' /\ Guarded'
  BY <1>1, ConnectPassword
<1>2. ASSUME NEW c \in Clients, ServerStep(c) PROVE UnknowingWords' /\ Guarded'
  BY <1>2, ServerGuarded, ServerWords DEF PasswordInv
<1>3. ASSUME NEW c \in Clients, ClientStep(c) \/ Leave(c) PROVE UnknowingWords' /\ Guarded'
  BY <1>3, ClientPassword
<1>4. CASE UNCHANGED handshakeVars
  BY <1>4 DEF handshakeVars, fixedVars, PasswordInv, UnknowingWords, Guarded, CalledOut,
     Stranger, PasswordNeeded, WithoutNone
<1> QED BY <1>1, <1>2, <1>3, <1>4 DEF HandshakeNext

\* Until the server has made a connection itself that has got past its version, a client
\* gets to ClientInit and beyond without VNC authentication only where there is no password:
\* no version, no type, whether it was offered or not, and no interleaving of the threads
\* that change the list of security handlers leads around rfbAuthProcessClientMessage.
THEOREM NobodyUnasked == HandshakeSpec => []PasswordAsked
<1>1. PasswordInv => PasswordAsked
  BY DEF PasswordInv, Guarded, PasswordAsked, Stranger, PasswordNeeded
<1> QED BY <1>1, PasswordInvInit, PasswordInvNext, PTL DEF HandshakeSpec
=============================================================================
