---------------------------- MODULE OneUser_proofs ----------------------------
(***************************************************************************)
(* Proofs about MainService for one user, who may edit the access key and  *)
(* leave a dialog without an answer, and for an Android that may rotate    *)
(* the device, keep the port busy, stop the service and end the            *)
(* projection: the button and the server agree, and a server started       *)
(* view-only takes no input.                                               *)
(*                                                                         *)
(* Both rest on there being one start on its way at a time: the button is  *)
(* disabled until the start is answered.  What may be on its way to the    *)
(* activity, and in which state of the button, is Button.                  *)
(***************************************************************************)
EXTENDS MainService_proofs

USE DEF Actions, DialogKinds

OneUserEvents == {"busyPort", "rotate", "osStop", "revoke", "abandon", "rekey"}

-----------------------------------------------------------------------------
(* What is in the queue of the service *)

Results == {"INPUT_RESULT", "STORAGE_RESULT", "PROJECTION_RESULT"}
IsCommand(m, actions) == m.kind = "command" /\ m.intent.action \in actions
IsStop(m) == IsCommand(m, {"STOP"})
IsStart(m) == IsCommand(m, {"START"})
IsResult(m) == IsCommand(m, Results)
\* A start is on its way: it has been asked for, or a dialog was answered.
IsToken(m) == IsStart(m) \/ IsResult(m)

\* The commands are ours; one start and one stop, which was asked for before it.
QueueOK(q) ==
  /\ \A n \in DOMAIN q : q[n].kind = "command" =>
       IsToken(q[n]) \/ IsStop(q[n])
  /\ \A m, n \in DOMAIN q : IsToken(q[m]) /\ IsToken(q[n]) => m = n
  /\ \A m, n \in DOMAIN q : IsStop(q[m]) /\ IsStop(q[n]) => m = n
  /\ \A m, n \in DOMAIN q : IsStop(q[m]) /\ IsToken(q[n]) => IsStart(q[n]) /\ m < n
HasToken(q) == \E n \in DOMAIN q : IsToken(q[n])
HasStop(q) == \E n \in DOMAIN q : IsStop(q[n])

\* The service is destroyed before a start goes on in it.
DestroyedBefore(q, n) == \E m \in 1..(n - 1) : q[m].kind = "destroy"
TokensBehind(q) == \A n \in DOMAIN q : IsToken(q[n]) => DestroyedBefore(q, n)
ResultsBehind(q) == \A n \in DOMAIN q : IsResult(q[n]) => DestroyedBefore(q, n)

-----------------------------------------------------------------------------
(* One start at a time *)

HasDialog == \E k \in DialogKinds : dialogs[k] > 0
Busy == HasDialog \/ HasToken(serviceQ)

InQueue ==
  /\ QueueOK(serviceQ)
  /\ active => TokensBehind(serviceQ)
  /\ stoppingByUs => Pending(serviceQ) /\ ResultsBehind(serviceQ)
InDialogs ==
  /\ \A j, k \in DialogKinds : dialogs[j] > 0 /\ dialogs[k] > 0 => j = k
  /\ \A k \in DialogKinds : dialogs[k] <= 1
  /\ HasDialog => ~HasToken(serviceQ) /\ ~HasStop(serviceQ) /\ ~active

Started == Answer("START", TRUE)
NotStarted == Answer("START", FALSE)
Stopped == Answer("STOP", TRUE)
NotStopped == Answer("STOP", FALSE)

\* A server that is there is being stopped, and nobody asks for it a second time.
Ending == active => stoppingByUs /\ ~HasStop(serviceQ)

\* The button says Start: nothing was asked for, or a start is on its way.
SaysStart ==
  /\ ~ui.running /\ (ui.enabled => ~Busy) /\ Ending
  /\ broadcasts = <<>> \/ (broadcasts = <<NotStopped>> /\ ~HasStop(serviceQ))
\* It says Start, and the start has been answered.
StartAnswered ==
  /\ ~ui.running /\ ~ui.enabled /\ ~Busy /\ ~HasStop(serviceQ)
  /\ \/ broadcasts \in {<<Started>>, <<NotStopped, Started>>} /\ active /\ ~stoppingByUs
     \/ /\ broadcasts \in {<<NotStarted>>, <<NotStopped, NotStarted>>,
                           <<Started, Stopped>>, <<NotStopped, Started, Stopped>>}
        /\ ~active
SaysStop ==
  /\ ui.running /\ ~Busy
  /\ \/ broadcasts = <<>> /\ active /\ ~stoppingByUs /\ (ui.enabled => ~HasStop(serviceQ))
     \/ broadcasts = <<Stopped>> /\ Ending /\ (ui.enabled => ~active /\ ~HasStop(serviceQ))
     \/ broadcasts = <<Stopped, NotStopped>> /\ ~ui.enabled /\ Ending /\ ~HasStop(serviceQ)
Button == ui.shown /\ (SaysStart \/ StartAnswered \/ SaysStop)

\* What the user was asked, and has answered, is about the START that was persisted last.
NoInput == prefs.viewOnly => ~inputEnabled
AnswerOK(m) ==
  IsResult(m) => IF m.intent.action = "INPUT_RESULT" THEN m.intent.flag => ~prefs.viewOnly
                 ELSE NoInput
ViewOnly ==
  /\ active => NoInput
  /\ dialogs["input"] > 0 => ~prefs.viewOnly
  /\ dialogs["storage"] > 0 \/ dialogs["projection"] > 0 => NoInput
  /\ \A n \in DOMAIN serviceQ : AnswerOK(serviceQ[n])

OneUserInv == TypeOK /\ InQueue /\ InDialogs /\ Button /\ ViewOnly

-----------------------------------------------------------------------------
(* Changes of the queue *)

LEMMA TailIs ==
  ASSUME NEW q \in Seq(Messages), q # <<>>
  PROVE  /\ Tail(q) \in Seq(Messages) /\ DOMAIN Tail(q) = 1..(Len(q) - 1)
         /\ DOMAIN q = 1..Len(q) /\ Len(q) \in Nat \ {0} /\ Head(q) = q[1]
         /\ \A n \in 1..(Len(q) - 1) : Tail(q)[n] = q[n + 1]
OBVIOUS

\* The first message is carried out.
LEMMA QueueTail ==
  ASSUME NEW q \in Seq(Messages), q # <<>>, QueueOK(q)
  PROVE  /\ QueueOK(Tail(q))
         /\ HasToken(Tail(q)) => HasToken(q) /\ ~IsToken(Head(q))
         /\ HasStop(Tail(q)) => HasStop(q) /\ ~IsStop(Head(q))
         /\ IsToken(Head(q)) => HasToken(q) /\ ~HasStop(q)
         /\ IsStop(Head(q)) => HasStop(q)
<1> DEFINE r == Tail(q)
<1>1. /\ DOMAIN r = 1..(Len(q) - 1) /\ DOMAIN q = 1..Len(q) /\ Len(q) \in Nat \ {0}
      /\ Head(q) = q[1] /\ \A n \in 1..(Len(q) - 1) : r[n] = q[n + 1]
  BY TailIs
<1> HIDE DEF r
<1>2. \A n \in DOMAIN r : n + 1 \in DOMAIN q /\ n + 1 # 1 /\ r[n] = q[n + 1] /\ n \in Nat
  BY <1>1
<1>3. 1 \in DOMAIN q /\ \A n \in DOMAIN q : ~(n < 1)
  BY <1>1
<1>4. QueueOK(r)
  <2> USE DEF QueueOK
  <2>1. \A n \in DOMAIN r : r[n].kind = "command" => IsToken(r[n]) \/ IsStop(r[n])
    BY <1>2
  <2>2. ASSUME NEW m \in DOMAIN r, NEW n \in DOMAIN r, IsToken(r[m]), IsToken(r[n]) PROVE m = n
    <3>1. m + 1 = n + 1
      BY <1>2, <2>2
    <3> QED BY <1>2, <3>1
  <2>3. ASSUME NEW m \in DOMAIN r, NEW n \in DOMAIN r, IsStop(r[m]), IsStop(r[n]) PROVE m = n
    <3>1. m + 1 = n + 1
      BY <1>2, <2>3
    <3> QED BY <1>2, <3>1
  <2>4. ASSUME NEW m \in DOMAIN r, NEW n \in DOMAIN r, IsStop(r[m]), IsToken(r[n])
        PROVE  IsStart(r[n]) /\ m < n
    <3>1. IsStart(q[n + 1]) /\ m + 1 < n + 1
      BY <1>2, <2>4
    <3> QED BY <1>2, <3>1
  <2> QED BY <2>1, <2>2, <2>3, <2>4
<1>5. HasToken(r) => HasToken(q) /\ ~IsToken(Head(q))
  BY <1>1, <1>2, <1>3 DEF HasToken, QueueOK
<1>6. HasStop(r) => HasStop(q) /\ ~IsStop(Head(q))
  BY <1>1, <1>2, <1>3 DEF HasStop, QueueOK
<1>7. IsToken(Head(q)) => HasToken(q) /\ ~HasStop(q)
  BY <1>1, <1>3 DEF HasToken, HasStop, QueueOK
<1>8. IsStop(Head(q)) => HasStop(q)
  BY <1>1, <1>3 DEF HasStop
<1> QED BY <1>4, <1>5, <1>6, <1>7, <1>8 DEF r

\* What is behind a destruction is not carried out now, and still is afterwards.
LEMMA BehindTail ==
  ASSUME NEW q \in Seq(Messages), q # <<>>
  PROVE  /\ TokensBehind(q) => ~IsToken(Head(q))
         /\ ResultsBehind(q) => ~IsResult(Head(q))
         /\ Head(q).kind # "destroy" =>
              /\ TokensBehind(q) => TokensBehind(Tail(q))
              /\ ResultsBehind(q) => ResultsBehind(Tail(q))
              /\ Pending(q) => Pending(Tail(q))
<1> DEFINE r == Tail(q)
<1>1. /\ DOMAIN r = 1..(Len(q) - 1) /\ DOMAIN q = 1..Len(q) /\ Len(q) \in Nat \ {0}
      /\ Head(q) = q[1] /\ \A n \in 1..(Len(q) - 1) : r[n] = q[n + 1]
  BY TailIs
<1> HIDE DEF r
<1>2. ~DestroyedBefore(q, 1) /\ 1 \in DOMAIN q
  BY <1>1 DEF DestroyedBefore
<1>3. ASSUME Head(q).kind # "destroy", NEW n \in DOMAIN r, DestroyedBefore(q, n + 1)
      PROVE  DestroyedBefore(r, n)
  <2>1. PICK m \in 1..n : q[m].kind = "destroy"
    BY <1>1, <1>3 DEF DestroyedBefore
  <2>2. m # 1 /\ m - 1 \in 1..(n - 1) /\ r[m - 1] = q[m]
    BY <1>1, <1>3, <2>1
  <2> QED BY <2>1, <2>2 DEF DestroyedBefore
<1>4. \A n \in DOMAIN r : n + 1 \in DOMAIN q /\ r[n] = q[n + 1]
  BY <1>1
<1>5. Head(q).kind # "destroy" /\ Pending(q) => Pending(r)
  <2> SUFFICES ASSUME Head(q).kind # "destroy", NEW n \in DOMAIN q, q[n].kind = "destroy"
               PROVE  Pending(r)
    BY DEF Pending
  <2>1. n # 1 /\ n - 1 \in DOMAIN r /\ r[n - 1] = q[n]
    BY <1>1
  <2> QED BY <2>1 DEF Pending
<1> QED BY <1>1, <1>2, <1>3, <1>4, <1>5 DEF r, TokensBehind, ResultsBehind

\* The service is to be destroyed, after all that is in the queue.
LEMMA QueueDestroy ==
  ASSUME NEW q \in Seq(Messages)
  PROVE  LET r == Append(q, Destroy) IN
         /\ QueueOK(q) => QueueOK(r)
         /\ HasToken(r) <=> HasToken(q)
         /\ HasStop(r) <=> HasStop(q)
         /\ TokensBehind(q) => TokensBehind(r)
         /\ ResultsBehind(q) => ResultsBehind(r)
         /\ Pending(r)
<1> DEFINE r == Append(q, Destroy)
<1>1. /\ DOMAIN q = 1..Len(q) /\ DOMAIN r = 1..(Len(q) + 1) /\ Len(q) \in Nat
      /\ r[Len(q) + 1] = Destroy /\ \A n \in 1..Len(q) : r[n] = q[n]
  OBVIOUS
<1> HIDE DEF r
<1>2. Destroy.kind = "destroy" /\ ~IsToken(Destroy) /\ ~IsStop(Destroy) /\ ~IsResult(Destroy)
  BY DEF Destroy, IsToken, IsStop, IsStart, IsResult, IsCommand
<1>3. \A n \in DOMAIN r : (n \in DOMAIN q /\ r[n] = q[n]) \/ r[n] = Destroy
  BY <1>1
<1>4. \A n \in DOMAIN q : n \in DOMAIN r /\ r[n] = q[n]
  BY <1>1
<1>5. QueueOK(q) => QueueOK(r)
  BY <1>2, <1>3, Zenon DEF QueueOK
<1>6. (HasToken(r) <=> HasToken(q)) /\ (HasStop(r) <=> HasStop(q))
  BY <1>2, <1>3, <1>4 DEF HasToken, HasStop
<1>7. \A n \in DOMAIN q : DestroyedBefore(q, n) => DestroyedBefore(r, n)
  BY <1>1 DEF DestroyedBefore
<1>8. Pending(r)
  BY <1>1, <1>2 DEF Pending
<1> QED
  BY <1>2, <1>3, <1>5, <1>6, <1>7, <1>8 DEF r, TokensBehind, ResultsBehind

\* The queue r after q with a command, which comes after a creation or not.
Commanded(q, r, i) == r = q \o <<Command(i)>> \/ r = q \o <<Create, Command(i)>>

LEMMA CommandedIs ==
  ASSUME NEW q \in Seq(Messages), NEW i \in Intents, NEW r, Commanded(q, r, i)
  PROVE  /\ r \in Seq(Messages) /\ Len(r) \in DOMAIN r /\ Len(r) > Len(q) /\ Len(q) \in Nat
         /\ Len(r) \in Nat /\ DOMAIN q = 1..Len(q) /\ DOMAIN q \subseteq DOMAIN r
         /\ r[Len(r)] = Command(i)
         /\ \A n \in DOMAIN q : r[n] = q[n]
         /\ \A n \in DOMAIN r : n \in DOMAIN q \/ n = Len(r) \/ r[n] = Create
<1>1. Command(i) \in Messages /\ Create \in Messages
  BY IntentTypes
<1>2. CASE r = q \o <<Command(i)>>
  BY <1>1, <1>2
<1>3. CASE r = q \o <<Create, Command(i)>>
  <2>1. Len(r) = Len(q) + 2 /\ r \in Seq(Messages) /\ DOMAIN r = 1..(Len(q) + 2)
    BY <1>1, <1>3
  <2>2. r[Len(q) + 1] = Create /\ r[Len(q) + 2] = Command(i)
    BY <1>1, <1>3
  <2> QED BY <1>1, <1>3, <2>1, <2>2
<1> QED BY <1>2, <1>3 DEF Commanded

LEMMA QueueCommand ==
  ASSUME NEW q \in Seq(Messages), QueueOK(q), NEW i \in Intents, NEW r, Commanded(q, r, i),
         ~HasToken(q),
         IsToken(Command(i)) \/ (IsStop(Command(i)) /\ ~HasStop(q)),
         IsResult(Command(i)) => ~HasStop(q)
  PROVE  /\ QueueOK(r)
         /\ HasToken(r) <=> IsToken(Command(i))
         /\ HasStop(r) <=> HasStop(q) \/ IsStop(Command(i))
         /\ Pending(q) => TokensBehind(r) /\ ResultsBehind(r) /\ Pending(r)
         /\ ~IsToken(Command(i)) => TokensBehind(r)
         /\ ~IsResult(Command(i)) => ResultsBehind(r)
<1> DEFINE l == Len(r)
           x == Command(i)
<1>1. /\ l \in DOMAIN r /\ DOMAIN q \subseteq DOMAIN r /\ r[l] = x
      /\ \A n \in DOMAIN q : r[n] = q[n] /\ n \in Nat /\ n < l
      /\ \A n \in DOMAIN r : n \in DOMAIN q \/ n = l \/ r[n] = Create
  BY CommandedIs
<1>2. /\ ~IsToken(Create) /\ ~IsStop(Create) /\ ~IsResult(Create) /\ Create.kind # "command"
      /\ ~(IsToken(x) /\ IsStop(x))
      /\ \A m : IsResult(m) => IsToken(m)
      /\ \A m : IsToken(m) => IsStart(m) \/ IsResult(m)
  BY DEF Create, IsToken, IsStop, IsStart, IsResult, IsCommand, Results
<1>3. Pending(q) => Pending(r) /\ DestroyedBefore(r, l)
  <2> SUFFICES ASSUME NEW m \in DOMAIN q, q[m].kind = "destroy"
               PROVE  Pending(r) /\ DestroyedBefore(r, l)
    BY DEF Pending
  <2>1. m \in 1..(l - 1) /\ r[m].kind = "destroy" /\ m \in DOMAIN r
    BY <1>1, CommandedIs
  <2> QED BY <2>1 DEF Pending, DestroyedBefore
<1> HIDE DEF l, x
<1>4. \A n \in DOMAIN q : ~IsToken(q[n])
  BY DEF HasToken
<1>5. \A n \in DOMAIN r : IsToken(r[n]) => n = l /\ IsToken(x)
  BY <1>1, <1>2, <1>4
<1>6. \A n \in DOMAIN r : IsResult(r[n]) => n = l /\ IsResult(x)
  BY <1>1, <1>2, <1>4
<1>7. \A n \in DOMAIN r : IsStop(r[n]) => \/ n \in DOMAIN q /\ IsStop(q[n]) /\ HasStop(q)
                                          \/ n = l /\ IsStop(x)
  BY <1>1, <1>2 DEF HasStop
<1>8. QueueOK(r)
  <2>1. \A n \in DOMAIN r : r[n].kind = "command" => IsToken(r[n]) \/ IsStop(r[n])
    BY <1>1, <1>2 DEF QueueOK, x
  <2>2. \A m, n \in DOMAIN r : IsToken(r[m]) /\ IsToken(r[n]) => m = n
    BY <1>5
  <2>3. ASSUME NEW m \in DOMAIN r, NEW n \in DOMAIN r, IsStop(r[m]), IsStop(r[n]) PROVE m = n
    BY <1>2, <1>7, <2>3 DEF QueueOK, x
  <2>4. ASSUME NEW m \in DOMAIN r, NEW n \in DOMAIN r, IsStop(r[m]), IsToken(r[n])
        PROVE  IsStart(r[n]) /\ m < n
    <3>1. n = l /\ IsToken(x) /\ m \in DOMAIN q /\ HasStop(q)
      BY <1>2, <1>5, <1>7, <2>4
    <3>2. IsStart(x)
      BY <1>2, <3>1 DEF x
    <3> QED BY <1>1, <3>1, <3>2
  <2> QED BY <2>1, <2>2, <2>3, <2>4 DEF QueueOK
<1>9. HasToken(r) <=> IsToken(x)
  BY <1>1, <1>5 DEF HasToken
<1>10. HasStop(r) <=> HasStop(q) \/ IsStop(x)
  BY <1>1, <1>7 DEF HasStop
<1>11. /\ ~IsToken(x) \/ DestroyedBefore(r, l) => TokensBehind(r)
       /\ ~IsResult(x) \/ DestroyedBefore(r, l) => ResultsBehind(r)
  BY <1>5, <1>6 DEF TokensBehind, ResultsBehind
<1> QED BY <1>3, <1>8, <1>9, <1>10, <1>11 DEF x

LEMMA NothingBehind ==
  ASSUME NEW q, ~HasToken(q)
  PROVE  TokensBehind(q) /\ ResultsBehind(q) /\ \A n \in DOMAIN q : AnswerOK(q[n]) /\ AnswerOK(q[n])'
BY DEF HasToken, TokensBehind, ResultsBehind, AnswerOK, IsToken

\* The answers in the queue, of which one may have been taken and another added.
LEMMA AnswersTail ==
  ASSUME NEW q \in Seq(Messages), q # <<>>, \A n \in DOMAIN q : AnswerOK(q[n])
  PROVE  AnswerOK(Head(q)) /\ \A n \in DOMAIN Tail(q) : AnswerOK(Tail(q)[n])
<1>1. 1 \in DOMAIN q /\ \A n \in DOMAIN Tail(q) : n + 1 \in DOMAIN q /\ Tail(q)[n] = q[n + 1]
  BY TailIs
<1>2. Head(q) = q[1]
  BY TailIs
<1> QED BY <1>1, <1>2

LEMMA AnswersDestroy ==
  ASSUME NEW q \in Seq(Messages), \A n \in DOMAIN q : AnswerOK(q[n])
  PROVE  \A n \in DOMAIN Append(q, Destroy) : AnswerOK(Append(q, Destroy)[n])
<1>1. \A n \in DOMAIN Append(q, Destroy) :
        (n \in DOMAIN q /\ Append(q, Destroy)[n] = q[n]) \/ Append(q, Destroy)[n] = Destroy
  OBVIOUS
<1>2. AnswerOK(Destroy)
  BY DEF AnswerOK, Destroy, IsResult, IsCommand
<1> QED BY <1>1, <1>2

LEMMA AnswersCommand ==
  ASSUME NEW q \in Seq(Messages), NEW i \in Intents, NEW r, Commanded(q, r, i),
         \A n \in DOMAIN q : AnswerOK(q[n]), AnswerOK(Command(i))
  PROVE  \A n \in DOMAIN r : AnswerOK(r[n])
<1>1. AnswerOK(Create)
  BY DEF AnswerOK, Create, IsResult, IsCommand
<1> QED BY <1>1, CommandedIs

\* The first message, when it is a command.
LEMMA HeadIs ==
  ASSUME TypeOK, InQueue, NEW a, Received(a)
  PROVE  /\ serviceQ \in Seq(Messages) /\ serviceQ # <<>> /\ QueueOK(serviceQ)
         /\ Head(serviceQ).kind = "command" /\ intent = Head(serviceQ).intent /\ intent.action = a
         /\ IsToken(Head(serviceQ)) \/ IsStop(Head(serviceQ))
<1>1. serviceQ \in Seq(Messages) /\ serviceQ # <<>> /\ QueueOK(serviceQ)
  BY DEF TypeOK, InQueue, Received
<1>2. 1 \in DOMAIN serviceQ /\ Head(serviceQ) = serviceQ[1]
  BY <1>1, TailIs
<1> QED BY <1>1, <1>2 DEF Received, intent, QueueOK

\* A command that is carried out, and the service stopped then.
LEMMA StopSelfQueue ==
  ASSUME TypeOK, serviceQ # <<>>, Head(serviceQ).kind = "command", QueueOK(serviceQ),
         StopSelfByUs, \A n \in DOMAIN serviceQ : AnswerOK(serviceQ[n])
  PROVE  /\ stoppingByUs' /\ Pending(serviceQ') /\ QueueOK(serviceQ')
         /\ HasToken(serviceQ') <=> HasToken(Tail(serviceQ))
         /\ HasStop(serviceQ') <=> HasStop(Tail(serviceQ))
         /\ TokensBehind(Tail(serviceQ)) => TokensBehind(serviceQ')
         /\ ResultsBehind(Tail(serviceQ)) => ResultsBehind(serviceQ')
         /\ \A n \in DOMAIN serviceQ' : AnswerOK(serviceQ'[n])
<1>1. serviceQ \in Seq(Messages) /\ Tail(serviceQ) \in Seq(Messages)
  BY TailIs DEF TypeOK
<1>2. QueueOK(Tail(serviceQ)) /\ \A n \in DOMAIN Tail(serviceQ) : AnswerOK(Tail(serviceQ)[n])
  BY <1>1, QueueTail, AnswersTail
<1>3. CASE Pending(serviceQ)
  <2>1. serviceQ' = Tail(serviceQ) /\ stoppingByUs'
    BY <1>3, ShapeIsQueueShape DEF StopSelfByUs, Consume
  <2>2. Pending(Tail(serviceQ))
    BY <1>1, <1>3, BehindTail
  <2> QED BY <1>2, <2>1, <2>2
<1>4. CASE ~Pending(serviceQ)
  <2>1. serviceQ' = Append(Tail(serviceQ), Destroy) /\ stoppingByUs'
    BY <1>4, ShapeIsQueueShape DEF StopSelfByUs
  <2> QED BY <1>1, <1>2, <2>1, QueueDestroy, AnswersDestroy
<1> QED BY <1>3, <1>4

\* When a start or a stop is carried out, no answer of the user is behind it.
LEMMA RestIsStart ==
  ASSUME NEW q \in Seq(Messages), q # <<>>, QueueOK(q), Head(q).kind = "command"
  PROVE  ResultsBehind(Tail(q))
<1>1. 1 \in DOMAIN q /\ Head(q) = q[1]
  BY TailIs
<1>2. IsToken(q[1]) \/ IsStop(q[1])
  BY <1>1 DEF QueueOK
<1>3. \A n \in DOMAIN Tail(q) : n + 1 \in DOMAIN q /\ n + 1 # 1 /\ Tail(q)[n] = q[n + 1]
  BY TailIs
<1>4. \A m : IsResult(m) => IsToken(m) /\ ~IsStart(m)
  BY DEF IsToken, IsResult, IsStart, IsCommand, Results
<1>5. \A n \in DOMAIN Tail(q) : ~IsResult(Tail(q)[n])
  BY <1>1, <1>2, <1>3, <1>4 DEF QueueOK
<1> QED BY <1>5 DEF ResultsBehind

LEMMA StartServiceQueue ==
  ASSUME NEW i, StartService(i)
  PROVE  Commanded(serviceQ, serviceQ', i)
BY DEF StartService, Commanded

-----------------------------------------------------------------------------
(* What stays as it is *)

LEMMA ButtonKept ==
  ASSUME Button, UNCHANGED <<ui, broadcasts>>, active' <=> active,
         UNCHANGED stoppingByUs \/ (~active /\ stoppingByUs'),
         Busy' => Busy, HasStop(serviceQ') => HasStop(serviceQ)
  PROVE  Button'
BY DEF Button, SaysStart, StartAnswered, SaysStop, Ending

LEMMA QuietKept ==
  ASSUME OneUserInv, UNCHANGED <<serviceQ, dialogs, ui, broadcasts, theScreen, stoppingByUs,
                                 prefs, inputEnabled>>
  PROVE  InQueue' /\ InDialogs' /\ Button' /\ ViewOnly'
<1> USE DEF OneUserInv
<1>1. active' <=> active
  BY DEF active
<1>2. InQueue'
  BY <1>1 DEF InQueue
<1>3. InDialogs' /\ (Busy' <=> Busy)
  BY <1>1 DEF InDialogs, HasDialog, Busy
<1>4. ViewOnly'
  BY <1>1 DEF ViewOnly, NoInput, AnswerOK
<1> QED BY <1>1, <1>2, <1>3, <1>4, ButtonKept

LEMMA ViewKept ==
  ASSUME ViewOnly, UNCHANGED <<prefs, inputEnabled>>, active' => NoInput,
         \A k \in DialogKinds : dialogs'[k] > 0 => dialogs[k] > 0,
         \A n \in DOMAIN serviceQ' : AnswerOK(serviceQ'[n])
  PROVE  ViewOnly'
<1>1. \A n \in DOMAIN serviceQ' : (AnswerOK(serviceQ[n]))'
  <2> SUFFICES ASSUME NEW n \in DOMAIN serviceQ', IsResult(serviceQ'[n])
               PROVE  IF serviceQ'[n].intent.action = "INPUT_RESULT"
                      THEN serviceQ'[n].intent.flag => ~prefs'.viewOnly ELSE NoInput'
    BY DEF AnswerOK
  <2>1. NoInput' <=> NoInput
    BY DEF NoInput
  <2> QED BY <2>1 DEF AnswerOK
<1>2. NoInput' <=> NoInput
  BY DEF NoInput
<1>3. /\ dialogs'["input"] > 0 => ~prefs'.viewOnly
      /\ dialogs'["storage"] > 0 \/ dialogs'["projection"] > 0 => NoInput'
  BY <1>2 DEF ViewOnly
<1>4. active' => NoInput'
  BY <1>2
<1> QED BY <1>1, <1>3, <1>4, Zenon DEF ViewOnly

\* No dialog: the one launched is the only one.
LEMMA OnlyDialog ==
  ASSUME TypeOK, ~HasDialog, NEW k \in DialogKinds, LaunchDialog(k)
  PROVE  HasDialog' /\ \A j \in DialogKinds : dialogs'[j] = IF j = k THEN 1 ELSE 0
<1>1. dialogs \in [DialogKinds -> Nat]
  BY DEF TypeOK
<1>2. \A j \in DialogKinds : dialogs[j] = 0
  BY <1>1 DEF HasDialog
<1>3. \A j \in DialogKinds : dialogs'[j] = IF j = k THEN 1 ELSE 0
  <2> HIDE DEF DialogKinds
  <2> QED BY <1>1, <1>2 DEF LaunchDialog
<1> QED BY <1>3 DEF HasDialog

\* One dialog: there is none when it is left.
LEMMA LastDialog ==
  ASSUME TypeOK, InDialogs, NEW k \in DialogKinds, dialogs[k] > 0,
         dialogs' = [dialogs EXCEPT ![k] = @ - 1]
  PROVE  HasDialog /\ ~HasDialog' /\ \A j \in DialogKinds : dialogs'[j] = 0
<1>1. dialogs \in [DialogKinds -> Nat]
  BY DEF TypeOK
<1> HIDE DEF DialogKinds
<1>2. dialogs[k] = 1 /\ \A j \in DialogKinds : j # k => dialogs[j] = 0
  BY <1>1 DEF InDialogs
<1>3. \A j \in DialogKinds : dialogs'[j] = 0
  BY <1>1, <1>2
<1> QED BY <1>3 DEF HasDialog

-----------------------------------------------------------------------------
(* The service *)

OneKept == InQueue' /\ InDialogs' /\ Button' /\ ViewOnly'

LEMMA OneCreate ==
  ASSUME OneUserInv, OnCreate
  PROVE  OneKept
<1> USE DEF OneUserInv
<1>1. /\ serviceQ \in Seq(Messages) /\ serviceQ # <<>> /\ serviceQ' = Tail(serviceQ)
      /\ Head(serviceQ).kind # "destroy"
      /\ UNCHANGED <<dialogs, ui, broadcasts, theScreen, stoppingByUs, prefs, inputEnabled>>
  BY DEF OnCreate, Consume, TypeOK
<1>2. active' <=> active
  BY <1>1 DEF active
<1>3. InQueue'
  BY <1>1, <1>2, QueueTail, BehindTail DEF InQueue
<1>4. /\ HasToken(serviceQ') => HasToken(serviceQ)
      /\ HasStop(serviceQ') => HasStop(serviceQ)
  BY <1>1, QueueTail DEF InQueue
<1>5. InDialogs' /\ (Busy' => Busy)
  BY <1>1, <1>2, <1>4 DEF InDialogs, HasDialog, Busy
<1>6. ViewOnly'
  BY <1>1, <1>2, AnswersTail, ViewKept DEF ViewOnly
<1> QED BY <1>1, <1>2, <1>3, <1>4, <1>5, <1>6, ButtonKept DEF OneKept

LEMMA AppendIs ==
  ASSUME NEW p \in Seq(Answers), NEW r \in Seq(Answers), NEW a \in Answers,
         Len(r) = Len(p) + 1, r[Len(p) + 1] = a, \A n \in 1..Len(p) : r[n] = p[n]
  PROVE  Append(p, a) = r
<1>1. /\ Append(p, a) \in Seq(Answers) /\ Len(Append(p, a)) = Len(p) + 1
      /\ \A n \in 1..Len(p) : Append(p, a)[n] = p[n]
      /\ Append(p, a)[Len(p) + 1] = a
  OBVIOUS
<1>2. \A n \in 1..Len(r) : Append(p, a)[n] = r[n]
  BY <1>1
<1> QED BY <1>1, <1>2, SeqEqual

LEMMA Appended ==
  ASSUME NEW x \in Answers, NEW y \in Answers, NEW a \in Answers
  PROVE  /\ Append(<<>>, a) = <<a>>
         /\ Append(<<x>>, a) = <<x, a>>
         /\ Append(<<x, y>>, a) = <<x, y, a>>
<1>1. Append(<<>>, a) = <<a>>
  OBVIOUS
<1>2. Append(<<x>>, a) = <<x, a>>
  <2> DEFINE p == <<x>>
             r == <<x, a>>
  <2>1. p \in Seq(Answers) /\ Len(p) = 1 /\ r \in Seq(Answers) /\ Len(r) = 2 /\ r[2] = a /\ r[1] = p[1]
    OBVIOUS
  <2> HIDE DEF p, r
  <2>2. Len(r) = Len(p) + 1 /\ r[Len(p) + 1] = a /\ \A n \in 1..Len(p) : r[n] = p[n]
    BY <2>1
  <2>3. Append(p, a) = r
    BY <2>1, <2>2, AppendIs
  <2> QED BY <2>3 DEF p, r
<1>3. Append(<<x, y>>, a) = <<x, y, a>>
  <2> DEFINE p == <<x, y>>
             r == <<x, y, a>>
  <2>1. /\ p \in Seq(Answers) /\ Len(p) = 2 /\ r \in Seq(Answers) /\ Len(r) = 3
        /\ r[3] = a /\ r[2] = p[2] /\ r[1] = p[1]
    OBVIOUS
  <2> HIDE DEF p, r
  <2>2. Len(r) = Len(p) + 1 /\ r[Len(p) + 1] = a /\ \A n \in 1..Len(p) : r[n] = p[n]
    BY <2>1
  <2>3. Append(p, a) = r
    BY <2>1, <2>2, AppendIs
  <2> QED BY <2>3 DEF p, r
<1> QED BY <1>1, <1>2, <1>3

LEMMA AnswerTypes ==
  Started \in Answers /\ NotStarted \in Answers /\ Stopped \in Answers /\ NotStopped \in Answers
BY DEF Started, NotStarted, Stopped, NotStopped, Answer, Answers

LEMMA Said ==
  ASSUME Button, NEW a \in Answers, SendBroadcast(a)
  PROVE  /\ broadcasts = <<>> => broadcasts' = <<a>>
         /\ \A x \in Answers : broadcasts = <<x>> => broadcasts' = <<x, a>>
         /\ \A x, y \in Answers : broadcasts = <<x, y>> => broadcasts' = <<x, y, a>>
<1>1. broadcasts' = Append(broadcasts, a)
  BY DEF Button, SendBroadcast
<1>2. broadcasts = <<>> => broadcasts' = <<a>>
  BY <1>1, Appended
<1>3. ASSUME NEW x \in Answers, broadcasts = <<x>>
      PROVE  broadcasts' = <<x, a>>
  <2>1. Append(<<x>>, a) = <<x, a>>
    BY Appended, Zenon
  <2> QED BY <1>1, <1>3, <2>1
<1>4. ASSUME NEW x \in Answers, NEW y \in Answers, broadcasts = <<x, y>>
      PROVE  broadcasts' = <<x, y, a>>
  <2>1. Append(<<x, y>>, a) = <<x, y, a>>
    BY Appended, Zenon
  <2> QED BY <1>1, <1>4, <2>1
<1> QED BY <1>2, <1>3, <1>4

LEMMA OneDestroy ==
  ASSUME OneUserInv, OnDestroy
  PROVE  OneKept
<1> USE DEF OneUserInv
<1>1. /\ serviceQ \in Seq(Messages) /\ serviceQ # <<>> /\ serviceQ' = Tail(serviceQ)
      /\ TellStop /\ ~active' /\ ~stoppingByUs'
      /\ UNCHANGED <<dialogs, ui, prefs, inputEnabled>>
  BY DEF OnDestroy, Consume, TypeOK, StopServer, active
<1>2. /\ QueueOK(serviceQ')
      /\ HasToken(serviceQ') => HasToken(serviceQ)
      /\ HasStop(serviceQ') => HasStop(serviceQ)
  BY <1>1, QueueTail DEF InQueue
<1>3. InQueue'
  BY <1>1, <1>2 DEF InQueue
<1>4. InDialogs' /\ (Busy' => Busy)
  BY <1>1, <1>2 DEF InDialogs, HasDialog, Busy
<1>5. ViewOnly'
  BY <1>1, AnswersTail, ViewKept DEF ViewOnly
<1>6. Button'
  <2>1. CASE ~stoppingByUs /\ active
    <3>1. SendBroadcast(Stopped)
      BY <1>1, <2>1 DEF TellStop, Stopped
    <3>2. ui.shown' /\ ~SaysStart
      BY <1>1, <2>1 DEF Button, SaysStart, Ending
    <3>3. CASE StartAnswered
      <4>1. broadcasts \in {<<Started>>, <<NotStopped, Started>>}
        BY <2>1, <3>3 DEF StartAnswered
      <4>2. broadcasts' \in {<<Started, Stopped>>, <<NotStopped, Started, Stopped>>}
        BY <3>1, <4>1, AnswerTypes, Said
      <4>3. StartAnswered'
        BY <1>1, <1>2, <1>4, <3>3, <4>2 DEF StartAnswered
      <4> QED BY <3>2, <4>3 DEF Button
    <3>4. CASE SaysStop
      <4>1. broadcasts = <<>> /\ (ui.enabled => ~HasStop(serviceQ))
        BY <2>1, <3>4 DEF SaysStop, Ending
      <4>2. broadcasts' = <<Stopped>>
        BY <3>1, <4>1, AnswerTypes, Said
      <4>3. SaysStop'
        BY <1>1, <1>2, <1>4, <3>4, <4>1, <4>2 DEF SaysStop, Ending
      <4> QED BY <3>2, <4>3 DEF Button
    <3> QED BY <3>2, <3>3, <3>4 DEF Button
  <2>2. CASE stoppingByUs \/ ~active
    <3>1. UNCHANGED broadcasts
      BY <1>1, <2>2 DEF TellStop
    <3> QED BY <1>1, <1>2, <1>4, <2>2, <3>1 DEF Button, SaysStart, StartAnswered, SaysStop, Ending
  <2> QED BY <2>1, <2>2, <1>1 DEF TypeOK
<1> QED BY <1>3, <1>4, <1>5, <1>6 DEF OneKept

\* A command of the one user with a wrong key.
LEMMA OneReject ==
  ASSUME OneUserInv, RejectCommand
  PROVE  OneKept
<1> USE DEF OneUserInv
<1>1. /\ serviceQ \in Seq(Messages) /\ serviceQ # <<>> /\ Head(serviceQ).kind = "command"
      /\ UNCHANGED <<dialogs, ui, broadcasts, theScreen, prefs, inputEnabled>>
  BY DEF RejectCommand, TypeOK
<1>2. active' <=> active
  BY <1>1 DEF active
<1>3. /\ QueueOK(Tail(serviceQ)) /\ Tail(serviceQ) \in Seq(Messages)
      /\ HasToken(Tail(serviceQ)) => HasToken(serviceQ)
      /\ HasStop(Tail(serviceQ)) => HasStop(serviceQ)
  BY <1>1, QueueTail, TailIs DEF InQueue
<1>4. CASE active
  <2>1. serviceQ' = Tail(serviceQ) /\ UNCHANGED stoppingByUs
    BY <1>4 DEF RejectCommand, Consume
  <2>2. InQueue'
    BY <1>1, <1>2, <1>3, <2>1, BehindTail DEF InQueue
  <2>3. InDialogs' /\ (Busy' => Busy)
    BY <1>1, <1>2, <1>3, <2>1 DEF InDialogs, HasDialog, Busy
  <2>4. ViewOnly'
    BY <1>1, <1>2, <2>1, AnswersTail, ViewKept DEF ViewOnly
  <2> QED BY <1>1, <1>2, <1>3, <2>1, <2>2, <2>3, <2>4, ButtonKept DEF OneKept
<1>5. CASE ~active
  <2>1. StopSelfByUs
    BY <1>5 DEF RejectCommand
  <2>2. /\ stoppingByUs' /\ Pending(serviceQ') /\ QueueOK(serviceQ')
        /\ HasToken(serviceQ') <=> HasToken(Tail(serviceQ))
        /\ HasStop(serviceQ') <=> HasStop(Tail(serviceQ))
        /\ ResultsBehind(Tail(serviceQ)) => ResultsBehind(serviceQ')
        /\ \A n \in DOMAIN serviceQ' : AnswerOK(serviceQ'[n])
    BY <1>1, <2>1, StopSelfQueue DEF InQueue, ViewOnly
  <2>3. ResultsBehind(Tail(serviceQ))
    BY <1>1, RestIsStart DEF InQueue
  <2>4. InQueue'
    BY <1>2, <1>5, <2>2, <2>3 DEF InQueue
  <2>5. InDialogs' /\ (Busy' => Busy)
    BY <1>1, <1>2, <1>3, <2>2 DEF InDialogs, HasDialog, Busy
  <2>6. ViewOnly'
    BY <1>1, <1>2, <1>5, <2>2, ViewKept DEF ViewOnly
  <2> QED BY <1>1, <1>2, <1>3, <1>5, <2>2, <2>4, <2>5, <2>6, ButtonKept DEF OneKept
<1> QED BY <1>4, <1>5

LEMMA OneStop ==
  ASSUME OneUserInv, HandleStop
  PROVE  OneKept
<1> USE DEF OneUserInv
<1>1. Received("STOP")
  BY DEF HandleStop
<1>2. /\ serviceQ \in Seq(Messages) /\ serviceQ # <<>> /\ Head(serviceQ).kind = "command"
      /\ QueueOK(serviceQ) /\ IsStop(Head(serviceQ))
  BY <1>1, HeadIs DEF IsStop, IsCommand
<1>3. /\ StopSelfByUs /\ SendBroadcast(Answer("STOP", active))
      /\ UNCHANGED <<dialogs, ui, theScreen, prefs, inputEnabled>>
  BY DEF HandleStop
<1>4. active' <=> active
  BY <1>3 DEF active
<1>5. /\ QueueOK(Tail(serviceQ)) /\ HasStop(serviceQ) /\ ~HasStop(Tail(serviceQ))
      /\ HasToken(Tail(serviceQ)) => HasToken(serviceQ)
  BY <1>2, QueueTail
<1>6. /\ stoppingByUs' /\ Pending(serviceQ') /\ QueueOK(serviceQ')
      /\ HasToken(serviceQ') <=> HasToken(Tail(serviceQ))
      /\ HasStop(serviceQ') <=> HasStop(Tail(serviceQ))
      /\ TokensBehind(Tail(serviceQ)) => TokensBehind(serviceQ')
      /\ ResultsBehind(Tail(serviceQ)) => ResultsBehind(serviceQ')
      /\ \A n \in DOMAIN serviceQ' : AnswerOK(serviceQ'[n])
  BY <1>2, <1>3, StopSelfQueue DEF ViewOnly
<1>7. InQueue'
  <2>1. ResultsBehind(Tail(serviceQ)) /\ (active => TokensBehind(Tail(serviceQ)))
    BY <1>2, RestIsStart, BehindTail DEF InQueue
  <2> QED BY <1>4, <1>6, <2>1 DEF InQueue
<1>8. InDialogs' /\ (Busy' => Busy)
  BY <1>3, <1>4, <1>5, <1>6 DEF InDialogs, HasDialog, Busy
<1>9. ViewOnly'
  BY <1>3, <1>4, <1>6, ViewKept DEF ViewOnly
<1>10. Button'
  <2>1. ui'.shown /\ ~StartAnswered
    BY <1>3, <1>5 DEF Button, StartAnswered
  <2>2. CASE SaysStart
    <3>1. ~active /\ broadcasts = <<>>
      BY <1>5, <2>2 DEF SaysStart, Ending
    <3>2. SendBroadcast(NotStopped)
      <4>1. active = FALSE
        BY <3>1 DEF active
      <4> QED BY <1>3, <4>1 DEF NotStopped
    <3>3. broadcasts' = <<NotStopped>>
      BY <3>1, <3>2, AnswerTypes, Said
    <3>4. SaysStart'
      BY <1>3, <1>4, <1>5, <1>6, <1>8, <2>2, <3>1, <3>3 DEF SaysStart, Ending
    <3> QED BY <2>1, <3>4 DEF Button
  <2>3. CASE SaysStop /\ broadcasts = <<>>
    <3>1. active /\ ~ui.enabled
      BY <1>5, <2>3 DEF SaysStop
    <3>2. SendBroadcast(Stopped)
      <4>1. active = TRUE
        BY <3>1 DEF active
      <4> QED BY <1>3, <4>1 DEF Stopped
    <3>3. broadcasts' = <<Stopped>>
      BY <2>3, <3>2, AnswerTypes, Said
    <3>4. SaysStop'
      BY <1>3, <1>4, <1>5, <1>6, <1>8, <2>3, <3>1, <3>3 DEF SaysStop, Ending
    <3> QED BY <2>1, <3>4 DEF Button
  <2>4. CASE SaysStop /\ broadcasts # <<>>
    <3>1. broadcasts = <<Stopped>> /\ ~active /\ ~ui.enabled
      BY <1>5, <2>4 DEF SaysStop, Ending
    <3>2. SendBroadcast(NotStopped)
      <4>1. active = FALSE
        BY <3>1 DEF active
      <4> QED BY <1>3, <4>1 DEF NotStopped
    <3>3. broadcasts' = <<Stopped, NotStopped>>
      BY <3>1, <3>2, AnswerTypes, Said
    <3>4. SaysStop'
      BY <1>3, <1>4, <1>5, <1>6, <1>8, <2>4, <3>1, <3>3 DEF SaysStop, Ending
    <3> QED BY <2>1, <3>4 DEF Button
  <2> QED BY <2>1, <2>2, <2>3, <2>4 DEF Button
<1> QED BY <1>7, <1>8, <1>9, <1>10 DEF OneKept

\* What the answer of the user to the last dialogs finds.
LEMMA ResultFound ==
  ASSUME OneUserInv, serviceQ # <<>>, IsResult(Head(serviceQ))
  PROVE  /\ serviceQ \in Seq(Messages) /\ Tail(serviceQ) \in Seq(Messages)
         /\ Head(serviceQ).kind = "command"
         /\ ~active /\ ~stoppingByUs /\ ~HasDialog /\ QueueOK(Tail(serviceQ))
         /\ ~HasToken(Tail(serviceQ)) /\ ~HasStop(Tail(serviceQ)) /\ ~HasStop(serviceQ) /\ Busy
         /\ SaysStart /\ ~ui.enabled /\ ui.shown
         /\ AnswerOK(Head(serviceQ)) /\ \A n \in DOMAIN serviceQ : AnswerOK(serviceQ[n])
<1> USE DEF OneUserInv
<1>1. /\ serviceQ \in Seq(Messages) /\ Tail(serviceQ) \in Seq(Messages)
      /\ IsToken(Head(serviceQ)) /\ Head(serviceQ).kind = "command"
  BY TailIs DEF TypeOK, IsToken, IsResult, IsCommand
<1>2. QueueOK(serviceQ) /\ (active => TokensBehind(serviceQ))
      /\ (stoppingByUs => ResultsBehind(serviceQ))
  BY DEF InQueue
<1>3. ~active /\ ~stoppingByUs
  BY <1>1, <1>2, BehindTail
<1>4. /\ QueueOK(Tail(serviceQ)) /\ ~HasToken(Tail(serviceQ)) /\ HasToken(serviceQ)
      /\ ~HasStop(serviceQ) /\ ~HasStop(Tail(serviceQ))
  BY <1>1, <1>2, QueueTail
<1>5. ~HasDialog /\ Busy
  BY <1>4 DEF InDialogs, Busy
<1>6. SaysStart /\ ~ui.enabled /\ ui.shown
  BY <1>5 DEF Button, SaysStart, StartAnswered, SaysStop
<1>7. AnswerOK(Head(serviceQ)) /\ \A n \in DOMAIN serviceQ : AnswerOK(serviceQ[n])
  BY <1>1, AnswersTail DEF ViewOnly
<1> QED BY <1>1, <1>3, <1>4, <1>5, <1>6, <1>7

LEMMA OneStarted ==
  ASSUME OneUserInv, Disturbances \subseteq OneUserEvents, serviceQ # <<>>,
         IsCommand(Head(serviceQ), {"STORAGE_RESULT", "PROJECTION_RESULT"}),
         NEW ok \in BOOLEAN, StartServer(ok), UNCHANGED <<prefs, inputEnabled, ui>>
  PROVE  OneKept
<1>1. IsResult(Head(serviceQ)) /\ Head(serviceQ).intent.action # "INPUT_RESULT"
  BY DEF IsResult, IsCommand, Results
<1>2. /\ serviceQ \in Seq(Messages) /\ Tail(serviceQ) \in Seq(Messages)
      /\ Head(serviceQ).kind = "command"
      /\ ~active /\ ~stoppingByUs /\ ~HasDialog /\ QueueOK(Tail(serviceQ))
      /\ ~HasToken(Tail(serviceQ)) /\ ~HasStop(Tail(serviceQ)) /\ ~HasStop(serviceQ) /\ Busy
      /\ SaysStart /\ ~ui.enabled /\ ui.shown
      /\ \A n \in DOMAIN serviceQ : AnswerOK(serviceQ[n])
  BY <1>1, ResultFound
<1>3. NoInput
  BY <1>1, ResultFound DEF AnswerOK
<1>4. TypeOK /\ ViewOnly /\ InDialogs /\ Button /\ QueueOK(serviceQ)
  BY DEF OneUserInv, InQueue
<1>5. broadcasts = <<>> \/ broadcasts = <<NotStopped>>
  BY <1>2 DEF SaysStart
<1>6. CASE /\ theScreen' = DefaultPort /\ SendBroadcast(Started)
           /\ UNCHANGED <<dialogs, stoppingByUs>> /\ Consume
  <2>1. active' /\ ~stoppingByUs' /\ ~HasDialog' /\ serviceQ' = Tail(serviceQ)
    BY <1>2, <1>6, PortsAssumption DEF active, HasDialog, Consume
  <2>2. ~HasToken(serviceQ') /\ ~HasStop(serviceQ') /\ QueueOK(serviceQ') /\ ~Busy'
    BY <1>2, <2>1 DEF Busy
  <2>3. InQueue'
    BY <2>1, <2>2, NothingBehind DEF InQueue
  <2>4. InDialogs'
    BY <1>4, <1>6, <2>1 DEF InDialogs
  <2>5. ViewOnly'
    <3>1. \A n \in DOMAIN serviceQ' : AnswerOK(serviceQ'[n])
      BY <2>2, NothingBehind
    <3> QED BY <1>3, <1>4, <1>6, <3>1, ViewKept
  <2>6. broadcasts' \in {<<Started>>, <<NotStopped, Started>>}
    BY <1>4, <1>5, <1>6, AnswerTypes, Said
  <2>7. StartAnswered'
    BY <1>2, <2>1, <2>2, <2>6 DEF StartAnswered, SaysStart
  <2> QED BY <1>2, <2>3, <2>4, <2>5, <2>7 DEF OneKept, Button
<1>7. CASE SendBroadcast(NotStarted) /\ StopSelfByUs /\ UNCHANGED <<theScreen, dialogs>>
  <2>1. ~active' /\ ~HasDialog'
    BY <1>2, <1>7 DEF active, HasDialog
  <2>2. /\ stoppingByUs' /\ Pending(serviceQ') /\ QueueOK(serviceQ')
        /\ ~HasToken(serviceQ') /\ ~HasStop(serviceQ')
        /\ \A n \in DOMAIN serviceQ' : AnswerOK(serviceQ'[n])
    BY <1>2, <1>4, <1>7, StopSelfQueue
  <2>3. InQueue'
    BY <2>1, <2>2, NothingBehind DEF InQueue
  <2>4. InDialogs' /\ ~Busy'
    BY <1>4, <1>7, <2>1, <2>2 DEF InDialogs, Busy
  <2>5. ViewOnly'
    BY <1>4, <1>7, <2>1, <2>2, ViewKept
  <2>6. broadcasts' \in {<<NotStarted>>, <<NotStopped, NotStarted>>}
    BY <1>4, <1>5, <1>7, AnswerTypes, Said
  <2>7. StartAnswered'
    BY <1>2, <2>1, <2>2, <2>4, <2>6 DEF StartAnswered, SaysStart
  <2> QED BY <1>2, <2>3, <2>4, <2>5, <2>7 DEF OneKept, Button
<1>8. StartScreenCapture(ok) => UNCHANGED dialogs
  BY DEF StartScreenCapture, Disturb, OneUserEvents
<1> QED BY <1>2, <1>6, <1>7, <1>8, Zenon DEF StartServer, Started, NotStarted

\* The next question to the user.
LEMMA NextDialog ==
  ASSUME OneUserInv, NEW k \in DialogKinds, serviceQ # <<>>, LaunchDialog(k), Consume,
         IsToken(Head(serviceQ)), ~active, stoppingByUs => ResultsBehind(serviceQ),
         ~HasDialog, UNCHANGED <<ui, broadcasts, theScreen, stoppingByUs>>
  PROVE  /\ InQueue' /\ InDialogs' /\ Button' /\ ~HasToken(serviceQ') /\ ~active'
         /\ \A j \in DialogKinds : dialogs'[j] = IF j = k THEN 1 ELSE 0
<1> USE DEF OneUserInv
<1>1. serviceQ \in Seq(Messages) /\ serviceQ' = Tail(serviceQ) /\ ~active'
  BY DEF Consume, TypeOK, active
<1>2. /\ QueueOK(serviceQ') /\ ~HasToken(serviceQ') /\ HasToken(serviceQ)
      /\ ~HasStop(serviceQ) /\ ~HasStop(serviceQ')
  BY <1>1, QueueTail DEF InQueue
<1>3. HasDialog' /\ \A j \in DialogKinds : dialogs'[j] = IF j = k THEN 1 ELSE 0
  BY OnlyDialog
<1>4. InQueue'
  <2>1. Head(serviceQ).kind # "destroy"
    BY DEF IsToken, IsStart, IsResult, IsCommand
  <2>2. stoppingByUs' => Pending(serviceQ')
    BY <1>1, <2>1, BehindTail DEF InQueue
  <2> QED BY <1>1, <1>2, <2>2, NothingBehind DEF InQueue
<1>5. InDialogs'
  BY <1>1, <1>2, <1>3 DEF InDialogs
<1>6. Button'
  BY <1>1, <1>2, ButtonKept DEF Busy
<1> QED BY <1>1, <1>2, <1>3, <1>4, <1>5, <1>6

LEMMA OneResult ==
  ASSUME OneUserInv, Disturbances \subseteq OneUserEvents,
         HandleMediaProjectionResult \/ HandleWriteStorageResult \/ HandleInputResult
  PROVE  OneKept
<1>1. OneUserInv /\ TypeOK /\ InQueue
  BY DEF OneUserInv
<1>2. CASE HandleMediaProjectionResult
  <2>1. Received("PROJECTION_RESULT") /\ StartServer(intent.flag) /\ UNCHANGED <<inputEnabled, prefs, ui>>
    BY <1>2 DEF HandleMediaProjectionResult
  <2>2. serviceQ # <<>> /\ IsCommand(Head(serviceQ), {"STORAGE_RESULT", "PROJECTION_RESULT"})
    BY <1>1, <2>1, HeadIs DEF IsCommand
  <2>3. intent.flag \in BOOLEAN
    BY <1>1, <2>2, ReceivedType, IntentFields DEF IsCommand
  <2> QED BY <1>1, <2>1, <2>2, <2>3, OneStarted
<1>3. CASE HandleWriteStorageResult
  <2>1. Received("STORAGE_RESULT") /\ UNCHANGED <<inputEnabled, prefs, ui>>
    BY <1>3 DEF HandleWriteStorageResult
  <2>2. serviceQ # <<>> /\ IsCommand(Head(serviceQ), {"STORAGE_RESULT", "PROJECTION_RESULT"})
    BY <1>1, <2>1, HeadIs DEF IsCommand
  <2>3. CASE granted
    BY <1>1, <1>3, <2>1, <2>2, <2>3, OneStarted DEF HandleWriteStorageResult
  <2>4. CASE ~granted
    <3>1. /\ LaunchDialog("projection") /\ Consume
          /\ UNCHANGED <<ui, broadcasts, theScreen, stoppingByUs>>
      BY <1>3, <2>1, <2>4 DEF HandleWriteStorageResult
    <3>2. IsResult(Head(serviceQ)) /\ IsToken(Head(serviceQ)) /\ Head(serviceQ).intent.action # "INPUT_RESULT"
      BY <2>2 DEF IsToken, IsResult, IsCommand, Results
    <3>3. ~active /\ ~HasDialog /\ ~stoppingByUs /\ AnswerOK(Head(serviceQ))
      BY <1>1, <2>2, <3>2, ResultFound
    <3>4. /\ InQueue' /\ InDialogs' /\ Button' /\ ~HasToken(serviceQ') /\ ~active'
          /\ \A j \in DialogKinds : dialogs'[j] = IF j = "projection" THEN 1 ELSE 0
      BY <1>1, <2>2, <3>1, <3>2, <3>3, NextDialog
    <3>5. NoInput'
      BY <2>1, <3>2, <3>3 DEF AnswerOK, NoInput
    <3>6. ~(dialogs'["input"] > 0) /\ \A n \in DOMAIN serviceQ' : (AnswerOK(serviceQ[n]))'
      BY <3>4, NothingBehind
    <3> QED BY <3>4, <3>5, <3>6, Zenon DEF OneKept, ViewOnly
  <2> QED BY <1>1, <2>3, <2>4 DEF TypeOK
<1>4. CASE HandleInputResult
  <2>1. /\ Received("INPUT_RESULT") /\ LaunchDialog("storage") /\ Consume /\ inputEnabled' = intent.flag
        /\ UNCHANGED <<ui, broadcasts, theScreen, stoppingByUs, prefs>>
    BY <1>4 DEF HandleInputResult, svcVars
  <2>2. /\ serviceQ # <<>> /\ IsResult(Head(serviceQ)) /\ IsToken(Head(serviceQ))
        /\ Head(serviceQ).intent.action = "INPUT_RESULT" /\ intent = Head(serviceQ).intent
    BY <1>1, <2>1, HeadIs DEF IsToken, IsResult, IsCommand, Results
  <2>3. ~active /\ ~HasDialog /\ ~stoppingByUs /\ AnswerOK(Head(serviceQ))
    BY <1>1, <2>2, ResultFound
  <2>4. /\ InQueue' /\ InDialogs' /\ Button' /\ ~HasToken(serviceQ') /\ ~active'
        /\ \A j \in DialogKinds : dialogs'[j] = IF j = "storage" THEN 1 ELSE 0
    BY <1>1, <2>1, <2>2, <2>3, NextDialog
  <2>5. NoInput'
    BY <2>1, <2>2, <2>3 DEF AnswerOK, NoInput
  <2>6. ~(dialogs'["input"] > 0) /\ \A n \in DOMAIN serviceQ' : (AnswerOK(serviceQ[n]))'
    BY <2>4, NothingBehind
  <2> QED BY <2>4, <2>5, <2>6, Zenon DEF OneKept, ViewOnly
<1> QED BY <1>2, <1>3, <1>4

LEMMA OneStart ==
  ASSUME OneUserInv, HandleStart
  PROVE  OneKept
<1>1. OneUserInv /\ TypeOK /\ InQueue /\ InDialogs
  BY DEF OneUserInv
<1>2. /\ Received("START") /\ Consume
      /\ UNCHANGED <<ui, theScreen, stoppingByUs>>
  BY DEF HandleStart, svcVars
<1>3. /\ serviceQ \in Seq(Messages) /\ serviceQ # <<>> /\ QueueOK(serviceQ)
      /\ IsToken(Head(serviceQ)) /\ intent = Head(serviceQ).intent
  BY <1>1, <1>2, HeadIs DEF IsToken, IsStart, IsCommand
<1>4. ~active /\ HasToken(serviceQ)
  BY <1>1, <1>3, BehindTail, QueueTail DEF InQueue
<1>5. ~HasDialog /\ (stoppingByUs => ResultsBehind(serviceQ))
  BY <1>1, <1>4 DEF InDialogs, InQueue
<1>6. Persist /\ AskForInput /\ UNCHANGED <<broadcasts, inputEnabled>>
  BY <1>4 DEF HandleStart
<1>7. PICK k \in DialogKinds : LaunchDialog(k) /\ k = IF intent.flag THEN "inputViewOnly" ELSE "input"
  BY <1>6 DEF AskForInput
<1>8. /\ InQueue' /\ InDialogs' /\ Button' /\ ~HasToken(serviceQ') /\ ~active'
      /\ \A j \in DialogKinds : dialogs'[j] = IF j = k THEN 1 ELSE 0
  BY <1>1, <1>2, <1>3, <1>4, <1>5, <1>6, <1>7, NextDialog
<1>9. prefs'.viewOnly = intent.flag
  BY <1>6 DEF Persist
<1>10. dialogs'["input"] > 0 => ~prefs'.viewOnly
  BY <1>7, <1>8, <1>9
<1>11. /\ dialogs'["storage"] = 0 /\ dialogs'["projection"] = 0
       /\ \A n \in DOMAIN serviceQ' : (AnswerOK(serviceQ[n]))'
  BY <1>7, <1>8, NothingBehind
<1> QED BY <1>8, <1>10, <1>11 DEF OneKept, ViewOnly

\* No connect request and no unknown action is in the queue.
LEMMA OneOther ==
  ASSUME OneUserInv, HandleConnectOrOther
  PROVE  FALSE
<1>1. PICK a \in {"CONNECT", "OTHER"} : Received(a)
  BY DEF HandleConnectOrOther
<1>2. /\ intent = Head(serviceQ).intent /\ intent.action = a
      /\ IsToken(Head(serviceQ)) \/ IsStop(Head(serviceQ))
  BY <1>1, HeadIs DEF OneUserInv
<1> QED BY <1>1, <1>2 DEF IsToken, IsStop, IsStart, IsResult, IsCommand, Results

-----------------------------------------------------------------------------
(* The dialogs *)

\* The user has answered dialog k.
LEMMA OnePost ==
  ASSUME OneUserInv, NEW k \in DialogKinds, dialogs[k] > 0,
         dialogs' = [dialogs EXCEPT ![k] = @ - 1],
         NEW a \in Results, NEW flag \in BOOLEAN, StartService(Intent(a, TRUE, flag)),
         AnswerOK(Command(Intent(a, TRUE, flag))),
         UNCHANGED <<svcVars, inputEnabled, prefs, broadcasts, ui>>
  PROVE  OneKept
<1> DEFINE i == Intent(a, TRUE, flag)
<1> USE DEF OneUserInv
<1>1. i \in Intents /\ IsResult(Command(i)) /\ IsToken(Command(i)) /\ ~IsStop(Command(i))
  <2>1. i \in Intents
    BY IntentTypes DEF Results
  <2> QED
    BY <2>1 DEF Intent, Command, IsToken, IsStop, IsResult, IsCommand, Results
<1>2. Commanded(serviceQ, serviceQ', i)
  BY StartServiceQueue
<1>3. HasDialog /\ ~HasDialog' /\ \A j \in DialogKinds : dialogs'[j] = 0
  BY LastDialog
<1>4. ~HasToken(serviceQ) /\ ~HasStop(serviceQ) /\ ~active /\ QueueOK(serviceQ) /\ serviceQ \in Seq(Messages)
  BY <1>3 DEF InDialogs, InQueue, TypeOK
<1> HIDE DEF i
<1>5. /\ QueueOK(serviceQ') /\ (HasStop(serviceQ') <=> HasStop(serviceQ))
      /\ Pending(serviceQ) => ResultsBehind(serviceQ') /\ Pending(serviceQ')
  BY <1>1, <1>2, <1>4, QueueCommand
<1>6. ~active' /\ UNCHANGED <<stoppingByUs, ui, broadcasts, prefs, inputEnabled>>
  BY <1>4 DEF active, svcVars
<1>7. InQueue'
  BY <1>5, <1>6 DEF InQueue
<1>8. InDialogs'
  <2>1. \A j \in DialogKinds : ~(dialogs'[j] > 0) /\ dialogs'[j] <= 1
    BY <1>3
  <2> QED BY <1>3, <2>1 DEF InDialogs
<1>9. Button'
  BY <1>3, <1>4, <1>5, <1>6, ButtonKept DEF Busy
<1>10. ViewOnly'
  <2>1. \A n \in DOMAIN serviceQ' : AnswerOK(serviceQ'[n])
    BY <1>1, <1>2, <1>4, AnswersCommand DEF ViewOnly, i
  <2>2. \A j \in DialogKinds : dialogs'[j] > 0 => dialogs[j] > 0
    BY <1>3
  <2> QED BY <1>6, <2>1, <2>2, ViewKept
<1> QED BY <1>7, <1>8, <1>9, <1>10 DEF OneKept

LEMMA OneDialog ==
  ASSUME OneUserInv, DialogStep
  PROVE  OneKept
<1> USE DEF PostAnswer
<1>0. ViewOnly
  BY DEF OneUserInv
<1>1. CASE AnswerViewOnly
  <2>1. AnswerOK(Command(Intent("INPUT_RESULT", TRUE, FALSE)))
    BY DEF AnswerOK, Command, Intent
  <2> QED BY <1>1, <2>1, OnePost DEF AnswerViewOnly, Results
<1>2. CASE AnswerInput
  <2>1. PICK flag \in BOOLEAN : /\ dialogs["input"] > 0
                                /\ dialogs' = [dialogs EXCEPT !["input"] = @ - 1]
                                /\ StartService(Intent("INPUT_RESULT", TRUE, flag))
                                /\ UNCHANGED <<svcVars, inputEnabled, prefs, broadcasts, ui>>
    BY <1>2 DEF AnswerInput
  <2>2. AnswerOK(Command(Intent("INPUT_RESULT", TRUE, flag)))
    BY <1>0, <2>1 DEF AnswerOK, Command, Intent, ViewOnly
  <2> QED BY <2>1, <2>2, OnePost DEF Results
<1>3. CASE AnswerStorage
  <2>1. PICK flag \in BOOLEAN : /\ dialogs["storage"] > 0
                                /\ dialogs' = [dialogs EXCEPT !["storage"] = @ - 1]
                                /\ StartService(Intent("STORAGE_RESULT", TRUE, flag))
                                /\ UNCHANGED <<svcVars, inputEnabled, prefs, broadcasts, ui>>
    BY <1>3 DEF AnswerStorage
  <2>2. AnswerOK(Command(Intent("STORAGE_RESULT", TRUE, flag)))
    BY <1>0, <2>1 DEF AnswerOK, Command, Intent, ViewOnly
  <2> QED BY <2>1, <2>2, OnePost DEF Results
<1>4. CASE AnswerProjection
  <2>1. PICK flag \in BOOLEAN : /\ dialogs["projection"] > 0
                                /\ dialogs' = [dialogs EXCEPT !["projection"] = @ - 1]
                                /\ StartService(Intent("PROJECTION_RESULT", TRUE, flag))
                                /\ UNCHANGED <<svcVars, inputEnabled, prefs, broadcasts, ui>>
    BY <1>4 DEF AnswerProjection
  <2>2. AnswerOK(Command(Intent("PROJECTION_RESULT", TRUE, flag)))
    BY <1>0, <2>1 DEF AnswerOK, Command, Intent, ViewOnly
  <2> QED BY <2>1, <2>2, OnePost DEF Results
<1> QED BY <1>1, <1>2, <1>3, <1>4 DEF DialogStep

\* The user leaves the last dialog without an answer.
LEMMA OneAbandon ==
  ASSUME OneUserInv, AbandonDialog
  PROVE  OneKept
<1> USE DEF OneUserInv
<1>1. PICK k \in DialogKinds : dialogs[k] > 0 /\ dialogs' = [dialogs EXCEPT ![k] = @ - 1]
  BY DEF AbandonDialog
<1>2. HasDialog /\ ~HasDialog' /\ \A j \in DialogKinds : dialogs'[j] = 0
  BY <1>1, LastDialog
<1>3. UNCHANGED <<serviceQ, ui, broadcasts, theScreen, stoppingByUs, prefs, inputEnabled>>
  BY DEF AbandonDialog, svcVars
<1>4. active' <=> active
  BY <1>3 DEF active
<1>5. InQueue'
  BY <1>3, <1>4 DEF InQueue
<1>6. InDialogs'
  <2>1. \A j \in DialogKinds : ~(dialogs'[j] > 0) /\ dialogs'[j] <= 1
    BY <1>2
  <2> QED BY <1>2, <2>1 DEF InDialogs
<1>7. Button'
  BY <1>2, <1>3, <1>4, ButtonKept DEF Busy
<1>8. ViewOnly'
  <2>1. \A j \in DialogKinds : dialogs'[j] > 0 => dialogs[j] > 0
    BY <1>2
  <2> QED BY <1>3, <1>4, <2>1, ViewKept DEF ViewOnly
<1> QED BY <1>5, <1>6, <1>7, <1>8 DEF OneKept

-----------------------------------------------------------------------------
(* The activity *)

LEMMA OneClick ==
  ASSUME OneUserInv, ClickToggle
  PROVE  OneKept
<1> USE DEF OneUserInv
<1>1. /\ ui.shown /\ ui.enabled /\ ui' = [ui EXCEPT !.enabled = FALSE]
      /\ UNCHANGED <<theScreen, stoppingByUs, inputEnabled, prefs, dialogs, broadcasts>>
  BY DEF ClickToggle, svcVars
<1>2. ui'.shown /\ ~ui'.enabled /\ (ui'.running <=> ui.running)
  BY <1>1 DEF TypeOK
<1>3. (active' <=> active) /\ (HasDialog' <=> HasDialog)
  BY <1>1 DEF active, HasDialog
<1>4. serviceQ \in Seq(Messages) /\ QueueOK(serviceQ)
  BY DEF TypeOK, InQueue
<1>5. ~Busy /\ ~HasDialog /\ ~HasToken(serviceQ)
  BY <1>1 DEF Button, SaysStart, StartAnswered, SaysStop, Busy
<1>6. CASE ui.running
  <2>1. PICK i \in Intents : StartService(i) /\ IsStop(Command(i)) /\ ~IsToken(Command(i)) /\ ~IsResult(Command(i))
    <3>1. StartService(Intent("STOP", keyIsDefault, FALSE))
      BY <1>6 DEF ClickToggle
    <3>2. Intent("STOP", keyIsDefault, FALSE) \in Intents
      BY IntentTypes DEF TypeOK
    <3>3. LET m == Command(Intent("STOP", keyIsDefault, FALSE))
          IN  IsStop(m) /\ ~IsToken(m) /\ ~IsResult(m)
      BY DEF Intent, Command, IsStop, IsToken, IsStart, IsResult, IsCommand, Results
    <3> QED BY <3>1, <3>2, <3>3
  <2>2. Commanded(serviceQ, serviceQ', i)
    BY <2>1, StartServiceQueue
  <2>3. SaysStop /\ ~HasStop(serviceQ)
    BY <1>1, <1>6 DEF Button, SaysStart, StartAnswered, SaysStop
  <2>4. /\ QueueOK(serviceQ') /\ ~HasToken(serviceQ') /\ TokensBehind(serviceQ')
        /\ ResultsBehind(serviceQ') /\ (Pending(serviceQ) => Pending(serviceQ'))
    BY <1>4, <1>5, <2>1, <2>2, <2>3, QueueCommand
  <2>5. InQueue'
    BY <1>1, <2>4 DEF InQueue
  <2>6. InDialogs' /\ ~Busy'
    BY <1>1, <1>3, <1>5, <2>4 DEF InDialogs, Busy
  <2>7. SaysStop'
    <3>1. \/ broadcasts = <<>> /\ active /\ ~stoppingByUs
          \/ broadcasts = <<Stopped>> /\ ~active
      BY <1>1, <2>3 DEF SaysStop
    <3> QED BY <1>1, <1>2, <1>3, <1>6, <2>6, <3>1 DEF SaysStop, Ending
  <2>8. ViewOnly'
    <3>1. AnswerOK(Command(i))
      BY <2>1 DEF AnswerOK
    <3>2. \A n \in DOMAIN serviceQ' : AnswerOK(serviceQ'[n])
      BY <1>4, <2>1, <2>2, <3>1, AnswersCommand DEF ViewOnly
    <3> QED BY <1>1, <1>3, <3>2, ViewKept DEF ViewOnly
  <2> QED BY <1>2, <2>5, <2>6, <2>7, <2>8 DEF OneKept, Button
<1>7. CASE ~ui.running
  <2>1. PICK i \in Intents : StartService(i) /\ ~IsStop(Command(i)) /\ IsToken(Command(i)) /\ ~IsResult(Command(i))
    <3>1. PICK arg \in Arguments : StartService(StartIntent(keyIsDefault, arg))
      BY <1>7 DEF ClickToggle
    <3>2. StartIntent(keyIsDefault, arg) \in Intents
      BY IntentTypes DEF TypeOK
    <3>3. LET m == Command(StartIntent(keyIsDefault, arg))
          IN  ~IsStop(m) /\ IsToken(m) /\ ~IsResult(m)
      BY DEF StartIntent, Command, IsStop, IsToken, IsStart, IsResult, IsCommand, Results
    <3> QED BY <3>1, <3>2, <3>3
  <2>2. Commanded(serviceQ, serviceQ', i)
    BY <2>1, StartServiceQueue
  <2>3. SaysStart
    BY <1>1, <1>7 DEF Button, StartAnswered, SaysStop
  <2>4. /\ QueueOK(serviceQ') /\ (HasStop(serviceQ') <=> HasStop(serviceQ))
        /\ ResultsBehind(serviceQ')
        /\ Pending(serviceQ) => Pending(serviceQ') /\ TokensBehind(serviceQ')
    BY <1>4, <1>5, <2>1, <2>2, QueueCommand
  <2>5. active => stoppingByUs /\ ~HasStop(serviceQ)
    BY <2>3 DEF SaysStart, Ending
  <2>6. InQueue'
    BY <1>1, <1>3, <2>4, <2>5 DEF InQueue
  <2>7. InDialogs'
    BY <1>1, <1>3, <1>5 DEF InDialogs
  <2>8. SaysStart'
    BY <1>1, <1>2, <1>3, <1>7, <2>3, <2>4, <2>5 DEF SaysStart, Ending
  <2>9. ViewOnly'
    <3>1. AnswerOK(Command(i))
      BY <2>1 DEF AnswerOK
    <3>2. \A n \in DOMAIN serviceQ' : AnswerOK(serviceQ'[n])
      BY <1>4, <2>1, <2>2, <3>1, AnswersCommand DEF ViewOnly
    <3> QED BY <1>1, <1>3, <3>2, ViewKept DEF ViewOnly
  <2> QED BY <1>2, <2>6, <2>7, <2>8, <2>9 DEF OneKept, Button
<1> QED BY <1>6, <1>7

\* The first of one, two or three broadcasts.
LEMMA Heard ==
  ASSUME NEW x \in Answers, NEW y \in Answers, NEW z \in Answers
  PROVE  /\ Head(<<x>>) = x /\ Tail(<<x>>) = <<>>
         /\ Head(<<x, y>>) = x /\ Tail(<<x, y>>) = <<y>>
         /\ Head(<<x, y, z>>) = x /\ Tail(<<x, y, z>>) = <<y, z>>
<1>1. Head(<<x>>) = x /\ Tail(<<x>>) = <<>>
  OBVIOUS
<1>2. Head(<<x, y>>) = x /\ Tail(<<x, y>>) = <<y>>
  OBVIOUS
<1>3. Head(<<x, y, z>>) = x /\ Tail(<<x, y, z>>) = <<y, z>>
  OBVIOUS
<1> QED BY <1>1, <1>2, <1>3

\* What the activity makes of each broadcast.
LEMMA ShownIs ==
  ASSUME TypeOK
  PROVE  /\ Shown(Started) = ShowUi(TRUE) /\ Shown(Stopped) = ShowUi(FALSE)
         /\ Shown(NotStopped) = ui /\ Shown(NotStarted) = [ui EXCEPT !.enabled = TRUE]
         /\ \A r \in BOOLEAN : ShowUi(r).shown /\ ShowUi(r).enabled /\ (ShowUi(r).running <=> r)
BY DEF Shown, Started, Stopped, NotStopped, NotStarted, Answer, ShowUi

LEMMA OneReceive ==
  ASSUME OneUserInv, OnReceive
  PROVE  OneKept
<1> USE DEF OneUserInv
<1>1. /\ broadcasts # <<>> /\ broadcasts' = Tail(broadcasts) /\ ui' = Shown(Head(broadcasts))
      /\ UNCHANGED <<serviceQ, theScreen, stoppingByUs, inputEnabled, prefs, dialogs>>
  BY DEF OnReceive, svcVars
<1>2. (active' <=> active) /\ (HasDialog' <=> HasDialog) /\ (Busy' <=> Busy)
  BY <1>1 DEF active, HasDialog, Busy
<1>3. InQueue' /\ InDialogs'
  BY <1>1, <1>2 DEF InQueue, InDialogs
<1>4. ViewOnly'
  BY <1>1, <1>2, ViewKept DEF ViewOnly
<1>5. Button'
  <2>1. CASE SaysStart
    <3>1. broadcasts = <<NotStopped>> /\ ~HasStop(serviceQ)
      BY <1>1, <2>1 DEF SaysStart
    <3>2. broadcasts' = <<>> /\ ui' = ui
      BY <1>1, <3>1, AnswerTypes, Heard, ShownIs
    <3> QED BY <1>1, <1>2, <2>1, <3>2 DEF Button, SaysStart, Ending
  <2>2. CASE StartAnswered
    <3>0. ~ui.running /\ ~ui.enabled /\ ~Busy' /\ ~HasStop(serviceQ') /\ ui.shown
      BY <1>1, <1>2, <2>2 DEF StartAnswered, Button
    <3>1. CASE broadcasts = <<Started>>
      <4>1. broadcasts' = <<>> /\ ui' = ShowUi(TRUE)
        BY <1>1, <3>1, AnswerTypes, Heard, ShownIs
      <4>2. ui'.shown /\ ui'.running
        BY <4>1, ShownIs
      <4>3. active' /\ ~stoppingByUs'
        <5>1. Started # NotStarted /\ <<Started>> # <<NotStarted>>
          BY DEF Started, NotStarted, Answer
        <5>2. <<Started>> # <<NotStopped, NotStarted>> /\ <<Started>> # <<Started, Stopped>>
              /\ <<Started>> # <<NotStopped, Started, Stopped>>
          OBVIOUS
        <5> QED BY <1>1, <1>2, <2>2, <3>1, <5>1, <5>2 DEF StartAnswered
      <4> QED BY <3>0, <4>1, <4>2, <4>3 DEF Button, SaysStop
    <3>2. CASE broadcasts = <<NotStarted>>
      <4>1. broadcasts' = <<>> /\ ui' = [ui EXCEPT !.enabled = TRUE]
        BY <1>1, <3>2, AnswerTypes, Heard, ShownIs
      <4>2. ui'.shown /\ ~ui'.running
        BY <3>0, <4>1 DEF TypeOK
      <4>3. ~active'
        <5>1. Started # NotStarted /\ <<NotStarted>> # <<Started>>
          BY DEF Started, NotStarted, Answer
        <5>2. <<NotStarted>> # <<NotStopped, Started>>
          OBVIOUS
        <5> QED BY <1>2, <2>2, <3>2, <5>1, <5>2 DEF StartAnswered
      <4> QED BY <3>0, <4>1, <4>2, <4>3 DEF Button, SaysStart, Ending
    <3>3. CASE broadcasts = <<NotStopped, Started>> \/ broadcasts = <<NotStopped, NotStarted>>
               \/ broadcasts = <<NotStopped, Started, Stopped>>
      <4>1. ui' = ui
        BY <1>1, <3>3, AnswerTypes, Heard, ShownIs
      <4>2. /\ broadcasts = <<NotStopped, Started>> => broadcasts' = <<Started>>
            /\ broadcasts = <<NotStopped, NotStarted>> => broadcasts' = <<NotStarted>>
            /\ broadcasts = <<NotStopped, Started, Stopped>> => broadcasts' = <<Started, Stopped>>
        <5>1. Tail(<<NotStopped, Started>>) = <<Started>> /\ Tail(<<NotStopped, NotStarted>>) = <<NotStarted>>
          BY AnswerTypes, Heard
        <5>2. Tail(<<NotStopped, Started, Stopped>>) = <<Started, Stopped>>
          BY AnswerTypes, Heard
        <5> QED BY <1>1, <5>1, <5>2
      <4>3. \/ broadcasts = <<NotStopped, Started>> /\ active /\ ~stoppingByUs
            \/ broadcasts = <<NotStopped, NotStarted>> /\ ~active
            \/ broadcasts = <<NotStopped, Started, Stopped>> /\ ~active
        <5>1. Started # NotStarted
          BY DEF Started, NotStarted, Answer
        <5>2. <<NotStopped, Started>> # <<NotStopped, NotStarted>>
          BY <5>1
        <5>3. <<NotStopped, Started>> # <<Started, Stopped>>
          BY DEF Started, NotStopped, Answer
        <5>4. /\ <<NotStopped, Started>> # <<NotStarted>>
              /\ <<NotStopped, Started>> # <<NotStopped, Started, Stopped>>
              /\ <<NotStopped, NotStarted>> # <<Started>>
              /\ <<NotStopped, Started, Stopped>> # <<Started>>
              /\ <<NotStopped, Started, Stopped>> # <<NotStopped, Started>>
          OBVIOUS
        <5> QED BY <2>2, <3>3, <5>2, <5>3, <5>4 DEF StartAnswered
      <4> QED BY <1>1, <1>2, <3>0, <4>1, <4>2, <4>3 DEF Button, StartAnswered
    <3>4. CASE broadcasts = <<Started, Stopped>>
      <4>1. broadcasts' = <<Stopped>> /\ ui' = ShowUi(TRUE)
        BY <1>1, <3>4, AnswerTypes, Heard, ShownIs
      <4>2. ui'.shown /\ ui'.running
        BY <4>1, ShownIs
      <4>3. ~active'
        <5>1. <<Started, Stopped>> # <<NotStopped, Started>> /\ <<Started, Stopped>> # <<Started>>
          BY DEF Started, NotStopped, Answer
        <5> QED BY <1>2, <2>2, <3>4, <5>1 DEF StartAnswered
      <4> QED BY <3>0, <4>1, <4>2, <4>3 DEF Button, SaysStop, Ending
    <3> QED BY <2>2, <3>1, <3>2, <3>3, <3>4 DEF StartAnswered
  <2>3. CASE SaysStop
    <3>1. broadcasts = <<Stopped>> \/ broadcasts = <<Stopped, NotStopped>>
      BY <1>1, <2>3 DEF SaysStop
    <3>2. ui' = ShowUi(FALSE)
      <4>1. Head(broadcasts) = Stopped
        BY <3>1, AnswerTypes, Heard
      <4> QED BY <1>1, <4>1, ShownIs
    <3>3. ui'.shown /\ ~ui'.running /\ ~Busy' /\ Ending'
      <4>1. Ending
        BY <1>1, <2>3 DEF SaysStop
      <4> QED BY <1>1, <1>2, <2>3, <3>2, <4>1, ShownIs DEF SaysStop, Ending
    <3>4. CASE broadcasts = <<Stopped>>
      <4>1. broadcasts' = <<>>
        BY <1>1, <3>4, AnswerTypes, Heard
      <4> QED BY <3>3, <4>1 DEF Button, SaysStart
    <3>5. CASE broadcasts = <<Stopped, NotStopped>>
      <4>1. broadcasts' = <<NotStopped>>
        BY <1>1, <3>5, AnswerTypes, Heard
      <4>2. <<Stopped, NotStopped>> # <<>> /\ <<Stopped, NotStopped>> # <<Stopped>>
        OBVIOUS
      <4>3. ~HasStop(serviceQ')
        BY <1>1, <2>3, <3>5, <4>2 DEF SaysStop
      <4> QED BY <3>3, <4>1, <4>3 DEF Button, SaysStart
    <3> QED BY <3>1, <3>4, <3>5
  <2> QED BY <2>1, <2>2, <2>3 DEF Button
<1> QED BY <1>3, <1>4, <1>5 DEF OneKept

-----------------------------------------------------------------------------
(* Android *)

\* The service is stopped from outside.
LEMMA OneOsStop ==
  ASSUME OneUserInv, OsStopService
  PROVE  OneKept
<1> USE DEF OneUserInv
<1>1. /\ serviceQ' = Append(serviceQ, Destroy)
      /\ UNCHANGED <<ui, broadcasts, theScreen, stoppingByUs, prefs, inputEnabled, dialogs>>
  BY DEF OsStopService, svcVars
<1>2. serviceQ \in Seq(Messages)
  BY DEF TypeOK
<1>3. (active' <=> active) /\ (HasDialog' <=> HasDialog)
  BY <1>1 DEF active, HasDialog
<1>4. /\ QueueOK(serviceQ) => QueueOK(serviceQ')
      /\ HasToken(serviceQ') <=> HasToken(serviceQ)
      /\ HasStop(serviceQ') <=> HasStop(serviceQ)
      /\ TokensBehind(serviceQ) => TokensBehind(serviceQ')
      /\ ResultsBehind(serviceQ) => ResultsBehind(serviceQ')
      /\ Pending(serviceQ')
  BY <1>1, <1>2, QueueDestroy
<1>5. InQueue'
  BY <1>1, <1>3, <1>4 DEF InQueue
<1>6. InDialogs'
  BY <1>1, <1>3, <1>4 DEF InDialogs
<1>7. Button'
  BY <1>1, <1>3, <1>4, ButtonKept DEF Busy
<1>8. ViewOnly'
  BY <1>1, <1>2, <1>3, AnswersDestroy, ViewKept DEF ViewOnly
<1> QED BY <1>5, <1>6, <1>7, <1>8 DEF OneKept

\* The capture of the screen and the key say nothing of the button.
LEMMA OneQuiet ==
  ASSUME OneUserInv, Disturbances \subseteq OneUserEvents,
         OnConfigurationChanged \/ RevokeProjection \/ EditAccessKey \/ UNCHANGED vars
  PROVE  OneKept
<1>1. StartScreenCapture(granted) => UNCHANGED dialogs
  BY DEF StartScreenCapture, Disturb, OneUserEvents
<1>2. UNCHANGED <<serviceQ, dialogs, ui, broadcasts, theScreen, stoppingByUs, prefs, inputEnabled>>
  BY <1>1 DEF OnConfigurationChanged, RevokeProjection, EditAccessKey, vars, svcVars
<1> QED BY <1>2, QuietKept DEF OneKept

\* What the one user and this Android do not do.
LEMMA OneExcluded ==
  ASSUME OneUserInv, Disturbances \subseteq OneUserEvents
  PROVE  ~(UiCreate \/ UiDestroy \/ ConnectRequest \/ ClickPermissionLabel
           \/ RecreateDialog \/ ForeignStartService \/ ProcessDeath)
<1>1. ui.shown
  BY DEF OneUserInv, Button
<1> QED
  BY <1>1 DEF UiCreate, UiDestroy, ConnectRequest, ClickPermissionLabel, RecreateDialog,
              ForeignStartService, ProcessDeath, Disturb, OneUserEvents

-----------------------------------------------------------------------------
LEMMA OneInit == Init => OneUserInv
<1> SUFFICES ASSUME Init PROVE OneUserInv
  OBVIOUS
<1>1. /\ serviceQ = <<>> /\ DOMAIN serviceQ = {} /\ ~active /\ ~stoppingByUs /\ broadcasts = <<>>
      /\ ui.shown /\ ~ui.running /\ \A k \in DialogKinds : dialogs[k] = 0
  BY DEF Init, active, ShowUi
<1>2. /\ ~HasToken(serviceQ) /\ ~HasStop(serviceQ) /\ QueueOK(serviceQ)
      /\ ~HasDialog /\ ~Busy
  BY <1>1 DEF HasToken, HasStop, QueueOK, HasDialog, Busy
<1>3. InQueue
  BY <1>1, <1>2 DEF InQueue
<1>4. InDialogs
  BY <1>1, <1>2 DEF InDialogs
<1>5. Button
  BY <1>1, <1>2 DEF Button, SaysStart, Ending
<1>6. ViewOnly
  BY <1>1 DEF ViewOnly
<1> QED BY <1>3, <1>4, <1>5, <1>6, TypeInit DEF OneUserInv

LEMMA OneNext ==
  ASSUME OneUserInv, Disturbances \subseteq OneUserEvents, [Next]_vars
  PROVE  OneUserInv'
<1>1. TypeOK'
  BY TypeNext DEF OneUserInv
<1>2. OneKept
  <2>1. CASE ServiceStep
    BY <2>1, OneCreate, OneDestroy, OneReject, OneResult, OneStart, OneStop, OneOther
    DEF ServiceStep
  <2>2. CASE DialogStep
    BY <2>2, OneDialog
  <2>3. CASE UiStep
    BY <2>3, OneReceive, OneClick, OneQuiet, OneExcluded DEF UiStep
  <2>4. CASE EnvironmentStep
    BY <2>4, OneQuiet, OneAbandon, OneOsStop, OneExcluded DEF EnvironmentStep
  <2>5. CASE UNCHANGED vars
    BY <2>5, OneQuiet
  <2> QED BY <2>1, <2>2, <2>3, <2>4, <2>5, NextSteps
<1> QED BY <1>1, <1>2 DEF OneKept, OneUserInv

\* For one user at a time there is one start on its way: it is in the queue of the
\* service or is a dialog, the button is disabled until it is answered, and what the
\* user answers is about the START whose arguments are persisted.
THEOREM OneStartAtATime ==
  ASSUME Disturbances \subseteq OneUserEvents
  PROVE  Spec => []OneUserInv
<1>1. OneUserInv /\ [Next]_vars => OneUserInv'
  BY OneNext
<1> QED BY <1>1, OneInit, PTL DEF Spec

\* When all messages between MainService and the ServerActivity have arrived, the
\* button says Stop exactly when there is a server to stop: no answer of the service
\* is lost, and none is overtaken by the answer to a later click, although the
\* service may be stopped by Android and the port may be taken at any time.
THEOREM ButtonAgrees ==
  ASSUME Disturbances \subseteq OneUserEvents
  PROVE  Spec => []UiAgrees
<1>1. OneUserInv => UiAgrees
  <2> SUFFICES ASSUME OneUserInv, Settled PROVE ui.running <=> active
    BY DEF UiAgrees
  <2>1. serviceQ = <<>> /\ broadcasts = <<>> /\ ~Pending(serviceQ)
    BY DEF Settled, Pending
  <2>2. ~stoppingByUs
    BY <2>1 DEF OneUserInv, InQueue
  <2>3. CASE SaysStart
    BY <2>2, <2>3 DEF SaysStart, Ending
  <2>4. CASE StartAnswered
    BY <2>1, <2>4 DEF StartAnswered
  <2>5. CASE SaysStop
    BY <2>1, <2>5 DEF SaysStop
  <2> QED BY <2>3, <2>4, <2>5 DEF OneUserInv, Button
<1> QED BY <1>1, OneStartAtATime, PTL

\* A server that runs for a START with view-only takes no input: the switch of the
\* InputService is never left on by an answer to an earlier START.
THEOREM ViewOnlyIsHonoured ==
  ASSUME Disturbances \subseteq OneUserEvents
  PROVE  Spec => []ViewOnlyHonoured
<1>1. OneUserInv => ViewOnlyHonoured
  BY DEF OneUserInv, ViewOnly, NoInput, ViewOnlyHonoured
<1> QED BY <1>1, OneStartAtATime, PTL
===============================================================================
