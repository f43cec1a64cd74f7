------------------------ MODULE ViewerConnection_proofs ------------------------
EXTENDS ViewerConnection, SequenceTheorems, FiniteSetTheorems,
        FunctionTheorems, TLAPS

\* What the types of TypeOK leave open: an event in the queue is not longer than the array,
\* and a format is sent only when a colour model has been chosen.
BufferLongEnough ==
  \A n \in DOMAIN Pending : Pending[n].array = "event" =>
    Len(Pending[n].asked.units) <= Len(eventBuf)
ModelChosen == pc \in {"format", "bpp", "palette", "model", "clear"} => pendingColorModel # NoModel

-----------------------------------------------------------------------------
(* The messages *)

LEMMA TaskKinds ==
  ASSUME NEW t \in Tasks
  PROVE  /\ t.array \in {"fresh", "request", "event"}
         /\ t.asked \in Outgoing
         /\ t.asked.kind \in {"format", "encodings", "request", "event"}
         /\ t.array = "request" <=> t.asked.kind = "request"
         /\ t.array = "event" <=> t.asked.kind = "event"
         /\ t.asked.kind = "event" => t.asked.units \in Seq(Units)
         /\ t.asked.kind = "request" => t.asked = Request(t.asked.incremental)
BY DEF Tasks, Outgoing, Fresh, Requests, Events, RequestTasks, EventTasks, Request

LEMMA TasksMade ==
  /\ \A m \in Models : Task("fresh", Format(m)) \in Tasks
  /\ Task("fresh", Encodings) \in Tasks
  /\ \A b \in BOOLEAN : Task("request", Request(b)) \in Tasks
  /\ \A units \in Seq(Units) : Task("event", Event(units)) \in Tasks
<1>1. ASSUME NEW m \in Models PROVE Task("fresh", Format(m)) \in Tasks
  BY DEF Task, Format, Tasks, Outgoing, Fresh, Requests, Events, RequestTasks, EventTasks
<1>2. Task("fresh", Encodings) \in Tasks
  BY DEF Task, Encodings, Tasks, Outgoing, Fresh, Requests, Events, RequestTasks, EventTasks
<1>3. ASSUME NEW b \in BOOLEAN PROVE Task("request", Request(b)) \in Tasks
  BY DEF Task, Request, Tasks, Outgoing, Fresh, Requests, Events, RequestTasks, EventTasks
<1>4. ASSUME NEW units \in Seq(Units) PROVE Task("event", Event(units)) \in Tasks
  BY DEF Task, Event, Tasks, Outgoing, Fresh, Requests, Events, RequestTasks, EventTasks
<1> QED BY <1>1, <1>2, <1>3, <1>4

-----------------------------------------------------------------------------
(* What the executor does to the sequence of the pending tasks *)

ExecOK ==
  /\ putting \in Seq([thread : {"canvas", "ui"}, task : Tasks]) /\ Len(putting) <= 1
  /\ tasks \in Seq(Tasks) /\ Len(tasks) <= Capacity
  /\ writing \in Seq(Tasks) /\ Len(writing) <= 1

LEMMA AtMostOne ==
  ASSUME NEW S, NEW s \in Seq(S), Len(s) <= 1, s # <<>>
  PROVE  \E x \in S : s = <<x>>
<1>1. Len(s) = 1
  <2>1. Len(s) \in Nat \ {0}
    BY EmptySeq
  <2> QED BY <2>1
<1>2. s[1] \in S
  BY <1>1, ElementOfSeq
<1>3. s = <<s[1]>>
  BY <1>1, <1>2, SeqEqual
<1> QED BY <1>2, <1>3

LEMMA LastType ==
  ASSUME ExecOK
  PROVE  [n \in DOMAIN putting |-> putting[n].task] \in Seq(Tasks)
<1>1. DOMAIN putting = 1..Len(putting) /\ Len(putting) \in Nat
  BY LenProperties DEF ExecOK
<1>2. \A n \in 1..Len(putting) : putting[n].task \in Tasks
  <2> TAKE n \in 1..Len(putting)
  <2>1. putting[n] \in [thread : {"canvas", "ui"}, task : Tasks]
    BY ElementOfSeq DEF ExecOK
  <2> QED BY <2>1
<1>3. [n \in 1..Len(putting) |-> putting[n].task] \in Seq(Tasks)
  BY <1>1, <1>2, IsASeq
<1> QED BY <1>1, <1>3

LEMMA PendingType ==
  ASSUME ExecOK
  PROVE  /\ Pending \in Seq(Tasks)
         /\ [n \in DOMAIN putting |-> putting[n].task] \in Seq(Tasks)
         /\ Pending = writing \o (tasks \o [n \in DOMAIN putting |-> putting[n].task])
<1> DEFINE last == [n \in DOMAIN putting |-> putting[n].task]
<1>1. last \in Seq(Tasks)
  BY LastType
<1>2. writing \o tasks \in Seq(Tasks)
  BY ConcatProperties DEF ExecOK
<1> HIDE DEF last
<1>3. (writing \o tasks) \o last \in Seq(Tasks)
  BY <1>1, <1>2, ConcatProperties
<1>4. (writing \o tasks) \o last = writing \o (tasks \o last)
  BY <1>1, ConcatAssociative DEF ExecOK
<1> QED BY <1>1, <1>3, <1>4 DEF Pending, last

\* A task is accepted: it is the last one, also while it waits for room.
LEMMA ExecutePending ==
  ASSUME ExecOK, NEW thread \in {"canvas", "ui"}, NEW task \in Tasks, Execute(thread, task)
  PROVE  ExecOK' /\ Pending' = IF closed THEN Pending ELSE Append(Pending, task)
<1>1. putting = <<>> /\ [n \in DOMAIN putting |-> putting[n].task] = <<>>
  BY DEF Execute
<1>2. writing \o tasks \in Seq(Tasks) /\ tasks \in Seq(Tasks) /\ writing \in Seq(Tasks)
  BY ConcatProperties DEF ExecOK
<1>3. Pending = writing \o tasks
  BY <1>1, <1>2, ConcatEmptySeq DEF Pending
<1>4. Append(Pending, task) = (writing \o tasks) \o <<task>>
  BY <1>2, <1>3, AppendIsConcat
<1>5. CASE closed
  <2>1. UNCHANGED <<putting, tasks, writing>>
    BY <1>5 DEF Execute
  <2> QED BY <1>5, <2>1 DEF ExecOK, Pending
<1>6. CASE ~closed /\ Len(tasks) < Capacity
  <2>1. tasks' = Append(tasks, task) /\ UNCHANGED <<putting, writing>>
    <3>1. Len(tasks) \in Nat /\ Capacity \in Nat
      BY LenProperties, CapacityAssumption DEF ExecOK
    <3> QED BY <1>6, <3>1 DEF Execute
  <2>2. tasks' = tasks \o <<task>> /\ tasks' \in Seq(Tasks) /\ <<task>> \in Seq(Tasks)
    BY <1>2, <2>1, AppendIsConcat, AppendProperties
  <2>3. Pending' = writing \o tasks'
    BY <1>1, <1>2, <2>1, <2>2, ConcatEmptySeq, ConcatProperties DEF Pending
  <2>4. Pending' = (writing \o tasks) \o <<task>>
    BY <1>2, <2>2, <2>3, ConcatAssociative
  <2>5. Len(tasks') = Len(tasks) + 1 /\ Len(tasks) \in Nat
    BY <1>2, <2>1, AppendProperties, LenProperties
  <2>6. ExecOK'
    BY <1>6, <2>1, <2>2, <2>5, CapacityAssumption DEF ExecOK
  <2> QED BY <1>4, <1>6, <2>4, <2>6
<1>7. CASE ~closed /\ Len(tasks) >= Capacity
  <2>1. putting' = <<[thread |-> thread, task |-> task]>> /\ UNCHANGED <<tasks, writing>>
    BY <1>7, CapacityAssumption DEF Execute, ExecOK
  <2>2. [n \in DOMAIN putting' |-> putting'[n].task] = <<task>>
    BY <2>1
  <2>3. Pending' = (writing \o tasks) \o <<task>>
    BY <2>1, <2>2 DEF Pending
  <2> QED BY <1>4, <1>7, <2>1, <2>3 DEF ExecOK
<1> QED BY <1>5, <1>6, <1>7 DEF Execute

\* The executor's thread takes the first task, and a caller that has waited for room goes
\* on: nothing pending changes.
LEMMA MovePending ==
  ASSUME ExecOK, PutDone \/ TakeTask
  PROVE  ExecOK' /\ Pending' = Pending
<1>1. CASE PutDone
  <2>1. PICK x \in [thread : {"canvas", "ui"}, task : Tasks] : putting = <<x>>
    BY <1>1, AtMostOne DEF PutDone, ExecOK
  <2>2. /\ putting' = <<>> /\ tasks' = Append(tasks, x.task) /\ writing' = writing
        /\ x.task \in Tasks
    BY <1>1, <2>1 DEF PutDone
  <2>3. /\ [n \in DOMAIN putting |-> putting[n].task] = <<x.task>>
        /\ [n \in DOMAIN putting' |-> putting'[n].task] = <<>>
    BY <2>1, <2>2
  <2>4. tasks' = tasks \o <<x.task>> /\ tasks' \in Seq(Tasks) /\ <<x.task>> \in Seq(Tasks)
    BY <2>2, AppendIsConcat, AppendProperties DEF ExecOK
  <2>5. ExecOK'
    <3>1. Len(tasks') = Len(tasks) + 1 /\ Len(tasks) \in Nat /\ Len(tasks) < Capacity
      BY <1>1, <2>2, AppendProperties, LenProperties DEF ExecOK, PutDone
    <3> QED BY <2>2, <2>4, <3>1, CapacityAssumption DEF ExecOK
  <2>6. Pending' = writing \o tasks'
    BY <2>2, <2>3, <2>4, ConcatEmptySeq, ConcatProperties DEF Pending, ExecOK
  <2>7. Pending = writing \o tasks'
    <3>1. (writing \o tasks) \o <<x.task>> = writing \o (tasks \o <<x.task>>)
      BY <2>4, ConcatAssociative DEF ExecOK
    <3> QED BY <2>3, <2>4, <3>1 DEF Pending
  <2> QED BY <2>5, <2>6, <2>7
<1>2. CASE TakeTask
  <2>1. PICK t \in Tasks : /\ writing = <<>> /\ writing' = <<t>> /\ t = Head(tasks)
                           /\ tasks' = Tail(tasks) /\ putting' = putting /\ tasks # <<>>
    BY <1>2, HeadTailProperties DEF TakeTask, ExecOK
  <2>2. tasks' \in Seq(Tasks) /\ tasks = <<t>> \o tasks'
    BY <2>1, HeadTailProperties DEF ExecOK
  <2>3. ExecOK'
    <3>1. Len(tasks') = Len(tasks) - 1 /\ Len(tasks) \in Nat
      BY <2>1, HeadTailProperties, LenProperties DEF ExecOK
    <3> QED BY <2>1, <2>2, <3>1, CapacityAssumption DEF ExecOK
  <2>4. writing \o tasks = writing' \o tasks'
    BY <2>1, <2>2, ConcatEmptySeq DEF ExecOK
  <2> QED BY <2>1, <2>3, <2>4 DEF Pending
<1> QED BY <1>1, <1>2

\* The first of them is written.
LEMMA RunPending ==
  ASSUME ExecOK, RunTask
  PROVE  /\ ExecOK' /\ Pending # <<>> /\ writing[1] = Head(Pending) /\ Pending' = Tail(Pending)
<1> DEFINE rest == tasks \o [n \in DOMAIN putting |-> putting[n].task]
<1>1. PICK t \in Tasks : writing = <<t>> /\ writing' = <<>> /\ UNCHANGED <<tasks, putting>>
  BY AtMostOne DEF RunTask, ExecOK
<1>2. rest \in Seq(Tasks) /\ Pending = writing \o rest
  BY PendingType, ConcatProperties DEF ExecOK
<1>3. ExecOK'
  BY <1>1 DEF ExecOK
<1>4. Pending' = writing' \o rest
  <2>1. rest' = rest /\ rest \in Seq(Tasks)
    BY <1>1, <1>2
  <2>2. Pending' = (writing' \o tasks) \o [n \in DOMAIN putting |-> putting[n].task]
    BY <1>1 DEF Pending
  <2> QED BY <1>1, <2>2, LastType, ConcatAssociative, EmptySeq DEF ExecOK
<1> HIDE DEF rest
<1>5. Pending' = rest
  BY <1>1, <1>2, <1>4, ConcatEmptySeq
<1>6. Pending # <<>> /\ Head(Pending) = t /\ Tail(Pending) = rest
  BY <1>1, <1>2
<1> QED BY <1>1, <1>3, <1>5, <1>6

-----------------------------------------------------------------------------
(* Counting in a sequence *)

LEMMA CountType ==
  ASSUME NEW T, NEW S, NEW seq \in Seq(T)
  PROVE  /\ IsFiniteSet({n \in DOMAIN seq : seq[n] \in S})
         /\ Count(seq, S) \in Nat
         /\ Count(seq, S) = 0 <=> \A n \in DOMAIN seq : seq[n] \notin S
<1> DEFINE here == {n \in DOMAIN seq : seq[n] \in S}
<1>1. DOMAIN seq = 1..Len(seq) /\ Len(seq) \in Nat
  BY LenProperties
<1>2. IsFiniteSet(here)
  <2>1. IsFiniteSet(1..Len(seq))
    BY <1>1, FS_Interval
  <2> QED BY <1>1, <2>1, FS_Subset
<1>3. Cardinality(here) \in Nat /\ (Cardinality(here) = 0 <=> here = {})
  BY <1>2, FS_CardinalityType, FS_EmptySet
<1> QED BY <1>2, <1>3 DEF Count

LEMMA CountAppend ==
  ASSUME NEW T, NEW S, NEW seq \in Seq(T), NEW e \in T
  PROVE  Count(Append(seq, e), S) = Count(seq, S) + (IF e \in S THEN 1 ELSE 0)
<1> DEFINE here == {n \in DOMAIN seq : seq[n] \in S}
           there == {n \in DOMAIN Append(seq, e) : Append(seq, e)[n] \in S}
<1>1. /\ DOMAIN seq = 1..Len(seq) /\ Len(seq) \in Nat
      /\ DOMAIN Append(seq, e) = 1..(Len(seq) + 1)
      /\ Append(seq, e)[Len(seq) + 1] = e
      /\ \A n \in 1..Len(seq) : Append(seq, e)[n] = seq[n]
  BY LenProperties, AppendProperties
<1>2. there = here \cup (IF e \in S THEN {Len(seq) + 1} ELSE {}) /\ Len(seq) + 1 \notin here
  BY <1>1
<1>3. IsFiniteSet(here) /\ Cardinality(here) \in Nat
  BY CountType DEF Count
<1>4. CASE e \in S
  <2>1. there = here \cup {Len(seq) + 1}
    BY <1>2, <1>4
  <2> HIDE DEF here, there
  <2>2. Cardinality(there) = Cardinality(here) + 1
    BY <1>2, <1>3, <2>1, FS_AddElement
  <2> QED BY <1>4, <2>2 DEF Count, here, there
<1>5. CASE e \notin S
  <2>1. there = here
    BY <1>2, <1>5
  <2>2. Count(Append(seq, e), S) = Cardinality(there) /\ Count(seq, S) = Cardinality(here)
    BY DEF Count
  <2> HIDE DEF here, there
  <2> QED BY <1>3, <1>5, <2>1, <2>2
<1> QED BY <1>4, <1>5

LEMMA CountTail ==
  ASSUME NEW T, NEW S, NEW seq \in Seq(T), seq # <<>>
  PROVE  Count(seq, S) = Count(Tail(seq), S) + (IF Head(seq) \in S THEN 1 ELSE 0)
<1> DEFINE here == {n \in DOMAIN seq : seq[n] \in S}
           there == {n \in DOMAIN Tail(seq) : Tail(seq)[n] \in S}
           next == [n \in there |-> n + 1]
<1>1. /\ DOMAIN seq = 1..Len(seq) /\ Len(seq) \in Nat \ {0}
      /\ Tail(seq) \in Seq(T) /\ DOMAIN Tail(seq) = 1..(Len(seq) - 1)
      /\ \A n \in 1..(Len(seq) - 1) : Tail(seq)[n] = seq[n + 1]
  BY LenProperties, HeadTailProperties, EmptySeq
<1>2. Head(seq) = seq[1]
  OBVIOUS
<1>3. here \ {1} = {n + 1 : n \in there}
  <2>1. ASSUME NEW k \in here \ {1} PROVE k - 1 \in there /\ k = (k - 1) + 1
    BY <1>1, <2>1
  <2>2. ASSUME NEW n \in there PROVE n + 1 \in here \ {1}
    BY <1>1, <2>2
  <2> HIDE DEF here, there
  <2> QED BY <2>1, <2>2
<1>4. ExistsBijection(there, here \ {1})
  <2>1. there \subseteq Nat
    <3>1. there \subseteq DOMAIN Tail(seq) /\ 1..(Len(seq) - 1) \subseteq Nat
      OBVIOUS
    <3> HIDE DEF there
    <3> QED BY <1>1, <3>1
  <2> HIDE DEF here, there
  <2>2. next \in [there -> here \ {1}] /\ \A a, b \in there : next[a] = next[b] => a = b
    BY <1>3, <2>1
  <2>3. \A k \in here \ {1} : \E n \in there : next[n] = k
    BY <1>3
  <2> HIDE DEF next
  <2>4. next \in Bijection(there, here \ {1})
    BY <2>2, <2>3, Fun_IsBij
  <2> QED BY <2>4 DEF ExistsBijection
<1>5. /\ IsFiniteSet(here) /\ Cardinality(here) \in Nat
      /\ IsFiniteSet(there) /\ Cardinality(there) \in Nat
  <2>1. IsFiniteSet(here) /\ Count(seq, S) \in Nat
    BY CountType
  <2>2. IsFiniteSet(there) /\ Count(Tail(seq), S) \in Nat
    BY <1>1, CountType
  <2> QED BY <2>1, <2>2 DEF Count
<1>6. (1 \in here) <=> (Head(seq) \in S)
  BY <1>1, <1>2
<1>7. Cardinality(there) = Cardinality(here \ {1})
  <2> HIDE DEF here, there
  <2> QED BY <1>4, <1>5, FS_Bijection
<1>8. Cardinality(here \ {1}) = IF 1 \in here THEN Cardinality(here) - 1 ELSE Cardinality(here)
  <2> HIDE DEF here, there
  <2> QED BY <1>5, FS_RemoveElement
<1>9. Count(Tail(seq), S) = Cardinality(there) /\ Count(seq, S) = Cardinality(here)
  BY DEF Count
<1> HIDE DEF here, there
<1> QED BY <1>5, <1>6, <1>7, <1>8, <1>9

\* The elements of a sequence that has grown or lost its first.
LEMMA AppendElements ==
  ASSUME NEW T, NEW seq \in Seq(T), NEW e \in T
  PROVE  /\ Append(seq, e) \in Seq(T)
         /\ DOMAIN seq = 1..Len(seq) /\ Len(seq) \in Nat
         /\ DOMAIN Append(seq, e) = 1..(Len(seq) + 1)
         /\ \A n \in DOMAIN Append(seq, e) :
              Append(seq, e)[n] = IF n \in DOMAIN seq THEN seq[n] ELSE e
         /\ Append(seq, e)[Len(seq) + 1] = e
BY AppendProperties, LenProperties

LEMMA TailElements ==
  ASSUME NEW T, NEW seq \in Seq(T), seq # <<>>
  PROVE  /\ Tail(seq) \in Seq(T) /\ Head(seq) \in T
         /\ DOMAIN seq = 1..Len(seq) /\ Len(seq) \in Nat \ {0}
         /\ DOMAIN Tail(seq) = 1..(Len(seq) - 1)
         /\ \A n \in DOMAIN Tail(seq) : Tail(seq)[n] = seq[n + 1] /\ n + 1 \in DOMAIN seq
         /\ Head(seq) = seq[1]
<1>1. Head(seq) = seq[1]
  OBVIOUS
<1> QED BY <1>1, HeadTailProperties, LenProperties, EmptySeq

-----------------------------------------------------------------------------
(* Types *)

Typed == TypeOK /\ BufferLongEnough /\ ModelChosen

LEMMA TypedExec ==
  ASSUME TypeOK
  PROVE  ExecOK
BY DEF TypeOK, ExecOK

LEMMA SamePending ==
  ASSUME UNCHANGED execVars
  PROVE  Pending' = Pending
BY DEF Pending, execVars

\* Where an array is not longer than the task says, the executor finds a message of
\* the kind it was given.
LEMMA ContentsType ==
  ASSUME Typed, NEW n \in DOMAIN Pending
  PROVE  /\ Pending[n] \in Tasks
         /\ Contents(Pending[n]) \in Outgoing
         /\ Contents(Pending[n]).kind = Pending[n].asked.kind
         /\ Pending[n].array = "fresh" => Contents(Pending[n]) = Pending[n].asked
<1> DEFINE t == Pending[n]
<1>1. t \in Tasks
  <2>1. Pending \in Seq(Tasks)
    BY TypedExec, PendingType DEF Typed
  <2> QED BY <2>1, ElementOfSeq, LenProperties
<1>2. CASE t.array = "fresh"
  BY <1>1, <1>2, TaskKinds DEF Contents
<1>3. CASE t.array = "request"
  <2>1. Contents(t) = Request(requestBuf) /\ requestBuf \in BOOLEAN
    BY <1>3 DEF Contents, Typed, TypeOK
  <2>2. Request(requestBuf) \in Outgoing /\ Request(requestBuf).kind = "request"
    BY <2>1 DEF Request, Outgoing, Requests
  <2>3. t.asked.kind = "request"
    BY <1>1, <1>3, TaskKinds
  <2> QED BY <1>1, <1>3, <2>1, <2>2, <2>3
<1>4. CASE t.array = "event"
  <2>1. Contents(t) = Event(SubSeq(eventBuf, 1, Len(t.asked.units)))
    BY <1>4 DEF Contents
  <2>2. eventBuf \in Seq(Units) /\ t.asked.units \in Seq(Units)
        /\ Len(t.asked.units) <= Len(eventBuf)
    BY <1>1, <1>4, TaskKinds DEF Typed, TypeOK, BufferLongEnough
  <2>3. Len(t.asked.units) \in Nat /\ Len(eventBuf) \in Nat
    BY <2>2, LenProperties
  <2>4. \A i \in 1..Len(t.asked.units) : eventBuf[i] \in Units
    BY <2>2, <2>3, ElementOfSeq
  <2>5. SubSeq(eventBuf, 1, Len(t.asked.units)) \in Seq(Units)
    BY <2>3, <2>4, SubSeqProperties
  <2> QED BY <1>1, <1>4, <2>1, <2>5, TaskKinds DEF Event, Outgoing, Events
<1> QED BY <1>1, <1>2, <1>3, <1>4, TaskKinds

LEMMA LongEnoughAppend ==
  ASSUME ExecOK, BufferLongEnough, NEW task \in Tasks,
         Pending' = IF closed THEN Pending ELSE Append(Pending, task),
         eventBuf \in Seq(Units), eventBuf' \in Seq(Units), Len(eventBuf) <= Len(eventBuf'),
         task.array = "event" => Len(task.asked.units) <= Len(eventBuf')
  PROVE  BufferLongEnough'
<1>1. Len(eventBuf) \in Nat /\ Len(eventBuf') \in Nat
  BY LenProperties
<1>2. Pending \in Seq(Tasks)
  BY PendingType
<1>3. ASSUME NEW n \in DOMAIN Pending', Pending'[n].array = "event"
      PROVE  Len(Pending'[n].asked.units) <= Len(eventBuf')
  <2>1. CASE n \in DOMAIN Pending
    <3>1. Pending'[n] = Pending[n]
      BY <1>2, <1>3, <2>1, AppendElements
    <3>2. Len(Pending[n].asked.units) <= Len(eventBuf)
      BY <1>3, <2>1, <3>1 DEF BufferLongEnough
    <3>3. Pending[n].asked.units \in Seq(Units)
      BY <1>2, <1>3, <2>1, <3>1, ElementOfSeq, LenProperties, TaskKinds
    <3>4. Len(Pending[n].asked.units) \in Nat
      BY <3>3, LenProperties
    <3> QED BY <1>1, <3>1, <3>2, <3>4
  <2>2. CASE n \notin DOMAIN Pending
    <3>1. Pending'[n] = task
      BY <1>2, <1>3, <2>2, AppendElements
    <3> QED BY <1>3, <3>1
  <2> QED BY <2>1, <2>2
<1> QED BY <1>3 DEF BufferLongEnough

LEMMA UnitsMade ==
  /\ \A down \in BOOLEAN : PointerUnits(down) \in Seq(Units)
  /\ \A key \in {"key", "modifier"}, down \in BOOLEAN : KeyUnits(key, down) \in Seq(Units)
  /\ \A old, new \in BOOLEAN : ModifierUnits(old, new) \in Seq(Units)
<1>1. ASSUME NEW down \in BOOLEAN PROVE PointerUnits(down) \in Seq(Units)
  <2>1. \A i \in 1..3 : <<"pointer", down, i>> \in Units
    BY DEF Units
  <2> QED BY <2>1, IsASeq DEF PointerUnits
<1>2. ASSUME NEW key \in {"key", "modifier"}, NEW down \in BOOLEAN
      PROVE  KeyUnits(key, down) \in Seq(Units)
  <2>1. \A i \in 1..4 : <<key, down, i>> \in Units
    BY DEF Units
  <2> QED BY <2>1, IsASeq DEF KeyUnits
<1>3. ASSUME NEW old \in BOOLEAN, NEW new \in BOOLEAN
      PROVE  ModifierUnits(old, new) \in Seq(Units)
  BY <1>2, EmptySeq DEF ModifierUnits
<1> QED BY <1>1, <1>2, <1>3

\* The array of the events grows to hold the longest event, and never shrinks.
LEMMA WriteEventTyped ==
  ASSUME Typed, NEW units \in Seq(Units), WriteEvent(units), oldModifiers' \in BOOLEAN, events > 0
  PROVE  /\ Typed'
         /\ ExecOK'
         /\ Pending' = IF closed THEN Pending ELSE Append(Pending, Task("event", Event(units)))
<1> DEFINE task == Task("event", Event(units))
<1>1. task \in Tasks /\ task.array = "event" /\ task.asked.units = units
  <2>1. task \in Tasks
    BY TasksMade
  <2> QED BY <2>1 DEF Task, Event
<1>2. ExecOK /\ Execute("ui", task)
  BY TypedExec DEF Typed, WriteEvent
<1> HIDE DEF task
<1>3. ExecOK' /\ Pending' = IF closed THEN Pending ELSE Append(Pending, task)
  BY <1>1, <1>2, ExecutePending
<1> DEFINE behind == SubSeq(eventBuf, Len(units) + 1, Len(eventBuf))
<1>4. eventBuf \in Seq(Units) /\ Len(eventBuf) \in Nat /\ Len(units) \in Nat
  BY LenProperties DEF Typed, TypeOK
<1>5. behind \in Seq(Units)
      /\ Len(behind) = IF Len(units) + 1 <= Len(eventBuf) THEN Len(eventBuf) - Len(units) ELSE 0
  <2>1. \A i \in (Len(units) + 1)..Len(eventBuf) : eventBuf[i] \in Units
    BY <1>4, ElementOfSeq
  <2>2. Len(units) + 1 \in Int /\ Len(eventBuf) \in Int
    BY <1>4
  <2>3. behind \in Seq(Units)
        /\ Len(behind) = IF Len(units) + 1 <= Len(eventBuf)
                         THEN Len(eventBuf) - (Len(units) + 1) + 1 ELSE 0
    BY <2>1, <2>2, SubSeqProperties
  <2> HIDE DEF behind
  <2> QED BY <1>4, <2>3
<1> HIDE DEF behind
<1>6. eventBuf' = units \o behind
  BY DEF WriteEvent, behind
<1>7. eventBuf' \in Seq(Units) /\ Len(eventBuf') = Len(units) + Len(behind)
  BY <1>5, <1>6, ConcatProperties
<1>8. Len(eventBuf) <= Len(eventBuf') /\ Len(units) <= Len(eventBuf')
  BY <1>4, <1>5, <1>7
<1>9. BufferLongEnough'
  BY <1>1, <1>2, <1>3, <1>4, <1>7, <1>8, LongEnoughAppend DEF Typed
<1>10. TypeOK'
  BY <1>3, <1>7, BoundsAssumption
     DEF Typed, TypeOK, ExecOK, WriteEvent, modelVars, canvasVars, serverVars
<1>11. ModelChosen'
  BY DEF Typed, ModelChosen, WriteEvent, modelVars, canvasVars
<1> QED BY <1>3, <1>9, <1>10, <1>11 DEF Typed, task

\* A step of the loop or of the user that hands over a task that is no event.
LEMMA HandOver ==
  ASSUME Typed, NEW thread \in {"canvas", "ui"}, NEW task \in Tasks, Execute(thread, task),
         task.array # "event", eventBuf' = eventBuf
  PROVE  /\ ExecOK' /\ BufferLongEnough'
         /\ Pending' = IF closed THEN Pending ELSE Append(Pending, task)
<1>1. ExecOK
  BY TypedExec DEF Typed
<1>2. ExecOK' /\ Pending' = IF closed THEN Pending ELSE Append(Pending, task)
  BY <1>1, ExecutePending
<1>3. eventBuf \in Seq(Units) /\ Len(eventBuf) \in Nat
  BY LenProperties DEF Typed, TypeOK
<1>4. BufferLongEnough'
  <2>1. Len(eventBuf) <= Len(eventBuf') /\ eventBuf' \in Seq(Units)
    BY <1>3
  <2> QED BY <1>1, <1>2, <1>3, <2>1, LongEnoughAppend DEF Typed
<1> QED BY <1>2, <1>4

\* The executor writes the first pending task, unless the socket is closed.
LEMMA RunTaskTyped ==
  ASSUME Typed, RunTask
  PROVE  /\ Typed' /\ Pending # <<>> /\ Pending' = Tail(Pending)
         /\ toServer' = IF closed THEN toServer ELSE Append(toServer, Contents(Pending[1]))
         /\ Contents(Pending[1]) \in Outgoing /\ 1 \in DOMAIN Pending
<1>1. ExecOK /\ Pending \in Seq(Tasks)
  BY TypedExec, PendingType DEF Typed
<1>2. ExecOK' /\ Pending # <<>> /\ writing[1] = Head(Pending) /\ Pending' = Tail(Pending)
  BY <1>1, RunPending
<1>3. Head(Pending) = Pending[1] /\ 1 \in DOMAIN Pending
  BY <1>1, <1>2, TailElements
<1>4. Contents(Pending[1]) \in Outgoing
  BY <1>3, ContentsType
<1>5. toServer' = IF closed THEN toServer ELSE Append(toServer, Contents(Pending[1]))
  BY <1>2, <1>3 DEF RunTask
<1>6. toServer' \in Seq(Outgoing)
  BY <1>4, <1>5, AppendProperties DEF Typed, TypeOK
<1>7. BufferLongEnough'
  <2>1. eventBuf' = eventBuf
    BY DEF RunTask, modelVars, bufVars
  <2>2. ASSUME NEW n \in DOMAIN Pending' PROVE n + 1 \in DOMAIN Pending /\ Pending'[n] = Pending[n + 1]
    BY <1>1, <1>2, <2>2, TailElements
  <2> QED BY <2>1, <2>2 DEF Typed, BufferLongEnough
<1>8. TypeOK'
  BY <1>2, <1>6 DEF Typed, TypeOK, ExecOK, RunTask, modelVars, canvasVars, bufVars, serverVars, budgets
<1>9. ModelChosen'
  BY DEF Typed, ModelChosen, RunTask, modelVars, canvasVars
<1> QED BY <1>2, <1>3, <1>4, <1>5, <1>7, <1>8, <1>9 DEF Typed

\* Steps that leave the executor alone, and with it the array of the events.
QuietCanvas ==
  ReadBpp \/ ReadPalette \/ ReadModel \/ ClearPending \/ Loop \/ AfterUpdate \/ LoopFails \/ Close
QuietUi == SetColorModel \/ CloseConnection \/ OnDestroy
QuietServer == ServerHandles \/ ServerUpdates \/ ServerChanges

LEMMA HeldType ==
  ASSUME NEW units, held \in BOOLEAN
  PROVE  HeldAfter(units) \in BOOLEAN
BY DEF HeldAfter

LEMMA QuietTyped ==
  ASSUME Typed, QuietCanvas \/ ReadMessage \/ QuietUi \/ QuietServer
  PROVE  Typed' /\ Pending' = Pending
<1>1. UNCHANGED execVars /\ eventBuf' = eventBuf
  BY DEF QuietCanvas, QuietUi, QuietServer, ReadBpp, ReadPalette, ReadModel, ClearPending, Loop,
         ReadMessage, AfterUpdate, LoopFails, Close, SetColorModel, CloseConnection, OnDestroy,
         ServerHandles, ServerUpdates, ServerChanges, modelVars, bufVars
<1>2. Pending' = Pending
  BY <1>1, SamePending
<1>3. BufferLongEnough'
  BY <1>1, <1>2 DEF Typed, BufferLongEnough
<1>4. ExecOK'
  BY <1>1, TypedExec DEF Typed, ExecOK, execVars
<1>5. CASE QuietCanvas
  <2>1. /\ UNCHANGED <<maintainConnection, bitmapData, bufVars, toServer, toViewer, serverVars, budgets>>
        /\ pc' \in {"bpp", "palette", "model", "clear", "encodings", "ask", "loop", "read",
                    "format", "closing", "closed"}
    BY <1>5 DEF QuietCanvas, ReadBpp, ReadPalette, ReadModel, ClearPending, Loop, AfterUpdate,
         LoopFails, Close, Go, WhileMaintained, AskAgain
  <2>2. /\ UNCHANGED encodings /\ fullUpdateNeeded' \in BOOLEAN
        /\ UNCHANGED <<announced, crossed>>
        /\ {pendingColorModel', colorModel', bytesPerPixel', colorPalette'}
             \subseteq Models \cup {NoModel}
    BY <1>5 DEF modelVars, QuietCanvas, ReadBpp, ReadPalette, ReadModel, ClearPending, Loop, AfterUpdate,
         LoopFails, Close, Typed, TypeOK
  <2>3. TypeOK'
    BY <1>4, <2>1, <2>2 DEF Typed, TypeOK, ExecOK, modelVars, bufVars, serverVars, budgets
  <2>4. ModelChosen'
    BY <1>5 DEF modelVars, QuietCanvas, ReadBpp, ReadPalette, ReadModel, ClearPending, Loop, AfterUpdate,
         LoopFails, Close, Go, WhileMaintained, AskAgain, Typed, ModelChosen
  <2> QED BY <1>2, <1>3, <2>3, <2>4 DEF Typed
<1>6. CASE ReadMessage
  <2>1. toViewer' \in Seq(Incoming) /\ Head(toViewer) \in Incoming
    BY <1>6, TailElements DEF ReadMessage, Typed, TypeOK
  <2>2. Head(toViewer).kind \in {"update", "other", "unexpected"}
    BY <2>1 DEF Incoming, Updates
  <2>3. pc' \in {"updated", "loop", "closing"}
    BY <1>6, <2>2 DEF ReadMessage, Go, AfterMessage
  <2>4. TypeOK'
    BY <1>4, <1>6, <2>1, <2>3
       DEF Typed, TypeOK, ExecOK, ReadMessage, modelVars, bufVars, serverVars, budgets
  <2> QED BY <1>2, <1>3, <2>3, <2>4 DEF Typed, ModelChosen
<1>7. CASE QuietUi
  <2>1. TypeOK'
    <3>1. CASE SetColorModel
      <4>1. pendingColorModel' \in Models /\ selections' \in 0..MaxSelections
        BY <3>1, BoundsAssumption DEF SetColorModel, Typed, TypeOK
      <4> QED BY <1>4, <3>1, <4>1
              DEF SetColorModel, Typed, TypeOK, ExecOK, modelVars, canvasVars, bufVars, serverVars, budgets
    <3>2. CASE CloseConnection
      <4>1. /\ maintainConnection' \in BOOLEAN
            /\ UNCHANGED <<canvasVars, modelVars, bitmapData, bufVars,
                           toServer, toViewer, serverVars, budgets>>
        BY <3>2 DEF CloseConnection
      <4> QED BY <1>4, <4>1 DEF Typed, TypeOK, ExecOK, modelVars, canvasVars, bufVars, serverVars, budgets
    <3>3. CASE OnDestroy
      <4>1. /\ bitmapData' \in BOOLEAN
            /\ UNCHANGED <<canvasVars, modelVars, maintainConnection, bufVars,
                           toServer, toViewer, serverVars, budgets>>
        BY <3>3 DEF OnDestroy
      <4> QED BY <1>4, <4>1 DEF Typed, TypeOK, ExecOK, modelVars, canvasVars, bufVars, serverVars, budgets
    <3> QED BY <1>7, <3>1, <3>2, <3>3 DEF QuietUi
  <2>2. ModelChosen'
    BY <1>7, ModelsAssumption DEF QuietUi, SetColorModel, CloseConnection, OnDestroy, Typed, ModelChosen,
         modelVars, canvasVars
  <2> QED BY <1>2, <1>3, <2>1, <2>2 DEF Typed
<1>8. CASE QuietServer
  <2>1. ModelChosen'
    BY <1>8 DEF QuietServer, ServerHandles, ServerUpdates, ServerChanges, Typed, ModelChosen,
         modelVars, canvasVars
  <2>2. UNCHANGED <<canvasVars, modelVars, maintainConnection, bitmapData, bufVars>>
    BY <1>8 DEF QuietServer, ServerHandles, ServerUpdates, ServerChanges
  <2>3. /\ toServer' \in Seq(Outgoing) /\ toViewer' \in Seq(Incoming)
        /\ format' \in Models \cup {NoModel}
        /\ requested' \in BOOLEAN /\ changed' \in BOOLEAN /\ held' \in BOOLEAN
        /\ serverUp' \in BOOLEAN
    <3>1. CASE ServerHandles
      <4>1. toServer' \in Seq(Outgoing) /\ Head(toServer) \in Outgoing
        BY <3>1, TailElements DEF ServerHandles, Typed, TypeOK
      <4>2. Head(toServer).kind = "format" => Head(toServer).model \in Models
        BY <4>1 DEF Outgoing, Fresh, Requests, Events
      <4>3. Head(toServer).kind = "event" => HeldAfter(Head(toServer).units) \in BOOLEAN
        BY <4>1, HeldType DEF Outgoing, Fresh, Requests, Events, Typed, TypeOK
      <4> QED BY <3>1, <4>1, <4>2, <4>3 DEF ServerHandles, Typed, TypeOK
    <3>2. CASE ServerUpdates
      <4>1. Update(format) \in Incoming
        BY DEF Update, Incoming, Updates, Typed, TypeOK
      <4> QED BY <3>2, <4>1, AppendProperties DEF ServerUpdates, Typed, TypeOK
    <3>3. CASE ServerChanges
      <4>1. Other \in Incoming /\ Unexpected \in Incoming
        BY DEF Other, Unexpected, Incoming, Updates
      <4>2. /\ toViewer' \in {toViewer, Append(toViewer, Other), Append(toViewer, Unexpected)}
            /\ changed' \in {changed, TRUE} /\ serverUp' \in {serverUp, FALSE}
            /\ UNCHANGED <<toServer, format, requested, held>>
        BY <3>3 DEF ServerChanges
      <4>3. toViewer' \in Seq(Incoming)
        <5>1. toViewer \in Seq(Incoming)
          BY DEF Typed, TypeOK
        <5>2. Append(toViewer, Other) \in Seq(Incoming) /\ Append(toViewer, Unexpected) \in Seq(Incoming)
          BY <4>1, <5>1, AppendProperties
        <5> QED BY <4>2, <5>1, <5>2
      <4> QED BY <4>2, <4>3 DEF Typed, TypeOK
    <3> QED BY <1>8, <3>1, <3>2, <3>3 DEF QuietServer
  <2>4. events' = events /\ selections' = selections /\ changes' \in 0..MaxChanges
    BY <1>8, BoundsAssumption DEF QuietServer, ServerHandles, ServerUpdates, ServerChanges, budgets, Typed, TypeOK
  <2>5. TypeOK'
    BY <1>4, <2>2, <2>3, <2>4 DEF Typed, TypeOK, ExecOK, modelVars, canvasVars, bufVars
  <2> QED BY <1>2, <1>3, <2>1, <2>5 DEF Typed
<1> QED BY <1>5, <1>6, <1>7, <1>8

LEMMA InitTyped ==
  ASSUME Init
  PROVE  Typed /\ Pending = <<>>
<1>1. [n \in DOMAIN putting |-> putting[n].task] = <<>>
  BY DEF Init
<1>2. Pending = <<>>
  BY <1>1, ConcatEmptySeq, EmptySeq DEF Init, Pending
<1>3. <<>> \in Seq(Tasks) /\ <<>> \in Seq(Units) /\ <<>> \in Seq(Outgoing) /\ <<>> \in Seq(Incoming)
      /\ <<>> \in Seq([thread : {"canvas", "ui"}, task : Tasks]) /\ Len(<<>>) = 0
  BY EmptySeq
<1>4. TypeOK
  <2>1. ExecOK
    BY <1>3, CapacityAssumption DEF Init, ExecOK
  <2>2. events \in 0..MaxEvents /\ selections \in 0..MaxSelections /\ changes \in 0..MaxChanges
    BY BoundsAssumption DEF Init
  <2> QED BY <1>3, <2>1, <2>2, ModelsAssumption DEF Init, TypeOK, ExecOK
<1>5. BufferLongEnough
  BY <1>2 DEF BufferLongEnough
<1>6. ModelChosen
  BY ModelsAssumption DEF Init, ModelChosen
<1> QED BY <1>2, <1>4, <1>5, <1>6 DEF Typed

\* What the steps that use the executor do to the pending tasks.
LEMMA ExecutorSteps ==
  ASSUME Typed
  PROVE  /\ SetPixelFormat => /\ Typed' /\ ~closed
                              /\ Task("fresh", Format(pendingColorModel)) \in Tasks
                              /\ Pending' = Append(Pending, Task("fresh", Format(pendingColorModel)))
         /\ SetEncodings => /\ Typed' /\ ~closed /\ Task("fresh", Encodings) \in Tasks
                            /\ \/ Pending' = Append(Pending, Task("fresh", Encodings))
                               \/ Pending' = Pending
         /\ WriteFullUpdateRequest =>
              /\ Typed' /\ ~closed /\ Task("request", Request(requestBuf')) \in Tasks
              /\ Pending' = Append(Pending, Task("request", Request(requestBuf')))
         /\ WritePointerEvent \/ WriteKeyEvent =>
              /\ Typed'
              /\ \E units \in Seq(Units) :
                   /\ WriteEvent(units)
                   /\ Pending' = IF closed THEN Pending
                                 ELSE Append(Pending, Task("event", Event(units)))
         /\ PutDone \/ TakeTask => Typed' /\ Pending' = Pending
<1>1. ASSUME SetPixelFormat
      PROVE  /\ Typed' /\ ~closed /\ Task("fresh", Format(pendingColorModel)) \in Tasks
             /\ Pending' = Append(Pending, Task("fresh", Format(pendingColorModel)))
  <2> DEFINE task == Task("fresh", Format(pendingColorModel))
  <2>1. pc = "format" /\ ~closed /\ pendingColorModel \in Models
    BY <1>1 DEF SetPixelFormat, Go, closed, Typed, TypeOK, ModelChosen
  <2>2. task \in Tasks /\ task.array # "event"
    BY <2>1, TasksMade DEF Task
  <2>3. Execute("canvas", task) /\ eventBuf' = eventBuf
    BY <1>1 DEF SetPixelFormat, ChosenModel, modelVars, bufVars
  <2> HIDE DEF task
  <2>4. ExecOK' /\ BufferLongEnough' /\ Pending' = Append(Pending, task)
    BY <2>1, <2>2, <2>3, HandOver
  <2>5. TypeOK'
    <3>1. /\ pc' = "bpp" /\ announced' \in Models /\ crossed' \in BOOLEAN
          /\ UNCHANGED <<fullUpdateNeeded, encodings, bytesPerPixel, colorPalette, colorModel,
                         pendingColorModel, maintainConnection, bitmapData, bufVars,
                         toServer, toViewer, serverVars, budgets>>
      BY <1>1, <2>1 DEF SetPixelFormat, ChosenModel, Go
    <3> QED BY <2>4, <3>1 DEF Typed, TypeOK, ExecOK, bufVars, serverVars, budgets
  <2>6. ModelChosen'
    BY <1>1 DEF SetPixelFormat, Go, Typed, ModelChosen
  <2> QED BY <2>1, <2>2, <2>4, <2>5, <2>6 DEF Typed, task
<1>2. ASSUME SetEncodings
      PROVE  /\ Typed' /\ ~closed /\ Task("fresh", Encodings) \in Tasks
             /\ Pending' = Append(Pending, Task("fresh", Encodings)) \/ Pending' = Pending
  <2> DEFINE task == Task("fresh", Encodings)
  <2>1. pc = "encodings" /\ pc' = "ask" /\ ~closed /\ eventBuf' = eventBuf
    BY <1>2 DEF SetEncodings, Go, closed, modelVars, bufVars
  <2>2. task \in Tasks /\ task.array # "event"
    BY TasksMade DEF Task
  <2>3. Execute("canvas", task) \/ UNCHANGED execVars
    BY <1>2 DEF SetEncodings
  <2> HIDE DEF task
  <2>4. /\ ExecOK' /\ BufferLongEnough'
        /\ Pending' = Append(Pending, task) \/ Pending' = Pending
    <3>1. CASE Execute("canvas", task)
      BY <2>1, <2>2, <3>1, HandOver
    <3>2. CASE UNCHANGED execVars
      <4>1. Pending' = Pending
        BY <3>2, SamePending
      <4> QED BY <2>1, <3>2, <4>1, TypedExec DEF Typed, ExecOK, execVars, BufferLongEnough
    <3> QED BY <2>3, <3>1, <3>2
  <2>5. TypeOK'
    BY <1>2, <2>1, <2>4 DEF SetEncodings, Typed, TypeOK, ExecOK, modelVars, bufVars, serverVars, budgets
  <2>6. ModelChosen'
    BY <2>1 DEF ModelChosen
  <2> QED BY <2>1, <2>2, <2>4, <2>5, <2>6 DEF Typed, task
<1>3. ASSUME WriteFullUpdateRequest
      PROVE  /\ Typed' /\ ~closed /\ Task("request", Request(requestBuf')) \in Tasks
             /\ Pending' = Append(Pending, Task("request", Request(requestBuf')))
  <2> DEFINE task == Task("request", Request(requestBuf'))
  <2>1. pc = "ask" /\ pc' = "loop" /\ ~closed /\ eventBuf' = eventBuf /\ requestBuf' \in BOOLEAN
    BY <1>3 DEF WriteFullUpdateRequest, Go, closed
  <2>2. task \in Tasks /\ task.array # "event"
    BY <2>1, TasksMade DEF Task
  <2>3. Execute("canvas", task)
    BY <1>3 DEF WriteFullUpdateRequest
  <2> HIDE DEF task
  <2>4. ExecOK' /\ BufferLongEnough' /\ Pending' = Append(Pending, task)
    BY <2>1, <2>2, <2>3, HandOver
  <2>5. TypeOK'
    BY <1>3, <2>1, <2>4 DEF WriteFullUpdateRequest, Typed, TypeOK, ExecOK, modelVars, serverVars, budgets
  <2>6. ModelChosen'
    BY <2>1 DEF ModelChosen
  <2> QED BY <2>1, <2>2, <2>4, <2>5, <2>6 DEF Typed, task
<1>4. ASSUME WritePointerEvent \/ WriteKeyEvent
      PROVE  /\ Typed'
             /\ \E units \in Seq(Units) :
                  /\ WriteEvent(units)
                  /\ Pending' = IF closed THEN Pending
                                ELSE Append(Pending, Task("event", Event(units)))
  <2>1. events > 0 /\ oldModifiers \in BOOLEAN
    BY <1>4 DEF WritePointerEvent, WriteKeyEvent, MayAct, Typed, TypeOK
  <2>2. \E units \in Seq(Units) : WriteEvent(units) /\ oldModifiers' \in BOOLEAN
    <3>1. CASE WritePointerEvent
      <4>1. PICK down \in BOOLEAN, modifier \in BOOLEAN :
              /\ WriteEvent(ModifierUnits(oldModifiers, modifier) \o PointerUnits(down)
                            \o (IF down THEN <<>> ELSE ModifierUnits(modifier, FALSE)))
              /\ oldModifiers' = (down /\ modifier)
        BY <3>1 DEF WritePointerEvent
      <4>2. ModifierUnits(oldModifiers, modifier) \o PointerUnits(down) \in Seq(Units)
        BY <2>1, UnitsMade, ConcatProperties
      <4>3. (IF down THEN <<>> ELSE ModifierUnits(modifier, FALSE)) \in Seq(Units)
        BY UnitsMade, EmptySeq
      <4> QED BY <4>1, <4>2, <4>3, ConcatProperties
    <3>2. CASE WriteKeyEvent
      <4>1. CASE \E modifier \in BOOLEAN :
                   /\ WriteEvent(ModifierUnits(oldModifiers, modifier) \o KeyUnits("key", TRUE))
                   /\ oldModifiers' = modifier
        BY <2>1, <4>1, UnitsMade, ConcatProperties
      <4>2. CASE WriteEvent(KeyUnits("key", FALSE) \o ModifierUnits(oldModifiers, FALSE))
                 /\ oldModifiers' = FALSE
        BY <2>1, <4>2, UnitsMade, ConcatProperties
      <4> QED BY <3>2, <4>1, <4>2 DEF WriteKeyEvent
    <3> QED BY <1>4, <3>1, <3>2
  <2> QED BY <2>1, <2>2, WriteEventTyped
<1>5. ASSUME PutDone \/ TakeTask
      PROVE  Typed' /\ Pending' = Pending
  <2>1. ExecOK' /\ Pending' = Pending
    BY <1>5, TypedExec, MovePending DEF Typed
  <2>2. UNCHANGED <<canvasVars, modelVars, maintainConnection, bitmapData, bufVars,
                    toServer, toViewer, serverVars, budgets>>
    BY <1>5 DEF PutDone, TakeTask
  <2>3. TypeOK'
    BY <2>1, <2>2 DEF Typed, TypeOK, ExecOK, modelVars, canvasVars, bufVars, serverVars, budgets
  <2> QED BY <2>1, <2>2, <2>3 DEF Typed, BufferLongEnough, ModelChosen, modelVars, canvasVars, bufVars
<1> QED BY <1>1, <1>2, <1>3, <1>4, <1>5

\* The steps, one group after the other.
LEMMA NextCases ==
  Next <=> \/ SetPixelFormat \/ SetEncodings \/ WriteFullUpdateRequest
           \/ WritePointerEvent \/ WriteKeyEvent \/ PutDone \/ TakeTask \/ RunTask
           \/ QuietCanvas \/ ReadMessage \/ QuietUi \/ QuietServer
BY DEF Next, CanvasStep, WriterStep, UiStep, ServerStep, QuietCanvas, QuietUi, QuietServer

LEMMA TypedNext ==
  ASSUME Typed, [Next]_vars
  PROVE  Typed'
<1>1. CASE Next
  BY <1>1, NextCases, ExecutorSteps, RunTaskTyped, QuietTyped
<1>2. CASE UNCHANGED vars
  <2>1. Pending' = Pending
    BY <1>2, SamePending DEF vars, execVars
  <2>2. TypeOK'
    BY <1>2 DEF Typed, TypeOK, vars, modelVars, canvasVars, bufVars, execVars, serverVars, budgets
  <2> QED BY <1>2, <2>1, <2>2 DEF Typed, BufferLongEnough, ModelChosen, vars, modelVars, canvasVars, bufVars
<1> QED BY <1>1, <1>2

\* The state has its types: no message is longer than the array it is written from, and
\* setPixelFormat never finds its colour model gone.
THEOREM TypeCorrect == Spec => []TypeOK
<1>1. Init => Typed
  BY InitTyped
<1>2. Typed /\ [Next]_vars => Typed'
  BY TypedNext
<1>3. Typed => TypeOK
  BY DEF Typed
<1> QED BY <1>1, <1>2, <1>3, PTL DEF Spec

-----------------------------------------------------------------------------
(* One request under way *)

\* The pending request is the one in the array that all of them share.
RequestKept ==
  \A n \in DOMAIN Pending : Pending[n] \in RequestTasks => Pending[n].asked = Request(requestBuf)

LEMMA Kinds ==
  /\ \A t \in Tasks : /\ t \in RequestTasks <=> t.array = "request"
                      /\ t \in RequestTasks <=> t.asked.kind = "request"
  /\ \A msg \in Outgoing : msg \in Requests <=> msg.kind = "request"
  /\ \A msg \in Incoming : msg \in Updates <=> msg.kind = "update"
<1>1. ASSUME NEW t \in Tasks
      PROVE  /\ t \in RequestTasks <=> t.array = "request"
             /\ t \in RequestTasks <=> t.asked.kind = "request"
  BY DEF Tasks, Fresh, Requests, Events, RequestTasks, EventTasks
<1>2. ASSUME NEW msg \in Outgoing PROVE msg \in Requests <=> msg.kind = "request"
  BY DEF Outgoing, Fresh, Requests, Events
<1>3. ASSUME NEW msg \in Incoming PROVE msg \in Updates <=> msg.kind = "update"
  BY DEF Incoming, Updates
<1> QED BY <1>1, <1>2, <1>3

LEMMA UnderWayType ==
  ASSUME Typed
  PROVE  /\ Pending \in Seq(Tasks) /\ toServer \in Seq(Outgoing) /\ toViewer \in Seq(Incoming)
         /\ requested \in BOOLEAN
         /\ Count(Pending, RequestTasks) \in Nat /\ Count(toServer, Requests) \in Nat
         /\ Count(toViewer, Updates) \in Nat
<1>1. /\ Pending \in Seq(Tasks) /\ toServer \in Seq(Outgoing) /\ toViewer \in Seq(Incoming)
      /\ requested \in BOOLEAN
  BY TypedExec, PendingType DEF Typed, TypeOK
<1> QED BY <1>1, CountType

LEMMA RequestInit ==
  ASSUME Init
  PROVE  OneRequestUnderWay /\ RequestKept
<1>1. Pending = <<>> /\ toServer = <<>> /\ toViewer = <<>> /\ requested = FALSE /\ pc = "format"
  BY InitTyped DEF Init
<1>2. Count(Pending, RequestTasks) = 0 /\ Count(toServer, Requests) = 0
      /\ Count(toViewer, Updates) = 0
  <2>1. <<>> \in Seq(Tasks) /\ DOMAIN <<>> = {}
    BY EmptySeq
  <2>2. \A S : Count(<<>>, S) = 0
    BY <2>1, CountType
  <2> QED BY <1>1, <2>2
<1> QED BY <1>1, <1>2 DEF OneRequestUnderWay, UnderWay, RequestKept

\* A task that is no request leaves the count and the array of the requests alone.
LEMMA OtherTask ==
  ASSUME Typed, NEW task \in Tasks \ RequestTasks,
         Pending' \in {Pending, Append(Pending, task)}, UNCHANGED <<toServer, toViewer, requested>>
  PROVE  /\ UnderWay' = UnderWay
         /\ RequestKept /\ requestBuf' = requestBuf => RequestKept'
<1>1. Pending \in Seq(Tasks) /\ Count(Pending, RequestTasks) \in Nat
  BY UnderWayType
<1>2. Count(Pending', RequestTasks) = Count(Pending, RequestTasks)
  <2>1. Count(Append(Pending, task), RequestTasks) = Count(Pending, RequestTasks)
    BY <1>1, CountAppend
  <2> QED BY <2>1
<1>3. UnderWay' = UnderWay
  BY <1>2 DEF UnderWay
<1>4. ASSUME RequestKept, requestBuf' = requestBuf, NEW n \in DOMAIN Pending',
             Pending'[n] \in RequestTasks
      PROVE  n \in DOMAIN Pending /\ Pending'[n] = Pending[n]
  BY <1>1, <1>4, AppendElements
<1> QED BY <1>3, <1>4 DEF RequestKept

LEMMA RequestNext ==
  ASSUME Typed, OneRequestUnderWay, RequestKept, Next
  PROVE  OneRequestUnderWay' /\ RequestKept'
<1> DEFINE pending == Count(Pending, RequestTasks)
           sent == Count(toServer, Requests)
           asked == IF requested THEN 1 ELSE 0
           answers == Count(toViewer, Updates)
           left == Count(Pending', RequestTasks)
           sentNow == Count(toServer', Requests)
           askedNow == IF requested' THEN 1 ELSE 0
           answersNow == Count(toViewer', Updates)
<1>1. /\ Pending \in Seq(Tasks) /\ toServer \in Seq(Outgoing) /\ toViewer \in Seq(Incoming)
      /\ pending \in Nat /\ sent \in Nat /\ asked \in {0, 1} /\ answers \in Nat
      /\ UnderWay = pending + sent + asked + answers
  BY UnderWayType DEF UnderWay
<1>2. UnderWay' = left + sentNow + askedNow + answersNow
  BY DEF UnderWay
<1>12. pending \in Nat /\ sent \in Nat /\ asked \in Nat /\ answers \in Nat
  BY <1>1
<1>13. UnderWay = pending + sent + asked + answers
  BY <1>1
<1>3. CASE SetPixelFormat
  <2>1. /\ Task("fresh", Format(pendingColorModel)) \in Tasks \ RequestTasks
        /\ Pending' = Append(Pending, Task("fresh", Format(pendingColorModel)))
    BY <1>3, ExecutorSteps, Kinds DEF Task
  <2>2. UNCHANGED <<toServer, toViewer, requested, requestBuf>> /\ pc = "format" /\ pc' = "bpp"
    BY <1>3 DEF SetPixelFormat, Go, modelVars, serverVars, bufVars
  <2> QED BY <2>1, <2>2, OtherTask DEF OneRequestUnderWay
<1>4. CASE SetEncodings
  <2>1. /\ Task("fresh", Encodings) \in Tasks \ RequestTasks
        /\ Pending' \in {Pending, Append(Pending, Task("fresh", Encodings))}
    BY <1>4, ExecutorSteps, Kinds DEF Task
  <2>2. UNCHANGED <<toServer, toViewer, requested, requestBuf>> /\ pc = "encodings" /\ pc' = "ask"
    BY <1>4 DEF SetEncodings, Go, modelVars, serverVars, bufVars
  <2> QED BY <2>1, <2>2, OtherTask DEF OneRequestUnderWay
<1>5. CASE WriteFullUpdateRequest
  <2> DEFINE task == Task("request", Request(requestBuf'))
  <2>1. task \in Tasks /\ task \in RequestTasks /\ Pending' = Append(Pending, task)
        /\ task.asked = Request(requestBuf')
    BY <1>5, ExecutorSteps, Kinds DEF Task
  <2> HIDE DEF task
  <2>2. UNCHANGED <<toServer, toViewer, requested>> /\ pc = "ask" /\ pc' = "loop"
    BY <1>5 DEF WriteFullUpdateRequest, Go, modelVars, serverVars
  <2>3. UnderWay = 0 /\ pending = 0
    BY <1>1, <2>2 DEF OneRequestUnderWay
  <2>4. left = pending + 1 /\ sentNow = sent /\ askedNow = asked /\ answersNow = answers
    BY <1>1, <2>1, <2>2, CountAppend
  <2>5. UnderWay' = 1
    BY <1>1, <1>2, <2>3, <2>4
  <2>6. ASSUME NEW n \in DOMAIN Pending', Pending'[n] \in RequestTasks
        PROVE  Pending'[n].asked = Request(requestBuf')
    <3>1. \A k \in DOMAIN Pending : Pending[k] \notin RequestTasks
      BY <1>1, <2>3, CountType
    <3>2. Pending'[n] = task
      BY <1>1, <2>1, <2>6, <3>1, AppendElements
    <3> QED BY <2>1, <3>2
  <2> QED BY <2>2, <2>5, <2>6 DEF OneRequestUnderWay, RequestKept
<1>6. CASE WritePointerEvent \/ WriteKeyEvent
  <2>1. PICK units \in Seq(Units) :
          /\ WriteEvent(units)
          /\ Pending' = IF closed THEN Pending ELSE Append(Pending, Task("event", Event(units)))
    BY <1>6, ExecutorSteps
  <2>2. Task("event", Event(units)) \in Tasks \ RequestTasks
    BY TasksMade, Kinds DEF Task
  <2>3. UNCHANGED <<toServer, toViewer, requested, requestBuf, pc>>
    BY <2>1 DEF WriteEvent, modelVars, canvasVars, serverVars
  <2> QED BY <2>1, <2>2, <2>3, OtherTask DEF OneRequestUnderWay
<1>7. CASE PutDone \/ TakeTask
  <2>1. Pending' = Pending
    BY <1>7, ExecutorSteps
  <2>2. UNCHANGED <<toServer, toViewer, requested, requestBuf, pc>>
    BY <1>7 DEF PutDone, TakeTask, modelVars, canvasVars, serverVars, bufVars
  <2> QED BY <2>1, <2>2 DEF OneRequestUnderWay, UnderWay, RequestKept
<1>8. CASE RunTask
  <2> DEFINE first == Pending[1]
             one == IF first \in RequestTasks THEN 1 ELSE 0
  <2>1. /\ Pending # <<>> /\ Pending' = Tail(Pending) /\ 1 \in DOMAIN Pending
        /\ toServer' = IF closed THEN toServer ELSE Append(toServer, Contents(first))
        /\ Contents(first) \in Outgoing
    BY <1>8, RunTaskTyped
  <2>2. UNCHANGED <<toViewer, requested, requestBuf, pc>>
    BY <1>8 DEF RunTask, modelVars, canvasVars, serverVars, bufVars
  <2>3. first = Head(Pending) /\ first \in Tasks
    BY <1>1, <2>1, TailElements
  <2>4. Contents(first) \in Requests <=> first \in RequestTasks
    BY <2>1, <2>3, ContentsType, Kinds
  <2> HIDE DEF first
  <2>5. pending = left + one
    BY <1>1, <2>1, <2>3, CountTail
  <2>6. sentNow = IF closed THEN sent ELSE sent + one
    BY <1>1, <2>1, <2>4, CountAppend
  <2>7. left \in Nat /\ askedNow = asked /\ answersNow = answers
    BY <1>1, <2>1, <2>2, TailElements, CountType
  <2>12. one \in {0, 1}
    OBVIOUS
  <2> HIDE DEF pending, sent, asked, answers, left, sentNow, askedNow,
              answersNow, one
  <2>8. UnderWay' <= UnderWay /\ (~closed => UnderWay' = UnderWay)
    <3>1. CASE closed
      <4>1. sentNow = sent
        BY <2>6, <3>1
      <4> QED BY <1>2, <1>12, <1>13, <2>5, <2>7, <2>12, <3>1, <4>1
    <3>2. CASE ~closed
      <4>1. sentNow = sent + one
        BY <2>6, <3>2
      <4> QED BY <1>2, <1>12, <1>13, <2>5, <2>7, <2>12, <3>2, <4>1
    <3> QED BY <3>1, <3>2
  <2>9. UnderWay \in Nat /\ UnderWay' \in Nat
    <3>1. sentNow \in Nat
      BY <1>12, <2>6, <2>12
    <3> QED BY <1>2, <1>12, <1>13, <2>7, <3>1
  <2>10. OneRequestUnderWay'
    BY <2>2, <2>8, <2>9 DEF OneRequestUnderWay, closed
  <2>11. RequestKept'
    BY <1>1, <2>1, <2>2, TailElements DEF RequestKept
  <2> QED BY <2>10, <2>11
<1>9. CASE QuietCanvas \/ QuietUi
  <2>1. Pending' = Pending
    BY <1>9, QuietTyped
  <2>2. UNCHANGED <<toServer, toViewer, requested, requestBuf>>
    BY <1>9 DEF QuietCanvas, QuietUi, ReadBpp, ReadPalette, ReadModel, ClearPending, Loop,
         AfterUpdate, LoopFails, Close, SetColorModel, CloseConnection, OnDestroy, modelVars, serverVars, bufVars
  <2>3. UnderWay' = UnderWay /\ RequestKept'
    BY <2>1, <2>2 DEF UnderWay, RequestKept
  <2>4. \/ pc' = pc
        \/ pc' \in {"closing", "closed"}
        \/ pc = "loop" /\ pc' = "read"
        \/ /\ pc \in {"bpp", "palette", "model", "clear", "updated"}
           /\ pc' \in {"palette", "model", "clear", "ask", "encodings", "format"}
    BY <1>9 DEF QuietCanvas, QuietUi, ReadBpp, ReadPalette, ReadModel, ClearPending, Loop,
         AfterUpdate, LoopFails, Close, SetColorModel, CloseConnection, OnDestroy, modelVars, canvasVars,
         Go, WhileMaintained, AskAgain
  <2>5. UnderWay' <= 1 /\ (pc \in {"loop", "read"} => UnderWay = 1)
        /\ (pc \notin {"loop", "read", "closing", "closed"} => UnderWay = 0)
    BY <2>3 DEF OneRequestUnderWay
  <2>6. OneRequestUnderWay'
    BY <2>3, <2>4, <2>5 DEF OneRequestUnderWay
  <2> QED BY <2>3, <2>6
<1>10. CASE ReadMessage
  <2> DEFINE one == IF Head(toViewer).kind = "update" THEN 1 ELSE 0
  <2>1. Pending' = Pending
    BY <1>10, QuietTyped
  <2>2. /\ toViewer # <<>> /\ toViewer' = Tail(toViewer) /\ pc = "read"
        /\ pc' = AfterMessage(Head(toViewer).kind)
        /\ UNCHANGED <<toServer, requested, requestBuf>>
    BY <1>10 DEF ReadMessage, Go, modelVars, serverVars, bufVars
  <2>3. Head(toViewer) \in Incoming /\ Head(toViewer).kind \in {"update", "other", "unexpected"}
        /\ toViewer' \in Seq(Incoming)
    BY <1>1, <2>2, TailElements DEF Incoming, Updates
  <2>4. answers = answersNow + one /\ answersNow \in Nat
    BY <1>1, <2>2, <2>3, CountTail, CountType, Kinds
  <2>5. left = pending /\ sentNow = sent /\ askedNow = asked
    BY <2>1, <2>2
  <2>6. UnderWay = 1
    BY <2>2 DEF OneRequestUnderWay
  <2>10. one = IF Head(toViewer).kind = "update" THEN 1 ELSE 0
    OBVIOUS
  <2> HIDE DEF pending, sent, asked, answers, left, sentNow, askedNow,
              answersNow, one
  <2>11. one \in Nat
    BY <2>10
  <2>7. UnderWay' = 1 - one
    BY <1>2, <1>12, <1>13, <2>4, <2>5, <2>6, <2>11
  <2>8. OneRequestUnderWay'
    BY <2>2, <2>3, <2>7, <2>10 DEF OneRequestUnderWay, AfterMessage
  <2>9. RequestKept'
    BY <2>1, <2>2 DEF RequestKept
  <2> QED BY <2>8, <2>9
<1>11. CASE QuietServer
  <2>1. Pending' = Pending /\ UNCHANGED <<pc, requestBuf>>
    BY <1>11, QuietTyped
       DEF QuietServer, ServerHandles, ServerUpdates, ServerChanges, modelVars, canvasVars, bufVars
  <2>2. RequestKept' /\ left = pending
    BY <2>1 DEF RequestKept
  <2>3. UnderWay' = UnderWay
    <3>1. CASE ServerHandles
      <4>1. /\ toServer # <<>> /\ toServer' = Tail(toServer)
            /\ requested' = (requested \/ Head(toServer).kind = "request") /\ toViewer' = toViewer
        BY <3>1 DEF ServerHandles
      <4>2. Head(toServer) \in Outgoing /\ toServer' \in Seq(Outgoing)
        BY <1>1, <4>1, TailElements
      <4>3. sent = sentNow + (IF Head(toServer).kind = "request" THEN 1 ELSE 0) /\ sentNow \in Nat
        BY <1>1, <4>1, <4>2, CountTail, CountType, Kinds
      <4>4. answersNow = answers /\ UnderWay <= 1
        BY <4>1 DEF OneRequestUnderWay
      <4>5. Head(toServer).kind = "request" => ~requested
        BY <1>1, <4>3, <4>4
      <4>6. askedNow = asked + (IF Head(toServer).kind = "request" THEN 1 ELSE 0)
        <5>1. CASE Head(toServer).kind = "request"
          <6>1. ~requested /\ requested'
            BY <4>1, <4>5, <5>1, UnderWayType
          <6> QED BY <5>1, <6>1
        <5>2. CASE Head(toServer).kind # "request"
          BY <4>1, <5>2, UnderWayType
        <5> QED BY <5>1, <5>2
      <4> HIDE DEF pending, sent, asked, answers, left, sentNow, askedNow, answersNow
      <4> QED BY <1>1, <1>2, <2>2, <4>3, <4>4, <4>6
    <3>2. CASE ServerUpdates
      <4>1. /\ requested /\ ~requested' /\ toServer' = toServer
            /\ toViewer' = Append(toViewer, Update(format))
        BY <3>2 DEF ServerUpdates
      <4>2. Update(format) \in Incoming /\ Update(format) \in Updates
        BY DEF Update, Incoming, Updates, Typed, TypeOK
      <4>3. answersNow = answers + 1 /\ asked = 1 /\ askedNow = 0 /\ sentNow = sent
        BY <1>1, <4>1, <4>2, CountAppend
      <4> HIDE DEF pending, sent, asked, answers, left, sentNow, askedNow, answersNow
      <4> QED BY <1>1, <1>2, <2>2, <4>3
    <3>3. CASE ServerChanges
      <4>1. /\ toViewer' \in {toViewer, Append(toViewer, Other), Append(toViewer, Unexpected)}
            /\ UNCHANGED <<toServer, requested>>
        BY <3>3 DEF ServerChanges
      <4>2. /\ Other \in Incoming /\ Unexpected \in Incoming
            /\ Other \notin Updates /\ Unexpected \notin Updates
        BY DEF Other, Unexpected, Incoming, Updates
      <4>3. Count(Append(toViewer, Other), Updates) = answers
            /\ Count(Append(toViewer, Unexpected), Updates) = answers
        BY <1>1, <4>2, CountAppend
      <4>4. answersNow = answers /\ askedNow = asked /\ sentNow = sent
        BY <4>1, <4>3
      <4> QED BY <1>1, <1>2, <2>2, <4>4
    <3> QED BY <1>11, <3>1, <3>2, <3>3 DEF QuietServer
  <2> QED BY <2>1, <2>2, <2>3 DEF OneRequestUnderWay
<1> QED BY <1>3, <1>4, <1>5, <1>6, <1>7, <1>8, <1>9, <1>10, <1>11, NextCases

RequestInv == Typed /\ OneRequestUnderWay /\ RequestKept

LEMMA RequestInvariant == Spec => []RequestInv
<1>1. Init => RequestInv
  BY InitTyped, RequestInit DEF RequestInv
<1>2. RequestInv /\ [Next]_vars => RequestInv'
  <2> SUFFICES ASSUME RequestInv, [Next]_vars PROVE RequestInv'
    OBVIOUS
  <2>1. Typed'
    BY TypedNext DEF RequestInv
  <2>2. CASE Next
    BY <2>1, <2>2, RequestNext DEF RequestInv
  <2>3. CASE UNCHANGED vars
    <3>1. Pending' = Pending
      BY <2>3, SamePending DEF vars, execVars
    <3>2. UnderWay' = UnderWay
      BY <2>3, <3>1 DEF UnderWay, vars, modelVars, serverVars
    <3> QED BY <2>1, <2>3, <3>1, <3>2
            DEF RequestInv, OneRequestUnderWay, RequestKept, vars, modelVars, canvasVars, bufVars
  <2> QED BY <2>2, <2>3
<1> QED BY <1>1, <1>2, PTL DEF Spec

\* Exactly one request or answer is under way while the loop waits for an update, and none
\* while it handles one, however fast the user, the executor and the server are.
THEOREM AsksOnce == Spec => []OneRequestUnderWay
<1>1. RequestInv => OneRequestUnderWay
  BY DEF RequestInv
<1> QED BY <1>1, RequestInvariant, PTL

\* That is why the one array of the update requests is enough: what the executor writes is
\* what the loop asked for.
THEOREM RequestsAsAsked == Spec => []RequestsIntact
<1>1. RequestInv => RequestsIntact
  <2> SUFFICES ASSUME RequestInv, NEW n \in DOMAIN Pending, Pending[n].array = "request"
               PROVE  Contents(Pending[n]) = Pending[n].asked
    BY DEF RequestsIntact
  <2>1. Pending[n] \in Tasks
    BY ContentsType DEF RequestInv
  <2>2. Pending[n].asked = Request(requestBuf)
    BY <2>1, Kinds DEF RequestInv, RequestKept
  <2> QED BY <2>2 DEF Contents
<1> QED BY <1>1, RequestInvariant, PTL

-----------------------------------------------------------------------------
(* Updates are read in the format they were sent in *)

FormatPending == \E n \in DOMAIN Pending : Pending[n].asked.kind = "format"
FormatSent == \E n \in DOMAIN toServer : toServer[n].kind = "format"
RequestSent == \E n \in DOMAIN toServer : toServer[n].kind = "request"
Answered == \E n \in DOMAIN toViewer : toViewer[n].kind = "update"

FormatsCurrent ==
  /\ \A n \in DOMAIN Pending :
       Pending[n].asked.kind = "format" => Pending[n].asked.model = announced
  /\ \A n \in DOMAIN toServer : toServer[n].kind = "format" => toServer[n].model = announced
  /\ \A n \in DOMAIN toViewer : toViewer[n].kind = "update" => toViewer[n].model = announced
FormatArrived == ~FormatPending /\ ~FormatSent => format = announced
\* No format is behind a request, neither in one queue nor in the two of them.
FormatFirst ==
  /\ \A i, j \in DOMAIN Pending :
       Pending[i].asked.kind = "request" /\ Pending[j].asked.kind = "format" => j < i
  /\ \A i, j \in DOMAIN toServer :
       toServer[i].kind = "request" /\ toServer[j].kind = "format" => j < i
  /\ RequestSent => ~FormatPending
FormatSettled ==
  requested \/ Answered \/ pc \in {"format", "updated"} => ~FormatPending /\ ~FormatSent
FormatInv == FormatsCurrent /\ FormatArrived /\ FormatFirst /\ FormatSettled

\* setPixelFormat reads the model it has announced, unless another one is chosen meanwhile.
ModelInv ==
  ~crossed =>
    /\ pc \in {"bpp", "palette"} => pendingColorModel = announced
    /\ pc # "bpp" => bytesPerPixel = announced
    /\ pc \notin {"bpp", "palette"} => colorPalette = announced

LEMMA CountZero ==
  ASSUME NEW T, NEW S, NEW seq \in Seq(T), Count(seq, S) = 0, NEW n \in DOMAIN seq
  PROVE  seq[n] \in T /\ seq[n] \notin S
<1>1. seq[n] \in T
  BY ElementOfSeq, LenProperties
<1>2. seq[n] \notin S
  BY CountType
<1> QED BY <1>1, <1>2

LEMMA NoneUnderWay ==
  ASSUME Typed, UnderWay = 0
  PROVE  /\ \A n \in DOMAIN Pending : Pending[n].asked.kind # "request"
         /\ ~RequestSent /\ ~requested /\ ~Answered
<1>1. /\ Pending \in Seq(Tasks) /\ toServer \in Seq(Outgoing) /\ toViewer \in Seq(Incoming)
      /\ Count(Pending, RequestTasks) \in Nat /\ Count(toServer, Requests) \in Nat
      /\ Count(toViewer, Updates) \in Nat
  BY UnderWayType
<1>2. /\ Count(Pending, RequestTasks) = 0 /\ Count(toServer, Requests) = 0
      /\ Count(toViewer, Updates) = 0 /\ ~requested
  <2>1. (IF requested THEN 1 ELSE 0) \in {0, 1}
    OBVIOUS
  <2>2. (IF requested THEN 1 ELSE 0) = 0
    BY <1>1, <2>1 DEF UnderWay
  <2> QED BY <1>1, <2>2 DEF UnderWay
<1>3. \A n \in DOMAIN Pending : Pending[n].asked.kind # "request"
  BY <1>1, <1>2, CountZero, Kinds
<1>4. ~RequestSent
  BY <1>1, <1>2, CountZero, Kinds DEF RequestSent
<1>5. ~Answered
  BY <1>1, <1>2, CountZero, Kinds DEF Answered
<1> QED BY <1>2, <1>3, <1>4, <1>5

LEMMA FormatInit ==
  ASSUME Init
  PROVE  FormatInv /\ ModelInv
<1>1. Pending = <<>> /\ toServer = <<>> /\ toViewer = <<>>
  BY InitTyped DEF Init
<1>2. \A n \in DOMAIN <<>> : FALSE
  OBVIOUS
<1> QED BY <1>1, <1>2 DEF Init, FormatInv, FormatsCurrent, FormatArrived, FormatFirst, FormatSettled,
           FormatPending, FormatSent, RequestSent, Answered, ModelInv

\* Messages about neither formats nor requests change nothing.
LEMMA NeutralTask ==
  ASSUME Typed, FormatInv, NEW task \in Tasks, task.asked.kind \in {"encodings", "event"},
         Pending' \in {Pending, Append(Pending, task)},
         UNCHANGED <<toServer, toViewer, format, requested>>, announced' = announced,
         pc' \in {"format", "updated"} => pc \in {"format", "updated"}
  PROVE  FormatInv'
<1>1. Pending \in Seq(Tasks)
  BY UnderWayType
<1>2. \A n \in DOMAIN Pending : n \in DOMAIN Pending' /\ Pending'[n] = Pending[n]
  BY <1>1, AppendElements
<1>3. \A n \in DOMAIN Pending' : n \in DOMAIN Pending \/ Pending'[n] = task
  BY <1>1, AppendElements
<1>4. \A n \in DOMAIN Pending' : Pending'[n].asked.kind \in {"format", "request"} => n \in DOMAIN Pending
  BY <1>3
<1>5. FormatPending' <=> FormatPending
  BY <1>2, <1>4 DEF FormatPending
<1>6. FormatSent' = FormatSent /\ RequestSent' = RequestSent /\ Answered' = Answered
  BY DEF FormatSent, RequestSent, Answered
<1>7. FormatsCurrent'
  BY <1>2, <1>4 DEF FormatInv, FormatsCurrent
<1>8. FormatFirst'
  BY <1>2, <1>4, <1>5, <1>6 DEF FormatInv, FormatFirst
<1>9. FormatArrived' /\ FormatSettled'
  BY <1>5, <1>6 DEF FormatInv, FormatArrived, FormatSettled
<1> QED BY <1>7, <1>8, <1>9 DEF FormatInv

LEMMA FormatAtSetPixelFormat ==
  ASSUME Typed, OneRequestUnderWay, FormatInv, SetPixelFormat
  PROVE  FormatInv'
<1> DEFINE task == Task("fresh", Format(pendingColorModel))
<1>1. /\ task \in Tasks /\ Pending' = Append(Pending, task)
      /\ task.asked.kind = "format" /\ task.asked.model = pendingColorModel
  BY ExecutorSteps DEF Task, Format
<1> HIDE DEF task
<1>2. /\ pc = "format" /\ pc' = "bpp" /\ UNCHANGED <<pendingColorModel, toServer, toViewer, requested>>
      /\ announced' = pendingColorModel
  BY DEF SetPixelFormat, Go, modelVars, serverVars, ChosenModel
<1>3. UnderWay = 0
  BY <1>2 DEF OneRequestUnderWay
<1>4. /\ \A n \in DOMAIN Pending : Pending[n].asked.kind \notin {"request", "format"}
      /\ ~RequestSent /\ ~requested /\ ~Answered /\ ~FormatSent
  BY <1>2, <1>3, NoneUnderWay DEF FormatInv, FormatSettled, FormatPending
<1>5. /\ \A n \in DOMAIN Pending' :
           (n \in DOMAIN Pending /\ Pending'[n] = Pending[n]) \/ Pending'[n] = task
      /\ FormatPending'
  BY <1>1, UnderWayType, AppendElements DEF FormatPending
<1>6. ~RequestSent' /\ ~requested' /\ ~Answered' /\ ~FormatSent'
  BY <1>2, <1>4 DEF RequestSent, Answered, FormatSent
<1>7. FormatsCurrent'
  BY <1>1, <1>4, <1>5, <1>6, <1>2 DEF FormatsCurrent, FormatSent, Answered
<1>8. FormatFirst'
  BY <1>1, <1>4, <1>5, <1>6 DEF FormatFirst, FormatSent, RequestSent
<1> QED BY <1>2, <1>5, <1>6, <1>7, <1>8 DEF FormatInv, FormatArrived, FormatSettled

LEMMA FormatAtRequest ==
  ASSUME Typed, OneRequestUnderWay, FormatInv, WriteFullUpdateRequest
  PROVE  FormatInv'
<1> DEFINE task == Task("request", Request(requestBuf'))
<1>1. task \in Tasks /\ Pending' = Append(Pending, task) /\ task.asked.kind = "request"
  BY ExecutorSteps DEF Task, Request
<1> HIDE DEF task
<1>2. /\ pc = "ask" /\ pc' = "loop"
      /\ UNCHANGED <<announced, toServer, toViewer, requested, format>>
  BY DEF WriteFullUpdateRequest, Go, modelVars, serverVars
<1>3. UnderWay = 0
  BY <1>2 DEF OneRequestUnderWay
<1>4. /\ \A n \in DOMAIN Pending : Pending[n].asked.kind # "request"
      /\ ~RequestSent /\ ~requested /\ ~Answered
  BY <1>3, NoneUnderWay
<1>5. /\ \A n \in DOMAIN Pending : n \in DOMAIN Pending' /\ Pending'[n] = Pending[n]
      /\ DOMAIN Pending = 1..Len(Pending) /\ Len(Pending) \in Nat
      /\ DOMAIN Pending' = 1..(Len(Pending) + 1)
      /\ \A n \in DOMAIN Pending' \ DOMAIN Pending : Pending'[n] = task /\ n = Len(Pending) + 1
  BY <1>1, UnderWayType, AppendElements
<1>6. \A n \in DOMAIN Pending' : Pending'[n].asked.kind = "format" => n \in DOMAIN Pending
  BY <1>1, <1>5
<1>7. /\ FormatPending' <=> FormatPending
      /\ FormatSent' = FormatSent /\ RequestSent' = RequestSent /\ Answered' = Answered
      /\ announced' = announced
  BY <1>2, <1>5, <1>6 DEF FormatPending, FormatSent, RequestSent, Answered
<1>8. FormatsCurrent'
  BY <1>2, <1>5, <1>6, <1>7 DEF FormatInv, FormatsCurrent
<1>9. FormatFirst'
  <2>1. ASSUME NEW i \in DOMAIN Pending', NEW j \in DOMAIN Pending',
               Pending'[i].asked.kind = "request", Pending'[j].asked.kind = "format"
        PROVE  j < i
    <3>1. i = Len(Pending) + 1 /\ j \in 1..Len(Pending)
      BY <1>4, <1>5, <1>6, <2>1
    <3> QED BY <1>5, <3>1
  <2>2. ~RequestSent'
    BY <1>4, <1>7
  <2> QED BY <1>2, <2>1, <2>2 DEF FormatInv, FormatFirst
<1>10. FormatArrived' /\ FormatSettled'
  BY <1>2, <1>4, <1>7 DEF FormatInv, FormatArrived, FormatSettled
<1> QED BY <1>8, <1>9, <1>10 DEF FormatInv

\* The executor keeps the order of what it writes.
LEMMA FormatAtRunTask ==
  ASSUME Typed, FormatInv, RunTask, ~closed
  PROVE  FormatInv'
<1> DEFINE first == Pending[1]
           msg == Contents(first)
<1>1. /\ Pending # <<>> /\ Pending' = Tail(Pending) /\ 1 \in DOMAIN Pending
      /\ toServer' = Append(toServer, msg) /\ msg \in Outgoing
  BY RunTaskTyped
<1>2. UNCHANGED <<pc, announced, toViewer, requested, format>>
  BY DEF RunTask, modelVars, canvasVars, serverVars
<1>3. msg.kind = first.asked.kind /\ (first.asked.kind = "format" => msg = first.asked)
  <2>1. first \in Tasks /\ msg.kind = first.asked.kind /\ (first.array = "fresh" => msg = first.asked)
    BY <1>1, ContentsType
  <2>2. first.asked.kind = "format" => first.array = "fresh"
    BY <2>1, TaskKinds
  <2> QED BY <2>1, <2>2
<1> HIDE DEF msg
<1>4. /\ \A n \in DOMAIN Pending' : n + 1 \in DOMAIN Pending /\ Pending'[n] = Pending[n + 1]
      /\ DOMAIN Pending = 1..Len(Pending) /\ Len(Pending) \in Nat
      /\ DOMAIN Pending' = 1..(Len(Pending) - 1)
  BY <1>1, UnderWayType, TailElements
<1>5. /\ \A n \in DOMAIN toServer : n \in DOMAIN toServer' /\ toServer'[n] = toServer[n]
      /\ DOMAIN toServer = 1..Len(toServer) /\ Len(toServer) \in Nat
      /\ DOMAIN toServer' = 1..(Len(toServer) + 1) /\ toServer'[Len(toServer) + 1] = msg
  BY <1>1, UnderWayType, AppendElements
<1>6. announced' = announced /\ Answered' = Answered
  BY <1>2 DEF Answered
<1>7. FormatPending \/ FormatSent <=> (FormatPending \/ FormatSent)'
  <2>1. FormatPending <=> first.asked.kind = "format" \/ FormatPending'
    <3>1. ASSUME NEW n \in DOMAIN Pending, n # 1
          PROVE  n - 1 \in DOMAIN Pending' /\ Pending'[n - 1] = Pending[n]
      BY <1>4, <3>1
    <3>2. FormatPending => first.asked.kind = "format" \/ FormatPending'
      BY <3>1 DEF FormatPending
    <3>3. FormatPending' => FormatPending
      BY <1>4 DEF FormatPending
    <3>4. first.asked.kind = "format" => FormatPending
      BY <1>1 DEF FormatPending
    <3> QED BY <3>2, <3>3, <3>4
  <2>2. FormatSent' <=> msg.kind = "format" \/ FormatSent
    BY <1>5 DEF FormatSent
  <2> QED BY <1>3, <2>1, <2>2
<1>8. FormatsCurrent'
  <2>1. \A n \in DOMAIN Pending' :
          Pending'[n].asked.kind = "format" => Pending'[n].asked.model = announced'
    BY <1>4, <1>6 DEF FormatInv, FormatsCurrent
  <2>2. \A n \in DOMAIN toServer' : toServer'[n].kind = "format" => toServer'[n].model = announced'
    <3>1. msg.kind = "format" => msg.model = announced
      BY <1>1, <1>3 DEF FormatInv, FormatsCurrent
    <3> QED BY <1>5, <1>6, <3>1 DEF FormatInv, FormatsCurrent
  <2> QED BY <1>2, <1>6, <2>1, <2>2 DEF FormatInv, FormatsCurrent
<1>9. FormatFirst'
  <2>1. \A i, j \in DOMAIN Pending' :
          Pending'[i].asked.kind = "request" /\ Pending'[j].asked.kind = "format" => j < i
    <3> SUFFICES ASSUME NEW i \in DOMAIN Pending', NEW j \in DOMAIN Pending',
                        Pending'[i].asked.kind = "request", Pending'[j].asked.kind = "format"
                 PROVE  j < i
      OBVIOUS
    <3>1. j + 1 < i + 1
      BY <1>4 DEF FormatInv, FormatFirst
    <3> QED BY <1>4, <3>1
  <2>2. \A i, j \in DOMAIN toServer' :
          toServer'[i].kind = "request" /\ toServer'[j].kind = "format" => j < i
    <3> SUFFICES ASSUME NEW i \in DOMAIN toServer', NEW j \in DOMAIN toServer',
                        toServer'[i].kind = "request", toServer'[j].kind = "format"
                 PROVE  j < i
      OBVIOUS
    <3>1. CASE i \in DOMAIN toServer /\ j \in DOMAIN toServer
      BY <1>5, <3>1 DEF FormatInv, FormatFirst
    <3>2. CASE i \in DOMAIN toServer /\ j \notin DOMAIN toServer
      <4>1. RequestSent /\ FormatPending
        BY <1>1, <1>3, <1>5, <3>2 DEF RequestSent, FormatPending
      <4> QED BY <4>1 DEF FormatInv, FormatFirst
    <3>3. CASE i \notin DOMAIN toServer
      <4>1. i = Len(toServer) + 1
        BY <1>5, <3>3
      <4>2. j # i
        OBVIOUS
      <4> QED BY <1>5, <4>1, <4>2
    <3> QED BY <3>1, <3>2, <3>3
  <2>3. RequestSent' => ~FormatPending'
    <3>1. FormatPending' => FormatPending
      BY <1>4 DEF FormatPending
    <3>2. CASE RequestSent
      BY <3>1, <3>2 DEF FormatInv, FormatFirst
    <3>3. CASE ~RequestSent /\ RequestSent'
      <4>1. first.asked.kind = "request"
        BY <1>3, <1>5, <3>3 DEF RequestSent
      <4>2. ASSUME NEW n \in DOMAIN Pending', Pending'[n].asked.kind = "format" PROVE FALSE
        <5>1. n + 1 < 1
          BY <1>1, <1>4, <4>1, <4>2 DEF FormatInv, FormatFirst
        <5> QED BY <1>4, <4>2, <5>1
      <4> QED BY <4>2 DEF FormatPending
    <3> QED BY <3>2, <3>3
  <2> QED BY <2>1, <2>2, <2>3 DEF FormatFirst
<1>10. FormatArrived' /\ FormatSettled'
  BY <1>2, <1>6, <1>7 DEF FormatInv, FormatArrived, FormatSettled
<1> QED BY <1>8, <1>9, <1>10 DEF FormatInv

\* Steps that touch neither the executor nor the socket.
LEMMA FormatAtQuietSteps ==
  ASSUME Typed, FormatInv, Pending' = Pending,
         UNCHANGED <<toServer, toViewer, format, requested>>, announced' = announced,
         pc' \in {"format", "updated"} => pc \in {"format", "updated"}
  PROVE  FormatInv'
BY DEF FormatInv, FormatsCurrent, FormatArrived, FormatFirst, FormatSettled,
       FormatPending, FormatSent, RequestSent, Answered

LEMMA FormatAtReadMessage ==
  ASSUME Typed, FormatInv, ReadMessage
  PROVE  FormatInv'
<1>1. /\ toViewer # <<>> /\ toViewer' = Tail(toViewer) /\ pc = "read"
      /\ pc' = AfterMessage(Head(toViewer).kind)
      /\ UNCHANGED <<toServer, format, requested, announced>>
      /\ Pending' = Pending
  BY QuietTyped DEF ReadMessage, Go, modelVars, serverVars
<1>2. /\ \A n \in DOMAIN toViewer' : n + 1 \in DOMAIN toViewer /\ toViewer'[n] = toViewer[n + 1]
      /\ 1 \in DOMAIN toViewer /\ Head(toViewer) = toViewer[1] /\ Head(toViewer) \in Incoming
  BY <1>1, UnderWayType, TailElements
<1>3. pc' # "format" /\ (pc' = "updated" => toViewer[1].kind = "update")
  <2>1. Head(toViewer).kind \in {"update", "other", "unexpected"}
    BY <1>2 DEF Incoming, Updates
  <2> QED BY <1>1, <1>2, <2>1 DEF AfterMessage
<1>4. announced' = announced /\ (Answered' => Answered) /\ (pc' = "updated" => Answered)
  BY <1>1, <1>2, <1>3 DEF Answered
<1>5. FormatPending' = FormatPending /\ FormatSent' = FormatSent /\ RequestSent' = RequestSent
  BY <1>1 DEF FormatPending, FormatSent, RequestSent
<1>6. FormatsCurrent'
  BY <1>1, <1>2, <1>4 DEF FormatInv, FormatsCurrent
<1>7. FormatArrived' /\ FormatSettled'
  BY <1>1, <1>3, <1>4, <1>5 DEF FormatInv, FormatArrived, FormatSettled
<1>8. FormatFirst'
  BY <1>1, <1>5 DEF FormatInv, FormatFirst
<1> QED BY <1>6, <1>7, <1>8 DEF FormatInv

LEMMA FormatAtServerHandles ==
  ASSUME Typed, FormatInv, ServerHandles
  PROVE  FormatInv'
<1> DEFINE msg == Head(toServer)
<1>1. /\ toServer # <<>> /\ toServer' = Tail(toServer)
      /\ format' = IF msg.kind = "format" THEN msg.model ELSE format
      /\ requested' = (requested \/ msg.kind = "request")
      /\ UNCHANGED <<toViewer, pc, announced>> /\ Pending' = Pending
  BY QuietTyped DEF ServerHandles, QuietServer, modelVars, canvasVars
<1>2. /\ \A n \in DOMAIN toServer' : n + 1 \in DOMAIN toServer /\ toServer'[n] = toServer[n + 1]
      /\ 1 \in DOMAIN toServer /\ msg = toServer[1]
      /\ DOMAIN toServer = 1..Len(toServer) /\ Len(toServer) \in Nat
      /\ DOMAIN toServer' = 1..(Len(toServer) - 1)
  BY <1>1, UnderWayType, TailElements
<1> HIDE DEF msg
<1>3. announced' = announced /\ Answered' = Answered /\ FormatPending' = FormatPending
      /\ (RequestSent' => RequestSent) /\ (FormatSent' => FormatSent)
  BY <1>1, <1>2 DEF Answered, FormatPending, RequestSent, FormatSent
<1>4. FormatSent => msg.kind = "format" \/ FormatSent'
  <2>1. ASSUME NEW n \in DOMAIN toServer, n # 1
        PROVE  n - 1 \in DOMAIN toServer' /\ toServer'[n - 1] = toServer[n]
    BY <1>2, <2>1
  <2> QED BY <1>2, <2>1 DEF FormatSent
<1>5. FormatsCurrent'
  BY <1>1, <1>2, <1>3 DEF FormatInv, FormatsCurrent
<1>6. FormatArrived'
  <2>1. CASE msg.kind = "format"
    BY <1>1, <1>2, <1>3, <2>1 DEF FormatInv, FormatsCurrent, FormatArrived
  <2>2. CASE msg.kind # "format"
    BY <1>1, <1>3, <1>4, <2>2 DEF FormatInv, FormatArrived
  <2> QED BY <2>1, <2>2
<1>7. FormatFirst'
  <2>1. \A i, j \in DOMAIN toServer' :
          toServer'[i].kind = "request" /\ toServer'[j].kind = "format" => j < i
    <3> SUFFICES ASSUME NEW i \in DOMAIN toServer', NEW j \in DOMAIN toServer',
                        toServer'[i].kind = "request", toServer'[j].kind = "format"
                 PROVE  j < i
      OBVIOUS
    <3>1. j + 1 < i + 1
      BY <1>2 DEF FormatInv, FormatFirst
    <3> QED BY <1>2, <3>1
  <2> QED BY <1>1, <1>3, <2>1 DEF FormatInv, FormatFirst
<1>8. FormatSettled'
  <2>1. CASE msg.kind = "request"
    <3>1. RequestSent
      BY <1>2, <2>1 DEF RequestSent
    <3>2. ASSUME NEW n \in DOMAIN toServer', toServer'[n].kind = "format" PROVE FALSE
      <4>1. n + 1 < 1
        BY <1>2, <2>1, <3>2 DEF FormatInv, FormatFirst
      <4> QED BY <1>2, <3>2, <4>1
    <3> QED BY <1>3, <3>1, <3>2 DEF FormatInv, FormatFirst, FormatSettled, FormatSent
  <2>2. CASE msg.kind # "request"
    BY <1>1, <1>3, <2>2 DEF FormatInv, FormatSettled
  <2> QED BY <2>1, <2>2
<1> QED BY <1>5, <1>6, <1>7, <1>8 DEF FormatInv

LEMMA FormatAtServerSends ==
  ASSUME Typed, FormatInv, ServerUpdates \/ ServerChanges
  PROVE  FormatInv'
<1>1. /\ UNCHANGED <<toServer, format, pc, announced>> /\ Pending' = Pending
  BY QuietTyped DEF ServerUpdates, ServerChanges, QuietServer, modelVars, canvasVars
<1>2. announced' = announced /\ FormatPending' = FormatPending /\ FormatSent' = FormatSent
      /\ RequestSent' = RequestSent
  BY <1>1 DEF FormatPending, FormatSent, RequestSent
<1>3. PICK msg \in Incoming :
        /\ toViewer' \in {toViewer, Append(toViewer, msg)}
        /\ requested' => requested
        /\ msg.kind = "update" => requested /\ msg.model = format
  <2>1. CASE ServerUpdates
    <3>1. Update(format) \in Incoming
      BY DEF Update, Incoming, Updates, Typed, TypeOK
    <3> QED BY <2>1, <3>1 DEF ServerUpdates, Update
  <2>2. CASE ServerChanges
    <3>1. Other \in Incoming /\ Unexpected \in Incoming
      BY DEF Other, Unexpected, Incoming, Updates
    <3>2. /\ toViewer' \in {toViewer, Append(toViewer, Other), Append(toViewer, Unexpected)}
          /\ requested' = requested
      BY <2>2 DEF ServerChanges
    <3> QED BY <3>1, <3>2 DEF Other, Unexpected
  <2> QED BY <2>1, <2>2
<1>4. \A n \in DOMAIN toViewer' :
        (n \in DOMAIN toViewer /\ toViewer'[n] = toViewer[n]) \/ toViewer'[n] = msg
  <2>1. toViewer \in Seq(Incoming)
    BY UnderWayType
  <2>2. \A n \in DOMAIN Append(toViewer, msg) :
          \/ n \in DOMAIN toViewer /\ Append(toViewer, msg)[n] = toViewer[n]
          \/ Append(toViewer, msg)[n] = msg
    BY <2>1, AppendElements
  <2> QED BY <1>3, <2>2
<1>5. requested => format = announced /\ ~FormatPending /\ ~FormatSent
  BY DEF FormatInv, FormatSettled, FormatArrived
<1>6. FormatsCurrent'
  BY <1>1, <1>2, <1>3, <1>4, <1>5 DEF FormatInv, FormatsCurrent
<1>7. Answered' => Answered \/ requested
  BY <1>3, <1>4 DEF Answered
<1> QED BY <1>1, <1>2, <1>3, <1>6, <1>7 DEF FormatInv, FormatArrived, FormatFirst, FormatSettled

LEMMA ClosedForGood ==
  ASSUME Next, ~closed'
  PROVE  ~closed
BY DEF closed, Next, CanvasStep, WriterStep, UiStep, ServerStep, SetPixelFormat, SetEncodings,
         WriteFullUpdateRequest, ReadBpp, ReadPalette, ReadModel, ClearPending, Loop, ReadMessage,
         AfterUpdate, LoopFails, Close, Go, WritePointerEvent, WriteKeyEvent, WriteEvent, PutDone,
         TakeTask, RunTask, SetColorModel, CloseConnection, OnDestroy, ServerHandles,
         ServerUpdates, ServerChanges, modelVars, canvasVars

LEMMA FormatNext ==
  ASSUME Typed, OneRequestUnderWay, ~closed => FormatInv, Next
  PROVE  ~closed' => FormatInv'
<1> SUFFICES ASSUME ~closed' PROVE FormatInv'
  OBVIOUS
<1>1. ~closed
  BY ClosedForGood
<1>2. FormatInv
  BY <1>1
<1>3. CASE SetPixelFormat
  BY <1>2, <1>3, FormatAtSetPixelFormat
<1>4. CASE SetEncodings
  <2>1. /\ Task("fresh", Encodings) \in Tasks /\ Task("fresh", Encodings).asked.kind = "encodings"
        /\ Pending' \in {Pending, Append(Pending, Task("fresh", Encodings))}
    BY <1>4, ExecutorSteps DEF Task, Encodings
  <2>2. UNCHANGED <<toServer, toViewer, format, requested>> /\ pc' = "ask" /\ announced' = announced
    BY <1>4 DEF SetEncodings, Go, modelVars, serverVars
  <2> QED BY <1>2, <2>1, <2>2, NeutralTask
<1>5. CASE WriteFullUpdateRequest
  BY <1>2, <1>5, FormatAtRequest
<1>6. CASE WritePointerEvent \/ WriteKeyEvent
  <2>1. PICK units \in Seq(Units) :
          /\ WriteEvent(units)
          /\ Pending' = IF closed THEN Pending ELSE Append(Pending, Task("event", Event(units)))
    BY <1>6, ExecutorSteps
  <2>2. Task("event", Event(units)) \in Tasks /\ Task("event", Event(units)).asked.kind = "event"
    BY TasksMade DEF Task, Event
  <2>3. UNCHANGED <<toServer, toViewer, format, requested, pc>> /\ announced' = announced
    BY <2>1 DEF WriteEvent, modelVars, canvasVars, serverVars
  <2> QED BY <1>2, <2>1, <2>2, <2>3, NeutralTask
<1>7. CASE PutDone \/ TakeTask
  <2>1. Pending' = Pending
    BY <1>7, ExecutorSteps
  <2>2. UNCHANGED <<toServer, toViewer, format, requested, pc>> /\ announced' = announced
    BY <1>7 DEF PutDone, TakeTask, modelVars, canvasVars, serverVars
  <2> QED BY <1>2, <2>1, <2>2, FormatAtQuietSteps
<1>8. CASE RunTask
  BY <1>1, <1>2, <1>8, FormatAtRunTask
<1>9. CASE QuietCanvas
  <2>1. Pending' = Pending
    BY <1>9, QuietTyped
  <2>2. UNCHANGED <<toServer, toViewer, format, requested>>
    BY <1>9 DEF QuietCanvas, ReadBpp, ReadPalette, ReadModel, ClearPending, Loop,
         AfterUpdate, LoopFails, Close, modelVars, serverVars
  <2>3. announced' = announced
    BY <1>9 DEF modelVars, QuietCanvas, ReadBpp, ReadPalette, ReadModel, ClearPending, Loop,
         AfterUpdate, LoopFails, Close, Go, WhileMaintained, AskAgain
  <2>4. pc' \in {"format", "updated"} => pc \in {"format", "updated"}
    BY <1>9 DEF QuietCanvas, ReadBpp, ReadPalette, ReadModel, ClearPending, Loop,
         AfterUpdate, LoopFails, Close, Go, WhileMaintained
  <2> QED BY <1>2, <2>1, <2>2, <2>3, <2>4, FormatAtQuietSteps
<1>10. CASE QuietUi
  <2>1. Pending' = Pending
    BY <1>10, QuietTyped
  <2>2. UNCHANGED <<toServer, toViewer, format, requested, pc, bytesPerPixel>>
    BY <1>10 DEF QuietUi, SetColorModel, CloseConnection, OnDestroy, modelVars, canvasVars, serverVars
  <2>3. announced' = announced
    BY <1>10 DEF QuietUi, SetColorModel, CloseConnection, OnDestroy, modelVars
  <2> QED BY <1>2, <2>1, <2>2, <2>3, FormatAtQuietSteps
<1>11. CASE ReadMessage
  BY <1>2, <1>11, FormatAtReadMessage
<1>12. CASE QuietServer
  BY <1>2, <1>12, FormatAtServerHandles, FormatAtServerSends DEF QuietServer
<1> QED BY <1>3, <1>4, <1>5, <1>6, <1>7, <1>8, <1>9, <1>10, <1>11, <1>12, NextCases

LEMMA ModelNext ==
  ASSUME Typed, ModelInv, Next
  PROVE  ModelInv'
<1>1. CASE QuietCanvas
  BY <1>1 DEF modelVars, QuietCanvas, ReadBpp, ReadPalette, ReadModel, ClearPending, Loop,
       AfterUpdate, LoopFails, Close, Go, WhileMaintained, AskAgain, ModelInv
<1>2. CASE QuietUi
  <2>1. UNCHANGED <<pc, bytesPerPixel, colorPalette>>
    BY <1>2 DEF QuietUi, SetColorModel, CloseConnection, OnDestroy, modelVars, canvasVars
  <2>2. /\ announced' = announced /\ (crossed => crossed')
        /\ ~crossed' /\ pc \in {"bpp", "palette"} => pendingColorModel' = pendingColorModel
    BY <1>2 DEF QuietUi, SetColorModel, CloseConnection, OnDestroy, modelVars, Typed, TypeOK
  <2> QED BY <2>1, <2>2 DEF ModelInv
<1>3. CASE ReadMessage
  <2>1. Head(toViewer).kind \in {"update", "other", "unexpected"}
    BY <1>3, UnderWayType, TailElements DEF ReadMessage, Incoming, Updates
  <2>2. pc = "read" /\ pc' \in {"updated", "loop", "closing"}
        /\ UNCHANGED <<bytesPerPixel, colorPalette, announced, crossed>>
    BY <1>3, <2>1 DEF ReadMessage, Go, AfterMessage, modelVars
  <2> QED BY <2>2 DEF ModelInv
<1>4. CASE SetPixelFormat \/ SetEncodings \/ WriteFullUpdateRequest
  BY <1>4 DEF modelVars, SetPixelFormat, ChosenModel, SetEncodings, WriteFullUpdateRequest, Go, ModelInv
<1>5. CASE WritePointerEvent \/ WriteKeyEvent \/ PutDone \/ TakeTask \/ RunTask \/ QuietServer
  BY <1>5 DEF WritePointerEvent, WriteKeyEvent, WriteEvent, PutDone, TakeTask, RunTask, QuietServer,
       ServerHandles, ServerUpdates, ServerChanges, modelVars, canvasVars, ModelInv
<1> QED BY <1>1, <1>2, <1>3, <1>4, <1>5, NextCases

ReadInv == Typed /\ OneRequestUnderWay /\ (~closed => FormatInv) /\ ModelInv

\* An update carries the pixels in the format that was announced last, since no format is
\* under way while a request is answered; and they are read in it, but after another colour
\* model was chosen while setPixelFormat was reading the one it had announced.
THEOREM ReadsWhatWasSent == Spec => []ReadAsSent
<1>1. Init => ReadInv
  BY InitTyped, RequestInit, FormatInit DEF ReadInv
<1>2. RequestInv /\ ReadInv /\ [Next]_vars /\ RequestInv' => ReadInv'
  <2> SUFFICES ASSUME RequestInv, ReadInv, [Next]_vars, RequestInv' PROVE ReadInv'
    OBVIOUS
  <2>1. CASE Next
    BY <2>1, FormatNext, ModelNext DEF ReadInv, RequestInv
  <2>2. CASE UNCHANGED vars
    <3>1. Pending' = Pending /\ announced' = announced /\ closed' = closed
      BY <2>2, SamePending DEF vars, execVars, modelVars, canvasVars, closed
    <3>2. UNCHANGED <<toServer, toViewer, format, requested, pc>>
      BY <2>2 DEF vars, modelVars, serverVars, canvasVars
    <3>3. ~closed' => FormatInv'
      BY <3>1, <3>2, FormatAtQuietSteps DEF ReadInv
    <3>4. ModelInv'
      BY <2>2 DEF ReadInv, ModelInv, vars, modelVars, canvasVars
    <3> QED BY <3>3, <3>4 DEF ReadInv, RequestInv
  <2> QED BY <2>1, <2>2
<1>3. ReadInv => ReadAsSent
  <2> SUFFICES ASSUME ReadInv, pc = "read", toViewer # <<>>, Head(toViewer).kind = "update"
               PROVE  /\ Head(toViewer).model = announced
                      /\ ~crossed => bytesPerPixel = announced /\ colorPalette = announced
    BY DEF ReadAsSent
  <2>1. 1 \in DOMAIN toViewer /\ Head(toViewer) = toViewer[1]
    BY UnderWayType, TailElements DEF ReadInv
  <2>2. Head(toViewer).model = announced
    BY <2>1 DEF ReadInv, closed, FormatInv, FormatsCurrent
  <2> QED BY <2>2 DEF ReadInv, ModelInv
<1> QED BY <1>1, <1>2, <1>3, RequestInvariant, PTL DEF Spec

-----------------------------------------------------------------------------
(* The modifier held down by the server *)

ModifierKeys(units) == {n \in DOMAIN units : units[n][1] = "modifier"}
\* The state of the modifier after an event that tells of it.
Ends(units) == \E n \in ModifierKeys(units) : units[n][2] /\ \A k \in ModifierKeys(units) : k <= n
Carries(msg) == msg.kind = "event" /\ ModifierKeys(msg.units) # {}

OneEvent ==
  \A i, j \in DOMAIN Pending : Pending[i].array = "event" /\ Pending[j].array = "event" => i = j
EventKept ==
  \A n \in DOMAIN Pending : Pending[n].array = "event" =>
    SubSeq(eventBuf, 1, Len(Pending[n].asked.units)) = Pending[n].asked.units
NothingPending == \A n \in DOMAIN Pending : ~Carries(Pending[n].asked)
\* Of the events on their way, the last that tells of the modifier says what the viewer knows.
PendingSays ==
  \A n \in DOMAIN Pending : Carries(Pending[n].asked) => oldModifiers = Ends(Pending[n].asked.units)
SentSays ==
  NothingPending =>
    \A n \in DOMAIN toServer :
      Carries(toServer[n]) /\ (\A k \in DOMAIN toServer : Carries(toServer[k]) => k <= n)
        => oldModifiers = Ends(toServer[n].units)
HeldSays ==
  NothingPending /\ (\A n \in DOMAIN toServer : ~Carries(toServer[n])) => held = oldModifiers
HeldInv == OneEvent /\ EventKept /\ PendingSays /\ SentSays /\ HeldSays

LEMMA KeysOfConcat ==
  ASSUME NEW s \in Seq(Units), NEW t \in Seq(Units)
  PROVE  /\ ModifierKeys(s \o t) = {} <=> ModifierKeys(s) = {} /\ ModifierKeys(t) = {}
         /\ Ends(s \o t) <=> IF ModifierKeys(t) # {} THEN Ends(t) ELSE Ends(s)
<1> DEFINE u == s \o t
           ks == ModifierKeys(s)
           kt == ModifierKeys(t)
           ku == ModifierKeys(u)
<1>1. /\ Len(s) \in Nat /\ Len(t) \in Nat
      /\ DOMAIN s = 1..Len(s) /\ DOMAIN t = 1..Len(t) /\ DOMAIN u = 1..(Len(s) + Len(t))
      /\ \A i \in 1..(Len(s) + Len(t)) : u[i] = IF i <= Len(s) THEN s[i] ELSE t[i - Len(s)]
  BY ConcatProperties, LenProperties
<1> HIDE DEF u
<1>2. ks \subseteq 1..Len(s) /\ kt \subseteq 1..Len(t) /\ ku \subseteq 1..(Len(s) + Len(t))
  BY <1>1 DEF ModifierKeys
<1>3. \A n \in 1..Len(s) : u[n] = s[n] /\ (n \in ku <=> n \in ks)
  BY <1>1 DEF ModifierKeys
<1>4. \A n \in 1..Len(t) : u[Len(s) + n] = t[n] /\ (Len(s) + n \in ku <=> n \in kt)
  <2> TAKE n \in 1..Len(t)
  <2>1. Len(s) + n \in 1..(Len(s) + Len(t)) /\ ~(Len(s) + n <= Len(s)) /\ (Len(s) + n) - Len(s) = n
    BY <1>1
  <2>2. u[Len(s) + n] = t[n]
    BY <1>1, <2>1
  <2> QED BY <1>1, <2>1, <2>2 DEF ModifierKeys
<1>5. \A n \in ku : n \in ks \/ \E m \in kt : n = Len(s) + m
  <2> TAKE n \in ku
  <2>1. CASE n <= Len(s)
    BY <1>1, <1>2, <1>3, <2>1
  <2>2. CASE ~(n <= Len(s))
    <3>1. n - Len(s) \in 1..Len(t) /\ n = Len(s) + (n - Len(s))
      BY <1>1, <1>2, <2>2
    <3> QED BY <1>4, <3>1
  <2> QED BY <2>1, <2>2
<1> HIDE DEF ks, kt, ku
<1>6. ku = {} <=> ks = {} /\ kt = {}
  BY <1>2, <1>3, <1>4, <1>5
<1>7. CASE kt # {}
  <2>1. ASSUME NEW n \in kt, t[n][2], \A k \in kt : k <= n
        PROVE  Len(s) + n \in ku /\ u[Len(s) + n][2] /\ \A k \in ku : k <= Len(s) + n
    <3>1. n \in 1..Len(t) /\ Len(s) + n \in ku /\ u[Len(s) + n][2]
      BY <1>2, <1>4, <2>1
    <3>2. ASSUME NEW k \in ku PROVE k <= Len(s) + n
      <4>1. CASE k \in ks
        BY <1>1, <1>2, <3>1, <4>1
      <4>2. CASE \E m \in kt : k = Len(s) + m
        <5>1. PICK m \in kt : k = Len(s) + m
          BY <4>2
        <5>2. m <= n
          BY <2>1
        <5> QED BY <1>1, <1>2, <3>1, <5>1, <5>2
      <4> QED BY <1>5, <4>1, <4>2
    <3> QED BY <3>1, <3>2
  <2>2. ASSUME NEW n \in ku, u[n][2], \A k \in ku : k <= n
        PROVE  \E m \in kt : t[m][2] /\ \A k \in kt : k <= m
    <3>1. PICK m \in kt : n = Len(s) + m
      <4>1. PICK m \in kt : TRUE
        BY <1>7
      <4>2. Len(s) + m <= n
        BY <1>2, <1>4, <2>2, <4>1
      <4>3. n \notin ks
        BY <1>1, <1>2, <4>1, <4>2
      <4> QED BY <1>5, <4>3
    <3>2. t[m][2]
      BY <1>2, <1>4, <2>2, <3>1
    <3>3. \A k \in kt : k <= m
      <4> TAKE k \in kt
      <4>1. Len(s) + k <= Len(s) + m
        BY <1>2, <1>4, <2>2, <3>1
      <4> QED BY <1>1, <1>2, <4>1
    <3> QED BY <3>2, <3>3
  <2>3. Ends(u) <=> Ends(t)
    BY <2>1, <2>2 DEF Ends, ku, kt
  <2> QED BY <1>6, <1>7, <2>3 DEF u, ks, kt, ku
<1>8. CASE kt = {}
  <2>1. ku = ks
    BY <1>2, <1>3, <1>5, <1>8
  <2>2. \A n \in ks : u[n] = s[n]
    BY <1>2, <1>3
  <2>3. Ends(u) <=> Ends(s)
    BY <2>1, <2>2 DEF Ends, ku, ks
  <2> QED BY <1>6, <1>8, <2>3 DEF u, ks, kt, ku
<1> QED BY <1>7, <1>8

LEMMA KeysMade ==
  /\ \A down \in BOOLEAN : ModifierKeys(PointerUnits(down)) = {} /\ ModifierKeys(KeyUnits("key", down)) = {}
  /\ \A old, new \in BOOLEAN :
       /\ ModifierKeys(ModifierUnits(old, new)) = {} <=> old = new
       /\ old # new => (Ends(ModifierUnits(old, new)) <=> new)
  /\ ModifierKeys(<<>>) = {}
<1>1. ASSUME NEW down \in BOOLEAN
      PROVE  ModifierKeys(PointerUnits(down)) = {} /\ ModifierKeys(KeyUnits("key", down)) = {}
  BY DEF ModifierKeys, PointerUnits, KeyUnits
<1>2. ModifierKeys(<<>>) = {}
  BY DEF ModifierKeys
<1>3. ASSUME NEW old \in BOOLEAN, NEW new \in BOOLEAN, old # new
      PROVE  /\ ModifierKeys(ModifierUnits(old, new)) # {}
             /\ Ends(ModifierUnits(old, new)) <=> new
  <2>1. ModifierUnits(old, new) = KeyUnits("modifier", new)
    BY <1>3 DEF ModifierUnits
  <2>2. /\ ModifierKeys(KeyUnits("modifier", new)) = 1..4
        /\ \A n \in 1..4 : KeyUnits("modifier", new)[n][2] = new
    BY DEF ModifierKeys, KeyUnits
  <2>3. Ends(KeyUnits("modifier", new)) <=> new
    <3>1. 4 \in 1..4 /\ \A k \in 1..4 : k <= 4
      OBVIOUS
    <3> QED BY <2>2, <3>1 DEF Ends
  <2> QED BY <2>1, <2>2, <2>3
<1>4. ASSUME NEW old \in BOOLEAN PROVE ModifierKeys(ModifierUnits(old, old)) = {}
  BY <1>2 DEF ModifierUnits
<1> QED BY <1>1, <1>2, <1>3, <1>4

\* What an event tells of the modifier is what the viewer remembers.
LEMMA EventTells ==
  ASSUME Typed, WritePointerEvent \/ WriteKeyEvent
  PROVE  \E units \in Seq(Units) :
           /\ WriteEvent(units)
           /\ IF ModifierKeys(units) = {} THEN oldModifiers' = oldModifiers
              ELSE oldModifiers' = Ends(units)
<1>1. oldModifiers \in BOOLEAN
  BY DEF Typed, TypeOK
<1>2. CASE WritePointerEvent
  <2>1. PICK down \in BOOLEAN, modifier \in BOOLEAN :
          /\ WriteEvent(ModifierUnits(oldModifiers, modifier) \o PointerUnits(down)
                        \o (IF down THEN <<>> ELSE ModifierUnits(modifier, FALSE)))
          /\ oldModifiers' = (down /\ modifier)
    BY <1>2 DEF WritePointerEvent
  <2> DEFINE press == ModifierUnits(oldModifiers, modifier)
             move == PointerUnits(down)
             release == IF down THEN <<>> ELSE ModifierUnits(modifier, FALSE)
  <2>2. press \in Seq(Units) /\ move \in Seq(Units) /\ release \in Seq(Units)
    BY <1>1, UnitsMade, EmptySeq
  <2>3. /\ ModifierKeys(press) = {} <=> oldModifiers = modifier
        /\ oldModifiers # modifier => (Ends(press) <=> modifier)
        /\ ModifierKeys(move) = {}
        /\ ModifierKeys(release) = {} <=> down \/ ~modifier
        /\ ~down /\ modifier => ~Ends(release)
    BY <1>1, KeysMade
  <2> HIDE DEF press, move, release
  <2>4. /\ press \o move \in Seq(Units)
        /\ ModifierKeys(press \o move) = {} <=> oldModifiers = modifier
        /\ oldModifiers # modifier => (Ends(press \o move) <=> modifier)
    BY <2>2, <2>3, ConcatProperties, KeysOfConcat
  <2> DEFINE units == (press \o move) \o release
  <2>5. /\ units \in Seq(Units)
        /\ ModifierKeys(units) = {} <=> oldModifiers = modifier /\ (down \/ ~modifier)
        /\ Ends(units) <=> IF ~down /\ modifier THEN FALSE ELSE Ends(press \o move)
    BY <2>2, <2>3, <2>4, ConcatProperties, KeysOfConcat
  <2> HIDE DEF units
  <2>6. Ends(units) \in BOOLEAN
    BY DEF Ends
  <2>7. IF ModifierKeys(units) = {} THEN oldModifiers' = oldModifiers ELSE oldModifiers' = Ends(units)
    BY <1>1, <2>1, <2>4, <2>5, <2>6
  <2>8. WriteEvent(units)
    BY <2>1 DEF units, press, move, release
  <2> QED BY <2>5, <2>7, <2>8
<1>3. CASE WriteKeyEvent
  <2>1. CASE \E modifier \in BOOLEAN :
               /\ WriteEvent(ModifierUnits(oldModifiers, modifier) \o KeyUnits("key", TRUE))
               /\ oldModifiers' = modifier
    <3>1. PICK modifier \in BOOLEAN :
            /\ WriteEvent(ModifierUnits(oldModifiers, modifier) \o KeyUnits("key", TRUE))
            /\ oldModifiers' = modifier
      BY <2>1
    <3> DEFINE press == ModifierUnits(oldModifiers, modifier)
               units == press \o KeyUnits("key", TRUE)
    <3>2. press \in Seq(Units) /\ KeyUnits("key", TRUE) \in Seq(Units)
      BY <1>1, UnitsMade
    <3>3. /\ ModifierKeys(press) = {} <=> oldModifiers = modifier
          /\ oldModifiers # modifier => (Ends(press) <=> modifier)
          /\ ModifierKeys(KeyUnits("key", TRUE)) = {}
      BY <1>1, KeysMade
    <3> HIDE DEF press
    <3>4. /\ units \in Seq(Units)
          /\ ModifierKeys(units) = {} <=> oldModifiers = modifier
          /\ oldModifiers # modifier => (Ends(units) <=> modifier)
      BY <3>2, <3>3, ConcatProperties, KeysOfConcat
    <3>5. WriteEvent(units)
      BY <3>1 DEF press
    <3> HIDE DEF units
    <3>6. Ends(units) \in BOOLEAN
      BY DEF Ends
    <3> QED BY <3>1, <3>4, <3>5, <3>6
  <2>2. CASE WriteEvent(KeyUnits("key", FALSE) \o ModifierUnits(oldModifiers, FALSE))
             /\ oldModifiers' = FALSE
    <3> DEFINE release == ModifierUnits(oldModifiers, FALSE)
               units == KeyUnits("key", FALSE) \o release
    <3>1. release \in Seq(Units) /\ KeyUnits("key", FALSE) \in Seq(Units)
      BY <1>1, UnitsMade
    <3>2. /\ ModifierKeys(release) = {} <=> oldModifiers = FALSE
          /\ oldModifiers # FALSE => ~Ends(release)
          /\ ModifierKeys(KeyUnits("key", FALSE)) = {}
      BY <1>1, KeysMade
    <3>3. WriteEvent(units)
      BY <2>2
    <3> HIDE DEF release
    <3>4. /\ units \in Seq(Units)
          /\ ModifierKeys(units) = {} <=> oldModifiers = FALSE
          /\ oldModifiers # FALSE => ~Ends(units)
      BY <3>1, <3>2, ConcatProperties, KeysOfConcat
    <3> HIDE DEF units
    <3>5. Ends(units) \in BOOLEAN
      BY DEF Ends
    <3> QED BY <1>1, <2>2, <3>3, <3>4, <3>5
  <2> QED BY <1>3, <2>1, <2>2 DEF WriteKeyEvent
<1> QED BY <1>2, <1>3

LEMMA HeldInit ==
  ASSUME Init
  PROVE  HeldInv
<1>1. Pending = <<>> /\ toServer = <<>> /\ held = oldModifiers
  BY InitTyped DEF Init
<1>2. \A n \in DOMAIN <<>> : FALSE
  OBVIOUS
<1> QED BY <1>1, <1>2 DEF HeldInv, OneEvent, EventKept, PendingSays, SentSays, HeldSays, NothingPending

\* A task is an event exactly when its message is one.
LEMMA TaskOfEvent ==
  ASSUME Typed, NEW n \in DOMAIN Pending
  PROVE  /\ Pending[n] \in Tasks
         /\ Pending[n].array = "event" <=> Pending[n].asked.kind = "event"
         /\ Carries(Pending[n].asked) => Pending[n].array = "event"
<1>1. Pending[n] \in Tasks
  BY ContentsType
<1> QED BY <1>1, TaskKinds DEF Carries

\* Other tasks change nothing.
LEMMA HeldAtOtherTasks ==
  ASSUME Typed, HeldInv, NEW task \in Tasks, task.array # "event",
         Pending' \in {Pending, Append(Pending, task)},
         UNCHANGED <<toServer, held, oldModifiers, eventBuf>>
  PROVE  HeldInv'
<1>1. Pending \in Seq(Tasks)
  BY UnderWayType
<1>2. \A n \in DOMAIN Pending : n \in DOMAIN Pending' /\ Pending'[n] = Pending[n]
  BY <1>1, AppendElements
<1>3. \A n \in DOMAIN Pending' : n \in DOMAIN Pending \/ Pending'[n] = task
  BY <1>1, AppendElements
<1>4. ~Carries(task.asked)
  BY TaskKinds DEF Carries
<1>5. NothingPending' <=> NothingPending
  BY <1>2, <1>3, <1>4 DEF NothingPending
<1>6. OneEvent' /\ EventKept' /\ PendingSays'
  BY <1>2, <1>3, <1>4 DEF HeldInv, OneEvent, EventKept, PendingSays
<1>7. SentSays' /\ HeldSays'
  BY <1>5 DEF HeldInv, SentSays, HeldSays
<1> QED BY <1>6, <1>7 DEF HeldInv

LEMMA HeldAtEvents ==
  ASSUME Typed, ~overwritten => HeldInv, ~closed, WritePointerEvent \/ WriteKeyEvent,
         ~overwritten'
  PROVE  HeldInv'
<1>1. PICK units \in Seq(Units) :
        /\ WriteEvent(units)
        /\ IF ModifierKeys(units) = {} THEN oldModifiers' = oldModifiers
           ELSE oldModifiers' = Ends(units)
  BY EventTells
<1> DEFINE task == Task("event", Event(units))
<1>2. /\ task \in Tasks /\ task.array = "event" /\ task.asked.units = units
      /\ Carries(task.asked) <=> ModifierKeys(units) # {}
  <2>1. task \in Tasks
    BY TasksMade
  <2> QED BY <2>1 DEF Task, Event, Carries
<1>3. Pending' = Append(Pending, task)
  <2>1. events > 0
    BY DEF WritePointerEvent, WriteKeyEvent, MayAct
  <2>2. oldModifiers' \in BOOLEAN
    BY <1>1 DEF Ends, Typed, TypeOK
  <2> QED BY <1>1, <2>1, <2>2, WriteEventTyped
<1> HIDE DEF task
<1>4. /\ \A n \in DOMAIN Pending : Pending[n].array # "event"
      /\ NothingPending
      /\ ModifierKeys(units) # {} \/ HeldInv
  <2>1. ~EventPending /\ (overwritten => Tells(units))
    BY <1>1 DEF WriteEvent
  <2>2. \A n \in DOMAIN Pending : Pending[n].array # "event"
    BY <2>1 DEF EventPending
  <2>3. Tells(units) => ModifierKeys(units) # {}
    BY DEF Tells, ModifierKeys
  <2> QED BY <2>1, <2>2, <2>3, TaskOfEvent DEF NothingPending
<1>5. /\ \A n \in DOMAIN Pending : n \in DOMAIN Pending' /\ Pending'[n] = Pending[n]
      /\ DOMAIN Pending = 1..Len(Pending) /\ Len(Pending) \in Nat
      /\ DOMAIN Pending' = 1..(Len(Pending) + 1) /\ Pending'[Len(Pending) + 1] = task
  BY <1>2, <1>3, UnderWayType, AppendElements
<1>6. \A n \in DOMAIN Pending' : Pending'[n].array = "event" => n = Len(Pending) + 1
  BY <1>4, <1>5
<1>7. OneEvent'
  BY <1>6 DEF OneEvent
<1>8. SubSeq(eventBuf', 1, Len(units)) = units
  <2> DEFINE behind == SubSeq(eventBuf, Len(units) + 1, Len(eventBuf))
  <2>1. eventBuf \in Seq(Units) /\ Len(eventBuf) \in Nat /\ Len(units) \in Nat
    BY LenProperties DEF Typed, TypeOK
  <2>2. behind \in Seq(Units)
    <3>1. \A i \in (Len(units) + 1)..Len(eventBuf) : eventBuf[i] \in Units
      BY <2>1, ElementOfSeq
    <3> QED BY <2>1, <3>1, SubSeqProperties
  <2>3. eventBuf' = units \o behind
    BY <1>1 DEF WriteEvent
  <2> HIDE DEF behind
  <2>4. /\ Len(behind) \in Nat /\ eventBuf' \in Seq(Units)
        /\ \A i \in 1..Len(units) : eventBuf'[i] = units[i] /\ units[i] \in Units
    BY <2>1, <2>2, <2>3, ConcatProperties, LenProperties, ElementOfSeq
  <2> DEFINE front == SubSeq(eventBuf', 1, Len(units))
  <2>5. /\ front \in Seq(Units) /\ Len(front) = Len(units)
        /\ \A i \in 1..Len(units) : front[i] = units[i]
    <3>1. 1 \in Int /\ Len(units) \in Int /\ \A i \in 1..Len(units) : eventBuf'[i] \in Units
      BY <2>1, <2>4
    <3>2. /\ front \in Seq(Units) /\ Len(front) = IF 1 <= Len(units) THEN Len(units) - 1 + 1 ELSE 0
          /\ \A i \in 1..(Len(units) - 1 + 1) : front[i] = eventBuf'[1 + i - 1]
      BY <3>1, SubSeqProperties
    <3> HIDE DEF front
    <3> QED BY <2>1, <2>4, <3>2
  <2> HIDE DEF front
  <2>6. front = units
    BY <2>5, SeqEqual
  <2> QED BY <2>6 DEF front
<1>9. EventKept'
  BY <1>2, <1>5, <1>6, <1>8 DEF EventKept
<1>10. NothingPending' <=> ModifierKeys(units) = {}
  BY <1>2, <1>4, <1>5 DEF NothingPending
<1>11. PendingSays'
  <2>1. ASSUME NEW n \in DOMAIN Pending', Carries(Pending'[n].asked)
        PROVE  Pending'[n] = task /\ ModifierKeys(units) # {}
    BY <1>2, <1>4, <1>5, <2>1 DEF NothingPending
  <2> QED BY <1>1, <1>2, <2>1 DEF PendingSays
<1>12. UNCHANGED <<toServer, held>>
  BY <1>1 DEF WriteEvent, modelVars, serverVars
<1>13. ModifierKeys(units) = {} => oldModifiers' = oldModifiers
  BY <1>1
<1>14. SentSays'
  BY <1>4, <1>10, <1>12, <1>13 DEF HeldInv, SentSays
<1>15. HeldSays'
  BY <1>4, <1>10, <1>12, <1>13 DEF HeldInv, HeldSays
<1> QED BY <1>7, <1>9, <1>11, <1>14, <1>15 DEF HeldInv

LEMMA HeldAtRunTask ==
  ASSUME Typed, HeldInv, RunTask, ~closed
  PROVE  HeldInv'
<1> DEFINE first == Pending[1]
           msg == Contents(first)
<1>1. /\ Pending # <<>> /\ Pending' = Tail(Pending) /\ 1 \in DOMAIN Pending
      /\ toServer' = Append(toServer, msg) /\ msg \in Outgoing
  BY RunTaskTyped
<1>2. UNCHANGED <<held, oldModifiers, eventBuf>>
  BY DEF RunTask, modelVars, bufVars, serverVars
<1>3. msg.kind = first.asked.kind /\ (first.array = "event" => msg = first.asked)
  <2>1. msg.kind = first.asked.kind /\ first \in Tasks
    BY <1>1, ContentsType
  <2>2. ASSUME first.array = "event" PROVE msg = first.asked
    <3>1. msg = Event(SubSeq(eventBuf, 1, Len(first.asked.units)))
      BY <2>2 DEF Contents
    <3>2. SubSeq(eventBuf, 1, Len(first.asked.units)) = first.asked.units
      BY <1>1, <2>2 DEF HeldInv, EventKept
    <3>3. first.asked = Event(first.asked.units)
      BY <2>1, <2>2 DEF Tasks, Fresh, Requests, Events, RequestTasks, EventTasks, Event
    <3> QED BY <3>1, <3>2, <3>3
  <2> QED BY <2>1, <2>2
<1>4. /\ Carries(msg) <=> Carries(first.asked)
      /\ Carries(msg) => msg = first.asked
  BY <1>1, <1>3, TaskOfEvent DEF Carries
<1> HIDE DEF msg
<1>5. /\ \A n \in DOMAIN Pending' : n + 1 \in DOMAIN Pending /\ Pending'[n] = Pending[n + 1]
      /\ DOMAIN Pending = 1..Len(Pending) /\ Len(Pending) \in Nat
      /\ DOMAIN Pending' = 1..(Len(Pending) - 1)
  BY <1>1, UnderWayType, TailElements
<1>6. /\ \A n \in DOMAIN toServer : n \in DOMAIN toServer' /\ toServer'[n] = toServer[n]
      /\ DOMAIN toServer = 1..Len(toServer) /\ Len(toServer) \in Nat
      /\ DOMAIN toServer' = 1..(Len(toServer) + 1) /\ toServer'[Len(toServer) + 1] = msg
  BY <1>1, UnderWayType, AppendElements
<1>7. OneEvent'
  <2>1. ASSUME NEW i \in DOMAIN Pending', NEW j \in DOMAIN Pending',
               Pending'[i].array = "event", Pending'[j].array = "event"
        PROVE  i = j
    <3>1. i + 1 = j + 1
      BY <1>5, <2>1 DEF HeldInv, OneEvent
    <3> QED BY <1>5, <3>1
  <2> QED BY <2>1 DEF OneEvent
<1>8. EventKept' /\ PendingSays'
  BY <1>2, <1>5 DEF HeldInv, EventKept, PendingSays
<1>9. \/ NothingPending /\ ~Carries(msg)
      \/ Carries(msg) /\ oldModifiers = Ends(msg.units)
      \/ ~NothingPending'
  <2>1. ASSUME NEW n \in DOMAIN Pending, n # 1
        PROVE  n - 1 \in DOMAIN Pending' /\ Pending'[n - 1] = Pending[n]
    BY <1>5, <2>1
  <2>2. Carries(msg) => oldModifiers = Ends(msg.units)
    BY <1>1, <1>4 DEF HeldInv, PendingSays
  <2>3. ~Carries(msg) /\ NothingPending' => NothingPending
    BY <1>4, <2>1 DEF NothingPending
  <2> QED BY <2>2, <2>3
<1>10. SentSays'
  <2> SUFFICES ASSUME NothingPending', NEW n \in DOMAIN toServer', Carries(toServer'[n]),
                      \A k \in DOMAIN toServer' : Carries(toServer'[k]) => k <= n
               PROVE  oldModifiers = Ends(toServer'[n].units)
    BY <1>2 DEF SentSays
  <2>1. CASE Carries(msg)
    <3>1. Len(toServer) + 1 <= n
      BY <1>6, <2>1
    <3>2. n = Len(toServer) + 1
      BY <1>6, <3>1
    <3> QED BY <1>6, <1>9, <2>1, <3>2
  <2>2. CASE ~Carries(msg)
    <3>1. NothingPending
      BY <1>9, <2>2
    <3>2. n \in DOMAIN toServer
      BY <1>6, <2>2
    <3>3. \A k \in DOMAIN toServer : Carries(toServer[k]) => k <= n
      BY <1>6
    <3> QED BY <1>6, <3>1, <3>2, <3>3 DEF HeldInv, SentSays
  <2> QED BY <2>1, <2>2
<1>11. HeldSays'
  <2> SUFFICES ASSUME NothingPending', \A n \in DOMAIN toServer' : ~Carries(toServer'[n])
               PROVE  held = oldModifiers
    BY <1>2 DEF HeldSays
  <2>1. ~Carries(msg)
    BY <1>6
  <2>2. NothingPending /\ \A n \in DOMAIN toServer : ~Carries(toServer[n])
    BY <1>6, <1>9, <2>1
  <2> QED BY <2>2 DEF HeldInv, HeldSays
<1> QED BY <1>7, <1>8, <1>10, <1>11 DEF HeldInv

LEMMA HeldAtServerHandles ==
  ASSUME Typed, HeldInv, ServerHandles
  PROVE  HeldInv'
<1> DEFINE msg == Head(toServer)
<1>1. /\ toServer # <<>> /\ toServer' = Tail(toServer)
      /\ held' = IF msg.kind = "event" THEN HeldAfter(msg.units) ELSE held
      /\ UNCHANGED <<oldModifiers, eventBuf>> /\ Pending' = Pending
  BY QuietTyped DEF ServerHandles, QuietServer, modelVars, bufVars
<1>2. held' = IF Carries(msg) THEN Ends(msg.units) ELSE held
  BY <1>1 DEF HeldAfter, Carries, Ends, ModifierKeys
<1>3. /\ \A n \in DOMAIN toServer' : n + 1 \in DOMAIN toServer /\ toServer'[n] = toServer[n + 1]
      /\ 1 \in DOMAIN toServer /\ msg = toServer[1]
      /\ DOMAIN toServer = 1..Len(toServer) /\ Len(toServer) \in Nat
      /\ DOMAIN toServer' = 1..(Len(toServer) - 1)
  BY <1>1, UnderWayType, TailElements
<1> HIDE DEF msg
<1>4. ASSUME NEW n \in DOMAIN toServer, n # 1
      PROVE  n - 1 \in DOMAIN toServer' /\ toServer'[n - 1] = toServer[n]
  BY <1>3, <1>4
<1>5. NothingPending' = NothingPending /\ OneEvent' /\ EventKept' /\ PendingSays'
  BY <1>1 DEF HeldInv, NothingPending, OneEvent, EventKept, PendingSays
<1>6. SentSays'
  <2> SUFFICES ASSUME NothingPending, NEW n \in DOMAIN toServer', Carries(toServer'[n]),
                      \A k \in DOMAIN toServer' : Carries(toServer'[k]) => k <= n
               PROVE  oldModifiers = Ends(toServer'[n].units)
    BY <1>1, <1>5 DEF SentSays
  <2>1. ASSUME NEW k \in DOMAIN toServer, Carries(toServer[k])
        PROVE  k <= n + 1
    <3>1. CASE k = 1
      BY <1>3, <3>1
    <3>2. CASE k # 1
      <4>1. k - 1 <= n
        BY <1>4, <2>1, <3>2
      <4> QED BY <1>3, <4>1
    <3> QED BY <3>1, <3>2
  <2> QED BY <1>3, <2>1 DEF HeldInv, SentSays
<1>7. HeldSays'
  <2> SUFFICES ASSUME NothingPending, \A n \in DOMAIN toServer' : ~Carries(toServer'[n])
               PROVE  held' = oldModifiers
    BY <1>1, <1>5 DEF HeldSays
  <2>1. \A k \in DOMAIN toServer : Carries(toServer[k]) => k = 1
    BY <1>4
  <2>2. CASE Carries(msg)
    <3>1. \A k \in DOMAIN toServer : Carries(toServer[k]) => k <= 1
      BY <2>1
    <3>2. oldModifiers = Ends(msg.units)
      BY <1>3, <2>2, <3>1 DEF HeldInv, SentSays
    <3> QED BY <1>2, <2>2, <3>2
  <2>3. CASE ~Carries(msg)
    BY <1>2, <1>3, <2>1, <2>3 DEF HeldInv, HeldSays
  <2> QED BY <2>2, <2>3
<1> QED BY <1>5, <1>6, <1>7 DEF HeldInv

LEMMA HeldAtQuietSteps ==
  ASSUME HeldInv, Pending' = Pending, UNCHANGED <<toServer, held, oldModifiers, eventBuf>>
  PROVE  HeldInv'
BY DEF HeldInv, OneEvent, EventKept, PendingSays, SentSays, HeldSays, NothingPending

LEMMA HeldAtOtherSteps ==
  ASSUME Typed, HeldInv, Next, ~closed, ~WritePointerEvent, ~WriteKeyEvent
  PROVE  HeldInv'
<1>1. CASE SetPixelFormat
  <2> DEFINE task == Task("fresh", Format(pendingColorModel))
  <2>1. task \in Tasks /\ Pending' = Append(Pending, task) /\ task.array # "event"
    BY <1>1, ExecutorSteps DEF Task
  <2>2. UNCHANGED <<toServer, held, oldModifiers, eventBuf>>
    BY <1>1 DEF SetPixelFormat, modelVars, bufVars, serverVars
  <2> HIDE DEF task
  <2> QED BY <2>1, <2>2, HeldAtOtherTasks
<1>2. CASE SetEncodings
  <2> DEFINE task == Task("fresh", Encodings)
  <2>1. task \in Tasks /\ Pending' \in {Pending, Append(Pending, task)} /\ task.array # "event"
    BY <1>2, ExecutorSteps DEF Task
  <2>2. UNCHANGED <<toServer, held, oldModifiers, eventBuf>>
    BY <1>2 DEF SetEncodings, modelVars, bufVars, serverVars
  <2> HIDE DEF task
  <2> QED BY <2>1, <2>2, HeldAtOtherTasks
<1>3. CASE WriteFullUpdateRequest
  <2> DEFINE task == Task("request", Request(requestBuf'))
  <2>1. task \in Tasks /\ Pending' = Append(Pending, task) /\ task.array # "event"
    BY <1>3, ExecutorSteps DEF Task
  <2>2. UNCHANGED <<toServer, held, oldModifiers, eventBuf>>
    BY <1>3 DEF WriteFullUpdateRequest, modelVars, serverVars
  <2> HIDE DEF task
  <2> QED BY <2>1, <2>2, HeldAtOtherTasks
<1>4. CASE PutDone \/ TakeTask
  <2>1. Pending' = Pending
    BY <1>4, ExecutorSteps
  <2>2. UNCHANGED <<toServer, held, oldModifiers, eventBuf>>
    BY <1>4 DEF PutDone, TakeTask, modelVars, bufVars, serverVars
  <2> QED BY <2>1, <2>2, HeldAtQuietSteps
<1>5. CASE RunTask
  BY <1>5, HeldAtRunTask
<1>6. CASE QuietCanvas \/ QuietUi \/ ReadMessage
  <2>1. Pending' = Pending
    BY <1>6, QuietTyped
  <2>2. UNCHANGED <<toServer, held, oldModifiers, eventBuf>>
    BY <1>6 DEF QuietCanvas, QuietUi, ReadMessage, ReadBpp, ReadPalette, ReadModel, ClearPending,
         Loop, AfterUpdate, LoopFails, Close, SetColorModel, CloseConnection, OnDestroy,
         modelVars, bufVars, serverVars
  <2> QED BY <2>1, <2>2, HeldAtQuietSteps
<1>7. CASE ServerHandles
  BY <1>7, HeldAtServerHandles
<1>8. CASE ServerUpdates \/ ServerChanges
  <2>1. Pending' = Pending
    BY <1>8, QuietTyped DEF QuietServer
  <2>2. UNCHANGED <<toServer, held, oldModifiers, eventBuf>>
    BY <1>8 DEF ServerUpdates, ServerChanges, modelVars, bufVars, serverVars
  <2> QED BY <2>1, <2>2, HeldAtQuietSteps
<1> QED BY <1>1, <1>2, <1>3, <1>4, <1>5, <1>6, <1>7, <1>8, NextCases DEF QuietServer

\* Only a new event can show that the overwritten ones no longer matter.
LEMMA HeldNext ==
  ASSUME Typed, ~closed /\ ~overwritten => HeldInv, Next
  PROVE  ~closed' /\ ~overwritten' => HeldInv'
<1> SUFFICES ASSUME ~closed', ~overwritten' PROVE HeldInv'
  OBVIOUS
<1>1. ~closed
  BY ClosedForGood
<1>2. CASE WritePointerEvent \/ WriteKeyEvent
  BY <1>1, <1>2, HeldAtEvents
<1>3. CASE ~WritePointerEvent /\ ~WriteKeyEvent
  <2>1. overwritten' = overwritten
    BY <1>3, NextCases
       DEF SetPixelFormat, SetEncodings, WriteFullUpdateRequest, PutDone, TakeTask, RunTask,
           QuietCanvas, ReadBpp, ReadPalette, ReadModel, ClearPending, Loop, AfterUpdate,
           LoopFails, Close, ReadMessage, QuietUi, SetColorModel, CloseConnection, OnDestroy,
           QuietServer, ServerHandles, ServerUpdates, ServerChanges, bufVars
  <2> QED BY <1>1, <1>3, <2>1, HeldAtOtherSteps
<1> QED BY <1>2, <1>3

HeldTyped == Typed /\ (~closed /\ ~overwritten => HeldInv)

\* No modifier sticks: when everything the user has done has arrived, the server holds down
\* what the viewer remembers, but for the time between an event overwritten in eventBuf and
\* the next one put there on its own that tells of the modifier.
THEOREM NoModifierSticks == Spec => []ModifiersAgree
<1>1. Init => HeldTyped
  BY InitTyped, HeldInit DEF HeldTyped
<1>2. HeldTyped /\ [Next]_vars => HeldTyped'
  <2> SUFFICES ASSUME HeldTyped, [Next]_vars PROVE HeldTyped'
    OBVIOUS
  <2>1. CASE Next
    BY <2>1, HeldNext, TypedNext DEF HeldTyped
  <2>2. CASE UNCHANGED vars
    <3>1. Pending' = Pending /\ closed' = closed
      BY <2>2, SamePending DEF vars, execVars, modelVars, canvasVars, closed
    <3>2. UNCHANGED <<toServer, held, oldModifiers, eventBuf, overwritten>>
      BY <2>2 DEF vars, modelVars, serverVars, bufVars
    <3> QED BY <3>1, <3>2, HeldAtQuietSteps, TypedNext DEF HeldTyped
  <2> QED BY <2>1, <2>2
<1>3. HeldTyped => ModifiersAgree
  <2> SUFFICES ASSUME HeldTyped, \A n \in DOMAIN Pending : Pending[n].array # "event",
                      Count(toServer, Events) = 0, pc # "closed", ~overwritten
               PROVE  held = oldModifiers
    BY DEF ModifiersAgree, EventPending
  <2>1. NothingPending
    BY TaskOfEvent DEF HeldTyped, NothingPending
  <2>2. \A n \in DOMAIN toServer : ~Carries(toServer[n])
    <3> TAKE n \in DOMAIN toServer
    <3>1. toServer[n] \in Outgoing /\ toServer[n] \notin Events
      BY UnderWayType, CountZero DEF HeldTyped
    <3> QED BY <3>1 DEF Outgoing, Fresh, Requests, Carries
  <2> QED BY <2>1, <2>2 DEF HeldTyped, closed, HeldInv, HeldSays
<1> QED BY <1>1, <1>2, <1>3, PTL DEF Spec
=============================================================================
