--------------------------- MODULE MessagingProofs ---------------------------
(***************************************************************************)
(* Safety of the conversations, for any number of accounts, request keys,   *)
(* contents and handlers.  The inductive invariant says who holds which     *)
(* advisory lock, what a handler past its look-up may rely on while it      *)
(* holds the lock of its request key, and how the rows fit together: the    *)
(* messages of a thread are numbered without gaps, and a request has one.   *)
(* The handlers implement MessageLog.                                       *)
(***************************************************************************)
EXTENDS Messaging, FiniteSetTheorems, SequenceTheorems, TLAPS

USE ActorAssumption, BoundAssumption

Place == {"idle", "key", "find", "open", "thread", "check", "write", "read"}

\* Where a handler holds the lock of its request key, and of its conversation.
Keyed == {"find", "open", "thread", "check", "write"}
Threaded == {"check", "write"}

TaskFits(h) ==
    /\ pc[h] = "idle" => task[h] = NoTask
    /\ pc[h] \in {"key", "find", "open"} => task[h] \in SendTask
    /\ pc[h] \in {"thread", "check", "write"} => task[h] \in SendTask /\ task[h].thread # 0
    /\ pc[h] = "read" => task[h] \in ReadTask

\* A lock is held by the handler that is past it, and by nobody else.
LocksHeld == \A h \in Handler :
    /\ pc[h] \in Keyed => keyLock[task[h].request] = h
    /\ \A q \in Request : keyLock[q] = h => pc[h] \in Keyed /\ task[h].request = q
    /\ pc[h] \in Threaded => threadLock[task[h].thread] = h
    /\ \A c \in Conversation : threadLock[c] = h => pc[h] \in Threaded

\* A reply is to a conversation that is committed.
RepliesKnown == \A h \in Handler :
    pc[h] \in {"key", "thread", "check", "write"} => task[h].thread <= opened

\* A request key and a place in a thread each name one message.
MessagesUnique == \A m, n \in messages :
    \/ m.request = n.request
    \/ m.thread = n.thread /\ m.sequence = n.sequence
    => m = n

\* The messages of a thread are those numbered 1 to lastSequence.
ThreadsDense ==
    /\ \A m \in messages : m.thread <= opened /\ m.sequence \in 1..last[m.thread]
    /\ \A c \in Conversation : \A i \in 1..last[c] :
        \E m \in messages : m.thread = c /\ m.sequence = i

\* The last number of a thread is within the number of messages, and zero before the first.
ThreadsCounted ==
    /\ IsFiniteSet(messages)
    /\ \A c \in Conversation :
        last[c] <= Cardinality(messages) /\ (c > opened => last[c] = 0)

\* The first message of a conversation is of the request that created it.
FirstOfCreation == \A c \in 1..opened :
    \E m \in messages : m.thread = c /\ m.sequence = 1 /\ m.request = creation[c]

Rows == MessagesUnique /\ ThreadsDense /\ ThreadsCounted /\ FirstOfCreation

IInv ==
    /\ TypeOK
    /\ LocksHeld
    /\ RepliesKnown
    /\ Rows
    /\ WriteMeetsNoOther
    /\ AcceptedIsStored

-----------------------------------------------------------------------------
LEMMA InitIInv == Init => IInv
<1> SUFFICES ASSUME Init PROVE IInv
  OBVIOUS
<1>1. PICK r \in Request :
        /\ opened = 0 /\ creation = [c \in Conversation |-> r]
        /\ with = [c \in Conversation |-> {}] /\ last = [c \in Conversation |-> 0]
        /\ messages = {} /\ notified = {} /\ archived = {} /\ answers = {}
        /\ readThrough = [c \in Conversation |-> [a \in Reader |-> 0]]
        /\ keyLock = [q \in Request |-> NoHandler]
        /\ threadLock = [c \in Conversation |-> NoHandler]
        /\ pc = [h \in Handler |-> "idle"] /\ task = [h \in Handler |-> NoTask]
  BY DEF Init
<1>2. TypeOK
  <2>1. 0 \in Sequence
    BY DEF Sequence
  <2>2. last \in [Conversation -> Sequence] /\ readThrough \in [Conversation -> [Reader -> Sequence]]
    BY <1>1, <2>1
  <2>3. task \in [Handler -> Task] /\ \A h \in Handler : pc[h] = "idle" /\ task[h] = NoTask
    BY <1>1 DEF Task
  <2> QED BY <1>1, <2>2, <2>3 DEF TypeOK
<1>3. LocksHeld /\ RepliesKnown
  BY <1>1 DEF LocksHeld, RepliesKnown, Keyed, Threaded
<1>4. Rows
  <2>1. IsFiniteSet(messages) /\ Cardinality(messages) = 0
    BY <1>1, FS_EmptySet
  <2>2. \A c \in Conversation : last[c] = 0
    BY <1>1
  <2> QED BY <1>1, <2>1, <2>2 DEF Rows, MessagesUnique, ThreadsDense, ThreadsCounted, FirstOfCreation
<1>5. WriteMeetsNoOther /\ AcceptedIsStored
  BY <1>1 DEF WriteMeetsNoOther, AcceptedIsStored
<1> QED BY <1>2, <1>3, <1>4, <1>5 DEF IInv

-----------------------------------------------------------------------------
(* Who moves, and who holds what.                                           *)

ProcessTyped == pc \in [Handler -> Place] /\ task \in [Handler -> Task]
LocksTyped ==
    /\ keyLock \in [Request -> Handler \cup {NoHandler}]
    /\ threadLock \in [Conversation -> Handler \cup {NoHandler}]
RowsTyped ==
    /\ opened \in 0..Conversations
    /\ creation \in [Conversation -> Request] /\ with \in [Conversation -> SUBSET Actor]
    /\ last \in [Conversation -> Sequence]
    /\ messages \subseteq Message /\ notified \subseteq Message \X Actor
MailboxTyped ==
    /\ readThrough \in [Conversation -> [Reader -> Sequence]]
    /\ archived \subseteq Conversation \X Reader
AnswersTyped == answers \subseteq [request : Request, text : Text]

\* Only h moves.
OnlyMoves(h) ==
    /\ ProcessTyped'
    /\ \A g \in Handler \ {h} : pc'[g] = pc[g] /\ task'[g] = task[g]

LEMMA TypeNext ==
  ASSUME ProcessTyped', LocksTyped', RowsTyped', MailboxTyped', AnswersTyped',
         \A h \in Handler : TaskFits(h)'
  PROVE  TypeOK'
BY DEF TypeOK, ProcessTyped, LocksTyped, RowsTyped, MailboxTyped, AnswersTyped, TaskFits, Place

LEMMA BeginStep ==
  ASSUME TypeOK, NEW h \in Handler, NEW at \in Place, NEW t \in Task, Begin(h, at, t)
  PROVE  OnlyMoves(h) /\ pc[h] = "idle" /\ pc'[h] = at /\ task'[h] = t
BY DEF Begin, TypeOK, OnlyMoves, ProcessTyped, Place

LEMMA MoveStep ==
  ASSUME TypeOK, NEW h \in Handler, NEW from, NEW to \in Place, Move(h, from, to)
  PROVE  OnlyMoves(h) /\ pc[h] = from /\ pc'[h] = to /\ task' = task
BY DEF Move, TypeOK, OnlyMoves, ProcessTyped, Place

\* The end of a transaction.
LEMMA FinishStep ==
  ASSUME TypeOK, LocksHeld, NEW h \in Handler, Finish(h)
  PROVE  OnlyMoves(h) /\ pc'[h] = "idle" /\ TaskFits(h)' /\ LocksTyped' /\ LocksHeld'
<1>1. /\ OnlyMoves(h) /\ pc'[h] = "idle" /\ task'[h] = NoTask /\ TaskFits(h)'
  BY DEF Finish, TypeOK, OnlyMoves, ProcessTyped, Place, Task, TaskFits
<1>2. /\ LocksTyped'
      /\ \A q \in Request : keyLock'[q] = IF keyLock[q] = h THEN NoHandler ELSE keyLock[q]
      /\ \A c \in Conversation : threadLock'[c] = IF threadLock[c] = h THEN NoHandler ELSE threadLock[c]
  BY DEF Finish, TypeOK, LocksTyped
<1>3. ASSUME NEW g \in Handler
      PROVE  /\ pc'[g] \in Keyed => keyLock'[task'[g].request] = g
             /\ \A q \in Request : keyLock'[q] = g => pc'[g] \in Keyed /\ task'[g].request = q
             /\ pc'[g] \in Threaded => threadLock'[task'[g].thread] = g
             /\ \A c \in Conversation : threadLock'[c] = g => pc'[g] \in Threaded
  <2>1. CASE g = h
    BY <1>1, <1>2, <2>1 DEF Keyed, Threaded
  <2>2. CASE g # h
    <3>1. pc'[g] = pc[g] /\ task'[g] = task[g]
      BY <1>1, <2>2 DEF OnlyMoves
    <3>2. pc[g] \in Keyed => task[g].request \in Request
      BY DEF TypeOK, Keyed, SendTask
    <3>3. pc[g] \in Threaded => task[g].thread \in Conversation
      BY DEF TypeOK, Threaded, SendTask, Conversation
    <3> QED BY <1>2, <2>2, <3>1, <3>2, <3>3 DEF LocksHeld
  <2> QED BY <2>1, <2>2
<1> QED BY <1>1, <1>2, <1>3 DEF LocksHeld

\* A step within the places where the same locks are held.
LEMMA LocksKeep ==
  ASSUME LocksHeld, NEW h \in Handler, OnlyMoves(h), UNCHANGED locks,
         pc'[h] \in Keyed <=> pc[h] \in Keyed, pc'[h] \in Threaded <=> pc[h] \in Threaded,
         pc[h] \in Keyed => task'[h] = task[h], Threaded \subseteq Keyed
  PROVE  LocksHeld'
BY DEF LocksHeld, OnlyMoves, locks

LEMMA TasksKeep ==
  ASSUME TypeOK, NEW h \in Handler, OnlyMoves(h), TaskFits(h)'
  PROVE  ProcessTyped' /\ \A g \in Handler : TaskFits(g)'
BY DEF TypeOK, TaskFits, OnlyMoves

-----------------------------------------------------------------------------
\* What h may rely on after its step, where the step writes no row.
Admitted(h) ==
    /\ pc'[h] \in {"key", "thread", "check", "write"} => task'[h].thread <= opened
    /\ pc'[h] = "write" => Stored(task'[h].request) = {}
    /\ pc'[h] = "open" => Created(task'[h].request) = {}

LEMMA RowsQuiet ==
  ASSUME IInv, NEW h \in Handler, OnlyMoves(h), UNCHANGED rows, Admitted(h)
  PROVE  /\ RowsTyped' /\ RepliesKnown' /\ Rows' /\ WriteMeetsNoOther'
         /\ answers' = answers => AnswersTyped' /\ AcceptedIsStored'
<1>1. RowsTyped'
  BY DEF IInv, TypeOK, RowsTyped, rows
<1>2. RepliesKnown'
  BY DEF IInv, RepliesKnown, Admitted, OnlyMoves, rows
<1>3. Rows'
  BY DEF IInv, Rows, MessagesUnique, ThreadsDense, ThreadsCounted, FirstOfCreation, rows
<1>4. WriteMeetsNoOther'
  BY DEF IInv, WriteMeetsNoOther, Admitted, OnlyMoves, rows, Stored, Created
<1>5. answers' = answers => AnswersTyped' /\ AcceptedIsStored'
  BY DEF IInv, TypeOK, AnswersTyped, AcceptedIsStored, Stored, rows
<1> QED BY <1>1, <1>2, <1>3, <1>4, <1>5

\* The message m of a request that has none yet is added at the end of its thread c, the
\* first of a conversation with the conversation.
Appended(c, m) ==
    /\ m = [thread |-> c, sequence |-> last[c] + 1, request |-> m.request, text |-> m.text]
    /\ m.request \in Request /\ m.text \in Text /\ Stored(m.request) = {}
    /\ Cardinality(messages) < MaxMessages
    /\ last' = [last EXCEPT ![c] = last[c] + 1]
    /\ messages' = messages \cup {m}
    /\ \/ c <= opened /\ UNCHANGED <<opened, creation>>
       \/ c = opened + 1 /\ opened' = c /\ creation' = [creation EXCEPT ![c] = m.request]

LEMMA AppendKeeps ==
  ASSUME TypeOK, Rows, NEW c \in Conversation, NEW m, Appended(c, m)
  PROVE  /\ m \in Message /\ m \notin messages /\ messages' \subseteq Message
         /\ last' \in [Conversation -> Sequence]
         /\ opened' \in 0..Conversations /\ opened <= opened'
         /\ creation' \in [Conversation -> Request]
         /\ Rows'
<1>1. /\ m.thread = c /\ m.sequence = last[c] + 1 /\ m.request \in Request /\ m.text \in Text
      /\ Stored(m.request) = {} /\ messages' = messages \cup {m}
  BY DEF Appended
<1>2. /\ opened \in Nat /\ opened' \in 0..Conversations /\ opened <= opened' /\ c <= opened'
      /\ \A d \in 1..opened' : d <= opened \/ d = c
  BY DEF Appended, TypeOK, Conversation
<1>3. /\ \A d \in Conversation : last[d] \in Nat
      /\ IsFiniteSet(messages) /\ Cardinality(messages) \in Nat
      /\ \A d \in Conversation : last[d] <= Cardinality(messages) /\ (d > opened => last[d] = 0)
  BY FS_CardinalityType DEF TypeOK, Sequence, Rows, ThreadsCounted
<1>4. /\ \A d \in Conversation : last'[d] = IF d = c THEN last[d] + 1 ELSE last[d]
      /\ last[c] + 1 \in 0..MaxMessages
  BY <1>3 DEF Appended, TypeOK
<1>5. m \in Message
  BY <1>1, <1>4 DEF Appended, Message, Sequence
<1>6. /\ \A n \in messages : n.request # m.request
      /\ \A n \in messages : n.thread = c => n.sequence # m.sequence
      /\ m \notin messages
  <2>1. \A n \in messages : n.request # m.request
    BY <1>1 DEF Stored
  <2>2. \A n \in messages : n.thread = c => n.sequence \in 1..last[c]
    BY DEF Rows, ThreadsDense
  <2> QED BY <1>1, <1>3, <2>1, <2>2
<1>7. messages' \subseteq Message
  BY <1>1, <1>5 DEF TypeOK
<1>8. last' \in [Conversation -> Sequence]
  BY <1>4 DEF Appended, TypeOK, Sequence
<1>9. creation' \in [Conversation -> Request]
  BY <1>1 DEF Appended, TypeOK
<1>10. MessagesUnique'
  BY <1>1, <1>6 DEF MessagesUnique, Rows
<1>11. ThreadsDense'
  <2>1. ASSUME NEW n \in messages' PROVE n.thread <= opened' /\ n.sequence \in 1..last'[n.thread]
    <3>1. CASE n = m
      BY <1>1, <1>2, <1>3, <1>4, <3>1
    <3>2. CASE n \in messages
      <4>1. n.thread <= opened /\ n.sequence \in 1..last[n.thread] /\ n.thread \in Conversation
        BY <3>2 DEF Rows, ThreadsDense, TypeOK, Message
      <4> QED BY <1>2, <1>3, <1>4, <4>1 DEF Conversation
    <3> QED BY <1>1, <2>1, <3>1, <3>2
  <2>2. ASSUME NEW d \in Conversation, NEW i \in 1..last'[d]
        PROVE  \E n \in messages' : n.thread = d /\ n.sequence = i
    <3>1. CASE i \in 1..last[d]
      BY <1>1, <3>1 DEF Rows, ThreadsDense
    <3>2. CASE i \notin 1..last[d]
      <4>1. d = c /\ i = last[c] + 1
        BY <1>3, <1>4, <3>2
      <4> QED BY <1>1, <4>1
    <3> QED BY <3>1, <3>2
  <2> QED BY <2>1, <2>2 DEF ThreadsDense
<1>12. ThreadsCounted'
  <2>1. IsFiniteSet(messages') /\ Cardinality(messages') = Cardinality(messages) + 1
    BY <1>1, <1>3, <1>6, FS_AddElement
  <2>2. \A d \in Conversation : last'[d] <= Cardinality(messages')
    BY <1>3, <1>4, <2>1
  <2>3. \A d \in Conversation : d > opened' => last'[d] = 0
    BY <1>2, <1>3, <1>4 DEF Conversation
  <2> QED BY <2>1, <2>2, <2>3 DEF ThreadsCounted
<1>13. FirstOfCreation'
  <2> SUFFICES ASSUME NEW d \in 1..opened'
               PROVE  \E n \in messages' : n.thread = d /\ n.sequence = 1 /\ n.request = creation'[d]
    BY DEF FirstOfCreation
  <2>1. CASE d <= opened
    <3>1. creation'[d] = creation[d] /\ d \in 1..opened
      BY <1>2, <2>1 DEF Appended, TypeOK, Conversation
    <3> QED BY <1>1, <3>1 DEF Rows, FirstOfCreation
  <2>2. CASE ~(d <= opened)
    <3>1. d = c /\ c = opened + 1 /\ creation'[c] = m.request
      BY <1>2, <2>2 DEF Appended, TypeOK
    <3>2. last[c] = 0
      BY <1>2, <1>3, <3>1
    <3> QED BY <1>1, <3>1, <3>2
  <2> QED BY <2>1, <2>2
<1> QED BY <1>2, <1>5, <1>6, <1>7, <1>8, <1>9, <1>10, <1>11, <1>12, <1>13 DEF Rows

\* Nobody else is about to write for h's request.
LEMMA AloneWithKey ==
  ASSUME TypeOK, LocksHeld, NEW h \in Handler, pc[h] \in Keyed,
         NEW g \in Handler, pc[g] \in Keyed, task[g].request = task[h].request
  PROVE  g = h
BY DEF LocksHeld

\* The handlers' part of a committed write by h, which answers.
LEMMA CommitKeeps ==
  ASSUME IInv, NEW h \in Handler, pc[h] \in {"open", "write"}, Finish(h), Answer(h),
         NEW c \in Conversation, NEW m, Appended(c, m),
         m.request = task[h].request, m.text = task[h].text
  PROVE  RepliesKnown' /\ WriteMeetsNoOther' /\ AcceptedIsStored' /\ AnswersTyped'
<1>1. OnlyMoves(h) /\ pc'[h] = "idle" /\ opened <= opened' /\ opened \in Nat /\ opened' \in Nat
  BY FinishStep, AppendKeeps DEF IInv, TypeOK
<1>2. /\ m.request \in Request /\ m.text \in Text /\ Stored(m.request) = {}
      /\ messages' = messages \cup {m}
  BY DEF Appended
<1>3. RepliesKnown'
  <2> SUFFICES ASSUME NEW g \in Handler, pc'[g] \in {"key", "thread", "check", "write"}
               PROVE  task'[g].thread <= opened'
    BY DEF RepliesKnown
  <2>1. pc[g] \in {"key", "thread", "check", "write"} /\ task'[g] = task[g]
    BY <1>1 DEF OnlyMoves
  <2>2. task[g].thread \in Nat
    BY <2>1 DEF IInv, TypeOK, SendTask
  <2> QED BY <1>1, <2>1, <2>2 DEF IInv, RepliesKnown
<1>4. WriteMeetsNoOther'
  <2> SUFFICES ASSUME NEW g \in Handler, pc'[g] \in {"write", "open"}
               PROVE  /\ pc'[g] = "write" => Stored(task[g].request)' = {}
                      /\ pc'[g] = "open" => Created(task[g].request)' = {}
                      /\ task'[g] = task[g]
    BY DEF WriteMeetsNoOther, Stored, Created
  <2>1. g # h /\ pc[g] = pc'[g] /\ task'[g] = task[g]
    BY <1>1 DEF OnlyMoves
  <2>2. task[g].request # m.request
    BY <2>1, AloneWithKey DEF IInv, Keyed
  <2>3. pc'[g] = "write" => Stored(task[g].request)' = {}
    BY <1>2, <2>1, <2>2 DEF IInv, WriteMeetsNoOther, Stored
  <2>4. pc'[g] = "open" => Created(task[g].request)' = {}
    BY <1>1, <2>1, <2>2 DEF IInv, WriteMeetsNoOther, Created, Appended, TypeOK, Conversation
  <2> QED BY <2>1, <2>3, <2>4
<1>5. AnswersTyped'
  BY <1>2 DEF Answer, AnswersTyped, IInv, TypeOK
<1>6. AcceptedIsStored'
  <2> SUFFICES ASSUME NEW q \in answers'
               PROVE  \E n \in messages' : {k \in messages' : k.request = q.request} = {n} /\ n.text = q.text
    BY DEF AcceptedIsStored, Stored
  <2>1. CASE q = [request |-> task[h].request, text |-> task[h].text]
    BY <1>2, <2>1 DEF Stored
  <2>2. CASE q \in answers
    <3>1. PICK n \in messages : Stored(q.request) = {n} /\ n.text = q.text
      BY <2>2 DEF IInv, AcceptedIsStored
    <3>2. q.request # m.request
      BY <1>2, <3>1
    <3> QED BY <1>2, <3>1, <3>2 DEF Stored
  <2> QED BY <2>1, <2>2 DEF Answer
<1> QED BY <1>3, <1>4, <1>5, <1>6

-----------------------------------------------------------------------------
\* The two commits: h writes m, its request's message, in thread c.
Writes(h, c, m, members) ==
    /\ Appended(c, m) /\ m.request = task[h].request /\ m.text = task[h].text
    /\ Answer(h)
    /\ with' \in [Conversation -> SUBSET Actor]
    /\ notified' = notified \cup ({m} \X Targets(h, members))
    /\ archived' = Reopen(h, c) /\ readThrough' = readThrough

LEMMA OpenWrites ==
  ASSUME IInv, NEW h \in Handler, OpenCommit(h)
  PROVE  \/ UNCHANGED <<rows, mailbox, answers>>
         \/ \E c \in Conversation, members \in SUBSET Actor : \E m : Writes(h, c, m, members)
<1>1. task[h] \in SendTask /\ task[h].request \in Request /\ task[h].text \in Text /\ TypeOK
  BY DEF IInv, TypeOK, OpenCommit, SendTask
<1>2. CASE Stored(task[h].request) # {}
  BY <1>2 DEF OpenCommit
<1>3. CASE Stored(task[h].request) = {}
  <2>1. PICK c \in Conversation, members \in SUBSET Actor :
          /\ c = opened + 1 /\ opened' = c /\ members = {task[h].request[1], task[h].to}
          /\ creation' = [creation EXCEPT ![c] = task[h].request]
          /\ with' = [with EXCEPT ![c] = members]
          /\ WriteMessage(h, c, members) /\ Answer(h)
    <3>1. opened + 1 <= Conversations => opened + 1 \in Conversation
      BY <1>1 DEF TypeOK, Conversation
    <3>2. {task[h].request[1], task[h].to} \in SUBSET Actor
      BY <1>1 DEF SendTask, Request
    <3> QED BY <1>3, <3>1, <3>2 DEF OpenCommit
  <2>2. PICK m : m = [thread |-> c, sequence |-> last[c] + 1, request |-> task[h].request,
                      text |-> task[h].text]
    OBVIOUS
  <2>3. Appended(c, m)
    BY <1>1, <1>3, <2>1, <2>2 DEF Appended, WriteMessage, NextSequence
  <2>4. with' \in [Conversation -> SUBSET Actor]
    BY <1>1, <2>1 DEF TypeOK
  <2>5. /\ notified' = notified \cup ({m} \X Targets(h, members))
        /\ archived' = Reopen(h, c) /\ readThrough' = readThrough
    BY <2>1, <2>2 DEF WriteMessage, NextSequence
  <2> QED BY <2>1, <2>2, <2>3, <2>4, <2>5 DEF Writes
<1> QED BY <1>2, <1>3

LEMMA ReplyWrites ==
  ASSUME IInv, NEW h \in Handler, ReplyCommit(h)
  PROVE  \E c \in Conversation, members \in SUBSET Actor : \E m : Writes(h, c, m, members)
<1>1. /\ task[h] \in SendTask /\ task[h].request \in Request /\ task[h].text \in Text
      /\ TypeOK /\ pc[h] = "write"
      /\ Stored(task[h].request) = {} /\ UNCHANGED <<opened, creation, with>> /\ Answer(h)
  BY DEF IInv, TypeOK, ReplyCommit, WriteMeetsNoOther, SendTask
<1>2. PICK c \in Conversation : c = task[h].thread /\ c <= opened
  BY <1>1 DEF TypeOK, SendTask, Conversation, IInv, RepliesKnown
<1>3. WriteMessage(h, c, with[c]) /\ with[c] \in SUBSET Actor /\ with' \in [Conversation -> SUBSET Actor]
  BY <1>1, <1>2 DEF ReplyCommit, TypeOK
<1>4. PICK m : m = [thread |-> c, sequence |-> last[c] + 1, request |-> task[h].request,
                    text |-> task[h].text]
  OBVIOUS
<1>5. Appended(c, m)
  BY <1>1, <1>2, <1>3, <1>4 DEF Appended, WriteMessage, NextSequence
<1>6. /\ notified' = notified \cup ({m} \X Targets(h, with[c]))
      /\ archived' = Reopen(h, c) /\ readThrough' = readThrough
  BY <1>3, <1>4 DEF WriteMessage, NextSequence
<1> QED BY <1>1, <1>3, <1>4, <1>5, <1>6 DEF Writes

-----------------------------------------------------------------------------
LEMMA StepIInv == IInv /\ [Next]_vars => IInv'
<1> SUFFICES ASSUME IInv, [Next]_vars PROVE IInv'
  OBVIOUS
<1>a. TypeOK /\ LocksHeld /\ Rows /\ Threaded \subseteq Keyed
      /\ MailboxTyped /\ AnswersTyped /\ LocksTyped
  BY DEF IInv, Keyed, Threaded, TypeOK, MailboxTyped, AnswersTyped, LocksTyped
\* A step that begins or goes on, and writes no row.
<1>b. ASSUME NEW h \in Handler, OnlyMoves(h), TaskFits(h)', Admitted(h), LocksTyped', LocksHeld',
             UNCHANGED <<rows, mailbox, answers>>
      PROVE  IInv'
  <2>1. RowsTyped' /\ RepliesKnown' /\ Rows' /\ WriteMeetsNoOther' /\ AnswersTyped' /\ AcceptedIsStored'
    BY <1>b, RowsQuiet
  <2>2. MailboxTyped'
    BY <1>a, <1>b DEF MailboxTyped, mailbox
  <2>3. TypeOK'
    BY <1>a, <1>b, <2>1, <2>2, TasksKeep, TypeNext
  <2> QED BY <1>b, <2>1, <2>3 DEF IInv
<1>c. ASSUME NEW h \in Handler, NEW at \in {"key", "read"}, NEW t \in Task, Begin(h, at, t),
             at = "key" => t \in SendTask /\ t.thread <= opened,
             at = "read" => t \in ReadTask,
             UNCHANGED <<rows, mailbox, locks, answers>>
      PROVE  IInv'
  <2>1. OnlyMoves(h) /\ pc[h] = "idle" /\ pc'[h] = at /\ task'[h] = t
    BY <1>a, <1>c, BeginStep DEF Place
  <2>2. TaskFits(h)' /\ Admitted(h)
    BY <1>c, <2>1 DEF TaskFits, Admitted
  <2>3. LocksHeld' /\ LocksTyped'
    BY <1>a, <1>c, <2>1, LocksKeep DEF Keyed, Threaded, LocksTyped, locks
  <2> QED BY <1>b, <1>c, <2>1, <2>2, <2>3
<1>d. ASSUME NEW h \in Handler, Finish(h)
      PROVE  OnlyMoves(h) /\ pc'[h] = "idle" /\ TaskFits(h)' /\ LocksTyped' /\ LocksHeld' /\ Admitted(h)
  BY <1>a, <1>d, FinishStep DEF Admitted
<1>1. ASSUME NEW h \in Handler, Send(h) PROVE IInv'
  <2>1. ASSUME NEW a \in Actor, NEW b \in Actor, NEW k \in Key, NEW x \in Text,
               StartRequest(h, a, k, b, x)
        PROVE  IInv'
    <3>1. PICK t \in SendTask : t = [request |-> <<a, k>>, thread |-> 0, to |-> b, text |-> x]
      <4>1. <<a, k>> \in Request /\ 0 \in 0..Conversations
        BY DEF Request
      <4> QED BY <4>1 DEF SendTask
    <3>2. t.thread <= opened /\ t \in Task
      BY <1>a, <3>1 DEF TypeOK, Task
    <3> QED BY <1>c, <2>1, <3>1, <3>2 DEF StartRequest
  <2>2. ASSUME NEW a \in Actor, NEW k \in Key, NEW c \in Conversation, NEW x \in Text,
               ReplyRequest(h, a, k, c, x)
        PROVE  IInv'
    <3>1. PICK t \in SendTask : t = [request |-> <<a, k>>, thread |-> c, to |-> a, text |-> x]
      <4>1. <<a, k>> \in Request /\ c \in 0..Conversations
        BY DEF Request, Conversation
      <4> QED BY <4>1 DEF SendTask
    <3>2. t.thread <= opened /\ t \in Task
      BY <2>2, <3>1 DEF ReplyRequest, Task
    <3> QED BY <1>c, <2>2, <3>1, <3>2 DEF ReplyRequest
  <2> QED BY <1>1, <2>1, <2>2 DEF Send
<1>2. ASSUME NEW h \in Handler, Read(h) PROVE IInv'
  <2>1. PICK a \in Reader, c \in Conversation, n \in Sequence : ReadCheck(h, a, c, n)
    BY <1>2 DEF Read
  <2>2. Cut(c, n) \in Sequence
    BY <1>a DEF Cut, TypeOK
  <2>3. PICK t \in ReadTask : t = [reader |-> a, thread |-> c, through |-> Cut(c, n)]
    BY <2>2 DEF ReadTask
  <2>4. t \in Task
    BY DEF Task
  <2> QED BY <1>c, <2>1, <2>3, <2>4 DEF ReadCheck
<1>3. ASSUME NEW h \in Handler, LockKey(h) PROVE IInv'
  <2>1. PICK to \in {"find", "thread"} :
          /\ to = IF task[h].thread = 0 THEN "find" ELSE "thread"
          /\ Move(h, "key", to)
    BY <1>3 DEF LockKey
  <2>2. OnlyMoves(h) /\ pc[h] = "key" /\ pc'[h] = to /\ task' = task
    BY <1>a, <2>1, MoveStep DEF Place
  <2>3. task[h] \in SendTask /\ task[h].request \in Request /\ task[h].thread <= opened
    BY <1>a, <2>2 DEF TypeOK, SendTask, IInv, RepliesKnown
  <2>4. TaskFits(h)' /\ Admitted(h)
    BY <2>1, <2>2, <2>3 DEF TaskFits, Admitted
  <2>5. /\ keyLock[task[h].request] = NoHandler /\ threadLock' = threadLock
        /\ keyLock' = [keyLock EXCEPT ![task[h].request] = h]
        /\ UNCHANGED <<rows, mailbox, answers>>
    BY <1>3 DEF LockKey
  <2>6. LocksTyped'
    BY <1>a, <2>3, <2>5 DEF LocksTyped
  <2>7. LocksHeld'
    <3> SUFFICES ASSUME NEW g \in Handler
                 PROVE  /\ pc'[g] \in Keyed => keyLock'[task[g].request] = g
                        /\ \A q \in Request : keyLock'[q] = g => pc'[g] \in Keyed /\ task[g].request = q
                        /\ pc'[g] \in Threaded => threadLock[task[g].thread] = g
                        /\ \A c \in Conversation : threadLock[c] = g => pc'[g] \in Threaded
      BY <2>2, <2>5 DEF LocksHeld
    <3>1. \A q \in Request : keyLock'[q] = IF q = task[h].request THEN h ELSE keyLock[q]
      BY <1>a, <2>5 DEF LocksTyped
    <3>2. pc[g] \in Keyed => task[g].request \in Request
      BY <1>a DEF TypeOK, Keyed, SendTask
    <3>3. CASE g = h
      BY <1>a, <2>1, <2>2, <2>3, <3>1, <3>3 DEF LocksHeld, Keyed, Threaded
    <3>4. CASE g # h
      <4>1. pc'[g] = pc[g]
        BY <2>2, <3>4 DEF OnlyMoves
      <4> QED BY <1>a, <2>3, <2>5, <3>1, <3>2, <3>4, <4>1 DEF LocksHeld
    <3> QED BY <3>3, <3>4
  <2> QED BY <1>b, <2>2, <2>4, <2>5, <2>6, <2>7
<1>4. ASSUME NEW h \in Handler, LockThread(h) PROVE IInv'
  <2>1. OnlyMoves(h) /\ pc[h] = "thread" /\ pc'[h] = "check" /\ task' = task
    BY <1>4, <1>a, MoveStep DEF Place, LockThread
  <2>2. task[h] \in SendTask /\ task[h].thread \in Conversation /\ task[h].thread <= opened
        /\ task[h].thread # 0
    BY <1>a, <2>1 DEF TypeOK, SendTask, IInv, RepliesKnown, Conversation
  <2>3. TaskFits(h)' /\ Admitted(h)
    BY <2>1, <2>2 DEF TaskFits, Admitted
  <2>4. /\ threadLock[task[h].thread] = NoHandler /\ keyLock' = keyLock
        /\ threadLock' = [threadLock EXCEPT ![task[h].thread] = h]
        /\ UNCHANGED <<rows, mailbox, answers>>
    BY <1>4 DEF LockThread
  <2>5. LocksTyped'
    BY <1>a, <2>2, <2>4 DEF LocksTyped
  <2>6. LocksHeld'
    <3> SUFFICES ASSUME NEW g \in Handler
                 PROVE  /\ pc'[g] \in Keyed => keyLock[task[g].request] = g
                        /\ \A q \in Request : keyLock[q] = g => pc'[g] \in Keyed /\ task[g].request = q
                        /\ pc'[g] \in Threaded => threadLock'[task[g].thread] = g
                        /\ \A c \in Conversation : threadLock'[c] = g => pc'[g] \in Threaded
      BY <2>1, <2>4 DEF LocksHeld
    <3>1. \A c \in Conversation : threadLock'[c] = IF c = task[h].thread THEN h ELSE threadLock[c]
      BY <1>a, <2>4 DEF LocksTyped
    <3>2. pc[g] \in Threaded => task[g].thread \in Conversation
      BY <1>a DEF TypeOK, Threaded, SendTask, Conversation
    <3>3. CASE g = h
      BY <1>a, <2>1, <2>2, <3>1, <3>3 DEF LocksHeld, Keyed, Threaded
    <3>4. CASE g # h
      <4>1. pc'[g] = pc[g]
        BY <2>1, <3>4 DEF OnlyMoves
      <4> QED BY <1>a, <2>2, <2>4, <3>1, <3>2, <3>4, <4>1 DEF LocksHeld
    <3> QED BY <3>3, <3>4
  <2> QED BY <1>b, <2>1, <2>3, <2>4, <2>5, <2>6
\* The request has been handled before.
<1>e. ASSUME NEW h \in Handler, NEW same, Repeat(h, same), pc[h] \in {"find", "check"},
             same => \E m \in messages : m.request = task[h].request /\ m.text = task[h].text
      PROVE  IInv'
  <2>1. OnlyMoves(h) /\ TaskFits(h)' /\ LocksTyped' /\ LocksHeld' /\ Admitted(h)
        /\ UNCHANGED <<rows, mailbox>>
    BY <1>d, <1>e DEF Repeat
  <2>2. CASE ~same
    BY <1>b, <1>e, <2>1, <2>2 DEF Repeat
  <2>3. CASE same
    <3>1. RowsTyped' /\ RepliesKnown' /\ Rows' /\ WriteMeetsNoOther'
      BY <2>1, RowsQuiet
    <3>2. MailboxTyped'
      BY <1>a, <2>1 DEF MailboxTyped, mailbox
    <3>3. answers' = answers \cup {[request |-> task[h].request, text |-> task[h].text]}
      BY <1>e, <2>3 DEF Repeat, Answer
    <3>4. task[h].request \in Request /\ task[h].text \in Text
      BY <1>a, <1>e DEF TypeOK, SendTask
    <3>5. AnswersTyped'
      BY <1>a, <3>3, <3>4 DEF AnswersTyped
    <3>6. AcceptedIsStored'
      <4>1. messages' = messages
        BY <2>1 DEF rows
      <4>2. PICK m \in messages : m.request = task[h].request /\ m.text = task[h].text
        BY <1>e, <2>3
      <4>3. {k \in messages : k.request = task[h].request} = {m}
        BY <1>a, <4>2 DEF Rows, MessagesUnique
      <4> QED BY <3>3, <4>1, <4>2, <4>3 DEF IInv, AcceptedIsStored, Stored
    <3>7. TypeOK'
      BY <1>a, <2>1, <3>1, <3>2, <3>5, TasksKeep, TypeNext
    <3> QED BY <2>1, <3>1, <3>6, <3>7 DEF IInv
  <2> QED BY <2>2, <2>3
\* The request has not been handled before.
<1>f. ASSUME NEW h \in Handler, NEW from \in {"find", "check"}, NEW to \in {"open", "write"},
             Move(h, from, to), (from = "find") <=> (to = "open"), Admitted(h),
             UNCHANGED <<rows, mailbox, locks, answers>>
      PROVE  IInv'
  <2>1. OnlyMoves(h) /\ pc[h] = from /\ pc'[h] = to /\ task' = task
    BY <1>a, <1>f, MoveStep DEF Place
  <2>2. TaskFits(h)'
    BY <1>a, <1>f, <2>1 DEF TypeOK, TaskFits
  <2>3. LocksHeld' /\ LocksTyped'
    BY <1>a, <1>f, <2>1, LocksKeep DEF Keyed, Threaded, LocksTyped, locks
  <2> QED BY <1>b, <1>f, <2>1, <2>2, <2>3
<1>5. ASSUME NEW h \in Handler, FindConversation(h) PROVE IInv'
  <2>1. CASE \E c \in Created(task[h].request) : Repeat(h, SameStart(h, c))
    <3>1. PICK c \in 1..opened : creation[c] = task[h].request /\ Repeat(h, SameStart(h, c))
      BY <2>1 DEF Created
    <3>2. SameStart(h, c) => \E m \in messages : m.request = task[h].request /\ m.text = task[h].text
      BY <1>a, <3>1 DEF SameStart, Rows, FirstOfCreation, MessagesUnique
    <3> QED BY <1>5, <1>e, <3>1, <3>2 DEF FindConversation
  <2>2. CASE /\ Created(task[h].request) = {} /\ Move(h, "find", "open")
             /\ UNCHANGED <<rows, mailbox, locks, answers>>
    <3>1. Admitted(h)
      BY <1>a, <2>2, MoveStep DEF Admitted, Place
    <3> QED BY <1>f, <2>2, <3>1
  <2> QED BY <1>5, <2>1, <2>2 DEF FindConversation
<1>6. ASSUME NEW h \in Handler, FindMessage(h) PROVE IInv'
  <2>1. CASE \E m \in Stored(task[h].request) : Repeat(h, SameReply(h, m))
    <3>1. PICK m \in messages : m.request = task[h].request /\ Repeat(h, SameReply(h, m))
      BY <2>1 DEF Stored
    <3> QED BY <1>6, <1>e, <3>1 DEF FindMessage, SameReply
  <2>2. CASE /\ Stored(task[h].request) = {} /\ Move(h, "check", "write")
             /\ UNCHANGED <<rows, mailbox, locks, answers>>
    <3>1. Admitted(h)
      BY <1>a, <2>2, MoveStep DEF Admitted, Place, IInv, RepliesKnown
    <3> QED BY <1>f, <2>2, <3>1
  <2> QED BY <1>6, <2>1, <2>2 DEF FindMessage
\* A message is written.
<1>g. ASSUME NEW h \in Handler, pc[h] \in {"open", "write"}, Finish(h),
             \E c \in Conversation, members \in SUBSET Actor : \E m : Writes(h, c, m, members)
      PROVE  IInv'
  <2>1. PICK c \in Conversation, members \in SUBSET Actor : \E m : Writes(h, c, m, members)
    BY <1>g
  <2>a. PICK m : Writes(h, c, m, members)
    BY <2>1
  <2>2. OnlyMoves(h) /\ TaskFits(h)' /\ LocksTyped' /\ LocksHeld'
    BY <1>d, <1>g
  <2>3. /\ m \in Message /\ messages' \subseteq Message /\ last' \in [Conversation -> Sequence]
        /\ opened' \in 0..Conversations /\ creation' \in [Conversation -> Request] /\ Rows'
    BY <1>a, <2>a, AppendKeeps DEF Writes
  <2>4. RepliesKnown' /\ WriteMeetsNoOther' /\ AcceptedIsStored' /\ AnswersTyped'
    BY <1>g, <2>a, CommitKeeps DEF Writes
  <2>5. notified' \subseteq Message \X Actor
    BY <1>a, <2>a, <2>3 DEF TypeOK, Targets, Writes
  <2>6. RowsTyped'
    BY <2>a, <2>3, <2>5 DEF RowsTyped, Writes
  <2>7. MailboxTyped'
    BY <1>a, <2>a DEF MailboxTyped, Reopen, Writes
  <2>8. TypeOK'
    BY <1>a, <2>2, <2>4, <2>6, <2>7, TasksKeep, TypeNext
  <2> QED BY <2>2, <2>3, <2>4, <2>8 DEF IInv
<1>7. ASSUME NEW h \in Handler, OpenCommit(h) PROVE IInv'
  <2>1. pc[h] = "open" /\ Finish(h)
    BY <1>7 DEF OpenCommit
  <2>2. CASE UNCHANGED <<rows, mailbox, answers>>
    BY <1>b, <1>d, <2>1, <2>2
  <2> QED BY <1>7, <1>g, <2>1, <2>2, OpenWrites
<1>8. ASSUME NEW h \in Handler, ReplyCommit(h) PROVE IInv'
  BY <1>8, <1>g, ReplyWrites DEF ReplyCommit
<1>9. ASSUME NEW h \in Handler, ReadCommit(h) PROVE IInv'
  <2>1. /\ task[h] \in ReadTask /\ Finish(h) /\ UNCHANGED <<rows, archived, answers>>
        /\ \/ readThrough' = readThrough
           \/ readThrough' = [readThrough EXCEPT ![task[h].thread][task[h].reader] = task[h].through]
    BY <1>a, <1>9 DEF ReadCommit, TypeOK
  <2>2. OnlyMoves(h) /\ TaskFits(h)' /\ LocksTyped' /\ LocksHeld' /\ Admitted(h)
    BY <1>d, <2>1
  <2>3. RowsTyped' /\ RepliesKnown' /\ Rows' /\ WriteMeetsNoOther' /\ AnswersTyped' /\ AcceptedIsStored'
    BY <2>1, <2>2, RowsQuiet
  <2>4. MailboxTyped'
    <3>1. PICK t, c, r, n : t = task[h] /\ c = t.thread /\ r = t.reader /\ n = t.through
      OBVIOUS
    <3>2. c \in Conversation /\ r \in Reader /\ n \in Sequence
      BY <2>1, <3>1 DEF ReadTask
    <3>3. readThrough' = readThrough \/ readThrough' = [readThrough EXCEPT ![c][r] = n]
      BY <2>1, <3>1
    <3> QED BY <1>a, <2>1, <3>2, <3>3 DEF MailboxTyped
  <2>5. TypeOK'
    BY <1>a, <2>2, <2>3, <2>4, TasksKeep, TypeNext
  <2> QED BY <2>2, <2>3, <2>5 DEF IInv
<1>10. ASSUME NEW h \in Handler, Abort(h) PROVE IInv'
  BY <1>10, <1>b, <1>d DEF Abort
<1>h. ASSUME UNCHANGED <<rows, readThrough, locks, process, answers>>,
             archived' \subseteq Conversation \X Reader
      PROVE  IInv'
  <2>1. TypeOK'
    BY <1>a, <1>h DEF TypeOK, rows, locks, process
  <2>2. LocksHeld' /\ RepliesKnown'
    BY <1>a, <1>h DEF LocksHeld, RepliesKnown, IInv, rows, locks, process
  <2>3. Rows'
    BY <1>a, <1>h DEF Rows, MessagesUnique, ThreadsDense, ThreadsCounted, FirstOfCreation, rows
  <2>4. WriteMeetsNoOther' /\ AcceptedIsStored'
    BY <1>h DEF IInv, WriteMeetsNoOther, AcceptedIsStored, Stored, Created, rows, process
  <2> QED BY <2>1, <2>2, <2>3, <2>4 DEF IInv
<1>11. ASSUME NEW a \in Reader, NEW c \in Conversation, Archive(a, c) PROVE IInv'
  BY <1>11, <1>a, <1>h DEF Archive, MailboxTyped
<1>12. CASE UNCHANGED vars
  BY <1>12, <1>a, <1>h DEF vars, mailbox, MailboxTyped
<1> QED
  BY <1>1, <1>2, <1>3, <1>4, <1>5, <1>6, <1>7, <1>8, <1>9, <1>10, <1>11, <1>12 DEF Next, Run

-----------------------------------------------------------------------------
\* Every variable has its type, and a handler's task fits the place it is at.
THEOREM TypeCorrect == Spec => []TypeOK
<1>1. IInv => TypeOK
  BY DEF IInv
<1> QED BY InitIInv, StepIInv, <1>1, PTL DEF Spec

\* The advisory lock of the request key makes look-up and write one: while a handler of
\* startConversation or replyConversation is about to write, no retry of its request has
\* written before it.
THEOREM WriteMeetsNone == Spec => []WriteMeetsNoOther
<1>1. IInv => WriteMeetsNoOther
  BY DEF IInv
<1> QED BY InitIInv, StepIInv, <1>1, PTL DEF Spec

\* A request answered with success is stored, once, with the content it was sent with.
THEOREM AcceptedOnce == Spec => []AcceptedIsStored
<1>1. IInv => AcceptedIsStored
  BY DEF IInv
<1> QED BY InitIInv, StepIInv, <1>1, PTL DEF Spec

\* Who waits for the lock of a request key waits for a handler that runs, or that waits for
\* the lock of a conversation, whose holder runs.
LEMMA HoldersRun == TypeOK /\ LocksHeld => SomebodyRuns
<1> SUFFICES ASSUME TypeOK, LocksHeld, NEW h \in Handler, Waits(h)
             PROVE  \E g \in Handler : pc[g] # "idle" /\ ~Waits(g)
  BY DEF SomebodyRuns
<1>1. ASSUME NEW g \in Handler, pc[g] = "thread", Waits(g)
      PROVE  \E k \in Handler : pc[k] # "idle" /\ ~Waits(k)
  <2>1. task[g].thread \in Conversation
    BY <1>1 DEF TypeOK, SendTask, Conversation
  <2>2. PICK k \in Handler : threadLock[task[g].thread] = k
    BY <1>1, <2>1 DEF Waits, TypeOK
  <2>3. pc[k] \in {"check", "write"}
    BY <2>1, <2>2 DEF LocksHeld, Threaded
  <2> QED BY <2>3 DEF Waits
<1>2. CASE pc[h] = "thread"
  BY <1>1, <1>2
<1>3. CASE pc[h] = "key"
  <2>1. task[h].request \in Request
    BY <1>3 DEF TypeOK, SendTask
  <2>2. PICK g \in Handler : keyLock[task[h].request] = g
    BY <1>3, <2>1 DEF Waits, TypeOK
  <2>3. pc[g] \in {"find", "open", "thread", "check", "write"}
    BY <2>1, <2>2 DEF LocksHeld, Keyed
  <2>4. CASE pc[g] = "thread" /\ Waits(g)
    BY <1>1, <2>4
  <2>5. CASE ~(pc[g] = "thread" /\ Waits(g))
    BY <2>3, <2>5 DEF Waits
  <2> QED BY <2>4, <2>5
<1> QED BY <1>2, <1>3 DEF Waits

\* The handlers never all wait for each other: request key first, conversation second, and
\* a lock ends with its transaction.
THEOREM NeverStuck == Spec => []SomebodyRuns
<1>1. IInv => SomebodyRuns
  BY HoldersRun DEF IInv
<1> QED BY InitIInv, StepIInv, <1>1, PTL DEF Spec

-----------------------------------------------------------------------------
(* The handlers implement MessageLog.                                       *)

Entry(m) == [request |-> m.request, text |-> m.text]

\* The log of thread c.
Thread(c) == [i \in 1..last[c] |-> Entry(At(c, i))]

\* The log, as the refinement maps it.
Kept == [c \in Conversation |->
            [i \in 1..last[c] |-> [request |-> At(c, i).request, text |-> At(c, i).text]]]

\* The message at a place, where each place has one message at most.
LEMMA PlaceNames ==
  ASSUME NEW S, NEW m \in S,
         \A n \in S : n.thread = m.thread /\ n.sequence = m.sequence => n = m
  PROVE  (CHOOSE n \in S : n.thread = m.thread /\ n.sequence = m.sequence) = m
OBVIOUS

LEMMA AtNames ==
  ASSUME MessagesUnique, NEW m \in messages
  PROVE  At(m.thread, m.sequence) = m
BY PlaceNames DEF MessagesUnique, At

LEMMA AtNamesNext ==
  ASSUME MessagesUnique', NEW m \in messages', NEW c, NEW i, c = m.thread, i = m.sequence
  PROVE  At(c, i)' = m
<1>1. (CHOOSE n \in messages' : n.thread = m.thread /\ n.sequence = m.sequence) = m
  BY PlaceNames DEF MessagesUnique
<1> QED BY <1>1 DEF At

\* A thread is a sequence of entries, of its stored messages.
LEMMA ThreadTyped ==
  ASSUME TypeOK, Rows, NEW c \in Conversation
  PROVE  /\ Thread(c) \in Seq(Log!Entry) /\ Len(Thread(c)) = last[c]
         /\ DOMAIN Thread(c) = 1..last[c]
         /\ \A i \in 1..last[c] :
                /\ At(c, i) \in messages /\ At(c, i).thread = c /\ At(c, i).sequence = i
                /\ Thread(c)[i] = Entry(At(c, i))
<1>1. last[c] \in Nat
  BY DEF TypeOK, Sequence
<1>2. \A i \in 1..last[c] : At(c, i) \in messages /\ At(c, i).thread = c /\ At(c, i).sequence = i
  <2> SUFFICES ASSUME NEW i \in 1..last[c]
               PROVE  At(c, i) \in messages /\ At(c, i).thread = c /\ At(c, i).sequence = i
    OBVIOUS
  <2>1. PICK m \in messages : m.thread = c /\ m.sequence = i
    BY DEF Rows, ThreadsDense
  <2> QED BY <2>1, AtNames DEF Rows
<1>3. \A m \in messages : Entry(m) \in Log!Entry
  BY DEF TypeOK, Message, Entry, Log!Entry
<1>4. Thread(c) \in [1..last[c] -> Log!Entry]
  BY <1>2, <1>3 DEF Thread
<1>5. Thread(c) \in Seq(Log!Entry)
  BY <1>1, <1>4, SeqDef
<1>6. Len(Thread(c)) = last[c]
  BY <1>1, <1>4, <1>5, LenProperties
<1> QED BY <1>2, <1>4, <1>5, <1>6 DEF Thread

LEMMA InitImplements == Init => Log!Init
<1> SUFFICES ASSUME Init PROVE Log!Init
  OBVIOUS
<1>1. ASSUME NEW c \in Conversation PROVE Thread(c) = <<>>
  <2>1. last[c] = 0 /\ Rows /\ TypeOK
    BY InitIInv DEF Init, IInv
  <2>2. Thread(c) \in Seq(Log!Entry) /\ Len(Thread(c)) = 0
    BY <2>1, ThreadTyped
  <2> QED BY <2>2, EmptySeq
<1> QED BY <1>1 DEF Thread, Entry, Log!Init

\* A message that is added is posted.
LEMMA AppendPosts ==
  ASSUME TypeOK, Rows, TypeOK', Rows', NEW c \in Conversation, NEW m, Appended(c, m)
  PROVE  Log!Next
<1>1. /\ m \in messages' /\ m \in Message /\ messages \subseteq messages'
      /\ m.thread = c /\ m.sequence = last[c] + 1 /\ last[c] \in Nat
      /\ \A d \in Conversation : last'[d] = IF d = c THEN last[c] + 1 ELSE last[d]
      /\ \A n \in messages : n.request # m.request
  BY AppendKeeps DEF Appended, TypeOK, Sequence, Stored
<1>2. Entry(m) \in Log!Entry
  BY <1>1 DEF Entry, Log!Entry, Message
<1>3. ASSUME NEW d \in Conversation, NEW i \in 1..last[d]
      PROVE  At(d, i)' = At(d, i)
  <2>1. PICK n \in messages : n = At(d, i) /\ n.thread = d /\ n.sequence = i
    BY ThreadTyped
  <2> QED BY <1>1, <2>1, AtNamesNext DEF Rows
<1>4. PICK k \in Nat : k = last[c] + 1
  BY <1>1
<1>5. At(c, k)' = m
  BY <1>1, <1>4, AtNamesNext DEF Rows
<1>6. \A d \in Conversation \ {c} : Thread(d)' = Thread(d)
  BY <1>1, <1>3 DEF Thread, Entry
<1>7. Thread(c)' = Append(Thread(c), Entry(m))
  <2>1. PICK f : f = Thread(c)'
    OBVIOUS
  <2>2. /\ DOMAIN f = 1..k /\ f = [i \in 1..k |-> f[i]]
        /\ f[k] = Entry(m) /\ \A i \in 1..last[c] : f[i] = Thread(c)[i]
    BY <1>1, <1>3, <1>4, <1>5, <2>1 DEF Thread, Entry
  <2>3. Thread(c) \in Seq(Log!Entry) /\ Len(Thread(c)) = last[c]
    BY ThreadTyped
  <2>4. \A i \in 1..last[c] : Thread(c)[i] \in Log!Entry
    BY <2>3, LenProperties
  <2>5. f \in [1..k -> Log!Entry]
    <3>1. \A i \in 1..k : i = k \/ i \in 1..last[c]
      BY <1>1, <1>4
    <3>2. \A i \in 1..k : f[i] \in Log!Entry
      BY <1>2, <2>2, <2>4, <3>1
    <3> QED BY <2>2, <3>2
  <2>6. f \in Seq(Log!Entry) /\ Len(f) = k
    BY <1>4, <2>5, SeqDef, LenProperties
  <2>7. /\ Append(Thread(c), Entry(m)) \in Seq(Log!Entry)
        /\ Len(Append(Thread(c), Entry(m))) = k
        /\ Append(Thread(c), Entry(m))[k] = Entry(m)
        /\ \A i \in 1..last[c] : Append(Thread(c), Entry(m))[i] = Thread(c)[i]
    BY <1>2, <1>4, <2>3, AppendProperties
  <2>8. PICK g : g = Append(Thread(c), Entry(m))
    OBVIOUS
  <2>9. \A i \in 1..k : i = k \/ i \in 1..last[c]
    BY <1>1, <1>4
  <2>10. \A i \in 1..k : f[i] = g[i]
    BY <2>2, <2>7, <2>8, <2>9
  <2>11. f = g
    BY <2>6, <2>7, <2>8, <2>10, SeqEqual
  <2> QED BY <2>1, <2>8, <2>11
<1>8. Kept = [d \in Conversation |-> Thread(d)] /\ Kept' = [d \in Conversation |-> Thread(d)']
  BY DEF Kept, Thread, Entry
<1>9. Kept' = [Kept EXCEPT ![c] = Append(Kept[c], Entry(m))]
  BY <1>6, <1>7, <1>8
<1>10. \A d \in Conversation : \A i \in 1..Len(Kept[d]) : Kept[d][i].request # Entry(m).request
  <2> SUFFICES ASSUME NEW d \in Conversation, NEW i \in 1..Len(Kept[d])
               PROVE  Kept[d][i].request # Entry(m).request
    OBVIOUS
  <2>1. Kept[d] = Thread(d) /\ i \in 1..last[d]
    BY <1>8, ThreadTyped
  <2>2. PICK n \in messages : Kept[d][i] = Entry(n)
    BY <2>1, ThreadTyped
  <2>3. n.request # m.request
    BY <1>1
  <2> QED BY <2>2, <2>3 DEF Entry
<1>11. Log!Post(c, Entry(m))
  BY <1>9, <1>10 DEF Log!Post, Log!Posted, Kept
<1> QED BY <1>2, <1>11 DEF Log!Next

LEMMA StepImplements == IInv /\ IInv' /\ [Next]_vars => [Log!Next]_Kept
<1> SUFFICES ASSUME IInv, IInv', [Next]_vars PROVE [Log!Next]_Kept
  OBVIOUS
<1>1. ASSUME UNCHANGED <<last, messages>> PROVE UNCHANGED Kept
  <2>1. \A c \in Conversation, i \in Nat : At(c, i)' = At(c, i)
    BY <1>1 DEF At
  <2> QED BY <1>1, <2>1 DEF Kept
<1>2. ASSUME NEW c \in Conversation, NEW m, Appended(c, m) PROVE Log!Next
  BY <1>2, AppendPosts DEF IInv
<1>3. ASSUME NEW h \in Handler, OpenCommit(h) \/ ReplyCommit(h) PROVE [Log!Next]_Kept
  BY <1>1, <1>2, <1>3, OpenWrites, ReplyWrites DEF Writes, rows
<1>4. ASSUME NEW h \in Handler, Send(h) \/ Read(h) \/ LockKey(h) \/ LockThread(h) \/ Abort(h)
      PROVE  UNCHANGED <<last, messages>>
  BY <1>4 DEF Send, StartRequest, ReplyRequest, Read, ReadCheck, LockKey, LockThread, Abort, rows
<1>5. ASSUME NEW h \in Handler, FindConversation(h) \/ FindMessage(h) \/ ReadCommit(h)
      PROVE  UNCHANGED <<last, messages>>
  BY <1>5 DEF FindConversation, FindMessage, Repeat, ReadCommit, rows
<1>6. ASSUME NEW a \in Reader, NEW c \in Conversation, Archive(a, c)
      PROVE  UNCHANGED <<last, messages>>
  BY <1>6 DEF Archive, rows
<1> QED BY <1>1, <1>3, <1>4, <1>5, <1>6 DEF Next, Run, vars, rows

\* The handlers implement append-only logs with each request in them at most once: however
\* often and at whatever time a request is sent again.
THEOREM ImplementsLog == Spec => LogKept
BY InitImplements, InitIInv, StepIInv, StepImplements, PTL DEF Spec, LogKept, Log!Spec, Kept
=============================================================================
