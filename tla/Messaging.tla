------------------------------ MODULE Messaging ------------------------------
(***************************************************************************)
(* Two-person conversations: starting one, replying, reading, archiving     *)
(* (src/src/modules/messaging/messaging.service.ts).                        *)
(*                                                                         *)
(* Starting and replying are transactions that take advisory locks, first   *)
(* of the request key, then of the conversation; a lock is held until the   *)
(* transaction ends.  Clients may send a request again at any time, while   *)
(* it is still being handled or after an answer that was lost.  Whether two *)
(* accounts may talk is decided elsewhere: all actors here may.             *)
(***************************************************************************)
EXTENDS Naturals, FiniteSets

CONSTANTS
    Actor,          \* accounts, renter and landlord or admin
    Reader,         \* those whose reading and archiving is followed
    Key,            \* clientRequestId
    Text,           \* message contents (of a start: subject, context and content)
    Handler,        \* request handlers that may be in flight at once
    NoHandler,      \* a lock nobody holds
    Conversations,  \* bound: conversations ever started
    MaxMessages     \* bound: messages ever sent

Conversation == 1..Conversations
Request == Actor \X Key     \* requestKey, creationKey: the hash of both

ASSUME ActorAssumption == Reader \subseteq Actor /\ NoHandler \notin Handler
ASSUME BoundAssumption == Conversations \in Nat /\ MaxMessages \in Nat

VARIABLES
    opened,         \* conversations 1..opened are committed
    creation,       \* per conversation: creationKey
    with,           \* per conversation: its participants
    last,           \* per conversation: lastSequence
    messages,       \* committed rows of ConversationMessage
    readThrough,    \* per conversation and reader
    archived,       \* conversations and readers with archivedAt set
    notified,       \* messages and recipients: event keys message:<id>
    keyLock,        \* per request key: holder of its advisory lock
    threadLock,     \* per conversation: holder of its advisory lock
    pc, task,       \* per handler
    answers         \* requests that were answered with success, with their content

rows == <<opened, creation, with, last, messages, notified>>
mailbox == <<readThrough, archived>>
locks == <<keyLock, threadLock>>
process == <<pc, task>>
vars == <<rows, mailbox, locks, process, answers>>

Sequence == 0..MaxMessages
Message == [thread : Conversation, sequence : Sequence, request : Request, text : Text]

\* thread 0: start a conversation with `to'; otherwise reply in the thread.
SendTask == [request : Request, thread : 0..Conversations, to : Actor, text : Text]
ReadTask == [reader : Reader, thread : Conversation, through : Sequence]
NoTask == <<>>
Task == SendTask \cup ReadTask \cup {NoTask}

Init ==
    \E r \in Request :      \* what the columns of a conversation to come hold
        /\ opened = 0
        /\ creation = [c \in Conversation |-> r]
        /\ with = [c \in Conversation |-> {}]
        /\ last = [c \in Conversation |-> 0]
        /\ messages = {} /\ notified = {} /\ archived = {} /\ answers = {}
        /\ readThrough = [c \in Conversation |-> [a \in Reader |-> 0]]
        /\ keyLock = [q \in Request |-> NoHandler]
        /\ threadLock = [c \in Conversation |-> NoHandler]
        /\ pc = [h \in Handler |-> "idle"]
        /\ task = [h \in Handler |-> NoTask]

-----------------------------------------------------------------------------
(* A handler.                                                               *)

Begin(h, at, t) ==
    /\ pc[h] = "idle"
    /\ pc' = [pc EXCEPT ![h] = at]
    /\ task' = [task EXCEPT ![h] = t]

Move(h, from, to) ==
    /\ pc[h] = from
    /\ pc' = [pc EXCEPT ![h] = to]
    /\ UNCHANGED task

\* Mutant: the lock of the request key outlives the transaction.
FinishLocked(h) ==
    /\ pc' = [pc EXCEPT ![h] = "idle"]
    /\ task' = [task EXCEPT ![h] = NoTask]
    /\ threadLock' = [c \in Conversation |-> IF threadLock[c] = h THEN NoHandler ELSE threadLock[c]]
    /\ UNCHANGED keyLock

\* The end of the transaction frees its locks.
Finish(h) ==
    /\ pc' = [pc EXCEPT ![h] = "idle"]
    /\ task' = [task EXCEPT ![h] = NoTask]
    /\ keyLock' = [q \in Request |-> IF keyLock[q] = h THEN NoHandler ELSE keyLock[q]]
    /\ threadLock' = [c \in Conversation |-> IF threadLock[c] = h THEN NoHandler ELSE threadLock[c]]

Answer(h) == answers' = answers \cup {[request |-> task[h].request, text |-> task[h].text]}

\* The transaction fails or the process dies.
Abort(h) ==
    /\ pc[h] # "idle"
    /\ Finish(h)
    /\ UNCHANGED <<rows, mailbox, answers>>

-----------------------------------------------------------------------------
(* startConversation and replyConversation.                                 *)

StartRequest(h, a, k, b, text) ==
    /\ a # b
    /\ Begin(h, "key", [request |-> <<a, k>>, thread |-> 0, to |-> b, text |-> text])
    /\ UNCHANGED <<rows, mailbox, locks, answers>>

\* A participant's reply.
ReplyRequest(h, a, k, c, text) ==
    /\ c <= opened /\ a \in with[c]
    /\ Begin(h, "key", [request |-> <<a, k>>, thread |-> c, to |-> a, text |-> text])
    /\ UNCHANGED <<rows, mailbox, locks, answers>>

\* Mutant: the lock of the request key is not exclusive.
SharedKey(h) ==
    /\ Move(h, "key", IF task[h].thread = 0 THEN "find" ELSE "thread")
    /\ UNCHANGED <<rows, mailbox, locks, answers>>

LockKey(h) ==
    /\ pc[h] = "key" /\ keyLock[task[h].request] = NoHandler
    /\ keyLock' = [keyLock EXCEPT ![task[h].request] = h]
    /\ Move(h, "key", IF task[h].thread = 0 THEN "find" ELSE "thread")
    /\ UNCHANGED <<rows, mailbox, threadLock, answers>>

LockThread(h) ==
    /\ pc[h] = "thread" /\ threadLock[task[h].thread] = NoHandler
    /\ threadLock' = [threadLock EXCEPT ![task[h].thread] = h]
    /\ Move(h, "thread", "check")
    /\ UNCHANGED <<rows, mailbox, keyLock, answers>>

\* Mutant: the message that started a conversation is overlooked.
StoredReplies(q) == {m \in messages : m.request = q /\ m.sequence > 1}

Stored(q) == {m \in messages : m.request = q}
Created(q) == {c \in 1..opened : creation[c] = q}

\* The conversation the request has started already is the one it asks for.
SameStart(h, c) ==
    /\ task[h].to \in with[c]
    /\ \E m \in messages : m.thread = c /\ m.sequence = 1 /\ m.text = task[h].text

\* Mutant: the content is not compared.
SameThread(h, m) == m.thread = task[h].thread

\* The message the request has sent already is the one it sends.
SameReply(h, m) == m.thread = task[h].thread /\ m.text = task[h].text

\* What the request has done before: its answer again, or a conflict (409).
Repeat(h, same) ==
    /\ IF same THEN Answer(h) ELSE UNCHANGED answers
    /\ Finish(h)
    /\ UNCHANGED <<rows, mailbox>>

FindConversation(h) ==
    /\ pc[h] = "find"
    /\ \/ \E c \in Created(task[h].request) : Repeat(h, SameStart(h, c))
       \/ /\ Created(task[h].request) = {}
          /\ Move(h, "find", "open")
          /\ UNCHANGED <<rows, mailbox, locks, answers>>

FindMessage(h) ==
    /\ pc[h] = "check"
    /\ \/ \E m \in Stored(task[h].request) : Repeat(h, SameReply(h, m))
       \/ /\ Stored(task[h].request) = {}
          /\ Move(h, "check", "write")
          /\ UNCHANGED <<rows, mailbox, locks, answers>>

\* Mutant: an increment of the incremented value.
SecondIncrement(c) == last[c] + 2

NextSequence(c) == last[c] + 1

\* "New messages reopen a thread for both participants".
Reopen(h, c) == archived \ ({c} \X Reader)

Targets(h, members) == members \ {task[h].request[1]}

\* append's writes: the next sequence number, the message, the thread back in both
\* inboxes, the other participant's notification.
WriteMessage(h, c, members) ==
    LET m == [thread |-> c, sequence |-> NextSequence(c), request |-> task[h].request,
              text |-> task[h].text]
    IN  /\ Cardinality(messages) < MaxMessages
        /\ last' = [last EXCEPT ![c] = m.sequence]
        /\ messages' = messages \cup {m}
        /\ archived' = Reopen(h, c)
        /\ notified' = notified \cup ({m} \X Targets(h, members))
        /\ UNCHANGED readThrough

\* The conversation and its first message; a key that has sent a message elsewhere
\* rolls both back.
OpenCommit(h) ==
    /\ pc[h] = "open"
    /\ LET c == opened + 1 members == {task[h].request[1], task[h].to} IN
        IF Stored(task[h].request) # {}
        THEN UNCHANGED <<rows, mailbox, answers>>
        ELSE /\ c <= Conversations
             /\ opened' = c
             /\ creation' = [creation EXCEPT ![c] = task[h].request]
             /\ with' = [with EXCEPT ![c] = members]
             /\ WriteMessage(h, c, members)
             /\ Answer(h)
    /\ Finish(h)

ReplyCommit(h) ==
    /\ pc[h] = "write"
    /\ WriteMessage(h, task[h].thread, with[task[h].thread])
    /\ Answer(h)
    /\ Finish(h)
    /\ UNCHANGED <<opened, creation, with>>

-----------------------------------------------------------------------------
(* readConversation and archiveConversation: no transaction, no lock.       *)

Cut(c, n) == IF n < last[c] THEN n ELSE last[c]

\* The thread is read; `through' is cut to its last message.
ReadCheck(h, a, c, through) ==
    /\ c <= opened /\ a \in with[c]
    /\ Begin(h, "read", [reader |-> a, thread |-> c, through |-> Cut(c, through)])
    /\ UNCHANGED <<rows, mailbox, locks, answers>>

Behind(t) == readThrough[t.thread][t.reader] < t.through

\* One update, of the row if its cursor is behind.
ReadCommit(h) ==
    /\ pc[h] = "read"
    /\ LET t == task[h] IN
        readThrough' = IF Behind(t)
                       THEN [readThrough EXCEPT ![t.thread][t.reader] = t.through]
                       ELSE readThrough
    /\ Finish(h)
    /\ UNCHANGED <<rows, archived, answers>>

Archive(a, c) ==
    /\ c <= opened /\ a \in with[c]
    /\ \/ archived' = archived \cup {<<c, a>>}
       \/ archived' = archived \ {<<c, a>>}
    /\ UNCHANGED <<rows, readThrough, locks, process, answers>>

-----------------------------------------------------------------------------
Send(h) ==
    \/ \E a, b \in Actor, k \in Key, t \in Text : StartRequest(h, a, k, b, t)
    \/ \E a \in Actor, k \in Key, c \in Conversation, t \in Text : ReplyRequest(h, a, k, c, t)

Read(h) == \E a \in Reader, c \in Conversation, n \in Sequence : ReadCheck(h, a, c, n)

\* What a handler that has begun goes on to do.
Run(h) ==
    \/ FindConversation(h) \/ FindMessage(h)
    \/ OpenCommit(h) \/ ReplyCommit(h) \/ ReadCommit(h)

Next ==
    \/ \E h \in Handler : Send(h) \/ Read(h) \/ LockKey(h) \/ LockThread(h) \/ Run(h) \/ Abort(h)
    \/ \E a \in Reader, c \in Conversation : Archive(a, c)

Spec == Init /\ [][Next]_vars

-----------------------------------------------------------------------------
(* Correctness.                                                             *)

\* Every variable has its type, and a handler's task fits the place it is at.
TypeOK ==
    /\ opened \in 0..Conversations
    /\ creation \in [Conversation -> Request]
    /\ with \in [Conversation -> SUBSET Actor]
    /\ last \in [Conversation -> Sequence]
    /\ messages \subseteq Message
    /\ notified \subseteq Message \X Actor
    /\ readThrough \in [Conversation -> [Reader -> Sequence]]
    /\ archived \subseteq Conversation \X Reader
    /\ keyLock \in [Request -> Handler \cup {NoHandler}]
    /\ threadLock \in [Conversation -> Handler \cup {NoHandler}]
    /\ pc \in [Handler -> {"idle", "key", "find", "open", "thread", "check", "write", "read"}]
    /\ task \in [Handler -> Task]
    /\ answers \subseteq [request : Request, text : Text]
    /\ \A h \in Handler :
        /\ pc[h] = "idle" => task[h] = NoTask
        /\ pc[h] \in {"key", "find", "open"} => task[h] \in SendTask
        /\ pc[h] \in {"thread", "check", "write"} => task[h] \in SendTask /\ task[h].thread # 0
        /\ pc[h] = "read" => task[h] \in ReadTask

\* No write meets a row with its unique key: while a handler is about to write, no
\* retry of its request has written before it.
WriteMeetsNoOther ==
    \A h \in Handler :
        /\ pc[h] = "write" => Stored(task[h].request) = {}
        /\ pc[h] = "open" => Created(task[h].request) = {}

\* A request answered with success is stored, once, with the content it was sent with;
\* reusing its key for other content is never answered so.
AcceptedIsStored ==
    \A q \in answers : \E m \in messages : Stored(q.request) = {m} /\ m.text = q.text

\* h waits for a lock that somebody holds.
Waits(h) ==
    \/ pc[h] = "key" /\ keyLock[task[h].request] # NoHandler
    \/ pc[h] = "thread" /\ threadLock[task[h].thread] # NoHandler

\* Handlers never all wait for each other, nor for a lock whose transaction is over:
\* the two locks are taken in one order and end with their holder.
SomebodyRuns ==
    (\E h \in Handler : Waits(h)) => \E h \in Handler : pc[h] # "idle" /\ ~Waits(h)

\* The handlers implement append-only logs with each request in them at most once.
At(c, i) == CHOOSE m \in messages : m.thread = c /\ m.sequence = i
Log == INSTANCE MessageLog WITH
    Thread <- Conversation,
    log <- [c \in Conversation |->
                [i \in 1..last[c] |-> [request |-> At(c, i).request, text |-> At(c, i).text]]]
LogKept == Log!Spec
=============================================================================
