-------------------------- MODULE EmailOutboxProofs --------------------------
(***************************************************************************)
(* Safety of the email outbox for every number of mails, workers, lease and *)
(* backoff times, and faults.  The inductive invariant IInv says, beyond the*)
(* properties themselves, that a lease a worker believes in is the lease in *)
(* the row, and that a worker about to mark a mail delivered has seen the   *)
(* provider take it.                                                        *)
(***************************************************************************)
EXTENDS EmailOutbox, TLAPS

USE JobsAssumption, WorkerAssumption, BatchAssumption, LeaseAssumption,
    FaultsAssumption, PromptAssumption, WaitAssumption DEF Job

\* An unexpired lease that w still counts on is in the row, under w's token.
LeaseBacked == \A w \in Worker :
    held[w] > 0 =>
        /\ pc[w] # "poll"
        /\ token[job[w]] = w
        /\ lease[job[w]] = held[w]

\* A worker in an attempt has a row.
AttemptHasRow == \A w \in Worker : pc[w] # "poll" => job[w] \in Job

\* A worker that goes on to mark its mail delivered has the provider's answer.
SentWasAccepted == \A w \in Worker : pc[w] = "sent" => job[w] \in accepted

\* A delivered row has no lease and no token.
IInv ==
    /\ TypeOK
    /\ AttemptHasRow
    /\ LeaseBacked
    /\ SentWasAccepted
    /\ DeliveredWasAccepted
    /\ DeliveredIsFree

-----------------------------------------------------------------------------
\* The backoff is a time up to MaxWait.
LEMMA BackoffType == ASSUME NEW a \in Attempts PROVE Backoff(a) \in 0..MaxWait
<1>1. BaseWait * 2^a \in Nat
  BY BackoffAssumption DEF Attempts
<1> QED BY <1>1 DEF Backoff

\* Time never runs below zero, and never up.
LEMMA LessType == ASSUME NEW m \in Nat, NEW n \in 0..m PROVE Less(n) \in 0..m
BY DEF Less

LEMMA InitIInv == Init => IInv
BY DEF Init, IInv, TypeOK, Attempts, AttemptHasRow, LeaseBacked, SentWasAccepted,
       DeliveredWasAccepted, DeliveredIsFree

\* What either settling write does to the lease and token of a row: it frees the row
\* of w's attempt if w owns it, and touches no other.
RowsSettled(w) ==
    /\ lease' \in [Job -> 0..LeaseTime]
    /\ token' \in [Job -> Worker \cup {NoWorker}]
    /\ wait' \in [Job -> 0..MaxWait]
    /\ attempts' \in [Job -> Attempts]
    /\ \A j \in Job :
        \/ j = job[w] /\ token[j] = w /\ lease'[j] = 0 /\ token'[j] = NoWorker
        \/ lease'[j] = lease[j] /\ token'[j] = token[j]
    /\ \A j \in delivered' \ delivered : j = job[w] /\ lease'[j] = 0 /\ token'[j] = NoWorker

\* Both writes name the row and the token, so they settle the row or do nothing.
LEMMA WritesSettle ==
  ASSUME TypeOK, NEW w \in Worker, job[w] \in Job, WriteDelivered(w) \/ WriteRetry(w)
  PROVE  RowsSettled(w)
<1>1. Backoff(snap[w]) \in 0..MaxWait
  BY BackoffType DEF TypeOK
<1>2. CASE WriteDelivered(w)
  <2>1. wait' \in [Job -> 0..MaxWait] /\ attempts' \in [Job -> Attempts]
    BY <1>2 DEF TypeOK, WriteDelivered
  <2>2. CASE token[job[w]] = w
    <3>1. /\ lease' = [lease EXCEPT ![job[w]] = 0] /\ token' = [token EXCEPT ![job[w]] = NoWorker]
          /\ delivered' = delivered \cup {job[w]}
      BY <1>2, <2>2 DEF WriteDelivered, Owns
    <3>2. /\ lease' \in [Job -> 0..LeaseTime] /\ lease'[job[w]] = 0
          /\ \A j \in Job : j # job[w] => lease'[j] = lease[j]
      BY <3>1 DEF TypeOK
    <3>3. /\ token' \in [Job -> Worker \cup {NoWorker}] /\ token'[job[w]] = NoWorker
          /\ \A j \in Job : j # job[w] => token'[j] = token[j]
      BY <3>1 DEF TypeOK
    <3> QED BY <2>1, <2>2, <3>1, <3>2, <3>3 DEF RowsSettled
  <2>3. CASE token[job[w]] # w
    BY <1>2, <2>1, <2>3 DEF TypeOK, WriteDelivered, Owns, RowsSettled
  <2> QED BY <2>2, <2>3
<1>3. CASE WriteRetry(w)
  <2>1. wait' \in [Job -> 0..MaxWait]
    BY <1>1, <1>3 DEF TypeOK, WriteRetry
  <2>2. delivered' = delivered /\ attempts' = attempts
    BY <1>3 DEF WriteRetry
  <2>3. /\ lease' \in [Job -> 0..LeaseTime]
        /\ token' \in [Job -> Worker \cup {NoWorker}]
        /\ \A j \in Job :
            \/ j = job[w] /\ token[j] = w /\ lease'[j] = 0 /\ token'[j] = NoWorker
            \/ lease'[j] = lease[j] /\ token'[j] = token[j]
    <3>1. CASE token[job[w]] = w
      <4>1. lease' = [lease EXCEPT ![job[w]] = 0] /\ token' = [token EXCEPT ![job[w]] = NoWorker]
        BY <1>3, <3>1 DEF WriteRetry, Owns
      <4>2. /\ lease' \in [Job -> 0..LeaseTime] /\ lease'[job[w]] = 0
            /\ \A j \in Job : j # job[w] => lease'[j] = lease[j]
        BY <4>1 DEF TypeOK
      <4>3. /\ token' \in [Job -> Worker \cup {NoWorker}] /\ token'[job[w]] = NoWorker
            /\ \A j \in Job : j # job[w] => token'[j] = token[j]
        BY <4>1 DEF TypeOK
      <4> QED BY <3>1, <4>2, <4>3
    <3>2. CASE token[job[w]] # w
      BY <1>3, <3>2 DEF TypeOK, WriteRetry, Owns
    <3> QED BY <3>1, <3>2
  <2> QED BY <2>1, <2>2, <2>3 DEF TypeOK, RowsSettled
<1> QED BY <1>2, <1>3

\* A settled row leaves the other workers' leases and the delivered rows alone.
LEMMA SettledKeeps ==
  ASSUME IInv, NEW w \in Worker, RowsSettled(w), job[w] \in accepted \/ delivered' = delivered,
         accepted' = accepted, held'[w] = 0,
         \A v \in Worker \ {w} : held'[v] = held[v] /\ pc'[v] = pc[v] /\ job'[v] = job[v]
  PROVE  LeaseBacked' /\ DeliveredWasAccepted' /\ DeliveredIsFree'
<1>1. LeaseBacked'
  <2> SUFFICES ASSUME NEW v \in Worker, held'[v] > 0
               PROVE  pc'[v] # "poll" /\ token'[job'[v]] = v /\ lease'[job'[v]] = held'[v]
    BY DEF LeaseBacked
  <2>1. v # w /\ held'[v] = held[v] /\ pc'[v] = pc[v] /\ job'[v] = job[v]
    OBVIOUS
  <2>2. pc[v] # "poll" /\ token[job[v]] = v /\ lease[job[v]] = held[v] /\ job[v] \in Job
    BY <2>1 DEF IInv, LeaseBacked, AttemptHasRow
  <2> QED BY <2>1, <2>2 DEF RowsSettled
<1>2. DeliveredWasAccepted'
  BY DEF IInv, DeliveredWasAccepted, RowsSettled
<1>3. DeliveredIsFree'
  BY DEF IInv, TypeOK, DeliveredIsFree, RowsSettled
<1> QED BY <1>1, <1>2, <1>3

\* Going on with the batch resets the worker's part of the state.
LEMMA NextInBatchTypes ==
  ASSUME TypeOK, NEW w \in Worker, NextInBatch(w)
  PROVE  /\ pc' \in [Worker -> {"poll", "send", "sent", "failed"}]
         /\ job' \in [Worker -> 0..Jobs]
         /\ snap' \in [Worker -> Attempts]
         /\ held' \in [Worker -> 0..LeaseTime]
<1>1. 0 \in Attempts /\ 0 \in 0..Jobs /\ 0 \in 0..LeaseTime
  BY DEF Attempts
<1> QED BY <1>1 DEF TypeOK, NextInBatch

-----------------------------------------------------------------------------
LEMMA StepIInv == IInv /\ [Next]_vars => IInv'
<1> SUFFICES ASSUME IInv, [Next]_vars PROVE IInv'
  OBVIOUS
<1> USE DEF IInv
<1>1. ASSUME NEW j \in Job, Queue(j) PROVE IInv'
  BY <1>1 DEF Queue, rows, process, TypeOK, AttemptHasRow, LeaseBacked, SentWasAccepted,
              DeliveredWasAccepted, DeliveredIsFree
<1>2. ASSUME NEW w \in Worker, Scan(w) PROVE IInv'
  <2>1. batch' \in [Worker -> SUBSET Row]
    <3>1. Oldest(Due) \subseteq Job
      BY DEF Oldest, Due, TypeOK
    <3>2. {[id |-> j, attempts |-> attempts[j]] : j \in Oldest(Due)} \subseteq Row
      BY <3>1 DEF TypeOK, Row
    <3> QED BY <1>2, <3>2 DEF Scan, TypeOK
  <2> QED
    BY <1>2, <2>1 DEF Scan, rows, TypeOK, AttemptHasRow, LeaseBacked, SentWasAccepted,
              DeliveredWasAccepted, DeliveredIsFree
<1>3. ASSUME NEW w \in Worker, Claim(w) PROVE IInv'
  <2>1. PICK r \in batch[w] :
          /\ pc[w] = "poll" /\ r.id \notin delivered /\ lease[r.id] = 0
          /\ lease' = [lease EXCEPT ![r.id] = LeaseTime]
          /\ token' = [token EXCEPT ![r.id] = w]
          /\ attempts' = [attempts EXCEPT ![r.id] = IF @ < MaxExp THEN @ + 1 ELSE MaxExp]
          /\ pc' = [pc EXCEPT ![w] = "send"]
          /\ batch' = [batch EXCEPT ![w] = @ \ {r}]
          /\ job' = [job EXCEPT ![w] = r.id]
          /\ snap' = [snap EXCEPT ![w] = r.attempts]
          /\ held' = [held EXCEPT ![w] = LeaseTime]
          /\ UNCHANGED <<created, wait, delivered, accepted, faults>>
    BY <1>3 DEF Claim, Claimable
  <2>2. r \in Row /\ r.id \in Job /\ r.attempts \in Attempts
    BY DEF TypeOK, Row
  <2>3. TypeOK'
    <3>1. attempts' \in [Job -> Attempts]
      <4>1. \A n \in Attempts : (IF n < MaxExp THEN n + 1 ELSE MaxExp) \in Attempts
        BY DEF Attempts
      <4>2. attempts[r.id] \in Attempts
        BY <2>2 DEF TypeOK
      <4> QED BY <2>1, <4>1, <4>2 DEF TypeOK
    <3>2. batch' \in [Worker -> SUBSET Row]
      BY <2>1 DEF TypeOK
    <3>3. lease' \in [Job -> 0..LeaseTime] /\ token' \in [Job -> Worker \cup {NoWorker}]
      <4>1. LeaseTime \in 0..LeaseTime
        OBVIOUS
      <4>2. lease' \in [Job -> 0..LeaseTime]
        BY <2>1, <4>1 DEF TypeOK
      <4>3. token' \in [Job -> Worker \cup {NoWorker}]
        BY <2>1 DEF TypeOK
      <4> QED BY <4>2, <4>3
    <3>4. /\ pc' \in [Worker -> {"poll", "send", "sent", "failed"}] /\ job' \in [Worker -> 0..Jobs]
          /\ snap' \in [Worker -> Attempts] /\ held' \in [Worker -> 0..LeaseTime]
      <4>1. LeaseTime \in 0..LeaseTime /\ Job \subseteq 0..Jobs
        OBVIOUS
      <4>2. pc' \in [Worker -> {"poll", "send", "sent", "failed"}]
        BY <2>1 DEF TypeOK
      <4>3. job' \in [Worker -> 0..Jobs]
        BY <2>1, <2>2, <4>1 DEF TypeOK
      <4>4. snap' \in [Worker -> Attempts]
        BY <2>1, <2>2 DEF TypeOK
      <4>5. held' \in [Worker -> 0..LeaseTime]
        BY <2>1, <4>1 DEF TypeOK
      <4> QED BY <4>2, <4>3, <4>4, <4>5
    <3>5. UNCHANGED <<created, wait, delivered, accepted, faults>>
      BY <2>1
    <3> QED BY <3>1, <3>2, <3>3, <3>4, <3>5 DEF TypeOK
  <2>4. /\ pc'[w] = "send" /\ job'[w] = r.id /\ held'[w] = LeaseTime
        /\ \A v \in Worker \ {w} : pc'[v] = pc[v] /\ job'[v] = job[v] /\ held'[v] = held[v]
    BY <2>1 DEF TypeOK
  <2>5. /\ lease'[r.id] = LeaseTime /\ token'[r.id] = w
        /\ \A j \in Job \ {r.id} : lease'[j] = lease[j] /\ token'[j] = token[j]
    BY <2>1, <2>2 DEF TypeOK
  <2>6. LeaseBacked'
    <3> SUFFICES ASSUME NEW v \in Worker, held'[v] > 0
                 PROVE  pc'[v] # "poll" /\ token'[job'[v]] = v /\ lease'[job'[v]] = held'[v]
      BY DEF LeaseBacked
    <3>1. CASE v = w
      BY <2>4, <2>5, <3>1
    <3>2. CASE v # w
      <4>1. pc[v] # "poll" /\ token[job[v]] = v /\ lease[job[v]] = held[v] /\ job[v] \in Job
        BY <2>4, <3>2 DEF LeaseBacked, AttemptHasRow
      <4>2. job[v] # r.id
        BY <2>1, <2>4, <3>2, <4>1
      <4> QED BY <2>4, <2>5, <3>2, <4>1, <4>2
    <3> QED BY <3>1, <3>2
  <2>7. AttemptHasRow' /\ SentWasAccepted'
    BY <2>1, <2>2, <2>4 DEF AttemptHasRow, SentWasAccepted
  <2>8. DeliveredWasAccepted' /\ DeliveredIsFree'
    <3>1. delivered \subseteq Job
      BY DEF TypeOK
    <3> QED BY <2>1, <2>5, <3>1 DEF DeliveredWasAccepted, DeliveredIsFree
  <2> QED BY <2>3, <2>6, <2>7, <2>8
<1>4. ASSUME NEW w \in Worker, Skip(w) PROVE IInv'
  <2>1. /\ batch' \in [Worker -> SUBSET Row]
        /\ UNCHANGED <<created, rows, accepted, pc, job, snap, held, faults>>
    BY <1>4 DEF Skip, TypeOK
  <2> QED BY <2>1 DEF rows, TypeOK, AttemptHasRow, LeaseBacked, SentWasAccepted,
              DeliveredWasAccepted, DeliveredIsFree
<1>5. ASSUME NEW w \in Worker, SendOk(w) \/ SendRefused(w) \/ SendAnswerLost(w) PROVE IInv'
  <2>1. job[w] \in Job
    BY <1>5 DEF SendOk, SendRefused, SendAnswerLost, AttemptHasRow
  <2>2. /\ pc[w] = "send"
        /\ accepted' \in {accepted, accepted \cup {job[w]}}
        /\ \/ pc' = [pc EXCEPT ![w] = "failed"]
           \/ pc' = [pc EXCEPT ![w] = "sent"] /\ job[w] \in accepted'
        /\ faults' \in 0..MaxFaults
        /\ UNCHANGED <<created, rows, batch, job, snap, held>>
    <3>1. faults \in 0..MaxFaults
      BY DEF TypeOK
    <3>2. CASE SendOk(w)
      BY <3>1, <3>2 DEF SendOk
    <3>3. CASE SendRefused(w)
      BY <3>1, <3>3 DEF SendRefused
    <3>4. CASE SendAnswerLost(w)
      BY <3>1, <3>4 DEF SendAnswerLost
    <3> QED BY <1>5, <3>2, <3>3, <3>4
  <2>3. TypeOK'
    <3>1. accepted' \subseteq Job
      BY <2>1, <2>2 DEF TypeOK
    <3>2. pc' \in [Worker -> {"poll", "send", "sent", "failed"}]
      BY <2>2 DEF TypeOK
    <3> QED BY <2>2, <3>1, <3>2 DEF rows, TypeOK
  <2>4. SentWasAccepted'
    BY <2>2 DEF TypeOK, SentWasAccepted
  <2>5. AttemptHasRow' /\ LeaseBacked'
    BY <2>2 DEF rows, TypeOK, AttemptHasRow, LeaseBacked
  <2>6. DeliveredWasAccepted' /\ DeliveredIsFree'
    BY <2>2 DEF rows, DeliveredWasAccepted, DeliveredIsFree
  <2> QED BY <2>3, <2>4, <2>5, <2>6
<1>6. ASSUME NEW w \in Worker, MarkDelivered(w) PROVE IInv'
  <2>1. /\ WriteDelivered(w) /\ NextInBatch(w) /\ UNCHANGED <<created, accepted, batch, faults>>
        /\ job[w] \in Job /\ job[w] \in accepted
    BY <1>6 DEF MarkDelivered, AttemptHasRow, SentWasAccepted
  <2>2. RowsSettled(w)
    BY <2>1, WritesSettle
  <2>3. TypeOK'
    <3>1. delivered' \subseteq Job
      BY <2>1, <2>2 DEF RowsSettled, TypeOK
    <3>2. /\ pc' \in [Worker -> {"poll", "send", "sent", "failed"}] /\ job' \in [Worker -> 0..Jobs]
          /\ snap' \in [Worker -> Attempts] /\ held' \in [Worker -> 0..LeaseTime]
      BY <2>1, NextInBatchTypes
    <3> QED BY <2>1, <2>2, <3>1, <3>2 DEF RowsSettled, TypeOK
  <2>4. AttemptHasRow' /\ SentWasAccepted'
    BY <2>1 DEF NextInBatch, TypeOK, AttemptHasRow, SentWasAccepted
  <2>5. LeaseBacked' /\ DeliveredWasAccepted' /\ DeliveredIsFree'
    <3>1. /\ held'[w] = 0
          /\ \A v \in Worker \ {w} : held'[v] = held[v] /\ pc'[v] = pc[v] /\ job'[v] = job[v]
      BY <2>1 DEF NextInBatch, TypeOK
    <3> QED BY <2>1, <2>2, <3>1, SettledKeeps
  <2> QED BY <2>3, <2>4, <2>5
<1>7. ASSUME NEW w \in Worker, MarkDeliveredThrows(w) PROVE IInv'
  <2>1. /\ job[w] \in Job /\ job[w] \in accepted
        /\ pc' = [pc EXCEPT ![w] = "failed"]
        /\ faults' \in 0..MaxFaults
        /\ UNCHANGED <<created, accepted, batch, job, snap>>
    BY <1>7 DEF MarkDeliveredThrows, TypeOK, AttemptHasRow, SentWasAccepted
  <2>2. AttemptHasRow' /\ SentWasAccepted'
    BY <2>1 DEF TypeOK, AttemptHasRow, SentWasAccepted
  <2>3. CASE UNCHANGED <<rows, held>>
    <3>1. TypeOK'
      BY <2>1, <2>3 DEF rows, TypeOK
    <3>2. LeaseBacked'
      BY <2>1, <2>3 DEF rows, TypeOK, LeaseBacked
    <3>3. DeliveredWasAccepted' /\ DeliveredIsFree'
      BY <2>1, <2>3 DEF rows, DeliveredWasAccepted, DeliveredIsFree
    <3> QED BY <2>2, <3>1, <3>2, <3>3
  <2>4. CASE WriteDelivered(w) /\ held' = [held EXCEPT ![w] = 0]
    <3>1. RowsSettled(w)
      BY <2>1, <2>4, WritesSettle
    <3>2. TypeOK'
      <4>1. delivered' \subseteq Job
        BY <2>1, <3>1 DEF RowsSettled, TypeOK
      <4>2. pc' \in [Worker -> {"poll", "send", "sent", "failed"}] /\ held' \in [Worker -> 0..LeaseTime]
        BY <2>1, <2>4 DEF TypeOK
      <4> QED BY <2>1, <3>1, <4>1, <4>2 DEF RowsSettled, TypeOK
    <3>3. LeaseBacked' /\ DeliveredWasAccepted' /\ DeliveredIsFree'
      <4>1. /\ held'[w] = 0
            /\ \A v \in Worker \ {w} : held'[v] = held[v] /\ pc'[v] = pc[v] /\ job'[v] = job[v]
        BY <2>1, <2>4 DEF TypeOK
      <4> QED BY <2>1, <3>1, <4>1, SettledKeeps
    <3> QED BY <2>2, <3>2, <3>3
  <2> QED BY <1>7, <2>3, <2>4 DEF MarkDeliveredThrows
<1>8. ASSUME NEW w \in Worker, MarkRetry(w) PROVE IInv'
  <2>1. /\ WriteRetry(w) /\ NextInBatch(w) /\ UNCHANGED <<created, accepted, batch, faults>>
        /\ job[w] \in Job
    BY <1>8 DEF MarkRetry, AttemptHasRow
  <2>2. RowsSettled(w) /\ delivered' = delivered
    BY <2>1, WritesSettle DEF WriteRetry
  <2>3. TypeOK'
    BY <2>1, <2>2, NextInBatchTypes DEF RowsSettled, TypeOK
  <2>4. AttemptHasRow' /\ SentWasAccepted'
    BY <2>1 DEF NextInBatch, TypeOK, AttemptHasRow, SentWasAccepted
  <2>5. LeaseBacked' /\ DeliveredWasAccepted' /\ DeliveredIsFree'
    <3>1. /\ held'[w] = 0
          /\ \A v \in Worker \ {w} : held'[v] = held[v] /\ pc'[v] = pc[v] /\ job'[v] = job[v]
      BY <2>1 DEF NextInBatch, TypeOK
    <3> QED BY <2>1, <2>2, <3>1, SettledKeeps
  <2> QED BY <2>3, <2>4, <2>5
<1>9. ASSUME NEW w \in Worker, Abandon(w) PROVE IInv'
  <2>1. /\ NextInBatch(w)
        /\ batch' = [batch EXCEPT ![w] = {}]
        /\ faults' \in 0..MaxFaults
        /\ UNCHANGED <<created, rows, accepted>>
    BY <1>9 DEF Abandon, TypeOK
  <2>2. TypeOK'
    BY <2>1, NextInBatchTypes DEF rows, TypeOK
  <2>3. AttemptHasRow' /\ LeaseBacked' /\ SentWasAccepted'
    BY <2>1 DEF NextInBatch, rows, TypeOK, AttemptHasRow, LeaseBacked, SentWasAccepted
  <2>4. DeliveredWasAccepted' /\ DeliveredIsFree'
    BY <2>1 DEF rows, DeliveredWasAccepted, DeliveredIsFree
  <2> QED BY <2>2, <2>3, <2>4
<1>10. ASSUME Tick PROVE IInv'
  <2>1. /\ lease' \in [Job -> 0..LeaseTime]
        /\ wait' \in [Job -> 0..MaxWait]
        /\ held' \in [Worker -> 0..LeaseTime]
    BY <1>10, LessType DEF Tick, TypeOK
  <2>2. LeaseBacked' /\ DeliveredIsFree'
    BY <1>10 DEF Tick, Less, TypeOK, LeaseBacked, AttemptHasRow, DeliveredIsFree
  <2> QED
    BY <1>10, <2>1, <2>2 DEF Tick, TypeOK, AttemptHasRow, SentWasAccepted, DeliveredWasAccepted
<1>11. CASE UNCHANGED vars
  BY <1>11 DEF vars, rows, process, TypeOK, AttemptHasRow, LeaseBacked, SentWasAccepted,
              DeliveredWasAccepted, DeliveredIsFree
<1> QED
  BY <1>1, <1>2, <1>3, <1>4, <1>5, <1>6, <1>7, <1>8, <1>9, <1>10, <1>11 DEF Next, Step

\* Every variable of the outbox keeps its type, whatever fails on the way.
THEOREM TypeCorrect == Safe => []TypeOK
<1>1. IInv => TypeOK
  BY DEF IInv
<1> QED BY InitIInv, StepIInv, <1>1, PTL DEF Safe

\* Two processes never work on one mail under running leases.
THEOREM LeasesExclude == Safe => []LeaseExclusive
<1>1. IInv => LeaseExclusive
  BY DEF IInv, LeaseBacked, LeaseExclusive
<1> QED BY InitIInv, StepIInv, <1>1, PTL DEF Safe

\* A row marked delivered was taken by the provider, and nobody holds it.
THEOREM DeliveredSound == Safe => [](DeliveredWasAccepted /\ DeliveredIsFree)
<1>1. IInv => DeliveredWasAccepted /\ DeliveredIsFree
  BY DEF IInv
<1> QED BY InitIInv, StepIInv, <1>1, PTL DEF Safe

-----------------------------------------------------------------------------
(* The outbox implements the delivery promise (its safety part).           *)

\* A worker only ever looks at rows that a business transaction has committed.
OnlyCommitted == \A w \in Worker :
    /\ \A r \in batch[w] : r.id \in 1..created
    /\ pc[w] # "poll" => job[w] \in 1..created

RInv == IInv /\ OnlyCommitted

LEMMA InitRInv == Init => RInv
BY InitIInv DEF Init, RInv, OnlyCommitted

LEMMA StepRInv == RInv /\ [Next]_vars => RInv'
<1> SUFFICES ASSUME RInv, [Next]_vars PROVE OnlyCommitted'
  BY StepIInv DEF RInv
<1> USE DEF RInv
<1>a. TypeOK
  BY DEF IInv
<1>1. ASSUME NEW j \in Job, Queue(j) PROVE OnlyCommitted'
  <2>1. created \in Nat /\ created' \in Nat /\ created <= created'
    BY <1>a, <1>1 DEF Queue, TypeOK
  <2> QED BY <1>1, <2>1 DEF Queue, process, OnlyCommitted
<1>2. ASSUME NEW w \in Worker, Scan(w) PROVE OnlyCommitted'
  <2>1. Oldest(Due) \subseteq 1..created
    BY DEF Oldest, Due
  <2>2. \A r \in {[id |-> j, attempts |-> attempts[j]] : j \in Oldest(Due)} : r.id \in 1..created
    BY <2>1
  <2> QED BY <1>a, <1>2, <2>2 DEF Scan, TypeOK, OnlyCommitted
<1>b. /\ pc \in [Worker -> {"poll", "send", "sent", "failed"}] /\ job \in [Worker -> 0..Jobs]
      /\ batch \in [Worker -> SUBSET Row]
  BY <1>a DEF TypeOK
<1>3. ASSUME NEW w \in Worker, Claim(w) PROVE OnlyCommitted'
  <2>1. PICK r \in batch[w] :
          /\ pc' = [pc EXCEPT ![w] = "send"] /\ job' = [job EXCEPT ![w] = r.id]
          /\ batch' = [batch EXCEPT ![w] = @ \ {r}] /\ created' = created
    BY <1>3 DEF Claim
  <2>2. r.id \in 1..created
    BY DEF OnlyCommitted
  <2>3. /\ job'[w] = r.id /\ batch'[w] \subseteq batch[w]
        /\ \A v \in Worker \ {w} : pc'[v] = pc[v] /\ job'[v] = job[v] /\ batch'[v] = batch[v]
    BY <1>b, <2>1
  <2> QED BY <2>1, <2>2, <2>3 DEF OnlyCommitted
<1>4. ASSUME NEW w \in Worker, Skip(w) PROVE OnlyCommitted'
  <2>1. /\ pc' = pc /\ job' = job /\ created' = created
        /\ \A v \in Worker : batch'[v] \subseteq batch[v]
    BY <1>b, <1>4 DEF Skip
  <2> QED BY <2>1 DEF OnlyCommitted
<1>5. ASSUME NEW w \in Worker,
             SendOk(w) \/ SendRefused(w) \/ SendAnswerLost(w) \/ MarkDeliveredThrows(w)
      PROVE OnlyCommitted'
  <2>1. pc[w] # "poll" /\ created' = created /\ batch' = batch /\ job' = job
        /\ \A v \in Worker \ {w} : pc'[v] = pc[v]
    BY <1>a, <1>5 DEF SendOk, SendRefused, SendAnswerLost, MarkDeliveredThrows, TypeOK
  <2> QED BY <2>1 DEF OnlyCommitted
<1>6. ASSUME NEW w \in Worker, MarkDelivered(w) \/ MarkRetry(w) \/ Abandon(w)
      PROVE OnlyCommitted'
  <2>1. /\ NextInBatch(w) /\ created' = created
        /\ \A v \in Worker : batch'[v] \subseteq batch[v]
    BY <1>a, <1>6 DEF MarkDelivered, MarkRetry, Abandon, TypeOK
  <2> QED BY <1>a, <2>1 DEF NextInBatch, TypeOK, OnlyCommitted
<1>7. CASE Tick \/ UNCHANGED vars
  BY <1>7 DEF Tick, vars, process, OnlyCommitted
<1> QED BY <1>1, <1>2, <1>3, <1>4, <1>5, <1>6, <1>7 DEF Next, Step

\* Every step of the outbox is a step of the promise, or invisible to it.
LEMMA StepImplements == RInv /\ [Next]_vars => [Delivery!Next]_(Delivery!vars)
<1> SUFFICES ASSUME RInv, [Next]_vars PROVE Delivery!Next \/ UNCHANGED Delivery!vars
  OBVIOUS
<1> USE DEF Delivery!vars
<1>a. TypeOK /\ AttemptHasRow /\ SentWasAccepted
  BY DEF RInv, IInv
<1>1. ASSUME NEW j \in Job, Queue(j) PROVE Delivery!Queue(j)
  <2>1. 1..created' = 1..created \cup {j}
    BY <1>a, <1>1 DEF Queue, TypeOK
  <2> QED BY <1>1, <2>1 DEF Queue, rows, Delivery!Queue
<1>2. ASSUME NEW w \in Worker, SendOk(w) \/ SendAnswerLost(w)
      PROVE  job[w] \in Job /\ Delivery!Accept(job[w])
  <2>1. job[w] \in Job /\ job[w] \in 1..created
    BY <1>a, <1>2 DEF SendOk, SendAnswerLost, AttemptHasRow, RInv, OnlyCommitted
  <2> QED BY <1>2, <2>1 DEF SendOk, SendAnswerLost, rows, Delivery!Accept
<1>3. ASSUME NEW w \in Worker, MarkDelivered(w) \/ MarkDeliveredThrows(w)
      PROVE  \/ job[w] \in Job /\ Delivery!Deliver(job[w])
             \/ UNCHANGED Delivery!vars
  <2>1. job[w] \in Job /\ job[w] \in accepted
    BY <1>a, <1>3 DEF MarkDelivered, MarkDeliveredThrows, AttemptHasRow, SentWasAccepted
  <2>2. /\ delivered' = delivered \/ delivered' = delivered \cup {job[w]}
        /\ created' = created /\ accepted' = accepted
    BY <1>3 DEF MarkDelivered, MarkDeliveredThrows, WriteDelivered, rows
  <2> QED BY <2>1, <2>2 DEF Delivery!Deliver
<1>4. ASSUME NEW w \in Worker,
             Scan(w) \/ Claim(w) \/ Skip(w) \/ SendRefused(w) \/ MarkRetry(w) \/ Abandon(w)
      PROVE  UNCHANGED Delivery!vars
  BY <1>4 DEF Scan, Claim, Skip, SendRefused, MarkRetry, WriteRetry, Abandon, rows
<1>5. CASE Tick \/ UNCHANGED vars
  BY <1>5 DEF Tick, vars, rows
<1> QED BY <1>1, <1>2, <1>3, <1>4, <1>5 DEF Next, Step, Delivery!Next

\* The outbox implements EmailDelivery: mails go to the provider only once queued, are
\* marked delivered only once taken, and nothing of that is ever undone.
THEOREM ImplementsDelivery == Safe => Delivery!Safe
<1>1. Init => Delivery!Init
  BY DEF Init, Delivery!Init
<1> QED BY <1>1, InitRInv, StepRInv, StepImplements, PTL DEF Safe, Delivery!Safe

\* No step takes the delivered mark off a mail.
THEOREM DeliveredStays == Safe => DeliveredIsFinal
<1>1. RInv /\ [Next]_vars => [delivered \subseteq delivered']_vars
  <2>1. ASSUME RInv, [Next]_vars PROVE delivered \subseteq delivered'
    <3>1. Delivery!Next \/ UNCHANGED Delivery!vars
      BY <2>1, StepImplements
    <3> QED BY <3>1 DEF Delivery!Next, Delivery!Queue, Delivery!Accept, Delivery!Deliver,
                        Delivery!vars
  <2> QED BY <2>1
<1> QED BY <1>1, InitRInv, StepRInv, PTL DEF Safe, DeliveredIsFinal

-----------------------------------------------------------------------------
(* No ordinary duplicate dispatch.                                         *)

\* Without faults every attempt is under a running lease, and a mail the provider has
\* taken is marked delivered or is about to be, by the worker that sent it.
TakenIsSettled ==
    Prompt /\ faults = 0 =>
        /\ \A w \in Worker : pc[w] # "poll" => held[w] > 0
        /\ \A j \in accepted \ delivered : \E w \in Worker : pc[w] = "sent" /\ job[w] = j

DInv == IInv /\ TakenIsSettled

LEMMA InitDInv == Init => DInv
BY InitIInv DEF Init, DInv, TakenIsSettled

LEMMA StepDInv == DInv /\ [Next]_vars => DInv'
<1> SUFFICES ASSUME DInv, [Next]_vars, Prompt, faults' = 0 PROVE TakenIsSettled'
  BY StepIInv DEF DInv, TakenIsSettled
<1> DEFINE Held == \A w \in Worker : pc[w] # "poll" => held[w] > 0
           Taken == \A j \in accepted \ delivered :
                        \E w \in Worker : pc[w] = "sent" /\ job[w] = j
<1>a. TypeOK /\ AttemptHasRow /\ LeaseBacked /\ SentWasAccepted
  BY DEF DInv, IInv
<1>b. SUFFICES Held' /\ Taken'
  BY DEF TakenIsSettled
<1>1. ASSUME NEW w \in Worker,
             SendAnswerLost(w) \/ MarkDeliveredThrows(w) \/ Abandon(w)
      PROVE  FALSE
  BY <1>a, <1>1 DEF SendAnswerLost, MarkDeliveredThrows, Abandon, TypeOK
<1>c. CASE faults # 0
  <2>1. faults' = faults
    BY <1>1 DEF Next, Step, Queue, Scan, Claim, Skip, SendOk, SendRefused, MarkDelivered,
                MarkRetry, Tick, vars
  <2> QED BY <1>c, <2>1
<1>d. CASE faults = 0
  <2>a. Held /\ Taken
    BY <1>d DEF DInv, TakenIsSettled
  <2>1. ASSUME NEW j \in Job, Queue(j) PROVE Held' /\ Taken'
    BY <2>a, <2>1 DEF Queue, process, rows
  <2>2. ASSUME NEW w \in Worker, Scan(w) \/ Skip(w) PROVE Held' /\ Taken'
    BY <2>a, <2>2 DEF Scan, Skip, rows
  <2>3. ASSUME NEW w \in Worker, Claim(w) PROVE Held' /\ Taken'
    <3>1. /\ pc[w] = "poll" /\ pc' = [pc EXCEPT ![w] = "send"]
          /\ held' = [held EXCEPT ![w] = LeaseTime]
          /\ \A v \in Worker \ {w} : job'[v] = job[v]
          /\ accepted' = accepted /\ delivered' = delivered
      BY <1>a, <2>3 DEF Claim, TypeOK
    <3>2. Held'
      BY <1>a, <2>a, <3>1 DEF TypeOK
    <3>3. Taken'
      BY <1>a, <2>a, <3>1 DEF TypeOK
    <3> QED BY <3>2, <3>3
  <2>4. ASSUME NEW w \in Worker, SendOk(w) \/ SendRefused(w) PROVE Held' /\ Taken'
    <3>1. /\ pc[w] = "send" /\ held' = held /\ job' = job /\ delivered' = delivered
          /\ \/ pc' = [pc EXCEPT ![w] = "sent"] /\ accepted' = accepted \cup {job[w]}
             \/ pc' = [pc EXCEPT ![w] = "failed"] /\ accepted' = accepted
      BY <2>4 DEF SendOk, SendRefused, rows
    <3>2. Held'
      BY <1>a, <2>a, <3>1 DEF TypeOK
    <3>3. Taken'
      <4> SUFFICES ASSUME NEW j \in accepted' \ delivered'
                   PROVE  \E v \in Worker : pc'[v] = "sent" /\ job'[v] = j
        OBVIOUS
      <4>1. CASE j \in accepted
        BY <1>a, <2>a, <3>1, <4>1 DEF TypeOK
      <4>2. CASE j \notin accepted
        BY <1>a, <3>1, <4>2 DEF TypeOK
      <4> QED BY <4>1, <4>2
    <3> QED BY <3>2, <3>3
  <2>5. ASSUME NEW w \in Worker, MarkDelivered(w) PROVE Held' /\ Taken'
    <3>1. token[job[w]] = w
      BY <2>a, <2>5, <1>a DEF MarkDelivered, LeaseBacked, TypeOK
    <3>2. delivered' = delivered \cup {job[w]} /\ accepted' = accepted /\ NextInBatch(w)
      BY <2>5, <3>1 DEF MarkDelivered, WriteDelivered, Owns
    <3> QED BY <1>a, <2>a, <3>2 DEF NextInBatch, TypeOK
  <2>6. ASSUME NEW w \in Worker, MarkRetry(w) PROVE Held' /\ Taken'
    <3>1. pc[w] = "failed" /\ delivered' = delivered /\ accepted' = accepted /\ NextInBatch(w)
      BY <2>6 DEF MarkRetry, WriteRetry
    <3> QED BY <1>a, <2>a, <3>1 DEF NextInBatch, TypeOK
  <2>7. ASSUME Tick PROVE Held' /\ Taken'
    BY <1>a, <2>a, <2>7 DEF Tick, Less, TypeOK
  <2>8. CASE UNCHANGED vars
    BY <2>a, <2>8 DEF vars, rows, process
  <2> QED BY <1>1, <2>1, <2>2, <2>3, <2>4, <2>5, <2>6, <2>7, <2>8 DEF Next, Step
<1> QED BY <1>c, <1>d

\* With no fault and prompt settling, no attempt starts on a mail the provider has taken.
THEOREM NoDuplicateDispatch == Safe => SingleDispatch
<1> DEFINE Quiet == \A w \in Worker :
        Prompt /\ faults = 0 /\ pc[w] = "poll" /\ pc'[w] = "send" => job'[w] \notin accepted
<1>1. DInv /\ [Next]_vars => [Quiet]_vars
  <2> SUFFICES ASSUME DInv, Next, NEW w \in Worker, Prompt, faults = 0,
                      pc[w] = "poll", pc'[w] = "send"
               PROVE  job'[w] \notin accepted
    OBVIOUS
  <2>a. TypeOK /\ AttemptHasRow /\ LeaseBacked /\ TakenIsSettled
    BY DEF DInv, IInv
  <2>1. Claim(w)
    <3>1. ASSUME NEW v \in Worker, Step(v), ~Claim(v) PROVE pc'[w] # "send"
      <4>1. \/ pc' = pc
            \/ pc[v] # "poll" /\ \E p \in {"poll", "sent", "failed"} : pc' = [pc EXCEPT ![v] = p]
            \/ pc' = [pc EXCEPT ![v] = "poll"]
        BY <3>1 DEF Step, Scan, Skip, SendOk, SendRefused, SendAnswerLost, MarkDelivered,
                    MarkDeliveredThrows, MarkRetry, Abandon, NextInBatch
      <4> QED BY <2>a, <4>1 DEF TypeOK
    <3>2. ASSUME NEW v \in Worker, Claim(v), v # w PROVE FALSE
      BY <2>a, <3>2 DEF Claim, TypeOK
    <3>3. \E v \in Worker : Step(v)
      BY DEF Next, Queue, Tick, process
    <3> QED BY <3>1, <3>2, <3>3
  <2>2. PICK j \in Job : j \notin delivered /\ lease[j] = 0 /\ job'[w] = j
    BY <2>a, <2>1 DEF Claim, Claimable, TypeOK, Row
  <2>3. ASSUME j \in accepted PROVE FALSE
    <3>1. PICK v \in Worker : pc[v] = "sent" /\ job[v] = j
      BY <2>a, <2>2, <2>3 DEF TakenIsSettled
    <3>2. held[v] > 0
      BY <2>a, <3>1 DEF TakenIsSettled
    <3> QED BY <2>a, <2>2, <3>1, <3>2 DEF LeaseBacked
  <2> QED BY <2>2, <2>3
<1> QED BY <1>1, InitDInv, StepDInv, PTL DEF Safe, SingleDispatch
=============================================================================
