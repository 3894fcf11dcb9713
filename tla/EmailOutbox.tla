----------------------------- MODULE EmailOutbox -----------------------------
(***************************************************************************)
(* The durable email outbox and the API processes that drain it            *)
(* (src/src/modules/notifications/notification-email.service.ts).          *)
(*                                                                         *)
(* A row of NotificationEmail is spread over the functions lease, token,   *)
(* wait and attempts.  Times are kept as time LEFT, so that Tick is the    *)
(* only clock: lease[j] = 0 stands for a lockedUntil that is null or past, *)
(* wait[j] = 0 for an availableAt that is not in the future.  The random   *)
(* lockToken of a claim is the claiming worker: a worker makes one attempt *)
(* at a time, so two attempts alive at once never share one.               *)
(***************************************************************************)
EXTENDS Naturals, FiniteSets

CONSTANTS
    Jobs,           \* how many distinct mails are ever queued
    Worker,         \* API processes, each with one poller (guarded by `running')
    NoWorker,       \* the null lockToken
    BatchSize,      \* `take' of the scan (25)
    LeaseTime,      \* lockedUntil - now at a claim (120 s)
    BaseWait,       \* first backoff (30 s)
    MaxWait,        \* longest backoff (3600 s)
    MaxExp,         \* exponent at which the backoff stops doubling (7)
    MaxFaults,      \* bound: lost answers, failed settling writes, crashes
    Prompt          \* TRUE: every attempt is settled before its lease runs out

Job == 1..Jobs      \* mails are numbered in the order of createdAt

ASSUME JobsAssumption == Jobs \in Nat
ASSUME WorkerAssumption == NoWorker \notin Worker
ASSUME BatchAssumption == BatchSize \in Nat \ {0}
ASSUME LeaseAssumption == LeaseTime \in Nat \ {0}
ASSUME FaultsAssumption == MaxFaults \in Nat
ASSUME PromptAssumption == Prompt \in BOOLEAN
ASSUME WaitAssumption == MaxWait \in Nat /\ MaxExp \in Nat
ASSUME BackoffAssumption == \A a \in 0..MaxExp : BaseWait * 2^a \in Nat

VARIABLES
    created,        \* rows 1..created are committed
    lease, token,   \* per row: time left of lockedUntil, and lockToken
    wait,           \* per row: time left until availableAt
    attempts,       \* per row: attempts, counted up to MaxExp
    delivered,      \* rows whose deliveredAt is set
    accepted,       \* rows whose mail the provider has taken (its idempotency keys)
    pc,             \* per worker: "poll", "send", "sent" or "failed"
    batch,          \* per worker: rows found by the scan and not reached yet
    job,            \* per worker: the row of its current attempt, 0 for none
    snap,           \* per worker: job.attempts as the scan read it
    held,           \* per worker: time left of the lease it took and has not given back
    faults          \* faults so far

rows == <<lease, token, wait, attempts, delivered>>
process == <<pc, batch, job, snap, held>>
vars == <<created, rows, accepted, process, faults>>

Attempts == 0..MaxExp
Row == [id : Job, attempts : Attempts]

\* Mutant: no longest wait.
UncappedBackoff(a) == BaseWait * 2^a

Backoff(a) == IF BaseWait * 2^a < MaxWait THEN BaseWait * 2^a ELSE MaxWait

Init ==
    /\ created = 0
    /\ lease = [j \in Job |-> 0]
    /\ token = [j \in Job |-> NoWorker]
    /\ wait = [j \in Job |-> 0]
    /\ attempts = [j \in Job |-> 0]
    /\ delivered = {}
    /\ accepted = {}
    /\ pc = [w \in Worker |-> "poll"]
    /\ batch = [w \in Worker |-> {}]
    /\ job = [w \in Worker |-> 0]
    /\ snap = [w \in Worker |-> 0]
    /\ held = [w \in Worker |-> 0]
    /\ faults = 0

-----------------------------------------------------------------------------
(* The producer: a business transaction commits with its mails.            *)

\* Mutant: the upsert's update writes the row anew.
QueueAnew(j) ==
    /\ j <= created + 1
    /\ created' = IF j > created THEN j ELSE created
    /\ delivered' = delivered \ {j}
    /\ UNCHANGED <<lease, token, wait, attempts, accepted, process, faults>>

\* The upsert on dedupeKey: a new row, or nothing when the row is there.
Queue(j) ==
    /\ j <= created + 1
    /\ created' = IF j > created THEN j ELSE created
    /\ UNCHANGED <<rows, accepted, process, faults>>

(* The worker: scan, then one attempt per row of the batch, oldest first.  *)

\* Mutant: a row that is locked is never due, though its lease has run out.
UnlockedDue == {j \in 1..created : j \notin delivered /\ wait[j] = 0 /\ token[j] = NoWorker}

Due == {j \in 1..created : j \notin delivered /\ wait[j] = 0 /\ lease[j] = 0}

Oldest(js) == {j \in js : Cardinality({k \in js : k < j}) < BatchSize}

Scan(w) ==
    /\ pc[w] = "poll" /\ batch[w] = {}
    /\ Due # {}
    /\ batch' = [batch EXCEPT ![w] = {[id |-> j, attempts |-> attempts[j]] : j \in Oldest(Due)}]
    /\ UNCHANGED <<created, rows, accepted, pc, job, snap, held, faults>>

\* The next row of w's batch.
IsNext(w, r) == r \in batch[w] /\ \A other \in batch[w] : r.id <= other.id

\* Mutant: the claim does not ask whether the row was delivered since the scan.
ClaimableUnlocked(j) == lease[j] = 0

\* The where clause of the claim: availableAt is not looked at again.
Claimable(j) == j \notin delivered /\ lease[j] = 0

Claim(w) == \E r \in batch[w] :
    /\ pc[w] = "poll" /\ IsNext(w, r) /\ Claimable(r.id)
    /\ lease' = [lease EXCEPT ![r.id] = LeaseTime]
    /\ token' = [token EXCEPT ![r.id] = w]
    /\ attempts' = [attempts EXCEPT ![r.id] = IF @ < MaxExp THEN @ + 1 ELSE MaxExp]
    /\ pc' = [pc EXCEPT ![w] = "send"]
    /\ batch' = [batch EXCEPT ![w] = @ \ {r}]
    /\ job' = [job EXCEPT ![w] = r.id]
    /\ snap' = [snap EXCEPT ![w] = r.attempts]
    /\ held' = [held EXCEPT ![w] = LeaseTime]
    /\ UNCHANGED <<created, wait, delivered, accepted, faults>>

\* claim.count = 0: somebody else delivered the row or holds it.
Skip(w) == \E r \in batch[w] :
    /\ pc[w] = "poll" /\ IsNext(w, r) /\ ~Claimable(r.id)
    /\ batch' = [batch EXCEPT ![w] = @ \ {r}]
    /\ UNCHANGED <<created, rows, accepted, pc, job, snap, held, faults>>

\* The call of the provider: taken, refused, or taken with the answer lost.
SendOk(w) ==
    /\ pc[w] = "send"
    /\ accepted' = accepted \cup {job[w]}
    /\ pc' = [pc EXCEPT ![w] = "sent"]
    /\ UNCHANGED <<created, rows, batch, job, snap, held, faults>>

\* Mutant: the provider's refusal is not noticed.
RefusalIgnored(w) ==
    /\ pc[w] = "send"
    /\ pc' = [pc EXCEPT ![w] = "sent"]
    /\ UNCHANGED <<created, rows, accepted, batch, job, snap, held, faults>>

SendRefused(w) ==
    /\ pc[w] = "send"
    /\ pc' = [pc EXCEPT ![w] = "failed"]
    /\ UNCHANGED <<created, rows, accepted, batch, job, snap, held, faults>>

SendAnswerLost(w) ==
    /\ pc[w] = "send" /\ faults < MaxFaults
    /\ accepted' = accepted \cup {job[w]}
    /\ pc' = [pc EXCEPT ![w] = "failed"]
    /\ faults' = faults + 1
    /\ UNCHANGED <<created, rows, batch, job, snap, held>>

-----------------------------------------------------------------------------
(* Settling the attempt: both writes name the row AND the token.           *)

\* Mutant: the settling writes name the row alone.
OwnsAnyway(w) == TRUE

Owns(w) == token[job[w]] = w

\* The row after the write that sets deliveredAt; a lost lease matches no row.
WriteDelivered(w) ==
    /\ delivered' = IF Owns(w) THEN delivered \cup {job[w]} ELSE delivered
    /\ lease' = IF Owns(w) THEN [lease EXCEPT ![job[w]] = 0] ELSE lease
    /\ token' = IF Owns(w) THEN [token EXCEPT ![job[w]] = NoWorker] ELSE token
    /\ UNCHANGED <<wait, attempts>>

\* The row after the write of the catch block.
WriteRetry(w) ==
    /\ lease' = IF Owns(w) THEN [lease EXCEPT ![job[w]] = 0] ELSE lease
    /\ token' = IF Owns(w) THEN [token EXCEPT ![job[w]] = NoWorker] ELSE token
    /\ wait' = IF Owns(w) THEN [wait EXCEPT ![job[w]] = Backoff(snap[w])] ELSE wait
    /\ UNCHANGED <<attempts, delivered>>

\* w is done with its row and goes on with its batch.
NextInBatch(w) ==
    /\ pc' = [pc EXCEPT ![w] = "poll"]
    /\ job' = [job EXCEPT ![w] = 0]
    /\ snap' = [snap EXCEPT ![w] = 0]
    /\ held' = [held EXCEPT ![w] = 0]

MarkDelivered(w) ==
    /\ pc[w] = "sent"
    /\ WriteDelivered(w)
    /\ NextInBatch(w)
    /\ UNCHANGED <<created, accepted, batch, faults>>

\* That write throws, before or after it took effect: the catch block runs.
MarkDeliveredThrows(w) ==
    /\ pc[w] = "sent" /\ faults < MaxFaults
    /\ pc' = [pc EXCEPT ![w] = "failed"]
    /\ \/ UNCHANGED <<rows, held>>
       \/ WriteDelivered(w) /\ held' = [held EXCEPT ![w] = 0]
    /\ faults' = faults + 1
    /\ UNCHANGED <<created, accepted, batch, job, snap>>

MarkRetry(w) ==
    /\ pc[w] = "failed"
    /\ WriteRetry(w)
    /\ NextInBatch(w)
    /\ UNCHANGED <<created, accepted, batch, faults>>

\* The process dies, or a database error leaves deliverNotificationEmails (from
\* the claim or from the catch block): the rest of the batch is dropped, a lease
\* that was taken stays until it runs out.
Abandon(w) ==
    /\ pc[w] # "poll" \/ batch[w] # {}
    /\ faults < MaxFaults
    /\ faults' = faults + 1
    /\ batch' = [batch EXCEPT ![w] = {}]
    /\ NextInBatch(w)
    /\ UNCHANGED <<created, rows, accepted>>

Less(n) == IF n > 0 THEN n - 1 ELSE 0

\* One unit of time.  Under Prompt none passes that would outdate a live attempt.
Tick ==
    /\ \/ \E j \in Job : lease[j] > 0 \/ wait[j] > 0
       \/ \E w \in Worker : held[w] > 0
    /\ Prompt => \A w \in Worker : held[w] # 1
    /\ lease' = [j \in Job |-> Less(lease[j])]
    /\ wait' = [j \in Job |-> Less(wait[j])]
    /\ held' = [w \in Worker |-> Less(held[w])]
    /\ UNCHANGED <<created, token, attempts, delivered, accepted, pc, batch, job, snap, faults>>

-----------------------------------------------------------------------------
Settle(w) == MarkDelivered(w) \/ MarkRetry(w)

Step(w) ==
    \/ Scan(w) \/ Claim(w) \/ Skip(w)
    \/ SendOk(w) \/ SendRefused(w) \/ SendAnswerLost(w)
    \/ MarkDelivered(w) \/ MarkDeliveredThrows(w) \/ MarkRetry(w)
    \/ Abandon(w)

Next == (\E j \in Job : Queue(j)) \/ (\E w \in Worker : Step(w)) \/ Tick

Safe == Init /\ [][Next]_vars

\* setInterval keeps polling, the loop runs on, time passes, and a provider that
\* is asked again and again does not refuse for ever.
Fairness ==
    /\ WF_vars(Tick)
    /\ \A w \in Worker :
        /\ WF_vars(Scan(w)) /\ WF_vars(Claim(w)) /\ WF_vars(Skip(w))
        /\ WF_vars(Settle(w))
        /\ SF_vars(SendOk(w))

Spec == Safe /\ Fairness

-----------------------------------------------------------------------------
(* Correctness.                                                            *)

\* Every variable has its type.
TypeOK ==
    /\ created \in 0..Jobs
    /\ lease \in [Job -> 0..LeaseTime]
    /\ token \in [Job -> Worker \cup {NoWorker}]
    /\ wait \in [Job -> 0..MaxWait]
    /\ attempts \in [Job -> Attempts]
    /\ delivered \subseteq Job
    /\ accepted \subseteq Job
    /\ pc \in [Worker -> {"poll", "send", "sent", "failed"}]
    /\ batch \in [Worker -> SUBSET Row]
    /\ job \in [Worker -> 0..Jobs]
    /\ snap \in [Worker -> Attempts]
    /\ held \in [Worker -> 0..LeaseTime]
    /\ faults \in 0..MaxFaults

\* Two processes never work on one mail under leases that are both still running:
\* the claim's where clause and the token in both settling writes keep a late
\* worker from taking or freeing a lease that is not its own.
LeaseExclusive ==
    \A v, w \in Worker :
        v # w /\ held[v] > 0 /\ held[w] > 0 => job[v] # job[w]

\* A row marked delivered is one the provider took, whatever write failed on the way.
DeliveredWasAccepted == delivered \subseteq accepted

\* Nobody holds a delivered row, and no stale batch or late retry locks it again.
DeliveredIsFree == \A j \in delivered : lease[j] = 0 /\ token[j] = NoWorker

\* Delivered is for ever: neither a replayed queueing nor a late settling write undoes it.
DeliveredIsFinal == [][delivered \subseteq delivered']_vars

\* "The outbox prevents ordinary duplicate dispatch": with no fault and prompt
\* settling, no attempt starts on a mail the provider has already taken.
SingleDispatch ==
    [][\A w \in Worker :
        Prompt /\ faults = 0 /\ pc[w] = "poll" /\ pc'[w] = "send" => job'[w] \notin accepted]_vars

\* Every queued mail is marked delivered in the end, across crashes and lost answers.
EventuallyDelivered == \A j \in Job : (j <= created) ~> (j \in delivered)

\* The outbox implements the delivery promise.
Delivery == INSTANCE EmailDelivery WITH queued <- 1..created
Implements == Delivery!Spec
=============================================================================
