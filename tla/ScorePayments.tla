---------------------------- MODULE ScorePayments ----------------------------
(***************************************************************************)
(* Rent score payments, the score requests they buy, and their              *)
(* notifications:                                                           *)
(*   score-payments.service.ts  (src/src/modules/score-payments),           *)
(*   requestWorkspaceRentScore, forwardWorkspaceScoreRequest                *)
(*                              (src/src/modules/workspace),                *)
(*   acceptRenterScoreRequest, shareRenterScoreReport                       *)
(*                              (src/src/modules/renter),                   *)
(*   the case's part of decideWorkspaceProposedRenter (see                  *)
(*   ApplicationDecision),                                                  *)
(*   notifyScorePayment, notifyUser (src/src/modules/notifications).        *)
(* A share's own row and mail are read by nothing here and left out.        *)
(*                                                                         *)
(* A handler is cut where it awaits something that others can change: after *)
(* a read, around the gateway's answer, between a write and a notification  *)
(* of its own.  What one transaction writes is one step, since the row it   *)
(* updates first stays locked until the commit.  Rows are numbered in the   *)
(* order of their creation.                                                 *)
(***************************************************************************)
EXTENDS Naturals

CONSTANTS
    Case,           \* proposed renters a landlord or agent may buy a score for
    Linked,         \* those whose renter has accepted the property link
    Self,           \* renters who may buy their own score (null proposedRenterId)
    Handler,        \* request handlers that may be in flight at once
    Payments,       \* bound: rows of RentScorePayment
    Requests,       \* bound: rows of ScoreRequest
    Work            \* bound: requests handled

Buyer == Case \cup Self
Payment == 1..Payments
Request == 1..Requests

ASSUME BuyerAssumption == Case # {} /\ Linked \subseteq Case /\ Case \cap Self = {}
ASSUME BoundAssumption == Payments \in Nat /\ Requests \in Nat /\ Work \in Nat

VARIABLES
    made,           \* payments 1..made are committed
    buyer,          \* per payment: its case, or the renter who buys for himself
    provider,       \* "GATEWAY" (Paystack, Flutterwave) or "MANUAL_TRANSFER"
    status,         \* per payment
    reqOf,          \* per payment: scoreRequestId, 0 for null
    confirmed,      \* payments with confirmedAt: an admin has seen the transfer
    approved,       \* payments with reportApprovedAt
    asked,          \* score requests 1..asked are committed
    about,          \* per request: its case
    progress,       \* per request: its status
    accepted,       \* requests with acceptedAt: the renter agrees to share
    stage,          \* per case: ProposedRenter.status
    paid,           \* payments the gateway has the money of (its own state)
    told,           \* payment and status: event keys of committed notifications
    source,         \* per request: the payment it was created for, 0 if asked for
                    \*   directly (a history variable: no column holds it)
    pc, task,       \* per handler: where it is, and what it has read
    begun,          \* requests begun
    raced           \* payments that two requests settled at once (a history variable)

payment == <<made, buyer, provider, status, reqOf, confirmed, approved>>
request == <<asked, about, progress, accepted, source>>
process == <<pc, task, begun, raced>>
vars == <<payment, request, stage, paid, told, process>>

Provider == {"GATEWAY", "MANUAL_TRANSFER"}
Open == {"PENDING_ACTION", "AWAITING_MANUAL_CONFIRMATION"}
Status == Open \cup {"SUCCEEDED", "FAILED"}
Decided == {"UNDER_REVIEW", "DECISION_READY"}
Stage == {"PROPOSED", "SCORE_REQUESTED", "SCORE_SHARED"} \cup Decided

CreateTask == [buyer : Buyer, provider : Provider]
PaymentTask == [payment : Payment, request : 0..Requests]
CaseTask == [case : Case]
RequestTask == [request : Request]
NoTask == <<>>
Task == CreateTask \cup PaymentTask \cup CaseTask \cup RequestTask \cup {NoTask}

\* What the columns of rows that do not exist yet hold is of no account.
Init ==
    /\ made = 0 /\ asked = 0
    /\ buyer = [p \in Payment |-> CHOOSE b \in Buyer : TRUE]
    /\ provider = [p \in Payment |-> "GATEWAY"]
    /\ status = [p \in Payment |-> "PENDING_ACTION"]
    /\ reqOf = [p \in Payment |-> 0]
    /\ about = [r \in Request |-> CHOOSE c \in Case : TRUE]
    /\ progress = [r \in Request |-> "REQUESTED"]
    /\ source = [r \in Request |-> 0]
    /\ confirmed = {} /\ approved = {} /\ accepted = {} /\ paid = {} /\ told = {}
    /\ stage = [c \in Case |-> "PROPOSED"]
    /\ pc = [h \in Handler |-> "idle"]
    /\ task = [h \in Handler |-> NoTask]
    /\ begun = 0 /\ raced = {}

-----------------------------------------------------------------------------
(* Steps of a handler.                                                      *)

\* A handler that verifies or confirms a payment and has not written yet.
Settles(h, p) ==
    pc[h] \in {"verify", "fail", "credit", "commit", "confirm"} /\ task[h].payment = p

Starts(h) == pc[h] = "idle" /\ begun < Work /\ begun' = begun + 1

Begin(h, at, t) ==
    /\ Starts(h)
    /\ pc' = [pc EXCEPT ![h] = at]
    /\ task' = [task EXCEPT ![h] = t]
    /\ raced' = IF at \in {"verify", "confirm"} /\ \E g \in Handler : Settles(g, t.payment)
                THEN raced \cup {t.payment} ELSE raced

\* A request whose every statement is one transaction.
AtOnce(h) == Starts(h) /\ UNCHANGED <<pc, task, raced>>

Move(h, from, to) ==
    /\ pc[h] = from
    /\ pc' = [pc EXCEPT ![h] = to]
    /\ UNCHANGED <<task, begun, raced>>

Finish(h) ==
    /\ pc' = [pc EXCEPT ![h] = "idle"]
    /\ task' = [task EXCEPT ![h] = NoTask]
    /\ UNCHANGED <<begun, raced>>

\* notifyUser: a recipient has one notification of an event key, however often it is sent.
Notified(key) == told' = told \cup {key}

\* notifyScorePayment reads the row as it is now.
Announce(p) == Notified(<<p, IF p \in approved' THEN "REPORT_APPROVED" ELSE status'[p]>>)

\* The transaction fails, the gateway cannot be reached, or the process dies: what
\* is committed stays, the rest of the handler does not run.
Abort(h) ==
    /\ pc[h] # "idle"
    /\ Finish(h)
    /\ UNCHANGED <<payment, request, stage, paid, told>>

-----------------------------------------------------------------------------
(* createRentScorePaymentSession, createRenterRentScorePaymentSession.      *)

PaymentsFor(b, statuses) == {p \in 1..made : buyer[p] = b /\ status[p] \in statuses}
RequestsFor(c) == {r \in 1..asked : about[r] = c}

\* ensureScoreRequestCanStart; a renter may buy the own score any number of times.
CanStart(b) ==
    /\ PaymentsFor(b, Open) = {}
    /\ b \in Case => RequestsFor(b) = {} /\ PaymentsFor(b, {"SUCCEEDED"}) = {}

CreateCheck(h, b, v) ==
    /\ CanStart(b)
    /\ Begin(h, "create", [buyer |-> b, provider |-> v])
    /\ UNCHANGED <<payment, request, stage, paid, told>>

\* Mutant: the column's default.
DefaultStatus(v) == "PENDING"

StartStatus(v) ==
    IF v = "MANUAL_TRANSFER" THEN "AWAITING_MANUAL_CONFIRMATION" ELSE "PENDING_ACTION"

\* The row, its checkout or transfer instructions and its notification.
CreateCommit(h) ==
    /\ pc[h] = "create" /\ made < Payments
    /\ made' = made + 1
    /\ buyer' = [buyer EXCEPT ![made'] = task[h].buyer]
    /\ provider' = [provider EXCEPT ![made'] = task[h].provider]
    /\ status' = [status EXCEPT ![made'] = StartStatus(task[h].provider)]
    /\ UNCHANGED <<reqOf, confirmed, approved>>
    /\ Announce(made')
    /\ Finish(h)
    /\ UNCHANGED <<request, stage, paid>>

\* The buyer pays at the gateway, whenever.
Pay(p) ==
    /\ p \in 1..made \ paid /\ provider[p] = "GATEWAY"
    /\ paid' = paid \cup {p}
    /\ UNCHANGED <<payment, request, stage, told, process>>

-----------------------------------------------------------------------------
(* verifyRentScorePayment, verifyRenterRentScorePayment.                    *)

\* Mutant: only an approved report ends the verifying.
CreditedIfApproved(p) == p \in approved

Credited(p) == status[p] = "SUCCEEDED" /\ (buyer[p] \in Case => reqOf[p] # 0)

\* Mutant: every payment may be verified, at any time.
AlwaysVerifiable(p) == TRUE

Verifiable(p) == provider[p] = "GATEWAY" /\ ~Credited(p)

VerifyRead(h, p) ==
    /\ p <= made /\ Verifiable(p)
    /\ Begin(h, "verify", [payment |-> p, request |-> reqOf[p]])
    /\ UNCHANGED <<payment, request, stage, paid, told>>

\* What the gateway says of the payment now.
GatewayAnswer(h) ==
    /\ Move(h, "verify", IF task[h].payment \in paid THEN "credit" ELSE "fail")
    /\ UNCHANGED <<payment, request, stage, paid, told>>

SetStatus(p, s) ==
    /\ status' = [status EXCEPT ![p] = s]
    /\ UNCHANGED <<made, buyer, provider, confirmed, approved>>

\* Not successful: an update by id, whatever the row says by now.
FailWrite(h) ==
    /\ Move(h, "fail", "tell")
    /\ SetStatus(task[h].payment, "FAILED")
    /\ UNCHANGED <<reqOf, request, stage, paid, told>>

\* The notification follows in statements of its own, outside any transaction.
Tell(h) ==
    /\ pc[h] = "tell"
    /\ UNCHANGED <<payment, request, stage, paid>>
    /\ Announce(task[h].payment)
    /\ Finish(h)

\* Successful, a renter's own: again an update and a notification.
SelfCredit(h) ==
    /\ Move(h, "credit", "tell")
    /\ buyer[task[h].payment] \in Self
    /\ SetStatus(task[h].payment, "SUCCEEDED")
    /\ UNCHANGED <<reqOf, request, stage, paid, told>>

\* Successful, for a case: the transaction reads the row again.
Refresh(h) ==
    /\ pc[h] = "credit" /\ buyer[task[h].payment] \in Case
    /\ IF Credited(task[h].payment) THEN Finish(h) ELSE Move(h, "credit", "commit")
    /\ UNCHANGED <<payment, request, stage, paid, told>>

\* A new row of ScoreRequest, made for payment p (0: none).
AddRequest(c, p) ==
    /\ asked < Requests
    /\ asked' = asked + 1
    /\ about' = [about EXCEPT ![asked'] = c]
    /\ progress' = [progress EXCEPT ![asked'] = "REQUESTED"]
    /\ source' = [source EXCEPT ![asked'] = p]
    /\ UNCHANGED accepted
    /\ stage' = [stage EXCEPT ![c] = "SCORE_REQUESTED"]

\* Mutant: the payment does not learn of its request.
CreditUnlinked(p) ==
    /\ AddRequest(buyer[p], p)
    /\ UNCHANGED reqOf

\* createPaidScoreRequest: the request, the case, the payment, the notification.
CreditCase(p) ==
    /\ AddRequest(buyer[p], p)
    /\ reqOf' = [reqOf EXCEPT ![p] = asked']

CreditCommit(h) ==
    /\ pc[h] = "commit"
    /\ SetStatus(task[h].payment, "SUCCEEDED")
    /\ CreditCase(task[h].payment)
    /\ Announce(task[h].payment)
    /\ Finish(h)
    /\ UNCHANGED paid

-----------------------------------------------------------------------------
(* The administrator: confirmManualRentScorePayment, approveRentScoreReport. *)
(* Both read before their transaction.                                      *)

\* Mutant: any payment that is open can be confirmed.
ConfirmableIfOpen(p) == status[p] \in Open

Confirmable(p) == provider[p] = "MANUAL_TRANSFER" /\ status[p] = "AWAITING_MANUAL_CONFIRMATION"

ConfirmRead(h, p) ==
    /\ p <= made /\ Confirmable(p)
    /\ Begin(h, "confirm", [payment |-> p, request |-> reqOf[p]])
    /\ UNCHANGED <<payment, request, stage, paid, told>>

ConfirmCommit(h) ==
    /\ pc[h] = "confirm"
    /\ LET p == task[h].payment IN
        /\ status' = [status EXCEPT ![p] = "SUCCEEDED"]
        /\ confirmed' = confirmed \cup {p}
        /\ UNCHANGED <<made, buyer, provider, approved>>
        /\ \/ buyer[p] \in Case /\ CreditCase(p)
           \/ buyer[p] \in Self /\ UNCHANGED <<reqOf, request, stage>>
        /\ Announce(p)
    /\ Finish(h)
    /\ UNCHANGED paid

ApproveRead(h, p) ==
    /\ p <= made /\ status[p] = "SUCCEEDED" /\ p \notin approved
    /\ Begin(h, "approve", [payment |-> p, request |-> reqOf[p]])
    /\ UNCHANGED <<payment, request, stage, paid, told>>

\* The request the payment named when it was read.
ReviewedRequest(h) == task[h].request

ApproveCommit(h) ==
    /\ pc[h] = "approve"
    /\ LET p == task[h].payment r == ReviewedRequest(h) reviewed == buyer[p] \in Case /\ r # 0 IN
        /\ approved' = approved \cup {p}
        /\ UNCHANGED <<made, buyer, provider, status, reqOf, confirmed>>
        /\ progress' = IF reviewed THEN [progress EXCEPT ![r] = "REVIEWED"] ELSE progress
        /\ stage' = IF reviewed THEN [stage EXCEPT ![buyer[p]] = "DECISION_READY"] ELSE stage
        /\ Announce(p)
    /\ Finish(h)
    /\ UNCHANGED <<asked, about, accepted, source, paid>>

-----------------------------------------------------------------------------
(* Requests that no payment stands behind, and what is done with a request. *)

\* requestWorkspaceRentScore
RequestCheck(h, c) ==
    /\ c \in Linked /\ RequestsFor(c) = {}
    /\ Begin(h, "request", [case |-> c])
    /\ UNCHANGED <<payment, request, stage, paid, told>>

RequestCommit(h) ==
    /\ pc[h] = "request"
    /\ AddRequest(task[h].case, 0)
    /\ Finish(h)
    /\ UNCHANGED <<payment, paid, told>>

\* forwardWorkspaceScoreRequest, whatever the request's status.
Forward(h, r) ==
    /\ AtOnce(h) /\ r <= asked
    /\ progress' = [progress EXCEPT ![r] = "FORWARDED"]
    /\ stage' = [stage EXCEPT ![about[r]] = "SCORE_SHARED"]
    /\ UNCHANGED <<payment, asked, about, accepted, source, paid, told>>

IsLatest(r) == r \in 1..asked /\ \A q \in RequestsFor(about[r]) : q <= r

\* acceptRenterScoreRequest: the latest request as it was read, by id.
AcceptCheck(h, r) ==
    /\ IsLatest(r) /\ about[r] \in Linked /\ r \notin accepted
    /\ Begin(h, "accept", [request |-> r])
    /\ UNCHANGED <<payment, request, stage, paid, told>>

AcceptCommit(h) ==
    /\ pc[h] = "accept"
    /\ accepted' = accepted \cup {task[h].request}
    /\ Finish(h)
    /\ UNCHANGED <<payment, asked, about, progress, source, stage, paid, told>>

\* shareRenterScoreReport: what is checked before the score is built and the share stored.
ShareCheck(h, c) ==
    /\ \E r \in accepted : about[r] = c /\ IsLatest(r)
    /\ Begin(h, "share", [case |-> c])
    /\ UNCHANGED <<payment, request, stage, paid, told>>

\* The case is read again, in a transaction of its own.
ShareRead(h) ==
    /\ pc[h] = "share"
    /\ IF stage[task[h].case] \in {"PROPOSED", "SCORE_REQUESTED"}
       THEN Move(h, "share", "case") ELSE Finish(h)
    /\ UNCHANGED <<payment, request, stage, paid, told>>

ShareCommit(h) ==
    /\ pc[h] = "case"
    /\ stage' = [stage EXCEPT ![task[h].case] = "SCORE_SHARED"]
    /\ Finish(h)
    /\ UNCHANGED <<payment, request, paid, told>>

\* The landlord decides: on hold, or approved or declined.
Decide(h, c) == \E s \in Decided :
    /\ AtOnce(h)
    /\ stage' = [stage EXCEPT ![c] = s]
    /\ UNCHANGED <<payment, request, paid, told>>

-----------------------------------------------------------------------------
Verify(h) ==
    \/ \E p \in Payment : VerifyRead(h, p)
    \/ GatewayAnswer(h) \/ FailWrite(h) \/ Tell(h)
    \/ SelfCredit(h) \/ Refresh(h) \/ CreditCommit(h)

Administer(h) ==
    \/ \E p \in Payment : ConfirmRead(h, p) \/ ApproveRead(h, p)
    \/ ConfirmCommit(h) \/ ApproveCommit(h)

Ask(h) ==
    \/ \E b \in Buyer, v \in Provider : CreateCheck(h, b, v)
    \/ \E c \in Case : RequestCheck(h, c) \/ ShareCheck(h, c)
    \/ CreateCommit(h) \/ RequestCommit(h)
    \/ \E r \in Request : Forward(h, r) \/ AcceptCheck(h, r)
    \/ AcceptCommit(h) \/ ShareRead(h) \/ ShareCommit(h)
    \/ \E c \in Case : Decide(h, c)

Next ==
    \/ \E h \in Handler : Ask(h) \/ Verify(h) \/ Administer(h) \/ Abort(h)
    \/ \E p \in Payment : Pay(p)

Spec == Init /\ [][Next]_vars

-----------------------------------------------------------------------------
(* Correctness.                                                             *)

\* Every variable has its type, and a handler's task fits the place it is at.
TypeOK ==
    /\ made \in 0..Payments /\ asked \in 0..Requests
    /\ buyer \in [Payment -> Buyer]
    /\ provider \in [Payment -> Provider]
    /\ status \in [Payment -> Status]
    /\ reqOf \in [Payment -> 0..Requests]
    /\ about \in [Request -> Case]
    /\ progress \in [Request -> {"REQUESTED", "FORWARDED", "REVIEWED"}]
    /\ source \in [Request -> 0..Payments] /\ accepted \subseteq 1..asked
    /\ confirmed \subseteq Payment /\ approved \subseteq Payment /\ paid \subseteq Payment
    /\ told \subseteq Payment \X (Status \cup {"REPORT_APPROVED"})
    /\ stage \in [Case -> Stage]
    /\ pc \in [Handler -> {"idle", "create", "verify", "fail", "tell", "credit", "commit",
                           "confirm", "approve", "request", "accept", "share", "case"}]
    /\ task \in [Handler -> Task]
    /\ \A h \in Handler :
        /\ pc[h] = "idle" => task[h] = NoTask
        /\ pc[h] = "create" => task[h] \in CreateTask
        /\ pc[h] \in {"verify", "fail", "tell", "credit", "commit", "confirm", "approve"} =>
                task[h] \in PaymentTask
        /\ pc[h] \in {"request", "share", "case"} => task[h] \in CaseTask
        /\ pc[h] = "accept" => task[h] \in RequestTask
    /\ begun \in 0..Work /\ raced \subseteq Payment

MoneyReceived(p) == IF provider[p] = "GATEWAY" THEN p \in paid ELSE p \in confirmed

\* No stale read and no interleaving marks a payment as succeeded, or lets its report
\* be approved, before the gateway or an administrator has said the money is there.
NothingUnpaid ==
    \A p \in 1..made : status[p] = "SUCCEEDED" \/ p \in approved => MoneyReceived(p)

\* A case's payment that succeeded has a score request, of that case and of no other payment.
PaidIsServed ==
    \A p \in 1..made : buyer[p] \in Case /\ status[p] = "SUCCEEDED" =>
        /\ reqOf[p] \in RequestsFor(buyer[p])
        /\ \A q \in 1..made : reqOf[q] = reqOf[p] => q = p

\* The check in the verifying transaction is there so that a payment buys one request: it
\* does, whatever runs beside it, unless two requests have settled it at the same time.
CreditedOnce ==
    \A r, s \in 1..asked : source[r] = source[s] /\ source[r] \notin raced \cup {0} => r = s

\* Money that was recorded stays recorded, unless a stale answer of the gateway is
\* written over it by a verification that overlapped another of the same payment.
SucceededIsFinal ==
    [][\A p \in 1..made : status[p] = "SUCCEEDED" =>
        \/ status'[p] = "SUCCEEDED"
        \/ p \in raced /\ \E h \in Handler : pc[h] = "fail" /\ task[h].payment = p]_vars

\* "Rent score has already been requested for this renter": one request per case.
OneRequestPerCase ==
    \A r, s \in 1..asked : about[r] = about[s] => r = s
=============================================================================
