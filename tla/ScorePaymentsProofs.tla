------------------------- MODULE ScorePaymentsProofs -------------------------
(***************************************************************************)
(* Safety of the rent score payments, for any number of cases, renters,      *)
(* handlers, payments and score requests.  The inductive invariant IInv      *)
(* says what a handler may still rely on after it has read: some of it       *)
(* stays true whatever the others do (the money is there, the row has this   *)
(* provider), some only while no other request settles the same payment      *)
(* (it is not credited yet).                                                 *)
(***************************************************************************)
EXTENDS ScorePayments, TLAPS

USE BuyerAssumption, BoundAssumption DEF Payment, Request

Place == {"idle", "create", "verify", "fail", "tell", "credit", "commit",
          "confirm", "approve", "request", "accept", "share", "case"}

Paying == {"verify", "fail", "tell", "credit", "commit", "confirm", "approve"}

\* What is recorded of a payment is recorded of a payment that exists.
OnlyMade ==
    /\ paid \subseteq 1..made /\ approved \subseteq 1..made /\ confirmed \subseteq 1..made
    /\ \A p \in Payment : reqOf[p] # 0 => p \in 1..made

\* What a handler has read and nobody takes back.
ReadHolds(h) ==
    LET p == task[h].payment IN
    /\ pc[h] \in Paying => p \in 1..made
    /\ pc[h] \in {"verify", "fail", "credit", "commit"} => provider[p] = "GATEWAY"
    /\ pc[h] \in {"credit", "commit"} => p \in paid
    /\ pc[h] = "commit" => buyer[p] \in Case
    /\ pc[h] = "confirm" => provider[p] = "MANUAL_TRANSFER"
    /\ pc[h] = "approve" => MoneyReceived(p)
    /\ pc[h] = "accept" => task[h].request \in 1..asked

ReadsHold == \A h \in Handler : ReadHolds(h)

\* A payment's request was made for it, and for its buyer.
RequestIsItsOwn ==
    \A p \in 1..made : reqOf[p] # 0 =>
        /\ reqOf[p] \in RequestsFor(buyer[p])
        /\ source[reqOf[p]] = p

\* A case's payment that succeeded has a request.
Served == \A p \in 1..made : buyer[p] \in Case /\ status[p] = "SUCCEEDED" => reqOf[p] # 0

\* One handler at most settles payment p, and it is right to: the payment is not credited
\* yet; and what a request was made for has been credited with it.
SettledByOne(p) ==
    /\ \A g, h \in Handler : Settles(g, p) /\ Settles(h, p) => g = h
    /\ \A h \in Handler : Settles(h, p) => ~Credited(p)
    /\ \A r \in 1..asked : source[r] = p => p \in 1..made /\ Credited(p) /\ reqOf[p] = r

\* So it is with every payment that no two requests have settled at once.
SettledInTurn == \A p \in Payment \ raced : SettledByOne(p)

SInv ==
    /\ TypeOK
    /\ OnlyMade
    /\ ReadsHold
    /\ NothingUnpaid
    /\ RequestIsItsOwn
    /\ Served

IInv == SInv /\ SettledInTurn

-----------------------------------------------------------------------------
LEMMA InitIInv == Init => IInv
<1> SUFFICES ASSUME Init PROVE IInv
  OBVIOUS
<1>1. (CHOOSE b \in Buyer : TRUE) \in Buyer /\ (CHOOSE c \in Case : TRUE) \in Case
  BY DEF Buyer
<1>2. NoTask \in Task
  BY DEF Task
<1>3. TypeOK
  <2>1. begun \in 0..Work
    BY DEF Init
  <2>2. raced \subseteq Payment
    BY DEF Init
  <2>3. buyer \in [Payment -> Buyer] /\ about \in [Request -> Case]
    BY <1>1 DEF Init
  <2>4. /\ made \in 0..Payments /\ asked \in 0..Requests
        /\ provider \in [Payment -> Provider]
        /\ status \in [Payment -> Status]
        /\ reqOf \in [Payment -> 0..Requests]
        /\ progress \in [Request -> {"REQUESTED", "FORWARDED", "REVIEWED"}]
        /\ source \in [Request -> 0..Payments]
    BY DEF Init, Provider, Status, Open
  <2>5. /\ pc \in [Handler -> Place] /\ task \in [Handler -> Task]
        /\ \A h \in Handler : pc[h] = "idle" /\ task[h] = NoTask
        /\ stage \in [Case -> Stage]
    BY <1>2 DEF Init, Place, Stage
  <2>6. accepted = {} /\ confirmed = {} /\ approved = {} /\ paid = {} /\ told = {}
    BY DEF Init
  <2> QED BY <2>1, <2>2, <2>3, <2>4, <2>5, <2>6 DEF TypeOK, Place
<1>4. OnlyMade /\ NothingUnpaid /\ RequestIsItsOwn /\ Served
  BY DEF Init, OnlyMade, NothingUnpaid, RequestIsItsOwn, Served
<1>5. ReadsHold /\ SettledInTurn
  BY DEF Init, ReadsHold, ReadHolds, Paying, SettledInTurn, SettledByOne, Settles
<1> QED BY <1>3, <1>4, <1>5 DEF IInv, SInv

\* What of the rows a handler has read never changes again.
RowsKept ==
    /\ made' \in 0..Payments /\ made <= made'
    /\ asked' \in 0..Requests /\ asked <= asked'
    /\ buyer' \in [Payment -> Buyer] /\ provider' \in [Payment -> Provider]
    /\ \A p \in 1..made : buyer'[p] = buyer[p] /\ provider'[p] = provider[p]
    /\ paid \subseteq paid' /\ confirmed \subseteq confirmed'

\* What such a step does not take from a handler that does not move.
LEMMA ReadStays ==
  ASSUME TypeOK, RowsKept, NEW g \in Handler, ReadHolds(g), pc'[g] = pc[g], task'[g] = task[g]
  PROVE  ReadHolds(g)'
<1>1. \A p \in 1..made : p \in 1..made' /\ (MoneyReceived(p) => MoneyReceived(p)')
  BY DEF TypeOK, RowsKept, MoneyReceived
<1>2. \A r \in 1..asked : r \in 1..asked'
  BY DEF TypeOK, RowsKept
<1> QED BY <1>1, <1>2 DEF RowsKept, ReadHolds, Paying

LEMMA BeginStep ==
  ASSUME TypeOK, NEW h \in Handler, NEW at \in Place, NEW t \in Task, Begin(h, at, t)
  PROVE  /\ pc' \in [Handler -> Place] /\ task' \in [Handler -> Task]
         /\ begun' \in 0..Work
         /\ pc[h] = "idle" /\ pc'[h] = at /\ task'[h] = t
         /\ \A g \in Handler \ {h} : pc'[g] = pc[g] /\ task'[g] = task[g]
         /\ raced' = IF at \in {"verify", "confirm"} /\ \E g \in Handler : Settles(g, t.payment)
                     THEN raced \cup {t.payment} ELSE raced
BY DEF Begin, Starts, TypeOK, Place

LEMMA MoveStep ==
  ASSUME TypeOK, NEW h \in Handler, NEW from, NEW to \in Place, Move(h, from, to)
  PROVE  /\ pc' \in [Handler -> Place] /\ task' = task
         /\ begun' = begun /\ raced' = raced
         /\ pc[h] = from /\ pc'[h] = to
         /\ \A g \in Handler \ {h} : pc'[g] = pc[g]
BY DEF Move, TypeOK, Place

LEMMA FinishStep ==
  ASSUME TypeOK, NEW h \in Handler, Finish(h)
  PROVE  /\ pc' \in [Handler -> Place] /\ task' \in [Handler -> Task]
         /\ begun' = begun /\ raced' = raced
         /\ pc'[h] = "idle" /\ task'[h] = NoTask
         /\ \A g \in Handler \ {h} : pc'[g] = pc[g] /\ task'[g] = task[g]
BY DEF Finish, TypeOK, Place, Task

\* The part of the type invariant that is about the rows, and about one handler.
RowsTyped ==
    /\ made \in 0..Payments /\ asked \in 0..Requests
    /\ buyer \in [Payment -> Buyer]
    /\ provider \in [Payment -> Provider]
    /\ status \in [Payment -> Status]
    /\ reqOf \in [Payment -> 0..Requests]
    /\ about \in [Request -> Case]
    /\ progress \in [Request -> {"REQUESTED", "FORWARDED", "REVIEWED"}]
    /\ source \in [Request -> 0..Payments] /\ accepted \subseteq 1..asked
    /\ confirmed \subseteq Payment /\ approved \subseteq Payment /\ paid \subseteq Payment
    /\ told \subseteq Payment \X (Status \cup {"REPORT_APPROVED"})
    /\ stage \in [Case -> Stage]

TaskFits(h) ==
    /\ pc[h] = "idle" => task[h] = NoTask
    /\ pc[h] = "create" => task[h] \in CreateTask
    /\ pc[h] \in Paying => task[h] \in PaymentTask
    /\ pc[h] \in {"request", "share", "case"} => task[h] \in CaseTask
    /\ pc[h] = "accept" => task[h] \in RequestTask

\* The notification a payment's status calls for is one of its own.
LEMMA AnnounceType ==
  ASSUME told \subseteq Payment \X (Status \cup {"REPORT_APPROVED"}), NEW p \in Payment,
         status' \in [Payment -> Status], Announce(p)
  PROVE  told' \subseteq Payment \X (Status \cup {"REPORT_APPROVED"})
<1>1. (IF p \in approved' THEN "REPORT_APPROVED" ELSE status'[p]) \in Status \cup {"REPORT_APPROVED"}
  OBVIOUS
<1> QED BY <1>1 DEF Announce, Notified

LEMMA AddRequestType ==
  ASSUME TypeOK, NEW c \in Case, NEW p \in 0..Payments, AddRequest(c, p)
  PROVE  /\ asked' = asked + 1 /\ asked' \in Request
         /\ about' \in [Request -> Case]
         /\ progress' \in [Request -> {"REQUESTED", "FORWARDED", "REVIEWED"}]
         /\ source' \in [Request -> 0..Payments] /\ accepted' \subseteq 1..asked'
         /\ stage' \in [Case -> Stage]
         /\ about'[asked'] = c /\ source'[asked'] = p
         /\ \A r \in 1..asked : about'[r] = about[r] /\ source'[r] = source[r]
<1>1. asked' = asked + 1 /\ asked' \in Request
  BY DEF AddRequest, TypeOK
<1> QED BY <1>1 DEF AddRequest, TypeOK, Stage

-----------------------------------------------------------------------------
(* What a step leaves alone.                                                *)

\* Handler h moves and no other.
OnlyMoves(h) ==
    /\ pc' \in [Handler -> Place] /\ task' \in [Handler -> Task]
    /\ begun' \in 0..Work /\ raced' \subseteq Payment
    /\ \A g \in Handler \ {h} : pc'[g] = pc[g] /\ task'[g] = task[g]

\* The invariant of the handlers after a step of h.
LEMMA HandlersKeep ==
  ASSUME SInv, NEW h \in Handler, OnlyMoves(h), RowsTyped', RowsKept,
         TaskFits(h)', ReadHolds(h)'
  PROVE  TypeOK' /\ ReadsHold'
<1>1. ASSUME NEW g \in Handler PROVE TaskFits(g)'
  BY <1>1 DEF SInv, TypeOK, TaskFits, OnlyMoves, Paying
<1>2. ASSUME NEW g \in Handler PROVE ReadHolds(g)'
  <2>1. CASE g = h
    BY <2>1
  <2>2. CASE g # h
    <3>1. TypeOK /\ ReadHolds(g) /\ pc'[g] = pc[g] /\ task'[g] = task[g]
      BY <2>2 DEF SInv, ReadsHold, OnlyMoves
    <3> QED BY <3>1, ReadStays
  <2> QED BY <2>1, <2>2
<1>3. TypeOK'
  BY <1>1 DEF RowsTyped, OnlyMoves, TypeOK, TaskFits, Place, Paying
<1> QED BY <1>2, <1>3 DEF ReadsHold

\* No row that the invariants are about changes.
Quiet ==
    /\ UNCHANGED <<made, buyer, provider, status, reqOf, confirmed, approved, paid>>
    /\ UNCHANGED <<asked, about, source>>

LEMMA QuietKeeps ==
  ASSUME SInv, Quiet
  PROVE  RowsKept /\ OnlyMade' /\ NothingUnpaid' /\ RequestIsItsOwn' /\ Served'
<1>1. RowsKept
  BY DEF SInv, TypeOK, Quiet, RowsKept
<1>2. OnlyMade' /\ NothingUnpaid'
  BY DEF SInv, Quiet, OnlyMade, NothingUnpaid, MoneyReceived
<1>3. RequestIsItsOwn' /\ Served'
  BY DEF SInv, Quiet, RequestIsItsOwn, RequestsFor, Served
<1> QED BY <1>1, <1>2, <1>3

\* A handler that starts has read what it has read.
LEMMA BeginKeeps ==
  ASSUME SInv, NEW h \in Handler, NEW at \in Place, NEW t \in Task, Begin(h, at, t),
         UNCHANGED <<payment, request, stage, paid, told>>, TaskFits(h)', ReadHolds(h)'
  PROVE  SInv'
<1>3. raced' \subseteq Payment
  <2>1. pc'[h] = at /\ task'[h] = t /\ raced \subseteq Payment
    BY BeginStep DEF SInv, TypeOK
  <2>2. at \in {"verify", "confirm"} => t.payment \in Payment
    BY <2>1 DEF TaskFits, Paying, PaymentTask
  <2>3. \/ raced' = raced
        \/ at \in {"verify", "confirm"} /\ raced' = raced \cup {t.payment}
    BY DEF Begin
  <2> QED BY <2>1, <2>2, <2>3
<1>1. OnlyMoves(h)
  BY <1>3, BeginStep DEF SInv, OnlyMoves
<1>2. Quiet /\ RowsTyped'
  BY DEF SInv, Quiet, payment, request, TypeOK, RowsTyped
<1> QED BY <1>1, <1>2, QuietKeeps, HandlersKeep DEF SInv

\* One that goes on from one place to another has read nothing new.
LEMMA MoveKeeps ==
  ASSUME SInv, NEW h \in Handler, NEW from, NEW to \in Place, Move(h, from, to),
         UNCHANGED <<payment, request, stage, paid, told>>, TaskFits(h)', ReadHolds(h)'
  PROVE  SInv'
<1>1. OnlyMoves(h)
  BY MoveStep DEF SInv, TypeOK, OnlyMoves
<1>2. Quiet /\ RowsTyped'
  BY DEF SInv, Quiet, payment, request, TypeOK, RowsTyped
<1> QED BY <1>1, <1>2, QuietKeeps, HandlersKeep DEF SInv

\* One that ends counts on nothing any more.
LEMMA FinishKeeps ==
  ASSUME SInv, NEW h \in Handler, Finish(h), RowsTyped', RowsKept
  PROVE  TypeOK' /\ ReadsHold'
<1>1. OnlyMoves(h) /\ pc'[h] = "idle" /\ task'[h] = NoTask
  BY FinishStep DEF SInv, TypeOK, OnlyMoves
<1>2. TaskFits(h)' /\ ReadHolds(h)'
  BY <1>1 DEF TaskFits, ReadHolds, Paying
<1> QED BY <1>1, <1>2, HandlersKeep

\* A payment whose money is there succeeds, and a case's gets its request with it.
Succeeds(p) ==
    /\ status' = [status EXCEPT ![p] = "SUCCEEDED"]
    /\ confirmed' \in {confirmed, confirmed \cup {p}}
    /\ UNCHANGED <<made, buyer, provider, approved, paid>>
    /\ \/ buyer[p] \in Case /\ CreditCase(p)
       \/ buyer[p] \in Self /\ UNCHANGED <<reqOf, request, stage>>

LEMMA SucceedsTypes ==
  ASSUME SInv, NEW p \in 1..made, Succeeds(p), Announce(p) \/ told' = told
  PROVE  RowsTyped' /\ RowsKept
<1>1. p \in Payment
  BY DEF SInv, TypeOK
<1>2. status' \in [Payment -> Status]
  BY <1>1 DEF Succeeds, SInv, TypeOK, Status
<1>3. told' \subseteq Payment \X (Status \cup {"REPORT_APPROVED"})
  BY <1>1, <1>2, AnnounceType DEF SInv, TypeOK
<1>4. /\ asked' \in 0..Requests /\ asked <= asked'
      /\ about' \in [Request -> Case]
      /\ progress' \in [Request -> {"REQUESTED", "FORWARDED", "REVIEWED"}]
      /\ source' \in [Request -> 0..Payments] /\ accepted' \subseteq 1..asked'
      /\ stage' \in [Case -> Stage]
      /\ reqOf' \in [Payment -> 0..Requests]
  <2>1. CASE buyer[p] \in Case /\ CreditCase(p)
    <3>1. TypeOK /\ AddRequest(buyer[p], p) /\ p \in 0..Payments
      BY <1>1, <2>1 DEF SInv, CreditCase
    <3>2. /\ asked' = asked + 1 /\ asked' \in Request
          /\ about' \in [Request -> Case]
          /\ progress' \in [Request -> {"REQUESTED", "FORWARDED", "REVIEWED"}]
          /\ source' \in [Request -> 0..Payments] /\ accepted' \subseteq 1..asked'
          /\ stage' \in [Case -> Stage]
      BY <2>1, <3>1, AddRequestType
    <3>3. asked' \in 0..Requests /\ asked <= asked' /\ reqOf' \in [Payment -> 0..Requests]
      BY <2>1, <3>1, <3>2 DEF TypeOK, CreditCase
    <3> QED BY <3>2, <3>3
  <2>2. CASE UNCHANGED <<reqOf, request, stage>>
    BY <2>2 DEF SInv, TypeOK, request
  <2> QED BY <2>1, <2>2 DEF Succeeds
<1>5. UNCHANGED <<made, buyer, provider, approved, paid>> /\ confirmed \subseteq confirmed'
      /\ confirmed' \subseteq Payment
  BY <1>1 DEF Succeeds, SInv, TypeOK
<1>6. RowsTyped'
  BY <1>2, <1>3, <1>4, <1>5 DEF SInv, TypeOK, RowsTyped
<1>7. RowsKept
  BY <1>4, <1>5 DEF SInv, TypeOK, RowsKept
<1> QED BY <1>6, <1>7

LEMMA SucceedsKeeps ==
  ASSUME SInv, NEW p \in 1..made, Succeeds(p), MoneyReceived(p)'
  PROVE  OnlyMade' /\ NothingUnpaid' /\ RequestIsItsOwn' /\ Served'
<1>1. p \in Payment /\ TypeOK
  <2>1. TypeOK
    BY DEF SInv
  <2>2. made \in 0..Payments
    BY <2>1 DEF TypeOK
  <2> QED BY <2>1, <2>2
<1>2. OnlyMade' /\ NothingUnpaid'
  <2>1. \A q \in Payment : reqOf'[q] # reqOf[q] => q = p
    BY <1>1 DEF Succeeds, CreditCase, TypeOK
  <2>2. OnlyMade'
    BY <1>1, <2>1 DEF SInv, Succeeds, OnlyMade
  <2>3. NothingUnpaid'
    <3> SUFFICES ASSUME NEW q \in 1..made, q # p, status'[q] = "SUCCEEDED" \/ q \in approved'
                 PROVE  MoneyReceived(q)'
      BY DEF Succeeds, NothingUnpaid
    <3>1. status' = [status EXCEPT ![p] = "SUCCEEDED"] /\ approved' = approved
      BY DEF Succeeds
    <3>2. DOMAIN status = Payment /\ q \in Payment
      BY <1>1 DEF TypeOK
    <3>3. status[q] = "SUCCEEDED" \/ q \in approved
      BY <3>1, <3>2
    <3>4. MoneyReceived(q)
      BY <3>3 DEF SInv, NothingUnpaid
    <3> QED BY <3>4 DEF Succeeds, MoneyReceived
  <2> QED BY <2>2, <2>3
<1>3. CASE buyer[p] \in Case /\ CreditCase(p)
  <2>1. TypeOK /\ AddRequest(buyer[p], p) /\ p \in 0..Payments
    BY <1>1, <1>3 DEF CreditCase
  <2>2. /\ asked' = asked + 1 /\ asked' \in Request
        /\ about'[asked'] = buyer[p] /\ source'[asked'] = p
        /\ \A r \in 1..asked : about'[r] = about[r] /\ source'[r] = source[r]
    BY <1>3, <2>1, AddRequestType
  <2>3. reqOf'[p] = asked' /\ \A q \in 1..made : q # p => reqOf'[q] = reqOf[q]
    BY <1>1, <1>3 DEF CreditCase, TypeOK
  <2>4. RequestIsItsOwn'
    <3> SUFFICES ASSUME NEW q \in 1..made, reqOf'[q] # 0
                 PROVE  reqOf'[q] \in RequestsFor(buyer[q])' /\ source'[reqOf'[q]] = q
      BY DEF Succeeds, RequestIsItsOwn
    <3>1. CASE q = p
      BY <1>1, <2>2, <2>3, <3>1 DEF TypeOK, RequestsFor, Succeeds
    <3>2. CASE q # p
      <4>1. reqOf[q] \in 1..asked /\ about[reqOf[q]] = buyer[q] /\ source[reqOf[q]] = q
        BY <2>3, <3>2 DEF SInv, RequestIsItsOwn, RequestsFor
      <4>2. reqOf'[q] = reqOf[q] /\ buyer' = buyer
        BY <2>3, <3>2 DEF Succeeds
      <4>a. about'[reqOf[q]] = buyer[q] /\ source'[reqOf[q]] = q
        BY <2>2, <4>1
      <4>b. asked \in Nat
        BY <1>1 DEF TypeOK
      <4>3. reqOf[q] \in 1..asked' /\ about'[reqOf[q]] = buyer[q] /\ source'[reqOf[q]] = q
        BY <2>2, <4>1, <4>a, <4>b
      <4> QED BY <4>2, <4>3 DEF RequestsFor
    <3> QED BY <3>1, <3>2
  <2>5. Served'
    BY <1>1, <2>2, <2>3 DEF SInv, TypeOK, Succeeds, Served
  <2> QED BY <1>2, <2>4, <2>5
<1>4. CASE buyer[p] \in Self /\ UNCHANGED <<reqOf, request, stage>>
  <2>1. RequestIsItsOwn'
    BY <1>4 DEF SInv, Succeeds, request, RequestIsItsOwn, RequestsFor
  <2>2. Served'
    BY <1>1, <1>4 DEF SInv, TypeOK, Succeeds, Served
  <2> QED BY <1>2, <2>1, <2>2
<1> QED BY <1>3, <1>4 DEF Succeeds

-----------------------------------------------------------------------------
LEMMA StepSInv == SInv /\ [Next]_vars => SInv'
<1> SUFFICES ASSUME SInv, [Next]_vars PROVE SInv'
  OBVIOUS
<1>a. TypeOK
  BY DEF SInv
<1>1. ASSUME NEW h \in Handler, NEW b \in Buyer, NEW v \in Provider, CreateCheck(h, b, v)
      PROVE  SInv'
  <2> DEFINE t == [buyer |-> b, provider |-> v]
  <2>1. t \in CreateTask /\ t \in Task /\ "create" \in Place
    BY DEF CreateTask, Task, Place, TypeOK
  <2>2. Begin(h, "create", t) /\ UNCHANGED <<payment, request, stage, paid, told>>
    BY <1>1 DEF CreateCheck
  <2>3. pc'[h] = "create" /\ task'[h] = t
    <3> HIDE DEF t
    <3> QED BY <1>a, <2>1, <2>2, BeginStep
  <2>4. TaskFits(h)' /\ ReadHolds(h)'
    BY <1>1, <1>a, <2>1, <2>2, <2>3 DEF TaskFits, ReadHolds, Paying
  <2> HIDE DEF t
  <2> QED BY <2>1, <2>2, <2>4, BeginKeeps
<1>2. ASSUME NEW h \in Handler, NEW p \in Payment, VerifyRead(h, p)
      PROVE  SInv'
  <2> DEFINE t == [payment |-> p, request |-> reqOf[p]]
  <2>1. t \in PaymentTask /\ t \in Task /\ "verify" \in Place
    BY <1>a DEF PaymentTask, Task, Place, TypeOK
  <2>2. Begin(h, "verify", t) /\ UNCHANGED <<payment, request, stage, paid, told>>
    BY <1>2 DEF VerifyRead
  <2>3. pc'[h] = "verify" /\ task'[h] = t
    <3> HIDE DEF t
    <3> QED BY <1>a, <2>1, <2>2, BeginStep
  <2>4. TaskFits(h)' /\ ReadHolds(h)'
    BY <1>2, <1>a, <2>1, <2>2, <2>3 DEF VerifyRead, Verifiable, payment, TypeOK, TaskFits, ReadHolds, Paying
  <2> HIDE DEF t
  <2> QED BY <2>1, <2>2, <2>4, BeginKeeps
<1>3. ASSUME NEW h \in Handler, NEW p \in Payment, ConfirmRead(h, p)
      PROVE  SInv'
  <2> DEFINE t == [payment |-> p, request |-> reqOf[p]]
  <2>1. t \in PaymentTask /\ t \in Task /\ "confirm" \in Place
    BY <1>a DEF PaymentTask, Task, Place, TypeOK
  <2>2. Begin(h, "confirm", t) /\ UNCHANGED <<payment, request, stage, paid, told>>
    BY <1>3 DEF ConfirmRead
  <2>3. pc'[h] = "confirm" /\ task'[h] = t
    <3> HIDE DEF t
    <3> QED BY <1>a, <2>1, <2>2, BeginStep
  <2>4. TaskFits(h)' /\ ReadHolds(h)'
    BY <1>3, <1>a, <2>1, <2>2, <2>3 DEF ConfirmRead, Confirmable, payment, TypeOK, TaskFits, ReadHolds, Paying
  <2> HIDE DEF t
  <2> QED BY <2>1, <2>2, <2>4, BeginKeeps
<1>b. ASSUME NEW p \in 1..made, status[p] = "SUCCEEDED", UNCHANGED <<payment, paid>>
      PROVE  MoneyReceived(p)'
  BY <1>b DEF SInv, NothingUnpaid, MoneyReceived, payment
<1>4. ASSUME NEW h \in Handler, NEW p \in Payment, ApproveRead(h, p)
      PROVE  SInv'
  <2> DEFINE t == [payment |-> p, request |-> reqOf[p]]
  <2>1. t \in PaymentTask /\ t \in Task /\ "approve" \in Place
    BY <1>a DEF PaymentTask, Task, Place, TypeOK
  <2>2. Begin(h, "approve", t) /\ UNCHANGED <<payment, request, stage, paid, told>>
    BY <1>4 DEF ApproveRead
  <2>3. pc'[h] = "approve" /\ task'[h] = t
    <3> HIDE DEF t
    <3> QED BY <1>a, <2>1, <2>2, BeginStep
  <2>4. TaskFits(h)' /\ ReadHolds(h)'
    BY <1>4, <1>a, <1>b, <2>1, <2>2, <2>3 DEF ApproveRead, payment, TypeOK, TaskFits, ReadHolds, Paying
  <2> HIDE DEF t
  <2> QED BY <2>1, <2>2, <2>4, BeginKeeps
<1>5. ASSUME NEW h \in Handler, NEW c \in Case, RequestCheck(h, c)
      PROVE  SInv'
  <2> DEFINE t == [case |-> c]
  <2>1. t \in CaseTask /\ t \in Task /\ "request" \in Place
    BY DEF CaseTask, Task, Place, TypeOK
  <2>2. Begin(h, "request", t) /\ UNCHANGED <<payment, request, stage, paid, told>>
    BY <1>5 DEF RequestCheck
  <2>3. pc'[h] = "request" /\ task'[h] = t
    <3> HIDE DEF t
    <3> QED BY <1>a, <2>1, <2>2, BeginStep
  <2>4. TaskFits(h)' /\ ReadHolds(h)'
    BY <1>5, <1>a, <2>1, <2>2, <2>3 DEF TaskFits, ReadHolds, Paying
  <2> HIDE DEF t
  <2> QED BY <2>1, <2>2, <2>4, BeginKeeps
<1>6. ASSUME NEW h \in Handler, NEW c \in Case, ShareCheck(h, c)
      PROVE  SInv'
  <2> DEFINE t == [case |-> c]
  <2>1. t \in CaseTask /\ t \in Task /\ "share" \in Place
    BY DEF CaseTask, Task, Place, TypeOK
  <2>2. Begin(h, "share", t) /\ UNCHANGED <<payment, request, stage, paid, told>>
    BY <1>6 DEF ShareCheck
  <2>3. pc'[h] = "share" /\ task'[h] = t
    <3> HIDE DEF t
    <3> QED BY <1>a, <2>1, <2>2, BeginStep
  <2>4. TaskFits(h)' /\ ReadHolds(h)'
    BY <1>6, <1>a, <2>1, <2>2, <2>3 DEF TaskFits, ReadHolds, Paying
  <2> HIDE DEF t
  <2> QED BY <2>1, <2>2, <2>4, BeginKeeps
<1>7. ASSUME NEW h \in Handler, NEW r \in Request, AcceptCheck(h, r)
      PROVE  SInv'
  <2> DEFINE t == [request |-> r]
  <2>1. t \in RequestTask /\ t \in Task /\ "accept" \in Place
    BY DEF RequestTask, Task, Place, TypeOK
  <2>2. Begin(h, "accept", t) /\ UNCHANGED <<payment, request, stage, paid, told>>
    BY <1>7 DEF AcceptCheck
  <2>3. pc'[h] = "accept" /\ task'[h] = t
    <3> HIDE DEF t
    <3> QED BY <1>a, <2>1, <2>2, BeginStep
  <2>4. TaskFits(h)' /\ ReadHolds(h)'
    BY <1>7, <1>a, <2>1, <2>2, <2>3 DEF AcceptCheck, IsLatest, request, TaskFits, ReadHolds, Paying
  <2> HIDE DEF t
  <2> QED BY <2>1, <2>2, <2>4, BeginKeeps
<1>c. ASSUME NEW h \in Handler, Finish(h), Quiet, RowsTyped' PROVE SInv'
  BY <1>c, QuietKeeps, FinishKeeps DEF SInv
<1>d. UNCHANGED <<payment, request, stage, paid, told>> => Quiet /\ RowsTyped'
  BY <1>a DEF Quiet, payment, request, TypeOK, RowsTyped
<1>8. ASSUME NEW h \in Handler, GatewayAnswer(h) PROVE SInv'
  <2>1. PICK to \in {"credit", "fail"} :
          Move(h, "verify", to) /\ (to = "credit" => task[h].payment \in paid)
    BY <1>8 DEF GatewayAnswer
  <2>2. UNCHANGED <<payment, request, stage, paid, told>> /\ to \in Place
    BY <1>8 DEF GatewayAnswer, Place
  <2>3. pc[h] = "verify" /\ pc'[h] = to /\ task' = task
    BY <1>a, <2>1, <2>2, MoveStep
  <2>4. TaskFits(h) /\ ReadHolds(h)
    BY DEF SInv, TypeOK, TaskFits, Paying, ReadsHold
  <2>5. TaskFits(h)' /\ ReadHolds(h)'
    BY <2>1, <2>2, <2>3, <2>4 DEF TaskFits, ReadHolds, Paying, payment, MoneyReceived
  <2> QED BY <2>1, <2>2, <2>5, MoveKeeps
<1>9. ASSUME NEW h \in Handler, Refresh(h) PROVE SInv'
  <2>1. CASE Finish(h)
    BY <1>9, <1>c, <1>d, <2>1 DEF Refresh
  <2>2. CASE Move(h, "credit", "commit")
    <3>1. UNCHANGED <<payment, request, stage, paid, told>> /\ "commit" \in Place
      BY <1>9 DEF Refresh, Place
    <3>2. pc[h] = "credit" /\ pc'[h] = "commit" /\ task' = task
      BY <1>a, <2>2, <3>1, MoveStep
    <3>3. TaskFits(h) /\ ReadHolds(h)
      BY DEF SInv, TypeOK, TaskFits, Paying, ReadsHold
    <3>4. TaskFits(h)' /\ ReadHolds(h)'
      BY <1>9, <3>1, <3>2, <3>3 DEF Refresh, TaskFits, ReadHolds, Paying, payment, MoneyReceived
    <3> QED BY <2>2, <3>1, <3>4, MoveKeeps
  <2> QED BY <1>9, <2>1, <2>2 DEF Refresh
<1>10. ASSUME NEW h \in Handler, ShareRead(h) PROVE SInv'
  <2>1. CASE Finish(h)
    BY <1>10, <1>c, <1>d, <2>1 DEF ShareRead
  <2>2. CASE Move(h, "share", "case")
    <3>1. UNCHANGED <<payment, request, stage, paid, told>> /\ "case" \in Place
      BY <1>10 DEF ShareRead, Place
    <3>2. pc[h] = "share" /\ pc'[h] = "case" /\ task' = task
      BY <1>a, <2>2, <3>1, MoveStep
    <3>3. TaskFits(h)
      BY DEF SInv, TypeOK, TaskFits, Paying
    <3>4. TaskFits(h)' /\ ReadHolds(h)'
      BY <3>2, <3>3 DEF TaskFits, ReadHolds, Paying
    <3> QED BY <2>2, <3>1, <3>4, MoveKeeps
  <2> QED BY <1>10, <2>1, <2>2 DEF ShareRead
<1>11. ASSUME NEW h \in Handler, Abort(h) PROVE SInv'
  BY <1>11, <1>c, <1>d DEF Abort
<1>12. ASSUME NEW h \in Handler, ShareCommit(h) PROVE SInv'
  <2>1. task[h].case \in Case
    BY <1>12, <1>a DEF ShareCommit, TypeOK, CaseTask
  <2>2. Quiet /\ RowsTyped'
    BY <1>12, <1>a, <2>1 DEF ShareCommit, Quiet, payment, request, TypeOK, RowsTyped, Stage
  <2> QED BY <1>12, <1>c, <2>2 DEF ShareCommit
<1>13. ASSUME NEW h \in Handler, CreateCommit(h) PROVE SInv'
  <2>1. /\ made' = made + 1 /\ made' \in Payment
        /\ task[h].buyer \in Buyer /\ task[h].provider \in Provider
    BY <1>13, <1>a DEF CreateCommit, TypeOK, CreateTask
  <2>2. StartStatus(task[h].provider) \in Open
    BY DEF StartStatus, Open
  <2>3. /\ buyer' \in [Payment -> Buyer] /\ provider' \in [Payment -> Provider]
        /\ status' \in [Payment -> Status] /\ status'[made'] \in Open
        /\ \A p \in 1..made : buyer'[p] = buyer[p] /\ provider'[p] = provider[p]
                              /\ status'[p] = status[p]
    BY <1>13, <1>a, <2>1, <2>2 DEF CreateCommit, TypeOK, Status
  <2>4. UNCHANGED <<reqOf, confirmed, approved, request, stage, paid>>
    BY <1>13 DEF CreateCommit
  <2>5. told' \subseteq Payment \X (Status \cup {"REPORT_APPROVED"})
    BY <1>13, <1>a, <2>1, <2>3, AnnounceType DEF CreateCommit, TypeOK
  <2>6. RowsTyped' /\ RowsKept
    BY <1>a, <2>1, <2>3, <2>4, <2>5 DEF TypeOK, RowsTyped, RowsKept, request
  <2>7. \A p \in 1..made' : p \in 1..made \/ p = made'
    BY <1>a, <2>1 DEF TypeOK
  <2>8. OnlyMade'
    BY <1>a, <2>1, <2>4 DEF SInv, TypeOK, OnlyMade
  <2>9. NothingUnpaid'
    BY <1>a, <2>1, <2>3, <2>4, <2>7
    DEF SInv, TypeOK, OnlyMade, NothingUnpaid, MoneyReceived, Open
  <2>10. RequestIsItsOwn'
    BY <1>a, <2>1, <2>3, <2>4, <2>7
    DEF SInv, TypeOK, OnlyMade, RequestIsItsOwn, RequestsFor, request
  <2>11. Served'
    BY <2>3, <2>4, <2>7 DEF SInv, Served, Open
  <2> QED BY <1>13, <2>6, <2>8, <2>9, <2>10, <2>11, FinishKeeps DEF CreateCommit, SInv
<1>14. ASSUME NEW h \in Handler, FailWrite(h) PROVE SInv'
  <2> DEFINE p == task[h].payment
  <2>1. TaskFits(h) /\ ReadHolds(h) /\ pc[h] = "fail" /\ p \in 1..made /\ p \in Payment
    BY <1>14, <1>a DEF SInv, TypeOK, TaskFits, Paying, ReadsHold, ReadHolds, FailWrite, Move
  <2>2. Move(h, "fail", "tell") /\ "tell" \in Place
    BY <1>14 DEF FailWrite, Place
  <2>3. OnlyMoves(h) /\ pc'[h] = "tell" /\ task' = task
    BY <1>a, <2>2, MoveStep DEF OnlyMoves, TypeOK
  <2>4. /\ status' \in [Payment -> Status]
        /\ \A q \in 1..made : status'[q] = "SUCCEEDED" => status[q] = "SUCCEEDED"
        /\ UNCHANGED <<made, buyer, provider, reqOf, confirmed, approved, request, stage, paid, told>>
    BY <1>14, <1>a, <2>1 DEF FailWrite, SetStatus, TypeOK, Status
  <2> HIDE DEF p
  <2>5. RowsTyped' /\ RowsKept
    BY <1>a, <2>4 DEF TypeOK, RowsTyped, RowsKept, request
  <2>6. TaskFits(h)' /\ ReadHolds(h)'
    BY <2>1, <2>3, <2>4 DEF TaskFits, ReadHolds, Paying, p
  <2>7. OnlyMade' /\ NothingUnpaid'
    BY <2>4 DEF SInv, OnlyMade, NothingUnpaid, MoneyReceived
  <2>8. RequestIsItsOwn' /\ Served'
    BY <2>4 DEF SInv, RequestIsItsOwn, RequestsFor, request, Served
  <2> QED BY <2>3, <2>5, <2>6, <2>7, <2>8, HandlersKeep DEF SInv
<1>15. ASSUME NEW h \in Handler, Tell(h) PROVE SInv'
  <2>1. task[h].payment \in Payment
    BY <1>15, <1>a DEF Tell, TypeOK, PaymentTask
  <2>2. told' \subseteq Payment \X (Status \cup {"REPORT_APPROVED"})
    BY <1>15, <1>a, <2>1, AnnounceType DEF Tell, TypeOK, payment
  <2>3. Quiet /\ RowsTyped'
    BY <1>15, <1>a, <2>2 DEF Tell, Quiet, payment, request, TypeOK, RowsTyped
  <2> QED BY <1>15, <1>c, <2>3 DEF Tell
<1>16. ASSUME NEW h \in Handler, SelfCredit(h) PROVE SInv'
  <2>1. PICK p \in 1..made :
          /\ p = task[h].payment /\ p \in paid /\ provider[p] = "GATEWAY"
          /\ TaskFits(h) /\ ReadHolds(h) /\ pc[h] = "credit"
    BY <1>16, <1>a DEF SInv, TypeOK, TaskFits, Paying, ReadsHold, ReadHolds, SelfCredit, Move
  <2>2. Move(h, "credit", "tell") /\ "tell" \in Place
    BY <1>16 DEF SelfCredit, Place
  <2>3. OnlyMoves(h) /\ pc'[h] = "tell" /\ task' = task
    BY <1>a, <2>2, MoveStep DEF OnlyMoves, TypeOK
  <2>4. Succeeds(p) /\ told' = told
    BY <1>16, <2>1 DEF SelfCredit, SetStatus, Succeeds
  <2>5. MoneyReceived(p)'
    BY <2>1, <2>4 DEF Succeeds, MoneyReceived
  <2>6. RowsTyped' /\ RowsKept
    BY <2>1, <2>4, SucceedsTypes
  <2>7. OnlyMade' /\ NothingUnpaid' /\ RequestIsItsOwn' /\ Served'
    BY <2>1, <2>4, <2>5, SucceedsKeeps
  <2>8. TaskFits(h)' /\ ReadHolds(h)'
    BY <1>a, <2>1, <2>3, <2>4 DEF TaskFits, ReadHolds, Paying, Succeeds
  <2> QED BY <2>3, <2>6, <2>7, <2>8, HandlersKeep DEF SInv
<1>17. ASSUME NEW h \in Handler, CreditCommit(h) PROVE SInv'
  <2>1. PICK p \in 1..made :
          p = task[h].payment /\ p \in paid /\ provider[p] = "GATEWAY" /\ buyer[p] \in Case
    BY <1>17 DEF SInv, Paying, ReadsHold, ReadHolds, CreditCommit
  <2>2. Succeeds(p) /\ Announce(p) /\ Finish(h)
    BY <1>17, <2>1 DEF CreditCommit, SetStatus, Succeeds
  <2>3. MoneyReceived(p)'
    BY <2>1, <2>2 DEF Succeeds, MoneyReceived
  <2> QED BY <2>1, <2>2, <2>3, SucceedsTypes, SucceedsKeeps, FinishKeeps DEF SInv
<1>18. ASSUME NEW h \in Handler, ConfirmCommit(h) PROVE SInv'
  <2>1. PICK p \in 1..made : p = task[h].payment /\ provider[p] = "MANUAL_TRANSFER"
    BY <1>18 DEF SInv, Paying, ReadsHold, ReadHolds, ConfirmCommit
  <2>2. Succeeds(p) /\ Announce(p) /\ Finish(h) /\ confirmed' = confirmed \cup {p}
    BY <1>18, <2>1 DEF ConfirmCommit, Succeeds
  <2>3. MoneyReceived(p)'
    BY <2>1, <2>2 DEF Succeeds, MoneyReceived
  <2> QED BY <2>1, <2>2, <2>3, SucceedsTypes, SucceedsKeeps, FinishKeeps DEF SInv
<1>19. ASSUME NEW h \in Handler, ApproveCommit(h) PROVE SInv'
  <2> DEFINE p == task[h].payment
             r == ReviewedRequest(h)
  <2>1. /\ p \in 1..made /\ p \in Payment /\ MoneyReceived(p) /\ r \in 0..Requests
    BY <1>19, <1>a DEF SInv, TypeOK, PaymentTask, Paying, ReadsHold, ReadHolds, ApproveCommit,
                       ReviewedRequest
  <2>2. /\ approved' = approved \cup {p} /\ Announce(p) /\ Finish(h)
        /\ UNCHANGED <<made, buyer, provider, status, reqOf, confirmed>>
        /\ UNCHANGED <<asked, about, accepted, source, paid>>
    BY <1>19 DEF ApproveCommit
  <2>3. /\ progress' \in [Request -> {"REQUESTED", "FORWARDED", "REVIEWED"}]
        /\ stage' \in [Case -> Stage]
    BY <1>19, <1>a, <2>1 DEF ApproveCommit, TypeOK, Stage, Decided
  <2> HIDE DEF p, r
  <2>4. told' \subseteq Payment \X (Status \cup {"REPORT_APPROVED"})
    BY <1>a, <2>1, <2>2, AnnounceType DEF TypeOK
  <2>5. RowsTyped' /\ RowsKept
    <3>1. RowsTyped'
      BY <1>a, <2>1, <2>2, <2>3, <2>4 DEF TypeOK, RowsTyped
    <3> QED BY <1>a, <2>2, <3>1 DEF TypeOK, RowsTyped, RowsKept
  <2>6. OnlyMade' /\ NothingUnpaid'
    BY <2>1, <2>2 DEF SInv, OnlyMade, NothingUnpaid, MoneyReceived
  <2>7. RequestIsItsOwn' /\ Served'
    BY <2>2 DEF SInv, RequestIsItsOwn, RequestsFor, Served
  <2> QED BY <2>2, <2>5, <2>6, <2>7, FinishKeeps DEF SInv
<1>20. ASSUME NEW h \in Handler, RequestCommit(h) PROVE SInv'
  <2> DEFINE c == task[h].case
  <2>1. c \in Case /\ 0 \in 0..Payments
    BY <1>20, <1>a DEF RequestCommit, TypeOK, CaseTask
  <2>2. AddRequest(c, 0) /\ Finish(h) /\ UNCHANGED <<payment, paid, told>>
    BY <1>20 DEF RequestCommit
  <2> HIDE DEF c
  <2>3. /\ asked' = asked + 1 /\ asked' \in Request
        /\ about' \in [Request -> Case]
        /\ progress' \in [Request -> {"REQUESTED", "FORWARDED", "REVIEWED"}]
        /\ source' \in [Request -> 0..Payments] /\ accepted' \subseteq 1..asked'
        /\ stage' \in [Case -> Stage]
        /\ \A r \in 1..asked : about'[r] = about[r] /\ source'[r] = source[r]
    BY <1>a, <2>1, <2>2, AddRequestType
  <2>4. RowsTyped' /\ RowsKept
    BY <1>a, <2>2, <2>3 DEF TypeOK, RowsTyped, RowsKept, payment
  <2>5. OnlyMade' /\ NothingUnpaid' /\ Served'
    BY <2>2 DEF SInv, OnlyMade, NothingUnpaid, MoneyReceived, Served, payment
  <2>6. RequestIsItsOwn'
    BY <1>a, <2>2, <2>3 DEF SInv, TypeOK, RequestIsItsOwn, RequestsFor, payment
  <2> QED BY <2>2, <2>4, <2>5, <2>6, FinishKeeps DEF SInv
<1>21. ASSUME NEW h \in Handler, NEW r \in Request, Forward(h, r) PROVE SInv'
  <2>1. Quiet /\ RowsTyped'
    BY <1>21, <1>a DEF Forward, Quiet, payment, TypeOK, RowsTyped, Stage
  <2>2. UNCHANGED <<pc, task>> /\ begun' \in 0..Work
    BY <1>21, <1>a DEF Forward, AtOnce, Starts, TypeOK
  <2>3. raced' \subseteq Payment
    BY <1>a, <1>21 DEF Forward, AtOnce, TypeOK
  <2>4. OnlyMoves(h) /\ TaskFits(h)' /\ ReadHolds(h)'
    BY <1>a, <2>1, <2>2, <2>3
    DEF SInv, TypeOK, OnlyMoves, Place, TaskFits, ReadsHold, ReadHolds, Paying, Quiet, MoneyReceived
  <2> QED BY <2>1, <2>4, QuietKeeps, HandlersKeep DEF SInv
<1>22. ASSUME NEW h \in Handler, AcceptCommit(h) PROVE SInv'
  <2>1. task[h].request \in 1..asked
    BY <1>22 DEF SInv, ReadsHold, ReadHolds, AcceptCommit
  <2>2. Quiet /\ RowsTyped'
    BY <1>22, <1>a, <2>1 DEF AcceptCommit, Quiet, payment, TypeOK, RowsTyped
  <2> QED BY <1>22, <1>c, <2>2 DEF AcceptCommit
<1>23. ASSUME NEW h \in Handler, NEW c \in Case, Decide(h, c) PROVE SInv'
  <2>1. Quiet /\ RowsTyped'
    BY <1>23, <1>a DEF Decide, Quiet, payment, request, TypeOK, RowsTyped, Stage
  <2>2. UNCHANGED <<pc, task>> /\ begun' \in 0..Work
    BY <1>23, <1>a DEF Decide, AtOnce, Starts, TypeOK
  <2>3. raced' \subseteq Payment
    BY <1>a, <1>23 DEF Decide, AtOnce, TypeOK
  <2>4. OnlyMoves(h) /\ TaskFits(h)' /\ ReadHolds(h)'
    BY <1>a, <2>1, <2>2, <2>3
    DEF SInv, TypeOK, OnlyMoves, Place, TaskFits, ReadsHold, ReadHolds, Paying, Quiet, MoneyReceived
  <2> QED BY <2>1, <2>4, QuietKeeps, HandlersKeep DEF SInv
<1>24. ASSUME NEW p \in Payment, Pay(p) PROVE SInv'
  <2>1. /\ p \in 1..made /\ provider[p] = "GATEWAY" /\ paid' = paid \cup {p}
        /\ UNCHANGED <<payment, request, stage, told, process>>
    BY <1>24 DEF Pay
  <2>2. TypeOK'
    BY <1>a, <2>1 DEF TypeOK, payment, request, process
  <2>3. ReadsHold'
    BY <2>1 DEF SInv, ReadsHold, ReadHolds, MoneyReceived, payment, request, process
  <2>4. OnlyMade' /\ NothingUnpaid' /\ RequestIsItsOwn' /\ Served'
    BY <2>1 DEF SInv, OnlyMade, NothingUnpaid, MoneyReceived, RequestIsItsOwn, RequestsFor, Served,
                payment, request
  <2> QED BY <2>2, <2>3, <2>4 DEF SInv
<1>25. CASE UNCHANGED vars
  <2>1. TypeOK'
    BY <1>a, <1>25 DEF TypeOK, vars, payment, request, process
  <2>2. ReadsHold' /\ OnlyMade' /\ NothingUnpaid' /\ RequestIsItsOwn' /\ Served'
    BY <1>25 DEF SInv, ReadsHold, ReadHolds, OnlyMade, NothingUnpaid, MoneyReceived,
                 RequestIsItsOwn, RequestsFor, Served, vars, payment, request, process
  <2> QED BY <2>1, <2>2 DEF SInv
<1> QED
  <2>1. ASSUME NEW h \in Handler, Ask(h) PROVE SInv'
    BY <2>1, <1>1, <1>5, <1>6, <1>7, <1>10, <1>12, <1>13, <1>20, <1>21, <1>22, <1>23 DEF Ask
  <2>2. ASSUME NEW h \in Handler, Verify(h) PROVE SInv'
    BY <2>2, <1>2, <1>8, <1>9, <1>14, <1>15, <1>16, <1>17 DEF Verify
  <2>3. ASSUME NEW h \in Handler, Administer(h) PROVE SInv'
    BY <2>3, <1>3, <1>4, <1>18, <1>19 DEF Administer
  <2> QED BY <2>1, <2>2, <2>3, <1>11, <1>24, <1>25 DEF Next

-----------------------------------------------------------------------------
(* One request at a time about a payment.                                   *)

\* What a step leaves of a payment that it does not settle.
CreditKept(p) ==
    /\ p \in 1..made => p \in 1..made' /\ reqOf'[p] = reqOf[p] /\ (Credited(p)' <=> Credited(p))
    /\ \A r \in 1..asked' : source'[r] = p => r \in 1..asked /\ source[r] = p

\* Nobody begins to settle the payment.
NoneAnew(p) == \A g \in Handler : Settles(g, p)' => Settles(g, p)

LEMMA StaysInTurn ==
  ASSUME SInv, NEW p \in Payment, SettledByOne(p), CreditKept(p), NoneAnew(p)
  PROVE  SettledByOne(p)'
<1>1. \A h \in Handler : Settles(h, p) => p \in 1..made
  BY DEF SInv, ReadsHold, ReadHolds, Paying, Settles
<1>2. \A g, h \in Handler : Settles(g, p)' /\ Settles(h, p)' => g = h
  BY DEF SettledByOne, NoneAnew
<1>3. \A h \in Handler : Settles(h, p)' => ~Credited(p)'
  BY <1>1 DEF SettledByOne, NoneAnew, CreditKept
<1>4. \A r \in 1..asked' : source'[r] = p => p \in 1..made' /\ Credited(p)' /\ reqOf'[p] = r
  BY DEF SettledByOne, CreditKept
<1> QED BY <1>2, <1>3, <1>4 DEF SettledByOne

\* Steps that write nothing a credit is read from.
LEMMA RowsAlone ==
  ASSUME SInv, NEW p \in Payment, made <= made', made' \in Nat, asked' = asked, source' = source,
         \A q \in 1..made : buyer'[q] = buyer[q] /\ status'[q] = status[q] /\ reqOf'[q] = reqOf[q]
  PROVE  CreditKept(p)
<1>1. p \in 1..made => p \in 1..made' /\ reqOf'[p] = reqOf[p] /\ (Credited(p)' <=> Credited(p))
  BY DEF SInv, TypeOK, Credited
<1> QED BY <1>1 DEF CreditKept

\* A handler that goes on, or stops, begins nothing.
LEMMA GoesOn ==
  ASSUME NEW h \in Handler, NEW p \in Payment,
         \A g \in Handler \ {h} : pc'[g] = pc[g] /\ task'[g] = task[g],
         Settles(h, p)' => Settles(h, p)
  PROVE  NoneAnew(p)
BY DEF NoneAnew, Settles

\* The one who settles payment p writes and is done with it: nobody settles it then.
LEMMA WriterIsDone ==
  ASSUME NEW h \in Handler, NEW p \in Payment, SettledByOne(p), Settles(h, p), ~Settles(h, p)',
         \A g \in Handler \ {h} : pc'[g] = pc[g] /\ task'[g] = task[g]
  PROVE  ~Credited(p) /\ (\A r \in 1..asked : source[r] # p) /\ \A g \in Handler : ~Settles(g, p)'
<1>1. ~Credited(p) /\ \A r \in 1..asked : source[r] # p
  BY DEF SettledByOne
<1>2. ASSUME NEW g \in Handler PROVE ~Settles(g, p)'
  BY DEF SettledByOne, Settles
<1> QED BY <1>1, <1>2

\* Crediting a payment that was not credited gives the new request its source, and leaves
\* the other payments as they were.
LEMMA CreditsOne ==
  ASSUME SInv, NEW q \in 1..made, Succeeds(q), NEW p \in Payment
  PROVE  /\ p # q => CreditKept(p)
         /\ p = q /\ (\A r \in 1..asked : source[r] # p) =>
                \A r \in 1..asked' : source'[r] = p => p \in 1..made' /\ Credited(p)' /\ reqOf'[p] = r
<1>1. TypeOK /\ q \in Payment /\ made' = made /\ buyer' = buyer
  BY DEF SInv, TypeOK, Succeeds
<1>2. status'[q] = "SUCCEEDED" /\ (p # q => status'[p] = status[p])
  BY <1>1 DEF Succeeds, TypeOK
<1>3. CASE buyer[q] \in Case /\ CreditCase(q)
  <2>1. AddRequest(buyer[q], q) /\ q \in 0..Payments
    BY <1>1, <1>3 DEF CreditCase
  <2>2. /\ asked' = asked + 1 /\ asked' \in Request /\ source'[asked'] = q
        /\ \A r \in 1..asked : source'[r] = source[r]
    BY <1>1, <1>3, <2>1, AddRequestType
  <2>3. reqOf'[q] = asked' /\ (p # q => reqOf'[p] = reqOf[p])
    BY <1>1, <1>3 DEF CreditCase, TypeOK
  <2>4. \A r \in 1..asked' : r \in 1..asked \/ r = asked'
    BY <1>1, <2>2 DEF TypeOK
  <2>5. ASSUME p # q PROVE CreditKept(p)
    <3>1. Credited(p)' <=> Credited(p)
      BY <1>1, <1>2, <2>3, <2>5 DEF Credited
    <3> QED BY <1>1, <2>2, <2>3, <2>4, <2>5, <3>1 DEF CreditKept
  <2>6. ASSUME p = q, \A r \in 1..asked : source[r] # p, NEW r \in 1..asked', source'[r] = p
        PROVE  p \in 1..made' /\ Credited(p)' /\ reqOf'[p] = r
    <3>1. r = asked' /\ reqOf'[p] # 0
      BY <2>2, <2>3, <2>4, <2>6
    <3> QED BY <1>1, <1>2, <2>3, <2>6, <3>1 DEF Credited
  <2> QED BY <2>5, <2>6
<1>4. CASE buyer[q] \in Self /\ UNCHANGED <<reqOf, request, stage>>
  <2>1. asked' = asked /\ source' = source /\ reqOf' = reqOf
    BY <1>4 DEF request
  <2>2. ASSUME p # q PROVE CreditKept(p)
    <3>1. Credited(p)' <=> Credited(p)
      BY <1>1, <1>2, <2>1, <2>2 DEF Credited
    <3> QED BY <1>1, <2>1, <3>1 DEF CreditKept
  <2> QED BY <2>1, <2>2
<1> QED BY <1>3, <1>4 DEF Succeeds

LEMMA StepIInv == IInv /\ [Next]_vars => IInv'
<1> SUFFICES ASSUME IInv, [Next]_vars, NEW p \in Payment, p \notin raced' PROVE SettledByOne(p)'
  BY StepSInv DEF IInv, SettledInTurn
<1>a. TypeOK /\ SInv /\ SInv' /\ made' \in Nat /\ made \in Nat
  <2>1. SInv /\ SInv'
    BY StepSInv DEF IInv
  <2>2. made' \in 0..Payments /\ made \in 0..Payments
    BY <2>1, Zenon DEF SInv, TypeOK
  <2> QED BY <2>1, <2>2 DEF SInv
<1>b. p \notin raced => SettledByOne(p)
  BY DEF IInv, SettledInTurn
<1>g. UNCHANGED <<payment, request>> => CreditKept(p)
  BY <1>a, RowsAlone DEF payment, request
<1>c. ASSUME NEW h \in Handler, NEW at \in Place, NEW t \in Task, Begin(h, at, t),
             UNCHANGED <<payment, request, stage, paid, told>>,
             at \in {"verify", "confirm"} => ~Credited(t.payment),
             at \notin {"fail", "credit", "commit"}
      PROVE  SettledByOne(p)'
  <2>1. /\ pc'[h] = at /\ task'[h] = t
        /\ \A g \in Handler \ {h} : pc'[g] = pc[g] /\ task'[g] = task[g]
        /\ raced' = IF at \in {"verify", "confirm"} /\ \E g \in Handler : Settles(g, t.payment)
                    THEN raced \cup {t.payment} ELSE raced
    BY <1>a, <1>c, BeginStep
  <2>2. p \notin raced /\ SettledByOne(p) /\ CreditKept(p)
    BY <1>b, <1>c, <1>g, <2>1
  <2>3. CASE ~(at \in {"verify", "confirm"} /\ t.payment = p)
    <3>1. ~Settles(h, p)'
      BY <1>c, <2>1, <2>3 DEF Settles
    <3> QED BY <1>a, <2>1, <2>2, <3>1, GoesOn, StaysInTurn
  <2>4. CASE at \in {"verify", "confirm"} /\ t.payment = p
    <3>1. \A g \in Handler : ~Settles(g, p)
      BY <2>1, <2>4
    <3>2. \A g \in Handler \ {h} : ~Settles(g, p)'
      BY <2>1, <3>1 DEF Settles
    <3>3. ~Credited(p)'
      BY <1>c, <2>4 DEF Credited, payment
    <3>4. \A r \in 1..asked' : source'[r] = p => p \in 1..made' /\ Credited(p)' /\ reqOf'[p] = r
      BY <1>c, <2>2, <2>4 DEF SettledByOne, CreditKept
    <3> QED BY <3>2, <3>3, <3>4 DEF SettledByOne
  <2> QED BY <2>3, <2>4
<1>d. ASSUME NEW h \in Handler, Finish(h), CreditKept(p) PROVE SettledByOne(p)'
  <2>1. /\ raced' = raced /\ pc'[h] = "idle"
        /\ \A g \in Handler \ {h} : pc'[g] = pc[g] /\ task'[g] = task[g]
    BY <1>a, <1>d, FinishStep
  <2>2. ~Settles(h, p)'
    BY <2>1 DEF Settles
  <2> QED BY <1>a, <1>b, <1>d, <2>1, <2>2, GoesOn, StaysInTurn
<1>e. ASSUME NEW h \in Handler, NEW from, NEW to \in Place, Move(h, from, to),
             to \in {"fail", "credit", "commit"} => from \in {"verify", "credit"},
             to \notin {"verify", "confirm"}, CreditKept(p)
      PROVE  SettledByOne(p)'
  <2>1. /\ raced' = raced /\ pc[h] = from /\ pc'[h] = to /\ task' = task
        /\ \A g \in Handler \ {h} : pc'[g] = pc[g]
    BY <1>a, <1>e, MoveStep
  <2>2. Settles(h, p)' => Settles(h, p)
    BY <1>e, <2>1 DEF Settles
  <2> QED BY <1>a, <1>b, <1>e, <2>1, <2>2, GoesOn, StaysInTurn
<1>f. ASSUME NEW h \in Handler, NEW q \in 1..made, Succeeds(q), Settles(h, q), raced' = raced,
             pc'[h] \in {"idle", "tell"},
             \A g \in Handler \ {h} : pc'[g] = pc[g] /\ task'[g] = task[g]
      PROVE  SettledByOne(p)'
  <2>1. ~Settles(h, p)'
    BY <1>f DEF Settles
  <2>2. CASE p # q
    BY <1>a, <1>b, <1>f, <2>1, <2>2, CreditsOne, GoesOn, StaysInTurn
  <2>3. CASE p = q
    <3>1. (\A r \in 1..asked : source[r] # p) /\ \A g \in Handler : ~Settles(g, p)'
      BY <1>b, <1>f, <2>1, <2>3, WriterIsDone
    <3>2. \A r \in 1..asked' : source'[r] = p => p \in 1..made' /\ Credited(p)' /\ reqOf'[p] = r
      BY <1>a, <1>f, <2>3, <3>1, CreditsOne
    <3> QED BY <3>1, <3>2 DEF SettledByOne
  <2> QED BY <2>2, <2>3
<1>1. ASSUME NEW h \in Handler, NEW b \in Buyer, NEW v \in Provider, CreateCheck(h, b, v)
      PROVE SettledByOne(p)'
  <2>1. [buyer |-> b, provider |-> v] \in Task /\ "create" \in Place
    BY DEF CreateTask, Task, Place
  <2> QED BY <1>1, <1>c, <2>1 DEF CreateCheck
<1>2. ASSUME NEW h \in Handler, NEW q \in Payment,
             VerifyRead(h, q) \/ ConfirmRead(h, q) \/ ApproveRead(h, q)
      PROVE SettledByOne(p)'
  <2> DEFINE t == [payment |-> q, request |-> reqOf[q]]
  <2>1. t \in Task /\ {"verify", "confirm", "approve"} \subseteq Place /\ t.payment = q
    BY <1>a DEF PaymentTask, Task, Place, TypeOK
  <2>3. VerifyRead(h, q) \/ ConfirmRead(h, q) => ~Credited(q)
    BY DEF VerifyRead, Verifiable, ConfirmRead, Confirmable, Credited
  <2> HIDE DEF t
  <2>4. PICK at \in {"verify", "confirm", "approve"} :
          Begin(h, at, t) /\ (at # "approve" => ~Credited(q))
    BY <1>2, <2>3 DEF VerifyRead, ConfirmRead, ApproveRead, t
  <2>5. UNCHANGED <<payment, request, stage, paid, told>>
    BY <1>2 DEF VerifyRead, ConfirmRead, ApproveRead
  <2> QED BY <1>c, <2>1, <2>4, <2>5
<1>3. ASSUME NEW h \in Handler, NEW c \in Case, RequestCheck(h, c) \/ ShareCheck(h, c)
      PROVE SettledByOne(p)'
  <2>1. [case |-> c] \in Task /\ "request" \in Place /\ "share" \in Place
    BY DEF CaseTask, Task, Place
  <2> QED BY <1>3, <1>c, <2>1 DEF RequestCheck, ShareCheck
<1>4. ASSUME NEW h \in Handler, NEW r \in Request, AcceptCheck(h, r) PROVE SettledByOne(p)'
  <2>1. [request |-> r] \in Task /\ "accept" \in Place
    BY DEF RequestTask, Task, Place
  <2> QED BY <1>4, <1>c, <2>1 DEF AcceptCheck
<1>5. ASSUME NEW h \in Handler, GatewayAnswer(h) PROVE SettledByOne(p)'
  <2>1. PICK to \in {"credit", "fail"} : Move(h, "verify", to)
    BY <1>5 DEF GatewayAnswer
  <2>2. CreditKept(p) /\ to \in Place
    BY <1>5, <1>g DEF GatewayAnswer, Place
  <2> QED BY <1>e, <2>1, <2>2
<1>6. ASSUME NEW h \in Handler, Refresh(h) \/ ShareRead(h) PROVE SettledByOne(p)'
  <2>1. CreditKept(p) /\ "commit" \in Place /\ "case" \in Place
    BY <1>6, <1>g DEF Refresh, ShareRead, Place
  <2>2. CASE Finish(h)
    BY <1>d, <2>1, <2>2
  <2>3. CASE Move(h, "credit", "commit")
    BY <1>e, <2>1, <2>3
  <2>4. CASE Move(h, "share", "case")
    BY <1>e, <2>1, <2>4
  <2> QED BY <1>6, <2>2, <2>3, <2>4 DEF Refresh, ShareRead
<1>7. ASSUME NEW h \in Handler,
             Abort(h) \/ Tell(h) \/ ShareCommit(h) \/ AcceptCommit(h) \/ ApproveCommit(h)
      PROVE SettledByOne(p)'
  <2>1. Finish(h)
    BY <1>7 DEF Abort, Tell, ShareCommit, AcceptCommit, ApproveCommit
  <2>2. UNCHANGED <<made, buyer, status, reqOf, asked, source>>
    BY <1>7 DEF Abort, Tell, ShareCommit, AcceptCommit, ApproveCommit, payment, request
  <2>3. CreditKept(p)
    BY <1>a, <2>2, RowsAlone
  <2> QED BY <1>d, <2>1, <2>3
<1>8. ASSUME NEW h \in Handler, CreateCommit(h) PROVE SettledByOne(p)'
  <2>1. made' = made + 1 /\ asked' = asked /\ source' = source /\ \A q \in 1..made :
            buyer'[q] = buyer[q] /\ status'[q] = status[q] /\ reqOf'[q] = reqOf[q]
    BY <1>8, <1>a DEF CreateCommit, TypeOK, request
  <2>2. CreditKept(p)
    BY <1>a, <2>1, RowsAlone
  <2> QED BY <1>8, <1>d, <2>2 DEF CreateCommit
<1>9. ASSUME NEW h \in Handler, FailWrite(h) PROVE SettledByOne(p)'
  <2>1. PICK q : q = task[h].payment
    OBVIOUS
  <2>2. Move(h, "fail", "tell") /\ "tell" \in Place
    BY <1>9 DEF FailWrite, Place
  <2>3. /\ raced' = raced /\ pc[h] = "fail" /\ pc'[h] = "tell" /\ task' = task
        /\ \A g \in Handler \ {h} : pc'[g] = pc[g]
    BY <1>a, <2>2, MoveStep
  <2>4. /\ status' = [status EXCEPT ![q] = "FAILED"]
        /\ UNCHANGED <<made, buyer, reqOf, asked, source>>
    BY <1>9, <2>1 DEF FailWrite, SetStatus, request
  <2>5. ~Settles(h, p)' /\ Settles(h, q)
    BY <2>1, <2>3 DEF Settles
  <2>6. CASE p # q
    <3>1. status'[p] = status[p]
      BY <1>a, <2>4, <2>6 DEF TypeOK
    <3>2. CreditKept(p)
      BY <2>4, <3>1 DEF CreditKept, Credited
    <3> QED BY <1>a, <1>b, <2>3, <2>5, <3>2, GoesOn, StaysInTurn
  <2>7. CASE p = q
    <3>1. (\A r \in 1..asked : source[r] # p) /\ \A g \in Handler : ~Settles(g, p)'
      BY <1>b, <2>3, <2>5, <2>7, WriterIsDone
    <3> QED BY <2>4, <3>1 DEF SettledByOne
  <2> QED BY <2>6, <2>7
<1>10. ASSUME NEW h \in Handler, SelfCredit(h) PROVE SettledByOne(p)'
  <2>1. PICK q \in 1..made : q = task[h].payment
    BY <1>10, <1>a DEF SInv, ReadsHold, ReadHolds, Paying, SelfCredit, Move
  <2>2. Move(h, "credit", "tell") /\ "tell" \in Place
    BY <1>10 DEF SelfCredit, Place
  <2>3. /\ raced' = raced /\ pc[h] = "credit" /\ pc'[h] = "tell" /\ task' = task
        /\ \A g \in Handler \ {h} : pc'[g] = pc[g]
    BY <1>a, <2>2, MoveStep
  <2>4. Succeeds(q) /\ Settles(h, q)
    BY <1>10, <2>1, <2>3 DEF SelfCredit, SetStatus, Succeeds, Settles
  <2> QED BY <1>f, <2>3, <2>4
<1>11. ASSUME NEW h \in Handler, CreditCommit(h) \/ ConfirmCommit(h) PROVE SettledByOne(p)'
  <2>1. Finish(h) /\ pc[h] \in {"commit", "confirm"}
    BY <1>11 DEF CreditCommit, ConfirmCommit
  <2>2. PICK q \in 1..made : q = task[h].payment /\ (pc[h] = "commit" => buyer[q] \in Case)
    BY <1>a, <2>1 DEF SInv, ReadsHold, ReadHolds, Paying
  <2>3. CASE CreditCommit(h)
    BY <1>d, <1>f, <2>1, <2>2, <2>3, FinishStep, <1>a DEF CreditCommit, SetStatus, Succeeds, Settles
  <2>4. CASE ConfirmCommit(h)
    BY <1>d, <1>f, <2>1, <2>2, <2>4, FinishStep, <1>a DEF ConfirmCommit, Succeeds, Settles
  <2> QED BY <1>11, <2>3, <2>4
<1>12. ASSUME NEW h \in Handler, RequestCommit(h) PROVE SettledByOne(p)'
  <2>1. PICK c \in Case : c = task[h].case
    BY <1>12, <1>a DEF RequestCommit, TypeOK, CaseTask
  <2>2. AddRequest(c, 0) /\ Finish(h) /\ UNCHANGED payment
    BY <1>12, <2>1 DEF RequestCommit
  <2>3. /\ asked' = asked + 1 /\ source'[asked'] = 0
        /\ \A r \in 1..asked : source'[r] = source[r]
    BY <1>a, <2>2, AddRequestType
  <2>4. \A r \in 1..asked' : r \in 1..asked \/ r = asked'
    BY <1>a, <2>3 DEF TypeOK
  <2>5. CreditKept(p)
    BY <2>2, <2>3, <2>4 DEF CreditKept, Credited, payment
  <2> QED BY <1>d, <2>2, <2>5
<1>13. ASSUME UNCHANGED <<pc, task, raced>>, CreditKept(p) PROVE SettledByOne(p)'
  <2>1. NoneAnew(p)
    BY <1>13 DEF NoneAnew, Settles
  <2> QED BY <1>a, <1>b, <1>13, <2>1, StaysInTurn
<1>14. ASSUME NEW h \in Handler,
              (\E r \in Request : Forward(h, r)) \/ (\E c \in Case : Decide(h, c))
       PROVE SettledByOne(p)'
  <2>1. UNCHANGED <<pc, task, raced, made, buyer, status, reqOf, asked, source>>
    BY <1>14 DEF Forward, Decide, AtOnce, payment, request
  <2>2. CreditKept(p)
    BY <1>a, <2>1, RowsAlone
  <2> QED BY <1>13, <2>1, <2>2
<1> QED
  <2>1. ASSUME NEW h \in Handler, Ask(h) PROVE SettledByOne(p)'
    BY <2>1, <1>1, <1>3, <1>4, <1>6, <1>7, <1>8, <1>12, <1>14 DEF Ask
  <2>2. ASSUME NEW h \in Handler, Verify(h) PROVE SettledByOne(p)'
    BY <2>2, <1>2, <1>5, <1>6, <1>7, <1>9, <1>10, <1>11 DEF Verify
  <2>3. ASSUME NEW h \in Handler, Administer(h) PROVE SettledByOne(p)'
    BY <2>3, <1>2, <1>7, <1>11 DEF Administer
  <2>4. ASSUME UNCHANGED <<payment, request, process>> PROVE SettledByOne(p)'
    BY <2>4, <1>g, <1>13 DEF process
  <2> QED BY <2>1, <2>2, <2>3, <2>4, <1>7 DEF Next, vars, Pay

-----------------------------------------------------------------------------
\* Every variable of the payments keeps its type, and every handler's task fits its place.
THEOREM TypeCorrect == Spec => []TypeOK
<1>1. IInv => TypeOK
  BY DEF IInv, SInv
<1> QED BY InitIInv, StepIInv, <1>1, PTL DEF Spec

\* However the handlers interleave, no payment succeeds and no report is approved before
\* the money is there.
THEOREM NeverUnpaid == Spec => []NothingUnpaid
<1>1. IInv => NothingUnpaid
  BY DEF IInv, SInv
<1> QED BY InitIInv, StepIInv, <1>1, PTL DEF Spec

\* A case that has paid has a request of its own, however the handlers interleave.
THEOREM PaidCaseIsServed == Spec => []PaidIsServed
<1>1. IInv => PaidIsServed
  <2> SUFFICES ASSUME IInv, NEW p \in 1..made, buyer[p] \in Case, status[p] = "SUCCEEDED"
               PROVE  /\ reqOf[p] \in RequestsFor(buyer[p])
                      /\ \A q \in 1..made : reqOf[q] = reqOf[p] => q = p
    BY DEF PaidIsServed
  <2>1. reqOf[p] # 0
    BY DEF IInv, SInv, Served
  <2> QED BY <2>1 DEF IInv, SInv, RequestIsItsOwn
<1> QED BY InitIInv, StepIInv, <1>1, PTL DEF Spec

\* A payment buys one request, whatever runs beside it and fails halfway, unless two
\* requests have settled it at the same time.
THEOREM PaymentBuysOnce == Spec => []CreditedOnce
<1>1. IInv => CreditedOnce
  <2> SUFFICES ASSUME IInv, NEW r \in 1..asked, NEW s \in 1..asked,
                      source[r] = source[s], source[r] \notin raced \cup {0}
               PROVE  r = s
    BY DEF CreditedOnce
  <2>1. PICK p \in Payment \ raced : source[r] = p /\ source[s] = p
    BY DEF IInv, SInv, TypeOK
  <2>2. SettledByOne(p)
    BY DEF IInv, SettledInTurn
  <2> QED BY <2>1, <2>2 DEF SettledByOne
<1> QED BY InitIInv, StepIInv, <1>1, PTL DEF Spec

\* Only a stale answer of the gateway takes a success back, and only when two requests have
\* settled the payment at the same time.
THEOREM SuccessIsFinal == Spec => SucceededIsFinal
<1> DEFINE Kept == \A p \in 1..made : status[p] = "SUCCEEDED" =>
        \/ status'[p] = "SUCCEEDED"
        \/ p \in raced /\ \E h \in Handler : pc[h] = "fail" /\ task[h].payment = p
<1>1. IInv /\ [Next]_vars => [Kept]_vars
  <2> SUFFICES ASSUME IInv, Next, NEW p \in 1..made, status[p] = "SUCCEEDED",
                      status'[p] # "SUCCEEDED"
               PROVE  p \in raced /\ \E h \in Handler : pc[h] = "fail" /\ task[h].payment = p
    OBVIOUS
  <2>a. TypeOK /\ p \in Payment
    <3>1. TypeOK /\ made \in 0..Payments
      BY Zenon DEF IInv, SInv, TypeOK
    <3> QED BY <3>1
  <2>1. PICK h \in Handler : FailWrite(h)
    <3>1. ASSUME NEW h \in Handler, CreateCommit(h) PROVE FALSE
      BY <2>a, <3>1 DEF CreateCommit, TypeOK
    <3>2. ASSUME NEW h \in Handler, SelfCredit(h) \/ CreditCommit(h) \/ ConfirmCommit(h)
          PROVE  FALSE
      BY <2>a, <3>2 DEF SelfCredit, CreditCommit, ConfirmCommit, SetStatus, TypeOK
    <3>3. status' # status
      BY <2>a
    <3>4. ASSUME NEW h \in Handler, Ask(h) PROVE FALSE
      BY <3>1, <3>3, <3>4 DEF Ask, CreateCheck, RequestCheck, ShareCheck, RequestCommit, Forward,
            AcceptCheck, AcceptCommit, ShareRead, ShareCommit, Decide, payment
    <3>5. ASSUME NEW h \in Handler, Administer(h) PROVE FALSE
      BY <3>2, <3>3, <3>5 DEF Administer, ConfirmRead, ApproveRead, ApproveCommit, payment
    <3>6. ASSUME NEW h \in Handler, Verify(h) PROVE FailWrite(h)
      BY <3>2, <3>3, <3>6 DEF Verify, VerifyRead, GatewayAnswer, Tell, Refresh, payment
    <3> QED BY <3>3, <3>4, <3>5, <3>6 DEF Next, Abort, Pay, payment
  <2>2. pc[h] = "fail" /\ task[h].payment = p
    BY <2>a, <2>1 DEF FailWrite, Move, SetStatus, TypeOK
  <2>3. Credited(p)
    BY DEF IInv, SInv, Served, Credited
  <2>4. p \in raced
    BY <2>a, <2>2, <2>3 DEF IInv, SettledInTurn, SettledByOne, Settles
  <2> QED BY <2>2, <2>4
<1> QED BY <1>1, InitIInv, StepIInv, PTL DEF Spec, SucceededIsFinal
=============================================================================
