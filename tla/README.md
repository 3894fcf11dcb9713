# RentSure backend: verification project

TLA+ modules, TLC runs and TLAPS proofs about the RentSure backend (`src/`): an
Express API over Prisma and Postgres in which landlords and agents manage properties,
renters apply, share rent scores and pay, and administrators approve score reports.
All state that outlives a request is in Postgres; there is no in-process cache. What
makes the system hard is that several API processes, each running many handlers at
once, read, check and write the same rows at READ COMMITTED, mostly without locks,
that clients and gateways repeat or delay their calls, and that a process may die
between two transactions.

## 1. Inventory

| Component | State | Operations | Hard behaviour | What makes it correct |
|---|---|---|---|---|
| E-mail outbox (`notifications/notification-email.service.ts`, `mail/mail.service.ts`) | rows of `NotificationEmail`: lease, token, backoff, attempts, `deliveredAt` | queue, scan, claim, send, settle, back off | processes drain the same rows; leases run out under live attempts; answers of the provider are lost | leases exclude; delivered means accepted, for ever; no ordinary duplicate; all is delivered in the end |
| Landlord decision and information requests (`workspace.service.ts`: `decideWorkspaceProposedRenter`; `renter/additional-information.ts`) | the decision columns of `ProposedRenter`, `requestedInformation`, the response | decide (hold, approve, decline), answer | per-application advisory lock, retries, stale requests | requests and answers alternate; an answer fits its request and is immutable |
| Property link response (`renter.service.ts`: `respondToLinkedProperty`) | `renterLinkResponseStatus` | accept, withdraw | checks outside the transaction, no lock | no withdrawal after a decision, none undone |
| Units and occupancy (`workspace.service.ts`: create/`updateWorkspaceProperty`, the approval) | `PropertyUnit`, occupancy of `Property` | approve, edit | two approvals of a unit; property row derived from units; edits replace the units | one renter per unit; the property says what its units say |
| Score payments and requests (`score-payments.service.ts`, parts of `workspace` and `renter`) | `RentScorePayment`, `ScoreRequest`, `ProposedRenter.status` | checkout, verify, confirm, approve, request, forward, accept, share | stale gateway answers, double verification, crash before the notification | money received before credit; one payment buys one request; each state is announced |
| Messaging (`messaging.service.ts`) | `Conversation`, `ConversationMessage`, cursors | start, reply, read, archive | retries in flight, two advisory locks, late reads | exactly-once messages in contiguous threads; monotonic cursors |
| Notifications (`notifications.service.ts`, `stakeholder-events.service.ts`) | `PublicAccountNotification` with event keys | notify, list, read, unread | concurrent upserts under an advisory lock | one entry per event and recipient |
| Authentication (`auth.service.ts`) | accounts, one-time tokens, refresh tokens | sign up, verify, log in, rotate, log out, reset, change | read-then-spend of tokens; attaching what waited for an e-mail address | a token is spent once; what waited is attached |
| Agent invitations (`workspace.service.ts`: `shareWorkspaceProperty`, `respondToWorkspaceAgentInvite`) | `PropertyAgentInvite`, `PropertyMember` | invite, accept, decline | two agents accept at once | one agent per property; the others' invitations are closed |
| Payment schedules (`workspace.service.ts`, `renter.service.ts`) | `PaymentSchedule`, the utility score event | create (recurring), update, submit proof, review, confirm, enter oneself | landlord and renter act on one row | a proof is submitted and reviewed once; the event follows the rows |
| Renter intake (`workspace.service.ts`) | `ProposedRenter` | create, correct the e-mail, remind | account created while a case is | every case of a completed sign-up is attached; nobody is in a unit's queue twice |
| References, behaviour reviews, identity (`workspace`, `renter`, `rent-score` services) | `LandlordReferenceRequest`, `identityReviewStatus`, score events | ask, answer, rate, submit a number, judge | several landlords and administrators write one renter's events | one event per family; verdict and event agree |
| Rent score engine (`rent-score.service.ts`) | policy, categories, rules, overrides, events | change points and maxima, override, add and replace events, score | check-then-write against other rows; find-then-create | what a category's rules can come to fits its maximum, so no score is cut off; one active override per target |
| User management (`user-management.service.ts`) | staff and public account status | create, update, suspend | open sessions of a suspended account | |
| Storage, mail templates and previews, routes, middleware, audit, scripts | none of their own | uploads, formatting, wiring | | not modelled |

Interactions: every business transaction that notifies calls `notifyUser` with its own
transaction client, which writes the in-app entry and queues the e-mail in the same
commit; the outbox worker picks the mail up later. The score payment handlers call the
gateways (Paystack, Flutterwave) between two reads of the database. A decision and a
share both write `ProposedRenter.status`, which score requests write too. A completed
sign-up attaches cases, invitations and shares that named the e-mail address before.

`PROJECT.json` lists the components with their status and every hazard at its line.

## 2. How a handler is modelled

A handler is cut where it awaits something that another handler can change: after a
read whose result it uses later, around a call of a gateway, and between two
transactions. What one transaction writes is one step (the row it updates first stays
locked until the commit); where a transaction reads again after its first write, it is
cut there too (`OccupyUnit`, `ApproveCommit`). Checks that throw leave no state and are
guards. `Abort` stands for everything that makes a handler stop halfway: a rolled back
transaction, an unreachable gateway, a crash. Advisory locks
(`pg_advisory_xact_lock`) are variables that hold their owner and end with the
transaction. `task[h]` is what a handler has read and carries to its write, which is how
stale values get there.

## 3. Modules

* `EmailDelivery` - the promise of the outbox, with neither workers nor leases.
* `EmailOutbox` - `deliverNotificationEmails`, `queueTransactionalMail` and the poller.
  Times are kept as time left, so `Tick` is the only clock; `held` is a ghost that says
  for how long the lease a process took has still to run. `Prompt` is a parameter: TRUE
  restricts the clock so that attempts are settled within their lease.
  `Implements` refines `EmailDelivery` (`queued <- 1..created`).
* `InformationDialog` - requests and answers alternate (from what
  `docs/additional-information-requests.md` promises).
* `ApplicationDecision` - the decision, the answer, the link response, occupancy and the
  property edit. `DialogKept` refines `InformationDialog`. `stale` and `skewed` are history
  variables: the handlers whose check a commit of another has overtaken (`Overtaken` says
  by which commits: a final decision overtakes a withdrawal of its case, an approval
  another renter's approval of its unit), and the units approved on such a check.
* `ScorePayments` - checkout, verification, manual confirmation, approval, direct
  requests, forwarding, accepting and sharing, and the payment's notifications. `source`
  (which payment a request was made for) and `raced` (the payments that two requests were
  settling at once) are history variables; `paid` is the gateway's state.
* `MessageLog` - append-only logs in which a request appears once.
* `Messaging` - start, reply, read, archive, with both advisory locks. `LogKept` refines
  `MessageLog`.
* `AccountLinking` - sign-up, verification tokens and completion beside proposed renters,
  corrected addresses, agent invitations and status changes by an administrator. An
  account and an e-mail address are one thing, since no handler changes an address.
  `inactive` and `interrupted` are history variables that name the two cases in which
  the code leaves something unattached.
* `RentScoreEngine` - operators only: the default policy, which rule applies to what is on
  record, what the rules contribute, and `ConfiguredPoints`, the check of a change.
* `RentScore` - the policy and the overrides of one renter as administrators change them,
  check and write in two steps, while the renter's record changes beside them.
* `ScoreEvents` - one renter's events, and the transactions that replace a family of them:
  what a `deleteMany` meets, what it waits for, and what the commit leaves.
* `PaymentSchedules` - schedules with recurrence, updates, proofs, reviews, the renter's
  confirmation, self-initiated payments, and the recalculation of the utility event.
* `LandlordReferences` - requests for references and their answers, behaviour reviews, the
  identity number and an administrator's verdict.
* `RenterRecord` - `PaymentSchedules` and `LandlordReferences` over one set of handlers and
  one set of events: what is on record of a renter.
* `AuthSessions` - sessions and reset links of one account: login, rotation, sign-out,
  reset, password change, status changes. Each statement of these handlers is a step, for
  only the reset has a transaction. `overtaken` is a history variable: the requests that
  were about to open a session when a reset committed. Sessions they open, and those
  rotated from these, are `late`.
* `EmailOutboxProofs`, `ApplicationDecisionProofs`, `ScorePaymentsProofs`,
  `MessagingProofs`, `AccountLinkingProofs`, `RentScoreProofs`, `RenterRecordProofs`,
  `AuthSessionsProofs` - the theorems of section 6, each about the module it is named for.
* `MC...` - constants and symmetry for TLC.

`stale` and `skewed` (in `RentScore`, `ScoreEvents` and `AuthSessions`) are history
variables: a request is stale when another request about the same rows has written since
it read, and `skewed` names the rows that a stale request has written. The code has no
locks there, so what the checks promise ends with such a write; the invariants say so.
In `AuthSessions` they speak of rotations and of links; the sessions that a reset misses are
named by `overtaken` and `late`.

Operators commented "Mutant" state a plausible mistake in the definition that follows
them; they occur in no specification. `PROJECT.json` says which property each must
break.

## 4. Runs

| Run | Bounds | Shows |
|---|---|---|
| `email_outbox` | 2 mails, 2 processes, leases of 2, waits up to 3, 2 faults | safety when attempts outlive their leases, answers are lost, writes fail, processes die |
| `email_prompt` | 2 mails, batches of 1, 1 fault, prompt settling | no duplicate dispatch without a fault; delivery in the end; refinement of `EmailDelivery` |
| `decision_races` | 2 applications by 2 renters, 2 units, 2 handlers, 2 timestamps, 2 items, 1 edit; one of the renters answers the link | requests and answers alternate (refinement of `InformationDialog`), one answer per request, no vacant property with an occupied unit; one renter per unit unless an approval of it was overtaken; a link moves only from where its answer found it, and is not left after a final decision, unless that very answer was overtaken |
| `double_approval` (violation) | 2 applications for 1 unit, 2 handlers | both are approved |
| `late_withdrawal` (violation) | 2 applications, 2 handlers, no edit | a withdrawal checked before the final decision takes effect after it |
| `score` | 1 case, 1 renter, 2 payments, 2 requests, 2 handlers, 7 HTTP requests | no credit without money; what succeeded has its own request; credited once and paid for good unless two requests settle the payment at once |
| `second_request` (violation) | one handler | a case gets a second score request |
| `messaging` | 2 actors, 1 key each, 2 contents, 2 conversations, 2 messages, 2 handlers, 1 reader | exactly-once messages, append-only threads, no circle of waiting handlers |
| `account_linking` | 2 persons, 2 cases of 1 unit, 1 property, 1 handler that may stop anywhere, 1 interrupted completion | what waited for an address is attached, a property has one agent, a queue has nobody twice |
| `rent_score` | 2 administrators, the 2 best payment rules with 2 new values, the payment maximum with one, 2 records, 2 overrides | categories fit, the score is the total of its items, one override per target |
| `renter_record` | 2 handlers, 3 requests, 2 schedules, 2 reference requests, days 0..2, a grace period of 1; an administrator may record an identity or a utility event by hand | one event per family, the utility event follows the rows, verdict and event agree, a review stands |
| `auth_sessions` | 2 handlers, 3 sessions, lookups of 2, 2 links, 2 password changes | a reset ends every session but those that go back to a request in flight when it committed, rotation replaces, a link works once |

Why the bounds are enough. Two handlers: every property relates a write to what one other
handler did since the read. Two rows of each kind: no operation relates three (the summary
of the units distinguishes none, one and several occupied ones). Two timestamps allow a
request, its answer and the request or decision that replaces it, and a case may start
with an old hold. An edit enters vacant and unnamed units only (`Entered`): after it no case
has a unit, so a tenant's name there would enter the summary and nothing else. Seven HTTP requests are a checkout, its payment's verification and its
report's approval, twice, and one more beside them. In `rent_score` the new values are a
negative one, one too large for the default maximum and the maximum that would admit it;
the two records are a newcomer's and one that has the best rule of every item. In
`renter_record` three requests allow two replacements of one family and a third request
that deletes or changes what they read; a day stands for two months, so that payments are
on time, within the grace period and past it. A lookup of the two newest sessions leaves
the third unfound. Leases of two units can run out before, during and after another
process's claim. Two score requests with two payments let one payment be credited twice or
each of them once. Two persons are two agents who compete, or the old and the new address
of a correction; token numbers are reused, so one per person lets sign-ups be repeated
without end. Symmetry is used on handlers, processes, units, items, keys, contents,
persons and the cases of `account_linking`; never in a run with a liveness property.

`rent_score`, `renter_record` and `auth_sessions` follow a behaviour up
to the write that comes too late (`CONSTRAINT Unskewed`): the state with that write is
checked, what comes after it is not. The invariants excuse such states for the rows
concerned and say nothing of what is built on them.

The Decision runs, `score`, `second_request` and `renter_record` switch deadlock checking
off: when the bound on decisions or requests is used up and no handler is in flight nothing
more happens. The other models never stop.

## 5. Fairness and liveness

`EventuallyDelivered` and the liveness part of `Implements` assume (`Fairness` in
`EmailOutbox`): `setInterval` polls for ever, so `Scan`, `Claim` and `Skip` are weakly
fair, and so is settling; time passes; and a provider that is asked again and again
takes the mail in the end (strong fairness of `SendOk`: each refusal disables it until
the next attempt). They are checked with `Prompt`: an attempt that always outlives its
lease can fail for ever, in the code as in the model.

In `Messaging` waiting is checked as an invariant instead: `SomebodyRuns` says that
whenever a handler waits for a lock, some handler that waits for none is in flight.

## 6. Proofs

Each `...Proofs` module extends one component's module and is checked by TLAPS. The
theorems hold for every value of the constants that satisfies the named assumptions:
any number of handlers, rows, persons and requests, where a run has two or three. The
assumptions say what a constant is (a bound is a natural number, the policy's new points
lie in -900..900 as the routes require, the facts offered are records of a renter, no
stand-in for null is a real member) and nothing of how handlers meet.

Every module proves `TypeCorrect` and follows one argument: a step preserves an inductive
invariant which says, beyond the properties, what a handler that has read may still rely
on when it writes. Three forms of it come back. Where the code locks, what was read under
the lock stays so because nobody else gets past the lock. Where it does not, it stays so
until another request about the same rows writes, which the history variables `stale`
and `skewed` record, or as long as no overlap of a named kind is in flight.

| Module | Theorem (property) | Beyond the properties the inductive invariant says |
|---|---|---|
| `EmailOutboxProofs` | `LeasesExclude`, `DeliveredSound` | `LeaseBacked`: a process whose lease is running is the one the row's token names, and the row's lease has exactly that long to run; `AttemptHasRow`; `SentWasAccepted` |
| | `DeliveredStays`, `ImplementsDelivery` | (`RInv`) batches and attempts name committed rows only |
| | `NoDuplicateDispatch` | (`DInv`) with prompt settling and no fault, a mail the provider has taken is delivered or held by the process about to say so |
| `ScorePaymentsProofs` | `NeverUnpaid`, `PaidCaseIsServed` | `ReadsHold`: what nobody takes back since a handler read it (the money is there, the row has this provider, the buyer is a case); `RequestIsItsOwn`: a payment's request names it and its buyer; `Served`; `OnlyMade` |
| | `PaymentBuysOnce`, `SuccessIsFinal` | `SettledInTurn`: of a payment that is not `raced` at most one request is in flight that may credit or fail it, and while there is one the payment is not credited; every request made for it is the one it was credited with |
| `ApplicationDecisionProofs` | `AnsweredOnce`, `HouseFollowsUnits` | `LocksHold`: a handler past its check holds its case's advisory lock, and what it checked still permits its write; `AnswersCounted`: only the latest request can be unanswered; an approval about to commit never reports a vacant house |
| | `ImplementsDialog` (`DialogKept`) | the same: each write is a step of `InformationDialog`, or is not seen there |
| | `UnitHasOneTenant` (`OneTenantInTurn`) | (`OInv`) `TenantInUnit`: who is approved for a unit is its tenant, unless the unit is `skewed`; `ApprovalStands`: the unit an approval has checked is still free for its renter, unless the approval is `stale` |
| | `LinkKeepsOrder` (`LinkInOrder`) | (`LInv`) `ResponseStands`: what an answer to the link has checked of the link, and of the decision if it is a withdrawal, still holds, unless the answer is `stale` |
| `MessagingProofs` | `WriteMeetsNone`, `AcceptedOnce` | `LocksHeld`: who is past a lock holds it, and a held lock has a holder at the right place; `Rows`: a thread's messages are numbered 1 to `lastSequence`, a request key and a place each name one message, the first message is its creation's |
| | `NeverStuck` (`SomebodyRuns`) | who holds a conversation's lock waits for nothing, who holds a request's waits for such a one at most: request key first, conversation second |
| | `ImplementsLog` (`LogKept`) | the rows of a thread, in order, are the abstract log |
| `AuthSessionsProofs` | `ResetEnds` | `InTime`: who is about to open a session carries a password that no reset has replaced, unless a reset has overtaken it or the session it rotates is `late` |
| | `RotationReplaces`, `LinkOnce` | `LoginsGuarded`: of a login without a stale write, who is to store a session has ended the others and is alone at that, who is to end one ends the only one; `LinksGuarded`: a link about to be used is not spent |
| `RentScoreProofs` | `ChangesFit`, `OneOverride` | `PolicyGuarded`: all categories fit, inactive ones too, and what a change has checked still fits, unless it is stale; `OverridesGuarded`: no override stands where one is about to be created |
| | `CategoriesCountInFull` | that categories fit is what renters get: for every record no item brings more than the best active rule that can apply to it |
| | `ScoreTotal` (`ScoreIsTotal`) | the same for the whole score: with no category cut off, the sum of the categories is the sum of the items |
| `RenterRecordProofs` | `OneEvent`, `VerdictEvent`, `ReviewsStand` | `Covered`: of each family of its own an undisturbed transaction has made nothing, or one event while all that the system keeps are among those it deletes; `AccountLocked`, `Judged`: one verdict is in flight at a time; `ReviewFits`; `Numbered`: some number bounds those given to events |
| | `SyncFollows` | (`RulesFollow`) until another request or a new day overtakes it, the rule a recalculation has found is one that its rows, with its own write among them, call for, and what it has made is that rule's event |
| `AccountLinkingProofs` | `QueuedAtMostOnce` (with `ProposalsApart`) | (`QInv`) `QueueRead`: the queue that a proposal or a correction has found without its person still is |
| | `OneAgent` (with `AcceptancesApart`) | (`AInv`) `InvitationRead`: a property found without an agent still has none, one that an agent may join is nobody else's, the invitation that is being declined is no agent's |
| | `WaitingAttached` (with `CompletionsApart`) | (`WInv`) `FoundNone`: nobody who has found no account for an address is in flight once the sign-up there is completed; `Settled` or `Completes`: who has completed it has what waited, or a handler is about to attach it |

Four results on what the operators compute carry the others. In `RentScoreProofs`,
`ConfiguredMonotone` and its neighbours: a category whose rules are worth what they were,
or nothing, comes to no more, so a deletion cannot break the check. In
`RenterRecordProofs`, `FamiliesApart`: two families of events have no rule in common; and
`SameRules`: the recalculation's search through the rows finds the same rules in any rows
that agree in type, due date, status and date of payment, so a proof sent meanwhile cannot
mislead it. In `MessagingProofs` the counting of a thread: `lastSequence` is at most the
number of messages, so a bound on messages bounds it. For `ScoreTotal`, what a fold over a
set computes: `OneSolution` says that at most one function on the subsets of a finite set
satisfies the fold's recursion (of two that differ, take a smallest subset on which they
do), so `SumIs` may replace the fold by any function that does, and `CategoriesPartition`
counts each item in exactly one category.

Three theorems have a hypothesis on what is in flight at once, because without it the code
breaks them. It is a state predicate of the component's module, and it leaves everything else
free to interleave, stop halfway or be decided, edited or disabled in between:

| Hypothesis | Excludes only |
|---|---|
| `ProposalsApart` | two cases proposed, or corrected, for the same unit and address |
| `AcceptancesApart` | an acceptance beside an invitation to its property, another agent's acceptance there or a refusal of the same invitation |
| `CompletionsApart` | a completed sign-up about to commit beside a proposal, a correction or an invitation that has found no account for its address |

So they say where a lock in the code would do (per unit and address, property, or address) and
that these properties need none elsewhere. The invariants with an excuse say the same of a
behaviour up to now: `raced` names the payments that two requests have settled at once,
`skewed` the rows that were written from an overtaken read, `stale` the requests that were
overtaken, `late` the sessions that go back to a request a reset has overtaken, and everything else is promised
whatever is in flight.

Model-checked only:

* `EventuallyDelivered` and the fairness half of `Implements`: liveness is out of the
  provers' reach.
* The three violations are counterexamples, which only TLC produces.

## 7. What the models and runs say of the code

Decisions and units:

* `decideWorkspaceProposedRenter` locks per application, checks the unit's occupancy and
  writes it by id: two concurrent approvals of one unit both commit
  (`double_approval`). The check at `workspace.service.ts:2831` lets nothing else through:
  of two renters approved for one unit, one was approved on a check that the other's
  commit had overtaken (`UnitHasOneTenant`).
* Approvals of different units that overlap each summarise their own write and not the
  other's, so the property row repeats its units only when they do not;
  `OccupiedUnitOccupiesHouse` survives every interleaving.
* An approval whose application has lost its unit to a property edit occupies the
  property row and no unit; a decline after an approval vacates nothing; tenant details
  that are all null conflict with nobody (the filters are SQL comparisons). The models do
  the same.
* `respondToLinkedProperty` checks before its transaction (`renter.service.ts:1024`), so a
  withdrawal that overlaps a decision on its case can follow it (`late_withdrawal`; the
  check at `renter.service.ts:1054` is there to refuse it), and an acceptance undo a
  withdrawal. Nothing else moves a link out of order: an answer does so only if it was
  itself overtaken between its check and its commit (`LinkKeepsOrder`).

Score payments:

* `createPaidScoreRequest` never looks for a request: a payment beside a direct request
  makes a second (`second_request`). Two checkouts at once both start, two verifications
  at once both credit, a stale FAILED overwrites SUCCEEDED, and a share overwrites a
  decision committed since its read; `CreditedOnce` and `SucceededIsFinal` excuse the
  payments that two requests have settled at once (`raced`), and no others.
* FAILED, and a renter's own SUCCEEDED, are announced after the commit, in statements
  outside any transaction (`notifyScorePayment` gets the bare client); a crash in between
  loses the announcement.
* `confirmManualRentScorePayment` and `approveRentScoreReport` have no route
  (`docs/notification-event-matrix.md:56`); the model runs them whenever they allow it.

Outbox: the claim does not look at the backoff again, so a stale batch can bring an attempt
forward.

Accounts:

* `completePublicAccountSignup` spends the token first and attaches afterwards, without a
  transaction: what an interrupted completion did not attach stays unattached
  (`WaitingIsAttached` excuses `interrupted`), and so does a case proposed while the
  account was disabled (`inactive`). A renter who signs up again as an agent before
  verifying keeps the cases attached to the account. Two requests about one property
  can give it two agents, two proposals of one person queue him twice, and a proposal can
  miss a sign-up of the same address. `account_linking` checks these properties one request
  at a time; the theorems say that no other overlap breaks them.
* Rotation and login store their session in a statement after the check: one that a reset
  overtakes lives on, and so do the sessions rotated from it (`late`); whoever reads after
  the reset finds no session that it ended (`ResetEnds`). Two rotations of one session at once leave two.
  `resetPasswordWithToken` does not look in its transaction whether the link was used since
  it was found. `changeManagedUserStatus` and `changeStaffPassword` end no session.

Rent score:

* Points and maxima are checked against rows that are only read; two changes that each fit
  can together exceed the maximum (`skewed`). One after the other they cannot, deletions
  and negative points included, and then no renter's score is cut off by a category
  (`ScoreTotal`).
* Reading the policy with `resolvePolicy` also renames and deactivates rules of older
  databases (`LEGACY_RULE_CODES`); the models are of a database that has none left, where
  these statements change nothing and lock nothing.
* The route for rules accepts a name and points only; `updateRentScorePolicy` and
  `createRentScoreRule` have no route. An override of an item keeps the code it was made
  for when another rule comes to apply to the item.
* A replacement deletes what it sees and then creates: the second of two at once waits for the
  first if they meet a row, and either way does not see what the first creates.
  `OneEventPerFamily` excuses exactly the families written from overtaken reads. An event that
  an administrator records by hand is deleted like the others if the delete meets it, and
  stays beside the new one if it is recorded between the delete and the commit: this is why
  `OneEventPerFamily` and `SyncFollowsRecord` speak of the events the system keeps.
* `confirmRenterPayment` passes the bare client to the recalculation, so update, delete and
  create are three commits. `syncUtilityPaymentHistoryEvent` does not select
  `confirmationOutcome`, which the score reads: while a partial payment that is not due yet
  is the latest, they differ, and `SyncFollowsRecord` leaves that case out. Nothing
  recalculates when a due date passes or a renter enters a payment himself.
* `updateWorkspacePaymentSchedule` after a review leaves the outcome and its timing as they
  were, and a renter may confirm what was reviewed as partial. The score counts whole days
  late where the schedule's own timing is exact.
* A completed reference that is declined later leaves its event. An administrator's verdict
  is checked against a stale account, but the account's row is locked by the first write,
  so verdict and event agree in the end (`VerdictHasEvent`).

Assumptions of the models: successive `decisionAt` of a case differ; a gateway that has
the money does not take its answer back; all actors of `Messaging` may talk to each
other; a transaction that Postgres aborts to break a deadlock is an `Abort`; successive
events of a renter have different times.

## 8. Not modelled

Storage, templates, previews, routes, middleware, audit, privacy helpers and scripts keep no
state with a protocol of its own and stay out. So do single statements on rows that nothing
else reads: marking notifications as read, the staff profile, roles and notes of staff, the
recipients of a shared report, the activities of a case. `updateRentScorePolicy` and
`createRentScoreRule` have no caller, and the events of `ensureSingleRentScoreEvent` are not
read by the score. Who may see or message whom, wording, and the attributes of rows that no
property distinguishes are abstracted away in the modules that exist.

## 9. Plan

1. Core (done): `EmailOutbox` with its proofs, `ApplicationDecision`, `ScorePayments`,
   `Messaging`, `AccountLinking`, and the abstract specifications.
2. Extension (done): `RentScoreEngine`, `RentScore`, `ScoreEvents`, `PaymentSchedules`,
   `LandlordReferences`, composed in `RenterRecord`, and `AuthSessions`.
3. Proofs (done): the invariants and action properties of all eight modules that the runs
   check, and the safety of the three refinements. What section 6 lists as model-checked
   only stays so.
4. Open: a repair of the overlaps that the hypotheses of section 6 exclude would make those
   theorems unconditional; a lock in the code would be a guard in the model.
