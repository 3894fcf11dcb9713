----------------------------- MODULE ScoreEvents -----------------------------
(***************************************************************************)
(* One renter's rent score events, and the requests that replace them       *)
(* (replaceRentScoreEventsByCodes and its neighbours in                     *)
(* rent-score.service.ts).                                                  *)
(*                                                                         *)
(* A replacement deletes the events of a family of codes and creates one.   *)
(* Inside a transaction the delete meets the rows that are committed when   *)
(* it starts and waits if another transaction is deleting one of them: what *)
(* that one creates it does not meet.  The new event is seen by others from *)
(* the commit on.  The requests themselves are in PaymentSchedules and      *)
(* LandlordReferences; RenterRecord puts them together.                     *)
(***************************************************************************)
EXTENDS RentScoreEngine, Sequences

CONSTANTS
    Handler,        \* requests that may be in flight at once
    Work,           \* bound: requests ever made
    RecordedRule    \* rules of the events an administrator records by hand

ASSUME EventsAssumption == Work \in Nat /\ RecordedRule \subseteq Rule

VARIABLES
    events,         \* committed events: their place in the order of occurrence,
                    \*   their rule, and whether an administrator recorded them
    begun,          \* requests made so far
    pc, task,       \* per request: where it is, and what it has read and written
    stale,          \* requests whose reads another's write has overtaken
    skewed          \* what was written after such a read
                    \*   (stale and skewed are history variables)

eventVars == <<events, begun, pc, task, stale, skewed>>

Event == [id : Nat, rule : Rule, by : {"ADMIN", "SYSTEM"}]
NoTask == <<>>

\* A replacement to do: the events of these codes, by one of this rule.
Job == [codes : SUBSET Rule, rule : Rule \cup {NoRule}]

EventsInit ==
    /\ events = {} /\ begun = 0
    /\ pc = [h \in Handler |-> "idle"]
    /\ task = [h \in Handler |-> NoTask]
    /\ stale = {} /\ skewed = {}

-----------------------------------------------------------------------------
(* Steps of a request.                                                      *)

Begin(h, at, t) ==
    /\ pc[h] = "idle" /\ begun < Work
    /\ begun' = begun + 1
    /\ pc' = [pc EXCEPT ![h] = at]
    /\ task' = [task EXCEPT ![h] = t]

Move(h, from, to) ==
    /\ pc[h] = from
    /\ pc' = [pc EXCEPT ![h] = to]
    /\ UNCHANGED begun

\* Mutant: the request's data outlives it.
Leave(h) == pc' = [pc EXCEPT ![h] = "idle"] /\ UNCHANGED <<task, begun>>

Finish(h) ==
    /\ pc' = [pc EXCEPT ![h] = "idle"]
    /\ task' = [task EXCEPT ![h] = NoTask]
    /\ UNCHANGED begun

\* h's write: the other requests about the same thing are stale now.
Written(h, about) ==
    /\ skewed' = IF h \in stale THEN skewed \cup {about} ELSE skewed
    /\ stale' = (stale \cup {g \in Handler : pc[g] # "idle" /\ task[g].about = about}) \ {h}

\* The row h's transaction has updated stays locked until it ends.
Free(h, row) == \A g \in Handler \ {h} : pc[g] = "open" => task[g].lock # row

-----------------------------------------------------------------------------
(* Replacing events.                                                        *)

Family(codes) == {e \in events : e.rule \in codes}

InFlight == UNION {task[g].made : g \in {x \in Handler : pc[x] = "open"}}

\* The next event, of any rule; NoRule: none.
New(rule, by) ==
    LET last == Max({0} \cup {e.id : e \in events \cup InFlight}) IN
    IF rule = NoRule THEN {} ELSE {[id |-> last + 1, rule |-> rule, by |-> by]}

\* No other transaction is about to have deleted any of these.
Deletable(h, some) ==
    \A g \in Handler \ {h} : pc[g] = "open" => task[g].seen \cap some = {}

\* Mutant: the codes of the new event's rule only.
SameRule(job) == Family({job.rule})

Replaced(job) == Family(job.codes)

\* h's delete has started; it waits with the rows it met, which are here now.
Wait(h, here) ==
    /\ task[h].met = {} /\ ~Deletable(h, here)
    /\ task' = [task EXCEPT ![h].met = here]
    /\ UNCHANGED <<events, begun, pc, stale, skewed>>

Met(h, here) == IF task[h].met = {} THEN here ELSE task[h].met

\* deleteMany and create of the next replacement of h's transaction.
Replacing(h) == pc[h] = "open" /\ task[h].todo # <<>>

ReplaceWait(h) == Replacing(h) /\ Wait(h, Replaced(Head(task[h].todo)))

Replace(h) ==
    /\ Replacing(h)
    /\ LET job == Head(task[h].todo) gone == Met(h, Replaced(job)) IN
        /\ Deletable(h, gone)
        /\ task' = [task EXCEPT ![h].todo = Tail(@), ![h].seen = @ \cup gone, ![h].met = {},
                                ![h].made = @ \cup New(job.rule, "SYSTEM")]
    /\ UNCHANGED <<events, begun, pc, stale, skewed>>

\* What h's commit does to the events.
CommitEvents(h) ==
    /\ pc[h] = "open" /\ task[h].todo = <<>>
    /\ events' = (events \ task[h].seen) \cup task[h].made

\* recordRentScoreEvent
RecordEvent(rule) ==
    /\ begun < Work
    /\ begun' = begun + 1
    /\ events' = events \cup New(rule, "ADMIN")
    /\ UNCHANGED <<pc, task, stale, skewed>>

\* deleteRentScoreEvent
DeleteEvent(e) ==
    /\ \A g \in Handler : pc[g] = "open" => e \notin task[g].seen
    /\ events' = events \ {e}
    /\ UNCHANGED <<begun, pc, task, stale, skewed>>

\* The process dies or the transaction fails: what is not committed is gone.
EventsAbort(h) ==
    /\ pc[h] # "idle"
    /\ Finish(h)
    /\ stale' = stale \ {h}
    /\ UNCHANGED <<events, skewed>>
=============================================================================
