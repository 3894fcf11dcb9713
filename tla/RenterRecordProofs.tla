------------------------- MODULE RenterRecordProofs -------------------------
(***************************************************************************)
(* Safety of a renter's record, for any number of requests in flight, any   *)
(* payments, references and reviews.  The inductive invariant says what a   *)
(* transaction that replaces events has covered by now: nothing of the      *)
(* family is made yet, or every event the system keeps of it is among those *)
(* the transaction deletes.  That holds until another request about the     *)
(* same thing writes; for the identity it always holds, since the account's *)
(* row stays locked.  A second invariant follows the recalculation of the   *)
(* utility event: until another overtakes it, the rule it has found is one  *)
(* that the rows, with its own write, call for.                             *)
(***************************************************************************)
EXTENDS RenterRecord, FiniteSetTheorems, SequenceTheorems, WellFoundedInduction, TLAPS

Place == {"idle", "open", "review", "paid", "delete", "create", "prove", "ask", "judge"}

\* A task that fits a place.
FitsAt(at, t) ==
    /\ at = "idle" => t = NoTask
    /\ at = "open" => t \in WorkTask
    /\ at = "review" => t \in ReviewTask
    /\ at = "paid" => t \in ConfirmTask
    /\ at \in {"delete", "create"} => t \in SyncTask
    /\ at = "prove" => t \in ProofTask
    /\ at = "ask" => t \in AskTask
    /\ at = "judge" => t \in JudgeTask

Same(some) == \A d, e \in some : d = e

SystemOf(F) == BySystem(Family(F))

\* The replacements to do are of different families of the request's own, and none of
\* them has made its event yet; every event made is of such a family.
WorkShape(t) ==
    /\ \A k \in 1..Len(t.todo) :
        /\ t.todo[k].codes \in Families /\ About(t.todo[k].codes) = t.about
        /\ t.todo[k].rule \in t.todo[k].codes \cup {NoRule}
        /\ \A e \in t.made : e.rule \notin t.todo[k].codes
        /\ \A j \in 1..Len(t.todo) : t.todo[j].codes = t.todo[k].codes => j = k
    /\ \A e \in t.made : e.by = "SYSTEM" /\ \E F \in Families : About(F) = t.about /\ e.rule \in F

\* Of each family nothing is made, or one event while all that are kept will be deleted;
\* what the next delete has met is all that is kept.
Covered(t) ==
    /\ \A F \in Families : About(F) = t.about =>
        \/ \A e \in t.made : e.rule \notin F
        \/ SystemOf(F) \subseteq t.seen /\ Same({e \in t.made : e.rule \in F})
    /\ t.todo # <<>> /\ t.met # {} => SystemOf(t.todo[1].codes) \subseteq t.met

\* The verdict's event is made, and the only one there will be.
Judged(t) ==
    /\ t.todo = <<>> \/ (t.todo = Judging(t.verdict).todo /\ t.made = {})
    /\ t.todo = <<>> =>
        /\ SystemOf({IdentityCode}) \subseteq t.seen
        /\ t.verdict = "APPROVED" => \E e \in t.made : t.made = {e} /\ e.rule = IdentityCode
        /\ t.verdict # "APPROVED" => t.made = {}

IsJudging(h) == pc[h] = "open" /\ task[h].about = "identity"

\* Nobody else has written since the request read; while the account is locked nobody can.
Undisturbed(h) == h \notin stale \/ IsJudging(h)

RecalculationFits(h) == h \notin stale =>
    /\ pc[h] = "delete" /\ task[h].met # {} => SystemOf(UtilityRules) \subseteq task[h].met
    /\ pc[h] = "create" => SystemOf(UtilityRules) = {}

\* A review that was admitted meets a row without an outcome; an update keeps it.
ReviewFits(h) == h \notin stale =>
    /\ pc[h] = "review" /\ task[h].row \in 1..Len(rows) => rows[task[h].row].outcome = "NONE"
    /\ pc[h] = "open" /\ task[h].about = "payment" /\ task[h].row \in 1..Len(rows) =>
            rows[task[h].row].outcome \in {"NONE", task[h].to[1].outcome}

HandlerFits(h) ==
    /\ pc[h] = "open" => WorkShape(task[h])
    /\ pc[h] = "open" /\ Undisturbed(h) => Covered(task[h])
    /\ IsJudging(h) => Judged(task[h])
    /\ RecalculationFits(h)
    /\ pc[h] = "review" => task[h].row \in 1..Len(rows)
    /\ ReviewFits(h)

Numbered == \E b \in Nat : \A e \in events \cup InFlight : e.id <= b

AccountLocked == \A h, g \in Handler : IsJudging(h) /\ IsJudging(g) => h = g

OneEach == \A F \in Families : About(F) \notin skewed => Same(SystemOf(F))

IInv ==
    /\ TypeOK
    /\ Numbered
    /\ AccountLocked
    /\ \A h \in Handler : HandlerFits(h)
    /\ OneEach

-----------------------------------------------------------------------------
(* Families.                                                                *)

LEMMA FamiliesApart ==
  /\ \A F, G \in Families : \A r : r \in F /\ r \in G => F = G
  /\ \A F \in Families : F \subseteq Rule /\ NoRule \notin F
BY DEF Families, UtilityRules, ReferenceRules, MaintenanceRules, ComplianceRules, IdentityCode, NoRule,
       Rule, DefaultPoints

LEMMA FamiliesAbout ==
  /\ About(UtilityRules) = "payment" /\ About(ReferenceRules) = "reference"
  /\ About(MaintenanceRules) = "behaviour" /\ About(ComplianceRules) = "behaviour"
  /\ About({IdentityCode}) = "identity"
  /\ {UtilityRules, ReferenceRules, MaintenanceRules, ComplianceRules, {IdentityCode}} = Families
  /\ MaintenanceRules # ComplianceRules
<1>1. /\ "UTILITY_MISSED" \in UtilityRules /\ "UTILITY_MISSED" \notin ReferenceRules
      /\ "UTILITY_MISSED" \notin {IdentityCode}
      /\ "UTILITY_MISSED" \notin MaintenanceRules /\ "UTILITY_MISSED" \notin ComplianceRules
  BY DEF UtilityRules, ReferenceRules, MaintenanceRules, ComplianceRules, IdentityCode
<1>2. /\ "LANDLORD_REFERENCE_NEUTRAL" \in ReferenceRules
      /\ "LANDLORD_REFERENCE_NEUTRAL" \notin {IdentityCode}
      /\ "LANDLORD_REFERENCE_NEUTRAL" \notin MaintenanceRules
      /\ "LANDLORD_REFERENCE_NEUTRAL" \notin ComplianceRules
  BY DEF ReferenceRules, MaintenanceRules, ComplianceRules, IdentityCode
<1>3. /\ IdentityCode \in {IdentityCode}
      /\ IdentityCode \notin MaintenanceRules /\ IdentityCode \notin ComplianceRules
  BY DEF MaintenanceRules, ComplianceRules, IdentityCode
<1>4. "PROPERTY_MAINTENANCE_GOOD" \in MaintenanceRules /\ "PROPERTY_MAINTENANCE_GOOD" \notin ComplianceRules
  BY DEF MaintenanceRules, ComplianceRules
<1>5. /\ UtilityRules # ReferenceRules /\ UtilityRules # {IdentityCode}
      /\ UtilityRules # MaintenanceRules /\ UtilityRules # ComplianceRules
      /\ ReferenceRules # {IdentityCode} /\ ReferenceRules # MaintenanceRules
      /\ ReferenceRules # ComplianceRules
      /\ {IdentityCode} # MaintenanceRules /\ {IdentityCode} # ComplianceRules
      /\ MaintenanceRules # ComplianceRules
  BY <1>1, <1>2, <1>3, <1>4
<1> QED BY <1>5 DEF About, Families

-----------------------------------------------------------------------------
(* New events.                                                              *)

\* Bounded numbers have a greatest one.
LEMMA Greatest ==
  ASSUME NEW S \in SUBSET Nat, S # {}, NEW b \in Nat, \A x \in S : x <= b
  PROVE  Max(S) \in S /\ \A x \in S : x <= Max(S)
<1>1. \A x \in S : x <= b
  OBVIOUS
<1>2. PICK T : T = {n \in Nat : \E x \in S : n = b - x}
  OBVIOUS
<1>3. \A x \in S : b - x \in T
  BY <1>1, <1>2
<1>4. T \subseteq Nat /\ T # {}
  BY <1>2, <1>3
<1>5. PICK R : R = {ss \in Nat \X Nat : ss[1] < ss[2]} /\ IsWellFoundedOn(R, Nat)
  BY NatLessThanWellFounded DEF OpToRel
<1>6. PICK n \in T : \A k \in T : <<k, n>> \notin R
  BY <1>4, <1>5, WFMin
<1>7. PICK x \in S : n = b - x
  BY <1>2
<1>8. \A y \in S : x >= y
  <2> SUFFICES ASSUME NEW y \in S PROVE x >= y
    OBVIOUS
  <2>1. PICK k \in T : k = b - y
    BY <1>3
  <2>2. k \in Nat /\ n \in Nat
    BY <1>4
  <2>3. ~(k < n)
    BY <1>5, <1>6, <2>2
  <2> QED BY <1>1, <1>7, <2>1, <2>2, <2>3
<1> QED BY <1>7, <1>8 DEF Max

\* What is in a transaction's task.
LEMMA WorkParts ==
  ASSUME NEW t \in WorkTask
  PROVE  /\ t.todo \in Seq(Job)
         /\ t.seen \subseteq Event /\ t.met \subseteq Event /\ t.made \subseteq Event
         /\ t.about \in {"payment", "reference", "behaviour", "identity"}
         /\ t.about = "payment" => t \in PaymentWork
         /\ t.about = "reference" => t \in RespondWork
         /\ t.about = "behaviour" => t \in RateWork
         /\ t.about = "identity" => t \in JudgingWork
<1>1. CASE t \in PaymentWork
  BY <1>1 DEF PaymentWork
<1>2. CASE t \in RespondWork
  BY <1>2 DEF RespondWork
<1>3. CASE t \in RateWork
  BY <1>3 DEF RateWork
<1>4. CASE t \in JudgingWork
  BY <1>4 DEF JudgingWork
<1> QED BY <1>1, <1>2, <1>3, <1>4 DEF WorkTask

\* The greatest number of an event, committed or not.
Last == Max({0} \cup {e.id : e \in events \cup InFlight})

LEMMA Numbers ==
  ASSUME TypeOK, Numbered
  PROVE  /\ Last \in Nat /\ \A e \in events \cup InFlight : e.id <= Last
         /\ InFlight \subseteq Event
<1>1. InFlight \subseteq Event
  <2>1. \A g \in Handler : pc[g] = "open" => task[g].made \subseteq Event
    BY WorkParts DEF TypeOK
  <2> QED BY <2>1 DEF InFlight
<1>2. PICK S : S = {0} \cup {e.id : e \in events \cup InFlight}
  OBVIOUS
<1>3. S \subseteq Nat /\ S # {}
  <2>1. \A e \in events \cup InFlight : e.id \in Nat
    BY <1>1 DEF TypeOK, Event
  <2> QED BY <1>2, <2>1
<1>4. PICK b \in Nat : \A e \in events \cup InFlight : e.id <= b
  BY DEF Numbered
<1>5. \A x \in S : x <= b
  BY <1>2, <1>4
<1>6. Max(S) \in S /\ \A x \in S : x <= Max(S)
  BY <1>3, <1>5, Greatest
<1>7. \A e \in events \cup InFlight : e.id \in S
  BY <1>2
<1> QED BY <1>1, <1>2, <1>3, <1>6, <1>7 DEF Last

\* A new event is of the rule it is made for; for no rule there is none.
LEMMA NewEvent ==
  ASSUME TypeOK, Numbered, NEW rule \in Rule \cup {NoRule}, NEW by \in {"ADMIN", "SYSTEM"}
  PROVE  /\ New(rule, by) \subseteq Event
         /\ \A e \in New(rule, by) : e.rule = rule /\ e.by = by /\ e.id = Last + 1
         /\ rule = NoRule => New(rule, by) = {}
         /\ rule # NoRule => \E e \in New(rule, by) : New(rule, by) = {e}
<1>1. PICK last : last = Last
  OBVIOUS
<1>2. last \in Nat
  BY <1>1, Numbers
<1>3. CASE rule = NoRule
  BY <1>3 DEF New
<1>4. CASE rule # NoRule
  <2>1. PICK e : e = [id |-> last + 1, rule |-> rule, by |-> by]
    OBVIOUS
  <2>2. New(rule, by) = {e}
    BY <1>1, <1>4, <2>1 DEF New, Last
  <2>3. e \in Event /\ e.rule = rule /\ e.by = by /\ e.id = Last + 1
    BY <1>1, <1>2, <1>4, <2>1 DEF Event
  <2> QED BY <1>4, <2>2, <2>3
<1> QED BY <1>3, <1>4

-----------------------------------------------------------------------------
(* Frames.                                                                  *)

LEMMA TypeNext ==
  ASSUME events' \subseteq Event, begun' \in 0..Work,
         rows' \in Seq(Row), Len(rows') <= Rows, today' \in Day,
         requests' \in Seq(Answer), Len(requests') <= References, identity' \in Identity,
         pc' \in [Handler -> Place], task' \in [Handler -> Task],
         \A h \in Handler : FitsAt(pc'[h], task'[h]),
         stale' \subseteq Handler,
         skewed' \subseteq {"payment", "proof", "reference", "behaviour", "identity"}
  PROVE  TypeOK'
BY DEF TypeOK, Place, FitsAt

LEMMA FitsTask == \A at \in Place : \A t : FitsAt(at, t) => t \in Task
BY DEF Place, FitsAt, Task

LEMMA Fits == TypeOK => \A h \in Handler : pc[h] \in Place /\ FitsAt(pc[h], task[h])
BY DEF TypeOK, Place, FitsAt

\* One request moves on, with a task that fits where it is then.
LEMMA OneMoves ==
  ASSUME TypeOK, NEW h \in Handler, NEW at \in Place, NEW t, FitsAt(at, t),
         pc' = [pc EXCEPT ![h] = at], task' = [task EXCEPT ![h] = t]
  PROVE  /\ pc' \in [Handler -> Place] /\ task' \in [Handler -> Task]
         /\ \A g \in Handler : FitsAt(pc'[g], task'[g])
         /\ pc'[h] = at /\ task'[h] = t
         /\ \A g \in Handler \ {h} : pc'[g] = pc[g] /\ task'[g] = task[g]
<1>1. pc \in [Handler -> Place] /\ task \in [Handler -> Task]
  BY DEF TypeOK, Place
<1>2. /\ pc' \in [Handler -> Place] /\ task' \in [Handler -> Task]
      /\ pc'[h] = at /\ task'[h] = t
      /\ \A g \in Handler \ {h} : pc'[g] = pc[g] /\ task'[g] = task[g]
  BY <1>1, FitsTask
<1>3. \A g \in Handler \ {h} : FitsAt(pc'[g], task'[g])
  BY <1>2, Fits
<1> QED BY <1>2, <1>3

\* No event of a family that a request is about comes in while it relies on that.
UntouchedEvents(g) == \A F \in Families :
    pc[g] # "idle" /\ About(F) = task[g].about /\ (g \notin stale' \/ IsJudging(g)) =>
        SystemOf(F)' \subseteq SystemOf(F)

\* The row a request has read has no outcome, or the one it had.
UntouchedRow(g) ==
    /\ Len(rows) <= Len(rows')
    /\ pc[g] \in {"review", "open"} /\ task[g].about = "payment" /\ g \notin stale'
        /\ task[g].row \in 1..Len(rows') =>
            \/ rows'[task[g].row].outcome = "NONE"
            \/ task[g].row \in 1..Len(rows) /\ rows'[task[g].row].outcome = rows[task[g].row].outcome

\* A request that does not move keeps what it relies on.
LEMMA OtherFits ==
  ASSUME TypeOK, NEW g \in Handler, HandlerFits(g), pc'[g] = pc[g], task'[g] = task[g],
         g \in stale => g \in stale', UntouchedEvents(g), UntouchedRow(g), rows' \in Seq(Row)
  PROVE  HandlerFits(g)'
<1>1. PICK at, t : at = pc[g] /\ t = task[g]
  OBVIOUS
<1>2. at \in Place /\ FitsAt(at, t) /\ pc'[g] = at /\ task'[g] = t
  BY <1>1, Fits
<1>3. ASSUME at = "open" PROVE WorkShape(t)
  BY <1>1, <1>3 DEF HandlerFits
<1>4. IsJudging(g)' <=> IsJudging(g)
  BY <1>1, <1>2 DEF IsJudging
<1>5. ASSUME at = "open", Undisturbed(g)' PROVE Covered(t)'
  <2>1. g \notin stale' \/ IsJudging(g)
    BY <1>4, <1>5 DEF Undisturbed
  <2>2. Covered(t)
    BY <1>1, <1>5, <2>1 DEF HandlerFits, Undisturbed
  <2>3. \A F \in Families : About(F) = t.about => SystemOf(F)' \subseteq SystemOf(F)
    BY <1>1, <1>5, <2>1 DEF UntouchedEvents
  <2>4. \A F \in Families : About(F) = t.about =>
            \/ \A e \in t.made : e.rule \notin F
            \/ SystemOf(F)' \subseteq t.seen /\ Same({e \in t.made : e.rule \in F})
    BY <2>2, <2>3 DEF Covered
  <2>5. t.todo # <<>> /\ t.met # {} => SystemOf(t.todo[1].codes)' \subseteq t.met
    <3> SUFFICES ASSUME t.todo # <<>>, t.met # {} PROVE SystemOf(t.todo[1].codes)' \subseteq t.met
      OBVIOUS
    <3>1. t.todo \in Seq(Job)
      BY <1>2, <1>5, WorkParts DEF FitsAt
    <3>2. 1 \in 1..Len(t.todo)
      BY <3>1
    <3>3. PICK F : F = t.todo[1].codes
      OBVIOUS
    <3>4. F \in Families /\ About(F) = t.about
      BY <1>3, <1>5, <3>2, <3>3 DEF WorkShape
    <3>5. SystemOf(F)' \subseteq t.met
      BY <2>2, <2>3, <3>3, <3>4 DEF Covered
    <3> QED BY <3>3, <3>5
  <2> QED BY <2>4, <2>5 DEF Covered
<1>6. ASSUME IsJudging(g) PROVE Judged(t)'
  <2>1. Judged(t)
    BY <1>1, <1>6 DEF HandlerFits
  <2>2. SystemOf({IdentityCode})' \subseteq SystemOf({IdentityCode})
    BY <1>6, FamiliesAbout DEF UntouchedEvents, IsJudging
  <2> QED BY <2>1, <2>2 DEF Judged
<1>7. RecalculationFits(g)'
  <2> SUFFICES ASSUME g \notin stale', at \in {"delete", "create"}
               PROVE  /\ at = "delete" /\ t.met # {} => SystemOf(UtilityRules)' \subseteq t.met
                      /\ at = "create" => SystemOf(UtilityRules)' = {}
    BY <1>2 DEF RecalculationFits
  <2>1. t.about = "payment"
    BY <1>2 DEF FitsAt, SyncTask
  <2>2. SystemOf(UtilityRules)' \subseteq SystemOf(UtilityRules)
    BY <1>1, <2>1, FamiliesAbout DEF UntouchedEvents
  <2>3. RecalculationFits(g)
    BY DEF HandlerFits
  <2> QED BY <1>1, <2>2, <2>3 DEF RecalculationFits
<1>8. ReviewFits(g)'
  <2> SUFFICES ASSUME g \notin stale', t.row \in 1..Len(rows')
               PROVE  /\ at = "review" => rows'[t.row].outcome = "NONE"
                      /\ at = "open" /\ t.about = "payment" =>
                            rows'[t.row].outcome \in {"NONE", t.to[1].outcome}
    BY <1>2 DEF ReviewFits
  <2>1. at = "review" => t.about = "payment"
    BY <1>2 DEF FitsAt, ReviewTask
  <2>2. ReviewFits(g)
    BY DEF HandlerFits
  <2> QED BY <1>1, <2>1, <2>2 DEF ReviewFits, UntouchedRow
<1>9. at = "review" => t.row \in 1..Len(rows')
  <2>1. Len(rows) \in Nat /\ Len(rows') \in Nat /\ Len(rows) <= Len(rows')
    BY DEF TypeOK, UntouchedRow
  <2>2. at = "review" => t.row \in 1..Len(rows)
    BY <1>1 DEF HandlerFits
  <2> QED BY <2>1, <2>2
<1> QED BY <1>1, <1>2, <1>3, <1>4, <1>5, <1>6, <1>7, <1>8, <1>9 DEF HandlerFits, IsJudging

\* A request that does not move while nothing it relies on changes.
Rests(g) ==
    /\ pc'[g] = pc[g] /\ task'[g] = task[g]
    /\ g \in stale => g \in stale'
    /\ UntouchedEvents(g) /\ UntouchedRow(g)

LEMMA Assemble ==
  ASSUME IInv,
         pc' \in [Handler -> Place], task' \in [Handler -> Task],
         \A g \in Handler : FitsAt(pc'[g], task'[g]),
         \A g \in Handler : Rests(g) \/ HandlerFits(g)',
         events' \subseteq Event, begun' \in 0..Work,
         rows' \in Seq(Row), Len(rows') <= Rows, today' \in Day,
         requests' \in Seq(Answer), Len(requests') <= References, identity' \in Identity,
         stale' \subseteq Handler,
         skewed' \subseteq {"payment", "proof", "reference", "behaviour", "identity"},
         \A e \in events' \cup InFlight' : e.id <= Last + 1,
         AccountLocked', OneEach'
  PROVE  IInv'
<1>1. TypeOK /\ Numbered /\ \A g \in Handler : HandlerFits(g)
  BY DEF IInv
<1>2. TypeOK'
  BY TypeNext
<1>3. Numbered'
  <2>1. PICK b : b = Last + 1
    OBVIOUS
  <2>2. b \in Nat /\ \A e \in events' \cup InFlight' : e.id <= b
    BY <1>1, <2>1, Numbers
  <2> QED BY <2>2 DEF Numbered
<1>4. \A g \in Handler : HandlerFits(g)'
  <2>1. \A g \in Handler : Rests(g) => HandlerFits(g)'
    BY <1>1, OtherFits DEF Rests
  <2> QED BY <2>1
<1> QED BY <1>2, <1>3, <1>4 DEF IInv

\* What is committed and in flight keeps its numbers, unless it is new.
LEMMA NumbersKept ==
  ASSUME IInv, NEW h \in Handler, NEW t,
         \A g \in Handler \ {h} : pc'[g] = pc[g] /\ task'[g] = task[g],
         pc'[h] = "open" => task'[h] = t /\ \A e \in t.made :
            (pc[h] = "open" /\ e \in task[h].made) \/ e.id = Last + 1,
         \A e \in events' : e \in events \cup InFlight \/ e.id = Last + 1
  PROVE  \A e \in events' \cup InFlight' : e.id <= Last + 1
<1>1. PICK last : last = Last
  OBVIOUS
<1>2. /\ last \in Nat /\ \A e \in events \cup InFlight : e.id <= last
      /\ InFlight \subseteq Event /\ events \subseteq Event
  BY <1>1, Numbers DEF IInv, TypeOK
<1>3. \A e \in events \cup InFlight : e.id <= last + 1
  <2>1. \A e \in events \cup InFlight : e.id \in Nat
    BY <1>2 DEF Event
  <2> QED BY <1>2, <2>1
<1>4. \A e \in InFlight' : e \in InFlight \/ e.id = last + 1
  <2> SUFFICES ASSUME NEW g \in Handler, pc'[g] = "open", NEW e \in task'[g].made
               PROVE  e \in InFlight \/ e.id = last + 1
    BY DEF InFlight
  <2>1. CASE g = h
    BY <1>1, <2>1 DEF InFlight
  <2>2. CASE g # h
    BY <2>2 DEF InFlight
  <2> QED BY <2>1, <2>2
<1>5. last + 1 <= last + 1
  BY <1>2
<1> QED BY <1>1, <1>3, <1>4, <1>5

\* A step of a request that writes nothing others see.
LEMMA QuietStep ==
  ASSUME IInv, NEW h \in Handler, NEW at \in Place, NEW t, FitsAt(at, t),
         pc' = [pc EXCEPT ![h] = at], task' = [task EXCEPT ![h] = t],
         UNCHANGED <<events, rows, requests, identity, today, skewed>>,
         begun' \in 0..Work, stale' \subseteq stale, stale \ {h} \subseteq stale',
         at = "open" => \A e \in t.made : (pc[h] = "open" /\ e \in task[h].made) \/ e.id = Last + 1,
         at = "open" /\ t.about = "identity" => \A g \in Handler \ {h} : ~IsJudging(g),
         HandlerFits(h)'
  PROVE  IInv'
<1>1. TypeOK /\ AccountLocked /\ OneEach
  BY DEF IInv
<1>2. /\ pc' \in [Handler -> Place] /\ task' \in [Handler -> Task]
      /\ \A g \in Handler : FitsAt(pc'[g], task'[g])
      /\ pc'[h] = at /\ task'[h] = t
      /\ \A g \in Handler \ {h} : pc'[g] = pc[g] /\ task'[g] = task[g]
  BY <1>1, OneMoves
<1>3. \A F : SystemOf(F)' = SystemOf(F)
  BY DEF SystemOf, BySystem, Family
<1>4. \A g \in Handler \ {h} : (g \in stale => g \in stale') /\ UntouchedEvents(g) /\ UntouchedRow(g)
  <2>1. Len(rows) <= Len(rows')
    BY <1>1 DEF TypeOK
  <2> QED BY <1>3, <2>1 DEF UntouchedEvents, UntouchedRow
<1>5. \A e \in events' \cup InFlight' : e.id <= Last + 1
  BY <1>2, NumbersKept
<1>6. AccountLocked'
  BY <1>1, <1>2 DEF AccountLocked, IsJudging
<1>7. OneEach'
  BY <1>1, <1>3 DEF OneEach
<1>8. /\ events' \subseteq Event /\ rows' \in Seq(Row) /\ Len(rows') <= Rows /\ today' \in Day
      /\ requests' \in Seq(Answer) /\ Len(requests') <= References /\ identity' \in Identity
      /\ stale' \subseteq Handler
      /\ skewed' \subseteq {"payment", "proof", "reference", "behaviour", "identity"}
  BY <1>1 DEF TypeOK
<1>9. \A g \in Handler : Rests(g) \/ HandlerFits(g)'
  BY <1>2, <1>4 DEF Rests
<1> QED BY <1>2, <1>5, <1>6, <1>7, <1>8, <1>9, Assemble

\* Whoever takes the account's row is the only one to judge.
LEMMA FreeAccount ==
  ASSUME TypeOK, NEW h \in Handler, Free(h, <<"account", 0>>)
  PROVE  \A g \in Handler \ {h} : ~IsJudging(g)
<1> SUFFICES ASSUME NEW g \in Handler \ {h}, IsJudging(g) PROVE pc[g] = "open" /\ task[g].lock = <<"account", 0>>
  BY DEF Free
<1>1. task[g] \in WorkTask
  BY DEF IsJudging, TypeOK
<1>2. task[g] \in JudgingWork
  BY <1>1, WorkParts DEF IsJudging
<1> QED BY <1>2 DEF JudgingWork, IsJudging

\* A request begins: it has read, and a transaction has replaced nothing yet.
LEMMA BeginStep ==
  ASSUME IInv, NEW h \in Handler, NEW at \in Place \ {"delete", "create"}, NEW t, FitsAt(at, t),
         Begin(h, at, t), UNCHANGED <<events, stale, skewed, rows, requests, identity, today>>,
         at = "open" => WorkShape(t) /\ t.made = {} /\ t.met = {},
         at = "open" /\ t.about = "identity" => Judged(t) /\ Free(h, <<"account", 0>>),
         at = "review" => t.row \in 1..Len(rows) /\ rows[t.row].outcome = "NONE",
         at = "open" /\ t.about = "payment" /\ t.row \in 1..Len(rows) =>
            rows[t.row].outcome \in {"NONE", t.to[1].outcome}
  PROVE  IInv'
<1>1. TypeOK
  BY DEF IInv
<1>2. /\ pc' = [pc EXCEPT ![h] = at] /\ task' = [task EXCEPT ![h] = t]
      /\ begun' \in 0..Work
  BY <1>1, EventsAssumption DEF Begin, TypeOK
<1>3. pc'[h] = at /\ task'[h] = t
  BY <1>1, <1>2, OneMoves
<1>4. at = "open" => Covered(t)'
  BY DEF Covered
<1>5. \A F : SystemOf(F)' = SystemOf(F)
  BY DEF SystemOf, BySystem, Family
<1>6. at = "open" /\ t.about = "identity" => Judged(t)'
  BY <1>5 DEF Judged
<1>7. HandlerFits(h)'
  BY <1>3, <1>4, <1>6 DEF HandlerFits, RecalculationFits, ReviewFits, IsJudging
<1>8. Free(h, <<"account", 0>>) => \A g \in Handler \ {h} : ~IsJudging(g)
  BY <1>1, FreeAccount
<1> QED BY <1>2, <1>7, <1>8, QuietStep

-----------------------------------------------------------------------------
(* Beginnings.                                                              *)

\* A recalculation finds a rule of the utilities' family, or none.
LEMMA RulesFound ==
  /\ \A rs : SyncedRules(rs) \subseteq UtilityRules \cup {NoRule}
  /\ \A type, rs : Syncs(type, rs) \subseteq UtilityRules \cup {NoRule}
<1>1. \A r : UtilityRuleOf(r) \in UtilityRules
  BY DEF UtilityRuleOf, UtilityRules
<1>2. \A some : RulesFor(some) \subseteq UtilityRules \cup {NoRule}
  BY <1>1 DEF RulesFor
<1>3. \A rs : SyncedRules(rs) \subseteq UtilityRules \cup {NoRule}
  BY <1>2 DEF SyncedRules
<1> QED BY <1>3 DEF Syncs

\* One replacement to do, of a family and by one of its rules or by none.
LEMMA OneJob ==
  ASSUME NEW F \in Families, NEW rule \in F \cup {NoRule}, NEW todo,
         todo = <<[codes |-> F, rule |-> rule]>>
  PROVE  /\ todo \in Seq(Job) /\ Len(todo) = 1
         /\ todo[1].codes = F /\ todo[1].rule = rule
<1>1. F \in SUBSET Rule /\ rule \in Rule \cup {NoRule}
  BY FamiliesApart
<1>2. [codes |-> F, rule |-> rule] \in Job
  BY <1>1 DEF Job
<1> QED BY <1>2

LEMMA OneJobShaped ==
  ASSUME NEW F \in Families, NEW rule \in F \cup {NoRule}, NEW t,
         t.todo = <<>> \/ t.todo = <<[codes |-> F, rule |-> rule]>>, About(F) = t.about, t.made = {}
  PROVE  WorkShape(t) /\ t.todo \in Seq(Job)
<1>1. CASE t.todo = <<>>
  BY <1>1 DEF WorkShape
<1>2. CASE t.todo = <<[codes |-> F, rule |-> rule]>>
  <2>1. t.todo \in Seq(Job) /\ Len(t.todo) = 1 /\ t.todo[1].codes = F /\ t.todo[1].rule = rule
    <3>1. PICK todo : todo = t.todo
      OBVIOUS
    <3>2. todo = <<[codes |-> F, rule |-> rule]>>
      BY <1>2, <3>1
    <3>3. todo \in Seq(Job) /\ Len(todo) = 1 /\ todo[1].codes = F /\ todo[1].rule = rule
      BY <3>2, OneJob
    <3> QED BY <3>1, <3>3
  <2>2. \A k \in 1..Len(t.todo) : k = 1
    BY <2>1
  <2> QED BY <2>1, <2>2 DEF WorkShape
<1> QED BY <1>1, <1>2

LEMMA OpenedFits ==
  ASSUME NEW i \in Nat, NEW to \in Seq(Row) \ {<<>>}, NEW rule \in UtilityRules \cup {NoRule},
         NEW t, t = Opened(i, to, rule)
  PROVE  /\ t \in PaymentWork /\ FitsAt("open", t)
         /\ WorkShape(t) /\ t.made = {} /\ t.met = {}
         /\ t.about = "payment" /\ t.row = i /\ t.to = to
<1>1. /\ t.about = "payment" /\ t.lock = <<"row", i>> /\ t.row = i /\ t.to = to
      /\ t.todo = Jobs(to[1].type, rule) /\ t.seen = {} /\ t.met = {} /\ t.made = {}
  BY DEF Opened
<1>2. WorkShape(t) /\ t.todo \in Seq(Job)
  <2>1. t.todo = <<>> \/ t.todo = <<[codes |-> UtilityRules, rule |-> rule]>>
    BY <1>1 DEF Jobs
  <2>2. UtilityRules \in Families /\ About(UtilityRules) = t.about
    BY <1>1, FamiliesAbout
  <2> QED BY <1>1, <2>1, <2>2, OneJobShaped
<1>3. t \in PaymentWork
  <2>1. Jobs(to[1].type, rule) \in Seq(Job) /\ <<"row", i>> \in {"row"} \X Nat
    BY <1>1, <1>2
  <2> QED BY <2>1 DEF Opened, PaymentWork
<1>4. FitsAt("open", t)
  BY <1>3 DEF FitsAt, WorkTask
<1> QED BY <1>1, <1>2, <1>3, <1>4

\* A transaction on payments begins, whose row keeps its outcome.
LEMMA OpenBegins ==
  ASSUME IInv, NEW h \in Handler, NEW i \in Nat, NEW to \in Seq(Row) \ {<<>>},
         NEW rule \in UtilityRules \cup {NoRule}, Begin(h, "open", Opened(i, to, rule)),
         UNCHANGED <<events, stale, skewed, scheduleVars, referenceVars>>,
         i \in 1..Len(rows) => to[1].outcome = rows[i].outcome
  PROVE  IInv'
<1>1. PICK t : t = Opened(i, to, rule)
  OBVIOUS
<1>2. /\ FitsAt("open", t) /\ WorkShape(t) /\ t.made = {} /\ t.met = {}
      /\ t.about = "payment" /\ t.row = i /\ t.to = to
  BY <1>1, OpenedFits
<1>3. t.row \in 1..Len(rows) => rows[t.row].outcome \in {"NONE", t.to[1].outcome}
  BY <1>2
<1>4. Begin(h, "open", t)
  BY <1>1
<1>5. "open" \in Place \ {"delete", "create"}
  BY DEF Place
<1> QED BY <1>2, <1>3, <1>4, <1>5, BeginStep DEF scheduleVars, referenceVars

LEMMA ScheduleKeeps ==
  ASSUME IInv, NEW h \in Handler, NEW type \in PaymentType, NEW due \in Due,
         NEW n \in Cycles \cup {0}, Schedule(h, type, due, n), UNCHANGED referenceVars
  PROVE  IInv'
<1>1. PICK to : to = [k \in 1..(n + 1) |-> Fresh(type, due + (k - 1) * Period)]
  OBVIOUS
<1>2. n \in Nat /\ due \in Nat /\ Period \in Nat
  BY ScheduleAssumption
<1>3. \A k \in 1..(n + 1) : Fresh(type, due + (k - 1) * Period) \in Row
  <2> SUFFICES ASSUME NEW k \in 1..(n + 1) PROVE Fresh(type, due + (k - 1) * Period) \in Row
    OBVIOUS
  <2>1. PICK d : d = due + (k - 1) * Period
    OBVIOUS
  <2>2. k - 1 \in Nat
    BY <1>2
  <2>3. d \in Nat
    BY <1>2, <2>1, <2>2
  <2>4. Fresh(type, d) \in Columns
    BY <2>3 DEF Fresh, Columns
  <2>5. Dated(Fresh(type, d))
    BY DEF Dated, Fresh
  <2> QED BY <2>1, <2>4, <2>5 DEF Row
<1>4. to \in Seq(Row) \ {<<>>}
  <2>1. to \in Seq(Row) /\ Len(to) = n + 1
    BY <1>1, <1>2, <1>3
  <2> QED BY <1>2, <2>1
<1>5. PICK rule \in Syncs(type, View(0, to)) : Begin(h, "open", Opened(0, to, rule))
  BY <1>1 DEF Schedule
<1>6. rule \in UtilityRules \cup {NoRule}
  BY RulesFound
<1>7. UNCHANGED <<events, stale, skewed, scheduleVars, referenceVars>>
  BY DEF Schedule
<1>8. 0 \notin 1..Len(rows)
  BY DEF IInv, TypeOK
<1> QED BY <1>4, <1>5, <1>6, <1>7, <1>8, OpenBegins

LEMMA DayTyped == Day \subseteq Nat /\ Null \notin Day
BY ScheduleAssumption DEF Day, Null

LEMMA UpdateKeeps ==
  ASSUME IInv, NEW h \in Handler, NEW i \in 1..Len(rows), NEW status \in {"PENDING", "PAID", "OVERDUE"},
         NEW paid \in Day, Update(h, i, status, paid), UNCHANGED referenceVars
  PROVE  IInv'
<1>1. PICK r : r = [rows[i] EXCEPT !.status = status, !.paid = IF status = "PAID" THEN paid ELSE Null]
  OBVIOUS
<1>2. rows[i] \in Columns /\ i \in Nat
  BY DEF IInv, TypeOK, Row
<1>3. PICK date \in Day \cup {Null} :
         date = (IF status = "PAID" THEN paid ELSE Null) /\ (status = "PAID" <=> date # Null)
  BY DayTyped
<1>4. /\ r \in Columns /\ r.status = status /\ r.paid = date
      /\ r.outcome = rows[i].outcome
  BY <1>1, <1>2, <1>3 DEF Columns
<1>5. r \in Row
  BY <1>3, <1>4 DEF Row, Dated
<1>6. PICK to : to = <<r>>
  OBVIOUS
<1>7. to \in Seq(Row) \ {<<>>} /\ to[1] = r
  BY <1>5, <1>6
<1>8. PICK rule \in Syncs(rows[i].type, View(i, to)) : Begin(h, "open", Opened(i, to, rule))
  BY <1>1, <1>6 DEF Update
<1>9. rule \in UtilityRules \cup {NoRule}
  BY RulesFound
<1>10. UNCHANGED <<events, stale, skewed, scheduleVars, referenceVars>>
  BY DEF Update
<1> QED BY <1>2, <1>4, <1>7, <1>8, <1>9, <1>10, OpenBegins

LEMMA ReviewCheckKeeps ==
  ASSUME IInv, NEW h \in Handler, NEW i \in 1..Len(rows), NEW outcome \in Paid, NEW paid \in Day,
         ReviewCheck(h, i, outcome, paid), UNCHANGED referenceVars
  PROVE  IInv'
<1>1. PICK date \in Day \cup {Null} :
         date = (IF outcome = "FULL" THEN paid ELSE Null) /\ (outcome = "FULL" <=> date # Null)
  BY DayTyped
<1>2. PICK t : t = [about |-> "payment", row |-> i, outcome |-> outcome, paid |-> date]
  OBVIOUS
<1>3. t \in ReviewTask /\ t.row = i
  BY <1>1, <1>2 DEF ReviewTask
<1>4. FitsAt("review", t)
  BY <1>3 DEF FitsAt
<1>5. /\ Begin(h, "review", t) /\ rows[i].outcome = "NONE"
      /\ UNCHANGED <<events, stale, skewed, scheduleVars, referenceVars>>
  BY <1>1, <1>2 DEF ReviewCheck, Reviewable
<1>6. "review" \in Place \ {"delete", "create"}
  BY DEF Place
<1> QED BY <1>3, <1>4, <1>5, <1>6, BeginStep DEF scheduleVars, referenceVars

LEMMA ProveCheckKeeps ==
  ASSUME IInv, NEW h \in Handler, NEW i \in 1..Len(rows), ProveCheck(h, i), UNCHANGED referenceVars
  PROVE  IInv'
<1>1. PICK t : t = [about |-> "proof", row |-> i]
  OBVIOUS
<1>2. t \in ProofTask
  BY <1>1 DEF ProofTask
<1>3. FitsAt("prove", t)
  BY <1>2 DEF FitsAt
<1>4. Begin(h, "prove", t) /\ UNCHANGED <<events, stale, skewed, scheduleVars, referenceVars>>
  BY <1>1 DEF ProveCheck
<1>5. "prove" \in Place \ {"delete", "create"}
  BY DEF Place
<1> QED BY <1>3, <1>4, <1>5, BeginStep DEF scheduleVars, referenceVars

LEMMA AskCheckKeeps ==
  ASSUME IInv, NEW h \in Handler, AskCheck(h), UNCHANGED scheduleVars
  PROVE  IInv'
<1>1. PICK t : t = [about |-> "request"]
  OBVIOUS
<1>2. FitsAt("ask", t)
  BY <1>1 DEF FitsAt, AskTask
<1>3. Begin(h, "ask", t) /\ UNCHANGED <<events, stale, skewed, scheduleVars, referenceVars>>
  BY <1>1 DEF AskCheck
<1>4. "ask" \in Place \ {"delete", "create"}
  BY DEF Place
<1> QED BY <1>2, <1>3, <1>4, BeginStep DEF scheduleVars, referenceVars

LEMMA JudgeCheckKeeps ==
  ASSUME IInv, NEW h \in Handler, NEW verdict \in {"APPROVED", "FAILED"}, JudgeCheck(h, verdict),
         UNCHANGED scheduleVars
  PROVE  IInv'
<1>1. PICK t : t = [about |-> "identity", verdict |-> verdict]
  OBVIOUS
<1>2. FitsAt("judge", t)
  BY <1>1 DEF FitsAt, JudgeTask
<1>3. Begin(h, "judge", t) /\ UNCHANGED <<events, stale, skewed, scheduleVars, referenceVars>>
  BY <1>1 DEF JudgeCheck
<1>4. "judge" \in Place \ {"delete", "create"}
  BY DEF Place
<1> QED BY <1>2, <1>3, <1>4, BeginStep DEF scheduleVars, referenceVars

LEMMA RespondKeeps ==
  ASSUME IInv, NEW h \in Handler, NEW i \in 1..Len(requests),
         NEW r \in Recommendation \cup {NoRecommendation}, Respond(h, i, r), UNCHANGED scheduleVars
  PROVE  IInv'
<1>1. PICK answer : answer = [status |-> IF r = NoRecommendation THEN "DECLINED" ELSE "COMPLETED",
                              recommendation |-> r]
  OBVIOUS
<1>2. answer \in Answer
  BY <1>1 DEF Answer
<1>3. PICK todo : todo = IF r = NoRecommendation THEN <<>>
                         ELSE <<[codes |-> ReferenceRules, rule |-> ReferenceRule[r]]>>
  OBVIOUS
<1>4. PICK rule : rule = IF r = NoRecommendation THEN NoRule ELSE ReferenceRule[r]
  OBVIOUS
<1>5. rule \in ReferenceRules \cup {NoRule}
  <2>1. \A x \in {"STRONGLY_RECOMMEND", "RECOMMEND", "NEUTRAL", "DO_NOT_RECOMMEND"} :
            ReferenceRule[x] \in ReferenceRules
    BY DEF ReferenceRule, ReferenceRules
  <2> QED BY <1>4, <2>1, ReferenceAssumption
<1>6. todo = <<>> \/ todo = <<[codes |-> ReferenceRules, rule |-> rule]>>
  BY <1>3, <1>4
<1>7. PICK t : t = [about |-> "reference", lock |-> <<"request", i>>, row |-> i, answer |-> answer,
                    todo |-> todo, seen |-> {}, met |-> {}, made |-> {}]
  OBVIOUS
<1>8. /\ t.about = "reference" /\ t.todo = todo /\ t.made = {} /\ t.met = {}
  BY <1>7
<1>9. WorkShape(t) /\ todo \in Seq(Job)
  <2>1. ReferenceRules \in Families /\ About(ReferenceRules) = t.about
    BY <1>8, FamiliesAbout
  <2>2. WorkShape(t) /\ t.todo \in Seq(Job)
    BY <1>5, <1>6, <1>8, <2>1, OneJobShaped
  <2> QED BY <1>8, <2>2
<1>10. FitsAt("open", t)
  <2>1. i \in Nat /\ <<"request", i>> \in {"request"} \X Nat
    OBVIOUS
  <2>2. t \in RespondWork
    BY <1>2, <1>7, <1>9, <2>1 DEF RespondWork
  <2> QED BY <2>2 DEF FitsAt, WorkTask
<1>11. Begin(h, "open", t) /\ UNCHANGED <<events, stale, skewed, scheduleVars, referenceVars>>
  BY <1>1, <1>3, <1>7 DEF Respond
<1>12. "open" \in Place \ {"delete", "create"}
  BY DEF Place
<1> QED BY <1>8, <1>9, <1>10, <1>11, <1>12, BeginStep DEF scheduleVars, referenceVars

LEMMA RateKeeps ==
  ASSUME IInv, NEW h \in Handler, NEW m \in Rating, NEW c \in Rating, Rate(h, m, c),
         UNCHANGED scheduleVars
  PROVE  IInv'
<1>1. PICK mr, cr : mr = MaintenanceRule[m] /\ cr = ComplianceRule[c]
  OBVIOUS
<1>2. mr \in MaintenanceRules /\ cr \in ComplianceRules
  <2>1. \A x \in {"EXCELLENT", "GOOD", "POOR"} :
            MaintenanceRule[x] \in MaintenanceRules /\ ComplianceRule[x] \in ComplianceRules
    BY DEF MaintenanceRule, MaintenanceRules, ComplianceRule, ComplianceRules
  <2> QED BY <1>1, <2>1, ReferenceAssumption
<1>3. PICK p, q : p = [codes |-> MaintenanceRules, rule |-> mr] /\ q = [codes |-> ComplianceRules, rule |-> cr]
  OBVIOUS
<1>4. p \in Job /\ q \in Job
  BY <1>2, <1>3, FamiliesApart, FamiliesAbout DEF Job
<1>5. PICK todo : todo = <<p, q>>
  OBVIOUS
<1>6. todo \in Seq(Job) /\ Len(todo) = 2 /\ todo[1] = p /\ todo[2] = q
  BY <1>4, <1>5
<1>7. PICK t : t = [about |-> "behaviour", lock |-> <<"none", 0>>, todo |-> todo,
                    seen |-> {}, met |-> {}, made |-> {}]
  OBVIOUS
<1>8. t.about = "behaviour" /\ t.todo = todo /\ t.made = {} /\ t.met = {}
  BY <1>7
<1>9. WorkShape(t)
  <2>1. \A k \in 1..Len(t.todo) : (k = 1 /\ t.todo[k] = p) \/ (k = 2 /\ t.todo[k] = q)
    <3>1. \A k \in 1..2 : k = 1 \/ k = 2
      OBVIOUS
    <3>2. Len(t.todo) = 2 /\ t.todo[1] = p /\ t.todo[2] = q
      BY <1>6, <1>8
    <3> QED BY <3>1, <3>2
  <2>2. /\ p.codes = MaintenanceRules /\ q.codes = ComplianceRules /\ p.codes # q.codes
        /\ p.codes \in Families /\ About(p.codes) = t.about /\ p.rule \in p.codes
        /\ q.codes \in Families /\ About(q.codes) = t.about /\ q.rule \in q.codes
    BY <1>2, <1>3, <1>8, FamiliesAbout
  <2> QED BY <1>8, <2>1, <2>2 DEF WorkShape
<1>10. FitsAt("open", t)
  <2>1. t \in RateWork
    BY <1>6, <1>7 DEF RateWork
  <2> QED BY <2>1 DEF FitsAt, WorkTask
<1>11. Begin(h, "open", t) /\ UNCHANGED <<events, stale, skewed, scheduleVars, referenceVars>>
  BY <1>1, <1>3, <1>5, <1>7 DEF Rate
<1>12. "open" \in Place \ {"delete", "create"}
  BY DEF Place
<1> QED BY <1>8, <1>9, <1>10, <1>11, <1>12, BeginStep DEF scheduleVars, referenceVars

LEMMA JudgingFits ==
  ASSUME NEW verdict \in {"APPROVED", "FAILED"}, NEW t, t = Judging(verdict)
  PROVE  /\ FitsAt("open", t) /\ WorkShape(t) /\ Judged(t)
         /\ t.about = "identity" /\ t.made = {} /\ t.met = {}
<1>1. PICK rule : rule = IF verdict = "APPROVED" THEN IdentityCode ELSE NoRule
  OBVIOUS
<1>2. /\ t.about = "identity" /\ t.lock = <<"account", 0>> /\ t.verdict = verdict
      /\ t.todo = <<[codes |-> {IdentityCode}, rule |-> rule]>>
      /\ t.seen = {} /\ t.made = {} /\ t.met = {}
  BY <1>1 DEF Judging
<1>3. WorkShape(t) /\ t.todo \in Seq(Job)
  <2>1. {IdentityCode} \in Families /\ About({IdentityCode}) = t.about /\ rule \in {IdentityCode} \cup {NoRule}
    BY <1>1, <1>2, FamiliesAbout
  <2> QED BY <1>2, <2>1, OneJobShaped
<1>4. t \in JudgingWork
  <2>1. PICK todo \in Seq(Job) : todo = <<[codes |-> {IdentityCode}, rule |-> rule]>>
    BY <1>2, <1>3
  <2>2. t = [about |-> "identity", lock |-> <<"account", 0>>, verdict |-> verdict,
             todo |-> todo, seen |-> {}, met |-> {}, made |-> {}]
    BY <1>1, <2>1 DEF Judging
  <2> QED BY <2>2 DEF JudgingWork
<1>5. Judged(t)
  <2>1. t.todo # <<>> /\ t.todo = Judging(t.verdict).todo
    BY <1>2
  <2> QED BY <1>2, <2>1 DEF Judged
<1> QED BY <1>2, <1>3, <1>4, <1>5 DEF FitsAt, WorkTask

LEMMA SubmitIdentityKeeps ==
  ASSUME IInv, NEW h \in Handler, SubmitIdentity(h), UNCHANGED scheduleVars
  PROVE  IInv'
<1>1. PICK t : t = Judging("APPROVED")
  OBVIOUS
<1>2. /\ FitsAt("open", t) /\ WorkShape(t) /\ Judged(t)
      /\ t.about = "identity" /\ t.made = {} /\ t.met = {}
  BY <1>1, JudgingFits
<1>3. /\ Begin(h, "open", t) /\ Free(h, <<"account", 0>>)
      /\ UNCHANGED <<events, stale, skewed, scheduleVars, referenceVars>>
  BY <1>1 DEF SubmitIdentity
<1>4. "open" \in Place \ {"delete", "create"}
  BY DEF Place
<1> QED BY <1>2, <1>3, <1>4, BeginStep DEF scheduleVars, referenceVars

-----------------------------------------------------------------------------
(* Steps in between.                                                        *)

LEMMA ReviewWriteKeeps ==
  ASSUME IInv, NEW h \in Handler, ReviewWrite(h), UNCHANGED referenceVars
  PROVE  IInv'
<1>1. TypeOK /\ HandlerFits(h) /\ pc[h] = "review"
  BY DEF IInv, ReviewWrite, Move
<1>2. PICK i, outcome, date : i = task[h].row /\ outcome = task[h].outcome /\ date = task[h].paid
  OBVIOUS
<1>3. /\ i \in 1..Len(rows) /\ i \in Nat /\ outcome \in Paid /\ date \in Day \cup {Null}
      /\ outcome = "FULL" <=> date # Null
  <2>1. task[h] \in ReviewTask
    BY <1>1 DEF TypeOK
  <2>2. outcome \in Paid /\ date \in Day \cup {Null} /\ (outcome = "FULL" <=> date # Null)
    BY <1>2, <2>1 DEF ReviewTask
  <2>3. i \in 1..Len(rows) /\ i \in Nat
    BY <1>1, <1>2 DEF HandlerFits
  <2> QED BY <2>2, <2>3
<1>4. PICK r : r = [rows[i] EXCEPT !.status = IF outcome = "FULL" THEN "PAID" ELSE "PENDING",
                                   !.paid = date, !.outcome = outcome]
  OBVIOUS
<1>5. rows[i] \in Columns
  BY <1>1, <1>3 DEF TypeOK, Row
<1>6. /\ r \in Columns /\ r.status = (IF outcome = "FULL" THEN "PAID" ELSE "PENDING")
      /\ r.paid = date /\ r.outcome = outcome
  BY <1>3, <1>4, <1>5 DEF Columns
<1>7. r \in Row
  BY <1>3, <1>6 DEF Row, Dated
<1>8. PICK to : to = <<r>>
  OBVIOUS
<1>9. to \in Seq(Row) \ {<<>>} /\ to[1] = r
  BY <1>7, <1>8
<1>10. PICK rule \in Syncs(rows[i].type, View(i, to)) : task' = [task EXCEPT ![h] = Opened(i, to, rule)]
  BY <1>2, <1>4, <1>8 DEF ReviewWrite
<1>11. rule \in UtilityRules \cup {NoRule}
  BY RulesFound
<1>12. PICK t : t = Opened(i, to, rule)
  OBVIOUS
<1>13. /\ FitsAt("open", t) /\ WorkShape(t) /\ t.made = {} /\ t.met = {}
       /\ t.about = "payment" /\ t.row = i /\ t.to = to
  BY <1>3, <1>9, <1>11, <1>12, OpenedFits
<1>14. /\ pc' = [pc EXCEPT ![h] = "open"] /\ task' = [task EXCEPT ![h] = t]
       /\ UNCHANGED <<events, begun, stale, skewed, scheduleVars, referenceVars>>
  BY <1>10, <1>12 DEF ReviewWrite, Move
<1>15. "open" \in Place
  BY DEF Place
<1>16. pc'[h] = "open" /\ task'[h] = t
  BY <1>1, <1>14 DEF TypeOK
<1>17. HandlerFits(h)'
  <2>1. Covered(t)'
    BY <1>13 DEF Covered
  <2>2. h \notin stale => rows[i].outcome = "NONE"
    BY <1>1, <1>2, <1>3 DEF HandlerFits, ReviewFits
  <2>3. ReviewFits(h)'
    BY <1>13, <1>14, <1>16, <2>2 DEF ReviewFits, scheduleVars
  <2> QED BY <1>13, <1>16, <2>1, <2>3 DEF HandlerFits, RecalculationFits, IsJudging
<1>18. begun' \in 0..Work
  BY <1>1, <1>14 DEF TypeOK
<1> QED BY <1>13, <1>14, <1>15, <1>17, <1>18, QuietStep DEF scheduleVars, referenceVars

LEMMA JudgeWriteKeeps ==
  ASSUME IInv, NEW h \in Handler, JudgeWrite(h), UNCHANGED scheduleVars
  PROVE  IInv'
<1>1. TypeOK /\ pc[h] = "judge"
  BY DEF IInv, JudgeWrite, Move
<1>2. PICK verdict : verdict = task[h].verdict
  OBVIOUS
<1>3. verdict \in {"APPROVED", "FAILED"}
  <2>1. task[h] \in JudgeTask
    BY <1>1 DEF TypeOK
  <2> QED BY <1>2, <2>1 DEF JudgeTask
<1>4. PICK t : t = Judging(verdict)
  OBVIOUS
<1>5. /\ FitsAt("open", t) /\ WorkShape(t) /\ Judged(t)
      /\ t.about = "identity" /\ t.made = {} /\ t.met = {}
  BY <1>3, <1>4, JudgingFits
<1>6. /\ pc' = [pc EXCEPT ![h] = "open"] /\ task' = [task EXCEPT ![h] = t]
      /\ UNCHANGED <<events, begun, stale, skewed, scheduleVars, referenceVars>>
      /\ Free(h, <<"account", 0>>)
  BY <1>2, <1>4 DEF JudgeWrite, Move
<1>7. "open" \in Place
  BY DEF Place
<1>8. pc'[h] = "open" /\ task'[h] = t
  BY <1>1, <1>6 DEF TypeOK
<1>9. HandlerFits(h)'
  <2>1. Covered(t)'
    BY <1>5 DEF Covered
  <2>2. Judged(t)'
    BY <1>5, <1>6 DEF Judged, SystemOf, BySystem, Family
  <2> QED BY <1>5, <1>8, <2>1, <2>2 DEF HandlerFits, RecalculationFits, ReviewFits, IsJudging
<1>10. begun' \in 0..Work
  BY <1>1, <1>6 DEF TypeOK
<1>11. \A g \in Handler \ {h} : ~IsJudging(g)
  BY <1>1, <1>6, FreeAccount
<1> QED BY <1>5, <1>6, <1>7, <1>9, <1>10, <1>11, QuietStep DEF scheduleVars, referenceVars

LEMMA AbortKeeps ==
  ASSUME IInv, NEW h \in Handler, EventsAbort(h), UNCHANGED <<scheduleVars, referenceVars>>
  PROVE  IInv'
<1>1. /\ pc' = [pc EXCEPT ![h] = "idle"] /\ task' = [task EXCEPT ![h] = NoTask]
      /\ UNCHANGED <<begun, events, skewed, scheduleVars, referenceVars>> /\ stale' = stale \ {h}
  BY DEF EventsAbort, Finish
<1>2. "idle" \in Place /\ FitsAt("idle", NoTask)
  BY DEF Place, FitsAt
<1>3. pc'[h] = "idle" /\ begun' \in 0..Work
  BY <1>1 DEF IInv, TypeOK
<1>4. HandlerFits(h)'
  BY <1>3 DEF HandlerFits, RecalculationFits, ReviewFits, IsJudging
<1> QED BY <1>1, <1>2, <1>3, <1>4, QuietStep DEF scheduleVars, referenceVars

LEMMA SyncReadKeeps ==
  ASSUME IInv, NEW h \in Handler, SyncRead(h), UNCHANGED referenceVars
  PROVE  IInv'
<1>1. /\ UNCHANGED <<events, skewed, scheduleVars, referenceVars>> /\ stale' = stale \ {h}
  BY DEF SyncRead
<1>2. CASE rows[task[h].row].type = "UTILITY"
  <2>1. PICK rule \in SyncedRules(rows) :
            task' = [task EXCEPT ![h] = [about |-> "payment", rule |-> rule, met |-> {}]]
    BY <1>2 DEF SyncRead
  <2>2. PICK t : t = [about |-> "payment", rule |-> rule, met |-> {}]
    OBVIOUS
  <2>3. t \in SyncTask /\ t.met = {}
    BY <2>2, RulesFound DEF SyncTask
  <2>4. FitsAt("delete", t) /\ "delete" \in Place
    BY <2>3 DEF FitsAt, Place
  <2>5. /\ pc' = [pc EXCEPT ![h] = "delete"] /\ task' = [task EXCEPT ![h] = t] /\ begun' = begun
    BY <1>2, <2>1, <2>2 DEF SyncRead, Move
  <2>6. pc'[h] = "delete" /\ task'[h] = t /\ begun' \in 0..Work
    BY <2>5 DEF IInv, TypeOK
  <2>7. HandlerFits(h)'
    BY <2>3, <2>6 DEF HandlerFits, RecalculationFits, ReviewFits, IsJudging
  <2> QED BY <1>1, <2>4, <2>5, <2>6, <2>7, QuietStep DEF scheduleVars, referenceVars
<1>3. CASE rows[task[h].row].type # "UTILITY"
  <2>1. /\ pc' = [pc EXCEPT ![h] = "idle"] /\ task' = [task EXCEPT ![h] = NoTask] /\ begun' = begun
    BY <1>3 DEF SyncRead, Finish
  <2>2. "idle" \in Place /\ FitsAt("idle", NoTask)
    BY DEF Place, FitsAt
  <2>3. pc'[h] = "idle" /\ begun' \in 0..Work
    BY <2>1 DEF IInv, TypeOK
  <2>4. HandlerFits(h)'
    BY <2>3 DEF HandlerFits, RecalculationFits, ReviewFits, IsJudging
  <2> QED BY <1>1, <2>1, <2>2, <2>3, <2>4, QuietStep DEF scheduleVars, referenceVars
<1> QED BY <1>2, <1>3

LEMMA SyncWaitKeeps ==
  ASSUME IInv, NEW h \in Handler, SyncWait(h), UNCHANGED referenceVars
  PROVE  IInv'
<1>1. /\ UNCHANGED <<events, begun, pc, stale, skewed, scheduleVars, referenceVars>> /\ pc[h] = "delete"
      /\ task' = [task EXCEPT ![h].met = Family(UtilityRules)]
  BY DEF SyncWait, Wait
<1>2. PICK here : here = Family(UtilityRules)
  OBVIOUS
<1>3. PICK t : t = [task[h] EXCEPT !.met = here]
  OBVIOUS
<1>4. TypeOK /\ task[h] \in SyncTask /\ here \subseteq Event
  BY <1>1, <1>2 DEF IInv, TypeOK, Family
<1>5. t \in SyncTask /\ t.met = here
  BY <1>3, <1>4 DEF SyncTask
<1>6. FitsAt("delete", t) /\ "delete" \in Place
  BY <1>5 DEF FitsAt, Place
<1>7. /\ pc' = [pc EXCEPT ![h] = "delete"] /\ task' = [task EXCEPT ![h] = t]
  BY <1>1, <1>2, <1>3, <1>4 DEF TypeOK
<1>8. pc'[h] = "delete" /\ task'[h] = t /\ begun' \in 0..Work
  BY <1>1, <1>4, <1>7 DEF TypeOK
<1>9. SystemOf(UtilityRules)' \subseteq here
  BY <1>1, <1>2 DEF SystemOf, BySystem, Family
<1>10. HandlerFits(h)'
  BY <1>5, <1>8, <1>9 DEF HandlerFits, RecalculationFits, ReviewFits, IsJudging
<1> QED BY <1>1, <1>6, <1>7, <1>8, <1>10, QuietStep DEF scheduleVars, referenceVars

\* A transaction goes on: what it is about stays, its replacements and events are new.
Continued(t, todo, seen, met, made) ==
    [t EXCEPT !.todo = todo, !.seen = seen, !.met = met, !.made = made]

LEMMA WorkUpdate ==
  ASSUME NEW t \in WorkTask, NEW todo \in Seq(Job), NEW seen \in SUBSET Event,
         NEW met \in SUBSET Event, NEW made \in SUBSET Event,
         NEW u, u = Continued(t, todo, seen, met, made)
  PROVE  /\ u \in WorkTask
         /\ u.todo = todo /\ u.seen = seen /\ u.met = met /\ u.made = made /\ u.about = t.about
         /\ u.about = "payment" => u.row = t.row /\ u.to = t.to
         /\ u.about = "identity" => u.verdict = t.verdict
<1>1. CASE t \in PaymentWork
  <2>1. u \in PaymentWork
    BY <1>1 DEF PaymentWork, Continued
  <2> QED BY <1>1, <2>1 DEF PaymentWork, WorkTask, Continued
<1>2. CASE t \in RespondWork
  <2>1. u \in RespondWork
    BY <1>2 DEF RespondWork, Continued
  <2> QED BY <1>2, <2>1 DEF RespondWork, WorkTask, Continued
<1>3. CASE t \in RateWork
  <2>1. u \in RateWork
    BY <1>3 DEF RateWork, Continued
  <2> QED BY <1>3, <2>1 DEF RateWork, WorkTask, Continued
<1>4. CASE t \in JudgingWork
  <2>1. u \in JudgingWork
    BY <1>4 DEF JudgingWork, Continued
  <2> QED BY <1>4, <2>1 DEF JudgingWork, WorkTask, Continued
<1> QED BY <1>1, <1>2, <1>3, <1>4 DEF WorkTask

\* A step of an open transaction that others do not see.
LEMMA WorkStep ==
  ASSUME IInv, NEW h \in Handler, pc[h] = "open", NEW u \in WorkTask,
         task' = [task EXCEPT ![h] = u], UNCHANGED <<events, begun, pc, stale, skewed, scheduleVars, referenceVars>>,
         u.about = task[h].about, u.about = "payment" => u.row = task[h].row /\ u.to = task[h].to,
         WorkShape(u), Undisturbed(h) => Covered(u), u.about = "identity" => Judged(u),
         \A e \in u.made : e \in task[h].made \/ e.id = Last + 1
  PROVE  IInv'
<1>1. TypeOK /\ HandlerFits(h) /\ AccountLocked
  BY DEF IInv
<1>2. FitsAt("open", u) /\ "open" \in Place
  BY DEF FitsAt, Place
<1>3. /\ pc' = [pc EXCEPT ![h] = "open"] /\ pc'[h] = "open" /\ task'[h] = u /\ begun' \in 0..Work
  BY <1>1 DEF TypeOK
<1>4. u.about = "identity" => \A g \in Handler \ {h} : ~IsJudging(g)
  BY <1>1 DEF AccountLocked, IsJudging
<1>5. Undisturbed(h)' => Undisturbed(h)
  BY <1>3 DEF Undisturbed, IsJudging
<1>6. HandlerFits(h)'
  <2>1. Undisturbed(h)' => Covered(u)'
    BY <1>5 DEF Covered, SystemOf, BySystem, Family
  <2>2. u.about = "identity" => Judged(u)'
    BY DEF Judged, SystemOf, BySystem, Family
  <2>3. ReviewFits(h)'
    BY <1>1, <1>3 DEF HandlerFits, ReviewFits, scheduleVars
  <2> QED BY <1>3, <2>1, <2>2, <2>3 DEF HandlerFits, RecalculationFits, IsJudging
<1> QED BY <1>2, <1>3, <1>4, <1>6, QuietStep DEF scheduleVars, referenceVars

LEMMA ReplaceWaitKeeps ==
  ASSUME IInv, NEW h \in Handler, ReplaceWait(h), UNCHANGED <<scheduleVars, referenceVars>>
  PROVE  IInv'
<1>1. TypeOK /\ HandlerFits(h) /\ pc[h] = "open" /\ task[h].todo # <<>>
  BY DEF IInv, ReplaceWait, Replacing
<1>2. PICK t : t = task[h]
  OBVIOUS
<1>3. /\ t \in WorkTask /\ t.todo \in Seq(Job) /\ t.todo # <<>>
      /\ t.seen \subseteq Event /\ t.met \subseteq Event /\ t.made \subseteq Event
  BY <1>1, <1>2, WorkParts DEF TypeOK
<1>4. Head(t.todo) = t.todo[1]
  BY <1>3
<1>5. PICK here : here = Family(t.todo[1].codes)
  OBVIOUS
<1>6. here \subseteq Event
  BY <1>1, <1>5 DEF TypeOK, Family
<1>7. /\ task' = [task EXCEPT ![h].met = here]
      /\ UNCHANGED <<events, begun, pc, stale, skewed>>
  BY <1>2, <1>4, <1>5 DEF ReplaceWait, Wait, Replaced
<1>8. PICK u : u = Continued(t, t.todo, t.seen, here, t.made)
  OBVIOUS
<1>9. /\ u \in WorkTask
      /\ u.todo = t.todo /\ u.seen = t.seen /\ u.met = here /\ u.made = t.made /\ u.about = t.about
      /\ u.about = "payment" => u.row = t.row /\ u.to = t.to
      /\ u.about = "identity" => u.verdict = t.verdict
  <2>1. PICK todo \in Seq(Job), seen \in SUBSET Event, made \in SUBSET Event :
            todo = t.todo /\ seen = t.seen /\ made = t.made
    BY <1>3
  <2>2. here \in SUBSET Event
    BY <1>6
  <2>3. u = Continued(t, todo, seen, here, made)
    BY <1>8, <2>1
  <2>4. /\ u \in WorkTask
        /\ u.todo = todo /\ u.seen = seen /\ u.met = here /\ u.made = made /\ u.about = t.about
        /\ u.about = "payment" => u.row = t.row /\ u.to = t.to
        /\ u.about = "identity" => u.verdict = t.verdict
    BY <1>3, <2>2, <2>3, WorkUpdate
  <2> QED BY <2>1, <2>4
<1>10. task' = [task EXCEPT ![h] = u]
  <2>1. u = [t EXCEPT !.met = here]
    <3>1. CASE t \in PaymentWork
      BY <1>8, <3>1 DEF PaymentWork, Continued
    <3>2. CASE t \in RespondWork
      BY <1>8, <3>2 DEF RespondWork, Continued
    <3>3. CASE t \in RateWork
      BY <1>8, <3>3 DEF RateWork, Continued
    <3>4. CASE t \in JudgingWork
      BY <1>8, <3>4 DEF JudgingWork, Continued
    <3> QED BY <1>3, <3>1, <3>2, <3>3, <3>4 DEF WorkTask
  <2> QED BY <1>2, <1>7, <2>1
<1>11. WorkShape(u)
  BY <1>1, <1>2, <1>9 DEF HandlerFits, WorkShape
<1>12. Undisturbed(h) => Covered(u)
  <2>1. SystemOf(t.todo[1].codes) \subseteq here
    BY <1>5 DEF SystemOf, BySystem
  <2>2. Undisturbed(h) => Covered(t)
    BY <1>1, <1>2 DEF HandlerFits
  <2> QED BY <1>9, <2>1, <2>2 DEF Covered
<1>13. u.about = "identity" => Judged(u)
  BY <1>1, <1>2, <1>9 DEF HandlerFits, IsJudging, Judged
<1> QED BY <1>1, <1>2, <1>7, <1>9, <1>10, <1>11, <1>12, <1>13, WorkStep

\* The next replacement: what it deletes is all that is kept of the family.
LEMMA ReplaceKeeps ==
  ASSUME IInv, NEW h \in Handler, Replace(h), UNCHANGED <<scheduleVars, referenceVars>>
  PROVE  IInv'
<1>1. TypeOK /\ Numbered /\ HandlerFits(h) /\ pc[h] = "open" /\ task[h].todo # <<>>
  BY DEF IInv, Replace, Replacing
<1>2. PICK t : t = task[h]
  OBVIOUS
<1>3. /\ t \in WorkTask /\ t.todo \in Seq(Job) /\ t.todo # <<>>
      /\ t.seen \subseteq Event /\ t.met \subseteq Event /\ t.made \subseteq Event
  BY <1>1, <1>2, WorkParts DEF TypeOK
<1>4. WorkShape(t) /\ (Undisturbed(h) => Covered(t)) /\ (t.about = "identity" => Judged(t))
  BY <1>1, <1>2 DEF HandlerFits, IsJudging
<1>5. PICK todo, rest : todo = t.todo /\ rest = Tail(t.todo)
  OBVIOUS
<1>6. /\ Head(todo) = todo[1] /\ rest \in Seq(Job) /\ 1 \in 1..Len(todo)
      /\ \A k \in 1..Len(rest) : k + 1 \in 1..Len(todo) /\ k + 1 # 1 /\ rest[k] = todo[k + 1]
  BY <1>3, <1>5
<1>7. PICK F, rule : F = todo[1].codes /\ rule = todo[1].rule
  OBVIOUS
<1>8. /\ F \in Families /\ About(F) = t.about /\ rule \in F \cup {NoRule}
      /\ \A e \in t.made : e.rule \notin F
  BY <1>4, <1>5, <1>6, <1>7 DEF WorkShape
<1>9. PICK gone : gone = Met(h, Replaced(todo[1]))
  OBVIOUS
<1>10. gone \subseteq Event /\ (Undisturbed(h) => SystemOf(F) \subseteq gone)
  <2>1. gone = (IF t.met = {} THEN Family(F) ELSE t.met)
    BY <1>2, <1>7, <1>9 DEF Met, Replaced
  <2>2. Family(F) \subseteq Event
    BY <1>1 DEF TypeOK, Family
  <2>3. SystemOf(F) \subseteq Family(F)
    BY DEF SystemOf, BySystem
  <2>4. Undisturbed(h) /\ t.met # {} => SystemOf(F) \subseteq t.met
    BY <1>3, <1>4, <1>5, <1>7 DEF Covered
  <2> QED BY <1>3, <2>1, <2>2, <2>3, <2>4
<1>11. PICK new : new = New(rule, "SYSTEM")
  OBVIOUS
<1>12. /\ new \subseteq Event
       /\ \A e \in new : e.rule = rule /\ e.by = "SYSTEM" /\ rule # NoRule /\ e.id = Last + 1
       /\ rule = NoRule => new = {}
       /\ rule # NoRule => \E e \in new : new = {e}
  <2>1. rule \in Rule \cup {NoRule} /\ NoRule \notin Rule
    BY <1>8, FamiliesApart DEF NoRule, Rule, DefaultPoints
  <2>2. /\ new \subseteq Event
        /\ \A e \in new : e.rule = rule /\ e.by = "SYSTEM" /\ e.id = Last + 1
        /\ rule = NoRule => new = {}
        /\ rule # NoRule => \E e \in new : new = {e}
    BY <1>1, <1>11, <2>1, NewEvent
  <2> QED BY <2>2
<1>13. PICK seen \in SUBSET Event, made \in SUBSET Event, none \in SUBSET Event :
          seen = t.seen \cup gone /\ made = t.made \cup new /\ none = {}
  BY <1>3, <1>10, <1>12
<1>14. PICK u : u = Continued(t, rest, seen, none, made)
  OBVIOUS
<1>15. /\ u \in WorkTask
       /\ u.todo = rest /\ u.seen = seen /\ u.met = {} /\ u.made = made /\ u.about = t.about
       /\ u.about = "payment" => u.row = t.row /\ u.to = t.to
       /\ u.about = "identity" => u.verdict = t.verdict
  BY <1>3, <1>6, <1>13, <1>14, WorkUpdate
<1>16. task' = [task EXCEPT ![h] = u] /\ UNCHANGED <<events, begun, pc, stale, skewed>>
  <2>1. task' = [task EXCEPT ![h].todo = Tail(@), ![h].seen = @ \cup gone, ![h].met = {},
                             ![h].made = @ \cup new]
    BY <1>2, <1>5, <1>6, <1>7, <1>9, <1>11 DEF Replace
  <2>2. task \in [Handler -> Task]
    BY <1>1 DEF TypeOK
  <2>3. task' = [task EXCEPT ![h] = [t EXCEPT !.todo = Tail(@), !.seen = @ \cup gone, !.met = {},
                                              !.made = @ \cup new]]
    BY <1>2, <2>1, <2>2
  <2>4. u = [t EXCEPT !.todo = Tail(@), !.seen = @ \cup gone, !.met = {}, !.made = @ \cup new]
    <3>1. CASE t \in PaymentWork
      BY <1>5, <1>13, <1>14, <3>1 DEF PaymentWork, Continued
    <3>2. CASE t \in RespondWork
      BY <1>5, <1>13, <1>14, <3>2 DEF RespondWork, Continued
    <3>3. CASE t \in RateWork
      BY <1>5, <1>13, <1>14, <3>3 DEF RateWork, Continued
    <3>4. CASE t \in JudgingWork
      BY <1>5, <1>13, <1>14, <3>4 DEF JudgingWork, Continued
    <3> QED BY <1>3, <3>1, <3>2, <3>3, <3>4 DEF WorkTask
  <2> QED BY <2>3, <2>4 DEF Replace
<1>17. WorkShape(u)
  <2>1. ASSUME NEW k \in 1..Len(rest)
        PROVE  /\ rest[k].codes \in Families /\ About(rest[k].codes) = u.about
               /\ rest[k].rule \in rest[k].codes \cup {NoRule}
               /\ \A e \in made : e.rule \notin rest[k].codes
               /\ \A j \in 1..Len(rest) : rest[j].codes = rest[k].codes => j = k
    <3>1. /\ rest[k].codes \in Families /\ About(rest[k].codes) = t.about
          /\ rest[k].rule \in rest[k].codes \cup {NoRule}
          /\ \A e \in t.made : e.rule \notin rest[k].codes
          /\ rest[k].codes # F
      BY <1>4, <1>5, <1>6, <1>7 DEF WorkShape
    <3>2. \A e \in new : e.rule \notin rest[k].codes
      BY <1>8, <1>12, <3>1, FamiliesApart
    <3>3. \A j \in 1..Len(rest) : rest[j].codes = rest[k].codes => j + 1 = k + 1
      BY <1>4, <1>5, <1>6 DEF WorkShape
    <3>4. \A j \in 1..Len(rest) : j \in Int /\ k \in Int
      OBVIOUS
    <3> QED BY <1>13, <1>15, <3>1, <3>2, <3>3, <3>4
  <2>2. \A e \in made : e.by = "SYSTEM" /\ \E G \in Families : About(G) = u.about /\ e.rule \in G
    <3>1. \A e \in t.made : e.by = "SYSTEM" /\ \E G \in Families : About(G) = t.about /\ e.rule \in G
      BY <1>4 DEF WorkShape
    <3>2. \A e \in new : e.by = "SYSTEM" /\ About(F) = t.about /\ e.rule \in F
      BY <1>8, <1>12
    <3> QED BY <1>8, <1>13, <1>15, <3>1, <3>2
  <2> QED BY <1>15, <2>1, <2>2 DEF WorkShape
<1>18. Undisturbed(h) => Covered(u)
  <2> SUFFICES ASSUME Undisturbed(h), NEW G \in Families, About(G) = t.about
               PROVE  \/ \A e \in made : e.rule \notin G
                      \/ SystemOf(G) \subseteq seen /\ Same({e \in made : e.rule \in G})
    BY <1>15 DEF Covered
  <2>1. CASE G = F
    <3>1. SystemOf(F) \subseteq seen
      BY <1>10, <1>13
    <3>2. \A d, e \in {x \in made : x.rule \in F} : d = e
      BY <1>8, <1>12, <1>13
    <3> QED BY <2>1, <3>1, <3>2 DEF Same
  <2>2. CASE G # F
    <3>1. \A e \in new : e.rule \notin G
      BY <1>8, <1>12, <2>2, FamiliesApart
    <3>2. \/ \A e \in t.made : e.rule \notin G
          \/ SystemOf(G) \subseteq t.seen /\ Same({e \in t.made : e.rule \in G})
      BY <1>4 DEF Covered
    <3>3. {e \in made : e.rule \in G} = {e \in t.made : e.rule \in G}
      BY <1>13, <3>1
    <3>4. CASE \A e \in t.made : e.rule \notin G
      BY <1>13, <3>1, <3>4
    <3>5. CASE SystemOf(G) \subseteq t.seen /\ Same({e \in t.made : e.rule \in G})
      BY <1>13, <3>3, <3>5
    <3> QED BY <3>2, <3>4, <3>5
  <2> QED BY <2>1, <2>2
<1>19. u.about = "identity" => Judged(u)
  <2> SUFFICES ASSUME t.about = "identity" PROVE Judged(u)
    BY <1>15
  <2>1. PICK v : v = t.verdict
    OBVIOUS
  <2>2. todo = Judging(v).todo /\ t.made = {}
    BY <1>3, <1>4, <1>5, <2>1 DEF Judged
  <2>3. todo = <<[codes |-> {IdentityCode}, rule |-> IF v = "APPROVED" THEN IdentityCode ELSE NoRule]>>
    BY <2>2 DEF Judging
  <2>4. F = {IdentityCode} /\ rule = (IF v = "APPROVED" THEN IdentityCode ELSE NoRule) /\ rest = <<>>
    BY <1>5, <1>7, <2>3
  <2>5. Undisturbed(h)
    BY <1>1, <1>2 DEF Undisturbed, IsJudging
  <2>6. SystemOf({IdentityCode}) \subseteq seen
    BY <1>10, <1>13, <2>4, <2>5
  <2>7. IdentityCode # NoRule
    BY DEF IdentityCode, NoRule
  <2>8. made = new
    BY <1>13, <2>2
  <2>9. v = "APPROVED" => \E e \in made : made = {e} /\ e.rule = IdentityCode
    BY <1>12, <2>4, <2>7, <2>8
  <2>10. v # "APPROVED" => made = {}
    BY <1>12, <2>4, <2>8
  <2> QED BY <1>15, <2>1, <2>4, <2>6, <2>9, <2>10 DEF Judged
<1>20. \A e \in u.made : e \in task[h].made \/ e.id = Last + 1
  BY <1>2, <1>12, <1>13, <1>15
<1> QED BY <1>1, <1>2, <1>15, <1>16, <1>17, <1>18, <1>19, <1>20, WorkStep

-----------------------------------------------------------------------------
(* Writes.                                                                  *)

Topic == {"payment", "proof", "reference", "behaviour", "identity"}

\* A write overtakes whoever else is about the same thing.
LEMMA WriteOvertakes ==
  ASSUME TypeOK, NEW h \in Handler, NEW about \in Topic, Written(h, about)
  PROVE  /\ stale' \subseteq Handler /\ skewed' \subseteq Topic /\ skewed \subseteq skewed'
         /\ about \notin skewed' => about \notin skewed /\ h \notin stale
         /\ \A g \in Handler \ {h} : g \in stale => g \in stale'
         /\ \A g \in Handler \ {h} : g \notin stale' => pc[g] = "idle" \/ task[g].about # about
<1>1. stale \subseteq Handler /\ skewed \subseteq Topic
  BY DEF TypeOK, Topic
<1>2. /\ skewed' = IF h \in stale THEN skewed \cup {about} ELSE skewed
      /\ stale' = (stale \cup {g \in Handler : pc[g] # "idle" /\ task[g].about = about}) \ {h}
  BY DEF Written
<1> QED BY <1>1, <1>2

\* A step of a request that writes rows, and no events.
LEMMA RowsStep ==
  ASSUME IInv, NEW h \in Handler, NEW at \in {"idle", "paid"}, NEW t, FitsAt(at, t),
         pc' = [pc EXCEPT ![h] = at], task' = [task EXCEPT ![h] = t],
         UNCHANGED <<events, identity, today>>, begun' \in 0..Work,
         rows' \in Seq(Row), Len(rows') <= Rows, requests' \in Seq(Answer), Len(requests') <= References,
         stale' \subseteq Handler, skewed' \subseteq Topic, skewed \subseteq skewed',
         \A g \in Handler \ {h} : (g \in stale => g \in stale') /\ UntouchedRow(g)
  PROVE  IInv'
<1>1. TypeOK /\ AccountLocked /\ OneEach
  BY DEF IInv
<1>2. at \in Place
  BY DEF Place
<1>3. /\ pc' \in [Handler -> Place] /\ task' \in [Handler -> Task]
      /\ \A g \in Handler : FitsAt(pc'[g], task'[g])
      /\ pc'[h] = at /\ task'[h] = t
      /\ \A g \in Handler \ {h} : pc'[g] = pc[g] /\ task'[g] = task[g]
  BY <1>1, <1>2, OneMoves
<1>4. \A F : SystemOf(F)' = SystemOf(F)
  BY DEF SystemOf, BySystem, Family
<1>5. \A g \in Handler \ {h} : UntouchedEvents(g)
  BY <1>4 DEF UntouchedEvents
<1>6. \A e \in events' \cup InFlight' : e.id <= Last + 1
  BY <1>3, NumbersKept
<1>7. AccountLocked'
  BY <1>1, <1>3 DEF AccountLocked, IsJudging
<1>8. OneEach'
  BY <1>1, <1>4 DEF OneEach
<1>9. events' \subseteq Event /\ today' \in Day /\ identity' \in Identity
  BY <1>1 DEF TypeOK
<1>10. HandlerFits(h)'
  BY <1>3 DEF HandlerFits, RecalculationFits, ReviewFits, IsJudging
<1>11. \A g \in Handler : Rests(g) \/ HandlerFits(g)'
  BY <1>3, <1>5, <1>10 DEF Rests
<1>12. skewed' \subseteq {"payment", "proof", "reference", "behaviour", "identity"}
  BY DEF Topic
<1> QED BY <1>3, <1>6, <1>7, <1>8, <1>9, <1>11, <1>12, Assemble

\* A step of no request.
LEMMA UnmovedStep ==
  ASSUME IInv, UNCHANGED <<pc, task, skewed, requests, identity>>,
         events' \subseteq Event, \A F \in Families : SystemOf(F)' \subseteq SystemOf(F),
         \A e \in events' : e \in events \/ e.id = Last + 1,
         begun' \in 0..Work, rows' \in Seq(Row), Len(rows') <= Rows, today' \in Day,
         stale' \subseteq Handler, stale \subseteq stale', \A g \in Handler : UntouchedRow(g)
  PROVE  IInv'
<1>1. TypeOK /\ AccountLocked /\ OneEach /\ Numbered
  BY DEF IInv
<1>2. /\ pc' \in [Handler -> Place] /\ task' \in [Handler -> Task]
      /\ \A g \in Handler : FitsAt(pc'[g], task'[g])
  <2>1. pc \in [Handler -> Place] /\ task \in [Handler -> Task]
    BY <1>1 DEF TypeOK, Place
  <2> QED BY <1>1, <2>1, Fits
<1>3. \A g \in Handler : UntouchedEvents(g)
  BY DEF UntouchedEvents
<1>4. \A e \in events' \cup InFlight' : e.id <= Last + 1
  <2>1. PICK last : last = Last
    OBVIOUS
  <2>2. /\ last \in Nat /\ \A e \in events \cup InFlight : e.id <= last
        /\ \A e \in events \cup InFlight : e \in Event
    BY <1>1, <2>1, Numbers DEF TypeOK
  <2>3. \A e \in events \cup InFlight : e.id <= last + 1
    <3>1. \A e \in events \cup InFlight : e.id \in Nat
      BY <2>2 DEF Event
    <3> QED BY <2>2, <3>1
  <2>4. InFlight' = InFlight
    BY DEF InFlight
  <2>5. last + 1 <= last + 1
    BY <2>2
  <2> QED BY <2>1, <2>3, <2>4, <2>5
<1>5. AccountLocked'
  BY <1>1 DEF AccountLocked, IsJudging
<1>6. OneEach'
  BY <1>1 DEF OneEach, Same
<1>7. /\ requests' \in Seq(Answer) /\ Len(requests') <= References /\ identity' \in Identity
      /\ skewed' \subseteq {"payment", "proof", "reference", "behaviour", "identity"}
  BY <1>1 DEF TypeOK
<1>8. \A g \in Handler : Rests(g)
  BY <1>3 DEF Rests
<1> QED BY <1>2, <1>4, <1>5, <1>6, <1>7, <1>8, Assemble

LEMMA ConfirmKeeps ==
  ASSUME IInv, NEW h \in Handler, NEW i \in 1..Len(rows), NEW paid \in Day, Confirm(h, i, paid),
         UNCHANGED referenceVars
  PROVE  IInv'
<1>1. TypeOK
  BY DEF IInv
<1>2. PICK t : t = [about |-> "payment", row |-> i]
  OBVIOUS
<1>3. FitsAt("paid", t)
  <2>1. t \in ConfirmTask
    BY <1>2 DEF ConfirmTask
  <2> QED BY <2>1 DEF FitsAt
<1>4. /\ pc' = [pc EXCEPT ![h] = "paid"] /\ task' = [task EXCEPT ![h] = t] /\ begun' \in 0..Work
  BY <1>1, <1>2, EventsAssumption DEF Confirm, Begin, TypeOK
<1>5. PICK r : r = [rows[i] EXCEPT !.status = "PAID", !.paid = paid]
  OBVIOUS
<1>6. rows \in Seq(Row) /\ rows[i] \in Columns
  BY <1>1 DEF TypeOK, Row
<1>7. r \in Row
  <2>1. r \in Columns /\ r.status = "PAID" /\ r.paid = paid
    BY <1>5, <1>6 DEF Columns
  <2> QED BY <2>1, DayTyped DEF Row, Dated
<1>8. rows' = [rows EXCEPT ![i] = r]
  BY <1>5, <1>6 DEF Confirm
<1>9. rows' \in Seq(Row) /\ Len(rows') = Len(rows)
  BY <1>6, <1>7, <1>8
<1>10. /\ stale' \subseteq Handler /\ skewed' \subseteq Topic /\ skewed \subseteq skewed'
       /\ \A g \in Handler \ {h} : g \in stale => g \in stale'
       /\ \A g \in Handler \ {h} : g \notin stale' => pc[g] = "idle" \/ task[g].about # "payment"
  <2>1. Written(h, "payment") /\ "payment" \in Topic
    BY DEF Confirm, Topic
  <2> QED BY <1>1, <2>1, WriteOvertakes
<1>11. \A g \in Handler \ {h} : UntouchedRow(g)
  <2>1. Len(rows) <= Len(rows')
    BY <1>6, <1>9
  <2> QED BY <1>10, <2>1 DEF UntouchedRow
<1>12. UNCHANGED <<events, identity, today, requests>>
  BY DEF Confirm, referenceVars
<1>13. requests' \in Seq(Answer) /\ Len(requests') <= References /\ Len(rows') <= Rows
  BY <1>1, <1>9, <1>12 DEF TypeOK
<1> QED BY <1>3, <1>4, <1>9, <1>10, <1>11, <1>12, <1>13, RowsStep

LEMMA ProveWriteKeeps ==
  ASSUME IInv, NEW h \in Handler, ProveWrite(h), UNCHANGED referenceVars
  PROVE  IInv'
<1>1. TypeOK
  BY DEF IInv
<1>2. FitsAt("idle", NoTask)
  BY DEF FitsAt
<1>3. /\ pc' = [pc EXCEPT ![h] = "idle"] /\ task' = [task EXCEPT ![h] = NoTask] /\ begun' \in 0..Work
  BY <1>1 DEF ProveWrite, Finish, TypeOK
<1>4. PICK i : i = task[h].row
  OBVIOUS
<1>5. rows \in Seq(Row) /\ Len(rows) \in Nat
  BY <1>1 DEF TypeOK
<1>11. rows' = [rows EXCEPT ![i].sent = TRUE]
  BY <1>4 DEF ProveWrite
<1>6. /\ rows' \in Seq(Row) /\ Len(rows') = Len(rows)
      /\ \A k \in 1..Len(rows) : rows'[k].outcome = rows[k].outcome
  <2>1. CASE i \in 1..Len(rows)
    <3>1. PICK r : r = [rows[i] EXCEPT !.sent = TRUE]
      OBVIOUS
    <3>2. rows[i] \in Columns /\ Dated(rows[i])
      BY <1>5, <2>1 DEF Row
    <3>3. r \in Columns /\ r.status = rows[i].status /\ r.paid = rows[i].paid /\ r.sent = TRUE
          /\ r.outcome = rows[i].outcome
      BY <3>1, <3>2 DEF Columns
    <3>4. r \in Row
      BY <3>2, <3>3 DEF Row, Dated
    <3>5. rows' = [rows EXCEPT ![i] = r]
      BY <1>11, <3>1
    <3>6. rows' \in Seq(Row) /\ Len(rows') = Len(rows)
      BY <1>5, <2>1, <3>4, <3>5
    <3>7. rows'[i].outcome = rows[i].outcome
      BY <1>5, <2>1, <3>3, <3>5
    <3>8. \A k \in 1..Len(rows) \ {i} : rows'[k] = rows[k]
      BY <1>5, <2>1, <3>5
    <3> QED BY <3>6, <3>7, <3>8
  <2>2. CASE i \notin 1..Len(rows)
    <3>1. rows' = rows
      BY <1>5, <1>11, <2>2
    <3> QED BY <1>5, <3>1
  <2> QED BY <2>1, <2>2
<1>7. /\ stale' \subseteq Handler /\ skewed' \subseteq Topic /\ skewed \subseteq skewed'
      /\ \A g \in Handler \ {h} : g \in stale => g \in stale'
  <2>1. Written(h, "proof") /\ "proof" \in Topic
    BY DEF ProveWrite, Topic
  <2> QED BY <1>1, <2>1, WriteOvertakes
<1>8. \A g \in Handler \ {h} : UntouchedRow(g)
  <2>1. Len(rows) <= Len(rows')
    BY <1>5, <1>6
  <2> QED BY <1>6, <2>1 DEF UntouchedRow
<1>9. UNCHANGED <<events, identity, today, requests>>
  BY DEF ProveWrite, referenceVars
<1>10. requests' \in Seq(Answer) /\ Len(requests') <= References /\ Len(rows') <= Rows
  BY <1>1, <1>6, <1>9 DEF TypeOK
<1> QED BY <1>2, <1>3, <1>6, <1>7, <1>8, <1>9, <1>10, RowsStep

LEMMA AskCommitKeeps ==
  ASSUME IInv, NEW h \in Handler, AskCommit(h), UNCHANGED scheduleVars
  PROVE  IInv'
<1>1. TypeOK
  BY DEF IInv
<1>2. FitsAt("idle", NoTask)
  BY DEF FitsAt
<1>3. /\ pc' = [pc EXCEPT ![h] = "idle"] /\ task' = [task EXCEPT ![h] = NoTask] /\ begun' \in 0..Work
  BY <1>1 DEF AskCommit, Finish, TypeOK
<1>4. UNCHANGED <<events, identity, today, rows, stale, skewed>>
  BY DEF AskCommit, scheduleVars
<1>5. requests' \in Seq(Answer) /\ Len(requests') <= References
  <2>1. [status |-> "PENDING", recommendation |-> NoRecommendation] \in Answer
    BY DEF Answer
  <2>2. requests \in Seq(Answer) /\ Len(requests) < References
    BY <1>1 DEF TypeOK, AskCommit
  <2> QED BY <2>1, <2>2, ReferenceAssumption DEF AskCommit
<1>6. \A g \in Handler \ {h} : UntouchedRow(g)
  BY <1>1, <1>4 DEF UntouchedRow, TypeOK
<1>7. /\ rows' \in Seq(Row) /\ Len(rows') <= Rows
      /\ stale' \subseteq Handler /\ skewed' \subseteq Topic
  BY <1>1, <1>4 DEF TypeOK, Topic
<1> QED BY <1>2, <1>3, <1>4, <1>5, <1>6, <1>7, RowsStep

LEMMA SelfInitiateKeeps ==
  ASSUME IInv, NEW type \in PaymentType, NEW paid \in Day, SelfInitiate(type, paid),
         UNCHANGED referenceVars
  PROVE  IInv'
<1>1. TypeOK
  BY DEF IInv
<1>2. PICK r : r = [Fresh(type, paid) EXCEPT !.paid = paid, !.sent = TRUE]
  OBVIOUS
<1>3. r \in Row /\ r.outcome = "NONE"
  <2>1. Fresh(type, paid) \in Columns /\ Fresh(type, paid).outcome = "NONE"
    BY DayTyped DEF Fresh, Columns
  <2>2. r \in Columns /\ r.paid = paid /\ r.sent = TRUE /\ r.outcome = "NONE"
    BY <1>2, <2>1 DEF Columns
  <2> QED BY <2>2, DayTyped DEF Row, Dated
<1>4. rows' = Append(rows, r) /\ rows \in Seq(Row) /\ Len(rows) < Rows
  BY <1>1, <1>2 DEF SelfInitiate, TypeOK
<1>5. /\ rows' \in Seq(Row) /\ Len(rows') = Len(rows) + 1 /\ Len(rows) \in Nat
      /\ \A k \in 1..Len(rows) : rows'[k] = rows[k]
      /\ rows'[Len(rows) + 1] = r
  BY <1>3, <1>4
<1>6. \A g \in Handler : UntouchedRow(g)
  <2>1. Len(rows) <= Len(rows')
    BY <1>5
  <2>2. \A k \in 1..Len(rows') : rows'[k].outcome = "NONE"
            \/ (k \in 1..Len(rows) /\ rows'[k].outcome = rows[k].outcome)
    <3> SUFFICES ASSUME NEW k \in 1..Len(rows')
                 PROVE  rows'[k].outcome = "NONE"
                            \/ (k \in 1..Len(rows) /\ rows'[k].outcome = rows[k].outcome)
      OBVIOUS
    <3>1. k \in 1..Len(rows) \/ k = Len(rows) + 1
      BY <1>5
    <3>2. CASE k \in 1..Len(rows)
      BY <1>5, <3>2
    <3>3. CASE k = Len(rows) + 1
      BY <1>3, <1>5, <3>3
    <3> QED BY <3>1, <3>2, <3>3
  <2> QED BY <2>1, <2>2 DEF UntouchedRow
<1>7. UNCHANGED <<events, pc, task, skewed, today, requests, identity>>
  BY DEF SelfInitiate, referenceVars
<1>8. stale' \subseteq Handler /\ stale \subseteq stale'
  BY <1>1 DEF SelfInitiate, TypeOK
<1>9. begun' \in 0..Work /\ Len(rows') <= Rows
  BY <1>1, <1>4, <1>5, EventsAssumption, ScheduleAssumption DEF SelfInitiate, TypeOK
<1>10. \A F \in Families : SystemOf(F)' \subseteq SystemOf(F)
  BY <1>7 DEF SystemOf, BySystem, Family
<1>11. events' \subseteq Event /\ today' \in Day
  BY <1>1, <1>7 DEF TypeOK
<1> QED BY <1>5, <1>6, <1>7, <1>8, <1>9, <1>10, <1>11, UnmovedStep

-----------------------------------------------------------------------------
(* Commits.                                                                 *)

LEMMA SystemEvents ==
  /\ \A F, e : e \in SystemOf(F) <=> e \in events /\ e.rule \in F /\ e.by = "SYSTEM"
  /\ \A F, e : e \in SystemOf(F)' <=> e \in events' /\ e.rule \in F /\ e.by = "SYSTEM"
BY DEF SystemOf, BySystem, Family

\* A transaction commits its replacements.
LEMMA CommitStep ==
  ASSUME IInv, NEW h \in Handler, pc[h] = "open", CommitEvents(h), Finish(h),
         Written(h, task[h].about), UNCHANGED today,
         rows' \in Seq(Row), Len(rows') <= Rows,
         requests' \in Seq(Answer), Len(requests') <= References, identity' \in Identity,
         \A g \in Handler \ {h} : UntouchedRow(g)
  PROVE  IInv'
<1>1. TypeOK /\ AccountLocked /\ OneEach
  BY DEF IInv
<1>2. PICK t : t = task[h]
  OBVIOUS
<1>3. /\ t \in WorkTask /\ t.todo = <<>> /\ WorkShape(t)
      /\ h \notin stale => Covered(t)
  <2>1. HandlerFits(h) /\ t \in WorkTask
    BY <1>1, <1>2 DEF IInv, TypeOK
  <2> QED BY <1>2, <2>1 DEF HandlerFits, Undisturbed, CommitEvents
<1>4. /\ pc' \in [Handler -> Place] /\ task' \in [Handler -> Task]
      /\ \A g \in Handler : FitsAt(pc'[g], task'[g])
      /\ pc'[h] = "idle" /\ task'[h] = NoTask
      /\ \A g \in Handler \ {h} : pc'[g] = pc[g] /\ task'[g] = task[g]
  <2>1. FitsAt("idle", NoTask) /\ "idle" \in Place
    BY DEF FitsAt, Place
  <2>2. pc' = [pc EXCEPT ![h] = "idle"] /\ task' = [task EXCEPT ![h] = NoTask]
    BY DEF Finish
  <2> QED BY <1>1, <2>1, <2>2, OneMoves
<1>5. events' = (events \ t.seen) \cup t.made /\ begun' = begun
  BY <1>2 DEF CommitEvents, Finish
<1>6. t.made \subseteq Event /\ t.made \subseteq InFlight
      /\ t.about \in {"payment", "reference", "behaviour", "identity"}
  BY <1>2, <1>3, WorkParts DEF InFlight
<1>7. events' \subseteq Event /\ begun' \in 0..Work /\ today' \in Day
  BY <1>1, <1>5, <1>6 DEF TypeOK
<1>8. \A e \in events' \cup InFlight' : e.id <= Last + 1
  <2>1. \A e \in events' : e \in events \cup InFlight \/ e.id = Last + 1
    BY <1>5, <1>6
  <2>2. pc'[h] # "open"
    BY <1>4
  <2> QED BY <1>4, <2>1, <2>2, NumbersKept
<1>9. /\ stale' \subseteq Handler /\ skewed' \subseteq Topic /\ skewed \subseteq skewed'
      /\ t.about \notin skewed' => t.about \notin skewed /\ h \notin stale
      /\ \A g \in Handler \ {h} : g \in stale => g \in stale'
      /\ \A g \in Handler \ {h} : g \notin stale' => pc[g] = "idle" \/ task[g].about # t.about
  <2>1. Written(h, t.about) /\ t.about \in Topic
    BY <1>2, <1>6 DEF Topic
  <2> QED BY <1>1, <2>1, WriteOvertakes
<1>10. \A F \in Families : About(F) # t.about => SystemOf(F)' \subseteq SystemOf(F)
  <2> SUFFICES ASSUME NEW F \in Families, About(F) # t.about, NEW e \in SystemOf(F)'
               PROVE  e \in SystemOf(F)
    OBVIOUS
  <2>1. e \in events' /\ e.rule \in F /\ e.by = "SYSTEM"
    BY SystemEvents
  <2>2. e \notin t.made
    <3> SUFFICES ASSUME e \in t.made PROVE FALSE
      OBVIOUS
    <3>1. PICK G \in Families : About(G) = t.about /\ e.rule \in G
      BY <1>3 DEF WorkShape
    <3>2. F = G
      BY <2>1, <3>1, FamiliesApart
    <3> QED BY <3>1, <3>2
  <2>3. e \in events
    BY <1>5, <2>1, <2>2
  <2> QED BY <2>1, <2>3, SystemEvents
<1>11. \A g \in Handler \ {h} : UntouchedEvents(g)
  <2> SUFFICES ASSUME NEW g \in Handler \ {h}, NEW F \in Families, pc[g] # "idle",
                      About(F) = task[g].about, g \notin stale' \/ IsJudging(g)
               PROVE  About(F) # t.about
    BY <1>10 DEF UntouchedEvents
  <2>1. CASE g \notin stale'
    BY <1>9, <2>1
  <2>2. CASE IsJudging(g)
    <3>1. ~IsJudging(h)
      BY <1>1, <2>2 DEF AccountLocked
    <3> QED BY <1>2, <2>2, <3>1 DEF IsJudging
  <2> QED BY <2>1, <2>2
<1>12. OneEach'
  <2> SUFFICES ASSUME NEW F \in Families, About(F) \notin skewed' PROVE Same(SystemOf(F)')
    BY DEF OneEach, Same
  <2>1. Same(SystemOf(F))
    BY <1>1, <1>9 DEF OneEach
  <2>2. CASE About(F) # t.about
    BY <1>10, <2>1, <2>2 DEF Same
  <2>3. CASE About(F) = t.about
    <3>1. Covered(t)
      BY <1>3, <1>9, <2>3
    <3>2. \/ \A e \in t.made : e.rule \notin F
          \/ SystemOf(F) \subseteq t.seen /\ Same({e \in t.made : e.rule \in F})
      BY <2>3, <3>1 DEF Covered
    <3>3. CASE \A e \in t.made : e.rule \notin F
      <4>1. SystemOf(F)' \subseteq SystemOf(F)
        BY <1>5, <3>3, SystemEvents
      <4> QED BY <2>1, <4>1 DEF Same
    <3>4. CASE SystemOf(F) \subseteq t.seen /\ Same({e \in t.made : e.rule \in F})
      <4>1. \A e \in SystemOf(F)' : e \in t.made /\ e.rule \in F
        BY <1>5, <3>4, SystemEvents
      <4> QED BY <3>4, <4>1 DEF Same
    <3> QED BY <3>2, <3>3, <3>4
  <2> QED BY <2>2, <2>3
<1>13. HandlerFits(h)'
  BY <1>4 DEF HandlerFits, RecalculationFits, ReviewFits, IsJudging
<1>14. AccountLocked'
  BY <1>1, <1>4 DEF AccountLocked, IsJudging
<1>15. \A g \in Handler : Rests(g) \/ HandlerFits(g)'
  BY <1>4, <1>9, <1>11, <1>13 DEF Rests
<1>16. skewed' \subseteq {"payment", "proof", "reference", "behaviour", "identity"}
  BY <1>9 DEF Topic
<1> QED BY <1>4, <1>7, <1>8, <1>9, <1>12, <1>14, <1>15, <1>16, Assemble

\* An update of one element, or of none that is there.
Updated(s, i, x) == [s EXCEPT ![i] = x]

LEMMA OneUpdated ==
  ASSUME NEW S, NEW s \in Seq(S), NEW x \in S, NEW i
  PROVE  Updated(s, i, x) \in Seq(S) /\ Len(Updated(s, i, x)) = Len(s)
<1>1. CASE i \in 1..Len(s)
  BY <1>1 DEF Updated
<1>2. CASE i \notin 1..Len(s)
  <2>1. Updated(s, i, x) = s
    BY <1>2 DEF Updated
  <2> QED BY <2>1
<1> QED BY <1>1, <1>2

LEMMA PaymentCommitKeeps ==
  ASSUME IInv, NEW h \in Handler, PaymentCommit(h), UNCHANGED referenceVars
  PROVE  IInv'
<1>1. TypeOK
  BY DEF IInv
<1>2. PICK i, to : i = task[h].row /\ to = task[h].to
  OBVIOUS
<1>3. pc[h] = "open" /\ task[h].about = "payment" /\ Written(h, "payment")
  BY DEF PaymentCommit
<1>4. i \in Nat /\ to \in Seq(Row) /\ to # <<>>
  <2>1. task[h] \in PaymentWork
    BY <1>1, <1>3, WorkParts DEF TypeOK
  <2> QED BY <1>2, <2>1 DEF PaymentWork
<1>5. rows \in Seq(Row) /\ Len(rows) \in Nat
  BY <1>1 DEF TypeOK
<1>6. rows' = View(i, to) /\ Len(rows') <= Rows
  BY <1>2 DEF PaymentCommit
<1>7. rows' \in Seq(Row) /\ Len(rows) <= Len(rows')
  <2>1. CASE i = 0
    BY <1>4, <1>5, <1>6, <2>1 DEF View
  <2>2. CASE i # 0
    <3>1. rows' = [rows EXCEPT ![i] = to[1]]
      BY <1>6, <2>2 DEF View
    <3>2. to[1] \in Row
      BY <1>4
    <3>3. rows' = Updated(rows, i, to[1])
      BY <3>1 DEF Updated
    <3>4. rows' \in Seq(Row) /\ Len(rows') = Len(rows)
      BY <1>5, <3>2, <3>3, OneUpdated
    <3> QED BY <1>5, <3>4
  <2> QED BY <2>1, <2>2
<1>8. \A g \in Handler \ {h} : UntouchedRow(g)
  <2>1. \A g \in Handler \ {h} : g \notin stale' => pc[g] = "idle" \/ task[g].about # "payment"
    BY <1>1, <1>3, WriteOvertakes DEF Topic
  <2> QED BY <1>7, <2>1 DEF UntouchedRow
<1>9. requests' \in Seq(Answer) /\ Len(requests') <= References /\ identity' \in Identity
  BY <1>1 DEF TypeOK, referenceVars
<1>10. CommitEvents(h) /\ Finish(h) /\ UNCHANGED today
  BY DEF PaymentCommit
<1> QED BY <1>3, <1>6, <1>7, <1>8, <1>9, <1>10, CommitStep

\* A commit that writes no row.
LEMMA RowsStay ==
  ASSUME TypeOK, UNCHANGED rows
  PROVE  /\ rows' \in Seq(Row) /\ Len(rows') <= Rows
         /\ \A g : UntouchedRow(g)
BY DEF TypeOK, UntouchedRow

LEMMA RespondCommitKeeps ==
  ASSUME IInv, NEW h \in Handler, RespondCommit(h), UNCHANGED scheduleVars
  PROVE  IInv'
<1>1. TypeOK
  BY DEF IInv
<1>2. /\ pc[h] = "open" /\ task[h].about = "reference" /\ Written(h, "reference")
      /\ CommitEvents(h) /\ Finish(h) /\ UNCHANGED <<today, rows, identity>>
  BY DEF RespondCommit, scheduleVars
<1>3. PICK i, answer : i = task[h].row /\ answer = task[h].answer
  OBVIOUS
<1>4. answer \in Answer
  <2>1. task[h] \in RespondWork
    BY <1>1, <1>2, WorkParts DEF TypeOK
  <2> QED BY <1>3, <2>1 DEF RespondWork
<1>5. requests' = [requests EXCEPT ![i] = answer]
  BY <1>3 DEF RespondCommit
<1>6. requests \in Seq(Answer) /\ Len(requests) <= References
  BY <1>1 DEF TypeOK
<1>7. requests' \in Seq(Answer) /\ Len(requests') <= References
  <2>1. requests' = Updated(requests, i, answer)
    BY <1>5 DEF Updated
  <2>2. requests' \in Seq(Answer) /\ Len(requests') = Len(requests)
    BY <1>4, <1>6, <2>1, OneUpdated
  <2> QED BY <1>6, <2>2
<1>8. identity' \in Identity
  BY <1>1, <1>2 DEF TypeOK
<1> QED BY <1>1, <1>2, <1>7, <1>8, RowsStay, CommitStep

LEMMA RateCommitKeeps ==
  ASSUME IInv, NEW h \in Handler, RateCommit(h), UNCHANGED scheduleVars
  PROVE  IInv'
<1>1. TypeOK
  BY DEF IInv
<1>2. /\ pc[h] = "open" /\ task[h].about = "behaviour" /\ Written(h, "behaviour")
      /\ CommitEvents(h) /\ Finish(h) /\ UNCHANGED <<today, rows, requests, identity>>
  BY DEF RateCommit, scheduleVars, referenceVars
<1>3. requests' \in Seq(Answer) /\ Len(requests') <= References /\ identity' \in Identity
  BY <1>1, <1>2 DEF TypeOK
<1> QED BY <1>1, <1>2, <1>3, RowsStay, CommitStep

LEMMA IdentityCommitKeeps ==
  ASSUME IInv, NEW h \in Handler, IdentityCommit(h), UNCHANGED scheduleVars
  PROVE  IInv'
<1>1. TypeOK
  BY DEF IInv
<1>2. /\ pc[h] = "open" /\ task[h].about = "identity" /\ Written(h, "identity")
      /\ CommitEvents(h) /\ Finish(h) /\ UNCHANGED <<today, rows, requests>>
      /\ identity' = task[h].verdict
  BY DEF IdentityCommit, scheduleVars
<1>3. identity' \in Identity
  <2>1. task[h] \in JudgingWork
    BY <1>1, <1>2, WorkParts DEF TypeOK
  <2> QED BY <1>2, <2>1 DEF JudgingWork, Identity
<1>4. requests' \in Seq(Answer) /\ Len(requests') <= References
  BY <1>1, <1>2 DEF TypeOK
<1> QED BY <1>1, <1>2, <1>3, <1>4, RowsStay, CommitStep

-----------------------------------------------------------------------------
(* The renter's recalculation, which commits each of its statements.        *)

LEMMA SyncDeleteKeeps ==
  ASSUME IInv, NEW h \in Handler, SyncDelete(h), UNCHANGED referenceVars
  PROVE  IInv'
<1>1. TypeOK /\ AccountLocked /\ OneEach /\ HandlerFits(h)
  BY DEF IInv
<1>2. PICK t, gone : t = task[h] /\ gone = Met(h, Family(UtilityRules))
  OBVIOUS
<1>3. /\ pc[h] = "delete" /\ pc' = [pc EXCEPT ![h] = "create"]
      /\ events' = events \ gone
      /\ UNCHANGED <<begun, task, stale, skewed, rows, today, requests, identity>>
  BY <1>2 DEF SyncDelete, Move, scheduleVars, referenceVars
<1>4. FitsAt("create", t) /\ "create" \in Place
  BY <1>1, <1>2, <1>3, Fits DEF FitsAt, Place
<1>5. task' = [task EXCEPT ![h] = t]
  BY <1>1, <1>2, <1>3 DEF TypeOK
<1>6. /\ pc' \in [Handler -> Place] /\ task' \in [Handler -> Task]
      /\ \A g \in Handler : FitsAt(pc'[g], task'[g])
      /\ pc'[h] = "create" /\ task'[h] = t
      /\ \A g \in Handler \ {h} : pc'[g] = pc[g] /\ task'[g] = task[g]
  BY <1>1, <1>3, <1>4, <1>5, OneMoves
<1>7. \A F : SystemOf(F)' \subseteq SystemOf(F)
  BY <1>3, SystemEvents
<1>8. h \notin stale => SystemOf(UtilityRules)' = {}
  <2> SUFFICES ASSUME h \notin stale, NEW e \in SystemOf(UtilityRules)' PROVE FALSE
    OBVIOUS
  <2>1. e \in SystemOf(UtilityRules) /\ e \notin gone
    BY <1>3, <1>7, SystemEvents
  <2>2. CASE t.met = {}
    <3>1. gone = Family(UtilityRules)
      BY <1>2, <2>2 DEF Met
    <3> QED BY <2>1, <3>1 DEF SystemOf, BySystem
  <2>3. CASE t.met # {}
    <3>1. gone = t.met
      BY <1>2, <2>3 DEF Met
    <3>2. SystemOf(UtilityRules) \subseteq t.met
      BY <1>1, <1>2, <1>3, <2>3 DEF HandlerFits, RecalculationFits
    <3> QED BY <2>1, <3>1, <3>2
  <2> QED BY <2>2, <2>3
<1>9. HandlerFits(h)'
  BY <1>3, <1>6, <1>8 DEF HandlerFits, RecalculationFits, ReviewFits, IsJudging
<1>10. \A g \in Handler \ {h} : UntouchedEvents(g)
  BY <1>7 DEF UntouchedEvents
<1>11. \A g \in Handler : UntouchedRow(g)
  BY <1>1, <1>3, RowsStay
<1>12. \A g \in Handler : Rests(g) \/ HandlerFits(g)'
  BY <1>3, <1>6, <1>9, <1>10, <1>11 DEF Rests
<1>13. \A e \in events' \cup InFlight' : e.id <= Last + 1
  <2>1. \A e \in events' : e \in events \cup InFlight \/ e.id = Last + 1
    BY <1>3
  <2>2. pc'[h] # "open"
    BY <1>6
  <2> QED BY <1>6, <2>1, <2>2, NumbersKept
<1>14. OneEach' /\ AccountLocked'
  <2>1. OneEach'
    BY <1>1, <1>3, <1>7 DEF OneEach, Same
  <2> QED BY <1>1, <1>6, <2>1 DEF AccountLocked, IsJudging
<1>15. /\ events' \subseteq Event /\ begun' \in 0..Work /\ rows' \in Seq(Row) /\ Len(rows') <= Rows
       /\ today' \in Day /\ requests' \in Seq(Answer) /\ Len(requests') <= References
       /\ identity' \in Identity /\ stale' \subseteq Handler
       /\ skewed' \subseteq {"payment", "proof", "reference", "behaviour", "identity"}
  BY <1>1, <1>3 DEF TypeOK
<1> QED BY <1>6, <1>12, <1>13, <1>14, <1>15, Assemble

LEMMA SyncCreateKeeps ==
  ASSUME IInv, NEW h \in Handler, SyncCreate(h), UNCHANGED referenceVars
  PROVE  IInv'
<1>1. TypeOK /\ Numbered /\ AccountLocked /\ OneEach /\ HandlerFits(h)
  BY DEF IInv
<1>2. PICK rule, new : rule = task[h].rule /\ new = New(rule, "SYSTEM")
  OBVIOUS
<1>3. /\ pc[h] = "create" /\ events' = events \cup new /\ begun' = begun
      /\ UNCHANGED <<rows, today, requests, identity>>
  BY <1>2 DEF SyncCreate, Finish, scheduleVars, referenceVars
<1>4. rule \in UtilityRules \cup {NoRule} /\ task[h].about = "payment"
  <2>1. task[h] \in SyncTask
    BY <1>1, <1>3 DEF TypeOK
  <2> QED BY <1>2, <2>1 DEF SyncTask
<1>5. UtilityRules \in Families /\ UtilityRules \subseteq Rule
  BY FamiliesAbout, FamiliesApart
<1>6. /\ new \subseteq Event /\ \A e \in new : e.rule = rule /\ e.id = Last + 1
      /\ \A d, e \in new : d = e
      /\ rule = NoRule => new = {}
  <2>1. rule \in Rule \cup {NoRule}
    BY <1>4, <1>5
  <2> QED BY <1>1, <1>2, <2>1, NewEvent
<1>7. /\ pc' \in [Handler -> Place] /\ task' \in [Handler -> Task]
      /\ \A g \in Handler : FitsAt(pc'[g], task'[g])
      /\ pc'[h] = "idle" /\ task'[h] = NoTask
      /\ \A g \in Handler \ {h} : pc'[g] = pc[g] /\ task'[g] = task[g]
  <2>1. FitsAt("idle", NoTask) /\ "idle" \in Place
    BY DEF FitsAt, Place
  <2>2. pc' = [pc EXCEPT ![h] = "idle"] /\ task' = [task EXCEPT ![h] = NoTask]
    BY DEF SyncCreate, Finish
  <2> QED BY <1>1, <2>1, <2>2, OneMoves
<1>8. /\ stale' \subseteq Handler /\ skewed' \subseteq Topic /\ skewed \subseteq skewed'
      /\ "payment" \notin skewed' => h \notin stale
      /\ \A g \in Handler \ {h} : g \in stale => g \in stale'
      /\ \A g \in Handler \ {h} : g \notin stale' => pc[g] = "idle" \/ task[g].about # "payment"
  <2>1. Written(h, "payment") /\ "payment" \in Topic
    BY DEF SyncCreate, Topic
  <2> QED BY <1>1, <2>1, WriteOvertakes
<1>9. \A F \in Families \ {UtilityRules} : SystemOf(F)' \subseteq SystemOf(F)
  <2> SUFFICES ASSUME NEW F \in Families \ {UtilityRules}, NEW e \in SystemOf(F)'
               PROVE  e \in SystemOf(F)
    OBVIOUS
  <2>1. e \in events' /\ e.rule \in F /\ e.by = "SYSTEM"
    BY SystemEvents
  <2>2. e \notin new
    BY <1>4, <1>5, <1>6, <2>1, FamiliesApart
  <2> QED BY <1>3, <2>1, <2>2, SystemEvents
<1>10. \A g \in Handler \ {h} : UntouchedEvents(g)
  <2> SUFFICES ASSUME NEW g \in Handler \ {h}, NEW F \in Families, pc[g] # "idle",
                      About(F) = task[g].about, g \notin stale' \/ IsJudging(g)
               PROVE  F # UtilityRules
    BY <1>9 DEF UntouchedEvents
  <2>1. CASE g \notin stale'
    BY <1>8, <2>1, FamiliesAbout
  <2>2. CASE IsJudging(g)
    BY <2>2, FamiliesAbout DEF IsJudging
  <2> QED BY <2>1, <2>2
<1>11. OneEach'
  <2> SUFFICES ASSUME NEW F \in Families, About(F) \notin skewed' PROVE Same(SystemOf(F)')
    BY DEF OneEach, Same
  <2>1. CASE F # UtilityRules
    <3>1. Same(SystemOf(F))
      BY <1>1, <1>8 DEF OneEach
    <3> QED BY <1>9, <2>1, <3>1 DEF Same
  <2>2. CASE F = UtilityRules
    <3>1. h \notin stale
      BY <1>8, <2>2, FamiliesAbout
    <3>2. SystemOf(F) = {}
      BY <1>1, <1>3, <2>2, <3>1 DEF HandlerFits, RecalculationFits
    <3>3. \A e \in SystemOf(F)' : e \in new
      BY <1>3, <3>2, SystemEvents
    <3> QED BY <1>6, <3>3 DEF Same
  <2> QED BY <2>1, <2>2
<1>12. HandlerFits(h)'
  BY <1>7 DEF HandlerFits, RecalculationFits, ReviewFits, IsJudging
<1>13. \A g \in Handler : UntouchedRow(g)
  BY <1>1, <1>3, RowsStay
<1>14. \A g \in Handler : Rests(g) \/ HandlerFits(g)'
  BY <1>7, <1>8, <1>10, <1>12, <1>13 DEF Rests
<1>15. \A e \in events' \cup InFlight' : e.id <= Last + 1
  <2>1. \A e \in events' : e \in events \cup InFlight \/ e.id = Last + 1
    BY <1>3, <1>6
  <2>2. pc'[h] # "open"
    BY <1>7
  <2> QED BY <1>7, <2>1, <2>2, NumbersKept
<1>16. AccountLocked'
  BY <1>1, <1>7 DEF AccountLocked, IsJudging
<1>17. /\ events' \subseteq Event /\ begun' \in 0..Work /\ rows' \in Seq(Row) /\ Len(rows') <= Rows
       /\ today' \in Day /\ requests' \in Seq(Answer) /\ Len(requests') <= References
       /\ identity' \in Identity
  BY <1>1, <1>3, <1>6 DEF TypeOK
<1>18. skewed' \subseteq {"payment", "proof", "reference", "behaviour", "identity"}
  BY <1>8 DEF Topic
<1> QED BY <1>7, <1>8, <1>11, <1>14, <1>15, <1>16, <1>17, <1>18, Assemble

-----------------------------------------------------------------------------
(* Steps of no request.                                                     *)

LEMMA NextDayKeeps ==
  ASSUME IInv, NextDay, UNCHANGED referenceVars
  PROVE  IInv'
<1>1. TypeOK
  BY DEF IInv
<1>2. UNCHANGED <<pc, task, skewed, requests, identity, events, begun, rows>>
  BY DEF NextDay, referenceVars
<1>3. today' \in Day
  <2>1. today \in 0..LastDay /\ today < LastDay /\ today' = today + 1 /\ LastDay \in Nat
    BY <1>1, ScheduleAssumption DEF NextDay, TypeOK, Day
  <2> QED BY <2>1 DEF Day
<1>4. /\ events' \subseteq Event /\ \A e \in events' : e \in events \/ e.id = Last + 1
      /\ \A F \in Families : SystemOf(F)' \subseteq SystemOf(F)
  BY <1>1, <1>2, SystemEvents DEF TypeOK
<1>5. begun' \in 0..Work /\ stale' \subseteq Handler /\ stale \subseteq stale'
  BY <1>1, <1>2 DEF TypeOK, NextDay
<1> QED BY <1>1, <1>2, <1>3, <1>4, <1>5, RowsStay, UnmovedStep

LEMMA RecordEventKeeps ==
  ASSUME IInv, NEW rule \in RecordedRule, RecordEvent(rule), UNCHANGED <<scheduleVars, referenceVars>>
  PROVE  IInv'
<1>1. TypeOK /\ Numbered
  BY DEF IInv
<1>2. UNCHANGED <<pc, task, stale, skewed, requests, identity, rows, today>>
  BY DEF RecordEvent, scheduleVars, referenceVars
<1>3. PICK new : new = New(rule, "ADMIN")
  OBVIOUS
<1>4. new \subseteq Event /\ \A e \in new : e.by = "ADMIN" /\ e.id = Last + 1
  BY <1>1, <1>3, EventsAssumption, NewEvent
<1>5. events' = events \cup new
  BY <1>3 DEF RecordEvent
<1>6. /\ events' \subseteq Event /\ \A e \in events' : e \in events \/ e.id = Last + 1
      /\ \A F \in Families : SystemOf(F)' \subseteq SystemOf(F)
  BY <1>1, <1>4, <1>5, SystemEvents DEF TypeOK
<1>7. begun' \in 0..Work
  BY <1>1, EventsAssumption DEF RecordEvent, TypeOK
<1>8. today' \in Day /\ stale' \subseteq Handler /\ stale \subseteq stale'
  BY <1>1, <1>2 DEF TypeOK
<1> QED BY <1>1, <1>2, <1>6, <1>7, <1>8, RowsStay, UnmovedStep

LEMMA FewerEvents ==
  ASSUME IInv, UNCHANGED <<pc, task, stale, skewed, begun, requests, identity, rows, today>>,
         events' \subseteq events
  PROVE  IInv'
<1>1. TypeOK
  BY DEF IInv
<1>2. /\ events' \subseteq Event /\ \A e \in events' : e \in events \/ e.id = Last + 1
      /\ \A F \in Families : SystemOf(F)' \subseteq SystemOf(F)
  BY <1>1, SystemEvents DEF TypeOK
<1>3. today' \in Day /\ begun' \in 0..Work /\ stale' \subseteq Handler /\ stale \subseteq stale'
  BY <1>1 DEF TypeOK
<1> QED BY <1>1, <1>2, <1>3, RowsStay, UnmovedStep

-----------------------------------------------------------------------------
(* The invariant.                                                           *)

LEMMA InitIInv == Init => IInv
<1> SUFFICES ASSUME Init PROVE IInv
  OBVIOUS
<1>1. /\ events = {} /\ begun = 0 /\ stale = {} /\ skewed = {}
      /\ pc = [h \in Handler |-> "idle"] /\ task = [h \in Handler |-> NoTask]
      /\ rows = <<>> /\ today = 0 /\ requests = <<>> /\ identity \in {"NOT_SUBMITTED", "PENDING"}
  BY DEF Init, EventsInit, SchedulesInit, ReferencesInit
<1>2. TypeOK
  <2>1. /\ Work \in Nat /\ Rows \in Nat /\ References \in Nat /\ LastDay \in Nat
    BY EventsAssumption, ScheduleAssumption, ReferenceAssumption
  <2>2. identity \in Identity
    BY <1>1 DEF Identity
  <2>3. \A h \in Handler : pc[h] = "idle" /\ task[h] = NoTask
    BY <1>1
  <2>4. task \in [Handler -> Task]
    BY <1>1 DEF Task
  <2>5. /\ rows \in Seq(Row) /\ Len(rows) <= Rows
        /\ requests \in Seq(Answer) /\ Len(requests) <= References
    BY <1>1, <2>1
  <2>6. events \subseteq Event /\ begun \in 0..Work /\ today \in Day /\ stale \subseteq Handler
        /\ skewed \subseteq {"payment", "proof", "reference", "behaviour", "identity"}
    BY <1>1, <2>1 DEF Day
  <2>7. pc \in [Handler -> {"idle", "open", "review", "paid", "delete", "create", "prove", "ask", "judge"}]
    BY <1>1
  <2> QED BY <2>2, <2>3, <2>4, <2>5, <2>6, <2>7 DEF TypeOK
<1>3. \A h \in Handler : pc[h] = "idle"
  BY <1>1
<1>4. Numbered
  <2>1. events \cup InFlight = {}
    BY <1>1, <1>3 DEF InFlight
  <2> QED BY <2>1 DEF Numbered
<1>5. AccountLocked /\ \A h \in Handler : HandlerFits(h)
  BY <1>3 DEF AccountLocked, HandlerFits, IsJudging, RecalculationFits, ReviewFits
<1>6. OneEach
  BY <1>1, SystemEvents DEF OneEach, Same
<1> QED BY <1>2, <1>4, <1>5, <1>6 DEF IInv

LEMMA LandlordKeeps ==
  ASSUME IInv, NEW h \in Handler, Landlord(h), UNCHANGED referenceVars
  PROVE  IInv'
<1>1. rows \in Seq(Row)
  BY DEF IInv, TypeOK
<1>2. DOMAIN rows = 1..Len(rows)
  BY <1>1
<1>3. CASE \E type \in PaymentType, due \in Due, n \in Cycles \cup {0} : Schedule(h, type, due, n)
  BY <1>3, ScheduleKeeps
<1>4. CASE \E i \in DOMAIN rows, status \in {"PENDING", "PAID", "OVERDUE"}, paid \in Day :
            Update(h, i, status, paid)
  BY <1>2, <1>4, UpdateKeeps
<1>5. CASE \E i \in DOMAIN rows, outcome \in Paid, paid \in Day : ReviewCheck(h, i, outcome, paid)
  BY <1>2, <1>5, ReviewCheckKeeps
<1>6. CASE ReviewWrite(h)
  BY <1>6, ReviewWriteKeeps
<1>7. CASE PaymentCommit(h)
  BY <1>7, PaymentCommitKeeps
<1> QED BY <1>3, <1>4, <1>5, <1>6, <1>7 DEF Landlord

LEMMA RenterKeeps ==
  ASSUME IInv, NEW h \in Handler, Renter(h), UNCHANGED referenceVars
  PROVE  IInv'
<1>1. rows \in Seq(Row)
  BY DEF IInv, TypeOK
<1>2. DOMAIN rows = 1..Len(rows)
  BY <1>1
<1>3. CASE \E i \in DOMAIN rows, paid \in Day : Confirm(h, i, paid)
  BY <1>2, <1>3, ConfirmKeeps
<1>4. CASE SyncRead(h)
  BY <1>4, SyncReadKeeps
<1>5. CASE SyncWait(h)
  BY <1>5, SyncWaitKeeps
<1>6. CASE SyncDelete(h)
  BY <1>6, SyncDeleteKeeps
<1>7. CASE SyncCreate(h)
  BY <1>7, SyncCreateKeeps
<1>8. CASE \E i \in DOMAIN rows : ProveCheck(h, i)
  BY <1>2, <1>8, ProveCheckKeeps
<1>9. CASE ProveWrite(h)
  BY <1>9, ProveWriteKeeps
<1> QED BY <1>3, <1>4, <1>5, <1>6, <1>7, <1>8, <1>9 DEF Renter

LEMMA ReferKeeps ==
  ASSUME IInv, NEW h \in Handler, Refer(h), UNCHANGED scheduleVars
  PROVE  IInv'
<1>1. requests \in Seq(Answer)
  BY DEF IInv, TypeOK
<1>2. DOMAIN requests = 1..Len(requests)
  BY <1>1
<1>3. CASE AskCheck(h)
  BY <1>3, AskCheckKeeps
<1>4. CASE AskCommit(h)
  BY <1>4, AskCommitKeeps
<1>5. CASE \E i \in DOMAIN requests, r \in Recommendation \cup {NoRecommendation} : Respond(h, i, r)
  BY <1>2, <1>5, RespondKeeps
<1>6. CASE RespondCommit(h)
  BY <1>6, RespondCommitKeeps
<1> QED BY <1>3, <1>4, <1>5, <1>6 DEF Refer

LEMMA JudgeKeeps ==
  ASSUME IInv, NEW h \in Handler, Judge(h), UNCHANGED scheduleVars
  PROVE  IInv'
<1>1. CASE \E maintenance, compliance \in Rating : Rate(h, maintenance, compliance)
  BY <1>1, RateKeeps
<1>2. CASE RateCommit(h)
  BY <1>2, RateCommitKeeps
<1>3. CASE SubmitIdentity(h)
  BY <1>3, SubmitIdentityKeeps
<1>4. CASE \E verdict \in {"APPROVED", "FAILED"} : JudgeCheck(h, verdict)
  BY <1>4, JudgeCheckKeeps
<1>5. CASE JudgeWrite(h)
  BY <1>5, JudgeWriteKeeps
<1>6. CASE IdentityCommit(h)
  BY <1>6, IdentityCommitKeeps
<1> QED BY <1>1, <1>2, <1>3, <1>4, <1>5, <1>6 DEF Judge

LEMMA StepIInv == IInv /\ [Next]_vars => IInv'
<1> SUFFICES ASSUME IInv, [Next]_vars PROVE IInv'
  OBVIOUS
<1>1. CASE PaymentNext /\ UNCHANGED referenceVars
  <2>1. CASE \E h \in Handler : Landlord(h) \/ Renter(h)
    BY <1>1, <2>1, LandlordKeeps, RenterKeeps
  <2>2. CASE \E type \in PaymentType, paid \in Day : SelfInitiate(type, paid)
    BY <1>1, <2>2, SelfInitiateKeeps
  <2>3. CASE NextDay
    BY <1>1, <2>3, NextDayKeeps
  <2> QED BY <1>1, <2>1, <2>2, <2>3 DEF PaymentNext
<1>2. CASE ReferenceNext /\ UNCHANGED scheduleVars
  BY <1>2, ReferKeeps, JudgeKeeps DEF ReferenceNext
<1>3. CASE Events /\ UNCHANGED <<scheduleVars, referenceVars>>
  <2>1. CASE \E h \in Handler : ReplaceWait(h) \/ Replace(h) \/ EventsAbort(h)
    BY <1>3, <2>1, ReplaceWaitKeeps, ReplaceKeeps, AbortKeeps
  <2>2. CASE \E rule \in RecordedRule : RecordEvent(rule)
    BY <1>3, <2>2, RecordEventKeeps
  <2>3. CASE \E e \in events : DeleteEvent(e)
    <3>1. /\ UNCHANGED <<pc, task, stale, skewed, begun, requests, identity, rows, today>>
          /\ events' \subseteq events
      BY <1>3, <2>3 DEF DeleteEvent, scheduleVars, referenceVars
    <3> QED BY <3>1, FewerEvents
  <2> QED BY <1>3, <2>1, <2>2, <2>3 DEF Events
<1>4. CASE UNCHANGED vars
  <2>1. /\ UNCHANGED <<pc, task, stale, skewed, begun, requests, identity, rows, today>>
        /\ events' \subseteq events
    BY <1>4 DEF vars, eventVars, scheduleVars, referenceVars
  <2> QED BY <2>1, FewerEvents
<1> QED BY <1>1, <1>2, <1>3, <1>4 DEF Next, Requests

-----------------------------------------------------------------------------
(* What the invariant gives.                                                *)

\* The inductive invariant holds however the requests about a renter interleave and fail.
THEOREM Invariance == Spec => []IInv
<1> QED BY InitIInv, StepIInv, PTL DEF Spec

\* Every variable has its type and every request a task that fits where it is, through all
\* the reads, locks, failures and commits of workspace.service.ts, renter.service.ts and
\* rent-score.service.ts.
THEOREM TypeCorrect == Spec => []TypeOK
<1>1. IInv => TypeOK
  BY DEF IInv
<1> QED BY <1>1, Invariance, PTL

LEMMA AtMostOne ==
  ASSUME NEW S, Same(S)
  PROVE  Cardinality(S) <= 1
<1>1. CASE S = {}
  BY <1>1, FS_EmptySet
<1>2. CASE S # {}
  <2>1. PICK x \in S : S = {x}
    BY <1>2 DEF Same
  <2>2. Cardinality({x}) = 1
    BY FS_Singleton
  <2> QED BY <2>1, <2>2
<1> QED BY <1>1, <1>2

\* "Replacing must not duplicate" (replaceRentScoreEventsByCodes and its neighbours): however
\* many requests replace events at once and wherever they fail, the system keeps at most one
\* event of a family, unless one wrote after a read that another's write had overtaken.
THEOREM OneEvent == Spec => []OneEventPerFamily
<1>1. IInv => OneEventPerFamily
  <2> SUFFICES ASSUME IInv, NEW F \in Families, About(F) \notin skewed
               PROVE  Cardinality(BySystem(Family(F))) <= 1
    BY DEF OneEventPerFamily
  <2>1. Same(SystemOf(F))
    BY DEF IInv, OneEach
  <2> QED BY <2>1, AtMostOne DEF SystemOf
<1> QED BY <1>1, Invariance, PTL

\* A verdict in flight ends with its own commit, or it writes nothing.
LEMMA JudgingEnds ==
  ASSUME TypeOK, Next, NEW h \in Handler, IsJudging(h), pc'[h] = "idle"
  PROVE  IdentityCommit(h) \/ UNCHANGED <<events, identity>>
<1>1. pc \in [Handler -> Place] /\ pc[h] = "open" /\ task[h].about = "identity"
  BY DEF TypeOK, Place, IsJudging
<1>2. pc' # pc
  BY <1>1
<1>3. \A g \in Handler : \A at : pc' = [pc EXCEPT ![g] = at] => g = h /\ at = "idle"
  BY <1>1, <1>2
<1>4. ASSUME NEW g \in Handler, Landlord(g) \/ Renter(g) PROVE FALSE
  <2>1. ~PaymentCommit(g)
    BY <1>1, <1>3 DEF PaymentCommit, Finish
  <2>2. ~Landlord(g)
    BY <1>1, <1>3, <2>1 DEF Landlord, Schedule, Update, ReviewCheck, ReviewWrite, Begin, Move
  <2>3. ~Renter(g)
    BY <1>1, <1>2, <1>3 DEF Renter, Confirm, SyncRead, SyncWait, SyncDelete, SyncCreate, ProveCheck,
        ProveWrite, Begin, Move, Finish, Wait
  <2> QED BY <1>4, <2>2, <2>3
<1>5. ASSUME NEW g \in Handler, Refer(g) \/ Judge(g) PROVE IdentityCommit(h)
  <2>1. ~Refer(g)
    BY <1>1, <1>3 DEF Refer, AskCheck, AskCommit, Respond, RespondCommit, Begin, Finish
  <2>2. Judge(g) => IdentityCommit(g) /\ g = h
    BY <1>1, <1>3 DEF Judge, Rate, RateCommit, SubmitIdentity, JudgeCheck, JudgeWrite, IdentityCommit,
        Begin, Move, Finish
  <2> QED BY <1>5, <2>1, <2>2
<1>6. PaymentNext => FALSE
  <2>1. ~NextDay /\ \A type \in PaymentType, paid \in Day : ~SelfInitiate(type, paid)
    BY <1>2 DEF NextDay, SelfInitiate
  <2> QED BY <1>4, <2>1 DEF PaymentNext
<1>7. Events /\ UNCHANGED <<scheduleVars, referenceVars>> => UNCHANGED <<events, identity>>
  <2>1. \A g \in Handler : ~ReplaceWait(g) /\ ~Replace(g)
    BY <1>2 DEF ReplaceWait, Replace, Wait
  <2>2. \A g \in Handler : EventsAbort(g) => UNCHANGED events
    BY DEF EventsAbort
  <2>3. \A rule \in RecordedRule : ~RecordEvent(rule)
    BY <1>2 DEF RecordEvent
  <2>4. \A e \in events : ~DeleteEvent(e)
    BY <1>2 DEF DeleteEvent
  <2> QED BY <2>1, <2>2, <2>3, <2>4 DEF Events, referenceVars
<1> QED BY <1>5, <1>6, <1>7 DEF Next, Requests, ReferenceNext

\* submitRenterIdentityForReview and reviewIdentitySubmission: whichever verdict commits last,
\* the account is approved exactly when the event of the verified identity is there, once.
THEOREM VerdictEvent == Spec => VerdictHasEvent
<1> DEFINE Kept == \A h \in Handler :
        pc[h] = "open" /\ task[h].about = "identity" /\ (identity' # identity \/ events' # events)
            /\ pc'[h] = "idle"
        => Cardinality(BySystem({e \in events' : e.rule = IdentityCode}))
                = IF identity' = "APPROVED" THEN 1 ELSE 0
<1>1. IInv /\ [Next]_vars => [Kept]_vars
  <2> SUFFICES ASSUME IInv, Next, NEW h \in Handler, pc[h] = "open", task[h].about = "identity",
                      identity' # identity \/ events' # events, pc'[h] = "idle"
               PROVE  Cardinality(BySystem({e \in events' : e.rule = IdentityCode}))
                        = IF identity' = "APPROVED" THEN 1 ELSE 0
    OBVIOUS
  <2>1. TypeOK /\ IsJudging(h) /\ HandlerFits(h)
    BY DEF IInv, IsJudging
  <2>2. IdentityCommit(h)
    BY <2>1, JudgingEnds
  <2>3. PICK t : t = task[h]
    OBVIOUS
  <2>4. t \in JudgingWork /\ WorkShape(t) /\ Judged(t)
    BY <2>1, <2>3, WorkParts DEF HandlerFits, TypeOK
  <2>5. t.todo = <<>> /\ events' = (events \ t.seen) \cup t.made /\ identity' = t.verdict
    BY <2>2, <2>3 DEF IdentityCommit, CommitEvents
  <2>6. PICK S : S = BySystem({e \in events' : e.rule = IdentityCode})
    OBVIOUS
  <2>7. \A e : e \in S <=> e \in t.made /\ e.rule = IdentityCode /\ e.by = "SYSTEM"
    <3>1. \A e \in S : e \in events' /\ e.rule \in {IdentityCode} /\ e.by = "SYSTEM"
      BY <2>6 DEF BySystem
    <3>2. \A e \in S : e \in t.made
      BY <2>4, <2>5, <3>1, SystemEvents DEF Judged
    <3>3. \A e \in t.made : e.rule = IdentityCode /\ e.by = "SYSTEM" => e \in S
      BY <2>5, <2>6 DEF BySystem
    <3> QED BY <3>1, <3>2, <3>3
  <2>8. CASE t.verdict = "APPROVED"
    <3>1. PICK e \in t.made : t.made = {e} /\ e.rule = IdentityCode
      BY <2>4, <2>5, <2>8 DEF Judged
    <3>2. e.by = "SYSTEM"
      BY <2>4 DEF WorkShape
    <3>3. S = {e}
      BY <2>7, <3>1, <3>2
    <3>4. Cardinality({e}) = 1
      BY FS_Singleton
    <3> QED BY <2>5, <2>6, <2>8, <3>3, <3>4
  <2>9. CASE t.verdict # "APPROVED"
    <3>1. S = {}
      BY <2>4, <2>5, <2>7, <2>9 DEF Judged
    <3> QED BY <2>5, <2>6, <2>9, <3>1, FS_EmptySet
  <2> QED BY <2>8, <2>9
<1> QED BY <1>1, Invariance, PTL DEF Spec, VerdictHasEvent

-----------------------------------------------------------------------------
(* The outcome of a review.                                                 *)

\* A write of one element keeps the others.
LEMMA OthersKept ==
  ASSUME NEW S, NEW s \in Seq(S), NEW x, NEW i, NEW k \in 1..Len(s)
  PROVE  /\ k # i => Updated(s, i, x)[k] = s[k]
         /\ k = i => Updated(s, i, x)[k] = x
BY DEF Updated

\* Who writes rows: only a landlord's commit changes an outcome.
LEMMA OutcomesKept ==
  ASSUME TypeOK, Next, NEW i \in 1..Len(rows), rows'[i].outcome # rows[i].outcome
  PROVE  \E h \in Handler : PaymentCommit(h)
<1>1. rows \in Seq(Row) /\ Len(rows) \in Nat
  BY DEF TypeOK
<1>2. \A k \in 1..Len(rows) : rows[k] \in Columns
  BY <1>1 DEF Row
<1>3. ASSUME NEW h \in Handler, NEW j \in 1..Len(rows), NEW paid \in Day, Confirm(h, j, paid) PROVE FALSE
  <2>1. PICK r : r = [rows[j] EXCEPT !.status = "PAID", !.paid = paid]
    OBVIOUS
  <2>2. r.outcome = rows[j].outcome
    BY <1>2, <2>1 DEF Columns
  <2>3. rows' = Updated(rows, j, r)
    BY <1>3, <2>1 DEF Confirm, Updated
  <2> QED BY <1>1, <2>2, <2>3, OthersKept
<1>4. ASSUME NEW h \in Handler, ProveWrite(h) PROVE FALSE
  <2>1. PICK j : j = task[h].row
    OBVIOUS
  <2>2. PICK r : r = [rows[j] EXCEPT !.sent = TRUE]
    OBVIOUS
  <2>3. j = i => r.outcome = rows[i].outcome
    BY <1>2, <2>2 DEF Columns
  <2>4. rows' = Updated(rows, j, r)
    BY <1>4, <2>1, <2>2 DEF ProveWrite, Updated
  <2> QED BY <1>1, <2>3, <2>4, OthersKept
<1>5. ASSUME NEW type \in PaymentType, NEW paid \in Day, SelfInitiate(type, paid) PROVE FALSE
  <2>1. PICK r : rows' = Append(rows, r)
    BY <1>5 DEF SelfInitiate
  <2> QED BY <1>1, <2>1
<1>6. rows' # rows
  OBVIOUS
<1>7. ASSUME NEW h \in Handler, Landlord(h) PROVE PaymentCommit(h)
  BY <1>6, <1>7 DEF Landlord, Schedule, Update, ReviewCheck, ReviewWrite, scheduleVars
<1>8. ASSUME NEW h \in Handler, Renter(h) PROVE FALSE
  <2>1. DOMAIN rows = 1..Len(rows)
    BY <1>1
  <2> QED BY <1>3, <1>4, <1>6, <1>8, <2>1 DEF Renter, SyncRead, SyncWait, SyncDelete, SyncCreate, ProveCheck,
        scheduleVars
<1>9. PaymentNext
  <2>1. ~UNCHANGED scheduleVars
    BY <1>6 DEF scheduleVars
  <2> QED BY <2>1 DEF Next, Requests
<1> QED BY <1>5, <1>6, <1>7, <1>8, <1>9 DEF PaymentNext, NextDay

\* "This payment proof has already been reviewed" (confirmWorkspacePaymentSchedule): once a
\* review has an outcome it stays, unless a landlord's write followed a read that another's
\* write had overtaken.
THEOREM ReviewsStand == Spec => ReviewStands
<1> DEFINE Kept == \A i \in DOMAIN rows :
        rows[i].outcome # "NONE" /\ rows'[i].outcome # rows[i].outcome => "payment" \in skewed'
<1>1. IInv /\ [Next]_vars => [Kept]_vars
  <2> SUFFICES ASSUME IInv, Next, NEW k \in DOMAIN rows, rows[k].outcome # "NONE",
                      rows'[k].outcome # rows[k].outcome, "payment" \notin skewed'
               PROVE  FALSE
    OBVIOUS
  <2>1. TypeOK /\ rows \in Seq(Row) /\ Len(rows) \in Nat /\ k \in 1..Len(rows)
    BY DEF IInv, TypeOK
  <2>2. PICK h \in Handler : PaymentCommit(h)
    BY <2>1, OutcomesKept
  <2>3. PICK i, to : i = task[h].row /\ to = task[h].to
    OBVIOUS
  <2>4. pc[h] = "open" /\ task[h].about = "payment" /\ rows' = View(i, to)
    BY <2>2, <2>3 DEF PaymentCommit
  <2>5. i \in Nat /\ to \in Seq(Row)
    <3>1. task[h] \in PaymentWork
      BY <2>1, <2>4, WorkParts DEF TypeOK
    <3> QED BY <2>3, <3>1 DEF PaymentWork
  <2>6. h \notin stale
    <3>1. Written(h, "payment") /\ "payment" \in Topic
      BY <2>2 DEF PaymentCommit, Topic
    <3> QED BY <2>1, <3>1, WriteOvertakes
  <2>7. CASE i = 0
    <3>1. rows' = rows \o to
      BY <2>4, <2>7 DEF View
    <3> QED BY <2>1, <2>5, <3>1
  <2>8. CASE i # 0
    <3>1. rows' = Updated(rows, i, to[1])
      BY <2>4, <2>8 DEF View, Updated
    <3>2. k = i /\ rows'[k] = to[1]
      BY <2>1, <3>1, OthersKept
    <3>3. rows[k].outcome \in {"NONE", to[1].outcome}
      <4>1. ReviewFits(h)
        BY DEF IInv, HandlerFits
      <4> QED BY <2>1, <2>3, <2>4, <2>6, <3>2, <4>1 DEF ReviewFits
    <3> QED BY <3>2, <3>3
  <2> QED BY <2>7, <2>8
<1> QED BY <1>1, Invariance, PTL DEF Spec, ReviewStands

-----------------------------------------------------------------------------
(* The recalculation.                                                       *)

\* What of a row the recalculation looks at.
Agrees(r, q) == r.type = q.type /\ r.due = q.due /\ r.status = q.status /\ r.paid = q.paid

Counts(r) == r.type = "UTILITY" /\ (r.status = "PAID" \/ r.due <= today)

\* The places of the rows it may take for the latest.
Chosen(rs) == {k \in 1..Len(rs) :
    Counts(rs[k]) /\ \A j \in 1..Len(rs) : Counts(rs[j]) => rs[j].due <= rs[k].due}

\* A transaction on payments has found a rule that its rows call for, and what it has
\* replaced by now it has replaced by that rule's event.
RuleFound(t) ==
    \E rule \in SyncedRules(View(t.row, t.to)) :
        \/ t.todo = <<[codes |-> UtilityRules, rule |-> rule]>> /\ t.made = {}
        \/ /\ t.todo = <<>> /\ SystemOf(UtilityRules) \subseteq t.seen
           /\ {e.rule : e \in t.made} = {rule} \ {NoRule}

\* As long as no other writes payments, the rule a request has found is right.
RuleFollows(h) == h \notin stale =>
    /\ pc[h] = "open" /\ task[h].about = "payment" =>
        \/ RuleFound(task[h])
        \/ task[h].todo = <<>> /\ task[h].seen = {} /\ task[h].made = {}
    /\ pc[h] \in {"delete", "create"} => task[h].rule \in SyncedRules(rows)

\* The rows as the search finds them.
LEMMA LatestChosen ==
  ASSUME NEW rs \in Seq(Row)
  PROVE  LatestSelected(OfType(rs, "UTILITY")) = {rs[k] : k \in Chosen(rs)}
<1>1. DOMAIN rs = 1..Len(rs)
  OBVIOUS
<1>2. PICK S : S = {r \in OfType(rs, "UTILITY") : r.status = "PAID" \/ r.due <= today}
  OBVIOUS
<1>3. \A r : r \in S <=> \E k \in 1..Len(rs) : r = rs[k] /\ Counts(rs[k])
  BY <1>1, <1>2 DEF OfType, Counts
<1>4. LatestSelected(OfType(rs, "UTILITY")) = {r \in S : \A q \in S : q.due <= r.due}
  BY <1>2 DEF LatestSelected, Latest
<1>5. \A k \in 1..Len(rs) : Counts(rs[k]) =>
        ((\A q \in S : q.due <= rs[k].due) <=>
            \A j \in 1..Len(rs) : Counts(rs[j]) => rs[j].due <= rs[k].due)
  BY <1>3
<1>6. \A r : r \in {q \in S : \A p \in S : p.due <= q.due} <=> \E k \in Chosen(rs) : r = rs[k]
  BY <1>3, <1>5 DEF Chosen
<1> QED BY <1>4, <1>6

LEMMA RulesChosen ==
  ASSUME NEW rs \in Seq(Row)
  PROVE  SyncedRules(rs) = IF Chosen(rs) = {} THEN {NoRule}
                           ELSE {UtilityRuleOf(rs[k]) : k \in Chosen(rs)}
<1>1. PICK L : L = LatestSelected(OfType(rs, "UTILITY"))
  OBVIOUS
<1>2. L = {rs[k] : k \in Chosen(rs)}
  BY <1>1, LatestChosen
<1>3. L = {} <=> Chosen(rs) = {}
  BY <1>2
<1>4. {UtilityRuleOf(r) : r \in L} = {UtilityRuleOf(rs[k]) : k \in Chosen(rs)}
  BY <1>2
<1>5. SyncedRules(rs) = IF L = {} THEN {NoRule} ELSE {UtilityRuleOf(r) : r \in L}
  BY <1>1 DEF SyncedRules, RulesFor
<1> QED BY <1>3, <1>4, <1>5

\* Rows that agree call for the same rules.
LEMMA SameRules ==
  ASSUME NEW rs \in Seq(Row), NEW qs \in Seq(Row), Len(rs) = Len(qs),
         \A k \in 1..Len(rs) : Agrees(rs[k], qs[k])
  PROVE  SyncedRules(rs) = SyncedRules(qs)
<1>1. \A k \in 1..Len(rs) : Counts(rs[k]) <=> Counts(qs[k])
  BY DEF Agrees, Counts
<1>2. Chosen(rs) = Chosen(qs)
  BY <1>1 DEF Agrees, Chosen
<1>3. \A k \in 1..Len(rs) : UtilityRuleOf(rs[k]) = UtilityRuleOf(qs[k])
  BY DEF Agrees, UtilityRuleOf, DaysLate
<1>4. {UtilityRuleOf(rs[k]) : k \in Chosen(rs)} = {UtilityRuleOf(qs[k]) : k \in Chosen(rs)}
  BY <1>3 DEF Chosen
<1> QED BY <1>2, <1>4, RulesChosen

LEMMA ViewRows ==
  ASSUME NEW rs \in Seq(Row), NEW i \in Nat, NEW to \in Seq(Row) \ {<<>>}, rows = rs
  PROVE  /\ View(i, to) \in Seq(Row)
         /\ i = 0 => View(i, to) = rs \o to
         /\ i # 0 => View(i, to) = Updated(rs, i, to[1]) /\ Len(View(i, to)) = Len(rs)
<1>1. to[1] \in Row
  OBVIOUS
<1>2. CASE i = 0
  BY <1>2 DEF View
<1>3. CASE i # 0
  <2>1. View(i, to) = Updated(rs, i, to[1])
    BY <1>3 DEF View, Updated
  <2> QED BY <1>1, <1>3, <2>1, OneUpdated
<1> QED BY <1>2, <1>3

\* Rows that agree give a transaction the same rules.
LEMMA ViewsAgree ==
  ASSUME rows \in Seq(Row), rows' \in Seq(Row), today' = today, Len(rows') = Len(rows),
         \A k \in 1..Len(rows) : Agrees(rows'[k], rows[k])
  PROVE  /\ SyncedRules(rows)' = SyncedRules(rows)
         /\ \A i \in Nat : \A to \in Seq(Row) \ {<<>>} :
                SyncedRules(View(i, to))' = SyncedRules(View(i, to))
<1>1. PICK rs \in Seq(Row), qs \in Seq(Row) : rs = rows /\ qs = rows'
  OBVIOUS
<1>2. \A vs : SyncedRules(vs)' = SyncedRules(vs)
  BY DEF SyncedRules, LatestSelected
<1>3. SyncedRules(qs) = SyncedRules(rs)
  BY <1>1, SameRules
<1>4. ASSUME NEW i \in Nat, NEW to \in Seq(Row) \ {<<>>}
      PROVE  SyncedRules(View(i, to))' = SyncedRules(View(i, to))
  <2>1. PICK vs, ws : vs = View(i, to) /\ ws = View(i, to)'
    OBVIOUS
  <2>2. /\ vs \in Seq(Row) /\ (i = 0 => vs = rs \o to)
        /\ i # 0 => vs = Updated(rs, i, to[1]) /\ Len(vs) = Len(rs)
    BY <1>1, <2>1, ViewRows
  <2>3. /\ i = 0 => ws = qs \o to
        /\ i # 0 => ws = Updated(qs, i, to[1])
    BY <1>1, <2>1 DEF View, Updated
  <2>4. /\ to[1] \in Row /\ \A r : Agrees(r, r)
        /\ \A k \in 1..Len(rs) : Agrees(qs[k], rs[k])
        /\ Len(qs) = Len(rs)
    BY <1>1 DEF Agrees
  <2>5. CASE i = 0
    <3>0. /\ Len(rs \o to) = Len(rs) + Len(to)
          /\ \A k \in 1..(Len(rs) + Len(to)) :
                (rs \o to)[k] = IF k <= Len(rs) THEN rs[k] ELSE to[k - Len(rs)]
          /\ qs \o to \in Seq(Row) /\ Len(qs \o to) = Len(qs) + Len(to)
          /\ \A k \in 1..(Len(qs) + Len(to)) :
                (qs \o to)[k] = IF k <= Len(qs) THEN qs[k] ELSE to[k - Len(qs)]
      BY ConcatProperties
    <3>1. ws \in Seq(Row) /\ Len(ws) = Len(vs) /\ Len(ws) = Len(rs) + Len(to)
      BY <2>2, <2>3, <2>4, <2>5, <3>0
    <3>2. \A k \in 1..Len(ws) : Agrees(ws[k], vs[k])
      <4> SUFFICES ASSUME NEW k \in 1..Len(ws) PROVE Agrees(ws[k], vs[k])
        OBVIOUS
      <4>1. k \in 1..Len(rs) => ws[k] = qs[k] /\ vs[k] = rs[k]
        BY <2>2, <2>3, <2>4, <2>5, <3>0, <3>1
      <4>2. k \notin 1..Len(rs) => ws[k] = vs[k]
        BY <2>2, <2>3, <2>4, <2>5, <3>0, <3>1
      <4> QED BY <2>4, <4>1, <4>2
    <3>3. SyncedRules(ws) = SyncedRules(vs)
      BY <2>2, <3>1, <3>2, SameRules
    <3> QED BY <1>2, <2>1, <3>3
  <2>6. CASE i # 0
    <3>1. ws \in Seq(Row) /\ Len(ws) = Len(vs)
      BY <2>2, <2>3, <2>4, <2>6, OneUpdated
    <3>2. \A k \in 1..Len(ws) : Agrees(ws[k], vs[k])
      <4> SUFFICES ASSUME NEW k \in 1..Len(rs) PROVE Agrees(ws[k], vs[k])
        BY <2>2, <2>6, <3>1
      <4>0. ws = Updated(qs, i, to[1]) /\ vs = Updated(rs, i, to[1]) /\ k \in 1..Len(qs)
        BY <2>2, <2>3, <2>4, <2>6
      <4>1. k = i => ws[k] = to[1] /\ vs[k] = to[1]
        BY <4>0, OthersKept
      <4>2. k # i => ws[k] = qs[k] /\ vs[k] = rs[k]
        BY <4>0, OthersKept
      <4> QED BY <2>4, <4>1, <4>2
    <3>3. SyncedRules(ws) = SyncedRules(vs)
      BY <2>2, <3>1, <3>2, SameRules
    <3> QED BY <1>2, <2>1, <3>3
  <2> QED BY <2>5, <2>6
<1>5. SyncedRules(rows)' = SyncedRules(rows)
  BY <1>1, <1>2, <1>3
<1> QED BY <1>4, <1>5

\* What a recalculation that nothing overtakes relies on stays as it is.
RulesKept ==
    /\ SystemOf(UtilityRules)' \subseteq SystemOf(UtilityRules)
    /\ today' = today /\ Len(rows') = Len(rows)
    /\ \A k \in 1..Len(rows) : Agrees(rows'[k], rows[k])

Recalculates(g) == pc[g] \in {"open", "delete", "create"} /\ task[g].about = "payment"

LEMMA RulesStand ==
  ASSUME TypeOK, TypeOK', NEW g \in Handler, RuleFollows(g), pc'[g] = pc[g], task'[g] = task[g],
         g \in stale => g \in stale', g \in stale' \/ ~Recalculates(g) \/ RulesKept
  PROVE  RuleFollows(g)'
<1>1. PICK at, t : at = pc[g] /\ t = task[g]
  OBVIOUS
<1>2. /\ at = "open" /\ t.about = "payment" => t \in PaymentWork
      /\ at \in {"delete", "create"} => t.about = "payment"
  BY <1>1, WorkParts DEF TypeOK, SyncTask
<1>3. CASE g \in stale'
  BY <1>3 DEF RuleFollows
<1>4. CASE g \notin stale' /\ ~Recalculates(g)
  BY <1>1, <1>2, <1>4 DEF RuleFollows, Recalculates
<1>5. CASE g \notin stale' /\ RulesKept
  <2>1. rows \in Seq(Row) /\ rows' \in Seq(Row)
    BY DEF TypeOK
  <2>2. /\ SyncedRules(rows)' = SyncedRules(rows)
        /\ \A i \in Nat : \A to \in Seq(Row) \ {<<>>} :
                SyncedRules(View(i, to))' = SyncedRules(View(i, to))
    BY <1>5, <2>1, ViewsAgree DEF RulesKept
  <2>3. at = "open" /\ t.about = "payment" => t.row \in Nat /\ t.to \in Seq(Row) \ {<<>>}
    BY <1>2 DEF PaymentWork
  <2>4. at = "open" /\ t.about = "payment" /\ RuleFound(t) => RuleFound(t)'
    BY <1>5, <2>2, <2>3 DEF RuleFound, RulesKept
  <2> QED BY <1>1, <1>5, <2>2, <2>4 DEF RuleFollows
<1> QED BY <1>3, <1>4, <1>5

\* A step of one request keeps the others' rules.
RulesAside(h) ==
    /\ \A g \in Handler \ {h} : pc'[g] = pc[g] /\ task'[g] = task[g] /\ (g \in stale => g \in stale')
    /\ \/ RulesKept
       \/ \A g \in Handler \ {h} : g \notin stale' => pc[g] = "idle" \/ task[g].about # "payment"

RulesFollow == \A h \in Handler : RuleFollows(h)

LEMMA RulesStep ==
  ASSUME TypeOK, TypeOK', RulesFollow, NEW h \in Handler, RulesAside(h), RuleFollows(h)'
  PROVE  RulesFollow'
<1> SUFFICES ASSUME NEW g \in Handler \ {h} PROVE RuleFollows(g)'
  BY DEF RulesFollow
<1>1. g \in stale' \/ ~Recalculates(g) \/ RulesKept
  BY DEF RulesAside, Recalculates
<1> QED BY <1>1, RulesStand DEF RulesAside, RulesFollow

LEMMA RowsAgree == UNCHANGED <<events, rows, today>> => RulesKept
BY DEF RulesKept, Agrees, SystemOf, BySystem, Family

\* A step that others do not see.
LEMMA QuietRules ==
  ASSUME TypeOK, TypeOK', RulesFollow, NEW h \in Handler, NEW at, NEW t,
         pc' = [pc EXCEPT ![h] = at], task' = [task EXCEPT ![h] = t],
         UNCHANGED <<events, rows, today>>, stale \ {h} \subseteq stale',
         RuleFollows(h)'
  PROVE  RulesFollow'
<1>1. \A g \in Handler \ {h} : pc'[g] = pc[g] /\ task'[g] = task[g] /\ (g \in stale => g \in stale')
  BY DEF TypeOK
<1> QED BY <1>1, RowsAgree, RulesStep DEF RulesAside

\* So is one that leaves a request nothing to recalculate.
LEMMA Elsewhere ==
  ASSUME TypeOK, NEW h \in Handler, NEW at, NEW t,
         pc' = [pc EXCEPT ![h] = at], task' = [task EXCEPT ![h] = t],
         at \notin {"open", "delete", "create"} \/ (at = "open" /\ t.about # "payment")
  PROVE  RuleFollows(h)'
<1>1. pc'[h] = at /\ task'[h] = t
  BY DEF TypeOK
<1> QED BY <1>1 DEF RuleFollows

\* A transaction on payments finds its rule where it begins.
LEMMA OpenedRules ==
  ASSUME TypeOK, TypeOK', RulesFollow, NEW h \in Handler, NEW i, NEW to, NEW rule,
         rule \in Syncs(to[1].type, View(i, to)),
         pc' = [pc EXCEPT ![h] = "open"], task' = [task EXCEPT ![h] = Opened(i, to, rule)],
         UNCHANGED <<events, stale, rows, today>>
  PROVE  RulesFollow'
<1>1. PICK t : t = Opened(i, to, rule)
  OBVIOUS
<1>2. /\ t.row = i /\ t.to = to /\ t.todo = Jobs(to[1].type, rule) /\ t.seen = {} /\ t.made = {}
  BY <1>1 DEF Opened
<1>3. RuleFound(t) \/ (t.todo = <<>> /\ t.seen = {} /\ t.made = {})
  BY <1>2 DEF Jobs, Syncs, RuleFound
<1>4. SyncedRules(View(i, to))' = SyncedRules(View(i, to))
  BY DEF SyncedRules, LatestSelected, View
<1>5. RuleFound(t) => RuleFound(t)'
  BY <1>2, <1>4 DEF RuleFound, SystemOf, BySystem, Family
<1>6. pc'[h] = "open" /\ task'[h] = t
  BY <1>1 DEF TypeOK
<1>7. RuleFollows(h)'
  BY <1>3, <1>5, <1>6, <1>2 DEF RuleFollows
<1> QED BY <1>1, <1>7, QuietRules

\* Who writes payments overtakes every recalculation, and has done his own.
LEMMA PaymentWritten ==
  ASSUME TypeOK, TypeOK', RulesFollow, NEW h \in Handler, Written(h, "payment"),
         NEW at \in {"idle", "paid"}, NEW t,
         pc' = [pc EXCEPT ![h] = at], task' = [task EXCEPT ![h] = t]
  PROVE  RulesFollow'
<1>1. /\ \A g \in Handler \ {h} : g \in stale => g \in stale'
      /\ \A g \in Handler \ {h} : g \notin stale' => pc[g] = "idle" \/ task[g].about # "payment"
  BY WriteOvertakes DEF Topic
<1>2. \A g \in Handler \ {h} : pc'[g] = pc[g] /\ task'[g] = task[g]
  BY DEF TypeOK
<1>3. RuleFollows(h)'
  BY Elsewhere
<1> QED BY <1>1, <1>2, <1>3, RulesStep DEF RulesAside

LEMMA WritesRules ==
  ASSUME TypeOK, TypeOK', RulesFollow, NEW h \in Handler, Written(h, "payment"), Finish(h)
  PROVE  RulesFollow'
BY PaymentWritten DEF Finish

\* A rule found stays with the request through the statements that follow.
LEMMA SyncRuleStands ==
  ASSUME RulesFollow, NEW h \in Handler, pc[h] = "delete", pc'[h] \in {"delete", "create"},
         task'[h].rule = task[h].rule, UNCHANGED <<rows, today, stale>>
  PROVE  RuleFollows(h)'
<1>1. SyncedRules(rows)' = SyncedRules(rows)
  BY DEF SyncedRules, LatestSelected
<1> QED BY <1>1 DEF RulesFollow, RuleFollows

LEMMA LandlordRules ==
  ASSUME IInv, TypeOK', RulesFollow, NEW h \in Handler, Landlord(h)
  PROVE  RulesFollow'
<1>1. TypeOK
  BY DEF IInv
<1>2. ASSUME NEW type \in PaymentType, NEW due \in Due, NEW n \in Cycles \cup {0}, Schedule(h, type, due, n)
      PROVE  RulesFollow'
  <2>1. PICK to : to = [k \in 1..(n + 1) |-> Fresh(type, due + (k - 1) * Period)]
    OBVIOUS
  <2>2. to[1].type = type
    <3>1. n \in Nat /\ 1 \in 1..(n + 1)
      BY ScheduleAssumption
    <3>2. PICK d : to[1] = Fresh(type, d)
      BY <2>1, <3>1
    <3> QED BY <3>2 DEF Fresh
  <2>3. PICK rule \in Syncs(type, View(0, to)) : Begin(h, "open", Opened(0, to, rule))
    BY <1>2, <2>1 DEF Schedule
  <2>4. UNCHANGED <<events, stale, rows, today>>
    BY <1>2 DEF Schedule, scheduleVars
  <2> QED BY <1>1, <2>2, <2>3, <2>4, OpenedRules DEF Begin
<1>3. ASSUME NEW i \in DOMAIN rows, NEW status, NEW paid, Update(h, i, status, paid)
      PROVE  RulesFollow'
  <2>1. PICK r : r = [rows[i] EXCEPT !.status = status, !.paid = IF status = "PAID" THEN paid ELSE Null]
    OBVIOUS
  <2>2. r.type = rows[i].type
    <3>1. rows[i] \in Columns
      BY <1>1 DEF TypeOK, Row
    <3> QED BY <2>1, <3>1 DEF Columns
  <2>3. PICK to : to = <<r>>
    OBVIOUS
  <2>a. to[1] = r
    BY <2>3
  <2>4. PICK rule \in Syncs(rows[i].type, View(i, to)) : Begin(h, "open", Opened(i, to, rule))
    BY <1>3, <2>1, <2>3 DEF Update
  <2>5. UNCHANGED <<events, stale, rows, today>>
    BY <1>3 DEF Update, scheduleVars
  <2> QED BY <1>1, <2>2, <2>a, <2>4, <2>5, OpenedRules DEF Begin
<1>4. ASSUME NEW i \in DOMAIN rows, NEW outcome, NEW paid, ReviewCheck(h, i, outcome, paid)
      PROVE  RulesFollow'
  <2>1. PICK t : pc' = [pc EXCEPT ![h] = "review"] /\ task' = [task EXCEPT ![h] = t]
    BY <1>4 DEF ReviewCheck, Begin
  <2>2. UNCHANGED <<events, stale, rows, today>>
    BY <1>4 DEF ReviewCheck, scheduleVars
  <2>3. RuleFollows(h)'
    BY <1>1, <2>1, Elsewhere
  <2> QED BY <1>1, <2>1, <2>2, <2>3, QuietRules
<1>5. ASSUME ReviewWrite(h) PROVE RulesFollow'
  <2>1. PICK i, outcome, date : i = task[h].row /\ outcome = task[h].outcome /\ date = task[h].paid
    OBVIOUS
  <2>2. PICK r : r = [rows[i] EXCEPT !.status = IF outcome = "FULL" THEN "PAID" ELSE "PENDING",
                                     !.paid = date, !.outcome = outcome]
    OBVIOUS
  <2>3. r.type = rows[i].type
    <3>1. i \in 1..Len(rows)
      BY <1>5, <2>1 DEF IInv, HandlerFits, ReviewWrite, Move
    <3>2. rows[i] \in Columns
      BY <1>1, <3>1 DEF TypeOK, Row
    <3> QED BY <2>2, <3>2 DEF Columns
  <2>4. PICK to : to = <<r>>
    OBVIOUS
  <2>a. to[1] = r
    BY <2>4
  <2>5. PICK rule \in Syncs(rows[i].type, View(i, to)) : task' = [task EXCEPT ![h] = Opened(i, to, rule)]
    BY <1>5, <2>1, <2>2, <2>4 DEF ReviewWrite
  <2>6. pc' = [pc EXCEPT ![h] = "open"] /\ UNCHANGED <<events, stale, rows, today>>
    BY <1>5 DEF ReviewWrite, Move, scheduleVars
  <2> QED BY <1>1, <2>3, <2>a, <2>5, <2>6, OpenedRules
<1>6. ASSUME PaymentCommit(h) PROVE RulesFollow'
  BY <1>1, <1>6, WritesRules DEF PaymentCommit
<1> QED BY <1>2, <1>3, <1>4, <1>5, <1>6 DEF Landlord

LEMMA RenterRules ==
  ASSUME IInv, TypeOK', RulesFollow, NEW h \in Handler, Renter(h)
  PROVE  RulesFollow'
<1>1. TypeOK
  BY DEF IInv
<1>2. ASSUME NEW i, NEW paid, Confirm(h, i, paid) PROVE RulesFollow'
  <2>1. PICK t : pc' = [pc EXCEPT ![h] = "paid"] /\ task' = [task EXCEPT ![h] = t] /\ Written(h, "payment")
    BY <1>2 DEF Confirm, Begin
  <2> QED BY <1>1, <2>1, PaymentWritten
<1>3. ASSUME SyncRead(h) PROVE RulesFollow'
  <2>1. UNCHANGED <<events, rows, today>> /\ stale \ {h} \subseteq stale'
    BY <1>3 DEF SyncRead, scheduleVars
  <2>2. CASE rows[task[h].row].type = "UTILITY"
    <3>1. PICK rule \in SyncedRules(rows) :
              task' = [task EXCEPT ![h] = [about |-> "payment", rule |-> rule, met |-> {}]]
      BY <1>3, <2>2 DEF SyncRead
    <3>2. PICK t : t = [about |-> "payment", rule |-> rule, met |-> {}]
      OBVIOUS
    <3>a. t.rule = rule
      BY <3>2
    <3>3. pc' = [pc EXCEPT ![h] = "delete"] /\ task' = [task EXCEPT ![h] = t]
      BY <1>3, <2>2, <3>1, <3>2 DEF SyncRead, Move
    <3>4. SyncedRules(rows)' = SyncedRules(rows)
      BY <2>1 DEF SyncedRules, LatestSelected
    <3>5. pc'[h] = "delete" /\ task'[h] = t
      BY <1>1, <3>3 DEF TypeOK
    <3>6. RuleFollows(h)'
      BY <3>1, <3>a, <3>4, <3>5 DEF RuleFollows
    <3> QED BY <1>1, <2>1, <3>3, <3>6, QuietRules
  <2>3. CASE rows[task[h].row].type # "UTILITY"
    <3>1. pc' = [pc EXCEPT ![h] = "idle"] /\ task' = [task EXCEPT ![h] = NoTask]
      BY <1>3, <2>3 DEF SyncRead, Finish
    <3>2. RuleFollows(h)'
      BY <1>1, <3>1, Elsewhere
    <3> QED BY <1>1, <2>1, <3>1, <3>2, QuietRules
  <2> QED BY <2>2, <2>3
<1>4. ASSUME SyncWait(h) PROVE RulesFollow'
  <2>1. /\ pc[h] = "delete" /\ UNCHANGED <<pc, events, rows, today, stale>>
        /\ task' = [task EXCEPT ![h].met = Family(UtilityRules)]
    BY <1>4 DEF SyncWait, Wait, scheduleVars
  <2>2. PICK t : t = [task[h] EXCEPT !.met = Family(UtilityRules)]
    OBVIOUS
  <2>3. task[h] \in SyncTask /\ t.rule = task[h].rule
    BY <1>1, <2>1, <2>2 DEF TypeOK, SyncTask
  <2>4. pc' = [pc EXCEPT ![h] = "delete"] /\ task' = [task EXCEPT ![h] = t]
    BY <1>1, <2>1, <2>2 DEF TypeOK
  <2>5. pc'[h] = "delete" /\ task'[h] = t
    BY <1>1, <2>4 DEF TypeOK
  <2>6. RuleFollows(h)'
    BY <2>1, <2>3, <2>5, <1>4, SyncRuleStands
  <2> QED BY <1>1, <2>1, <2>4, <2>6, QuietRules
<1>5. ASSUME SyncDelete(h) PROVE RulesFollow'
  <2>1. /\ pc[h] = "delete" /\ pc' = [pc EXCEPT ![h] = "create"]
        /\ UNCHANGED <<task, rows, today, stale>> /\ events' \subseteq events
    BY <1>5 DEF SyncDelete, Move, scheduleVars
  <2>2. pc'[h] = "create" /\ \A g \in Handler \ {h} : pc'[g] = pc[g]
    BY <1>1, <2>1 DEF TypeOK
  <2>3. RulesKept
    BY <2>1, SystemEvents DEF RulesKept, Agrees
  <2>4. RuleFollows(h)'
    BY <2>1, <2>2, SyncRuleStands
  <2> QED BY <1>1, <2>1, <2>2, <2>3, <2>4, RulesStep DEF RulesAside
<1>6. ASSUME SyncCreate(h) PROVE RulesFollow'
  BY <1>1, <1>6, WritesRules DEF SyncCreate
<1>7. ASSUME NEW i, ProveCheck(h, i) PROVE RulesFollow'
  <2>1. PICK t : pc' = [pc EXCEPT ![h] = "prove"] /\ task' = [task EXCEPT ![h] = t]
    BY <1>7 DEF ProveCheck, Begin
  <2>2. UNCHANGED <<events, stale, rows, today>>
    BY <1>7 DEF ProveCheck, scheduleVars
  <2>3. RuleFollows(h)'
    BY <1>1, <2>1, Elsewhere
  <2> QED BY <1>1, <2>1, <2>2, <2>3, QuietRules
<1>8. ASSUME ProveWrite(h) PROVE RulesFollow'
  <2>1. PICK i : i = task[h].row
    OBVIOUS
  <2>2. PICK r : r = [rows[i] EXCEPT !.sent = TRUE]
    OBVIOUS
  <2>3. rows' = Updated(rows, i, r) /\ UNCHANGED <<events, today>>
    BY <1>8, <2>1, <2>2 DEF ProveWrite, Updated
  <2>4. rows \in Seq(Row) /\ rows' \in Seq(Row) /\ Len(rows) \in Nat
    BY <1>1 DEF TypeOK
  <2>5. i \in 1..Len(rows) => Agrees(r, rows[i])
    <3> SUFFICES ASSUME i \in 1..Len(rows) PROVE Agrees(r, rows[i])
      OBVIOUS
    <3>1. rows[i] \in Columns
      BY <2>4 DEF Row
    <3> QED BY <2>2, <3>1 DEF Columns, Agrees
  <2>6. \A k \in 1..Len(rows) : Agrees(rows'[k], rows[k])
    BY <2>3, <2>4, <2>5, OthersKept DEF Agrees
  <2>7. Len(rows') = Len(rows)
    BY <2>3, <2>4 DEF Updated
  <2>8. RulesKept
    BY <2>3, <2>6, <2>7, SystemEvents DEF RulesKept
  <2>9. /\ pc' = [pc EXCEPT ![h] = "idle"] /\ task' = [task EXCEPT ![h] = NoTask]
        /\ stale \ {h} \subseteq stale'
    BY <1>8 DEF ProveWrite, Finish, Written
  <2>10. RuleFollows(h)'
    BY <1>1, <2>9, Elsewhere
  <2>11. \A g \in Handler \ {h} : pc'[g] = pc[g] /\ task'[g] = task[g] /\ (g \in stale => g \in stale')
    BY <1>1, <2>9 DEF TypeOK
  <2> QED BY <1>1, <2>8, <2>10, <2>11, RulesStep DEF RulesAside
<1> QED BY <1>2, <1>3, <1>4, <1>5, <1>6, <1>7, <1>8 DEF Renter

\* A commit of another kind makes no event of the utilities' family.
LEMMA OtherCommitRules ==
  ASSUME IInv, TypeOK', RulesFollow, NEW h \in Handler, pc[h] = "open", task[h].about # "payment",
         CommitEvents(h), Finish(h), Written(h, task[h].about), UNCHANGED <<rows, today>>
  PROVE  RulesFollow'
<1>1. PICK t : t = task[h]
  OBVIOUS
<1>2. TypeOK /\ HandlerFits(h) /\ t \in WorkTask
  BY <1>1 DEF IInv, TypeOK
<1>3. WorkShape(t) /\ t.about \in Topic
  BY <1>1, <1>2, WorkParts DEF HandlerFits, Topic
<1>4. events' = (events \ t.seen) \cup t.made
  BY <1>1 DEF CommitEvents
<1>5. \A e \in t.made : e.rule \notin UtilityRules
  <2> SUFFICES ASSUME NEW e \in t.made, e.rule \in UtilityRules PROVE FALSE
    OBVIOUS
  <2>1. PICK F \in Families : About(F) = t.about /\ e.rule \in F
    BY <1>3 DEF WorkShape
  <2>2. UtilityRules \in Families /\ About(UtilityRules) = "payment"
    BY FamiliesAbout
  <2>3. F = UtilityRules
    BY <2>1, <2>2, FamiliesApart
  <2> QED BY <1>1, <2>1, <2>2, <2>3
<1>6. RulesKept
  BY <1>4, <1>5, SystemEvents DEF RulesKept, Agrees
<1>7. /\ pc' = [pc EXCEPT ![h] = "idle"] /\ task' = [task EXCEPT ![h] = NoTask]
      /\ \A g \in Handler \ {h} : g \in stale => g \in stale'
  BY <1>1, <1>2, <1>3, WriteOvertakes DEF Finish
<1>8. \A g \in Handler \ {h} : pc'[g] = pc[g] /\ task'[g] = task[g]
  BY <1>2, <1>7 DEF TypeOK
<1>9. RuleFollows(h)'
  BY <1>2, <1>7, Elsewhere
<1> QED BY <1>2, <1>6, <1>7, <1>8, <1>9, RulesStep DEF RulesAside

\* A step of a reference, a review or a verdict that begins, or goes on, outside payments.
LEMMA OtherRules ==
  ASSUME TypeOK, TypeOK', RulesFollow, NEW h \in Handler, NEW at, NEW t,
         pc' = [pc EXCEPT ![h] = at], task' = [task EXCEPT ![h] = t],
         at \in {"idle", "ask", "judge"} \/ (at = "open" /\ t.about # "payment"),
         UNCHANGED <<events, stale, rows, today>>
  PROVE  RulesFollow'
<1>1. RuleFollows(h)'
  BY Elsewhere
<1> QED BY <1>1, QuietRules

LEMMA ReferRules ==
  ASSUME IInv, TypeOK', RulesFollow, NEW h \in Handler, Refer(h), UNCHANGED scheduleVars
  PROVE  RulesFollow'
<1>1. TypeOK /\ UNCHANGED <<rows, today>>
  BY DEF IInv, scheduleVars
<1>2. ASSUME AskCheck(h) PROVE RulesFollow'
  <2>1. PICK t : pc' = [pc EXCEPT ![h] = "ask"] /\ task' = [task EXCEPT ![h] = t]
    BY <1>2 DEF AskCheck, Begin
  <2> QED BY <1>1, <1>2, <2>1, OtherRules DEF AskCheck
<1>3. ASSUME AskCommit(h) PROVE RulesFollow'
  <2>1. pc' = [pc EXCEPT ![h] = "idle"] /\ task' = [task EXCEPT ![h] = NoTask]
    BY <1>3 DEF AskCommit, Finish
  <2> QED BY <1>1, <1>3, <2>1, OtherRules DEF AskCommit
<1>4. ASSUME NEW i, NEW r, Respond(h, i, r) PROVE RulesFollow'
  <2>1. PICK answer, todo :
            /\ pc' = [pc EXCEPT ![h] = "open"]
            /\ task' = [task EXCEPT ![h] = [
                    about |-> "reference", lock |-> <<"request", i>>, row |-> i, answer |-> answer,
                    todo |-> todo, seen |-> {}, met |-> {}, made |-> {}]]
    BY <1>4 DEF Respond, Begin
  <2>2. PICK t : t = [about |-> "reference", lock |-> <<"request", i>>, row |-> i, answer |-> answer,
                      todo |-> todo, seen |-> {}, met |-> {}, made |-> {}]
    OBVIOUS
  <2>3. t.about = "reference"
    BY <2>2
  <2> QED BY <1>1, <1>4, <2>1, <2>2, <2>3, OtherRules DEF Respond
<1>5. ASSUME RespondCommit(h) PROVE RulesFollow'
  BY <1>1, <1>5, OtherCommitRules DEF RespondCommit
<1> QED BY <1>2, <1>3, <1>4, <1>5 DEF Refer

LEMMA JudgeRules ==
  ASSUME IInv, TypeOK', RulesFollow, NEW h \in Handler, Judge(h), UNCHANGED scheduleVars
  PROVE  RulesFollow'
<1>1. TypeOK /\ UNCHANGED <<rows, today>>
  BY DEF IInv, scheduleVars
<1>a. \A verdict : Judging(verdict).about = "identity"
  BY DEF Judging
<1>2. ASSUME NEW maintenance, NEW compliance, Rate(h, maintenance, compliance) PROVE RulesFollow'
  <2>1. PICK todo :
            /\ pc' = [pc EXCEPT ![h] = "open"]
            /\ task' = [task EXCEPT ![h] = [
                    about |-> "behaviour", lock |-> <<"none", 0>>,
                    todo |-> todo, seen |-> {}, met |-> {}, made |-> {}]]
    BY <1>2 DEF Rate, Begin
  <2>2. PICK t : t = [about |-> "behaviour", lock |-> <<"none", 0>>,
                      todo |-> todo, seen |-> {}, met |-> {}, made |-> {}]
    OBVIOUS
  <2>3. t.about = "behaviour"
    BY <2>2
  <2> QED BY <1>1, <1>2, <2>1, <2>2, <2>3, OtherRules DEF Rate
<1>3. ASSUME RateCommit(h) PROVE RulesFollow'
  BY <1>1, <1>3, OtherCommitRules DEF RateCommit
<1>4. ASSUME SubmitIdentity(h) PROVE RulesFollow'
  <2>1. pc' = [pc EXCEPT ![h] = "open"] /\ task' = [task EXCEPT ![h] = Judging("APPROVED")]
    BY <1>4 DEF SubmitIdentity, Begin
  <2> QED BY <1>1, <1>a, <1>4, <2>1, OtherRules DEF SubmitIdentity
<1>5. ASSUME NEW verdict, JudgeCheck(h, verdict) PROVE RulesFollow'
  <2>1. PICK t : pc' = [pc EXCEPT ![h] = "judge"] /\ task' = [task EXCEPT ![h] = t]
    BY <1>5 DEF JudgeCheck, Begin
  <2> QED BY <1>1, <1>5, <2>1, OtherRules DEF JudgeCheck
<1>6. ASSUME JudgeWrite(h) PROVE RulesFollow'
  <2>1. pc' = [pc EXCEPT ![h] = "open"] /\ task' = [task EXCEPT ![h] = Judging(task[h].verdict)]
    BY <1>6 DEF JudgeWrite, Move
  <2> QED BY <1>1, <1>a, <1>6, <2>1, OtherRules DEF JudgeWrite
<1>7. ASSUME IdentityCommit(h) PROVE RulesFollow'
  BY <1>1, <1>7, OtherCommitRules DEF IdentityCommit
<1> QED BY <1>2, <1>3, <1>4, <1>5, <1>6, <1>7 DEF Judge

\* The delete waits with what it met; the rule is the same.
LEMMA ReplaceWaitRules ==
  ASSUME IInv, TypeOK', RulesFollow, NEW h \in Handler, ReplaceWait(h), UNCHANGED <<rows, today>>
  PROVE  RulesFollow'
<1>1. /\ TypeOK /\ pc[h] = "open" /\ task[h].todo # <<>>
      /\ UNCHANGED <<events, pc, stale>>
  BY DEF IInv, ReplaceWait, Replacing, Wait
<1>2. PICK t, here : t = task[h] /\ here = Replaced(Head(task[h].todo))
  OBVIOUS
<1>3. PICK u : u = [t EXCEPT !.met = here]
  OBVIOUS
<1>4. task' = [task EXCEPT ![h] = u] /\ pc' = [pc EXCEPT ![h] = "open"]
  BY <1>1, <1>2, <1>3 DEF ReplaceWait, Wait, TypeOK
<1>5. t \in WorkTask
  BY <1>1, <1>2 DEF TypeOK
<1>6. CASE t.about # "payment"
  <2>1. u.about = t.about
    <3>1. t \in RespondWork \/ t \in RateWork \/ t \in JudgingWork
      BY <1>5, <1>6, WorkParts DEF WorkTask, PaymentWork
    <3> QED BY <1>3, <3>1 DEF RespondWork, RateWork, JudgingWork
  <2> QED BY <1>1, <1>4, <1>6, <2>1, OtherRules
<1>7. CASE t.about = "payment"
  <2>1. t \in PaymentWork
    BY <1>5, <1>7, WorkParts
  <2>2. u.row = t.row /\ u.to = t.to /\ u.todo = t.todo /\ u.seen = t.seen /\ u.made = t.made
    BY <1>3, <2>1 DEF PaymentWork
  <2>3. h \notin stale => RuleFound(t)
    BY <1>1, <1>2, <1>7 DEF RulesFollow, RuleFollows
  <2>4. SyncedRules(View(t.row, t.to))' = SyncedRules(View(t.row, t.to))
    <3>1. View(t.row, t.to)' = View(t.row, t.to)
      BY DEF View
    <3> QED BY <3>1 DEF SyncedRules, LatestSelected
  <2>5. RuleFound(t) => RuleFound(u)'
    BY <1>1, <2>2, <2>4, SystemEvents DEF RuleFound
  <2>6. pc'[h] = "open" /\ task'[h] = u
    BY <1>1, <1>4 DEF TypeOK
  <2>7. RuleFollows(h)'
    BY <1>1, <2>3, <2>5, <2>6 DEF RuleFollows
  <2> QED BY <1>1, <1>4, <2>7, QuietRules
<1> QED BY <1>6, <1>7

\* The replacement makes the event of the rule that was found.
LEMMA ReplaceRules ==
  ASSUME IInv, TypeOK', RulesFollow, NEW h \in Handler, Replace(h), UNCHANGED <<rows, today>>
  PROVE  RulesFollow'
<1>1. /\ TypeOK /\ Numbered /\ HandlerFits(h) /\ pc[h] = "open" /\ task[h].todo # <<>>
      /\ UNCHANGED <<events, pc, stale>>
  BY DEF IInv, Replace, Replacing
<1>2. PICK t, job : t = task[h] /\ job = Head(task[h].todo)
  OBVIOUS
<1>3. PICK gone, new : gone = Met(h, Replaced(job)) /\ new = New(job.rule, "SYSTEM")
  OBVIOUS
<1>4. PICK u : u = [t EXCEPT !.todo = Tail(@), !.seen = @ \cup gone, !.met = {}, !.made = @ \cup new]
  OBVIOUS
<1>5. task' = [task EXCEPT ![h] = u] /\ pc' = [pc EXCEPT ![h] = "open"]
  <2>1. task' = [task EXCEPT ![h].todo = Tail(@), ![h].seen = @ \cup gone, ![h].met = {},
                             ![h].made = @ \cup new]
    BY <1>2, <1>3 DEF Replace
  <2> QED BY <1>1, <1>2, <1>4, <2>1 DEF TypeOK
<1>6. t \in WorkTask
  BY <1>1, <1>2 DEF TypeOK
<1>7. CASE t.about # "payment"
  <2>1. u.about = t.about
    <3>1. t \in RespondWork \/ t \in RateWork \/ t \in JudgingWork
      BY <1>6, <1>7, WorkParts DEF WorkTask, PaymentWork
    <3> QED BY <1>4, <3>1 DEF RespondWork, RateWork, JudgingWork
  <2> QED BY <1>1, <1>5, <1>7, <2>1, OtherRules
<1>8. CASE t.about = "payment"
  <2> SUFFICES ASSUME h \notin stale PROVE RuleFound(u)'
    <3>1. pc'[h] = "open" /\ task'[h] = u
      BY <1>1, <1>5 DEF TypeOK
    <3>2. h \notin stale => RuleFound(u)'
      OBVIOUS
    <3>3. RuleFollows(h)'
      BY <1>1, <3>1, <3>2 DEF RuleFollows
    <3> QED BY <1>1, <1>5, <3>3, QuietRules
  <2>1. t \in PaymentWork
    BY <1>6, <1>8, WorkParts
  <2>2. /\ u.row = t.row /\ u.to = t.to /\ u.todo = Tail(t.todo)
        /\ u.seen = t.seen \cup gone /\ u.made = t.made \cup new
    BY <1>4, <2>1 DEF PaymentWork
  <2>3. RuleFound(t)
    BY <1>1, <1>2, <1>8 DEF RulesFollow, RuleFollows
  <2>4. PICK rule \in SyncedRules(View(t.row, t.to)) :
            t.todo = <<[codes |-> UtilityRules, rule |-> rule]>> /\ t.made = {}
    BY <1>1, <1>2, <2>3 DEF RuleFound
  <2>5. /\ job = [codes |-> UtilityRules, rule |-> rule]
        /\ Tail(t.todo) = <<>> /\ t.todo[1] = job /\ 1 \in 1..Len(t.todo)
    BY <1>2, <2>4
  <2>6. job.codes = UtilityRules /\ job.rule = rule
    BY <2>5
  <2>7. SystemOf(UtilityRules) \subseteq gone
    <3>1. gone = IF t.met = {} THEN Family(UtilityRules) ELSE t.met
      BY <1>2, <1>3, <2>6 DEF Met, Replaced
    <3>2. Covered(t)
      BY <1>1, <1>2 DEF HandlerFits, Undisturbed
    <3>3. t.met # {} => SystemOf(UtilityRules) \subseteq t.met
      BY <1>1, <1>2, <2>5, <2>6, <3>2 DEF Covered
    <3> QED BY <3>1, <3>3 DEF SystemOf, BySystem
  <2>8. rule \in UtilityRules \cup {NoRule}
    BY <1>1, <1>2, <2>5, <2>6 DEF HandlerFits, WorkShape
  <2>9. {e.rule : e \in new} = {rule} \ {NoRule}
    <3>1. rule \in Rule \cup {NoRule}
      BY <2>8, FamiliesAbout, FamiliesApart
    <3>2. /\ \A e \in new : e.rule = rule
          /\ rule = NoRule => new = {}
          /\ rule # NoRule => \E e \in new : new = {e}
      BY <1>1, <1>3, <2>6, <3>1, NewEvent
    <3> QED BY <3>2
  <2>10. rule \in SyncedRules(View(u.row, u.to))'
    <3>1. View(u.row, u.to)' = View(t.row, t.to)
      BY <2>2 DEF View
    <3> QED BY <2>4, <3>1 DEF SyncedRules, LatestSelected
  <2>11. SystemOf(UtilityRules)' \subseteq u.seen
    BY <1>1, <2>2, <2>7, SystemEvents
  <2>12. u.made = new /\ u.todo = <<>>
    BY <2>2, <2>4, <2>5
  <2> QED BY <2>9, <2>10, <2>11, <2>12 DEF RuleFound
<1> QED BY <1>7, <1>8

\* Nobody moves, and what a recalculation relies on stays, or it is overtaken.
LEMMA UnmovedRules ==
  ASSUME TypeOK, TypeOK', RulesFollow, UNCHANGED <<pc, task>>, stale \subseteq stale',
         \A g \in Handler : g \in stale' \/ ~Recalculates(g) \/ RulesKept
  PROVE  RulesFollow'
<1> SUFFICES ASSUME NEW g \in Handler PROVE RuleFollows(g)'
  BY DEF RulesFollow
<1>1. RuleFollows(g) /\ pc'[g] = pc[g] /\ task'[g] = task[g] /\ (g \in stale => g \in stale')
  BY DEF RulesFollow
<1> QED BY <1>1, RulesStand

LEMMA EventsRules ==
  ASSUME IInv, TypeOK', RulesFollow, Events, UNCHANGED <<scheduleVars, referenceVars>>
  PROVE  RulesFollow'
<1>1. TypeOK /\ Numbered /\ UNCHANGED <<rows, today>>
  BY DEF IInv, scheduleVars
<1>2. ASSUME NEW h \in Handler, EventsAbort(h) PROVE RulesFollow'
  <2>1. /\ pc' = [pc EXCEPT ![h] = "idle"] /\ task' = [task EXCEPT ![h] = NoTask]
        /\ UNCHANGED events /\ stale \ {h} \subseteq stale'
    BY <1>2 DEF EventsAbort, Finish
  <2>2. RuleFollows(h)'
    BY <1>1, <2>1, Elsewhere
  <2> QED BY <1>1, <2>1, <2>2, QuietRules
<1>3. ASSUME NEW rule \in RecordedRule, RecordEvent(rule) PROVE RulesFollow'
  <2>1. PICK new : new = New(rule, "ADMIN")
    OBVIOUS
  <2>2. \A e \in new : e.by = "ADMIN"
    BY <1>1, <2>1, EventsAssumption, NewEvent
  <2>3. events' = events \cup new /\ UNCHANGED <<pc, task, stale>>
    BY <1>3, <2>1 DEF RecordEvent
  <2>4. RulesKept
    BY <1>1, <2>2, <2>3, SystemEvents DEF RulesKept, Agrees
  <2> QED BY <1>1, <2>3, <2>4, UnmovedRules
<1>4. ASSUME NEW e \in events, DeleteEvent(e) PROVE RulesFollow'
  <2>1. events' \subseteq events /\ UNCHANGED <<pc, task, stale>>
    BY <1>4 DEF DeleteEvent
  <2>2. RulesKept
    BY <1>1, <2>1, SystemEvents DEF RulesKept, Agrees
  <2> QED BY <1>1, <2>1, <2>2, UnmovedRules
<1> QED BY <1>1, <1>2, <1>3, <1>4, ReplaceWaitRules, ReplaceRules DEF Events

LEMMA StepRules == IInv /\ RulesFollow /\ [Next]_vars => RulesFollow'
<1> SUFFICES ASSUME IInv, RulesFollow, [Next]_vars PROVE RulesFollow'
  OBVIOUS
<1>1. TypeOK /\ TypeOK'
  BY StepIInv DEF IInv
<1>2. CASE PaymentNext /\ UNCHANGED referenceVars
  <2>1. CASE \E h \in Handler : Landlord(h) \/ Renter(h)
    BY <1>1, <2>1, LandlordRules, RenterRules
  <2>2. CASE NextDay \/ \E type \in PaymentType, paid \in Day : SelfInitiate(type, paid)
    <3>1. /\ UNCHANGED <<events, pc, task>>
          /\ stale' = stale \cup {g \in Handler : pc[g] # "idle" /\ task[g].about = "payment"}
      BY <2>2 DEF NextDay, SelfInitiate
    <3>2. \A g \in Handler : g \in stale' \/ ~Recalculates(g)
      BY <3>1 DEF Recalculates
    <3> QED BY <1>1, <3>1, <3>2, UnmovedRules
  <2> QED BY <1>2, <2>1, <2>2 DEF PaymentNext
<1>3. CASE ReferenceNext /\ UNCHANGED scheduleVars
  BY <1>1, <1>3, ReferRules, JudgeRules DEF ReferenceNext
<1>4. CASE Events /\ UNCHANGED <<scheduleVars, referenceVars>>
  BY <1>1, <1>4, EventsRules
<1>5. CASE UNCHANGED vars
  <2>1. UNCHANGED <<events, pc, task, stale, rows, today>>
    BY <1>5 DEF vars, eventVars, scheduleVars
  <2> QED BY <1>1, <2>1, RowsAgree, UnmovedRules
<1> QED BY <1>2, <1>3, <1>4, <1>5 DEF Next, Requests

LEMMA InitRules == Init => RulesFollow
BY DEF Init, EventsInit, RulesFollow, RuleFollows

\* A recalculation in flight ends with its own write, or it writes no event.
LEMMA PaymentEnds ==
  ASSUME TypeOK, Next, NEW h \in Handler, pc[h] \in {"open", "create"}, task[h].about = "payment",
         pc'[h] = "idle", events' # events
  PROVE  \/ pc[h] = "open" /\ PaymentCommit(h)
         \/ pc[h] = "create" /\ SyncCreate(h)
<1>1. pc \in [Handler -> Place]
  BY DEF TypeOK, Place
<1>2. pc' # pc
  BY <1>1
<1>3. \A g \in Handler : \A at : pc' = [pc EXCEPT ![g] = at] => g = h /\ at = "idle"
  BY <1>1, <1>2
<1>4. ASSUME NEW g \in Handler, Landlord(g)
      PROVE  pc[h] = "open" /\ PaymentCommit(h)
  <2>1. PaymentCommit(g)
    BY <1>3, <1>4 DEF Landlord, Schedule, Update, ReviewCheck, ReviewWrite, Begin, Move
  <2> QED BY <1>3, <2>1 DEF PaymentCommit, Finish
<1>5. ASSUME NEW g \in Handler, Renter(g)
      PROVE  pc[h] = "create" /\ SyncCreate(h)
  <2>1. SyncCreate(g)
    BY <1>2, <1>3, <1>5 DEF Renter, Confirm, SyncRead, SyncWait, SyncDelete, ProveCheck, ProveWrite,
        Begin, Move, Finish, Wait
  <2> QED BY <1>3, <2>1 DEF SyncCreate, Finish
<1>6. ASSUME NEW g \in Handler, Refer(g) \/ Judge(g) PROVE FALSE
  <2>1. ~RespondCommit(g) /\ ~RateCommit(g) /\ ~IdentityCommit(g)
    BY <1>3 DEF RespondCommit, RateCommit, IdentityCommit, Finish
  <2>2. ~Refer(g)
    BY <2>1, <1>3 DEF Refer, AskCheck, AskCommit, Respond, Begin, Finish
  <2>3. ~Judge(g)
    BY <2>1, <1>3 DEF Judge, Rate, SubmitIdentity, JudgeCheck, JudgeWrite, Begin, Move, Finish
  <2> QED BY <1>6, <2>2, <2>3
<1>7. ~NextDay /\ \A type \in PaymentType, paid \in Day : ~SelfInitiate(type, paid)
  BY <1>2 DEF NextDay, SelfInitiate
<1>8. ~Events
  <2>1. \A g \in Handler : ~ReplaceWait(g) /\ ~Replace(g) /\ ~EventsAbort(g)
    BY <1>2 DEF ReplaceWait, Replace, EventsAbort, Wait
  <2>2. \A rule \in RecordedRule : ~RecordEvent(rule)
    BY <1>2 DEF RecordEvent
  <2>3. \A e \in events : ~DeleteEvent(e)
    BY <1>2 DEF DeleteEvent
  <2> QED BY <2>1, <2>2, <2>3 DEF Events
<1> QED BY <1>4, <1>5, <1>6, <1>7, <1>8 DEF Next, Requests, PaymentNext, ReferenceNext

\* syncUtilityPaymentHistoryEvent, "recalculated from payment history": a recalculation that
\* nothing overtook leaves, of the events the system keeps, the one of the rule the score
\* applies to the utility payments, or none for no rule, however other requests and the
\* administrators' own events interleave with it; unless a partial payment is latest that is
\* not due yet.
THEOREM SyncFollows == Spec => SyncFollowsRecord
<1> DEFINE Utilities == OfType(rows', "UTILITY")
           Left == {e.rule : e \in BySystem({x \in events' : x.rule \in UtilityRules})}
           Kept == \A h \in Handler :
              LET utilities == OfType(rows', "UTILITY")
                  scored == LatestRelevant(utilities)
                  left == {e.rule : e \in BySystem({x \in events' : x.rule \in UtilityRules})} IN
              /\ pc[h] \in {"open", "create"} /\ pc'[h] = "idle" /\ events' # events
              /\ task[h].about = "payment" /\ h \notin stale
              /\ scored = LatestSelected(utilities)
              => \E rule \in ScoredRules(rows') : left = {rule} \ {NoRule}
<1>1. IInv /\ RulesFollow /\ [Next]_vars => [Kept]_vars
  <2> SUFFICES ASSUME IInv, RulesFollow, Next, NEW h \in Handler, pc[h] \in {"open", "create"},
                      pc'[h] = "idle", events' # events, task[h].about = "payment", h \notin stale,
                      LatestRelevant(Utilities) = LatestSelected(Utilities)
               PROVE  \E rule \in ScoredRules(rows') : Left = {rule} \ {NoRule}
    OBVIOUS
  <2>1. TypeOK /\ Numbered /\ HandlerFits(h) /\ RuleFollows(h)
    BY DEF IInv, RulesFollow
  <2>2. ScoredRules(rows') = SyncedRules(rows')
    BY DEF ScoredRules, SyncedRules
  <2>3. PICK all, S : all = events' /\ S = BySystem({x \in events' : x.rule \in UtilityRules})
    OBVIOUS
  <2>4. \A e : e \in S <=> e \in all /\ e.rule \in UtilityRules /\ e.by = "SYSTEM"
    BY <2>3 DEF BySystem
  <2>5. PICK t : t = task[h]
    OBVIOUS
  <2>6. CASE pc[h] = "open" /\ PaymentCommit(h)
    <3>1. /\ t.todo = <<>> /\ all = (events \ t.seen) \cup t.made
          /\ rows' = View(t.row, t.to)
      BY <2>3, <2>5, <2>6 DEF PaymentCommit, CommitEvents
    <3>2. RuleFound(t) \/ (t.seen = {} /\ t.made = {})
      BY <2>1, <2>5, <2>6 DEF RuleFollows
    <3>3. ~(t.seen = {} /\ t.made = {})
      BY <2>3, <3>1
    <3>4. PICK rule \in SyncedRules(View(t.row, t.to)) :
            /\ SystemOf(UtilityRules) \subseteq t.seen
            /\ {e.rule : e \in t.made} = {rule} \ {NoRule}
      <4>1. \A x : t.todo # <<x>>
        BY <3>1
      <4> QED BY <3>2, <3>3, <4>1 DEF RuleFound
    <3>5. WorkShape(t) /\ t.about = "payment"
      BY <2>1, <2>5, <2>6 DEF HandlerFits
    <3>6. \A e \in t.made : e.by = "SYSTEM" /\ e.rule \in UtilityRules
      <4> SUFFICES ASSUME NEW e \in t.made PROVE e.by = "SYSTEM" /\ e.rule \in UtilityRules
        OBVIOUS
      <4>1. e.by = "SYSTEM" /\ \E F \in Families : About(F) = "payment" /\ e.rule \in F
        BY <3>5 DEF WorkShape
      <4>2. \A F \in Families : About(F) = "payment" => F = UtilityRules
        BY DEF About
      <4> QED BY <4>1, <4>2
    <3>7. S = t.made
      <4>1. \A e \in S : e \in t.made
        BY <2>4, <3>1, <3>4, SystemEvents
      <4>2. \A e \in t.made : e \in S
        BY <2>4, <3>1, <3>6
      <4> QED BY <4>1, <4>2
    <3>8. Left = {rule} \ {NoRule}
      BY <2>3, <3>4, <3>7
    <3>9. rule \in SyncedRules(rows')
      BY <3>1, <3>4
    <3> QED BY <2>2, <3>8, <3>9
  <2>7. CASE pc[h] = "create" /\ SyncCreate(h)
    <3>1. /\ all = events \cup New(t.rule, "SYSTEM") /\ UNCHANGED <<rows, today>>
      BY <2>3, <2>5, <2>7 DEF SyncCreate, scheduleVars
    <3>2. SystemOf(UtilityRules) = {}
      BY <2>1, <2>7 DEF HandlerFits, RecalculationFits
    <3>3. t.rule \in SyncedRules(rows)
      BY <2>1, <2>5, <2>7 DEF RuleFollows
    <3>4. t.rule \in UtilityRules \cup {NoRule}
      BY <2>1, <2>5, <2>7 DEF TypeOK, SyncTask
    <3>5. PICK new, rule : new = New(t.rule, "SYSTEM") /\ rule = t.rule
      OBVIOUS
    <3>6. /\ \A e \in new : e.rule = rule /\ e.by = "SYSTEM"
          /\ rule = NoRule => new = {}
          /\ rule # NoRule => \E e \in new : new = {e}
      <4>1. rule \in Rule \cup {NoRule}
        BY <3>4, <3>5, FamiliesAbout, FamiliesApart
      <4> QED BY <2>1, <3>5, <4>1, NewEvent
    <3>7. S = new
      <4>1. \A e \in S : e \in new
        BY <2>4, <3>1, <3>2, <3>5, SystemEvents
      <4>2. \A e \in new : e \in S
        BY <2>4, <3>1, <3>4, <3>5, <3>6
      <4> QED BY <4>1, <4>2
    <3>8. {e.rule : e \in new} = {rule} \ {NoRule}
      BY <3>6
    <3>9. rule \in SyncedRules(rows')
      BY <3>1, <3>3, <3>5 DEF SyncedRules, LatestSelected
    <3> QED BY <2>2, <2>3, <3>7, <3>8, <3>9
  <2> QED BY <2>1, <2>6, <2>7, PaymentEnds
<1>2. Spec => []RulesFollow
  BY InitRules, StepRules, Invariance, PTL DEF Spec
<1> QED BY <1>1, <1>2, Invariance, PTL DEF Spec, SyncFollowsRecord

=============================================================================
