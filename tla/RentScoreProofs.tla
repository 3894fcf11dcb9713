--------------------------- MODULE RentScoreProofs ---------------------------
(***************************************************************************)
(* Safety of the rent score policy, for any number of administrators, any   *)
(* points and maxima the routes admit and whatever is on record of a        *)
(* renter.  What an administrator's request has checked still holds when it *)
(* writes, unless another has written since; deleting a rule can only lower *)
(* what a category's rules come to.                                         *)
(***************************************************************************)
EXTENDS RentScore, FiniteSetTheorems, WellFoundedInduction, TLAPS

Place == {"idle", "rule", "category", "search", "create"}
Points == -900..900

TaskFits(h) ==
    /\ pc[h] = "idle" => task[h] = NoTask
    /\ pc[h] = "rule" => task[h] \in RuleTask
    /\ pc[h] = "category" => task[h] \in CategoryTask
    /\ pc[h] \in {"search", "create"} => task[h] \in OverrideTask

\* What the rules of any category can come to fits its maximum, active or not.
AllFit == \A c \in Category : ConfiguredPoints(points, active, c) <= max[c]

\* What a request has checked still holds, unless another has written since it read.
ChangeFits(h) ==
    /\ pc[h] = "rule" => Fits(CategoryOf(task[h].rule), task[h].rule, task[h].points)
    /\ pc[h] = "category" => Admits(task[h].category, task[h].max)

PolicyGuarded ==
    "policy" \notin skewed => AllFit /\ \A h \in Admin \ stale : ChangeFits(h)

OverridesGuarded ==
    "overrides" \notin skewed => \A h \in Admin \ stale :
        pc[h] = "create" => Standing(task[h].scope, task[h].target) = {}

IInv ==
    /\ TypeOK
    /\ PolicyGuarded
    /\ OverridesGuarded
    /\ OneOverridePerTarget

-----------------------------------------------------------------------------
(* The best of some rules.                                                  *)

\* Numbers within bounds have a greatest one.
LEMMA Greatest ==
  ASSUME NEW S, S # {}, S \subseteq Points
  PROVE  Max(S) \in S /\ \A x \in S : Max(S) >= x
<1>1. PICK T : T = {n \in Nat : \E x \in S : n = 900 - x}
  OBVIOUS
<1>2. \A x \in S : x \in Int /\ x <= 900
  BY DEF Points
<1>3. \A x \in S : 900 - x \in T
  BY <1>1, <1>2
<1>4. T \subseteq Nat /\ T # {}
  BY <1>1, <1>3
<1>5. PICK R : R = {ss \in Nat \X Nat : ss[1] < ss[2]} /\ IsWellFoundedOn(R, Nat)
  BY NatLessThanWellFounded DEF OpToRel
<1>6. PICK n \in T : \A k \in T : <<k, n>> \notin R
  BY <1>4, <1>5, WFMin
<1>7. PICK x \in S : n = 900 - x
  BY <1>1
<1>8. \A y \in S : x >= y
  <2> SUFFICES ASSUME NEW y \in S PROVE x >= y
    OBVIOUS
  <2>1. PICK k \in T : k = 900 - y
    BY <1>3
  <2>2. k \in Nat /\ n \in Nat
    BY <1>4
  <2>3. ~(k < n)
    BY <1>5, <1>6, <2>2
  <2> QED BY <1>2, <1>7, <2>1, <2>2, <2>3
<1> QED BY <1>7, <1>8 DEF Max

\* What a policy's points and activity look like.
Policy(p, a) == p \in [Rule -> Points] /\ a \subseteq Rule

LEMMA BestIsReached ==
  ASSUME NEW p, NEW a, Policy(p, a), NEW rules \in SUBSET Rule
  PROVE  /\ Best(p, a, rules) \in 0..900
         /\ \A r \in rules : Worth(p, a, r) <= Best(p, a, rules)
         /\ Best(p, a, rules) = 0 \/ \E r \in rules : Best(p, a, rules) = Worth(p, a, r)
<1>1. PICK S : S = {0} \cup {Worth(p, a, r) : r \in rules}
  OBVIOUS
<1>2. S # {} /\ S \subseteq Points
  BY <1>1 DEF Worth, Points, Policy
<1>3. PICK b : b = Best(p, a, rules)
  OBVIOUS
<1>4. b \in S /\ \A x \in S : b >= x
  BY <1>1, <1>2, <1>3, Greatest DEF Best
<1>5. b \in 0..900
  <2>1. b \in Points /\ 0 \in S
    BY <1>1, <1>2, <1>4
  <2>2. b >= 0
    BY <1>4, <2>1
  <2> QED BY <2>1, <2>2 DEF Points
<1>6. \A r \in rules : Worth(p, a, r) \in S /\ Worth(p, a, r) \in Int
  <2>1. Points \subseteq Int
    BY DEF Points
  <2>2. \A r \in rules : Worth(p, a, r) \in S
    BY <1>1
  <2> QED BY <1>2, <2>1, <2>2
<1> QED BY <1>1, <1>3, <1>4, <1>5, <1>6

\* No rule is worth more, or those that are are worth nothing: the best is not better.
LEMMA BestMonotone ==
  ASSUME NEW p, NEW a, Policy(p, a), NEW q, NEW b, Policy(q, b), NEW rules \in SUBSET Rule,
         \A r \in rules : Worth(q, b, r) \in {0, Worth(p, a, r)}
  PROVE  Best(q, b, rules) <= Best(p, a, rules)
BY BestIsReached

LEMMA BestSame ==
  ASSUME NEW p, NEW a, NEW q, NEW b, NEW rules,
         \A r \in rules : Worth(q, b, r) = Worth(p, a, r)
  PROVE  Best(q, b, rules) = Best(p, a, rules)
<1>1. {Worth(q, b, r) : r \in rules} = {Worth(p, a, r) : r \in rules}
  OBVIOUS
<1> QED BY <1>1 DEF Best

LEMMA BestBelow ==
  ASSUME NEW p, NEW a, Policy(p, a), NEW rules \in SUBSET Rule, NEW n \in Nat,
         \A r \in rules : p[r] <= n
  PROVE  Best(p, a, rules) <= n
<1>1. Best(p, a, rules) \in 0..900
      /\ (Best(p, a, rules) = 0 \/ \E r \in rules : Best(p, a, rules) = Worth(p, a, r))
  BY BestIsReached
<1>2. \A r \in rules : Worth(p, a, r) = 0 \/ Worth(p, a, r) <= n
  BY DEF Worth
<1> QED BY <1>1, <1>2

-----------------------------------------------------------------------------
(* The default policy.                                                      *)

LEMMA RuleSets ==
  /\ IdentityRules \subseteq Rule /\ RentRules \subseteq Rule /\ UtilityRules \subseteq Rule
  /\ MaintenanceRules \subseteq Rule /\ ComplianceRules \subseteq Rule
  /\ StabilityRules \subseteq Rule /\ EmploymentRules \subseteq Rule
  /\ ReferenceRules \subseteq Rule /\ BandRules \subseteq Rule
BY DEF IdentityRules, RentRules, UtilityRules, MaintenanceRules, ComplianceRules, StabilityRules,
       EmploymentRules, ReferenceRules, BandRules, Rule, DefaultPoints

LEMMA DefaultTyped ==
  Policy(DefaultPoints, Rule) /\ DefaultMax \in [Category -> 0..900]
<1>1. \A r \in Rule : DefaultPoints[r] \in 0..200
  BY DEF Rule, DefaultPoints
<1>2. DefaultPoints = [r \in Rule |-> DefaultPoints[r]]
  BY DEF Rule, DefaultPoints
<1>3. 0..200 \subseteq Points
  BY DEF Points
<1>4. DefaultPoints \in [Rule -> Points]
  BY <1>1, <1>2, <1>3
<1>5. DefaultMax \in [Category -> 0..900]
  BY DEF DefaultMax, Category
<1> QED BY <1>4, <1>5 DEF Policy

\* Every rule is of one category.
LEMMA RuleHasCategory ==
  ASSUME NEW r \in Rule
  PROVE  /\ CategoryOf(r) \in Category
         /\ \A c \in Category : r \in RulesOf[c] => c = CategoryOf(r)
<1>1. \E c \in Category : r \in RulesOf[c]
  BY DEF Rule, DefaultPoints, Category, DefaultMax, RulesOf, IdentityRules, RentRules, UtilityRules,
         MaintenanceRules, ComplianceRules, StabilityRules, EmploymentRules, ReferenceRules, BandRules
<1>2. \A c, d \in Category : r \in RulesOf[c] /\ r \in RulesOf[d] => c = d
  BY DEF Rule, DefaultPoints, Category, DefaultMax, RulesOf, IdentityRules, RentRules, UtilityRules,
         MaintenanceRules, ComplianceRules, StabilityRules, EmploymentRules, ReferenceRules, BandRules
<1> QED BY <1>1, <1>2 DEF CategoryOf

\* The rules of a category, in the groups that are compared.
Other == {"RENTAL_STABILITY", "EMPLOYMENT_STABILITY", "LANDLORD_REFERENCE", "RENTER_BAND"}

LEMMA RulesOfCategory ==
  /\ Category = {"IDENTITY_VERIFICATION", "PAYMENT", "RENTER_BEHAVIOUR"} \cup Other
  /\ \A r \in {"REGISTRATION_COMPLETED", "EMAIL_VERIFIED", "PHONE_UPDATED",
               "GOVERNMENT_ID_VERIFIED", "COMPLETE_PROFILE"} :
        r \in RulesOf["IDENTITY_VERIFICATION"]
  /\ RentRules \subseteq RulesOf["PAYMENT"] /\ UtilityRules \subseteq RulesOf["PAYMENT"]
  /\ MaintenanceRules \subseteq RulesOf["RENTER_BEHAVIOUR"]
  /\ ComplianceRules \subseteq RulesOf["RENTER_BEHAVIOUR"]
<1>1. Category = {"IDENTITY_VERIFICATION", "PAYMENT", "RENTER_BEHAVIOUR"} \cup Other
  BY DEF Category, DefaultMax, Other
<1> QED BY <1>1 DEF RulesOf, IdentityRules

LEMMA RulesOfRules == \A c \in Category : RulesOf[c] \subseteq Rule
BY RuleSets DEF RulesOf, Category, DefaultMax

LEMMA ConfiguredParts ==
  ASSUME NEW p, NEW a
  PROVE  /\ ConfiguredPoints(p, a, "IDENTITY_VERIFICATION") =
                Best(p, a, {"REGISTRATION_COMPLETED"}) + Best(p, a, {"EMAIL_VERIFIED"})
                + Best(p, a, {"PHONE_UPDATED"}) + Best(p, a, {"GOVERNMENT_ID_VERIFIED"})
                + Best(p, a, {"COMPLETE_PROFILE"})
         /\ ConfiguredPoints(p, a, "PAYMENT") = Best(p, a, RentRules) + Best(p, a, UtilityRules)
         /\ ConfiguredPoints(p, a, "RENTER_BEHAVIOUR")
                = Best(p, a, MaintenanceRules) + Best(p, a, ComplianceRules)
         /\ \A c \in Other : ConfiguredPoints(p, a, c) = Best(p, a, RulesOf[c])
BY DEF ConfiguredPoints, PaymentPoints, Other

\* A category whose rules are worth what they were comes to what it did.
LEMMA ConfiguredSame ==
  ASSUME NEW p, NEW a, NEW q, NEW b, NEW c \in Category,
         \A r \in RulesOf[c] : Worth(q, b, r) = Worth(p, a, r)
  PROVE  ConfiguredPoints(q, b, c) = ConfiguredPoints(p, a, c)
<1>1. \A rules \in SUBSET RulesOf[c] : Best(q, b, rules) = Best(p, a, rules)
  BY BestSame
<1>2. CASE c = "IDENTITY_VERIFICATION"
  BY <1>1, <1>2, RulesOfCategory, ConfiguredParts
<1>3. CASE c = "PAYMENT"
  BY <1>1, <1>3, RulesOfCategory, ConfiguredParts
<1>4. CASE c = "RENTER_BEHAVIOUR"
  BY <1>1, <1>4, RulesOfCategory, ConfiguredParts
<1>5. CASE c \in Other
  BY <1>1, <1>5, ConfiguredParts
<1> QED BY <1>2, <1>3, <1>4, <1>5, RulesOfCategory

\* A category whose rules are worth what they were, or nothing, comes to no more.
LEMMA ConfiguredMonotone ==
  ASSUME NEW p, NEW a, Policy(p, a), NEW q, NEW b, Policy(q, b), NEW c \in Category,
         \A r \in RulesOf[c] : Worth(q, b, r) \in {0, Worth(p, a, r)}
  PROVE  ConfiguredPoints(q, b, c) <= ConfiguredPoints(p, a, c)
<1>1. \A rules \in SUBSET RulesOf[c] :
        /\ Best(q, b, rules) <= Best(p, a, rules)
        /\ Best(q, b, rules) \in Int /\ Best(p, a, rules) \in Int
  <2> SUFFICES ASSUME NEW rules \in SUBSET RulesOf[c]
               PROVE  /\ Best(q, b, rules) <= Best(p, a, rules)
                      /\ Best(q, b, rules) \in Int /\ Best(p, a, rules) \in Int
    OBVIOUS
  <2>1. rules \in SUBSET Rule
    BY RulesOfRules
  <2>2. Best(q, b, rules) \in 0..900 /\ Best(p, a, rules) \in 0..900
    BY <2>1, BestIsReached
  <2>3. Best(q, b, rules) <= Best(p, a, rules)
    BY <2>1, BestMonotone
  <2> QED BY <2>2, <2>3
<1>2. CASE c = "IDENTITY_VERIFICATION"
  <2>1. \A r \in {"REGISTRATION_COMPLETED", "EMAIL_VERIFIED", "PHONE_UPDATED",
                  "GOVERNMENT_ID_VERIFIED", "COMPLETE_PROFILE"} :
          /\ Best(q, b, {r}) <= Best(p, a, {r}) /\ Best(q, b, {r}) \in Int /\ Best(p, a, {r}) \in Int
    BY <1>1, <1>2, RulesOfCategory
  <2> QED BY <1>2, <2>1, ConfiguredParts
<1>3. CASE c = "PAYMENT"
  BY <1>1, <1>3, RulesOfCategory, ConfiguredParts
<1>4. CASE c = "RENTER_BEHAVIOUR"
  BY <1>1, <1>4, RulesOfCategory, ConfiguredParts
<1>5. CASE c \in Other
  BY <1>1, <1>5, ConfiguredParts
<1> QED BY <1>2, <1>3, <1>4, <1>5, RulesOfCategory

LEMMA ConfiguredTyped ==
  ASSUME NEW p, NEW a, Policy(p, a), NEW c \in Category
  PROVE  ConfiguredPoints(p, a, c) \in Int
<1>1. \A rules \in SUBSET Rule : Best(p, a, rules) \in Int
  BY BestIsReached
<1>2. \A r \in {"REGISTRATION_COMPLETED", "EMAIL_VERIFIED", "PHONE_UPDATED",
                "GOVERNMENT_ID_VERIFIED", "COMPLETE_PROFILE"} : {r} \in SUBSET Rule
  BY RuleSets DEF IdentityRules
<1>3. Other \subseteq Category
  BY RulesOfCategory
<1> QED BY <1>1, <1>2, <1>3, RuleSets, RulesOfCategory, RulesOfRules, ConfiguredParts

\* The default policy fits its maxima.
LEMMA DefaultFits == \A c \in Category : ConfiguredPoints(DefaultPoints, Rule, c) <= DefaultMax[c]
<1>1. \A rules \in SUBSET Rule, n \in Nat :
        (\A r \in rules : DefaultPoints[r] <= n) =>
            Best(DefaultPoints, Rule, rules) <= n /\ Best(DefaultPoints, Rule, rules) \in Int
  <2> SUFFICES ASSUME NEW rules \in SUBSET Rule, NEW n \in Nat, \A r \in rules : DefaultPoints[r] <= n
               PROVE  Best(DefaultPoints, Rule, rules) <= n /\ Best(DefaultPoints, Rule, rules) \in Int
    OBVIOUS
  <2>1. Best(DefaultPoints, Rule, rules) <= n
    BY DefaultTyped, BestBelow
  <2>2. Best(DefaultPoints, Rule, rules) \in 0..900
    BY DefaultTyped, BestIsReached
  <2> QED BY <2>1, <2>2
<1>2. \A r \in {"REGISTRATION_COMPLETED", "EMAIL_VERIFIED", "PHONE_UPDATED",
                "GOVERNMENT_ID_VERIFIED", "COMPLETE_PROFILE"} :
        Best(DefaultPoints, Rule, {r}) <= 20 /\ Best(DefaultPoints, Rule, {r}) \in Int
  <2>1. \A r \in {"REGISTRATION_COMPLETED", "EMAIL_VERIFIED", "PHONE_UPDATED",
                  "GOVERNMENT_ID_VERIFIED", "COMPLETE_PROFILE"} : DefaultPoints[r] <= 20 /\ r \in Rule
    BY DEF DefaultPoints, Rule
  <2> QED BY <1>1, <2>1
<1>3. /\ Best(DefaultPoints, Rule, RentRules) <= 200 /\ Best(DefaultPoints, Rule, RentRules) \in Int
      /\ Best(DefaultPoints, Rule, UtilityRules) <= 100 /\ Best(DefaultPoints, Rule, UtilityRules) \in Int
  <2>1. \A r \in RentRules : DefaultPoints[r] <= 200
    BY DEF DefaultPoints, RentRules
  <2>2. \A r \in UtilityRules : DefaultPoints[r] <= 100
    BY DEF DefaultPoints, UtilityRules
  <2> QED BY <1>1, <2>1, <2>2, RuleSets
<1>4. /\ Best(DefaultPoints, Rule, MaintenanceRules) <= 100
      /\ Best(DefaultPoints, Rule, MaintenanceRules) \in Int
      /\ Best(DefaultPoints, Rule, ComplianceRules) <= 100
      /\ Best(DefaultPoints, Rule, ComplianceRules) \in Int
  <2>1. \A r \in MaintenanceRules : DefaultPoints[r] <= 100
    BY DEF DefaultPoints, MaintenanceRules
  <2>2. \A r \in ComplianceRules : DefaultPoints[r] <= 100
    BY DEF DefaultPoints, ComplianceRules
  <2> QED BY <1>1, <2>1, <2>2, RuleSets
<1>5. \A c \in Other : Best(DefaultPoints, Rule, RulesOf[c]) <= 100
  <2>1. \A r \in StabilityRules \cup EmploymentRules : DefaultPoints[r] <= 100
    BY DEF DefaultPoints, StabilityRules, EmploymentRules
  <2>2. \A r \in ReferenceRules \cup BandRules : DefaultPoints[r] <= 100
    BY DEF DefaultPoints, ReferenceRules, BandRules
  <2>3. \A c \in Other : RulesOf[c] \in {StabilityRules, EmploymentRules, ReferenceRules, BandRules}
    BY DEF Other, RulesOf
  <2>4. \A c \in Other : RulesOf[c] \in SUBSET Rule /\ \A r \in RulesOf[c] : DefaultPoints[r] <= 100
    BY <2>1, <2>2, <2>3, RuleSets
  <2> QED BY <1>1, <2>4
<1>6. /\ DefaultMax["IDENTITY_VERIFICATION"] = 100 /\ DefaultMax["PAYMENT"] = 300
      /\ DefaultMax["RENTER_BEHAVIOUR"] = 200 /\ \A c \in Other : DefaultMax[c] = 100
  BY DEF DefaultMax, Other
<1>7. ConfiguredPoints(DefaultPoints, Rule, "IDENTITY_VERIFICATION") <= 100
  BY <1>2, ConfiguredParts
<1>8. ConfiguredPoints(DefaultPoints, Rule, "PAYMENT") <= 300
  BY <1>3, ConfiguredParts
<1>9. ConfiguredPoints(DefaultPoints, Rule, "RENTER_BEHAVIOUR") <= 200
  BY <1>4, ConfiguredParts
<1>10. \A c \in Other : ConfiguredPoints(DefaultPoints, Rule, c) <= 100
  BY <1>5, ConfiguredParts
<1> QED BY <1>6, <1>7, <1>8, <1>9, <1>10, RulesOfCategory

-----------------------------------------------------------------------------
(* What a step has to keep.                                                 *)

LEMMA TypeNext ==
  ASSUME points' \in [Rule -> Points], active' \subseteq Rule,
         max' \in [Category -> 0..900], enabled' \subseteq Category,
         facts' \in Facts, created' \in 0..Overrides,
         overrides' \subseteq [id : 1..created', scope : Scope, target : Target],
         pc' \in [Admin -> Place], task' \in [Admin -> Task], \A h \in Admin : TaskFits(h)',
         stale' \subseteq Admin, skewed' \subseteq {"policy", "overrides"}
  PROVE  TypeOK'
<1>1. Points = -900..900 /\ Place = {"idle", "rule", "category", "search", "create"}
  BY DEF Points, Place
<1> QED BY <1>1, SMTT(30) DEF TypeOK, TaskFits

LEMMA TypeParts ==
  ASSUME TypeOK
  PROVE  /\ points \in [Rule -> Points] /\ active \subseteq Rule
         /\ max \in [Category -> 0..900] /\ enabled \subseteq Category
         /\ facts \in Facts /\ created \in 0..Overrides
         /\ overrides \subseteq [id : 1..created, scope : Scope, target : Target]
         /\ pc \in [Admin -> Place] /\ task \in [Admin -> Task]
         /\ \A h \in Admin : TaskFits(h)
         /\ stale \subseteq Admin /\ skewed \subseteq {"policy", "overrides"}
<1>1. Points = -900..900 /\ Place = {"idle", "rule", "category", "search", "create"}
  BY DEF Points, Place
<1> QED BY <1>1, SMTT(30) DEF TypeOK, TaskFits

\* What a request carries.
LEMMA TaskParts ==
  /\ \A t \in RuleTask : t.rule \in Rule /\ t.points \in Points
  /\ \A t \in CategoryTask : t.category \in Category /\ t.max \in 0..900
  /\ \A t \in OverrideTask : t.scope \in Scope /\ t.target \in Target
<1>2. RuleTask = [rule : Rule, points : Points]
  BY Zenon DEF RuleTask, Points
<1>3. \A t \in RuleTask : t.rule \in Rule /\ t.points \in Points
  BY <1>2
<1>4. \A t \in CategoryTask : t.category \in Category /\ t.max \in 0..900
  BY DEF CategoryTask
<1>5. \A t \in OverrideTask : t.scope \in Scope /\ t.target \in Target
  BY DEF OverrideTask
<1> QED BY <1>3, <1>4, <1>5

\* One request moves on, with a task that fits where it is then.
LEMMA OneMoves ==
  ASSUME TypeOK, NEW h \in Admin, NEW at \in Place, NEW t \in Task,
         pc' = [pc EXCEPT ![h] = at], task' = [task EXCEPT ![h] = t],
         at = "idle" => t = NoTask, at = "rule" => t \in RuleTask,
         at = "category" => t \in CategoryTask, at \in {"search", "create"} => t \in OverrideTask
  PROVE  /\ pc' \in [Admin -> Place] /\ task' \in [Admin -> Task]
         /\ \A g \in Admin : TaskFits(g)'
         /\ pc'[h] = at /\ task'[h] = t
         /\ \A g \in Admin \ {h} : pc'[g] = pc[g] /\ task'[g] = task[g]
<1>1. pc \in [Admin -> Place] /\ task \in [Admin -> Task] /\ \A g \in Admin : TaskFits(g)
  BY TypeParts
<1>2. /\ pc' \in [Admin -> Place] /\ task' \in [Admin -> Task]
      /\ pc'[h] = at /\ task'[h] = t
      /\ \A g \in Admin \ {h} : pc'[g] = pc[g] /\ task'[g] = task[g]
  BY <1>1
<1>3. TaskFits(h)'
  BY <1>2 DEF TaskFits
<1>4. \A g \in Admin \ {h} : TaskFits(g)'
  BY <1>1, <1>2 DEF TaskFits
<1> QED BY <1>2, <1>3, <1>4

LEMMA OneFinishes ==
  ASSUME TypeOK, NEW h \in Admin, Finish(h)
  PROVE  /\ pc' \in [Admin -> Place] /\ task' \in [Admin -> Task]
         /\ \A g \in Admin : TaskFits(g)'
         /\ pc'[h] = "idle"
         /\ \A g \in Admin \ {h} : pc'[g] = pc[g] /\ task'[g] = task[g]
<1>1. NoTask \in Task /\ "idle" \in Place
  BY DEF Task, Place
<1> QED BY <1>1, OneMoves DEF Finish

\* The policy stays; a request that may still write has read it and goes on.
LEMMA PolicyKept ==
  ASSUME PolicyGuarded, UNCHANGED policy, skewed \subseteq skewed',
         \A g \in Admin \ stale' :
            \/ pc'[g] \notin {"rule", "category"}
            \/ g \notin stale /\ pc'[g] = pc[g] /\ task'[g] = task[g]
            \/ ChangeFits(g)'
  PROVE  PolicyGuarded'
<1> SUFFICES ASSUME "policy" \notin skewed'
             PROVE  AllFit' /\ \A g \in Admin \ stale' : ChangeFits(g)'
  BY DEF PolicyGuarded
<1>1. AllFit /\ \A g \in Admin \ stale : ChangeFits(g)
  BY DEF PolicyGuarded
<1>2. AllFit'
  BY <1>1 DEF AllFit, policy
<1>3. ASSUME NEW g \in Admin \ stale' PROVE ChangeFits(g)'
  <2>1. CASE pc'[g] \notin {"rule", "category"}
    BY <2>1 DEF ChangeFits
  <2>2. CASE g \notin stale /\ pc'[g] = pc[g] /\ task'[g] = task[g]
    BY <1>1, <2>2 DEF ChangeFits, Fits, Admits, policy
  <2> QED BY <2>1, <2>2
<1> QED BY <1>2, <1>3

\* No override is added; a request that may still create one has searched and goes on.
LEMMA OverridesKept ==
  ASSUME OverridesGuarded, OneOverridePerTarget, overrides' \subseteq overrides,
         skewed \subseteq skewed',
         \A g \in Admin \ stale' :
            \/ pc'[g] # "create"
            \/ g \notin stale /\ pc'[g] = pc[g] /\ task'[g] = task[g]
            \/ (Standing(task[g].scope, task[g].target) = {})'
  PROVE  OverridesGuarded' /\ OneOverridePerTarget'
BY DEF OverridesGuarded, OneOverridePerTarget, Standing

\* A write overtakes whoever else has read such rows.
LEMMA WriteOvertakes ==
  ASSUME TypeOK, NEW h \in Admin, NEW rows \in {"policy", "overrides"}, Written(h, rows), Finish(h)
  PROVE  /\ stale' \subseteq Admin /\ skewed' \subseteq {"policy", "overrides"}
         /\ skewed \subseteq skewed'
         /\ rows \notin skewed' => rows \notin skewed /\ h \notin stale
         /\ \A g \in Admin \ stale' :
                pc'[g] = "idle" \/ (Concerns(pc[g]) # rows /\ g # h /\ g \notin stale)
<1>1. stale \subseteq Admin /\ skewed \subseteq {"policy", "overrides"}
  BY DEF TypeOK
<1>2. /\ skewed' = IF h \in stale THEN skewed \cup {rows} ELSE skewed
      /\ stale' = (stale \cup {g \in Admin : pc[g] # "idle" /\ Concerns(pc[g]) = rows}) \ {h}
  BY DEF Written
<1>3. /\ pc'[h] = "idle"
      /\ \A g \in Admin \ {h} : pc'[g] = pc[g]
  BY OneFinishes
<1>4. \A g \in Admin \ stale' :
         pc'[g] = "idle" \/ (Concerns(pc[g]) # rows /\ g # h /\ g \notin stale)
  BY <1>2, <1>3
<1> QED BY <1>1, <1>2, <1>4

-----------------------------------------------------------------------------
LEMMA InitIInv == Init => IInv
<1> SUFFICES ASSUME Init PROVE IInv
  OBVIOUS
<1>1. NoTask \in Task
  BY DEF Task
<1>2. TypeOK
  <2>1. points \in [Rule -> -900..900] /\ active \subseteq Rule
        /\ max \in [Category -> 0..900] /\ enabled \subseteq Category
    <3>1. Points = -900..900
      BY DEF Points
    <3>2. points \in [Rule -> Points] /\ active \subseteq Rule
          /\ max \in [Category -> 0..900] /\ enabled \subseteq Category
      BY DefaultTyped DEF Init, Policy
    <3> QED BY <3>1, <3>2
  <2>2. created \in 0..Overrides
    BY RecordAssumption DEF Init
  <2>3. /\ pc \in [Admin -> {"idle", "rule", "category", "search", "create"}]
        /\ task \in [Admin -> Task]
        /\ \A h \in Admin : pc[h] = "idle" /\ task[h] = NoTask
    BY <1>1 DEF Init
  <2> QED BY <2>1, <2>2, <2>3 DEF Init, TypeOK
<1>3. PolicyGuarded
  BY DefaultFits DEF Init, PolicyGuarded, AllFit, ChangeFits
<1>4. OverridesGuarded /\ OneOverridePerTarget
  BY DEF Init, OverridesGuarded, OneOverridePerTarget
<1> QED BY <1>2, <1>3, <1>4 DEF IInv

-----------------------------------------------------------------------------
(* The steps.                                                               *)

\* A request that begins has only read: nothing is written.
LEMMA BeginKeeps ==
  ASSUME IInv, NEW h \in Admin, NEW at \in {"rule", "category", "search"}, NEW t \in Task,
         Begin(h, at, t),
         at = "rule" => t \in RuleTask, at = "category" => t \in CategoryTask,
         at = "search" => t \in OverrideTask,
         UNCHANGED <<policy, facts, overrides, created, history>>,
         at \in {"rule", "category"} => ChangeFits(h)'
  PROVE  IInv'
<1>1. TypeOK /\ PolicyGuarded /\ OverridesGuarded /\ OneOverridePerTarget
  BY DEF IInv
<1>2. /\ pc' \in [Admin -> Place] /\ task' \in [Admin -> Task]
      /\ \A g \in Admin : TaskFits(g)'
      /\ pc'[h] = at /\ task'[h] = t
      /\ \A g \in Admin \ {h} : pc'[g] = pc[g] /\ task'[g] = task[g]
  BY <1>1, OneMoves DEF Begin, Place
<1>3. TypeOK'
  BY <1>1, <1>2, TypeNext, TypeParts DEF policy, history
<1>4. PolicyGuarded'
  <2>1. \A g \in Admin \ stale' :
            \/ pc'[g] \notin {"rule", "category"}
            \/ g \notin stale /\ pc'[g] = pc[g] /\ task'[g] = task[g]
            \/ ChangeFits(g)'
    BY <1>2 DEF history
  <2> QED BY <1>1, <2>1, PolicyKept DEF policy, history
<1>5. OverridesGuarded' /\ OneOverridePerTarget'
  <2>1. \A g \in Admin \ stale' :
            pc'[g] # "create" \/ (g \notin stale /\ pc'[g] = pc[g] /\ task'[g] = task[g])
    BY <1>2 DEF history
  <2> QED BY <1>1, <2>1, OverridesKept DEF history
<1> QED BY <1>3, <1>4, <1>5 DEF IInv

LEMMA RuleCheckKeeps ==
  ASSUME IInv, NEW h \in Admin, NEW r \in EditedRule, NEW p \in NewPoints, RuleCheck(h, r, p)
  PROVE  IInv'
<1>1. r \in Rule /\ p \in -900..900
  BY PolicyAssumption
<1>2. PICK t : t = [rule |-> r, points |-> p]
  OBVIOUS
<1>3. t \in RuleTask /\ t \in Task
  BY <1>1, <1>2 DEF RuleTask, Task
<1>4. Begin(h, "rule", t) /\ UNCHANGED <<policy, facts, overrides, created, history>>
  BY <1>2 DEF RuleCheck
<1>5. pc'[h] = "rule" /\ task'[h] = t
  BY <1>4 DEF IInv, TypeOK, Begin
<1>6. ChangeFits(h)'
  <2>1. Fits(CategoryOf(r), r, p)
    BY DEF RuleCheck
  <2>2. Fits(CategoryOf(r), r, p)'
    BY <1>4, <2>1 DEF Fits, policy
  <2>3. task'[h].rule = r /\ task'[h].points = p
    BY <1>2, <1>5
  <2> QED BY <1>5, <2>2, <2>3 DEF ChangeFits
<1> QED BY <1>3, <1>4, <1>6, BeginKeeps

LEMMA CategoryCheckKeeps ==
  ASSUME IInv, NEW h \in Admin, NEW c \in EditedCategory, NEW m \in NewMax, CategoryCheck(h, c, m)
  PROVE  IInv'
<1>1. c \in Category /\ m \in 0..900
  BY PolicyAssumption
<1>2. PICK t : t = [category |-> c, max |-> m]
  OBVIOUS
<1>3. t \in CategoryTask /\ t \in Task
  BY <1>1, <1>2 DEF CategoryTask, Task
<1>4. Begin(h, "category", t) /\ UNCHANGED <<policy, facts, overrides, created, history>>
  BY <1>2 DEF CategoryCheck
<1>5. pc'[h] = "category" /\ task'[h] = t
  BY <1>4 DEF IInv, TypeOK, Begin
<1>6. ChangeFits(h)'
  <2>1. Admits(c, m)
    BY DEF CategoryCheck
  <2>2. Admits(c, m)'
    BY <1>4, <2>1 DEF Admits, policy
  <2>3. task'[h].category = c /\ task'[h].max = m
    BY <1>2, <1>5
  <2> QED BY <1>5, <2>2, <2>3 DEF ChangeFits
<1> QED BY <1>3, <1>4, <1>6, BeginKeeps

LEMMA OverrideCheckKeeps ==
  ASSUME IInv, NEW h \in Admin, NEW scope \in Scope, NEW target, OverrideCheck(h, scope, target)
  PROVE  IInv'
<1>1. target \in Target
  <2>1. facts \in Facts
    BY DEF IInv, TypeOK
  <2>2. CASE scope = "CATEGORY"
    BY <2>2 DEF OverrideCheck, Target
  <2>3. CASE scope # "CATEGORY"
    <3>1. target \in ItemCodes(facts)
      BY <2>3 DEF OverrideCheck
    <3> QED BY <2>1, <3>1 DEF Target
  <2> QED BY <2>2, <2>3
<1>2. PICK t : t = [scope |-> scope, target |-> target]
  OBVIOUS
<1>3. t \in OverrideTask /\ t \in Task
  BY <1>1, <1>2 DEF OverrideTask, Task
<1>4. Begin(h, "search", t) /\ UNCHANGED <<policy, facts, overrides, created, history>>
  BY <1>2 DEF OverrideCheck
<1> QED BY <1>3, <1>4, BeginKeeps

\* What has been checked is written, and nobody has written since.
LEMMA RuleCommitKeeps ==
  ASSUME IInv, NEW h \in Admin, RuleCommit(h)
  PROVE  IInv'
<1>1. TypeOK /\ PolicyGuarded /\ OverridesGuarded /\ OneOverridePerTarget
  BY DEF IInv
<1>2. /\ Finish(h) /\ Written(h, "policy")
      /\ UNCHANGED <<active, max, enabled, facts, overrides, created>>
      /\ pc[h] = "rule"
  BY DEF RuleCommit
<1>3. /\ pc' \in [Admin -> Place] /\ task' \in [Admin -> Task]
      /\ \A g \in Admin : TaskFits(g)'
      /\ pc'[h] = "idle"
      /\ \A g \in Admin \ {h} : pc'[g] = pc[g] /\ task'[g] = task[g]
  BY <1>1, <1>2, OneFinishes
<1>4. /\ stale' \subseteq Admin /\ skewed' \subseteq {"policy", "overrides"}
      /\ skewed \subseteq skewed'
      /\ "policy" \notin skewed' => "policy" \notin skewed /\ h \notin stale
      /\ \A g \in Admin \ stale' :
             pc'[g] = "idle" \/ (Concerns(pc[g]) # "policy" /\ g # h /\ g \notin stale)
  BY <1>1, <1>2, WriteOvertakes
<1>5. PICK r, p : r = task[h].rule /\ p = task[h].points
  OBVIOUS
<1>6. r \in Rule /\ p \in Points
  <2>1. task[h] \in RuleTask
    BY <1>1, <1>2, TypeParts DEF TaskFits
  <2> QED BY <1>5, <2>1, TaskParts
<1>7. points' = [points EXCEPT ![r] = p]
  BY <1>5 DEF RuleCommit
<1>8. Policy(points, active)
  BY <1>1 DEF TypeOK, Policy, Points
<1>9. TypeOK'
  <2>1. points' \in [Rule -> Points]
    BY <1>6, <1>7, <1>8 DEF Policy
  <2> QED BY <1>1, <1>2, <1>3, <1>4, <2>1, TypeNext, TypeParts
<1>10. PolicyGuarded'
  <2> SUFFICES ASSUME "policy" \notin skewed'
               PROVE  AllFit' /\ \A g \in Admin \ stale' : ChangeFits(g)'
    BY DEF PolicyGuarded
  <2>1. AllFit /\ ChangeFits(h)
    BY <1>1, <1>4 DEF PolicyGuarded
  <2>2. Fits(CategoryOf(r), r, p)
    BY <1>2, <1>5, <2>1 DEF ChangeFits
  <2>3. ConfiguredPoints(points', active, CategoryOf(r)) <= max[CategoryOf(r)]
    BY <1>7, <2>2 DEF Fits
  <2>4. ASSUME NEW c \in Category, c # CategoryOf(r)
        PROVE  ConfiguredPoints(points', active, c) <= max[c]
    <3>1. \A s \in RulesOf[c] : s # r /\ s \in Rule
      BY <1>6, <2>4, RuleHasCategory, RulesOfRules
    <3>2. \A s \in RulesOf[c] : Worth(points', active, s) = Worth(points, active, s)
      BY <1>7, <1>8, <3>1 DEF Worth, Policy
    <3>3. ConfiguredPoints(points', active, c) = ConfiguredPoints(points, active, c)
      BY <3>2, ConfiguredSame
    <3> QED BY <2>1, <3>3 DEF AllFit
  <2>5. AllFit'
    BY <1>2, <2>3, <2>4 DEF AllFit
  <2>6. \A g \in Admin \ stale' : ChangeFits(g)'
    BY <1>3, <1>4 DEF ChangeFits, Concerns
  <2> QED BY <2>5, <2>6
<1>11. OverridesGuarded' /\ OneOverridePerTarget'
  <2>1. \A g \in Admin \ stale' :
            pc'[g] # "create" \/ (g \notin stale /\ pc'[g] = pc[g] /\ task'[g] = task[g])
    BY <1>3, <1>4
  <2> QED BY <1>1, <1>2, <1>4, <2>1, OverridesKept
<1> QED BY <1>9, <1>10, <1>11 DEF IInv

LEMMA CategoryCommitKeeps ==
  ASSUME IInv, NEW h \in Admin, CategoryCommit(h)
  PROVE  IInv'
<1>1. TypeOK /\ PolicyGuarded /\ OverridesGuarded /\ OneOverridePerTarget
  BY DEF IInv
<1>2. /\ Finish(h) /\ Written(h, "policy")
      /\ UNCHANGED <<points, active, enabled, facts, overrides, created>>
      /\ pc[h] = "category"
  BY DEF CategoryCommit
<1>3. /\ pc' \in [Admin -> Place] /\ task' \in [Admin -> Task]
      /\ \A g \in Admin : TaskFits(g)'
      /\ pc'[h] = "idle"
      /\ \A g \in Admin \ {h} : pc'[g] = pc[g] /\ task'[g] = task[g]
  BY <1>1, <1>2, OneFinishes
<1>4. /\ stale' \subseteq Admin /\ skewed' \subseteq {"policy", "overrides"}
      /\ skewed \subseteq skewed'
      /\ "policy" \notin skewed' => "policy" \notin skewed /\ h \notin stale
      /\ \A g \in Admin \ stale' :
             pc'[g] = "idle" \/ (Concerns(pc[g]) # "policy" /\ g # h /\ g \notin stale)
  BY <1>1, <1>2, WriteOvertakes
<1>5. PICK c, m : c = task[h].category /\ m = task[h].max
  OBVIOUS
<1>6. c \in Category /\ m \in 0..900
  <2>1. task[h] \in CategoryTask
    BY <1>1, <1>2, TypeParts DEF TaskFits
  <2> QED BY <1>5, <2>1, TaskParts
<1>7. max' = [max EXCEPT ![c] = m] /\ max \in [Category -> 0..900]
  BY <1>1, <1>5, TypeParts DEF CategoryCommit
<1>8. TypeOK'
  <2>1. max' \in [Category -> 0..900]
    BY <1>6, <1>7
  <2> QED BY <1>1, <1>2, <1>3, <1>4, <2>1, TypeNext, TypeParts
<1>9. PolicyGuarded'
  <2> SUFFICES ASSUME "policy" \notin skewed'
               PROVE  AllFit' /\ \A g \in Admin \ stale' : ChangeFits(g)'
    BY DEF PolicyGuarded
  <2>1. AllFit /\ ChangeFits(h)
    BY <1>1, <1>4 DEF PolicyGuarded
  <2>2. ConfiguredPoints(points, active, c) <= m
    BY <1>2, <1>5, <2>1 DEF ChangeFits, Admits
  <2>3. \A d \in Category : ConfiguredPoints(points, active, d) <= max'[d]
    BY <1>6, <1>7, <2>1, <2>2 DEF AllFit
  <2>4. AllFit'
    BY <1>2, <2>3 DEF AllFit
  <2>5. \A g \in Admin \ stale' : ChangeFits(g)'
    BY <1>3, <1>4 DEF ChangeFits, Concerns
  <2> QED BY <2>4, <2>5
<1>10. OverridesGuarded' /\ OneOverridePerTarget'
  <2>1. \A g \in Admin \ stale' :
            pc'[g] # "create" \/ (g \notin stale /\ pc'[g] = pc[g] /\ task'[g] = task[g])
    BY <1>3, <1>4
  <2> QED BY <1>1, <1>2, <1>4, <2>1, OverridesKept
<1> QED BY <1>8, <1>9, <1>10 DEF IInv

\* A rule that is deleted is worth nothing: what any category comes to does not rise, nor
\* what it would come to with the points a request is about to write.
LEMMA RuleDeleteKeeps ==
  ASSUME IInv, NEW r \in EditedRule, RuleDelete(r)
  PROVE  IInv'
<1>1. TypeOK /\ PolicyGuarded /\ OverridesGuarded /\ OneOverridePerTarget
  BY DEF IInv
<1>2. /\ active' = active \ {r}
      /\ UNCHANGED <<points, max, enabled, facts, overrides, created, process, history>>
  BY DEF RuleDelete
<1>3. /\ TypeOK'
      /\ OverridesGuarded' /\ OneOverridePerTarget'
  <2>1. active' \subseteq Rule
    BY <1>1, <1>2 DEF TypeOK
  <2>2. \A h \in Admin : TaskFits(h)'
    <3>1. pc' = pc /\ task' = task
      BY <1>2 DEF process
    <3> QED BY <1>1, <3>1, TypeParts DEF TaskFits
  <2>3. TypeOK'
    BY <1>1, <1>2, <2>1, <2>2, TypeNext, TypeParts DEF process, history
  <2> QED BY <1>1, <1>2, <2>3, OverridesKept DEF process, history
<1>4. PolicyGuarded'
  <2> SUFFICES ASSUME "policy" \notin skewed'
               PROVE  AllFit' /\ \A g \in Admin \ stale' : ChangeFits(g)'
    BY DEF PolicyGuarded
  <2>1. AllFit /\ \A g \in Admin \ stale : ChangeFits(g)
    BY <1>1, <1>2 DEF PolicyGuarded, history
  <2>2. \A p : Policy(p, active) =>
            \A c \in Category : ConfiguredPoints(p, active', c) <= ConfiguredPoints(p, active, c)
                /\ ConfiguredPoints(p, active', c) \in Int /\ ConfiguredPoints(p, active, c) \in Int
    <3> SUFFICES ASSUME NEW p, Policy(p, active), NEW c \in Category
                 PROVE  ConfiguredPoints(p, active', c) <= ConfiguredPoints(p, active, c)
                    /\ ConfiguredPoints(p, active', c) \in Int /\ ConfiguredPoints(p, active, c) \in Int
      OBVIOUS
    <3>1. PICK b : b = active'
      OBVIOUS
    <3>2. Policy(p, b)
      BY <1>2, <3>1 DEF Policy
    <3>3. \A s \in RulesOf[c] : Worth(p, b, s) \in {0, Worth(p, active, s)}
      BY <1>2, <3>1 DEF Worth
    <3>4. ConfiguredPoints(p, b, c) \in Int /\ ConfiguredPoints(p, active, c) \in Int
      BY <3>2, ConfiguredTyped
    <3>5. ConfiguredPoints(p, b, c) <= ConfiguredPoints(p, active, c)
      BY <3>2, <3>3, ConfiguredMonotone
    <3> QED BY <3>1, <3>4, <3>5
  <2>3. Policy(points, active) /\ max \in [Category -> 0..900]
    BY <1>1 DEF TypeOK, Policy, Points
  <2>4. AllFit'
    <3> SUFFICES ASSUME NEW c \in Category
                 PROVE  ConfiguredPoints(points', active', c) <= max'[c]
      BY DEF AllFit
    <3>1. ConfiguredPoints(points, active, c) <= max[c] /\ max[c] \in Int
      BY <2>1, <2>3 DEF AllFit
    <3>2. /\ ConfiguredPoints(points, active', c) <= ConfiguredPoints(points, active, c)
          /\ ConfiguredPoints(points, active', c) \in Int /\ ConfiguredPoints(points, active, c) \in Int
      BY <2>2, <2>3
    <3>3. ConfiguredPoints(points, active', c) <= max[c]
      BY <3>1, <3>2
    <3> QED BY <1>2, <3>3
  <2>5. ASSUME NEW g \in Admin \ stale' PROVE ChangeFits(g)'
    <3>1. ChangeFits(g) /\ pc'[g] = pc[g] /\ task'[g] = task[g]
      BY <1>2, <2>1 DEF process, history
    <3>2. ASSUME pc[g] = "rule"
          PROVE  Fits(CategoryOf(task[g].rule), task[g].rule, task[g].points)'
      <4>1. PICK s, n : s = task[g].rule /\ n = task[g].points
        OBVIOUS
      <4>2. s \in Rule /\ n \in Points
        BY <1>1, <3>2, <4>1, TypeParts, TaskParts DEF TaskFits
      <4>3. PICK p, c : p = [points EXCEPT ![s] = n] /\ c = CategoryOf(s)
        OBVIOUS
      <4>4. Policy(p, active) /\ c \in Category
        BY <2>3, <4>2, <4>3, RuleHasCategory DEF Policy
      <4>5. ConfiguredPoints(p, active, c) <= max[c] /\ max[c] \in Int
        <5>1. Fits(c, s, n)
          BY <3>1, <3>2, <4>1, <4>3 DEF ChangeFits
        <5>2. ConfiguredPoints(p, active, c) <= max[c]
          BY <4>3, <5>1 DEF Fits
        <5>3. max[c] \in 0..900
          BY <2>3, <4>4
        <5> QED BY <5>2, <5>3
      <4>6. /\ ConfiguredPoints(p, active', c) <= ConfiguredPoints(p, active, c)
            /\ ConfiguredPoints(p, active', c) \in Int /\ ConfiguredPoints(p, active, c) \in Int
        BY <2>2, <4>4
      <4>7. ConfiguredPoints(p, active', c) <= max[c]
        BY <4>5, <4>6
      <4>8. Fits(c, s, n)'
        BY <1>2, <4>3, <4>7 DEF Fits
      <4>9. task'[g].rule = s /\ task'[g].points = n
        BY <3>1, <4>1
      <4> QED BY <4>3, <4>8, <4>9
    <3>3. ASSUME pc[g] = "category"
          PROVE  Admits(task[g].category, task[g].max)'
      <4>1. PICK c, m : c = task[g].category /\ m = task[g].max
        OBVIOUS
      <4>2. c \in Category /\ m \in Int
        <5>1. task[g] \in CategoryTask
          BY <1>1, <3>3 DEF TypeOK
        <5> QED BY <4>1, <5>1 DEF CategoryTask
      <4>3. ConfiguredPoints(points, active, c) <= m
        BY <3>1, <3>3, <4>1 DEF ChangeFits, Admits
      <4>4. /\ ConfiguredPoints(points, active', c) <= ConfiguredPoints(points, active, c)
            /\ ConfiguredPoints(points, active', c) \in Int /\ ConfiguredPoints(points, active, c) \in Int
        BY <2>2, <2>3, <4>2
      <4>5. ConfiguredPoints(points, active', c) <= m
        BY <4>2, <4>3, <4>4
      <4>6. Admits(c, m)'
        BY <1>2, <4>5 DEF Admits
      <4>7. task'[g].category = c /\ task'[g].max = m
        BY <3>1, <4>1
      <4> QED BY <4>6, <4>7
    <3> QED BY <3>1, <3>2, <3>3 DEF ChangeFits
  <2> QED BY <2>4, <2>5
<1> QED BY <1>3, <1>4 DEF IInv

LEMMA OverrideSearchKeeps ==
  ASSUME IInv, NEW h \in Admin, OverrideSearch(h)
  PROVE  IInv'
<1>1. TypeOK /\ PolicyGuarded /\ OverridesGuarded /\ OneOverridePerTarget
  BY DEF IInv
<1>2. /\ UNCHANGED <<policy, facts, overrides, created, skewed>>
      /\ stale' = stale \ {h} /\ pc[h] = "search"
  BY DEF OverrideSearch
<1>3. /\ pc' \in [Admin -> Place] /\ task' \in [Admin -> Task]
      /\ \A g \in Admin : TaskFits(g)'
      /\ pc'[h] \in {"idle", "create"}
      /\ pc'[h] = "create" =>
            task'[h] = task[h] /\ Standing(task[h].scope, task[h].target) = {}
      /\ \A g \in Admin \ {h} : pc'[g] = pc[g] /\ task'[g] = task[g]
  <2>1. CASE Standing(task[h].scope, task[h].target) # {}
    <3>1. Finish(h)
      BY <2>1 DEF OverrideSearch
    <3> QED BY <1>1, <3>1, OneFinishes
  <2>2. CASE Standing(task[h].scope, task[h].target) = {}
    <3>1. pc' = [pc EXCEPT ![h] = "create"] /\ task' = task
      BY <2>2 DEF OverrideSearch
    <3>2. task \in [Admin -> Task] /\ task[h] \in OverrideTask /\ task[h] \in Task
      BY <1>1, <1>2 DEF TypeOK
    <3>3. task' = [task EXCEPT ![h] = task[h]]
      BY <3>1, <3>2
    <3>4. "create" \in Place
      BY DEF Place
    <3>5. /\ pc' \in [Admin -> Place] /\ task' \in [Admin -> Task]
          /\ \A g \in Admin : TaskFits(g)'
          /\ pc'[h] = "create"
          /\ \A g \in Admin \ {h} : pc'[g] = pc[g] /\ task'[g] = task[g]
      BY <1>1, <3>1, <3>2, <3>3, <3>4, OneMoves
    <3> QED BY <2>2, <3>1, <3>5
  <2> QED BY <2>1, <2>2
<1>4. TypeOK'
  BY <1>1, <1>2, <1>3, TypeNext, TypeParts DEF policy
<1>5. PolicyGuarded'
  <2>1. \A g \in Admin \ stale' :
            \/ pc'[g] \notin {"rule", "category"}
            \/ g \notin stale /\ pc'[g] = pc[g] /\ task'[g] = task[g]
    BY <1>2, <1>3
  <2> QED BY <1>1, <1>2, <2>1, PolicyKept DEF policy
<1>6. OverridesGuarded' /\ OneOverridePerTarget'
  <2>1. pc'[h] = "create" => (Standing(task[h].scope, task[h].target) = {})'
    BY <1>2, <1>3 DEF Standing
  <2>2. \A g \in Admin \ stale' :
            \/ pc'[g] # "create"
            \/ g \notin stale /\ pc'[g] = pc[g] /\ task'[g] = task[g]
            \/ (Standing(task[g].scope, task[g].target) = {})'
    BY <1>2, <1>3, <2>1
  <2> QED BY <1>1, <1>2, <2>2, OverridesKept
<1> QED BY <1>4, <1>5, <1>6 DEF IInv

\* No override stood for the target when the request searched, and nobody has written since.
LEMMA OverrideCreateKeeps ==
  ASSUME IInv, NEW h \in Admin, OverrideCreate(h)
  PROVE  IInv'
<1>1. TypeOK /\ PolicyGuarded /\ OverridesGuarded /\ OneOverridePerTarget
  BY DEF IInv
<1>2. /\ Finish(h) /\ Written(h, "overrides")
      /\ UNCHANGED <<policy, facts>>
      /\ pc[h] = "create" /\ created < Overrides /\ created' = created + 1
  BY DEF OverrideCreate
<1>3. /\ pc' \in [Admin -> Place] /\ task' \in [Admin -> Task]
      /\ \A g \in Admin : TaskFits(g)'
      /\ pc'[h] = "idle"
      /\ \A g \in Admin \ {h} : pc'[g] = pc[g] /\ task'[g] = task[g]
  BY <1>1, <1>2, OneFinishes
<1>4. /\ stale' \subseteq Admin /\ skewed' \subseteq {"policy", "overrides"}
      /\ skewed \subseteq skewed'
      /\ "overrides" \notin skewed' => "overrides" \notin skewed /\ h \notin stale
      /\ \A g \in Admin \ stale' :
             pc'[g] = "idle" \/ (Concerns(pc[g]) # "overrides" /\ g # h /\ g \notin stale)
  BY <1>1, <1>2, WriteOvertakes
<1>5. PICK s, x : s = task[h].scope /\ x = task[h].target
  OBVIOUS
<1>6. s \in Scope /\ x \in Target
  BY <1>1, <1>2, <1>5, TypeParts, TaskParts DEF TaskFits
<1>7. PICK n : n = created'
  OBVIOUS
<1>8. PICK new : new = [id |-> n, scope |-> s, target |-> x]
  OBVIOUS
<1>9. overrides' = overrides \cup {new}
  BY <1>5, <1>7, <1>8 DEF OverrideCreate
<1>10. created \in Nat /\ n \in 0..Overrides /\ n = created + 1 /\ n \in 1..n /\ 1..created \subseteq 1..n
  BY <1>1, <1>2, <1>7, RecordAssumption DEF TypeOK
<1>11. TypeOK'
  <2>1. new \in [id : 1..n, scope : Scope, target : Target]
    BY <1>6, <1>8, <1>10
  <2>2. overrides \subseteq [id : 1..created, scope : Scope, target : Target]
    BY <1>1 DEF TypeOK
  <2>3. overrides \subseteq [id : 1..n, scope : Scope, target : Target]
    BY <1>10, <2>2
  <2>4. overrides' \subseteq [id : 1..created', scope : Scope, target : Target]
    BY <1>7, <1>9, <2>1, <2>3
  <2> QED BY <1>1, <1>2, <1>3, <1>4, <1>7, <1>10, <2>4, TypeNext, TypeParts DEF policy
<1>12. PolicyGuarded'
  <2>1. \A g \in Admin \ stale' :
            \/ pc'[g] \notin {"rule", "category"}
            \/ g \notin stale /\ pc'[g] = pc[g] /\ task'[g] = task[g]
    BY <1>3, <1>4
  <2> QED BY <1>1, <1>2, <1>4, <2>1, PolicyKept DEF policy
<1>13. OverridesGuarded'
  <2>1. \A g \in Admin \ stale' : pc'[g] # "create"
    BY <1>3, <1>4 DEF Concerns
  <2> QED BY <2>1 DEF OverridesGuarded
<1>14. OneOverridePerTarget'
  <2> SUFFICES ASSUME "overrides" \notin skewed', NEW o \in overrides', NEW q \in overrides',
                      o.scope = q.scope, o.target = q.target
               PROVE  o = q
    BY DEF OneOverridePerTarget
  <2>1. Standing(s, x) = {}
    BY <1>1, <1>2, <1>4, <1>5 DEF OverridesGuarded
  <2>2. \A y \in overrides : ~(y.scope = s /\ y.target = x)
    BY <2>1 DEF Standing
  <2>3. new.scope = s /\ new.target = x
    BY <1>8
  <2>4. o \in overrides /\ q \in overrides => o = q
    BY <1>1, <1>4 DEF OneOverridePerTarget
  <2> QED BY <1>9, <2>2, <2>3, <2>4
<1> QED BY <1>11, <1>12, <1>13, <1>14 DEF IInv

\* Steps that end a request without a write, or that write what no request checks.
LEMMA OtherStepsKeep ==
  ASSUME IInv,
         \/ \E h \in Admin : Abort(h)
         \/ \E c \in EditedCategory : CategoryDelete(c)
         \/ \E o \in overrides : OverrideDelete(o)
         \/ RecordChanges
         \/ UNCHANGED vars
  PROVE  IInv'
<1>1. TypeOK /\ PolicyGuarded /\ OverridesGuarded /\ OneOverridePerTarget
  BY DEF IInv
<1>2. ASSUME NEW h \in Admin, Abort(h) PROVE IInv'
  <2>1. Finish(h) /\ stale' = stale \ {h} /\ UNCHANGED <<policy, facts, overrides, created, skewed>>
    BY <1>2 DEF Abort
  <2>2. /\ pc' \in [Admin -> Place] /\ task' \in [Admin -> Task]
        /\ \A g \in Admin : TaskFits(g)'
        /\ pc'[h] = "idle"
        /\ \A g \in Admin \ {h} : pc'[g] = pc[g] /\ task'[g] = task[g]
    BY <1>1, <2>1, OneFinishes
  <2>3. TypeOK'
    BY <1>1, <2>1, <2>2, TypeNext, TypeParts DEF policy
  <2>4. \A g \in Admin \ stale' :
            pc'[g] = "idle" \/ (g \notin stale /\ pc'[g] = pc[g] /\ task'[g] = task[g])
    BY <2>1, <2>2
  <2>5. PolicyGuarded'
    BY <1>1, <2>1, <2>4, PolicyKept DEF policy
  <2>6. OverridesGuarded' /\ OneOverridePerTarget'
    BY <1>1, <2>1, <2>4, OverridesKept
  <2> QED BY <2>3, <2>5, <2>6 DEF IInv
<1>3. ASSUME UNCHANGED <<points, active, max, created, process, history>>,
             overrides' \subseteq overrides, enabled' \subseteq enabled, facts' \in Facts
      PROVE  IInv'
  <2>1. \A g \in Admin : TaskFits(g)'
    <3>1. pc' = pc /\ task' = task
      BY <1>3 DEF process
    <3> QED BY <1>1, <3>1, TypeParts DEF TaskFits
  <2>2. TypeOK'
    BY <1>1, <1>3, <2>1, TypeNext, TypeParts DEF process, history
  <2>3. PolicyGuarded'
    BY <1>1, <1>3 DEF PolicyGuarded, AllFit, ChangeFits, Fits, Admits, process, history
  <2>4. OverridesGuarded' /\ OneOverridePerTarget'
    BY <1>1, <1>3, OverridesKept DEF process, history
  <2> QED BY <2>2, <2>3, <2>4 DEF IInv
<1>4. ASSUME NEW c \in EditedCategory, CategoryDelete(c) PROVE IInv'
  BY <1>1, <1>3, <1>4 DEF CategoryDelete, TypeOK
<1>5. ASSUME NEW o \in overrides, OverrideDelete(o) PROVE IInv'
  BY <1>1, <1>3, <1>5 DEF OverrideDelete, TypeOK, policy
<1>6. CASE RecordChanges
  BY <1>3, <1>6 DEF RecordChanges, policy
<1>7. CASE UNCHANGED vars
  BY <1>1, <1>3, <1>7 DEF vars, TypeOK, policy
<1> QED BY <1>2, <1>4, <1>5, <1>6, <1>7

LEMMA StepIInv == IInv /\ [Next]_vars => IInv'
<1> SUFFICES ASSUME IInv, [Next]_vars PROVE IInv'
  OBVIOUS
<1>1. ASSUME NEW h \in Admin, EditPolicy(h) PROVE IInv'
  BY <1>1, RuleCheckKeeps, CategoryCheckKeeps, RuleCommitKeeps, CategoryCommitKeeps DEF EditPolicy
<1>2. ASSUME NEW h \in Admin, EditOverrides(h) PROVE IInv'
  <2>1. {"CATEGORY", "BREAKDOWN_ITEM"} \subseteq Scope
    BY DEF Scope
  <2> QED BY <1>2, <2>1, OverrideCheckKeeps, OverrideSearchKeeps, OverrideCreateKeeps DEF EditOverrides
<1> QED BY <1>1, <1>2, RuleDeleteKeeps, OtherStepsKeep DEF Next

\* The inductive invariant holds for every policy within the routes' bounds and any number of requests.
THEOREM Invariance == Spec => []IInv
<1> QED BY InitIInv, StepIInv, PTL DEF Spec

\* Every variable keeps its type: points and maxima stay within what the routes admit,
\* and a request's task fits the place it is at.
THEOREM TypeCorrect == Spec => []TypeOK
<1>1. IInv => TypeOK
  BY DEF IInv
<1> QED BY <1>1, Invariance, PTL

\* Unless a write followed a read that another write had overtaken, what the rules of a
\* category can come to stays within its maximum (updateRentScoreRule and
\* updateRentScoreCategory check it, deletions and the other writes cannot break it).
THEOREM ChangesFit == Spec => []ConfiguredFits
<1>1. IInv => ConfiguredFits
  BY DEF IInv, TypeOK, PolicyGuarded, AllFit, ConfiguredFits
<1> QED BY <1>1, Invariance, PTL

\* Unless a creation followed a search that another creation had overtaken, no target has
\* two active overrides (createRentScoreOverride).
THEOREM OneOverride == Spec => []OneOverridePerTarget
<1>1. IInv => OneOverridePerTarget
  BY DEF IInv
<1> QED BY <1>1, Invariance, PTL

-----------------------------------------------------------------------------
(* What the renter gets.                                                    *)

\* The rules of which one may apply to an item.
Choice == [
    REGISTRATION_COMPLETED |-> {"REGISTRATION_COMPLETED"}, EMAIL_VERIFIED |-> {"EMAIL_VERIFIED"},
    PHONE_UPDATED |-> {"PHONE_UPDATED"}, GOVERNMENT_ID_VERIFIED |-> {"GOVERNMENT_ID_VERIFIED"},
    COMPLETE_PROFILE |-> {"COMPLETE_PROFILE"},
    rent |-> RentRules, utility |-> UtilityRules,
    maintenance |-> MaintenanceRules, compliance |-> ComplianceRules,
    stability |-> StabilityRules, employment |-> EmploymentRules,
    reference |-> ReferenceRules, band |-> BandRules]

LEMMA ItemNames ==
  Item = {"REGISTRATION_COMPLETED", "EMAIL_VERIFIED", "PHONE_UPDATED", "GOVERNMENT_ID_VERIFIED",
          "COMPLETE_PROFILE", "rent", "utility", "maintenance", "compliance", "stability",
          "employment", "reference", "band"}
BY DEF Item, ItemCategory

LEMMA Applies ==
  ASSUME NEW f \in Record
  PROVE  \A item \in Item : AppliedRule(f)[item] \in Choice[item] \cup {NoRule}
<1>1. /\ f.rent \in RentRules \cup {NoRule} /\ f.utility \in UtilityRules \cup {NoRule}
      /\ f.maintenance \in MaintenanceRules \cup {NoRule}
      /\ f.compliance \in ComplianceRules \cup {NoRule}
      /\ f.reference \in ReferenceRules \cup {NoRule}
      /\ f.moves \in Nat \cup {Null} /\ f.years \in Nat \cup {Null}
      /\ f.annualRent \in Nat \cup {Null}
      /\ f.employment \in {"UNKNOWN", "EMPLOYED", "SELF_EMPLOYED"}
  BY DEF Record
<1>2. StabilityRule(f.moves) \in StabilityRules \cup {NoRule}
  BY <1>1 DEF StabilityRule, StabilityRules
<1>3. EmploymentRule(f.employment, f.years) \in EmploymentRules \cup {NoRule}
  BY <1>1 DEF EmploymentRule, EmploymentRules, Null
<1>4. BandRule(f.annualRent) \in BandRules \cup {NoRule}
  BY <1>1 DEF BandRule, BandRules
<1>5. \A item \in {"REGISTRATION_COMPLETED", "EMAIL_VERIFIED", "PHONE_UPDATED",
                   "GOVERNMENT_ID_VERIFIED", "COMPLETE_PROFILE"} :
        AppliedRule(f)[item] \in Choice[item] \cup {NoRule}
  BY DEF AppliedRule, Choice
<1>6. \A item \in {"rent", "utility", "maintenance", "compliance", "reference"} :
        AppliedRule(f)[item] \in Choice[item] \cup {NoRule}
  BY <1>1 DEF AppliedRule, Choice
<1>7. \A item \in {"stability", "employment", "band"} :
        AppliedRule(f)[item] \in Choice[item] \cup {NoRule}
  BY <1>2, <1>3, <1>4 DEF AppliedRule, Choice
<1> QED BY <1>5, <1>6, <1>7, ItemNames

\* An item contributes no more than the best of its rules.
LEMMA ItemBelowBest ==
  ASSUME NEW p, NEW a, Policy(p, a), NEW e, NEW f \in Record, NEW out, NEW codes, NEW item \in Item
  PROVE  /\ Contribution(p, a, e, f, out, codes)[item] \in Int
         /\ Best(p, a, Choice[item]) \in Int
         /\ Contribution(p, a, e, f, out, codes)[item] <= Best(p, a, Choice[item])
<1>1. PICK v : v = Contribution(p, a, e, f, out, codes)[item]
  OBVIOUS
<1>2. PICK r : r = AppliedRule(f)[item]
  OBVIOUS
<1>3. v \in {0, Worth(p, a, r)}
  BY <1>1, <1>2 DEF Contribution, BaseContribution
<1>4. r \in Choice[item] \cup {NoRule}
  BY <1>2, Applies
<1>5. Choice[item] \in SUBSET Rule
  BY RuleSets DEF Choice, Item, ItemCategory, IdentityRules
<1>6. /\ Best(p, a, Choice[item]) \in 0..900
      /\ \A s \in Choice[item] : Worth(p, a, s) <= Best(p, a, Choice[item])
  BY <1>5, BestIsReached
<1>7. CASE v = 0
  BY <1>1, <1>6, <1>7
<1>8. CASE v = Worth(p, a, r) /\ r \in Choice[item]
  <2>1. v \in Int
    BY <1>5, <1>8 DEF Worth, Policy, Points
  <2> QED BY <1>1, <1>6, <1>8, <2>1
<1>9. CASE v = Worth(p, a, r) /\ r = NoRule
  <2>1. NoRule \notin Rule
    BY DEF NoRule, Rule, DefaultPoints
  <2>2. v = 0
    BY <1>9, <2>1 DEF Worth, Policy
  <2> QED BY <1>7, <2>2
<1> QED BY <1>3, <1>4, <1>7, <1>8, <1>9

\* What the items of a category add up to is no more than what the check counts.
LEMMA SumBelowConfigured ==
  ASSUME NEW p, NEW a, Policy(p, a), NEW e, NEW f \in Record, NEW out, NEW codes, NEW c \in Category
  PROVE  /\ CategorySum(Contribution(p, a, e, f, out, codes), c) \in Int
         /\ CategorySum(Contribution(p, a, e, f, out, codes), c) <= ConfiguredPoints(p, a, c)
<1>1. PICK v : v = Contribution(p, a, e, f, out, codes)
  OBVIOUS
<1>2. \A item \in Item : /\ v[item] \in Int /\ Best(p, a, Choice[item]) \in Int
                         /\ v[item] <= Best(p, a, Choice[item])
  BY <1>1, ItemBelowBest
<1>3. \A item \in {"REGISTRATION_COMPLETED", "EMAIL_VERIFIED", "PHONE_UPDATED",
                   "GOVERNMENT_ID_VERIFIED", "COMPLETE_PROFILE"} :
        item \in Item /\ Choice[item] = {item}
  BY DEF Item, ItemCategory, Choice
<1>4. /\ {"rent", "utility", "maintenance", "compliance"} \subseteq Item
      /\ Choice["rent"] = RentRules /\ Choice["utility"] = UtilityRules
      /\ Choice["maintenance"] = MaintenanceRules /\ Choice["compliance"] = ComplianceRules
  BY DEF Item, ItemCategory, Choice
<1>5. /\ {"stability", "employment", "reference", "band"} \subseteq Item
      /\ Choice["stability"] = RulesOf["RENTAL_STABILITY"]
      /\ Choice["employment"] = RulesOf["EMPLOYMENT_STABILITY"]
      /\ Choice["reference"] = RulesOf["LANDLORD_REFERENCE"]
      /\ Choice["band"] = RulesOf["RENTER_BAND"]
  BY DEF Item, ItemCategory, Choice, RulesOf
<1>6. CASE c = "IDENTITY_VERIFICATION"
  <2>1. CategorySum(v, c) = v["REGISTRATION_COMPLETED"] + v["EMAIL_VERIFIED"] + v["PHONE_UPDATED"]
                + v["GOVERNMENT_ID_VERIFIED"] + v["COMPLETE_PROFILE"]
    BY <1>6 DEF CategorySum
  <2>2. \A item \in {"REGISTRATION_COMPLETED", "EMAIL_VERIFIED", "PHONE_UPDATED",
                     "GOVERNMENT_ID_VERIFIED", "COMPLETE_PROFILE"} :
          v[item] \in Int /\ Best(p, a, {item}) \in Int /\ v[item] <= Best(p, a, {item})
    BY <1>2, <1>3
  <2> QED BY <1>1, <1>6, <2>1, <2>2, ConfiguredParts
<1>7. CASE c = "PAYMENT"
  <2>1. CategorySum(v, c) = v["rent"] + v["utility"]
    BY <1>7 DEF CategorySum
  <2> QED BY <1>1, <1>2, <1>4, <1>7, <2>1, ConfiguredParts
<1>8. CASE c = "RENTER_BEHAVIOUR"
  <2>1. CategorySum(v, c) = v["maintenance"] + v["compliance"]
    BY <1>8 DEF CategorySum
  <2> QED BY <1>1, <1>2, <1>4, <1>8, <2>1, ConfiguredParts
<1>9. CASE c \in Other
  <2>1. /\ CategorySum(v, "RENTAL_STABILITY") = v["stability"]
        /\ CategorySum(v, "EMPLOYMENT_STABILITY") = v["employment"]
        /\ CategorySum(v, "LANDLORD_REFERENCE") = v["reference"]
        /\ CategorySum(v, "RENTER_BAND") = v["band"]
    BY DEF CategorySum
  <2>2. ConfiguredPoints(p, a, c) = Best(p, a, RulesOf[c])
    BY <1>9, ConfiguredParts
  <2>3. CategorySum(v, c) \in Int /\ CategorySum(v, c) <= Best(p, a, RulesOf[c])
    BY <1>2, <1>5, <1>9, <2>1 DEF Other
  <2> QED BY <1>1, <2>2, <2>3
<1> QED BY <1>6, <1>7, <1>8, <1>9, RulesOfCategory

\* Whatever is on record of the renter and whatever is overridden, buildCategoryBreakdown
\* cuts nothing off an enabled category.
NothingCutOff ==
    "policy" \notin skewed =>
        \A c \in enabled : ClampCategory(CategorySum(Breakdown, c), max[c]) = CategorySum(Breakdown, c)

LEMMA NothingIsCutOff == IInv => NothingCutOff
<1> SUFFICES ASSUME IInv, "policy" \notin skewed, NEW c \in enabled
             PROVE  ClampCategory(CategorySum(Breakdown, c), max[c]) = CategorySum(Breakdown, c)
  BY DEF NothingCutOff
<1>1. Policy(points, active) /\ max \in [Category -> 0..900] /\ c \in Category /\ facts \in Record
  BY RecordAssumption, TypeParts DEF IInv, Policy
<1>2. ConfiguredPoints(points, active, c) <= max[c]
  BY <1>1 DEF IInv, PolicyGuarded, AllFit
<1>3. PICK s : s = CategorySum(Breakdown, c)
  OBVIOUS
<1>4. s \in Int /\ s <= ConfiguredPoints(points, active, c) /\ ConfiguredPoints(points, active, c) \in Int
  BY <1>1, <1>3, SumBelowConfigured, ConfiguredTyped DEF Breakdown
<1>5. s \in Int /\ s <= max[c] /\ max[c] \in Int
  BY <1>1, <1>2, <1>4
<1>6. Min({max[c], s}) = s
  BY <1>5 DEF Min
<1> QED BY <1>3, <1>6 DEF ClampCategory

\* The check an administrator's change has to pass is about what renters get: unless a write
\* followed a read that another had overtaken, an enabled category counts in full.
THEOREM CategoriesCountInFull == Spec => []NothingCutOff
<1> QED BY NothingIsCutOff, Invariance, PTL

-----------------------------------------------------------------------------
(* Sums.  MapThenSumSet is the value, at the whole set, of a function that   *)
(* holds the sums of the subsets; such a function is unique, so it is the    *)
(* sum written out.                                                          *)

\* pick names an element of each subset of S; g holds the sum of term over each, taken in its order.
Picks(S, pick) == \A s \in SUBSET S : s # {} => pick[s] \in s

PartialSums(S, term, pick, g) ==
    /\ g[{}] = 0
    /\ \A s \in SUBSET S : s # {} => g[s] = term[pick[s]] + g[s \ {pick[s]}]

\* Partial sums are determined: a smallest subset on which two of them differ has an element
\* without which they differ already.
LEMMA OneSolution ==
  ASSUME NEW S, IsFiniteSet(S), NEW term, NEW pick, Picks(S, pick),
         NEW g, PartialSums(S, term, pick, g), NEW h, PartialSums(S, term, pick, h)
  PROVE  g[S] = h[S]
<1> SUFFICES ASSUME g[S] # h[S] PROVE FALSE
  OBVIOUS
<1>1. PICK T : T = {n \in Nat : \E s \in SUBSET S : Cardinality(s) = n /\ g[s] # h[s]}
  OBVIOUS
<1>2. \A s \in SUBSET S : IsFiniteSet(s) /\ Cardinality(s) \in Nat
  BY FS_Subset, FS_CardinalityType
<1>3. T \subseteq Nat /\ T # {}
  BY <1>1, <1>2
<1>4. PICK R : R = {ss \in Nat \X Nat : ss[1] < ss[2]} /\ IsWellFoundedOn(R, Nat)
  BY NatLessThanWellFounded DEF OpToRel
<1>5. PICK n \in T : \A k \in T : <<k, n>> \notin R
  BY <1>3, <1>4, WFMin
<1>6. PICK s \in SUBSET S : Cardinality(s) = n /\ g[s] # h[s]
  BY <1>1
<1>7. PICK x : x = pick[s]
  OBVIOUS
<1>8. s # {} /\ x \in s
  BY <1>6, <1>7 DEF PartialSums, Picks
<1>9. g[s \ {x}] # h[s \ {x}]
  BY <1>6, <1>7, <1>8 DEF PartialSums
<1>10. Cardinality(s \ {x}) = n - 1 /\ n \in Nat /\ Cardinality(s \ {x}) \in Nat
  <2>1. IsFiniteSet(s) /\ s \ {x} \in SUBSET S
    BY <1>2
  <2>2. IsFiniteSet(s \ {x}) /\ Cardinality(s \ {x}) = Cardinality(s) - 1
    BY <1>8, <2>1, FS_RemoveElement
  <2> QED BY <1>2, <1>6, <2>1, <2>2
<1>11. n - 1 \in T
  BY <1>1, <1>9, <1>10
<1>12. <<n - 1, n>> \in R
  BY <1>4, <1>10
<1> QED BY <1>5, <1>11, <1>12

\* The order MapThenSumSet takes the elements in.
Order(S) == [s \in SUBSET S |-> CHOOSE x \in s : TRUE]

LEMMA OrderPicks == ASSUME NEW S PROVE Picks(S, Order(S))
BY DEF Order, Picks

\* Whatever holds the partial sums in that order holds the sum.
LEMMA SumIs ==
  ASSUME NEW S, IsFiniteSet(S), NEW term, NEW g, g = [s \in SUBSET S |-> g[s]],
         PartialSums(S, term, Order(S), g)
  PROVE  MapThenSumSet(LAMBDA x : term[x], S) = g[S]
<1> DEFINE Solves(i) == i = [s \in SUBSET S |->
                               IF s = {} THEN 0
                               ELSE term[CHOOSE x \in s : TRUE] + i[s \ {CHOOSE x \in s : TRUE}]]
<1>1. \A s \in SUBSET S : Order(S)[s] = CHOOSE x \in s : TRUE
  BY DEF Order
<1>2. Solves(g)
  BY <1>1 DEF PartialSums
<1>3. PICK h : h = CHOOSE i : Solves(i)
  OBVIOUS
<1>4. Solves(h)
  <2> HIDE DEF Solves
  <2> QED BY <1>2, <1>3
<1>5. MapThenSumSet(LAMBDA x : term[x], S) = h[S]
  BY <1>3 DEF MapThenSumSet, MapThenFoldSet
<1>6. PartialSums(S, term, Order(S), h)
  <2>1. h[{}] = 0
    BY <1>4
  <2>2. ASSUME NEW s \in SUBSET S, s # {}
        PROVE  h[s] = term[Order(S)[s]] + h[s \ {Order(S)[s]}]
    BY <1>1, <1>4, <2>2
  <2> HIDE DEF Solves
  <2> QED BY <2>1, <2>2 DEF PartialSums
<1> HIDE DEF Solves
<1>7. g[S] = h[S]
  BY <1>6, OrderPicks, OneSolution
<1> QED BY <1>5, <1>7

\* What x adds to a sum over s.
Counted(term, s, x) == IF x \in s THEN term[x] ELSE 0

OverCategories(term, s) ==
    Counted(term, s, "IDENTITY_VERIFICATION") + Counted(term, s, "PAYMENT")
    + Counted(term, s, "RENTER_BEHAVIOUR") + Counted(term, s, "RENTAL_STABILITY")
    + Counted(term, s, "EMPLOYMENT_STABILITY") + Counted(term, s, "LANDLORD_REFERENCE")
    + Counted(term, s, "RENTER_BAND")

\* A sum over categories, and one over items, written out.
LEMMA CategorySums ==
  ASSUME NEW S \in SUBSET Category, NEW term, \A c \in S : term[c] \in Int, NEW pick, Picks(S, pick)
  PROVE  PartialSums(S, term, pick, [s \in SUBSET S |-> OverCategories(term, s)])
<1>1. OverCategories(term, {}) = 0
  BY DEF OverCategories, Counted
<1>2. ASSUME NEW s \in SUBSET S, s # {}
      PROVE  OverCategories(term, s) = term[pick[s]] + OverCategories(term, s \ {pick[s]})
  <2>1. PICK x \in s : x = pick[s]
    BY <1>2 DEF Picks
  <2>2. /\ \A y \in Category : Counted(term, s, y) \in Int /\ Counted(term, s \ {x}, y) \in Int
        /\ \A y \in Category : y # x => Counted(term, s \ {x}, y) = Counted(term, s, y)
        /\ Counted(term, s \ {x}, x) = 0 /\ Counted(term, s, x) = term[x]
    BY DEF Counted
  <2>3. x \in Category
    OBVIOUS
  <2>4. OverCategories(term, s) = term[x] + OverCategories(term, s \ {x})
    BY <2>2, <2>3 DEF OverCategories, Category, DefaultMax
  <2> QED BY <2>1, <2>4
<1> QED BY <1>1, <1>2 DEF PartialSums

OverIdentity(term, s) ==
    Counted(term, s, "REGISTRATION_COMPLETED") + Counted(term, s, "EMAIL_VERIFIED")
    + Counted(term, s, "PHONE_UPDATED") + Counted(term, s, "GOVERNMENT_ID_VERIFIED")
    + Counted(term, s, "COMPLETE_PROFILE")

OverRecords(term, s) ==
    Counted(term, s, "rent") + Counted(term, s, "utility")
    + Counted(term, s, "maintenance") + Counted(term, s, "compliance")

OverProfile(term, s) ==
    Counted(term, s, "stability") + Counted(term, s, "employment")
    + Counted(term, s, "reference") + Counted(term, s, "band")

OverItems(term, s) == OverIdentity(term, s) + OverRecords(term, s) + OverProfile(term, s)

LEMMA ItemSums ==
  ASSUME NEW S \in SUBSET Item, NEW term, \A i \in S : term[i] \in Int, NEW pick, Picks(S, pick)
  PROVE  PartialSums(S, term, pick, [s \in SUBSET S |-> OverItems(term, s)])
<1>1. OverItems(term, {}) = 0
  BY DEF OverItems, OverIdentity, OverRecords, OverProfile, Counted
<1>2. ASSUME NEW s \in SUBSET S, s # {}
      PROVE  OverItems(term, s) = term[pick[s]] + OverItems(term, s \ {pick[s]})
  <2>1. PICK x \in s : x = pick[s]
    BY <1>2 DEF Picks
  <2>2. /\ \A y \in Item : Counted(term, s, y) \in Int /\ Counted(term, s \ {x}, y) \in Int
        /\ \A y \in Item : y # x => Counted(term, s \ {x}, y) = Counted(term, s, y)
        /\ Counted(term, s \ {x}, x) = 0 /\ Counted(term, s, x) = term[x]
    BY DEF Counted
  <2>0. \A y \in {"REGISTRATION_COMPLETED", "EMAIL_VERIFIED", "PHONE_UPDATED", "GOVERNMENT_ID_VERIFIED",
                "COMPLETE_PROFILE", "rent", "utility", "maintenance", "compliance", "stability",
                "employment", "reference", "band"} :
          /\ Counted(term, s, y) \in Int /\ Counted(term, s \ {x}, y) \in Int
          /\ y # x => Counted(term, s \ {x}, y) = Counted(term, s, y)
    BY <2>2, ItemNames
  <2>3. /\ OverIdentity(term, s) \in Int /\ OverIdentity(term, s \ {x}) \in Int
        /\ OverRecords(term, s) \in Int /\ OverRecords(term, s \ {x}) \in Int
        /\ OverProfile(term, s) \in Int /\ OverProfile(term, s \ {x}) \in Int
        /\ term[x] \in Int
    BY <2>0, <2>2 DEF OverIdentity, OverRecords, OverProfile
  <2>4. OverItems(term, s) = term[x] + OverItems(term, s \ {x})
    <3>1. CASE x \in {"REGISTRATION_COMPLETED", "EMAIL_VERIFIED", "PHONE_UPDATED",
                      "GOVERNMENT_ID_VERIFIED", "COMPLETE_PROFILE"}
      <4>1. OverIdentity(term, s) = term[x] + OverIdentity(term, s \ {x})
        BY <2>0, <2>2, <3>1 DEF OverIdentity
      <4>2. /\ OverRecords(term, s) = OverRecords(term, s \ {x})
            /\ OverProfile(term, s) = OverProfile(term, s \ {x})
        BY <2>0, <2>2, <3>1 DEF OverRecords, OverProfile
      <4> QED BY <2>3, <4>1, <4>2 DEF OverItems
    <3>2. CASE x \in {"rent", "utility", "maintenance", "compliance"}
      <4>1. OverRecords(term, s) = term[x] + OverRecords(term, s \ {x})
        BY <2>0, <2>2, <3>2 DEF OverRecords
      <4>2. /\ OverIdentity(term, s) = OverIdentity(term, s \ {x})
            /\ OverProfile(term, s) = OverProfile(term, s \ {x})
        BY <2>0, <2>2, <3>2 DEF OverIdentity, OverProfile
      <4> QED BY <2>3, <4>1, <4>2 DEF OverItems
    <3>3. CASE x \in {"stability", "employment", "reference", "band"}
      <4>1. OverProfile(term, s) = term[x] + OverProfile(term, s \ {x})
        BY <2>0, <2>2, <3>3 DEF OverProfile
      <4>2. /\ OverIdentity(term, s) = OverIdentity(term, s \ {x})
            /\ OverRecords(term, s) = OverRecords(term, s \ {x})
        BY <2>0, <2>2, <3>3 DEF OverIdentity, OverRecords
      <4> QED BY <2>3, <4>1, <4>2 DEF OverItems
    <3>4. x \in Item
      OBVIOUS
    <3> QED BY <3>1, <3>2, <3>3, <3>4, ItemNames
  <2> QED BY <2>1, <2>4
<1> QED BY <1>1, <1>2 DEF PartialSums

LEMMA FinitelyMany == IsFiniteSet(Category) /\ IsFiniteSet(Item)
<1>1. ASSUME NEW a, NEW b, NEW c, NEW d PROVE IsFiniteSet({a, b, c, d})
  <2>1. IsFiniteSet({a}) /\ IsFiniteSet({b}) /\ IsFiniteSet({c}) /\ IsFiniteSet({d})
    BY FS_Singleton
  <2>2. IsFiniteSet({a} \cup {b}) /\ IsFiniteSet({c} \cup {d})
    BY <2>1, FS_Union
  <2>3. IsFiniteSet(({a} \cup {b}) \cup ({c} \cup {d}))
    BY <2>2, FS_Union
  <2>4. ({a} \cup {b}) \cup ({c} \cup {d}) = {a, b, c, d}
    OBVIOUS
  <2> QED BY <2>3, <2>4
<1>2. IsFiniteSet(Category)
  <2>1. PICK A : A = {"IDENTITY_VERIFICATION", "PAYMENT", "RENTER_BEHAVIOUR", "RENTAL_STABILITY"}
    OBVIOUS
  <2>2. PICK B : B = {"EMPLOYMENT_STABILITY", "LANDLORD_REFERENCE", "RENTER_BAND", "RENTER_BAND"}
    OBVIOUS
  <2>3. IsFiniteSet(A) /\ IsFiniteSet(B)
    BY <1>1, <2>1, <2>2
  <2>4. Category = A \cup B
    BY <2>1, <2>2 DEF Category, DefaultMax
  <2> QED BY <2>3, <2>4, FS_Union
<1>3. IsFiniteSet(Item)
  <2>1. PICK A : A = {"REGISTRATION_COMPLETED", "EMAIL_VERIFIED", "PHONE_UPDATED", "GOVERNMENT_ID_VERIFIED"}
    OBVIOUS
  <2>2. PICK B : B = {"COMPLETE_PROFILE", "rent", "utility", "maintenance"}
    OBVIOUS
  <2>3. PICK C : C = {"compliance", "stability", "employment", "reference"}
    OBVIOUS
  <2>4. IsFiniteSet(A) /\ IsFiniteSet(B) /\ IsFiniteSet(C) /\ IsFiniteSet({"band"})
    BY <1>1, <2>1, <2>2, <2>3, FS_Singleton
  <2>5. IsFiniteSet(A \cup B) /\ IsFiniteSet(C \cup {"band"})
    BY <2>4, FS_Union
  <2>6. Item = (A \cup B) \cup (C \cup {"band"})
    BY <2>1, <2>2, <2>3 DEF Item, ItemCategory
  <2> QED BY <2>5, <2>6, FS_Union
<1> QED BY <1>2, <1>3
\* The total of the breakdown, written out.
LEMMA TotalIs ==
  ASSUME NEW value, \A item \in Item : value[item] \in Int
  PROVE  MapThenSumSet(LAMBDA item : value[item], Item) = OverItems(value, Item)
<1>1. PICK g : g = [s \in SUBSET Item |-> OverItems(value, s)]
  OBVIOUS
<1>2. PartialSums(Item, value, Order(Item), g)
  BY <1>1, OrderPicks, ItemSums
<1>3. g = [s \in SUBSET Item |-> g[s]] /\ g[Item] = OverItems(value, Item)
  BY <1>1
<1> QED BY <1>2, <1>3, FinitelyMany, SumIs

\* rawScore, written out.
LEMMA RawScoreIs ==
  ASSUME NEW m, NEW e \in SUBSET Category, NEW value, NEW term,
         \A c \in e : term[c] = ClampCategory(CategorySum(value, c), m[c]) /\ term[c] \in Int
  PROVE  RawScore(m, e, value) = OverCategories(term, e)
<1> DEFINE Solves(i) == i = [s \in SUBSET e |->
                               IF s = {} THEN 0
                               ELSE LET c == CHOOSE x \in s : TRUE IN
                                    ClampCategory(CategorySum(value, c), m[c]) + i[s \ {c}]]
<1>1. PICK g : g = [s \in SUBSET e |-> OverCategories(term, s)]
  OBVIOUS
<1>2. PartialSums(e, term, Order(e), g)
  BY <1>1, OrderPicks, CategorySums
<1>3. /\ \A s \in SUBSET e : Order(e)[s] = CHOOSE x \in s : TRUE
      /\ \A s \in SUBSET e : s # {} => (CHOOSE x \in s : TRUE) \in e
  BY DEF Order
<1>4. Solves(g)
  <2>1. ASSUME NEW s \in SUBSET e, s # {}
        PROVE  g[s] = LET c == CHOOSE x \in s : TRUE IN
                      ClampCategory(CategorySum(value, c), m[c]) + g[s \ {c}]
    <3>1. PICK c : c = CHOOSE x \in s : TRUE
      OBVIOUS
    <3>2. c = Order(e)[s] /\ c \in e
      BY <1>3, <2>1, <3>1
    <3>3. g[s] = term[c] + g[s \ {c}]
      BY <1>2, <2>1, <3>2 DEF PartialSums
    <3>4. g[s] = ClampCategory(CategorySum(value, c), m[c]) + g[s \ {c}]
      BY <3>2, <3>3
    <3> QED BY <3>1, <3>4
  <2>2. g[{}] = 0 /\ g = [s \in SUBSET e |-> g[s]]
    BY <1>1, <1>2 DEF PartialSums
  <2> QED BY <2>1, <2>2
<1>5. PICK h : h = CHOOSE i : Solves(i)
  OBVIOUS
<1>6. Solves(h)
  <2> HIDE DEF Solves
  <2> QED BY <1>4, <1>5
<1>7. RawScore(m, e, value) = h[e]
  BY <1>5 DEF RawScore, MapThenSumSet, MapThenFoldSet
<1>8. PartialSums(e, term, Order(e), h)
  <2>1. h[{}] = 0
    BY <1>6
  <2>2. \A s \in SUBSET e : s # {} =>
          h[s] = LET c == CHOOSE x \in s : TRUE IN
                 ClampCategory(CategorySum(value, c), m[c]) + h[s \ {c}]
    BY <1>6
  <2>3. ASSUME NEW s \in SUBSET e, s # {}
        PROVE  h[s] = term[Order(e)[s]] + h[s \ {Order(e)[s]}]
    <3> HIDE DEF Solves
    <3>1. PICK c : c = CHOOSE x \in s : TRUE
      OBVIOUS
    <3>2. c = Order(e)[s] /\ c \in e
      BY <1>3, <2>3, <3>1
    <3>3. h[s] = ClampCategory(CategorySum(value, c), m[c]) + h[s \ {c}]
      BY <2>2, <2>3, <3>1
    <3> QED BY <3>2, <3>3
  <2> HIDE DEF Solves
  <2> QED BY <2>1, <2>3 DEF PartialSums
<1> HIDE DEF Solves
<1>9. IsFiniteSet(e)
  BY FinitelyMany, FS_Subset
<1>10. g[e] = h[e]
  BY <1>2, <1>8, <1>9, OrderPicks, OneSolution
<1> QED BY <1>1, <1>7, <1>10

\* The categories' sums add up to the sum of the items.
LEMMA CategoriesPartition ==
  ASSUME NEW e \in SUBSET Category, NEW value, \A item \in Item : value[item] \in Int,
         \A item \in Item : ItemCategory[item] \notin e => value[item] = 0,
         NEW term, \A c \in e : term[c] = CategorySum(value, c)
  PROVE  OverCategories(term, e) = OverItems(value, Item)
<1>1. \A item \in Item : Counted(value, Item, item) = value[item] /\ value[item] \in Int
  BY DEF Counted
<1>2. Counted(term, e, "IDENTITY_VERIFICATION") = OverIdentity(value, Item)
  <2>1. \A item \in {"REGISTRATION_COMPLETED", "EMAIL_VERIFIED", "PHONE_UPDATED",
                     "GOVERNMENT_ID_VERIFIED", "COMPLETE_PROFILE"} :
          item \in Item /\ ItemCategory[item] = "IDENTITY_VERIFICATION"
    BY DEF Item, ItemCategory
  <2>2. CategorySum(value, "IDENTITY_VERIFICATION") = OverIdentity(value, Item)
    BY <1>1, <2>1 DEF CategorySum, OverIdentity
  <2>3. "IDENTITY_VERIFICATION" \notin e => OverIdentity(value, Item) = 0
    BY <1>1, <2>1 DEF OverIdentity
  <2> QED BY <2>2, <2>3 DEF Counted
<1>3. /\ Counted(term, e, "PAYMENT") = value["rent"] + value["utility"]
      /\ Counted(term, e, "RENTER_BEHAVIOUR") = value["maintenance"] + value["compliance"]
  <2>1. /\ {"rent", "utility", "maintenance", "compliance"} \subseteq Item
        /\ ItemCategory["rent"] = "PAYMENT" /\ ItemCategory["utility"] = "PAYMENT"
        /\ ItemCategory["maintenance"] = "RENTER_BEHAVIOUR"
        /\ ItemCategory["compliance"] = "RENTER_BEHAVIOUR"
    BY DEF Item, ItemCategory
  <2>2. /\ CategorySum(value, "PAYMENT") = value["rent"] + value["utility"]
        /\ CategorySum(value, "RENTER_BEHAVIOUR") = value["maintenance"] + value["compliance"]
    BY DEF CategorySum
  <2>3. "PAYMENT" \notin e => value["rent"] = 0 /\ value["utility"] = 0
    BY <2>1
  <2>4. "RENTER_BEHAVIOUR" \notin e => value["maintenance"] = 0 /\ value["compliance"] = 0
    BY <2>1
  <2>5. Counted(term, e, "PAYMENT") = value["rent"] + value["utility"]
    BY <2>2, <2>3 DEF Counted
  <2>6. Counted(term, e, "RENTER_BEHAVIOUR") = value["maintenance"] + value["compliance"]
    BY <2>2, <2>4 DEF Counted
  <2> QED BY <2>5, <2>6
<1>4. /\ Counted(term, e, "RENTAL_STABILITY") = value["stability"]
      /\ Counted(term, e, "EMPLOYMENT_STABILITY") = value["employment"]
      /\ Counted(term, e, "LANDLORD_REFERENCE") = value["reference"]
      /\ Counted(term, e, "RENTER_BAND") = value["band"]
  <2>1. /\ {"stability", "employment", "reference", "band"} \subseteq Item
        /\ ItemCategory["stability"] = "RENTAL_STABILITY"
        /\ ItemCategory["employment"] = "EMPLOYMENT_STABILITY"
        /\ ItemCategory["reference"] = "LANDLORD_REFERENCE" /\ ItemCategory["band"] = "RENTER_BAND"
    BY DEF Item, ItemCategory
  <2>2. /\ CategorySum(value, "RENTAL_STABILITY") = value["stability"]
        /\ CategorySum(value, "EMPLOYMENT_STABILITY") = value["employment"]
        /\ CategorySum(value, "LANDLORD_REFERENCE") = value["reference"]
        /\ CategorySum(value, "RENTER_BAND") = value["band"]
    BY DEF CategorySum
  <2> QED BY <2>1, <2>2 DEF Counted
<1>5. /\ OverRecords(value, Item)
            = value["rent"] + value["utility"] + value["maintenance"] + value["compliance"]
      /\ OverProfile(value, Item)
            = value["stability"] + value["employment"] + value["reference"] + value["band"]
      /\ OverIdentity(value, Item) \in Int
  BY <1>1, ItemNames DEF OverRecords, OverProfile, OverIdentity
<1> QED BY <1>1, <1>2, <1>3, <1>4, <1>5, ItemNames DEF OverCategories, OverItems

\* An item of a category that is not enabled contributes nothing.
LEMMA DisabledIsNothing ==
  ASSUME NEW p, NEW a, NEW e, NEW f, NEW out, NEW codes, NEW item \in Item, ItemCategory[item] \notin e
  PROVE  Contribution(p, a, e, f, out, codes)[item] = 0
BY DEF Contribution

\* Unless a write of the policy followed a read that another had overtaken, a renter's score is
\* the total of the breakdown's items (buildRentScoreSnapshot, buildCategoryBreakdown), kept
\* within 0..900, whatever is on record of the renter and whatever is overridden or disabled.
THEOREM ScoreTotal == Spec => []ScoreIsTotal
<1>1. IInv => ScoreIsTotal
  <2> SUFFICES ASSUME IInv, "policy" \notin skewed
               PROVE  /\ RawScore(max, enabled, Breakdown)
                            = MapThenSumSet(LAMBDA item : Breakdown[item], Item)
                      /\ Score(max, enabled, Breakdown)
                            = Min({900, Max({0, MapThenSumSet(LAMBDA item : Breakdown[item], Item)})})
    BY DEF ScoreIsTotal
  <2>1. Policy(points, active) /\ enabled \in SUBSET Category /\ facts \in Record
    BY RecordAssumption, TypeParts DEF IInv, Policy
  <2>2. PICK v : v = Breakdown
    OBVIOUS
  <2>3. \A item \in Item : v[item] \in Int
    BY <2>1, <2>2, ItemBelowBest DEF Breakdown
  <2>4. \A item \in Item : ItemCategory[item] \notin enabled => v[item] = 0
    BY <2>2, DisabledIsNothing DEF Breakdown
  <2>5. PICK term : term = [c \in enabled |-> CategorySum(v, c)]
    OBVIOUS
  <2>6. \A c \in enabled : /\ term[c] = ClampCategory(CategorySum(v, c), max[c])
                           /\ term[c] = CategorySum(v, c)
                           /\ term[c] \in Int
    <3> SUFFICES ASSUME NEW c \in enabled
                 PROVE  /\ term[c] = ClampCategory(CategorySum(v, c), max[c])
                        /\ term[c] = CategorySum(v, c)
                        /\ term[c] \in Int
      OBVIOUS
    <3>1. CategorySum(v, c) \in Int
      BY <2>1, <2>2, SumBelowConfigured DEF Breakdown
    <3>2. ClampCategory(CategorySum(v, c), max[c]) = CategorySum(v, c)
      BY <2>2, NothingIsCutOff DEF NothingCutOff
    <3> QED BY <2>5, <3>1, <3>2
  <2>7. RawScore(max, enabled, v) = OverCategories(term, enabled)
    BY <2>1, <2>6, RawScoreIs
  <2>8. OverCategories(term, enabled) = OverItems(v, Item)
    BY <2>1, <2>3, <2>4, <2>6, CategoriesPartition
  <2>9. MapThenSumSet(LAMBDA item : v[item], Item) = OverItems(v, Item)
    BY <2>3, TotalIs
  <2>10. RawScore(max, enabled, v) = MapThenSumSet(LAMBDA item : v[item], Item)
    BY <2>7, <2>8, <2>9
  <2> QED BY <2>2, <2>10 DEF Score, MinScore, MaxScore
<1> QED BY <1>1, Invariance, PTL
=============================================================================
