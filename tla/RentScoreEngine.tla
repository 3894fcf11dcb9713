--------------------------- MODULE RentScoreEngine ---------------------------
(***************************************************************************)
(* The pure part of rent-score.service.ts (src/src/modules/rent-score):     *)
(* the default policy, which rule applies to what is on record of a renter, *)
(* what the rules add up to, and the check an administrator's change of the *)
(* policy has to pass.                                                      *)
(*                                                                         *)
(* A policy is points and activity per rule, a maximum and activity per     *)
(* category; "facts" are what is on record of one renter.  An item of the   *)
(* breakdown is named by its rule in the identity category, and by its kind *)
(* in the others, where one of several rules applies to it.                 *)
(***************************************************************************)
EXTENDS Integers, FiniteSetsExt

NoRule == "NO_RULE"
Null == -1              \* a column that is null, where a number is expected

-----------------------------------------------------------------------------
(* The default policy.                                                      *)

DefaultPoints == [
    REGISTRATION_COMPLETED |-> 20, EMAIL_VERIFIED |-> 20, PHONE_UPDATED |-> 20,
    GOVERNMENT_ID_VERIFIED |-> 20, COMPLETE_PROFILE |-> 20,
    RENT_PAID_ON_OR_BEFORE_DUE_DATE |-> 200, RENT_PAID_WITHIN_GRACE_PERIOD |-> 150, RENT_MISSED |-> 0,
    UTILITY_PAID_ON_TIME |-> 100, UTILITY_PAID_WITHIN_GRACE_PERIOD |-> 50, UTILITY_MISSED |-> 0,
    PROPERTY_MAINTENANCE_EXCELLENT |-> 100, PROPERTY_MAINTENANCE_GOOD |-> 50, PROPERTY_MAINTENANCE_POOR |-> 0,
    LEASE_COMPLIANCE_EXCELLENT |-> 100, LEASE_COMPLIANCE_GOOD |-> 50, LEASE_COMPLIANCE_POOR |-> 0,
    RENTAL_STABILITY_1_MOVE |-> 100, RENTAL_STABILITY_2_MOVES |-> 60, RENTAL_STABILITY_3_PLUS_MOVES |-> 0,
    EMPLOYED_1_YEAR |-> 100, EMPLOYED_2_YEARS |-> 60, EMPLOYED_3_PLUS_YEARS |-> 0,
    SELF_EMPLOYED_5_PLUS_YEARS |-> 100, SELF_EMPLOYED_3_TO_4_YEARS |-> 60, SELF_EMPLOYED_UNDER_3_YEARS |-> 0,
    LANDLORD_REFERENCE_STRONGLY_RECOMMEND |-> 100, LANDLORD_REFERENCE_RECOMMEND |-> 75,
    LANDLORD_REFERENCE_NEUTRAL |-> 40, LANDLORD_REFERENCE_DO_NOT_RECOMMEND |-> 0,
    RENTER_BAND_D |-> 25, RENTER_BAND_C |-> 50, RENTER_BAND_B |-> 75, RENTER_BAND_A |-> 100]

Rule == DOMAIN DefaultPoints

DefaultMax == [
    IDENTITY_VERIFICATION |-> 100, PAYMENT |-> 300, RENTER_BEHAVIOUR |-> 200, RENTAL_STABILITY |-> 100,
    EMPLOYMENT_STABILITY |-> 100, LANDLORD_REFERENCE |-> 100, RENTER_BAND |-> 100]

Category == DOMAIN DefaultMax

\* The policy row's own bounds; no route changes them.
MinScore == 0
MaxScore == 900

IdentityRules == {"REGISTRATION_COMPLETED", "EMAIL_VERIFIED", "PHONE_UPDATED",
                  "GOVERNMENT_ID_VERIFIED", "COMPLETE_PROFILE"}
RentRules == {"RENT_PAID_ON_OR_BEFORE_DUE_DATE", "RENT_PAID_WITHIN_GRACE_PERIOD", "RENT_MISSED"}
UtilityRules == {"UTILITY_PAID_ON_TIME", "UTILITY_PAID_WITHIN_GRACE_PERIOD", "UTILITY_MISSED"}
MaintenanceRules == {"PROPERTY_MAINTENANCE_EXCELLENT", "PROPERTY_MAINTENANCE_GOOD", "PROPERTY_MAINTENANCE_POOR"}
ComplianceRules == {"LEASE_COMPLIANCE_EXCELLENT", "LEASE_COMPLIANCE_GOOD", "LEASE_COMPLIANCE_POOR"}
StabilityRules == {"RENTAL_STABILITY_1_MOVE", "RENTAL_STABILITY_2_MOVES", "RENTAL_STABILITY_3_PLUS_MOVES"}
EmploymentRules == {"EMPLOYED_1_YEAR", "EMPLOYED_2_YEARS", "EMPLOYED_3_PLUS_YEARS",
                    "SELF_EMPLOYED_5_PLUS_YEARS", "SELF_EMPLOYED_3_TO_4_YEARS", "SELF_EMPLOYED_UNDER_3_YEARS"}
ReferenceRules == {"LANDLORD_REFERENCE_STRONGLY_RECOMMEND", "LANDLORD_REFERENCE_RECOMMEND",
                   "LANDLORD_REFERENCE_NEUTRAL", "LANDLORD_REFERENCE_DO_NOT_RECOMMEND"}
BandRules == {"RENTER_BAND_D", "RENTER_BAND_C", "RENTER_BAND_B", "RENTER_BAND_A"}

\* inferRuleCategoryCode, for the rules an administrator can see.
RulesOf == [
    IDENTITY_VERIFICATION |-> IdentityRules, PAYMENT |-> RentRules \cup UtilityRules,
    RENTER_BEHAVIOUR |-> MaintenanceRules \cup ComplianceRules, RENTAL_STABILITY |-> StabilityRules,
    EMPLOYMENT_STABILITY |-> EmploymentRules, LANDLORD_REFERENCE |-> ReferenceRules, RENTER_BAND |-> BandRules]

CategoryOf(r) == CHOOSE c \in Category : r \in RulesOf[c]

-----------------------------------------------------------------------------
(* Which rule applies.                                                      *)

\* What can be on record of a renter: the rule of the newest event of each family, and
\* the columns the other items are read off.
Record == [
    verified : BOOLEAN, phone : BOOLEAN, address : BOOLEAN, approved : BOOLEAN,
    rent : RentRules \cup {NoRule}, utility : UtilityRules \cup {NoRule},
    maintenance : MaintenanceRules \cup {NoRule}, compliance : ComplianceRules \cup {NoRule},
    moves : Nat \cup {Null}, employment : {"UNKNOWN", "EMPLOYED", "SELF_EMPLOYED"},
    years : Nat \cup {Null}, reference : ReferenceRules \cup {NoRule},
    annualRent : Nat \cup {Null}]

StabilityRule(moves) ==
    CASE moves = Null -> NoRule
      [] moves \in {0, 1} -> "RENTAL_STABILITY_1_MOVE"
      [] moves = 2 -> "RENTAL_STABILITY_2_MOVES"
      [] OTHER -> "RENTAL_STABILITY_3_PLUS_MOVES"

EmploymentRule(type, years) ==
    CASE type = "UNKNOWN" \/ years = Null -> NoRule
      [] type = "EMPLOYED" /\ years \in {0, 1} -> "EMPLOYED_1_YEAR"
      [] type = "EMPLOYED" /\ years = 2 -> "EMPLOYED_2_YEARS"
      [] type = "EMPLOYED" /\ years > 2 -> "EMPLOYED_3_PLUS_YEARS"
      [] type = "SELF_EMPLOYED" /\ years >= 5 -> "SELF_EMPLOYED_5_PLUS_YEARS"
      [] type = "SELF_EMPLOYED" /\ years \in {3, 4} -> "SELF_EMPLOYED_3_TO_4_YEARS"
      [] OTHER -> "SELF_EMPLOYED_UNDER_3_YEARS"

\* By the yearly rent of the unit of the approved case updated last (naira).
BandRule(rent) ==
    CASE rent = Null -> NoRule
      [] rent # Null /\ rent < 500000 -> "RENTER_BAND_D"
      [] 500000 <= rent /\ rent <= 1000000 -> "RENTER_BAND_C"
      [] 1000000 < rent /\ rent <= 2500000 -> "RENTER_BAND_B"
      [] OTHER -> "RENTER_BAND_A"

\* The rule that applies to each item, NoRule for none.  The milestones of the identity
\* category are read off the account, whatever events were recorded.
AppliedRule(facts) == [
    REGISTRATION_COMPLETED |-> IF facts.verified THEN "REGISTRATION_COMPLETED" ELSE NoRule,
    EMAIL_VERIFIED |-> IF facts.verified THEN "EMAIL_VERIFIED" ELSE NoRule,
    PHONE_UPDATED |-> IF facts.phone THEN "PHONE_UPDATED" ELSE NoRule,
    GOVERNMENT_ID_VERIFIED |-> IF facts.approved THEN "GOVERNMENT_ID_VERIFIED" ELSE NoRule,
    COMPLETE_PROFILE |-> IF facts.phone /\ facts.address THEN "COMPLETE_PROFILE" ELSE NoRule,
    rent |-> facts.rent, utility |-> facts.utility,
    maintenance |-> facts.maintenance, compliance |-> facts.compliance,
    stability |-> StabilityRule(facts.moves),
    employment |-> EmploymentRule(facts.employment, facts.years),
    reference |-> facts.reference,
    band |-> BandRule(facts.annualRent)]

\* The code an item shows, and is overridden by, while no rule applies to it.
UnsetCode == [
    REGISTRATION_COMPLETED |-> "REGISTRATION_COMPLETED", EMAIL_VERIFIED |-> "EMAIL_VERIFIED",
    PHONE_UPDATED |-> "PHONE_UPDATED", GOVERNMENT_ID_VERIFIED |-> "GOVERNMENT_ID_VERIFIED",
    COMPLETE_PROFILE |-> "COMPLETE_PROFILE",
    rent |-> "RENT_PAYMENT_HISTORY", utility |-> "UTILITY_PAYMENT_HISTORY",
    maintenance |-> "PROPERTY_MAINTENANCE_UNSET", compliance |-> "LEASE_COMPLIANCE_UNSET",
    stability |-> "RENTAL_STABILITY", employment |-> "EMPLOYMENT_STABILITY",
    reference |-> "LANDLORD_REFERENCE_UNSET", band |-> "RENTER_BAND"]

ItemCode(facts, item) ==
    LET rule == AppliedRule(facts)[item] IN IF rule = NoRule THEN UnsetCode[item] ELSE rule

ItemCodes(facts) == {ItemCode(facts, item) : item \in DOMAIN UnsetCode}

-----------------------------------------------------------------------------
(* What the rules add up to.                                                *)

\* configuredContribution: an inactive rule contributes nothing.
Worth(points, active, r) == IF r \in active THEN points[r] ELSE 0

\* The items of the breakdown, and the category each counts in.
ItemCategory == [
    REGISTRATION_COMPLETED |-> "IDENTITY_VERIFICATION", EMAIL_VERIFIED |-> "IDENTITY_VERIFICATION",
    PHONE_UPDATED |-> "IDENTITY_VERIFICATION", GOVERNMENT_ID_VERIFIED |-> "IDENTITY_VERIFICATION",
    COMPLETE_PROFILE |-> "IDENTITY_VERIFICATION",
    rent |-> "PAYMENT", utility |-> "PAYMENT",
    maintenance |-> "RENTER_BEHAVIOUR", compliance |-> "RENTER_BEHAVIOUR",
    stability |-> "RENTAL_STABILITY", employment |-> "EMPLOYMENT_STABILITY",
    reference |-> "LANDLORD_REFERENCE", band |-> "RENTER_BAND"]

Item == DOMAIN ItemCategory

\* buildRentScoreSnapshot, the base breakdown: what each item contributes.
BaseContribution(points, active, facts) ==
    LET applied == AppliedRule(facts) IN
    [item \in Item |-> Worth(points, active, applied[item])]

\* The breakdown: an overridden item, and an item of an overridden or disabled
\* category, contributes nothing.
Contribution(points, active, enabled, facts, categoriesOut, codesOut) ==
    LET base == BaseContribution(points, active, facts) IN
    [item \in Item |->
        IF \/ ItemCategory[item] \notin enabled \ categoriesOut
           \/ ItemCode(facts, item) \in codesOut
        THEN 0 ELSE base[item]]

\* The items of a category, added up.
CategorySum(value, c) ==
    CASE c = "IDENTITY_VERIFICATION" ->
            value["REGISTRATION_COMPLETED"] + value["EMAIL_VERIFIED"] + value["PHONE_UPDATED"]
                + value["GOVERNMENT_ID_VERIFIED"] + value["COMPLETE_PROFILE"]
      [] c = "PAYMENT" -> value["rent"] + value["utility"]
      [] c = "RENTER_BEHAVIOUR" -> value["maintenance"] + value["compliance"]
      [] c = "RENTAL_STABILITY" -> value["stability"]
      [] c = "EMPLOYMENT_STABILITY" -> value["employment"]
      [] c = "LANDLORD_REFERENCE" -> value["reference"]
      [] c = "RENTER_BAND" -> value["band"]

\* clampCategoryScore: from above only.
ClampCategory(value, limit) == Min({limit, value})

\* buildCategoryBreakdown and rawScore: the enabled categories, each up to its maximum.
\* (The summary's score is rawScore kept within MinScore and MaxScore.)
RawScore(max, enabled, value) ==
    MapThenSumSet(LAMBDA c : ClampCategory(CategorySum(value, c), max[c]), enabled)

Score(max, enabled, value) == Min({MaxScore, Max({MinScore, RawScore(max, enabled, value)})})

-----------------------------------------------------------------------------
(* What an administrator's change is checked against.                       *)

Best(points, active, rules) == Max({0} \cup {Worth(points, active, r) : r \in rules})

\* Mutant: only the better of rent and utility counts.
BestPayment(points, active) == Best(points, active, RentRules \cup UtilityRules)

PaymentPoints(points, active) ==
    Best(points, active, RentRules) + Best(points, active, UtilityRules)

\* calculateConfiguredCategoryPoints: the most a renter can get in a category.
ConfiguredPoints(points, active, c) ==
    CASE c = "IDENTITY_VERIFICATION" ->
            Best(points, active, {"REGISTRATION_COMPLETED"}) + Best(points, active, {"EMAIL_VERIFIED"})
                + Best(points, active, {"PHONE_UPDATED"}) + Best(points, active, {"GOVERNMENT_ID_VERIFIED"})
                + Best(points, active, {"COMPLETE_PROFILE"})
      [] c = "PAYMENT" -> PaymentPoints(points, active)
      [] c = "RENTER_BEHAVIOUR" -> Best(points, active, MaintenanceRules) + Best(points, active, ComplianceRules)
      [] OTHER -> Best(points, active, RulesOf[c])
=============================================================================
