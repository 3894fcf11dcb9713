---- MODULE MCRentScore ----
(* Instances of RentScore for TLC. *)
EXTENDS RentScore, TLC

Newcomer == [
    verified |-> TRUE, phone |-> FALSE, address |-> FALSE, approved |-> FALSE,
    rent |-> NoRule, utility |-> NoRule, maintenance |-> NoRule, compliance |-> NoRule,
    moves |-> Null, employment |-> "UNKNOWN", years |-> Null, reference |-> NoRule, annualRent |-> Null]

\* Everything that can count counts, at its best.
Settled == [
    verified |-> TRUE, phone |-> TRUE, address |-> TRUE, approved |-> TRUE,
    rent |-> "RENT_PAID_ON_OR_BEFORE_DUE_DATE", utility |-> "UTILITY_PAID_ON_TIME",
    maintenance |-> "PROPERTY_MAINTENANCE_EXCELLENT", compliance |-> "LEASE_COMPLIANCE_EXCELLENT",
    moves |-> 1, employment |-> "SELF_EMPLOYED", years |-> 5,
    reference |-> "LANDLORD_REFERENCE_STRONGLY_RECOMMEND", annualRent |-> 3000000]

MCFacts == {Newcomer, Settled}
MCEditedRule == {"RENT_PAID_ON_OR_BEFORE_DUE_DATE", "UTILITY_PAID_ON_TIME"}
MCEditedCategory == {"PAYMENT"}
MCNewPoints == {-10, 220}
MCNewMax == {340}

\* Bound: behaviours are followed up to the write that comes too late, of which the
\* properties say nothing.
Unskewed == skewed = {}

AdminSymmetry == Permutations(Admin)
====
