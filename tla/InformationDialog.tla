-------------------------- MODULE InformationDialog --------------------------
(***************************************************************************)
(* What docs/additional-information-requests.md promises of a landlord's    *)
(* request for information, without handlers, locks or timestamps: requests *)
(* and answers alternate, an answer answers the request that stands, and    *)
(* stays until the landlord asks again.  ApplicationDecision implements it. *)
(***************************************************************************)
CONSTANTS Case, Item

VARIABLES
    open,           \* per case: a request awaits the renter
    asked,          \* per case: the items of the last request
    answer          \* per case: the items of the answer to it, {} for none

vars == <<open, asked, answer>>

Init ==
    /\ open = [c \in Case |-> FALSE]
    /\ asked = [c \in Case |-> {}]
    /\ answer = [c \in Case |-> {}]

Ask(c, items) ==
    /\ ~open[c] /\ items # {}
    /\ open' = [open EXCEPT ![c] = TRUE]
    /\ asked' = [asked EXCEPT ![c] = items]
    /\ answer' = [answer EXCEPT ![c] = {}]

Reply(c) ==
    /\ open[c]
    /\ open' = [open EXCEPT ![c] = FALSE]
    /\ answer' = [answer EXCEPT ![c] = asked[c]]
    /\ UNCHANGED asked

Next == \E c \in Case : Reply(c) \/ \E items \in SUBSET Item : Ask(c, items)

Spec == Init /\ [][Next]_vars
=============================================================================
