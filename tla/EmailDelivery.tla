---------------------------- MODULE EmailDelivery ----------------------------
(***************************************************************************)
(* What the notification outbox promises to the rest of the system, without*)
(* workers, leases or retries: a mail that a business transaction queued is *)
(* handed to the provider at least once, is marked delivered only after the *)
(* provider took it, and stays delivered.  EmailOutbox implements this.     *)
(***************************************************************************)
CONSTANT Job                    \* the mails that may be queued (their dedupe keys)

VARIABLES
    queued,                     \* the mails with a committed row
    accepted,                   \* the mails the provider has taken
    delivered                   \* the mails marked delivered

vars == <<queued, accepted, delivered>>

Init == queued = {} /\ accepted = {} /\ delivered = {}

Queue(j) ==
    /\ queued' = queued \cup {j}
    /\ UNCHANGED <<accepted, delivered>>

Accept(j) ==
    /\ j \in queued
    /\ accepted' = accepted \cup {j}
    /\ UNCHANGED <<queued, delivered>>

Deliver(j) ==
    /\ j \in accepted
    /\ delivered' = delivered \cup {j}
    /\ UNCHANGED <<queued, accepted>>

Next == \E j \in Job : Queue(j) \/ Accept(j) \/ Deliver(j)

Safe == Init /\ [][Next]_vars

Fairness == \A j \in Job : WF_vars(Accept(j)) /\ WF_vars(Deliver(j))

Spec == Safe /\ Fairness
=============================================================================
