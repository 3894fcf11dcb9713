---------------------------- MODULE AccountLinking ----------------------------
(***************************************************************************)
(* People who are named before they have an account: landlords propose      *)
(* renters and invite agents by e-mail address, and a completed sign-up     *)
(* attaches what waited for the address:                                    *)
(*   signupPublicAccount, resendPublicAccountVerification,                  *)
(*   completePublicAccountSignup, attachPending...  (src/src/modules/auth), *)
(*   createWorkspaceProposedRenter, correctWorkspaceProposedRenterEmail,    *)
(*   shareWorkspaceProperty, respondToWorkspaceAgentInvite                  *)
(*                                             (src/src/modules/workspace), *)
(*   changeManagedUserStatus             (src/src/modules/user-management). *)
(*                                                                         *)
(* A person is an e-mail address; an account is found by it and keeps it.   *)
(* "AGENT" stands for every kind of account that is not a renter's.  Each   *)
(* transaction is cut between its checks and its writes; sign-up, which     *)
(* uses no transaction for most of its work, between its statements.        *)
(***************************************************************************)
EXTENDS FiniteSets, Naturals

CONSTANTS
    Person,         \* e-mail addresses
    Case,           \* rows of ProposedRenter
    Unit,           \* units that renters are proposed for
    Property,       \* properties that agents are invited to
    Handler,        \* request handlers that may be in flight at once
    Lock,           \* statuses an administrator may set besides "ACTIVE"
    Tokens,         \* bound: verification tokens of a person at one time
    Faults          \* bound: persons whose completion stops halfway

ASSUME LockAssumption == Lock \subseteq {"DISABLED", "SUSPENDED"}
ASSUME BoundAssumption == Tokens \in Nat /\ Faults \in Nat

VARIABLES
    account,        \* per person: PublicAccount.status, "NONE" without a row
    kind,           \* per person: accountType
    verified,       \* persons with emailVerifiedAt
    live, spent,    \* tokens <<person, number>> in the database, by consumedAt
    created,        \* cases that are committed
    unit, email,    \* per case: the unit and the address it names
    attached,       \* cases with a renterAccountId (of the account of that address)
    decided,        \* cases with a decision
    invite,         \* per property and person: PropertyAgentInvite.status
    named,          \* invitations with a recipientAccountId
    agents,         \* <<property, person>>: members with the role AGENT
    told,           \* cases and invitations announced in the person's inbox
    inactive,       \* cases whose address had an account, not an active one, when it
                    \*   was entered,
    interrupted,    \* persons whose completion stopped halfway (history variables)
    pc, task        \* per handler: where it is, and what it has read

person == <<account, kind, verified, live, spent>>
case == <<created, unit, email, attached, decided, inactive>>
invitation == <<invite, named, agents>>
process == <<pc, task>>
vars == <<person, case, invitation, told, interrupted, process>>

Kind == {"RENTER", "AGENT"}
Account == {"NONE", "UNVERIFIED", "ACTIVE"} \cup Lock
Token == Person \X (1..Tokens)
Invitation == Property \X Person
NoTask == <<>>

Init ==
    /\ account = [e \in Person |-> "NONE"] /\ kind = [e \in Person |-> "RENTER"]
    /\ verified = {} /\ live = {} /\ spent = {}
    /\ created = {} /\ attached = {} /\ decided = {} /\ inactive = {}
    /\ unit = [c \in Case |-> "NONE"] /\ email = [c \in Case |-> "NONE"]
    /\ invite = [i \in Invitation |-> "NONE"] /\ named = {} /\ agents = {}
    /\ told = {} /\ interrupted = {}
    /\ pc = [h \in Handler |-> "idle"]
    /\ task = [h \in Handler |-> NoTask]

-----------------------------------------------------------------------------
(* Steps of a handler.                                                      *)

Begin(h, at, t) ==
    /\ pc[h] = "idle"
    /\ pc' = [pc EXCEPT ![h] = at]
    /\ task' = [task EXCEPT ![h] = t]

Move(h, from, to, t) ==
    /\ pc[h] = from
    /\ pc' = [pc EXCEPT ![h] = to]
    /\ task' = [task EXCEPT ![h] = t]

Finish(h, from) == Move(h, from, "idle", NoTask)

\* After the sign-up's transaction, before everything that waited is attached.
Completing == {"find", "tell", "attach"}

\* The transaction fails or the process dies: what is committed stays.
Abort(h) ==
    /\ pc[h] # "idle"
    /\ interrupted' = IF pc[h] \in Completing THEN interrupted \cup {task[h].person} ELSE interrupted
    /\ Cardinality(interrupted') <= Faults
    /\ Finish(h, pc[h])
    /\ UNCHANGED <<person, case, invitation, told>>

-----------------------------------------------------------------------------
(* signupPublicAccount, resendPublicAccountVerification.                    *)

SignUpRead(h, e, k) ==
    /\ e \notin verified /\ account[e] # "ACTIVE"
    /\ Begin(h, "signup", [person |-> e, kind |-> k, known |-> account[e] # "NONE"])
    /\ UNCHANGED <<person, case, invitation, told, interrupted>>

\* An update by e-mail address, or a creation that must meet no other row.
SignUpWrite(h) ==
    /\ LET e == task[h].person IN
        /\ Move(h, "signup", "drop", [person |-> e])
        /\ task[h].known \/ account[e] = "NONE"
        /\ account' = [account EXCEPT ![e] = "UNVERIFIED"]
        /\ kind' = [kind EXCEPT ![e] = task[h].kind]
        /\ verified' = verified \ {e}
    /\ UNCHANGED <<live, spent, case, invitation, told, interrupted>>

ResendRead(h, e) ==
    /\ account[e] \notin {"NONE", "DISABLED"} /\ e \notin verified
    /\ Begin(h, "drop", [person |-> e])
    /\ UNCHANGED <<person, case, invitation, told, interrupted>>

TokensOf(e) == {t \in Token : t[1] = e}

\* Tokens that a completion has read: their numbers are not given out again.
Read == {task[h].token : h \in {g \in Handler : pc[g] = "complete"}}

\* issueVerificationToken: two statements.
DropTokens(h) ==
    /\ Move(h, "drop", "issue", task[h])
    /\ live' = live \ TokensOf(task[h].person)
    /\ UNCHANGED <<account, kind, verified, spent, case, invitation, told, interrupted>>

IssueToken(h) ==
    /\ pc[h] = "issue"
    /\ \E t \in TokensOf(task[h].person) \ (live \cup spent \cup Read) : live' = live \cup {t}
    /\ Finish(h, "issue")
    /\ UNCHANGED <<account, kind, verified, spent, case, invitation, told, interrupted>>

-----------------------------------------------------------------------------
(* completePublicAccountSignup, attachPendingRenterLinks,                   *)
(* attachPendingAgentInvites.                                               *)

CompleteRead(h, t) ==
    /\ t \in live
    /\ Begin(h, "complete", [person |-> t[1], token |-> t, status |-> account[t[1]]])
    /\ UNCHANGED <<person, case, invitation, told, interrupted>>

\* Mutant: a status the account type does not have.
VerifiedStatus(status) == IF status = "DISABLED" THEN "DISABLED" ELSE "VERIFIED"

\* The status is the one that was read with the token.
CompletedStatus(status) == IF status = "DISABLED" THEN "DISABLED" ELSE "ACTIVE"

\* The token must still have its row, spent or not.
CompleteCommit(h) ==
    /\ LET e == task[h].person IN
        /\ Move(h, "complete", "find", [person |-> e, kind |-> kind[e]])
        /\ task[h].token \in live \cup spent
        /\ live' = live \ TokensOf(e)
        /\ spent' = (spent \ TokensOf(e)) \cup {task[h].token}
        /\ account' = [account EXCEPT ![e] = CompletedStatus(task[h].status)]
        /\ verified' = verified \cup {e}
    /\ UNCHANGED <<kind, case, invitation, told, interrupted>>

\* Rows that name the address: cases without an account, open invitations.
Waiting(e, k) ==
    IF k = "RENTER" THEN {c \in created \ attached : email[c] = e}
                    ELSE {i \in Invitation : i[2] = e /\ invite[i] = "PENDING"}

FindWaiting(h) ==
    /\ pc[h] = "find"
    /\ LET items == Waiting(task[h].person, task[h].kind) IN
        IF items = {} THEN Finish(h, "find")
        ELSE Move(h, "find", "tell", 
            [person |-> task[h].person, kind |-> task[h].kind, items |-> items])
    /\ UNCHANGED <<person, case, invitation, told, interrupted>>

\* Each announcement is a transaction, under an event key.
TellOne(h) ==
    /\ pc[h] = "tell"
    /\ \E i \in task[h].items :
        /\ told' = told \cup {i}
        /\ Move(h, "tell", IF task[h].items = {i} THEN "attach" ELSE "tell",
                [task[h] EXCEPT !.items = @ \ {i}])
    /\ UNCHANGED <<person, case, invitation, interrupted>>

\* One statement, over what waits by now.
Attach(h) ==
    /\ pc[h] = "attach"
    /\ LET items == Waiting(task[h].person, task[h].kind) IN
        IF task[h].kind = "RENTER"
        THEN attached' = attached \cup items /\ UNCHANGED named
        ELSE named' = named \cup items /\ UNCHANGED attached
    /\ Finish(h, "attach")
    /\ UNCHANGED <<person, created, unit, email, decided, inactive, invite, agents, told, interrupted>>

-----------------------------------------------------------------------------
(* createWorkspaceProposedRenter, correctWorkspaceProposedRenterEmail.      *)

\* Mutant: only renters with an account are looked for.
QueuedWithAccount(u, e) == {c \in (created \cap attached) \ decided : unit[c] = u /\ email[c] = e}

Queued(u, e) == {c \in created \ decided : unit[c] = u /\ email[c] = e}

\* canUseExistingRenterAccount
Usable(status) == status \notin {"NONE", "DISABLED"}

\* The others get an invitation by e-mail only.
ToldAtOnce(status) == status = "ACTIVE"

IntakeRead(h, c, u, e) ==
    /\ c \notin created
    /\ account[e] = "NONE" \/ kind[e] = "RENTER"
    /\ Queued(u, e) = {}
    /\ Begin(h, "intake", [case |-> c, unit |-> u, person |-> e, status |-> account[e]])
    /\ UNCHANGED <<person, case, invitation, told, interrupted>>

IntakeCommit(h) ==
    /\ pc[h] = "intake" /\ task[h].case \notin created
    /\ LET c == task[h].case status == task[h].status IN
        /\ created' = created \cup {c}
        /\ unit' = [unit EXCEPT ![c] = task[h].unit]
        /\ email' = [email EXCEPT ![c] = task[h].person]
        /\ inactive' = IF status \in {"NONE", "ACTIVE"} THEN inactive ELSE inactive \cup {c}
        /\ attached' = IF Usable(status) THEN attached \cup {c} ELSE attached
        /\ told' = IF ToldAtOnce(status) THEN told \cup {c} ELSE told
    /\ Finish(h, "intake")
    /\ UNCHANGED <<person, decided, invitation, interrupted>>

\* Mutant: an address that has an account will do.
MayCorrectToAccount(c, e) ==
    /\ c \in created \ (attached \cup decided)
    /\ Queued(unit[c], e) \subseteq {c}

\* The response to the link is pending as long as nobody has the case.
MayCorrect(c, e) ==
    /\ c \in created \ (attached \cup decided)
    /\ account[e] = "NONE"
    /\ Queued(unit[c], e) \subseteq {c}

CorrectRead(h, c, e) ==
    /\ MayCorrect(c, e)
    /\ Begin(h, "correct", [case |-> c, person |-> e])
    /\ UNCHANGED <<person, case, invitation, told, interrupted>>

CorrectCommit(h) ==
    /\ Finish(h, "correct")
    /\ email' = [email EXCEPT ![task[h].case] = task[h].person]
    /\ inactive' = inactive \ {task[h].case}
    /\ UNCHANGED <<person, created, unit, attached, decided, invitation, told, interrupted>>

\* Any decision takes the case out of the unit's queue (see ApplicationDecision).
Decide(c) ==
    /\ c \in created
    /\ decided' = decided \cup {c}
    /\ UNCHANGED <<person, created, unit, email, attached, inactive, invitation, told, interrupted, process>>

-----------------------------------------------------------------------------
(* shareWorkspaceProperty, respondToWorkspaceAgentInvite.                   *)

AgentsOf(p) == {e \in Person : <<p, e>> \in agents}

\* Another's accepted invitation to the property.
Taken(p, e) == \E f \in Person \ {e} : invite[<<p, f>>] = "ACCEPTED"

ShareRead(h, p, e) ==
    /\ account[e] = "NONE" \/ (kind[e] = "AGENT" /\ account[e] = "ACTIVE")
    /\ AgentsOf(p) = {} /\ ~Taken(p, e)
    /\ Begin(h, "share", [invitation |-> <<p, e>>, known |-> account[e] # "NONE"])
    /\ UNCHANGED <<person, case, invitation, told, interrupted>>

ShareCommit(h) ==
    /\ Finish(h, "share")
    /\ LET i == task[h].invitation IN
        /\ invite' = [invite EXCEPT ![i] = "PENDING"]
        /\ named' = IF task[h].known THEN named \cup {i} ELSE named \ {i}
        /\ told' = IF task[h].known THEN told \cup {i} ELSE told
    /\ UNCHANGED <<person, case, agents, interrupted>>

\* An agent that is logged in, and an invitation of his.
MayRespond(p, e) ==
    /\ account[e] = "ACTIVE" /\ e \in verified /\ kind[e] = "AGENT"
    /\ invite[<<p, e>>] = "PENDING"

MayAccept(p, e) == AgentsOf(p) \subseteq {e} /\ ~Taken(p, e)

RespondRead(h, p, e, action) ==
    /\ MayRespond(p, e)
    /\ action = "accept" => MayAccept(p, e)
    /\ Begin(h, action, [invitation |-> <<p, e>>])
    /\ UNCHANGED <<person, case, invitation, told, interrupted>>

DeclineCommit(h) ==
    /\ Finish(h, "decline")
    /\ invite' = [invite EXCEPT ![task[h].invitation] = "DECLINED"]
    /\ named' = named \cup {task[h].invitation}
    /\ UNCHANGED <<person, case, agents, told, interrupted>>

\* Mutant: the others' invitations stay.
ClosesNone(i) == {}

ClosedBy(i) == {j \in Invitation \ {i} : j[1] = i[1] /\ invite[j] = "PENDING"}

AcceptCommit(h) ==
    /\ Finish(h, "accept")
    /\ LET i == task[h].invitation IN
        /\ agents' = agents \cup {i}
        /\ invite' = [j \in Invitation |->
                        IF j = i THEN "ACCEPTED" ELSE IF j \in ClosedBy(i) THEN "DECLINED" ELSE invite[j]]
        /\ named' = named \cup {i}
    /\ UNCHANGED <<person, case, told, interrupted>>

-----------------------------------------------------------------------------
\* changeManagedUserStatus
ChangeStatus(e, status) ==
    /\ account[e] # "NONE"
    /\ account' = [account EXCEPT ![e] = status]
    /\ UNCHANGED <<kind, verified, live, spent, case, invitation, told, interrupted, process>>

SignUp(h) ==
    \/ \E e \in Person : ResendRead(h, e) \/ \E k \in Kind : SignUpRead(h, e, k)
    \/ \E t \in Token : CompleteRead(h, t)
    \/ SignUpWrite(h) \/ DropTokens(h) \/ IssueToken(h)
    \/ CompleteCommit(h) \/ FindWaiting(h) \/ TellOne(h) \/ Attach(h)

Link(h) ==
    \/ \E c \in Case, e \in Person : CorrectRead(h, c, e) \/ \E u \in Unit : IntakeRead(h, c, u, e)
    \/ IntakeCommit(h) \/ CorrectCommit(h)

Invite(h) ==
    \/ \E p \in Property, e \in Person :
        ShareRead(h, p, e) \/ \E a \in {"accept", "decline"} : RespondRead(h, p, e, a)
    \/ ShareCommit(h) \/ DeclineCommit(h) \/ AcceptCommit(h)

Next ==
    \/ \E h \in Handler : SignUp(h) \/ Link(h) \/ Invite(h) \/ Abort(h)
    \/ \E c \in Case : Decide(c)
    \/ \E e \in Person, s \in {"ACTIVE"} \cup Lock : ChangeStatus(e, s)

Spec == Init /\ [][Next]_vars

-----------------------------------------------------------------------------
(* Correctness.                                                             *)

TaskOf(at) ==
    CASE at = "idle" -> {NoTask}
      [] at = "signup" -> [person : Person, kind : Kind, known : BOOLEAN]
      [] at \in {"drop", "issue"} -> [person : Person]
      [] at = "complete" -> [person : Person, token : Token, status : Account]
      [] at = "find" -> [person : Person, kind : Kind]
      [] at \in {"tell", "attach"} ->
            [person : Person, kind : Kind, items : (SUBSET Case) \cup (SUBSET Invitation)]
      [] at = "intake" -> [case : Case, unit : Unit, person : Person, status : Account]
      [] at = "correct" -> [case : Case, person : Person]
      [] at = "share" -> [invitation : Invitation, known : BOOLEAN]
      [] at \in {"accept", "decline"} -> [invitation : Invitation]

\* Every variable has its type, and a handler's task fits the place it is at.
TypeOK ==
    /\ account \in [Person -> Account] /\ kind \in [Person -> Kind]
    /\ verified \subseteq Person /\ interrupted \subseteq Person
    /\ live \subseteq Token /\ spent \subseteq Token
    /\ created \subseteq Case /\ attached \subseteq created /\ decided \subseteq created /\ inactive \subseteq created
    /\ \A c \in created : unit[c] \in Unit /\ email[c] \in Person
    /\ invite \in [Invitation -> {"NONE", "PENDING", "ACCEPTED", "DECLINED"}]
    /\ named \subseteq Invitation /\ agents \subseteq Invitation
    /\ told \subseteq Case \cup Invitation
    /\ \A h \in Handler : task[h] \in TaskOf(pc[h])

InFlight == {h \in Handler : pc[h] # "idle"}

\* Proposals, and corrections of one, in flight; the unit one is for.
Proposing == {h \in Handler : pc[h] \in {"intake", "correct"}}
ProposedUnit(h) == IF pc[h] = "intake" THEN task[h].unit ELSE unit[task[h].case]

\* No two cases in flight name the same address for the same unit.
ProposalsApart ==
    \A g, h \in Proposing :
        ProposedUnit(g) = ProposedUnit(h) /\ task[g].person = task[h].person => task[g].case = task[h].case

\* No acceptance is in flight beside an invitation to the same property, another agent's
\* acceptance there, or a refusal of the same invitation.
AcceptancesApart ==
    \A g, h \in Handler : pc[h] = "accept" =>
        LET i == task[h].invitation j == task[g].invitation IN
        /\ pc[g] = "share" => j[1] # i[1]
        /\ pc[g] = "accept" => j[1] # i[1] \/ j = i
        /\ pc[g] = "decline" => j # i

\* A proposal, a correction or an invitation that has found no account for the address.
FoundNone(h, e) ==
    \/ pc[h] = "intake" /\ task[h].status = "NONE" /\ task[h].person = e
    \/ pc[h] = "correct" /\ task[h].person = e
    \/ pc[h] = "share" /\ ~task[h].known /\ task[h].invitation[2] = e

\* No completed sign-up is about to commit beside one of them for its address.
CompletionsApart == \A g, h \in Handler : pc[g] = "complete" => ~FoundNone(h, task[g].person)

\* Whoever has completed the sign-up has everything that named the address, whatever
\* was corrected, invited, decided, disabled or signed up anew in between, unless the
\* completion was interrupted or the case was proposed while the account was disabled.
WaitingIsAttached ==
    \A e \in verified \ interrupted : InFlight = {} =>
        IF kind[e] = "RENTER"
        THEN Waiting(e, "RENTER") \subseteq inactive
        ELSE Waiting(e, "AGENT") \subseteq named

\* Once a property has an agent, his invitation is accepted and no other is accepted
\* or open, however often the landlord invites and agents answer: so it has one agent.
AgentAlone ==
    \A i \in agents :
        /\ invite[i] = "ACCEPTED"
        /\ \A j \in Invitation \ {i} : j[1] = i[1] => invite[j] \notin {"PENDING", "ACCEPTED"}

\* A person is in the queue of a unit at most once, corrections of addresses included.
QueuedOnce ==
    \A c, d \in created \ decided : unit[c] = unit[d] /\ email[c] = email[d] => c = d
=============================================================================
