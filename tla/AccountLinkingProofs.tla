------------------------ MODULE AccountLinkingProofs ------------------------
(***************************************************************************)
(* Safety of the sign-up and of what waits for it, for any number of         *)
(* persons, cases, units, properties and handlers.  Types hold whatever runs *)
(* at once.  Each of the other results rests on what a request has read      *)
(* while others run, and so excludes the overlaps that take it back          *)
(* (ProposalsApart, AcceptancesApart, CompletionsApart), and only those:     *)
(* any other requests may run together, stop halfway, and meet decisions and *)
(* changes of status.                                                        *)
(***************************************************************************)
EXTENDS AccountLinking, TLAPS

Place == {"idle", "signup", "drop", "issue", "complete", "find", "tell", "attach", "intake", "correct",
          "share", "accept", "decline"}

HandlersFit ==
    /\ pc \in [Handler -> Place]
    /\ task = [h \in Handler |-> task[h]]
    /\ \A h \in Handler : task[h] \in TaskOf(pc[h])

RowsFit ==
    /\ account \in [Person -> Account] /\ kind \in [Person -> Kind]
    /\ verified \subseteq Person /\ interrupted \subseteq Person
    /\ live \subseteq Token /\ spent \subseteq Token
    /\ created \subseteq Case /\ attached \subseteq created /\ decided \subseteq created /\ inactive \subseteq created
    /\ unit = [c \in Case |-> unit[c]] /\ email = [c \in Case |-> email[c]]
    /\ \A c \in created : unit[c] \in Unit /\ email[c] \in Person
    /\ invite \in [Invitation -> {"NONE", "PENDING", "ACCEPTED", "DECLINED"}]
    /\ named \subseteq Invitation /\ agents \subseteq Invitation
    /\ told \subseteq Case \cup Invitation

\* The type invariant, with what it leaves to the shape of the functions.
TInv == HandlersFit /\ RowsFit

-----------------------------------------------------------------------------
(* Types.                                                                   *)

LEMMA TaskTypes ==
  /\ TaskOf("idle") = {NoTask}
  /\ TaskOf("signup") = [person : Person, kind : Kind, known : BOOLEAN]
  /\ TaskOf("drop") = [person : Person] /\ TaskOf("issue") = [person : Person]
  /\ TaskOf("complete") = [person : Person, token : Token, status : Account]
  /\ TaskOf("find") = [person : Person, kind : Kind]
  /\ TaskOf("tell") = [person : Person, kind : Kind, items : (SUBSET Case) \cup (SUBSET Invitation)]
  /\ TaskOf("attach") = TaskOf("tell")
  /\ TaskOf("intake") = [case : Case, unit : Unit, person : Person, status : Account]
  /\ TaskOf("correct") = [case : Case, person : Person]
  /\ TaskOf("share") = [invitation : Invitation, known : BOOLEAN]
  /\ TaskOf("accept") = [invitation : Invitation] /\ TaskOf("decline") = [invitation : Invitation]
BY DEF TaskOf

LEMMA TypesFit == TInv => TypeOK
BY DEF TInv, HandlersFit, RowsFit, TypeOK

\* One handler moves on, with a task that fits where it is then.
LEMMA OneMoves ==
  ASSUME HandlersFit, NEW h \in Handler, NEW from, NEW at \in Place, NEW t \in TaskOf(at),
         Move(h, from, at, t)
  PROVE  /\ HandlersFit'
         /\ pc'[h] = at /\ task'[h] = t
         /\ \A g \in Handler \ {h} : pc'[g] = pc[g] /\ task'[g] = task[g]
<1>1. /\ pc \in [Handler -> Place] /\ task = [g \in Handler |-> task[g]]
      /\ \A g \in Handler : task[g] \in TaskOf(pc[g])
  BY DEF HandlersFit
<1>2. pc' = [pc EXCEPT ![h] = at] /\ task' = [task EXCEPT ![h] = t]
  BY DEF Move
<1>3. /\ pc' \in [Handler -> Place] /\ pc'[h] = at
      /\ \A g \in Handler \ {h} : pc'[g] = pc[g]
  BY <1>1, <1>2
<1>4. /\ task' = [g \in Handler |-> task'[g]] /\ task'[h] = t
      /\ \A g \in Handler \ {h} : task'[g] = task[g]
  BY <1>1, <1>2
<1>5. \A g \in Handler : task'[g] \in TaskOf(pc'[g])
  BY <1>1, <1>3, <1>4
<1> QED BY <1>3, <1>4, <1>5 DEF HandlersFit

\* A step that begins a request, or that ends one.
LEMMA BeginMoves ==
  ASSUME NEW h, NEW at, NEW t, Begin(h, at, t)
  PROVE  Move(h, "idle", at, t)
BY DEF Begin, Move

LEMMA Finishes ==
  ASSUME HandlersFit, NEW h \in Handler, NEW from, Finish(h, from)
  PROVE  /\ HandlersFit' /\ pc[h] = from
         /\ pc'[h] = "idle"
         /\ \A g \in Handler \ {h} : pc'[g] = pc[g] /\ task'[g] = task[g]
<1>1. "idle" \in Place /\ NoTask \in TaskOf("idle")
  BY TaskTypes DEF Place
<1>2. Move(h, from, "idle", NoTask)
  BY DEF Finish
<1>3. pc[h] = from
  BY <1>2 DEF Move
<1> QED BY <1>1, <1>2, <1>3, OneMoves

LEMMA TaskFits ==
  ASSUME HandlersFit, NEW h \in Handler, NEW at, pc[h] = at
  PROVE  task[h] \in TaskOf(at)
BY DEF HandlersFit

\* The places of a request, so that no step has to list them.
LEMMA Places ==
  /\ "idle" \in Place /\ "signup" \in Place /\ "drop" \in Place /\ "issue" \in Place
  /\ "complete" \in Place /\ "find" \in Place /\ "tell" \in Place /\ "attach" \in Place
  /\ "intake" \in Place /\ "correct" \in Place /\ "share" \in Place
  /\ "accept" \in Place /\ "decline" \in Place
BY DEF Place

\* What a request reads is what it may carry: no step of it leaves the types.
LEMMA SignUpFits ==
  ASSUME TInv, NEW h \in Handler, SignUp(h)
  PROVE  HandlersFit'
<1>1. HandlersFit /\ RowsFit
  BY DEF TInv
<1>2. \A t \in Token : t[1] \in Person
  BY DEF Token
<1>3. ASSUME NEW e \in Person, ResendRead(h, e) PROVE HandlersFit'
  <2>1. [person |-> e] \in TaskOf("drop")
    BY TaskTypes
  <2>2. Move(h, "idle", "drop", [person |-> e])
    BY <1>3, BeginMoves DEF ResendRead
  <2> QED BY <1>1, <2>1, <2>2, Places, OneMoves
<1>4. ASSUME NEW e \in Person, NEW k \in Kind, SignUpRead(h, e, k) PROVE HandlersFit'
  <2>1. PICK t : t = [person |-> e, kind |-> k, known |-> account[e] # "NONE"]
    OBVIOUS
  <2>2. t \in TaskOf("signup")
    BY <2>1, TaskTypes
  <2>3. Move(h, "idle", "signup", t)
    BY <1>4, <2>1, BeginMoves DEF SignUpRead
  <2> QED BY <1>1, <2>2, <2>3, Places, OneMoves
<1>5. ASSUME NEW t \in Token, CompleteRead(h, t) PROVE HandlersFit'
  <2>1. PICK u : u = [person |-> t[1], token |-> t, status |-> account[t[1]]]
    OBVIOUS
  <2>2. u \in TaskOf("complete")
    BY <1>1, <1>2, <2>1, TaskTypes DEF RowsFit
  <2>3. Move(h, "idle", "complete", u)
    BY <1>5, <2>1, BeginMoves DEF CompleteRead
  <2> QED BY <1>1, <2>2, <2>3, Places, OneMoves
<1>6. ASSUME SignUpWrite(h) PROVE HandlersFit'
  <2>1. PICK t : t = [person |-> task[h].person]
    OBVIOUS
  <2>2. Move(h, "signup", "drop", t)
    BY <1>6, <2>1 DEF SignUpWrite
  <2>3. task[h] \in [person : Person, kind : Kind, known : BOOLEAN]
    BY <1>1, <2>2, TaskFits, TaskTypes DEF Move
  <2>5. task[h].person \in Person
    BY <2>3
  <2>4. t \in TaskOf("drop")
    BY <2>1, <2>5, TaskTypes
  <2> QED BY <1>1, <2>2, <2>4, Places, OneMoves
<1>7. ASSUME DropTokens(h) PROVE HandlersFit'
  <2>1. Move(h, "drop", "issue", task[h])
    BY <1>7 DEF DropTokens
  <2>2. task[h] \in TaskOf("issue")
    BY <1>1, <2>1, TaskFits, TaskTypes DEF Move
  <2> QED BY <1>1, <2>1, <2>2, Places, OneMoves
<1>8. ASSUME IssueToken(h) PROVE HandlersFit'
  BY <1>1, <1>8, Finishes DEF IssueToken
<1>9. ASSUME CompleteCommit(h) PROVE HandlersFit'
  <2>1. PICK t : t = [person |-> task[h].person, kind |-> kind[task[h].person]]
    OBVIOUS
  <2>2. Move(h, "complete", "find", t)
    BY <1>9, <2>1 DEF CompleteCommit
  <2>3. task[h] \in [person : Person, token : Token, status : Account]
    BY <1>1, <2>2, TaskFits, TaskTypes DEF Move
  <2>5. task[h].person \in Person
    BY <2>3
  <2>4. t \in TaskOf("find")
    BY <1>1, <2>1, <2>5, TaskTypes DEF RowsFit
  <2> QED BY <1>1, <2>2, <2>4, Places, OneMoves
<1>10. ASSUME FindWaiting(h) PROVE HandlersFit'
  <2>1. PICK items : items = Waiting(task[h].person, task[h].kind)
    OBVIOUS
  <2>2. CASE items = {}
    BY <1>1, <1>10, <2>1, <2>2, Finishes DEF FindWaiting
  <2>3. CASE items # {}
    <3>1. PICK t : t = [person |-> task[h].person, kind |-> task[h].kind, items |-> items]
      OBVIOUS
    <3>2. Move(h, "find", "tell", t)
      BY <1>10, <2>1, <2>3, <3>1 DEF FindWaiting
    <3>3. task[h] \in [person : Person, kind : Kind]
      BY <1>1, <3>2, TaskFits, TaskTypes DEF Move
    <3>4. items \in (SUBSET Case) \cup (SUBSET Invitation)
      BY <1>1, <2>1 DEF Waiting, RowsFit
    <3>5. t \in [person : Person, kind : Kind, items : (SUBSET Case) \cup (SUBSET Invitation)]
      BY <3>1, <3>3, <3>4
    <3>6. t \in TaskOf("tell")
      BY <3>5, TaskTypes
    <3> QED BY <1>1, <3>2, <3>6, Places, OneMoves
  <2> QED BY <2>2, <2>3
<1>11. ASSUME TellOne(h) PROVE HandlersFit'
  <2>1. pc[h] = "tell"
    BY <1>11 DEF TellOne
  <2>2. task[h] \in [person : Person, kind : Kind, items : (SUBSET Case) \cup (SUBSET Invitation)]
    BY <1>1, <2>1, TaskFits, TaskTypes
  <2>3. PICK i, at : /\ at = IF task[h].items = {i} THEN "attach" ELSE "tell"
                     /\ Move(h, "tell", at, [task[h] EXCEPT !.items = @ \ {i}])
    BY <1>11 DEF TellOne
  <2>4. PICK t : t = [task[h] EXCEPT !.items = @ \ {i}]
    OBVIOUS
  <2>5. t \in TaskOf(at) /\ at \in Place
    BY <2>2, <2>3, <2>4, TaskTypes, Places
  <2> QED BY <1>1, <2>3, <2>4, <2>5, OneMoves
<1>12. ASSUME Attach(h) PROVE HandlersFit'
  BY <1>1, <1>12, Finishes DEF Attach
<1> QED BY <1>3, <1>4, <1>5, <1>6, <1>7, <1>8, <1>9, <1>10, <1>11, <1>12 DEF SignUp

LEMMA LinkFits ==
  ASSUME TInv, NEW h \in Handler, Link(h)
  PROVE  HandlersFit'
<1>1. HandlersFit /\ RowsFit
  BY DEF TInv
<1>2. ASSUME NEW c \in Case, NEW e \in Person, CorrectRead(h, c, e) PROVE HandlersFit'
  <2>1. [case |-> c, person |-> e] \in TaskOf("correct")
    BY TaskTypes
  <2>2. Move(h, "idle", "correct", [case |-> c, person |-> e])
    BY <1>2, BeginMoves DEF CorrectRead
  <2> QED BY <1>1, <2>1, <2>2, Places, OneMoves
<1>3. ASSUME NEW c \in Case, NEW e \in Person, NEW u \in Unit, IntakeRead(h, c, u, e) PROVE HandlersFit'
  <2>1. PICK t : t = [case |-> c, unit |-> u, person |-> e, status |-> account[e]]
    OBVIOUS
  <2>2. t \in TaskOf("intake")
    BY <1>1, <2>1, TaskTypes DEF RowsFit
  <2>3. Move(h, "idle", "intake", t)
    BY <1>3, <2>1, BeginMoves DEF IntakeRead
  <2> QED BY <1>1, <2>2, <2>3, Places, OneMoves
<1>4. ASSUME IntakeCommit(h) PROVE HandlersFit'
  BY <1>1, <1>4, Finishes DEF IntakeCommit
<1>5. ASSUME CorrectCommit(h) PROVE HandlersFit'
  BY <1>1, <1>5, Finishes DEF CorrectCommit
<1> QED BY <1>2, <1>3, <1>4, <1>5 DEF Link

LEMMA InviteFits ==
  ASSUME TInv, NEW h \in Handler, Invite(h)
  PROVE  HandlersFit'
<1>1. HandlersFit
  BY DEF TInv
<1>2. \A p \in Property, e \in Person : <<p, e>> \in Invitation
  BY DEF Invitation
<1>3. ASSUME NEW p \in Property, NEW e \in Person, ShareRead(h, p, e) PROVE HandlersFit'
  <2>1. PICK t : t = [invitation |-> <<p, e>>, known |-> account[e] # "NONE"]
    OBVIOUS
  <2>2. t \in TaskOf("share")
    BY <1>2, <2>1, TaskTypes
  <2>3. Move(h, "idle", "share", t)
    BY <1>3, <2>1, BeginMoves DEF ShareRead
  <2> QED BY <1>1, <2>2, <2>3, Places, OneMoves
<1>4. ASSUME NEW p \in Property, NEW e \in Person, NEW a \in {"accept", "decline"},
             RespondRead(h, p, e, a)
      PROVE  HandlersFit'
  <2>1. PICK t : t = [invitation |-> <<p, e>>]
    OBVIOUS
  <2>2. t \in TaskOf(a) /\ a \in Place
    BY <1>2, <2>1, TaskTypes, Places
  <2>3. Move(h, "idle", a, t)
    BY <1>4, <2>1, BeginMoves DEF RespondRead
  <2> QED BY <1>1, <2>2, <2>3, OneMoves
<1>5. ASSUME ShareCommit(h) PROVE HandlersFit'
  BY <1>1, <1>5, Finishes DEF ShareCommit
<1>6. ASSUME DeclineCommit(h) PROVE HandlersFit'
  BY <1>1, <1>6, Finishes DEF DeclineCommit
<1>7. ASSUME AcceptCommit(h) PROVE HandlersFit'
  BY <1>1, <1>7, Finishes DEF AcceptCommit
<1> QED BY <1>3, <1>4, <1>5, <1>6, <1>7 DEF Invite

\* The rows keep their types.
LEMMA RowsStay ==
  ASSUME RowsFit, UNCHANGED <<person, case, invitation, told, interrupted>>
  PROVE  RowsFit'
BY DEF RowsFit, person, case, invitation

LEMMA SignUpRows ==
  ASSUME TInv, NEW h \in Handler, SignUp(h)
  PROVE  RowsFit'
<1>1. HandlersFit /\ RowsFit
  BY DEF TInv
<1>2. \A e \in Person : TokensOf(e) \subseteq Token
  BY DEF TokensOf
<1>3. CASE UNCHANGED <<person, case, invitation, told, interrupted>>
  BY <1>1, <1>3, RowsStay
<1>4. ASSUME SignUpWrite(h) PROVE RowsFit'
  <2>1. task[h] \in [person : Person, kind : Kind, known : BOOLEAN]
    BY <1>1, <1>4, TaskFits, TaskTypes DEF SignUpWrite, Move
  <2>2. PICK e, k : e = task[h].person /\ k = task[h].kind
    OBVIOUS
  <2>3. e \in Person /\ k \in Kind
    BY <2>1, <2>2
  <2>4. /\ account' = [account EXCEPT ![e] = "UNVERIFIED"] /\ kind' = [kind EXCEPT ![e] = k]
        /\ verified' = verified \ {e}
        /\ UNCHANGED <<live, spent, case, invitation, told, interrupted>>
    BY <1>4, <2>2 DEF SignUpWrite
  <2>5. account' \in [Person -> Account] /\ kind' \in [Person -> Kind]
    BY <1>1, <2>3, <2>4 DEF RowsFit, Account
  <2> QED BY <1>1, <2>4, <2>5 DEF RowsFit, case, invitation
<1>5. ASSUME DropTokens(h) PROVE RowsFit'
  BY <1>1, <1>5 DEF DropTokens, RowsFit, case, invitation
<1>6. ASSUME IssueToken(h) PROVE RowsFit'
  <2>1. task[h] \in [person : Person]
    BY <1>1, <1>6, TaskFits, TaskTypes DEF IssueToken
  <2>2. task[h].person \in Person
    BY <2>1
  <2>3. PICK t \in TokensOf(task[h].person) : live' = live \cup {t}
    BY <1>6 DEF IssueToken
  <2>4. t \in Token
    BY <1>2, <2>2, <2>3
  <2> QED BY <1>1, <1>6, <2>3, <2>4 DEF IssueToken, RowsFit, case, invitation
<1>7. ASSUME CompleteCommit(h) PROVE RowsFit'
  <2>1. task[h] \in [person : Person, token : Token, status : Account]
    BY <1>1, <1>7, TaskFits, TaskTypes DEF CompleteCommit, Move
  <2>2. PICK e, t, s : e = task[h].person /\ t = task[h].token /\ s = CompletedStatus(task[h].status)
    OBVIOUS
  <2>3. e \in Person /\ t \in Token /\ s \in Account
    BY <2>1, <2>2 DEF CompletedStatus, Account
  <2>4. /\ live' = live \ TokensOf(e) /\ spent' = (spent \ TokensOf(e)) \cup {t}
        /\ account' = [account EXCEPT ![e] = s] /\ verified' = verified \cup {e}
        /\ UNCHANGED <<kind, case, invitation, told, interrupted>>
    BY <1>7, <2>2 DEF CompleteCommit
  <2>5. account' \in [Person -> Account]
    BY <1>1, <2>3, <2>4 DEF RowsFit
  <2> QED BY <1>1, <2>3, <2>4, <2>5 DEF RowsFit, case, invitation
<1>8. ASSUME TellOne(h) PROVE RowsFit'
  <2>1. task[h] \in [person : Person, kind : Kind, items : (SUBSET Case) \cup (SUBSET Invitation)]
    BY <1>1, <1>8, TaskFits, TaskTypes DEF TellOne
  <2>2. PICK i \in task[h].items : told' = told \cup {i}
    BY <1>8 DEF TellOne
  <2>3. i \in Case \cup Invitation
    BY <2>1, <2>2
  <2>4. UNCHANGED <<person, case, invitation, interrupted>>
    BY <1>8 DEF TellOne
  <2> QED BY <1>1, <2>2, <2>3, <2>4 DEF RowsFit, person, case, invitation
<1>9. ASSUME Attach(h) PROVE RowsFit'
  <2>1. PICK items : items = Waiting(task[h].person, task[h].kind)
    OBVIOUS
  <2>2. CASE task[h].kind = "RENTER"
    <3>1. items \subseteq created
      BY <2>1, <2>2 DEF Waiting
    <3>2. attached' = attached \cup items /\ UNCHANGED named
      BY <1>9, <2>1, <2>2 DEF Attach
    <3> QED BY <1>1, <1>9, <3>1, <3>2 DEF Attach, RowsFit, person
  <2>3. CASE task[h].kind # "RENTER"
    <3>1. items \subseteq Invitation
      BY <2>1, <2>3 DEF Waiting
    <3>2. named' = named \cup items /\ UNCHANGED attached
      BY <1>9, <2>1, <2>3 DEF Attach
    <3> QED BY <1>1, <1>9, <3>1, <3>2 DEF Attach, RowsFit, person
  <2> QED BY <2>2, <2>3
<1>10. ASSUME FindWaiting(h) PROVE UNCHANGED <<person, case, invitation, told, interrupted>>
  BY <1>10 DEF FindWaiting
<1> QED BY <1>3, <1>4, <1>5, <1>6, <1>7, <1>8, <1>9, <1>10 DEF SignUp, ResendRead, SignUpRead, CompleteRead

LEMMA LinkRows ==
  ASSUME TInv, NEW h \in Handler, Link(h)
  PROVE  RowsFit'
<1>1. HandlersFit /\ RowsFit
  BY DEF TInv
<1>2. CASE UNCHANGED <<person, case, invitation, told, interrupted>>
  BY <1>1, <1>2, RowsStay
<1>3. ASSUME IntakeCommit(h) PROVE RowsFit'
  <2>1. task[h] \in [case : Case, unit : Unit, person : Person, status : Account]
    BY <1>1, <1>3, TaskFits, TaskTypes DEF IntakeCommit
  <2>2. PICK c, u, e : c = task[h].case /\ u = task[h].unit /\ e = task[h].person
    OBVIOUS
  <2>3. c \in Case /\ u \in Unit /\ e \in Person
    BY <2>1, <2>2
  <2>4. /\ created' = created \cup {c}
        /\ unit' = [unit EXCEPT ![c] = u] /\ email' = [email EXCEPT ![c] = e]
        /\ inactive' \subseteq inactive \cup {c} /\ attached' \subseteq attached \cup {c}
        /\ told' \subseteq told \cup {c}
        /\ UNCHANGED <<person, decided, invitation, interrupted>>
    BY <1>3, <2>2 DEF IntakeCommit
  <2>5. /\ unit' = [d \in Case |-> unit'[d]] /\ email' = [d \in Case |-> email'[d]]
        /\ \A d \in created' : unit'[d] \in Unit /\ email'[d] \in Person
    BY <1>1, <2>3, <2>4 DEF RowsFit
  <2> QED BY <1>1, <2>3, <2>4, <2>5 DEF RowsFit, person, invitation
<1>4. ASSUME CorrectCommit(h) PROVE RowsFit'
  <2>1. task[h] \in [case : Case, person : Person]
    BY <1>1, <1>4, Finishes, TaskFits, TaskTypes DEF CorrectCommit
  <2>2. PICK c, e : c = task[h].case /\ e = task[h].person
    OBVIOUS
  <2>3. c \in Case /\ e \in Person
    BY <2>1, <2>2
  <2>4. /\ email' = [email EXCEPT ![c] = e] /\ inactive' = inactive \ {c}
        /\ UNCHANGED <<person, created, unit, attached, decided, invitation, told, interrupted>>
    BY <1>4, <2>2 DEF CorrectCommit
  <2>5. email' = [d \in Case |-> email'[d]] /\ \A d \in created' : email'[d] \in Person
    BY <1>1, <2>3, <2>4 DEF RowsFit
  <2> QED BY <1>1, <2>4, <2>5 DEF RowsFit, person, invitation
<1> QED BY <1>2, <1>3, <1>4 DEF Link, CorrectRead, IntakeRead

LEMMA InviteRows ==
  ASSUME TInv, NEW h \in Handler, Invite(h)
  PROVE  RowsFit'
<1>1. HandlersFit /\ RowsFit
  BY DEF TInv
<1>2. CASE UNCHANGED <<person, case, invitation, told, interrupted>>
  BY <1>1, <1>2, RowsStay
<1>3. PICK i : i = task[h].invitation
  OBVIOUS
<1>4. ASSUME ShareCommit(h) PROVE RowsFit'
  <2>1. task[h] \in [invitation : Invitation, known : BOOLEAN]
    BY <1>1, <1>4, Finishes, TaskFits, TaskTypes DEF ShareCommit
  <2>2. i \in Invitation
    BY <1>3, <2>1
  <2>3. /\ invite' = [invite EXCEPT ![i] = "PENDING"]
        /\ named' \subseteq named \cup {i} /\ told' \subseteq told \cup {i}
        /\ UNCHANGED <<person, case, agents, interrupted>>
    BY <1>3, <1>4 DEF ShareCommit
  <2>4. invite' \in [Invitation -> {"NONE", "PENDING", "ACCEPTED", "DECLINED"}]
    BY <1>1, <2>3 DEF RowsFit
  <2> QED BY <1>1, <2>2, <2>3, <2>4 DEF RowsFit, person, case
<1>5. ASSUME DeclineCommit(h) PROVE RowsFit'
  <2>1. task[h] \in [invitation : Invitation]
    BY <1>1, <1>5, Finishes, TaskFits, TaskTypes DEF DeclineCommit
  <2>2. i \in Invitation
    BY <1>3, <2>1
  <2>3. /\ invite' = [invite EXCEPT ![i] = "DECLINED"] /\ named' = named \cup {i}
        /\ UNCHANGED <<person, case, agents, told, interrupted>>
    BY <1>3, <1>5 DEF DeclineCommit
  <2>4. invite' \in [Invitation -> {"NONE", "PENDING", "ACCEPTED", "DECLINED"}]
    BY <1>1, <2>3 DEF RowsFit
  <2> QED BY <1>1, <2>2, <2>3, <2>4 DEF RowsFit, person, case
<1>6. ASSUME AcceptCommit(h) PROVE RowsFit'
  <2>1. task[h] \in [invitation : Invitation]
    BY <1>1, <1>6, Finishes, TaskFits, TaskTypes DEF AcceptCommit
  <2>2. i \in Invitation
    BY <1>3, <2>1
  <2>3. /\ invite' = [j \in Invitation |->
                        IF j = i THEN "ACCEPTED" ELSE IF j \in ClosedBy(i) THEN "DECLINED" ELSE invite[j]]
        /\ agents' = agents \cup {i} /\ named' = named \cup {i}
        /\ UNCHANGED <<person, case, told, interrupted>>
    BY <1>3, <1>6 DEF AcceptCommit
  <2>4. invite' \in [Invitation -> {"NONE", "PENDING", "ACCEPTED", "DECLINED"}]
    BY <1>1, <2>3 DEF RowsFit
  <2> QED BY <1>1, <2>2, <2>3, <2>4 DEF RowsFit, person, case
<1> QED BY <1>2, <1>4, <1>5, <1>6 DEF Invite, ShareRead, RespondRead

LEMMA AbortFits ==
  ASSUME TInv, NEW h \in Handler, Abort(h)
  PROVE  TInv'
<1>1. HandlersFit /\ RowsFit
  BY DEF TInv
<1>2. HandlersFit'
  BY <1>1, Finishes DEF Abort
<1>3. pc[h] \in Completing => task[h].person \in Person
  <2>1. CASE pc[h] = "find"
    <3>1. task[h] \in [person : Person, kind : Kind]
      BY <1>1, <2>1, TaskFits, TaskTypes
    <3> QED BY <3>1
  <2>2. CASE pc[h] \in {"tell", "attach"}
    <3>1. task[h] \in [person : Person, kind : Kind, items : (SUBSET Case) \cup (SUBSET Invitation)]
      BY <1>1, <2>2, TaskFits, TaskTypes
    <3> QED BY <3>1
  <2> QED BY <2>1, <2>2 DEF Completing
<1>4. RowsFit'
  <2>1. UNCHANGED <<person, case, invitation, told>>
    BY DEF Abort
  <2>2. interrupted' \subseteq Person
    BY <1>1, <1>3 DEF Abort, RowsFit
  <2> QED BY <1>1, <2>1, <2>2 DEF RowsFit, person, case, invitation
<1> QED BY <1>2, <1>4 DEF TInv

\* Who only decides, or sets a status, leaves the requests where they are.
LEMMA ProcessStays ==
  ASSUME HandlersFit, UNCHANGED process
  PROVE  HandlersFit'
BY DEF HandlersFit, process

LEMMA DecideFits ==
  ASSUME TInv, NEW c \in Case, Decide(c)
  PROVE  TInv'
<1>1. HandlersFit /\ RowsFit
  BY DEF TInv
<1>2. HandlersFit'
  BY <1>1, ProcessStays DEF Decide
<1>3. RowsFit'
  BY <1>1 DEF Decide, RowsFit, person, invitation
<1> QED BY <1>2, <1>3 DEF TInv

LEMMA StatusFits ==
  ASSUME TInv, NEW e \in Person, NEW s \in {"ACTIVE"} \cup Lock, ChangeStatus(e, s)
  PROVE  TInv'
<1>1. HandlersFit /\ RowsFit
  BY DEF TInv
<1>2. HandlersFit'
  BY <1>1, ProcessStays DEF ChangeStatus
<1>3. account' \in [Person -> Account]
  BY <1>1 DEF ChangeStatus, RowsFit, Account
<1>4. RowsFit'
  BY <1>1, <1>3 DEF ChangeStatus, RowsFit, case, invitation
<1> QED BY <1>2, <1>4 DEF TInv

LEMMA InitTInv == Init => TInv
<1> SUFFICES ASSUME Init PROVE TInv
  OBVIOUS
<1>1. HandlersFit
  BY TaskTypes, Places DEF Init, HandlersFit
<1>2. RowsFit
  BY DEF Init, RowsFit, Account, Kind
<1> QED BY <1>1, <1>2 DEF TInv

LEMMA StepTInv == TInv /\ [Next]_vars => TInv'
<1> SUFFICES ASSUME TInv, [Next]_vars PROVE TInv'
  OBVIOUS
<1>1. ASSUME NEW h \in Handler, SignUp(h) \/ Link(h) \/ Invite(h) PROVE TInv'
  BY <1>1, SignUpFits, LinkFits, InviteFits, SignUpRows, LinkRows, InviteRows DEF TInv
<1>2. CASE UNCHANGED vars
  BY <1>2, ProcessStays, RowsStay DEF vars, TInv
<1> QED BY <1>1, <1>2, AbortFits, DecideFits, StatusFits DEF Next

-----------------------------------------------------------------------------
(* Steps of one handler.                                                    *)

\* The other handlers are where they were.
OthersStay(h) == \A g \in Handler \ {h} : pc'[g] = pc[g] /\ task'[g] = task[g]

LEMMA MovesAlone ==
  ASSUME HandlersFit, NEW h \in Handler, NEW from, NEW to, NEW t, Move(h, from, to, t)
  PROVE  OthersStay(h) /\ pc[h] = from /\ pc'[h] = to /\ task'[h] = t
<1>1. pc \in [Handler -> Place] /\ task = [g \in Handler |-> task[g]]
  BY DEF HandlersFit
<1>2. pc[h] = from /\ pc' = [pc EXCEPT ![h] = to] /\ task' = [task EXCEPT ![h] = t]
  BY DEF Move
<1> QED BY <1>1, <1>2 DEF OthersStay

\* A step of a sign-up leaves the other handlers alone, and leads to a place of a sign-up.
LEMMA SignUpMoves ==
  ASSUME HandlersFit, NEW h \in Handler, SignUp(h)
  PROVE  /\ OthersStay(h)
         /\ pc'[h] \in {"idle", "signup", "drop", "issue", "complete", "find", "tell", "attach"}
<1> DEFINE SignUpPlace == {"idle", "signup", "drop", "issue", "complete", "find", "tell", "attach"}
           Moved == OthersStay(h) /\ pc'[h] \in SignUpPlace
<1>1. ASSUME NEW from, NEW at \in SignUpPlace, NEW t, Move(h, from, at, t) PROVE Moved
  BY <1>1, MovesAlone
<1>2. ASSUME NEW at \in SignUpPlace, NEW t, Begin(h, at, t) PROVE Moved
  BY <1>1, <1>2, BeginMoves
<1>3. ASSUME NEW from, Finish(h, from) PROVE Moved
  BY <1>1, <1>3 DEF Finish
<1> HIDE DEF Moved
<1>4. ASSUME NEW e \in Person, ResendRead(h, e) \/ \E k \in Kind : SignUpRead(h, e, k) PROVE Moved
  BY <1>2, <1>4 DEF ResendRead, SignUpRead
<1>5. ASSUME NEW t \in Token, CompleteRead(h, t) PROVE Moved
  BY <1>2, <1>5 DEF CompleteRead
<1>6. ASSUME SignUpWrite(h) PROVE Moved
  BY <1>1, <1>6 DEF SignUpWrite
<1>7. ASSUME DropTokens(h) PROVE Moved
  BY <1>1, <1>7 DEF DropTokens
<1>8. ASSUME CompleteCommit(h) PROVE Moved
  BY <1>1, <1>8 DEF CompleteCommit
<1>9. ASSUME FindWaiting(h) PROVE Moved
  <2>1. PICK items : items = Waiting(task[h].person, task[h].kind)
    OBVIOUS
  <2>2. CASE items = {}
    BY <1>3, <1>9, <2>1, <2>2 DEF FindWaiting
  <2>3. CASE items # {}
    BY <1>1, <1>9, <2>1, <2>3 DEF FindWaiting
  <2> QED BY <2>2, <2>3
<1>10. ASSUME TellOne(h) PROVE Moved
  <2>1. PICK i, at : /\ at = IF task[h].items = {i} THEN "attach" ELSE "tell"
                     /\ Move(h, "tell", at, [task[h] EXCEPT !.items = @ \ {i}])
    BY <1>10 DEF TellOne
  <2> QED BY <1>1, <2>1
<1>11. ASSUME IssueToken(h) \/ Attach(h) PROVE Moved
  BY <1>3, <1>11 DEF IssueToken, Attach
<1>12. Moved
  BY <1>4, <1>5, <1>6, <1>7, <1>8, <1>9, <1>10, <1>11 DEF SignUp
<1> QED BY <1>12 DEF Moved

LEMMA LinkMoves ==
  ASSUME HandlersFit, NEW h \in Handler, Link(h)
  PROVE  OthersStay(h) /\ pc'[h] \in {"idle", "intake", "correct"}
<1>1. ASSUME NEW at, NEW t, Begin(h, at, t) PROVE OthersStay(h) /\ pc'[h] = at
  BY <1>1, BeginMoves, MovesAlone
<1>2. ASSUME NEW from, Finish(h, from) PROVE OthersStay(h) /\ pc'[h] = "idle"
  BY <1>2, Finishes DEF OthersStay
<1> QED BY <1>1, <1>2 DEF Link, CorrectRead, IntakeRead, IntakeCommit, CorrectCommit

LEMMA InviteMoves ==
  ASSUME HandlersFit, NEW h \in Handler, Invite(h)
  PROVE  OthersStay(h) /\ pc'[h] \in {"idle", "share", "accept", "decline"}
<1>1. ASSUME NEW at, NEW t, Begin(h, at, t) PROVE OthersStay(h) /\ pc'[h] = at
  BY <1>1, BeginMoves, MovesAlone
<1>2. ASSUME NEW from, Finish(h, from) PROVE OthersStay(h) /\ pc'[h] = "idle"
  BY <1>2, Finishes DEF OthersStay
<1> QED BY <1>1, <1>2 DEF Invite, ShareRead, RespondRead, ShareCommit, DeclineCommit, AcceptCommit

LEMMA AbortMoves ==
  ASSUME HandlersFit, NEW h \in Handler, Abort(h)
  PROVE  OthersStay(h) /\ pc'[h] = "idle"
BY Finishes DEF Abort, OthersStay

-----------------------------------------------------------------------------
(* The queue of a unit.                                                     *)

\* What a proposal, or the correction of one, has read of the queue.
QueueRead(h) ==
    h \in Proposing =>
        /\ Queued(ProposedUnit(h), task[h].person) \subseteq {task[h].case}
        /\ pc[h] = "correct" => task[h].case \in created

QInv == TInv /\ QueuedOnce /\ \A h \in Handler : QueueRead(h)

\* A handler that stays relies on the queue of the person it names, which has not grown but
\* by the handler's own case.
LEMMA QueueReadStays ==
  ASSUME QInv, NEW g \in Handler, pc'[g] = pc[g], task'[g] = task[g], created \subseteq created',
         \A d \in created : unit'[d] = unit[d],
         \A u, e : g \in Proposing /\ u = ProposedUnit(g) /\ e = task[g].person
                    => Queued(u, e)' \subseteq Queued(u, e) \cup {task[g].case}
  PROVE  QueueRead(g)'
<1>1. QueueRead(g)
  BY DEF QInv
<1>2. CASE g \notin Proposing
  BY <1>2 DEF QueueRead, Proposing
<1>3. CASE g \in Proposing
  <2>1. PICK u, e : u = ProposedUnit(g) /\ e = task[g].person
    OBVIOUS
  <2>2. Queued(u, e) \subseteq {task[g].case} /\ (pc[g] = "correct" => task[g].case \in created)
    BY <1>1, <1>3, <2>1 DEF QueueRead
  <2>3. ProposedUnit(g)' = u
    BY <1>3, <2>1, <2>2 DEF ProposedUnit, Proposing
  <2>4. Queued(u, e)' \subseteq {task[g].case}
    BY <1>3, <2>1, <2>2
  <2>5. Queued(u, e)' = {x \in created' \ decided' : unit'[x] = u /\ email'[x] = e}
    BY DEF Queued
  <2> QED BY <2>1, <2>2, <2>3, <2>4, <2>5 DEF QueueRead, Queued
<1> QED BY <1>2, <1>3

LEMMA QueueStays ==
  ASSUME QInv, TInv', UNCHANGED <<created, decided, unit, email>>,
         \A g \in Handler : QueueRead(g)' \/ (pc'[g] = pc[g] /\ task'[g] = task[g])
  PROVE  QInv'
<1>1. \A u, e : Queued(u, e)' = Queued(u, e)
  BY DEF Queued
<1>2. \A g \in Handler : QueueRead(g)'
  BY <1>1, QueueReadStays
<1>3. QueuedOnce'
  BY DEF QInv, QueuedOnce
<1> QED BY <1>2, <1>3 DEF QInv

LEMMA IntakeQueues ==
  ASSUME ProposalsApart, QInv, TInv', NEW h \in Handler, IntakeCommit(h)
  PROVE  QInv'
<1>1. HandlersFit /\ RowsFit /\ QueueRead(h) /\ QueuedOnce
  BY DEF QInv, TInv
<1>2. PICK t, c, e : t = task[h] /\ c = t.case /\ e = t.person
  OBVIOUS
<1>3. pc[h] = "intake" /\ c \notin created /\ pc'[h] = "idle" /\ OthersStay(h)
  BY <1>1, <1>2, Finishes DEF IntakeCommit, OthersStay
<1>4. t \in [case : Case, unit : Unit, person : Person, status : Account]
  BY <1>1, <1>2, <1>3, TaskFits, TaskTypes
<1>5. c \in Case
  BY <1>2, <1>4
<1>6. /\ created' = created \cup {c} /\ decided' = decided
      /\ unit' = [unit EXCEPT ![c] = t.unit] /\ email' = [email EXCEPT ![c] = e]
  BY <1>2 DEF IntakeCommit
<1>7. /\ unit'[c] = t.unit /\ email'[c] = e
      /\ \A d \in created : d # c /\ unit'[d] = unit[d] /\ email'[d] = email[d]
  BY <1>1, <1>3, <1>5, <1>6 DEF RowsFit
<1>8. \A x \in created \ decided : ~(unit[x] = t.unit /\ email[x] = e)
  <2>1. Queued(t.unit, e) \subseteq {c}
    BY <1>1, <1>2, <1>3 DEF QueueRead, Proposing, ProposedUnit
  <2> QED BY <1>3, <2>1 DEF Queued
<1>9. QueuedOnce'
  <2> SUFFICES ASSUME NEW b \in created' \ decided', NEW d \in created' \ decided',
                      unit'[b] = unit'[d], email'[b] = email'[d]
               PROVE  b = d
    BY DEF QueuedOnce
  <2> QED BY <1>1, <1>6, <1>7, <1>8 DEF QueuedOnce
<1>10. \A u, d : /\ Queued(u, d)' \subseteq Queued(u, d) \cup {c}
                 /\ u # t.unit \/ d # e => Queued(u, d)' \subseteq Queued(u, d)
  BY <1>6, <1>7 DEF Queued
<1>11. \A g \in Proposing : ProposedUnit(g) # t.unit \/ task[g].person # e \/ task[g].case = c
  BY <1>2, <1>3 DEF ProposalsApart, Proposing, ProposedUnit
<1>12. \A g \in Handler \ {h} : QueueRead(g)'
  BY <1>3, <1>6, <1>7, <1>10, <1>11, QueueReadStays DEF OthersStay
<1>13. QueueRead(h)'
  BY <1>3 DEF QueueRead, Proposing
<1> QED BY <1>9, <1>12, <1>13 DEF QInv

LEMMA CorrectQueues ==
  ASSUME ProposalsApart, QInv, TInv', NEW h \in Handler, CorrectCommit(h)
  PROVE  QInv'
<1>1. HandlersFit /\ RowsFit /\ QueueRead(h) /\ QueuedOnce
  BY DEF QInv, TInv
<1>2. PICK t, c, e : t = task[h] /\ c = t.case /\ e = t.person
  OBVIOUS
<1>3. pc[h] = "correct" /\ pc'[h] = "idle" /\ OthersStay(h)
  BY <1>1, Finishes DEF CorrectCommit, OthersStay
<1>4. email' = [email EXCEPT ![c] = e] /\ UNCHANGED <<created, unit, decided>>
  BY <1>2 DEF CorrectCommit
<1>5. c \in created /\ Queued(unit[c], e) \subseteq {c}
  BY <1>1, <1>2, <1>3 DEF QueueRead, Proposing, ProposedUnit
<1>6. email'[c] = e /\ \A d \in created \ {c} : email'[d] = email[d]
  BY <1>1, <1>4, <1>5 DEF RowsFit
<1>7. QueuedOnce'
  <2> SUFFICES ASSUME NEW b \in created \ decided, NEW d \in created \ decided,
                      unit[b] = unit[d], email'[b] = email'[d]
               PROVE  b = d
    BY <1>4 DEF QueuedOnce
  <2>1. \A x \in created \ decided : unit[x] = unit[c] /\ email[x] = e => x = c
    BY <1>5 DEF Queued
  <2>2. CASE b # c /\ d # c
    BY <1>1, <1>6, <2>2 DEF QueuedOnce
  <2>3. CASE b = c \/ d = c
    BY <1>6, <2>1, <2>3
  <2> QED BY <2>2, <2>3
<1>8. \A u, d : /\ Queued(u, d)' \subseteq Queued(u, d) \cup {c}
                /\ u # unit[c] \/ d # e => Queued(u, d)' \subseteq Queued(u, d)
  BY <1>4, <1>6 DEF Queued
<1>9. \A g \in Proposing : ProposedUnit(g) # unit[c] \/ task[g].person # e \/ task[g].case = c
  BY <1>2, <1>3 DEF ProposalsApart, Proposing, ProposedUnit
<1>10. \A g \in Handler \ {h} : QueueRead(g)'
  BY <1>3, <1>4, <1>8, <1>9, QueueReadStays DEF OthersStay
<1>11. QueueRead(h)'
  BY <1>3 DEF QueueRead, Proposing
<1> QED BY <1>7, <1>10, <1>11 DEF QInv

LEMMA StepQInv == ProposalsApart /\ QInv /\ [Next]_vars => QInv'
<1> SUFFICES ASSUME ProposalsApart, QInv, [Next]_vars PROVE QInv'
  OBVIOUS
<1>1. TInv /\ TInv' /\ HandlersFit /\ RowsFit
  BY StepTInv DEF QInv, TInv
<1>2. ASSUME NEW h \in Handler, SignUp(h) \/ Invite(h) \/ Abort(h) PROVE QInv'
  <2>1. UNCHANGED <<created, decided, unit, email>>
    BY <1>2 DEF SignUp, ResendRead, SignUpRead, CompleteRead, SignUpWrite, DropTokens, IssueToken,
          CompleteCommit, FindWaiting, TellOne, Attach, Invite, ShareRead, RespondRead,
          ShareCommit, DeclineCommit, AcceptCommit, Abort, case
  <2>2. OthersStay(h) /\ pc'[h] \notin {"intake", "correct"}
    BY <1>1, <1>2, SignUpMoves, InviteMoves, AbortMoves
  <2>3. QueueRead(h)'
    BY <2>2 DEF QueueRead, Proposing
  <2> QED BY <1>1, <2>1, <2>2, <2>3, QueueStays DEF OthersStay
<1>3. ASSUME NEW h \in Handler, NEW c \in Case, NEW e \in Person, CorrectRead(h, c, e) PROVE QInv'
  <2>1. PICK t : t = [case |-> c, person |-> e]
    OBVIOUS
  <2>2. Move(h, "idle", "correct", t) /\ UNCHANGED <<created, decided, unit, email>>
    BY <1>3, <2>1, BeginMoves DEF CorrectRead, case
  <2>3. OthersStay(h) /\ pc'[h] = "correct" /\ task'[h] = t
    BY <1>1, <2>2, MovesAlone
  <2>4. QueueRead(h)'
    <3>1. c \in created /\ Queued(unit[c], e) \subseteq {c}
      BY <1>3 DEF CorrectRead, MayCorrect
    <3>2. Queued(unit[c], e)' = Queued(unit[c], e)
      BY <2>2 DEF Queued
    <3> QED BY <2>1, <2>2, <2>3, <3>1, <3>2 DEF QueueRead, Proposing, ProposedUnit
  <2> QED BY <1>1, <2>2, <2>3, <2>4, QueueStays DEF OthersStay
<1>4. ASSUME NEW h \in Handler, NEW c \in Case, NEW e \in Person, NEW u \in Unit,
             IntakeRead(h, c, u, e)
      PROVE  QInv'
  <2>1. PICK t : t = [case |-> c, unit |-> u, person |-> e, status |-> account[e]]
    OBVIOUS
  <2>2. Move(h, "idle", "intake", t) /\ UNCHANGED <<created, decided, unit, email>>
    BY <1>4, <2>1, BeginMoves DEF IntakeRead, case
  <2>3. OthersStay(h) /\ pc'[h] = "intake" /\ task'[h] = t
    BY <1>1, <2>2, MovesAlone
  <2>4. QueueRead(h)'
    <3>1. Queued(u, e) = {} /\ Queued(u, e)' = Queued(u, e)
      BY <1>4, <2>2 DEF IntakeRead, Queued
    <3> QED BY <2>1, <2>3, <3>1 DEF QueueRead, Proposing, ProposedUnit
  <2> QED BY <1>1, <2>2, <2>3, <2>4, QueueStays DEF OthersStay
<1>5. ASSUME NEW c \in Case, Decide(c) PROVE QInv'
  <2>1. UNCHANGED <<created, unit, email, pc, task>> /\ decided' = decided \cup {c}
    BY <1>5 DEF Decide, process
  <2>2. \A u, e : Queued(u, e)' \subseteq Queued(u, e)
    BY <2>1 DEF Queued
  <2>3. \A g \in Handler : QueueRead(g)'
    BY <2>1, <2>2, QueueReadStays
  <2>4. QueuedOnce'
    BY <2>1 DEF QInv, QueuedOnce
  <2> QED BY <1>1, <2>3, <2>4 DEF QInv
<1>6. ASSUME UNCHANGED <<created, decided, unit, email, pc, task>> PROVE QInv'
  BY <1>1, <1>6, QueueStays
<1>7. ASSUME NEW e \in Person, NEW s, ChangeStatus(e, s) PROVE QInv'
  BY <1>6, <1>7 DEF ChangeStatus, case, process
<1>8. CASE UNCHANGED vars
  BY <1>6, <1>8 DEF vars, case, process
<1> QED BY <1>1, <1>2, <1>3, <1>4, <1>5, <1>7, <1>8, IntakeQueues, CorrectQueues DEF Next, Link

LEMMA InitQInv == Init => QInv
<1> SUFFICES ASSUME Init PROVE QInv
  OBVIOUS
<1>1. QueuedOnce /\ \A h \in Handler : QueueRead(h)
  BY DEF Init, QueuedOnce, QueueRead, Proposing
<1> QED BY <1>1, InitTInv DEF QInv

-----------------------------------------------------------------------------
(* The agents of a property.                                                *)

\* What an invitation, or the answer to one, has read of the property's agents.
InvitationRead(h) ==
    /\ pc[h] = "share" => AgentsOf(task[h].invitation[1]) = {}
    /\ pc[h] = "accept" => MayAccept(task[h].invitation[1], task[h].invitation[2])
    /\ pc[h] = "decline" => task[h].invitation \notin agents

AInv == TInv /\ AgentAlone /\ \A h \in Handler : InvitationRead(h)

LEMMA InvitationOf ==
  ASSUME HandlersFit, NEW h \in Handler, pc[h] \in {"share", "accept", "decline"}
  PROVE  task[h].invitation \in Invitation
<1>1. CASE pc[h] = "share"
  <2>1. task[h] \in [invitation : Invitation, known : BOOLEAN]
    BY <1>1, TaskFits, TaskTypes
  <2> QED BY <2>1
<1>2. CASE pc[h] \in {"accept", "decline"}
  <2>1. task[h] \in [invitation : Invitation]
    BY <1>2, TaskFits, TaskTypes
  <2> QED BY <2>1
<1> QED BY <1>1, <1>2

\* A handler that stays relies on its property as long as no agent and no acceptance comes.
LEMMA InvitationReadStays ==
  ASSUME AInv, NEW g \in Handler, pc'[g] = pc[g], task'[g] = task[g], agents' = agents,
         \A i \in Invitation : invite'[i] = "ACCEPTED" => invite[i] = "ACCEPTED"
  PROVE  InvitationRead(g)'
<1>1. InvitationRead(g) /\ \A p : AgentsOf(p)' = AgentsOf(p)
  BY DEF AInv, AgentsOf
<1>2. CASE pc[g] = "accept"
  <2>1. PICK p \in Property, e \in Person : task[g].invitation = <<p, e>>
    BY <1>2, InvitationOf DEF AInv, TInv, Invitation
  <2>2. task[g].invitation[1] = p /\ task[g].invitation[2] = e
    BY <2>1
  <2>3. ~Taken(p, e)'
    <3>1. ~Taken(p, e)
      BY <1>1, <1>2, <2>2 DEF InvitationRead, MayAccept
    <3>2. \A f \in Person : <<p, f>> \in Invitation
      BY DEF Invitation
    <3> QED BY <3>1, <3>2 DEF Taken
  <2> QED BY <1>1, <1>2, <2>2, <2>3 DEF InvitationRead, MayAccept
<1>3. CASE pc[g] # "accept"
  BY <1>1, <1>3 DEF InvitationRead
<1> QED BY <1>2, <1>3

LEMMA InvitationsStay ==
  ASSUME AInv, TInv', UNCHANGED <<invite, agents>>,
         \A g \in Handler : InvitationRead(g)' \/ (pc'[g] = pc[g] /\ task'[g] = task[g])
  PROVE  AInv'
<1>1. \A g \in Handler : InvitationRead(g)'
  BY InvitationReadStays
<1>2. AgentAlone'
  BY DEF AInv, AgentAlone
<1> QED BY <1>1, <1>2 DEF AInv

LEMMA InvitingKeepsAgents ==
  ASSUME AInv, TInv', NEW h \in Handler, ShareCommit(h) \/ DeclineCommit(h)
  PROVE  AInv'
<1>1. HandlersFit /\ RowsFit /\ InvitationRead(h) /\ AgentAlone
  BY DEF AInv, TInv
<1>2. PICK i, s : i = task[h].invitation /\ s = IF pc[h] = "share" THEN "PENDING" ELSE "DECLINED"
  OBVIOUS
<1>3. pc[h] \in {"share", "decline"} /\ pc'[h] = "idle" /\ OthersStay(h)
  BY <1>1, Finishes DEF ShareCommit, DeclineCommit, OthersStay
<1>4. i \in Invitation
  BY <1>1, <1>2, <1>3, InvitationOf
<1>5. i[1] \in Property /\ i[2] \in Person /\ i = <<i[1], i[2]>>
  BY <1>4 DEF Invitation
<1>6. invite' = [invite EXCEPT ![i] = s] /\ agents' = agents
  BY <1>1, <1>2, Finishes DEF ShareCommit, DeclineCommit
<1>7. invite'[i] = s /\ \A j \in Invitation \ {i} : invite'[j] = invite[j]
  BY <1>1, <1>4, <1>6 DEF RowsFit
<1>8. \A g \in Handler \ {h} : InvitationRead(g)'
  BY <1>2, <1>3, <1>6, <1>7, InvitationReadStays DEF OthersStay
<1>9. InvitationRead(h)'
  BY <1>3 DEF InvitationRead
<1>10. \A j \in agents : j \in Invitation /\ j # i /\ (s = "PENDING" => j[1] # i[1])
  <2>1. agents \subseteq Invitation
    BY <1>1 DEF RowsFit
  <2>2. CASE pc[h] = "share"
    <3>1. AgentsOf(i[1]) = {}
      BY <1>1, <1>2, <2>2 DEF InvitationRead
    <3>2. \A j \in agents : j[2] \in Person /\ j = <<j[1], j[2]>>
      BY <2>1 DEF Invitation
    <3> QED BY <2>1, <3>1, <3>2 DEF AgentsOf
  <2>3. CASE pc[h] = "decline"
    BY <1>1, <1>2, <2>1, <2>3 DEF InvitationRead
  <2> QED BY <1>3, <2>2, <2>3
<1>11. AgentAlone'
  <2> SUFFICES ASSUME NEW j \in agents
               PROVE  /\ invite'[j] = "ACCEPTED"
                      /\ \A k \in Invitation \ {j} : k[1] = j[1] => invite'[k] \notin {"PENDING", "ACCEPTED"}
    BY <1>6 DEF AgentAlone
  <2>1. /\ invite[j] = "ACCEPTED"
        /\ \A k \in Invitation \ {j} : k[1] = j[1] => invite[k] \notin {"PENDING", "ACCEPTED"}
    BY <1>1 DEF AgentAlone
  <2> QED BY <1>2, <1>7, <1>10, <2>1
<1> QED BY <1>8, <1>9, <1>11 DEF AInv

\* An acceptance changes what is read of its property only.
LEMMA AcceptingKeepsAgents ==
  ASSUME AcceptancesApart, AInv, TInv', NEW h \in Handler, AcceptCommit(h)
  PROVE  AInv'
<1>1. HandlersFit /\ RowsFit /\ InvitationRead(h) /\ AgentAlone
  BY DEF AInv, TInv
<1>2. PICK i : i = task[h].invitation
  OBVIOUS
<1>3. pc[h] = "accept" /\ pc'[h] = "idle" /\ OthersStay(h)
  BY <1>1, Finishes DEF AcceptCommit, OthersStay
<1>4. i \in Invitation
  BY <1>1, <1>2, <1>3, InvitationOf
<1>5. PICK p \in Property, e \in Person : i = <<p, e>>
  BY <1>4 DEF Invitation
<1>6. i[1] = p /\ i[2] = e /\ agents \subseteq Invitation
  BY <1>1, <1>5 DEF RowsFit
<1>7. \A j \in Invitation : j[1] = p => \E f \in Person : j = <<p, f>>
  BY DEF Invitation
<1>8. /\ invite' = [j \in Invitation |->
                        IF j = i THEN "ACCEPTED" ELSE IF j \in ClosedBy(i) THEN "DECLINED" ELSE invite[j]]
      /\ agents' = agents \cup {i}
  BY <1>2 DEF AcceptCommit
<1>9. AgentsOf(p) \subseteq {e} /\ ~Taken(p, e)
  <2>1. MayAccept(p, e)
    BY <1>1, <1>2, <1>3, <1>6 DEF InvitationRead
  <2> QED BY <2>1 DEF MayAccept
<1>10. \A j \in agents : j[1] = p => j = i
  BY <1>5, <1>6, <1>7, <1>9 DEF AgentsOf
<1>11. \A j \in Invitation \ {i} : j[1] = p => invite[j] # "ACCEPTED"
  BY <1>5, <1>7, <1>9 DEF Taken
<1>12. /\ invite'[i] = "ACCEPTED"
       /\ \A j \in Invitation \ {i} : invite'[j] = IF j \in ClosedBy(i) THEN "DECLINED" ELSE invite[j]
  BY <1>4, <1>8
<1>13. \A j \in Invitation \ {i} : j[1] = p => invite'[j] \notin {"PENDING", "ACCEPTED"}
  BY <1>6, <1>11, <1>12 DEF ClosedBy
<1>14. \A j \in Invitation \ {i} : j[1] # p => invite'[j] = invite[j]
  BY <1>6, <1>12 DEF ClosedBy
<1>15. AgentAlone'
  <2> SUFFICES ASSUME NEW j \in agents'
               PROVE  /\ invite'[j] = "ACCEPTED"
                      /\ \A k \in Invitation \ {j} : k[1] = j[1] => invite'[k] \notin {"PENDING", "ACCEPTED"}
    BY DEF AgentAlone
  <2>1. CASE j = i
    BY <1>6, <1>12, <1>13, <2>1
  <2>2. CASE j # i
    <3>1. j \in agents /\ j \in Invitation /\ j[1] # p
      BY <1>6, <1>8, <1>10, <2>2
    <3>2. /\ invite[j] = "ACCEPTED"
          /\ \A k \in Invitation \ {j} : k[1] = j[1] => invite[k] \notin {"PENDING", "ACCEPTED"}
      BY <1>1, <3>1 DEF AgentAlone
    <3>3. \A k \in Invitation : k[1] = j[1] => invite'[k] = invite[k]
      BY <1>6, <1>14, <3>1
    <3> QED BY <3>1, <3>2, <3>3
  <2> QED BY <2>1, <2>2
<1>16. \A q \in Property : q # p => AgentsOf(q)' = AgentsOf(q) /\ \A f : Taken(q, f)' <=> Taken(q, f)
  <2> SUFFICES ASSUME NEW q \in Property, q # p
               PROVE  AgentsOf(q)' = AgentsOf(q) /\ \A f : Taken(q, f)' <=> Taken(q, f)
    OBVIOUS
  <2>1. \A f \in Person : /\ <<q, f>> \in Invitation /\ <<q, f>> # i
                          /\ invite'[<<q, f>>] = invite[<<q, f>>]
    <3>1. \A f \in Person : <<q, f>> \in Invitation /\ <<q, f>>[1] = q
      BY DEF Invitation
    <3> QED BY <1>6, <1>14, <3>1
  <2> QED BY <1>8, <2>1 DEF AgentsOf, Taken
<1>17. MayAccept(p, e)'
  <2>1. AgentsOf(p)' \subseteq {e}
    BY <1>5, <1>8, <1>9 DEF AgentsOf
  <2>2. ~Taken(p, e)'
    <3>1. \A f \in Person \ {e} : <<p, f>> \in Invitation \ {i} /\ <<p, f>>[1] = p
      BY <1>5 DEF Invitation
    <3> QED BY <1>13, <3>1 DEF Taken
  <2> QED BY <2>1, <2>2 DEF MayAccept
<1>18. ASSUME NEW g \in Handler \ {h} PROVE InvitationRead(g)'
  <2>1. InvitationRead(g) /\ pc'[g] = pc[g] /\ task'[g] = task[g]
    BY <1>3 DEF AInv, OthersStay
  <2>2. PICK j : j = task[g].invitation
    OBVIOUS
  <2>3. /\ pc[g] = "share" => j[1] # p
        /\ pc[g] = "accept" => j[1] # p \/ j = i
        /\ pc[g] = "decline" => j # i
    BY <1>2, <1>3, <1>6, <2>2 DEF AcceptancesApart
  <2>4. pc[g] \in {"share", "accept", "decline"} => j[1] \in Property
    BY <1>1, <2>2, InvitationOf DEF Invitation
  <2>5. CASE pc[g] = "share"
    BY <1>16, <2>1, <2>2, <2>3, <2>4, <2>5 DEF InvitationRead
  <2>6. CASE pc[g] = "accept"
    <3>1. MayAccept(j[1], j[2])
      BY <2>1, <2>2, <2>6 DEF InvitationRead
    <3>2. MayAccept(j[1], j[2])'
      <4>1. CASE j = i
        BY <1>6, <1>17, <4>1
      <4>2. CASE j[1] # p
        BY <1>16, <2>4, <2>6, <3>1, <4>2 DEF MayAccept
      <4> QED BY <2>3, <2>6, <4>1, <4>2
    <3> QED BY <2>1, <2>2, <2>6, <3>2 DEF InvitationRead
  <2>7. CASE pc[g] = "decline"
    BY <1>8, <2>1, <2>2, <2>3, <2>7 DEF InvitationRead
  <2>8. CASE pc[g] \notin {"share", "accept", "decline"}
    BY <2>1, <2>8 DEF InvitationRead
  <2> QED BY <2>5, <2>6, <2>7, <2>8
<1>19. InvitationRead(h)'
  BY <1>3 DEF InvitationRead
<1> QED BY <1>15, <1>18, <1>19 DEF AInv

LEMMA StepAInv == AcceptancesApart /\ AInv /\ [Next]_vars => AInv'
<1> SUFFICES ASSUME AcceptancesApart, AInv, [Next]_vars PROVE AInv'
  OBVIOUS
<1>1. TInv' /\ HandlersFit
  BY StepTInv DEF AInv, TInv
<1>2. ASSUME NEW h \in Handler, SignUp(h) \/ Link(h) \/ Abort(h) PROVE AInv'
  <2>1. UNCHANGED <<invite, agents>>
    BY <1>2 DEF SignUp, ResendRead, SignUpRead, CompleteRead, SignUpWrite, DropTokens, IssueToken,
          CompleteCommit, FindWaiting, TellOne, Attach, Link, CorrectRead, IntakeRead, IntakeCommit,
          CorrectCommit, Abort, invitation
  <2>2. OthersStay(h) /\ pc'[h] \notin {"share", "accept", "decline"}
    BY <1>1, <1>2, SignUpMoves, LinkMoves, AbortMoves
  <2>3. InvitationRead(h)'
    BY <2>2 DEF InvitationRead
  <2> QED BY <1>1, <2>1, <2>2, <2>3, InvitationsStay DEF OthersStay
<1>3. ASSUME NEW h \in Handler, NEW at, NEW t, NEW p \in Property, NEW e \in Person,
             Begin(h, at, t), t.invitation = <<p, e>>, UNCHANGED <<invite, agents>>,
             at = "share" => AgentsOf(p) = {}, at = "accept" => MayAccept(p, e),
             at = "decline" => <<p, e>> \notin agents
      PROVE  AInv'
  <2>1. OthersStay(h) /\ pc'[h] = at /\ task'[h] = t
    BY <1>1, <1>3, BeginMoves, MovesAlone
  <2>2. AgentsOf(p)' = AgentsOf(p) /\ (Taken(p, e)' <=> Taken(p, e))
    BY <1>3 DEF AgentsOf, Taken
  <2>3. MayAccept(p, e)' <=> MayAccept(p, e)
    BY <2>2 DEF MayAccept
  <2>4. InvitationRead(h)'
    BY <1>3, <2>1, <2>2, <2>3 DEF InvitationRead
  <2> QED BY <1>1, <1>3, <2>1, <2>4, InvitationsStay DEF OthersStay
<1>4. ASSUME NEW h \in Handler, NEW p \in Property, NEW e \in Person, ShareRead(h, p, e) PROVE AInv'
  <2>1. PICK t : t = [invitation |-> <<p, e>>, known |-> account[e] # "NONE"]
    OBVIOUS
  <2>2. Begin(h, "share", t) /\ AgentsOf(p) = {} /\ UNCHANGED <<invite, agents>>
    BY <1>4, <2>1 DEF ShareRead, invitation
  <2>3. t.invitation = <<p, e>>
    BY <2>1
  <2> QED BY <1>3, <2>2, <2>3
<1>5. ASSUME NEW h \in Handler, NEW p \in Property, NEW e \in Person, NEW a \in {"accept", "decline"},
             RespondRead(h, p, e, a)
      PROVE  AInv'
  <2>1. PICK t : t = [invitation |-> <<p, e>>]
    OBVIOUS
  <2>2. /\ Begin(h, a, t) /\ (a = "accept" => MayAccept(p, e)) /\ invite[<<p, e>>] = "PENDING"
        /\ UNCHANGED <<invite, agents>>
    BY <1>5, <2>1 DEF RespondRead, MayRespond, invitation
  <2>3. t.invitation = <<p, e>> /\ <<p, e>> \notin agents
    BY <2>1, <2>2 DEF AInv, AgentAlone
  <2> QED BY <1>3, <2>2, <2>3
<1>6. ASSUME UNCHANGED <<invite, agents, pc, task>> PROVE AInv'
  BY <1>1, <1>6, InvitationsStay
<1>7. ASSUME NEW c \in Case, Decide(c) PROVE AInv'
  BY <1>6, <1>7 DEF Decide, invitation, process
<1>8. ASSUME NEW e \in Person, NEW s, ChangeStatus(e, s) PROVE AInv'
  BY <1>6, <1>8 DEF ChangeStatus, invitation, process
<1>9. CASE UNCHANGED vars
  BY <1>6, <1>9 DEF vars, invitation, process
<1> QED BY <1>1, <1>2, <1>4, <1>5, <1>7, <1>8, <1>9, InvitingKeepsAgents, AcceptingKeepsAgents
        DEF Next, Invite

LEMMA InitAInv == Init => AInv
<1> SUFFICES ASSUME Init PROVE AInv
  OBVIOUS
<1>1. AgentAlone /\ \A h \in Handler : InvitationRead(h)
  BY DEF Init, AgentAlone, InvitationRead
<1> QED BY <1>1, InitTInv DEF AInv

-----------------------------------------------------------------------------
(* What waits for a person.                                                 *)

Settled(e) ==
    IF kind[e] = "RENTER" THEN Waiting(e, "RENTER") \subseteq inactive
                          ELSE Waiting(e, "AGENT") \subseteq named

\* A handler is to attach what waits for the person, as what he has last signed up for.
Completes(h, e) == pc[h] \in Completing /\ task[h].person = e /\ task[h].kind = kind[e]

\* Who has completed the sign-up is settled, or a handler is about to see to it, and nobody
\* has found that he has no account.
WInv ==
    /\ TInv
    /\ \A e \in verified : account[e] # "NONE" /\ \A h \in Handler : ~FoundNone(h, e)
    /\ \A e \in verified \ interrupted : Settled(e) \/ \E h \in Handler : Completes(h, e)

LEMMA BeforeStep == ASSUME WInv PROVE TInv /\ HandlersFit /\ RowsFit
BY DEF WInv, TInv

\* The others rely on what they have read; their completions go on.
LEMMA AfterStep ==
  ASSUME WInv, NEW h \in Handler, TInv', OthersStay(h),
         \A e \in verified' : account'[e] # "NONE" /\ ~FoundNone(h, e)',
         \A e \in verified' \ verified, g \in Handler \ {h} : ~FoundNone(g, e),
         interrupted \subseteq interrupted',
         \A e \in verified' \ interrupted' :
            \/ Settled(e)' \/ Completes(h, e)'
            \/ /\ e \in verified /\ ~Completes(h, e)
               /\ kind'[e] = kind[e] /\ (Settled(e) => Settled(e)')
  PROVE  WInv'
<1>1. ASSUME NEW e \in verified', NEW g \in Handler PROVE ~FoundNone(g, e)'
  <2>1. CASE g = h
    BY <2>1
  <2>2. CASE g # h
    <3>1. ~FoundNone(g, e)
      BY <2>2 DEF WInv
    <3> QED BY <2>2, <3>1 DEF OthersStay, FoundNone
  <2> QED BY <2>1, <2>2
<1>2. ASSUME NEW e \in verified' \ interrupted' PROVE Settled(e)' \/ \E g \in Handler : Completes(g, e)'
  <2>1. CASE Settled(e)' \/ Completes(h, e)'
    BY <2>1
  <2>2. CASE e \in verified /\ ~Completes(h, e) /\ kind'[e] = kind[e] /\ (Settled(e) => Settled(e)')
    <3>1. CASE Settled(e)
      BY <2>2, <3>1
    <3>2. CASE ~Settled(e)
      <4>1. PICK g \in Handler : Completes(g, e)
        BY <2>2, <3>2 DEF WInv
      <4>2. g # h
        BY <2>2, <4>1
      <4>3. pc'[g] = pc[g] /\ task'[g] = task[g]
        BY <4>2 DEF OthersStay
      <4>4. Completes(g, e)'
        BY <2>2, <4>1, <4>3 DEF Completes
      <4> QED BY <4>4
    <3> QED BY <3>1, <3>2
  <2> QED BY <1>2, <2>1, <2>2
<1> QED BY <1>1, <1>2 DEF WInv

LEMMA SettledKept ==
  ASSUME NEW e, kind'[e] = kind[e], UNCHANGED <<created, attached, email, inactive, invite, named>>
  PROVE  Settled(e)' <=> Settled(e)
BY DEF Settled, Waiting

\* A step that writes no row but notices; a completion goes on.
LEMMA QuietStep ==
  ASSUME WInv, TInv', NEW h \in Handler, OthersStay(h),
         UNCHANGED <<person, case, invitation, interrupted>>, \A e \in verified : ~FoundNone(h, e)',
         pc[h] \in Completing => /\ pc'[h] \in Completing
                                /\ task'[h].person = task[h].person /\ task'[h].kind = task[h].kind
  PROVE  WInv'
<1>1. UNCHANGED <<account, kind, verified, created, email, attached, inactive, invite, named, interrupted>>
  BY DEF person, case, invitation
<1>2. \A e : Settled(e)' <=> Settled(e)
  BY <1>1, SettledKept
<1>3. \A e : Completes(h, e) => Completes(h, e)'
  BY <1>1 DEF Completes
<1>4. \A e \in verified' : account'[e] # "NONE"
  BY <1>1 DEF WInv
<1> QED BY <1>1, <1>2, <1>3, <1>4, AfterStep

\* A request begins with what it has read.
LEMMA ReadStep ==
  ASSUME WInv, TInv', NEW h \in Handler, NEW at, NEW t, at \notin Completing, Begin(h, at, t),
         UNCHANGED <<person, case, invitation, told, interrupted>>,
         at = "intake" /\ t.status = "NONE" => account[t.person] = "NONE",
         at = "correct" => account[t.person] = "NONE",
         at = "share" /\ ~t.known => account[t.invitation[2]] = "NONE"
  PROVE  WInv'
<1>1. OthersStay(h) /\ pc[h] = "idle" /\ pc'[h] = at /\ task'[h] = t
  BY BeforeStep, BeginMoves, MovesAlone
<1>2. ASSUME NEW e \in verified PROVE ~FoundNone(h, e)'
  <2>1. account[e] # "NONE"
    BY DEF WInv
  <2> QED BY <1>1, <2>1 DEF FoundNone
<1>3. pc[h] \notin Completing
  BY <1>1 DEF Completing
<1> QED BY <1>1, <1>2, <1>3, QuietStep

LEMMA BeginningsKeep ==
  ASSUME WInv, TInv', NEW h \in Handler,
         \/ \E e \in Person : ResendRead(h, e) \/ \E k \in Kind : SignUpRead(h, e, k)
         \/ \E t \in Token : CompleteRead(h, t)
         \/ \E c \in Case, e \in Person : CorrectRead(h, c, e) \/ \E u \in Unit : IntakeRead(h, c, u, e)
         \/ \E p \in Property, e \in Person :
                ShareRead(h, p, e) \/ \E a \in {"accept", "decline"} : RespondRead(h, p, e, a)
  PROVE  WInv'
<1>1. ASSUME NEW at \in {"signup", "drop", "complete", "accept", "decline"}, NEW t, Begin(h, at, t),
             UNCHANGED <<person, case, invitation, told, interrupted>>
      PROVE  WInv'
  <2>1. at \notin Completing /\ at # "intake" /\ at # "correct" /\ at # "share"
    BY DEF Completing
  <2> QED BY <1>1, <2>1, ReadStep
<1>2. ASSUME NEW e \in Person, ResendRead(h, e) \/ \E k \in Kind : SignUpRead(h, e, k) PROVE WInv'
  BY <1>1, <1>2 DEF ResendRead, SignUpRead
<1>3. ASSUME NEW t \in Token, CompleteRead(h, t) PROVE WInv'
  BY <1>1, <1>3 DEF CompleteRead
<1>4. ASSUME NEW c \in Case, NEW e \in Person, CorrectRead(h, c, e) PROVE WInv'
  <2>1. PICK t : t = [case |-> c, person |-> e]
    OBVIOUS
  <2>2. t.person = e
    BY <2>1
  <2>3. /\ Begin(h, "correct", t) /\ UNCHANGED <<person, case, invitation, told, interrupted>>
        /\ account[t.person] = "NONE"
    BY <1>4, <2>1, <2>2 DEF CorrectRead, MayCorrect
  <2>4. "correct" \notin Completing
    BY DEF Completing
  <2> QED BY <2>3, <2>4, ReadStep
<1>5. ASSUME NEW c \in Case, NEW e \in Person, NEW u \in Unit, IntakeRead(h, c, u, e) PROVE WInv'
  <2>1. PICK t : t = [case |-> c, unit |-> u, person |-> e, status |-> account[e]]
    OBVIOUS
  <2>2. t.person = e /\ t.status = account[e]
    BY <2>1
  <2>3. Begin(h, "intake", t) /\ UNCHANGED <<person, case, invitation, told, interrupted>>
    BY <1>5, <2>1 DEF IntakeRead
  <2>4. "intake" \notin Completing
    BY DEF Completing
  <2> QED BY <2>2, <2>3, <2>4, ReadStep
<1>6. ASSUME NEW p \in Property, NEW e \in Person, ShareRead(h, p, e) PROVE WInv'
  <2>1. PICK t : t = [invitation |-> <<p, e>>, known |-> account[e] # "NONE"]
    OBVIOUS
  <2>2. t.invitation[2] = e /\ (~t.known => account[e] = "NONE")
    BY <2>1
  <2>3. Begin(h, "share", t) /\ UNCHANGED <<person, case, invitation, told, interrupted>>
    BY <1>6, <2>1 DEF ShareRead
  <2>4. "share" \notin Completing
    BY DEF Completing
  <2> QED BY <2>2, <2>3, <2>4, ReadStep
<1>7. ASSUME NEW p \in Property, NEW e \in Person, NEW a \in {"accept", "decline"}, RespondRead(h, p, e, a)
      PROVE  WInv'
  BY <1>1, <1>7 DEF RespondRead
<1> QED BY <1>2, <1>3, <1>4, <1>5, <1>6, <1>7

LEMMA SignUpKeeps ==
  ASSUME WInv, TInv', NEW h \in Handler, SignUpWrite(h) \/ DropTokens(h) \/ IssueToken(h)
  PROVE  WInv'
<1>1. HandlersFit /\ RowsFit /\ OthersStay(h)
  BY BeforeStep, SignUpMoves DEF SignUp
<1>2. UNCHANGED <<created, email, attached, inactive, invite, named, interrupted>>
  BY DEF SignUpWrite, DropTokens, IssueToken, case, invitation
<1>3. pc'[h] \in {"drop", "issue", "idle"} /\ pc[h] \notin Completing
  BY <1>1, MovesAlone, Finishes DEF SignUpWrite, DropTokens, IssueToken, Completing
<1>4. \A d : ~Completes(h, d) /\ ~FoundNone(h, d)'
  BY <1>3 DEF Completes, FoundNone
<1>5. \A d \in verified' : d \in verified /\ account'[d] = account[d] /\ kind'[d] = kind[d]
  <2>1. CASE SignUpWrite(h)
    <3>1. PICK e, k : e = task[h].person /\ k = task[h].kind
      OBVIOUS
    <3>2. /\ account' = [account EXCEPT ![e] = "UNVERIFIED"] /\ kind' = [kind EXCEPT ![e] = k]
          /\ verified' = verified \ {e}
      BY <2>1, <3>1 DEF SignUpWrite
    <3> QED BY <1>1, <3>2 DEF RowsFit
  <2>2. CASE DropTokens(h) \/ IssueToken(h)
    BY <2>2 DEF DropTokens, IssueToken
  <2> QED BY <2>1, <2>2
<1>6. \A d \in verified' : account'[d] # "NONE" /\ (Settled(d) => Settled(d)')
  BY <1>2, <1>5, SettledKept DEF WInv
<1> QED BY <1>1, <1>2, <1>4, <1>5, <1>6, AfterStep

\* Nobody who has found that the person has no account is left when the sign-up is completed.
LEMMA CompletingKeeps ==
  ASSUME CompletionsApart, WInv, TInv', NEW h \in Handler, CompleteCommit(h)
  PROVE  WInv'
<1>1. HandlersFit /\ RowsFit
  BY BeforeStep
<1>2. PICK e, s, t : /\ e = task[h].person /\ s = CompletedStatus(task[h].status)
                     /\ t = [person |-> e, kind |-> kind[e]]
  OBVIOUS
<1>3. /\ pc[h] = "complete" /\ Move(h, "complete", "find", t)
      /\ account' = [account EXCEPT ![e] = s] /\ kind' = kind /\ verified' = verified \cup {e}
  BY <1>2 DEF CompleteCommit, Move
<1>4. UNCHANGED <<created, email, attached, inactive, invite, named, interrupted>>
  BY DEF CompleteCommit, case, invitation
<1>5. e \in Person
  <2>1. task[h] \in [person : Person, token : Token, status : Account]
    BY <1>1, <1>3, TaskFits, TaskTypes
  <2> QED BY <1>2, <2>1
<1>6. OthersStay(h) /\ pc'[h] = "find" /\ task'[h] = t /\ t.person = e /\ t.kind = kind[e]
  BY <1>1, <1>2, <1>3, MovesAlone
<1>7. Completes(h, e)' /\ \A d : ~Completes(h, d) /\ ~FoundNone(h, d)'
  BY <1>3, <1>6 DEF Completes, Completing, FoundNone
<1>8. \A g \in Handler : ~FoundNone(g, e)
  BY <1>2, <1>3 DEF CompletionsApart
<1>9. \A d \in verified' : account'[d] # "NONE"
  <2>1. s # "NONE" /\ verified \subseteq Person
    BY <1>1, <1>2 DEF CompletedStatus, RowsFit
  <2>2. account'[e] = s /\ \A d \in Person \ {e} : account'[d] = account[d]
    BY <1>1, <1>3, <1>5 DEF RowsFit
  <2> QED BY <1>3, <2>1, <2>2 DEF WInv
<1>10. \A d : Settled(d) => Settled(d)'
  BY <1>3, <1>4, SettledKept
<1> QED BY <1>3, <1>4, <1>6, <1>7, <1>8, <1>9, <1>10, AfterStep

LEMMA TellingKeeps ==
  ASSUME WInv, TInv', NEW h \in Handler, TellOne(h)
  PROVE  WInv'
<1>1. HandlersFit
  BY BeforeStep
<1>2. pc[h] = "tell"
  BY DEF TellOne
<1>3. task[h] \in [person : Person, kind : Kind, items : (SUBSET Case) \cup (SUBSET Invitation)]
  BY <1>1, <1>2, TaskFits, TaskTypes
<1>4. PICK i, at, t : /\ at = IF task[h].items = {i} THEN "attach" ELSE "tell"
                      /\ t = [task[h] EXCEPT !.items = @ \ {i}]
                      /\ Move(h, "tell", at, t)
  BY DEF TellOne
<1>5. t.person = task[h].person /\ t.kind = task[h].kind
  BY <1>3, <1>4
<1>6. OthersStay(h) /\ pc'[h] = at /\ task'[h] = t
  BY <1>1, <1>4, MovesAlone
<1>7. UNCHANGED <<person, case, invitation, interrupted>>
  BY DEF TellOne
<1>8. pc'[h] \in Completing /\ \A e : ~FoundNone(h, e)'
  BY <1>4, <1>6 DEF Completing, FoundNone
<1> QED BY <1>5, <1>6, <1>7, <1>8, QuietStep

LEMMA AttachingKeeps ==
  ASSUME WInv, TInv', NEW h \in Handler, FindWaiting(h) \/ Attach(h) \/ Abort(h)
  PROVE  WInv'
<1>1. HandlersFit /\ RowsFit /\ OthersStay(h)
  BY BeforeStep, SignUpMoves, AbortMoves DEF SignUp
<1>2. PICK e, k, items : e = task[h].person /\ k = task[h].kind /\ items = Waiting(e, k)
  OBVIOUS
<1>3. UNCHANGED <<account, kind, verified, created, email, inactive, invite>>
  BY DEF FindWaiting, Attach, Abort, person, case, invitation
<1>4. \A d \in verified' : d \in verified /\ account'[d] # "NONE"
  BY <1>3 DEF WInv
<1>5. pc'[h] = "idle" => \A d : ~FoundNone(h, d)'
  BY DEF FoundNone
<1>6. \A d : Completes(h, d) => d = e /\ k = kind[e]
  BY <1>2 DEF Completes
<1>7. ASSUME FindWaiting(h) PROVE WInv'
  <2>1. pc[h] = "find" /\ UNCHANGED <<person, case, invitation, told, interrupted>>
    BY <1>7 DEF FindWaiting
  <2>2. CASE items = {}
    <3>1. pc'[h] = "idle"
      BY <1>1, <1>2, <1>7, <2>2, Finishes DEF FindWaiting
    <3>2. \A d : Settled(d)' <=> Settled(d)
      BY <1>3, <2>1, SettledKept DEF case, invitation
    <3>3. k = kind[e] => Settled(e)'
      <4>1. task[h] \in [person : Person, kind : Kind]
        BY <1>1, <2>1, TaskFits, TaskTypes
      <4>2. k \in Kind
        BY <1>2, <4>1
      <4> QED BY <1>2, <2>2, <3>2, <4>2 DEF Settled, Kind
    <3> QED BY <1>1, <1>3, <1>4, <1>5, <1>6, <2>1, <3>1, <3>2, <3>3, AfterStep
  <2>3. CASE items # {}
    <3>1. PICK t : t = [person |-> e, kind |-> k, items |-> items]
      OBVIOUS
    <3>2. Move(h, "find", "tell", t)
      BY <1>2, <1>7, <2>3, <3>1 DEF FindWaiting
    <3>3. pc'[h] = "tell" /\ task'[h] = t /\ t.person = e /\ t.kind = k
      BY <1>1, <3>1, <3>2, MovesAlone
    <3>4. pc'[h] \in Completing /\ \A d : ~FoundNone(h, d)'
      BY <3>3 DEF Completing, FoundNone
    <3> QED BY <1>1, <1>2, <2>1, <3>3, <3>4, QuietStep
  <2> QED BY <2>2, <2>3
<1>8. ASSUME Attach(h) PROVE WInv'
  <2>1. pc[h] = "attach" /\ pc'[h] = "idle" /\ interrupted' = interrupted
    BY <1>1, <1>8, Finishes DEF Attach
  <2>2. attached \subseteq attached' /\ named \subseteq named'
    BY <1>8 DEF Attach
  <2>3. \A d : Settled(d) => Settled(d)'
    BY <1>3, <2>2 DEF Settled, Waiting
  <2>4. k = kind[e] => Settled(e)'
    <3>1. CASE k = "RENTER"
      <4>1. attached' = attached \cup items
        BY <1>2, <1>8, <3>1 DEF Attach
      <4>2. Waiting(e, "RENTER")' = {}
        BY <1>2, <1>3, <3>1, <4>1 DEF Waiting
      <4> QED BY <1>3, <3>1, <4>2 DEF Settled
    <3>2. CASE k # "RENTER"
      <4>1. named' = named \cup items
        BY <1>2, <1>8, <3>2 DEF Attach
      <4>2. Waiting(e, "AGENT")' = items
        BY <1>2, <1>3, <3>2 DEF Waiting
      <4> QED BY <1>3, <3>2, <4>1, <4>2 DEF Settled
    <3> QED BY <3>1, <3>2
  <2> QED BY <1>1, <1>3, <1>4, <1>5, <1>6, <2>1, <2>3, <2>4, AfterStep
<1>9. ASSUME Abort(h) PROVE WInv'
  <2>1. /\ pc'[h] = "idle" /\ UNCHANGED <<attached, named>>
        /\ interrupted' = IF pc[h] \in Completing THEN interrupted \cup {e} ELSE interrupted
    BY <1>1, <1>2, <1>9, Finishes DEF Abort, case, invitation
  <2>2. \A d : Settled(d)' <=> Settled(d)
    BY <1>3, <2>1, SettledKept
  <2>3. \A d : d \notin interrupted' => ~Completes(h, d)
    BY <1>2, <2>1 DEF Completes
  <2> QED BY <1>1, <1>3, <1>4, <1>5, <2>1, <2>2, <2>3, AfterStep
<1> QED BY <1>7, <1>8, <1>9

LEMMA IntakeKeeps ==
  ASSUME WInv, TInv', NEW h \in Handler, IntakeCommit(h)
  PROVE  WInv'
<1>1. HandlersFit /\ RowsFit
  BY BeforeStep
<1>2. PICK t, c, e : t = task[h] /\ c = t.case /\ e = t.person
  OBVIOUS
<1>3. pc[h] = "intake" /\ c \notin created /\ pc'[h] = "idle" /\ OthersStay(h)
  BY <1>1, <1>2, Finishes DEF IntakeCommit, OthersStay
<1>4. t \in [case : Case, unit : Unit, person : Person, status : Account]
  BY <1>1, <1>2, <1>3, TaskFits, TaskTypes
<1>5. c \in Case
  BY <1>2, <1>4
<1>6. /\ created' = created \cup {c} /\ email' = [email EXCEPT ![c] = e]
      /\ inactive' = IF t.status \in {"NONE", "ACTIVE"} THEN inactive ELSE inactive \cup {c}
      /\ attached' = IF Usable(t.status) THEN attached \cup {c} ELSE attached
      /\ UNCHANGED <<account, kind, verified, invite, named, interrupted>>
  BY <1>2 DEF IntakeCommit, person, invitation
<1>7. /\ email'[c] = e
      /\ \A d \in created : d # c /\ email'[d] = email[d]
  BY <1>1, <1>3, <1>5, <1>6 DEF RowsFit
<1>8. t.status = "NONE" => e \notin verified
  BY <1>2, <1>3 DEF WInv, FoundNone
<1>9. \A d : ~Completes(h, d) /\ ~FoundNone(h, d)'
  BY <1>3 DEF Completes, Completing, FoundNone
<1>10. ASSUME NEW d \in verified, Settled(d) PROVE Settled(d)'
  <2>2. CASE kind[d] # "RENTER"
    BY <1>6, <1>10, <2>2 DEF Settled, Waiting
  <2>3. CASE kind[d] = "RENTER"
    <3>1. \A b \in created' \ attached' : b # c => b \in created \ attached /\ email'[b] = email[b]
      BY <1>6, <1>7
    <3>2. inactive \subseteq inactive'
      BY <1>6
    <3>3. c \notin attached' /\ e = d => c \in inactive'
      <4> SUFFICES ASSUME c \notin attached', e = d PROVE c \in inactive'
        OBVIOUS
      <4>1. t.status \in {"NONE", "DISABLED"}
        BY <1>6 DEF Usable
      <4>2. t.status # "NONE"
        BY <1>8
      <4> QED BY <1>6, <4>1, <4>2
    <3>4. \A b \in created \ attached : email[b] = d => b \in inactive
      BY <1>10, <2>3 DEF Settled, Waiting
    <3>5. \A b \in created' \ attached' : email'[b] = d => b \in inactive'
      BY <1>7, <3>1, <3>2, <3>3, <3>4
    <3> QED BY <1>6, <2>3, <3>5 DEF Settled, Waiting
  <2> QED BY <2>2, <2>3
<1>11. \A d \in verified' : account'[d] # "NONE"
  BY <1>6 DEF WInv
<1> QED BY <1>3, <1>6, <1>9, <1>10, <1>11, AfterStep

LEMMA CorrectKeeps ==
  ASSUME WInv, TInv', NEW h \in Handler, CorrectCommit(h)
  PROVE  WInv'
<1>1. HandlersFit /\ RowsFit
  BY BeforeStep
<1>2. PICK t, c, e : t = task[h] /\ c = t.case /\ e = t.person
  OBVIOUS
<1>3. pc[h] = "correct" /\ pc'[h] = "idle" /\ OthersStay(h)
  BY <1>1, Finishes DEF CorrectCommit, OthersStay
<1>4. c \in Case /\ e \notin verified
  <2>1. t \in [case : Case, person : Person]
    BY <1>1, <1>2, <1>3, TaskFits, TaskTypes
  <2> QED BY <1>2, <1>3, <2>1 DEF WInv, FoundNone
<1>5. /\ email' = [email EXCEPT ![c] = e] /\ inactive' = inactive \ {c}
      /\ UNCHANGED <<account, kind, verified, created, attached, invite, named, interrupted>>
  BY <1>2 DEF CorrectCommit, person, case, invitation
<1>6. email'[c] = e /\ \A d \in created \ {c} : email'[d] = email[d]
  BY <1>1, <1>4, <1>5 DEF RowsFit
<1>7. \A d : ~Completes(h, d) /\ ~FoundNone(h, d)'
  BY <1>3 DEF Completes, Completing, FoundNone
<1>8. ASSUME NEW d \in verified, Settled(d) PROVE Settled(d)'
  <2>1. d # e
    BY <1>4
  <2>2. \A b \in created : email'[b] = d => b # c /\ email[b] = d
    BY <1>6, <2>1
  <2> QED BY <1>5, <1>8, <2>2 DEF Settled, Waiting
<1>9. \A d \in verified' : account'[d] # "NONE"
  BY <1>5 DEF WInv
<1> QED BY <1>3, <1>5, <1>7, <1>8, <1>9, AfterStep

LEMMA InvitingKeeps ==
  ASSUME WInv, TInv', NEW h \in Handler, ShareCommit(h) \/ DeclineCommit(h) \/ AcceptCommit(h)
  PROVE  WInv'
<1>1. HandlersFit /\ RowsFit
  BY BeforeStep
<1>2. PICK t, i : t = task[h] /\ i = t.invitation
  OBVIOUS
<1>3. pc[h] \in {"share", "accept", "decline"} /\ pc'[h] = "idle" /\ OthersStay(h)
  BY <1>1, Finishes DEF ShareCommit, DeclineCommit, AcceptCommit, OthersStay
<1>4. i \in Invitation
  BY <1>1, <1>2, <1>3, InvitationOf
<1>5. UNCHANGED <<account, kind, verified, created, email, attached, inactive, interrupted>>
  BY DEF ShareCommit, DeclineCommit, AcceptCommit, person, case
<1>6. \A d : ~Completes(h, d) /\ ~FoundNone(h, d)'
  BY <1>3 DEF Completes, Completing, FoundNone
<1>7. \A d \in verified' : account'[d] # "NONE"
  BY <1>5 DEF WInv
<1>8. ASSUME \A d \in verified, j \in Invitation :
                j[2] = d /\ invite'[j] = "PENDING" => j \in named' \/ (invite[j] = "PENDING" /\ j \notin named)
      PROVE  WInv'
  <2>1. ASSUME NEW d \in verified, Settled(d) PROVE Settled(d)'
    <3>1. CASE kind[d] = "RENTER"
      BY <1>5, <2>1, <3>1 DEF Settled, Waiting
    <3>2. CASE kind[d] # "RENTER"
      <4>1. \A j \in Invitation : j[2] = d /\ invite[j] = "PENDING" => j \in named
        BY <2>1, <3>2 DEF Settled, Waiting
      <4>2. \A j \in Invitation : j[2] = d /\ invite'[j] = "PENDING" => j \in named'
        BY <1>8, <4>1
      <4> QED BY <1>5, <3>2, <4>2 DEF Settled, Waiting
    <3> QED BY <3>1, <3>2
  <2> QED BY <1>3, <1>5, <1>6, <1>7, <2>1, AfterStep
<1>9. ASSUME ShareCommit(h) PROVE WInv'
  <2>1. pc[h] = "share"
    BY <1>1, <1>9, Finishes DEF ShareCommit
  <2>2. /\ invite' = [invite EXCEPT ![i] = "PENDING"]
        /\ named' = IF t.known THEN named \cup {i} ELSE named \ {i}
    BY <1>2, <1>9 DEF ShareCommit
  <2>3. ~t.known => i[2] \notin verified
    BY <1>2, <2>1 DEF WInv, FoundNone
  <2>4. \A d \in verified : i[2] = d => i \in named'
    BY <2>2, <2>3
  <2>5. \A j \in Invitation \ {i} : invite'[j] = invite[j] /\ (j \in named' <=> j \in named)
    BY <1>1, <2>2 DEF RowsFit
  <2> QED BY <1>8, <2>4, <2>5
<1>10. ASSUME DeclineCommit(h) PROVE WInv'
  <2>1. invite' = [invite EXCEPT ![i] = "DECLINED"] /\ named' = named \cup {i}
    BY <1>2, <1>10 DEF DeclineCommit
  <2>2. \A j \in Invitation \ {i} : invite'[j] = invite[j] /\ (j \in named' <=> j \in named)
    BY <1>1, <2>1 DEF RowsFit
  <2> QED BY <1>8, <2>1, <2>2
<1>11. ASSUME AcceptCommit(h) PROVE WInv'
  <2>1. /\ invite' = [j \in Invitation |->
                        IF j = i THEN "ACCEPTED" ELSE IF j \in ClosedBy(i) THEN "DECLINED" ELSE invite[j]]
        /\ named' = named \cup {i}
    BY <1>2, <1>11 DEF AcceptCommit
  <2>2. \A j \in Invitation : invite'[j] = "PENDING" => invite[j] = "PENDING"
    BY <2>1
  <2> QED BY <1>8, <2>1, <2>2
<1> QED BY <1>9, <1>10, <1>11

\* A decision, a change of status or no step at all leaves the requests where they are.
LEMMA BesideStep ==
  ASSUME WInv, TInv', UNCHANGED <<kind, verified, created, email, attached, inactive, invite, named,
                                  interrupted, pc, task>>,
         \A e \in verified : account'[e] # "NONE"
  PROVE  WInv'
<1>1. \A e : \A h \in Handler : FoundNone(h, e)' <=> FoundNone(h, e)
  BY DEF FoundNone
<1>2. \A e : (Settled(e)' <=> Settled(e)) /\ \A h \in Handler : Completes(h, e)' <=> Completes(h, e)
  BY SettledKept DEF Completes
<1> QED BY <1>1, <1>2 DEF WInv

LEMMA StepWInv == CompletionsApart /\ WInv /\ [Next]_vars => WInv'
<1> SUFFICES ASSUME CompletionsApart, WInv, [Next]_vars PROVE WInv'
  OBVIOUS
<1>1. TInv' /\ RowsFit
  BY StepTInv DEF WInv, TInv
<1>2. ASSUME NEW h \in Handler, SignUp(h) PROVE WInv'
  BY <1>1, <1>2, BeginningsKeep, SignUpKeeps, CompletingKeeps, TellingKeeps, AttachingKeeps DEF SignUp
<1>3. ASSUME NEW h \in Handler, Link(h) PROVE WInv'
  BY <1>1, <1>3, BeginningsKeep, IntakeKeeps, CorrectKeeps DEF Link
<1>4. ASSUME NEW h \in Handler, Invite(h) PROVE WInv'
  BY <1>1, <1>4, BeginningsKeep, InvitingKeeps DEF Invite
<1>5. ASSUME NEW e \in Person, NEW s \in {"ACTIVE"} \cup Lock, ChangeStatus(e, s) PROVE WInv'
  <2>1. /\ UNCHANGED <<kind, verified, created, email, attached, inactive, invite, named, interrupted, pc, task>>
        /\ account[e] # "NONE" /\ account' = [account EXCEPT ![e] = s] /\ s # "NONE"
    BY <1>5, LockAssumption DEF ChangeStatus, case, invitation, process
  <2>2. \A d \in verified : account'[d] # "NONE"
    BY <1>1, <2>1 DEF WInv, RowsFit
  <2> QED BY <1>1, <2>1, <2>2, BesideStep
<1>6. ASSUME UNCHANGED <<account, kind, verified, created, email, attached, inactive, invite, named,
                         interrupted, pc, task>>
      PROVE  WInv'
  <2>1. \A e \in verified : account'[e] # "NONE"
    BY <1>6 DEF WInv
  <2> QED BY <1>1, <1>6, <2>1, BesideStep
<1>7. ASSUME NEW c \in Case, Decide(c) PROVE WInv'
  BY <1>6, <1>7 DEF Decide, person, invitation, process
<1>8. CASE UNCHANGED vars
  BY <1>6, <1>8 DEF vars, person, case, invitation, process
<1> QED BY <1>1, <1>2, <1>3, <1>4, <1>5, <1>7, <1>8, AttachingKeeps DEF Next

LEMMA InitWInv == Init => WInv
<1> SUFFICES ASSUME Init PROVE WInv
  OBVIOUS
<1>1. verified = {}
  BY DEF Init
<1> QED BY <1>1, InitTInv DEF WInv

\* With no request in flight, who has completed the sign-up is settled.
LEMMA AllAttached == WInv => WaitingIsAttached
<1> SUFFICES ASSUME WInv, NEW e \in verified \ interrupted, InFlight = {} PROVE Settled(e)
  BY DEF WaitingIsAttached, Settled
<1>1. \A h \in Handler : ~Completes(h, e)
  BY DEF InFlight, Completes, Completing
<1> QED BY <1>1 DEF WInv

-----------------------------------------------------------------------------
(* Results.                                                                 *)

\* Every variable has its type, whatever requests run at once and wherever they stop.
THEOREM TypeCorrect == Spec => []TypeOK
<1>1. TInv /\ [Next]_vars => TInv'
  BY StepTInv
<1> QED BY InitTInv, <1>1, TypesFit, PTL DEF Spec

\* As long as no two proposals or corrections in flight name the same address for the same
\* unit, nobody is in the queue of a unit twice, whatever else runs at once.
THEOREM QueuedAtMostOnce == Spec /\ []ProposalsApart => []QueuedOnce
<1>1. ProposalsApart /\ QInv /\ [Next]_vars => QInv'
  BY StepQInv
<1>2. QInv => QueuedOnce
  BY DEF QInv
<1> QED BY InitQInv, <1>1, <1>2, PTL DEF Spec

\* As long as no acceptance overlaps an invitation to its property, another agent's acceptance
\* there or a refusal of the same invitation, a property gets one agent and closes its other
\* invitations, whatever else runs at once.
THEOREM OneAgent == Spec /\ []AcceptancesApart => []AgentAlone
<1>1. AcceptancesApart /\ AInv /\ [Next]_vars => AInv'
  BY StepAInv
<1>2. AInv => AgentAlone
  BY DEF AInv
<1> QED BY InitAInv, <1>1, <1>2, PTL DEF Spec

\* Who has completed the sign-up has everything that named the address, but for an interrupted
\* completion and for cases proposed while the account was not active, whatever runs at once,
\* as long as no completion commits beside a proposal, a correction or an invitation that has
\* found no account for the address.
THEOREM WaitingAttached == Spec /\ []CompletionsApart => []WaitingIsAttached
<1>1. CompletionsApart /\ WInv /\ [Next]_vars => WInv'
  BY StepWInv
<1> QED BY InitWInv, <1>1, AllAttached, PTL DEF Spec
=============================================================================
