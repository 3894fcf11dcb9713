------------------------- MODULE AuthSessionsProofs -------------------------
(***************************************************************************)
(* Safety of the sessions and reset links of an account, for any number of  *)
(* requests, sessions and links.  None of the requests but the reset runs   *)
(* in a transaction: the invariant says what one may still rely on as long  *)
(* as no other has written about the same login or link since it read.      *)
(***************************************************************************)
EXTENDS AuthSessions, SequenceTheorems, TLAPS

USE SessionAssumption

Place == {"idle", "store", "rotate", "logout", "issue", "reset", "change"}

TaskFits(h) ==
    /\ pc[h] = "idle" => task[h] = NoTask
    /\ pc[h] = "store" => task[h] \in StoreTask \cup RotateTask
    /\ pc[h] = "rotate" => task[h] \in RotateTask
    /\ pc[h] = "logout" => task[h] \in LogoutTask
    /\ pc[h] = "reset" => task[h] \in ResetTask
    /\ pc[h] \in {"issue", "change"} => task[h] \in OtherTask

\* Logins are numbered by their first session.
LoginsKnown ==
    /\ \A i \in DOMAIN sessions : sessions[i].login \in 1..i
    /\ \A h \in Handler : \A l \in Nat :
        pc[h] \in {"store", "rotate", "logout"} /\ task[h].about = <<"login", l>> =>
            l <= Len(sessions)

\* The sessions of login l that live.
Living(l) == {i \in DOMAIN sessions : sessions[i].live /\ sessions[i].login = l}

\* Request h is about login l, and at one of these places.
On(h, places, l) == pc[h] \in places /\ task[h].about = <<"login", l>>

\* What the requests about a login rely on while no stale write about it was made: one
\* that is to store a session has ended the others, and is alone at that; one that is to
\* end a session ends the only one, unless another has written since it read.
LoginGuarded(l) ==
    /\ \A h \in Handler : On(h, {"store"}, l) =>
        /\ Living(l) = {}
        /\ \A g \in Handler : On(g, {"store"}, l) => g = h
    /\ \A h \in Handler : On(h, {"rotate", "logout"}, l) /\ h \notin stale =>
        /\ Living(l) \subseteq {task[h].session}
        /\ \A g \in Handler : ~On(g, {"store"}, l)

LoginsGuarded == \A l \in Nat \ {0} : <<"login", l>> \notin skewed => LoginGuarded(l)

\* A link is spent by being used, and one about to be used is not spent, unless another
\* request has used it since it was read.
LinksGuarded ==
    /\ \A i \in DOMAIN links : links[i].state # "SPENT" => links[i].uses = 0
    /\ \A h \in Handler : pc[h] = "reset" =>
        /\ task[h].link \in DOMAIN links /\ task[h].about = <<"link", task[h].link>>
        /\ h \notin stale => links[task[h].link].state # "SPENT"

\* A request that is to open a session carries a password that no reset has replaced,
\* unless a reset overtook it, or the request behind the session it rotates.
InTime(h) == pc[h] \in {"rotate", "store"} =>
    /\ task[h].about[2] # 0 => task[h].session \in DOMAIN sessions
    /\ task[h].with >= since \/ Late(h)

OpensInTime == \A h \in Handler : InTime(h)

IInv ==
    /\ TypeOK
    /\ OpensInTime
    /\ LoginsKnown
    /\ LoginsGuarded
    /\ LinksGuarded
    /\ ResetEndsSessions
    /\ OneSessionPerLogin
    /\ LinkWorksOnce

-----------------------------------------------------------------------------
\* A sequence whose elements are replaced one by one.
LEMMA SeqMap ==
  ASSUME NEW S, NEW s \in Seq(S), NEW f, f \in [DOMAIN s -> S]
  PROVE  f \in Seq(S) /\ Len(f) = Len(s) /\ DOMAIN f = DOMAIN s
<1>1. Len(s) \in Nat /\ DOMAIN s = 1..Len(s)
  BY LenProperties
<1>2. f \in [1..Len(s) -> S]
  BY <1>1
<1>3. f \in Seq(S)
  BY <1>1, <1>2, SeqDef
<1>4. Len(f) \in Nat /\ DOMAIN f = 1..Len(f) /\ DOMAIN f = 1..Len(s)
  BY <1>2, <1>3, LenProperties
<1>5. Len(f) = Len(s)
  BY <1>1, <1>4
<1> QED BY <1>1, <1>3, <1>4, <1>5

LEMMA InitIInv == Init => IInv
<1> SUFFICES ASSUME Init PROVE IInv
  OBVIOUS
<1>1. /\ sessions = <<>> /\ links = <<>> /\ Len(sessions) = 0 /\ Len(links) = 0
      /\ sessions \in Seq(Session) /\ links \in Seq(Link) /\ DOMAIN sessions = {} /\ DOMAIN links = {}
  BY EmptySeq DEF Init
<1>2. /\ scope \in {"STAFF", "PUBLIC"} /\ status \in {"ACTIVE", "DISABLED"}
      /\ password = 0 /\ since = 0 /\ stale = {} /\ skewed = {} /\ overtaken = {}
  BY DEF Init
<1>3. /\ pc \in [Handler -> Place] /\ task \in [Handler -> Task]
      /\ \A h \in Handler : pc[h] = "idle" /\ task[h] = NoTask
  BY DEF Init, Place, Task
<1>4. TypeOK
  BY <1>1, <1>2, <1>3 DEF TypeOK, Place
<1>5. LoginsKnown /\ LoginsGuarded
  BY <1>1, <1>3 DEF LoginsKnown, LoginsGuarded, LoginGuarded, On
<1>6. LinksGuarded /\ ResetEndsSessions /\ OneSessionPerLogin /\ LinkWorksOnce
  BY <1>1, <1>3 DEF LinksGuarded, ResetEndsSessions, OneSessionPerLogin, LinkWorksOnce
<1>7. OpensInTime
  BY <1>3 DEF OpensInTime, InTime
<1> QED BY <1>4, <1>5, <1>6, <1>7 DEF IInv

-----------------------------------------------------------------------------
\* A step that lets no session come alive, and creates none.
SessionsKept ==
    /\ sessions' \in Seq(Session) /\ Len(sessions') = Len(sessions)
    /\ \A i \in DOMAIN sessions :
        /\ sessions'[i].login = sessions[i].login
        /\ sessions'[i].with = sessions[i].with /\ sessions'[i].late = sessions[i].late
        /\ sessions'[i].live => sessions[i].live

\* A step that creates no link, and uses none.
LinksKept ==
    /\ links' \in Seq(Link) /\ Len(links') = Len(links)
    /\ \A i \in DOMAIN links :
        /\ links'[i].uses = links[i].uses
        /\ (links'[i].state = "SPENT") <=> (links[i].state = "SPENT")

ProcessTyped == pc \in [Handler -> Place] /\ task \in [Handler -> Task]

\* Only h moves.
OnlyMoves(h) ==
    /\ ProcessTyped'
    /\ \A g \in Handler \ {h} : pc'[g] = pc[g] /\ task'[g] = task[g]

LEMMA BeginStep ==
  ASSUME TypeOK, NEW h \in Handler, NEW at \in Place, NEW t \in Task, Begin(h, at, t)
  PROVE  OnlyMoves(h) /\ pc[h] = "idle" /\ pc'[h] = at /\ task'[h] = t
BY DEF Begin, TypeOK, OnlyMoves, ProcessTyped, Place

LEMMA MoveStep ==
  ASSUME TypeOK, NEW h \in Handler, NEW from, NEW to \in Place, Move(h, from, to)
  PROVE  OnlyMoves(h) /\ pc[h] = from /\ pc'[h] = to /\ task' = task
BY DEF Move, TypeOK, OnlyMoves, ProcessTyped, Place

LEMMA FinishStep ==
  ASSUME TypeOK, NEW h \in Handler, Finish(h)
  PROVE  OnlyMoves(h) /\ pc'[h] = "idle" /\ task'[h] = NoTask
BY DEF Finish, TypeOK, OnlyMoves, ProcessTyped, Place, Task

LEMMA TasksKeep ==
  ASSUME TypeOK, NEW h \in Handler, OnlyMoves(h), TaskFits(h)'
  PROVE  ProcessTyped' /\ \A g \in Handler : TaskFits(g)'
BY DEF TypeOK, TaskFits, OnlyMoves

LEMMA TypeNext ==
  ASSUME scope' \in {"STAFF", "PUBLIC"}, status' \in {"ACTIVE", "DISABLED"},
         password' \in 0..Passwords, since' \in 0..password',
         sessions' \in Seq(Session), Len(sessions') <= Sessions,
         links' \in Seq(Link), Len(links') <= Links,
         ProcessTyped', \A g \in Handler : TaskFits(g)',
         stale' \subseteq Handler, overtaken' \subseteq Handler
  PROVE  TypeOK'
BY DEF TypeOK, ProcessTyped, TaskFits, Place

\* Sessions that only end keep what the logins' requests rely on, and the properties.
LEMMA SessionsKeep ==
  ASSUME TypeOK, SessionsKept
  PROVE  /\ DOMAIN sessions' = DOMAIN sessions
         /\ \A l \in Nat : Living(l)' \subseteq Living(l)
         /\ (ResetEndsSessions /\ since' = since) => ResetEndsSessions'
         /\ (OneSessionPerLogin /\ skewed \subseteq skewed') => OneSessionPerLogin'
<1>1. DOMAIN sessions' = DOMAIN sessions
  BY LenProperties DEF TypeOK, SessionsKept
<1>2. \A l \in Nat : Living(l)' \subseteq Living(l)
  BY <1>1 DEF SessionsKept, Living
<1>3. (ResetEndsSessions /\ since' = since) => ResetEndsSessions'
  BY <1>1 DEF SessionsKept, ResetEndsSessions
<1>4. (OneSessionPerLogin /\ skewed \subseteq skewed') => OneSessionPerLogin'
  BY <1>1 DEF SessionsKept, OneSessionPerLogin, About
<1> QED BY <1>1, <1>2, <1>3, <1>4

LEMMA LinksKeep ==
  ASSUME TypeOK, LinksGuarded, LinkWorksOnce, LinksKept, skewed \subseteq skewed'
  PROVE  /\ DOMAIN links' = DOMAIN links
         /\ \A i \in DOMAIN links' : links'[i].state # "SPENT" => links'[i].uses = 0
         /\ LinkWorksOnce'
<1>1. DOMAIN links' = DOMAIN links
  BY LenProperties DEF TypeOK, LinksKept
<1> QED BY <1>1 DEF LinksKept, LinksGuarded, LinkWorksOnce

\* What h may rely on after its step, if the step lets sessions only end.
Guarded(h) == \A l \in Nat \ {0} : <<"login", l>> \notin skewed' =>
    /\ On(h, {"store"}, l)' =>
        /\ Living(l)' = {}
        /\ \A g \in Handler \ {h} : ~On(g, {"store"}, l)
        /\ \A g \in Handler \ {h} : On(g, {"rotate", "logout"}, l) => g \in stale'
    /\ On(h, {"rotate", "logout"}, l)' /\ h \notin stale' =>
        /\ Living(l)' \subseteq {task'[h].session}
        /\ \A g \in Handler \ {h} : ~On(g, {"store"}, l)

LEMMA GuardsKeep ==
  ASSUME IInv, NEW h \in Handler, OnlyMoves(h), SessionsKept,
         skewed \subseteq skewed', stale \ {h} \subseteq stale', Guarded(h)
  PROVE  LoginsGuarded'
<1> SUFFICES ASSUME NEW l \in Nat \ {0}, <<"login", l>> \notin skewed' PROVE LoginGuarded(l)'
  BY DEF LoginsGuarded
<1>1. LoginGuarded(l)
  BY DEF IInv, LoginsGuarded
<1>2. Living(l)' \subseteq Living(l)
  BY SessionsKeep DEF IInv
<1>3. \A g \in Handler \ {h} :
        /\ \A places : On(g, places, l)' <=> On(g, places, l)
        /\ task'[g] = task[g]
        /\ g \notin stale' => g \notin stale
  BY DEF OnlyMoves, On
<1>4. ASSUME NEW g \in Handler, On(g, {"store"}, l)'
      PROVE  Living(l)' = {} /\ \A k \in Handler : On(k, {"store"}, l)' => k = g
  <2>1. CASE g = h
    BY <1>3, <1>4, <2>1 DEF Guarded
  <2>2. CASE g # h
    <3>1. On(g, {"store"}, l)
      BY <1>3, <1>4, <2>2
    <3>2. Living(l) = {} /\ \A k \in Handler : On(k, {"store"}, l) => k = g
      BY <1>1, <3>1 DEF LoginGuarded
    <3>3. ~On(h, {"store"}, l)'
      BY <2>2, <3>1 DEF Guarded
    <3> QED BY <1>2, <1>3, <3>2, <3>3
  <2> QED BY <2>1, <2>2
<1>5. ASSUME NEW g \in Handler, On(g, {"rotate", "logout"}, l)', g \notin stale'
      PROVE  Living(l)' \subseteq {task'[g].session} /\ \A k \in Handler : ~On(k, {"store"}, l)'
  <2>1. CASE g = h
    <3>1. ~On(h, {"store"}, l)'
      BY <1>5, <2>1 DEF On
    <3> QED BY <1>3, <1>5, <2>1, <3>1 DEF Guarded
  <2>2. CASE g # h
    <3>1. On(g, {"rotate", "logout"}, l) /\ g \notin stale /\ task'[g] = task[g]
      BY <1>3, <1>5, <2>2
    <3>2. Living(l) \subseteq {task[g].session} /\ \A k \in Handler : ~On(k, {"store"}, l)
      BY <1>1, <3>1 DEF LoginGuarded
    <3>3. ~On(h, {"store"}, l)'
      BY <1>5, <2>2, <3>1 DEF Guarded
    <3> QED BY <1>2, <1>3, <3>1, <3>2, <3>3
  <2> QED BY <2>1, <2>2
<1> QED BY <1>4, <1>5 DEF LoginGuarded

\* What a request to open a session carries, for a step that lets sessions only end.
LEMMA OpensKeep ==
  ASSUME IInv, NEW h \in Handler, OnlyMoves(h), SessionsKept, since' = since,
         overtaken \ {h} \subseteq overtaken', InTime(h)'
  PROVE  OpensInTime'
<1>1. DOMAIN sessions' = DOMAIN sessions
  BY SessionsKeep DEF IInv
<1>2. ASSUME NEW g \in Handler, g # h PROVE InTime(g)'
  <2>1. InTime(g) /\ pc'[g] = pc[g] /\ task'[g] = task[g] /\ (g \in overtaken => g \in overtaken')
    BY <1>2 DEF IInv, OpensInTime, OnlyMoves
  <2> QED BY <1>1, <2>1 DEF InTime, Late, SessionsKept
<1> QED BY <1>2 DEF OpensInTime

\* The conjuncts about sessions, for a step that lets them only end.
LEMMA SessionsQuiet ==
  ASSUME IInv, NEW h \in Handler, OnlyMoves(h), SessionsKept, since' = since,
         skewed \subseteq skewed', stale \ {h} \subseteq stale', Guarded(h),
         overtaken \ {h} \subseteq overtaken', InTime(h)',
         \A l \in Nat : On(h, {"store", "rotate", "logout"}, l)' => l <= Len(sessions)
  PROVE  LoginsKnown' /\ LoginsGuarded' /\ OpensInTime' /\ ResetEndsSessions' /\ OneSessionPerLogin'
<1>1. /\ DOMAIN sessions' = DOMAIN sessions /\ Len(sessions') = Len(sessions)
      /\ ResetEndsSessions' /\ OneSessionPerLogin'
  BY SessionsKeep DEF IInv, SessionsKept
<1>2. LoginsKnown'
  BY <1>1 DEF IInv, LoginsKnown, SessionsKept, On, OnlyMoves
<1> QED BY <1>1, <1>2, GuardsKeep, OpensKeep

\* The conjuncts about links, for a step that creates and uses none.
LEMMA LinksQuiet ==
  ASSUME IInv, NEW h \in Handler, OnlyMoves(h), LinksKept,
         skewed \subseteq skewed', stale \ {h} \subseteq stale',
         pc'[h] = "reset" =>
            /\ task'[h].link \in DOMAIN links /\ task'[h].about = <<"link", task'[h].link>>
            /\ links[task'[h].link].state # "SPENT"
  PROVE  LinksGuarded' /\ LinkWorksOnce'
<1>1. /\ DOMAIN links' = DOMAIN links
      /\ \A i \in DOMAIN links' : links'[i].state # "SPENT" => links'[i].uses = 0
      /\ LinkWorksOnce'
  BY LinksKeep DEF IInv
<1>2. ASSUME NEW g \in Handler, pc'[g] = "reset"
      PROVE  /\ task'[g].link \in DOMAIN links' /\ task'[g].about = <<"link", task'[g].link>>
             /\ g \notin stale' => links'[task'[g].link].state # "SPENT"
  <2>1. CASE g = h
    BY <1>1, <1>2, <2>1 DEF LinksKept
  <2>2. CASE g # h
    BY <1>1, <1>2, <2>2 DEF LinksKept, IInv, LinksGuarded, OnlyMoves
  <2> QED BY <2>1, <2>2
<1> QED BY <1>1, <1>2 DEF LinksGuarded

\* Both, for a step to a place that relies on nothing.
LEMMA Leaves ==
  ASSUME IInv, NEW h \in Handler, OnlyMoves(h), pc'[h] \in {"idle", "issue", "change"},
         SessionsKept, since' = since, skewed \subseteq skewed', stale \ {h} \subseteq stale',
         overtaken \ {h} \subseteq overtaken'
  PROVE  /\ LoginsKnown' /\ LoginsGuarded' /\ OpensInTime'
         /\ ResetEndsSessions' /\ OneSessionPerLogin'
         /\ LinksKept => LinksGuarded' /\ LinkWorksOnce'
<1>1. \A l \in Nat : ~On(h, {"store"}, l)' /\ ~On(h, {"rotate", "logout"}, l)'
                     /\ ~On(h, {"store", "rotate", "logout"}, l)'
  BY DEF On
<1>2. Guarded(h) /\ InTime(h)'
  BY <1>1 DEF Guarded, InTime
<1>3. /\ LoginsKnown' /\ LoginsGuarded' /\ OpensInTime'
      /\ ResetEndsSessions' /\ OneSessionPerLogin'
  BY <1>1, <1>2, SessionsQuiet
<1>4. LinksKept => LinksGuarded' /\ LinkWorksOnce'
  BY LinksQuiet
<1> QED BY <1>3, <1>4

\* Rows that a step leaves as they are.
LEMMA Untouched ==
  ASSUME TypeOK
  PROVE  /\ sessions' = sessions => SessionsKept
         /\ links' = links => LinksKept
BY DEF TypeOK, SessionsKept, LinksKept

\* Revoking one session or all of them lets sessions only end.
LEMMA RevokeKeeps ==
  ASSUME TypeOK, NEW f \in [DOMAIN sessions -> Session], sessions' = f,
         \A i \in DOMAIN sessions : f[i] = sessions[i] \/ f[i] = [sessions[i] EXCEPT !.live = FALSE]
  PROVE  SessionsKept
<1>1. sessions' \in Seq(Session) /\ Len(sessions') = Len(sessions)
  BY SeqMap DEF TypeOK
<1>2. ASSUME NEW i \in DOMAIN sessions
      PROVE  /\ sessions'[i].login = sessions[i].login
             /\ sessions'[i].with = sessions[i].with /\ sessions'[i].late = sessions[i].late
             /\ sessions'[i].live => sessions[i].live
  <2>1. sessions[i] \in Session
    BY LenProperties DEF TypeOK
  <2> QED BY <2>1 DEF Session
<1> QED BY <1>1, <1>2 DEF SessionsKept

-----------------------------------------------------------------------------
LEMMA StepIInv == IInv /\ [Next]_vars => IInv'
<1> SUFFICES ASSUME IInv, [Next]_vars PROVE IInv'
  OBVIOUS
<1>a. /\ TypeOK /\ DOMAIN sessions = 1..Len(sessions) /\ DOMAIN links = 1..Len(links)
      /\ Len(sessions) \in Nat /\ Len(links) \in Nat
  BY LenProperties DEF IInv, TypeOK
<1>1. ASSUME NEW h \in Handler, LoginCheck(h) PROVE IInv'
  <2>1. PICK t \in StoreTask : t = [about |-> <<"login", 0>>, with |-> password]
    <3>1. <<"login", 0>> \in {"login"} \X (0..Sessions) /\ password \in Nat
      BY <1>a DEF TypeOK
    <3> QED BY <3>1 DEF StoreTask
  <2>2. /\ Begin(h, "store", t) /\ t \in Task /\ "store" \in Place
        /\ UNCHANGED <<account, sessions, links, since, history>>
    BY <1>1, <2>1 DEF LoginCheck, Task, Place
  <2>3. OnlyMoves(h) /\ pc'[h] = "store" /\ task'[h] = t
    BY <1>a, <2>2, BeginStep
  <2>4. TaskFits(h)'
    BY <2>1, <2>3 DEF TaskFits
  <2>5. SessionsKept /\ LinksKept
    BY <1>a, <2>2, Untouched
  <2>6. \A l \in Nat : On(h, {"store", "rotate", "logout"}, l)' => l = 0
    BY <2>1, <2>3 DEF On
  <2>7. Guarded(h) /\ InTime(h)'
    <3>1. Guarded(h)
      BY <2>6 DEF Guarded, On
    <3>2. InTime(h)'
      <4>1. t.about[2] = 0 /\ t.with >= since /\ since' = since
        BY <1>a, <2>1, <2>2 DEF TypeOK, account
      <4> QED BY <2>3, <4>1 DEF InTime
    <3> QED BY <3>1, <3>2
  <2>8. TypeOK'
    BY <1>a, <2>2, <2>3, <2>4, TasksKeep, TypeNext DEF TypeOK, account, history
  <2> QED BY <2>2, <2>3, <2>5, <2>6, <2>7, <2>8, <1>a, SessionsQuiet, LinksQuiet DEF IInv, history
<1>b. ASSUME NEW i \in DOMAIN sessions, Recognized(i)
      PROVE  \A l \in Nat \ {0} : <<"login", l>> \notin skewed /\ About(i) = <<"login", l>> =>
                Living(l) \subseteq {i} /\ \A g \in Handler : ~On(g, {"store"}, l)
  <2> SUFFICES ASSUME NEW l \in Nat \ {0}, <<"login", l>> \notin skewed, About(i) = <<"login", l>>
               PROVE  Living(l) \subseteq {i} /\ \A g \in Handler : ~On(g, {"store"}, l)
    OBVIOUS
  <2>1. sessions[i].live /\ sessions[i].login = l
    BY <1>b DEF Recognized, About
  <2>2. i \in Living(l)
    BY <2>1 DEF Living
  <2>3. Living(l) \subseteq {i}
    BY <2>1 DEF IInv, OneSessionPerLogin, Living, About
  <2>4. \A g \in Handler : ~On(g, {"store"}, l)
    BY <2>2 DEF IInv, LoginsGuarded, LoginGuarded
  <2> QED BY <2>3, <2>4
<1>c. ASSUME NEW i \in DOMAIN sessions
      PROVE  /\ About(i) \in {"login"} \X (1..Sessions) /\ i \in 1..Sessions
             /\ sessions[i] \in Session /\ sessions[i].login \in 1..Len(sessions)
             /\ About(i) = <<"login", sessions[i].login>>
  <2>1. sessions[i] \in Session /\ Len(sessions) <= Sessions
    BY <1>a DEF TypeOK
  <2>2. sessions[i].login \in 1..Len(sessions) /\ i \in 1..Sessions
    BY <1>a, <2>1 DEF IInv, LoginsKnown
  <2> QED BY <1>a, <2>1, <2>2 DEF About
<1>d. ASSUME NEW h \in Handler, NEW i \in DOMAIN sessions, Recognized(i),
             NEW at \in {"rotate", "logout"}, NEW t \in Task, t.about = About(i), t.session = i,
             Begin(h, at, t), UNCHANGED <<account, sessions, links, since, history>>,
             TaskFits(h)', InTime(h)'
      PROVE  IInv'
  <2>1. OnlyMoves(h) /\ pc'[h] = at /\ task'[h] = t
    BY <1>a, <1>d, BeginStep DEF Place
  <2>2. SessionsKept /\ LinksKept
    BY <1>a, <1>d, Untouched
  <2>3. \A l \in Nat : On(h, {"store", "rotate", "logout"}, l)' => About(i) = <<"login", l>>
    BY <1>d, <2>1 DEF On
  <2>4. \A l \in Nat : ~On(h, {"store"}, l)'
    BY <2>1 DEF On
  <2>5. \A l \in Nat : Living(l)' = Living(l)
    BY <1>d DEF Living
  <2>6. Guarded(h)
    BY <1>b, <1>d, <2>1, <2>3, <2>4, <2>5 DEF Guarded, On, history
  <2>7. \A l \in Nat : On(h, {"store", "rotate", "logout"}, l)' => l <= Len(sessions)
    BY <1>a, <1>c, <2>3
  <2>8. TypeOK'
    BY <1>a, <1>d, <2>1, TasksKeep, TypeNext DEF TypeOK, account, history
  <2> QED BY <1>d, <2>1, <2>2, <2>6, <2>7, <2>8, SessionsQuiet, LinksQuiet DEF IInv, history
<1>2. ASSUME NEW h \in Handler, NEW i \in DOMAIN sessions, RotateRead(h, i) PROVE IInv'
  <2>1. PICK t \in RotateTask : t = [about |-> About(i), session |-> i, with |-> sessions[i].with]
    <3>1. sessions[i].with \in Nat
      BY <1>c DEF Session
    <3> QED BY <1>c, <3>1 DEF RotateTask
  <2>2. Begin(h, "rotate", t) /\ t \in Task /\ Recognized(i)
        /\ UNCHANGED <<account, sessions, links, since, history>>
    BY <1>2, <2>1 DEF RotateRead, Task
  <2>3. TaskFits(h)'
    BY <1>a, <2>1, <2>2, BeginStep DEF TaskFits, Place
  <2>4. InTime(h)'
    <3>1. task'[h] = t /\ sessions' = sessions /\ since' = since
      BY <1>a, <2>2, BeginStep DEF Place
    <3>2. t.about[2] # 0 /\ t.session = i
      BY <1>c, <2>1
    <3>3. t.with >= since \/ sessions[i].late
      BY <2>1, <2>2 DEF Recognized, IInv, ResetEndsSessions
    <3> QED BY <3>1, <3>2, <3>3 DEF InTime, Late
  <2> QED BY <1>d, <2>1, <2>2, <2>3, <2>4
<1>3. ASSUME NEW h \in Handler, NEW i \in DOMAIN sessions, LogoutRead(h, i) PROVE IInv'
  <2>1. PICK t \in LogoutTask : t = [about |-> About(i), session |-> i]
    BY <1>c DEF LogoutTask
  <2>2. Begin(h, "logout", t) /\ t \in Task /\ Recognized(i)
        /\ UNCHANGED <<account, sessions, links, since, history>>
    BY <1>3, <2>1 DEF LogoutRead, Task
  <2>3. TaskFits(h)' /\ InTime(h)'
    BY <1>a, <2>1, <2>2, BeginStep DEF TaskFits, InTime, Place
  <2> QED BY <1>d, <2>1, <2>2, <2>3
<1>e. ASSUME NEW h \in Handler, Revoke(h), pc[h] \in {"rotate", "logout"}
      PROVE  /\ SessionsKept /\ LinksKept
             /\ task[h].session \notin {i \in DOMAIN sessions' : sessions'[i].live}
             /\ skewed \subseteq skewed' /\ stale \ {h} \subseteq stale' /\ stale' \subseteq Handler
  <2> DEFINE f == [sessions EXCEPT ![task[h].session].live = FALSE]
  <2>1. f \in [DOMAIN sessions -> Session]
    BY <1>c DEF Session
  <2>2. \A i \in DOMAIN sessions : f[i] = sessions[i] \/ f[i] = [sessions[i] EXCEPT !.live = FALSE]
    OBVIOUS
  <2>3. sessions' = f /\ links' = links
    BY <1>e DEF Revoke
  <2>4. \A i \in DOMAIN sessions : i = task[h].session => ~f[i].live
    BY <1>c DEF Session
  <2> HIDE DEF f
  <2>5. SessionsKept /\ LinksKept
    BY <1>a, <2>1, <2>2, <2>3, RevokeKeeps, Untouched
  <2>6. task[h].session \notin {i \in DOMAIN sessions' : sessions'[i].live}
    BY <2>1, <2>3, <2>4
  <2>7. skewed \subseteq skewed' /\ stale \ {h} \subseteq stale' /\ stale' \subseteq Handler
    BY <1>a, <1>e DEF Revoke, Written, TypeOK
  <2> QED BY <2>5, <2>6, <2>7
<1>4. ASSUME NEW h \in Handler, RotateRevoke(h) PROVE IInv'
  <2>1. /\ Move(h, "rotate", "store") /\ Revoke(h) /\ overtaken' = overtaken
        /\ pc[h] = "rotate" /\ "store" \in Place
    BY <1>4 DEF RotateRevoke, Move, Place
  <2>2. OnlyMoves(h) /\ pc'[h] = "store" /\ task' = task
    BY <1>a, <2>1, MoveStep
  <2>3. /\ SessionsKept /\ LinksKept /\ UNCHANGED <<account, since>>
        /\ task[h].session \notin {i \in DOMAIN sessions' : sessions'[i].live}
        /\ skewed \subseteq skewed' /\ stale \ {h} \subseteq stale' /\ stale' \subseteq Handler
    BY <1>e, <2>1 DEF Revoke
  <2>4. task[h] \in RotateTask /\ TaskFits(h)'
    BY <1>a, <2>1, <2>2 DEF TypeOK, TaskFits
  <2>5. ASSUME NEW l \in Nat \ {0}, <<"login", l>> \notin skewed', task[h].about = <<"login", l>>
        PROVE  /\ Living(l)' = {}
               /\ \A g \in Handler \ {h} : ~On(g, {"store"}, l)
               /\ \A g \in Handler \ {h} : On(g, {"rotate", "logout"}, l) => g \in stale'
    <3>1. h \notin stale /\ <<"login", l>> \notin skewed
      BY <2>1, <2>5 DEF Revoke, Written
    <3>2. Living(l) \subseteq {task[h].session} /\ \A g \in Handler : ~On(g, {"store"}, l)
      BY <2>1, <2>5, <3>1 DEF IInv, LoginsGuarded, LoginGuarded, On
    <3>3. Living(l)' \subseteq {task[h].session}
      BY <1>a, <2>3, <3>2, SessionsKeep
    <3>4. Living(l)' = {}
      BY <2>3, <3>3 DEF Living
    <3>5. \A g \in Handler \ {h} : On(g, {"rotate", "logout"}, l) => g \in stale'
      BY <2>1, <2>5 DEF Revoke, Written, On
    <3> QED BY <3>2, <3>4, <3>5
  <2>6. Guarded(h) /\ InTime(h)'
    <3>1. Guarded(h)
      BY <2>2, <2>5 DEF Guarded, On
    <3>2. InTime(h) /\ DOMAIN sessions' = DOMAIN sessions
      BY <1>a, <2>3, SessionsKeep DEF IInv, OpensInTime
    <3>3. InTime(h)'
      BY <2>1, <2>2, <2>3, <3>2 DEF InTime, Late, SessionsKept
    <3> QED BY <3>1, <3>3
  <2>7. \A l \in Nat : On(h, {"store", "rotate", "logout"}, l)' => l <= Len(sessions)
    BY <2>1, <2>2 DEF IInv, LoginsKnown, On
  <2>8. TypeOK'
    BY <1>a, <2>1, <2>2, <2>3, <2>4, TasksKeep, TypeNext DEF TypeOK, account, SessionsKept, LinksKept
  <2> QED BY <2>1, <2>2, <2>3, <2>6, <2>7, <2>8, SessionsQuiet, LinksQuiet DEF IInv
<1>f. ASSUME NEW h \in Handler, Finish(h) PROVE OnlyMoves(h) /\ pc'[h] = "idle" /\ TaskFits(h)'
  BY <1>a, <1>f, FinishStep DEF TaskFits
<1>5. ASSUME NEW h \in Handler, LogoutRevoke(h) PROVE IInv'
  <2>1. Finish(h) /\ Revoke(h) /\ overtaken' = overtaken /\ pc[h] = "logout"
    BY <1>5 DEF LogoutRevoke
  <2>2. /\ SessionsKept /\ LinksKept /\ UNCHANGED <<account, since>>
        /\ skewed \subseteq skewed' /\ stale \ {h} \subseteq stale' /\ stale' \subseteq Handler
    BY <1>e, <2>1 DEF Revoke
  <2>3. TypeOK'
    BY <1>a, <1>f, <2>1, <2>2, TasksKeep, TypeNext DEF TypeOK, account, SessionsKept, LinksKept
  <2> QED BY <1>f, <2>1, <2>2, <2>3, Leaves DEF IInv
<1>g. ASSUME NEW h \in Handler, NEW at \in {"issue", "change"}, NEW t \in OtherTask, Begin(h, at, t)
      PROVE  OnlyMoves(h) /\ pc'[h] = at /\ TaskFits(h)'
  BY <1>a, <1>g, BeginStep DEF TaskFits, Place, Task
<1>6. ASSUME NEW h \in Handler, ResetDrop(h) PROVE IInv'
  <2>1. PICK t \in OtherTask : t = [about |-> <<"links", 0>>]
    BY DEF OtherTask
  <2>2. Begin(h, "issue", t) /\ links' = DropOpen(links)
        /\ UNCHANGED <<account, sessions, since, history>>
    BY <1>6, <2>1 DEF ResetDrop
  <2>3. OnlyMoves(h) /\ pc'[h] = "issue" /\ TaskFits(h)'
    BY <1>g, <2>2
  <2>4. SessionsKept
    BY <1>a, <2>2, Untouched
  <2>5. LinksKept /\ Len(links') = Len(links)
    <3>1. \A i \in DOMAIN links : links[i] \in Link
      BY <1>a DEF TypeOK
    <3>2. DropOpen(links) \in [DOMAIN links -> Link]
      BY <3>1 DEF DropOpen, Link
    <3>3. links' \in Seq(Link) /\ Len(links') = Len(links)
      BY <1>a, <2>2, <3>2, SeqMap DEF TypeOK
    <3>4. \A i \in DOMAIN links : /\ links'[i].uses = links[i].uses
                                  /\ (links'[i].state = "SPENT") <=> (links[i].state = "SPENT")
      BY <2>2, <3>1 DEF DropOpen, Link
    <3> QED BY <3>3, <3>4 DEF LinksKept
  <2>6. TypeOK'
    BY <1>a, <2>2, <2>3, <2>5, TasksKeep, TypeNext DEF TypeOK, account, history, LinksKept
  <2> QED BY <2>2, <2>3, <2>4, <2>5, <2>6, Leaves DEF IInv, history
<1>7. ASSUME NEW h \in Handler, ResetIssue(h) PROVE IInv'
  <2>1. /\ links' = Append(links, [state |-> "OPEN", uses |-> 0]) /\ Len(links) < Links
        /\ Finish(h) /\ UNCHANGED <<account, sessions, since, history>>
    BY <1>7 DEF ResetIssue
  <2>2. [state |-> "OPEN", uses |-> 0] \in Link
    BY DEF Link
  <2>3. /\ links' \in Seq(Link) /\ Len(links') = Len(links) + 1
        /\ \A i \in DOMAIN links : links'[i] = links[i]
        /\ links'[Len(links) + 1] = [state |-> "OPEN", uses |-> 0]
    BY <1>a, <2>1, <2>2, AppendProperties DEF TypeOK
  <2>4. \A i \in DOMAIN links' : i \in DOMAIN links \/ i = Len(links) + 1
    BY <1>a, <2>3, LenProperties
  <2>5. DOMAIN links \subseteq DOMAIN links'
    BY <1>a, <2>3, LenProperties
  <2>6. LinksGuarded' /\ LinkWorksOnce'
    <3>1. \A i \in DOMAIN links' : links'[i].state # "SPENT" => links'[i].uses = 0
      BY <2>3, <2>4 DEF IInv, LinksGuarded
    <3>2. LinkWorksOnce'
      BY <2>1, <2>3, <2>4 DEF IInv, LinkWorksOnce, history
    <3>3. ASSUME NEW g \in Handler, pc'[g] = "reset"
          PROVE  /\ task'[g].link \in DOMAIN links' /\ task'[g].about = <<"link", task'[g].link>>
                 /\ g \notin stale' => links'[task'[g].link].state # "SPENT"
      <4>1. pc[g] = "reset" /\ task'[g] = task[g]
        BY <1>f, <2>1, <3>3 DEF OnlyMoves
      <4> QED BY <2>1, <2>3, <2>5, <4>1 DEF IInv, LinksGuarded, history
    <3> QED BY <3>1, <3>2, <3>3 DEF LinksGuarded
  <2>7. SessionsKept
    BY <1>a, <2>1, Untouched
  <2>8. TypeOK'
    BY <1>a, <1>f, <2>1, <2>3, TasksKeep, TypeNext DEF TypeOK, account, history
  <2> QED BY <1>f, <2>1, <2>6, <2>7, <2>8, Leaves DEF IInv, history
<1>8. ASSUME NEW h \in Handler, NEW i \in DOMAIN links, ResetRead(h, i) PROVE IInv'
  <2>1. PICK t \in ResetTask : t = [about |-> <<"link", i>>, link |-> i]
    <3>1. <<"link", i>> \in {"link"} \X (1..Links) /\ i \in 1..Links
      BY <1>a DEF TypeOK
    <3> QED BY <3>1 DEF ResetTask
  <2>2. Begin(h, "reset", t) /\ t \in Task /\ "reset" \in Place /\ Usable(i)
        /\ UNCHANGED <<account, sessions, links, since, history>>
    BY <1>8, <2>1 DEF ResetRead, Task, Place
  <2>3. OnlyMoves(h) /\ pc'[h] = "reset" /\ task'[h] = t
    BY <1>a, <2>2, BeginStep
  <2>4. TaskFits(h)' /\ Guarded(h) /\ InTime(h)'
        /\ \A l \in Nat : ~On(h, {"store", "rotate", "logout"}, l)'
    BY <2>3 DEF TaskFits, Guarded, InTime, On
  <2>5. SessionsKept /\ LinksKept
    BY <1>a, <2>2, Untouched
  <2>6. links[i].state # "SPENT"
    BY <2>2 DEF Usable
  <2>7. TypeOK'
    BY <1>a, <2>2, <2>3, <2>4, TasksKeep, TypeNext DEF TypeOK, account, history
  <2> QED BY <2>1, <2>2, <2>3, <2>4, <2>5, <2>6, <2>7, SessionsQuiet, LinksQuiet DEF IInv, history
<1>9. ASSUME NEW h \in Handler, ResetCommit(h) PROVE IInv'
  <2>1. PICK k \in DOMAIN links : /\ k = task[h].link /\ task[h].about = <<"link", k>>
                                  /\ h \notin stale => links[k].state # "SPENT"
    BY <1>9 DEF ResetCommit, IInv, LinksGuarded
  <2>2. /\ password < Passwords /\ password' = password + 1 /\ since' = password'
        /\ links' = [links EXCEPT ![k] = [state |-> "SPENT", uses |-> @.uses + 1]]
        /\ sessions' = RevokeAll(sessions) /\ Finish(h) /\ UNCHANGED <<scope, status>>
        /\ Written(h, <<"link", k>>)
        /\ overtaken' = {g \in Handler : pc[g] \in {"rotate", "store"}}
    BY <1>9, <2>1 DEF ResetCommit
  <2>3. skewed \subseteq skewed' /\ stale \ {h} \subseteq stale' /\ stale' \subseteq Handler
    BY <1>a, <2>2 DEF Written, TypeOK
  <2>4. SessionsKept /\ \A i \in DOMAIN sessions : ~sessions'[i].live
    <3> DEFINE f == RevokeAll(sessions)
    <3>1. f \in [DOMAIN sessions -> Session]
      BY <1>c DEF RevokeAll, Session
    <3>2. \A i \in DOMAIN sessions : f[i] = [sessions[i] EXCEPT !.live = FALSE] /\ ~f[i].live
      BY <1>c DEF RevokeAll, Session
    <3> HIDE DEF f
    <3> QED BY <1>a, <2>2, <3>1, <3>2, RevokeKeeps DEF f
  <2>5. DOMAIN sessions' = DOMAIN sessions /\ Len(sessions') = Len(sessions)
    BY <1>a, <2>4, SessionsKeep DEF SessionsKept
  <2>6. /\ LoginsKnown' /\ LoginsGuarded' /\ OpensInTime'
        /\ ResetEndsSessions' /\ OneSessionPerLogin'
    <3>1. OnlyMoves(h) /\ pc'[h] = "idle"
      BY <1>f, <2>2
    <3>2. Guarded(h)
      BY <3>1 DEF Guarded, On
    <3>3. LoginsKnown'
      <4>1. \A i \in DOMAIN sessions' : sessions'[i].login \in 1..i
        BY <2>4, <2>5 DEF IInv, LoginsKnown, SessionsKept
      <4>2. \A g \in Handler : \A l \in Nat :
              pc'[g] \in {"store", "rotate", "logout"} /\ task'[g].about = <<"login", l>> =>
                l <= Len(sessions')
        BY <2>5, <3>1 DEF IInv, LoginsKnown, OnlyMoves
      <4> QED BY <4>1, <4>2 DEF LoginsKnown
    <3>4. LoginsGuarded'
      BY <1>f, <2>2, <2>3, <2>4, <3>2, GuardsKeep
    <3>5. ResetEndsSessions' /\ OneSessionPerLogin'
      BY <2>4, <2>5 DEF ResetEndsSessions, OneSessionPerLogin
    <3>6. OpensInTime'
      <4> SUFFICES ASSUME NEW g \in Handler, pc'[g] \in {"rotate", "store"} PROVE InTime(g)'
        BY DEF OpensInTime, InTime
      <4>1. g # h /\ pc'[g] = pc[g] /\ task'[g] = task[g]
        BY <3>1 DEF OnlyMoves
      <4>2. g \in overtaken'
        BY <2>2, <4>1
      <4> QED BY <2>5, <4>1, <4>2 DEF IInv, OpensInTime, InTime, Late
    <3> QED BY <3>3, <3>4, <3>5, <3>6
  <2>7. /\ links' \in Seq(Link) /\ Len(links') = Len(links) /\ DOMAIN links' = DOMAIN links
        /\ links'[k] = [state |-> "SPENT", uses |-> links[k].uses + 1]
        /\ \A i \in DOMAIN links : i # k => links'[i] = links[i]
    <3>1. \A i \in DOMAIN links : links[i] \in Link
      BY <1>a DEF TypeOK
    <3>2. [state |-> "SPENT", uses |-> links[k].uses + 1] \in Link
      BY <2>1, <3>1 DEF Link
    <3>3. links' \in [DOMAIN links -> Link]
      BY <2>2, <3>1, <3>2
    <3>4. links' \in Seq(Link) /\ Len(links') = Len(links) /\ DOMAIN links' = DOMAIN links
      BY <1>a, <3>3, SeqMap DEF TypeOK
    <3> QED BY <2>1, <2>2, <3>4
  <2>8. LinksGuarded'
    <3>1. \A i \in DOMAIN links' : links'[i].state # "SPENT" => links'[i].uses = 0
      BY <2>7 DEF IInv, LinksGuarded
    <3>2. ASSUME NEW g \in Handler, pc'[g] = "reset"
          PROVE  /\ task'[g].link \in DOMAIN links' /\ task'[g].about = <<"link", task'[g].link>>
                 /\ g \notin stale' => links'[task'[g].link].state # "SPENT"
      <4>1. g # h /\ pc[g] = "reset" /\ task'[g] = task[g]
        BY <1>f, <2>2, <3>2 DEF OnlyMoves
      <4>2. /\ task[g].link \in DOMAIN links /\ task[g].about = <<"link", task[g].link>>
            /\ g \notin stale => links[task[g].link].state # "SPENT"
        BY <4>1 DEF IInv, LinksGuarded
      <4>3. g \notin stale' => g \notin stale /\ task[g].link # k
        BY <2>2, <4>1, <4>2 DEF Written
      <4> QED BY <2>7, <4>1, <4>2, <4>3
    <3> QED BY <3>1, <3>2 DEF LinksGuarded
  <2>9. LinkWorksOnce'
    <3> SUFFICES ASSUME NEW i \in DOMAIN links, <<"link", i>> \notin skewed'
                 PROVE  links'[i].uses <= 1
      BY <2>7 DEF LinkWorksOnce
    <3>1. CASE i # k
      BY <2>3, <2>7, <3>1 DEF IInv, LinkWorksOnce
    <3>2. CASE i = k
      <4>1. h \notin stale
        BY <2>2, <3>2 DEF Written
      <4>2. links[k].uses = 0
        BY <2>1, <4>1 DEF IInv, LinksGuarded
      <4> QED BY <2>7, <3>2, <4>2
    <3> QED BY <3>1, <3>2
  <2>10. password' \in 0..Passwords /\ since' \in 0..password'
    BY <1>a, <2>2 DEF TypeOK
  <2>11. TypeOK'
    BY <1>a, <1>f, <2>2, <2>3, <2>4, <2>7, <2>10, TasksKeep, TypeNext DEF TypeOK, SessionsKept
  <2> QED BY <2>6, <2>8, <2>9, <2>11 DEF IInv
<1>10. ASSUME NEW h \in Handler, ChangeRead(h) PROVE IInv'
  <2>1. PICK t \in OtherTask : t = [about |-> <<"password", 0>>]
    BY DEF OtherTask
  <2>2. Begin(h, "change", t) /\ UNCHANGED <<account, sessions, links, since, history>>
    BY <1>10, <2>1 DEF ChangeRead
  <2>3. OnlyMoves(h) /\ pc'[h] = "change" /\ TaskFits(h)'
    BY <1>g, <2>2
  <2>4. SessionsKept /\ LinksKept
    BY <1>a, <2>2, Untouched
  <2>5. TypeOK'
    BY <1>a, <2>2, <2>3, TasksKeep, TypeNext DEF TypeOK, account, history
  <2> QED BY <2>2, <2>3, <2>4, <2>5, Leaves DEF IInv, history
<1>11. ASSUME NEW h \in Handler, ChangeWrite(h) PROVE IInv'
  <2>1. /\ password < Passwords /\ password' = password + 1 /\ Finish(h)
        /\ stale' = stale \ {h} /\ overtaken' = overtaken \ {h}
        /\ UNCHANGED <<scope, status, sessions, links, since, skewed>>
    BY <1>11 DEF ChangeWrite, Gone
  <2>2. SessionsKept /\ LinksKept
    BY <1>a, <2>1, Untouched
  <2>3. password' \in 0..Passwords /\ since' \in 0..password'
    BY <1>a, <2>1 DEF TypeOK
  <2>4. TypeOK'
    BY <1>a, <1>f, <2>1, <2>3, TasksKeep, TypeNext DEF TypeOK
  <2> QED BY <1>f, <2>1, <2>2, <2>4, Leaves DEF IInv
<1>12. ASSUME NEW h \in Handler, Abort(h) PROVE IInv'
  <2>1. /\ Finish(h) /\ stale' = stale \ {h} /\ overtaken' = overtaken \ {h}
        /\ UNCHANGED <<account, sessions, links, since, skewed>>
    BY <1>12 DEF Abort, Gone
  <2>2. SessionsKept /\ LinksKept
    BY <1>a, <2>1, Untouched
  <2>3. TypeOK'
    BY <1>a, <1>f, <2>1, TasksKeep, TypeNext DEF TypeOK, account
  <2> QED BY <1>f, <2>1, <2>2, <2>3, Leaves DEF IInv
<1>13. ASSUME status' \in {"ACTIVE", "DISABLED"},
              UNCHANGED <<scope, password, sessions, links, since, process, history>>
       PROVE  IInv'
  <2>1. TypeOK'
    BY <1>a, <1>13 DEF TypeOK, process, history
  <2>2. LoginsKnown' /\ LoginsGuarded' /\ OpensInTime' /\ LinksGuarded'
    BY <1>13 DEF IInv, OpensInTime, InTime, Late, LoginsKnown, LoginsGuarded, LoginGuarded, Living, On, LinksGuarded,
                 process, history
  <2>3. ResetEndsSessions' /\ OneSessionPerLogin' /\ LinkWorksOnce'
    BY <1>13 DEF IInv, ResetEndsSessions, OneSessionPerLogin, About, LinkWorksOnce, history
  <2> QED BY <2>1, <2>2, <2>3 DEF IInv
<1>14. ASSUME NEW h \in Handler, Store(h) PROVE IInv'
  <2>1. PICK b \in 0..Sessions : task[h].about = <<"login", b>> /\ task[h].with \in Nat
    <3>1. task[h] \in StoreTask \cup RotateTask
      BY <1>a, <1>14 DEF Store, TypeOK
    <3> QED BY <3>1 DEF StoreTask, RotateTask
  <2>2. b <= Len(sessions)
    BY <1>14, <2>1 DEF Store, IInv, LoginsKnown
  <2>3. PICK n \in 1..(Len(sessions) + 1) : n = IF b = 0 THEN Len(sessions) + 1 ELSE b
    BY <1>a, <2>2
  <2>4. PICK new : new = [live |-> TRUE, login |-> n, with |-> task[h].with,
                          late |-> Late(h)]
    OBVIOUS
  <2>5. /\ pc[h] = "store" /\ Len(sessions) < Sessions
        /\ sessions' = Append(sessions, new) /\ Finish(h)
        /\ stale' = stale \ {h} /\ overtaken' = overtaken \ {h}
        /\ UNCHANGED <<account, links, since, skewed>>
    BY <1>14, <2>1, <2>3, <2>4 DEF Store, Gone
  <2>6. new \in Session /\ new.live /\ new.login = n
        /\ (new.with >= since \/ new.late)
    <3>1. InTime(h)
      BY DEF IInv, OpensInTime
    <3>2. Late(h) \in BOOLEAN
      <4>1. task[h].about[2] # 0 => sessions[task[h].session] \in Session
        BY <1>c, <2>5, <3>1 DEF InTime
      <4> QED BY <4>1 DEF Late, Session
    <3>3. new \in Session
      BY <2>1, <2>3, <2>4, <3>2 DEF Session
    <3>4. new.with >= since \/ new.late
      BY <2>4, <2>5, <3>1 DEF InTime
    <3> QED BY <2>4, <3>3, <3>4
  <2>7. /\ sessions' \in Seq(Session) /\ Len(sessions') = Len(sessions) + 1
        /\ DOMAIN sessions' = DOMAIN sessions \cup {Len(sessions) + 1}
        /\ Len(sessions) + 1 \notin DOMAIN sessions
        /\ \A i \in DOMAIN sessions : sessions'[i] = sessions[i]
        /\ sessions'[Len(sessions) + 1] = new
    <3>1. /\ sessions' \in Seq(Session) /\ Len(sessions') = Len(sessions) + 1
          /\ \A i \in DOMAIN sessions : sessions'[i] = sessions[i]
          /\ sessions'[Len(sessions) + 1] = new
      BY <1>a, <2>5, <2>6, AppendProperties DEF TypeOK
    <3>2. DOMAIN sessions' = 1..(Len(sessions) + 1)
      BY <3>1, LenProperties
    <3> QED BY <1>a, <3>1, <3>2
  <2>8. OnlyMoves(h) /\ pc'[h] = "idle" /\ TaskFits(h)'
    BY <1>f, <2>5
  <2>9. /\ \A places, l : ~On(h, places \ {"idle"}, l)'
        /\ \A g \in Handler \ {h} : \A places, l : On(g, places, l)' <=> On(g, places, l)
    BY <2>8 DEF On, OnlyMoves
  <2>10. TypeOK'
    BY <1>a, <2>5, <2>7, <2>8, TasksKeep, TypeNext DEF TypeOK, account
  <2>11. LoginsKnown'
    <3>1. \A i \in DOMAIN sessions' : sessions'[i].login \in 1..i
      BY <1>a, <2>3, <2>6, <2>7 DEF IInv, LoginsKnown
    <3>2. \A g \in Handler : \A l \in Nat :
            pc'[g] \in {"store", "rotate", "logout"} /\ task'[g].about = <<"login", l>> =>
              l <= Len(sessions')
      <4>1. ASSUME NEW g \in Handler, pc'[g] \in {"store", "rotate", "logout"}
            PROVE  pc[g] = pc'[g] /\ task[g] = task'[g]
        BY <2>8, <4>1 DEF OnlyMoves
      <4>2. \A g \in Handler : \A l \in Nat :
              pc'[g] \in {"store", "rotate", "logout"} /\ task'[g].about = <<"login", l>> =>
                l <= Len(sessions)
        BY <4>1 DEF IInv, LoginsKnown
      <4> QED BY <1>a, <2>7, <4>2
    <3> QED BY <3>1, <3>2 DEF LoginsKnown
  <2>12. ResetEndsSessions' /\ OpensInTime'
    <3>1. ResetEndsSessions'
      BY <2>5, <2>6, <2>7 DEF IInv, ResetEndsSessions
    <3>2. ASSUME NEW g \in Handler, pc'[g] \in {"rotate", "store"} PROVE InTime(g)'
      <4>1. InTime(g) /\ pc[g] = pc'[g] /\ task'[g] = task[g] /\ (g \in overtaken => g \in overtaken')
        BY <2>5, <2>8, <3>2 DEF IInv, OpensInTime, OnlyMoves
      <4> QED BY <2>5, <2>7, <4>1 DEF InTime, Late
    <3> QED BY <3>1, <3>2 DEF OpensInTime, InTime
  \* Where no stale write was made, h's login has no session that lives, and is known to
  \* no request that relies on anything.
  <2>13. ASSUME <<"login", n>> \notin skewed
         PROVE  /\ \A i \in DOMAIN sessions : sessions[i].live => sessions[i].login # n
                /\ \A g \in Handler \ {h} :
                    /\ ~On(g, {"store"}, n)
                    /\ On(g, {"rotate", "logout"}, n) => g \in stale
    <3>1. CASE b = 0
      <4>1. \A i \in DOMAIN sessions : sessions[i].login # n
        BY <1>a, <2>3, <3>1 DEF IInv, LoginsKnown
      <4>2. \A g \in Handler : ~On(g, {"store"}, n) /\ ~On(g, {"rotate", "logout"}, n)
        BY <1>a, <2>3, <3>1 DEF IInv, LoginsKnown, On
      <4> QED BY <4>1, <4>2
    <3>2. CASE b # 0
      <4>1. n = b /\ n \in Nat \ {0} /\ On(h, {"store"}, n)
        BY <2>1, <2>3, <2>5, <3>2 DEF On
      <4>2. LoginGuarded(n)
        BY <2>13, <4>1 DEF IInv, LoginsGuarded
      <4> QED BY <4>1, <4>2 DEF LoginGuarded, Living
    <3> QED BY <3>1, <3>2
  <2>14. OneSessionPerLogin'
    <3> SUFFICES ASSUME NEW i \in DOMAIN sessions', NEW j \in DOMAIN sessions',
                        sessions'[i].live, sessions'[j].live,
                        sessions'[i].login = sessions'[j].login,
                        <<"login", sessions'[i].login>> \notin skewed
                 PROVE  i = j
      BY <2>5 DEF OneSessionPerLogin, About
    <3>1. CASE i \in DOMAIN sessions /\ j \in DOMAIN sessions
      BY <2>7, <3>1 DEF IInv, OneSessionPerLogin, About
    <3>2. CASE i \notin DOMAIN sessions \/ j \notin DOMAIN sessions
      BY <2>6, <2>7, <2>13, <3>2
    <3> QED BY <3>1, <3>2
  <2>15. LoginsGuarded'
    <3> SUFFICES ASSUME NEW l \in Nat \ {0}, <<"login", l>> \notin skewed
                 PROVE  LoginGuarded(l)'
      BY <2>5 DEF LoginsGuarded
    <3>1. ~On(h, {"store"}, l)' /\ ~On(h, {"rotate", "logout"}, l)'
      BY <2>8 DEF On
    <3>2. CASE l = n
      BY <2>5, <2>9, <2>13, <3>1, <3>2 DEF LoginGuarded
    <3>3. CASE l # n
      <4>1. Living(l)' = Living(l)
        BY <2>6, <2>7, <3>3 DEF Living
      <4>2. LoginGuarded(l)
        BY DEF IInv, LoginsGuarded
      <4>3. \A g \in Handler \ {h} : task'[g] = task[g] /\ (g \in stale' <=> g \in stale)
        BY <2>5, <2>8 DEF OnlyMoves
      <4> QED BY <2>9, <3>1, <4>1, <4>2, <4>3 DEF LoginGuarded
    <3> QED BY <3>2, <3>3
  <2>16. LinksGuarded' /\ LinkWorksOnce'
    BY <1>a, <2>5, <2>8, Untouched, LinksQuiet
  <2> QED BY <2>10, <2>11, <2>12, <2>14, <2>15, <2>16 DEF IInv
<1>15. CASE UNCHANGED vars
  BY <1>13, <1>15, <1>a DEF vars, account, TypeOK
<1> QED
  BY <1>1, <1>2, <1>3, <1>4, <1>5, <1>6, <1>7, <1>8, <1>9, <1>10, <1>11, <1>12, <1>13, <1>14, <1>15
  DEF Next, SignIn, Password, ChangeStatus

-----------------------------------------------------------------------------
\* Every variable has its type, and a request's task fits the place it is at: the handlers
\* of auth.service.ts carry what their reads returned, whatever others write meanwhile.
THEOREM TypeCorrect == Spec => []TypeOK
<1>1. IInv => TypeOK
  BY DEF IInv
<1> QED BY InitIInv, StepIInv, <1>1, PTL DEF Spec

\* resetPasswordWithToken ends the sessions that existed: one that lives was opened with the
\* password of the last reset or a later one, unless it goes back to a request that was
\* about to open a session when a reset committed.  The argument: what a request to rotate
\* carries stems from a session that was live when it read, so from InTime.
THEOREM ResetEnds == Spec => []ResetEndsSessions
<1>1. IInv => ResetEndsSessions
  BY DEF IInv
<1> QED BY InitIInv, StepIInv, <1>1, PTL DEF Spec

\* rotateRefreshToken replaces: a login has one session that lives, unless two requests
\* about it overlapped.
THEOREM RotationReplaces == Spec => []OneSessionPerLogin
<1>1. IInv => OneSessionPerLogin
  BY DEF IInv
<1> QED BY InitIInv, StepIInv, <1>1, PTL DEF Spec

\* A reset link sets one password, unless two requests used it at the same time.
THEOREM LinkOnce == Spec => []LinkWorksOnce
<1>1. IInv => LinkWorksOnce
  BY DEF IInv
<1> QED BY InitIInv, StepIInv, <1>1, PTL DEF Spec

=============================================================================
