---------------------------- MODULE AuthSessions ----------------------------
(***************************************************************************)
(* The sessions and password reset links of one verified account            *)
(* (auth.service.ts, and the status changes of user-management.service.ts). *)
(*                                                                         *)
(* A session is a row with the hash of its refresh token; rotating revokes  *)
(* the row and creates another one.  None of these handlers but the reset   *)
(* itself runs in a transaction: each is cut after its reads and at every   *)
(* write.                                                                   *)
(***************************************************************************)
EXTENDS Integers, Sequences, FiniteSets

CONSTANTS
    Handler,        \* requests that may be in flight at once
    Take,           \* how many of the newest sessions a lookup compares with (8)
    Sessions,       \* bound: sessions ever created
    Links,          \* bound: reset links ever sent
    Passwords       \* bound: changes of the password

ASSUME SessionAssumption == {Take, Sessions, Links, Passwords} \subseteq Nat

VARIABLES
    scope,          \* "STAFF" or "PUBLIC": which kind of account this is
    status,         \* its status: DISABLED, or another ("ACTIVE" stands for all of them)
    password,       \* how often the password has changed
    sessions,       \* in the order of their creation (see Session)
    links,          \* reset links, in the order of their creation (see Link)
    since,          \* the password the last reset set
    pc, task,       \* per request: where it is, and what it has read
    stale,          \* requests whose reads another's write has overtaken
    skewed,         \* what was written after such a read
    overtaken       \* requests that were about to open a session when a reset committed
                    \*   (since, these three and the fields so marked are history)

account == <<scope, status, password>>
process == <<pc, task>>
history == <<stale, skewed, overtaken>>
vars == <<account, sessions, links, since, process, history>>

Session == [live : BOOLEAN,         \* revokedAt is null
            login : Nat,            \* history: the session its login created
            with : Nat,             \* history: the password it was opened with
            late : BOOLEAN]         \* history: a reset overtook the request that created it,
                                    \*   or the one behind a session it goes back to
Link == [state : {"OPEN", "SPENT", "DROPPED"}, uses : Nat]      \* uses: history

\* What a request has read, and what it is about: a login's sessions, or a link.
StoreTask == [about : {"login"} \X {0}, with : Nat]
RotateTask == [about : {"login"} \X (1..Sessions), session : 1..Sessions, with : Nat]
LogoutTask == [about : {"login"} \X (1..Sessions), session : 1..Sessions]
ResetTask == [about : {"link"} \X (1..Links), link : 1..Links]
OtherTask == [about : {"links", "password"} \X {0}]
NoTask == <<>>
Task == StoreTask \cup RotateTask \cup LogoutTask \cup ResetTask \cup OtherTask \cup {NoTask}

Init ==
    /\ scope \in {"STAFF", "PUBLIC"}
    /\ status = "ACTIVE" /\ password = 0 /\ since = 0
    /\ sessions = <<>> /\ links = <<>>
    /\ pc = [h \in Handler |-> "idle"]
    /\ task = [h \in Handler |-> NoTask]
    /\ stale = {} /\ skewed = {} /\ overtaken = {}

-----------------------------------------------------------------------------
(* Steps of a request.                                                      *)

Begin(h, at, t) ==
    /\ pc[h] = "idle"
    /\ pc' = [pc EXCEPT ![h] = at]
    /\ task' = [task EXCEPT ![h] = t]

Move(h, from, to) ==
    /\ pc[h] = from
    /\ pc' = [pc EXCEPT ![h] = to]
    /\ UNCHANGED task

\* Mutant: the request's data outlives it.
Leave(h) == pc' = [pc EXCEPT ![h] = "idle"] /\ UNCHANGED task

Finish(h) ==
    /\ pc' = [pc EXCEPT ![h] = "idle"]
    /\ task' = [task EXCEPT ![h] = NoTask]

\* h's write: the other requests about the same thing are stale now.
Written(h, about) ==
    /\ skewed' = IF h \in stale THEN skewed \cup {about} ELSE skewed
    /\ stale' = (stale \cup {g \in Handler : pc[g] # "idle" /\ task[g].about = about}) \ {h}

\* h is over, and wrote nothing the others have read.
Gone(h) == stale' = stale \ {h} /\ overtaken' = overtaken \ {h}

\* A statement fails or the process dies: what is written stays.
Abort(h) ==
    /\ pc[h] # "idle"
    /\ Finish(h) /\ Gone(h)
    /\ UNCHANGED <<account, sessions, links, since, skewed>>

-----------------------------------------------------------------------------
(* Signing in, rotating, signing out.                                       *)

\* loginWithPassword, and the session that completing the sign-up opens.
LoginCheck(h) ==
    /\ status # "DISABLED"
    /\ Begin(h, "store", [about |-> <<"login", 0>>, with |-> password])
    /\ UNCHANGED <<account, sessions, links, since, history>>

\* History: a reset overtook h, or the request behind the session it rotates.
Late(h) == h \in overtaken \/ (task[h].about[2] # 0 /\ sessions[task[h].session].late)

\* createStaffSession, createPublicSession: the row of the new token.
Store(h) ==
    /\ pc[h] = "store" /\ Len(sessions) < Sessions
    /\ LET login == task[h].about[2] IN
        sessions' = Append(sessions, [
            live |-> TRUE, login |-> IF login = 0 THEN Len(sessions) + 1 ELSE login,
            with |-> task[h].with, late |-> Late(h)])
    /\ Finish(h) /\ Gone(h)
    /\ UNCHANGED <<account, links, since, skewed>>

\* Mutant: the lookup does not ask for revokedAt.
RecognizedAnyway(i) == Cardinality({j \in DOMAIN sessions : j > i}) < Take

\* findStoredStaffRefreshToken, findStoredPublicRefreshToken: among the newest.
Recognized(i) ==
    sessions[i].live /\ Cardinality({j \in DOMAIN sessions : j > i /\ sessions[j].live}) < Take

About(i) == <<"login", sessions[i].login>>

\* rotateRefreshToken: the lookup and the account; the old row; the new one (Store).
RotateRead(h, i) ==
    /\ Recognized(i) /\ status # "DISABLED"
    /\ Begin(h, "rotate", [about |-> About(i), session |-> i, with |-> sessions[i].with])
    /\ UNCHANGED <<account, sessions, links, since, history>>

LogoutRead(h, i) ==
    /\ Recognized(i)
    /\ Begin(h, "logout", [about |-> About(i), session |-> i])
    /\ UNCHANGED <<account, sessions, links, since, history>>

\* By id, whether or not the row has been revoked meanwhile.
Revoke(h) ==
    /\ sessions' = [sessions EXCEPT ![task[h].session].live = FALSE]
    /\ Written(h, task[h].about)
    /\ UNCHANGED <<account, links, since>>

RotateRevoke(h) == Move(h, "rotate", "store") /\ Revoke(h) /\ UNCHANGED overtaken

LogoutRevoke(h) == pc[h] = "logout" /\ Finish(h) /\ Revoke(h) /\ UNCHANGED overtaken

-----------------------------------------------------------------------------
(* Passwords.                                                               *)

DropOpen(all) ==
    [i \in DOMAIN all |-> IF all[i].state = "OPEN" THEN [all[i] EXCEPT !.state = "DROPPED"] ELSE all[i]]

\* requestPasswordReset: the links that were not used are deleted, then one is created.
ResetDrop(h) ==
    /\ scope = "PUBLIC" => status # "DISABLED"
    /\ Begin(h, "issue", [about |-> <<"links", 0>>])
    /\ links' = DropOpen(links)
    /\ UNCHANGED <<account, sessions, since, history>>

ResetIssue(h) ==
    /\ pc[h] = "issue" /\ Len(links) < Links
    /\ links' = Append(links, [state |-> "OPEN", uses |-> 0])
    /\ Finish(h)
    /\ UNCHANGED <<account, sessions, since, history>>

\* Mutant: a link that was used is as good as an open one.
NotDropped(i) == links[i].state # "DROPPED"

Usable(i) == links[i].state = "OPEN"

\* resetPasswordWithToken: the link is looked up before the transaction.
ResetRead(h, i) ==
    /\ Usable(i)
    /\ Begin(h, "reset", [about |-> <<"link", i>>, link |-> i])
    /\ UNCHANGED <<account, sessions, links, since, history>>

RevokeAll(all) == [i \in DOMAIN all |-> [all[i] EXCEPT !.live = FALSE]]

\* The transaction: it fails if the link was deleted, and does not look whether it
\* was used.
ResetCommit(h) ==
    /\ pc[h] = "reset" /\ password < Passwords
    /\ links[task[h].link].state # "DROPPED"
    /\ password' = password + 1 /\ since' = password'
    /\ links' = [links EXCEPT ![task[h].link] = [state |-> "SPENT", uses |-> @.uses + 1]]
    /\ sessions' = RevokeAll(sessions)
    /\ Finish(h)
    /\ Written(h, task[h].about)
    /\ overtaken' = {g \in Handler : pc[g] \in {"rotate", "store"}}
    /\ UNCHANGED <<scope, status>>

\* changeStaffPassword: checked against the password as it is read; no session ends.
ChangeRead(h) ==
    /\ scope = "STAFF" /\ status # "DISABLED"
    /\ Begin(h, "change", [about |-> <<"password", 0>>])
    /\ UNCHANGED <<account, sessions, links, since, history>>

ChangeWrite(h) ==
    /\ pc[h] = "change" /\ password < Passwords
    /\ password' = password + 1
    /\ Finish(h) /\ Gone(h)
    /\ UNCHANGED <<scope, status, sessions, links, since, skewed>>

\* changeManagedUserStatus: one update, no session ends.
ChangeStatus(s) ==
    /\ status' = s
    /\ UNCHANGED <<scope, password, sessions, links, since, process, history>>

-----------------------------------------------------------------------------
SignIn(h) ==
    \/ LoginCheck(h) \/ Store(h)
    \/ \E i \in DOMAIN sessions : RotateRead(h, i) \/ LogoutRead(h, i)
    \/ RotateRevoke(h) \/ LogoutRevoke(h)

Password(h) ==
    \/ ResetDrop(h) \/ ResetIssue(h)
    \/ \E i \in DOMAIN links : ResetRead(h, i)
    \/ ResetCommit(h)
    \/ ChangeRead(h) \/ ChangeWrite(h)

Next ==
    \/ \E h \in Handler : SignIn(h) \/ Password(h) \/ Abort(h)
    \/ \E s \in {"ACTIVE", "DISABLED"} : ChangeStatus(s)

Spec == Init /\ [][Next]_vars

-----------------------------------------------------------------------------
(* Correctness.                                                             *)

\* Every variable has its type, and a request's task fits the place it is at.
TypeOK ==
    /\ scope \in {"STAFF", "PUBLIC"} /\ status \in {"ACTIVE", "DISABLED"}
    /\ password \in 0..Passwords /\ since \in 0..password
    /\ sessions \in Seq(Session) /\ Len(sessions) <= Sessions
    /\ links \in Seq(Link) /\ Len(links) <= Links
    /\ pc \in [Handler -> {"idle", "store", "rotate", "logout", "issue", "reset", "change"}]
    /\ task \in [Handler -> Task]
    /\ \A h \in Handler :
        /\ pc[h] = "idle" => task[h] = NoTask
        /\ pc[h] = "store" => task[h] \in StoreTask \cup RotateTask
        /\ pc[h] = "rotate" => task[h] \in RotateTask
        /\ pc[h] = "logout" => task[h] \in LogoutTask
        /\ pc[h] = "reset" => task[h] \in ResetTask
        /\ pc[h] \in {"issue", "change"} => task[h] \in OtherTask
    /\ stale \subseteq Handler /\ overtaken \subseteq Handler

\* "existing sessions were revoked": a session that lives was opened with the password of
\* the last reset or a later one, however it was rotated since, unless it goes back to a
\* request that was about to open a session when a reset committed.
ResetEndsSessions ==
    \A i \in DOMAIN sessions : sessions[i].live => sessions[i].with >= since \/ sessions[i].late

\* Rotating replaces: a login has one session that lives, unless two requests about it
\* overlapped.
OneSessionPerLogin ==
    \A i, j \in DOMAIN sessions :
        /\ sessions[i].live /\ sessions[j].live /\ sessions[i].login = sessions[j].login
        /\ About(i) \notin skewed
        => i = j

\* A reset link works once, unless two requests used it at the same time.
LinkWorksOnce ==
    \A i \in DOMAIN links : <<"link", i>> \notin skewed => links[i].uses <= 1

=============================================================================
