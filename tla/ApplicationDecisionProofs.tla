---------------------- MODULE ApplicationDecisionProofs ----------------------
(***************************************************************************)
(* Safety of the landlord's decision and the renter's answers, for any      *)
(* number of cases, units, landlords, items and handlers.  The inductive    *)
(* invariant says what the advisory lock buys: what a handler has checked   *)
(* of its case still holds when it writes, whatever the others have done to *)
(* other cases.  Under the lock the handlers implement InformationDialog.   *)
(***************************************************************************)
EXTENDS ApplicationDecision, TLAPS

USE CaseAssumption, NullAssumption, BoundAssumption

Place == {"idle", "decide", "occupy", "submit", "respond"}

TaskFits(h) ==
    /\ pc[h] = "idle" => task[h] = NoTask
    /\ pc[h] \in {"decide", "occupy"} => task[h] \in DecideTask
    /\ pc[h] = "submit" => task[h] \in SubmitTask
    /\ pc[h] = "respond" => task[h] \in RespondTask

\* A decision that has been checked may still be made.
DecisionHolds(t) ==
    /\ ~AwaitsRenter(t.case)
    /\ t.decision = "HOLD" <=> t.items # {}
    /\ t.same => Unchanged(t.case, t.decision, t.by, t.note, t.items)
    /\ ~t.same => at[t.case] < MaxDecisions

\* What a handler's lock keeps true of its case.
Holds(h) ==
    /\ pc[h] \in {"decide", "occupy"} => lock[task[h].case] = h /\ DecisionHolds(task[h])
    /\ pc[h] = "occupy" =>
        /\ task[h].decision = "APPROVED" /\ task[h].unit \in Unit
        /\ task[h].summary # Vacant
    /\ pc[h] = "submit" =>
        /\ lock[task[h].case] = h
        /\ MayAnswer(task[h].case, task[h].at, task[h].items)

LocksHold == \A h \in Handler : Holds(h)

\* A request is answered once, and only the latest can be unanswered.
AnswersCounted == \A c \in Case : \A v \in Stamp :
    /\ answers[c][v] \in {0, 1}
    /\ answers[c][v] = 1 => v <= at[c] /\ (v = at[c] => response[c] # NoResponse)

IInv ==
    /\ TypeOK
    /\ LocksHold
    /\ AnswersCounted
    /\ OccupiedUnitOccupiesHouse

-----------------------------------------------------------------------------
\* The property is vacant only if every unit is.
LEMMA SummaryOccupied ==
  ASSUME NEW o \in [Unit -> Occupancy]
  PROVE  /\ Summary(o) \in Occupancy
         /\ \A u \in Unit : o[u] # Vacant => Summary(o) # Vacant
<1> DEFINE occupied == {u \in Unit : o[u] # Vacant}
<1>1. Summary(o) = IF occupied = {} THEN Vacant
                   ELSE IF \E u \in occupied : occupied = {u} THEN o[CHOOSE u \in occupied : TRUE]
                   ELSE Unnamed
  BY DEF Summary
<1>2. occupied # {} => (CHOOSE u \in occupied : TRUE) \in occupied
  OBVIOUS
<1>3. \A u \in occupied : o[u] # Vacant /\ o[u] \in Occupancy
  OBVIOUS
<1>4. {Vacant, Unnamed} \subseteq Occupancy
  BY DEF Occupancy
<1> HIDE DEF occupied
<1>5. occupied # {} => Summary(o) # Vacant
  BY <1>1, <1>2, <1>3
<1>6. Summary(o) \in Occupancy
  BY <1>1, <1>2, <1>3, <1>4
<1>7. ASSUME NEW u \in Unit, o[u] # Vacant PROVE occupied # {}
  BY <1>7 DEF occupied
<1> QED BY <1>5, <1>6, <1>7

LEMMA InitIInv == Init => IInv
<1> SUFFICES ASSUME Init PROVE IInv
  OBVIOUS
<1>1. NoTask \in Task /\ NoResponse \in Response /\ 0 \in Stamp /\ 1 \in Stamp
  BY DEF Task, NoResponse, Response, Stamp
<1>2. /\ decision \in [Case -> Decision \cup {"NONE"}]
      /\ at \in [Case -> Stamp]
      /\ by \in [Case -> Landlord \cup {NoLandlord}]
  BY <1>1 DEF Init, Decision
<1>3. /\ note \in [Case -> Note \cup {NoNote}]
      /\ requested \in [Case -> SUBSET Item]
      /\ response \in [Case -> Response]
      /\ link \in [Case -> {"PENDING", "ACCEPTED", "WITHDRAWN"}]
      /\ unitOf \in [Case -> Unit \cup {NoUnit}]
  BY <1>1 DEF Init
<1>4. occupancy \in [Unit -> Occupancy] /\ house \in Occupancy /\ edits \in 0..MaxEdits
  BY DEF Init, Occupancy
<1>5. /\ lock \in [Case -> Handler \cup {NoHandler}]
      /\ pc \in [Handler -> Place]
      /\ task \in [Handler -> Task]
      /\ \A h \in Handler : pc[h] = "idle" /\ task[h] = NoTask
  BY <1>1 DEF Init, Place
<1>6. /\ answers \in [Case -> [Stamp -> Nat]]
      /\ \A c \in Case : \A v \in Stamp : answers[c][v] = 0
      /\ stale = {} /\ skewed = {}
  BY DEF Init
<1>7. TypeOK
  BY <1>2, <1>3, <1>4, <1>5, <1>6 DEF TypeOK, Place
<1>8. LocksHold /\ AnswersCounted
  BY <1>5, <1>6 DEF LocksHold, Holds, AnswersCounted
<1>9. OccupiedUnitOccupiesHouse
  BY DEF Init, OccupiedUnitOccupiesHouse
<1> QED BY <1>7, <1>8, <1>9 DEF IInv

-----------------------------------------------------------------------------
FileTyped ==
    /\ decision \in [Case -> Decision \cup {"NONE"}]
    /\ at \in [Case -> Stamp]
    /\ by \in [Case -> Landlord \cup {NoLandlord}]
    /\ note \in [Case -> Note \cup {NoNote}]
    /\ requested \in [Case -> SUBSET Item]
    /\ response \in [Case -> Response]

PropertyTyped ==
    /\ unitOf \in [Case -> Unit \cup {NoUnit}]
    /\ occupancy \in [Unit -> Occupancy]
    /\ house \in Occupancy
    /\ edits \in 0..MaxEdits

ProcessTyped ==
    /\ lock \in [Case -> Handler \cup {NoHandler}]
    /\ pc \in [Handler -> Place]
    /\ task \in [Handler -> Task]

HistoryTyped == stale \subseteq Handler /\ skewed \subseteq Unit

LEMMA TypeParts ==
    TypeOK <=>
        /\ FileTyped /\ PropertyTyped /\ ProcessTyped
        /\ link \in [Case -> {"PENDING", "ACCEPTED", "WITHDRAWN"}]
        /\ answers \in [Case -> [Stamp -> Nat]]
        /\ \A h \in Handler : TaskFits(h)
        /\ HistoryTyped
BY DEF TypeOK, FileTyped, PropertyTyped, ProcessTyped, HistoryTyped, TaskFits, Place

LEMMA TypeNext ==
  ASSUME FileTyped', PropertyTyped', ProcessTyped',
         link' \in [Case -> {"PENDING", "ACCEPTED", "WITHDRAWN"}],
         answers' \in [Case -> [Stamp -> Nat]],
         \A h \in Handler : TaskFits(h)', HistoryTyped'
  PROVE  TypeOK'
BY DEF TypeOK, FileTyped, PropertyTyped, ProcessTyped, HistoryTyped, TaskFits, Place

\* Case c's row is as it was.
FileKept(c) ==
    /\ decision'[c] = decision[c] /\ at'[c] = at[c] /\ by'[c] = by[c]
    /\ note'[c] = note[c] /\ requested'[c] = requested[c] /\ response'[c] = response[c]

\* Handler h moves, no other does, and no case that another has locked changes.
OnlyMoves(h) ==
    /\ ProcessTyped'
    /\ \A g \in Handler \ {h} : pc'[g] = pc[g] /\ task'[g] = task[g]
    /\ \A c \in Case : lock[c] \in Handler \ {h} => lock'[c] = lock[c] /\ FileKept(c)

LEMMA HandlersKeep ==
  ASSUME IInv, NEW h \in Handler, OnlyMoves(h), TaskFits(h)', Holds(h)'
  PROVE  (\A g \in Handler : TaskFits(g)') /\ LocksHold'
<1> SUFFICES ASSUME NEW g \in Handler, g # h PROVE TaskFits(g)' /\ Holds(g)'
  BY DEF LocksHold
<1>1. TaskFits(g) /\ Holds(g) /\ pc'[g] = pc[g] /\ task'[g] = task[g]
  BY TypeParts DEF IInv, LocksHold, OnlyMoves
<1>2. TaskFits(g)'
  BY <1>1 DEF TaskFits
<1>3. CASE pc[g] \in {"decide", "occupy"}
  <2>1. PICK c \in Case : c = task[g].case
    BY <1>1, <1>3 DEF TaskFits, DecideTask
  <2>2. lock[c] = g /\ lock'[c] = g /\ FileKept(c)
    BY <1>1, <1>3, <2>1 DEF Holds, OnlyMoves
  <2>3. DecisionHolds(task[g])'
    BY <1>1, <1>3, <2>1, <2>2 DEF Holds, DecisionHolds, FileKept, AwaitsRenter, Unchanged
  <2> QED BY <1>1, <1>2, <1>3, <2>1, <2>2, <2>3 DEF Holds
<1>4. CASE pc[g] = "submit"
  <2>1. PICK c \in Case : c = task[g].case
    BY <1>1, <1>4 DEF TaskFits, SubmitTask
  <2>2. lock[c] = g /\ lock'[c] = g /\ FileKept(c)
    BY <1>1, <1>4, <2>1 DEF Holds, OnlyMoves
  <2> QED BY <1>1, <1>2, <1>4, <2>1, <2>2 DEF Holds, FileKept, MayAnswer
<1>5. CASE pc[g] \notin {"decide", "occupy", "submit"}
  BY <1>1, <1>2, <1>5 DEF Holds
<1> QED BY <1>3, <1>4, <1>5

LEMMA FinishStep ==
  ASSUME TypeOK, NEW h \in Handler, Finish(h)
  PROVE  /\ ProcessTyped' /\ pc'[h] = "idle" /\ task'[h] = NoTask
         /\ \A g \in Handler \ {h} : pc'[g] = pc[g] /\ task'[g] = task[g]
         /\ \A c \in Case : lock[c] \in Handler \ {h} => lock'[c] = lock[c]
         /\ TaskFits(h)' /\ Holds(h)'
<1>1. "idle" \in Place /\ NoTask \in Task
  BY DEF Place, Task
<1>2. ProcessTyped
  BY TypeParts
<1>3. /\ ProcessTyped' /\ pc'[h] = "idle" /\ task'[h] = NoTask
      /\ \A g \in Handler \ {h} : pc'[g] = pc[g] /\ task'[g] = task[g]
      /\ \A c \in Case : lock[c] \in Handler \ {h} => lock'[c] = lock[c]
  BY <1>1, <1>2 DEF Finish, ProcessTyped
<1> QED BY <1>3 DEF TaskFits, Holds

\* The write of a decision changes its own case's row, and counts on with decisionAt.
LEMMA WriteFileKeeps ==
  ASSUME IInv, NEW h \in Handler, pc[h] \in {"decide", "occupy"}, WriteFile(h), answers' = answers
  PROVE  /\ FileTyped' /\ AnswersCounted'
         /\ \A c \in Case : c # task[h].case => FileKept(c)
<1>1. PICK t \in DecideTask : t = task[h]
  BY DEF IInv, TypeOK
<1>2. PICK c \in Case : c = t.case
  BY <1>1 DEF DecideTask
<1>3. /\ t.decision \in Decision /\ t.by \in Landlord /\ t.note \in Note \cup {NoNote}
      /\ t.items \subseteq Item
  BY <1>1 DEF DecideTask
<1>4. DecisionHolds(t)
  BY <1>1 DEF IInv, LocksHold, Holds
<1>5. FileTyped
  BY TypeParts DEF IInv
<1>6. /\ StampOf(t) \in Stamp /\ at[c] \in Stamp
      /\ (t.same => StampOf(t) = at[c]) /\ (~t.same => StampOf(t) = at[c] + 1)
  BY <1>2, <1>4, <1>5 DEF StampOf, DecisionHolds, FileTyped, Stamp
<1>7. /\ decision' = [decision EXCEPT ![c] = t.decision]
      /\ at' = [at EXCEPT ![c] = StampOf(t)]
      /\ by' = [by EXCEPT ![c] = t.by]
      /\ note' = [note EXCEPT ![c] = t.note]
      /\ requested' = [requested EXCEPT ![c] = IF t.decision = "HOLD" THEN t.items ELSE @]
      /\ response' = [response EXCEPT ![c] = IF Clears(t) THEN NoResponse ELSE @]
  BY <1>1, <1>2 DEF WriteFile
<1>8. NoResponse \in Response
  BY DEF NoResponse, Response, Stamp
<1>9. FileTyped'
  BY <1>3, <1>5, <1>6, <1>7, <1>8 DEF FileTyped
<1>10. ASSUME NEW d \in Case, d # c PROVE FileKept(d)
  BY <1>5, <1>7, <1>10 DEF FileTyped, FileKept
<1>11. AnswersCounted'
  <2> SUFFICES ASSUME NEW d \in Case, NEW v \in Stamp, answers[d][v] = 1
               PROVE  v <= at'[d] /\ (v = at'[d] => response'[d] # NoResponse)
    BY DEF IInv, AnswersCounted
  <2>1. v <= at[d] /\ (v = at[d] => response[d] # NoResponse)
    BY DEF IInv, AnswersCounted
  <2>2. CASE d # c
    BY <1>10, <2>1, <2>2 DEF FileKept
  <2>3. CASE d = c /\ t.same
    BY <1>5, <1>6, <1>7, <2>1, <2>3 DEF FileTyped, Clears
  <2>4. CASE d = c /\ ~t.same
    BY <1>5, <1>6, <1>7, <2>1, <2>4 DEF FileTyped, Stamp
  <2> QED BY <2>2, <2>3, <2>4
<1> QED BY <1>1, <1>2, <1>9, <1>10, <1>11

-----------------------------------------------------------------------------
LEMMA StepIInv == IInv /\ [Next]_vars => IInv'
<1> SUFFICES ASSUME IInv, [Next]_vars PROVE IInv'
  OBVIOUS
<1>a. TypeOK /\ FileTyped /\ PropertyTyped /\ ProcessTyped /\ HistoryTyped
  BY TypeParts DEF IInv
<1>b. UNCHANGED file => FileTyped' /\ \A c \in Case : FileKept(c)
  BY <1>a DEF file, FileTyped, FileKept
<1>c. UNCHANGED <<file, answers>> => AnswersCounted'
  BY DEF IInv, AnswersCounted, file
<1>d. UNCHANGED property => PropertyTyped' /\ OccupiedUnitOccupiesHouse'
  BY <1>a DEF IInv, property, PropertyTyped, OccupiedUnitOccupiesHouse
<1>e. UNCHANGED answers => answers' \in [Case -> [Stamp -> Nat]]
  BY <1>a DEF TypeOK
<1>f. UNCHANGED link => link' \in [Case -> {"PENDING", "ACCEPTED", "WITHDRAWN"}]
  BY <1>a DEF TypeOK
<1>i. UNCHANGED history => HistoryTyped'
  BY <1>a DEF history, HistoryTyped
<1>j. ASSUME NEW h \in Handler, Overtakes(h), skewed' \subseteq Unit PROVE HistoryTyped'
  BY <1>a, <1>j DEF Overtakes, Overtaken, HistoryTyped
<1>1. ASSUME NEW h \in Handler, NEW c \in Case, NEW d \in Decision, NEW l \in Landlord,
             NEW n \in Note \cup {NoNote}, NEW items \in SUBSET Item,
             DecideCheck(h, c, d, l, n, items)
      PROVE  IInv'
  <2>1. PICK t \in DecideTask :
          t = [case |-> c, decision |-> d, by |-> l, note |-> n, items |-> items,
               same |-> Unchanged(c, d, l, n, items), unit |-> unitOf[c], summary |-> Vacant]
    <3>1. Unchanged(c, d, l, n, items) \in BOOLEAN
      BY DEF Unchanged
    <3>2. unitOf[c] \in Unit \cup {NoUnit} /\ Vacant \in Occupancy
      BY <1>a DEF PropertyTyped, Occupancy
    <3> QED BY <3>1, <3>2 DEF DecideTask
  <2>2. /\ t.case = c /\ t.decision = d /\ t.by = l /\ t.note = n /\ t.items = items
        /\ t.same = Unchanged(c, d, l, n, items) /\ t.unit = unitOf[c] /\ t \in Task
    BY <2>1 DEF Task
  <2>3. /\ task' = [task EXCEPT ![h] = t] /\ pc' = [pc EXCEPT ![h] = "decide"]
        /\ lock' = [lock EXCEPT ![c] = h] /\ lock[c] = NoHandler
        /\ MayDecide(c, d) /\ (d = "HOLD" <=> items # {})
        /\ Unchanged(c, d, l, n, items) \/ at[c] < MaxDecisions
        /\ UNCHANGED <<file, link, property, answers, history>>
    BY <1>1, <2>1 DEF DecideCheck
  <2>4. ProcessTyped' /\ pc'[h] = "decide" /\ task'[h] = t /\ lock'[c] = h
    BY <1>a, <2>2, <2>3 DEF ProcessTyped, Place
  <2>5. DecisionHolds(t)
    BY <1>a, <2>2, <2>3 DEF DecisionHolds, MayDecide, FileTyped
  <2>6. DecisionHolds(t)'
    BY <2>3, <2>5 DEF DecisionHolds, AwaitsRenter, Unchanged, file
  <2>7. TaskFits(h)' /\ Holds(h)'
    BY <2>1, <2>2, <2>4, <2>6 DEF TaskFits, Holds
  <2>8. OnlyMoves(h)
    BY <1>a, <1>b, <2>3, <2>4 DEF OnlyMoves, ProcessTyped
  <2>9. LocksHold' /\ \A g \in Handler : TaskFits(g)'
    BY <2>7, <2>8, HandlersKeep
  <2>10. TypeOK'
    BY <1>b, <1>d, <1>e, <1>f, <1>i, <2>3, <2>4, <2>9, TypeNext
  <2> QED BY <1>c, <1>d, <2>3, <2>9, <2>10 DEF IInv
<1>g. ASSUME NEW h \in Handler, Finish(h), FileTyped', AnswersCounted',
             PropertyTyped', OccupiedUnitOccupiesHouse',
             answers' \in [Case -> [Stamp -> Nat]], HistoryTyped',
             link' \in [Case -> {"PENDING", "ACCEPTED", "WITHDRAWN"}],
             \A c \in Case : lock[c] \in Handler \ {h} => FileKept(c)
      PROVE  IInv'
  <2>1. OnlyMoves(h) /\ TaskFits(h)' /\ Holds(h)'
    BY <1>a, <1>g, FinishStep DEF OnlyMoves
  <2>2. LocksHold' /\ \A g \in Handler : TaskFits(g)'
    BY <2>1, HandlersKeep
  <2>3. TypeOK'
    BY <1>g, <2>1, <2>2, TypeNext DEF OnlyMoves
  <2> QED BY <1>g, <2>2, <2>3 DEF IInv
<1>2. ASSUME NEW h \in Handler, OccupyUnit(h) PROVE IInv'
  <2>1. PICK t \in DecideTask :
          /\ t = task[h] /\ pc[h] = "decide" /\ t.decision = "APPROVED" /\ t.unit # NoUnit
          /\ unitOf[t.case] = t.unit
    BY <1>2, <1>a DEF OccupyUnit, ApprovesUnit, TypeOK
  <2>2. t.case \in Case /\ t.unit \in Unit /\ RenterOf[t.case] \in Renter
    BY <2>1 DEF DecideTask
  <2>3. PICK s \in Occupancy : s = ReadUnits(h) /\ s # Vacant
    <3>1. /\ Occupied(h) \in [Unit -> Occupancy]
          /\ Occupied(h)[t.unit] = RenterOf[t.case] /\ RenterOf[t.case] # Vacant
      BY <1>a, <2>1, <2>2 DEF Occupied, PropertyTyped, Occupancy
    <3> QED BY <2>2, <3>1, SummaryOccupied DEF ReadUnits
  <2>4. PICK r \in DecideTask : r = [t EXCEPT !.summary = s]
    BY <2>2, <2>3 DEF DecideTask
  <2>5. /\ r.case = t.case /\ r.decision = t.decision /\ r.by = t.by /\ r.note = t.note
        /\ r.items = t.items /\ r.same = t.same /\ r.unit = t.unit /\ r.summary = s /\ r \in Task
    BY <2>4 DEF DecideTask, Task
  <2>6. /\ task' = [task EXCEPT ![h] = r] /\ pc' = [pc EXCEPT ![h] = "occupy"]
        /\ UNCHANGED <<file, link, property, lock, answers, history>>
    BY <1>2, <1>a, <2>1, <2>3, <2>4 DEF OccupyUnit, ProcessTyped
  <2>7. ProcessTyped' /\ pc'[h] = "occupy" /\ task'[h] = r
    BY <1>a, <2>5, <2>6 DEF ProcessTyped, Place
  <2>8. lock[t.case] = h /\ DecisionHolds(t)
    BY <2>1 DEF IInv, LocksHold, Holds
  <2>9. DecisionHolds(r)'
    BY <2>5, <2>6, <2>8 DEF DecisionHolds, AwaitsRenter, Unchanged, file
  <2>10. TaskFits(h)' /\ Holds(h)'
    BY <2>1, <2>2, <2>3, <2>5, <2>6, <2>7, <2>8, <2>9 DEF TaskFits, Holds
  <2>11. OnlyMoves(h)
    BY <1>a, <1>b, <2>6, <2>7 DEF OnlyMoves, ProcessTyped
  <2>12. LocksHold' /\ \A g \in Handler : TaskFits(g)'
    BY <2>10, <2>11, HandlersKeep
  <2>13. TypeOK'
    BY <1>b, <1>d, <1>e, <1>f, <1>i, <2>6, <2>7, <2>12, TypeNext
  <2> QED BY <1>c, <1>d, <2>6, <2>12, <2>13 DEF IInv
<1>h. ASSUME NEW h \in Handler, pc[h] \in {"decide", "occupy"}, WriteFile(h), answers' = answers
      PROVE  /\ FileTyped' /\ AnswersCounted'
             /\ \A c \in Case : lock[c] \in Handler \ {h} => FileKept(c)
  <2>1. lock[task[h].case] = h
    BY <1>h DEF IInv, LocksHold, Holds
  <2> QED BY <1>h, <2>1, WriteFileKeeps
<1>3. ASSUME NEW h \in Handler, DecideCommit(h) PROVE IInv'
  <2>1. pc[h] = "decide" /\ task[h].case \in Case
    BY <1>3, <1>a DEF DecideCommit, TypeOK, DecideTask
  <2>2. /\ WriteFile(h) /\ Finish(h) /\ Overtakes(h)
        /\ UNCHANGED <<link, unitOf, occupancy, edits, answers, skewed>>
        /\ house' \in {house, RenterOf[task[h].case]}
    BY <1>3 DEF DecideCommit
  <2>3. PropertyTyped'
    BY <1>a, <2>1, <2>2 DEF PropertyTyped, Occupancy
  <2>4. OccupiedUnitOccupiesHouse'
    BY <2>1, <2>2 DEF IInv, OccupiedUnitOccupiesHouse
  <2>5. HistoryTyped'
    BY <1>a, <1>j, <2>2 DEF HistoryTyped
  <2> QED BY <1>e, <1>f, <1>g, <1>h, <2>1, <2>2, <2>3, <2>4, <2>5
<1>4. ASSUME NEW h \in Handler, ApproveCommit(h) PROVE IInv'
  <2>1. PICK t \in DecideTask : t = task[h] /\ t.unit \in Unit /\ t.summary # Vacant
    BY <1>4, <1>a DEF ApproveCommit, IInv, LocksHold, Holds, TypeOK
  <2>2. /\ WriteFile(h) /\ Finish(h) /\ Overtakes(h) /\ UNCHANGED <<link, unitOf, edits, answers>>
        /\ occupancy' = Occupied(h) /\ house' = t.summary /\ pc[h] = "occupy"
        /\ skewed' \in {skewed, skewed \cup {t.unit}}
    BY <1>4, <2>1 DEF ApproveCommit
  <2>3. t.case \in Case /\ t.summary \in Occupancy /\ RenterOf[t.case] \in Occupancy
    BY <2>1 DEF DecideTask, Occupancy
  <2>4. PropertyTyped'
    BY <1>a, <2>1, <2>2, <2>3 DEF PropertyTyped, Occupied
  <2>5. OccupiedUnitOccupiesHouse'
    BY <2>1, <2>2 DEF OccupiedUnitOccupiesHouse
  <2>6. HistoryTyped'
    BY <1>a, <1>j, <2>1, <2>2 DEF HistoryTyped
  <2> QED BY <1>e, <1>f, <1>g, <1>h, <2>2, <2>4, <2>5, <2>6
<1>5. ASSUME NEW h \in Handler, NEW c \in Case, NEW v \in Stamp, NEW items \in SUBSET Item,
             SubmitCheck(h, c, v, items)
      PROVE  IInv'
  <2>1. PICK t \in SubmitTask : t = [case |-> c, at |-> v, items |-> items]
    BY DEF SubmitTask
  <2>2. t.case = c /\ t.at = v /\ t.items = items /\ t \in Task
    BY <2>1 DEF Task
  <2>3. /\ task' = [task EXCEPT ![h] = t] /\ pc' = [pc EXCEPT ![h] = "submit"]
        /\ lock' = [lock EXCEPT ![c] = h] /\ lock[c] = NoHandler
        /\ MayAnswer(c, v, items)
        /\ UNCHANGED <<file, link, property, answers, history>>
    BY <1>5, <2>1 DEF SubmitCheck
  <2>4. ProcessTyped' /\ pc'[h] = "submit" /\ task'[h] = t /\ lock'[c] = h
    BY <1>a, <2>2, <2>3 DEF ProcessTyped, Place
  <2>5. TaskFits(h)' /\ Holds(h)'
    BY <2>2, <2>3, <2>4 DEF TaskFits, Holds, MayAnswer, file
  <2>6. OnlyMoves(h)
    BY <1>a, <1>b, <2>3, <2>4 DEF OnlyMoves, ProcessTyped
  <2>7. LocksHold' /\ \A g \in Handler : TaskFits(g)'
    BY <2>5, <2>6, HandlersKeep
  <2>8. TypeOK'
    BY <1>b, <1>d, <1>e, <1>f, <1>i, <2>3, <2>4, <2>7, TypeNext
  <2> QED BY <1>c, <1>d, <2>3, <2>7, <2>8 DEF IInv
<1>6. ASSUME NEW h \in Handler, SubmitCommit(h) PROVE IInv'
  <2>1. PICK t \in SubmitTask :
          t = task[h] /\ lock[t.case] = h /\ MayAnswer(t.case, t.at, t.items)
    BY <1>6, <1>a DEF SubmitCommit, IInv, LocksHold, Holds, TypeOK
  <2>2. PICK c \in Case : c = t.case /\ t.at \in Stamp /\ t.items \in SUBSET Item
    BY <2>1 DEF SubmitTask
  <2>3. /\ response' = [response EXCEPT ![c] = [at |-> t.at, items |-> t.items]]
        /\ answers' = [answers EXCEPT ![c][t.at] = @ + 1]
        /\ Finish(h) /\ UNCHANGED <<decision, at, by, note, requested, link, property, history>>
    BY <1>6, <2>1, <2>2 DEF SubmitCommit
  <2>4. FileTyped' /\ \A d \in Case : d # c => FileKept(d)
    BY <1>a, <2>2, <2>3 DEF FileTyped, FileKept, Response
  <2>5. response'[c] # NoResponse /\ response[c] = NoResponse /\ at[c] = t.at
    BY <1>a, <2>1, <2>2, <2>3 DEF FileTyped, MayAnswer, NoResponse
  <2>6. answers' \in [Case -> [Stamp -> Nat]]
    BY <1>a, <2>2, <2>3 DEF TypeOK
  <2>7. \A d \in Case : \A v \in Stamp :
          answers'[d][v] = IF d = c /\ v = t.at THEN answers[d][v] + 1 ELSE answers[d][v]
    BY <1>a, <2>2, <2>3 DEF TypeOK
  <2>8. answers[c][t.at] = 0
    BY <2>2, <2>5 DEF IInv, AnswersCounted
  <2>9. AnswersCounted'
    <3> SUFFICES ASSUME NEW d \in Case, NEW v \in Stamp
                 PROVE  /\ answers'[d][v] \in {0, 1}
                        /\ answers'[d][v] = 1 => v <= at'[d] /\ (v = at'[d] => response'[d] # NoResponse)
      BY DEF AnswersCounted
    <3>1. CASE d = c /\ v = t.at
      BY <2>3, <2>5, <2>7, <2>8, <3>1 DEF Stamp
    <3>2. CASE ~(d = c /\ v = t.at)
      <4>1. answers'[d][v] = answers[d][v] /\ at' = at
        BY <2>3, <2>7, <3>2
      <4>2. d # c => response'[d] = response[d]
        BY <2>4 DEF FileKept
      <4> QED BY <2>5, <4>1, <4>2 DEF IInv, AnswersCounted
    <3> QED BY <3>1, <3>2
  <2> QED BY <1>d, <1>f, <1>g, <1>i, <2>1, <2>2, <2>3, <2>4, <2>6, <2>9
<1>7. ASSUME NEW h \in Handler, NEW c \in Case, NEW next \in {"ACCEPTED", "WITHDRAWN"},
             RespondCheck(h, c, next)
      PROVE  IInv'
  <2>1. PICK t \in RespondTask : t = [case |-> c, next |-> next]
    BY DEF RespondTask
  <2>2. t \in Task
    BY DEF Task
  <2>3. /\ task' = [task EXCEPT ![h] = t] /\ pc' = [pc EXCEPT ![h] = "respond"]
        /\ UNCHANGED <<file, link, property, lock, answers, history>>
    BY <1>7, <2>1 DEF RespondCheck
  <2>4. ProcessTyped' /\ pc'[h] = "respond" /\ task'[h] = t
    BY <1>a, <2>2, <2>3 DEF ProcessTyped, Place
  <2>5. TaskFits(h)' /\ Holds(h)'
    BY <2>4 DEF TaskFits, Holds
  <2>6. OnlyMoves(h)
    BY <1>a, <1>b, <2>3, <2>4 DEF OnlyMoves, ProcessTyped
  <2>7. LocksHold' /\ \A g \in Handler : TaskFits(g)'
    BY <2>5, <2>6, HandlersKeep
  <2>8. TypeOK'
    BY <1>b, <1>d, <1>e, <1>f, <1>i, <2>3, <2>4, <2>7, TypeNext
  <2> QED BY <1>c, <1>d, <2>3, <2>7, <2>8 DEF IInv
<1>8. ASSUME NEW h \in Handler, RespondCommit(h) PROVE IInv'
  <2>1. task[h].next \in {"PENDING", "ACCEPTED", "WITHDRAWN"}
    BY <1>8, <1>a DEF RespondCommit, TypeOK, RespondTask
  <2>2. link' \in [Case -> {"PENDING", "ACCEPTED", "WITHDRAWN"}]
    BY <1>8, <1>a, <2>1 DEF RespondCommit, TypeOK
  <2>3. HistoryTyped'
    BY <1>8, <1>a, <1>j DEF RespondCommit, HistoryTyped
  <2> QED BY <1>8, <1>b, <1>c, <1>d, <1>e, <1>g, <2>2, <2>3 DEF RespondCommit
<1>9. ASSUME NEW h \in Handler, Abort(h) PROVE IInv'
  <2>1. HistoryTyped'
    BY <1>9, <1>a DEF Abort, HistoryTyped
  <2> QED BY <1>9, <1>b, <1>c, <1>d, <1>e, <1>f, <1>g, <2>1 DEF Abort
<1>10. ASSUME NEW o \in [Unit -> Entered], EditProperty(o) PROVE IInv'
  <2>1. /\ edits < MaxEdits /\ edits' = edits + 1 /\ o \in [Unit -> Occupancy]
        /\ occupancy' = o /\ house' = Summary(o) /\ unitOf' = [c \in Case |-> NoUnit]
        /\ UNCHANGED <<file, link, process, answers, history>>
    BY <1>10 DEF EditProperty, Occupancy
  <2>2. PropertyTyped'
    BY <1>a, <2>1, SummaryOccupied DEF PropertyTyped
  <2>3. OccupiedUnitOccupiesHouse'
    BY <2>1, SummaryOccupied DEF OccupiedUnitOccupiesHouse
  <2>4. ProcessTyped' /\ (\A h \in Handler : TaskFits(h)') /\ LocksHold'
    <3>1. ProcessTyped' /\ \A h \in Handler : TaskFits(h)'
      BY <1>a, <2>1, TypeParts DEF process, ProcessTyped, TaskFits
    <3>2. ASSUME NEW h \in Handler PROVE Holds(h)'
      <4>1. Holds(h)
        BY DEF IInv, LocksHold
      <4> QED BY <2>1, <4>1 DEF Holds, DecisionHolds, AwaitsRenter, Unchanged, MayAnswer,
                  file, process
    <3> QED BY <3>1, <3>2 DEF LocksHold
  <2>5. TypeOK'
    BY <1>b, <1>e, <1>f, <1>i, <2>1, <2>2, <2>4, TypeNext
  <2> QED BY <1>c, <2>1, <2>3, <2>4, <2>5 DEF IInv
<1>11. CASE UNCHANGED vars
  <2>1. TypeOK'
    BY <1>a, <1>11 DEF vars, file, property, process, history, TypeOK
  <2>2. LocksHold'
    <3> SUFFICES ASSUME NEW h \in Handler PROVE Holds(h)'
      BY DEF LocksHold
    <3>1. Holds(h)
      BY DEF IInv, LocksHold
    <3> QED BY <1>11, <3>1 DEF vars, Holds, DecisionHolds, AwaitsRenter, Unchanged, MayAnswer,
                file, process
  <2> QED BY <1>11, <1>c, <1>d, <2>1, <2>2 DEF vars, IInv
<1> QED
  BY <1>1, <1>2, <1>3, <1>4, <1>5, <1>6, <1>7, <1>8, <1>9, <1>10, <1>11
  DEF Next, Decide, Answer, Respond

-----------------------------------------------------------------------------
\* Every variable keeps its type, and every handler's task fits its place.
THEOREM TypeCorrect == Spec => []TypeOK
<1>1. IInv => TypeOK
  BY DEF IInv
<1> QED BY InitIInv, StepIInv, <1>1, PTL DEF Spec

\* In however many handlers the renter's retries run, a request is answered at most once.
THEOREM AnsweredOnce == Spec => []OneAnswerPerRequest
<1>1. IInv => OneAnswerPerRequest
  BY DEF IInv, AnswersCounted, OneAnswerPerRequest
<1> QED BY InitIInv, StepIInv, <1>1, PTL DEF Spec

\* Concurrent approvals and edits leave no property vacant that has an occupied unit.
THEOREM HouseFollowsUnits == Spec => []OccupiedUnitOccupiesHouse
<1>1. IInv => OccupiedUnitOccupiesHouse
  BY DEF IInv
<1> QED BY InitIInv, StepIInv, <1>1, PTL DEF Spec

-----------------------------------------------------------------------------
(* The handlers implement the dialog.                                       *)

\* A step that leaves a case's row alone, or changes nothing that the dialog shows, is
\* invisible to it.
Unseen ==
    \A c \in Case :
        /\ AwaitsRenter(c)' <=> AwaitsRenter(c)
        /\ requested'[c] = requested[c]
        /\ response'[c].items = response[c].items

LEMMA UnseenStutters ==
  ASSUME TypeOK, requested' \in [Case -> SUBSET Item], Unseen
  PROVE  UNCHANGED Dialog!vars
<1>1. requested' = requested
  BY DEF TypeOK, Unseen
<1>2. [c \in Case |-> response[c].items]' = [c \in Case |-> response[c].items]
  BY DEF Unseen
<1>3. \A c \in Case : AwaitsRenter(c)' = AwaitsRenter(c)
  BY DEF Unseen, AwaitsRenter
<1>4. [c \in Case |-> AwaitsRenter(c)]' = [c \in Case |-> AwaitsRenter(c)]
  BY <1>3
<1> QED BY <1>1, <1>2, <1>4 DEF Dialog!vars

\* A new hold asks; every other decision is invisible.
LEMMA DecisionImplements ==
  ASSUME IInv, IInv', NEW h \in Handler, pc[h] \in {"decide", "occupy"}, WriteFile(h)
  PROVE  [Dialog!Next]_(Dialog!vars)
<1>1. PICK t \in DecideTask : t = task[h] /\ DecisionHolds(t)
  BY DEF IInv, TypeOK, LocksHold, Holds
<1>2. PICK c \in Case : c = t.case /\ t.items \in SUBSET Item
  BY <1>1 DEF DecideTask
<1>a. TypeOK /\ requested' \in [Case -> SUBSET Item]
  <2>1. TypeOK /\ TypeOK'
    BY DEF IInv
  <2> QED BY <2>1, Zenon DEF TypeOK
<1>3. /\ decision' = [decision EXCEPT ![c] = t.decision]
      /\ requested' = [requested EXCEPT ![c] = IF t.decision = "HOLD" THEN t.items ELSE @]
      /\ response' = [response EXCEPT ![c] = IF Clears(t) THEN NoResponse ELSE @]
  BY <1>1, <1>2 DEF WriteFile
<1>4. /\ decision'[c] = t.decision
      /\ requested'[c] = IF t.decision = "HOLD" THEN t.items ELSE requested[c]
      /\ response'[c] = IF Clears(t) THEN NoResponse ELSE response[c]
      /\ \A d \in Case \ {c} : decision'[d] = decision[d] /\ requested'[d] = requested[d]
                               /\ response'[d] = response[d]
  BY <1>3, <1>a DEF TypeOK
<1>5. ~AwaitsRenter(c) /\ (t.decision = "HOLD" <=> t.items # {})
      /\ (t.same => t.decision = decision[c] /\ t.items = requested[c])
  BY <1>1, <1>2 DEF DecisionHolds, Unchanged
<1>6. CASE ~Clears(t)
  <2>1. requested'[c] = requested[c] /\ response'[c] = response[c]
    BY <1>4, <1>5, <1>6 DEF Clears
  <2>2. ~AwaitsRenter(c)'
    BY <1>4, <1>5, <1>6, <2>1 DEF AwaitsRenter, Clears
  <2>3. Unseen
    BY <1>4, <1>5, <2>1, <2>2 DEF Unseen, AwaitsRenter
  <2> QED BY <1>a, <2>3, UnseenStutters
<1>7. CASE Clears(t)
  <2>1. AwaitsRenter(c)' /\ requested'[c] = t.items /\ response'[c].items = {} /\ t.items # {}
    BY <1>4, <1>5, <1>7 DEF AwaitsRenter, Clears, NoResponse
  <2>2. \A d \in Case \ {c} : AwaitsRenter(d)' = AwaitsRenter(d)
    BY <1>4 DEF AwaitsRenter
  <2>3. [d \in Case |-> AwaitsRenter(d)]' = [[d \in Case |-> AwaitsRenter(d)] EXCEPT ![c] = TRUE]
    BY <2>1, <2>2
  <2>4. requested' = [requested EXCEPT ![c] = t.items]
    BY <1>3, <1>7 DEF Clears
  <2>5. [d \in Case |-> response[d].items]' = [[d \in Case |-> response[d].items] EXCEPT ![c] = {}]
    BY <1>4, <2>1
  <2>6. Dialog!Ask(c, t.items)
    BY <1>5, <2>1, <2>3, <2>4, <2>5 DEF Dialog!Ask
  <2> QED BY <1>2, <2>6 DEF Dialog!Next
<1> QED BY <1>6, <1>7

LEMMA AnswerImplements ==
  ASSUME IInv, NEW h \in Handler, SubmitCommit(h)
  PROVE  Dialog!Next
<1>1. PICK t \in SubmitTask : t = task[h] /\ MayAnswer(t.case, t.at, t.items)
  BY DEF SubmitCommit, IInv, LocksHold, Holds, TypeOK
<1>2. PICK c \in Case : c = t.case
  BY <1>1 DEF SubmitTask
<1>3. /\ response' = [response EXCEPT ![c] = [at |-> t.at, items |-> t.items]]
      /\ UNCHANGED <<decision, at, requested>>
  BY <1>1, <1>2 DEF SubmitCommit
<1>4. AwaitsRenter(c) /\ requested[c] = t.items /\ t.items # {}
  BY <1>1, <1>2 DEF MayAnswer, AwaitsRenter
<1>5. /\ response'[c].items = t.items /\ response'[c] # NoResponse
      /\ \A d \in Case \ {c} : response'[d] = response[d]
  BY <1>3, <1>4 DEF IInv, TypeOK, NoResponse
<1>6. AwaitsRenter(c)' = FALSE /\ \A d \in Case \ {c} : AwaitsRenter(d)' = AwaitsRenter(d)
  BY <1>3, <1>5 DEF AwaitsRenter
<1>7. [d \in Case |-> AwaitsRenter(d)]' = [[d \in Case |-> AwaitsRenter(d)] EXCEPT ![c] = FALSE]
  BY <1>6
<1>8. [d \in Case |-> response[d].items]'
        = [[d \in Case |-> response[d].items] EXCEPT ![c] = requested[c]]
  BY <1>4, <1>5
<1>9. Dialog!Reply(c)
  BY <1>3, <1>4, <1>7, <1>8 DEF Dialog!Reply
<1> QED BY <1>9 DEF Dialog!Next

LEMMA StepImplements == IInv /\ IInv' /\ [Next]_vars => [Dialog!Next]_(Dialog!vars)
<1> SUFFICES ASSUME IInv, IInv', [Next]_vars PROVE [Dialog!Next]_(Dialog!vars)
  OBVIOUS
<1>1. ASSUME UNCHANGED file PROVE UNCHANGED Dialog!vars
  <2>1. Unseen
    BY <1>1 DEF file, Unseen, AwaitsRenter
  <2>2. requested' \in [Case -> SUBSET Item]
    BY <1>1 DEF file, IInv, TypeOK
  <2> QED BY <2>1, <2>2, UnseenStutters DEF IInv
<1>2. ASSUME NEW h \in Handler, Decide(h) PROVE [Dialog!Next]_(Dialog!vars)
  BY <1>1, <1>2, DecisionImplements DEF Decide, DecideCheck, OccupyUnit, DecideCommit, ApproveCommit
<1>3. ASSUME NEW h \in Handler, Answer(h) PROVE [Dialog!Next]_(Dialog!vars)
  BY <1>1, <1>3, AnswerImplements DEF Answer, SubmitCheck
<1>4. ASSUME NEW h \in Handler, Respond(h) \/ Abort(h) PROVE UNCHANGED file
  BY <1>4 DEF Respond, RespondCheck, RespondCommit, Abort
<1>5. ASSUME NEW o \in [Unit -> Entered], EditProperty(o) PROVE UNCHANGED file
  BY <1>5 DEF EditProperty
<1> QED BY <1>1, <1>2, <1>3, <1>4, <1>5 DEF Next, vars

\* Requests and answers alternate, an answer is to the request that stands, and stays
\* until the landlord asks again: the handlers implement InformationDialog.
THEOREM ImplementsDialog == Spec => DialogKept
<1>1. Init => Dialog!Init
  <2> SUFFICES ASSUME Init PROVE Dialog!Init
    OBVIOUS
  <2>1. \A c \in Case : AwaitsRenter(c) = FALSE /\ requested[c] = {} /\ response[c].items = {}
    BY DEF Init, AwaitsRenter, NoResponse
  <2>2. requested = [c \in Case |-> {}]
    BY DEF Init
  <2> QED BY <2>1, <2>2 DEF Dialog!Init
<1> QED BY <1>1, InitIInv, StepIInv, StepImplements, PTL DEF Spec, DialogKept, Dialog!Spec

-----------------------------------------------------------------------------
(* What is checked without a lock still holds when it is used, unless a     *)
(* commit that matters to it has overtaken the request.                     *)

\* What an approval has read of its case's unit.
ApprovalStands(h) ==
    LET t == task[h] IN
    /\ Approves(h) => unitOf[t.case] \in {t.unit, NoUnit}
    /\ Approves(h) /\ h \notin stale => ~Conflict(t.case)
    /\ pc[h] = "occupy" => unitOf[t.case] = t.unit

\* What an answer to the link has read of the link and the decision.
ResponseStands(h) ==
    pc[h] = "respond" /\ h \notin stale => MayRespond(task[h].case, task[h].next)

\* Who is approved for a unit is its tenant, unless the unit was given away on a check
\* that another approval had overtaken.
TenantInUnit ==
    \A c \in Case : decision[c] = "APPROVED" /\ unitOf[c] \notin skewed \cup {NoUnit} =>
        occupancy[unitOf[c]] = RenterOf[c]

OInv == IInv /\ TenantInUnit /\ \A h \in Handler : ApprovalStands(h)
LInv == IInv /\ \A h \in Handler : ResponseStands(h)

LEMMA InitOInv == Init => OInv
BY InitIInv DEF Init, OInv, TenantInUnit, ApprovalStands, Approves

LEMMA InitLInv == Init => LInv
BY InitIInv DEF Init, LInv, ResponseStands

\* Nobody but h moves.
OthersStay(h) == \A g \in Handler \ {h} : pc'[g] = pc[g] /\ task'[g] = task[g]

LEMMA OneMoves ==
  ASSUME TypeOK, NEW h \in Handler, Decide(h) \/ Answer(h) \/ Respond(h) \/ Abort(h)
  PROVE  OthersStay(h)
<1>1. ProcessTyped
  BY TypeParts
<1>2. Finish(h) => OthersStay(h)
  BY FinishStep DEF OthersStay
<1>3. ASSUME Decide(h) PROVE OthersStay(h)
  BY <1>1, <1>2, <1>3 DEF Decide, DecideCheck, OccupyUnit, DecideCommit, ApproveCommit, OthersStay, ProcessTyped
<1>4. ASSUME Answer(h) \/ Respond(h) \/ Abort(h) PROVE OthersStay(h)
  BY <1>1, <1>2, <1>4 DEF Answer, Respond, SubmitCheck, SubmitCommit, RespondCheck, RespondCommit, Abort,
                          OthersStay, ProcessTyped
<1> QED BY <1>3, <1>4

LEMMA StepOInv == OInv /\ [Next]_vars => OInv'
<1> SUFFICES ASSUME OInv, [Next]_vars
             PROVE  TenantInUnit' /\ \A h \in Handler : ApprovalStands(h)'
  BY StepIInv DEF OInv
<1>a. TypeOK /\ IInv /\ FileTyped /\ PropertyTyped /\ ProcessTyped
  BY TypeParts DEF OInv, IInv
<1>b. UNCHANGED <<decision, unitOf, occupancy, skewed>> => TenantInUnit'
  BY DEF OInv, TenantInUnit
<1>c. ASSUME NEW h \in Handler, OthersStay(h), UNCHANGED <<unitOf, occupancy>>,
             stale \ {h} \subseteq stale', ApprovalStands(h)'
      PROVE  \A g \in Handler : ApprovalStands(g)'
  BY <1>c DEF OInv, OthersStay, ApprovalStands, Approves, Conflict
<1>d. ASSUME NEW h \in Handler, Finish(h) PROVE ApprovalStands(h)'
  BY <1>a, <1>d, FinishStep DEF ApprovalStands, Approves
<1>1. ASSUME NEW h \in Handler, NEW c \in Case, NEW d \in Decision, NEW l \in Landlord,
             NEW n \in Note \cup {NoNote}, NEW items \in SUBSET Item,
             DecideCheck(h, c, d, l, n, items), OthersStay(h)
      PROVE  TenantInUnit' /\ \A g \in Handler : ApprovalStands(g)'
  <2>1. /\ task'[h].case = c /\ task'[h].decision = d /\ task'[h].unit = unitOf[c]
        /\ pc'[h] = "decide" /\ MayDecide(c, d)
        /\ UNCHANGED <<decision, unitOf, occupancy, stale, skewed>>
    BY <1>1, <1>a DEF DecideCheck, ProcessTyped, file, property, history
  <2>2. ApprovalStands(h)'
    BY <2>1 DEF ApprovalStands, Approves, MayDecide, Conflict
  <2> QED BY <1>1, <1>b, <1>c, <2>1, <2>2
<1>2. ASSUME NEW h \in Handler, OccupyUnit(h), OthersStay(h)
      PROVE  TenantInUnit' /\ \A g \in Handler : ApprovalStands(g)'
  <2>1. PICK t \in DecideTask : t = task[h] /\ pc[h] = "decide" /\ t.decision = "APPROVED"
    BY <1>2, <1>a DEF OccupyUnit, ApprovesUnit, TypeOK
  <2>2. /\ task'[h].case = t.case /\ task'[h].decision = t.decision /\ task'[h].unit = t.unit
        /\ pc'[h] = "occupy" /\ unitOf[t.case] = t.unit
        /\ UNCHANGED <<decision, unitOf, occupancy, stale, skewed>>
    BY <1>2, <1>a, <2>1 DEF OccupyUnit, ProcessTyped, DecideTask, file, property, history
  <2>3. ApprovalStands(h)
    BY DEF OInv
  <2>4. ApprovalStands(h)'
    BY <2>1, <2>2, <2>3 DEF ApprovalStands, Approves, Conflict
  <2> QED BY <1>2, <1>b, <1>c, <2>2, <2>4
<1>3. ASSUME NEW h \in Handler, DecideCommit(h), OthersStay(h)
      PROVE  TenantInUnit' /\ \A g \in Handler : ApprovalStands(g)'
  <2>1. PICK t \in DecideTask : t = task[h] /\ pc[h] = "decide"
    BY <1>3, <1>a DEF DecideCommit, TypeOK
  <2>2. /\ decision' = [decision EXCEPT ![t.case] = t.decision]
        /\ UNCHANGED <<unitOf, occupancy, skewed>> /\ Finish(h) /\ stale \ {h} \subseteq stale'
        /\ t.decision = "APPROVED" => t.unit = NoUnit
    BY <1>3, <2>1 DEF DecideCommit, WriteFile, ApprovesUnit, Overtakes
  <2>3. t.decision = "APPROVED" => unitOf[t.case] = NoUnit
    BY <2>1, <2>2 DEF OInv, ApprovalStands, Approves
  <2>4. TenantInUnit'
    BY <1>a, <2>2, <2>3 DEF OInv, TenantInUnit, FileTyped
  <2> QED BY <1>3, <1>c, <1>d, <2>2, <2>4
<1>4. ASSUME NEW h \in Handler, ApproveCommit(h), OthersStay(h)
      PROVE  TenantInUnit' /\ \A g \in Handler : ApprovalStands(g)'
  <2>1. PICK t \in DecideTask :
          /\ t = task[h] /\ t.decision = "APPROVED" /\ t.unit \in Unit
          /\ unitOf[t.case] = t.unit /\ Approves(h) /\ (h \notin stale => ~Conflict(t.case))
    BY <1>4, <1>a DEF ApproveCommit, IInv, LocksHold, Holds, TypeOK, OInv, ApprovalStands, Approves
  <2>2. /\ decision' = [decision EXCEPT ![t.case] = "APPROVED"]
        /\ occupancy' = [occupancy EXCEPT ![t.unit] = RenterOf[t.case]]
        /\ unitOf' = unitOf /\ Finish(h) /\ Overtakes(h) /\ pc[h] = "occupy"
        /\ skewed \subseteq skewed' /\ (h \in stale => t.unit \in skewed')
    BY <1>4, <2>1 DEF ApproveCommit, WriteFile, Occupied
  <2>3. h \notin stale /\ occupancy[t.unit] \in Renter => occupancy[t.unit] = RenterOf[t.case]
    BY <2>1 DEF Conflict
  <2>4. ASSUME NEW c \in Case, decision'[c] = "APPROVED", unitOf'[c] \notin skewed' \cup {NoUnit}
        PROVE  occupancy'[unitOf'[c]] = RenterOf[c]
    <3>1. CASE c = t.case
      BY <1>a, <2>1, <2>2, <3>1 DEF PropertyTyped
    <3>2. CASE c # t.case
      <4>1. occupancy[unitOf[c]] = RenterOf[c] /\ unitOf[c] \in Unit /\ RenterOf[c] \in Renter
        BY <1>a, <2>2, <2>4, <3>2 DEF OInv, TenantInUnit, FileTyped, PropertyTyped
      <4>2. unitOf[c] = t.unit => h \notin stale
        BY <2>2, <2>4
      <4>3. unitOf[c] = t.unit => RenterOf[c] = RenterOf[t.case]
        BY <2>3, <4>1, <4>2
      <4> QED BY <1>a, <2>2, <4>1, <4>3 DEF PropertyTyped
    <3> QED BY <3>1, <3>2
  <2>5. ASSUME NEW g \in Handler, g # h PROVE ApprovalStands(g)'
    <3>1. ApprovalStands(g) /\ pc'[g] = pc[g] /\ task'[g] = task[g]
          /\ (g \notin stale' => g \notin stale /\ g \notin Overtaken(h))
      BY <1>4, <2>2, <2>5 DEF OInv, OthersStay, Overtakes
    <3>2. CASE ~Approves(g)
      BY <2>2, <3>1, <3>2 DEF ApprovalStands, Approves
    <3>3. CASE Approves(g)
      <4>1. PICK s \in DecideTask : s = task[g]
        BY <1>a, <3>3 DEF TypeOK, Approves
      <4>2. s.case \in Case /\ unitOf[s.case] \in Unit \cup {NoUnit} /\ RenterOf[t.case] \in Renter
        BY <1>a, <4>1 DEF PropertyTyped, DecideTask
      <4>3. CASE unitOf[s.case] = t.unit
        <5>1. s.unit = t.unit /\ t.unit # NoUnit
          BY <2>1, <3>1, <3>3, <4>1, <4>3 DEF ApprovalStands
        <5>2. g \notin stale' => RenterOf[s.case] = RenterOf[t.case]
          BY <2>1, <2>2, <2>5, <3>1, <3>3, <4>1, <5>1 DEF Overtaken
        <5>3. g \notin stale' => ~Conflict(s.case)'
          BY <1>a, <2>1, <2>2, <4>2, <4>3, <5>2 DEF Conflict, PropertyTyped
        <5> QED BY <2>2, <3>1, <3>3, <4>1, <5>3 DEF ApprovalStands, Approves
      <4>4. CASE unitOf[s.case] # t.unit
        <5>1. Conflict(s.case)' = Conflict(s.case)
          BY <1>a, <2>2, <4>2, <4>4 DEF Conflict, PropertyTyped
        <5> QED BY <2>2, <3>1, <3>3, <4>1, <5>1 DEF ApprovalStands, Approves
      <4> QED BY <4>3, <4>4
    <3> QED BY <3>2, <3>3
  <2> QED BY <1>d, <2>2, <2>4, <2>5 DEF TenantInUnit
<1>5. ASSUME NEW h \in Handler, OthersStay(h),
             Answer(h) \/ Respond(h) \/ Abort(h)
      PROVE  TenantInUnit' /\ \A g \in Handler : ApprovalStands(g)'
  <2>1. UNCHANGED <<decision, unitOf, occupancy, skewed>> /\ stale \ {h} \subseteq stale'
    BY <1>5 DEF Answer, Respond, SubmitCheck, SubmitCommit, RespondCheck, RespondCommit, Abort,
                Overtakes, file, property, history
  <2>2. Finish(h) \/ pc'[h] \in {"submit", "respond"}
    BY <1>5, <1>a DEF Answer, Respond, SubmitCheck, SubmitCommit, RespondCheck, RespondCommit, Abort, ProcessTyped
  <2>3. ApprovalStands(h)'
    BY <1>d, <2>2 DEF ApprovalStands, Approves
  <2> QED BY <1>5, <1>b, <1>c, <2>1, <2>3
<1>6. ASSUME NEW o \in [Unit -> Entered], EditProperty(o)
      PROVE  TenantInUnit' /\ \A g \in Handler : ApprovalStands(g)'
  <2>1. /\ \A c \in Case : unitOf'[c] = NoUnit
        /\ UNCHANGED <<decision, pc, task>> /\ \A h \in Handler : pc[h] # "occupy"
    BY <1>6 DEF EditProperty, file, process
  <2>2. ASSUME NEW h \in Handler PROVE ApprovalStands(h)'
    <3>1. Approves(h) => task[h].case \in Case
      BY <1>a DEF Approves, TypeOK, DecideTask
    <3> QED BY <2>1, <3>1 DEF ApprovalStands, Approves, Conflict
  <2> QED BY <2>1, <2>2 DEF TenantInUnit
<1>7. CASE UNCHANGED vars
  BY <1>7 DEF vars, file, property, process, history, OInv, TenantInUnit, ApprovalStands, Approves, Conflict
<1>8. ASSUME NEW h \in Handler, Decide(h) PROVE TenantInUnit' /\ \A g \in Handler : ApprovalStands(g)'
  <2>1. OthersStay(h)
    BY <1>8, <1>a, OneMoves
  <2> QED BY <1>8, <2>1, <1>1, <1>2, <1>3, <1>4 DEF Decide
<1>9. ASSUME NEW h \in Handler, Answer(h) \/ Respond(h) \/ Abort(h)
      PROVE  TenantInUnit' /\ \A g \in Handler : ApprovalStands(g)'
  BY <1>9, <1>5, <1>a, OneMoves
<1> QED BY <1>6, <1>7, <1>8, <1>9 DEF Next

\* The link and the decision change only by a commit that overtakes the other answers.
LEMMA StepLInv == LInv /\ [Next]_vars => LInv'
<1> SUFFICES ASSUME LInv, [Next]_vars PROVE \A h \in Handler : ResponseStands(h)'
  BY StepIInv DEF LInv
<1>a. TypeOK /\ FileTyped /\ ProcessTyped /\ link \in [Case -> {"PENDING", "ACCEPTED", "WITHDRAWN"}]
  BY TypeParts DEF LInv, IInv
<1>b. ASSUME NEW h \in Handler, OthersStay(h), UNCHANGED <<decision, link>>,
             stale \ {h} \subseteq stale', ResponseStands(h)'
      PROVE  \A g \in Handler : ResponseStands(g)'
  BY <1>b DEF LInv, OthersStay, ResponseStands, MayRespond
<1>c. ASSUME NEW h \in Handler, Finish(h) \/ pc'[h] # "respond" PROVE ResponseStands(h)'
  BY <1>a, <1>c, FinishStep DEF ResponseStands
\* What is left to show of a commit: that it leaves alone what the others rely on.
<1>d. ASSUME NEW h \in Handler, OthersStay(h), Finish(h), Overtakes(h),
             \A g \in Handler \ {h} :
                pc[g] = "respond" /\ g \notin Overtaken(h) /\ MayRespond(task[g].case, task[g].next)
                => MayRespond(task[g].case, task[g].next)'
      PROVE  \A g \in Handler : ResponseStands(g)'
  <2>1. ASSUME NEW g \in Handler, g # h, pc'[g] = "respond", g \notin stale'
        PROVE  MayRespond(task[g].case, task[g].next)' /\ task'[g] = task[g]
    <3>1. pc[g] = "respond" /\ task'[g] = task[g] /\ g \notin stale /\ g \notin Overtaken(h)
      BY <1>d, <2>1 DEF OthersStay, Overtakes
    <3>2. MayRespond(task[g].case, task[g].next)
      BY <3>1 DEF LInv, ResponseStands
    <3> QED BY <1>d, <2>1, <3>1, <3>2
  <2>2. \A g \in Handler \ {h} : ResponseStands(g)'
    BY <2>1 DEF ResponseStands
  <2> QED BY <1>c, <1>d, <2>2
<1>1. ASSUME NEW h \in Handler, DecideCommit(h) \/ ApproveCommit(h), OthersStay(h)
      PROVE  \A g \in Handler : ResponseStands(g)'
  <2>1. PICK t \in DecideTask : t = task[h] /\ pc[h] \in {"decide", "occupy"}
    BY <1>1, <1>a DEF DecideCommit, ApproveCommit, TypeOK
  <2>2. /\ decision' = [decision EXCEPT ![t.case] = t.decision] /\ link' = link
        /\ Finish(h) /\ Overtakes(h)
    BY <1>1, <2>1 DEF DecideCommit, ApproveCommit, WriteFile
  <2>3. ASSUME NEW g \in Handler, g # h, pc[g] = "respond", g \notin Overtaken(h),
               MayRespond(task[g].case, task[g].next)
        PROVE  MayRespond(task[g].case, task[g].next)'
    <3>1. task[g].case \in Case /\ task'[g] = task[g]
      BY <1>1, <1>a, <2>3 DEF TypeOK, RespondTask, OthersStay
    <3>2. task[g].next = "WITHDRAWN" /\ t.decision \in Final => task[g].case # t.case
      BY <2>1, <2>3 DEF Overtaken
    <3> QED BY <1>a, <2>2, <2>3, <3>1, <3>2 DEF FileTyped, MayRespond
  <2> QED BY <1>1, <1>d, <2>2, <2>3
<1>2. ASSUME NEW h \in Handler, RespondCommit(h), OthersStay(h)
      PROVE  \A g \in Handler : ResponseStands(g)'
  <2>1. /\ link' = [link EXCEPT ![task[h].case] = task[h].next] /\ decision' = decision
        /\ pc[h] = "respond" /\ Finish(h) /\ Overtakes(h)
    BY <1>2 DEF RespondCommit, file
  <2>2. ASSUME NEW g \in Handler, g # h, pc[g] = "respond", g \notin Overtaken(h),
               MayRespond(task[g].case, task[g].next)
        PROVE  MayRespond(task[g].case, task[g].next)'
    <3>1. task[g].case # task[h].case /\ task[g].case \in Case /\ task'[g] = task[g]
      BY <1>2, <1>a, <2>1, <2>2 DEF Overtaken, TypeOK, RespondTask, OthersStay
    <3> QED BY <1>a, <2>1, <2>2, <3>1 DEF MayRespond
  <2> QED BY <1>2, <1>d, <2>1, <2>2
<1>3. ASSUME NEW h \in Handler, NEW c \in Case, NEW next \in {"ACCEPTED", "WITHDRAWN"},
             RespondCheck(h, c, next), OthersStay(h)
      PROVE  \A g \in Handler : ResponseStands(g)'
  <2>1. /\ task'[h].case = c /\ task'[h].next = next /\ MayRespond(c, next)
        /\ UNCHANGED <<decision, link, stale>>
    BY <1>3, <1>a DEF RespondCheck, ProcessTyped, file, history
  <2>2. ResponseStands(h)'
    BY <2>1 DEF ResponseStands, MayRespond
  <2> QED BY <1>3, <1>b, <2>1, <2>2
<1>4. ASSUME NEW h \in Handler, OthersStay(h), UNCHANGED <<decision, link>>,
             stale \ {h} \subseteq stale', Finish(h) \/ pc'[h] # "respond"
      PROVE  \A g \in Handler : ResponseStands(g)'
  BY <1>4, <1>b, <1>c
<1>5. ASSUME NEW h \in Handler, Decide(h) PROVE \A g \in Handler : ResponseStands(g)'
  <2>1. OthersStay(h)
    BY <1>5, <1>a, OneMoves
  <2>2. CASE DecideCommit(h) \/ ApproveCommit(h)
    BY <1>1, <2>1, <2>2
  <2>3. CASE ~(DecideCommit(h) \/ ApproveCommit(h))
    <3>1. UNCHANGED <<decision, link, stale>> /\ pc'[h] # "respond"
      BY <1>5, <1>a, <2>3 DEF Decide, DecideCheck, OccupyUnit, file, history, ProcessTyped
    <3> QED BY <1>4, <2>1, <3>1
  <2> QED BY <2>2, <2>3
<1>6. ASSUME NEW h \in Handler, Answer(h) \/ Respond(h) \/ Abort(h)
      PROVE  \A g \in Handler : ResponseStands(g)'
  <2>1. OthersStay(h)
    BY <1>6, <1>a, OneMoves
  <2>2. CASE \E c \in Case, next \in {"ACCEPTED", "WITHDRAWN"} : RespondCheck(h, c, next)
    BY <1>3, <2>1, <2>2
  <2>3. CASE RespondCommit(h)
    BY <1>2, <2>1, <2>3
  <2>4. CASE Answer(h) \/ Abort(h)
    <3>1. /\ UNCHANGED <<decision, link>> /\ stale \ {h} \subseteq stale'
          /\ Finish(h) \/ pc'[h] # "respond"
      BY <1>a, <2>4 DEF Answer, SubmitCheck, SubmitCommit, Abort, file, history, ProcessTyped
    <3> QED BY <1>4, <2>1, <3>1
  <2> QED BY <1>6, <2>2, <2>3, <2>4 DEF Respond
<1>7. ASSUME NEW o \in [Unit -> Entered], EditProperty(o) PROVE \A g \in Handler : ResponseStands(g)'
  BY <1>7 DEF EditProperty, file, process, history, LInv, ResponseStands, MayRespond
<1>8. CASE UNCHANGED vars
  BY <1>8 DEF vars, file, process, history, LInv, ResponseStands, MayRespond
<1> QED BY <1>5, <1>6, <1>7, <1>8 DEF Next

\* The check for another tenant gives a unit to one renter, through every interleaving,
\* unless an approval of that very unit was committed after another had overtaken its check
\* (the run DoubleApproval shows what that does).
THEOREM UnitHasOneTenant == Spec => []OneTenantInTurn
<1>1. OInv => OneTenantInTurn
  BY DEF OInv, TenantInUnit, OneTenantInTurn
<1> QED BY InitOInv, StepOInv, <1>1, PTL DEF Spec

\* However answers, decisions and retries interleave, a link moves on only from where the
\* answer that moves it has checked it, and is not left after a final decision, unless that
\* very answer was overtaken between its check and its commit (the run LateWithdrawal shows
\* what that does).
THEOREM LinkKeepsOrder == Spec => LinkInOrder
<1> DEFINE InOrder == \A c \in Case : link'[c] # link[c] =>
        \/ link[c] = "PENDING" /\ link'[c] = "ACCEPTED"
        \/ link[c] # "WITHDRAWN" /\ link'[c] = "WITHDRAWN" /\ decision[c] \notin Final
        \/ \E h \in stale \ stale' : pc[h] = "respond" /\ task[h].case = c
<1>1. LInv /\ [Next]_vars => [InOrder]_vars
  <2> SUFFICES ASSUME LInv, Next, NEW c \in Case, link'[c] # link[c]
               PROVE  \/ link[c] = "PENDING" /\ link'[c] = "ACCEPTED"
                      \/ link[c] # "WITHDRAWN" /\ link'[c] = "WITHDRAWN" /\ decision[c] \notin Final
                      \/ \E h \in stale \ stale' : pc[h] = "respond" /\ task[h].case = c
    OBVIOUS
  <2>1. PICK h \in Handler : RespondCommit(h)
    <3>1. link' # link
      OBVIOUS
    <3>2. ASSUME NEW h \in Handler, Decide(h) PROVE link' = link
      BY <3>2 DEF Decide, DecideCheck, OccupyUnit, DecideCommit, ApproveCommit
    <3>3. ASSUME NEW h \in Handler, Answer(h) \/ Abort(h) PROVE link' = link
      BY <3>3 DEF Answer, SubmitCheck, SubmitCommit, Abort
    <3>4. ASSUME NEW o \in [Unit -> Entered], EditProperty(o) PROVE link' = link
      BY <3>4 DEF EditProperty
    <3>5. \E h \in Handler : Respond(h)
      BY <3>1, <3>2, <3>3, <3>4 DEF Next
    <3> QED BY <3>1, <3>5 DEF Respond, RespondCheck
  <2>2. /\ pc[h] = "respond" /\ task[h].case = c /\ link'[c] = task[h].next
        /\ task[h].next \in {"ACCEPTED", "WITHDRAWN"} /\ h \notin stale'
    BY <2>1 DEF RespondCommit, Overtakes, LInv, IInv, TypeOK, RespondTask
  <2>3. CASE h \in stale
    BY <2>2, <2>3
  <2>4. CASE h \notin stale
    BY <2>2, <2>4 DEF LInv, ResponseStands, MayRespond
  <2> QED BY <2>3, <2>4
<1> QED BY InitLInv, StepLInv, <1>1, PTL DEF Spec, LinkInOrder
=============================================================================
