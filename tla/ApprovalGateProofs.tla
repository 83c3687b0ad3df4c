------------------------- MODULE ApprovalGateProofs -------------------------
(***************************************************************************)
(* Theorems about ApprovalGate, for every value of its constants.          *)
(***************************************************************************)
EXTENDS ApprovalGate, TLAPS

\* The places in which a handler works on an action it holds
Working == {"authorize", "authorized", "policy", "decided", "arm", "execute",
            "preflight", "calling", "discard"}

\* What makes the types inductive: who works holds an action, and goes on to
\* a place where none is held.
Holding == \A h \in Handlers : /\ pc[h] \in Working => cur[h] \in Actions
                               /\ ret[h] \notin Working

\* Changing the columns of a row gives a row.
LEMMA RowUpdate ==
  ASSUME NEW c \in Rows, NEW s \in Statuses, NEW e \in ExecStates
  PROVE  /\ [c EXCEPT !.status = s] \in Rows
         /\ [c EXCEPT !.exec = e] \in Rows
         /\ [c EXCEPT !.linked = TRUE] \in Rows
         /\ [c EXCEPT !.status = s, !.exec = e] \in Rows
         /\ [c EXCEPT !.exec = e, !.status = s] \in Rows
  BY DEF Rows

LEMMA RowStatus ==
  ASSUME NEW c \in Rows, NEW s \in Statuses PROVE [c EXCEPT !.status = s] \in Rows
  BY DEF Rows

LEMMA RowConstants == Absent \in Rows /\ Reserved \in Rows
  BY DEF Absent, Reserved, Rows, Statuses, ExecStates

LEMMA Columns ==
  ASSUME NEW c \in Rows
  PROVE  c.status \in Statuses /\ c.exec \in ExecStates /\ c.linked \in BOOLEAN
  BY DEF Rows

LEMMA NoSnap == ASSUME NEW h \in Handlers, TypeOK
                PROVE  [snap EXCEPT ![h] = [a \in Actions |-> Absent]]
                         \in [Handlers -> [Actions -> Rows]]
  BY RowConstants DEF TypeOK

LEMMA CopyStatus ==
  ASSUME TypeOK, NEW h \in Handlers, NEW s \in Statuses
  PROVE  [copy EXCEPT ![h].status = s] \in [Handlers -> Rows]
  BY DEF TypeOK, Rows

LEMMA CopyLinked ==
  ASSUME TypeOK, NEW h \in Handlers
  PROVE  [copy EXCEPT ![h].linked = TRUE] \in [Handlers -> Rows]
  BY DEF TypeOK, Rows

LEMMA InitType == Init => TypeOK
<1> SUFFICES ASSUME Init PROVE TypeOK
  OBVIOUS
<1>1. calls \in [Actions -> 0 .. MaxCalls] /\ crashes \in 0 .. MaxCrashes
  BY GateAssumption DEF Init
<1>2. /\ action \in [Actions -> Rows]
      /\ copy \in [Handlers -> Rows]
      /\ snap \in [Handlers -> [Actions -> Rows]]
  BY RowConstants DEF Init
<1>3. pc \in [Handlers -> Places] /\ ret \in [Handlers -> Places]
  BY DEF Init, Places
<1> QED
  BY <1>1, <1>2, <1>3, GateAssumption DEF Init, TypeOK, Statuses

LEMMA ReturnType ==
  ASSUME TypeOK, NEW h \in Handlers, NEW c \in Rows, Return(h, c)
  PROVE  /\ pc' \in [Handlers -> Places]
         /\ cur' \in [Handlers -> Actions \cup {NoAction}]
         /\ copy' \in [Handlers -> Rows]
         /\ snap' \in [Handlers -> [Actions -> Rows]]
         /\ UNCHANGED <<todo, ready, late, ret>>
<1>1. Absent \in Rows
  BY DEF Absent, Rows, Statuses, ExecStates
<1>2. snap' \in [Handlers -> [Actions -> Rows]]
  BY DEF Return, TypeOK
<1> QED
  BY <1>1, <1>2 DEF Return, Goto, TypeOK

LEMMA PrepareType == TypeOK /\ PrepareStep => TypeOK'
<1> SUFFICES ASSUME TypeOK, PrepareStep PROVE TypeOK'
  OBVIOUS
<1> USE DEF rows, clock, memory, hist, Goto
<1>h. Direct \in Handlers
  BY DEF Handlers
<1>1. ASSUME NEW a \in Actions, Reserve(a) PROVE TypeOK'
  BY <1>1, <1>h DEF Reserve, TypeOK, Reserved, Rows, Statuses, ExecStates, Places
<1>2. CASE AuthorizeByPolicy
  <2>1. copy' \in [Handlers -> Rows]
    <3> DEFINE s == IF cur[Direct] \in Scheduled THEN "scheduled"
                    ELSE "waiting-for-integration"
    <3>1. s \in Statuses
      BY DEF Statuses
    <3>2. copy' = [copy EXCEPT ![Direct].status = s]
      BY <1>2 DEF AuthorizeByPolicy
    <3> QED
      BY <1>h, <3>1, <3>2, CopyStatus
  <2> QED
    BY <1>2, <1>h, <2>1 DEF AuthorizeByPolicy, TypeOK, Places
<1>3. CASE RequestApproval
  <2>1. copy' \in [Handlers -> Rows]
    BY <1>3, <1>h, CopyLinked DEF RequestApproval
  <2> QED
    BY <1>3, <1>h, <2>1 DEF RequestApproval, TypeOK, Places
<1>4. CASE SaveAuthorized
  <2>1. action' \in [Actions -> Rows]
    BY <1>4, <1>h DEF SaveAuthorized, SaveAndReturn, Save, TypeOK
  <2>2. CASE SaveAndReturn(Direct, copy[Direct])
    BY <1>4, <1>h, <2>1, <2>2, ReturnType DEF SaveAuthorized, SaveAndReturn, TypeOK
  <2>3. CASE UNCHANGED memory /\ Goto(Direct, IF copy[Direct].status = "scheduled"
                                              THEN "arm" ELSE "execute")
    BY <1>4, <1>h, <2>1, <2>3 DEF SaveAuthorized, TypeOK, Places
  <2> QED
    BY <1>4, <2>2, <2>3 DEF SaveAuthorized
<1>5. CASE ParkTurn
  BY <1>5, <1>h, NoSnap DEF ParkTurn, TypeOK, Places
<1>6. CASE AnswerDirectly
  <2>1. answer' \in [Actions -> Statuses]
    BY <1>6, <1>h, Columns DEF AnswerDirectly, TypeOK
  <2> QED
    BY <1>6, <1>h, <2>1, NoSnap DEF AnswerDirectly, TypeOK, Places
<1> QED
  BY <1>1, <1>2, <1>3, <1>4, <1>5, <1>6 DEF PrepareStep

LEMMA DecideType ==
  ASSUME TypeOK, NEW a \in Actions, NEW d \in {"approved", "rejected"},
         NEW p \in BOOLEAN, Decide(a, d, p)
  PROVE  TypeOK'
<1>h. a \in Handlers
  BY DEF Handlers
<1>1. copy' \in [Handlers -> Rows]
  <2>1. /\ action[a] \in Rows
        /\ [action[a] EXCEPT !.status = "rejected", !.exec = "settled"] \in Rows
    BY RowUpdate DEF TypeOK, Statuses, ExecStates
  <2>2. \E c \in Rows : copy' = [copy EXCEPT ![a] = c]
    BY <2>1 DEF Decide
  <2> QED
    BY <1>h, <2>2 DEF TypeOK
<1>2. pc' \in [Handlers -> Places] /\ ret' \in [Handlers -> Places]
  BY <1>h DEF Decide, TypeOK, Goto, Places
<1>3. request' \in [Actions -> {"absent", "pending", "approved", "rejected", "expired"}]
  BY DEF Decide, TypeOK
<1>4. cur' \in [Handlers -> Actions \cup {NoAction}] /\ late' \in [Handlers -> BOOLEAN]
  BY <1>h DEF Decide, TypeOK
<1> QED
  BY <1>1, <1>2, <1>3, <1>4 DEF Decide, TypeOK, clock, hist

LEMMA DecisionType ==
  ASSUME TypeOK, NEW a \in Actions, DecisionStep(a)
  PROVE  TypeOK'
<1>h. a \in Handlers
  BY DEF Handlers
<1>1. CASE GrantPolicy(a)
  BY <1>1, <1>h DEF GrantPolicy, Goto, TypeOK, clock, memory, hist, Places
<1>2. CASE SaveDecision(a)
  <2> DEFINE c == [copy[a] EXCEPT !.status = IF a \in Scheduled /\ ~late[a] THEN "scheduled"
                                             ELSE "waiting-for-integration"]
  <2>1. c \in Rows
    BY <1>h, RowStatus DEF TypeOK, Statuses
  <2>2. action' = [action EXCEPT ![cur[a]] = c] /\ copy' = [copy EXCEPT ![a] = c]
    BY <1>2 DEF SaveDecision, Save
  <2> HIDE DEF c
  <2>3. action' \in [Actions -> Rows] /\ copy' \in [Handlers -> Rows]
    BY <1>h, <2>1, <2>2 DEF TypeOK
  <2> QED
    BY <1>2, <1>h, <2>3 DEF SaveDecision, Goto, TypeOK, clock, hist, Places
<1> QED
  BY <1>1, <1>2 DEF DecisionStep

\* Saving a row, and leaving the action with it, keeps the types.
LEMMA SaveAndReturnType ==
  ASSUME TypeOK, NEW h \in Handlers, NEW c \in Rows, SaveAndReturn(h, c),
         UNCHANGED <<request, policies, turn, granted, clock, hist>>
  PROVE  TypeOK'
<1>1. action' \in [Actions -> Rows]
  BY DEF SaveAndReturn, Save, TypeOK
<1> QED
  BY <1>1, ReturnType DEF SaveAndReturn, TypeOK, clock, hist

LEMMA ExecuteType ==
  ASSUME TypeOK, Holding, NEW h \in Handlers, ExecuteStep(h)
  PROVE  TypeOK'
<1> USE DEF clock, memory, hist, rows
<1>c. copy[h] \in Rows /\ action \in [Actions -> Rows] /\ cur[h] \in Actions
  BY DEF TypeOK, Holding, Working, ExecuteStep, Arm, RefuseUngranted, RefuseUnapproved,
         RefuseNoAdapter, StartPreflight, PreflightRefuses, ClaimAndCall, LoseClaim,
         Settle, Discarded
<1>d. action[cur[h]] \in Rows
  BY <1>c
<1>s. /\ {"executed", "failed", "outcome-unknown", "waiting-for-integration",
           "waiting-for-approval"} \subseteq Statuses
      /\ {"settled", "approved-ready", "executing"} \subseteq ExecStates
  BY DEF Statuses, ExecStates
<1>1. CASE Arm(h)
  <2> DEFINE c == [action[cur[h]] EXCEPT !.exec = "approved-ready"]
  <2>1. c \in Rows
    BY <1>d, <1>s, RowUpdate, Columns
  <2>2. CASE SaveAndReturn(h, c)
    BY <1>1, <2>1, <2>2, SaveAndReturnType DEF Arm
  <2>3. CASE /\ Save(h, c) /\ copy' = [copy EXCEPT ![h] = c] /\ Goto(h, "execute")
             /\ UNCHANGED <<cur, snap, todo, ready, late, ret>>
    <3> HIDE DEF c
    <3> QED
      BY <1>1, <2>1, <2>3 DEF Arm, Save, Goto, TypeOK, Places
  <2> QED
    BY <1>1, <2>2, <2>3 DEF Arm
<1>2. CASE RefuseUngranted(h)
  BY <1>2, <1>s, CopyStatus DEF RefuseUngranted, Goto, TypeOK, Places
<1>3. CASE RefuseUnapproved(h)
  BY <1>3, <1>c, <1>s, RowUpdate, Columns, SaveAndReturnType DEF RefuseUnapproved
<1>4. CASE RefuseNoAdapter(h)
  BY <1>4, <1>c, <1>s, RowUpdate, SaveAndReturnType DEF RefuseNoAdapter
<1>5. CASE StartPreflight(h)
  <2> DEFINE c == [copy[h] EXCEPT !.status = "waiting-for-integration"]
  <2>1. c \in Rows
    BY <1>c, <1>s, RowUpdate, Columns
  <2>2. /\ action' \in {action, [action EXCEPT ![cur[h]] = c]}
        /\ copy' = [copy EXCEPT ![h] = c]
    BY <1>5 DEF StartPreflight
  <2> HIDE DEF c
  <2>3. action' \in [Actions -> Rows] /\ copy' \in [Handlers -> Rows]
    BY SMTT(20), <2>1, <2>2 DEF TypeOK
  <2> QED
    BY <1>5, <2>3 DEF StartPreflight, Goto, TypeOK, Places
<1>6. CASE PreflightRefuses(h)
  BY <1>6, <1>c, <1>s, RowUpdate, SaveAndReturnType DEF PreflightRefuses
<1>7. CASE ClaimAndCall(h)
  <2> DEFINE c == [action[cur[h]] EXCEPT !.exec = "executing",
                                         !.status = "waiting-for-integration"]
  <2>1. c \in Rows
    BY <1>d, <1>s, RowUpdate
  <2>2. action' = [action EXCEPT ![cur[h]] = c] /\ copy' = [copy EXCEPT ![h] = c]
    BY <1>7 DEF ClaimAndCall, Save
  <2>3. calls' \in [Actions -> 0 .. MaxCalls]
    BY <1>7, <1>c, GateAssumption DEF ClaimAndCall, TypeOK
  <2> HIDE DEF c
  <2> QED
    BY <1>7, <2>1, <2>2, <2>3 DEF ClaimAndCall, Goto, TypeOK, Places
<1>8. CASE LoseClaim(h)
  BY <1>8, <1>c, ReturnType DEF LoseClaim, TypeOK
<1>9. ASSUME NEW r \in {"executed", "failed", "outcome-unknown", "waiting-for-integration"},
             Settle(h, r)
      PROVE  TypeOK'
  BY <1>9, <1>c, <1>s, RowUpdate, SaveAndReturnType DEF Settle
<1>10. CASE Discarded(h)
  BY <1>10, <1>c, SaveAndReturnType DEF Discarded
<1> QED
  BY <1>1, <1>2, <1>3, <1>4, <1>5, <1>6, <1>7, <1>8, <1>9, <1>10 DEF ExecuteStep

LEMMA TickType ==
  ASSUME TypeOK, TickStep
  PROVE  TypeOK'
<1> USE DEF rows, clock, memory, hist, Goto
<1>h. Tick \in Handlers
  BY DEF Handlers
<1>1. CASE TickStart
  BY <1>1, <1>h DEF TickStart, Expires, TypeOK, Places
<1>2. ASSUME NEW a \in Actions, ExpireNext(a) PROVE TypeOK'
  <2> DEFINE c == [snap[Tick][a] EXCEPT !.status = "rejected"]
  <2>1. c \in Rows
    <3>1. snap[Tick][a] \in Rows
      BY <1>h DEF TypeOK
    <3>2. "rejected" \in Statuses
      BY DEF Statuses
    <3> QED
      BY <3>1, <3>2, RowStatus
  <2>2. copy' \in {copy, [copy EXCEPT ![Tick] = c]}
    BY <1>2 DEF ExpireNext
  <2> HIDE DEF c
  <2>3. copy' \in [Handlers -> Rows]
    BY <1>h, <2>1, <2>2 DEF TypeOK
  <2>4. pc' \in [Handlers -> Places] /\ ret' \in [Handlers -> Places]
    BY ZenonT(40), <1>2, <1>h DEF ExpireNext, TypeOK, Places
  <2>5. /\ cur' \in [Handlers -> Actions \cup {NoAction}]
        /\ todo' \in [Handlers -> SUBSET Actions]
    BY <1>2, <1>h DEF ExpireNext, TypeOK
  <2> QED
    BY <1>2, <2>3, <2>4, <2>5 DEF ExpireNext, TypeOK
<1>3. CASE ListDue
  BY <1>3, <1>h DEF ListDue, TypeOK, Places
<1>4. ASSUME NEW a \in Actions, ExecuteDue(a) PROVE TypeOK'
  BY <1>4, <1>h DEF ExecuteDue, TypeOK, Places
<1>5. CASE TickAborted
  BY <1>5, <1>h, NoSnap DEF TickAborted, TypeOK, Places
<1>6. CASE TickEnd
  BY <1>6, <1>h, NoSnap DEF TickEnd, TypeOK, Places
<1> QED
  BY <1>1, <1>2, <1>3, <1>4, <1>5, <1>6 DEF TickStep

LEMMA ContinueType ==
  ASSUME TypeOK, NEW h \in Handlers, ContinueStep(h)
  PROVE  TypeOK'
<1> USE DEF rows, clock, memory, hist, Goto
<1>1. CASE NotReady(h)
  BY <1>1 DEF NotReady, Leave, Back, TypeOK, Places
<1>2. CASE CollectReady(h)
  BY <1>2 DEF CollectReady, ReadyNow, TypeOK, Places
<1>3. ASSUME NEW a \in Actions, ExecuteReady(h, a) PROVE TypeOK'
  BY <1>3 DEF ExecuteReady, TypeOK, Places
<1>4. CASE NotResumed(h)
  BY <1>4 DEF NotResumed, Leave, Back, TypeOK, Places
<1>5. CASE Resume(h)
  <2>1. answer' \in [Actions -> Statuses]
    BY <1>5, Columns DEF Resume, TypeOK
  <2> QED
    BY <1>5, <2>1 DEF Resume, TypeOK, Places
<1>6. ASSUME NEW r \in {"completed", "failed"}, Answered(h, r) PROVE TypeOK'
  BY <1>6 DEF Answered, Leave, Back, TypeOK, Places
<1> QED
  BY <1>1, <1>2, <1>3, <1>4, <1>5, <1>6 DEF ContinueStep

LEMMA RecoverType == ASSUME TypeOK, RecoverStep PROVE TypeOK'
<1> USE DEF rows, clock, memory, hist, Goto
<1>h. Recover \in Handlers
  BY DEF Handlers
<1>1. CASE Reconcile
  <2>1. action' \in [Actions -> Rows]
    BY <1>1, RowUpdate DEF Reconcile, TypeOK, Statuses, ExecStates
  <2> QED
    BY <1>1, <1>h, <2>1 DEF Reconcile, ReadyNow, TypeOK, Places
<1>2. CASE RecoverTurn
  BY <1>2, <1>h DEF RecoverTurn, TypeOK, Places
<1> QED
  BY <1>1, <1>2 DEF RecoverStep

LEMMA CrashType == ASSUME TypeOK, CrashRestart PROVE TypeOK'
<1>1. action' \in [Actions -> Rows]
  BY RowUpdate DEF CrashRestart, Interrupted, TypeOK, Statuses, ExecStates
<1>2. copy' \in [Handlers -> Rows] /\ snap' \in [Handlers -> [Actions -> Rows]]
  BY RowConstants DEF CrashRestart
<1>3. crashes' \in 0 .. MaxCrashes
  <2>1. crashes \in 0 .. MaxCrashes /\ crashes < MaxCrashes /\ crashes' = crashes + 1
    BY DEF CrashRestart, TypeOK
  <2> QED
    BY <2>1, GateAssumption
<1> QED
  BY <1>1, <1>2, <1>3 DEF CrashRestart, TypeOK, clock, Places

LEMMA WorldType ==
  ASSUME TypeOK,
         \/ ChangeGrant \/ BecomeDue \/ Lapse \/ \E a \in Actions : RevokePolicy(a)
  PROVE  TypeOK'
  BY DEF TypeOK, ChangeGrant, BecomeDue, Lapse, RevokePolicy, rows, clock, memory, hist

LEMMA StepType == ASSUME TypeOK, Holding, [Next]_vars PROVE TypeOK'
<1>1. CASE UNCHANGED vars
  BY <1>1 DEF vars, rows, clock, memory, hist, TypeOK
<1>2. CASE Next
  <2>1. CASE UserStep
    BY <2>1, DecideType, WorldType DEF UserStep
  <2> QED
    BY <1>2, <2>1, PrepareType, DecisionType, TickType, ExecuteType, ContinueType,
       RecoverType, CrashType, WorldType DEF Next
<1> QED
  BY <1>1, <1>2

LEMMA StepHolding == ASSUME TypeOK, Holding, [Next]_vars PROVE Holding'
<1> USE DEF rows, clock, memory, hist, Goto
<1>h. {Direct, Tick, Recover} \subseteq Handlers /\ Actions \subseteq Handlers
  BY DEF Handlers
<1>t. /\ pc \in [Handlers -> Places] /\ ret \in [Handlers -> Places]
      /\ cur \in [Handlers -> Actions \cup {NoAction}]
  BY DEF TypeOK
<1>r. ASSUME NEW h \in Handlers, NEW c, Return(h, c) PROVE Holding'
  BY <1>r, <1>t DEF Return, Holding, Working
<1>0. CASE UNCHANGED <<pc, cur, ret>>
  BY <1>0 DEF Holding
<1>1. CASE PrepareStep
  BY <1>1, <1>h, <1>t, <1>r DEF PrepareStep, Reserve, AuthorizeByPolicy, RequestApproval,
     SaveAuthorized, SaveAndReturn, ParkTurn, AnswerDirectly, Holding, Working
<1>2. ASSUME NEW a \in Actions, DecisionStep(a) PROVE Holding'
  BY <1>2, <1>h, <1>t DEF DecisionStep, GrantPolicy, SaveDecision, Holding, Working
<1>3. CASE TickStep
  BY <1>3, <1>h, <1>t DEF TickStep, TickStart, ExpireNext, ListDue, ExecuteDue,
     TickAborted, TickEnd, Holding, Working
<1>4. ASSUME NEW h \in Handlers, ExecuteStep(h) PROVE Holding'
  BY <1>4, <1>t, <1>r DEF ExecuteStep, Arm, RefuseUngranted, RefuseUnapproved,
     RefuseNoAdapter, StartPreflight, PreflightRefuses, ClaimAndCall, LoseClaim, Settle,
     Discarded, SaveAndReturn, Holding, Working
<1>5. ASSUME NEW h \in Handlers, ContinueStep(h) PROVE Holding'
  BY <1>5, <1>t DEF ContinueStep, NotReady, CollectReady, ExecuteReady, NotResumed,
     Resume, Answered, Leave, Back, Holding, Working
<1>6. CASE RecoverStep
  BY <1>6, <1>h, <1>t DEF RecoverStep, Reconcile, RecoverTurn, Holding, Working
<1>7. ASSUME NEW a \in Actions, NEW d, NEW p, Decide(a, d, p) PROVE Holding'
  BY <1>7, <1>h, <1>t DEF Decide, Holding, Working
<1>8. CASE CrashRestart
  BY <1>8 DEF CrashRestart, Holding, Working
<1> QED
  BY <1>0, <1>1, <1>2, <1>3, <1>4, <1>5, <1>6, <1>7, <1>8
     DEF Next, UserStep, ChangeGrant, RevokePolicy, BecomeDue, Lapse, vars

LEMMA InitHolding == Init => Holding
  BY DEF Init, Holding, Working

\* Every variable keeps its type, whatever the constants are.
THEOREM TypeCorrect == Spec => []TypeOK
<1>1. Init => Holding
  BY InitHolding
<1>2. TypeOK /\ Holding /\ [Next]_vars => TypeOK' /\ Holding'
  BY StepType, StepHolding
<1> QED
  BY <1>1, <1>2, InitType, PTL DEF Spec

-----------------------------------------------------------------------------
(* What the user refused is never called *)

\* An action that direct() has not decided how to authorise yet
Fresh(a) == a \in todo[Direct] \/ (pc[Direct] = "authorize" /\ cur[Direct] = a)

\* No decision stands against the action, or can any more.
Unrefused(a) == request[a] \in {"absent", "approved"}

\* Policies cover only what is unrefused.
PolicyInv ==
  /\ policies \subseteq ExactTarget
  /\ \A a \in Actions : a \in policies => Unrefused(a)
  /\ \A a \in Actions : pc[a] = "policy" => request[a] = "approved" /\ a \in ExactTarget

\* Nobody else touches an action before direct() authorised it.
FreshInv ==
  /\ \A a \in todo[Direct] : action[a] = Absent /\ cur[Direct] # a
  /\ \A a \in Actions : Fresh(a) =>
       /\ request[a] = "absent" /\ calls[a] = 0
       /\ action[a].exec = "none" /\ ~action[a].linked
       /\ a \notin todo[Tick]
       /\ \A h \in Handlers : a \notin ready[h] /\ (h # Direct => cur[h] # a)

\* What is refused was never called, and who is past the check of the approval
\* holds an action that cannot be refused any more.
CallInv ==
  /\ \A a \in Actions : ~Unrefused(a) => calls[a] = 0
  /\ \A h \in Handlers : pc[h] = "preflight" => Unrefused(cur[h])

Typed == TypeOK /\ Holding

LEMMA DistinctHandlers ==
  /\ Direct \in Handlers /\ Tick \in Handlers /\ Recover \in Handlers
  /\ Actions \subseteq Handlers
  /\ Direct \notin Actions /\ Tick \notin Actions /\ Recover \notin Actions
  /\ Direct # Tick /\ Tick # Recover /\ Direct # Recover
  BY GateAssumption DEF Handlers, Direct, Tick, Recover

\* While one handler is between two awaits no other is.
LEMMA Alone ==
  ASSUME NEW g \in Handlers, NEW h \in Handlers, g # h, MayRun(g)
  PROVE  /\ pc[h] \in {"idle", "calling", "answer", "preflight", "discard"}
  BY DEF MayRun, Awaits

\* What the work on one action leaves alone, and where it can lead
LEMMA ExecuteFrame ==
  ASSUME NEW h \in Handlers, ExecuteStep(h)
  PROVE  UNCHANGED <<policies, request, turn, granted, due, lapsed, todo, ready, late, ret>>
  BY DEF ExecuteStep, Arm, RefuseUngranted, RefuseUnapproved, RefuseNoAdapter,
     StartPreflight, PreflightRefuses, ClaimAndCall, LoseClaim, Settle, Discarded,
     SaveAndReturn, Return, rows, clock, memory, hist

LEMMA ExecuteMoves ==
  ASSUME Typed, NEW h \in Handlers, ExecuteStep(h)
  PROVE  /\ pc' = [pc EXCEPT ![h] = pc'[h]]
         /\ pc'[h] \in {ret[h], "execute", "discard", "preflight", "calling"}
<1> USE DEF Goto
<1>t. pc \in [Handlers -> Places]
  BY DEF Typed, TypeOK
<1>1. ASSUME NEW c, Return(h, c)
      PROVE  pc' = [pc EXCEPT ![h] = pc'[h]] /\ pc'[h] = ret[h]
  BY <1>1, <1>t DEF Return
<1>2. ASSUME NEW place, Goto(h, place)
      PROVE  pc' = [pc EXCEPT ![h] = pc'[h]] /\ pc'[h] = place
  BY <1>2, <1>t
<1> HIDE DEF Goto
<1> QED
  BY <1>1, <1>2 DEF ExecuteStep, Arm, RefuseUngranted, RefuseUnapproved, RefuseNoAdapter,
     StartPreflight, PreflightRefuses, ClaimAndCall, LoseClaim, Settle, Discarded,
     SaveAndReturn

LEMMA ContinueFrame ==
  ASSUME NEW h \in Handlers, ContinueStep(h)
  PROVE  UNCHANGED <<action, policies, request, granted, due, lapsed, snap, todo, calls>>
  BY DEF ContinueStep, NotReady, CollectReady, ExecuteReady, NotResumed, Resume, Answered,
     Leave, rows, clock, memory, hist

LEMMA ContinueMoves ==
  ASSUME Typed, NEW h \in Handlers, ContinueStep(h)
  PROVE  /\ pc' = [pc EXCEPT ![h] = pc'[h]]
         /\ pc'[h] \in {"idle", "expired", "ready", "execute", "answer"}
  BY DEF ContinueStep, NotReady, CollectReady, ExecuteReady, NotResumed, Resume, Answered,
     Leave, Back, Goto, Typed, TypeOK

LEMMA StepPolicy == ASSUME Typed, PolicyInv, FreshInv, [Next]_vars PROVE PolicyInv'
<1> USE DEF rows, clock, memory, hist, Goto, Typed
<1>t. /\ pc \in [Handlers -> Places] /\ ret \in [Handlers -> Places]
      /\ \A h \in Handlers : ret[h] # "policy"
      /\ request \in [Actions -> {"absent", "pending", "approved", "rejected", "expired"}]
  BY DEF TypeOK, Holding, Working
<1>0. ASSUME policies' \subseteq policies, request' = request,
             \A a \in Actions : pc'[a] = "policy" => pc[a] = "policy"
      PROVE  PolicyInv'
  BY <1>0 DEF PolicyInv, Unrefused
<1>r. ASSUME NEW h \in Handlers, NEW c, Return(h, c)
      PROVE  \A a \in Actions : pc'[a] = "policy" => pc[a] = "policy"
  BY <1>r, <1>t, DistinctHandlers DEF Return
<1>1. CASE PrepareStep
  <2>1. CASE RequestApproval
    <3>1. cur[Direct] \in Actions => cur[Direct] \notin policies
      BY <2>1 DEF RequestApproval, Matching, PolicyInv
    <3>2. \A a \in Actions : pc'[a] = pc[a]
      BY <2>1, <1>t, DistinctHandlers DEF RequestApproval
    <3>3. \A a \in Actions : a # cur[Direct] => request'[a] = request[a]
      BY <2>1, <1>t DEF RequestApproval
    <3>4. Fresh(cur[Direct])
      BY <2>1 DEF RequestApproval, Fresh
    <3>5. \A a \in Actions : pc[a] = "policy" => a # cur[Direct]
      BY <3>4 DEF PolicyInv, FreshInv
    <3> QED
      BY <2>1, <3>1, <3>2, <3>3, <3>5 DEF RequestApproval, PolicyInv, Unrefused
  <2> QED
    BY <1>1, <2>1, <1>0, <1>t, <1>r, DistinctHandlers DEF PrepareStep, Reserve,
       AuthorizeByPolicy, SaveAuthorized, SaveAndReturn, ParkTurn, AnswerDirectly
<1>2. ASSUME NEW a \in Actions, GrantPolicy(a) PROVE PolicyInv'
  BY <1>2, <1>t, DistinctHandlers DEF GrantPolicy, PolicyInv, Unrefused
<1>3. ASSUME NEW a \in Actions, SaveDecision(a) PROVE PolicyInv'
  BY <1>3, <1>0, <1>t, DistinctHandlers DEF SaveDecision
<1>4. CASE TickStart
  BY <1>4, <1>t, DistinctHandlers DEF TickStart, Expires, PolicyInv, Unrefused
<1>5. CASE TickStep /\ request' = request
  BY <1>5, <1>0, <1>t, DistinctHandlers DEF TickStep, TickStart, ExpireNext, ListDue,
     ExecuteDue, TickAborted, TickEnd
<1>6. ASSUME NEW h \in Handlers, ExecuteStep(h) PROVE PolicyInv'
  <2>1. UNCHANGED <<policies, request>>
    BY <1>6, ExecuteFrame
  <2>2. \A a \in Actions : pc'[a] = "policy" => pc[a] = "policy"
    BY <1>6, <1>t, ExecuteMoves, DistinctHandlers
  <2> QED
    BY <1>0, <2>1, <2>2
<1>7. ASSUME NEW h \in Handlers, ContinueStep(h) PROVE PolicyInv'
  <2>1. UNCHANGED <<policies, request>>
    BY <1>7, ContinueFrame
  <2>2. \A a \in Actions : pc'[a] = "policy" => pc[a] = "policy"
    BY <1>7, <1>t, ContinueMoves, DistinctHandlers
  <2> QED
    BY <1>0, <2>1, <2>2
<1>8. CASE RecoverStep
  BY <1>8, <1>0, <1>t, DistinctHandlers DEF RecoverStep, Reconcile, RecoverTurn
<1>9. ASSUME NEW a \in Actions, NEW d \in {"approved", "rejected"}, NEW p \in BOOLEAN,
             Decide(a, d, p)
      PROVE  PolicyInv'
  BY <1>9, <1>t, DistinctHandlers DEF Decide, PolicyInv, Unrefused
<1>10. CASE CrashRestart
  BY <1>10, <1>0, DistinctHandlers DEF CrashRestart
<1>11. CASE ChangeGrant \/ BecomeDue \/ Lapse \/ (\E a \in Actions : RevokePolicy(a))
            \/ UNCHANGED vars
  BY <1>11, <1>0 DEF ChangeGrant, BecomeDue, Lapse, RevokePolicy, vars
<1> QED
  BY <1>1, <1>2, <1>3, <1>4, <1>5, <1>6, <1>7, <1>8, <1>9, <1>10, <1>11
     DEF Next, UserStep, DecisionStep, TickStep, ExpireNext, ListDue, ExecuteDue,
         TickAborted, TickEnd

LEMMA ExecuteRows ==
  ASSUME Typed, NEW h \in Handlers, ExecuteStep(h)
  PROVE  /\ cur[h] \in Actions
         /\ \A a \in Actions : a # cur[h] => action'[a] = action[a] /\ calls'[a] = calls[a]
         /\ cur' \in {cur, [cur EXCEPT ![h] = NoAction]}
<1>1. cur[h] \in Actions
  BY DEF Typed, TypeOK, Holding, Working, ExecuteStep, Arm, RefuseUngranted,
         RefuseUnapproved, RefuseNoAdapter, StartPreflight, PreflightRefuses,
         ClaimAndCall, LoseClaim, Settle, Discarded
<1>2. action \in [Actions -> Rows] /\ calls \in [Actions -> 0 .. MaxCalls]
  BY DEF Typed, TypeOK
<1>3. ASSUME NEW c, Save(h, c)
      PROVE  \A a \in Actions : a # cur[h] => action'[a] = action[a]
  BY <1>2, <1>3 DEF Save
<1>4. ASSUME NEW c, Return(h, c) PROVE cur' = [cur EXCEPT ![h] = NoAction]
  BY <1>4 DEF Return
<1>5. CASE ClaimAndCall(h)
  BY <1>1, <1>2, <1>3, <1>5 DEF ClaimAndCall
<1>6. CASE StartPreflight(h)
  BY <1>1, <1>2, <1>6 DEF StartPreflight, hist
<1> QED
  BY <1>1, <1>3, <1>4, <1>5, <1>6 DEF ExecuteStep, Arm, RefuseUngranted,
     RefuseUnapproved, RefuseNoAdapter, PreflightRefuses, LoseClaim, Settle, Discarded,
     SaveAndReturn, rows, memory, hist

LEMMA StepFresh == ASSUME Typed, FreshInv, [Next]_vars PROVE FreshInv'
<1> USE DEF rows, clock, memory, hist
<1>t. /\ pc \in [Handlers -> Places] /\ cur \in [Handlers -> Actions \cup {NoAction}]
      /\ action \in [Actions -> Rows]
      /\ todo \in [Handlers -> SUBSET Actions] /\ ready \in [Handlers -> SUBSET Actions]
      /\ request \in [Actions -> {"absent", "pending", "approved", "rejected", "expired"}]
      /\ \A h \in Handlers : ret[h] \notin Working
  BY DEF Typed, TypeOK, Holding
<1>n. NoAction \notin Actions
  BY GateAssumption
<1>1. ASSUME NEW h \in Handlers, ExecuteStep(h) PROVE FreshInv'
  <2>1. /\ pc' = [pc EXCEPT ![h] = pc'[h]]
        /\ pc'[h] # "authorize"
    BY <1>1, <1>t, ExecuteMoves DEF Working
  <2>2. \A a \in Actions : Fresh(a)' => Fresh(a)
    BY <1>1, <1>t, <1>n, <2>1, ExecuteFrame, ExecuteRows, DistinctHandlers DEF Fresh
  <2>3. \A a \in Actions : Fresh(a)' => a # cur[h]
    <3>1. CASE h = Direct
      BY <3>1, <1>1, <1>t, <2>1, ExecuteFrame DEF Fresh, FreshInv
    <3>2. CASE h # Direct
      BY <3>2, <2>2 DEF FreshInv
    <3> QED
      BY <3>1, <3>2
  <2>4. \A a \in todo'[Direct] : Fresh(a)'
    BY DEF Fresh
  <2> QED
    BY <1>1, <1>t, <1>n, <2>2, <2>3, <2>4, ExecuteFrame, ExecuteRows, DistinctHandlers
       DEF FreshInv
<1>2. ASSUME NEW h \in Handlers, ContinueStep(h) PROVE FreshInv'
  <2>1. /\ pc' = [pc EXCEPT ![h] = pc'[h]]
        /\ pc'[h] # "authorize"
    BY <1>2, ContinueMoves
  <2>2. \A a \in Actions : Fresh(a)' => Fresh(a)
    <3>1. CASE h = Direct
      BY <3>1, <1>2, <1>t, <2>1, ContinueFrame DEF Fresh
    <3>2. CASE h # Direct
      <4>1. cur'[Direct] = cur[Direct]
        BY <3>2, <1>2, <1>t, DistinctHandlers DEF ContinueStep, NotReady, CollectReady,
           ExecuteReady, NotResumed, Resume, Answered
      <4> QED
        BY <3>2, <4>1, <1>2, <1>t, <2>1, ContinueFrame, DistinctHandlers DEF Fresh
    <3> QED
      BY <3>1, <3>2
  <2>3. \A a \in Actions : Fresh(a) => \A g \in Handlers : a \notin ready'[g]
    BY <1>2, <1>t DEF FreshInv, ContinueStep, NotReady, CollectReady, ReadyNow, ExecuteReady,
       NotResumed, Resume, Answered
  <2>4. \A a \in Actions : Fresh(a) => \A g \in Handlers : cur'[g] = a => cur[g] = a
    BY <1>2, <1>t DEF FreshInv, ContinueStep, NotReady, CollectReady, ExecuteReady,
       NotResumed, Resume, Answered
  <2>5. \A a \in todo'[Direct] : Fresh(a)' /\ a \in todo[Direct]
    BY <1>2, ContinueFrame DEF Fresh
  <2>6. \A a \in todo'[Direct] : action'[a] = Absent /\ cur'[Direct] # a
    <3> TAKE a \in todo'[Direct]
    <3>1. a \in Actions /\ Fresh(a) /\ a \in todo[Direct]
      BY <1>t, <2>5, DistinctHandlers DEF Fresh
    <3> QED
      BY <1>2, <2>4, <3>1, ContinueFrame, DistinctHandlers DEF FreshInv
  <2>7. UNCHANGED <<request, calls, action, todo>>
    BY <1>2, ContinueFrame
  <2> QED
    BY <2>2, <2>3, <2>4, <2>6, <2>7 DEF FreshInv
<1>3. CASE PrepareStep
  <2>h. \A h \in Handlers \ {Direct} : pc[h] \in {"idle", "calling", "answer", "preflight", "discard"}
    BY <1>3, Alone, DistinctHandlers DEF PrepareStep, Reserve, AuthorizeByPolicy,
       RequestApproval, SaveAuthorized, ParkTurn, AnswerDirectly
  <2>1. ASSUME NEW a \in Actions, Reserve(a) PROVE FreshInv'
    <3>1. /\ todo' = [todo EXCEPT ![Direct] = @ \ {a}]
          /\ cur' = [cur EXCEPT ![Direct] = a]
          /\ action' = [action EXCEPT ![a] = Reserved]
          /\ UNCHANGED <<request, calls, ready>>
          /\ a \in todo[Direct]
      BY <2>1 DEF Reserve
    <3>2. \A b \in Actions : Fresh(b)' => Fresh(b) /\ b \in todo[Direct]
      BY <1>t, <3>1, DistinctHandlers DEF Fresh
    <3>3. Reserved.exec = "none" /\ ~Reserved.linked /\ Absent.exec = "none" /\ ~Absent.linked
      BY DEF Reserved, Absent
    <3>4. todo'[Direct] = todo[Direct] \ {a} /\ todo'[Tick] = todo[Tick] /\ cur'[Direct] = a
      BY <3>1, <1>t, DistinctHandlers
    <3>5. \A b \in todo'[Direct] : action'[b] = Absent /\ cur'[Direct] # b
      BY <3>1, <3>4, <1>t, DistinctHandlers DEF FreshInv
    <3>6. \A b \in Actions : Fresh(b)' => action'[b].exec = "none" /\ ~action'[b].linked
      BY <3>1, <3>2, <3>3, <1>t DEF FreshInv
    <3> QED
      BY <3>1, <3>2, <3>4, <3>5, <3>6, <1>t, DistinctHandlers DEF FreshInv
  <2>2. ASSUME /\ pc'[Direct] # "authorize"
               /\ UNCHANGED <<todo, ready>>
               /\ \A a \in Actions : a # cur[Direct] =>
                    action'[a] = action[a] /\ request'[a] = request[a]
               /\ calls' = calls
               /\ cur' \in {cur, [cur EXCEPT ![Direct] = NoAction]}
        PROVE  FreshInv'
    <3>1. \A a \in Actions : Fresh(a)' => a \in todo[Direct] /\ Fresh(a) /\ a # cur[Direct]
      BY <2>2, <1>t, DistinctHandlers DEF Fresh, FreshInv
    <3>2. \A a \in todo'[Direct] : action'[a] = Absent /\ cur'[Direct] # a
      BY <2>2, <1>t, <1>n, DistinctHandlers DEF FreshInv
    <3> QED
      BY <2>2, <3>1, <3>2, <1>t, <1>n, DistinctHandlers DEF FreshInv
  <2>3. CASE AuthorizeByPolicy
    BY <2>2, <2>3, <1>t, DistinctHandlers DEF AuthorizeByPolicy, Goto
  <2>4. CASE RequestApproval
    BY <2>2, <2>4, <1>t, DistinctHandlers DEF RequestApproval, Goto
  <2>5. CASE SaveAuthorized
    BY <2>2, <2>5, <1>t, DistinctHandlers DEF SaveAuthorized, SaveAndReturn, Save, Return,
       Goto, Working
  <2>6. CASE ParkTurn \/ AnswerDirectly
    BY <2>2, <2>6, <1>t, DistinctHandlers DEF ParkTurn, AnswerDirectly, Goto
  <2> QED
    BY <1>3, <2>1, <2>3, <2>4, <2>5, <2>6 DEF PrepareStep
<1>4. ASSUME UNCHANGED <<todo, ready, calls>>, pc'[Direct] = pc[Direct], cur'[Direct] = cur[Direct],
             \A a \in Actions : Fresh(a) =>
                /\ action'[a] = action[a] /\ request'[a] = request[a]
                /\ \A h \in Handlers \ {Direct} : cur'[h] # a
      PROVE  FreshInv'
  <2>1. \A a \in Actions : Fresh(a)' => Fresh(a)
    BY <1>4 DEF Fresh
  <2>2. \A a \in todo'[Direct] : action'[a] = Absent /\ cur'[Direct] # a
    BY <1>4, <1>t, DistinctHandlers DEF FreshInv, Fresh
  <2> QED
    BY <1>4, <2>1, <2>2 DEF FreshInv
<1>5. ASSUME NEW b \in Actions, DecisionStep(b) PROVE FreshInv'
  <2>1. \A a \in Actions : Fresh(a) => a # cur[b]
    BY DistinctHandlers DEF FreshInv
  <2> QED
    BY <1>4, <1>5, <1>t, <2>1, DistinctHandlers DEF DecisionStep, GrantPolicy, SaveDecision,
       Save, Goto, FreshInv
<1>6. ASSUME NEW b \in Actions, NEW d, NEW p, Decide(b, d, p) PROVE FreshInv'
  <2>1. \A a \in Actions : Fresh(a) => a # b
    BY <1>6 DEF Decide, FreshInv
  <2> QED
    BY <1>4, <1>6, <1>t, <2>1, DistinctHandlers DEF Decide, Goto, FreshInv
<1>7. CASE \/ ChangeGrant \/ BecomeDue \/ Lapse \/ (\E a \in Actions : RevokePolicy(a))
           \/ UNCHANGED vars
  BY <1>4, <1>7 DEF ChangeGrant, BecomeDue, Lapse, RevokePolicy, vars, FreshInv
<1>8. CASE CrashRestart
  <2>1. \A a \in Actions : ~Fresh(a)'
    BY <1>8, DistinctHandlers DEF CrashRestart, Fresh
  <2>2. todo'[Direct] = {}
    BY <1>8, DistinctHandlers DEF CrashRestart
  <2> QED
    BY <2>1, <2>2 DEF FreshInv
<1>9. CASE RecoverStep
  <2>1. \A a \in Actions : Fresh(a) => ~Unsaved(a)
    BY DEF FreshInv, Unsaved
  <2>2. CASE RecoverTurn
    BY <1>4, <2>2, <1>t, DistinctHandlers DEF RecoverTurn, Goto, FreshInv
  <2>3. CASE Reconcile
    <3>1. /\ pc'[Direct] = pc[Direct]
          /\ UNCHANGED <<todo, calls, request, cur>>
          /\ ready' = [ready EXCEPT ![Recover] = ReadyNow(action', late[Recover])]
          /\ \A a \in Actions : Fresh(a) => action'[a] = action[a]
      BY <2>1, <2>3, <1>t, DistinctHandlers DEF Reconcile, Goto
    <3>2. \A a \in Actions : Fresh(a)' => Fresh(a)
      BY <3>1 DEF Fresh
    <3>3. \A a \in Actions : Fresh(a) => \A h \in Handlers : a \notin ready'[h]
      BY <3>1, <1>t DEF FreshInv, ReadyNow
    <3>4. \A a \in todo'[Direct] : action'[a] = Absent /\ cur'[Direct] # a
      BY <3>1, <1>t, DistinctHandlers DEF FreshInv, Fresh
    <3> QED
      BY <3>1, <3>2, <3>3, <3>4 DEF FreshInv
  <2> QED
    BY <1>9, <2>2, <2>3 DEF RecoverStep
<1>10. CASE TickStep
  <2>1. MayRun(Tick)
    BY <1>10 DEF TickStep, TickStart, ExpireNext, ListDue, ExecuteDue, TickAborted, TickEnd,
       Quiet, MayRun
  <2>2. pc[Direct] # "authorize"
    BY <2>1, Alone, DistinctHandlers
  <2>3. pc'[Direct] = pc[Direct] /\ cur'[Direct] = cur[Direct] /\ todo'[Direct] = todo[Direct]
    BY <1>10, <1>t, DistinctHandlers DEF TickStep, TickStart, ExpireNext, ListDue, ExecuteDue,
       TickAborted, TickEnd, Goto
  <2>4. UNCHANGED <<action, calls, ready>>
    BY <1>10 DEF TickStep, TickStart, ExpireNext, ListDue, ExecuteDue, TickAborted, TickEnd
  <2>5. \A a \in Actions : Fresh(a)' => Fresh(a) /\ action[a] = Absent
    BY <2>2, <2>3 DEF Fresh, FreshInv
  <2>6. \A a \in Actions : Fresh(a) => request'[a] = request[a]
    BY <1>10, <1>t DEF TickStep, TickStart, ExpireNext, ListDue, ExecuteDue, TickAborted,
       TickEnd, FreshInv, Expires
  <2>7. \A a \in Actions : Fresh(a) /\ action[a] = Absent => a \notin todo'[Tick]
    <3>1. Absent.status = "absent"
      BY DEF Absent
    <3> QED
      BY <1>10, <1>t, <3>1, DistinctHandlers DEF TickStep, TickStart, ExpireNext, ListDue,
         ExecuteDue, TickAborted, TickEnd, FreshInv
  <2>8. \A a \in Actions : Fresh(a) => \A h \in Handlers \ {Direct} : cur'[h] # a
    BY <1>10, <1>t, DistinctHandlers DEF TickStep, TickStart, ExpireNext, ListDue,
       ExecuteDue, TickAborted, TickEnd, FreshInv
  <2>9. \A a \in todo'[Direct] : action'[a] = Absent /\ cur'[Direct] # a
    BY <2>3, <2>4 DEF FreshInv
  <2> QED
    BY <2>4, <2>5, <2>6, <2>7, <2>8, <2>9 DEF FreshInv
<1> QED
  BY <1>1, <1>2, <1>3, <1>5, <1>6, <1>7, <1>8, <1>9, <1>10 DEF Next, UserStep

LEMMA StepCall == ASSUME Typed, PolicyInv, FreshInv, CallInv, [Next]_vars PROVE CallInv'
<1> USE DEF rows, clock, memory, hist, Goto
<1>t. /\ pc \in [Handlers -> Places] /\ cur \in [Handlers -> Actions \cup {NoAction}]
      /\ calls \in [Actions -> 0 .. MaxCalls]
      /\ request \in [Actions -> {"absent", "pending", "approved", "rejected", "expired"}]
      /\ \A h \in Handlers : ret[h] \notin Working
      /\ \A h \in Handlers : pc[h] \in Working => cur[h] \in Actions
  BY DEF Typed, TypeOK, Holding
<1>p. \A h \in Handlers : pc[h] = "preflight" => cur[h] \in Actions /\ Unrefused(cur[h])
  BY <1>t DEF CallInv, Working
\* A step that starts no preflight, makes no call and refuses nothing
<1>0. ASSUME UNCHANGED calls,
             \A h \in Handlers : pc'[h] = "preflight" => pc[h] = "preflight" /\ cur'[h] = cur[h],
             \A a \in Actions : request'[a] = request[a] \/ Unrefused(a)'
                                \/ (calls[a] = 0 /\ ~Unrefused(a))
      PROVE  CallInv'
  BY <1>0, <1>p DEF CallInv, Unrefused
<1>1. CASE PrepareStep
  <2>1. CASE RequestApproval
    <3>1. calls[cur[Direct]] = 0 /\ cur[Direct] \in Actions
      BY <2>1, <1>t, DistinctHandlers DEF RequestApproval, Working, FreshInv, Fresh
    <3>2. \A h \in Handlers : pc'[h] = "preflight" =>
             pc[h] = "preflight" /\ cur'[h] = cur[h] /\ cur[h] # cur[Direct]
      BY <2>1, <1>t, <3>1, DistinctHandlers DEF RequestApproval, FreshInv, Fresh
    <3> QED
      BY <2>1, <3>1, <3>2, <1>t, <1>p DEF RequestApproval, CallInv, Unrefused
  <2>2. CASE UNCHANGED <<request, calls>>
    <3>1. \A h \in Handlers : pc'[h] = "preflight" => pc[h] = "preflight" /\ cur'[h] = cur[h]
      BY <1>1, <1>t, DistinctHandlers DEF PrepareStep, Reserve, AuthorizeByPolicy,
         RequestApproval, SaveAuthorized, SaveAndReturn, Return, ParkTurn, AnswerDirectly,
         Working
    <3> QED
      BY <1>0, <2>2, <3>1
  <2> QED
    BY <1>1, <2>1, <2>2 DEF PrepareStep, Reserve, AuthorizeByPolicy, SaveAuthorized, ParkTurn,
       AnswerDirectly
<1>2. ASSUME NEW b \in Actions, DecisionStep(b) PROVE CallInv'
  BY <1>0, <1>2, <1>t, DistinctHandlers DEF DecisionStep, GrantPolicy, SaveDecision
<1>3. CASE TickStep
  <2>1. \A h \in Handlers : pc'[h] = "preflight" => pc[h] = "preflight" /\ cur'[h] = cur[h]
    BY <1>3, <1>t, DistinctHandlers DEF TickStep, TickStart, ExpireNext, ListDue, ExecuteDue,
       TickAborted, TickEnd
  <2>2. \A a \in Actions : request'[a] = request[a] \/ (calls[a] = 0 /\ ~Unrefused(a))
    BY <1>3, <1>t DEF TickStep, TickStart, ExpireNext, ListDue, ExecuteDue, TickAborted,
       TickEnd, Expires, CallInv, Unrefused
  <2>3. UNCHANGED calls
    BY <1>3 DEF TickStep, TickStart, ExpireNext, ListDue, ExecuteDue, TickAborted, TickEnd
  <2> QED
    BY <1>0, <2>1, <2>2, <2>3
<1>4. ASSUME NEW h \in Handlers, ExecuteStep(h) PROVE CallInv'
  <2>1. request' = request
    BY <1>4, ExecuteFrame
  <2>2. cur[h] \in Actions
    BY <1>4, ExecuteRows
  <2>3. CASE StartPreflight(h)
    <3>1. Unrefused(cur[h])
      BY <2>3, <2>2 DEF StartPreflight, Approved, Matching, PolicyInv, Unrefused
    <3> QED
      BY <2>3, <3>1, <1>t, <1>p DEF StartPreflight, CallInv, Unrefused
  <2>4. CASE ClaimAndCall(h)
    <3>1. Unrefused(cur[h])
      BY <2>4, <1>p DEF ClaimAndCall
    <3>2. \A a \in Actions : a # cur[h] => calls'[a] = calls[a]
      BY <2>4, <1>t DEF ClaimAndCall
    <3>3. \A g \in Handlers : pc'[g] = "preflight" => pc[g] = "preflight" /\ cur'[g] = cur[g]
      BY <2>4, <1>t DEF ClaimAndCall
    <3> QED
      BY <2>1, <3>1, <3>2, <3>3, <1>p DEF CallInv, Unrefused
  <2>5. CASE ~StartPreflight(h) /\ ~ClaimAndCall(h)
    <3>1. UNCHANGED calls /\ pc'[h] # "preflight"
      BY <2>5, <1>4, <1>t DEF ExecuteStep, Arm, RefuseUngranted, RefuseUnapproved,
         RefuseNoAdapter, PreflightRefuses, LoseClaim, Settle, Discarded, SaveAndReturn,
         Return, Working
    <3>2. \A g \in Handlers : g # h => pc'[g] = pc[g] /\ cur'[g] = cur[g]
      <4>1. pc' = [pc EXCEPT ![h] = pc'[h]]
        BY <1>4, ExecuteMoves
      <4>2. cur' \in {cur, [cur EXCEPT ![h] = NoAction]}
        BY <1>4, ExecuteRows
      <4> QED
        BY <4>1, <4>2, <1>t
    <3> QED
      BY <1>0, <2>1, <3>1, <3>2
  <2> QED
    BY <2>3, <2>4, <2>5
<1>5. ASSUME NEW h \in Handlers, ContinueStep(h) PROVE CallInv'
  <2>1. UNCHANGED <<request, calls>>
    BY <1>5, ContinueFrame
  <2>2. pc' = [pc EXCEPT ![h] = pc'[h]] /\ pc'[h] # "preflight"
    BY <1>5, ContinueMoves
  <2>3. \A g \in Handlers : g # h => cur'[g] = cur[g]
    BY <1>5, <1>t DEF ContinueStep, NotReady, CollectReady, ExecuteReady, NotResumed, Resume,
       Answered
  <2> QED
    BY <1>0, <1>t, <2>1, <2>2, <2>3
<1>6. CASE RecoverStep
  BY <1>0, <1>6, <1>t, DistinctHandlers DEF RecoverStep, Reconcile, RecoverTurn
<1>7. ASSUME NEW b \in Actions, NEW d, NEW p, Decide(b, d, p) PROVE CallInv'
  <2>1. request[b] = "pending" /\ calls[b] = 0 /\ ~Unrefused(b)
    BY <1>7 DEF Decide, CallInv, Unrefused
  <2>2. \A a \in Actions : a # b => request'[a] = request[a]
    BY <1>7, <1>t DEF Decide
  <2>3. \A h \in Handlers : pc'[h] = "preflight" => pc[h] = "preflight" /\ cur'[h] = cur[h]
    BY <1>7, <1>t, DistinctHandlers DEF Decide
  <2>4. UNCHANGED calls
    BY <1>7 DEF Decide
  <2> QED
    BY <1>0, <2>1, <2>2, <2>3, <2>4
<1>8. CASE \/ ChangeGrant \/ BecomeDue \/ Lapse \/ (\E a \in Actions : RevokePolicy(a))
           \/ UNCHANGED vars
  BY <1>0, <1>8 DEF ChangeGrant, BecomeDue, Lapse, RevokePolicy, vars
<1>9. CASE CrashRestart
  BY <1>0, <1>9 DEF CrashRestart
<1> QED
  BY <1>1, <1>2, <1>3, <1>4, <1>5, <1>6, <1>7, <1>8, <1>9 DEF Next, UserStep

\* The initial states have the invariant.
LEMMA InitRefusal == Init => PolicyInv /\ FreshInv /\ CallInv
<1> SUFFICES ASSUME Init PROVE PolicyInv /\ FreshInv /\ CallInv
  OBVIOUS
<1>1. PolicyInv
  BY GateAssumption, DistinctHandlers DEF Init, PolicyInv, Unrefused
<1>2. FreshInv
  BY GateAssumption, DistinctHandlers DEF Init, FreshInv, Fresh, Absent
<1>3. CallInv
  BY DistinctHandlers DEF Init, CallInv
<1> QED
  BY <1>1, <1>2, <1>3

\* What the user rejected or let expire never leaves the process: for any
\* number of actions, whatever their policies, decisions, schedules, changes of
\* the grant and crashes.  That a request is not refused any more once it passed
\* #isApproved (CallInv), that policies stand on approvals (PolicyInv), and that
\* nobody takes up an action before its request exists (FreshInv), carry it.
THEOREM RefusalsHold == Spec => []RefusedNeverCalled
<1>1. Init => Typed
  BY InitType, InitHolding DEF Typed
<1>2. Typed /\ PolicyInv /\ FreshInv /\ CallInv /\ [Next]_vars
        => Typed' /\ PolicyInv' /\ FreshInv' /\ CallInv'
  BY StepType, StepHolding, StepPolicy, StepFresh, StepCall DEF Typed
<1>3. CallInv => RefusedNeverCalled
  BY DEF CallInv, RefusedNeverCalled, Unrefused
<1> QED
  BY <1>1, <1>2, <1>3, InitRefusal, PTL DEF Spec

-----------------------------------------------------------------------------
(* What is asked for at a later time waits for it *)

\* A time that a handler read as past is past, and what it takes up as ready has
\* its time behind it.
ClockInv ==
  /\ \A h \in Handlers : late[h] => due
  /\ \A h \in Handlers : \A a \in ready[h] : a \in Scheduled => due
  /\ pc[Tick] = "due" \/ (pc[Tick] \in Working /\ ret[Tick] = "due") => todo[Tick] = {} \/ due

\* Whoever works on a scheduled action does so after its time, or has it
\* scheduled.
OnTime(h) ==
  cur[h] \in Scheduled =>
    /\ pc[h] \in {"execute", "preflight", "calling"} => due
    /\ pc[h] = "arm" => due \/ action[cur[h]].status = "scheduled"
    /\ pc[h] \in {"authorize", "authorized"} =>
         due \/ copy[h].status \in {"waiting-for-approval", "scheduled"}

OnTimeInv ==
  /\ \A h \in Handlers : OnTime(h)
  /\ \A a \in Actions : pc[a] \in {"policy", "decided"} => cur[a] = a

TimeInv == ClockInv /\ OnTimeInv /\ NeverEarly

LEMMA TimePasses == ASSUME [Next]_vars, due PROVE due'
<1> USE DEF rows, clock, memory, hist
<1>1. ASSUME NEW h \in Handlers, ExecuteStep(h) \/ ContinueStep(h) PROVE due'
  BY <1>1, ExecuteFrame, ContinueFrame
<1>2. CASE PrepareStep \/ TickStep \/ RecoverStep \/ \E a \in Actions : DecisionStep(a)
  BY <1>2 DEF PrepareStep, Reserve, AuthorizeByPolicy, RequestApproval, SaveAuthorized,
     ParkTurn, AnswerDirectly, TickStep, TickStart, ExpireNext, ListDue, ExecuteDue,
     TickAborted, TickEnd, RecoverStep, Reconcile, RecoverTurn, DecisionStep, GrantPolicy,
     SaveDecision
<1>3. CASE UserStep \/ Lapse \/ BecomeDue \/ CrashRestart \/ UNCHANGED vars
  BY <1>3 DEF UserStep, Decide, ChangeGrant, RevokePolicy, Lapse, BecomeDue, CrashRestart, vars
<1> QED
  BY <1>1, <1>2, <1>3 DEF Next

LEMMA StepClock == ASSUME Typed, ClockInv, [Next]_vars PROVE ClockInv'
<1> USE DEF rows, clock, memory, hist, Goto
<1>t. /\ pc \in [Handlers -> Places] /\ ret \in [Handlers -> Places]
      /\ todo \in [Handlers -> SUBSET Actions] /\ ready \in [Handlers -> SUBSET Actions]
      /\ late \in [Handlers -> BOOLEAN] /\ due \in BOOLEAN
      /\ \A h \in Handlers : ret[h] \notin Working
  BY DEF Typed, TypeOK, Holding
<1>d. due => due'
  BY TimePasses
\* A step that takes up nothing new
<1>0. ASSUME \A h \in Handlers : late'[h] => late[h],
             \A h \in Handlers : ready'[h] \subseteq ready[h],
             todo'[Tick] \subseteq todo[Tick],
             pc'[Tick] = "due" \/ (pc'[Tick] \in Working /\ ret'[Tick] = "due") =>
               pc[Tick] = "due" \/ (pc[Tick] \in Working /\ ret[Tick] = "due")
      PROVE  ClockInv'
  BY <1>0, <1>d DEF ClockInv
<1>1. CASE PrepareStep
  BY <1>0, <1>1, <1>t, DistinctHandlers DEF PrepareStep, Reserve, AuthorizeByPolicy,
     RequestApproval, SaveAuthorized, SaveAndReturn, Return, ParkTurn, AnswerDirectly
<1>2. ASSUME NEW b \in Actions, DecisionStep(b) PROVE ClockInv'
  BY <1>0, <1>2, <1>t, DistinctHandlers DEF DecisionStep, GrantPolicy, SaveDecision
<1>3. CASE TickStep
  <2>1. CASE TickStart
    BY <2>1, <1>d, <1>t, DistinctHandlers DEF TickStart, ClockInv, Working
  <2>2. CASE ListDue
    BY <2>2, <1>d, <1>t, DistinctHandlers DEF ListDue, ClockInv
  <2>3. CASE (\E a \in Actions : ExpireNext(a) \/ ExecuteDue(a)) \/ TickAborted \/ TickEnd
    <3>1. \A h \in Handlers : late'[h] => late[h]
      BY <2>3, <1>t, DistinctHandlers DEF ExpireNext, ExecuteDue, TickAborted, TickEnd
    <3>2. ready' = ready /\ todo'[Tick] \subseteq todo[Tick]
      BY <2>3, <1>t, DistinctHandlers DEF ExpireNext, ExecuteDue, TickAborted, TickEnd
    <3>3. pc'[Tick] = "due" \/ (pc'[Tick] \in Working /\ ret'[Tick] = "due") => pc[Tick] = "due"
      BY <2>3, <1>t, DistinctHandlers DEF ExpireNext, ExecuteDue, TickAborted, TickEnd, Working
    <3> QED
      BY <1>0, <3>1, <3>2, <3>3
  <2> QED
    BY <1>3, <2>1, <2>2, <2>3 DEF TickStep
<1>4. ASSUME NEW h \in Handlers, ExecuteStep(h) PROVE ClockInv'
  <2>1. UNCHANGED <<todo, ready, late, ret>>
    BY <1>4, ExecuteFrame
  <2>2. pc[h] \in Working
    BY <1>4 DEF ExecuteStep, Arm, RefuseUngranted, RefuseUnapproved, RefuseNoAdapter,
       StartPreflight, PreflightRefuses, ClaimAndCall, LoseClaim, Settle, Discarded, Working
  <2>3. pc' = [pc EXCEPT ![h] = pc'[h]] /\ (pc'[h] = ret[h] \/ pc'[h] \in Working)
    BY <1>4, ExecuteMoves DEF Working
  <2>4. "due" \notin Working
    BY DEF Working
  <2> QED
    BY <1>0, <1>t, <2>1, <2>2, <2>3, <2>4, DistinctHandlers
<1>5. ASSUME NEW h \in Handlers, ContinueStep(h) PROVE ClockInv'
  <2>1. todo' = todo /\ pc' = [pc EXCEPT ![h] = pc'[h]] /\ pc'[h] # "due"
    BY <1>5, ContinueFrame, ContinueMoves
  <2>2. pc'[h] \in Working => ret' = [ret EXCEPT ![h] = pc[h]] /\ pc[h] \in {"ready", "recovering"}
    BY <1>5, <1>t DEF ContinueStep, NotReady, CollectReady, ExecuteReady, NotResumed, Resume,
       Answered, Leave, Back, Working
  <2>3. \A g \in Handlers \ {h} : ret'[g] = ret[g]
    BY <1>5, <1>t DEF ContinueStep, NotReady, CollectReady, ExecuteReady, NotResumed, Resume,
       Answered
  <2>4. \A g \in Handlers : late'[g] => late[g]
    BY <1>5, <1>t DEF ContinueStep, NotReady, CollectReady, ExecuteReady, NotResumed, Resume,
       Answered, Leave
  <2>5. pc'[Tick] = "due" \/ (pc'[Tick] \in Working /\ ret'[Tick] = "due") =>
          pc[Tick] = "due" \/ (pc[Tick] \in Working /\ ret[Tick] = "due")
    BY <1>t, <2>1, <2>2, <2>3, DistinctHandlers
  <2>6. CASE CollectReady(h)
    BY <1>d, <1>t, <2>1, <2>4, <2>5, <2>6, DistinctHandlers DEF CollectReady, ReadyNow, ClockInv
  <2>7. CASE ~CollectReady(h)
    <3>1. \A g \in Handlers : ready'[g] \subseteq ready[g]
      BY <1>5, <1>t, <2>7 DEF ContinueStep, NotReady, ExecuteReady, NotResumed, Resume, Answered
    <3> QED
      BY <1>0, <2>1, <2>4, <2>5, <3>1
  <2> QED
    BY <2>6, <2>7
<1>6. CASE Reconcile
  BY <1>6, <1>d, <1>t, DistinctHandlers DEF Reconcile, ReadyNow, ClockInv
<1>7. CASE RecoverTurn
  BY <1>0, <1>7, <1>t, DistinctHandlers DEF RecoverTurn
<1>8. ASSUME NEW b \in Actions, NEW d, NEW p, Decide(b, d, p) PROVE ClockInv'
  <2>1. /\ UNCHANGED <<todo, ready, due>> /\ late' = [late EXCEPT ![b] = due]
        /\ ret'[Tick] = ret[Tick] /\ pc'[Tick] = pc[Tick]
    BY <1>8, <1>t, DistinctHandlers DEF Decide
  <2> QED
    BY <2>1, <1>t DEF ClockInv
<1>9. CASE ChangeGrant \/ BecomeDue \/ Lapse \/ (\E a \in Actions : RevokePolicy(a)) \/ UNCHANGED vars
  BY <1>0, <1>9 DEF ChangeGrant, BecomeDue, Lapse, RevokePolicy, vars
<1>10. CASE CrashRestart
  BY <1>10, <1>d, DistinctHandlers DEF CrashRestart, ClockInv, Working
<1> QED
  BY <1>1, <1>2, <1>3, <1>4, <1>5, <1>6, <1>7, <1>8, <1>9, <1>10
     DEF Next, UserStep, RecoverStep

LEMMA StepOnTime == ASSUME Typed, ClockInv, OnTimeInv, [Next]_vars PROVE OnTimeInv'
<1> USE DEF rows, clock, memory, hist, Goto
<1>t. /\ pc \in [Handlers -> Places] /\ cur \in [Handlers -> Actions \cup {NoAction}]
      /\ copy \in [Handlers -> Rows] /\ action \in [Actions -> Rows]
      /\ \A h \in Handlers : ret[h] \notin Working
      /\ \A h \in Handlers : pc[h] \in Working => cur[h] \in Actions
  BY DEF Typed, TypeOK, Holding
<1>d. due => due'
  BY TimePasses
<1>n. NoAction \notin Scheduled /\ Scheduled \subseteq Actions
  BY GateAssumption
\* A step of one handler: the others are at rest or past the check of the time.
<1>0. ASSUME NEW h \in Handlers, MayRun(h),
             \A g \in Handlers \ {h} : pc'[g] = pc[g] /\ cur'[g] = cur[g],
             OnTime(h)', h \in Actions /\ pc'[h] \in {"policy", "decided"} => cur'[h] = h
      PROVE  OnTimeInv'
  <2>1. \A g \in Handlers \ {h} : pc[g] \in {"idle", "calling", "answer", "preflight", "discard"}
    BY <1>0, Alone
  <2>2. \A g \in Handlers \ {h} : OnTime(g)'
    BY <1>0, <1>d, <2>1 DEF OnTimeInv, OnTime
  <2>3. \A a \in Actions : pc'[a] \in {"policy", "decided"} => cur'[a] = a
    BY <1>0, DistinctHandlers DEF OnTimeInv
  <2> QED
    BY <1>0, <2>2, <2>3 DEF OnTimeInv
\* A step in which nobody takes up anything
<1>q. ASSUME UNCHANGED <<cur, copy, action>>,
             \A h \in Handlers : pc'[h] = pc[h] \/ pc'[h] \notin Working
      PROVE  OnTimeInv'
  BY <1>q, <1>d, DistinctHandlers DEF OnTimeInv, OnTime, Working
<1>1. CASE PrepareStep
  <2>0. MayRun(Direct) /\ Direct \in Handlers /\ Direct \notin Actions
    BY <1>1, DistinctHandlers DEF PrepareStep, Reserve, AuthorizeByPolicy, RequestApproval,
       SaveAuthorized, ParkTurn, AnswerDirectly
  <2>1. \A g \in Handlers \ {Direct} : pc'[g] = pc[g] /\ cur'[g] = cur[g]
    BY <1>1, <1>t, <2>0 DEF PrepareStep, Reserve, AuthorizeByPolicy, RequestApproval,
       SaveAuthorized, SaveAndReturn, Return, ParkTurn, AnswerDirectly
  <2>2. ASSUME NEW a \in Actions, Reserve(a) PROVE OnTime(Direct)'
    <3>1. /\ pc'[Direct] = "authorize" /\ copy'[Direct] = Reserved
          /\ Reserved.status = "waiting-for-approval"
      BY <2>2, <1>t, <2>0 DEF Reserve, Reserved
    <3> QED
      BY <3>1 DEF OnTime
  <2>3. ASSUME AuthorizeByPolicy PROVE OnTime(Direct)'
    <3>1. /\ pc'[Direct] = "authorized" /\ cur' = cur
          /\ cur[Direct] \in Scheduled => copy'[Direct].status = "scheduled"
      BY <2>3, <1>t, <2>0 DEF AuthorizeByPolicy, Rows
    <3> QED
      BY <3>1 DEF OnTime
  <2>4. ASSUME RequestApproval PROVE OnTime(Direct)'
    <3>1. /\ pc[Direct] = "authorize" /\ pc'[Direct] = "authorized" /\ cur' = cur
          /\ copy'[Direct].status = copy[Direct].status
      BY <2>4, <1>t, <2>0 DEF RequestApproval, Rows
    <3> QED
      BY <3>1, <2>0, <1>d DEF OnTimeInv, OnTime
  <2>5. ASSUME SaveAuthorized PROVE OnTime(Direct)'
    <3>1. CASE copy[Direct].status = "waiting-for-approval"
      <4>1. pc'[Direct] \notin Working
        BY <2>5, <3>1, <1>t, <2>0 DEF SaveAuthorized, SaveAndReturn, Return
      <4> QED
        BY <4>1 DEF OnTime, Working
    <3>2. CASE copy[Direct].status # "waiting-for-approval"
      <4>1. /\ pc[Direct] = "authorized" /\ cur' = cur /\ cur[Direct] \in Actions
            /\ action' = [action EXCEPT ![cur[Direct]] = copy[Direct]]
            /\ pc'[Direct] = IF copy[Direct].status = "scheduled" THEN "arm" ELSE "execute"
        BY <2>5, <3>2, <1>t, <2>0 DEF SaveAuthorized, Save, Working
      <4>2. action'[cur[Direct]] = copy[Direct]
        BY <4>1, <1>t
      <4> QED
        BY <4>1, <4>2, <3>2, <2>0, <1>d DEF OnTimeInv, OnTime
    <3> QED
      BY <3>1, <3>2
  <2>6. ASSUME ParkTurn \/ AnswerDirectly PROVE OnTime(Direct)'
    <3>1. pc'[Direct] \in {"idle", "answer"}
      BY <2>6, <1>t, <2>0 DEF ParkTurn, AnswerDirectly
    <3> QED
      BY <3>1 DEF OnTime
  <2>7. OnTime(Direct)'
    BY <1>1, <2>2, <2>3, <2>4, <2>5, <2>6 DEF PrepareStep
  <2> QED
    BY <1>0, <2>0, <2>1, <2>7
<1>2. ASSUME NEW b \in Actions, DecisionStep(b) PROVE OnTimeInv'
  <2>1. /\ b \in Handlers /\ MayRun(b) /\ cur' = cur /\ cur[b] = b
        /\ \A g \in Handlers \ {b} : pc'[g] = pc[g]
    BY <1>2, <1>t, DistinctHandlers DEF DecisionStep, GrantPolicy, SaveDecision, OnTimeInv
  <2>2. CASE GrantPolicy(b)
    <3>1. pc'[b] = "decided"
      BY <2>2, <1>t, <2>1 DEF GrantPolicy
    <3> QED
      BY <1>0, <2>1, <3>1 DEF OnTime
  <2>3. CASE SaveDecision(b)
    <3>1. /\ pc'[b] = "arm"
          /\ b \in Scheduled /\ ~late[b] => action'[b].status = "scheduled"
      BY <2>3, <1>t, <2>1 DEF SaveDecision, Save, Rows
    <3>2. late[b] => due
      BY <2>1 DEF ClockInv
    <3> QED
      BY <1>0, <1>d, <2>1, <3>1, <3>2 DEF OnTime
  <2> QED
    BY <1>2, <2>2, <2>3 DEF DecisionStep
<1>3. CASE TickStep
  <2>1. MayRun(Tick) /\ Tick \in Handlers /\ Tick \notin Actions
    BY <1>3, DistinctHandlers DEF TickStep, TickStart, ExpireNext, ListDue, ExecuteDue,
       TickAborted, TickEnd, Quiet, MayRun
  <2>2. \A g \in Handlers \ {Tick} : pc'[g] = pc[g] /\ cur'[g] = cur[g]
    BY <1>3, <1>t, <2>1 DEF TickStep, TickStart, ExpireNext, ListDue, ExecuteDue,
       TickAborted, TickEnd
  <2>3. ASSUME NEW a \in Actions, ExecuteDue(a) PROVE OnTime(Tick)'
    <3>1. due
      BY <2>3 DEF ExecuteDue, ClockInv
    <3>2. pc'[Tick] = "execute"
      BY <2>3, <1>t, <2>1 DEF ExecuteDue
    <3> QED
      BY <1>d, <3>1, <3>2 DEF OnTime
  <2>4. CASE ~\E a \in Actions : ExecuteDue(a)
    <3>1. pc'[Tick] \in {"idle", "expired", "due", "discard"}
      BY <1>3, <2>4, <1>t, <2>1 DEF TickStep, TickStart, ExpireNext, ListDue, TickAborted, TickEnd
    <3>2. OnTime(Tick)'
      BY <3>1 DEF OnTime
    <3> QED
      BY <1>0, <2>1, <2>2, <3>2
  <2> QED
    BY <1>0, <2>1, <2>2, <2>3, <2>4
<1>4. ASSUME NEW h \in Handlers, ExecuteStep(h) PROVE OnTimeInv'
  <2>1. /\ pc' = [pc EXCEPT ![h] = pc'[h]]
        /\ pc'[h] \in {ret[h], "execute", "discard", "preflight", "calling"}
        /\ cur' \in {cur, [cur EXCEPT ![h] = NoAction]} /\ cur[h] \in Actions
    BY <1>4, ExecuteMoves, ExecuteRows
  <2>2. MayRun(h)
    BY <1>4 DEF ExecuteStep, Arm, RefuseUngranted, RefuseUnapproved, RefuseNoAdapter,
       StartPreflight, PreflightRefuses, ClaimAndCall, LoseClaim, Settle, Discarded
  <2>3. CASE Arm(h)
    <3>1. /\ pc[h] = "arm" /\ pc'[h] \in {ret[h], "execute"}
          /\ pc'[h] = "execute" => action[cur[h]].status # "scheduled"
      BY <2>3, <1>t, <2>1 DEF Arm, SaveAndReturn, Return, Rows, Working
    <3> QED
      BY <1>0, <1>d, <1>n, <1>t, <2>1, <2>2, <3>1 DEF OnTimeInv, OnTime, Working
  <2>4. CASE ~Arm(h)
    <3>1. pc'[h] \in {"execute", "preflight", "calling"} => pc[h] \in {"execute", "preflight", "calling"}
      BY <1>4, <2>4, <1>t DEF ExecuteStep, RefuseUngranted, RefuseUnapproved, RefuseNoAdapter,
         StartPreflight, PreflightRefuses, ClaimAndCall, LoseClaim, Settle, Discarded,
         SaveAndReturn, Return, Working
    <3> QED
      BY <1>0, <1>d, <1>n, <1>t, <2>1, <2>2, <3>1 DEF OnTimeInv, OnTime, Working
  <2> QED
    BY <2>3, <2>4
<1>5. ASSUME NEW h \in Handlers, ContinueStep(h) PROVE OnTimeInv'
  <2>1. /\ pc' = [pc EXCEPT ![h] = pc'[h]] /\ MayRun(h)
        /\ pc'[h] \in {"idle", "expired", "ready", "execute", "answer"}
    BY <1>5, ContinueMoves DEF ContinueStep, NotReady, CollectReady, ExecuteReady, NotResumed,
       Resume, Answered
  <2>2. \A g \in Handlers \ {h} : cur'[g] = cur[g]
    BY <1>5, <1>t DEF ContinueStep, NotReady, CollectReady, ExecuteReady, NotResumed, Resume,
       Answered
  <2>3. pc'[h] = "execute" /\ cur'[h] \in Scheduled => due
    <3>1. ASSUME NEW a \in Actions, ExecuteReady(h, a) PROVE cur'[h] \in Scheduled => due
      BY <3>1, <1>t DEF ExecuteReady, ClockInv
    <3>2. (\A a \in Actions : ~ExecuteReady(h, a)) => pc'[h] # "execute"
      BY <1>5, <1>t DEF ContinueStep, NotReady, CollectReady, NotResumed, Resume, Answered,
         Leave, Back
    <3> QED
      BY <3>1, <3>2
  <2>4. OnTime(h)'
    BY <1>d, <2>1, <2>3 DEF OnTime
  <2> QED
    BY <1>0, <1>t, <2>1, <2>2, <2>4
<1>6. CASE RecoverStep
  <2>1. MayRun(Recover) /\ Recover \in Handlers /\ pc'[Recover] \in {"recovering", "continue"}
        /\ \A g \in Handlers \ {Recover} : pc'[g] = pc[g] /\ cur'[g] = cur[g]
    BY <1>6, <1>t, DistinctHandlers DEF RecoverStep, Reconcile, RecoverTurn
  <2>2. OnTime(Recover)'
    BY <2>1 DEF OnTime
  <2> QED
    BY <1>0, <2>1, <2>2
<1>7. ASSUME NEW b \in Actions, NEW d, NEW p, Decide(b, d, p) PROVE OnTimeInv'
  <2>1. MayRun(b) /\ b \in Handlers /\ pc'[b] \in {"discard", "policy", "decided"} /\ cur'[b] = b
        /\ \A g \in Handlers \ {b} : pc'[g] = pc[g] /\ cur'[g] = cur[g]
    BY <1>7, <1>t, DistinctHandlers DEF Decide, Quiet, MayRun
  <2>2. OnTime(b)'
    BY <2>1 DEF OnTime
  <2> QED
    BY <1>0, <2>1, <2>2
<1>8. CASE ChangeGrant \/ BecomeDue \/ Lapse \/ (\E a \in Actions : RevokePolicy(a)) \/ UNCHANGED vars
  BY <1>q, <1>8 DEF ChangeGrant, BecomeDue, Lapse, RevokePolicy, vars
<1>9. CASE CrashRestart
  BY <1>9, DistinctHandlers DEF CrashRestart, OnTimeInv, OnTime
<1> QED
  BY <1>1, <1>2, <1>3, <1>4, <1>5, <1>6, <1>7, <1>8, <1>9 DEF Next, UserStep

\* Calls are made by claims alone.
LEMMA OnlyClaimCalls ==
  ASSUME [Next]_vars, calls' # calls PROVE \E h \in Handlers : ClaimAndCall(h)
  BY ZenonT(40) DEF rows, clock, memory, hist, Next, PrepareStep, Reserve, AuthorizeByPolicy,
     RequestApproval, SaveAuthorized, SaveAndReturn, ParkTurn, AnswerDirectly, DecisionStep, GrantPolicy, SaveDecision,
     TickStep, TickStart, ExpireNext, ListDue, ExecuteDue, TickAborted, TickEnd,
     ExecuteStep, Arm, RefuseUngranted, RefuseUnapproved, RefuseNoAdapter, StartPreflight,
     PreflightRefuses, LoseClaim, Settle, Discarded,
     ContinueStep, NotReady, CollectReady, ExecuteReady, NotResumed, Resume, Answered,
     RecoverStep, Reconcile, RecoverTurn, UserStep, Decide, ChangeGrant, RevokePolicy,
     BecomeDue, Lapse, CrashRestart, vars

LEMMA StepNeverEarly == ASSUME Typed, OnTimeInv, NeverEarly, [Next]_vars PROVE NeverEarly'
<1> USE DEF rows, clock, memory, hist
<1>t. calls \in [Actions -> 0 .. MaxCalls] /\ Scheduled \subseteq Actions
  BY GateAssumption DEF Typed, TypeOK
<1>d. due => due'
  BY TimePasses
<1>1. CASE calls' = calls
  BY <1>1, <1>d DEF NeverEarly
<1>2. ASSUME NEW h \in Handlers, ClaimAndCall(h) PROVE NeverEarly'
  <2>1. pc[h] = "preflight" /\ \A a \in Actions : a # cur[h] => calls'[a] = calls[a]
    BY <1>2, <1>t DEF ClaimAndCall
  <2>2. cur[h] \in Scheduled => due
    BY <2>1 DEF OnTimeInv, OnTime
  <2> QED
    BY <1>d, <1>t, <2>1, <2>2 DEF NeverEarly
<1>3. calls' # calls => \E h \in Handlers : ClaimAndCall(h)
  BY OnlyClaimCalls
<1> QED
  BY <1>1, <1>2, <1>3

LEMMA InitTime == Init => TimeInv
BY GateAssumption, DistinctHandlers
DEF Init, TimeInv, ClockInv, OnTimeInv, OnTime, NeverEarly, Working

\* An action the user asked for at a later time is not executed before that time,
\* by whatever handler, after whatever decision, policy or restart.  That a time
\* once read as past is past and that ready lists hold only what is due
\* (ClockInv), and that who is past the check of the time is so in time
\* (OnTimeInv), carry it.
THEOREM NothingEarly == Spec => []NeverEarly
<1>1. Init => Typed
  BY InitType, InitHolding DEF Typed
<1>2. Typed /\ TimeInv /\ [Next]_vars => Typed' /\ TimeInv'
  BY StepType, StepHolding, StepClock, StepOnTime, StepNeverEarly DEF Typed, TimeInv
<1>3. TimeInv => NeverEarly
  BY DEF TimeInv
<1> QED
  BY <1>1, <1>2, <1>3, InitTime, PTL DEF Spec

-----------------------------------------------------------------------------
(* The turn is answered once *)

\* Nobody has answered the turn, or is about to.
Unanswered == /\ \A a \in Actions : answer[a] = "absent"
              /\ \A h \in Handlers : pc[h] # "answer"

\* While direct() prepares, the turn runs unanswered; a turn that waits is
\* unanswered, and direct() is gone.
AnswerInv ==
  /\ pc[Direct] \notin {"idle", "answer"} => turn = "running" /\ Unanswered
  /\ turn = "waiting-approval" => pc[Direct] = "idle" /\ Unanswered
  /\ \A h \in Handlers : ret[h] # "answer"

LEMMA StepAnswer == ASSUME Typed, AnswerInv, [Next]_vars PROVE AnswerInv'
<1> USE DEF rows, clock, memory, hist, Goto
<1>t. /\ pc \in [Handlers -> Places] /\ ret \in [Handlers -> Places]
      /\ \A h \in Handlers : ret[h] # "answer"
  BY DEF Typed, TypeOK, AnswerInv
<1>d. Direct \in Handlers
  BY DistinctHandlers
\* A step that neither parks, answers nor ends the turn
<1>0. ASSUME UNCHANGED <<turn, answer>>,
             \A h \in Handlers : pc'[h] = "answer" => pc[h] = "answer",
             \A h \in Handlers : ret'[h] # "answer",
             pc'[Direct] \notin {"idle", "answer"} => pc[Direct] \notin {"idle", "answer"},
             pc[Direct] = "idle" => pc'[Direct] = "idle"
      PROVE  AnswerInv'
  BY <1>0 DEF AnswerInv, Unanswered
\* One that ends it
<1>e. ASSUME turn = "running", turn' \in {"completed", "failed"},
             pc[Direct] \in {"idle", "answer"} => pc'[Direct] \in {"idle", "answer"},
             pc[Direct] \in {"idle", "answer"}, ret' = ret
      PROVE  AnswerInv'
  BY <1>e DEF AnswerInv
<1>1. CASE PrepareStep
  <2>1. /\ pc[Direct] \notin {"idle", "answer"}
        /\ \A h \in Handlers : ret'[h] # "answer"
        /\ \A h \in Handlers : h # Direct => pc'[h] = pc[h]
    BY <1>1, <1>t DEF PrepareStep, Reserve, AuthorizeByPolicy, RequestApproval, SaveAuthorized,
       SaveAndReturn, Return, ParkTurn, AnswerDirectly
  <2>2. CASE ParkTurn
    <3>1. answer' = answer /\ pc'[Direct] = "idle"
      BY <2>2, <1>t, <1>d DEF ParkTurn
    <3> QED
      BY <2>1, <3>1 DEF AnswerInv, Unanswered
  <2>3. CASE AnswerDirectly
    <3>1. turn' = turn /\ pc'[Direct] = "answer"
      BY <2>3, <1>t, <1>d DEF AnswerDirectly
    <3> QED
      BY <2>1, <3>1 DEF AnswerInv
  <2>4. CASE ~ParkTurn /\ ~AnswerDirectly
    <3>1. UNCHANGED <<turn, answer>> /\ pc'[Direct] # "answer"
      BY <1>1, <2>4, <1>t, <1>d DEF PrepareStep, Reserve, AuthorizeByPolicy, RequestApproval,
         SaveAuthorized, SaveAndReturn, Return
    <3> QED
      BY <1>0, <2>1, <3>1
  <2> QED
    BY <2>2, <2>3, <2>4
<1>2. ASSUME NEW b \in Actions, DecisionStep(b) PROVE AnswerInv'
  BY <1>0, <1>2, <1>t, DistinctHandlers DEF DecisionStep, GrantPolicy, SaveDecision
<1>3. CASE TickStep
  <2>1. CASE TickAborted
    <3>1. /\ turn = "running" /\ turn' = "failed" /\ ret' = ret /\ pc'[Direct] = pc[Direct]
          /\ pc[Tick] = "answer"
      BY <2>1, <1>t, DistinctHandlers DEF TickAborted
    <3> QED
      BY <1>e, <3>1, DistinctHandlers DEF AnswerInv, Unanswered
  <2>2. CASE ~TickAborted
    <3>1. /\ UNCHANGED <<turn, answer>> /\ pc'[Direct] = pc[Direct]
          /\ \A h \in Handlers : ret'[h] # "answer"
          /\ \A h \in Handlers : pc'[h] = "answer" => pc[h] = "answer"
      BY <1>3, <2>2, <1>t, DistinctHandlers DEF TickStep, TickStart, ExpireNext, ListDue,
         ExecuteDue, TickEnd
    <3> QED
      BY <1>0, <3>1
  <2> QED
    BY <2>1, <2>2
<1>4. ASSUME NEW h \in Handlers, ExecuteStep(h) PROVE AnswerInv'
  <2>1. UNCHANGED <<turn, ret>>
    BY <1>4, ExecuteFrame
  <2>2. answer' = answer /\ pc[h] # "idle" /\ pc[h] # "answer"
    BY <1>4 DEF ExecuteStep, Arm, RefuseUngranted, RefuseUnapproved, RefuseNoAdapter,
       StartPreflight, PreflightRefuses, ClaimAndCall, LoseClaim, Settle, Discarded
  <2>3. pc' = [pc EXCEPT ![h] = pc'[h]] /\ pc'[h] # "answer"
    BY <1>4, <1>t, ExecuteMoves
  <2> QED
    BY <1>0, <1>t, <1>d, <2>1, <2>2, <2>3
<1>5. ASSUME NEW h \in Handlers, ContinueStep(h) PROVE AnswerInv'
  <2>1. \A g \in Handlers : ret'[g] # "answer"
    BY <1>5, <1>t DEF ContinueStep, NotReady, CollectReady, ExecuteReady, NotResumed, Resume,
       Answered
  <2>2. pc' = [pc EXCEPT ![h] = pc'[h]] /\ pc[h] # "idle"
    BY <1>5, ContinueMoves DEF ContinueStep, NotReady, CollectReady, ExecuteReady, NotResumed,
       Resume, Answered
  <2>3. CASE Resume(h)
    <3>1. turn = "waiting-approval" /\ turn' = "running" /\ h # Direct
      BY <2>2, <2>3 DEF Resume, MayResume, AnswerInv
    <3> QED
      BY <1>t, <1>d, <2>1, <2>2, <3>1 DEF AnswerInv
  <2>4. ASSUME NEW r \in {"completed", "failed"}, Answered(h, r) PROVE AnswerInv'
    <3>1. turn = "running" /\ turn' = r /\ ret' = ret /\ pc[h] = "answer"
      BY <2>4 DEF Answered
    <3>2. pc[Direct] \in {"idle", "answer"}
      BY <3>1 DEF AnswerInv, Unanswered
    <3>3. h = Direct => pc'[Direct] = "idle"
      BY <2>4, <1>t, DistinctHandlers DEF Answered, Leave, Back
    <3> QED
      BY <1>e, <1>t, <1>d, <2>2, <3>1, <3>2, <3>3
  <2>5. CASE ~Resume(h) /\ ~\E r \in {"completed", "failed"} : Answered(h, r)
    <3>1. UNCHANGED <<turn, answer>> /\ pc'[h] # "answer" /\ pc[h] # "answer"
      BY <1>5, <2>5, <1>t DEF ContinueStep, NotReady, CollectReady, ExecuteReady, NotResumed,
         Leave, Back
    <3> QED
      BY <1>0, <1>t, <1>d, <2>1, <2>2, <3>1
  <2> QED
    BY <2>3, <2>4, <2>5
<1>6. CASE RecoverStep
  BY <1>0, <1>6, <1>t, DistinctHandlers DEF RecoverStep, Reconcile, RecoverTurn
<1>7. ASSUME NEW b \in Actions, NEW d, NEW p, Decide(b, d, p) PROVE AnswerInv'
  BY <1>0, <1>7, <1>t, DistinctHandlers DEF Decide
<1>8. CASE ChangeGrant \/ BecomeDue \/ Lapse \/ (\E a \in Actions : RevokePolicy(a)) \/ UNCHANGED vars
  BY <1>0, <1>8, <1>t DEF ChangeGrant, BecomeDue, Lapse, RevokePolicy, vars
<1>9. CASE CrashRestart
  <2>1. /\ answer' = answer /\ pc'[Direct] = "idle"
        /\ \A h \in Handlers : pc'[h] # "answer" /\ ret'[h] = "idle"
        /\ turn' = "waiting-approval" => turn = "waiting-approval"
    BY <1>9, DistinctHandlers DEF CrashRestart
  <2> QED
    BY <2>1 DEF AnswerInv, Unanswered
<1> QED
  BY <1>1, <1>2, <1>3, <1>4, <1>5, <1>6, <1>7, <1>8, <1>9 DEF Next, UserStep

\* The turn is answered once, for any number of actions: decisions, expiry, the
\* timer and recovery may all race to resume it, and one of them does.
THEOREM TurnAnsweredOnce == Spec => AnsweredOnce
<1>1. Init => Typed /\ AnswerInv
  <2>1. Init => AnswerInv
    BY DistinctHandlers DEF Init, AnswerInv, Unanswered
  <2> QED
    BY <2>1, InitType, InitHolding DEF Typed
<1>2. Typed /\ AnswerInv /\ [Next]_vars => Typed' /\ AnswerInv'
  BY StepType, StepHolding, StepAnswer DEF Typed
<1>3. Typed /\ AnswerInv /\ [Next]_vars
        => [(\E a \in Actions : answer[a] # "absent") => answer' = answer]_answer
  <2> SUFFICES ASSUME Typed, AnswerInv, [Next]_vars, NEW a \in Actions, answer[a] # "absent"
               PROVE  answer' = answer
    OBVIOUS
  <2>1. ~AnswerDirectly /\ \A h \in Handlers : ~Resume(h)
    BY DEF AnswerInv, Unanswered, AnswerDirectly, Resume, MayResume
  <2>2. ASSUME NEW h \in Handlers, ExecuteStep(h) PROVE answer' = answer
    BY <2>2 DEF ExecuteStep, Arm, RefuseUngranted, RefuseUnapproved, RefuseNoAdapter,
       StartPreflight, PreflightRefuses, ClaimAndCall, LoseClaim, Settle, Discarded, hist
  <2> QED
    BY <2>1, <2>2 DEF Next, PrepareStep, Reserve, AuthorizeByPolicy, RequestApproval,
       SaveAuthorized, ParkTurn, DecisionStep, GrantPolicy, SaveDecision, TickStep, TickStart,
       ExpireNext, ListDue, ExecuteDue, TickAborted, TickEnd, ContinueStep, NotReady,
       CollectReady, ExecuteReady, NotResumed, Answered, RecoverStep, Reconcile, RecoverTurn,
       UserStep, Decide, ChangeGrant, RevokePolicy, BecomeDue, Lapse, CrashRestart, vars, hist
<1> QED
  BY <1>1, <1>2, <1>3, PTL DEF Spec, AnsweredOnce

-----------------------------------------------------------------------------
(* A call is authorised when it is made *)

\* Who is past the checks still stands by them, unless the preflight lets the
\* others go on.
AuthorizedInv ==
  \A h \in Handlers :
    pc[h] = "preflight" /\ cur[h] \notin Probed =>
      granted /\ (Matching(cur[h]) \/ request[cur[h]] = "approved")

\* Only StartPreflight leads there, and who is there is left alone by itself.
LEMMA AtPreflight ==
  ASSUME Typed, [Next]_vars, NEW h \in Handlers, pc'[h] = "preflight"
  PROVE  \/ StartPreflight(h)
         \/ UNCHANGED vars
         \/ pc[h] = "preflight" /\ cur'[h] = cur[h] /\ \E g \in Handlers \ {h} : MayRun(g)
<1> USE DEF rows, clock, memory, hist, Goto
<1>t. /\ pc \in [Handlers -> Places] /\ cur \in [Handlers -> Actions \cup {NoAction}]
      /\ \A g \in Handlers : ret[g] \notin Working
  BY DEF Typed, TypeOK, Holding
<1> DEFINE Left == pc[h] = "preflight" /\ cur'[h] = cur[h] /\ \E g \in Handlers \ {h} : MayRun(g)
<1>0. ASSUME NEW g \in Handlers, MayRun(g), pc'[g] # "preflight",
             \A k \in Handlers \ {g} : pc'[k] = pc[k] /\ cur'[k] = cur[k]
      PROVE  Left
  BY <1>0
<1> HIDE DEF Left
<1>1. ASSUME PrepareStep PROVE Left
  <2>1. /\ MayRun(Direct) /\ Direct \in Handlers /\ pc'[Direct] # "preflight"
        /\ \A k \in Handlers \ {Direct} : pc'[k] = pc[k] /\ cur'[k] = cur[k]
    BY <1>1, <1>t, DistinctHandlers DEF PrepareStep, Reserve, AuthorizeByPolicy, RequestApproval,
       SaveAuthorized, SaveAndReturn, Return, ParkTurn, AnswerDirectly, Working
  <2> QED
    BY <1>0, <2>1
<1>2. ASSUME NEW b \in Actions, DecisionStep(b) \/ \E d, p : Decide(b, d, p) PROVE Left
  <2>1. /\ MayRun(b) /\ b \in Handlers /\ pc'[b] # "preflight"
        /\ \A k \in Handlers \ {b} : pc'[k] = pc[k] /\ cur'[k] = cur[k]
    BY <1>2, <1>t, DistinctHandlers DEF DecisionStep, GrantPolicy, SaveDecision, Decide, Quiet, MayRun
  <2> QED
    BY <1>0, <2>1
<1>3. ASSUME TickStep PROVE Left
  <2>1. /\ MayRun(Tick) /\ Tick \in Handlers /\ pc'[Tick] # "preflight"
        /\ \A k \in Handlers \ {Tick} : pc'[k] = pc[k] /\ cur'[k] = cur[k]
    BY <1>3, <1>t, DistinctHandlers DEF TickStep, TickStart, ExpireNext, ListDue, ExecuteDue,
       TickAborted, TickEnd, Quiet, MayRun
  <2> QED
    BY <1>0, <2>1
<1>4. ASSUME NEW g \in Handlers, ExecuteStep(g) PROVE StartPreflight(h) \/ Left
  <2>1. /\ MayRun(g) /\ \A k \in Handlers \ {g} : pc'[k] = pc[k] /\ cur'[k] = cur[k]
        /\ pc' = [pc EXCEPT ![g] = pc'[g]]
    <3>1. pc' = [pc EXCEPT ![g] = pc'[g]] /\ cur' \in {cur, [cur EXCEPT ![g] = NoAction]}
      BY <1>4, ExecuteMoves, ExecuteRows
    <3>2. MayRun(g)
      BY <1>4 DEF ExecuteStep, Arm, RefuseUngranted, RefuseUnapproved, RefuseNoAdapter,
         StartPreflight, PreflightRefuses, ClaimAndCall, LoseClaim, Settle, Discarded
    <3> QED
      BY <1>t, <3>1, <3>2
  <2>2. pc'[g] = "preflight" => StartPreflight(g)
    BY <1>4, <1>t DEF ExecuteStep, Arm, RefuseUngranted, RefuseUnapproved, RefuseNoAdapter,
       StartPreflight, PreflightRefuses, ClaimAndCall, LoseClaim, Settle, Discarded,
       SaveAndReturn, Return, Working
  <2>3. CASE g = h
    BY <2>2, <2>3
  <2>4. CASE g # h
    BY <2>1, <2>4 DEF Left
  <2> QED
    BY <2>3, <2>4
<1>5. ASSUME NEW g \in Handlers, ContinueStep(g) PROVE Left
  <2>1. /\ MayRun(g) /\ pc' = [pc EXCEPT ![g] = pc'[g]] /\ pc'[g] # "preflight"
    BY <1>5, ContinueMoves DEF ContinueStep, NotReady, CollectReady, ExecuteReady, NotResumed,
       Resume, Answered
  <2>2. \A k \in Handlers \ {g} : cur'[k] = cur[k]
    BY <1>5, <1>t DEF ContinueStep, NotReady, CollectReady, ExecuteReady, NotResumed,
       Resume, Answered
  <2> QED
    BY <1>0, <1>t, <2>1, <2>2
<1>6. ASSUME RecoverStep PROVE Left
  <2>1. /\ MayRun(Recover) /\ Recover \in Handlers /\ pc'[Recover] # "preflight"
        /\ \A k \in Handlers \ {Recover} : pc'[k] = pc[k] /\ cur'[k] = cur[k]
    BY <1>6, <1>t, DistinctHandlers DEF RecoverStep, Reconcile, RecoverTurn
  <2> QED
    BY <1>0, <2>1
<1>7. ASSUME ChangeGrant \/ BecomeDue \/ Lapse \/ (\E a \in Actions : RevokePolicy(a)) PROVE Left
  <2>1. Quiet /\ pc' = pc /\ cur' = cur
    BY <1>7 DEF ChangeGrant, BecomeDue, Lapse, RevokePolicy
  <2>2. \E g \in Handlers : g # h
    BY DistinctHandlers
  <2> QED
    BY <2>1, <2>2 DEF Left, Quiet, MayRun
<1>8. ~CrashRestart
  BY DEF CrashRestart
<1> QED
  BY <1>1, <1>2, <1>3, <1>4, <1>5, <1>6, <1>7, <1>8 DEF Next, UserStep, Left

LEMMA StepAuthorized == ASSUME Typed, AuthorizedInv, [Next]_vars PROVE AuthorizedInv'
<1> SUFFICES ASSUME NEW h \in Handlers, pc'[h] = "preflight", cur'[h] \notin Probed
             PROVE  granted' /\ (Matching(cur[h])' \/ request'[cur'[h]] = "approved")
  BY DEF AuthorizedInv
<1>1. CASE StartPreflight(h)
  BY <1>1 DEF StartPreflight, Approved, Matching
<1>2. CASE UNCHANGED vars
  BY <1>2 DEF AuthorizedInv, Matching, vars, rows, memory
<1>3. CASE pc[h] = "preflight" /\ cur'[h] = cur[h] /\ \E g \in Handlers \ {h} : MayRun(g)
  BY <1>3 DEF MayRun, Awaits
<1> QED
  BY <1>1, <1>2, <1>3, AtPreflight

\* "Not approved, rejected, expired, or its grant revoked: it does not enter the
\* adapter", at the moment of the call: for any number of actions whose adapters
\* read nothing before they call.  A preflight that waits lets the owner revoke
\* the grant behind the checks.
THEOREM CallsAuthorized == ASSUME Probed = {} PROVE Spec => AuthorizedWhenCalled
<1>1. Init => Typed /\ AuthorizedInv
  <2>1. Init => AuthorizedInv
    BY DEF Init, AuthorizedInv
  <2> QED
    BY <2>1, InitType, InitHolding DEF Typed
<1>2. Typed /\ AuthorizedInv /\ [Next]_vars => Typed' /\ AuthorizedInv'
  BY StepType, StepHolding, StepAuthorized DEF Typed
<1>3. Typed /\ AuthorizedInv /\ [Next]_vars
        => [\A a \in Actions : calls'[a] # calls[a] =>
              granted /\ (Matching(a) \/ request[a] = "approved")]_calls
  <2> SUFFICES ASSUME Typed, AuthorizedInv, [Next]_vars, NEW a \in Actions, calls'[a] # calls[a]
               PROVE  granted /\ (Matching(a) \/ request[a] = "approved")
    OBVIOUS
  <2>1. PICK h \in Handlers : ClaimAndCall(h)
    BY OnlyClaimCalls
  <2>2. a = cur[h] /\ pc[h] = "preflight"
    BY <2>1 DEF ClaimAndCall, Typed, TypeOK
  <2> QED
    BY <2>2 DEF AuthorizedInv
<1> QED
  BY <1>1, <1>2, <1>3, PTL DEF Spec, AuthorizedWhenCalled

-----------------------------------------------------------------------------
(* External calls, for actions that are to be executed at once: no action  *)
(* is called twice, a call gets its verdict and keeps it, the gate         *)
(* implements ExternalCall, the answer of the turn stands, and no turn     *)
(* waits without somebody to resume it.                                    *)
(*                                                                         *)
(* With scheduled actions they are false: the timer works on rows it       *)
(* listed before its calls (GateDoubleCall).  A grant that is revoked and  *)
(* restored while a payload is being deleted lets the refusal be saved     *)
(* over a call, so that the two are not combined here.  From CallsRecorded *)
(* on the grant does not change at all.                                    *)

Immediate == Scheduled = {} /\ (GrantMayChange => Payload = {})

Refused == {"rejected", "expired"}

\* A row: an attempt that began is never taken back to before it, a refusal is
\* the user's, and only what the user approved is armed.
RowInv(a) ==
  /\ action[a].status # "scheduled"
  /\ calls[a] = 0 \/ (calls[a] = 1 /\ action[a].exec \in {"executing", "settled"})
  /\ action[a].status = "rejected" => request[a] \in Refused
  /\ action[a].exec = "approved-ready" => request[a] = "approved"

\* A copy that is going to be saved: it is the row, except for a refusal, which
\* may be saved over whatever became of the row.
CopyInv(h) ==
  /\ pc[h] \in {"authorize", "authorized"} =>
       /\ action[cur[h]] = Reserved /\ copy[h].exec = "none"
       /\ copy[h].status \in {"waiting-for-approval", "waiting-for-integration"}
  /\ pc[h] \in {"policy", "decided"} => copy[h] = action[cur[h]]
  /\ pc[h] \in {"policy", "decided", "arm"} => request[cur[h]] = "approved"
  /\ pc[h] = "arm" => action[cur[h]].status = "waiting-for-integration"
  /\ pc[h] = "execute" => copy[h] = action[cur[h]] /\ copy[h].status # "rejected"
  /\ pc[h] = "discard" =>
       \/ /\ copy[h].status = "rejected" /\ copy[h].exec # "approved-ready"
          /\ request[cur[h]] \in Refused
       \/ /\ copy[h].status = "failed" /\ cur[h] \notin Payload
          /\ copy[h].exec = action[cur[h]].exec /\ action[cur[h]].status # "rejected"

\* What is listed for later was approved, and nothing is listed as due.
ListInv ==
  /\ \A h \in Handlers : \A a \in ready[h] : request[a] = "approved"
  /\ \A a \in Actions : snap[Tick][a].exec = "approved-ready" => request[a] = "approved"
  /\ pc[Tick] = "due" => todo[Tick] = {}
  /\ \A h \in Handlers : ret[h] # "due"
  /\ GrantMayChange \/ granted

\* The inductive invariant, besides the one of RefusalsHold
CallsInv ==
  /\ \A a \in Actions : RowInv(a)
  /\ \A h \in Handlers : CopyInv(h)
  /\ \A a \in Actions : pc[a] \in {"policy", "decided"} => cur[a] = a
  /\ ListInv

\* A request that was approved or refused stays so.
LEMMA Final ==
  ASSUME Typed, FreshInv, [Next]_vars
  PROVE  \A a \in Actions : request[a] \in Refused \cup {"approved"} => request'[a] = request[a]
<1> USE DEF rows, clock, memory, hist
<1>t. request \in [Actions -> {"absent", "pending", "approved", "rejected", "expired"}]
  BY DEF Typed, TypeOK
<1>1. ASSUME NEW h \in Handlers, ExecuteStep(h) \/ ContinueStep(h) PROVE request' = request
  BY <1>1, ExecuteFrame, ContinueFrame
<1>2. CASE RequestApproval
  BY <1>2, <1>t, DistinctHandlers DEF RequestApproval, FreshInv, Fresh, Refused
<1>3. CASE TickStart
  BY <1>3, <1>t DEF TickStart, Expires, Refused
<1>4. ASSUME NEW b \in Actions, NEW d, NEW p, Decide(b, d, p)
      PROVE  \A a \in Actions : request[a] \in Refused \cup {"approved"} => request'[a] = request[a]
  BY <1>4, <1>t DEF Decide, Refused
<1> QED
  BY <1>1, <1>2, <1>3, <1>4 DEF Next, PrepareStep, Reserve, AuthorizeByPolicy, SaveAuthorized,
     ParkTurn, AnswerDirectly, TickStep, ExpireNext, ListDue, ExecuteDue, TickAborted, TickEnd,
     RecoverStep, Reconcile, RecoverTurn, DecisionStep, GrantPolicy, SaveDecision, UserStep,
     ChangeGrant, RevokePolicy, Lapse, BecomeDue, CrashRestart, vars

\* Who is not running and is about to save a refusal is deleting a payload.
LEMMA Waiting ==
  ASSUME NEW g \in Handlers, NEW h \in Handlers, g # h, MayRun(g)
  PROVE  /\ pc[h] \in {"idle", "calling", "answer", "preflight", "discard"}
         /\ pc[h] = "discard" => cur[h] \in Payload
  BY DEF MayRun, Awaits

\* A step of one handler leaves the copies of the others sound.
LEMMA OneHandler ==
  ASSUME Typed, FreshInv, CallsInv, [Next]_vars, NEW h \in Handlers, MayRun(h),
         \A g \in Handlers \ {h} : pc'[g] = pc[g] /\ cur'[g] = cur[g] /\ copy'[g] = copy[g],
         CopyInv(h)', h \in Actions /\ pc'[h] \in {"policy", "decided"} => cur'[h] = h
  PROVE  /\ \A g \in Handlers : CopyInv(g)'
         /\ \A a \in Actions : pc'[a] \in {"policy", "decided"} => cur'[a] = a
<1>t. \A g \in Handlers : pc[g] = "discard" => cur[g] \in Actions
  BY DEF Typed, Holding, Working
<1>1. ASSUME NEW g \in Handlers \ {h} PROVE CopyInv(g)'
  <2>1. /\ pc[g] \in {"idle", "calling", "answer", "preflight", "discard"}
        /\ pc[g] = "discard" => cur[g] \in Payload
    BY <1>1, Waiting
  <2>2. pc[g] = "discard" => /\ copy[g].status = "rejected" /\ copy[g].exec # "approved-ready"
                             /\ request[cur[g]] \in Refused
    BY <1>1, <2>1 DEF CallsInv, CopyInv
  <2>3. pc[g] = "discard" => request'[cur[g]] = request[cur[g]]
    BY <1>1, <1>t, <2>2, Final
  <2> QED
    BY <1>1, <2>1, <2>2, <2>3 DEF CopyInv
<1>2. ASSUME NEW a \in Actions, a # h, pc'[a] \in {"policy", "decided"} PROVE FALSE
  BY <1>2, Waiting, DistinctHandlers
<1> QED
  BY <1>1, <1>2

LEMMA StepRows ==
  ASSUME Typed, FreshInv, CallInv, CallsInv, Immediate, [Next]_vars
  PROVE  \A a \in Actions : RowInv(a)'
<1> USE DEF rows, clock, memory, hist, Goto
<1>t. /\ pc \in [Handlers -> Places] /\ cur \in [Handlers -> Actions \cup {NoAction}]
      /\ copy \in [Handlers -> Rows] /\ action \in [Actions -> Rows]
      /\ calls \in [Actions -> 0 .. MaxCalls] /\ MaxCalls \in Nat /\ MaxCalls > 1
      /\ \A h \in Handlers : pc[h] \in Working => cur[h] \in Actions
  <2>1. MaxCalls \in Nat /\ MaxCalls > 1
    BY GateAssumption
  <2>2. \A h \in Handlers : pc[h] \in Working => cur[h] \in Actions
    BY DEF Typed, Holding
  <2> QED
    BY <2>1, <2>2 DEF Typed, TypeOK
\* Only the rows that change are looked at.
<1>0. ASSUME \A a \in Actions : RowInv(a)' \/ (action'[a] = action[a] /\ calls'[a] = calls[a])
      PROVE  \A a \in Actions : RowInv(a)'
  <2> SUFFICES ASSUME NEW a \in Actions, action'[a] = action[a], calls'[a] = calls[a]
               PROVE  RowInv(a)'
    BY <1>0
  <2>1. RowInv(a)
    BY DEF CallsInv
  <2>2. request[a] \in Refused \cup {"approved"} => request'[a] = request[a]
    BY Final
  <2> QED
    BY <2>1, <2>2 DEF RowInv
\* A new row that says what the old one said of the attempt and the refusal
<1>k. ASSUME NEW a \in Actions, calls'[a] = calls[a], action'[a].exec = action[a].exec,
             action'[a].status \notin {"scheduled", "rejected"}
      PROVE  RowInv(a)'
  <2>1. RowInv(a)
    BY DEF CallsInv
  <2>2. request[a] = "approved" => request'[a] = request[a]
    BY Final
  <2> QED
    BY <1>k, <2>1, <2>2 DEF RowInv
<1>1. CASE PrepareStep
  <2>1. ASSUME NEW a \in Actions, Reserve(a) PROVE \A b \in Actions : RowInv(b)'
    <3>1. action' = [action EXCEPT ![a] = Reserved] /\ calls' = calls /\ a \in todo[Direct]
      BY <2>1 DEF Reserve
    <3>2. calls[a] = 0 /\ action[a].exec = "none"
      BY <3>1 DEF FreshInv, Fresh
    <3>3. Reserved.exec = "none" /\ Reserved.status = "waiting-for-approval"
      BY DEF Reserved
    <3>4. action'[a] = Reserved
      BY <3>1, <1>t
    <3>5. RowInv(a)'
      BY <3>1, <3>2, <3>3, <3>4, <1>k
    <3> QED
      BY <1>0, <3>1, <3>5, <1>t
  <2>2. CASE SaveAuthorized
    <3>1. PICK a \in Actions : a = cur[Direct]
      BY <2>2, <1>t, DistinctHandlers DEF SaveAuthorized, Working
    <3>2. action' = [action EXCEPT ![a] = copy[Direct]] /\ calls' = calls
      BY <2>2, <3>1 DEF SaveAuthorized, SaveAndReturn, Save
    <3>3. /\ action[a] = Reserved /\ copy[Direct].exec = "none"
          /\ copy[Direct].status \in {"waiting-for-approval", "waiting-for-integration"}
      BY <2>2, <3>1, DistinctHandlers DEF SaveAuthorized, CallsInv, CopyInv
    <3>4. RowInv(a)'
      BY <3>2, <3>3, <1>t, <1>k DEF Reserved
    <3> QED
      BY <1>0, <1>t, <3>2, <3>4
  <2>3. CASE UNCHANGED <<action, calls>>
    BY <1>0, <2>3
  <2> QED
    BY <1>1, <2>1, <2>2, <2>3 DEF PrepareStep, AuthorizeByPolicy, RequestApproval, ParkTurn,
       AnswerDirectly
<1>2. ASSUME NEW a \in Actions, SaveDecision(a) PROVE \A b \in Actions : RowInv(b)'
  <2>1. /\ cur[a] = a /\ calls' = calls /\ copy[a] = action[a]
    BY <1>2, DistinctHandlers DEF SaveDecision, CallsInv, CopyInv
  <2>2. action' = [action EXCEPT ![a] = [copy[a] EXCEPT !.status = "waiting-for-integration"]]
    BY <1>2, <2>1 DEF SaveDecision, Save, Immediate
  <2>3. action'[a].exec = action[a].exec /\ action'[a].status = "waiting-for-integration"
    BY <2>1, <2>2, <1>t DEF Rows
  <2> QED
    BY <1>0, <1>k, <1>t, <2>1, <2>2, <2>3
<1>3. CASE RecoverStep
  <2>1. CASE Reconcile
    <3>1. ASSUME NEW a \in Actions, Unsaved(a) PROVE RowInv(a)'
      <4>1. /\ action'[a].status = "waiting-for-integration"
            /\ action'[a].exec = "approved-ready" /\ calls' = calls /\ request' = request
        BY <2>1, <3>1, <1>t DEF Reconcile, Rows
      <4> QED
        BY <3>1, <4>1 DEF Unsaved, CallsInv, RowInv
    <3>2. ASSUME NEW a \in Actions, ~Unsaved(a)
          PROVE  action'[a] = action[a] /\ calls'[a] = calls[a]
      BY <2>1, <3>2, <1>t DEF Reconcile
    <3> QED
      BY <1>0, <3>1, <3>2
  <2> QED
    BY <1>0, <1>3, <2>1 DEF RecoverStep, RecoverTurn
<1>4. CASE CrashRestart
  <2>1. ASSUME NEW a \in Actions, Interrupted(a) PROVE RowInv(a)'
    <3>1. /\ action'[a].status = "outcome-unknown"
          /\ action'[a].exec = "settled" /\ calls' = calls
      BY <1>4, <2>1, <1>t DEF CrashRestart, Rows
    <3> QED
      BY <3>1 DEF CallsInv, RowInv
  <2>2. ASSUME NEW a \in Actions, ~Interrupted(a)
        PROVE  action'[a] = action[a] /\ calls'[a] = calls[a]
    BY <1>4, <2>2, <1>t DEF CrashRestart
  <2> QED
    BY <1>0, <2>1, <2>2
<1>5. ASSUME NEW h \in Handlers, ExecuteStep(h) PROVE \A b \in Actions : RowInv(b)'
  <2>0. PICK a \in Actions : a = cur[h]
    BY <1>5, ExecuteRows
  <2>1. \A b \in Actions : b # a => action'[b] = action[b] /\ calls'[b] = calls[b]
    BY <1>5, <2>0, ExecuteRows
  <2>i. RowInv(a) /\ CopyInv(h)
    BY DEF CallsInv
  <2>r. action[a] \in Rows /\ copy[h] \in Rows
    BY <1>t
  <2>2. CASE Arm(h)
    <3> DEFINE c == [action[a] EXCEPT !.exec = "approved-ready"]
    <3>1. /\ c.exec = "approved-ready" /\ c.status = action[a].status
          /\ action[a].exec \in {"none", "approved-ready"}
      BY <2>0, <2>2, <2>r DEF Arm, Rows
    <3>2. action' = [action EXCEPT ![a] = c] /\ calls' = calls /\ request' = request
      BY <2>0, <2>2 DEF Arm, SaveAndReturn, Save
    <3>3. request[a] = "approved"
      BY <2>0, <2>2, <2>i DEF Arm, CopyInv
    <3> HIDE DEF c
    <3>4. RowInv(a)'
      BY <3>1, <3>2, <3>3, <2>i, <1>t DEF RowInv
    <3> QED
      BY <1>0, <2>1, <3>4
  <2>3. CASE RefuseUnapproved(h)
    <3> DEFINE c == [copy[h] EXCEPT !.status = "waiting-for-approval"]
    <3>1. /\ c.exec = copy[h].exec /\ c.status = "waiting-for-approval" /\ copy[h] = action[a]
      BY <2>0, <2>3, <2>i, <2>r DEF RefuseUnapproved, CopyInv, Rows
    <3>2. action' = [action EXCEPT ![a] = c] /\ calls' = calls
      BY <2>0, <2>3 DEF RefuseUnapproved, SaveAndReturn, Save
    <3> HIDE DEF c
    <3>3. RowInv(a)'
      BY <3>1, <3>2, <1>k, <1>t
    <3> QED
      BY <1>0, <2>1, <3>3
  \* The attempt is over: settled, with or without a call.
  <2>4. ASSUME NEW c \in Rows, c.exec = "settled", c.status \notin {"scheduled", "rejected"},
               Save(h, c), UNCHANGED <<calls, request>>
        PROVE  \A b \in Actions : RowInv(b)'
    <3>1. RowInv(a)'
      BY <2>0, <2>4, <2>i, <1>t DEF Save, RowInv
    <3> QED
      BY <1>0, <2>1, <3>1
  <2>5. CASE RefuseNoAdapter(h)
    BY <2>4, <2>5, <2>r DEF RefuseNoAdapter, SaveAndReturn, Rows, Statuses, ExecStates
  <2>6. CASE PreflightRefuses(h)
    BY <2>4, <2>6, <2>r DEF PreflightRefuses, SaveAndReturn, Rows, Statuses, ExecStates
  <2>7. ASSUME NEW r \in {"executed", "failed", "outcome-unknown", "waiting-for-integration"},
               Settle(h, r)
        PROVE  \A b \in Actions : RowInv(b)'
    BY <2>4, <2>7, <2>r DEF Settle, SaveAndReturn, Rows, Statuses, ExecStates
  <2>8. CASE StartPreflight(h)
    <3> DEFINE c == [copy[h] EXCEPT !.status = "waiting-for-integration"]
    <3>1. /\ c.exec = copy[h].exec /\ c.status = "waiting-for-integration" /\ copy[h] = action[a]
      BY <2>0, <2>8, <2>i, <2>r DEF StartPreflight, CopyInv, Rows
    <3>2. action' \in {action, [action EXCEPT ![a] = c]} /\ calls' = calls
      BY <2>0, <2>8 DEF StartPreflight
    <3> HIDE DEF c
    <3>3. RowInv(a)' \/ action'[a] = action[a]
      BY <3>1, <3>2, <1>k, <1>t
    <3> QED
      BY <1>0, <2>1, <3>2, <3>3
  <2>9. CASE ClaimAndCall(h)
    <3> DEFINE c == [action[a] EXCEPT !.exec = "executing", !.status = "waiting-for-integration"]
    <3>1. c.exec = "executing" /\ c.status = "waiting-for-integration"
      BY <2>r DEF Rows
    <3>2. /\ action' = [action EXCEPT ![a] = c] /\ request' = request
          /\ calls' = [calls EXCEPT ![a] = IF @ < MaxCalls THEN @ + 1 ELSE @]
          /\ action[a].exec \in {"none", "approved-ready"}
      BY <2>0, <2>9 DEF ClaimAndCall, Save, Claimable
    <3> HIDE DEF c
    <3>3. calls[a] = 0
      BY <3>2, <2>i DEF RowInv
    <3>4. calls'[a] = 1 /\ action'[a] = c
      BY <3>2, <3>3, <1>t
    <3>5. RowInv(a)'
      BY <3>1, <3>4 DEF RowInv
    <3> QED
      BY <1>0, <2>1, <3>5
  <2>10. CASE Discarded(h)
    <3>1. action' = [action EXCEPT ![a] = copy[h]] /\ calls' = calls /\ request' = request
          /\ pc[h] = "discard"
      BY <2>0, <2>10 DEF Discarded, SaveAndReturn, Save
    <3>2. action'[a] = copy[h]
      BY <3>1, <1>t
    <3>3. CASE copy[h].status = "rejected"
      <4>1. copy[h].exec # "approved-ready" /\ request[a] \in Refused
        BY <2>0, <2>i, <3>1, <3>3 DEF CopyInv
      <4>2. calls[a] = 0
        BY <4>1 DEF CallInv, Unrefused, Refused
      <4> QED
        BY <1>0, <2>1, <3>1, <3>2, <3>3, <4>1, <4>2 DEF RowInv
    <3>4. CASE copy[h].status # "rejected"
      <4>1. copy[h].status = "failed" /\ copy[h].exec = action[a].exec
        BY <2>0, <2>i, <3>1, <3>4 DEF CopyInv
      <4> QED
        BY <1>0, <1>k, <2>1, <3>1, <3>2, <4>1
    <3> QED
      BY <3>3, <3>4
  <2>11. CASE RefuseUngranted(h) \/ LoseClaim(h)
    BY <1>0, <2>11 DEF RefuseUngranted, LoseClaim
  <2> QED
    BY <1>5, <2>2, <2>3, <2>5, <2>6, <2>7, <2>8, <2>9, <2>10, <2>11 DEF ExecuteStep
<1>6. ASSUME NEW h \in Handlers, ContinueStep(h) PROVE \A b \in Actions : RowInv(b)'
  BY <1>0, <1>6, ContinueFrame
<1>7. CASE TickStep \/ UserStep \/ Lapse \/ BecomeDue \/ UNCHANGED vars
            \/ \E a \in Actions : GrantPolicy(a)
  BY <1>0, <1>7 DEF TickStep, TickStart, ExpireNext, ListDue, ExecuteDue, TickAborted, TickEnd,
     UserStep, Decide, ChangeGrant, RevokePolicy, Lapse, BecomeDue, GrantPolicy, vars
<1> QED
  BY <1>1, <1>2, <1>3, <1>4, <1>5, <1>6, <1>7 DEF Next, DecisionStep

\* What the timer or recovery listed.
LEMMA StepLists ==
  ASSUME Typed, FreshInv, CallsInv, [Next]_vars
  PROVE  ListInv'
<1> USE DEF rows, clock, memory, hist, Goto
<1>t. /\ pc \in [Handlers -> Places] /\ ret \in [Handlers -> Places]
      /\ todo \in [Handlers -> SUBSET Actions] /\ ready \in [Handlers -> SUBSET Actions]
      /\ snap \in [Handlers -> [Actions -> Rows]] /\ action \in [Actions -> Rows]
      /\ \A h \in Handlers : ret[h] \notin Working
  BY DEF Typed, TypeOK, Holding
<1>f. \A a \in Actions : request[a] = "approved" => request'[a] = "approved"
  BY Final
<1>i. ListInv /\ \A a \in Actions : RowInv(a)
  BY DEF CallsInv
<1>a. \A a \in Actions : Absent.exec = "none"
  BY DEF Absent
\* A step that lists nothing new
<1>0. ASSUME \A h \in Handlers : ready'[h] \subseteq ready[h],
             \A a \in Actions : snap'[Tick][a] = snap[Tick][a] \/ snap'[Tick][a] = Absent,
             pc'[Tick] = "due" => pc[Tick] = "due" /\ todo'[Tick] \subseteq todo[Tick],
             \A h \in Handlers : ret'[h] # "due",
             granted' = granted
      PROVE  ListInv'
  BY <1>0, <1>t, <1>f, <1>i, <1>a DEF ListInv
<1>1. CASE PrepareStep
  BY <1>0, <1>1, <1>t, <1>i, DistinctHandlers DEF PrepareStep, Reserve, AuthorizeByPolicy,
     RequestApproval, SaveAuthorized, SaveAndReturn, Return, ParkTurn, AnswerDirectly, ListInv
<1>2. ASSUME NEW b \in Actions, DecisionStep(b) PROVE ListInv'
  BY <1>0, <1>2, <1>t, <1>i, DistinctHandlers DEF DecisionStep, GrantPolicy, SaveDecision, ListInv
<1>3. CASE TickStep
  <2>1. CASE TickStart
    <3>1. /\ snap'[Tick] = action /\ pc'[Tick] = "expired"
          /\ UNCHANGED <<ready, ret, granted>>
      BY <2>1, <1>t, DistinctHandlers DEF TickStart
    <3> QED
      BY <3>1, <1>f, <1>i, <1>t DEF ListInv, RowInv
  <2>2. CASE ListDue
    <3>1. /\ snap'[Tick] = action /\ UNCHANGED <<ready, ret, granted>>
          /\ todo'[Tick] = {a \in Actions : late[Tick] /\ action[a].status = "scheduled"}
      BY <2>2, <1>t, DistinctHandlers DEF ListDue
    <3>2. todo'[Tick] = {}
      BY <3>1, <1>i DEF RowInv
    <3>3. \A a \in Actions : snap'[Tick][a].exec = "approved-ready" => request'[a] = "approved"
      BY <3>1, <1>f, <1>i DEF RowInv
    <3> QED
      BY <3>1, <3>2, <3>3, <1>f, <1>i, <1>t DEF ListInv
  <2>3. ASSUME NEW a \in Actions, ExpireNext(a) PROVE ListInv'
    <3>1. /\ pc'[Tick] \in {"expired", "discard"} /\ UNCHANGED <<ready, snap, granted>>
          /\ \A h \in Handlers : ret'[h] \in {ret[h], "continue"}
      BY <2>3, <1>t, DistinctHandlers DEF ExpireNext
    <3> QED
      BY <1>0, <3>1, <1>i DEF ListInv
  <2>4. ASSUME NEW a \in Actions, ExecuteDue(a) PROVE ListInv'
    BY <2>4, <1>i DEF ExecuteDue, ListInv
  <2>5. CASE TickAborted \/ TickEnd
    <3>1. /\ pc'[Tick] = "idle" /\ UNCHANGED <<ready, granted, ret>>
          /\ \A a \in Actions : snap'[Tick][a] = Absent
      BY <2>5, <1>t, DistinctHandlers DEF TickAborted, TickEnd
    <3> QED
      BY <1>0, <3>1, <1>i DEF ListInv
  <2> QED
    BY <1>3, <2>1, <2>2, <2>3, <2>4, <2>5 DEF TickStep
<1>4. ASSUME NEW h \in Handlers, ExecuteStep(h) PROVE ListInv'
  <2>1. UNCHANGED <<todo, ready, ret, granted>>
    BY <1>4, ExecuteFrame
  <2>2. pc' = [pc EXCEPT ![h] = pc'[h]] /\ pc'[h] # "due"
    BY <1>4, <1>i, ExecuteMoves DEF ListInv
  <2>r. ASSUME NEW c, Return(h, c) PROVE snap'[Tick] = snap[Tick]
    BY <2>r, <1>t, DistinctHandlers DEF Return
  <2>3. snap'[Tick] = snap[Tick]
    BY <1>4, <2>r DEF ExecuteStep, Arm, RefuseUngranted, RefuseUnapproved,
       RefuseNoAdapter, StartPreflight, PreflightRefuses, ClaimAndCall, LoseClaim, Settle,
       Discarded, SaveAndReturn
  <2> QED
    BY <1>0, <1>t, <1>i, <2>1, <2>2, <2>3, DistinctHandlers DEF ListInv
<1>5. ASSUME NEW h \in Handlers, ContinueStep(h) PROVE ListInv'
  <2>1. UNCHANGED <<action, granted, snap, todo>>
    BY <1>5, ContinueFrame
  <2>2. pc' = [pc EXCEPT ![h] = pc'[h]] /\ pc'[h] # "due"
    BY <1>5, ContinueMoves
  <2>3. \A g \in Handlers : ret'[g] # "due"
    BY <1>5, <1>t, <1>i DEF ListInv, ContinueStep, NotReady, CollectReady, ExecuteReady,
       NotResumed, Resume, Answered
  <2>4. \A g \in Handlers : \A a \in ready'[g] : a \in ready[g] \/ request[a] = "approved"
    <3>1. CASE CollectReady(h)
      BY <3>1, <1>t, <1>i DEF CollectReady, ReadyNow, RowInv
    <3>2. CASE ~CollectReady(h)
      BY <1>5, <3>2, <1>t DEF ContinueStep, NotReady, ExecuteReady, NotResumed, Resume, Answered
    <3> QED
      BY <3>1, <3>2
  <2>5. \A g \in Handlers : \A a \in ready'[g] : a \in Actions
    BY StepType, <1>t DEF TypeOK, Typed
  <2> QED
    BY <1>t, <1>f, <1>i, <2>1, <2>2, <2>3, <2>4, <2>5, DistinctHandlers DEF ListInv
<1>6. CASE Reconcile
  <2>1. /\ UNCHANGED <<request, granted, snap, todo, ret>> /\ pc'[Tick] = pc[Tick]
        /\ \A h \in Handlers : ready'[h] \in {ready[h], ReadyNow(action', late[Recover])}
    BY <1>6, <1>t, DistinctHandlers DEF Reconcile
  <2>2. \A a \in Actions : action'[a].exec = "approved-ready" => request[a] = "approved"
    BY <1>6, <1>i, <1>t DEF Reconcile, Unsaved, RowInv
  <2> QED
    BY <1>i, <1>t, <2>1, <2>2 DEF ListInv, ReadyNow
<1>7. CASE RecoverTurn
  BY <1>0, <1>7, <1>t, <1>i, DistinctHandlers DEF RecoverTurn, ListInv
<1>8. ASSUME NEW b \in Actions, NEW d, NEW p, Decide(b, d, p) PROVE ListInv'
  <2>1. /\ UNCHANGED <<ready, snap, todo, granted>> /\ pc'[Tick] = pc[Tick]
        /\ \A h \in Handlers : ret'[h] \in {ret[h], "continue"}
    BY <1>8, <1>t, DistinctHandlers DEF Decide
  <2> QED
    BY <1>0, <1>i, <2>1 DEF ListInv
<1>9. CASE ChangeGrant
  BY <1>9, <1>i DEF ChangeGrant, ListInv
<1>10. CASE CrashRestart
  <2>1. /\ granted' = granted /\ pc'[Tick] = "idle"
        /\ \A h \in Handlers : ready'[h] = {} /\ ret'[h] = "idle"
        /\ \A a \in Actions : snap'[Tick][a] = Absent
    BY <1>10, DistinctHandlers DEF CrashRestart
  <2> QED
    BY <1>0, <2>1
<1>11. CASE BecomeDue \/ Lapse \/ (\E a \in Actions : RevokePolicy(a)) \/ UNCHANGED vars
  BY <1>0, <1>11, <1>i DEF BecomeDue, Lapse, RevokePolicy, vars, ListInv
<1> QED
  BY <1>1, <1>2, <1>3, <1>4, <1>5, <1>6, <1>7, <1>8, <1>9, <1>10, <1>11
     DEF Next, UserStep, RecoverStep

\* What the handlers hold, step by step.
LEMMA StepCopies ==
  ASSUME Typed, FreshInv, CallsInv, Immediate, [Next]_vars
  PROVE  /\ \A g \in Handlers : CopyInv(g)'
         /\ \A a \in Actions : pc'[a] \in {"policy", "decided"} => cur'[a] = a
<1> USE DEF rows, clock, memory, hist, Goto
<1> DEFINE Sound == /\ \A g \in Handlers : CopyInv(g)'
                    /\ \A a \in Actions : pc'[a] \in {"policy", "decided"} => cur'[a] = a
<1>t. /\ pc \in [Handlers -> Places] /\ cur \in [Handlers -> Actions \cup {NoAction}]
      /\ copy \in [Handlers -> Rows] /\ action \in [Actions -> Rows]
      /\ snap \in [Handlers -> [Actions -> Rows]]
      /\ \A h \in Handlers : ret[h] \notin Working
      /\ \A h \in Handlers : pc[h] \in Working => cur[h] \in Actions
  BY DEF Typed, TypeOK, Holding
<1>f. \A a \in Actions : request[a] \in Refused \cup {"approved"} => request'[a] = request[a]
  BY Final
<1>i. /\ \A a \in Actions : RowInv(a)
      /\ \A h \in Handlers : CopyInv(h)
      /\ ListInv
      /\ \A a \in Actions : pc[a] \in {"policy", "decided"} => cur[a] = a
  BY DEF CallsInv
<1>h. ASSUME NEW h \in Handlers, MayRun(h),
             \A g \in Handlers \ {h} : pc'[g] = pc[g] /\ cur'[g] = cur[g] /\ copy'[g] = copy[g],
             CopyInv(h)', h \in Actions /\ pc'[h] \in {"policy", "decided"} => cur'[h] = h
      PROVE  Sound
  BY <1>h, OneHandler
\* A handler at a place where no copy is going to be saved
<1>q. ASSUME NEW h \in Handlers, pc'[h] \notin {"authorize", "authorized", "policy", "decided",
                                                "arm", "execute", "discard"}
      PROVE  CopyInv(h)'
  BY <1>q DEF CopyInv
\* A step that changes no row, no request and no hand
<1>u. ASSUME UNCHANGED <<action, request, pc, cur, copy>> PROVE Sound
  BY <1>u, <1>i DEF CopyInv
<1> HIDE DEF Sound
<1>1. ASSUME PrepareStep PROVE Sound
  <2>0. MayRun(Direct) /\ Direct \in Handlers /\ Direct \notin Actions
    BY <1>1, DistinctHandlers DEF PrepareStep, Reserve, AuthorizeByPolicy, RequestApproval,
       SaveAuthorized, ParkTurn, AnswerDirectly
  <2>1. \A g \in Handlers \ {Direct} : pc'[g] = pc[g] /\ cur'[g] = cur[g] /\ copy'[g] = copy[g]
    BY <1>1, <1>t, <2>0 DEF PrepareStep, Reserve, AuthorizeByPolicy, RequestApproval,
       SaveAuthorized, SaveAndReturn, Return, ParkTurn, AnswerDirectly
  <2>2. ASSUME NEW a \in Actions, Reserve(a) PROVE CopyInv(Direct)'
    <3>1. /\ pc'[Direct] = "authorize" /\ copy'[Direct] = Reserved /\ cur'[Direct] = a
          /\ action'[a] = Reserved
          /\ Reserved.status = "waiting-for-approval" /\ Reserved.exec = "none"
      BY <2>2, <1>t, <2>0 DEF Reserve, Reserved
    <3> QED
      BY <3>1 DEF CopyInv
  <2>3. ASSUME AuthorizeByPolicy PROVE CopyInv(Direct)'
    <3>1. /\ pc'[Direct] = "authorized" /\ UNCHANGED <<cur, action>> /\ pc[Direct] = "authorize"
          /\ copy'[Direct].status = "waiting-for-integration"
          /\ copy'[Direct].exec = copy[Direct].exec
      BY <2>3, <1>t, <2>0 DEF AuthorizeByPolicy, Rows, Immediate
    <3> QED
      BY <3>1, <2>0, <1>i DEF CopyInv
  <2>4. ASSUME RequestApproval PROVE CopyInv(Direct)'
    <3>1. /\ pc[Direct] = "authorize" /\ pc'[Direct] = "authorized" /\ UNCHANGED <<cur, action>>
          /\ copy'[Direct].status = copy[Direct].status
          /\ copy'[Direct].exec = copy[Direct].exec
      BY <2>4, <1>t, <2>0 DEF RequestApproval, Rows
    <3> QED
      BY <3>1, <2>0, <1>i DEF CopyInv
  <2>5. ASSUME SaveAuthorized PROVE CopyInv(Direct)'
    <3>0. /\ pc[Direct] = "authorized" /\ cur[Direct] \in Actions
          /\ copy[Direct].status \in {"waiting-for-approval", "waiting-for-integration"}
      BY <2>5, <2>0, <1>i, <1>t DEF SaveAuthorized, CopyInv, Working
    <3>1. CASE copy[Direct].status = "waiting-for-approval"
      <4>1. pc'[Direct] \notin Working
        BY <2>5, <3>1, <1>t, <2>0 DEF SaveAuthorized, SaveAndReturn, Return
      <4> QED
        BY <4>1, <2>0, <1>q DEF Working
    <3>2. CASE copy[Direct].status = "waiting-for-integration"
      <4>1. /\ UNCHANGED <<cur, copy>> /\ pc'[Direct] = "execute"
            /\ action' = [action EXCEPT ![cur[Direct]] = copy[Direct]]
        BY <2>5, <3>2, <1>t, <2>0 DEF SaveAuthorized, Save
      <4>2. action'[cur[Direct]] = copy[Direct]
        BY <3>0, <4>1, <1>t
      <4> QED
        BY <4>1, <4>2, <3>2 DEF CopyInv
    <3> QED
      BY <3>0, <3>1, <3>2
  <2>6. ASSUME ParkTurn \/ AnswerDirectly PROVE CopyInv(Direct)'
    <3>1. pc'[Direct] \in {"idle", "answer"}
      BY <2>6, <1>t, <2>0 DEF ParkTurn, AnswerDirectly
    <3> QED
      BY <3>1, <2>0, <1>q
  <2>7. CopyInv(Direct)'
    BY <1>1, <2>2, <2>3, <2>4, <2>5, <2>6 DEF PrepareStep
  <2> QED
    BY <1>h, <2>0, <2>1, <2>7
<1>2. ASSUME NEW b \in Actions, DecisionStep(b) PROVE Sound
  <2>0. /\ b \in Handlers /\ MayRun(b) /\ cur' = cur /\ cur[b] = b /\ request' = request
        /\ \A g \in Handlers \ {b} : pc'[g] = pc[g] /\ copy'[g] = copy[g]
        /\ request[b] = "approved" /\ copy[b] = action[b]
    BY <1>2, <1>t, <1>i, DistinctHandlers DEF DecisionStep, GrantPolicy, SaveDecision, CopyInv
  <2>1. CASE GrantPolicy(b)
    <3>1. pc'[b] = "decided" /\ UNCHANGED <<action, copy>>
      BY <2>1, <2>0, <1>t DEF GrantPolicy
    <3> QED
      BY <1>h, <2>0, <3>1 DEF CopyInv
  <2>2. CASE SaveDecision(b)
    <3>1. pc'[b] = "arm"
      BY <2>2, <2>0, <1>t DEF SaveDecision
    <3>2. action' = [action EXCEPT ![b] = [copy[b] EXCEPT !.status = "waiting-for-integration"]]
      BY <2>0, <2>2 DEF SaveDecision, Save, Immediate
    <3>3. action'[b].status = "waiting-for-integration"
      BY <1>t, <2>0, <3>2 DEF Rows
    <3> QED
      BY <1>h, <2>0, <3>1, <3>3 DEF CopyInv
  <2> QED
    BY <1>2, <2>1, <2>2 DEF DecisionStep
<1>3. ASSUME TickStep PROVE Sound
  <2>0. MayRun(Tick) /\ Tick \in Handlers /\ Tick \notin Actions
    BY <1>3, DistinctHandlers DEF TickStep, TickStart, ExpireNext, ListDue, ExecuteDue,
       TickAborted, TickEnd, Quiet, MayRun
  <2>1. \A g \in Handlers \ {Tick} : pc'[g] = pc[g] /\ cur'[g] = cur[g] /\ copy'[g] = copy[g]
    BY <1>3, <1>t, <2>0 DEF TickStep, TickStart, ExpireNext, ListDue, ExecuteDue,
       TickAborted, TickEnd
  <2>2. ASSUME NEW a \in Actions, ExpireNext(a), snap[Tick][a].linked, request[a] = "expired"
        PROVE  CopyInv(Tick)'
    <3>1. /\ pc'[Tick] = "discard" /\ cur'[Tick] = a /\ request' = request
          /\ copy'[Tick] = [snap[Tick][a] EXCEPT !.status = "rejected"]
      BY <2>2, <1>t, <2>0 DEF ExpireNext
    <3>2. snap[Tick][a] \in Rows
      BY <2>0, <1>t
    <3>3. copy'[Tick].status = "rejected" /\ copy'[Tick].exec = snap[Tick][a].exec
      BY <3>1, <3>2 DEF Rows
    <3>4. snap[Tick][a].exec # "approved-ready"
      BY <2>2, <1>i DEF ListInv
    <3> QED
      BY <2>2, <3>1, <3>3, <3>4 DEF CopyInv, Refused
  <2>3. ASSUME NEW a \in Actions, ExpireNext(a), ~(snap[Tick][a].linked /\ request[a] = "expired")
        PROVE  CopyInv(Tick)'
    BY <2>3, <2>0, <1>q DEF ExpireNext
  <2>4. ASSUME NEW a \in Actions, ExecuteDue(a) PROVE CopyInv(Tick)'
    BY <2>4, <1>i DEF ExecuteDue, ListInv
  <2>5. ASSUME TickStart \/ ListDue \/ TickAborted \/ TickEnd PROVE CopyInv(Tick)'
    <3>1. pc'[Tick] \in {"idle", "expired", "due"}
      BY <2>5, <1>t, <2>0 DEF TickStart, ListDue, TickAborted, TickEnd
    <3> QED
      BY <3>1, <2>0, <1>q
  <2>6. CopyInv(Tick)'
    BY <1>3, <2>2, <2>3, <2>4, <2>5 DEF TickStep
  <2> QED
    BY <1>h, <2>0, <2>1, <2>6
<1>4. ASSUME NEW h \in Handlers, ExecuteStep(h) PROVE Sound
  <2>0. MayRun(h)
    BY <1>4 DEF ExecuteStep, Arm, RefuseUngranted, RefuseUnapproved, RefuseNoAdapter,
       StartPreflight, PreflightRefuses, ClaimAndCall, LoseClaim, Settle, Discarded
  <2>1. PICK a \in Actions : a = cur[h]
    BY <1>4, ExecuteRows
  <2>2. /\ pc' = [pc EXCEPT ![h] = pc'[h]]
        /\ pc'[h] \in {ret[h], "execute", "discard", "preflight", "calling"}
        /\ cur' \in {cur, [cur EXCEPT ![h] = NoAction]}
    BY <1>4, ExecuteMoves, ExecuteRows
  <2>r. ASSUME NEW c, Return(h, c)
        PROVE  \A g \in Handlers \ {h} : copy'[g] = copy[g]
    BY <2>r, <1>t DEF Return
  <2>3. \A g \in Handlers \ {h} : copy'[g] = copy[g]
    BY <1>4, <1>t, <2>r DEF ExecuteStep, Arm, RefuseUngranted, RefuseUnapproved,
       RefuseNoAdapter, StartPreflight, PreflightRefuses, ClaimAndCall, LoseClaim, Settle,
       Discarded, SaveAndReturn
  <2>4. ASSUME pc'[h] = "execute" PROVE CopyInv(h)'
    <3>1. Arm(h) /\ ~(\E c : Return(h, c))
      BY <1>4, <1>t, <2>4 DEF ExecuteStep, Arm, RefuseUngranted, RefuseUnapproved,
         RefuseNoAdapter, StartPreflight, PreflightRefuses, ClaimAndCall, LoseClaim, Settle,
         Discarded, SaveAndReturn, Return, Working
    <3> DEFINE c == [action[a] EXCEPT !.exec = "approved-ready"]
    <3>2. /\ action' = [action EXCEPT ![a] = c] /\ copy' = [copy EXCEPT ![h] = c]
          /\ cur' = cur /\ pc[h] = "arm"
      BY <2>1, <3>1 DEF Arm, SaveAndReturn, Save
    <3>3. c.status = action[a].status
      BY <1>t DEF Rows
    <3>4. action[a].status # "rejected"
      BY <2>1, <3>2, <1>i DEF CopyInv, RowInv, Refused
    <3> HIDE DEF c
    <3>5. copy'[h] = c /\ action'[a] = c
      BY <3>2, <1>t
    <3> QED
      BY <2>1, <2>4, <3>2, <3>3, <3>4, <3>5 DEF CopyInv
  <2>5. ASSUME pc'[h] = "discard" PROVE CopyInv(h)'
    <3>1. RefuseUngranted(h)
      BY <1>4, <1>t, <2>5 DEF ExecuteStep, Arm, RefuseUngranted, RefuseUnapproved,
         RefuseNoAdapter, StartPreflight, PreflightRefuses, ClaimAndCall, LoseClaim, Settle,
         Discarded, SaveAndReturn, Return, Working
    <3>2. /\ pc[h] = "execute" /\ UNCHANGED <<action, cur>> /\ ~granted
          /\ copy'[h].status = "failed" /\ copy'[h].exec = copy[h].exec
      BY <3>1, <1>t DEF RefuseUngranted, Rows
    <3>3. copy[h] = action[a] /\ copy[h].status # "rejected"
      BY <2>1, <3>2, <1>i DEF CopyInv
    <3>4. Payload = {}
      BY <3>2, <1>i DEF ListInv, Immediate
    <3> QED
      BY <2>1, <2>5, <3>2, <3>3, <3>4 DEF CopyInv
  <2>6. CopyInv(h)'
    BY <1>t, <2>2, <2>4, <2>5, <1>q DEF Working
  <2> QED
    BY <1>h, <1>t, <2>0, <2>2, <2>3, <2>6 DEF Working
<1>5. ASSUME NEW h \in Handlers, ContinueStep(h) PROVE Sound
  <2>1. /\ pc' = [pc EXCEPT ![h] = pc'[h]] /\ MayRun(h)
        /\ pc'[h] \in {"idle", "expired", "ready", "execute", "answer"}
    BY <1>5, ContinueMoves DEF ContinueStep, NotReady, CollectReady, ExecuteReady, NotResumed,
       Resume, Answered
  <2>2. \A g \in Handlers \ {h} : cur'[g] = cur[g] /\ copy'[g] = copy[g]
    BY <1>5, <1>t DEF ContinueStep, NotReady, CollectReady, ExecuteReady, NotResumed, Resume,
       Answered
  <2>3. ASSUME NEW a \in Actions, ExecuteReady(h, a) PROVE CopyInv(h)'
    <3>1. /\ pc'[h] = "execute" /\ cur'[h] = a /\ copy'[h] = action[a] /\ action' = action
          /\ request[a] = "approved"
      BY <2>3, <1>t, <1>i DEF ExecuteReady, ListInv
    <3> QED
      BY <3>1, <1>i DEF CopyInv, RowInv, Refused
  <2>4. ASSUME \A a \in Actions : ~ExecuteReady(h, a) PROVE CopyInv(h)'
    <3>1. pc'[h] # "execute"
      BY <1>5, <1>t, <2>4 DEF ContinueStep, NotReady, CollectReady, NotResumed, Resume, Answered,
         Leave, Back
    <3> QED
      BY <2>1, <3>1, <1>q
  <2> QED
    BY <1>h, <1>t, <2>1, <2>2, <2>3, <2>4
<1>6. ASSUME RecoverStep PROVE Sound
  <2>1. MayRun(Recover) /\ Recover \in Handlers /\ pc'[Recover] \in {"recovering", "continue"}
        /\ Recover \notin Actions
        /\ \A g \in Handlers \ {Recover} : pc'[g] = pc[g] /\ cur'[g] = cur[g] /\ copy'[g] = copy[g]
    BY <1>6, <1>t, DistinctHandlers DEF RecoverStep, Reconcile, RecoverTurn
  <2> QED
    BY <1>h, <1>q, <2>1
<1>7. ASSUME NEW b \in Actions, NEW d \in {"approved", "rejected"}, NEW p \in BOOLEAN,
             Decide(b, d, p)
      PROVE  Sound
  <2>1. /\ MayRun(b) /\ b \in Handlers /\ cur'[b] = b /\ action' = action
        /\ \A g \in Handlers \ {b} : pc'[g] = pc[g] /\ cur'[g] = cur[g] /\ copy'[g] = copy[g]
    BY <1>7, <1>t, DistinctHandlers DEF Decide, Quiet, MayRun
  <2>2. CASE pc'[b] = "discard"
    <3>1. request'[b] \in Refused
      BY <1>7, <1>t, <2>1, <2>2 DEF Decide, Refused, Typed, TypeOK
    <3>2. copy'[b] = [action[b] EXCEPT !.status = "rejected", !.exec = "settled"]
      BY <1>7, <1>t, <2>1, <2>2 DEF Decide
    <3>3. copy'[b].status = "rejected" /\ copy'[b].exec = "settled"
      BY <3>2, <1>t DEF Rows
    <3>4. CopyInv(b)'
      BY <2>1, <2>2, <3>1, <3>3 DEF CopyInv
    <3> QED
      BY <1>h, <2>1, <3>4
  <2>3. CASE pc'[b] # "discard"
    <3>1. /\ pc'[b] \in {"policy", "decided"} /\ copy'[b] = action[b]
          /\ request'[b] = "approved"
      BY <1>7, <1>t, <2>1, <2>3 DEF Decide, Typed, TypeOK
    <3>2. CopyInv(b)'
      BY <2>1, <3>1 DEF CopyInv
    <3> QED
      BY <1>h, <2>1, <3>2
  <2> QED
    BY <2>2, <2>3
<1>8. ASSUME ChangeGrant \/ BecomeDue \/ Lapse \/ (\E a \in Actions : RevokePolicy(a)) \/ UNCHANGED vars
      PROVE  Sound
  BY <1>u, <1>8 DEF ChangeGrant, BecomeDue, Lapse, RevokePolicy, vars
<1>9. ASSUME CrashRestart PROVE Sound
  <2>1. \A h \in Handlers : pc'[h] \in {"recover", "idle"}
    BY <1>9 DEF CrashRestart
  <2> QED
    BY <2>1, <1>q, DistinctHandlers DEF Sound
<1>10. Sound
  BY <1>1, <1>2, <1>3, <1>4, <1>5, <1>6, <1>7, <1>8, <1>9 DEF Next, UserStep
<1> QED
  BY <1>10 DEF Sound

\* At the start nothing is held but what the prompt proposes.
LEMMA InitCalls == Init => CallsInv
<1> SUFFICES ASSUME Init PROVE CallsInv
  OBVIOUS
<1>1. Absent.exec = "none" /\ Absent.status = "absent"
  BY DEF Absent
<1>2. \A a \in Actions : RowInv(a)
  BY <1>1 DEF Init, RowInv
<1>3. \A h \in Handlers : CopyInv(h)
  BY DEF Init, CopyInv
<1>4. ListInv
  BY <1>1, DistinctHandlers DEF Init, ListInv
<1>5. \A a \in Actions : pc[a] \notin {"policy", "decided"}
  BY DistinctHandlers DEF Init
<1> QED
  BY <1>2, <1>3, <1>4, <1>5 DEF CallsInv

\* Everything that is known of a reachable state
Known == Typed /\ PolicyInv /\ FreshInv /\ CallInv /\ CallsInv

LEMMA StepKnown == ASSUME Immediate, Known, [Next]_vars PROVE Known'
<1>1. Typed' /\ PolicyInv' /\ FreshInv' /\ CallInv'
  BY StepType, StepHolding, StepPolicy, StepFresh, StepCall DEF Typed, Known
<1>2. CallsInv'
  BY StepRows, StepCopies, StepLists DEF CallsInv, Known
<1> QED
  BY <1>1, <1>2 DEF Known

LEMMA InitKnown == Init => Known
  BY InitType, InitHolding, InitRefusal, InitCalls DEF Known, Typed

\* No action crosses the external boundary twice, for any number of actions,
\* whatever policies, decisions, changes of the grant and crashes meet on them,
\* as long as none is asked for at a later time.  That a row with a call is
\* executing or settled (RowInv), and that what a handler is going to save says
\* so too or is a refusal of what was never called (CopyInv), carry it.
THEOREM CalledAtMostOnce == ASSUME Immediate PROVE Spec => []AtMostOnce
<1>1. Known /\ [Next]_vars => Known'
  BY StepKnown
<1>2. Known => AtMostOnce
  <2> SUFFICES ASSUME Known, NEW a \in Actions PROVE calls[a] <= 1
    BY DEF AtMostOnce
  <2>1. calls[a] = 0 \/ calls[a] = 1
    BY DEF Known, CallsInv, RowInv
  <2> QED
    BY <2>1
<1> QED
  BY <1>1, <1>2, InitKnown, PTL DEF Spec

-----------------------------------------------------------------------------
(* The gate implements ExternalCall *)

PhaseMap == [a \in Actions |-> Phase(a)]

\* Every step is one call, or concludes what it concludes, or is not seen.
LEMMA StepPhase ==
  ASSUME Immediate, Known, [Next]_vars
  PROVE  \/ \E a \in Actions : Phase(a) = "open" /\ PhaseMap' = [PhaseMap EXCEPT ![a] = "called"]
         \/ \A a \in Actions : \/ Phase(a)' = Phase(a)
                               \/ Phase(a) = "open" /\ Phase(a)' = "closed"
                               \/ Phase(a) = "called" /\ Phase(a)' = "recorded"
<1> USE DEF rows, clock, memory, hist
<1>t. /\ action \in [Actions -> Rows] /\ copy \in [Handlers -> Rows]
      /\ calls \in [Actions -> 0 .. MaxCalls] /\ MaxCalls \in Nat /\ MaxCalls > 1
      /\ \A h \in Handlers : pc[h] \in Working => cur[h] \in Actions
  BY GateAssumption DEF Known, Typed, TypeOK, Holding
<1>i. /\ \A a \in Actions : RowInv(a)
      /\ \A h \in Handlers : CopyInv(h)
      /\ \A a \in todo[Direct] : a \in Actions /\ action[a] = Absent /\ calls[a] = 0
      /\ \A a \in Actions : ~Unrefused(a) => calls[a] = 0
      /\ \A a \in Actions : pc[a] \in {"policy", "decided"} => cur[a] = a
  BY DistinctHandlers DEF Known, CallsInv, FreshInv, Fresh, CallInv, Typed, TypeOK
<1> DEFINE Still(a) == \/ Phase(a)' = Phase(a)
                       \/ Phase(a) = "open" /\ Phase(a)' = "closed"
                       \/ Phase(a) = "called" /\ Phase(a)' = "recorded"
           Sound    == \A a \in Actions : Still(a)
\* A row concluded stays so while no call is made.
<1>0. ASSUME NEW a \in Actions, calls'[a] = calls[a],
             Concluded(action[a]) => Concluded(action'[a])
      PROVE  Still(a)
  <2>1. Concluded(action[a])' = Concluded(action'[a])
    BY DEF Concluded
  <2> QED
    BY <1>0, <2>1 DEF Phase
<1>c. ASSUME calls' = calls,
             \A a \in Actions : action'[a] = action[a] \/ (Concluded(action[a]) => Concluded(action'[a]))
      PROVE  Sound
  BY <1>c, <1>0
<1> HIDE DEF Sound, Still
<1>1. ASSUME NEW h \in Handlers, ClaimAndCall(h)
      PROVE  \E a \in Actions : Phase(a) = "open" /\ PhaseMap' = [PhaseMap EXCEPT ![a] = "called"]
  <2>1. PICK a \in Actions : a = cur[h]
    BY <1>1, <1>t DEF ClaimAndCall, Working
  <2> DEFINE c == [action[a] EXCEPT !.exec = "executing", !.status = "waiting-for-integration"]
  <2>2. /\ action' = [action EXCEPT ![a] = c]
        /\ calls' = [calls EXCEPT ![a] = IF @ < MaxCalls THEN @ + 1 ELSE @]
        /\ action[a].exec \in {"none", "approved-ready"} /\ pc[h] = "preflight"
    BY <1>1, <2>1 DEF ClaimAndCall, Save, Claimable
  <2>3. c.exec = "executing" /\ c.status = "waiting-for-integration"
    BY <1>t DEF Rows
  <2> HIDE DEF c
  <2>4. calls[a] = 0 /\ action[a].status # "rejected"
    BY <2>1, <2>2, <1>i DEF RowInv, Known, CallInv, Unrefused, Refused
  <2>5. calls'[a] = 1 /\ action'[a] = c
    BY <2>2, <2>4, <1>t
  <2>6. Phase(a) = "open" /\ Phase(a)' = "called"
    BY <2>2, <2>3, <2>4, <2>5 DEF Phase, Concluded
  <2>7. \A b \in Actions : b # a => Phase(b)' = Phase(b)
    BY <2>2, <1>t DEF Phase
  <2> QED
    BY <2>6, <2>7 DEF PhaseMap
<1>2. ASSUME NEW h \in Handlers, ExecuteStep(h), ~ClaimAndCall(h) PROVE Sound
  <2>0. PICK a \in Actions : a = cur[h]
    BY <1>2, ExecuteRows DEF Known
  <2>1. calls' = calls /\ \A b \in Actions : b # a => action'[b] = action[b]
    BY <1>2, <2>0, ExecuteRows DEF Known, ExecuteStep, Arm, RefuseUngranted, RefuseUnapproved,
       RefuseNoAdapter, StartPreflight, PreflightRefuses, LoseClaim, Settle, Discarded
  <2>r. action[a] \in Rows /\ copy[h] \in Rows
    BY <1>t
  <2>c. ASSUME NEW c \in Rows, Save(h, c), Concluded(action[a]) => Concluded(c) PROVE Sound
    <3>1. action'[a] = c
      BY <1>t, <2>0, <2>c DEF Save
    <3> QED
      BY <1>c, <2>1, <2>c, <3>1
  <2>2. CASE Arm(h)
    <3>1. /\ [action[a] EXCEPT !.exec = "approved-ready"] \in Rows
          /\ [action[a] EXCEPT !.exec = "approved-ready"].status = action[a].status
      BY <2>r DEF Rows, ExecStates
    <3>2. action[a].exec # "settled"
      BY <2>0, <2>2 DEF Arm
    <3> QED
      BY <2>0, <2>2, <2>c, <3>1, <3>2 DEF Arm, SaveAndReturn, Concluded
  <2>3. CASE RefuseUnapproved(h)
    <3>1. /\ [copy[h] EXCEPT !.status = "waiting-for-approval"] \in Rows
          /\ [copy[h] EXCEPT !.status = "waiting-for-approval"].exec = copy[h].exec
      BY <2>r DEF Rows, Statuses
    <3>2. copy[h] = action[a] /\ copy[h].status # "rejected"
      BY <2>0, <2>3, <1>i DEF RefuseUnapproved, CopyInv
    <3> QED
      BY <2>0, <2>3, <2>c, <3>1, <3>2 DEF RefuseUnapproved, SaveAndReturn, Concluded
  <2>4. ASSUME NEW c \in Rows, c.exec = "settled", Save(h, c) PROVE Sound
    BY <2>4, <2>c DEF Concluded
  <2>5. CASE RefuseNoAdapter(h) \/ PreflightRefuses(h) \/
             \E r \in {"executed", "failed", "outcome-unknown", "waiting-for-integration"} : Settle(h, r)
    BY <2>4, <2>5, <2>r DEF RefuseNoAdapter, PreflightRefuses, Settle, SaveAndReturn, Rows,
       Statuses, ExecStates
  <2>6. CASE StartPreflight(h)
    <3>1. /\ [copy[h] EXCEPT !.status = "waiting-for-integration"] \in Rows
          /\ [copy[h] EXCEPT !.status = "waiting-for-integration"].exec = copy[h].exec
      BY <2>r DEF Rows, Statuses
    <3>2. copy[h] = action[a] /\ copy[h].status # "rejected"
      BY <2>0, <2>6, <1>i DEF StartPreflight, CopyInv
    <3>3. action' = action \/ Save(h, [copy[h] EXCEPT !.status = "waiting-for-integration"])
      BY <2>6 DEF StartPreflight, Save
    <3> QED
      BY <1>c, <2>1, <2>c, <3>1, <3>2, <3>3 DEF Concluded
  <2>7. CASE Discarded(h)
    <3>1. Save(h, copy[h]) /\ pc[h] = "discard"
      BY <2>7 DEF Discarded, SaveAndReturn
    <3>2. Concluded(action[a]) => Concluded(copy[h])
      BY <2>0, <3>1, <1>i DEF CopyInv, Concluded
    <3> QED
      BY <2>c, <2>r, <3>1, <3>2
  <2>8. CASE RefuseUngranted(h) \/ LoseClaim(h)
    BY <1>c, <2>8 DEF RefuseUngranted, LoseClaim
  <2> QED
    BY <1>2, <2>2, <2>3, <2>5, <2>6, <2>7, <2>8 DEF ExecuteStep
<1>3. ASSUME PrepareStep PROVE Sound
  <2>1. ASSUME NEW a \in Actions, Reserve(a) PROVE Sound
    <3>1. /\ calls' = calls /\ \A b \in Actions : b # a => action'[b] = action[b]
          /\ ~Concluded(action[a])
      BY <2>1, <1>t, <1>i DEF Reserve, Concluded, Absent
    <3> QED
      BY <1>c, <3>1
  <2>2. ASSUME SaveAuthorized PROVE Sound
    <3>1. /\ calls' = calls /\ \A b \in Actions : b # cur[Direct] => action'[b] = action[b]
          /\ ~Concluded(action[cur[Direct]])
      BY <2>2, <1>t, <1>i, DistinctHandlers DEF SaveAuthorized, SaveAndReturn, Save, CopyInv,
         Concluded, Reserved
    <3> QED
      BY <1>c, <3>1
  <2> QED
    BY <1>3, <1>c, <2>1, <2>2 DEF PrepareStep, AuthorizeByPolicy, RequestApproval, ParkTurn,
       AnswerDirectly
<1>4. ASSUME NEW b \in Actions, SaveDecision(b) PROVE Sound
  <2>0. calls' = calls /\ cur[b] = b /\ copy[b] = action[b] /\ request[b] = "approved"
    BY <1>4, <1>i, DistinctHandlers DEF SaveDecision, CopyInv
  <2>1. action' = [action EXCEPT ![b] = [copy[b] EXCEPT !.status = "waiting-for-integration"]]
    BY <1>4, <2>0 DEF SaveDecision, Save, Immediate
  <2>2. action'[b].exec = action[b].exec /\ action[b].status # "rejected"
    BY <2>0, <2>1, <1>t, <1>i DEF Rows, RowInv, Refused
  <2>3. \A a \in Actions : a # b => action'[a] = action[a]
    BY <2>1, <1>t
  <2> QED
    BY <1>c, <2>0, <2>2, <2>3 DEF Concluded
<1>5. ASSUME Reconcile \/ CrashRestart PROVE Sound
  <2>1. CASE Reconcile
    <3>1. /\ calls' = calls
          /\ \A a \in Actions : action'[a] = action[a] \/ (action[a].exec = "none" /\ action[a].status # "rejected")
      BY <2>1, <1>t DEF Reconcile, Unsaved
    <3> QED
      BY <1>c, <3>1 DEF Concluded
  <2>2. CASE CrashRestart
    <3>1. calls' = calls /\ \A a \in Actions : action'[a] = action[a] \/ action'[a].exec = "settled"
      BY <2>2, <1>t DEF CrashRestart, Rows
    <3> QED
      BY <1>c, <3>1 DEF Concluded
  <2> QED
    BY <1>5, <2>1, <2>2
<1>6. ASSUME NEW h \in Handlers, ContinueStep(h) PROVE Sound
  BY <1>c, <1>6, ContinueFrame
<1>7. ASSUME TickStep \/ UserStep \/ Lapse \/ BecomeDue \/ RecoverTurn \/ UNCHANGED vars
             \/ \E a \in Actions : GrantPolicy(a)
      PROVE  Sound
  BY ZenonT(40), <1>c, <1>7 DEF TickStep, TickStart, ExpireNext, ListDue, ExecuteDue, TickAborted, TickEnd,
     UserStep, Decide, ChangeGrant, RevokePolicy, Lapse, BecomeDue, RecoverTurn, GrantPolicy, vars
<1>8. Sound \/ \E h \in Handlers : ClaimAndCall(h)
  BY <1>2, <1>3, <1>4, <1>5, <1>6, <1>7 DEF Next, DecisionStep, RecoverStep
<1> QED
  BY <1>1, <1>8 DEF Sound, Still

LEMMA PhaseStep ==
  ASSUME \/ \E a \in Actions : Phase(a) = "open" /\ PhaseMap' = [PhaseMap EXCEPT ![a] = "called"]
         \/ \A a \in Actions : \/ Phase(a)' = Phase(a)
                               \/ Phase(a) = "open" /\ Phase(a)' = "closed"
                               \/ Phase(a) = "called" /\ Phase(a)' = "recorded"
  PROVE  [Boundary!Next]_PhaseMap
<1>1. CASE \E a \in Actions : Phase(a) = "open" /\ PhaseMap' = [PhaseMap EXCEPT ![a] = "called"]
  BY <1>1 DEF Boundary!Next, Boundary!Call, PhaseMap
<1>2. CASE \A a \in Actions : \/ Phase(a)' = Phase(a)
                              \/ Phase(a) = "open" /\ Phase(a)' = "closed"
                              \/ Phase(a) = "called" /\ Phase(a)' = "recorded"
  <2> DEFINE S == {a \in Actions : Phase(a)' # Phase(a)}
  <2>1. Boundary!Conclude(S)
    BY <1>2 DEF Boundary!Conclude
  <2> QED
    BY <2>1 DEF Boundary!Next
<1> QED
  BY <1>1, <1>2

\* Each action is called at most once, only while nothing was concluded about
\* it, and its verdict is final.
THEOREM GateImplementsCall == ASSUME Immediate PROVE Spec => OneCallOneVerdict
<1>1. Init => Boundary!Init
  BY DEF Init, Boundary!Init, Phase, Concluded, Absent
<1>2. Known /\ [Next]_vars => Known'
  BY StepKnown
<1>3. Known /\ [Next]_vars => [Boundary!Next]_PhaseMap
  BY StepPhase, PhaseStep
<1> QED
  BY <1>1, <1>2, <1>3, InitKnown, PTL DEF Spec, OneCallOneVerdict, Boundary!Spec, PhaseMap

-----------------------------------------------------------------------------
(* Every call gets its verdict *)

\* An approved action is linked to its request.
LinkInv == \A a \in Actions : request[a] = "approved" => action[a].linked

\* What a handler holds is linked too; who calls has called; and only what was
\* approved is taken up once more.
HoldInv(h) ==
  /\ pc[h] \in {"preflight", "calling"} /\ request[cur[h]] = "approved" => copy[h].linked
  /\ pc[h] = "calling" => calls[cur[h]] # 0
  /\ pc[h] = "discard" => copy[h].status = "rejected"
  /\ pc[h] = "execute" /\ copy[h].exec # "none" => request[cur[h]] = "approved"

\* A call without a verdict has its executor, and a restart will find it.
OpenInv ==
  \A a \in Actions : calls[a] # 0 /\ action[a].exec = "executing" =>
    /\ action[a].status = "waiting-for-integration"
    /\ \E h \in Handlers : pc[h] = "calling" /\ cur[h] = a

RecordInv == LinkInv /\ (\A h \in Handlers : HoldInv(h)) /\ OpenInv

\* A request becomes approved by a decision on a linked action.
LEMMA Approves ==
  ASSUME Typed, [Next]_vars
  PROVE  \A a \in Actions : request'[a] = "approved" =>
           \/ request[a] = "approved"
           \/ request[a] = "pending" /\ action[a].linked /\ action' = action
<1> USE DEF rows, clock, memory, hist
<1>t. request \in [Actions -> {"absent", "pending", "approved", "rejected", "expired"}]
  BY DEF Typed, TypeOK
<1>1. ASSUME NEW h \in Handlers, ExecuteStep(h) \/ ContinueStep(h) PROVE request' = request
  BY <1>1, ExecuteFrame, ContinueFrame
<1>2. ASSUME RequestApproval PROVE \A a \in Actions : request'[a] \in {request[a], "pending"}
  BY <1>2, <1>t DEF RequestApproval
<1>3. ASSUME TickStart PROVE \A a \in Actions : request'[a] \in {request[a], "expired"}
  BY <1>3, <1>t DEF TickStart
<1>4. ASSUME NEW b \in Actions, NEW d, NEW p, Decide(b, d, p)
      PROVE  /\ \A a \in Actions : a # b => request'[a] = request[a]
             /\ request[b] = "pending" /\ action[b].linked /\ action' = action
  BY <1>4, <1>t DEF Decide
<1> QED
  BY <1>1, <1>2, <1>3, <1>4 DEF Next, PrepareStep, Reserve, AuthorizeByPolicy, SaveAuthorized,
     ParkTurn, AnswerDirectly, TickStep, ExpireNext, ListDue, ExecuteDue, TickAborted, TickEnd,
     RecoverStep, Reconcile, RecoverTurn, DecisionStep, GrantPolicy, SaveDecision, UserStep,
     ChangeGrant, RevokePolicy, Lapse, BecomeDue, CrashRestart, vars

\* A call is not forgotten, and only its executor ends it.
LEMMA CallsStay ==
  ASSUME Typed, [Next]_vars
  PROVE  \A a \in Actions : calls[a] # 0 => calls'[a] # 0
<1> USE DEF rows, clock, memory, hist
<1>1. ASSUME NEW h \in Handlers, ClaimAndCall(h)
      PROVE  \A a \in Actions : calls[a] # 0 => calls'[a] # 0
  BY <1>1, GateAssumption DEF ClaimAndCall, Typed, TypeOK
<1>2. ASSUME NEW h \in Handlers, ContinueStep(h) PROVE calls' = calls
  BY <1>2, ContinueFrame
<1> QED
  BY ZenonT(40), <1>1, <1>2 DEF Next, PrepareStep, Reserve, AuthorizeByPolicy, RequestApproval,
     SaveAuthorized, ParkTurn, AnswerDirectly, DecisionStep, GrantPolicy, SaveDecision,
     TickStep, TickStart, ExpireNext, ListDue, ExecuteDue, TickAborted, TickEnd,
     ExecuteStep, Arm, RefuseUngranted, RefuseUnapproved, RefuseNoAdapter, StartPreflight,
     PreflightRefuses, LoseClaim, Settle, Discarded, RecoverStep, Reconcile, RecoverTurn,
     UserStep, Decide, ChangeGrant, RevokePolicy, BecomeDue, Lapse, CrashRestart, vars

\* A row that an open call survives: it is not touched, not executing, not called,
\* or says of the call what it said.
RowStays(a) ==
  \/ action'[a] = action[a] /\ calls'[a] = calls[a]
  \/ action'[a].exec # "executing"
  \/ calls'[a] = 0
  \/ /\ action'[a].status = "waiting-for-integration" /\ action[a].exec = "executing"
     /\ calls'[a] = calls[a]

\* A row that an approval survives
LinkStays(a) == request'[a] = "approved" /\ action[a].linked => action'[a].linked

\* A step of one handler that is not inside the boundary
LEMMA OneRecord ==
  ASSUME Known, RecordInv, [Next]_vars, NEW h \in Handlers, MayRun(h), pc[h] # "calling",
         \A g \in Handlers \ {h} : pc'[g] = pc[g] /\ cur'[g] = cur[g] /\ copy'[g] = copy[g],
         \A a \in Actions : RowStays(a) /\ LinkStays(a),
         HoldInv(h)'
  PROVE  RecordInv'
<1>1. LinkInv'
  BY Approves DEF LinkInv, LinkStays, RecordInv, Known
<1>2. ASSUME NEW g \in Handlers \ {h} PROVE HoldInv(g)'
  <2>1. pc[g] \in Working => cur[g] \in Actions
    BY DEF Known, Typed, Holding
  <2>2. pc[g] # "execute"
    BY Waiting
  <2>3. pc[g] \in {"preflight", "calling"} => request[cur[g]] # "pending"
    BY <2>1 DEF Known, CallInv, Unrefused, RecordInv, HoldInv, Working
  <2>4. pc[g] \in {"preflight", "calling"} /\ request'[cur[g]] = "approved" => request[cur[g]] = "approved"
    BY <2>1, <2>3, Approves DEF Known, Working
  <2>5. pc[g] = "calling" => calls'[cur[g]] # 0
    BY <2>1, CallsStay DEF Known, RecordInv, HoldInv, Working
  <2> QED
    BY <1>2, <2>2, <2>4, <2>5 DEF RecordInv, HoldInv
<1>3. OpenInv'
  <2> SUFFICES ASSUME NEW a \in Actions, calls'[a] # 0, action'[a].exec = "executing"
               PROVE  /\ action'[a].status = "waiting-for-integration"
                      /\ \E g \in Handlers : pc'[g] = "calling" /\ cur'[g] = a
    BY DEF OpenInv
  <2>1. /\ calls[a] # 0 /\ action[a].exec = "executing"
        /\ action'[a].status \in {action[a].status, "waiting-for-integration"}
    BY DEF RowStays
  <2> QED
    BY <2>1 DEF RecordInv, OpenInv
<1> QED
  BY <1>1, <1>2, <1>3 DEF RecordInv

LEMMA StepRecord ==
  ASSUME Immediate, ~GrantMayChange, Known, RecordInv, [Next]_vars
  PROVE  RecordInv'
<1> USE DEF rows, clock, memory, hist, Goto
<1>t. /\ pc \in [Handlers -> Places] /\ cur \in [Handlers -> Actions \cup {NoAction}]
      /\ copy \in [Handlers -> Rows] /\ action \in [Actions -> Rows]
      /\ snap \in [Handlers -> [Actions -> Rows]]
      /\ calls \in [Actions -> 0 .. MaxCalls] /\ MaxCalls \in Nat /\ MaxCalls > 1
      /\ \A h \in Handlers : ret[h] \notin Working
      /\ \A h \in Handlers : pc[h] \in Working => cur[h] \in Actions
  BY GateAssumption DEF Known, Typed, TypeOK, Holding
<1>i. /\ \A a \in Actions : RowInv(a)
      /\ \A h \in Handlers : CopyInv(h) /\ HoldInv(h)
      /\ ListInv /\ LinkInv
      /\ \A a \in Actions : ~Unrefused(a) => calls[a] = 0
      /\ \A a \in Actions : pc[a] \in {"policy", "decided"} => cur[a] = a
  BY DEF Known, CallsInv, CallInv, RecordInv
<1>l. Absent.exec = "none" /\ Reserved.exec = "none"
  BY DEF Absent, Reserved
<1>s. ASSUME NEW a \in Actions, action'[a] = action[a], calls'[a] = calls[a]
      PROVE  RowStays(a) /\ LinkStays(a)
  BY <1>s DEF RowStays, LinkStays
<1>h. ASSUME NEW h \in Handlers, MayRun(h), pc[h] # "calling",
             \A g \in Handlers \ {h} : pc'[g] = pc[g] /\ cur'[g] = cur[g] /\ copy'[g] = copy[g],
             \A a \in Actions : RowStays(a) /\ LinkStays(a), HoldInv(h)'
      PROVE  RecordInv'
  BY <1>h, OneRecord
\* A handler at a place of which nothing is asked
<1>q. ASSUME NEW h \in Handlers, pc'[h] \notin {"preflight", "calling", "discard", "execute"}
      PROVE  HoldInv(h)'
  BY <1>q DEF HoldInv
<1>u. ASSUME UNCHANGED <<action, request, calls, pc, cur, copy>> PROVE RecordInv'
  BY <1>u DEF RecordInv, LinkInv, HoldInv, OpenInv
<1>1. CASE PrepareStep
  <2>0. MayRun(Direct) /\ Direct \in Handlers /\ Direct \notin Actions /\ pc[Direct] # "calling"
    BY <1>1, DistinctHandlers DEF PrepareStep, Reserve, AuthorizeByPolicy, RequestApproval,
       SaveAuthorized, ParkTurn, AnswerDirectly
  <2>1. \A g \in Handlers \ {Direct} : pc'[g] = pc[g] /\ cur'[g] = cur[g] /\ copy'[g] = copy[g]
    BY <1>1, <1>t, <2>0 DEF PrepareStep, Reserve, AuthorizeByPolicy, RequestApproval,
       SaveAuthorized, SaveAndReturn, Return, ParkTurn, AnswerDirectly
  <2>2. ASSUME NEW a \in Actions, Reserve(a)
        PROVE  HoldInv(Direct)' /\ \A b \in Actions : RowStays(b) /\ LinkStays(b)
    <3>1. /\ action'[a] = Reserved /\ calls' = calls /\ request' = request /\ a \in todo[Direct]
          /\ \A b \in Actions : b # a => action'[b] = action[b]
          /\ pc'[Direct] = "authorize"
      BY <2>2, <1>t, <2>0 DEF Reserve
    <3>2. request[a] = "absent"
      BY <3>1 DEF Known, FreshInv, Fresh
    <3> QED
      BY <1>l, <1>q, <1>s, <2>0, <3>1, <3>2 DEF RowStays, LinkStays
  <2>3. ASSUME SaveAuthorized
        PROVE  HoldInv(Direct)' /\ \A b \in Actions : RowStays(b) /\ LinkStays(b)
    <3>1. PICK a \in Actions : a = cur[Direct]
      BY <2>3, <1>t, <2>0 DEF SaveAuthorized, Working
    <3>2. /\ action' = [action EXCEPT ![a] = copy[Direct]] /\ calls' = calls /\ request' = request
          /\ pc[Direct] = "authorized"
      BY <2>3, <3>1 DEF SaveAuthorized, SaveAndReturn, Save
    <3>3. action[a] = Reserved /\ copy[Direct].exec = "none"
      BY <2>0, <3>1, <3>2, <1>i DEF CopyInv
    <3>4. request[a] # "approved"
      BY <3>3, <1>i DEF LinkInv, Reserved
    <3>5. \A b \in Actions : RowStays(b) /\ LinkStays(b)
      BY <1>s, <1>t, <3>2, <3>3, <3>4 DEF RowStays, LinkStays
    <3>6. pc'[Direct] \notin Working \/ (pc'[Direct] \in {"arm", "execute"} /\ copy' = copy)
      BY <2>3, <1>t, <2>0 DEF SaveAuthorized, SaveAndReturn, Return
    <3>7. HoldInv(Direct)'
      BY <3>3, <3>6 DEF HoldInv, Working
    <3> QED
      BY <3>5, <3>7
  <2>4. ASSUME AuthorizeByPolicy \/ RequestApproval \/ ParkTurn \/ AnswerDirectly
        PROVE  HoldInv(Direct)' /\ \A b \in Actions : RowStays(b) /\ LinkStays(b)
    <3>1. UNCHANGED <<action, calls>> /\ pc'[Direct] \in {"authorized", "idle", "answer"}
      BY <2>4, <1>t, <2>0 DEF AuthorizeByPolicy, RequestApproval, ParkTurn, AnswerDirectly
    <3> QED
      BY <1>q, <1>s, <2>0, <3>1
  <2> QED
    BY <1>1, <1>h, <2>0, <2>1, <2>2, <2>3, <2>4 DEF PrepareStep
<1>2. ASSUME NEW b \in Actions, DecisionStep(b) PROVE RecordInv'
  <2>0. /\ b \in Handlers /\ MayRun(b) /\ cur' = cur /\ cur[b] = b /\ pc[b] # "calling"
        /\ \A g \in Handlers \ {b} : pc'[g] = pc[g] /\ copy'[g] = copy[g]
        /\ calls' = calls /\ copy[b] = action[b] /\ pc'[b] \in {"decided", "arm"}
    BY <1>2, <1>t, <1>i, DistinctHandlers DEF DecisionStep, GrantPolicy, SaveDecision, CopyInv
  <2>1. CASE GrantPolicy(b)
    <3>1. action' = action
      BY <2>1 DEF GrantPolicy
    <3> QED
      BY <1>h, <1>q, <1>s, <2>0, <3>1
  <2>2. CASE SaveDecision(b)
    <3>1. action' = [action EXCEPT ![b] = [copy[b] EXCEPT !.status = "waiting-for-integration"]]
      BY <2>0, <2>2 DEF SaveDecision, Save, Immediate
    <3>2. /\ action'[b].status = "waiting-for-integration" /\ action'[b].exec = action[b].exec
          /\ action'[b].linked = action[b].linked
      BY <1>t, <2>0, <3>1 DEF Rows
    <3>3. \A a \in Actions : RowStays(a) /\ LinkStays(a)
      BY <1>s, <1>t, <2>0, <3>1, <3>2 DEF RowStays, LinkStays
    <3> QED
      BY <1>h, <1>q, <2>0, <3>3
  <2> QED
    BY <1>2, <2>1, <2>2 DEF DecisionStep
<1>3. CASE TickStep
  <2>0. /\ MayRun(Tick) /\ Tick \in Handlers /\ Tick \notin Actions /\ pc[Tick] # "calling"
        /\ UNCHANGED <<action, calls>>
    BY <1>3, DistinctHandlers DEF TickStep, TickStart, ExpireNext, ListDue, ExecuteDue,
       TickAborted, TickEnd, Quiet, MayRun
  <2>1. \A g \in Handlers \ {Tick} : pc'[g] = pc[g] /\ cur'[g] = cur[g] /\ copy'[g] = copy[g]
    BY <1>3, <1>t, <2>0 DEF TickStep, TickStart, ExpireNext, ListDue, ExecuteDue,
       TickAborted, TickEnd
  <2>2. ASSUME NEW a \in Actions, ExpireNext(a) PROVE HoldInv(Tick)'
    <3>1. pc'[Tick] = "expired" \/ /\ pc'[Tick] = "discard"
                                   /\ copy'[Tick] = [snap[Tick][a] EXCEPT !.status = "rejected"]
      BY <2>2, <1>t, <2>0 DEF ExpireNext
    <3>2. [snap[Tick][a] EXCEPT !.status = "rejected"].status = "rejected"
      BY <1>t, <2>0 DEF Rows
    <3> QED
      BY <3>1, <3>2 DEF HoldInv
  <2>3. ASSUME NEW a \in Actions, ExecuteDue(a) PROVE HoldInv(Tick)'
    BY <2>3, <1>i DEF ExecuteDue, ListInv
  <2>4. ASSUME TickStart \/ ListDue \/ TickAborted \/ TickEnd PROVE HoldInv(Tick)'
    <3>1. pc'[Tick] \in {"idle", "expired", "due"}
      BY <2>4, <1>t, <2>0 DEF TickStart, ListDue, TickAborted, TickEnd
    <3> QED
      BY <3>1, <2>0, <1>q
  <2> QED
    BY <1>3, <1>h, <1>s, <2>0, <2>1, <2>2, <2>3, <2>4 DEF TickStep
<1>4. ASSUME NEW h \in Handlers, ExecuteStep(h) PROVE RecordInv'
  <2>0. PICK a \in Actions : a = cur[h]
    BY <1>4, ExecuteRows DEF Known
  <2>1. /\ MayRun(h)
        /\ \A b \in Actions : b # a => action'[b] = action[b] /\ calls'[b] = calls[b]
        /\ pc' = [pc EXCEPT ![h] = pc'[h]]
        /\ cur' \in {cur, [cur EXCEPT ![h] = NoAction]}
        /\ request' = request
    BY <1>4, <2>0, ExecuteMoves, ExecuteRows, ExecuteFrame DEF Known, ExecuteStep, Arm,
       RefuseUngranted, RefuseUnapproved, RefuseNoAdapter, StartPreflight, PreflightRefuses,
       ClaimAndCall, LoseClaim, Settle, Discarded
  <2>k. ASSUME NEW c, Return(h, c)
        PROVE  (\A g \in Handlers \ {h} : copy'[g] = copy[g]) /\ pc'[h] \notin Working
    BY <2>k, <1>t DEF Return
  <2>o. \A g \in Handlers \ {h} : pc'[g] = pc[g] /\ cur'[g] = cur[g] /\ copy'[g] = copy[g]
    <3>1. \A g \in Handlers \ {h} : copy'[g] = copy[g]
      BY <1>4, <1>t, <2>k DEF ExecuteStep, Arm, RefuseUngranted, RefuseUnapproved,
         RefuseNoAdapter, StartPreflight, PreflightRefuses, ClaimAndCall, LoseClaim, Settle,
         Discarded, SaveAndReturn
    <3> QED
      BY <1>t, <2>1, <3>1
  <2>r. action[a] \in Rows /\ copy[h] \in Rows /\ CopyInv(h) /\ HoldInv(h)
    BY <1>t, <1>i
  \* All but the end of a call
  <2>h. ASSUME pc[h] # "calling", RowStays(a) /\ LinkStays(a), HoldInv(h)' PROVE RecordInv'
    BY <1>h, <1>s, <2>1, <2>o, <2>h
  <2>2. CASE Arm(h)
    <3> DEFINE c == [action[a] EXCEPT !.exec = "approved-ready"]
    <3>1. /\ c.exec = "approved-ready" /\ c.linked = action[a].linked
      BY <2>r DEF Rows
    <3>2. /\ action' = [action EXCEPT ![a] = c] /\ request[a] = "approved" /\ pc[h] = "arm"
          /\ pc'[h] \notin Working \/ (pc'[h] = "execute" /\ cur' = cur)
      BY <2>0, <2>2, <2>k, <2>r, <1>t DEF Arm, SaveAndReturn, Save, CopyInv
    <3> HIDE DEF c
    <3>3. RowStays(a) /\ LinkStays(a)
      BY <1>t, <3>1, <3>2 DEF RowStays, LinkStays
    <3>4. HoldInv(h)'
      BY <2>0, <2>1, <3>2 DEF HoldInv, Working
    <3> QED
      BY <2>h, <3>2, <3>3, <3>4
  <2>3. CASE RefuseUnapproved(h)
    <3> DEFINE c == [copy[h] EXCEPT !.status = "waiting-for-approval"]
    <3>1. /\ c.exec = copy[h].exec /\ c.linked = copy[h].linked /\ pc[h] = "execute"
          /\ copy[h] = action[a]
      BY <2>0, <2>3, <2>r DEF RefuseUnapproved, CopyInv, Rows
    <3>2. copy[h].exec = "none"
      BY <2>0, <2>3, <2>r, <3>1, <1>i DEF RefuseUnapproved, Approved, HoldInv, LinkInv
    <3>3. action' = [action EXCEPT ![a] = c] /\ pc'[h] \notin Working
      BY <2>0, <2>3, <2>k DEF RefuseUnapproved, SaveAndReturn, Save
    <3> HIDE DEF c
    <3>4. RowStays(a) /\ LinkStays(a)
      BY <1>t, <3>1, <3>2, <3>3 DEF RowStays, LinkStays
    <3> QED
      BY <1>q, <2>h, <3>1, <3>3, <3>4 DEF Working
  <2>4. ASSUME NEW c \in Rows, c.exec = "settled", SaveAndReturn(h, c), pc[h] # "calling",
               request[a] = "approved" => c.linked
        PROVE  RecordInv'
    <3>1. action'[a] = c /\ pc'[h] \notin Working
      BY <1>t, <2>0, <2>4, <2>k DEF SaveAndReturn, Save
    <3>2. RowStays(a) /\ LinkStays(a)
      BY <2>1, <2>4, <3>1 DEF RowStays, LinkStays
    <3> QED
      BY <1>q, <2>h, <2>4, <3>1, <3>2 DEF Working
  <2>5. CASE RefuseNoAdapter(h)
    <3> DEFINE c == [copy[h] EXCEPT !.status = "failed", !.exec = "settled"]
    <3>1. c \in Rows /\ c.exec = "settled" /\ c.linked = copy[h].linked
      BY <2>r DEF Rows, Statuses, ExecStates
    <3>2. pc[h] = "execute" /\ copy[h] = action[a] /\ SaveAndReturn(h, c)
      BY <2>0, <2>5, <2>r DEF RefuseNoAdapter, CopyInv
    <3> HIDE DEF c
    <3> QED
      BY <2>4, <3>1, <3>2, <1>i DEF LinkInv
  <2>6. CASE PreflightRefuses(h)
    <3> DEFINE c == [copy[h] EXCEPT !.status = "waiting-for-integration", !.exec = "settled"]
    <3>1. c \in Rows /\ c.exec = "settled" /\ c.linked = copy[h].linked
      BY <2>r DEF Rows, Statuses, ExecStates
    <3>2. pc[h] = "preflight" /\ SaveAndReturn(h, c)
      BY <2>6 DEF PreflightRefuses
    <3>3. request[a] = "approved" => copy[h].linked
      BY <2>0, <2>r, <3>2 DEF HoldInv
    <3> HIDE DEF c
    <3> QED
      BY <2>4, <3>1, <3>2, <3>3
  <2>7. CASE StartPreflight(h)
    <3> DEFINE c == [copy[h] EXCEPT !.status = "waiting-for-integration"]
    <3>1. /\ c.exec = copy[h].exec /\ c.status = "waiting-for-integration"
          /\ c.linked = copy[h].linked
      BY <2>r DEF Rows
    <3>2. /\ action' \in {action, [action EXCEPT ![a] = c]} /\ copy' = [copy EXCEPT ![h] = c]
          /\ pc[h] = "execute" /\ calls' = calls /\ cur' = cur /\ pc'[h] = "preflight"
      BY <1>t, <2>0, <2>7 DEF StartPreflight
    <3>3. copy[h] = action[a]
      BY <2>0, <2>r, <3>2 DEF CopyInv
    <3> HIDE DEF c
    <3>4. RowStays(a) /\ LinkStays(a)
      BY <1>t, <3>1, <3>2, <3>3 DEF RowStays, LinkStays
    <3>5. HoldInv(h)'
      BY <1>i, <1>t, <2>0, <2>1, <3>1, <3>2, <3>3 DEF HoldInv, LinkInv
    <3> QED
      BY <2>h, <3>2, <3>4, <3>5
  <2>8. CASE ClaimAndCall(h)
    <3> DEFINE c == [action[a] EXCEPT !.exec = "executing", !.status = "waiting-for-integration"]
    <3>1. c.status = "waiting-for-integration" /\ c.linked = action[a].linked
      BY <2>r DEF Rows
    <3>2. /\ action' = [action EXCEPT ![a] = c] /\ copy' = [copy EXCEPT ![h] = c]
          /\ calls' = [calls EXCEPT ![a] = IF @ < MaxCalls THEN @ + 1 ELSE @]
          /\ pc'[h] = "calling" /\ cur' = cur /\ pc[h] = "preflight"
      BY <1>t, <2>0, <2>8 DEF ClaimAndCall, Save
    <3> HIDE DEF c
    <3>3. calls'[a] # 0 /\ action'[a] = c /\ copy'[h] = c
      BY <1>t, <3>2
    <3>4. HoldInv(h)'
      BY <1>i, <2>0, <2>1, <3>1, <3>2, <3>3 DEF HoldInv, LinkInv
    <3>5. \A g \in Handlers \ {h} : HoldInv(g)'
      <4> SUFFICES ASSUME NEW g \in Handlers \ {h} PROVE HoldInv(g)'
        OBVIOUS
      <4>1. HoldInv(g) /\ pc[g] # "execute" /\ (pc[g] = "calling" => cur[g] \in Actions)
        BY <1>i, <1>t, <2>1, Waiting DEF Working
      <4>2. pc[g] = "calling" => calls'[cur[g]] # 0
        BY <4>1, CallsStay DEF HoldInv, Known
      <4> QED
        BY <2>1, <2>o, <4>1, <4>2 DEF HoldInv
    <3>6. LinkInv'
      BY <1>i, <2>1, <3>1, <3>3 DEF LinkInv
    <3>7. OpenInv'
      <4> SUFFICES ASSUME NEW b \in Actions, calls'[b] # 0, action'[b].exec = "executing"
                   PROVE  /\ action'[b].status = "waiting-for-integration"
                          /\ \E g \in Handlers : pc'[g] = "calling" /\ cur'[g] = b
        BY DEF OpenInv
      <4>1. CASE b = a
        BY <2>0, <3>1, <3>2, <3>3, <4>1
      <4>2. CASE b # a
        BY <2>1, <2>o, <3>2, <4>2 DEF RecordInv, OpenInv
      <4> QED
        BY <4>1, <4>2
    <3> QED
      BY <3>4, <3>5, <3>6, <3>7 DEF RecordInv
  <2>9. ASSUME NEW r \in {"executed", "failed", "outcome-unknown", "waiting-for-integration"},
               Settle(h, r)
        PROVE  RecordInv'
    <3> DEFINE c == [copy[h] EXCEPT !.status = r, !.exec = "settled"]
    <3>1. c.exec = "settled" /\ c.linked = copy[h].linked
      BY <2>r DEF Rows
    <3>2. /\ pc[h] = "calling" /\ action' = [action EXCEPT ![a] = c] /\ pc'[h] \notin Working
          /\ calls' = calls
      BY <2>0, <2>9, <2>k DEF Settle, SaveAndReturn, Save
    <3>3. request[a] = "approved" => copy[h].linked
      BY <2>0, <2>r, <3>2 DEF HoldInv
    <3> HIDE DEF c
    <3>4. action'[a] = c
      BY <1>t, <3>2
    <3>5. \A g \in Handlers : HoldInv(g)'
      <4>1. \A g \in Handlers \ {h} : HoldInv(g)'
        BY <1>i, <2>1, <2>o, <3>2 DEF HoldInv
      <4> QED
        BY <1>q, <3>2, <4>1 DEF Working
    <3>6. LinkInv'
      BY <1>i, <2>1, <3>1, <3>3, <3>4 DEF LinkInv
    <3>7. OpenInv'
      <4> SUFFICES ASSUME NEW b \in Actions, calls'[b] # 0, action'[b].exec = "executing"
                   PROVE  /\ action'[b].status = "waiting-for-integration"
                          /\ \E g \in Handlers : pc'[g] = "calling" /\ cur'[g] = b
        BY DEF OpenInv
      <4>1. b # a
        BY <3>1, <3>4
      <4>2. /\ action[b].status = "waiting-for-integration"
            /\ \E g \in Handlers : pc[g] = "calling" /\ cur[g] = b
        BY <2>1, <4>1 DEF RecordInv, OpenInv
      <4> QED
        BY <2>0, <2>1, <2>o, <4>1, <4>2
    <3> QED
      BY <3>5, <3>6, <3>7 DEF RecordInv
  <2>10. CASE Discarded(h)
    <3>1. /\ action' = [action EXCEPT ![a] = copy[h]] /\ calls' = calls /\ pc[h] = "discard"
          /\ pc'[h] \notin Working
      BY <2>0, <2>10, <2>k DEF Discarded, SaveAndReturn, Save
    <3>2. copy[h].status = "rejected" /\ request[a] \in Refused
      BY <2>0, <2>r, <3>1 DEF HoldInv, CopyInv
    <3>3. calls[a] = 0 /\ request[a] # "approved"
      BY <1>i, <3>2 DEF Unrefused, Refused
    <3>4. RowStays(a) /\ LinkStays(a)
      BY <2>1, <3>1, <3>3 DEF RowStays, LinkStays
    <3> QED
      BY <1>q, <2>h, <3>1, <3>4 DEF Working
  <2>11. CASE LoseClaim(h)
    <3>1. UNCHANGED <<action, calls>> /\ pc[h] = "preflight" /\ pc'[h] \notin Working
      BY <2>11, <2>k DEF LoseClaim
    <3> QED
      BY <1>q, <1>s, <2>h, <3>1 DEF Working
  <2>12. ~RefuseUngranted(h)
    BY <1>i DEF RefuseUngranted, ListInv
  <2> QED
    BY <1>4, <2>2, <2>3, <2>5, <2>6, <2>7, <2>8, <2>9, <2>10, <2>11, <2>12 DEF ExecuteStep
<1>5. ASSUME NEW h \in Handlers, ContinueStep(h) PROVE RecordInv'
  <2>1. /\ pc' = [pc EXCEPT ![h] = pc'[h]] /\ MayRun(h) /\ pc[h] # "calling"
        /\ pc'[h] \in {"idle", "expired", "ready", "execute", "answer"}
    BY <1>5, ContinueMoves DEF Known, ContinueStep, NotReady, CollectReady, ExecuteReady,
       NotResumed, Resume, Answered
  <2>2. \A g \in Handlers \ {h} : cur'[g] = cur[g] /\ copy'[g] = copy[g]
    BY <1>5, <1>t DEF ContinueStep, NotReady, CollectReady, ExecuteReady, NotResumed, Resume,
       Answered
  <2>3. ASSUME NEW a \in Actions, ExecuteReady(h, a) PROVE HoldInv(h)'
    <3>1. pc'[h] = "execute" /\ cur'[h] = a /\ request[a] = "approved" /\ request' = request
      BY <2>3, <1>t, <1>i DEF ExecuteReady, ListInv
    <3> QED
      BY <3>1 DEF HoldInv
  <2>4. ASSUME \A a \in Actions : ~ExecuteReady(h, a) PROVE HoldInv(h)'
    <3>1. pc'[h] # "execute"
      BY <1>5, <1>t, <2>4 DEF ContinueStep, NotReady, CollectReady, NotResumed, Resume, Answered,
         Leave, Back
    <3> QED
      BY <2>1, <3>1, <1>q
  <2>5. UNCHANGED <<action, calls>>
    BY <1>5, ContinueFrame
  <2> QED
    BY <1>h, <1>s, <1>t, <2>1, <2>2, <2>3, <2>4, <2>5
<1>6. CASE RecoverStep
  <2>1. /\ MayRun(Recover) /\ Recover \in Handlers /\ pc'[Recover] \in {"recovering", "continue"}
        /\ pc[Recover] # "calling" /\ calls' = calls
        /\ \A g \in Handlers \ {Recover} : pc'[g] = pc[g] /\ cur'[g] = cur[g] /\ copy'[g] = copy[g]
    BY <1>6, <1>t, DistinctHandlers DEF RecoverStep, Reconcile, RecoverTurn
  <2>2. \A a \in Actions : action'[a].linked = action[a].linked
                           /\ (action'[a] = action[a] \/ action'[a].exec = "approved-ready")
    <3> TAKE a \in Actions
    <3> DEFINE c == [action[a] EXCEPT !.status = "waiting-for-integration", !.exec = "approved-ready"]
    <3>1. c.linked = action[a].linked /\ c.exec = "approved-ready"
      BY <1>t DEF Rows
    <3>2. action'[a] \in {action[a], c}
      BY <1>6, <1>t DEF RecoverStep, Reconcile, RecoverTurn
    <3> HIDE DEF c
    <3> QED
      BY <3>1, <3>2
  <2>3. \A a \in Actions : RowStays(a) /\ LinkStays(a)
    BY <2>1, <2>2 DEF RowStays, LinkStays
  <2> QED
    BY <1>h, <1>q, <2>1, <2>3
<1>7. ASSUME NEW b \in Actions, NEW d \in {"approved", "rejected"}, NEW p \in BOOLEAN,
             Decide(b, d, p)
      PROVE  RecordInv'
  <2>1. /\ MayRun(b) /\ b \in Handlers /\ pc[b] # "calling" /\ UNCHANGED <<action, calls>>
        /\ \A g \in Handlers \ {b} : pc'[g] = pc[g] /\ cur'[g] = cur[g] /\ copy'[g] = copy[g]
    BY <1>7, <1>t, DistinctHandlers DEF Decide, Quiet, MayRun
  <2>2. \/ pc'[b] \in {"policy", "decided"}
        \/ pc'[b] = "discard" /\ copy'[b] = [action[b] EXCEPT !.status = "rejected", !.exec = "settled"]
    BY <1>7, <1>t, <2>1 DEF Decide
  <2>3. [action[b] EXCEPT !.status = "rejected", !.exec = "settled"].status = "rejected"
    BY <1>t DEF Rows
  <2>4. HoldInv(b)'
    BY <2>2, <2>3 DEF HoldInv
  <2> QED
    BY <1>h, <1>s, <2>1, <2>4
<1>8. CASE ChangeGrant \/ BecomeDue \/ Lapse \/ (\E a \in Actions : RevokePolicy(a)) \/ UNCHANGED vars
  BY <1>u, <1>8 DEF ChangeGrant, BecomeDue, Lapse, RevokePolicy, vars
<1>9. CASE CrashRestart
  <2>1. /\ \A h \in Handlers : pc'[h] \in {"recover", "idle"}
        /\ UNCHANGED <<calls, request>>
    BY <1>9 DEF CrashRestart
  <2>2. \A a \in Actions : /\ action'[a].linked = action[a].linked
                           /\ Interrupted(a) => action'[a].exec = "settled"
                           /\ ~Interrupted(a) => action'[a] = action[a]
    BY <1>9, <1>t DEF CrashRestart, Rows
  <2>3. OpenInv'
    BY <2>1, <2>2 DEF RecordInv, OpenInv, Interrupted
  <2>4. LinkInv'
    BY <1>i, <2>1, <2>2 DEF LinkInv
  <2> QED
    BY <1>q, <2>1, <2>3, <2>4 DEF RecordInv
<1> QED
  BY <1>1, <1>2, <1>3, <1>4, <1>5, <1>6, <1>7, <1>8, <1>9 DEF Next, UserStep

LEMMA InitRecord == Init => RecordInv
<1>1. Init => LinkInv /\ OpenInv
  BY DEF Init, LinkInv, OpenInv
<1>2. Init => \A h \in Handlers : HoldInv(h)
  BY DEF Init, HoldInv
<1> QED
  BY <1>1, <1>2 DEF RecordInv

\* Every external call ends in a durable verdict: when no executor is inside the
\* boundary any more, the row is settled, whatever crash removed the executor.
\* That a call without a verdict has an executor and looks interrupted to the
\* restart (OpenInv) carries it.  With a grant that changes it is not so: the
\* refusal of another handler can make the row look failed while it is called.
THEOREM VerdictsRecorded ==
  ASSUME Immediate, ~GrantMayChange PROVE Spec => []CallsRecorded
<1>1. Init => RecordInv
  BY InitRecord
<1>2. Known /\ RecordInv /\ [Next]_vars => Known' /\ RecordInv'
  BY StepKnown, StepRecord
<1>3. Known /\ RecordInv => CallsRecorded
  <2> SUFFICES ASSUME Known, RecordInv, NEW a \in Actions, calls[a] > 0,
                      \A h \in Handlers : ~(pc[h] = "calling" /\ cur[h] = a)
               PROVE  action[a].exec = "settled"
    BY DEF CallsRecorded
  <2>1. calls[a] # 0 /\ action[a].exec \in {"executing", "settled"}
    BY DEF Known, CallsInv, RowInv
  <2> QED
    BY <2>1 DEF RecordInv, OpenInv
<1> QED
  BY <1>1, <1>2, <1>3, InitKnown, PTL DEF Spec

-----------------------------------------------------------------------------
(* The answer stands *)

\* Nothing will be sent out for the action any more.
Done(a) == Concluded(action[a]) \/ calls[a] # 0

\* The action is armed, or done.
Up(a) == action[a].exec = "approved-ready" \/ Done(a)

\* A handler has approved the action and is about to arm or to execute it.
AtHand(a) == \E g \in Handlers : /\ cur[g] = a
                                 /\ \/ pc[g] = "arm"
                                    \/ g = Direct /\ pc[g] \in {"execute", "preflight"}

\* A row: what is neither armed nor done waits for its decision, or somebody has
\* it at hand; and what the turn was answered from is final.
StandRow(a) ==
  /\ action[a].exec = "executing" => Done(a)
  /\ action[a].exec = "none" =>
       \/ action[a].status \in {"absent", "waiting-for-approval", "rejected"}
       \/ action[a].status = "waiting-for-integration" /\ AtHand(a)
  /\ answer[a] # "absent" => Concluded(action[a])
  /\ turn = "waiting-approval" => action[a].status # "absent"

\* A handler that saw every action decided, and works down the ready ones
Continuing(h) == pc[h] = "ready" \/ (pc[h] \in Working /\ ret[h] = "ready")

\* What a handler that continues the turn has left is done or on its list.
HandInv(h) ==
  /\ pc[h] \in {"policy", "decided", "arm", "discard"} => ret[h] = "continue"
  /\ pc[h] \in {"execute", "preflight"} =>
       /\ request[cur[h]] = "approved" /\ Up(cur[h])
       /\ copy[h].exec = "approved-ready" \/ Done(cur[h])
  /\ \A a \in ready[h] : Up(a)
  /\ Continuing(h) =>
       \A a \in Actions : a \in ready[h] \/ (pc[h] # "ready" /\ cur[h] = a) \/ Done(a)

\* direct() only prepares, with rows not armed, and what it is going to answer
\* from is final.
DirectInv ==
  /\ pc[Direct] \in {"idle", "prepare", "authorize", "authorized", "execute", "preflight",
                     "calling", "answer"}
  /\ pc[Direct] \in Working => ret[Direct] = "prepare"
  /\ pc[Direct] \in {"execute", "preflight"} => copy[Direct].exec = "none"
  /\ ready[Direct] = {}
  /\ \A a \in Actions :
       /\ snap[Direct][a].status \notin {"absent", "waiting-for-approval"} => Concluded(action[a])
       /\ pc[Direct] # "idle" => a \in todo[Direct] \/ action[a].status # "absent"

StandInv == /\ \A a \in Actions : StandRow(a)
            /\ \A h \in Handlers \ {Direct} : HandInv(h)
            /\ DirectInv

\* Everything the proof of AnswerKept stands on
Standing == Known /\ RecordInv /\ AnswerInv /\ StandInv

\* What becomes of a row in a step
RowMoves(a) ==
  /\ action[a].status # "absent" => action'[a].status # "absent"
  /\ \/ /\ action'[a] = action[a]
        /\ action[a].exec = "none" /\ action[a].status = "waiting-for-integration" /\ AtHand(a)
             => AtHand(a)'
     \/ action'[a].exec = "settled" /\ action'[a].status # "waiting-for-approval"
     \/ /\ action'[a].status = "rejected"
        /\ \E h \in Handlers : pc[h] = "discard" /\ cur[h] = a /\ action'[a] = copy[h]
     \/ /\ action'[a].exec = "executing" /\ calls'[a] # 0
        /\ action'[a].status = "waiting-for-integration"
     \/ action'[a].exec = "approved-ready" /\ action'[a].status # "waiting-for-approval"
     \/ /\ action'[a].exec = action[a].exec /\ action'[a].status = "waiting-for-approval"
        /\ pc[Direct] \notin {"idle", "answer"}
     \/ /\ action'[a].exec = action[a].exec /\ action'[a].status = "waiting-for-integration"
        /\ action[a].exec = "none" => AtHand(a)'

\* What a step of h leaves of the other handlers
Others(h) ==
  /\ MayRun(h)
  /\ \A g \in Handlers \ {h} : /\ pc'[g] = pc[g] /\ cur'[g] = cur[g] /\ copy'[g] = copy[g]
                               /\ ret'[g] = ret[g] /\ ready'[g] = ready[g]

LEMMA OthersRest ==
  ASSUME Typed, NEW h \in Handlers,
         \/ HandlerStep(h)
         \/ h \in Actions /\ \E d \in {"approved", "rejected"}, p \in BOOLEAN : Decide(h, d, p)
  PROVE  Others(h)
<1> USE DEF rows, clock, memory, hist, Goto
<1>t. /\ pc \in [Handlers -> Places] /\ cur \in [Handlers -> Actions \cup {NoAction}]
      /\ copy \in [Handlers -> Rows] /\ ret \in [Handlers -> Places]
      /\ ready \in [Handlers -> SUBSET Actions]
  BY DEF Typed, TypeOK
<1>r. ASSUME NEW c, Return(h, c)
      PROVE  \A g \in Handlers \ {h} : /\ pc'[g] = pc[g] /\ cur'[g] = cur[g] /\ copy'[g] = copy[g]
                                       /\ ret'[g] = ret[g] /\ ready'[g] = ready[g]
  BY <1>r, <1>t DEF Return
<1>1. CASE h = Direct /\ PrepareStep
  BY <1>1, <1>r, <1>t DEF PrepareStep, Reserve, AuthorizeByPolicy, RequestApproval,
     SaveAuthorized, SaveAndReturn, ParkTurn, AnswerDirectly, Others
<1>2. CASE h \in Actions /\ DecisionStep(h)
  BY <1>2, <1>t DEF DecisionStep, GrantPolicy, SaveDecision, Others
<1>3. CASE h = Tick /\ TickStep
  BY <1>3, <1>t DEF TickStep, TickStart, ExpireNext, ListDue, ExecuteDue, TickAborted, TickEnd,
     Others, Quiet, MayRun
<1>4. CASE h = Recover /\ RecoverStep
  BY <1>4, <1>t DEF RecoverStep, Reconcile, RecoverTurn, Others
<1>5. CASE ExecuteStep(h)
  <2>1. MayRun(h)
    BY <1>5 DEF ExecuteStep, Arm, RefuseUngranted, RefuseUnapproved, RefuseNoAdapter,
       StartPreflight, PreflightRefuses, ClaimAndCall, LoseClaim, Settle, Discarded
  <2>2. ASSUME NEW g \in Handlers \ {h}
        PROVE  /\ pc'[g] = pc[g] /\ cur'[g] = cur[g]
               /\ ret'[g] = ret[g] /\ ready'[g] = ready[g]
    BY <1>5, <1>t, ExecuteFrame, ExecuteMoves, ExecuteRows
  <2>3. ASSUME NEW g \in Handlers \ {h} PROVE copy'[g] = copy[g]
    BY <1>5, <1>t, <1>r DEF ExecuteStep, Arm, RefuseUngranted, RefuseUnapproved,
       RefuseNoAdapter, StartPreflight, PreflightRefuses, ClaimAndCall, LoseClaim, Settle,
       Discarded, SaveAndReturn
  <2> QED
    BY <2>1, <2>2, <2>3 DEF Others
<1>6. CASE ContinueStep(h)
  BY <1>6, <1>t DEF ContinueStep, NotReady, CollectReady, ExecuteReady, NotResumed, Resume,
     Answered, Leave, Others
<1>7. CASE h \in Actions /\ \E d \in {"approved", "rejected"}, p \in BOOLEAN : Decide(h, d, p)
  BY <1>7, <1>t DEF Decide, Others, Quiet, MayRun
<1> QED
  BY <1>1, <1>2, <1>3, <1>4, <1>5, <1>6, <1>7 DEF HandlerStep

\* What was concluded, or called, stays so.
LEMMA DoneStays ==
  ASSUME Immediate, Known, [Next]_vars
  PROVE  \A a \in Actions : /\ Concluded(action[a]) => Concluded(action'[a])
                            /\ Done(a) => Done(a)'
<1> SUFFICES ASSUME NEW a \in Actions
             PROVE  /\ Concluded(action[a]) => Concluded(action'[a])
                    /\ Done(a) => Done(a)'
  OBVIOUS
<1>p. Concluded(action[a])' = Concluded(action'[a])
  BY DEF Concluded
<1>1. Concluded(action[a]) => Concluded(action'[a])
  <2>1. /\ Phase(a) = "closed" => Phase(a)' # "open" /\ Phase(a)' # "called"
        /\ Phase(a) = "recorded" => Phase(a)' = "recorded"
    <3>1. CASE \E b \in Actions : Phase(b) = "open" /\ PhaseMap' = [PhaseMap EXCEPT ![b] = "called"]
      <4>1. PICK b \in Actions : Phase(b) = "open" /\ PhaseMap' = [PhaseMap EXCEPT ![b] = "called"]
        BY <3>1
      <4>2. PhaseMap[a] = Phase(a) /\ PhaseMap'[a] = Phase(a)'
        BY DEF PhaseMap
      <4>3. a # b => PhaseMap'[a] = PhaseMap[a]
        BY <4>1 DEF PhaseMap
      <4> QED
        BY <4>1, <4>2, <4>3
    <3>2. CASE ~\E b \in Actions : Phase(b) = "open" /\ PhaseMap' = [PhaseMap EXCEPT ![b] = "called"]
      BY <3>2, StepPhase
    <3> QED
      BY <3>1, <3>2
  <2>2. Concluded(action[a]) => Phase(a) \in {"closed", "recorded"}
    BY DEF Phase
  <2>3. Phase(a)' \notin {"open", "called"} => Concluded(action[a])'
    BY DEF Phase
  <2> QED
    BY <1>p, <2>1, <2>2, <2>3
<1>2. calls[a] # 0 => calls'[a] # 0
  BY CallsStay DEF Known
<1> QED
  BY <1>1, <1>2, <1>p DEF Done

\* Who has an action at hand keeps it through the steps of others.
LEMMA AtHandStays ==
  ASSUME NEW h \in Handlers, Others(h), pc[h] # "arm",
         ~(h = Direct /\ pc[h] \in {"execute", "preflight"}), NEW a \in Actions, AtHand(a)
  PROVE  AtHand(a)'
<1>1. PICK g \in Handlers : /\ cur[g] = a
                            /\ \/ pc[g] = "arm"
                               \/ g = Direct /\ pc[g] \in {"execute", "preflight"}
  BY DEF AtHand
<1>2. g # h
  BY <1>1
<1>3. cur'[g] = cur[g] /\ pc'[g] = pc[g]
  BY <1>2 DEF Others
<1> QED
  BY <1>1, <1>3 DEF AtHand

LEMMA RowsMove ==
  ASSUME Immediate, ~GrantMayChange, Standing, [Next]_vars
  PROVE  \A a \in Actions : RowMoves(a)
<1> USE DEF rows, clock, memory, hist, Goto
<1>t. /\ pc \in [Handlers -> Places] /\ cur \in [Handlers -> Actions \cup {NoAction}]
      /\ copy \in [Handlers -> Rows] /\ action \in [Actions -> Rows]
      /\ ret \in [Handlers -> Places]
      /\ calls \in [Actions -> 0 .. MaxCalls] /\ MaxCalls \in Nat /\ MaxCalls > 1
      /\ \A h \in Handlers : ret[h] \notin Working
      /\ \A h \in Handlers : pc[h] \in Working => cur[h] \in Actions
  <2>1. MaxCalls \in Nat /\ MaxCalls > 1
    BY GateAssumption
  <2> QED
    BY <2>1 DEF Standing, Known, Typed, TypeOK, Holding
<1>i. /\ \A a \in Actions : RowInv(a) /\ StandRow(a)
      /\ \A h \in Handlers : CopyInv(h) /\ HoldInv(h)
      /\ ListInv /\ LinkInv /\ DirectInv
      /\ \A a \in Actions : pc[a] \in {"policy", "decided"} => cur[a] = a
  BY DEF Standing, Known, CallsInv, RecordInv, StandInv
<1>y. Typed
  BY DEF Standing, Known
\* A row of another action, in the step of a handler
<1>s. ASSUME NEW a \in Actions, NEW h \in Handlers, Others(h), action'[a] = action[a], cur[h] # a
      PROVE  RowMoves(a)
  <2>1. ASSUME AtHand(a) PROVE AtHand(a)'
    <3>1. PICK g \in Handlers : /\ cur[g] = a
                                /\ \/ pc[g] = "arm"
                                   \/ g = Direct /\ pc[g] \in {"execute", "preflight"}
      BY <2>1 DEF AtHand
    <3>2. cur'[g] = cur[g] /\ pc'[g] = pc[g]
      BY <1>s, <3>1 DEF Others
    <3> QED
      BY <3>1, <3>2 DEF AtHand
  <2> QED
    BY <1>s, <2>1 DEF RowMoves
\* A step that writes no row, of a handler that has none at hand
<1>u. ASSUME NEW h \in Handlers, Others(h), action' = action, pc[h] # "arm",
             ~(h = Direct /\ pc[h] \in {"execute", "preflight"})
      PROVE  \A a \in Actions : RowMoves(a)
  BY <1>u, AtHandStays DEF RowMoves
<1>v. ASSUME UNCHANGED <<action, pc, cur>> PROVE \A a \in Actions : RowMoves(a)
  BY <1>v DEF RowMoves, AtHand
<1>1. CASE PrepareStep
  <2>0. Others(Direct) /\ Direct \in Handlers /\ Direct \notin Actions
    BY <1>1, <1>y, DistinctHandlers, OthersRest DEF HandlerStep
  <2>1. ASSUME NEW a \in Actions, Reserve(a) PROVE \A b \in Actions : RowMoves(b)
    <3>1. /\ action'[a] = Reserved /\ action[a] = Absent /\ pc[Direct] = "prepare"
          /\ \A b \in Actions : b # a => action'[b] = action[b]
      BY <2>1, <1>t DEF Reserve, Standing, Known, FreshInv
    <3>2. /\ Reserved.exec = "none" /\ Absent.exec = "none"
          /\ Reserved.status = "waiting-for-approval"
      BY DEF Reserved, Absent
    <3>3. RowMoves(a)
      BY <2>0, <3>1, <3>2 DEF RowMoves
    <3>4. ASSUME NEW b \in Actions, b # a PROVE RowMoves(b)
      BY <2>0, <3>1, <3>4, AtHandStays DEF RowMoves
    <3> QED
      BY <3>3, <3>4
  <2>2. CASE SaveAuthorized
    <3>1. PICK a \in Actions : a = cur[Direct]
      BY <2>2, <1>t, <2>0 DEF SaveAuthorized, Working
    <3>2. /\ action' = [action EXCEPT ![a] = copy[Direct]] /\ pc[Direct] = "authorized"
      BY <2>2, <3>1 DEF SaveAuthorized, SaveAndReturn, Save
    <3>3. /\ action[a] = Reserved /\ copy[Direct].exec = "none"
          /\ copy[Direct].status \in {"waiting-for-approval", "waiting-for-integration"}
      BY <2>0, <3>1, <3>2, <1>i DEF CopyInv
    <3>4. action'[a] = copy[Direct] /\ action[a].exec = "none"
      BY <3>2, <3>3, <1>t DEF Reserved
    <3>5. ASSUME copy[Direct].status = "waiting-for-integration" PROVE AtHand(a)'
      <4>1. pc'[Direct] = "execute" /\ cur' = cur
        BY <2>0, <2>2, <3>5, <1>t DEF SaveAuthorized
      <4> QED
        BY <2>0, <3>1, <4>1 DEF AtHand
    <3>6. RowMoves(a)
      BY <3>2, <3>3, <3>4, <3>5 DEF RowMoves
    <3> QED
      BY <1>s, <1>t, <2>0, <3>1, <3>2, <3>6
  <2>3. CASE AuthorizeByPolicy \/ RequestApproval \/ ParkTurn \/ AnswerDirectly
    <3>1. action' = action /\ pc[Direct] \in {"prepare", "authorize"}
      BY <2>3 DEF AuthorizeByPolicy, RequestApproval, ParkTurn, AnswerDirectly
    <3> QED
      BY <1>u, <2>0, <3>1
  <2> QED
    BY <1>1, <2>1, <2>2, <2>3 DEF PrepareStep
<1>2. ASSUME NEW b \in Actions, DecisionStep(b) PROVE \A a \in Actions : RowMoves(a)
  <2>0. b \in Handlers /\ Others(b) /\ b # Direct
    BY <1>2, <1>y, DistinctHandlers, OthersRest DEF HandlerStep
  <2>1. CASE GrantPolicy(b)
    <3>1. action' = action /\ pc[b] = "policy"
      BY <2>1 DEF GrantPolicy
    <3> QED
      BY <1>u, <2>0, <3>1
  <2>2. CASE SaveDecision(b)
    <3>1. cur[b] = b /\ copy[b] = action[b] /\ cur' = cur /\ pc'[b] = "arm"
      BY <2>0, <2>2, <1>i, <1>t DEF SaveDecision, CopyInv
    <3>2. action' = [action EXCEPT ![b] = [copy[b] EXCEPT !.status = "waiting-for-integration"]]
      BY <2>2, <3>1 DEF SaveDecision, Save, Immediate
    <3>3. /\ action'[b].status = "waiting-for-integration" /\ action'[b].exec = action[b].exec
      BY <1>t, <3>1, <3>2 DEF Rows
    <3>4. AtHand(b)'
      BY <2>0, <3>1 DEF AtHand
    <3>5. RowMoves(b)
      BY <3>3, <3>4 DEF RowMoves
    <3> QED
      BY <1>s, <1>t, <2>0, <3>1, <3>2, <3>5
  <2> QED
    BY <1>2, <2>1, <2>2 DEF DecisionStep
<1>3. CASE TickStep
  <2>0. Tick \in Handlers /\ Others(Tick) /\ Tick # Direct
    BY <1>3, <1>y, DistinctHandlers, OthersRest DEF HandlerStep
  <2>1. action' = action /\ pc[Tick] # "arm"
    BY <1>3 DEF TickStep, TickStart, ExpireNext, ListDue, ExecuteDue, TickAborted, TickEnd
  <2> QED
    BY <1>u, <2>0, <2>1
<1>4. ASSUME NEW h \in Handlers, ExecuteStep(h) PROVE \A b \in Actions : RowMoves(b)
  <2>0. PICK a \in Actions : a = cur[h]
    BY <1>4, <1>y, ExecuteRows
  <2>1. Others(h) /\ \A b \in Actions : b # a => action'[b] = action[b]
    BY <1>4, <1>y, <2>0, ExecuteRows, OthersRest DEF HandlerStep
  <2>s. ASSUME RowMoves(a) PROVE \A b \in Actions : RowMoves(b)
    BY <1>s, <2>0, <2>1, <2>s
  <2>r. /\ action[a] \in Rows /\ copy[h] \in Rows /\ CopyInv(h) /\ HoldInv(h)
        /\ RowInv(a) /\ StandRow(a)
    BY <1>t, <1>i
  <2>2. CASE Arm(h)
    <3> DEFINE c == [action[a] EXCEPT !.exec = "approved-ready"]
    <3>1. c.exec = "approved-ready" /\ c.status = action[a].status
      BY <2>r DEF Rows
    <3>2. action' = [action EXCEPT ![a] = c] /\ action[a].status = "waiting-for-integration"
      BY <2>0, <2>2, <2>r DEF Arm, SaveAndReturn, Save, CopyInv
    <3> HIDE DEF c
    <3>3. action'[a] = c
      BY <1>t, <3>2
    <3> QED
      BY <2>s, <3>1, <3>2, <3>3 DEF RowMoves
  <2>3. CASE RefuseUnapproved(h)
    <3> DEFINE c == [copy[h] EXCEPT !.status = "waiting-for-approval"]
    <3>1. c.exec = action[a].exec /\ c.status = "waiting-for-approval"
      BY <2>0, <2>3, <2>r DEF RefuseUnapproved, CopyInv, Rows
    <3>2. action' = [action EXCEPT ![a] = c] /\ pc[h] = "execute" /\ copy[h] = action[a]
          /\ ~(copy[h].linked /\ request[a] = "approved")
      BY <2>0, <2>3, <2>r DEF RefuseUnapproved, SaveAndReturn, Save, CopyInv, Approved
    <3> HIDE DEF c
    <3>3. action'[a] = c
      BY <1>t, <3>2
    <3>4. ASSUME h # Direct PROVE FALSE
      <4>1. request[a] = "approved"
        BY <2>0, <3>2, <3>4 DEF Standing, StandInv, HandInv
      <4> QED
        BY <1>i, <3>2, <4>1 DEF LinkInv
    <3> QED
      BY <2>s, <3>1, <3>2, <3>3, <3>4 DEF RowMoves
  <2>4. ASSUME NEW c, c.exec = "settled", c.status \notin {"absent", "waiting-for-approval"},
               Save(h, c)
        PROVE  \A b \in Actions : RowMoves(b)
    <3>1. action'[a] = c
      BY <1>t, <2>0, <2>4 DEF Save
    <3> QED
      BY <2>4, <2>s, <3>1 DEF RowMoves
  <2>5. CASE RefuseNoAdapter(h)
    <3> DEFINE c == [copy[h] EXCEPT !.status = "failed", !.exec = "settled"]
    <3>1. c.exec = "settled" /\ c.status = "failed"
      BY <2>r DEF Rows
    <3>2. Save(h, c)
      BY <2>5 DEF RefuseNoAdapter, SaveAndReturn
    <3> HIDE DEF c
    <3> QED
      BY <2>4, <3>1, <3>2
  <2>6. CASE PreflightRefuses(h)
    <3> DEFINE c == [copy[h] EXCEPT !.status = "waiting-for-integration", !.exec = "settled"]
    <3>1. c.exec = "settled" /\ c.status = "waiting-for-integration"
      BY <2>r DEF Rows
    <3>2. Save(h, c)
      BY <2>6 DEF PreflightRefuses, SaveAndReturn
    <3> HIDE DEF c
    <3> QED
      BY <2>4, <3>1, <3>2
  <2>7. ASSUME NEW r \in {"executed", "failed", "outcome-unknown", "waiting-for-integration"},
               Settle(h, r)
        PROVE  \A b \in Actions : RowMoves(b)
    <3> DEFINE c == [copy[h] EXCEPT !.status = r, !.exec = "settled"]
    <3>1. c.exec = "settled" /\ c.status = r
      BY <2>r DEF Rows
    <3>2. Save(h, c)
      BY <2>7 DEF Settle, SaveAndReturn
    <3> HIDE DEF c
    <3> QED
      BY <2>4, <3>1, <3>2
  <2>8. CASE StartPreflight(h)
    <3> DEFINE c == [copy[h] EXCEPT !.status = "waiting-for-integration"]
    <3>1. /\ c.exec = action[a].exec /\ c.status = "waiting-for-integration"
          /\ copy[h] = action[a] /\ pc[h] = "execute"
      BY <2>0, <2>8, <2>r DEF StartPreflight, CopyInv, Rows
    <3>2. /\ action' = IF action[a].status = "waiting-for-integration" THEN action
                       ELSE [action EXCEPT ![a] = c]
          /\ pc' = [pc EXCEPT ![h] = "preflight"] /\ cur' = cur
      BY <2>0, <2>8, <3>1 DEF StartPreflight
    <3> HIDE DEF c
    <3>3. /\ action'[a].exec = action[a].exec /\ action'[a].status = "waiting-for-integration"
          /\ action[a].status = "waiting-for-integration" => action'[a] = action[a]
      BY <1>t, <3>1, <3>2
    <3>4. ASSUME action[a].exec = "none" PROVE AtHand(a)'
      <4>1. CASE h = Direct
        BY <1>t, <2>0, <3>2, <4>1 DEF AtHand
      <4>2. CASE h # Direct
        <5>1. Up(a) /\ (copy[h].exec = "approved-ready" \/ Done(a))
          BY <2>0, <3>1, <4>2 DEF Standing, StandInv, HandInv
        <5>2. Concluded(action[a])
          BY <2>r, <3>1, <3>4, <5>1 DEF RowInv, Done
        <5>3. FALSE
          BY <2>r, <3>1, <3>4, <5>2 DEF Concluded, CopyInv
        <5> QED
          BY <5>3
      <4> QED
        BY <4>1, <4>2
    <3> QED
      BY <2>s, <3>3, <3>4 DEF RowMoves
  <2>9. CASE ClaimAndCall(h)
    <3> DEFINE c == [action[a] EXCEPT !.exec = "executing", !.status = "waiting-for-integration"]
    <3>1. c.exec = "executing" /\ c.status = "waiting-for-integration"
      BY <2>r DEF Rows
    <3>2. /\ action' = [action EXCEPT ![a] = c]
          /\ calls' = [calls EXCEPT ![a] = IF @ < MaxCalls THEN @ + 1 ELSE @]
      BY <2>0, <2>9 DEF ClaimAndCall, Save
    <3> HIDE DEF c
    <3>3. action'[a] = c /\ calls'[a] # 0
      BY <1>t, <3>2
    <3> QED
      BY <2>s, <3>1, <3>3 DEF RowMoves
  <2>10. CASE Discarded(h)
    <3>1. action' = [action EXCEPT ![a] = copy[h]] /\ pc[h] = "discard"
      BY <2>0, <2>10 DEF Discarded, SaveAndReturn, Save
    <3>2. action'[a] = copy[h] /\ copy[h].status = "rejected"
      BY <1>t, <2>r, <3>1 DEF HoldInv
    <3> QED
      BY <2>0, <2>s, <3>1, <3>2 DEF RowMoves
  <2>11. CASE LoseClaim(h)
    <3>1. action' = action /\ pc[h] = "preflight" /\ copy[h].exec # "none"
      BY <2>11 DEF LoseClaim
    <3>2. h # Direct
      BY <1>i, <3>1 DEF DirectInv
    <3> QED
      BY <1>u, <2>1, <3>1, <3>2
  <2>12. ~RefuseUngranted(h)
    BY <1>i DEF RefuseUngranted, ListInv
  <2> QED
    BY <1>4, <2>2, <2>3, <2>5, <2>6, <2>7, <2>8, <2>9, <2>10, <2>11, <2>12 DEF ExecuteStep
<1>5. ASSUME NEW h \in Handlers, ContinueStep(h) PROVE \A a \in Actions : RowMoves(a)
  <2>1. Others(h) /\ action' = action
    BY <1>5, <1>y, ContinueFrame, OthersRest DEF HandlerStep
  <2>2. pc[h] \notin {"arm", "execute", "preflight"}
    BY <1>5 DEF ContinueStep, NotReady, CollectReady, ExecuteReady, NotResumed, Resume, Answered
  <2> QED
    BY <1>u, <2>1, <2>2
<1>6. CASE RecoverStep
  <2>0. Recover \in Handlers /\ Others(Recover) /\ Recover # Direct
    BY <1>6, <1>y, DistinctHandlers, OthersRest DEF HandlerStep
  <2>1. CASE Reconcile
    <3>0. pc[Recover] = "recover"
      BY <2>1 DEF Reconcile
    <3>1. ASSUME NEW a \in Actions, Unsaved(a) PROVE RowMoves(a)
      <4>1. /\ action'[a].status = "waiting-for-integration"
            /\ action'[a].exec = "approved-ready"
        BY <2>1, <3>1, <1>t DEF Reconcile, Rows
      <4> QED
        BY <4>1 DEF RowMoves
    <3>2. ASSUME NEW a \in Actions, ~Unsaved(a) PROVE RowMoves(a)
      <4>1. action'[a] = action[a]
        BY <2>1, <3>2, <1>t DEF Reconcile
      <4> QED
        BY <2>0, <3>0, <4>1, AtHandStays DEF RowMoves
    <3> QED
      BY <3>1, <3>2
  <2>2. CASE RecoverTurn
    <3>1. action' = action /\ pc[Recover] = "recovering"
      BY <2>2 DEF RecoverTurn
    <3> QED
      BY <1>u, <2>0, <3>1
  <2> QED
    BY <1>6, <2>1, <2>2 DEF RecoverStep
<1>7. ASSUME NEW b \in Actions, NEW d \in {"approved", "rejected"}, NEW p \in BOOLEAN,
             Decide(b, d, p)
      PROVE  \A a \in Actions : RowMoves(a)
  <2>1. b \in Handlers /\ Others(b) /\ action' = action /\ pc[b] = "idle"
    <3>1. b \in Handlers /\ action' = action /\ pc[b] = "idle"
      BY <1>7, DistinctHandlers DEF Decide
    <3> QED
      BY <1>7, <1>y, <3>1, OthersRest
  <2> QED
    BY <1>u, <2>1
<1>8. CASE ChangeGrant \/ BecomeDue \/ Lapse \/ (\E a \in Actions : RevokePolicy(a)) \/ UNCHANGED vars
  BY <1>v, <1>8 DEF ChangeGrant, BecomeDue, Lapse, RevokePolicy, vars
<1>9. CASE CrashRestart
  <2>1. ASSUME NEW a \in Actions, Interrupted(a) PROVE RowMoves(a)
    <3>1. /\ action'[a].status = "outcome-unknown" /\ action'[a].exec = "settled"
      BY <1>9, <2>1, <1>t DEF CrashRestart, Rows
    <3> QED
      BY <3>1 DEF RowMoves
  <2>2. ASSUME NEW a \in Actions, ~Interrupted(a) PROVE RowMoves(a)
    <3>1. action'[a] = action[a]
      BY <1>9, <2>2, <1>t DEF CrashRestart
    <3> QED
      BY <2>2, <3>1 DEF RowMoves, Interrupted
  <2> QED
    BY <2>1, <2>2
<1> QED
  BY <1>1, <1>2, <1>3, <1>4, <1>5, <1>6, <1>7, <1>8, <1>9 DEF Next, UserStep

\* What is armed stays so until it is done.
LEMMA UpStays ==
  ASSUME Immediate, ~GrantMayChange, Standing, [Next]_vars
  PROVE  \A a \in Actions : Up(a) => Up(a)'
<1> SUFFICES ASSUME NEW a \in Actions, Up(a) PROVE Up(a)'
  OBVIOUS
<1>1. RowMoves(a) /\ (Done(a) => Done(a)')
  BY RowsMove, DoneStays DEF Standing
<1>2. action[a].exec \notin {"approved-ready", "executing", "settled"} => Done(a)
  BY DEF Up
<1>3. Concluded(action[a])' = Concluded(action'[a])
  BY DEF Concluded
<1> QED
  BY <1>1, <1>3 DEF RowMoves, Up, Done, Concluded

\* What a handler says of its list and its action outlives the steps of others.
LEMMA OthersHold ==
  ASSUME Immediate, ~GrantMayChange, Standing, [Next]_vars,
         NEW g \in Handlers \ {Direct},
         pc'[g] = pc[g], cur'[g] = cur[g], copy'[g] = copy[g], ret'[g] = ret[g], ready'[g] = ready[g]
  PROVE  HandInv(g)'
<1>1. HandInv(g) /\ (pc[g] \in Working => cur[g] \in Actions) /\ ready[g] \subseteq Actions
  BY DEF Standing, StandInv, Known, Typed, TypeOK, Holding
<1>2. \A a \in Actions : /\ Up(a) => Up(a)'
                         /\ Done(a) => Done(a)'
                         /\ request[a] = "approved" => request'[a] = "approved"
  BY UpStays, DoneStays, Final DEF Standing, Known
<1>3. pc[g] \in {"execute", "preflight"} =>
        /\ request'[cur[g]] = "approved" /\ Up(cur[g])'
        /\ copy[g].exec = "approved-ready" \/ Done(cur[g])'
  BY <1>1, <1>2 DEF HandInv, Working
<1>4. pc'[g] \in {"execute", "preflight"} =>
        /\ request'[cur'[g]] = "approved" /\ Up(cur[g])'
        /\ copy'[g].exec = "approved-ready" \/ Done(cur[g])'
  BY <1>3 DEF Up, Done
<1>5. Continuing(g)' => Continuing(g)
  BY DEF Continuing
<1> QED
  BY <1>1, <1>2, <1>4, <1>5 DEF HandInv

\* When the turn may go on, what is not armed is done.
LEMMA AllDecided ==
  ASSUME Immediate, Standing, NEW h \in Handlers, MayRun(h), pc[h] = "continue",
         turn = "waiting-approval", ~Undecided, NEW a \in Actions,
         action[a].exec # "approved-ready"
  PROVE  Done(a)
<1>1. StandRow(a) /\ action[a].exec \in ExecStates /\ action[a].status # "waiting-for-approval"
  BY DEF Standing, StandInv, Known, Typed, TypeOK, Rows, Undecided
<1>2. ~AtHand(a)
  <2> SUFFICES ASSUME NEW g \in Handlers, cur[g] = a,
                      \/ pc[g] = "arm"
                      \/ g = Direct /\ pc[g] \in {"execute", "preflight"}
               PROVE  FALSE
    BY DEF AtHand
  <2>1. g # h /\ pc[g] # "arm"
    BY Waiting
  <2>2. pc[Direct] = "idle"
    BY DEF Standing, AnswerInv
  <2> QED
    BY <2>1, <2>2
<1> QED
  BY <1>1, <1>2 DEF StandRow, ExecStates, Done, Concluded

LEMMA StepHands ==
  ASSUME Immediate, ~GrantMayChange, Standing, [Next]_vars
  PROVE  \A g \in Handlers \ {Direct} : HandInv(g)'
<1> USE DEF rows, clock, memory, hist, Goto
<1> DEFINE Sound == \A g \in Handlers \ {Direct} : HandInv(g)'
<1>t. /\ pc \in [Handlers -> Places] /\ cur \in [Handlers -> Actions \cup {NoAction}]
      /\ copy \in [Handlers -> Rows] /\ action \in [Actions -> Rows]
      /\ ret \in [Handlers -> Places] /\ ready \in [Handlers -> SUBSET Actions]
      /\ \A h \in Handlers : ret[h] \notin Working
      /\ \A h \in Handlers : pc[h] \in Working => cur[h] \in Actions
  BY DEF Standing, Known, Typed, TypeOK, Holding
<1>i. /\ \A a \in Actions : RowInv(a) /\ StandRow(a)
      /\ \A h \in Handlers : CopyInv(h) /\ HoldInv(h)
      /\ \A h \in Handlers \ {Direct} : HandInv(h)
      /\ ListInv
      /\ \A a \in Actions : pc[a] \in {"policy", "decided"} => cur[a] = a
  BY DEF Standing, Known, CallsInv, RecordInv, StandInv
<1>y. Typed
  BY DEF Standing, Known
<1>k. \A a \in Actions : /\ Up(a) => Up(a)'
                         /\ Done(a) => Done(a)'
                         /\ request[a] = "approved" => request'[a] = "approved"
  BY UpStays, DoneStays, Final DEF Standing, Known
<1>h. ASSUME NEW h \in Handlers, Others(h), h # Direct => HandInv(h)' PROVE Sound
  BY <1>h, OthersHold DEF Others
\* A handler that holds no action and continues nothing
<1>q. ASSUME NEW h \in Handlers \ {Direct}, ready'[h] \subseteq ready[h],
             pc'[h] \notin Working \cup {"ready"}
      PROVE  HandInv(h)'
  <2>1. \A a \in ready'[h] : Up(a)'
    BY <1>q, <1>i, <1>k, <1>t DEF HandInv
  <2>2. ~Continuing(h)'
    BY <1>q DEF Continuing
  <2> QED
    BY <1>q, <2>1, <2>2 DEF HandInv, Working
\* One that is going to look at the turn later
<1>w. ASSUME NEW h \in Handlers \ {Direct}, ready'[h] = ready[h],
             pc'[h] \in {"policy", "decided", "arm", "discard"}, ret'[h] = "continue"
      PROVE  HandInv(h)'
  <2>1. \A a \in ready'[h] : Up(a)'
    BY <1>w, <1>i, <1>k, <1>t DEF HandInv
  <2>2. ~Continuing(h)'
    BY <1>w DEF Continuing
  <2> QED
    BY <1>w, <2>1, <2>2 DEF HandInv
<1>a. \A a \in Actions : action'[a].exec = "approved-ready" => Up(a)'
  BY DEF Up
<1>1. ASSUME PrepareStep PROVE Sound
  BY <1>1, <1>h, <1>y, DistinctHandlers, OthersRest DEF HandlerStep
<1>2. ASSUME NEW b \in Actions, DecisionStep(b) PROVE Sound
  <2>0. b \in Handlers /\ Others(b) /\ b # Direct
    BY <1>2, <1>y, DistinctHandlers, OthersRest DEF HandlerStep
  <2>1. /\ UNCHANGED <<ready, ret>> /\ pc'[b] \in {"decided", "arm"}
        /\ pc[b] \in {"policy", "decided"}
    BY <1>2, <1>t, <2>0 DEF DecisionStep, GrantPolicy, SaveDecision
  <2>2. ret[b] = "continue"
    BY <1>i, <2>0, <2>1 DEF HandInv
  <2> QED
    BY <1>h, <1>w, <2>0, <2>1, <2>2
<1>3. ASSUME TickStep PROVE Sound
  <2>0. Tick \in Handlers /\ Others(Tick) /\ Tick # Direct
    BY <1>3, <1>y, DistinctHandlers, OthersRest DEF HandlerStep
  <2>1. ready' = ready
    BY <1>3 DEF TickStep, TickStart, ExpireNext, ListDue, ExecuteDue, TickAborted, TickEnd
  <2>2. \A a \in Actions : ~ExecuteDue(a)
    BY <1>i DEF ExecuteDue, ListInv
  <2>3. \/ pc'[Tick] \notin Working \cup {"ready"}
        \/ pc'[Tick] = "discard" /\ ret'[Tick] = "continue"
    <3>1. ASSUME NEW a \in Actions, ExpireNext(a)
          PROVE  \/ pc'[Tick] \notin Working \cup {"ready"}
                 \/ pc'[Tick] = "discard" /\ ret'[Tick] = "continue"
      BY <1>t, <2>0, <3>1 DEF ExpireNext, Working
    <3>2. ASSUME TickStart \/ ListDue \/ TickAborted \/ TickEnd
          PROVE  pc'[Tick] \in {"expired", "due", "idle"}
      BY <1>t, <2>0, <3>2 DEF TickStart, ListDue, TickAborted, TickEnd
    <3> QED
      BY <1>3, <2>2, <3>1, <3>2 DEF TickStep, Working
  <2>4. HandInv(Tick)'
    BY <1>q, <1>w, <2>0, <2>1, <2>3
  <2> QED
    BY <1>h, <2>0, <2>4
<1>4. ASSUME NEW h \in Handlers, ExecuteStep(h) PROVE Sound
  <2>0. PICK a \in Actions : a = cur[h]
    BY <1>4, <1>y, ExecuteRows
  <2>1. Others(h) /\ UNCHANGED <<ready, ret, request>>
    BY <1>4, <1>y, ExecuteFrame, OthersRest DEF HandlerStep
  <2>2. SUFFICES ASSUME h # Direct PROVE HandInv(h)'
    BY <1>h, <2>1
  <2>r. /\ action[a] \in Rows /\ copy[h] \in Rows /\ CopyInv(h) /\ HoldInv(h) /\ HandInv(h)
        /\ RowInv(a) /\ StandRow(a)
    BY <1>t, <1>i, <2>2
  <2>k. (Up(a) => Up(a)') /\ (Done(a) => Done(a)')
    BY <1>k
  <2>l. \A b \in ready'[h] : Up(b)'
    BY <1>k, <1>t, <2>1, <2>r DEF HandInv
  \* It goes on with the same action.
  <2>g. ASSUME pc[h] \in Working, pc'[h] \in {"execute", "preflight", "calling"}, cur' = cur,
               pc'[h] # "calling" =>
                 /\ request[a] = "approved" /\ Up(a)'
                 /\ copy'[h].exec = "approved-ready" \/ Done(a)'
        PROVE  HandInv(h)'
    <3>1. Continuing(h)' => Continuing(h) /\ pc[h] # "ready"
      BY <2>1, <2>g DEF Continuing, Working
    <3>2. Continuing(h)' => \A b \in Actions : b \in ready'[h] \/ cur'[h] = b \/ Done(b)'
      BY <1>k, <2>1, <2>g, <2>r, <3>1 DEF HandInv
    <3>3. pc'[h] \in {"execute", "preflight"} =>
            /\ request'[cur'[h]] = "approved" /\ Up(cur[h])'
            /\ copy'[h].exec = "approved-ready" \/ Done(cur[h])'
      BY <2>0, <2>1, <2>g DEF Up, Done
    <3> QED
      BY <2>g, <2>l, <3>2, <3>3 DEF HandInv
  \* It is done with the action.
  <2>d. ASSUME NEW c, Return(h, c), pc[h] \in Working, ret[h] = "ready" => Done(a)'
        PROVE  HandInv(h)'
    <3>1. pc'[h] = ret[h] /\ pc'[h] \notin Working
      BY <1>t, <2>d DEF Return
    <3>2. Continuing(h)' => Continuing(h) /\ pc[h] # "ready" /\ ret[h] = "ready"
      BY <2>d, <3>1 DEF Continuing, Working
    <3>3. Continuing(h)' => \A b \in Actions : b \in ready'[h] \/ Done(b)'
      BY <1>k, <2>0, <2>1, <2>d, <2>r, <3>2 DEF HandInv
    <3> QED
      BY <2>l, <3>1, <3>3 DEF HandInv, Working
  <2>s. ASSUME NEW c, c.exec = "settled", SaveAndReturn(h, c), pc[h] \in Working PROVE HandInv(h)'
    <3>1. action'[a].exec = "settled"
      BY <1>t, <2>0, <2>s DEF SaveAndReturn, Save
    <3> QED
      BY <2>d, <2>s, <3>1 DEF SaveAndReturn, Done, Concluded
  <2>3. CASE Arm(h)
    <3> DEFINE c == [action[a] EXCEPT !.exec = "approved-ready"]
    <3>1. c.exec = "approved-ready"
      BY <2>r DEF Rows
    <3>2. pc[h] = "arm" /\ action' = [action EXCEPT ![a] = c]
      BY <2>0, <2>3 DEF Arm, SaveAndReturn, Save
    <3>3. \/ SaveAndReturn(h, c)
          \/ copy' = [copy EXCEPT ![h] = c] /\ pc' = [pc EXCEPT ![h] = "execute"] /\ cur' = cur
      BY <2>0, <2>3 DEF Arm
    <3>4. ret[h] = "continue" /\ request[a] = "approved"
      BY <2>0, <2>r, <3>2 DEF HandInv, CopyInv
    <3> HIDE DEF c
    <3>5. action'[a].exec = "approved-ready"
      BY <1>t, <3>1, <3>2
    <3>6. CASE SaveAndReturn(h, c)
      BY <2>d, <3>2, <3>4, <3>6 DEF SaveAndReturn, Working
    <3>7. CASE copy' = [copy EXCEPT ![h] = c] /\ pc' = [pc EXCEPT ![h] = "execute"] /\ cur' = cur
      BY <1>a, <1>t, <2>g, <3>1, <3>2, <3>4, <3>5, <3>7 DEF Working
    <3> QED
      BY <3>3, <3>6, <3>7
  <2>4. CASE RefuseUnapproved(h)
    <3>1. request[a] = "approved" /\ copy[h] = action[a] /\ ~(copy[h].linked /\ request[a] = "approved")
      BY <2>0, <2>2, <2>4, <2>r DEF RefuseUnapproved, HandInv, CopyInv, Approved
    <3> QED
      BY <3>1 DEF Standing, RecordInv, LinkInv
  <2>5. CASE RefuseNoAdapter(h)
    <3> DEFINE c == [copy[h] EXCEPT !.status = "failed", !.exec = "settled"]
    <3>1. c.exec = "settled"
      BY <2>r DEF Rows
    <3>2. SaveAndReturn(h, c) /\ pc[h] = "execute"
      BY <2>5 DEF RefuseNoAdapter
    <3> HIDE DEF c
    <3> QED
      BY <2>s, <3>1, <3>2 DEF Working
  <2>6. CASE PreflightRefuses(h)
    <3> DEFINE c == [copy[h] EXCEPT !.status = "waiting-for-integration", !.exec = "settled"]
    <3>1. c.exec = "settled"
      BY <2>r DEF Rows
    <3>2. SaveAndReturn(h, c) /\ pc[h] = "preflight"
      BY <2>6 DEF PreflightRefuses
    <3> HIDE DEF c
    <3> QED
      BY <2>s, <3>1, <3>2 DEF Working
  <2>7. ASSUME NEW r \in {"executed", "failed", "outcome-unknown", "waiting-for-integration"},
               Settle(h, r)
        PROVE  HandInv(h)'
    <3> DEFINE c == [copy[h] EXCEPT !.status = r, !.exec = "settled"]
    <3>1. c.exec = "settled"
      BY <2>r DEF Rows
    <3>2. SaveAndReturn(h, c) /\ pc[h] = "calling"
      BY <2>7 DEF Settle
    <3> HIDE DEF c
    <3> QED
      BY <2>s, <3>1, <3>2 DEF Working
  <2>8. CASE StartPreflight(h)
    <3>1. /\ pc[h] = "execute" /\ pc'[h] = "preflight" /\ cur' = cur
          /\ copy'[h].exec = copy[h].exec
      BY <1>t, <2>8 DEF StartPreflight, Rows
    <3>2. /\ request[a] = "approved" /\ Up(a)
          /\ copy[h].exec = "approved-ready" \/ Done(a)
      BY <2>0, <2>r, <3>1 DEF HandInv
    <3> QED
      BY <2>g, <2>k, <3>1, <3>2 DEF Working
  <2>9. CASE ClaimAndCall(h)
    <3>1. pc[h] = "preflight" /\ pc'[h] = "calling" /\ cur' = cur
      BY <1>t, <2>9 DEF ClaimAndCall
    <3> QED
      BY <2>g, <3>1 DEF Working
  <2>10. CASE LoseClaim(h)
    <3>1. /\ pc[h] = "preflight" /\ Return(h, copy[h])
          /\ ~(copy[h].exec = "approved-ready" /\ action[a].exec = "approved-ready")
      BY <2>0, <2>10 DEF LoseClaim, Claimable
    <3>2. Up(a) /\ (copy[h].exec = "approved-ready" \/ Done(a))
      BY <2>0, <2>r, <3>1 DEF HandInv
    <3>3. Done(a)
      BY <3>1, <3>2 DEF Up
    <3> QED
      BY <2>d, <2>k, <3>1, <3>3 DEF Working
  <2>11. CASE Discarded(h)
    <3>1. pc[h] = "discard" /\ Return(h, copy[h])
      BY <2>11 DEF Discarded, SaveAndReturn
    <3>2. ret[h] = "continue"
      BY <2>r, <3>1 DEF HandInv
    <3> QED
      BY <2>d, <3>1, <3>2 DEF Working
  <2>12. ~RefuseUngranted(h)
    BY <1>i DEF RefuseUngranted, ListInv
  <2> QED
    BY <1>4, <2>3, <2>4, <2>5, <2>6, <2>7, <2>8, <2>9, <2>10, <2>11, <2>12 DEF ExecuteStep
<1>5. ASSUME NEW h \in Handlers, ContinueStep(h) PROVE Sound
  <2>1. Others(h) /\ UNCHANGED <<action, calls, request>>
    BY <1>5, <1>y, ContinueFrame, OthersRest DEF HandlerStep
  <2>2. SUFFICES ASSUME h # Direct PROVE HandInv(h)'
    BY <1>h, <2>1
  <2>3. CASE CollectReady(h)
    <3>1. /\ pc[h] = "continue" /\ MayRun(h) /\ turn = "waiting-approval" /\ ~Undecided
          /\ pc'[h] = "ready"
          /\ ready'[h] = ReadyNow(action, IF h = Tick THEN due ELSE late[h])
      BY <1>t, <2>3 DEF CollectReady
    <3>2. ready'[h] = {a \in Actions : action[a].exec = "approved-ready"}
      BY <3>1 DEF ReadyNow, Immediate
    <3>3. \A a \in Actions : a \in ready'[h] \/ Done(a)
      BY <3>1, <3>2, AllDecided
    <3>4. \A a \in Actions : a \in ready'[h] \/ Done(a)'
      BY <1>k, <3>3
    <3>5. \A a \in ready'[h] : Up(a)'
      BY <1>a, <2>1, <3>2
    <3> QED
      BY <3>1, <3>4, <3>5 DEF HandInv
  <2>4. ASSUME NEW a \in Actions, ExecuteReady(h, a) PROVE HandInv(h)'
    <3>1. /\ pc[h] \in {"ready", "recovering"} /\ a \in ready[h]
          /\ ready'[h] = ready[h] \ {a} /\ cur'[h] = a /\ copy'[h] = action[a]
          /\ ret'[h] = pc[h] /\ pc'[h] = "execute"
      BY <1>t, <2>4 DEF ExecuteReady
    <3>2. Up(a) /\ Up(a)' /\ request'[a] = "approved"
      BY <1>i, <1>k, <2>2, <3>1 DEF HandInv, ListInv
    <3>3. copy'[h].exec = "approved-ready" \/ Done(a)'
      BY <1>k, <3>1, <3>2 DEF Up
    <3>4. request'[cur'[h]] = "approved" /\ Up(cur[h])' /\ (copy'[h].exec = "approved-ready" \/ Done(cur[h])')
      BY <3>1, <3>2, <3>3 DEF Up, Done
    <3>5. \A b \in ready'[h] : Up(b)'
      BY <1>i, <1>k, <1>t, <2>2, <3>1 DEF HandInv
    <3>6. Continuing(h)' => Continuing(h) /\ pc[h] = "ready"
      BY <3>1 DEF Continuing
    <3>7. Continuing(h)' => \A b \in Actions : b \in ready'[h] \/ cur'[h] = b \/ Done(b)'
      BY <1>i, <1>k, <2>2, <3>1, <3>6 DEF HandInv
    <3> QED
      BY <3>1, <3>4, <3>5, <3>7 DEF HandInv
  <2>5. ASSUME ~CollectReady(h), \A a \in Actions : ~ExecuteReady(h, a) PROVE HandInv(h)'
    <3>1. ready' = ready /\ pc'[h] \in {"idle", "expired", "answer"}
      BY <1>5, <1>t, <2>5 DEF ContinueStep, NotReady, NotResumed, Resume, Answered, Leave, Back
    <3> QED
      BY <1>q, <2>2, <3>1 DEF Working
  <2> QED
    BY <2>3, <2>4, <2>5
<1>6. ASSUME RecoverStep PROVE Sound
  <2>0. Recover \in Handlers /\ Others(Recover) /\ Recover # Direct
    BY <1>6, <1>y, DistinctHandlers, OthersRest DEF HandlerStep
  <2>1. CASE Reconcile
    <3>1. /\ pc'[Recover] = "recovering"
          /\ ready'[Recover] = ReadyNow(action', late[Recover])
      BY <1>t, <2>0, <2>1 DEF Reconcile
    <3>2. \A a \in ready'[Recover] : Up(a)'
      BY <1>a, <3>1 DEF ReadyNow
    <3>3. ~Continuing(Recover)'
      BY <3>1 DEF Continuing, Working
    <3> QED
      BY <1>h, <2>0, <3>1, <3>2, <3>3 DEF HandInv
  <2>2. CASE RecoverTurn
    <3>1. ready' = ready /\ pc'[Recover] = "continue"
      BY <1>t, <2>0, <2>2 DEF RecoverTurn
    <3> QED
      BY <1>h, <1>q, <2>0, <3>1 DEF Working
  <2> QED
    BY <1>6, <2>1, <2>2 DEF RecoverStep
<1>7. ASSUME NEW b \in Actions, NEW d \in {"approved", "rejected"}, NEW p \in BOOLEAN,
             Decide(b, d, p)
      PROVE  Sound
  <2>0. b \in Handlers /\ b # Direct
    BY DistinctHandlers
  <2>1. Others(b)
    BY <1>7, <1>y, <2>0, OthersRest
  <2>2. ready' = ready /\ ret'[b] = "continue" /\ pc'[b] \in {"discard", "policy", "decided"}
    BY <1>7, <1>t, <2>0 DEF Decide
  <2> QED
    BY <1>h, <1>w, <2>0, <2>1, <2>2
<1>8. ASSUME ChangeGrant \/ BecomeDue \/ Lapse \/ (\E a \in Actions : RevokePolicy(a)) \/ UNCHANGED vars
      PROVE  Sound
  <2>1. UNCHANGED <<pc, cur, copy, ret, ready>>
    BY <1>8 DEF ChangeGrant, BecomeDue, Lapse, RevokePolicy, vars
  <2> QED
    BY <2>1, OthersHold
<1>9. ASSUME CrashRestart PROVE Sound
  <2>1. \A h \in Handlers : pc'[h] \in {"recover", "idle"} /\ ready'[h] = {}
    BY <1>9 DEF CrashRestart
  <2> QED
    BY <1>q, <2>1 DEF Working
<1>10. Sound
  BY <1>1, <1>2, <1>3, <1>4, <1>5, <1>6, <1>7, <1>8, <1>9 DEF Next, UserStep
<1> QED
  BY <1>10

LEMMA StepDirect ==
  ASSUME Immediate, ~GrantMayChange, Standing, [Next]_vars
  PROVE  DirectInv'
<1> USE DEF rows, clock, memory, hist, Goto
<1>t. /\ pc \in [Handlers -> Places] /\ cur \in [Handlers -> Actions \cup {NoAction}]
      /\ copy \in [Handlers -> Rows] /\ action \in [Actions -> Rows]
      /\ snap \in [Handlers -> [Actions -> Rows]]
      /\ ret \in [Handlers -> Places] /\ ready \in [Handlers -> SUBSET Actions]
      /\ todo \in [Handlers -> SUBSET Actions]
      /\ \A h \in Handlers : pc[h] \in Working => cur[h] \in Actions
  BY DEF Standing, Known, Typed, TypeOK, Holding
<1>i. /\ \A h \in Handlers : CopyInv(h) /\ HoldInv(h)
      /\ DirectInv /\ ListInv
  BY DEF Standing, Known, CallsInv, RecordInv, StandInv
<1>y. Typed
  BY DEF Standing, Known
<1>d. Direct \in Handlers /\ Direct \notin Actions /\ Direct # Tick /\ Direct # Recover
  BY DistinctHandlers
<1>k. \A a \in Actions : /\ Concluded(action[a]) => Concluded(action'[a])
                         /\ action[a].status # "absent" => action'[a].status # "absent"
  BY DoneStays, RowsMove DEF Standing, RowMoves
<1>n. Absent.status = "absent" /\ Absent.exec = "none" /\ Reserved.exec = "none"
      /\ Reserved.status = "waiting-for-approval"
  BY DEF Absent, Reserved
<1>p. \A a \in Actions : Concluded(action[a])' = Concluded(action'[a])
  BY DEF Concluded
\* It stays where it is, or ends.
<1>0. ASSUME \/ pc'[Direct] = pc[Direct] /\ copy'[Direct] = copy[Direct] /\ ret'[Direct] = ret[Direct]
             \/ pc'[Direct] = "idle",
             ready'[Direct] = ready[Direct] \/ ready'[Direct] = {},
             todo'[Direct] = todo[Direct] \/ pc'[Direct] = "idle",
             \A a \in Actions : \/ snap'[Direct][a] = snap[Direct][a]
                                \/ snap'[Direct][a] = Absent
      PROVE  DirectInv'
  <2>1. ASSUME NEW a \in Actions
        PROVE  /\ snap'[Direct][a].status \notin {"absent", "waiting-for-approval"}
                    => Concluded(action'[a])
               /\ pc'[Direct] # "idle" => a \in todo'[Direct] \/ action'[a].status # "absent"
    BY <1>0, <1>i, <1>k, <1>n DEF DirectInv
  <2> QED
    BY <1>0, <1>i, <1>p, <2>1 DEF DirectInv, Working
\* It moves on, with no new row in its result.
<1>g. ASSUME pc[Direct] # "idle",
             pc'[Direct] \in {"prepare", "authorize", "authorized", "execute", "preflight",
                              "calling", "answer"},
             pc'[Direct] \in Working => ret'[Direct] = "prepare",
             pc'[Direct] \in {"execute", "preflight"} => copy'[Direct].exec = "none",
             ready'[Direct] = ready[Direct],
             \A a \in todo[Direct] : a \in todo'[Direct] \/ action'[a].status # "absent",
             \A a \in Actions : \/ snap'[Direct][a] = snap[Direct][a]
                                \/ snap'[Direct][a].status \in {"absent", "waiting-for-approval"}
                                \/ Concluded(action'[a])
      PROVE  DirectInv'
  <2>1. ASSUME NEW a \in Actions
        PROVE  /\ snap'[Direct][a].status \notin {"absent", "waiting-for-approval"}
                    => Concluded(action'[a])
               /\ pc'[Direct] # "idle" => a \in todo'[Direct] \/ action'[a].status # "absent"
    BY <1>g, <1>i, <1>k DEF DirectInv
  <2> QED
    BY <1>g, <1>i, <1>p, <2>1 DEF DirectInv
\* A step of another handler
<1>o. ASSUME NEW h \in Handlers, h # Direct, Others(h), todo'[Direct] = todo[Direct],
             snap'[Direct] = snap[Direct]
      PROVE  DirectInv'
  <2>1. /\ pc'[Direct] = pc[Direct] /\ copy'[Direct] = copy[Direct]
        /\ ret'[Direct] = ret[Direct] /\ ready'[Direct] = ready[Direct]
    BY <1>d, <1>o DEF Others
  <2> QED
    BY <1>0, <1>o, <2>1
<1>1. CASE PrepareStep
  <2>1. ASSUME NEW a \in Actions, Reserve(a) PROVE DirectInv'
    <3>1. /\ pc[Direct] = "prepare" /\ pc'[Direct] = "authorize" /\ ret'[Direct] = "prepare"
          /\ UNCHANGED <<ready, snap>> /\ todo'[Direct] = todo[Direct] \ {a}
          /\ action'[a].status # "absent"
      BY <1>d, <1>n, <1>t, <2>1 DEF Reserve
    <3> QED
      BY <1>g, <3>1
  <2>2. CASE AuthorizeByPolicy \/ RequestApproval
    <3>1. /\ pc[Direct] = "authorize" /\ pc'[Direct] = "authorized"
          /\ UNCHANGED <<ready, snap, todo, ret>>
      BY <1>d, <1>t, <2>2 DEF AuthorizeByPolicy, RequestApproval
    <3>2. ret[Direct] = "prepare"
      BY <1>i, <3>1 DEF DirectInv, Working
    <3> QED
      BY <1>g, <3>1, <3>2
  <2>3. CASE SaveAuthorized
    <3>1. /\ pc[Direct] = "authorized" /\ ret[Direct] = "prepare" /\ copy[Direct].exec = "none"
          /\ copy[Direct].status \in {"waiting-for-approval", "waiting-for-integration"}
      BY <1>d, <1>i, <2>3 DEF SaveAuthorized, DirectInv, Working, CopyInv
    <3>2. CASE copy[Direct].status = "waiting-for-approval"
      <4>1. Return(Direct, copy[Direct])
        BY <2>3, <3>2 DEF SaveAuthorized, SaveAndReturn
      <4>2. /\ pc'[Direct] = "prepare" /\ UNCHANGED <<ready, todo, ret>>
            /\ \A a \in Actions : snap'[Direct][a] \in {snap[Direct][a], copy[Direct]}
        BY <1>d, <1>t, <3>1, <4>1 DEF Return
      <4>3. \A a \in Actions : snap'[Direct][a] = snap[Direct][a]
                               \/ snap'[Direct][a].status = "waiting-for-approval"
        BY <3>2, <4>2
      <4> QED
        BY <1>g, <3>1, <4>2, <4>3 DEF Working
    <3>3. CASE copy[Direct].status = "waiting-for-integration"
      <4>1. pc'[Direct] = "execute" /\ UNCHANGED memory
        BY <1>d, <1>t, <2>3, <3>3 DEF SaveAuthorized
      <4> QED
        BY <1>g, <3>1, <4>1
    <3> QED
      BY <3>1, <3>2, <3>3
  <2>4. CASE ParkTurn
    <3>1. /\ pc'[Direct] = "idle" /\ UNCHANGED <<ready, todo>>
          /\ \A a \in Actions : snap'[Direct][a] = Absent
      BY <1>d, <1>t, <2>4 DEF ParkTurn
    <3> QED
      BY <1>0, <3>1
  <2>5. CASE AnswerDirectly
    <3>1. /\ pc'[Direct] = "answer" /\ UNCHANGED <<ready, todo>> /\ pc[Direct] = "prepare"
          /\ \A a \in Actions : snap'[Direct][a].status = "absent"
      BY <1>d, <1>n, <1>t, <2>5 DEF AnswerDirectly
    <3> QED
      BY <1>g, <3>1 DEF Working
  <2> QED
    BY <1>1, <2>1, <2>2, <2>3, <2>4, <2>5 DEF PrepareStep
<1>2. ASSUME NEW b \in Actions, DecisionStep(b) PROVE DirectInv'
  <2>1. b \in Handlers /\ Others(b) /\ b # Direct
    BY <1>2, <1>y, DistinctHandlers, OthersRest DEF HandlerStep
  <2>2. UNCHANGED <<todo, snap>>
    BY <1>2 DEF DecisionStep, GrantPolicy, SaveDecision
  <2> QED
    BY <1>o, <2>1, <2>2
<1>3. CASE TickStep
  <2>1. Tick \in Handlers /\ Others(Tick)
    BY <1>3, <1>y, DistinctHandlers, OthersRest DEF HandlerStep
  <2>2. todo'[Direct] = todo[Direct] /\ snap'[Direct] = snap[Direct]
    BY <1>3, <1>d, <1>t DEF TickStep, TickStart, ExpireNext, ListDue, ExecuteDue, TickAborted,
       TickEnd
  <2> QED
    BY <1>d, <1>o, <2>1, <2>2
<1>4. ASSUME NEW h \in Handlers, ExecuteStep(h) PROVE DirectInv'
  <2>0. PICK a \in Actions : a = cur[h]
    BY <1>4, <1>y, ExecuteRows
  <2>1. Others(h) /\ UNCHANGED <<todo, ready, ret>>
    BY <1>4, <1>y, ExecuteFrame, OthersRest DEF HandlerStep
  <2>2. CASE h # Direct
    <3>r. ASSUME NEW c, Return(h, c) PROVE snap'[Direct] = snap[Direct]
      BY <2>2, <3>r DEF Return
    <3>1. snap'[Direct] = snap[Direct]
      BY <1>4, <3>r DEF ExecuteStep, Arm, RefuseUngranted, RefuseUnapproved,
         RefuseNoAdapter, StartPreflight, PreflightRefuses, ClaimAndCall, LoseClaim, Settle,
         Discarded, SaveAndReturn
    <3> QED
      BY <1>o, <2>1, <2>2, <3>1
  <2>3. CASE h = Direct
    <3>r. /\ action[a] \in Rows /\ copy[Direct] \in Rows
          /\ pc[Direct] \notin {"arm", "discard", "idle"} /\ ret[Direct] = "prepare"
      <4>1. pc[Direct] \in Working
        BY <1>4, <2>3 DEF ExecuteStep, Arm, RefuseUngranted, RefuseUnapproved,
           RefuseNoAdapter, StartPreflight, PreflightRefuses, ClaimAndCall, LoseClaim, Settle,
           Discarded, Working
      <4> QED
        BY <1>d, <1>t, <1>i, <4>1 DEF DirectInv, Working
    \* It is done with the action.
    <3>s. ASSUME NEW c, SaveAndReturn(Direct, c),
                 c.exec = "settled" \/ c.status = "waiting-for-approval"
          PROVE  DirectInv'
      <4>1. /\ action'[a] = c /\ pc'[Direct] = "prepare"
            /\ snap'[Direct][a] = c
            /\ \A b \in Actions : b # a => snap'[Direct][b] = snap[Direct][b]
        BY <1>d, <1>t, <2>0, <2>3, <3>r, <3>s DEF SaveAndReturn, Save, Return
      <4>2. \A b \in Actions : \/ snap'[Direct][b] = snap[Direct][b]
                               \/ snap'[Direct][b].status \in {"absent", "waiting-for-approval"}
                               \/ Concluded(action'[b])
        BY <3>s, <4>1 DEF Concluded
      <4> QED
        BY <1>g, <2>1, <3>r, <4>1, <4>2 DEF Working
    \* It goes on with it.
    <3>g. ASSUME pc'[Direct] \in {"preflight", "calling"}, snap' = snap,
                 pc'[Direct] = "preflight" => copy'[Direct].exec = "none"
          PROVE  DirectInv'
      BY <1>g, <2>1, <3>g, <3>r
    <3>1. CASE RefuseUnapproved(Direct)
      <4> DEFINE c == [copy[Direct] EXCEPT !.status = "waiting-for-approval"]
      <4>1. c.status = "waiting-for-approval"
        BY <3>r DEF Rows
      <4>2. SaveAndReturn(Direct, c)
        BY <3>1 DEF RefuseUnapproved
      <4> HIDE DEF c
      <4> QED
        BY <3>s, <4>1, <4>2
    <3>2. CASE RefuseNoAdapter(Direct)
      <4> DEFINE c == [copy[Direct] EXCEPT !.status = "failed", !.exec = "settled"]
      <4>1. c.exec = "settled"
        BY <3>r DEF Rows
      <4>2. SaveAndReturn(Direct, c)
        BY <3>2 DEF RefuseNoAdapter
      <4> HIDE DEF c
      <4> QED
        BY <3>s, <4>1, <4>2
    <3>3. CASE PreflightRefuses(Direct)
      <4> DEFINE c == [copy[Direct] EXCEPT !.status = "waiting-for-integration", !.exec = "settled"]
      <4>1. c.exec = "settled"
        BY <3>r DEF Rows
      <4>2. SaveAndReturn(Direct, c)
        BY <3>3 DEF PreflightRefuses
      <4> HIDE DEF c
      <4> QED
        BY <3>s, <4>1, <4>2
    <3>4. ASSUME NEW r \in {"executed", "failed", "outcome-unknown", "waiting-for-integration"},
                 Settle(Direct, r)
          PROVE  DirectInv'
      <4> DEFINE c == [copy[Direct] EXCEPT !.status = r, !.exec = "settled"]
      <4>1. c.exec = "settled"
        BY <3>r DEF Rows
      <4>2. SaveAndReturn(Direct, c)
        BY <3>4 DEF Settle
      <4> HIDE DEF c
      <4> QED
        BY <3>s, <4>1, <4>2
    <3>5. CASE StartPreflight(Direct)
      <4>1. /\ pc[Direct] = "execute" /\ pc'[Direct] = "preflight" /\ snap' = snap
            /\ copy'[Direct].exec = copy[Direct].exec
        BY <1>d, <1>t, <3>5 DEF StartPreflight, Rows
      <4>2. copy[Direct].exec = "none"
        BY <1>i, <4>1 DEF DirectInv
      <4> QED
        BY <3>g, <4>1, <4>2
    <3>6. CASE ClaimAndCall(Direct)
      <4>1. pc'[Direct] = "calling" /\ snap' = snap
        BY <1>d, <1>t, <3>6 DEF ClaimAndCall
      <4> QED
        BY <3>g, <4>1
    <3>7. ~LoseClaim(Direct)
      BY <1>i DEF LoseClaim, DirectInv
    <3>8. ~RefuseUngranted(Direct)
      BY <1>i DEF RefuseUngranted, ListInv
    <3> QED
      BY <1>4, <2>3, <3>r, <3>1, <3>2, <3>3, <3>4, <3>5, <3>6, <3>7, <3>8
         DEF ExecuteStep, Arm, Discarded
  <2> QED
    BY <2>2, <2>3
<1>5. ASSUME NEW h \in Handlers, ContinueStep(h) PROVE DirectInv'
  <2>1. Others(h) /\ UNCHANGED <<todo, snap>>
    BY <1>5, <1>y, ContinueFrame, OthersRest DEF HandlerStep
  <2>2. CASE h # Direct
    BY <1>o, <2>1, <2>2
  <2>3. CASE h = Direct
    <3>1. ready' = ready /\ pc'[Direct] = "idle"
      BY <1>5, <1>i, <1>t, <1>d, <2>3 DEF ContinueStep, NotReady, CollectReady, ExecuteReady,
         NotResumed, Resume, Answered, Leave, Back, DirectInv
    <3> QED
      BY <1>0, <2>1, <3>1
  <2> QED
    BY <2>2, <2>3
<1>6. CASE RecoverStep
  <2>1. Recover \in Handlers /\ Others(Recover) /\ UNCHANGED <<todo, snap>>
    BY <1>6, <1>y, DistinctHandlers, OthersRest DEF HandlerStep, RecoverStep, Reconcile, RecoverTurn
  <2> QED
    BY <1>d, <1>o, <2>1
<1>7. ASSUME NEW b \in Actions, NEW d \in {"approved", "rejected"}, NEW p \in BOOLEAN,
             Decide(b, d, p)
      PROVE  DirectInv'
  <2>0. b \in Handlers /\ b # Direct
    BY DistinctHandlers
  <2>1. Others(b)
    BY <1>7, <1>y, <2>0, OthersRest
  <2>2. UNCHANGED <<todo, snap>>
    BY <1>7 DEF Decide
  <2> QED
    BY <1>o, <2>0, <2>1, <2>2
<1>8. CASE ChangeGrant \/ BecomeDue \/ Lapse \/ (\E a \in Actions : RevokePolicy(a)) \/ UNCHANGED vars
  <2>1. UNCHANGED <<pc, copy, ret, ready, todo, snap>>
    BY <1>8 DEF ChangeGrant, BecomeDue, Lapse, RevokePolicy, vars
  <2> QED
    BY <1>0, <2>1
<1>9. CASE CrashRestart
  <2>1. /\ pc'[Direct] = "idle" /\ ready'[Direct] = {}
        /\ \A a \in Actions : snap'[Direct][a] = Absent
    BY <1>9, <1>d DEF CrashRestart
  <2> QED
    BY <1>0, <2>1
<1> QED
  BY <1>1, <1>2, <1>3, <1>4, <1>5, <1>6, <1>7, <1>8, <1>9 DEF Next, UserStep

\* The turn is answered, or parked, in these steps alone.
LEMMA OnlyTheseAnswer ==
  ASSUME [Next]_vars
  PROVE  /\ answer' # answer => AnswerDirectly \/ \E h \in Handlers : Resume(h)
         /\ turn' = "waiting-approval" /\ turn # "waiting-approval" => ParkTurn
<1> USE DEF rows, clock, memory, hist
<1>1. ASSUME NEW h \in Handlers, ContinueStep(h), ~Resume(h)
      PROVE  answer' = answer /\ (turn' = turn \/ turn' \in {"completed", "failed"})
  BY <1>1 DEF ContinueStep, NotReady, CollectReady, ExecuteReady, NotResumed, Answered
<1>2. ASSUME NEW h \in Handlers, ExecuteStep(h) PROVE answer' = answer /\ turn' = turn
  BY <1>2 DEF ExecuteStep, Arm, RefuseUngranted, RefuseUnapproved, RefuseNoAdapter,
     StartPreflight, PreflightRefuses, ClaimAndCall, LoseClaim, Settle, Discarded
<1>3. ASSUME NEW h \in Handlers, Resume(h) PROVE turn' = "running"
  BY <1>3 DEF Resume
<1>4. ASSUME PrepareStep, ~AnswerDirectly, ~ParkTurn PROVE answer' = answer /\ turn' = turn
  BY <1>4 DEF PrepareStep, Reserve, AuthorizeByPolicy, RequestApproval, SaveAuthorized
<1>5. /\ AnswerDirectly => turn' = turn
      /\ ParkTurn => answer' = answer
  BY DEF AnswerDirectly, ParkTurn
<1>6. ASSUME TickStep PROVE answer' = answer /\ (turn' = turn \/ turn' = "failed")
  BY <1>6 DEF TickStep, TickStart, ExpireNext, ListDue, ExecuteDue, TickAborted, TickEnd
<1>7. ASSUME \/ \E a \in Actions : DecisionStep(a)
             \/ RecoverStep \/ UserStep \/ BecomeDue \/ Lapse \/ UNCHANGED vars
      PROVE  answer' = answer /\ turn' = turn
  BY <1>7 DEF DecisionStep, GrantPolicy, SaveDecision, RecoverStep, Reconcile, RecoverTurn,
     UserStep, Decide, ChangeGrant, RevokePolicy, BecomeDue, Lapse, vars
<1>8. ASSUME CrashRestart PROVE answer' = answer /\ (turn' = turn \/ turn' = "failed")
  BY <1>8 DEF CrashRestart
<1> QED
  BY <1>1, <1>2, <1>3, <1>4, <1>5, <1>6, <1>7, <1>8 DEF Next

LEMMA StepStandRows ==
  ASSUME Immediate, ~GrantMayChange, Standing, [Next]_vars
  PROVE  \A a \in Actions : StandRow(a)'
<1> SUFFICES ASSUME NEW a \in Actions PROVE StandRow(a)'
  OBVIOUS
<1>i. /\ StandRow(a) /\ RowMoves(a) /\ RowInv(a) /\ DirectInv
      /\ Done(a) => Done(a)'
      /\ Concluded(action[a]) => Concluded(action'[a])
      /\ calls[a] # 0 => calls'[a] # 0
  BY RowsMove, DoneStays, CallsStay DEF Standing, StandInv, Known, CallsInv
<1>p. /\ Concluded(action[a])' = Concluded(action'[a])
      /\ Done(a)' <=> Concluded(action'[a]) \/ calls'[a] # 0
  BY DEF Concluded, Done
<1>1. action'[a].exec = "executing" => Done(a)'
  BY <1>i, <1>p DEF StandRow, RowMoves, Concluded
<1>2. action'[a].exec = "none" =>
        \/ action'[a].status \in {"absent", "waiting-for-approval", "rejected"}
        \/ action'[a].status = "waiting-for-integration" /\ AtHand(a)'
  BY <1>i DEF StandRow, RowMoves, Concluded
<1>3. answer'[a] # "absent" => Concluded(action'[a])
  <2>1. CASE answer' = answer
    BY <1>i, <2>1 DEF StandRow
  <2>2. CASE AnswerDirectly
    <3>1. answer'[a] = snap[Direct][a].status /\ answer'[a] # "waiting-for-approval"
      BY <2>2 DEF AnswerDirectly
    <3> QED
      BY <1>i, <3>1 DEF DirectInv
  <2>3. ASSUME NEW h \in Handlers, Resume(h) PROVE Concluded(action'[a])
    <3>1. /\ pc[h] = "ready" /\ ready[h] = {} /\ action[a].exec # "executing" /\ action' = action
      BY <2>3 DEF Resume, MayResume, Executing
    <3>2. h # Direct
      BY <1>i, <3>1 DEF DirectInv
    <3>3. Done(a)
      BY <3>1, <3>2 DEF Standing, StandInv, HandInv, Continuing
    <3> QED
      BY <1>i, <3>1, <3>3 DEF Done, RowInv, Concluded
  <2> QED
    BY <2>1, <2>2, <2>3, OnlyTheseAnswer
<1>4. turn' = "waiting-approval" => action'[a].status # "absent"
  <2>1. ASSUME ParkTurn PROVE action[a].status # "absent"
    BY <1>i, <2>1 DEF ParkTurn, DirectInv
  <2> QED
    BY <1>i, <2>1, OnlyTheseAnswer DEF StandRow, RowMoves
<1> QED
  BY <1>1, <1>2, <1>3, <1>4, <1>p DEF StandRow

LEMMA InitStand == Init => StandInv
<1> SUFFICES ASSUME Init PROVE StandInv
  OBVIOUS
<1>1. Absent.exec = "none" /\ Absent.status = "absent"
  BY DEF Absent
<1>2. \A a \in Actions : StandRow(a)
  BY <1>1 DEF Init, StandRow
<1>3. \A h \in Handlers \ {Direct} : HandInv(h)
  BY DEF Init, HandInv, Continuing, Working
<1>4. DirectInv
  BY <1>1, DistinctHandlers DEF Init, DirectInv, Working
<1> QED
  BY <1>2, <1>3, <1>4 DEF StandInv

LEMMA InitStanding == Init => Standing
<1>1. Init => AnswerInv
  BY DistinctHandlers DEF Init, AnswerInv, Unanswered
<1> QED
  BY <1>1, InitKnown, InitRecord, InitStand DEF Standing

LEMMA StepStanding ==
  ASSUME Immediate, ~GrantMayChange, Standing, [Next]_vars PROVE Standing'
BY StepKnown, StepRecord, StepAnswer, StepStandRows, StepHands, StepDirect
   DEF Standing, StandInv, Known

\* The answer of the turn stands: what it was answered from is final, so that
\* nothing it reports is sent out afterwards.  That whoever goes on with the
\* turn has every action done or on its list (HandInv) carries it, and that a
\* row neither armed nor done is at hand somewhere (StandRow).  With a grant
\* that changes, a refusal can leave a row armed that it calls failed.
THEOREM AnswerKept ==
  ASSUME Immediate, ~GrantMayChange PROVE Spec => AnswerStands
<1>1. Init => Standing
  BY InitStanding
<1>2. Standing /\ [Next]_vars => Standing'
  BY StepStanding
<1>3. Standing /\ [Next]_vars =>
        [\A a \in Actions : calls'[a] # calls[a] => answer[a] \in {"absent", "scheduled"}]_calls
  <2> SUFFICES ASSUME Standing, [Next]_vars, NEW a \in Actions, calls'[a] # calls[a]
               PROVE  answer[a] = "absent"
    OBVIOUS
  <2>1. PICK h \in Handlers : ClaimAndCall(h)
    BY OnlyClaimCalls
  <2>2. a = cur[h] /\ pc[h] = "preflight" /\ action[a].exec \in {"none", "approved-ready"}
    BY <2>1 DEF ClaimAndCall, Claimable, Standing, Known, Typed, TypeOK
  <2>3. action[a].status # "rejected"
    BY <2>2 DEF Standing, Known, CallsInv, CallInv, RowInv, Unrefused, Refused
  <2> QED
    BY <2>2, <2>3 DEF Standing, StandInv, StandRow, Concluded
<1> QED
  BY <1>1, <1>2, <1>3, PTL DEF Spec, AnswerStands

-----------------------------------------------------------------------------
(* Nobody waits for nothing *)

\* Who is inside the boundary has called, and no refusal is saved that says so.
BoundaryInv ==
  /\ \A a \in Actions : /\ action[a].exec = "executing" => calls[a] # 0
                        /\ snap[Tick][a].exec = "executing" => calls[a] # 0
  /\ \A h \in Handlers : pc[h] = "discard" => copy[h].exec # "executing"

\* An action the user can decide about, or the timer finds expired
Open(a) == /\ action[a].status = "waiting-for-approval" /\ action[a].linked
           /\ request[a] \in {"pending", "expired"}

\* A handler that is going to see to the turn
Bound(h) == \/ pc[h] \in {"continue", "ready"}
            \/ pc[h] \in Working /\ ret[h] \in {"continue", "ready"}

\* While direct() prepares without a policy, nobody else runs, and what its
\* result says to wait is open.
PrepareInv ==
  pc[Direct] \notin {"idle", "answer"} =>
    /\ policies = {} /\ pc[Direct] \in {"prepare", "authorize", "authorized"}
    /\ \A g \in Handlers \ {Direct} : pc[g] = "idle"
    /\ pc[Direct] # "prepare" => copy[Direct].status = "waiting-for-approval"
    /\ pc[Direct] = "authorized" => copy[Direct].linked /\ request[cur[Direct]] = "pending"
    /\ \A a \in Actions : snap[Direct][a].status = "waiting-for-approval" => Open(a)

\* An action that waits has its request open, or its decision is being saved.
WaitInv(a) ==
  /\ action[a].status = "waiting-for-approval" /\ ~(pc[Direct] \in Working /\ cur[Direct] = a) =>
       /\ action[a].linked
       /\ \/ request[a] \in {"pending", "expired"}
          \/ pc[a] \in {"policy", "decided", "discard"}
  /\ pc[a] = "discard" => cur[a] = a

\* Before the first crash: the turn that waits has an open action, or a handler
\* that is going to see to it.
AliveInv ==
  crashes = 0 =>
    /\ PrepareInv
    /\ \A a \in Actions : WaitInv(a)
    /\ \A h \in Handlers : pc[h] \notin {"recover", "recovering"}
    /\ \A h \in Handlers \ {Direct} : pc[h] \in Working => ret[h] \in {"continue", "ready"}
    /\ turn = "waiting-approval" =>
         /\ Actions # {}
         /\ (\E a \in Actions : Open(a)) \/ \E h \in Handlers \ {Direct} : Bound(h)

LEMMA StepBoundary ==
  ASSUME Immediate, ~GrantMayChange, Standing, BoundaryInv, [Next]_vars
  PROVE  BoundaryInv'
<1> USE DEF rows, clock, memory, hist, Goto
<1>t. /\ pc \in [Handlers -> Places] /\ copy \in [Handlers -> Rows] /\ action \in [Actions -> Rows]
      /\ snap \in [Handlers -> [Actions -> Rows]] /\ ret \in [Handlers -> Places]
      /\ \A h \in Handlers : pc[h] \in Working => cur[h] \in Actions
      /\ \A h \in Handlers : ret[h] \notin Working
  BY DEF Standing, Known, Typed, TypeOK, Holding
<1>y. Typed /\ ListInv
  BY DEF Standing, Known, CallsInv
<1>c. \A a \in Actions : calls[a] # 0 => calls'[a] # 0
  BY CallsStay DEF Standing, Known
<1>n. Absent.exec = "none"
  BY DEF Absent
<1>1. ASSUME NEW a \in Actions, action'[a].exec = "executing" PROVE calls'[a] # 0
  <2>1. RowMoves(a)
    BY RowsMove
  <2> QED
    BY <1>1, <1>c, <2>1 DEF RowMoves, BoundaryInv
<1>2. ASSUME NEW a \in Actions, snap'[Tick][a].exec = "executing" PROVE calls'[a] # 0
  <2>1. snap'[Tick][a] \in {snap[Tick][a], action[a], Absent}
    <3>r. ASSUME NEW h \in Handlers, NEW c, Return(h, c) PROVE snap'[Tick] = snap[Tick]
      BY <3>r, <1>t, DistinctHandlers DEF Return
    <3>1. ASSUME NEW h \in Handlers, ExecuteStep(h) PROVE snap'[Tick] = snap[Tick]
      BY <3>1, <3>r DEF ExecuteStep, Arm, RefuseUngranted, RefuseUnapproved,
         RefuseNoAdapter, StartPreflight, PreflightRefuses, ClaimAndCall, LoseClaim, Settle,
         Discarded, SaveAndReturn
    <3>2. ASSUME NEW h \in Handlers, ContinueStep(h) PROVE snap' = snap
      BY <3>2, ContinueFrame
    <3>3. ASSUME PrepareStep PROVE snap'[Tick] = snap[Tick]
      BY <3>3, <3>r, <1>t, DistinctHandlers DEF PrepareStep, Reserve, AuthorizeByPolicy,
         RequestApproval, SaveAuthorized, SaveAndReturn, ParkTurn, AnswerDirectly
    <3>4. ASSUME TickStep PROVE snap'[Tick][a] \in {snap[Tick][a], action[a], Absent}
      BY <3>4, <1>t, DistinctHandlers DEF TickStep, TickStart, ExpireNext, ListDue, ExecuteDue,
         TickAborted, TickEnd
    <3>5. ASSUME CrashRestart PROVE snap'[Tick][a] = Absent
      BY <3>5, DistinctHandlers DEF CrashRestart
    <3>6. ASSUME \/ \E b \in Actions : DecisionStep(b)
                 \/ RecoverStep \/ UserStep \/ BecomeDue \/ Lapse \/ UNCHANGED vars
          PROVE  snap' = snap
      BY <3>6 DEF DecisionStep, GrantPolicy, SaveDecision, RecoverStep, Reconcile, RecoverTurn,
         UserStep, Decide, ChangeGrant, RevokePolicy, BecomeDue, Lapse, vars
    <3> QED
      BY <3>1, <3>2, <3>3, <3>4, <3>5, <3>6 DEF Next
  <2> QED
    BY <1>2, <1>c, <1>n, <2>1 DEF BoundaryInv
<1>3. ASSUME NEW h \in Handlers, pc'[h] = "discard" PROVE copy'[h].exec # "executing"
  <2>s. ASSUME NEW g \in Handlers, Others(g), pc'[g] = "discard" => copy'[g].exec # "executing"
        PROVE  copy'[h].exec # "executing"
    BY <1>3, <2>s DEF Others, BoundaryInv
  <2>1. ASSUME NEW b \in Actions, NEW d \in {"approved", "rejected"}, NEW p \in BOOLEAN,
               Decide(b, d, p)
        PROVE  copy'[h].exec # "executing"
    <3>0. b \in Handlers
      BY DistinctHandlers
    <3>1. Others(b)
      BY <1>y, <2>1, <3>0, OthersRest
    <3>2. pc'[b] = "discard" =>
            copy'[b] = [action[b] EXCEPT !.status = "rejected", !.exec = "settled"]
      BY <1>t, <2>1, <3>0 DEF Decide
    <3>3. [action[b] EXCEPT !.status = "rejected", !.exec = "settled"].exec = "settled"
      BY <1>t DEF Rows
    <3> QED
      BY <2>s, <3>0, <3>1, <3>2, <3>3
  <2>2. ASSUME TickStep PROVE copy'[h].exec # "executing"
    <3>0. Tick \in Handlers
      BY DistinctHandlers
    <3>1. Others(Tick)
      BY <1>y, <2>2, <3>0, OthersRest DEF HandlerStep
    <3>2. ASSUME NEW a \in Actions, ExpireNext(a), pc'[Tick] = "discard"
          PROVE  copy'[Tick].exec # "executing"
      <4>1. /\ request[a] = "expired"
            /\ copy'[Tick] = [snap[Tick][a] EXCEPT !.status = "rejected"]
        BY <1>t, <3>0, <3>2 DEF ExpireNext
      <4>2. calls[a] = 0
        BY <4>1 DEF Standing, Known, CallInv, Unrefused
      <4>3. snap[Tick][a].exec # "executing"
        BY <4>2 DEF BoundaryInv
      <4>4. [snap[Tick][a] EXCEPT !.status = "rejected"].exec = snap[Tick][a].exec
        BY <1>t, <3>0 DEF Rows
      <4> QED
        BY <4>1, <4>3, <4>4
    <3>3. \A a \in Actions : ~ExecuteDue(a)
      BY <1>y DEF ExecuteDue, ListInv
    <3>4. (\E a \in Actions : ExpireNext(a)) \/ pc'[Tick] # "discard"
      BY <1>t, <2>2, <3>0, <3>3 DEF TickStep, TickStart, ListDue, TickAborted, TickEnd
    <3> QED
      BY <2>s, <3>0, <3>1, <3>2, <3>4
  <2>3. ASSUME NEW g \in Handlers, ExecuteStep(g) PROVE copy'[h].exec # "executing"
    <3>1. Others(g)
      BY <1>y, <2>3, OthersRest DEF HandlerStep
    <3>2. ~RefuseUngranted(g)
      BY <1>y DEF RefuseUngranted, ListInv
    <3>3. pc'[g] # "discard"
      BY <1>t, <2>3, <3>2 DEF ExecuteStep, Arm, RefuseUnapproved, RefuseNoAdapter,
         StartPreflight, PreflightRefuses, ClaimAndCall, LoseClaim, Settle, Discarded,
         SaveAndReturn, Return, Working
    <3> QED
      BY <2>s, <3>1, <3>3
  <2>4. ASSUME NEW g \in Handlers, ContinueStep(g) PROVE copy'[h].exec # "executing"
    <3>1. Others(g) /\ pc'[g] # "discard"
      BY <1>y, <2>4, OthersRest, ContinueMoves DEF HandlerStep
    <3> QED
      BY <2>s, <3>1
  <2>5. ASSUME PrepareStep PROVE copy'[h].exec # "executing"
    <3>1. Direct \in Handlers /\ Others(Direct)
      BY <1>y, <2>5, DistinctHandlers, OthersRest DEF HandlerStep
    <3>r. ASSUME NEW c, Return(Direct, c) PROVE pc'[Direct] # "discard"
      BY <1>t, <3>1, <3>r DEF Return, Working
    <3>2. pc'[Direct] # "discard"
      BY <1>t, <2>5, <3>1, <3>r DEF PrepareStep, Reserve, AuthorizeByPolicy, RequestApproval,
         SaveAuthorized, SaveAndReturn, ParkTurn, AnswerDirectly
    <3> QED
      BY <2>s, <3>1, <3>2
  <2>6. ASSUME NEW b \in Actions, DecisionStep(b) PROVE copy'[h].exec # "executing"
    <3>1. b \in Handlers /\ Others(b)
      BY <1>y, <2>6, DistinctHandlers, OthersRest DEF HandlerStep
    <3>2. pc'[b] # "discard"
      BY <1>t, <2>6, <3>1 DEF DecisionStep, GrantPolicy, SaveDecision
    <3> QED
      BY <2>s, <3>1, <3>2
  <2>7. ASSUME RecoverStep PROVE copy'[h].exec # "executing"
    <3>1. Recover \in Handlers /\ Others(Recover)
      BY <1>y, <2>7, DistinctHandlers, OthersRest DEF HandlerStep
    <3>2. pc'[Recover] # "discard"
      BY <1>t, <2>7, <3>1 DEF RecoverStep, Reconcile, RecoverTurn
    <3> QED
      BY <2>s, <3>1, <3>2
  <2>8. ASSUME ChangeGrant \/ BecomeDue \/ Lapse \/ (\E a \in Actions : RevokePolicy(a)) \/ UNCHANGED vars
        PROVE  copy'[h].exec # "executing"
    BY <1>3, <2>8 DEF ChangeGrant, BecomeDue, Lapse, RevokePolicy, vars, BoundaryInv
  <2>9. ~CrashRestart
    BY <1>3 DEF CrashRestart
  <2> QED
    BY <2>1, <2>2, <2>3, <2>4, <2>5, <2>6, <2>7, <2>8, <2>9 DEF Next, UserStep
<1> QED
  BY <1>1, <1>2, <1>3 DEF BoundaryInv

\* Nobody else does anything while direct() prepares.
LEMMA OnlyPrepares ==
  ASSUME Standing, PrepareInv, pc[Direct] \notin {"idle", "answer"}, Next
  PROVE  PrepareStep \/ CrashRestart
<1>1. /\ pc[Direct] \in {"prepare", "authorize", "authorized"}
      /\ \A g \in Handlers \ {Direct} : pc[g] = "idle"
  BY DEF PrepareInv
<1>2. ~Quiet
  BY <1>1, DistinctHandlers DEF Quiet, Awaits
<1>3. ~UserStep /\ ~BecomeDue /\ ~Lapse
  BY <1>2 DEF UserStep, Decide, ChangeGrant, RevokePolicy, BecomeDue, Lapse
<1>4. \A h \in Handlers : ~ExecuteStep(h) /\ ~ContinueStep(h)
  <2> SUFFICES ASSUME NEW h \in Handlers PROVE ~ExecuteStep(h) /\ ~ContinueStep(h)
    OBVIOUS
  <2>1. pc[h] \in {"idle", "prepare", "authorize", "authorized"}
    BY <1>1
  <2>2. ~ExecuteStep(h)
    BY <2>1 DEF ExecuteStep, Arm, RefuseUngranted, RefuseUnapproved, RefuseNoAdapter,
       StartPreflight, PreflightRefuses, ClaimAndCall, LoseClaim, Settle, Discarded
  <2>3. ~ContinueStep(h)
    BY <2>1 DEF ContinueStep, NotReady, CollectReady, ExecuteReady, NotResumed, Resume, Answered
  <2> QED
    BY <2>2, <2>3
<1>5. ~TickStep
  <2>1. pc[Tick] = "idle"
    BY <1>1, DistinctHandlers
  <2> QED
    BY <1>2, <2>1 DEF TickStep, TickStart, ExpireNext, ListDue, ExecuteDue, TickAborted, TickEnd
<1>6. ~RecoverStep /\ \A a \in Actions : ~DecisionStep(a)
  <2>1. pc[Recover] = "idle" /\ \A a \in Actions : pc[a] = "idle"
    BY <1>1, DistinctHandlers
  <2> QED
    BY <2>1 DEF RecoverStep, Reconcile, RecoverTurn, DecisionStep, GrantPolicy, SaveDecision
<1> QED
  BY <1>3, <1>4, <1>5, <1>6 DEF Next

LEMMA StepPreparing ==
  ASSUME Immediate, ~GrantMayChange, Standing, AliveInv, crashes = 0,
         pc[Direct] \notin {"idle", "answer"}, PrepareStep
  PROVE  AliveInv'
<1> USE DEF rows, clock, memory, hist, Goto
<1>t. /\ pc \in [Handlers -> Places] /\ cur \in [Handlers -> Actions \cup {NoAction}]
      /\ copy \in [Handlers -> Rows] /\ action \in [Actions -> Rows]
      /\ snap \in [Handlers -> [Actions -> Rows]] /\ ret \in [Handlers -> Places]
      /\ request \in [Actions -> {"absent", "pending", "approved", "rejected", "expired"}]
      /\ \A h \in Handlers : pc[h] \in Working => cur[h] \in Actions
  BY DEF Standing, Known, Typed, TypeOK, Holding
<1>d. Direct \in Handlers /\ Direct \notin Actions /\ Actions \subseteq Handlers
  BY DistinctHandlers
<1>i. /\ policies = {} /\ pc[Direct] \in {"prepare", "authorize", "authorized"}
      /\ \A g \in Handlers \ {Direct} : pc[g] = "idle"
      /\ pc[Direct] # "prepare" => copy[Direct].status = "waiting-for-approval"
      /\ pc[Direct] = "authorized" => copy[Direct].linked /\ request[cur[Direct]] = "pending"
      /\ \A a \in Actions : snap[Direct][a].status = "waiting-for-approval" => Open(a)
      /\ \A a \in Actions : WaitInv(a)
      /\ turn = "running" /\ DirectInv
  BY DEF AliveInv, PrepareInv, Standing, StandInv, AnswerInv
<1>o. \A g \in Handlers \ {Direct} : pc'[g] = "idle"
  BY <1>i, <1>d, OthersRest DEF Others, HandlerStep, Standing, Known
<1>w. \A a \in Actions : pc[a] = "idle" /\ pc'[a] = "idle"
  BY <1>d, <1>i, <1>o
\* What has to be shown of a step
<1>0. ASSUME PrepareInv',
             \A a \in Actions :
               action'[a].status = "waiting-for-approval" /\ ~(pc'[Direct] \in Working /\ cur'[Direct] = a)
                 => action'[a].linked /\ request'[a] \in {"pending", "expired"},
             pc'[Direct] \notin {"recover", "recovering"},
             turn' = "waiting-approval" => \E a \in Actions : Open(a)'
      PROVE  AliveInv'
  <2>1. \A a \in Actions : WaitInv(a)'
    BY <1>0, <1>w DEF WaitInv
  <2>2. \A h \in Handlers : pc'[h] \notin {"recover", "recovering"}
    BY <1>0, <1>o
  <2>3. \A h \in Handlers \ {Direct} : pc'[h] \notin Working
    BY <1>o DEF Working
  <2> QED
    BY <1>0, <2>1, <2>2, <2>3 DEF AliveInv
\* What waits already
<1>k. \A a \in Actions :
        action[a].status = "waiting-for-approval" /\ ~(pc[Direct] \in Working /\ cur[Direct] = a)
          => action[a].linked /\ request[a] \in {"pending", "expired"}
  BY <1>i, <1>w DEF WaitInv
<1>1. ASSUME NEW a \in Actions, Reserve(a) PROVE AliveInv'
  <2>1. /\ pc[Direct] = "prepare" /\ pc'[Direct] = "authorize" /\ cur'[Direct] = a
        /\ copy'[Direct] = Reserved /\ action[a] = Absent
        /\ \A b \in Actions : b # a => action'[b] = action[b]
        /\ UNCHANGED <<request, policies, turn, snap>>
    BY <1>1, <1>d, <1>t DEF Reserve, Standing, Known, FreshInv
  <2>2. Reserved.status = "waiting-for-approval" /\ Absent.status = "absent"
    BY DEF Reserved, Absent
  <2>3. \A b \in Actions : snap'[Direct][b].status = "waiting-for-approval" => Open(b)'
    BY <1>i, <2>1, <2>2 DEF Open
  <2>4. PrepareInv'
    BY <1>i, <1>o, <2>1, <2>2, <2>3 DEF PrepareInv
  <2>5. pc[Direct] \notin Working /\ pc'[Direct] \in Working
    BY <2>1 DEF Working
  <2> QED
    BY <1>0, <1>i, <1>k, <2>1, <2>4, <2>5
<1>2. ~AuthorizeByPolicy
  BY <1>i DEF AuthorizeByPolicy, Matching
<1>3. ASSUME RequestApproval PROVE AliveInv'
  <2>0. PICK a \in Actions : a = cur[Direct]
    BY <1>3, <1>d, <1>t DEF RequestApproval, Working
  <2>1. /\ pc[Direct] = "authorize" /\ pc'[Direct] = "authorized"
        /\ request' = [request EXCEPT ![a] = "pending"]
        /\ copy'[Direct].linked /\ copy'[Direct].status = copy[Direct].status
        /\ UNCHANGED <<action, cur, policies, turn, snap>>
    BY <1>3, <1>d, <1>t, <2>0 DEF RequestApproval, Rows
  <2>2. \A b \in Actions : request'[b] \in {request[b], "pending"}
    BY <1>t, <2>1
  <2>3. \A b \in Actions : snap'[Direct][b].status = "waiting-for-approval" => Open(b)'
    BY <1>i, <2>1, <2>2 DEF Open
  <2>4. request'[cur'[Direct]] = "pending"
    BY <1>t, <2>0, <2>1
  <2>5. PrepareInv'
    BY <1>i, <1>o, <2>1, <2>3, <2>4 DEF PrepareInv
  <2>6. pc[Direct] \in Working /\ pc'[Direct] \in Working
    BY <2>1 DEF Working
  <2> QED
    BY <1>0, <1>i, <1>k, <2>1, <2>2, <2>5, <2>6
<1>4. ASSUME SaveAuthorized PROVE AliveInv'
  <2>0. PICK a \in Actions : a = cur[Direct]
    BY <1>4, <1>d, <1>t DEF SaveAuthorized, Working
  <2>1. /\ pc[Direct] = "authorized" /\ copy[Direct].status = "waiting-for-approval"
        /\ copy[Direct].linked /\ request[a] = "pending" /\ ret[Direct] = "prepare"
    BY <1>4, <1>i, <2>0 DEF SaveAuthorized, DirectInv, Working
  <2>2. SaveAndReturn(Direct, copy[Direct]) /\ UNCHANGED <<request, policies, turn>>
    BY <1>4, <2>1 DEF SaveAuthorized
  <2>3. /\ action' = [action EXCEPT ![a] = copy[Direct]] /\ pc'[Direct] = "prepare"
        /\ \A b \in Actions : b # a => snap'[Direct][b] = snap[Direct][b]
    BY <1>d, <1>t, <2>0, <2>1, <2>2 DEF SaveAndReturn, Save, Return
  <2>4. action'[a] = copy[Direct] /\ \A b \in Actions : b # a => action'[b] = action[b]
    BY <1>t, <2>3
  <2>5. \A b \in Actions : snap'[Direct][b].status = "waiting-for-approval" => Open(b)'
    BY <1>i, <2>1, <2>2, <2>3, <2>4 DEF Open
  <2>6. PrepareInv'
    BY <1>i, <1>o, <2>2, <2>3, <2>5 DEF PrepareInv
  <2> QED
    BY <1>0, <1>i, <1>k, <2>0, <2>1, <2>2, <2>3, <2>4, <2>6
<1>5. ASSUME ParkTurn PROVE AliveInv'
  <2>1. /\ pc[Direct] = "prepare" /\ pc'[Direct] = "idle"
        /\ UNCHANGED <<action, request>>
        /\ \E a \in Actions : snap[Direct][a].status = "waiting-for-approval"
    BY <1>5, <1>d, <1>t DEF ParkTurn
  <2>2. \E a \in Actions : Open(a)'
    BY <1>i, <2>1 DEF Open
  <2>3. PrepareInv'
    BY <2>1 DEF PrepareInv
  <2>4. pc[Direct] \notin Working
    BY <2>1 DEF Working
  <2> QED
    BY <1>0, <1>k, <2>1, <2>2, <2>3, <2>4
<1>6. ASSUME AnswerDirectly PROVE AliveInv'
  <2>1. /\ pc[Direct] = "prepare" /\ pc'[Direct] = "answer"
        /\ UNCHANGED <<action, request, turn>>
    BY <1>6, <1>d, <1>t DEF AnswerDirectly
  <2>2. PrepareInv'
    BY <2>1 DEF PrepareInv
  <2>3. pc[Direct] \notin Working
    BY <2>1 DEF Working
  <2> QED
    BY <1>0, <1>i, <1>k, <2>1, <2>2, <2>3
<1> QED
  BY <1>1, <1>2, <1>3, <1>4, <1>5, <1>6 DEF PrepareStep

\* No step is mistaken for one of another kind: what h does next is bound to
\* the turn, when it works on an action that it took up for the turn.
LEMMA StaysBound ==
  ASSUME Typed, NEW h \in Handlers, ret[h] \in {"continue", "ready"},
         ExecuteStep(h) \/ (h \in Actions /\ DecisionStep(h))
  PROVE  Bound(h)'
<1>t. pc \in [Handlers -> Places]
  BY DEF Typed, TypeOK
<1>1. CASE ExecuteStep(h)
  <2>1. ret' = ret /\ pc'[h] \in {ret[h], "execute", "discard", "preflight", "calling"}
    BY <1>1, ExecuteFrame, ExecuteMoves
  <2> QED
    BY <2>1 DEF Bound, Working
<1>2. CASE h \in Actions /\ DecisionStep(h)
  <2>1. ret' = ret /\ pc'[h] \in {"decided", "arm"}
    BY <1>2, <1>t DEF DecisionStep, GrantPolicy, SaveDecision, Goto, memory
  <2> QED
    BY <2>1 DEF Bound, Working
<1> QED
  BY <1>1, <1>2

\* Without direct() at work, each step is one of these.
Steps(h) ==
  \/ h \in Actions /\ DecisionStep(h)
  \/ h = Tick /\ TickStep
  \/ ExecuteStep(h)
  \/ ContinueStep(h)
  \/ h \in Actions /\ \E d \in {"approved", "rejected"}, p \in BOOLEAN : Decide(h, d, p)

LEMMA ParkedSteps ==
  ASSUME ~GrantMayChange, Standing, AliveInv, crashes = 0, crashes' = 0,
         pc[Direct] \in {"idle", "answer"}, [Next]_vars
  PROVE  \/ UNCHANGED <<action, request, turn, pc, cur, ret, copy, crashes, calls>>
         \/ \E h \in Handlers \ {Direct} : Steps(h) /\ Others(h)
         \/ /\ turn' # "waiting-approval" /\ pc'[Direct] = "idle" /\ Others(Direct)
            /\ ContinueStep(Direct)
<1> USE DEF rows, clock, memory, hist
<1>t. pc \in [Handlers -> Places] /\ Typed /\ Recover \in Handlers /\ Direct \in Handlers
  BY DistinctHandlers DEF Standing, Known, Typed, TypeOK
<1>1. ~PrepareStep
  BY DEF PrepareStep, Reserve, AuthorizeByPolicy, RequestApproval, SaveAuthorized, ParkTurn,
     AnswerDirectly
<1>2. ~RecoverStep
  BY <1>t DEF RecoverStep, Reconcile, RecoverTurn, AliveInv
<1>3. ~CrashRestart
  BY DEF CrashRestart
<1>4. ASSUME ChangeGrant \/ BecomeDue \/ Lapse \/ (\E a \in Actions : RevokePolicy(a)) \/ UNCHANGED vars
      PROVE  UNCHANGED <<action, request, turn, pc, cur, ret, copy, crashes, calls>>
  BY <1>4 DEF ChangeGrant, BecomeDue, Lapse, RevokePolicy, vars
<1>5. ASSUME NEW h \in Handlers, Steps(h) PROVE Others(h)
  BY <1>5, <1>t, OthersRest DEF Steps, HandlerStep
<1>6. ~ExecuteStep(Direct)
  BY DEF ExecuteStep, Arm, RefuseUngranted, RefuseUnapproved, RefuseNoAdapter,
     StartPreflight, PreflightRefuses, ClaimAndCall, LoseClaim, Settle, Discarded
<1>7. ASSUME ContinueStep(Direct) PROVE turn' # "waiting-approval" /\ pc'[Direct] = "idle"
  BY <1>7, <1>t, DistinctHandlers DEF ContinueStep, NotReady, CollectReady, ExecuteReady,
     NotResumed, Resume, Answered, Leave, Back, Goto
<1>8. ASSUME NEW h \in Handlers \ {Direct}, Steps(h)
      PROVE  \E g \in Handlers \ {Direct} : Steps(g) /\ Others(g)
  BY <1>5, <1>8
<1>9. ASSUME ContinueStep(Direct) PROVE Others(Direct)
  BY <1>5, <1>9, <1>t DEF Steps
<1>10. ASSUME \/ \E a \in Actions : DecisionStep(a)
              \/ TickStep
              \/ \E h \in Handlers \ {Direct} : ExecuteStep(h) \/ ContinueStep(h)
              \/ \E a \in Actions, d \in {"approved", "rejected"}, p \in BOOLEAN : Decide(a, d, p)
       PROVE  \E g \in Handlers \ {Direct} : Steps(g)
  BY <1>10, DistinctHandlers DEF Steps
<1> QED
  BY <1>1, <1>2, <1>3, <1>4, <1>6, <1>7, <1>8, <1>9, <1>10 DEF Next, UserStep

\* One step of a handler other than direct()
LEMMA StepParked ==
  ASSUME Immediate, ~GrantMayChange, Standing, BoundaryInv, AliveInv, crashes = 0,
         pc[Direct] \in {"idle", "answer"}, [Next]_vars,
         NEW h \in Handlers \ {Direct}, Steps(h), Others(h)
  PROVE  AliveInv'
<1> USE DEF rows, clock, memory, hist, Goto
<1>t. /\ pc \in [Handlers -> Places] /\ cur \in [Handlers -> Actions \cup {NoAction}]
      /\ copy \in [Handlers -> Rows] /\ action \in [Actions -> Rows]
      /\ ret \in [Handlers -> Places]
      /\ request \in [Actions -> {"absent", "pending", "approved", "rejected", "expired"}]
      /\ Typed
  BY DEF Standing, Known, Typed, TypeOK
<1>d. /\ Direct \in Handlers /\ Tick \in Handlers /\ Recover \in Handlers
      /\ Actions \subseteq Handlers /\ Direct \notin Actions /\ Tick \notin Actions
      /\ Direct # Tick /\ Direct # Recover
  BY DistinctHandlers
<1>i. /\ \A a \in Actions : WaitInv(a) /\ RowMoves(a)
      /\ \A g \in Handlers : pc[g] \notin {"recover", "recovering"}
      /\ \A g \in Handlers \ {Direct} : pc[g] \in Working => ret[g] \in {"continue", "ready"}
      /\ turn = "waiting-approval" =>
           /\ pc[Direct] = "idle" /\ Actions # {}
           /\ (\E a \in Actions : Open(a)) \/ \E g \in Handlers \ {Direct} : Bound(g)
      /\ ListInv
  BY RowsMove DEF AliveInv, Standing, Known, CallsInv, AnswerInv
<1>o. \A g \in Handlers \ {h} : pc'[g] = pc[g] /\ cur'[g] = cur[g] /\ ret'[g] = ret[g]
  BY DEF Others
<1>p. PrepareInv' /\ pc'[Direct] = pc[Direct] /\ pc'[Direct] \notin Working /\ pc[Direct] \notin Working
  BY <1>o, <1>d DEF PrepareInv, Working
<1>n. ~(\E a \in Actions : ExecuteDue(a))
  BY <1>i DEF ExecuteDue, ListInv
\* What the steps of each kind do
<1>dec. ASSUME NEW d \in {"approved", "rejected"}, NEW p \in BOOLEAN, h \in Actions, Decide(h, d, p)
        PROVE  /\ action' = action /\ turn' = turn
               /\ pc[h] = "idle" /\ pc'[h] \in {"policy", "decided", "discard"}
               /\ cur'[h] = h /\ ret'[h] = "continue"
               /\ \A a \in Actions : a # h => request'[a] = request[a]
  BY <1>dec, <1>t, <1>d DEF Decide
<1>tic. ASSUME h = Tick, TickStep
        PROVE  /\ action' = action /\ turn' \in {turn, "failed"}
               /\ \A a \in Actions : request'[a] = request[a] \/ request'[a] = "expired"
               /\ pc[h] \in {"idle", "expired", "due", "answer"}
               /\ pc[h] = "answer" => turn' = "failed"
               /\ pc'[h] \in {"idle", "expired", "due", "discard"}
               /\ pc'[h] = "discard" => ret'[h] = "continue"
  BY <1>tic, <1>t, <1>d, <1>n DEF TickStep, TickStart, ExpireNext, ListDue, TickAborted, TickEnd
<1>exe. ASSUME ExecuteStep(h)
        PROVE  /\ UNCHANGED <<request, turn, ret>> /\ ret[h] \in {"continue", "ready"}
               /\ pc'[h] \in {ret[h], "execute", "discard", "preflight", "calling"}
  <2>1. pc[h] \in Working
    BY <1>exe DEF ExecuteStep, Arm, RefuseUngranted, RefuseUnapproved, RefuseNoAdapter,
       StartPreflight, PreflightRefuses, ClaimAndCall, LoseClaim, Settle, Discarded, Working
  <2> QED
    BY <1>exe, <1>i, <1>t, <2>1, ExecuteFrame, ExecuteMoves
<1>des. ASSUME h \in Actions, DecisionStep(h)
        PROVE  /\ UNCHANGED <<request, turn, ret, cur>> /\ ret[h] \in {"continue", "ready"}
               /\ pc[h] \in {"policy", "decided"} /\ pc'[h] \in {"decided", "arm"}
  BY <1>des, <1>i, <1>t, <1>d DEF DecisionStep, GrantPolicy, SaveDecision, Working
<1>con. ASSUME ContinueStep(h)
        PROVE  /\ UNCHANGED <<action, request>>
               /\ pc[h] \in {"continue", "ready", "answer"}
               /\ pc'[h] \in {"idle", "expired", "ready", "execute", "answer"}
               /\ pc'[h] = "execute" => ret'[h] = "ready"
  <2>1. /\ pc[h] \in {"continue", "ready", "recovering", "answer"}
        /\ pc'[h] = "execute" => ret'[h] = pc[h] /\ pc[h] \in {"ready", "recovering"}
    BY <1>con, <1>t DEF ContinueStep, NotReady, CollectReady, ExecuteReady, NotResumed, Resume,
       Answered, Leave, Back
  <2> QED
    BY <1>con, <1>i, <1>t, <2>1, ContinueFrame, ContinueMoves
<1>k. \/ h \in Actions /\ DecisionStep(h)
      \/ h = Tick /\ TickStep
      \/ ExecuteStep(h)
      \/ ContinueStep(h)
      \/ h \in Actions /\ \E d \in {"approved", "rejected"}, p \in BOOLEAN : Decide(h, d, p)
  BY DEF Steps
<1>1. \A a \in Actions : WaitInv(a)'
  <2> SUFFICES ASSUME NEW a \in Actions PROVE WaitInv(a)'
    OBVIOUS
  <2>1. action'[a].status = "waiting-for-approval" => action'[a] = action[a]
    BY <1>i, <1>p DEF RowMoves
  <2>2. \/ request[a] \in {"pending", "expired"} => request'[a] \in {"pending", "expired"}
        \/ h = a /\ pc'[a] \in {"policy", "decided", "discard"}
    BY <1>dec, <1>tic, <1>exe, <1>des, <1>con, <1>k
  <2>3. ASSUME pc[a] \in {"policy", "decided", "discard"},
               pc'[a] \notin {"policy", "decided", "discard"}
        PROVE  action'[a].status # "waiting-for-approval"
    <3>1. h = a
      BY <1>d, <1>o, <2>3
    <3>2. SaveDecision(a) \/ Discarded(a)
      <4>1. ~(h = Tick) /\ ~ContinueStep(h)
            /\ ~(\E d \in {"approved", "rejected"}, p \in BOOLEAN : Decide(h, d, p))
        BY <1>con, <1>d, <2>3, <3>1 DEF Decide
      <4>2. ASSUME DecisionStep(a) PROVE SaveDecision(a)
        BY <1>d, <1>t, <2>3, <4>2 DEF DecisionStep, GrantPolicy
      <4>3. ASSUME ExecuteStep(a) PROVE Discarded(a)
        BY <2>3, <4>3 DEF ExecuteStep, Arm, RefuseUngranted, RefuseUnapproved, RefuseNoAdapter,
           StartPreflight, PreflightRefuses, ClaimAndCall, LoseClaim, Settle
      <4> QED
        BY <1>k, <3>1, <4>1, <4>2, <4>3
    <3>3. CASE SaveDecision(a)
      <4>1. cur[a] = a
        BY <3>3 DEF SaveDecision, Standing, Known, CallsInv
      <4>2. action'[a] = [copy[a] EXCEPT !.status = "waiting-for-integration"]
        BY <1>t, <3>3, <4>1 DEF SaveDecision, Save, Immediate
      <4>3. [copy[a] EXCEPT !.status = "waiting-for-integration"].status = "waiting-for-integration"
        BY <1>d, <1>t DEF Rows
      <4> QED
        BY <4>2, <4>3
    <3>4. CASE Discarded(a)
      <4>1. cur[a] = a /\ copy[a].status = "rejected"
        BY <1>d, <1>i, <3>4 DEF Discarded, WaitInv, Standing, RecordInv, HoldInv
      <4>2. action'[a] = copy[a]
        BY <1>t, <3>4, <4>1 DEF Discarded, SaveAndReturn, Save
      <4> QED
        BY <4>1, <4>2
    <3> QED
      BY <3>2, <3>3, <3>4
  <2>4. pc'[a] = "discard" => cur'[a] = a
    <3>1. CASE h # a
      BY <1>d, <1>i, <1>o, <3>1 DEF WaitInv
    <3>2. CASE h = a /\ ExecuteStep(h)
      <4>1. pc'[h] # "discard"
        <5>1. ~RefuseUngranted(h)
          BY <1>i DEF RefuseUngranted, ListInv
        <5>2. ret[h] # "discard"
          BY <1>exe, <3>2
        <5> QED
          BY <1>t, <3>2, <5>1, <5>2 DEF ExecuteStep, Arm, RefuseUnapproved, RefuseNoAdapter,
             StartPreflight, PreflightRefuses, ClaimAndCall, LoseClaim, Settle, Discarded,
             SaveAndReturn, Return
      <4> QED
        BY <3>2, <4>1
    <3>3. CASE h = a /\ ~ExecuteStep(h)
      BY <1>con, <1>d, <1>dec, <1>des, <1>k, <3>3
    <3> QED
      BY <3>1, <3>2, <3>3
  <2>5. (action[a].status = "waiting-for-approval" =>
           /\ action[a].linked
           /\ request[a] \in {"pending", "expired"} \/ pc[a] \in {"policy", "decided", "discard"})
    BY <1>i, <1>p DEF WaitInv
  <2> QED
    BY <2>1, <2>2, <2>3, <2>4, <2>5 DEF WaitInv
<1>2. \A g \in Handlers : pc'[g] \notin {"recover", "recovering"}
  <2>1. pc'[h] \notin {"recover", "recovering"}
    BY <1>dec, <1>tic, <1>exe, <1>des, <1>con, <1>k
  <2> QED
    BY <1>i, <1>o, <2>1
<1>3. \A g \in Handlers \ {Direct} : pc'[g] \in Working => ret'[g] \in {"continue", "ready"}
  <2>1. pc'[h] \in Working => ret'[h] \in {"continue", "ready"}
    BY <1>dec, <1>tic, <1>exe, <1>des, <1>con, <1>k DEF Working
  <2> QED
    BY <1>i, <1>o, <2>1
<1>4. ASSUME turn' = "waiting-approval"
      PROVE  /\ Actions # {}
             /\ (\E a \in Actions : Open(a)') \/ \E g \in Handlers \ {Direct} : Bound(g)'
  <2>0. turn = "waiting-approval" /\ pc[Direct] = "idle" /\ Actions # {}
    <3>1. ~ParkTurn
      BY DEF ParkTurn
    <3> QED
      BY <1>4, <1>i, <3>1, OnlyTheseAnswer
  <2>b. ASSUME NEW g \in Handlers \ {Direct}, g # h, Bound(g) PROVE Bound(g)'
    BY <1>o, <2>b DEF Bound
  <2>1. CASE ExecuteStep(h) \/ (h \in Actions /\ DecisionStep(h))
    BY <1>exe, <1>des, <1>t, <2>0, <2>1, StaysBound
  <2>2. CASE h \in Actions /\ \E d \in {"approved", "rejected"}, p \in BOOLEAN : Decide(h, d, p)
    <3>1. Bound(h)'
      BY <1>dec, <2>2 DEF Bound, Working
    <3> QED
      BY <2>0, <3>1
  <2>3. CASE h = Tick /\ TickStep
    <3>1. ~Bound(h)
      BY <1>tic, <2>3 DEF Bound, Working
    <3>2. ASSUME NEW a \in Actions, Open(a) PROVE Open(a)'
      BY <1>tic, <2>3, <3>2 DEF Open
    <3> QED
      BY <1>i, <2>0, <2>b, <3>1, <3>2
  <2>4. CASE ContinueStep(h)
    <3>1. ASSUME NEW a \in Actions, Open(a) PROVE Open(a)'
      BY <1>con, <2>4, <3>1 DEF Open
    <3>2. CASE CollectReady(h) \/ \E a \in Actions : ExecuteReady(h, a)
      <4>1. pc'[h] = "ready" \/ (pc'[h] = "execute" /\ ret'[h] = "ready")
        BY <1>con, <1>t, <3>2 DEF CollectReady, ExecuteReady, ContinueStep
      <4>2. Bound(h)'
        BY <4>1 DEF Bound, Working
      <4> QED
        BY <2>0, <4>2
    <3>3. CASE NotReady(h)
      <4>1. PICK a \in Actions : action[a].status = "waiting-for-approval"
        <5>1. PICK b \in Actions : TRUE
          BY <2>0
        <5>2. action[b].status # "absent"
          BY <2>0 DEF Standing, StandInv, StandRow
        <5> QED
          BY <2>0, <3>3, <5>2 DEF NotReady, NoActions, Undecided
      <4>2. CASE request[a] \in {"pending", "expired"}
        <5>1. Open(a)
          BY <1>i, <1>p, <4>1, <4>2 DEF Open, WaitInv
        <5> QED
          BY <2>0, <3>1, <5>1
      <4>3. CASE pc[a] \in {"policy", "decided", "discard"}
        <5>1. a # h /\ a \in Handlers \ {Direct}
          BY <1>d, <3>3, <4>3 DEF NotReady
        <5>2. Bound(a)
          BY <1>i, <4>3, <5>1 DEF Bound, Working
        <5> QED
          BY <2>0, <2>b, <5>1, <5>2
      <4> QED
        BY <1>i, <1>p, <4>1, <4>2, <4>3 DEF WaitInv
    <3>4. CASE NotResumed(h)
      <4>1. PICK a \in Actions : action[a].exec = "executing"
        BY <2>0, <3>4 DEF NotResumed, MayResume, Executing
      <4>2. PICK g \in Handlers : pc[g] = "calling"
        BY <4>1 DEF BoundaryInv, Standing, RecordInv, OpenInv
      <4>3. g # h /\ g # Direct
        BY <2>0, <3>4, <4>2 DEF NotResumed
      <4>4. Bound(g)
        BY <1>i, <4>2, <4>3 DEF Bound, Working
      <4> QED
        BY <2>0, <2>b, <4>3, <4>4
    <3>5. ~Resume(h)
      BY <1>4 DEF Resume
    <3>6. \A r \in {"completed", "failed"} : ~Answered(h, r)
      BY <2>0 DEF Answered
    <3> QED
      BY <2>4, <3>2, <3>3, <3>4, <3>5, <3>6 DEF ContinueStep
  <2> QED
    BY <1>k, <2>1, <2>2, <2>3, <2>4
<1> QED
  BY <1>1, <1>2, <1>3, <1>4, <1>p DEF AliveInv

LEMMA StepAlive ==
  ASSUME Immediate, ~GrantMayChange, Standing, BoundaryInv, AliveInv, [Next]_vars
  PROVE  AliveInv'
<1> SUFFICES ASSUME crashes' = 0 PROVE AliveInv'
  BY DEF AliveInv
<1>1. crashes = 0 /\ ~CrashRestart
  <2>1. crashes \in Nat
    BY GateAssumption DEF Standing, Known, Typed, TypeOK
  <2>2. ~CrashRestart
    <3>1. CrashRestart => crashes' = crashes + 1
      BY DEF CrashRestart
    <3> QED
      BY <2>1, <3>1
  <2>3. crashes' = crashes
    <3> USE DEF rows, clock, memory, hist
    <3>1. ASSUME NEW h \in Handlers, ExecuteStep(h) \/ ContinueStep(h) PROVE crashes' = crashes
      BY <3>1 DEF ExecuteStep, Arm, RefuseUngranted, RefuseUnapproved, RefuseNoAdapter,
         StartPreflight, PreflightRefuses, ClaimAndCall, LoseClaim, Settle, Discarded,
         ContinueStep, NotReady, CollectReady, ExecuteReady, NotResumed, Resume, Answered
    <3>2. ASSUME PrepareStep \/ TickStep PROVE crashes' = crashes
      BY <3>2 DEF PrepareStep, Reserve, AuthorizeByPolicy, RequestApproval, SaveAuthorized,
         ParkTurn, AnswerDirectly, TickStep, TickStart, ExpireNext, ListDue, ExecuteDue,
         TickAborted, TickEnd
    <3>3. ASSUME \/ \E a \in Actions : DecisionStep(a)
                 \/ RecoverStep \/ UserStep \/ BecomeDue \/ Lapse \/ UNCHANGED vars
          PROVE  crashes' = crashes
      BY <3>3 DEF DecisionStep, GrantPolicy, SaveDecision, RecoverStep, Reconcile, RecoverTurn,
         UserStep, Decide, ChangeGrant, RevokePolicy, BecomeDue, Lapse, vars
    <3> QED
      BY <2>2, <3>1, <3>2, <3>3 DEF Next
  <2> QED
    BY <2>2, <2>3
<1>i. pc[Direct] \in {"idle", "prepare", "authorize", "authorized", "answer"}
  BY <1>1 DEF AliveInv, PrepareInv
<1>2. CASE pc[Direct] \notin {"idle", "answer"}
  <2>1. CASE Next
    BY <1>1, <1>2, <2>1, OnlyPrepares, StepPreparing DEF AliveInv
  <2>2. CASE UNCHANGED vars
    BY <2>2 DEF vars, rows, clock, memory, hist, AliveInv, PrepareInv, WaitInv, Open, Bound
  <2> QED
    BY <2>1, <2>2
<1>3. CASE pc[Direct] \in {"idle", "answer"}
  <2>1. CASE UNCHANGED <<action, request, turn, pc, cur, ret, copy, crashes, calls>>
    BY <1>3, <2>1 DEF AliveInv, PrepareInv, WaitInv, Open, Bound
  <2>2. ASSUME NEW h \in Handlers \ {Direct}, Steps(h), Others(h) PROVE AliveInv'
    BY <1>1, <1>3, <2>2, StepParked
  <2>3. CASE /\ turn' # "waiting-approval" /\ pc'[Direct] = "idle" /\ Others(Direct)
             /\ ContinueStep(Direct)
    <3>1. UNCHANGED <<action, request>>
      BY <2>3, ContinueFrame, DistinctHandlers
    <3>2. PrepareInv'
      BY <2>3 DEF PrepareInv
    <3>3. \A a \in Actions : WaitInv(a)'
      <4>1. /\ pc[Direct] \notin Working /\ pc'[Direct] \notin Working
            /\ \A a \in Actions : pc'[a] = pc[a] /\ cur'[a] = cur[a]
        BY <1>3, <2>3, DistinctHandlers DEF Others, Working
      <4> QED
        BY <1>1, <3>1, <4>1 DEF AliveInv, WaitInv
    <3> QED
      BY <1>1, <2>3, <3>2, <3>3 DEF AliveInv, Others
  <2> QED
    BY <1>1, <1>3, <2>1, <2>2, <2>3, ParkedSteps
<1> QED
  BY <1>2, <1>3

LEMMA InitAlive == ASSUME PreApproved = {} PROVE Init => BoundaryInv /\ AliveInv
<1> SUFFICES ASSUME Init PROVE BoundaryInv /\ AliveInv
  OBVIOUS
<1>1. Absent.exec = "none" /\ Absent.status = "absent"
  BY DEF Absent
<1>2. BoundaryInv
  BY <1>1, DistinctHandlers DEF Init, BoundaryInv
<1>3. PrepareInv
  BY <1>1, DistinctHandlers DEF Init, PrepareInv
<1>4. \A a \in Actions : WaitInv(a)
  BY <1>1, DistinctHandlers DEF Init, WaitInv
<1> QED
  BY <1>2, <1>3, <1>4 DEF Init, AliveInv, Working

\* A turn is never parked without somebody to resume it, before the first
\* crash: while nobody is at work, one of its actions has a request that the
\* user can decide or that the timer will find expired.  The handler that finds
\* another action undecided, or another executor inside the boundary, relies on
\* who works on that one to come back to the turn (AliveInv).  Not so with a
\* policy in force at the start: what it authorises may end without a decision.
THEOREM TurnNotStranded ==
  ASSUME Immediate, ~GrantMayChange, PreApproved = {} PROVE Spec => []NotStranded
<1>1. Init => Standing /\ BoundaryInv /\ AliveInv
  BY InitStanding, InitAlive
<1>2. Standing /\ BoundaryInv /\ AliveInv /\ [Next]_vars => (Standing /\ BoundaryInv /\ AliveInv)'
  BY StepStanding, StepBoundary, StepAlive
<1>3. AliveInv => NotStranded
  BY DEF AliveInv, NotStranded, Open, Bound, Working
<1> QED
  BY <1>1, <1>2, <1>3, PTL DEF Spec
=============================================================================
