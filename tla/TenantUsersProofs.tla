------------------------- MODULE TenantUsersProofs -------------------------
(***************************************************************************)
(* Proofs about TenantUsers for every set of users and of requests: its    *)
(* type invariant, that a lockout needs a race (LockoutNeedsRace), that    *)
(* requests which do not overlap keep the tenant administrable, that the   *)
(* audit tells the truth, and that overlapping updates merge.              *)
(***************************************************************************)
EXTENDS TenantUsers, TLAPS

\* Every request that still holds a decision of the last-admin guard counted
\* another active admin when it made it.
GuardPassed ==
  \A r \in Request :
    \/ pc[r] \in {"update_write", "update_commit"} /\ TakesAdminAway(read[r], req[r])
    \/ pc[r] = "delete_row" /\ IsActiveAdmin(read[r])
    => others[r] # {} /\ Target(r) \notin others[r]

\* With one request at a time, what it read is what the tables hold.
Deciding == {"update_count", "update_write", "update_commit",
             "delete_count", "delete_row"}
Undisturbed ==
  \A r \in Request :
    /\ pc[r] \in Deciding => read[r] = users[Target(r)]
    /\ pc[r] # "audit" => others[r] \subseteq ActiveAdmins

-----------------------------------------------------------------------------
LEMMA RowTypes == Blank \in Row /\ Gone \in Row
BY DEF Blank, Gone, Row, RowState

\* A patched row is a row again.
LEMMA PatchedType ==
  ASSUME NEW row \in Row, NEW o \in Operation
  PROVE  Patched(row, o) \in Row
BY DEF Patched, Row, RowState, Operation, UpdateOp, CreateOp, SimpleOp,
       RolesArg, StatusArg

\* Every operation a request can carry starts at a label of its handler.
LEMMA FirstStepType ==
  ASSUME NEW o \in Operation
  PROVE  FirstStep(o.op) \in PC
BY DEF FirstStep, PC, Operation, UpdateOp, CreateOp, SimpleOp

\* Answering a request keeps the types of the request's own variables.
LEMMA AnswerType ==
  ASSUME TypeOK, NEW r \in Request, Answer(r)
  PROVE  /\ pc' \in [Request -> PC]
         /\ req' \in [Request -> Operation \cup {Idle}]
         /\ read' \in [Request -> Row]
         /\ others' \in [Request -> SUBSET User]
BY RowTypes DEF TypeOK, Answer, Goto, PC

\* A request past "idle" carries an operation, and its target is a user.
Busy == \A r \in Request : pc[r] # "idle" => req[r] \in Operation

LEMMA TargetType ==
  ASSUME TypeOK, Busy, NEW r \in Request, pc[r] # "idle"
  PROVE  req[r] \in Operation /\ Target(r) \in User
BY DEF TypeOK, Busy, Target, Operation, UpdateOp, CreateOp, SimpleOp

\* Types: every variable of TenantUsers keeps its type, and a request at work
\* carries an operation on one of the tenant's users.
TypeInv == TypeOK /\ Busy

LEMMA TypeInit == Init => TypeInv
BY RowTypes DEF Init, TypeInv, TypeOK, Busy, Row, RowState, PC

LEMMA TypeStep == TypeInv /\ [Next]_vars => TypeInv'
<1> SUFFICES ASSUME TypeOK, Busy, [Next]_vars PROVE TypeOK' /\ Busy'
  BY DEF TypeInv
<1> USE DEF dbVars, Goto
<1>1. CASE UNCHANGED vars
  BY <1>1 DEF vars, TypeOK, Busy
<1>2. ASSUME NEW r \in Request, Receive(r) PROVE TypeOK' /\ Busy'
  BY <1>2, FirstStepType DEF Receive, TypeOK, Busy
<1>3. ASSUME NEW r \in Request, Crash(r) PROVE TypeOK' /\ Busy'
  BY <1>3, AnswerType DEF Crash, Answer, TypeOK, Busy
<1>4. ASSUME NEW r \in Request, Work(r) PROVE TypeOK' /\ Busy'
  <2> Target(r) \in User /\ req[r] \in Operation
    BY <1>4, TargetType DEF Work, Insert, UpdateSelect, UpdateCount, UpdateWrite,
       UpdateCommit, DeleteSelect, DeleteCount, DeleteRow, ResetPassword,
       DecommissionCheck, DecommissionDelete, Audit
  <2>1. CASE Insert(r)
    <3>1. [state |-> "active", admin |-> req[r].roles = "admin"] \in Row
      BY DEF Row, RowState
    <3>2. users' \in [User -> Row]
      BY <2>1, <3>1 DEF Insert, TypeOK
    <3>3. CASE Answer(r)
      BY <2>1, <3>2, <3>3, AnswerType DEF Insert, Answer, TypeOK, Busy
    <3>4. CASE ~Answer(r)
      BY <2>1, <3>2, <3>4 DEF Insert, TypeOK, Busy, PC
    <3>5. QED
      BY <3>3, <3>4
  <2>2. CASE UpdateSelect(r)
    BY <2>2, AnswerType DEF UpdateSelect, Answer, TypeOK, Busy, PC
  <2>3. CASE UpdateCount(r)
    BY <2>3, AnswerType DEF UpdateCount, Answer, TypeOK, Busy, PC, OtherAdmins, ActiveAdmins
  <2>4. CASE UpdateWrite(r)
    BY <2>4, AnswerType DEF UpdateWrite, Answer, Lock, TypeOK, Busy, PC
  <2>5. CASE UpdateCommit(r)
    <3>1. Patched(users[Target(r)], req[r]) \in Row
      BY PatchedType DEF TypeOK
    <3>2. QED
      BY <2>5, <3>1 DEF UpdateCommit, Unlock, TypeOK, Busy, PC
  <2>6. CASE DeleteSelect(r)
    BY <2>6, AnswerType DEF DeleteSelect, Answer, TypeOK, Busy, PC
  <2>7. CASE DeleteCount(r)
    BY <2>7, AnswerType DEF DeleteCount, Answer, TypeOK, Busy, PC, OtherAdmins, ActiveAdmins
  <2>8. CASE DeleteRow(r)
    BY <2>8, RowTypes DEF DeleteRow, TypeOK, Busy, PC
  <2>9. CASE ResetPassword(r)
    BY <2>9, AnswerType DEF ResetPassword, Answer, TypeOK, Busy, PC
  <2>10. CASE DecommissionCheck(r)
    BY <2>10, AnswerType DEF DecommissionCheck, Answer, TypeOK, Busy, PC
  <2>11. CASE DecommissionDelete(r)
    BY <2>11, RowTypes DEF DecommissionDelete, TypeOK, Busy, PC
  <2>12. CASE Audit(r)
    BY <2>12, AnswerType DEF Audit, Answer, TypeOK, Busy
  <2>13. QED
    BY <1>4, <2>1, <2>2, <2>3, <2>4, <2>5, <2>6, <2>7, <2>8, <2>9, <2>10,
       <2>11, <2>12 DEF Work
<1>5. QED
  BY <1>1, <1>2, <1>3, <1>4 DEF Next

\* TenantUsers: the variables keep their types, whatever the requests do.
THEOREM TypeCorrect == Spec => []TypeInv
<1>1. QED BY TypeInit, TypeStep, PTL DEF Spec

-----------------------------------------------------------------------------
\* Only a write of its own request, and the guard before it, changes what
\* GuardPassed says of a request.
LEMMA GuardStep == TypeInv /\ GuardPassed /\ [Next]_vars => GuardPassed'
<1> SUFFICES ASSUME TypeInv, GuardPassed, [Next]_vars,
                    NEW s \in Request,
                    \/ /\ pc'[s] \in {"update_write", "update_commit"}
                       /\ TakesAdminAway(read'[s], req'[s])
                    \/ pc'[s] = "delete_row" /\ IsActiveAdmin(read'[s])
             PROVE  others'[s] # {} /\ Target(s)' \notin others'[s]
  BY DEF GuardPassed
<1> USE DEF TypeInv, TypeOK, Goto, Target
<1>1. CASE UNCHANGED vars
  BY <1>1 DEF vars, GuardPassed
<1>2. ASSUME NEW r \in Request, Receive(r)
      PROVE  others'[s] # {} /\ Target(s)' \notin others'[s]
  BY <1>2, FirstStepType DEF Receive, GuardPassed, FirstStep, Operation, UpdateOp,
       CreateOp, SimpleOp
<1>3. ASSUME NEW r \in Request, Crash(r)
      PROVE  others'[s] # {} /\ Target(s)' \notin others'[s]
  BY <1>3 DEF Crash, Answer, GuardPassed
<1>4. ASSUME NEW r \in Request, Work(r)
      PROVE  others'[s] # {} /\ Target(s)' \notin others'[s]
  <2>1. CASE Insert(r)
    BY <2>1 DEF Insert, Answer, GuardPassed
  <2>2. CASE UpdateSelect(r)
    BY <2>2 DEF UpdateSelect, Answer, GuardPassed
  <2>3. CASE UpdateCount(r)
    BY <2>3 DEF UpdateCount, Answer, GuardPassed, OtherAdmins
  <2>4. CASE UpdateWrite(r)
    BY <2>4 DEF UpdateWrite, Answer, GuardPassed
  <2>5. CASE UpdateCommit(r)
    BY <2>5 DEF UpdateCommit, GuardPassed
  <2>6. CASE DeleteSelect(r)
    BY <2>6 DEF DeleteSelect, Answer, GuardPassed
  <2>7. CASE DeleteCount(r)
    BY <2>7 DEF DeleteCount, Answer, GuardPassed, OtherAdmins
  <2>8. CASE DeleteRow(r)
    BY <2>8 DEF DeleteRow, GuardPassed
  <2>9. CASE ResetPassword(r)
    BY <2>9 DEF ResetPassword, Answer, GuardPassed
  <2>10. CASE DecommissionCheck(r)
    BY <2>10 DEF DecommissionCheck, Answer, GuardPassed
  <2>11. CASE DecommissionDelete(r)
    BY <2>11 DEF DecommissionDelete, GuardPassed
  <2>12. CASE Audit(r)
    BY <2>12 DEF Audit, Answer, GuardPassed
  <2>13. QED
    BY <1>4, <2>1, <2>2, <2>3, <2>4, <2>5, <2>6, <2>7, <2>8, <2>9, <2>10,
       <2>11, <2>12 DEF Work
<1>5. QED
  BY <1>1, <1>2, <1>3, <1>4 DEF Next

LEMMA GuardInit == Init => GuardPassed
BY DEF Init, GuardPassed

\* update_user's commit, when nobody overtook the request, leaves an admin.
LEMMA CommitKeepsAnAdmin ==
  ASSUME TypeInv, GuardPassed, NEW r \in Request, UpdateCommit(r),
         ActiveAdmins # {}, ~Overtaken(r)
  PROVE  ActiveAdmins' # {}
<1> DEFINE t == Target(r)
<1>1. t \in User /\ req[r] \in Operation /\ pc[r] = "update_commit"
  BY TargetType DEF UpdateCommit, TypeInv
<1>2. read[r] = users[t]
  BY <1>1 DEF Overtaken
<1>3. \A v \in User : v # t => users'[v] = users[v]
  BY <1>1 DEF UpdateCommit, TypeInv, TypeOK
<1>4. CASE \E v \in ActiveAdmins : v # t
  BY <1>3, <1>4 DEF ActiveAdmins
<1>5. CASE ActiveAdmins = {t} /\ TakesAdminAway(read[r], req[r])
  <2>1. others[r] # {} /\ t \notin others[r]
    BY <1>1, <1>5 DEF GuardPassed
  <2>2. others[r] \cap ActiveAdmins # {}
    BY <1>1, <2>1 DEF Overtaken
  <2>3. QED
    BY <1>5, <2>1, <2>2
<1>6. CASE ActiveAdmins = {t} /\ ~TakesAdminAway(read[r], req[r])
  <2>1. IsActiveAdmin(users[t])
    BY <1>6 DEF ActiveAdmins
  <2>2. IsActiveAdmin(Patched(users[t], req[r]))
    BY <1>1, <1>2, <1>6, <2>1 DEF TakesAdminAway, IsActiveAdmin, Patched, Operation,
       UpdateOp, CreateOp, SimpleOp, RolesArg, StatusArg
  <2>3. IsActiveAdmin(users'[t])
    BY <1>1, <2>1, <2>2 DEF UpdateCommit, TypeInv, TypeOK
  <2>4. QED
    BY <1>1, <2>3 DEF ActiveAdmins
<1>7. QED
  BY <1>4, <1>5, <1>6

\* delete_user's DELETE, when nobody overtook the request, leaves an admin.
LEMMA DeleteKeepsAnAdmin ==
  ASSUME TypeInv, GuardPassed, NEW r \in Request, DeleteRow(r),
         ActiveAdmins # {}, ~Overtaken(r)
  PROVE  ActiveAdmins' # {}
<1> DEFINE t == Target(r)
<1>1. t \in User /\ pc[r] = "delete_row"
  BY TargetType DEF DeleteRow, TypeInv
<1>2. read[r] = users[t]
  BY <1>1 DEF Overtaken
<1>3. \A v \in User : v # t => users'[v] = users[v]
  BY <1>1 DEF DeleteRow, TypeInv, TypeOK
<1>4. CASE \E v \in ActiveAdmins : v # t
  BY <1>3, <1>4 DEF ActiveAdmins
<1>5. CASE ActiveAdmins = {t}
  <2>1. IsActiveAdmin(read[r])
    BY <1>2, <1>5 DEF ActiveAdmins
  <2>2. others[r] # {} /\ t \notin others[r]
    BY <1>1, <2>1 DEF GuardPassed
  <2>3. others[r] \cap ActiveAdmins # {}
    BY <1>1, <2>2 DEF Overtaken
  <2>4. QED
    BY <1>5, <2>2, <2>3
<1>6. QED
  BY <1>4, <1>5

\* A step that leaves a live tenant without an active admin is the write of an
\* overtaken request.
LEMMA LockoutStep ==
  ASSUME TypeInv, GuardPassed, [Next]_vars,
         tenant' = "live", ActiveAdmins # {}, ActiveAdmins' = {}
  PROVE  \E r \in Request : Overtaken(r) /\ pc'[r] # pc[r]
<1> USE DEF dbVars
<1>1. CASE UNCHANGED vars
  BY <1>1 DEF vars, ActiveAdmins
<1>2. ASSUME NEW r \in Request, Receive(r) \/ Crash(r) PROVE FALSE
  BY <1>2 DEF Receive, Crash, ActiveAdmins
<1>3. ASSUME NEW r \in Request, Work(r) PROVE Overtaken(r) /\ pc'[r] # pc[r]
  <2>1. CASE Insert(r)
    <3>1. Target(r) \in User
      BY <2>1, TargetType DEF Insert, TypeInv
    <3>2. \A v \in ActiveAdmins : users'[v] = users[v]
      BY <2>1, <3>1 DEF Insert, ActiveAdmins, IsActiveAdmin, TypeInv, TypeOK
    <3>3. QED
      BY <3>2 DEF ActiveAdmins
  <2>2. CASE UpdateCommit(r)
    BY <2>2, CommitKeepsAnAdmin DEF UpdateCommit, Goto, TypeInv, TypeOK
  <2>3. CASE DeleteRow(r)
    BY <2>3, DeleteKeepsAnAdmin DEF DeleteRow, Goto, TypeInv, TypeOK
  <2>4. CASE DecommissionDelete(r)
    BY <2>4 DEF DecommissionDelete
  <2>5. CASE UNCHANGED users
    BY <2>5 DEF ActiveAdmins
  <2>6. QED
    BY <1>3, <2>1, <2>2, <2>3, <2>4, <2>5 DEF Work, UpdateSelect, UpdateCount,
       UpdateWrite, DeleteSelect, DeleteCount, ResetPassword, DecommissionCheck, Audit
<1>4. QED
  BY <1>1, <1>2, <1>3 DEF Next

\* update_user and delete_user: for any number of users and overlapping requests,
\* a live tenant loses its last active admin only by the write of an overtaken request.
THEOREM LockoutNeedsRaceHolds == Spec => LockoutNeedsRace
<1>1. TypeInv /\ GuardPassed /\ [Next]_vars
        => [(tenant' = "live" /\ ActiveAdmins # {} /\ ActiveAdmins' = {})
              => \E r \in Request : Overtaken(r) /\ pc'[r] # pc[r]]_vars
  BY LockoutStep
<1>2. Spec => []GuardPassed
  BY TypeCorrect, GuardInit, GuardStep, PTL DEF Spec
<1>3. QED
  BY <1>1, <1>2, TypeCorrect, PTL DEF Spec, LockoutNeedsRace

-----------------------------------------------------------------------------
\* One request at a time: nobody changes the tables between its statements.
LEMMA UndisturbedStep ==
  ASSUME \A r, s \in Request : r = s, TypeInv, Undisturbed, [Next]_vars
  PROVE  Undisturbed'
<1> SUFFICES ASSUME NEW s \in Request
             PROVE  /\ pc'[s] \in Deciding => read'[s] = users'[Target(s)']
                    /\ pc'[s] # "audit" => others'[s] \subseteq ActiveAdmins'
  BY DEF Undisturbed
<1> USE DEF TypeInv, TypeOK, Goto, Target, Deciding, dbVars
<1>1. CASE UNCHANGED vars
  BY <1>1 DEF vars, Undisturbed, ActiveAdmins
<1>2. CASE Receive(s)
  BY <1>2, FirstStepType DEF Receive, Undisturbed, ActiveAdmins, FirstStep, Operation, UpdateOp, CreateOp, SimpleOp
<1>3. CASE Crash(s)
  BY <1>3 DEF Undisturbed, ActiveAdmins, Crash, Answer
<1>4. CASE Work(s)
  <2>1. CASE Insert(s)
    BY <2>1 DEF Undisturbed, ActiveAdmins, Insert, Answer
  <2>2. CASE UpdateSelect(s)
    BY <2>2 DEF UpdateSelect, Answer, Undisturbed, ActiveAdmins
  <2>3. CASE UpdateCount(s)
    BY <2>3 DEF UpdateCount, Answer, Undisturbed, OtherAdmins, ActiveAdmins
  <2>4. CASE UpdateWrite(s)
    BY <2>4 DEF UpdateWrite, Answer, Undisturbed, ActiveAdmins
  <2>5. CASE UpdateCommit(s)
    BY <2>5 DEF Undisturbed, ActiveAdmins, UpdateCommit
  <2>6. CASE DeleteSelect(s)
    BY <2>6 DEF DeleteSelect, Answer, Undisturbed, ActiveAdmins
  <2>7. CASE DeleteCount(s)
    BY <2>7 DEF DeleteCount, Answer, Undisturbed, OtherAdmins, ActiveAdmins
  <2>8. CASE DeleteRow(s)
    BY <2>8 DEF Undisturbed, ActiveAdmins, DeleteRow
  <2>9. CASE ResetPassword(s)
    BY <2>9 DEF Undisturbed, ActiveAdmins, ResetPassword, Answer
  <2>10. CASE DecommissionCheck(s)
    BY <2>10 DEF Undisturbed, ActiveAdmins, DecommissionCheck, Answer
  <2>11. CASE DecommissionDelete(s)
    BY <2>11 DEF Undisturbed, ActiveAdmins, DecommissionDelete
  <2>12. CASE Audit(s)
    BY <2>12 DEF Undisturbed, ActiveAdmins, Audit, Answer
  <2>13. QED
    BY <1>4, <2>1, <2>2, <2>3, <2>4, <2>5, <2>6, <2>7, <2>8, <2>9, <2>10,
       <2>11, <2>12 DEF Work
<1>5. QED
  BY <1>1, <1>2, <1>3, <1>4 DEF Next

\* A request that nobody disturbs is not overtaken.
LEMMA UndisturbedNotOvertaken ==
  ASSUME Undisturbed, NEW r \in Request
  PROVE  ~Overtaken(r)
BY DEF Undisturbed, Overtaken, Deciding

\* users.py:11-12, "the tenant's last ACTIVE admin cannot be deleted, demoted, or
\* disabled": with any number of users, requests handled one at a time (and
\* crashing anywhere) leave a live tenant with an active admin.
THEOREM SerialAdministrable ==
  ASSUME \A r, s \in Request : r = s
  PROVE  Spec => []Administrable
<1>1. Init => Undisturbed /\ Administrable
  BY DEF Init, Undisturbed, Deciding, Administrable, ActiveAdmins, IsActiveAdmin
<1>2. TypeInv /\ Undisturbed /\ [Next]_vars => Undisturbed'
  BY UndisturbedStep
<1>3. TypeInv /\ GuardPassed /\ Undisturbed /\ Administrable /\ [Next]_vars
        => Administrable'
  <2> SUFFICES ASSUME TypeInv, GuardPassed, Undisturbed, Administrable, [Next]_vars,
                      tenant' = "live"
               PROVE  ActiveAdmins' # {}
    BY DEF Administrable
  <2>1. tenant = "live"
    BY DEF Next, Work, Receive, Crash, Insert, UpdateSelect, UpdateCount, UpdateWrite,
       UpdateCommit, DeleteSelect, DeleteCount, DeleteRow, ResetPassword,
       DecommissionCheck, DecommissionDelete, Audit, vars, dbVars
  <2>2. QED
    BY <2>1, LockoutStep, UndisturbedNotOvertaken DEF Administrable
<1>4. Spec => []GuardPassed
  BY TypeCorrect, GuardInit, GuardStep, PTL DEF Spec
<1>5. QED
  BY <1>1, <1>2, <1>3, <1>4, TypeCorrect, PTL DEF Spec

-----------------------------------------------------------------------------
\* A lock is held by an update about to commit, of a row that is there.
Locked ==
  \A u \in User : rowLock[u] # NoRequest =>
    /\ pc[rowLock[u]] = "update_commit" /\ Target(rowLock[u]) = u
    /\ Exists(users[u])

\* The label a request is at belongs to its operation.
Labels ==
  \A r \in Request :
    LET op == req[r].op IN
      /\ pc[r] = "insert" => op = "create"
      /\ pc[r] \in {"update_select", "update_count", "update_write", "update_commit"}
           => op = "update"
      /\ pc[r] \in {"delete_select", "delete_count", "delete_row"} => op = "delete"
      /\ pc[r] = "reset" => op = "reset"
      /\ pc[r] \in {"tenant_check", "tenant_delete"} => op \in {"decommission", "force"}

\* Whoever was selected was there then, so that its id was used.
Selected ==
  \A r \in Request :
    pc[r] \in {"update_count", "update_write", "update_commit", "delete_count", "delete_row"}
      => Exists(read[r]) /\ users[Target(r)].state # "unused"

\* An update about to commit without the row's lock sets nothing, or has found nobody.
Held ==
  \A r \in Request : pc[r] = "update_commit" /\ ~HasRow(r) =>
    NoFields(req[r]) \/ users[Target(r)].state = "deleted"

\* A step inserts only an id that was never used, and touches nobody who was deleted.
LEMMA StatesOnward ==
  ASSUME TypeInv, Locked, [Next]_vars, NEW u \in User
  PROVE  /\ users[u].state # "unused" => users'[u].state # "unused"
         /\ users[u].state = "deleted" => users'[u].state = "deleted"
<1> USE DEF TypeInv, TypeOK, Goto
<1>1. CASE UNCHANGED users
  BY <1>1
<1>2. ASSUME NEW r \in Request, Insert(r) \/ DeleteRow(r)
      PROVE  /\ users[u].state # "unused" => users'[u].state # "unused"
             /\ users[u].state = "deleted" => users'[u].state = "deleted"
  BY <1>2 DEF Insert, DeleteRow, Exists, Gone
<1>3. ASSUME NEW r \in Request, UpdateCommit(r)
      PROVE  /\ users[u].state # "unused" => users'[u].state # "unused"
             /\ users[u].state = "deleted" => users'[u].state = "deleted"
  <2>1. Target(r) \in User /\ req[r] \in Operation
    BY <1>3, TargetType DEF UpdateCommit
  <2>2. CASE HasRow(r)
    <3>1. Exists(users[Target(r)])
      BY <2>1, <2>2, NoRequestAssumption DEF HasRow, Locked
    <3>2. Patched(users[Target(r)], req[r]).state # "unused"
      BY <2>1, <3>1 DEF Patched, Exists, Operation, UpdateOp, CreateOp, SimpleOp, StatusArg
    <3>3. users' = [users EXCEPT ![Target(r)] = Patched(users[Target(r)], req[r])]
      BY <1>3, <2>2 DEF UpdateCommit
    <3>4. CASE u = Target(r)
      BY <2>1, <3>1, <3>2, <3>3, <3>4 DEF Exists
    <3>5. CASE u # Target(r)
      BY <3>3, <3>5
    <3>6. QED
      BY <3>4, <3>5
  <2>3. CASE ~HasRow(r)
    BY <1>3, <2>3 DEF UpdateCommit
  <2>4. QED
    BY <2>2, <2>3
<1>4. ASSUME NEW r \in Request, DecommissionDelete(r)
      PROVE  /\ users[u].state # "unused" => users'[u].state # "unused"
             /\ users[u].state = "deleted" => users'[u].state = "deleted"
  BY <1>4 DEF DecommissionDelete, Exists, Gone
<1>5. QED
  BY <1>1, <1>2, <1>3, <1>4 DEF Next, Receive, Work, Crash, vars, dbVars, UpdateSelect,
     UpdateCount, UpdateWrite, DeleteSelect, DeleteCount, ResetPassword, DecommissionCheck,
     Audit

LEMMA LockedInit == Init => Locked
BY DEF Init, Locked

LEMMA LockedStep == TypeInv /\ Labels /\ Locked /\ [Next]_vars => Locked'
<1> SUFFICES ASSUME TypeInv, Locked, [Next]_vars, NEW u \in User, rowLock'[u] # NoRequest
             PROVE  /\ pc'[rowLock'[u]] = "update_commit"
                    /\ req'[rowLock'[u]].target = u
                    /\ Exists(users'[u])
  BY DEF Locked, Target
<1> USE DEF TypeInv, TypeOK, Goto, Target, dbVars
<1>1. CASE UNCHANGED vars
  BY <1>1 DEF vars, Locked
<1>2. ASSUME NEW r \in Request, Receive(r) \/ Crash(r)
      PROVE  /\ pc'[rowLock'[u]] = "update_commit"
             /\ req'[rowLock'[u]].target = u
             /\ Exists(users'[u])
  BY <1>2 DEF Receive, Crash, Answer, Locked
<1>3. ASSUME NEW r \in Request, Work(r)
      PROVE  /\ pc'[rowLock'[u]] = "update_commit"
             /\ req'[rowLock'[u]].target = u
             /\ Exists(users'[u])
  <2>1. CASE Insert(r)
    BY <2>1 DEF Insert, Answer, Locked, Exists
  <2>2. CASE UpdateSelect(r)
    BY <2>2 DEF UpdateSelect, Answer, Locked
  <2>3. CASE UpdateCount(r)
    BY <2>3 DEF UpdateCount, Answer, Locked
  <2>4. CASE UpdateWrite(r)
    BY <2>4 DEF UpdateWrite, Answer, Lock, Unlocked, Locked
  <2>5. CASE UpdateCommit(r)
    <3>1. CASE HasRow(r)
      <4>1. u # req[r].target /\ rowLock'[u] = rowLock[u] /\ users'[u] = users[u]
        BY <2>5, <3>1 DEF UpdateCommit, HasRow, Unlock
      <4>2. rowLock[u] # r
        BY <4>1, <2>5 DEF Locked
      <4>3. QED
        BY <2>5, <4>1, <4>2 DEF UpdateCommit, Locked
    <3>2. CASE ~HasRow(r)
      BY <2>5, <3>2 DEF UpdateCommit, HasRow, Locked
    <3>3. QED
      BY <3>1, <3>2
  <2>6. CASE DeleteSelect(r)
    BY <2>6 DEF DeleteSelect, Answer, Locked
  <2>7. CASE DeleteCount(r)
    BY <2>7 DEF DeleteCount, Answer, Locked
  <2>8. CASE DeleteRow(r)
    BY <2>8 DEF DeleteRow, Locked, Unlocked
  <2>9. CASE ResetPassword(r)
    BY <2>9 DEF ResetPassword, Answer, Locked
  <2>10. CASE DecommissionCheck(r)
    BY <2>10 DEF DecommissionCheck, Answer, Locked
  <2>11. CASE DecommissionDelete(r)
    BY <2>11 DEF DecommissionDelete, Unlocked, Locked
  <2>12. CASE Audit(r)
    BY <2>12 DEF Audit, Answer, Locked
  <2>13. QED
    BY <1>3, <2>1, <2>2, <2>3, <2>4, <2>5, <2>6, <2>7, <2>8, <2>9, <2>10,
       <2>11, <2>12 DEF Work
<1>4. QED
  BY <1>1, <1>2, <1>3 DEF Next

LEMMA LabelsInit == Init => Labels
BY DEF Init, Labels

LEMMA LabelsStep == TypeInv /\ Labels /\ [Next]_vars => Labels'
<1> SUFFICES ASSUME TypeInv, Labels, [Next]_vars PROVE Labels'
  OBVIOUS
<1> USE DEF TypeInv, TypeOK, Goto, dbVars
<1>1. CASE UNCHANGED vars
  BY <1>1 DEF vars, Labels
<1>2. ASSUME NEW r \in Request, Receive(r) PROVE Labels'
  BY <1>2 DEF Receive, Labels, FirstStep, Operation, UpdateOp, CreateOp, SimpleOp
<1>3. ASSUME NEW r \in Request, Crash(r) PROVE Labels'
  BY <1>3 DEF Crash, Answer, Labels
<1>4. ASSUME NEW r \in Request, Work(r) PROVE Labels'
  BY <1>4 DEF Work, Insert, UpdateSelect, UpdateCount, UpdateWrite, UpdateCommit,
     DeleteSelect, DeleteCount, DeleteRow, ResetPassword, DecommissionCheck,
     DecommissionDelete, Audit, Answer, Labels
<1>5. QED
  BY <1>1, <1>2, <1>3, <1>4 DEF Next

\* What every statement that is recorded relies on.
AuditInv == Locked /\ Labels /\ Selected /\ Held

LEMMA AuditInit == Init => AuditInv
BY LockedInit, LabelsInit DEF Init, AuditInv, Selected, Held

\* Of a request that does not move, nothing moves but the rows it is about.
LEMMA OthersStay ==
  ASSUME TypeInv, NEW s \in Request, NEW r \in Request, r # s,
         Receive(r) \/ Work(r) \/ Crash(r)
  PROVE  /\ pc'[s] = pc[s] /\ req'[s] = req[s] /\ read'[s] = read[s]
         /\ \A u \in User : rowLock[u] = s => rowLock'[u] = s
<1> USE NoRequestAssumption DEF TypeInv, TypeOK, Goto, Answer, dbVars
<1>1. CASE Receive(r) \/ Crash(r)
  BY <1>1 DEF Receive, Crash
<1>2. CASE UpdateWrite(r) \/ UpdateCommit(r)
  BY <1>2 DEF UpdateWrite, UpdateCommit, Lock, Unlock, Unlocked, HasRow
<1>3. CASE Insert(r) \/ UpdateSelect(r) \/ UpdateCount(r) \/ DeleteSelect(r)
            \/ DeleteCount(r) \/ DeleteRow(r) \/ ResetPassword(r)
            \/ DecommissionCheck(r) \/ DecommissionDelete(r) \/ Audit(r)
  BY <1>3 DEF Insert, UpdateSelect, UpdateCount, DeleteSelect, DeleteCount, DeleteRow,
     ResetPassword, DecommissionCheck, DecommissionDelete, Audit
<1>4. QED
  BY <1>1, <1>2, <1>3 DEF Work

LEMMA SelectedStep == TypeInv /\ AuditInv /\ [Next]_vars => Selected'
<1> SUFFICES ASSUME TypeInv, AuditInv, [Next]_vars, NEW s \in Request,
                    pc'[s] \in {"update_count", "update_write", "update_commit",
                                "delete_count", "delete_row"}
             PROVE  Exists(read'[s]) /\ users'[req'[s].target].state # "unused"
  BY DEF Selected, Target
<1> USE DEF AuditInv, TypeInv, TypeOK, Goto, Target, dbVars
<1>1. pc[s] # "idle" => req[s].target \in User
  BY TargetType
<1>2. CASE pc'[s] = pc[s] /\ req'[s] = req[s] /\ read'[s] = read[s]
  BY <1>1, <1>2, StatesOnward DEF Selected
<1>3. CASE Receive(s) \/ Crash(s)
  BY <1>3 DEF Receive, Crash, Answer, FirstStep, Operation, UpdateOp, CreateOp, SimpleOp
<1>4. CASE UpdateSelect(s) \/ DeleteSelect(s)
  BY <1>1, <1>4 DEF UpdateSelect, DeleteSelect, Answer, Exists
<1>5. CASE UpdateCount(s) \/ UpdateWrite(s) \/ DeleteCount(s)
  BY <1>1, <1>5 DEF UpdateCount, UpdateWrite, DeleteCount, Answer, Selected
<1>6. CASE Insert(s) \/ UpdateCommit(s) \/ DeleteRow(s) \/ ResetPassword(s)
            \/ DecommissionCheck(s) \/ DecommissionDelete(s) \/ Audit(s)
  BY <1>6 DEF Insert, UpdateCommit, DeleteRow, ResetPassword, DecommissionCheck,
     DecommissionDelete, Audit, Answer
<1>7. CASE UNCHANGED vars
  BY <1>2, <1>7 DEF vars
<1>8. QED
  BY <1>2, <1>3, <1>4, <1>5, <1>6, <1>7, OthersStay DEF Next, Work

LEMMA HeldStep == TypeInv /\ AuditInv /\ [Next]_vars => Held'
<1> SUFFICES ASSUME TypeInv, AuditInv, [Next]_vars, NEW s \in Request,
                    pc'[s] = "update_commit", rowLock'[req'[s].target] # s
             PROVE  NoFields(req'[s]) \/ users'[req'[s].target].state = "deleted"
  BY DEF Held, HasRow, Target
<1> USE DEF AuditInv, TypeInv, TypeOK, Goto, Target, dbVars
<1>1. pc[s] # "idle" => req[s].target \in User
  BY TargetType
<1>2. CASE pc'[s] = pc[s] /\ req'[s] = req[s] /\ rowLock[req[s].target] # s
  BY <1>1, <1>2, StatesOnward DEF Held, HasRow
<1>3. CASE Receive(s) \/ Crash(s)
  BY <1>3 DEF Receive, Crash, Answer, FirstStep, Operation, UpdateOp, CreateOp, SimpleOp
<1>4. CASE UpdateWrite(s)
  <2>1. users[req[s].target].state # "unused" /\ req[s].target \in User
    BY <1>1, <1>4 DEF UpdateWrite, Selected
  <2>2. Exists(users[req[s].target]) \/ users[req[s].target].state = "deleted"
    BY <2>1 DEF Exists, Row, RowState
  <2>3. QED
    BY <1>4, <2>1, <2>2 DEF UpdateWrite, Lock, Answer
<1>5. CASE Insert(s) \/ UpdateSelect(s) \/ UpdateCount(s) \/ UpdateCommit(s)
            \/ DeleteSelect(s) \/ DeleteCount(s) \/ DeleteRow(s) \/ ResetPassword(s)
            \/ DecommissionCheck(s) \/ DecommissionDelete(s) \/ Audit(s)
  BY <1>5 DEF Insert, UpdateSelect, UpdateCount, UpdateCommit, DeleteSelect, DeleteCount,
     DeleteRow, ResetPassword, DecommissionCheck, DecommissionDelete, Audit, Answer
<1>6. CASE UNCHANGED vars
  BY <1>2, <1>6 DEF vars
<1>7. ASSUME NEW r \in Request, r # s, Receive(r) \/ Work(r) \/ Crash(r)
      PROVE  pc'[s] = pc[s] /\ req'[s] = req[s] /\ rowLock[req[s].target] # s
  BY <1>1, <1>7, OthersStay
<1>8. QED
  BY <1>2, <1>3, <1>4, <1>5, <1>6, <1>7 DEF Next, Work

LEMMA AuditStep == TypeInv /\ AuditInv /\ [Next]_vars => AuditInv'
BY LockedStep, LabelsStep, SelectedStep, HeldStep DEF AuditInv

\* The commit of a PATCH that holds its row sets what was asked on a row that is there;
\* one that does not was asked nothing or finds its user deleted.
LEMMA CommitDone ==
  ASSUME TypeInv, AuditInv, NEW r \in Request, UpdateCommit(r)
  PROVE  Done(r) \/ (req[r].op = "update" /\ Vanished(r))
<1>1. Target(r) \in User /\ req[r] \in Operation /\ pc[r] = "update_commit"
  BY TargetType DEF UpdateCommit, TypeInv
<1>2. req[r].op = "update" /\ Exists(read[r])
  BY <1>1 DEF AuditInv, Labels, Selected
<1>3. CASE HasRow(r)
  <2>1. Exists(users[Target(r)])
    BY <1>1, <1>3, NoRequestAssumption DEF HasRow, AuditInv, Locked
  <2>2. users'[Target(r)] = Patched(users[Target(r)], req[r])
    BY <1>1, <1>3 DEF UpdateCommit, TypeInv, TypeOK
  <2>3. Exists(Patched(users[Target(r)], req[r]))
    BY <1>1, <2>1 DEF Patched, Exists, Operation, UpdateOp, CreateOp, SimpleOp, StatusArg
  <2>4. QED
    BY <1>2, <2>2, <2>3 DEF Done, Patched
<1>4. CASE ~HasRow(r) /\ NoFields(req[r])
  BY <1>2, <1>4 DEF Done, NoFields
<1>5. CASE ~HasRow(r) /\ users[Target(r)].state = "deleted"
  BY <1>2, <1>5 DEF Vanished
<1>6. QED
  BY <1>1, <1>3, <1>4, <1>5 DEF AuditInv, Held

\* A DELETE finds its user, or finds it deleted by another.
LEMMA DeleteDone ==
  ASSUME TypeInv, AuditInv, NEW r \in Request, DeleteRow(r)
  PROVE  Done(r) \/ (req[r].op = "delete" /\ Vanished(r))
<1>1. Target(r) \in User /\ pc[r] = "delete_row"
  BY TargetType DEF DeleteRow, TypeInv
<1>2. req[r].op = "delete" /\ Exists(read[r]) /\ users[Target(r)].state # "unused"
  BY <1>1 DEF AuditInv, Labels, Selected
<1>3. CASE Exists(users[Target(r)])
  BY <1>1, <1>2, <1>3 DEF DeleteRow, Done, Gone, TypeInv, TypeOK
<1>4. CASE ~Exists(users[Target(r)])
  BY <1>1, <1>2, <1>4 DEF Exists, Vanished, Row, RowState, TypeInv, TypeOK
<1>5. QED
  BY <1>3, <1>4

\* Only four statements lead to the audit, and each has done what it says.
LEMMA DoneStep ==
  ASSUME TypeInv, AuditInv, [Next]_vars, NEW s \in Request,
         pc[s] # "audit", pc'[s] = "audit"
  PROVE  \/ Done(s)
         \/ /\ req[s].op \in {"update", "delete"}
            /\ Vanished(s)
<1> USE DEF TypeInv, TypeOK, Goto
<1>1. PICK q \in Request : Receive(q) \/ Work(q) \/ Crash(q)
  BY DEF Next, vars
<1>2. q = s
  BY <1>1, OthersStay
<1>3. ~Answer(s)
  BY DEF Answer
<1>4. pc[s] # "idle" => Target(s) \in User
  BY TargetType
<1>5. CASE Insert(s)
  BY <1>3, <1>4, <1>5 DEF Insert, Done, AuditInv, Labels
<1>6. CASE UpdateCommit(s)
  BY <1>6, CommitDone
<1>7. CASE DeleteRow(s)
  BY <1>7, DeleteDone
<1>8. CASE ResetPassword(s)
  BY <1>3, <1>4, <1>8 DEF ResetPassword, Done, AuditInv, Labels, dbVars
<1>9. CASE DecommissionDelete(s)
  BY <1>9 DEF DecommissionDelete, Done, AuditInv, Labels
<1>10. CASE Receive(s) \/ Crash(s) \/ UpdateSelect(s) \/ UpdateCount(s) \/ UpdateWrite(s)
             \/ DeleteSelect(s) \/ DeleteCount(s) \/ DecommissionCheck(s) \/ Audit(s)
  BY <1>3, <1>10 DEF Receive, FirstStep, Operation, UpdateOp, CreateOp, SimpleOp, Crash,
     UpdateSelect, UpdateCount, UpdateWrite, DeleteSelect, DeleteCount, DecommissionCheck,
     Audit
<1>11. QED
  BY <1>1, <1>2, <1>5, <1>6, <1>7, <1>8, <1>9, <1>10 DEF Work

\* users.py, tenants.py: for any users and overlapping requests, the step that leads to
\* the audit has done to the rows what the audit says, but for a PATCH or a DELETE whose
\* user another request has deleted since it was selected.
THEOREM AuditAlwaysTrue == Spec => AuditTellsTruth
<1>1. TypeInv /\ AuditInv /\ [Next]_vars
        => [\A r \in Request : pc[r] # "audit" /\ pc'[r] = "audit" =>
              \/ Done(r)
              \/ /\ req[r].op \in {"update", "delete"}
                 /\ Vanished(r)]_vars
  BY DoneStep
<1>2. QED
  BY <1>1, AuditInit, AuditStep, TypeCorrect, PTL DEF Spec, AuditTellsTruth

\* A commit writes the fields that its request names over the newest row.
LEMMA MergeStep ==
  ASSUME TypeInv, Locked, [Next]_vars, NEW r \in Request,
         pc[r] = "update_commit", pc'[r] = "audit"
  PROVE  LET was == users[Target(r)]
             is  == users'[Target(r)]
         IN  /\ req[r].roles = "keep" => is.admin = was.admin
             /\ req[r].status = "keep" => is.state = was.state
<1> USE DEF TypeInv, TypeOK, Goto
<1>1. Target(r) \in User
  BY TargetType
<1>2. PICK q \in Request : Receive(q) \/ Work(q) \/ Crash(q)
  BY DEF Next, vars
<1>3. q = r
  BY <1>2 DEF Receive, Work, Crash, Insert, UpdateSelect, UpdateCount, UpdateWrite,
     UpdateCommit, DeleteSelect, DeleteCount, DeleteRow, ResetPassword,
     DecommissionCheck, DecommissionDelete, Audit, Answer
<1>4. UpdateCommit(r)
  BY <1>2, <1>3 DEF Receive, Work, Crash, Insert, UpdateSelect, UpdateCount, UpdateWrite,
     DeleteSelect, DeleteCount, DeleteRow, ResetPassword, DecommissionCheck,
     DecommissionDelete, Audit, Answer
<1>5. QED
  BY <1>1, <1>4 DEF UpdateCommit, Patched

\* users.py: for any users and requests, a PATCH that overlaps a DELETE brings nobody
\* back, and one that overlaps a PATCH keeps the fields it does not name.
THEOREM OverlapsMergeHolds == Spec => OverlapsMerge
<1>1. TypeInv /\ AuditInv /\ [Next]_vars
        => [/\ \A u \in User : users[u].state = "deleted" => users'[u].state = "deleted"
            /\ \A r \in Request : pc[r] = "update_commit" /\ pc'[r] = "audit" =>
                 LET was == users[Target(r)]
                     is  == users'[Target(r)]
                 IN  /\ req[r].roles = "keep" => is.admin = was.admin
                     /\ req[r].status = "keep" => is.state = was.state]_vars
  BY StatesOnward, MergeStep DEF AuditInv
<1>2. QED
  BY <1>1, AuditInit, AuditStep, TypeCorrect, PTL DEF Spec, OverlapsMerge

=============================================================================
