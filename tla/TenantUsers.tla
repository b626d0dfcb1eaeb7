---------------------------- MODULE TenantUsers ----------------------------
(***************************************************************************)
(* The users of one tenant: backend/app/services/users.py behind the       *)
(* handlers of api/v1/users.py, with decommission_tenant of                *)
(* services/tenants.py.  Several requests run at once, in the four worker  *)
(* processes of infra/docker-compose.yml or in the event loop of one; each *)
(* await of a database statement is a point where another request may run. *)
(* PostgreSQL runs at READ COMMITTED: a SELECT sees committed rows only,   *)
(* and an UPDATE or DELETE waits for the row lock and then acts on the     *)
(* newest committed row.                                                   *)
(*                                                                         *)
(* Abstracted: an email is only "changed, and maybe already taken"; a      *)
(* password is not represented; a roles list is only whether it contains   *)
(* "admin".                                                                *)
(***************************************************************************)
EXTENDS Naturals, FiniteSets

CONSTANTS
  User,       \* ids of the rows this tenant can ever have
  Request,    \* slots of requests in flight; a slot is reused
  NoRequest,  \* the holder of a free row lock
  NoUser      \* the target of a free slot

ASSUME NoRequestAssumption == NoRequest \notin Request
ASSUME NoUserAssumption == NoUser \notin User

VARIABLES
  tenant,   \* "live" or "gone": the row of the tenants table
  users,    \* users[u]: the committed row of u
  rowLock,  \* rowLock[u]: the open transaction that has updated u's row
  pc,       \* pc[r]: the statement request r runs next
  req,      \* req[r]: what r was asked to do
  read,     \* read[r]: the row r selected, "existing" in the code
  others    \* others[r]: the other active admins r counted

vars == <<tenant, users, rowLock, pc, req, read, others>>
dbVars == <<tenant, users, rowLock>>

-----------------------------------------------------------------------------
(***************************************************************************)
(* Rows and requests.                                                      *)
(***************************************************************************)

\* "unused": the id was never inserted; "deleted": the row is gone for good.
RowState == {"unused", "active", "disabled", "deleted"}
Row == [state: RowState, admin: BOOLEAN]

Exists(row) == row.state \in {"active", "disabled"}
IsActiveAdmin(row) == row.state = "active" /\ row.admin
ActiveAdmins == {u \in User : IsActiveAdmin(users[u])}

Blank == [state |-> "unused", admin |-> FALSE]
Gone == [state |-> "deleted", admin |-> FALSE]

\* A PATCH sets any of roles, status and email; "keep" is None in the code.
\* An email is not recorded: any PATCH may carry one.
RolesArg == {"keep", "admin", "plain"}
StatusArg == {"keep", "active", "disabled"}
UpdateOp == [op: {"update"}, target: User,
             roles: RolesArg, status: StatusArg]
SimpleOp(name) == [op: {name}, target: User,
                   roles: {"keep"}, status: {"keep"}]
CreateOp == [op: {"create"}, target: User,
             roles: {"admin", "plain"}, status: {"active"}]
Operation == UpdateOp \cup CreateOp \cup SimpleOp("delete")
               \cup SimpleOp("reset") \cup SimpleOp("decommission")
               \cup SimpleOp("force")

\* A free slot.
Idle == [op |-> "idle", target |-> NoUser,
         roles |-> "keep", status |-> "keep"]

PC == {"idle", "insert", "update_select", "update_count", "update_write",
       "update_commit", "delete_select", "delete_count", "delete_row",
       "reset", "tenant_check", "tenant_delete", "audit"}

FirstStep(op) ==
  CASE op = "create" -> "insert"
    [] op = "update" -> "update_select"
    [] op = "delete" -> "delete_select"
    [] op = "reset"  -> "reset"
    [] op \in {"decommission", "force"} -> "tenant_check"

Target(r) == req[r].target

\* Mutant: the guard looks at demotion and forgets that disabling counts.
TakesAdminAway_DemotionOnly(row, o) == IsActiveAdmin(row) /\ o.roles = "plain"

\* The guard of update_user: an active admin is being demoted or disabled.
TakesAdminAway(row, o) ==
  /\ IsActiveAdmin(row)
  /\ o.roles = "plain" \/ o.status = "disabled"

\* Mutant: an absent field is written like a present one.
Patched_NoKeep(row, o) == [state |-> o.status, admin |-> o.roles = "admin"]

\* The columns a PATCH writes over the newest row; the others keep their value.
Patched(row, o) ==
  [state |-> IF o.status = "keep" THEN row.state ELSE o.status,
   admin |-> IF o.roles = "keep" THEN row.admin ELSE o.roles = "admin"]

NoFields(o) == o.roles = "keep" /\ o.status = "keep"

-----------------------------------------------------------------------------
(***************************************************************************)
(* Steps shared by the handlers.                                           *)
(***************************************************************************)

Goto(r, label) == pc' = [pc EXCEPT ![r] = label]

\* The handler answers: the slot is free and nothing it read is kept.
Answer(r) ==
  /\ Goto(r, "idle")
  /\ req' = [req EXCEPT ![r] = Idle]
  /\ read' = [read EXCEPT ![r] = Blank]
  /\ others' = [others EXCEPT ![r] = {}]

Unlocked(u) == rowLock[u] = NoRequest
Lock(u, r) == rowLock' = [rowLock EXCEPT ![u] = r]

Unlock(u) == rowLock' = [rowLock EXCEPT ![u] = NoRequest]

\* Mutant: the count forgets to exclude the user being changed.
OtherAdmins_All(u) == ActiveAdmins

\* _active_admin_count: the committed active admins other than the target.
OtherAdmins(u) == ActiveAdmins \ {u}

\* A request arrives at a free slot.
Receive(r) ==
  /\ pc[r] = "idle"
  /\ \E o \in Operation :
       /\ req' = [req EXCEPT ![r] = o]
       /\ Goto(r, FirstStep(o.op))
  /\ UNCHANGED <<dbVars, read, others>>

-----------------------------------------------------------------------------
(***************************************************************************)
(* create_user: one INSERT; a taken email is a unique violation (409), a   *)
(* tenant that is gone a foreign-key violation (503).                      *)
(***************************************************************************)
Insert(r) ==
  /\ pc[r] = "insert"
  /\ \/ /\ tenant = "live"
        /\ users[Target(r)].state = "unused"
        /\ users' = [users EXCEPT ![Target(r)] =
                       [state |-> "active", admin |-> req[r].roles = "admin"]]
        /\ Goto(r, "audit")
        /\ UNCHANGED <<req, read, others>>
     \/ /\ tenant = "live"
        /\ Answer(r)   \* 409
        /\ UNCHANGED users
     \/ /\ tenant = "gone"
        /\ Answer(r)   \* 503
        /\ UNCHANGED users
  /\ UNCHANGED <<tenant, rowLock>>

(***************************************************************************)
(* update_user: select, count the other admins when the guard needs it,    *)
(* then the UPDATE statements and the commit of one transaction.           *)
(***************************************************************************)
UpdateSelect(r) ==
  /\ pc[r] = "update_select"
  /\ LET row == users[Target(r)] IN
       \/ /\ ~Exists(row)
          /\ Answer(r)   \* 404
       \/ /\ Exists(row)
          /\ read' = [read EXCEPT ![r] = row]
          /\ Goto(r, IF TakesAdminAway(row, req[r])
                       THEN "update_count" ELSE "update_write")
          /\ UNCHANGED <<req, others>>
  /\ UNCHANGED dbVars

UpdateCount(r) ==
  /\ pc[r] = "update_count"
  /\ \/ /\ OtherAdmins(Target(r)) = {}
        /\ Answer(r)   \* 422
     \/ /\ OtherAdmins(Target(r)) # {}
        /\ others' = [others EXCEPT ![r] = OtherAdmins(Target(r))]
        /\ Goto(r, "update_write")
        /\ UNCHANGED <<req, read>>
  /\ UNCHANGED dbVars

\* The first UPDATE, of the email or of a field, takes the row lock; it matches
\* no row once the user is deleted.  A taken email rolls the transaction back
\* (409).  A PATCH of nothing runs no UPDATE.
UpdateWrite(r) ==
  /\ pc[r] = "update_write"
  /\ \/ /\ Exists(users[Target(r)]) /\ Unlocked(Target(r))
        /\ Lock(Target(r), r)
        /\ Goto(r, "update_commit")
        /\ UNCHANGED <<req, read, others>>
     \/ /\ NoFields(req[r]) \/ ~Exists(users[Target(r)])
        /\ Goto(r, "update_commit")
        /\ UNCHANGED <<rowLock, req, read, others>>
     \/ /\ Exists(users[Target(r)]) /\ Unlocked(Target(r))
        /\ Answer(r)   \* 409
        /\ UNCHANGED rowLock
  /\ UNCHANGED <<tenant, users>>

\* Mutant: the UPDATE became an upsert.
HasRow_Upsert(r) == rowLock[Target(r)] \in {r, NoRequest}
HasRow(r) == rowLock[Target(r)] = r

\* The remaining statements of the transaction only touch the locked row.
UpdateCommit(r) ==
  /\ pc[r] = "update_commit"
  /\ IF HasRow(r)
       THEN /\ users' = [users EXCEPT ![Target(r)] = Patched(@, req[r])]
            /\ Unlock(Target(r))
       ELSE UNCHANGED <<users, rowLock>>
  /\ Goto(r, "audit")
  /\ UNCHANGED <<tenant, req, read, others>>

(***************************************************************************)
(* delete_user: the same guard, with no transaction around it.             *)
(***************************************************************************)
DeleteSelect(r) ==
  /\ pc[r] = "delete_select"
  /\ LET row == users[Target(r)] IN
       \/ /\ ~Exists(row)
          /\ Answer(r)   \* 404
       \/ /\ Exists(row)
          /\ read' = [read EXCEPT ![r] = row]
          /\ Goto(r, IF IsActiveAdmin(row) THEN "delete_count" ELSE "delete_row")
          /\ UNCHANGED <<req, others>>
  /\ UNCHANGED dbVars

\* Mutant: the refusal is audited like a deletion.
DeleteCount_AuditFirst(r) ==
  /\ pc[r] = "delete_count"
  /\ others' = [others EXCEPT ![r] = OtherAdmins(Target(r))]
  /\ Goto(r, IF OtherAdmins(Target(r)) = {} THEN "audit" ELSE "delete_row")
  /\ UNCHANGED <<dbVars, req, read>>

DeleteCount(r) ==
  /\ pc[r] = "delete_count"
  /\ \/ /\ OtherAdmins(Target(r)) = {}
        /\ Answer(r)   \* 422
     \/ /\ OtherAdmins(Target(r)) # {}
        /\ others' = [others EXCEPT ![r] = OtherAdmins(Target(r))]
        /\ Goto(r, "delete_row")
        /\ UNCHANGED <<req, read>>
  /\ UNCHANGED dbVars

\* "DELETE 1", or "DELETE 0" when another request deleted the row first.
DeleteRow(r) ==
  /\ pc[r] = "delete_row"
  /\ \/ /\ Exists(users[Target(r)])
        /\ Unlocked(Target(r))
        /\ users' = [users EXCEPT ![Target(r)] = Gone]
     \/ /\ ~Exists(users[Target(r)])
        /\ UNCHANGED users
  /\ Goto(r, "audit")
  /\ UNCHANGED <<tenant, rowLock, req, read, others>>

(***************************************************************************)
(* reset_password: one UPDATE of a column nothing here depends on.         *)
(***************************************************************************)
ResetPassword(r) ==
  /\ pc[r] = "reset"
  /\ \/ /\ Exists(users[Target(r)]) /\ Unlocked(Target(r))
        /\ Goto(r, "audit")
        /\ UNCHANGED <<req, read, others>>
     \/ /\ ~Exists(users[Target(r)])
        /\ Answer(r)   \* 404
  /\ UNCHANGED dbVars

(***************************************************************************)
(* decommission_tenant: count the users, then (after the analytics         *)
(* cleanup, which touches none of these tables) delete the tenant row,     *)
(* whose foreign keys cascade to the users.                                *)
(***************************************************************************)
DecommissionCheck(r) ==
  /\ pc[r] = "tenant_check"
  /\ \/ /\ tenant = "gone"
        /\ Answer(r)   \* 404
     \/ /\ tenant = "live"
        /\ req[r].op = "decommission" /\ \E u \in User : Exists(users[u])
        /\ Answer(r)   \* 422
     \/ /\ tenant = "live"
        /\ req[r].op = "force" \/ \A u \in User : ~Exists(users[u])
        /\ Goto(r, "tenant_delete")
        /\ UNCHANGED <<req, read, others>>
  /\ UNCHANGED dbVars

DecommissionDelete(r) ==
  /\ pc[r] = "tenant_delete"
  /\ \A u \in User : Unlocked(u)
  /\ tenant' = "gone"
  /\ users' = [u \in User |-> IF Exists(users[u]) THEN Gone ELSE users[u]]
  /\ Goto(r, "audit")
  /\ UNCHANGED <<rowLock, req, read, others>>

(***************************************************************************)
(* record_admin_action, which may fail without failing the request, then   *)
(* the answer.                                                             *)
(***************************************************************************)
Audit(r) ==
  /\ pc[r] = "audit"
  /\ Answer(r)
  /\ UNCHANGED dbVars

\* The worker dies or its connection drops: an open transaction rolls back.
Crash(r) ==
  /\ pc[r] # "idle"
  /\ Answer(r)
  /\ rowLock' = [u \in User |-> IF rowLock[u] = r THEN NoRequest ELSE rowLock[u]]
  /\ UNCHANGED <<tenant, users>>

-----------------------------------------------------------------------------
\* provision_tenant inserts the tenant and its initial admin in one transaction.
Init ==
  /\ tenant = "live"
  /\ \E u \in User :
       users = [v \in User |->
                  IF v = u THEN [state |-> "active", admin |-> TRUE] ELSE Blank]
  /\ rowLock = [u \in User |-> NoRequest]
  /\ pc = [r \in Request |-> "idle"]
  /\ req = [r \in Request |-> Idle]
  /\ read = [r \in Request |-> Blank]
  /\ others = [r \in Request |-> {}]

Work(r) ==
  \/ Insert(r)
  \/ UpdateSelect(r) \/ UpdateCount(r) \/ UpdateWrite(r) \/ UpdateCommit(r)
  \/ DeleteSelect(r) \/ DeleteCount(r) \/ DeleteRow(r)
  \/ ResetPassword(r)
  \/ DecommissionCheck(r) \/ DecommissionDelete(r)
  \/ Audit(r)

Next == \E r \in Request : Receive(r) \/ Work(r) \/ Crash(r)

Spec == Init /\ [][Next]_vars

-----------------------------------------------------------------------------
TypeOK ==
  /\ tenant \in {"live", "gone"}
  /\ users \in [User -> Row]
  /\ rowLock \in [User -> Request \cup {NoRequest}]
  /\ pc \in [Request -> PC]
  /\ req \in [Request -> Operation \cup {Idle}]
  /\ read \in [Request -> Row]
  /\ others \in [Request -> SUBSET User]

\* users.py:11-12: "the tenant's last ACTIVE admin cannot be deleted, demoted,
\* or disabled (a tenant must always be administrable)".  It holds while one
\* request runs at a time and fails when two overlap.
Administrable == tenant = "live" => ActiveAdmins # {}

\* r is about to write from a snapshot that other requests have overtaken: its
\* target changed since it was selected, or every admin it counted is one no more.
Overtaken(r) ==
  /\ pc[r] \in {"update_commit", "delete_row"}
  /\ \/ read[r] # users[Target(r)]
     \/ others[r] # {} /\ others[r] \cap ActiveAdmins = {}

\* However many requests overlap, a live tenant loses its last active admin
\* only by the write of a request that others overtook after its guard: no
\* request, run alone from select to commit, does it (update_user,
\* delete_user).
LockoutNeedsRace ==
  [][(tenant' = "live" /\ ActiveAdmins # {} /\ ActiveAdmins' = {})
       => \E r \in Request : Overtaken(r) /\ pc'[r] # pc[r]]_vars

\* Requests of update_user and delete_user on one user merge, however they overlap:
\* a PATCH never brings back who was deleted, whichever gets the row lock first, and
\* keeps the field it does not name as an overlapping PATCH has committed it.
OverlapsMerge ==
  [][/\ \A u \in User : users[u].state = "deleted" => users'[u].state = "deleted"
     /\ \A r \in Request : pc[r] = "update_commit" /\ pc'[r] = "audit" =>
          LET was == users[Target(r)]
              is  == users'[Target(r)]
          IN  /\ req[r].roles = "keep" => is.admin = was.admin
              /\ req[r].status = "keep" => is.state = was.state]_vars

\* The row r selected is gone by the time r writes: its UPDATE or DELETE matches none.
Vanished(r) == Exists(read[r]) /\ users[Target(r)].state = "deleted"

\* r's statement has done to the rows what r was asked for.
Done(r) ==
  LET o   == req[r]
      was == users[Target(r)]
      is  == users'[Target(r)]
  IN  /\ o.op = "create" => was.state = "unused" /\ is.state = "active"
      /\ o.op = "update" => Exists(is) \/ NoFields(o)
      /\ o.op = "reset" => Exists(is)
      /\ o.op \in {"create", "update"} /\ o.roles # "keep" => is.admin = (o.roles = "admin")
      /\ o.op = "update" /\ o.status # "keep" => is.state = o.status
      /\ o.op = "delete" => Exists(was) /\ is.state = "deleted"
      /\ o.op \in {"decommission", "force"} => tenant' = "gone"

\* What record_admin_action is told happened, happens by the step that leads to it, on
\* every path of the handlers and however they overlap; except that a PATCH or a DELETE
\* is recorded as done also where another request has deleted the user since it was
\* selected, so that no row was changed (users.py:186-248, 279-320).
AuditTellsTruth ==
  [][\A r \in Request : pc[r] # "audit" /\ pc'[r] = "audit" =>
       \/ Done(r)
       \/ /\ req[r].op \in {"update", "delete"}
          /\ Vanished(r)]_vars

=============================================================================
