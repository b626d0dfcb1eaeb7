---------------------------- MODULE TenantAdmin ----------------------------
(***************************************************************************)
(* The life of a tenant in the hands of the platform's administrators:     *)
(* provisioned, patched, decommissioned, by requests that overlap.         *)
(* services/tenants.py opens a connection for each part of an operation,   *)
(* and only provisioning and updating are transactions.                    *)
(*                                                                         *)
(* All requests are about one slug.  A tenant is known by the request that *)
(* provisioned it, and a field of its row by the request that wrote it.    *)
(***************************************************************************)
EXTENDS Integers, FiniteSets

CONSTANTS
    Request,    \* of administrators, each made once: a bound
    Original,   \* the tenant that was there before
    Elsewhere,     \* the tenants of other slugs
    MaxUsers,   \* of a tenant: a bound
    AdminFaults \* what may fail: "db", "seed", "clean", "audit"

ASSUME AdminAssumption ==
    /\ Original \notin Request /\ Elsewhere \notin Request \cup {Original} /\ MaxUsers \in Nat
    /\ AdminFaults \subseteq {"db", "seed", "clean", "audit"}

VARIABLES
    tenant,  \* the row of tenants, or Gone
    users,   \* how many users the tenant has
    sales,   \* the tenants with rows in the analytics tables
    audited, \* the requests with a row in admin_audit
    req,     \* req[r]: where the request is, and what it knows
    effect   \* effect[r]: what the request did, and what went wrong for it

adminVars == <<tenant, users, sales, audited, req, effect>>

Columns == {"name", "status", "settings"}
Tenant(id) == [id |-> id, by |-> [f \in Columns |-> id]]
Gone == Tenant(Elsewhere)
\* What a PATCH holds: "taken" is a new name that another tenant has.
Patches == {p \in SUBSET (Columns \cup {"taken"}) : ~({"name", "taken"} \subseteq p)}
Asks(op, pc, id, patch) ==
    [op |-> op, pc |-> pc, target |-> id, patch |-> patch, unset |-> FALSE, told |-> "none"]
New == Asks("none", "new", Original, {})

AdminInit ==
    /\ tenant \in {Tenant(Original), Gone} /\ users \in {0, 1}
    /\ (tenant = Gone => users = 0)
    /\ sales \in {{Elsewhere}, {Elsewhere, Original}}
    /\ (tenant = Gone => Original \notin sales)
    /\ audited = {} /\ req = [r \in Request |-> New] /\ effect = [r \in Request |-> {}]

Go(r, pc) == req' = [req EXCEPT ![r].pc = pc]
Tell(r, what) == req' = [req EXCEPT ![r].pc = "end", ![r].told = what]
Note(r, what) == effect' = [effect EXCEPT ![r] = @ \cup what]
IsThere(id) == tenant.id = id

\* A connection fails wherever a request opens one, and its endpoint answers 503.
AdminDbFails(r) ==
    /\ req[r].pc \notin {"new", "end", "audit", "seed"} /\ "db" \in AdminFaults
    /\ Tell(r, "unavailable") /\ Note(r, {"outage"})
    /\ UNCHANGED <<tenant, users, sales, audited>>
\* The administrator's action is recorded, or that fails and is swallowed.
RecordAction(r) ==
    /\ req[r].pc = "audit"
    /\ \/ audited' = audited \cup {r} /\ UNCHANGED effect
       \/ "audit" \in AdminFaults /\ UNCHANGED audited /\ Note(r, {"unaudited"})
    /\ CASE req[r].op = "provision" -> Tell(r, "created")
         [] req[r].op = "update" -> Go(r, "detail")
         [] OTHER -> Tell(r, IF "done" \in effect[r] THEN "deleted" ELSE "missing")
    /\ UNCHANGED <<tenant, users, sales>>

-----------------------------------------------------------------------------
Provision(r) ==
    /\ req[r].pc = "new"
    /\ \E p \in {{}, {"taken"}} : req' = [req EXCEPT ![r] = Asks("provision", "insert", r, p)]
    /\ UNCHANGED <<tenant, users, sales, audited, effect>>
\* The tenant and its first user, in one transaction.
InsertTenant(r) ==
    /\ req[r].pc = "insert"
    /\ IF tenant = Gone /\ "taken" \notin req[r].patch
       THEN /\ tenant' = Tenant(r) /\ users' = 1 /\ Note(r, {"done"})
            /\ \E pc \in {"seed", "audit"} : Go(r, pc)
       ELSE Tell(r, "exists") /\ UNCHANGED <<tenant, users, effect>>
    /\ UNCHANGED <<sales, audited>>
\* The tenant was deleted meanwhile, or its rows were cleaned and it will be.
Belated(r) ==
    ~IsThere(r) \/ \E q \in Request : req[q].pc = "delete" /\ req[q].target = r
\* The rows carry the tenant's id, which no constraint ties to the tenant.
SeedSampleData(r) ==
    /\ req[r].pc = "seed" /\ Go(r, "audit")
    /\ \/ sales' = sales \cup {r} /\ Note(r, {"seeded"} \cup IF Belated(r) THEN {"belated"} ELSE {})
       \/ AdminFaults \cap {"seed", "db"} # {} /\ UNCHANGED <<sales, effect>>
    /\ UNCHANGED <<tenant, users, audited>>

-----------------------------------------------------------------------------
UpdateTenantRequest(r) ==
    /\ req[r].pc = "new"
    /\ \E id \in {Original} \cup Request, p \in Patches :
         req' = [req EXCEPT ![r] = Asks("update", "select", id, p)]
    /\ UNCHANGED <<tenant, users, sales, audited, effect>>
\* The settings of a new tenant are NULL: nobody's.
SelectExisting(r) ==
    /\ req[r].pc = "select"
    /\ IF IsThere(req[r].target)
       THEN req' = [req EXCEPT ![r].pc = "write", ![r].unset = tenant.by["settings"] = tenant.id]
       ELSE Tell(r, "missing")
    /\ UNCHANGED <<tenant, users, sales, audited, effect>>
\* tenants.name is unique.
Collides(r) == IsThere(req[r].target) /\ "taken" \in req[r].patch
\* Settings that are not NULL are read as text, and dict() of a text raises.
Unmerged(r) == "settings" \in req[r].patch /\ ~req[r].unset
\* A bug: the fields are written one by one, and not in a transaction.
RolledBack_Named(r) ==
    IF IsThere(req[r].target) /\ "name" \in req[r].patch THEN [tenant EXCEPT !.by["name"] = r]
    ELSE tenant
\* Whatever raises, the fields written before it are rolled back.
RolledBack(r) == tenant
\* Another request has read the settings and will write its own over these.
Overlaps(r) ==
    /\ "settings" \in req[r].patch
    /\ \E q \in Request \ {r} : /\ req[q].pc = "write" /\ req[q].target = req[r].target
                                /\ "settings" \in req[q].patch
\* Name, status and settings, each if the patch has it: the settings go over what was
\* read, which must have been NULL.
WriteTenant(r) ==
    /\ req[r].pc = "write"
    /\ IF Collides(r) \/ Unmerged(r)
       THEN /\ tenant' = RolledBack(r) /\ Tell(r, "unavailable")
            /\ Note(r, IF Collides(r) THEN {"collided"} ELSE {"unmerged"})
       ELSE /\ Go(r, "audit")
            /\ IF IsThere(req[r].target)
               THEN /\ tenant' = [tenant EXCEPT !.by =
                         [f \in Columns |-> IF f \in req[r].patch THEN r ELSE tenant.by[f]]]
                    /\ Note(r, {"done"} \cup IF Overlaps(r) THEN {"overlapped"} ELSE {})
               ELSE UNCHANGED tenant /\ Note(r, {"late"})
    /\ UNCHANGED <<users, sales, audited>>
\* The answer is read once more.
ReadDetail(r) ==
    /\ req[r].pc = "detail"
    /\ Tell(r, IF IsThere(req[r].target) THEN "ok" ELSE "missing")
    /\ UNCHANGED <<tenant, users, sales, audited, effect>>

-----------------------------------------------------------------------------
Decommission(r) ==
    /\ req[r].pc = "new"
    /\ \E id \in {Original} \cup Request, op \in {"delete", "force"} :
         req' = [req EXCEPT ![r] = Asks(op, "count", id, {})]
    /\ UNCHANGED <<tenant, users, sales, audited, effect>>
CountUsers(r) ==
    /\ req[r].pc = "count"
    /\ CASE ~IsThere(req[r].target) -> Tell(r, "missing")
         [] IsThere(req[r].target) /\ users > 0 /\ req[r].op # "force" -> Tell(r, "not empty")
         [] OTHER -> Go(r, "clean")
    /\ UNCHANGED <<tenant, users, sales, audited, effect>>
\* The DELETEs name no tenant, and row security does not bind the owner, a superuser:
\* the rows of every tenant go.  A table at a time, each of which may fail unnoticed.
CleanAnalytics(r) ==
    /\ req[r].pc = "clean" /\ Go(r, "delete")
    /\ \/ /\ sales' = {}
          /\ Note(r, {"cleaned"} \cup IF sales \subseteq {req[r].target} THEN {} ELSE {"swept"})
       \/ "clean" \in AdminFaults /\ UNCHANGED sales /\ Note(r, {"uncleaned"})
    /\ UNCHANGED <<tenant, users, audited>>
DeleteTenant(r) ==
    /\ req[r].pc = "delete" /\ Go(r, "audit")
    /\ IF IsThere(req[r].target)
       THEN /\ tenant' = Gone /\ users' = 0
            /\ Note(r, {"done"} \cup IF users > 0 THEN {"emptied"} ELSE {})
       ELSE UNCHANGED <<tenant, users>> /\ Note(r, {"late"})
    /\ UNCHANGED <<sales, audited>>

\* The tenant's own admin adds a user.
UserJoins ==
    /\ tenant # Gone /\ users < MaxUsers
    /\ users' = users + 1
    /\ effect' = [r \in Request |->
         IF req[r].op = "delete" /\ req[r].pc \in {"clean", "delete"} /\ IsThere(req[r].target)
         THEN effect[r] \cup {"joined"} ELSE effect[r]]
    /\ UNCHANGED <<tenant, sales, audited, req>>

AdminNext ==
    \/ \E r \in Request :
         \/ Provision(r) \/ InsertTenant(r) \/ SeedSampleData(r)
         \/ UpdateTenantRequest(r) \/ SelectExisting(r) \/ WriteTenant(r) \/ ReadDetail(r)
         \/ Decommission(r) \/ CountUsers(r) \/ CleanAnalytics(r) \/ DeleteTenant(r)
         \/ RecordAction(r) \/ AdminDbFails(r)
    \/ UserJoins
AdminSpec == AdminInit /\ [][AdminNext]_adminVars

-----------------------------------------------------------------------------
Hit(r, what) == effect[r] \cap what # {}

\* A field that was patched is this request's, or that of another that patched it; the
\* settings are this request's, unless another had read them before they were set.
Holds(r, f) ==
    LET writer == tenant.by[f] IN
    /\ writer \in Request /\ f \in req[writer].patch /\ Hit(writer, {"done"})
    /\ f = "settings" => writer = r \/ Hit(r, {"overlapped"})
\* An update that is confirmed is in the row until the tenant is gone.  One that failed
\* changed nothing, unless it was the answer that failed; and it fails for an outage,
\* for a name that is taken, or for settings that were set before.
UpdateIsTold(r) ==
    /\ req[r].told = "ok" /\ IsThere(req[r].target) =>
         \A f \in req[r].patch \cap Columns : Holds(r, f)
    /\ req[r].told = "unavailable" =>
         /\ \/ Hit(r, {"outage"})
            \/ Hit(r, {"collided"}) /\ "taken" \in req[r].patch
            \/ Hit(r, {"unmerged"}) /\ "settings" \in req[r].patch
         /\ Hit(r, {"done"}) \/ \A f \in Columns : tenant.by[f] # r
    /\ Hit(r, {"done"}) => req[r].pc # "end" \/ r \in audited \/ Hit(r, {"unaudited"})
\* A tenant that is deleted leaves no users and no rows behind, and without "force" it
\* had none, unless a user came, a row stayed or its rows came late.  An answer that
\* refuses or misses the tenant, or an outage, has not deleted it; the rows, of every
\* tenant, may be gone after an outage or when another was faster, never after a refusal.
DecommissionIsTold(r) ==
    LET id == req[r].target IN
    /\ req[r].told = "deleted" =>
         /\ ~IsThere(id)
         /\ id \in sales => Hit(r, {"uncleaned"}) \/ (id \in Request /\ Hit(id, {"belated"}))
         /\ req[r].op # "force" /\ Hit(r, {"emptied"}) => Hit(r, {"joined"})
         /\ r \in audited \/ Hit(r, {"unaudited"})
    /\ req[r].told \in {"missing", "not empty", "unavailable"} =>
         /\ ~Hit(r, {"done"})
         /\ Hit(r, {"cleaned"}) => Hit(r, {"late", "outage"})
ProvisionIsTold(r) ==
    req[r].told = "created" => r \in audited \/ Hit(r, {"unaudited"})
\* Rows in the analytics tables, of a tenant that was seeded or of other tenants, go
\* only in a decommissioning of their tenant or in one of any tenant that swept them.
RowsStay ==
    \A id \in ({Elsewhere} \cup {r \in Request : Hit(r, {"seeded"})}) \ sales :
        \E r \in Request :
            Hit(r, {"swept"}) \/ (Hit(r, {"cleaned"}) /\ req[r].target = id)

(***************************************************************************)
(* What an administrator is told of an operation is what became of the     *)
(* tenant and of the rows of every tenant, up to the races, the sweeps and *)
(* the failures named above.                                               *)
(***************************************************************************)
TenantsTold ==
    /\ RowsStay
    /\ \A r \in Request :
         CASE req[r].op = "update" -> UpdateIsTold(r)
           [] req[r].op \in {"delete", "force"} -> DecommissionIsTold(r)
           [] OTHER -> ProvisionIsTold(r)
=============================================================================
