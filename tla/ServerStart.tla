---------------------------- MODULE ServerStart ----------------------------
(***************************************************************************)
(* Start-up and tenant admission of the server (app.rs, migrations/,       *)
(* db/db_tenants.rs).                                                      *)
(*                                                                         *)
(* bootstrap_app opens the database, moves the rows of the days before     *)
(* tenants under the configured default tenant, and only then serves.      *)
(* Every authenticated request first passes tenant_registry_layer, which   *)
(* enters its tenant into the table "tenants" or refuses it.  The process  *)
(* may end at any step and is started again, perhaps with another default  *)
(* tenant and another limit.                                               *)
(*                                                                         *)
(* A row of the table "files" is [ns, path, old]: the namespace before the *)
(* NUL of its key (None: a key without NUL), the path, and whether it      *)
(* still is the row of the days before tenants.                            *)
(***************************************************************************)
EXTENDS Naturals, FiniteSets

CONSTANTS
    Worker,         \* threads that run handlers
    Tenant,         \* tenant ids
    Path,           \* file paths
    None,           \* no namespace, no tenant, no writer
    Limit,          \* values max_tenant_count may be configured with
    MaxStarts       \* bound on the starts of the process

ASSUME NoneAssumption == None \notin Tenant \cup Worker
ASSUME LimitAssumption == Limit \subseteq Nat
ASSUME StartsAssumption == MaxStarts \in Nat
ASSUME PathAssumption == IsFiniteSet(Path)     \* a table has finitely many rows

VARIABLES
    files,      \* table "files"
    schema,     \* schema_version in table "meta"
    tenants,    \* table "tenants", as committed
    phase,      \* what bootstrap_app does next, "serving" or "down"
    list,       \* file_metas that migrate has read
    config,     \* default_tenant_id and max_tenant_count of this process
    req,        \* request of each worker: its step and tenant
    writer,     \* worker that holds the write transaction
    starts

vars == <<files, schema, tenants, phase, list, config, req, writer, starts>>
tables == <<files, schema, tenants>>

-----------------------------------------------------------------------------
(* Rows, configurations and requests *)

Row == [ns : Tenant \cup {None}, path : Path, old : BOOLEAN]
Config == [tenant : Tenant, limit : Limit]
Step == {"idle", "begin", "check", "commit", "handle", "refused"}
Request == [at : Step, tenant : Tenant \cup {None}]

Idle == [at |-> "idle", tenant |-> None]

Legacy(table) == {r \in table : r.ns = None}
Namespaced(rows, t) == {[r EXCEPT !.ns = t] : r \in rows}

WriterFree == writer = None
Goto(w, step) == req' = [req EXCEPT ![w].at = step]

-----------------------------------------------------------------------------
(* Start-up: open_db and run_migrations, before the listener exists *)

Init ==
    /\ files \in SUBSET [ns : {None}, path : Path, old : {TRUE}]
    /\ schema = 0
    /\ tenants = {}
    /\ phase = "down"
    /\ list = {}
    /\ config \in Config
    /\ req = [w \in Worker |-> Idle]
    /\ writer = None
    /\ starts = 0

(* The process starts with some configuration. *)
Start ==
    /\ phase = "down"
    /\ starts < MaxStarts
    /\ starts' = starts + 1
    /\ config' \in Config
    /\ phase' = "migrate"
    /\ UNCHANGED <<files, schema, tenants, list, req, writer>>

(* Plausible bug: version first, rows afterwards. *)
MigrateMarksFirst ==
    /\ phase = "migrate"
    /\ \/ /\ schema >= 1
          /\ phase' = "serving"
          /\ UNCHANGED <<list, schema>>
       \/ /\ schema < 1
          /\ schema' = 1
          /\ phase' = "rekey"
          /\ list' = Legacy(files)
    /\ UNCHANGED <<files, tenants, config, req, writer, starts>>

(* migrate, up to the end of its read transaction: it returns at once when *)
(* the version says that the rows are moved, and otherwise collects the    *)
(* rows whose key has no NUL.                                              *)
Migrate ==
    /\ phase = "migrate"
    /\ \/ /\ schema >= 1
          /\ phase' = "serving"
          /\ UNCHANGED list
       \/ /\ schema < 1
          /\ phase' = "rekey"
          /\ list' = Legacy(files)
    /\ UNCHANGED <<tables, config, req, writer, starts>>

(* Plausible bug: one write transaction per row. *)
RekeyRowByRow ==
    /\ phase = "rekey"
    /\ \/ \E r \in list :
            /\ files' = (files \ {r}) \cup Namespaced({r}, config.tenant)
            /\ list' = list \ {r}
            /\ UNCHANGED phase
       \/ list = {} /\ phase' = "inc" /\ UNCHANGED <<files, list>>
    /\ UNCHANGED <<schema, tenants, config, req, writer, starts>>

(* Plausible bug: the row under the old key is not removed. *)
RekeyCopies ==
    /\ phase = "rekey"
    /\ files' = files \cup Namespaced(list, config.tenant)
    /\ phase' = "inc"
    /\ list' = {}
    /\ UNCHANGED <<schema, tenants, config, req, writer, starts>>

(* The write transaction of migrate: all rows move in one commit. *)
Rekey ==
    /\ phase = "rekey"
    /\ files' = (files \ list) \cup Namespaced(list, config.tenant)
    /\ phase' = "inc"
    /\ list' = {}
    /\ UNCHANGED <<schema, tenants, config, req, writer, starts>>

(* meta::inc, a commit of its own. *)
Inc ==
    /\ phase = "inc"
    /\ schema' = schema + 1
    /\ phase' = "serving"
    /\ UNCHANGED <<files, tenants, list, config, req, writer, starts>>

(* The process ends: killed, or because start-up returned an error.  What  *)
(* is not committed is gone.                                               *)
Crash ==
    /\ phase # "down"
    /\ phase' = "down"
    /\ list' = {}
    /\ req' = [w \in Worker |-> Idle]
    /\ writer' = None
    /\ UNCHANGED <<tables, config, starts>>

-----------------------------------------------------------------------------
(* Requests *)

(* A request whose user is of tenant t reaches tenant_registry_layer.  The *)
(* static token stands for the default tenant, an OIDC subject for itself. *)
Receive(w, t) ==
    /\ phase = "serving"
    /\ req[w].at = "idle"
    /\ req' = [req EXCEPT ![w] = [at |-> "begin", tenant |-> t]]
    /\ UNCHANGED <<tables, phase, list, config, writer, starts>>

(* Plausible bug: exists and count run in a read transaction. *)
BeginAdmissionReading(w) ==
    /\ req[w].at = "begin"
    /\ UNCHANGED writer
    /\ Goto(w, "check")
    /\ UNCHANGED <<tables, phase, list, config, starts>>

(* admit_tenant waits for the write transaction ... *)
BeginAdmission(w) ==
    /\ req[w].at = "begin"
    /\ WriterFree
    /\ writer' = w
    /\ Goto(w, "check")
    /\ UNCHANGED <<tables, phase, list, config, starts>>

(* Plausible bug: the limit is compared before the tenant is looked up. *)
CheckLimitFirst(w) ==
    /\ req[w].at = "check"
    /\ \/ /\ Cardinality(tenants) >= config.limit
          /\ Goto(w, "refused")
          /\ writer' = None
       \/ /\ Cardinality(tenants) < config.limit
          /\ req[w].tenant \in tenants
          /\ Goto(w, "handle")
          /\ writer' = None
       \/ /\ Cardinality(tenants) < config.limit
          /\ req[w].tenant \notin tenants
          /\ Goto(w, "commit")
          /\ UNCHANGED writer
    /\ UNCHANGED <<tables, phase, list, config, starts>>

(* ... and looks in it for the tenant and then for a free place. *)
CheckAdmission(w) ==
    /\ req[w].at = "check"
    /\ \/ /\ req[w].tenant \in tenants
          /\ Goto(w, "handle")
          /\ writer' = None
       \/ /\ req[w].tenant \notin tenants
          /\ Cardinality(tenants) >= config.limit
          /\ Goto(w, "refused")
          /\ writer' = None
       \/ /\ req[w].tenant \notin tenants
          /\ Cardinality(tenants) < config.limit
          /\ Goto(w, "commit")
          /\ UNCHANGED writer
    /\ UNCHANGED <<tables, phase, list, config, starts>>

(* Plausible bug: the tenant is served although its record was never committed. *)
CommitAdmissionDropped(w) ==
    /\ req[w].at = "commit"
    /\ UNCHANGED tenants
    /\ writer' = None
    /\ Goto(w, "handle")
    /\ UNCHANGED <<files, schema, phase, list, config, starts>>

CommitAdmission(w) ==
    /\ req[w].at = "commit"
    /\ tenants' = tenants \cup {req[w].tenant}
    /\ writer' = None
    /\ Goto(w, "handle")
    /\ UNCHANGED <<files, schema, phase, list, config, starts>>

(* The handler behind the layer: it puts a file under the tenant's         *)
(* namespace in a write transaction, or changes no row.                    *)
Handle(w) ==
    /\ req[w].at = "handle"
    /\ \/ /\ WriterFree
          /\ \E p \in Path :
                files' = {r \in files : <<r.ns, r.path>> # <<req[w].tenant, p>>}
                    \cup {[ns |-> req[w].tenant, path |-> p, old |-> FALSE]}
       \/ UNCHANGED files
    /\ req' = [req EXCEPT ![w] = Idle]
    /\ UNCHANGED <<schema, tenants, phase, list, config, writer, starts>>

(* 403 goes back to the client. *)
Respond(w) ==
    /\ req[w].at = "refused"
    /\ req' = [req EXCEPT ![w] = Idle]
    /\ UNCHANGED <<tables, phase, list, config, writer, starts>>

(* redb returns an error: the transaction is dropped, the answer is 500. *)
Fail(w) ==
    /\ req[w].at \in {"begin", "check", "commit"}
    /\ req' = [req EXCEPT ![w] = Idle]
    /\ writer' = IF writer = w THEN None ELSE writer
    /\ UNCHANGED <<tables, phase, list, config, starts>>

-----------------------------------------------------------------------------

Boot == Start \/ Migrate \/ Rekey \/ Inc
Serve(w) == BeginAdmission(w) \/ CheckAdmission(w) \/ CommitAdmission(w)
                \/ Handle(w) \/ Respond(w)

Next ==
    \/ Boot
    \/ Crash
    \/ \E w \in Worker : Serve(w) \/ Fail(w) \/ (\E t \in Tenant : Receive(w, t))

Spec == Init /\ [][Next]_vars

-----------------------------------------------------------------------------
(* Properties *)

(* The variables hold values of their kinds, and the version never passes  *)
(* the one migration there is.                                             *)
TypeOK ==
    /\ files \subseteq Row
    /\ schema \in {0, 1}
    /\ tenants \subseteq Tenant
    /\ phase \in {"down", "migrate", "rekey", "inc", "serving"}
    /\ list \subseteq Row
    /\ config \in Config
    /\ req \in [Worker -> Request]
    /\ writer \in Worker \cup {None}
    /\ starts \in 0 .. MaxStarts

(* No request is served while a row is left that no tenant can see,        *)
(* however often the migration was interrupted.                            *)
ServedMigrated == phase = "serving" => Legacy(files) = {}

(* The rows of the days before tenants stay together: all that are moved   *)
(* belong to the same tenant, even when the migration is interrupted and   *)
(* the next start is configured with another default tenant.               *)
OldTogether ==
    \A r, s \in files :
        r.old /\ s.old /\ None \notin {r.ns, s.ns} => r.ns = s.ns

(* A row of the days before tenants leaves the table only when a request   *)
(* puts its path anew: start-up neither drops nor doubles one.             *)
OldPaths(table) == {r.path : r \in Legacy(table) \cup {x \in table : x.old}}
OldKept ==
    [][phase # "serving" => /\ OldPaths(files') = OldPaths(files)
                            /\ Cardinality(files') = Cardinality(files)]_vars

(* A request never adds a tenant when the table already holds              *)
(* max_tenant_count of them, however many first requests race.             *)
TenantLimit ==
    [][tenants' # tenants => Cardinality(tenants') <= config.limit]_vars

(* 403 is for new tenants only: a tenant that was admitted once is served  *)
(* for ever, also when the limit is lowered below the tenants there are.   *)
AdmittedServed ==
    [][\A w \in Worker :
          req[w].at # "refused" /\ req'[w].at = "refused" =>
              req[w].tenant \notin tenants']_vars

(* Every row that a request put belongs to an admitted tenant. *)
RowsOfAdmitted == \A r \in files : r.old \/ r.ns \in tenants

=============================================================================
