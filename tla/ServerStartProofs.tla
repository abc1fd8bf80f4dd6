------------------------- MODULE ServerStartProofs -------------------------
(***************************************************************************)
(* Proofs about ServerStart, for any number of workers, tenants, paths and *)
(* starts: what serves is migrated and in one namespace, and the table     *)
(* "tenants" never outgrows the limit, refuses nobody it holds, and holds  *)
(* the tenant of every row.                                                *)
(***************************************************************************)
EXTENDS ServerStart, FiniteSetTheorems, TLAPS

(* Where the rows are, at each step of start-up. *)
BootInv ==
    /\ schema = 1 => Legacy(files) = {}
    /\ phase = "rekey" => schema = 0 /\ list = Legacy(files)
    /\ phase = "inc" => schema = 0 /\ Legacy(files) = {}
    /\ phase = "serving" => schema = 1

(* Rows without a namespace are old, and all old rows share one. *)
OldInv ==
    /\ \A r \in files : r.ns = None => r.old
    /\ \A r, s \in files : r.old /\ s.old => r.ns = s.ns

(* What a request knows at each step of admit_tenant. *)
AdmissionInv ==
    /\ IsFiniteSet(tenants)
    /\ \A w \in Worker :
        /\ req[w].at \in {"check", "commit"} <=> writer = w
        /\ req[w].at # "idle" => req[w].tenant \in Tenant /\ phase = "serving"
        /\ req[w].at = "commit" =>
              req[w].tenant \notin tenants /\ Cardinality(tenants) < config.limit
        /\ req[w].at = "handle" => req[w].tenant \in tenants

IInv == TypeOK /\ BootInv /\ OldInv /\ AdmissionInv /\ RowsOfAdmitted

-----------------------------------------------------------------------------

(* The database of a first start satisfies the invariant. *)
LEMMA InitInv == Init => IInv
  <1> SUFFICES ASSUME Init PROVE IInv
    OBVIOUS
  <1> USE DEF Init, Row, Config, Request, Idle, Step
  <1>1. TypeOK
    <2>1. files \subseteq Row
      OBVIOUS
    <2>2. req \in [Worker -> Request]
      OBVIOUS
    <2> QED
      BY <2>1, <2>2, StartsAssumption DEF TypeOK
  <1>2. BootInv
    BY DEF BootInv
  <1>3. OldInv
    BY DEF OldInv
  <1>4. AdmissionInv
    BY NoneAssumption, FS_EmptySet DEF AdmissionInv
  <1>5. RowsOfAdmitted
    BY DEF RowsOfAdmitted
  <1> QED
    BY <1>1, <1>2, <1>3, <1>4, <1>5 DEF IInv

(* Start-up keeps the invariant: rows move together, and the version is    *)
(* raised only when none is left.                                          *)
LEMMA BootKeepsInv == IInv /\ Boot => IInv'
  <1> SUFFICES ASSUME IInv, Boot PROVE IInv'
    OBVIOUS
  <1> USE DEF IInv
  <1>1. CASE Start
    <2> USE <1>1 DEF Start
    <2>1. TypeOK'
      BY StartsAssumption DEF TypeOK
    <2>2. BootInv'
      BY DEF BootInv
    <2>3. OldInv'
      BY DEF OldInv
    <2>4. AdmissionInv'
      BY DEF AdmissionInv, TypeOK, Request
    <2>5. RowsOfAdmitted'
      BY DEF RowsOfAdmitted
    <2> QED
      BY <2>1, <2>2, <2>3, <2>4, <2>5
  <1>2. CASE Migrate
    <2> USE <1>2 DEF Migrate, tables
    <2>1. TypeOK'
      BY DEF TypeOK, Legacy
    <2>2. BootInv'
      BY DEF BootInv, TypeOK
    <2>3. OldInv'
      BY DEF OldInv
    <2>4. AdmissionInv'
      BY DEF AdmissionInv, TypeOK, Request
    <2>5. RowsOfAdmitted'
      BY DEF RowsOfAdmitted
    <2> QED
      BY <2>1, <2>2, <2>3, <2>4, <2>5
  <1>3. CASE Rekey
    <2> USE <1>3 DEF Rekey
    <2> DEFINE t == config.tenant
               moved == Namespaced(list, t)
    <2>1. list = Legacy(files) /\ schema = 0
      BY DEF BootInv
    <2>2. t \in Tenant /\ t # None
      BY NoneAssumption DEF TypeOK, Config
    <2>3. ASSUME NEW r \in moved
          PROVE  /\ r.ns = t /\ r.old /\ r \in Row
                 /\ \E s \in files : s.ns = None /\ s.old
      <3>1. PICK s \in list : r = [s EXCEPT !.ns = t]
        BY DEF Namespaced
      <3>2. s \in files /\ s.ns = None /\ s.old /\ s \in Row
        BY <2>1, <3>1 DEF Legacy, OldInv, TypeOK
      <3> QED
        BY <2>2, <3>1, <3>2 DEF Row
    <2>4. TypeOK'
      BY <2>3 DEF TypeOK
    <2>5. \A r \in files' : r.ns # None
      BY <2>1, <2>2, <2>3 DEF Legacy
    <2>6. BootInv'
      BY <2>1, <2>5 DEF BootInv, Legacy
    <2>7. ASSUME NEW r \in files', NEW s \in files', r.old, s.old
          PROVE  r.ns = s.ns
      <3>1. CASE list = {}
        BY <2>7, <3>1 DEF OldInv, Namespaced
      <3>2. CASE list # {}
        <4>1. PICK x \in files : x.ns = None /\ x.old
          BY <2>1, <3>2 DEF Legacy, OldInv
        <4>2. \A y \in files : y.old => y \in list
          BY <2>1, <4>1 DEF OldInv, Legacy
        <4> QED
          BY <2>3, <2>7, <4>2
      <3> QED
        BY <3>1, <3>2
    <2>8. OldInv'
      BY <2>5, <2>7 DEF OldInv
    <2>9. AdmissionInv'
      BY DEF AdmissionInv, TypeOK, Request
    <2>10. RowsOfAdmitted'
      BY <2>3 DEF RowsOfAdmitted
    <2> QED
      BY <2>4, <2>6, <2>8, <2>9, <2>10
  <1>4. CASE Inc
    <2> USE <1>4 DEF Inc
    <2>1. TypeOK'
      BY DEF TypeOK, BootInv
    <2>2. BootInv'
      BY DEF BootInv
    <2>3. OldInv'
      BY DEF OldInv
    <2>4. AdmissionInv'
      BY DEF AdmissionInv, TypeOK, Request
    <2>5. RowsOfAdmitted'
      BY DEF RowsOfAdmitted
    <2> QED
      BY <2>1, <2>2, <2>3, <2>4, <2>5
  <1> QED
    BY <1>1, <1>2, <1>3, <1>4 DEF Boot

(* A crash only forgets what is not committed. *)
LEMMA CrashKeepsInv == IInv /\ Crash => IInv'
  <1> SUFFICES ASSUME IInv, Crash PROVE IInv'
    OBVIOUS
  <1> USE DEF IInv, Crash, tables
  <1>1. TypeOK'
    BY DEF TypeOK, Request, Idle, Step
  <1>2. BootInv'
    BY DEF BootInv
  <1>3. OldInv'
    BY DEF OldInv
  <1>4. AdmissionInv'
    BY NoneAssumption DEF AdmissionInv, Idle
  <1>5. RowsOfAdmitted'
    BY DEF RowsOfAdmitted
  <1> QED
    BY <1>1, <1>2, <1>3, <1>4, <1>5

(* What start-up established survives every step that leaves the rows, the *)
(* version and the phase alone.                                            *)
LEMMA BootFrame ==
    ASSUME BootInv, OldInv, UNCHANGED <<files, schema, phase, list>>
    PROVE  BootInv' /\ OldInv'
  BY DEF BootInv, OldInv, Legacy

(* Every step of a handler keeps the invariant. *)
LEMMA ServeKeepsInv ==
    ASSUME IInv, NEW w \in Worker,
           Serve(w) \/ Fail(w) \/ (\E t \in Tenant : Receive(w, t))
    PROVE  IInv'
  <1> USE DEF IInv, tables
  <1>0. req[w] \in Request /\ writer \in Worker \cup {None} /\ w # None
    BY NoneAssumption DEF TypeOK
  <1>1. CASE \E t \in Tenant : Receive(w, t)
    <2>1. PICK t \in Tenant : Receive(w, t)
      BY <1>1
    <2> USE <2>1 DEF Receive
    <2>2. TypeOK'
      BY DEF TypeOK, Request, Step
    <2>3. AdmissionInv'
      BY DEF AdmissionInv, TypeOK, Request
    <2>4. RowsOfAdmitted'
      BY DEF RowsOfAdmitted
    <2> QED
      BY <2>2, <2>3, <2>4, BootFrame
  <1>2. CASE BeginAdmission(w)
    <2> USE <1>2 DEF BeginAdmission, Goto, WriterFree
    <2>1. TypeOK'
      BY DEF TypeOK, Request, Step
    <2>2. AdmissionInv'
      BY <1>0, NoneAssumption DEF AdmissionInv, TypeOK, Request
    <2>3. RowsOfAdmitted'
      BY DEF RowsOfAdmitted
    <2> QED
      BY <2>1, <2>2, <2>3, BootFrame
  <1>3. CASE CheckAdmission(w)
    <2> USE <1>3 DEF CheckAdmission, Goto
    <2>1. TypeOK'
      BY DEF TypeOK, Request, Step
    <2>2. AdmissionInv'
      BY <1>0, NoneAssumption DEF AdmissionInv, TypeOK, Request
    <2>3. RowsOfAdmitted'
      BY DEF RowsOfAdmitted
    <2> QED
      BY <2>1, <2>2, <2>3, BootFrame
  <1>4. CASE CommitAdmission(w)
    <2> USE <1>4 DEF CommitAdmission, Goto
    <2>1. writer = w /\ req[w].tenant \in Tenant
      BY DEF AdmissionInv
    <2>2. TypeOK'
      BY <2>1 DEF TypeOK, Request, Step
    <2>3. IsFiniteSet(tenants')
      BY FS_AddElement DEF AdmissionInv
    <2>4. AdmissionInv'
      BY <1>0, <2>1, <2>3, NoneAssumption DEF AdmissionInv, TypeOK, Request
    <2>5. RowsOfAdmitted'
      BY DEF RowsOfAdmitted
    <2> QED
      BY <2>2, <2>4, <2>5, BootFrame
  <1>5. CASE Handle(w)
    <2> USE <1>5 DEF Handle
    <2>1. req[w].tenant \in tenants /\ req[w].tenant \in Tenant /\ schema = 1
      BY DEF AdmissionInv, BootInv
    <2> DEFINE put(p) == [ns |-> req[w].tenant, path |-> p, old |-> FALSE]
    <2>2. \A r \in files' : r \in files \/ \E p \in Path : r = put(p)
      OBVIOUS
    <2>3. \A p \in Path : put(p) \in Row /\ put(p).ns # None /\ ~put(p).old
      BY <2>1, NoneAssumption DEF Row
    <2>4. TypeOK'
      BY <2>2, <2>3 DEF TypeOK, Request, Idle, Step
    <2>5. BootInv'
      BY <2>1, <2>2, <2>3 DEF BootInv, Legacy
    <2>6. OldInv'
      BY <2>2, <2>3 DEF OldInv
    <2>7. AdmissionInv'
      BY <1>0 DEF AdmissionInv, TypeOK, Request, Idle
    <2>8. RowsOfAdmitted'
      BY <2>1, <2>2 DEF RowsOfAdmitted
    <2> QED
      BY <2>4, <2>5, <2>6, <2>7, <2>8
  <1>6. CASE Respond(w)
    <2> USE <1>6 DEF Respond
    <2>1. TypeOK'
      BY DEF TypeOK, Request, Idle, Step
    <2>2. AdmissionInv'
      BY <1>0 DEF AdmissionInv, TypeOK, Request, Idle
    <2>3. RowsOfAdmitted'
      BY DEF RowsOfAdmitted
    <2> QED
      BY <2>1, <2>2, <2>3, BootFrame
  <1>7. CASE Fail(w)
    <2> USE <1>7 DEF Fail
    <2>1. TypeOK'
      BY DEF TypeOK, Request, Idle, Step
    <2>2. AdmissionInv'
      BY <1>0, NoneAssumption DEF AdmissionInv, TypeOK, Request, Idle
    <2>3. RowsOfAdmitted'
      BY DEF RowsOfAdmitted
    <2> QED
      BY <2>1, <2>2, <2>3, BootFrame
  <1> QED
    BY <1>1, <1>2, <1>3, <1>4, <1>5, <1>6, <1>7 DEF Serve

(* Every step keeps the invariant. *)
LEMMA StepInv == IInv /\ [Next]_vars => IInv'
  <1> SUFFICES ASSUME IInv, [Next]_vars PROVE IInv'
    OBVIOUS
  <1>1. CASE UNCHANGED vars
    BY <1>1 DEF IInv, vars, TypeOK, BootInv, OldInv, AdmissionInv, RowsOfAdmitted,
                Legacy
  <1> QED
    BY <1>1, BootKeepsInv, CrashKeepsInv, ServeKeepsInv DEF Next

(* The invariant holds in every reachable state. *)
THEOREM Invariance == Spec => []IInv
  BY InitInv, StepInv, PTL DEF Spec

-----------------------------------------------------------------------------

(* Variables keep their kinds, and the schema version never passes 1. *)
THEOREM StartTypeCorrect == Spec => []TypeOK
  <1>1. IInv => TypeOK
    BY DEF IInv
  <1> QED
    BY Invariance, <1>1, PTL

(* The server never serves while a row is without a namespace, wherever    *)
(* earlier starts were interrupted.                                        *)
THEOREM ServesMigrated == Spec => []ServedMigrated
  <1>1. IInv => ServedMigrated
    BY DEF IInv, BootInv, ServedMigrated
  <1> QED
    BY Invariance, <1>1, PTL

(* The rows of the days before tenants end up under one tenant. *)
THEOREM OldRowsTogether == Spec => []OldTogether
  <1>1. IInv => OldTogether
    BY DEF IInv, OldInv, OldTogether
  <1> QED
    BY Invariance, <1>1, PTL

(* A request leaves rows only under tenants that were admitted. *)
THEOREM RowsAreOfAdmitted == Spec => []RowsOfAdmitted
  <1>1. IInv => RowsOfAdmitted
    BY DEF IInv
  <1> QED
    BY Invariance, <1>1, PTL

(* A tenant is added only in CommitAdmission, whose worker has held the    *)
(* write transaction since it counted: racing first requests never take    *)
(* the table past the configured limit.                                    *)
THEOREM LimitKept == Spec => TenantLimit
  <1>1. IInv /\ [Next]_vars =>
            [tenants' # tenants => Cardinality(tenants') <= config.limit]_vars
    <2> SUFFICES ASSUME IInv, Next, tenants' # tenants
                 PROVE  Cardinality(tenants') <= config.limit
      BY DEF vars
    <2>1. PICK w \in Worker : CommitAdmission(w)
      BY DEF Next, Boot, Start, Migrate, Rekey, Inc, Crash, Serve, Fail, Receive,
             BeginAdmission, CheckAdmission, Handle, Respond, tables
    <2>2. /\ IsFiniteSet(tenants)
          /\ req[w].tenant \notin tenants
          /\ Cardinality(tenants) < config.limit
      BY <2>1 DEF IInv, AdmissionInv, CommitAdmission
    <2>3. Cardinality(tenants') = Cardinality(tenants) + 1
      BY <2>1, <2>2, FS_AddElement DEF CommitAdmission
    <2>4. config.limit \in Nat /\ Cardinality(tenants) \in Nat
      BY <2>2, FS_CardinalityType, LimitAssumption DEF IInv, TypeOK, Config
    <2> QED
      BY <2>2, <2>3, <2>4
  <1> QED
    BY Invariance, <1>1, PTL DEF Spec, TenantLimit

(* Nobody who was admitted is refused, whatever the limit is now. *)
THEOREM AdmittedIsServed == Spec => AdmittedServed
  <1> DEFINE A == \A w \in Worker :
                    req[w].at # "refused" /\ req'[w].at = "refused" =>
                        req[w].tenant \notin tenants'
  <1>1. IInv /\ [Next]_vars => [A]_vars
    <2> SUFFICES ASSUME IInv, Next, NEW w \in Worker,
                        req[w].at # "refused", req'[w].at = "refused"
                 PROVE  req[w].tenant \notin tenants'
      BY DEF vars
    <2>1. CheckAdmission(w)
      BY DEF IInv, TypeOK, Request, Next, Boot, Start, Migrate, Rekey, Inc, Crash,
             Serve, Fail, Receive, BeginAdmission, CheckAdmission, CommitAdmission,
             Handle, Respond, Goto, Idle
    <2> QED
      BY <2>1 DEF CheckAdmission, Goto, IInv, TypeOK, Request, tables
  <1> QED
    BY Invariance, <1>1, PTL DEF Spec, AdmittedServed

-----------------------------------------------------------------------------
(* Old rows are kept.  A first start finds old rows only, and they move in  *)
(* one commit: rows without a namespace and rows with one never meet, so    *)
(* that no row is moved onto another one.                                   *)

Apart == Legacy(files) = {} \/ files = Legacy(files)

LEMMA ApartInit == Init => Apart
  BY DEF Init, Apart, Legacy

(* Only the migration and the handlers change the table. *)
LEMMA FilesChange ==
    ASSUME IInv, Next
    PROVE  \/ files' = files
           \/ Rekey /\ list = Legacy(files) /\ phase # "serving"
           \/ \E w \in Worker : Handle(w) /\ phase = "serving" /\ Legacy(files) = {}
                                /\ req[w].tenant \in Tenant
  <1>1. CASE Rekey
    BY <1>1 DEF Rekey, IInv, BootInv
  <1>2. CASE \E w \in Worker : Handle(w)
    BY <1>2 DEF Handle, IInv, BootInv, AdmissionInv
  <1> QED
    BY <1>1, <1>2 DEF Next, Boot, Start, Migrate, Inc, Crash, Serve, Fail, Receive,
                      BeginAdmission, CheckAdmission, CommitAdmission, Respond, tables

LEMMA ApartStep == IInv /\ Apart /\ [Next]_vars => Apart'
  <1> SUFFICES ASSUME IInv, Apart, Next PROVE Apart'
    BY DEF vars, Apart, Legacy
  <1>1. CASE files' = files
    BY <1>1 DEF Apart, Legacy
  <1>2. CASE Rekey /\ list = Legacy(files)
    <2>1. config.tenant # None
      BY NoneAssumption DEF IInv, TypeOK, Config
    <2>2. \A r \in Namespaced(list, config.tenant) : r.ns = config.tenant
      BY <1>2 DEF Namespaced, Legacy, IInv, TypeOK, Row
    <2>3. Legacy(files') = {}
      BY <1>2, <2>1, <2>2 DEF Rekey, Legacy
    <2> QED
      BY <2>3 DEF Apart, Legacy
  <1>3. CASE \E w \in Worker : Handle(w) /\ Legacy(files) = {} /\ req[w].tenant \in Tenant
    <2>1. PICK w \in Worker : Handle(w) /\ Legacy(files) = {} /\ req[w].tenant \in Tenant
      BY <1>3
    <2>2. req[w].tenant # None
      BY <2>1, NoneAssumption
    <2>3. \A r \in files' : r \in files \/ r.ns = req[w].tenant
      BY <2>1 DEF Handle
    <2>4. Legacy(files') = {}
      BY <2>1, <2>2, <2>3 DEF Legacy
    <2> QED
      BY <2>4 DEF Apart, Legacy
  <1> QED
    BY <1>1, <1>2, <1>3, FilesChange

(* To move old rows neither loses nor merges any. *)
LEMMA MovedRows ==
    ASSUME NEW S \in SUBSET Row, \A r \in S : r.ns = None /\ r.old, NEW t \in Tenant
    PROVE  /\ {r.path : r \in Namespaced(S, t)} = {r.path : r \in S}
           /\ \A r \in Namespaced(S, t) : r.ns = t /\ r.old
           /\ Cardinality(Namespaced(S, t)) = Cardinality(S)
  <1> DEFINE T == Namespaced(S, t)
             moved == [r \in S |-> [r EXCEPT !.ns = t]]
             pathOf == [r \in S |-> r.path]
  <1>1. \A r \in S : /\ [r EXCEPT !.ns = t].ns = t
                     /\ [r EXCEPT !.ns = t].path = r.path
                     /\ [r EXCEPT !.ns = t].old = r.old
    BY DEF Row
  <1>2. \A r, s \in S : r.path = s.path => r = s
    BY DEF Row
  <1>3. IsFiniteSet(S)
    <2>1. pathOf \in [S -> Path] /\ IsInjective(pathOf)
      BY <1>2 DEF Row, IsInjective
    <2> QED
      BY <2>1, FS_Injection, PathAssumption DEF Injection
  <1>4. moved \in Bijection(S, T)
    <2>1. moved \in [S -> T] /\ \A x \in T : \E r \in S : moved[r] = x
      BY DEF Namespaced
    <2>2. \A r \in S : moved[r].path = r.path
      BY <1>1
    <2> HIDE DEF moved, T
    <2>3. \A r, s \in S : moved[r] = moved[s] => r = s
      BY <1>2, <2>2
    <2> QED
      BY <2>1, <2>3 DEF Bijection, Injection, Surjection, IsInjective
  <1>5. Cardinality(T) = Cardinality(S)
    BY <1>3, <1>4, FS_Bijection DEF ExistsBijection
  <1>6. \A x \in T : \E r \in S : x.path = r.path /\ x.ns = t /\ x.old
    BY <1>1 DEF Namespaced
  <1>7. \A r \in S : \E x \in T : x.path = r.path
    BY <1>1 DEF Namespaced
  <1> HIDE DEF T
  <1>8. {r.path : r \in T} = {r.path : r \in S}
    BY <1>6, <1>7
  <1> QED
    BY <1>5, <1>6, <1>8 DEF T

(* Start-up neither drops nor doubles a row of the days before tenants. *)
THEOREM OldRowsKept == Spec => OldKept
  <1> DEFINE A == phase # "serving" => /\ OldPaths(files') = OldPaths(files)
                                       /\ Cardinality(files') = Cardinality(files)
  <1>1. IInv /\ Apart /\ [Next]_vars => [A]_vars
    <2> SUFFICES ASSUME IInv, Apart, Next, phase # "serving"
                 PROVE  /\ OldPaths(files') = OldPaths(files)
                        /\ Cardinality(files') = Cardinality(files)
      OBVIOUS
    <2>1. CASE files' = files
      BY <2>1
    <2>2. CASE Rekey /\ list = Legacy(files)
      <3>1. config.tenant \in Tenant
        BY DEF IInv, TypeOK, Config
      <3>2. CASE list = {}
        BY <2>2, <3>2 DEF Rekey, Namespaced
      <3>3. CASE files = list
        <4>1. files' = Namespaced(files, config.tenant)
          BY <2>2, <3>3 DEF Rekey
        <4>2. files \in SUBSET Row /\ \A r \in files : r.ns = None /\ r.old
          BY <2>2, <3>3 DEF Legacy, IInv, OldInv, TypeOK
        <4>3. /\ {r.path : r \in files'} = {r.path : r \in files}
              /\ \A r \in files' : r.ns = config.tenant /\ r.old
              /\ Cardinality(files') = Cardinality(files)
          BY <3>1, <4>1, <4>2, MovedRows
        <4>4. /\ Legacy(files) \cup {x \in files : x.old} = files
              /\ Legacy(files') \cup {x \in files' : x.old} = files'
          BY <4>2, <4>3 DEF Legacy
        <4> QED
          BY <4>3, <4>4 DEF OldPaths
      <3> QED
        BY <2>2, <3>2, <3>3 DEF Apart
    <2> QED
      BY <2>1, <2>2, FilesChange
  <1> QED
    BY <1>1, ApartInit, ApartStep, InitInv, StepInv, PTL DEF Spec, OldKept
=============================================================================
