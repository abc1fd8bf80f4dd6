--------------------------- MODULE VersionedFiles ---------------------------
(***************************************************************************)
(* What the metadata table and the blob store of one server promise to     *)
(* its clients, without any of the machinery that keeps the promise:       *)
(*                                                                         *)
(*   - each tenant has a store of complete contents that only grows;       *)
(*   - a path names a stored content under a version that goes up by one   *)
(*     with every put;                                                     *)
(*   - a delete is soft: it marks the current row, and keeps its version   *)
(*     and its content.                                                    *)
(*                                                                         *)
(* TenantStore refines this specification (see its Files definition).      *)
(***************************************************************************)
EXTENDS Integers

CONSTANTS
    Tenant,  \* tenant ids
    Path,    \* file paths
    Content, \* contents, identified with their hash
    None     \* no row

VARIABLES
    rows,    \* rows[t][p]: None, or the row of path p of tenant t
    store    \* store[t]: the contents tenant t has stored completely

Row == [version: Nat \ {0}, content: Content, is_deleted: BOOLEAN]

TypeOK ==
    /\ rows \in [Tenant -> [Path -> Row \cup {None}]]
    /\ store \in [Tenant -> SUBSET Content]

Init ==
    /\ rows = [t \in Tenant |-> [p \in Path |-> None]]
    /\ store = [t \in Tenant |-> {}]

Keep(t, c) ==
    /\ store' = [store EXCEPT ![t] = @ \cup {c}]
    /\ UNCHANGED rows

Put(t, p, c) ==
    /\ c \in store[t]
    /\ rows' = [rows EXCEPT ![t][p] =
                  [version    |-> IF @ = None THEN 1 ELSE @.version + 1,
                   content    |-> c,
                   is_deleted |-> FALSE]]
    /\ UNCHANGED store

Delete(t, p) ==
    /\ rows[t][p] # None
    /\ rows' = [rows EXCEPT ![t][p].is_deleted = TRUE]
    /\ UNCHANGED store

Next ==
    \E t \in Tenant :
        \/ \E c \in Content : Keep(t, c)
        \/ \E p \in Path, c \in Content : Put(t, p, c)
        \/ \E p \in Path : Delete(t, p)

Spec == Init /\ [][Next]_<<rows, store>>
=============================================================================
