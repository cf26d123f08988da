------------------------------ MODULE RlsDatabase ------------------------------
(***************************************************************************)
(* PostgreSQL as the package uses it: pooled connections, the custom       *)
(* setting that carries the tenant, and row-level security as the policies *)
(* of generateSetupSql state it.  External to the repository's code.       *)
(*                                                                         *)
(* The module has no variables: a connection is a record                   *)
(*   tx       what runs on it: "free", "batch", "itx", "tenancy"           *)
(*   owner    the task whose transaction it is                             *)
(*   tenant   the tenant a tenancyTransaction was opened for               *)
(*   setting  current_setting(key, true)                                   *)
(*   session  the value the setting has outside a transaction              *)
(*   pend     the uncommitted rows of the transaction                      *)
(* and the table of tenant rows maps every row id to the tenant that owns  *)
(* it, NoTenant when there is no such row.                                 *)
(***************************************************************************)
EXTENDS TenancyContext

CONSTANTS
  Tasks, NoTask,      \* asynchronous call chains of the application
  Conns, NoConn,      \* server connections of the pool
  Ids,                \* primary keys of the tenant-scoped table
  NullSetting,        \* the setting was never given a value in this session
  EmptySetting,       \* '': what is left when a transaction-local value ends
  RlsEnforced         \* FALSE for a superuser, or a table without policies

ASSUME DatabaseConstants ==
  /\ NoTask \notin Tasks
  /\ NoConn \notin Conns
  /\ NullSetting \notin Tenants
  /\ EmptySetting \notin Tenants
  /\ NoTenant # NullSetting
  /\ NoTenant # EmptySetting
  /\ RlsEnforced \in BOOLEAN

Table    == [Ids -> TenantOrNull]
NoWrites == [i \in Ids |-> NoTenant]

Connection ==
  [tx : {"free", "batch", "itx", "tenancy"}, owner : Tasks \cup {NoTask},
   tenant : TenantOrNull, setting : Tenants \cup {NullSetting, EmptySetting},
   session : Tenants \cup {NullSetting, EmptySetting}, pend : Table]

NewConnection ==
  [tx |-> "free", owner |-> NoTask, tenant |-> NoTenant,
   setting |-> NullSetting, session |-> NullSetting, pend |-> NoWrites]

(***************************************************************************)
(* A statement on the tenant-scoped table.  create is the tenant column of *)
(* the inserted row and update the tenant column an UPDATE assigns;        *)
(* NoTenant when the statement leaves the column out.                      *)
(***************************************************************************)
Kinds == {"read", "create", "update", "upsert"}

Statement ==
  [kind : Kinds, id : Ids, create : TenantOrNull, update : TenantOrNull]

(***************************************************************************)
(* Transactions.  set_config(key, value, is_local): a transaction-local    *)
(* value ends with the transaction, and the setting falls back to the      *)
(* value of the session, which is '' once the session has met the setting. *)
(***************************************************************************)
Begun(c, kind, task, t) == [c EXCEPT !.tx = kind, !.owner = task, !.tenant = t]

SetConfig(c, t, isLocal) ==
  [c EXCEPT !.setting = t,
            !.session = IF ~ isLocal THEN t
                        ELSE IF c.session = NullSetting THEN EmptySetting
                        ELSE c.session]

Released(c) ==
  [NewConnection EXCEPT !.setting = c.session, !.session = c.session]

(***************************************************************************)
(* What a connection sees of the table, and which rows the policies let it *)
(* see: tenant_id = current_setting(key, true), and the restrictive guard  *)
(* that a null or empty setting matches no row.                            *)
(***************************************************************************)
View(c, rows) ==
  [i \in Ids |-> IF c.pend[i] = NoTenant THEN rows[i] ELSE c.pend[i]]

Admitted(c, t) == RlsEnforced => t = c.setting

Visible(c, rows) ==
  {i \in Ids : View(c, rows)[i] \in Tenants /\ Admitted(c, View(c, rows)[i])}

(***************************************************************************)
(* The tenant a statement leaves on the row it names (NoTenant: it writes  *)
(* nothing), whether PostgreSQL refuses it (duplicate key, NOT NULL or     *)
(* WITH CHECK), and the owners of the rows it returns.                     *)
(***************************************************************************)
Updated(c, rows, s) ==
  IF s.update = NoTenant THEN View(c, rows)[s.id] ELSE s.update

Inserts(c, rows, s) ==
  \/ s.kind = "create"
  \/ s.kind = "upsert" /\ s.id \notin Visible(c, rows)

Written(c, rows, s) ==
  IF Inserts(c, rows, s) THEN s.create
  ELSE IF s.kind # "read" /\ s.id \in Visible(c, rows) THEN Updated(c, rows, s)
  ELSE NoTenant

Refused(c, rows, s) ==
  \/ /\ Inserts(c, rows, s)
     /\ View(c, rows)[s.id] # NoTenant \/ s.create = NoTenant
  \/ /\ Written(c, rows, s) \in Tenants
     /\ ~ Admitted(c, Written(c, rows, s))

ReturnedOwners(c, rows, s) ==
  IF s.kind = "read" THEN {View(c, rows)[i] : i \in Visible(c, rows)}
                     ELSE {Written(c, rows, s)} \cap Tenants

Executed(c, rows, s) ==
  IF Written(c, rows, s) = NoTenant THEN c
  ELSE [c EXCEPT !.pend[s.id] = Written(c, rows, s)]
===============================================================================
