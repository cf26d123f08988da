------------------------------ MODULE DoctorChecks ------------------------------
(***************************************************************************)
(* What `tenancy doctor` demands of a catalog:                             *)
(*   src/src/cli/doctor-catalog.ts   the statements and checks of the      *)
(*                                   catalog audit                         *)
(*   src/src/cli/doctor-policy.ts    what a policy's expression must be    *)
(***************************************************************************)
EXTENDS TenancyCatalog

Statements == <<"session", "role", "table", "column", "privilege", "policy",
                "reachable", "index">>

\* As the application role, as that role after SET ROLE by a superuser, or as
\* somebody else.
Logins == {"app", "setRole", "admin"}

(***************************************************************************)
(* The checks, each on the row of the statement it is made of.             *)
(***************************************************************************)
SessionChecks(cat, who) ==
  /\ who # "admin"                               \* session.current_role
  /\ cat.role \notin {"super", "bypassrls"}      \* its security
  /\ who # "setRole"                             \* session.login_role_security

RoleChecks(cat) == cat.role = "login"

\* row_security_active(oid), for the session's user
RowSecurityActive(cat) ==
  /\ cat.rls
  /\ cat.role \notin {"super", "bypassrls"}
  /\ cat.ownerRights => cat.forced

TableChecks(cat) ==
  cat.rls /\ cat.forced /\ RowSecurityActive(cat) /\ ~ cat.ownerRights

ColumnChecks(cat) ==
  cat.column \in {"text", "uuid"} /\ cat.notNull /\ cat.stored

PrivilegeChecks(cat) == cat.usage /\ cat.dml /\ ~ cat.truncate

\* Seeded fault: the role list is not compared.
AnyRole(p) == TRUE

HasExactPublicRole(p) == p.roles = "PUBLIC"

IsolationContract(p) ==
  /\ p.command = "ALL" /\ p.permissive /\ HasExactPublicRole(p)
  /\ p.using = "tenant" /\ p.check = NoExpr

InsertContract(p) ==
  /\ p.command = "INSERT" /\ p.permissive /\ HasExactPublicRole(p)
  /\ p.using = NoExpr /\ p.check = "tenant"

ContextGuardContract(p) ==
  /\ p.command = "ALL" /\ ~ p.permissive /\ HasExactPublicRole(p)
  /\ p.using = "guard" /\ p.check = "guard"

UnexpectedPermissive(cat) ==
  {n \in PolicyNames \ {"isolation", "insert"} :
     cat.policies[n] # NoPolicy /\ cat.policies[n].permissive}

PolicyChecks(cat) ==
  LET p == cat.policies IN
  /\ p["isolation"] # NoPolicy /\ IsolationContract(p["isolation"])
  /\ p["insert"] # NoPolicy /\ InsertContract(p["insert"])
  /\ p["guard"] # NoPolicy /\ ContextGuardContract(p["guard"])
  /\ UnexpectedPermissive(cat) = {}

Passes(q, cat, who) ==
  CASE q = "session"   -> SessionChecks(cat, who)
    [] q = "role"      -> RoleChecks(cat)
    [] q = "table"     -> TableChecks(cat)
    [] q = "column"    -> ColumnChecks(cat)
    [] q = "privilege" -> PrivilegeChecks(cat)
    [] q = "policy"    -> PolicyChecks(cat)
    [] q = "reachable" -> ~ cat.reaches
    [] q = "index"     -> cat.index

\* Every check passes on one and the same catalog.
HealthyCatalog(cat) == \A i \in 1 .. 8 : Passes(Statements[i], cat, "app")
===============================================================================
