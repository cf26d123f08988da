---------------------------- MODULE TenancyCatalog ----------------------------
(***************************************************************************)
(* The catalog of a database with one tenant-scoped table: the application *)
(* role, the flags, grants and policies of the table; what the script of   *)
(*   src/src/cli/templates/setup-sql.ts   generateSetupSql                 *)
(* does to it; and what PostgreSQL then lets the application role do       *)
(* (external).                                                             *)
(***************************************************************************)
EXTENDS Integers, Sequences

CONSTANTS
  Tenants,      \* tenant ids
  Empty,        \* the empty string: a setting, or the tenant of a row
  Unset,        \* the value of a setting that was never set
  Extra,        \* names of policies the script does not generate
  NoPolicy      \* there is no policy of that name

ASSUME CatalogConstants ==
  /\ Empty \notin Tenants /\ Unset \notin Tenants /\ Empty # Unset
  /\ Extra \cap {"isolation", "insert", "guard"} = {}

(***************************************************************************)
(* Policies.  An expression is the generated tenant predicate, the         *)
(* generated context guard, or anything else, which is taken to be true.   *)
(***************************************************************************)
Generated   == {"isolation", "insert", "guard"}
PolicyNames == Generated \cup Extra

Expressions == {"tenant", "guard", "true"}
NoExpr      == "none"

Policy ==
  [command : {"ALL", "SELECT", "INSERT", "UPDATE", "DELETE"},
   permissive : BOOLEAN, roles : {"PUBLIC", "app", "other"},
   using : Expressions \cup {NoExpr}, check : Expressions \cup {NoExpr}]

ASSUME NoPolicyIsNone == NoPolicy \notin Policy

\* What CREATE POLICY accepts.
WellFormed(p) ==
  /\ p.command = "INSERT" <=> p.using = NoExpr
  /\ p.command = "INSERT" => p.check # NoExpr
  /\ p.command \in {"SELECT", "DELETE"} => p.check = NoExpr

\* The policies as the script creates them: tenantPolicyPredicate and
\* tenantContextGuardPredicate.
IsolationPolicy ==
  [command |-> "ALL", permissive |-> TRUE, roles |-> "PUBLIC",
   using |-> "tenant", check |-> NoExpr]

InsertPolicy ==
  [command |-> "INSERT", permissive |-> TRUE, roles |-> "PUBLIC",
   using |-> NoExpr, check |-> "tenant"]

GuardPolicy ==
  [command |-> "ALL", permissive |-> FALSE, roles |-> "PUBLIC",
   using |-> "guard", check |-> "guard"]

GeneratedPolicy(n) == CASE n = "isolation" -> IsolationPolicy
                        [] n = "insert"    -> InsertPolicy
                        [] n = "guard"     -> GuardPolicy

(***************************************************************************)
(* The catalog.                                                            *)
(***************************************************************************)
Catalog ==
  [role : {"none", "login", "nologin", "super", "bypassrls"},
   ownerRights : BOOLEAN,    \* the role has the privileges of the owner
   reaches : BOOLEAN,        \* it may SET ROLE to the owner or a bypassing role
   rls : BOOLEAN, forced : BOOLEAN,
   column : {"none", "text", "uuid", "other"},
   notNull : BOOLEAN, stored : BOOLEAN, index : BOOLEAN,
   usage : BOOLEAN, dml : BOOLEAN, truncate : BOOLEAN,
   policies : [PolicyNames -> Policy \cup {NoPolicy}]]

\* A migrated database before the script has run.
Fresh ==
  [role |-> "none", ownerRights |-> FALSE, reaches |-> FALSE,
   rls |-> FALSE, forced |-> FALSE,
   column |-> "text", notNull |-> TRUE, stored |-> TRUE, index |-> FALSE,
   usage |-> FALSE, dml |-> FALSE, truncate |-> FALSE,
   policies |-> [n \in PolicyNames |-> NoPolicy]]

-------------------------------------------------------------------------------
(***************************************************************************)
(* The script: one transaction, which fails as a whole where the tenant    *)
(* column does not exist or no predicate was generated for its type.       *)
(***************************************************************************)
SetupRuns(cat) == cat.column \in {"text", "uuid"}

\* Seeded fault: the guard is left out.
PoliciesWithoutGuard(cat) ==
  [n \in PolicyNames |->
     IF n \in Generated \ {"guard"} /\ cat.policies[n] = NoPolicy
     THEN GeneratedPolicy(n) ELSE cat.policies[n]]

\* createPolicyIfMissing
CreatePoliciesIfMissing(cat) ==
  [n \in PolicyNames |->
     IF n \in Generated /\ cat.policies[n] = NoPolicy
     THEN GeneratedPolicy(n) ELSE cat.policies[n]]

\* Seeded fault: row-level security is not forced.
SetupWithoutForce(cat) ==
  [cat EXCEPT !.role = IF @ = "none" THEN "login" ELSE @,
              !.rls = TRUE, !.index = TRUE, !.usage = TRUE, !.dml = TRUE,
              !.policies = CreatePoliciesIfMissing(cat)]

AfterSetup(cat) ==
  [cat EXCEPT !.role = IF @ = "none" THEN "login" ELSE @,
              !.rls = TRUE, !.forced = TRUE, !.index = TRUE,
              !.usage = TRUE, !.dml = TRUE,
              !.policies = CreatePoliciesIfMissing(cat)]

-------------------------------------------------------------------------------
(***************************************************************************)
(* Row-level security, for a session of the application role in which the  *)
(* setting has the value s and for rows by their tenant.                   *)
(***************************************************************************)
Settings == Tenants \cup {Empty, Unset}

RowTenants(cat) == IF cat.column = "uuid" THEN Tenants ELSE Tenants \cup {Empty}

\* current_setting(key, true) = column; NULLIF(..., '') IS NOT NULL
Holds(cat, e, s, t) ==
  CASE e = "tenant" -> /\ s = t /\ s # Unset
                       /\ cat.column = "uuid" => s # Empty
    [] e = "guard"  -> s \notin {Empty, Unset}
    [] e = "true"   -> TRUE

Applying(cat, command) ==
  {p \in {cat.policies[n] : n \in PolicyNames} \ {NoPolicy} :
     p.command \in {"ALL", command} /\ p.roles \in {"PUBLIC", "app"}}

\* The expression a policy puts on a row: on the row as it was, or on the row
\* as it is written, for which WITH CHECK defaults to USING.
Expression(p, written) == IF written /\ p.check # NoExpr THEN p.check ELSE p.using

Pass(cat, command, written, s, t) ==
  LET ps == Applying(cat, command) IN
  /\ \E p \in ps : p.permissive /\ Holds(cat, Expression(p, written), s, t)
  /\ \A p \in ps : ~ p.permissive => Holds(cat, Expression(p, written), s, t)

Sees(cat, s, t)    == Pass(cat, "SELECT", FALSE, s, t)
Inserts(cat, s, t) == Pass(cat, "INSERT", TRUE, s, t)
Deletes(cat, s, t) == Pass(cat, "DELETE", FALSE, s, t)
Updates(cat, s, t, u) == Pass(cat, "UPDATE", FALSE, s, t) /\ Pass(cat, "UPDATE", TRUE, s, u)

\* Policies do not apply to a superuser, to BYPASSRLS, to an owner unless they
\* are forced, nor to TRUNCATE; and an owner may drop them.
Exempt(cat) ==
  \/ ~ cat.rls
  \/ cat.role \in {"super", "bypassrls"}
  \/ cat.ownerRights \/ cat.reaches
  \/ cat.truncate

\* A session of the application role reaches a row, and leaves a row, only of
\* the tenant it has set; without one it reaches none.
Isolates(cat) ==
  /\ ~ Exempt(cat)
  /\ \A s \in Settings, t \in RowTenants(cat) :
       \/ Sees(cat, s, t) \/ Inserts(cat, s, t) \/ Deletes(cat, s, t)
       \/ \E u \in RowTenants(cat) : Updates(cat, s, t, u) \/ Updates(cat, s, u, t)
       => s = t /\ s \in Tenants
===============================================================================
