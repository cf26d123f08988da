--------------------------- MODULE DoctorAuditProofs ---------------------------
(***************************************************************************)
(* What a healthy verdict implies, for any tenants, any further policies   *)
(* and any number of changes.                                              *)
(***************************************************************************)
EXTENDS DoctorAudit, TLAPS

Commands == {"SELECT", "INSERT", "UPDATE", "DELETE"}

-------------------------------------------------------------------------------
(***************************************************************************)
(* A catalog on which every check passes isolates the tenants.             *)
(***************************************************************************)
\* The checks by name: HealthyCatalog lists the statements by number.
LEMMA HealthyByCheck ==
  ASSUME NEW cat
  PROVE  HealthyCatalog(cat) <=>
           /\ SessionChecks(cat, "app") /\ RoleChecks(cat) /\ TableChecks(cat)
           /\ ColumnChecks(cat) /\ PrivilegeChecks(cat) /\ PolicyChecks(cat)
           /\ ~ cat.reaches /\ cat.index
<1>1. /\ Passes("session", cat, "app") <=> SessionChecks(cat, "app")
      /\ Passes("role", cat, "app") <=> RoleChecks(cat)
      /\ Passes("table", cat, "app") <=> TableChecks(cat)
      /\ Passes("column", cat, "app") <=> ColumnChecks(cat)
      /\ Passes("privilege", cat, "app") <=> PrivilegeChecks(cat)
      /\ Passes("policy", cat, "app") <=> PolicyChecks(cat)
      /\ Passes("reachable", cat, "app") <=> ~ cat.reaches
      /\ Passes("index", cat, "app") <=> cat.index
  BY DEF Passes
<1>2. /\ Statements[1] = "session" /\ Statements[2] = "role"
      /\ Statements[3] = "table" /\ Statements[4] = "column"
      /\ Statements[5] = "privilege" /\ Statements[6] = "policy"
      /\ Statements[7] = "reachable" /\ Statements[8] = "index"
  BY DEF Statements
<1>3. \A i \in 1 .. 8 : i = 1 \/ i = 2 \/ i = 3 \/ i = 4 \/ i = 5 \/ i = 6 \/ i = 7 \/ i = 8
  OBVIOUS
<1>. QED  BY <1>1, <1>2, <1>3 DEF HealthyCatalog

\* The guard applies to every command, and besides it only the two generated
\* policies can let a row through.
LEMMA AuditedPolicies ==
  ASSUME NEW cat \in Catalog, PolicyChecks(cat), NEW command \in Commands,
         NEW p \in Applying(cat, command)
  PROVE  /\ cat.policies["guard"] \in Applying(cat, command)
         /\ p.permissive =>
              \/ p = cat.policies["isolation"]
              \/ p = cat.policies["insert"] /\ command = "INSERT"
<1>1. {"isolation", "insert", "guard"} \subseteq PolicyNames
  BY DEF PolicyNames, Generated
<1>2. cat.policies["guard"] \in Applying(cat, command)
  <2>1. /\ cat.policies["guard"] # NoPolicy
        /\ cat.policies["guard"].command = "ALL"
        /\ cat.policies["guard"].roles = "PUBLIC"
    BY DEF PolicyChecks, ContextGuardContract, HasExactPublicRole
  <2>. QED  BY <1>1, <2>1 DEF Applying
<1>3. ASSUME p.permissive
      PROVE  p = cat.policies["isolation"] \/ (p = cat.policies["insert"] /\ command = "INSERT")
  <2>1. PICK n \in PolicyNames : p = cat.policies[n]
    BY DEF Applying
  <2>2. p # NoPolicy /\ p.command \in {"ALL", command}
    BY DEF Applying
  <2>3. n \in {"isolation", "insert"}
    BY <1>3, <2>1, <2>2 DEF PolicyChecks, UnexpectedPermissive
  <2>4. n = "insert" => p.command = "INSERT"
    BY <2>1 DEF PolicyChecks, InsertContract
  <2>. QED  BY <2>1, <2>2, <2>3, <2>4 DEF Commands
<1>. QED  BY <1>2, <1>3

\* What passes the policies has the tenant that the session has set.
LEMMA PassesOwnTenant ==
  ASSUME NEW cat \in Catalog, PolicyChecks(cat), NEW command \in Commands,
         NEW written \in BOOLEAN, command = "INSERT" => written,
         NEW s \in Settings, NEW t, Pass(cat, command, written, s, t)
  PROVE  s = t /\ s \in Tenants
<1>1. PICK p \in Applying(cat, command) :
         p.permissive /\ Holds(cat, Expression(p, written), s, t)
  BY DEF Pass
<1>2. /\ cat.policies["guard"] \in Applying(cat, command)
      /\ p = cat.policies["isolation"] \/ (p = cat.policies["insert"] /\ command = "INSERT")
  BY <1>1, AuditedPolicies
<1>3. Expression(p, written) = "tenant"
  BY <1>2 DEF PolicyChecks, IsolationContract, InsertContract, Expression, NoExpr
<1>4. s = t /\ s # Unset
  BY <1>1, <1>3 DEF Holds
<1>5. s \notin {Empty, Unset}
  <2>1. /\ ~ cat.policies["guard"].permissive
        /\ Expression(cat.policies["guard"], written) = "guard"
    BY DEF PolicyChecks, ContextGuardContract, Expression
  <2>2. Holds(cat, "guard", s, t)
    BY <1>2, <2>1 DEF Pass
  <2>. QED  BY <2>2 DEF Holds
<1>. QED  BY <1>4, <1>5 DEF Settings

\* A catalog on which every check of the audit passes isolates the tenants,
\* whatever further policies the table has.
THEOREM HealthyIsolates ==
  ASSUME NEW cat \in Catalog, HealthyCatalog(cat)
  PROVE  Isolates(cat)
<1>1. PolicyChecks(cat)
  BY HealthyByCheck
<1>2. ~ Exempt(cat)
  <2>1. TableChecks(cat) /\ RoleChecks(cat) /\ PrivilegeChecks(cat) /\ ~ cat.reaches
    BY HealthyByCheck
  <2>. QED  BY <2>1 DEF TableChecks, RoleChecks, PrivilegeChecks, Exempt
<1>3. ASSUME NEW s \in Settings, NEW t \in RowTenants(cat),
             \/ Sees(cat, s, t) \/ Inserts(cat, s, t) \/ Deletes(cat, s, t)
             \/ \E u \in RowTenants(cat) : Updates(cat, s, t, u) \/ Updates(cat, s, u, t)
      PROVE  s = t /\ s \in Tenants
  <2>1. CASE Sees(cat, s, t)
    BY <1>1, <2>1, PassesOwnTenant DEF Sees, Commands
  <2>2. CASE Inserts(cat, s, t)
    BY <1>1, <2>2, PassesOwnTenant DEF Inserts, Commands
  <2>3. CASE Deletes(cat, s, t)
    BY <1>1, <2>3, PassesOwnTenant DEF Deletes, Commands
  <2>4. ASSUME NEW u \in RowTenants(cat), Updates(cat, s, t, u) \/ Updates(cat, s, u, t)
        PROVE  s = t /\ s \in Tenants
    BY <1>1, <2>4, PassesOwnTenant DEF Updates, Commands
  <2>. QED  BY <1>3, <2>1, <2>2, <2>3, <2>4
<1>. QED  BY <1>2, <1>3 DEF Isolates

-------------------------------------------------------------------------------
(***************************************************************************)
(* The script.                                                             *)
(***************************************************************************)
\* The script's policies are policies.
LEMMA GeneratedPolicies ==
  \A n \in Generated : GeneratedPolicy(n) \in Policy /\ GeneratedPolicy(n) # NoPolicy
<1>1. IsolationPolicy \in Policy /\ InsertPolicy \in Policy /\ GuardPolicy \in Policy
  BY DEF IsolationPolicy, InsertPolicy, GuardPolicy, Policy, Expressions, NoExpr
<1>2. \A n \in Generated : GeneratedPolicy(n) \in {IsolationPolicy, InsertPolicy, GuardPolicy}
  BY DEF Generated, GeneratedPolicy
<1>. QED  BY <1>1, <1>2, NoPolicyIsNone

\* The script creates what is missing and keeps the rest.
LEMMA SetupPolicies ==
  ASSUME NEW cat \in Catalog
  PROVE  /\ CreatePoliciesIfMissing(cat) \in [PolicyNames -> Policy \cup {NoPolicy}]
         /\ \A n \in PolicyNames :
              CreatePoliciesIfMissing(cat)[n] =
                IF n \in Generated /\ cat.policies[n] = NoPolicy
                THEN GeneratedPolicy(n) ELSE cat.policies[n]
<1>1. \A n \in Generated : GeneratedPolicy(n) \in Policy
  BY GeneratedPolicies
<1>2. cat.policies \in [PolicyNames -> Policy \cup {NoPolicy}]
  BY DEF Catalog
<1>. QED  BY <1>1, <1>2 DEF CreatePoliciesIfMissing

\* The catalog after the script, field by field.
LEMMA SetupFields ==
  ASSUME NEW cat \in Catalog
  PROVE  /\ AfterSetup(cat) \in Catalog
         /\ AfterSetup(cat).role = IF cat.role = "none" THEN "login" ELSE cat.role
         /\ AfterSetup(cat).rls /\ AfterSetup(cat).forced /\ AfterSetup(cat).index
         /\ AfterSetup(cat).usage /\ AfterSetup(cat).dml
         /\ AfterSetup(cat).truncate = cat.truncate
         /\ AfterSetup(cat).ownerRights = cat.ownerRights
         /\ AfterSetup(cat).reaches = cat.reaches
         /\ AfterSetup(cat).column = cat.column
         /\ AfterSetup(cat).notNull = cat.notNull
         /\ AfterSetup(cat).stored = cat.stored
         /\ AfterSetup(cat).policies = CreatePoliciesIfMissing(cat)
  BY SetupPolicies DEF AfterSetup, Catalog

\* A check of the audit that passes still passes after the script: this is why
\* the script may run between two statements.
LEMMA SetupKeepsPasses ==
  ASSUME NEW cat \in Catalog, NEW j \in 1 .. 8, Passes(Statements[j], cat, "app")
  PROVE  Passes(Statements[j], AfterSetup(cat), "app")
<1>. DEFINE q == Statements[j]
<1>0. q \in {"session", "role", "table", "column", "privilege", "policy", "reachable", "index"}
  BY DEF Statements
<1>1. CASE q = "session"
  BY <1>1, SetupFields DEF Passes, SessionChecks
<1>2. CASE q = "role"
  BY <1>2, SetupFields DEF Passes, RoleChecks
<1>3. CASE q = "table"
  BY <1>3, SetupFields DEF Passes, TableChecks, RowSecurityActive
<1>4. CASE q = "column"
  BY <1>4, SetupFields DEF Passes, ColumnChecks
<1>5. CASE q = "privilege"
  BY <1>5, SetupFields DEF Passes, PrivilegeChecks
<1>6. CASE q = "policy"
  <2>1. PolicyChecks(cat)
    BY <1>6 DEF Passes
  <2>2. \A n \in PolicyNames : AfterSetup(cat).policies[n] = cat.policies[n]
    BY <2>1, SetupFields, SetupPolicies DEF PolicyChecks, Generated
  <2>3. PolicyChecks(AfterSetup(cat))
    BY <2>1, <2>2 DEF PolicyChecks, UnexpectedPermissive, PolicyNames, Generated
  <2>. QED  BY <1>6, <2>3 DEF Passes
<1>7. CASE q = "reachable"
  BY <1>7, SetupFields DEF Passes
<1>8. CASE q = "index"
  BY <1>8, SetupFields DEF Passes
<1>. QED  BY <1>0, <1>1, <1>2, <1>3, <1>4, <1>5, <1>6, <1>7, <1>8

\* Where nothing the script preserves stands in the way, every check passes on
\* the catalog it leaves.
LEMMA SetupHealthy ==
  ASSUME NEW cat \in Catalog, SetupRuns(cat), Unspoiled(cat)
  PROVE  HealthyCatalog(AfterSetup(cat))
<1>. DEFINE new == AfterSetup(cat)
<1>1. \A n \in Generated : new.policies[n] = GeneratedPolicy(n)
  <2>1. \A n \in Generated : GeneratedPolicy(n) # NoPolicy
    BY GeneratedPolicies
  <2>. QED  BY <2>1, SetupFields, SetupPolicies DEF Unspoiled, PolicyNames
<1>2. \A n \in PolicyNames \ Generated : new.policies[n] = cat.policies[n]
  BY SetupFields, SetupPolicies
<1>3. \A n \in Generated : GeneratedPolicy(n) # NoPolicy
  BY GeneratedPolicies
<1>4. UnexpectedPermissive(new) = {}
  <2>1. ASSUME NEW n \in PolicyNames \ {"isolation", "insert"}, new.policies[n] # NoPolicy
        PROVE  ~ new.policies[n].permissive
    <3>1. CASE n = "guard"
      BY <1>1, <3>1 DEF Generated, GeneratedPolicy, GuardPolicy
    <3>2. CASE n # "guard"
      BY <1>2, <2>1, <3>2 DEF PolicyNames, Generated, Unspoiled
    <3>. QED  BY <3>1, <3>2
  <2>. QED  BY <2>1 DEF UnexpectedPermissive
<1>5. PolicyChecks(new)
  <2>1. /\ new.policies["isolation"] = IsolationPolicy
        /\ new.policies["insert"] = InsertPolicy
        /\ new.policies["guard"] = GuardPolicy
    BY <1>1 DEF Generated, GeneratedPolicy
  <2>2. IsolationPolicy # NoPolicy /\ InsertPolicy # NoPolicy /\ GuardPolicy # NoPolicy
    BY <1>3 DEF Generated, GeneratedPolicy
  <2>3. /\ IsolationContract(IsolationPolicy) /\ InsertContract(InsertPolicy)
        /\ ContextGuardContract(GuardPolicy)
    BY DEF IsolationContract, InsertContract, ContextGuardContract, HasExactPublicRole,
           IsolationPolicy, InsertPolicy, GuardPolicy
  <2>. QED  BY <1>4, <2>1, <2>2, <2>3 DEF PolicyChecks
<1>6. /\ SessionChecks(new, "app") /\ RoleChecks(new) /\ TableChecks(new)
      /\ ColumnChecks(new) /\ PrivilegeChecks(new) /\ ~ new.reaches /\ new.index
  BY SetupFields DEF SessionChecks, RoleChecks, TableChecks, RowSecurityActive, ColumnChecks,
       PrivilegeChecks, Unspoiled, SetupRuns
<1>. QED  BY <1>5, <1>6, HealthyByCheck

-------------------------------------------------------------------------------
(***************************************************************************)
(* The script does not weaken what isolates.                               *)
(***************************************************************************)
\* PostgreSQL accepted every policy there is.
PoliciesAccepted(cat) ==
  \A n \in PolicyNames : cat.policies[n] = NoPolicy \/ WellFormed(cat.policies[n])

\* What SetupNeverWeakens asks of the policies the script finds.
GuardKept(cat) ==
  \/ cat.policies["guard"] \in {NoPolicy, GuardPolicy}
  \/ \A n \in Generated : cat.policies[n] # NoPolicy

\* A session that has set a tenant may UPDATE the rows of that tenant, wherever
\* a policy applies at all: every expression a policy can have admits them.
LEMMA OwnRow ==
  ASSUME NEW cat \in Catalog, PoliciesAccepted(cat), NEW p \in Applying(cat, "UPDATE"),
         NEW written \in BOOLEAN, NEW s \in Tenants
  PROVE  Holds(cat, Expression(p, written), s, s)
<1>1. PICK n \in PolicyNames : p = cat.policies[n] /\ p # NoPolicy
  BY DEF Applying
<1>2. p \in Policy /\ WellFormed(p) /\ p.command \in {"ALL", "UPDATE"}
  BY <1>1 DEF Catalog, PoliciesAccepted, Applying
<1>3. Expression(p, written) \in Expressions
  BY <1>2 DEF WellFormed, Policy, Expression, NoExpr
<1>4. s # Empty /\ s # Unset
  BY CatalogConstants
<1>5. Expression(p, written) \in {"tenant", "guard", "true"}
  BY <1>3 DEF Expressions
<1>. QED  BY <1>4, <1>5 DEF Holds

\* So what passes an UPDATE's policies on one side passes, on the session's own
\* row, on the other.
LEMMA PassOwnRow ==
  ASSUME NEW cat \in Catalog, PoliciesAccepted(cat), NEW written \in BOOLEAN,
         NEW other \in BOOLEAN, NEW s \in Tenants, NEW t, Pass(cat, "UPDATE", written, s, t)
  PROVE  Pass(cat, "UPDATE", other, s, s)
<1>1. PICK p \in Applying(cat, "UPDATE") : p.permissive
  BY DEF Pass
<1>2. \A q \in Applying(cat, "UPDATE") : Holds(cat, Expression(q, other), s, s)
  BY OwnRow
<1>. QED  BY <1>1, <1>2 DEF Pass

\* What passes the policies after the script is a row of the tenant that the
\* session has set, or passed them before.
LEMMA PassKept ==
  ASSUME NEW cat \in Catalog, cat.policies["guard"] \in {NoPolicy, GuardPolicy},
         NEW command \in Commands, NEW written \in BOOLEAN, command = "INSERT" => written,
         NEW s \in Settings, NEW t, Pass(AfterSetup(cat), command, written, s, t)
  PROVE  s \in Tenants /\ (s = t \/ Pass(cat, command, written, s, t))
<1>. DEFINE new == AfterSetup(cat)
<1>1. /\ \A n \in PolicyNames :
           new.policies[n] = IF n \in Generated /\ cat.policies[n] = NoPolicy
                             THEN GeneratedPolicy(n) ELSE cat.policies[n]
      /\ new.column = cat.column
  BY SetupFields, SetupPolicies
<1>. HIDE DEF new
<1>2. \A e : Holds(new, e, s, t) <=> Holds(cat, e, s, t)
  BY <1>1 DEF Holds
<1>3. Applying(cat, command) \subseteq Applying(new, command)
  BY <1>1 DEF Applying
<1>4. s \in Tenants
  <2>1. "guard" \in PolicyNames /\ "guard" \in Generated
    BY DEF PolicyNames, Generated
  <2>2. new.policies["guard"] = GuardPolicy /\ GuardPolicy # NoPolicy
    BY <1>1, <2>1, GeneratedPolicies DEF GeneratedPolicy
  <2>3. GuardPolicy \in Applying(new, command)
    BY <2>1, <2>2 DEF Applying, GuardPolicy
  <2>4. ~ GuardPolicy.permissive /\ Expression(GuardPolicy, written) = "guard"
    BY DEF GuardPolicy, Expression
  <2>5. Holds(new, "guard", s, t)
    BY <2>3, <2>4 DEF Pass, new
  <2>. QED  BY <2>5 DEF Holds, Settings
<1>5. PICK p \in Applying(new, command) :
         p.permissive /\ Holds(new, Expression(p, written), s, t)
  BY DEF Pass, new
<1>6. PICK n \in PolicyNames : p = new.policies[n] /\ p # NoPolicy
  BY <1>5 DEF Applying
<1>7. CASE p = cat.policies[n]
  <2>1. p \in Applying(cat, command)
    BY <1>5, <1>6, <1>7 DEF Applying
  <2>2. \A q \in Applying(cat, command) :
          ~ q.permissive => Holds(cat, Expression(q, written), s, t)
    BY <1>2, <1>3 DEF Pass, new
  <2>3. Pass(cat, command, written, s, t)
    BY <1>2, <1>5, <2>1, <2>2 DEF Pass
  <2>. QED  BY <1>4, <2>3
<1>8. CASE p # cat.policies[n]
  <2>1. n \in Generated /\ p = GeneratedPolicy(n)
    BY <1>1, <1>6, <1>8
  <2>2. p \in {IsolationPolicy, InsertPolicy, GuardPolicy}
    BY <2>1 DEF Generated, GeneratedPolicy
  <2>3. Expression(p, written) = "tenant"
    <3>1. p # GuardPolicy
      BY <1>5 DEF GuardPolicy
    <3>2. p.command \in {"ALL", command}
      BY <1>5 DEF Applying
    <3>. QED  BY <2>2, <3>1, <3>2 DEF IsolationPolicy, InsertPolicy, Expression, NoExpr, Commands
  <2>4. s = t
    BY <1>5, <2>3 DEF Holds
  <2>. QED  BY <1>4, <2>4
<1>. QED  BY <1>7, <1>8

\* A catalog that isolates still does after the script.
LEMMA SetupIsolates ==
  ASSUME NEW cat \in Catalog, PoliciesAccepted(cat), GuardKept(cat), Isolates(cat)
  PROVE  Isolates(AfterSetup(cat))
<1>. DEFINE new == AfterSetup(cat)
<1>1. ~ Exempt(new)
  BY SetupFields DEF Isolates, Exempt
<1>2. RowTenants(new) = RowTenants(cat) /\ Tenants \subseteq RowTenants(cat)
  BY SetupFields DEF RowTenants
<1>3. CASE \A n \in Generated : cat.policies[n] # NoPolicy
  <2>1. new.policies = cat.policies /\ new.column = cat.column
    BY <1>3, SetupFields, SetupPolicies DEF Catalog
  <2>. HIDE DEF new
  <2>2. \A e, s, t : Holds(new, e, s, t) <=> Holds(cat, e, s, t)
    BY <2>1 DEF Holds
  <2>3. \A command : Applying(new, command) = Applying(cat, command)
    BY <2>1 DEF Applying
  <2>4. \A command, written, s, t :
          Pass(new, command, written, s, t) <=> Pass(cat, command, written, s, t)
    BY <2>2, <2>3 DEF Pass
  <2>. QED  BY <1>1, <1>2, <2>4 DEF Isolates, Sees, Inserts, Deletes, Updates, new
<1>4. CASE cat.policies["guard"] \in {NoPolicy, GuardPolicy}
  <2>1. ASSUME NEW command \in Commands, NEW written \in BOOLEAN,
               command = "INSERT" => written,
               NEW s \in Settings, NEW t, Pass(new, command, written, s, t)
        PROVE  s \in Tenants /\ (s = t \/ Pass(cat, command, written, s, t))
    BY <1>4, <2>1, PassKept
  <2>2. ASSUME NEW s \in Settings, NEW t \in RowTenants(cat), NEW u \in RowTenants(cat),
               Updates(new, s, t, u)
        PROVE  s = t /\ s = u /\ s \in Tenants
    <3>1. /\ s \in Tenants
          /\ s = t \/ Pass(cat, "UPDATE", FALSE, s, t)
          /\ s = u \/ Pass(cat, "UPDATE", TRUE, s, u)
      BY <2>1, <2>2 DEF Updates, Commands
    <3>2. CASE s # t
      <4>1. Pass(cat, "UPDATE", TRUE, s, s)
        BY <3>1, <3>2, PassOwnRow
      <4>2. Updates(cat, s, t, s)
        BY <3>1, <3>2, <4>1 DEF Updates
      <4>. QED  BY <1>2, <3>1, <3>2, <4>2 DEF Isolates
    <3>3. CASE s # u
      <4>1. Pass(cat, "UPDATE", FALSE, s, s)
        BY <3>1, <3>3, PassOwnRow
      <4>2. Updates(cat, s, s, u)
        BY <3>1, <3>3, <4>1 DEF Updates
      <4>. QED  BY <1>2, <3>1, <3>3, <4>2 DEF Isolates
    <3>. QED  BY <3>1, <3>2, <3>3
  <2>3. ASSUME NEW s \in Settings, NEW t \in RowTenants(cat),
               Sees(new, s, t) \/ Inserts(new, s, t) \/ Deletes(new, s, t)
        PROVE  s = t /\ s \in Tenants
    <3>1. /\ s \in Tenants
          /\ s = t \/ Sees(cat, s, t) \/ Inserts(cat, s, t) \/ Deletes(cat, s, t)
      BY <2>1, <2>3 DEF Sees, Inserts, Deletes, Commands
    <3>. QED  BY <3>1 DEF Isolates
  <2>. QED  BY <1>1, <1>2, <2>2, <2>3 DEF Isolates
<1>. QED  BY <1>3, <1>4 DEF GuardKept

-------------------------------------------------------------------------------
(***************************************************************************)
(* One change by an administrator, between two statements.                 *)
(***************************************************************************)
\* If the change touches what a single statement reads, the audit cannot tell
\* the catalog from the one before or the one after.
LEMMA OneStatementChanged ==
  ASSUME NEW old, NEW new, NEW m \in 1 .. 8, NEW i \in 1 .. 8,
         \A j \in 1 .. 8 : j < m => Passes(Statements[j], old, "app"),
         \A j \in 1 .. 8 : m <= j => Passes(Statements[j], new, "app"),
         \A j \in 1 .. 8 : j # i =>
           (Passes(Statements[j], old, "app") <=> Passes(Statements[j], new, "app"))
  PROVE  HealthyCatalog(old) \/ HealthyCatalog(new)
<1>1. CASE i < m
  <2>1. \A j \in 1 .. 8 : Passes(Statements[j], old, "app")
    BY <1>1
  <2>. QED  BY <2>1 DEF HealthyCatalog
<1>2. CASE m <= i
  <2>1. \A j \in 1 .. 8 : Passes(Statements[j], new, "app")
    BY <1>2
  <2>. QED  BY <2>1 DEF HealthyCatalog
<1>. QED  BY <1>1, <1>2

\* The fields an administrator changes one at a time, apart from the role, and
\* the statement that reads each.
ReadBy == [f \in {"ownerRights", "reaches", "rls", "forced", "column", "notNull",
                  "stored", "index", "usage", "dml", "truncate", "policies"} |->
            CASE f \in {"ownerRights", "rls", "forced"} -> 3
              [] f \in {"column", "notNull", "stored"} -> 4
              [] f \in {"usage", "dml", "truncate"} -> 5
              [] f = "policies" -> 6
              [] f = "reaches" -> 7
              [] f = "index" -> 8]

Differ(old, new, f) ==
  \A g \in (DOMAIN ReadBy \cup {"role"}) \ {f} : new[g] = old[g]

\* A change by an administrator is to one of them, or to the role.
LEMMA OneFieldChanged ==
  ASSUME NEW old \in Catalog, NEW new \in Altered(old)
  PROVE  \E f \in DOMAIN ReadBy \cup {"role"} : Differ(old, new, f)
<1>1. DOMAIN ReadBy = {"ownerRights", "reaches", "rls", "forced", "column", "notNull",
                       "stored", "index", "usage", "dml", "truncate", "policies"}
  BY DEF ReadBy
<1>. QED  BY <1>1 DEF Altered, Differ, Catalog

\* Where the role is the same, a statement that reads none of what changed
\* gives the same answer.
LEMMA OthersUnchanged ==
  ASSUME NEW old, NEW new, NEW f \in DOMAIN ReadBy, Differ(old, new, f),
         NEW j \in 1 .. 8, j # ReadBy[f]
  PROVE  Passes(Statements[j], old, "app") <=> Passes(Statements[j], new, "app")
<1>1. f \in {"ownerRights", "reaches", "rls", "forced", "column", "notNull",
             "stored", "index", "usage", "dml", "truncate", "policies"}
  BY DEF ReadBy
<1>2. \A g \in {"ownerRights", "reaches", "rls", "forced", "column", "notNull", "stored",
                "index", "usage", "dml", "truncate", "policies", "role"} \ {f} :
         new[g] = old[g]
  BY DEF Differ, ReadBy
<1>3. new.role = old.role
  BY <1>1, <1>2
<1>4. CASE j = 1
  BY <1>3, <1>4 DEF Statements, Passes, SessionChecks
<1>5. CASE j = 2
  BY <1>3, <1>5 DEF Statements, Passes, RoleChecks
<1>6. CASE j = 3
  <2>1. f \notin {"ownerRights", "rls", "forced"}
    BY <1>1, <1>6 DEF ReadBy
  <2>2. new.ownerRights = old.ownerRights /\ new.rls = old.rls /\ new.forced = old.forced
    BY <1>2, <2>1
  <2>. QED  BY <1>3, <1>6, <2>2 DEF Statements, Passes, TableChecks, RowSecurityActive
<1>7. CASE j = 4
  <2>1. f \notin {"column", "notNull", "stored"}
    BY <1>1, <1>7 DEF ReadBy
  <2>2. new.column = old.column /\ new.notNull = old.notNull /\ new.stored = old.stored
    BY <1>2, <2>1
  <2>. QED  BY <1>7, <2>2 DEF Statements, Passes, ColumnChecks
<1>8. CASE j = 5
  <2>1. f \notin {"usage", "dml", "truncate"}
    BY <1>1, <1>8 DEF ReadBy
  <2>2. new.usage = old.usage /\ new.dml = old.dml /\ new.truncate = old.truncate
    BY <1>2, <2>1
  <2>. QED  BY <1>8, <2>2 DEF Statements, Passes, PrivilegeChecks
<1>9. CASE j = 6
  <2>1. f # "policies"
    BY <1>1, <1>9 DEF ReadBy
  <2>2. new.policies = old.policies
    BY <1>2, <2>1
  <2>. QED  BY <1>9, <2>2 DEF Statements, Passes, PolicyChecks, UnexpectedPermissive
<1>10. CASE j = 7
  <2>1. f # "reaches"
    BY <1>1, <1>10 DEF ReadBy
  <2>2. new.reaches = old.reaches
    BY <1>2, <2>1
  <2>. QED  BY <1>10, <2>2 DEF Statements, Passes
<1>11. CASE j = 8
  <2>1. f # "index"
    BY <1>1, <1>11 DEF ReadBy
  <2>2. new.index = old.index
    BY <1>2, <2>1
  <2>. QED  BY <1>11, <2>2 DEF Statements, Passes
<1>. QED  BY <1>4, <1>5, <1>6, <1>7, <1>8, <1>9, <1>10, <1>11

\* The role is read by three statements; whichever of the two roles the second
\* of them found is good enough for the other two.
LEMMA RoleChanged ==
  ASSUME NEW old, NEW new, NEW m \in 1 .. 8, Differ(old, new, "role"),
         \A j \in 1 .. 8 : j < m => Passes(Statements[j], old, "app"),
         \A j \in 1 .. 8 : m <= j => Passes(Statements[j], new, "app")
  PROVE  HealthyCatalog(old) \/ HealthyCatalog(new)
<1>1. \A g \in {"ownerRights", "reaches", "rls", "forced", "column", "notNull", "stored",
                "index", "usage", "dml", "truncate", "policies"} : new[g] = old[g]
  BY DEF Differ, ReadBy
<1>2. /\ Passes(Statements[3], old, "app") \/ Passes(Statements[3], new, "app")
      /\ Passes(Statements[4], old, "app") \/ Passes(Statements[4], new, "app")
      /\ Passes(Statements[5], old, "app") \/ Passes(Statements[5], new, "app")
      /\ Passes(Statements[6], old, "app") \/ Passes(Statements[6], new, "app")
      /\ Passes(Statements[7], old, "app") \/ Passes(Statements[7], new, "app")
      /\ Passes(Statements[8], old, "app") \/ Passes(Statements[8], new, "app")
  OBVIOUS
<1>3. /\ Statements[1] = "session" /\ Statements[2] = "role"
      /\ Statements[3] = "table" /\ Statements[4] = "column"
      /\ Statements[5] = "privilege" /\ Statements[6] = "policy"
      /\ Statements[7] = "reachable" /\ Statements[8] = "index"
  BY DEF Statements
<1>4. old.rls /\ old.forced /\ ~ old.ownerRights
  BY <1>1, <1>2, <1>3 DEF Passes, TableChecks
<1>5. ColumnChecks(old) /\ ColumnChecks(new)
  BY <1>1, <1>2, <1>3 DEF Passes, ColumnChecks
<1>6. PrivilegeChecks(old) /\ PrivilegeChecks(new)
  BY <1>1, <1>2, <1>3 DEF Passes, PrivilegeChecks
<1>7. PolicyChecks(old) /\ PolicyChecks(new)
  BY <1>1, <1>2, <1>3 DEF Passes, PolicyChecks, UnexpectedPermissive
<1>8. ~ old.reaches /\ ~ new.reaches /\ old.index /\ new.index
  BY <1>1, <1>2, <1>3 DEF Passes
<1>9. ASSUME NEW cat \in {old, new}, cat.role = "login" PROVE HealthyCatalog(cat)
  <2>1. cat.rls /\ cat.forced /\ ~ cat.ownerRights
    BY <1>1, <1>4
  <2>2. SessionChecks(cat, "app") /\ RoleChecks(cat) /\ TableChecks(cat)
    BY <1>9, <2>1 DEF SessionChecks, RoleChecks, TableChecks, RowSecurityActive
  <2>. QED  BY <1>5, <1>6, <1>7, <1>8, <2>2, HealthyByCheck
<1>10. Passes(Statements[2], old, "app") \/ Passes(Statements[2], new, "app")
  OBVIOUS
<1>11. old.role = "login" \/ new.role = "login"
  BY <1>3, <1>10 DEF Passes, RoleChecks
<1>. QED  BY <1>9, <1>11

\* So an audit that passes every check, with one change in between, describes
\* the catalog before that change or the catalog after it.
LEMMA OneChangeFound ==
  ASSUME NEW old \in Catalog, NEW new \in Altered(old), NEW m \in 1 .. 8,
         \A j \in 1 .. 8 : j < m => Passes(Statements[j], old, "app"),
         \A j \in 1 .. 8 : m <= j => Passes(Statements[j], new, "app")
  PROVE  HealthyCatalog(old) \/ HealthyCatalog(new)
<1>1. PICK f \in DOMAIN ReadBy \cup {"role"} : Differ(old, new, f)
  BY OneFieldChanged
<1>2. CASE f = "role"
  BY <1>1, <1>2, RoleChanged
<1>3. CASE f \in DOMAIN ReadBy
  <2>1. ReadBy[f] \in 1 .. 8
    BY <1>3 DEF ReadBy
  <2>2. \A j \in 1 .. 8 : j # ReadBy[f] =>
          (Passes(Statements[j], old, "app") <=> Passes(Statements[j], new, "app"))
    BY <1>1, <1>3, OthersUnchanged
  <2>. QED  BY <2>1, <2>2, OneStatementChanged
<1>. QED  BY <1>1, <1>2, <1>3

-------------------------------------------------------------------------------
(***************************************************************************)
(* The audit while the script runs.                                        *)
(***************************************************************************)
\* TypeOK in two parts, for the two provers.
Flags == {roleFound, failed, rerun, matched} \subseteq BOOLEAN

Values ==
  /\ catalog \in Catalog
  /\ changes \in 0 .. MaxChanges
  /\ step \in 0 .. 8
  /\ altered \in 0 .. MaxChanges
  /\ verdict \in {"none", "healthy", "unhealthy"}

\* The two parts make up TypeOK.
LEMMA TypeParts == TypeOK <=> Flags /\ Values
  BY Zenon DEF TypeOK, Flags, Values

\* Until an administrator interferes, what has passed passes on the catalog as
\* it is now.
IInv ==
  /\ Flags /\ Values
  /\ altered <= changes
  /\ step >= 3 /\ ~ failed => roleFound
  /\ step > 0 /\ ~ failed /\ altered = 0 =>
       \A j \in 1 .. 8 : j < step => Passes(Statements[j], catalog, "app")
  /\ verdict = "healthy" /\ altered = 0 => HealthyCatalog(catalog)

\* An administrator's change leaves a catalog.
LEMMA AlteredTypes ==
  ASSUME NEW cat \in Catalog, NEW new \in Altered(cat)
  PROVE  new \in Catalog
<1>1. Drifted \subseteq Policy
  BY AuditConstants
<1>. DEFINE Named == \E n \in PolicyNames : \E p \in Drifted \cup {NoPolicy} :
                        new = [cat EXCEPT !.policies[n] = p]
<1>2. CASE Named
  <2>1. PICK n \in PolicyNames, p \in Drifted \cup {NoPolicy} :
           new = [cat EXCEPT !.policies[n] = p]
    BY <1>2
  <2>. QED  BY <1>1, <2>1 DEF Catalog
<1>3. CASE ~ Named
  BY <1>3 DEF Altered, Catalog
<1>. QED  BY <1>2, <1>3

\* It holds initially.
LEMMA InitIInv == Init => IInv
<1>. SUFFICES ASSUME Init PROVE IInv
  OBVIOUS
<1>1. Flags
  BY Zenon DEF Init, Flags
<1>2. Values
  <2>1. Fresh \in Catalog
    BY DEF Fresh, Catalog
  <2>. QED  BY <2>1, AuditConstants DEF Init, Values
<1>3. altered = 0 /\ changes = 0 /\ step = 0 /\ verdict = "none"
  BY DEF Init
<1>. QED  BY <1>1, <1>2, <1>3 DEF IInv

\* Every step of the audit and of those who change the catalog keeps IInv.
LEMMA NextIInv == IInv /\ [Next]_vars => IInv'
<1>. SUFFICES ASSUME IInv, [Next]_vars PROVE IInv'
  OBVIOUS
<1>. USE DEF IInv
<1>0. ASSUME NEW cat PROVE HealthyCatalog(cat) \in BOOLEAN
  BY Zenon DEF HealthyCatalog
<1>1. CASE Begin
  <2>1. Flags'
    BY <1>0, <1>1, Zenon DEF Begin, Flags
  <2>2. Values'
    BY <1>1, AuditConstants DEF Begin, Values
  <2>3. altered' = 0 /\ changes' = changes /\ step' = 1 /\ verdict' = "none"
    BY <1>1 DEF Begin
  <2>. QED  BY <2>1, <2>2, <2>3 DEF Values
<1>2. CASE Read
  <2>. DEFINE q == Statements[step]
  <2>1. PICK who \in Logins :
          /\ q # "session" => who = "app"
          /\ \/ LastStatement(q) /\ Conclude(failed \/ ~ Passes(q, catalog, who))
             \/ /\ ~ LastStatement(q)
                /\ step' = step + 1 /\ failed' = (failed \/ ~ Passes(q, catalog, who))
                /\ roleFound' = (IF q = "role" THEN catalog.role # "none" ELSE roleFound)
                /\ UNCHANGED <<verdict, altered, rerun, matched>>
    BY <1>2 DEF Read
  <2>2. step \in 1 .. 8 /\ catalog' = catalog /\ changes' = changes
    BY <1>2 DEF Read
  <2>3. Passes(q, catalog, who) => Passes(q, catalog, "app")
    BY <2>1 DEF Passes, SessionChecks, Logins
  <2>4. CASE LastStatement(q) /\ Conclude(failed \/ ~ Passes(q, catalog, who))
    <3>1. Flags'
      BY <2>4, Zenon DEF Conclude, Flags
    <3>2. Values' /\ step' = 0 /\ altered' <= changes'
      BY <2>2, <2>4, AuditConstants DEF Conclude, Values
    <3>3. ASSUME verdict' = "healthy", altered' = 0
          PROVE  HealthyCatalog(catalog')
      <4>1. ~ failed /\ Passes(q, catalog, who) /\ altered = 0
        BY <2>4, <3>3 DEF Conclude
      <4>2. step = 8
        BY <2>2, <2>4, <4>1 DEF LastStatement, Statements
      <4>3. \A j \in 1 .. 8 : Passes(Statements[j], catalog, "app")
        BY <2>3, <4>1, <4>2
      <4>. QED  BY <2>2, <4>3 DEF HealthyCatalog
    <3>. QED  BY <3>1, <3>2, <3>3
  <2>5. CASE ~ LastStatement(q) /\ step' = step + 1
                /\ failed' = (failed \/ ~ Passes(q, catalog, who))
                /\ roleFound' = (IF q = "role" THEN catalog.role # "none" ELSE roleFound)
                /\ UNCHANGED <<verdict, altered, rerun, matched>>
    <3>1. step \in 1 .. 7
      BY <2>2, <2>5 DEF LastStatement, Statements
    <3>2. Flags'
      BY <2>5, Zenon DEF Flags
    <3>3. Values'
      BY <2>2, <2>5, <3>1 DEF Values
    <3>4. ~ failed' => ~ failed /\ Passes(q, catalog, "app")
      BY <2>3, <2>5
    <3>5. step' >= 3 /\ ~ failed' => roleFound'
      <4>1. CASE step = 2
        <5>1. q = "role" /\ roleFound' = (catalog.role # "none")
          BY <2>5, <4>1 DEF Statements
        <5>2. Passes(q, catalog, "app") => catalog.role # "none"
          BY <5>1 DEF Passes, RoleChecks
        <5>. QED  BY <3>4, <5>1, <5>2
      <4>2. CASE step # 2
        <5>1. q # "role"
          BY <3>1, <4>2 DEF Statements
        <5>2. roleFound' = roleFound
          BY <2>5, <5>1
        <5>. QED  BY <2>5, <3>1, <3>4, <4>2, <5>2
      <4>. QED  BY <4>1, <4>2
    <3>6. step' > 0 /\ ~ failed' /\ altered' = 0 =>
            \A j \in 1 .. 8 : j < step' => Passes(Statements[j], catalog', "app")
      BY <2>2, <2>5, <3>1, <3>4
    <3>. QED  BY <2>2, <2>5, <3>2, <3>3, <3>5, <3>6
  <2>. QED  BY <2>1, <2>4, <2>5
<1>3. CASE Setup
  <2>1. /\ catalog' = AfterSetup(catalog)
        /\ UNCHANGED <<changes, step, roleFound, failed, altered, verdict>>
    BY <1>3 DEF Setup
  <2>2. rerun' \in BOOLEAN /\ matched' \in BOOLEAN
    BY <1>0, <1>3, Zenon DEF Setup, Flags
  <2>3. Flags'
    BY <2>1, <2>2, Zenon DEF Flags
  <2>4. Values'
    BY <2>1, SetupFields DEF Values
  <2>5. \A j \in 1 .. 8 : Passes(Statements[j], catalog, "app")
                             => Passes(Statements[j], catalog', "app")
    BY <2>1, SetupKeepsPasses DEF Values
  <2>. QED  BY <2>1, <2>3, <2>4, <2>5 DEF HealthyCatalog
<1>4. CASE Alter
  <2>1. /\ catalog' \in Altered(catalog) /\ changes' = changes + 1 /\ changes < MaxChanges
        /\ UNCHANGED <<step, roleFound, failed>> /\ verdict' = "none"
        /\ altered' = 0 \/ (altered' = altered + 1 /\ step # 0)
        /\ altered' = 0 => step = 0
    BY <1>4 DEF Alter, Values
  <2>2. Flags'
    BY <1>0, <1>4, Zenon DEF Alter, Flags
  <2>3. Values' /\ altered' <= changes'
    BY <2>1, AlteredTypes, AuditConstants DEF Values
  <2>. QED  BY <2>1, <2>2, <2>3 DEF Values
<1>5. CASE UNCHANGED vars
  <2>1. Flags'
    BY <1>5, Zenon DEF vars, Flags
  <2>2. Values'
    BY <1>5 DEF vars, Values
  <2>3. /\ UNCHANGED <<catalog, changes, step, altered, verdict>>
        /\ roleFound' = roleFound /\ failed' = failed
    BY <1>5 DEF vars
  <2>. QED  BY <2>1, <2>2, <2>3 DEF HealthyCatalog
<1>. QED  BY <1>1, <1>2, <1>3, <1>4, <1>5 DEF Next

\* So it holds in every reachable state of the audit.
THEOREM AuditInvariant == Spec => []IInv
  BY InitIInv, NextIInv, PTL DEF Spec

\* Every variable keeps its type, for any constants.
THEOREM AuditTypes == Spec => []TypeOK
<1>1. IInv => TypeOK
  BY TypeParts DEF IInv
<1>. QED  BY <1>1, AuditInvariant, PTL

\* A healthy verdict is sound if no administrator interfered, even though the
\* statements share no snapshot and the setup script may have run between them.
THEOREM VerdictIsSound == Spec => []VerdictSound
<1>1. IInv => VerdictSound
  BY HealthyIsolates DEF IInv, Values, VerdictSound
<1>. QED  BY <1>1, AuditInvariant, PTL

\* The generator and the audit agree: what the script leaves is healthy, where
\* nothing that it preserves stands in the way.
THEOREM SetupIsHealthy == Spec => SetupMakesHealthy
<1>1. IInv /\ [Next]_vars => [Setup /\ Unspoiled(catalog) => HealthyCatalog(catalog')]_vars
  BY SetupHealthy DEF IInv, Values, Setup
<1>. QED  BY <1>1, AuditInvariant, PTL DEF Spec, SetupMakesHealthy

-------------------------------------------------------------------------------
(***************************************************************************)
(* What one change leaves of the verdict, and what the script may do.      *)
(***************************************************************************)
\* A catalog the audit may have begun with, the change, and the first statement
\* that was sent after it.
OneChange ==
  \E old \in Catalog, m \in 1 .. 8 :
    /\ m <= step /\ catalog \in Altered(old)
    /\ HealthyCatalog(old) => matched
    /\ \A j \in 1 .. 8 : j < m => Passes(Statements[j], old, "app")
    /\ \A j \in 1 .. 8 : m <= j /\ j < step => Passes(Statements[j], catalog, "app")

\* matched remembers the catalog as it is, and as it was before a first change.
SInv ==
  /\ PoliciesAccepted(catalog)
  /\ step > 0 /\ HealthyCatalog(catalog) => matched
  /\ step > 0 /\ ~ failed /\ altered = 1 /\ ~ rerun => OneChange
  /\ VerdictOfSomeCatalog

\* It holds initially.
LEMMA InitSInv == Init => SInv
<1>. SUFFICES ASSUME Init PROVE SInv
  OBVIOUS
<1>1. PoliciesAccepted(catalog)
  BY DEF Init, PoliciesAccepted, Fresh
<1>. QED  BY <1>1 DEF Init, SInv, VerdictOfSomeCatalog

\* PostgreSQL accepts what is created.
LEMMA AcceptedStays ==
  ASSUME NEW cat \in Catalog, PoliciesAccepted(cat),
         NEW new, new = AfterSetup(cat) \/ new \in Altered(cat)
  PROVE  PoliciesAccepted(new)
<1>1. CASE new = AfterSetup(cat)
  <2>1. \A n \in Generated : WellFormed(GeneratedPolicy(n))
    <3>1. WellFormed(IsolationPolicy) /\ WellFormed(InsertPolicy) /\ WellFormed(GuardPolicy)
      BY DEF WellFormed, IsolationPolicy, InsertPolicy, GuardPolicy, NoExpr
    <3>. QED  BY <3>1 DEF Generated, GeneratedPolicy
  <2>2. \A n \in PolicyNames :
          new.policies[n] = IF n \in Generated /\ cat.policies[n] = NoPolicy
                            THEN GeneratedPolicy(n) ELSE cat.policies[n]
    BY <1>1, SetupFields, SetupPolicies
  <2>. QED  BY <2>1, <2>2 DEF PoliciesAccepted
<1>2. CASE new \in Altered(cat)
  <2>1. \A d \in Drifted : WellFormed(d)
    BY AuditConstants
  <2>2. CASE new.policies = cat.policies
    BY <2>2 DEF PoliciesAccepted
  <2>3. CASE \E n \in PolicyNames, p \in Drifted \cup {NoPolicy} :
               new = [cat EXCEPT !.policies[n] = p]
    <3>1. PICK n \in PolicyNames, p \in Drifted \cup {NoPolicy} :
             new = [cat EXCEPT !.policies[n] = p]
      BY <2>3
    <3>2. \A x \in PolicyNames : new.policies[x] = IF x = n THEN p ELSE cat.policies[x]
      BY <3>1 DEF Catalog
    <3>. QED  BY <2>1, <3>2 DEF PoliciesAccepted
  <2>4. QED
    <3>1. \/ new.policies = cat.policies
          \/ \E n \in PolicyNames, p \in Drifted \cup {NoPolicy} :
               new = [cat EXCEPT !.policies[n] = p]
      BY <1>2 DEF Altered, Catalog
    <3>. QED  BY <2>2, <2>3, <3>1
<1>. QED  BY <1>1, <1>2

\* An audit that ends healthy after one change at most.
LEMMA HealthyRemembered ==
  ASSUME IInv, SInv, step = 8, ~ failed, Passes(Statements[8], catalog, "app"),
         altered = 0 \/ (altered = 1 /\ ~ rerun)
  PROVE  matched
<1>1. CASE altered = 0
  <2>1. \A j \in 1 .. 8 : Passes(Statements[j], catalog, "app")
    BY <1>1 DEF IInv
  <2>. QED  BY <2>1 DEF SInv, HealthyCatalog
<1>2. CASE altered = 1 /\ ~ rerun
  <2>1. PICK old \in Catalog, m \in 1 .. 8 :
          /\ catalog \in Altered(old)
          /\ HealthyCatalog(old) => matched
          /\ \A j \in 1 .. 8 : j < m => Passes(Statements[j], old, "app")
          /\ \A j \in 1 .. 8 : m <= j /\ j < 8 => Passes(Statements[j], catalog, "app")
    BY <1>2 DEF SInv, OneChange
  <2>2. \A j \in 1 .. 8 : m <= j => Passes(Statements[j], catalog, "app")
    BY <2>1
  <2>3. HealthyCatalog(old) \/ HealthyCatalog(catalog)
    BY <2>1, <2>2, OneChangeFound
  <2>. QED  BY <2>1, <2>3 DEF SInv
<1>. QED  BY <1>1, <1>2

\* Every step keeps it.
LEMMA NextSInv == IInv /\ SInv /\ [Next]_vars => SInv'
<1>. SUFFICES ASSUME IInv, SInv, [Next]_vars PROVE SInv'
  OBVIOUS
<1>0. /\ catalog \in Catalog /\ altered \in Nat /\ step \in 0 .. 8
      /\ rerun \in BOOLEAN
      /\ PoliciesAccepted(catalog)
  <2>1. rerun \in BOOLEAN
    BY Zenon DEF IInv, Flags
  <2>. QED  BY <2>1, AuditConstants DEF IInv, Values, SInv
<1>1. CASE Begin
  <2>1. /\ altered' = 0 /\ verdict' = "none" /\ catalog' = catalog
        /\ matched' = HealthyCatalog(catalog)
    BY <1>1 DEF Begin
  <2>2. HealthyCatalog(catalog') => matched'
    BY <2>1
  <2>3. PoliciesAccepted(catalog')
    BY <1>0, <2>1
  <2>. QED  BY <2>1, <2>2, <2>3 DEF SInv, VerdictOfSomeCatalog, PoliciesAccepted, HealthyCatalog
<1>2. CASE Read
  <2>. DEFINE q == Statements[step]
  <2>1. PICK who \in Logins :
          /\ q # "session" => who = "app"
          /\ \/ LastStatement(q) /\ Conclude(failed \/ ~ Passes(q, catalog, who))
             \/ /\ ~ LastStatement(q)
                /\ step' = step + 1 /\ failed' = (failed \/ ~ Passes(q, catalog, who))
                /\ UNCHANGED <<verdict, altered, rerun, matched>>
    BY <1>2 DEF Read
  <2>2. step \in 1 .. 8 /\ catalog' = catalog
    BY <1>2 DEF Read
  <2>3. Passes(q, catalog, who) => Passes(q, catalog, "app")
    BY <2>1 DEF Passes, SessionChecks, Logins
  <2>4. PoliciesAccepted(catalog') /\ (HealthyCatalog(catalog') => HealthyCatalog(catalog))
    BY <1>0, <2>2
  <2>5. CASE LastStatement(q) /\ Conclude(failed \/ ~ Passes(q, catalog, who))
    <3>1. step' = 0
      BY <2>5 DEF Conclude
    <3>2. VerdictOfSomeCatalog'
      <4>1. SUFFICES ASSUME verdict' = "healthy", altered' + (IF rerun' THEN 1 ELSE 0) <= 1
                     PROVE  matched'
        BY DEF VerdictOfSomeCatalog
      <4>2. /\ ~ failed /\ Passes(q, catalog, who)
            /\ altered' = altered /\ rerun' = rerun /\ matched' = matched
        BY <2>5, <4>1 DEF Conclude
      <4>3. altered = 0 \/ (altered = 1 /\ ~ rerun)
        <5>1. altered + (IF rerun THEN 1 ELSE 0) <= 1
          BY <4>1, <4>2
        <5>. QED  BY <1>0, <5>1
      <4>4. step = 8
        BY <2>2, <2>5, <4>2 DEF LastStatement, Statements, IInv
      <4>. QED  BY <2>3, <4>2, <4>3, <4>4, HealthyRemembered
    <3>. QED  BY <2>4, <3>1, <3>2 DEF SInv, PoliciesAccepted, HealthyCatalog
  <2>6. CASE /\ ~ LastStatement(q)
             /\ step' = step + 1 /\ failed' = (failed \/ ~ Passes(q, catalog, who))
             /\ UNCHANGED <<verdict, altered, rerun, matched>>
    <3>1. VerdictOfSomeCatalog'
      BY <2>6 DEF SInv, VerdictOfSomeCatalog
    <3>2. HealthyCatalog(catalog') => matched'
      BY <2>2, <2>4, <2>6 DEF SInv
    <3>3. ASSUME ~ failed', altered' = 1, ~ rerun' PROVE OneChange'
      <4>1. ~ failed /\ Passes(q, catalog, "app") /\ altered = 1 /\ ~ rerun
        BY <2>3, <2>6, <3>3
      <4>2. PICK old \in Catalog, m \in 1 .. 8 :
              /\ m <= step /\ catalog \in Altered(old)
              /\ HealthyCatalog(old) => matched
              /\ \A j \in 1 .. 8 : j < m => Passes(Statements[j], old, "app")
              /\ \A j \in 1 .. 8 : m <= j /\ j < step => Passes(Statements[j], catalog, "app")
        BY <2>2, <4>1 DEF SInv, OneChange
      <4>3. \A j \in 1 .. 8 : m <= j /\ j < step' => Passes(Statements[j], catalog, "app")
        BY <2>2, <2>6, <4>1, <4>2
      <4>4. m <= step'
        BY <2>2, <2>6, <4>2
      <4>. QED  BY <2>2, <2>6, <4>2, <4>3, <4>4 DEF OneChange
    <3>. QED  BY <2>4, <3>1, <3>2, <3>3 DEF SInv, PoliciesAccepted, HealthyCatalog
  <2>. QED  BY <2>1, <2>5, <2>6
<1>3. CASE Setup
  <2>1. /\ catalog' = AfterSetup(catalog)
        /\ UNCHANGED <<step, failed, altered, verdict>>
    BY <1>3 DEF Setup
  <2>2. PoliciesAccepted(catalog')
    BY <1>0, <2>1, AcceptedStays
  <2>3. CASE step = 0
    <3>1. rerun' = rerun /\ matched' = matched
      BY <1>3, <2>3 DEF Setup
    <3>2. VerdictOfSomeCatalog'
      BY <2>1, <3>1 DEF SInv, VerdictOfSomeCatalog
    <3>. QED  BY <2>1, <2>2, <2>3, <3>2 DEF SInv, PoliciesAccepted
  <2>4. CASE step # 0
    <3>1. /\ rerun' = (rerun \/ catalog' # catalog)
          /\ matched' = (matched \/ HealthyCatalog(catalog'))
      BY <1>3, <2>4 DEF Setup
    <3>2. /\ matched => matched'
          /\ HealthyCatalog(catalog') => matched'
          /\ rerun => rerun'
          /\ ~ rerun' => catalog' = catalog
      BY <3>1
    <3>3. VerdictOfSomeCatalog'
      <4>1. SUFFICES ASSUME verdict' = "healthy", altered' + (IF rerun' THEN 1 ELSE 0) <= 1
                     PROVE  matched'
        BY DEF VerdictOfSomeCatalog
      <4>2. altered + (IF rerun THEN 1 ELSE 0) <= 1
        BY <1>0, <2>1, <3>2, <4>1
      <4>. QED  BY <2>1, <3>2, <4>1, <4>2 DEF SInv, VerdictOfSomeCatalog
    <3>4. ASSUME ~ failed', altered' = 1, ~ rerun' PROVE OneChange'
      <4>1. ~ failed /\ altered = 1 /\ ~ rerun /\ step > 0
        BY <1>0, <2>1, <2>4, <3>2, <3>4
      <4>2. catalog' = catalog
        BY <3>2, <3>4
      <4>3. OneChange
        BY <4>1 DEF SInv
      <4>. QED  BY <2>1, <3>2, <4>2, <4>3 DEF OneChange
    <3>. QED  BY <2>2, <3>2, <3>3, <3>4 DEF SInv, PoliciesAccepted, HealthyCatalog
  <2>. QED  BY <2>3, <2>4
<1>4. CASE Alter
  <2>1. /\ catalog' \in Altered(catalog) /\ verdict' = "none"
        /\ UNCHANGED <<step, failed>>
    BY <1>4 DEF Alter
  <2>2. PoliciesAccepted(catalog')
    BY <1>0, <2>1, AcceptedStays
  <2>3. VerdictOfSomeCatalog'
    BY <2>1 DEF VerdictOfSomeCatalog
  <2>4. CASE step = 0
    BY <2>1, <2>2, <2>3, <2>4 DEF SInv, PoliciesAccepted
  <2>5. CASE step # 0
    <3>1. /\ altered' = altered + 1 /\ rerun' = rerun
          /\ matched' = (matched \/ HealthyCatalog(catalog'))
      BY <1>4, <2>5 DEF Alter
    <3>2. (matched => matched') /\ (HealthyCatalog(catalog') => matched')
      BY <3>1
    <3>3. ASSUME ~ failed', altered' = 1 PROVE OneChange'
      <4>1. ~ failed /\ altered = 0 /\ step \in 1 .. 8
        BY <1>0, <2>1, <2>5, <3>1, <3>3
      <4>2. \A j \in 1 .. 8 : j < step => Passes(Statements[j], catalog, "app")
        BY <4>1 DEF IInv
      <4>3. HealthyCatalog(catalog) => matched'
        BY <3>2, <4>1 DEF SInv
      <4>. QED  BY <1>0, <2>1, <4>1, <4>2, <4>3 DEF OneChange
    <3>. QED  BY <2>2, <2>3, <3>2, <3>3 DEF SInv, PoliciesAccepted, HealthyCatalog
  <2>. QED  BY <2>4, <2>5
<1>5. CASE UNCHANGED vars
  <2>1. /\ UNCHANGED <<catalog, step, altered, verdict>>
        /\ failed' = failed /\ rerun' = rerun /\ matched' = matched
    BY <1>5 DEF vars
  <2>2. VerdictOfSomeCatalog' /\ PoliciesAccepted(catalog')
    BY <2>1 DEF SInv, VerdictOfSomeCatalog
  <2>3. OneChange => OneChange'
    BY <2>1 DEF OneChange
  <2>4. HealthyCatalog(catalog') => HealthyCatalog(catalog)
    BY <2>1
  <2>. QED  BY <2>1, <2>2, <2>3, <2>4 DEF SInv, PoliciesAccepted, HealthyCatalog
<1>. QED  BY <1>1, <1>2, <1>3, <1>4, <1>5 DEF Next

\* So the audit never forgets a catalog that one change could have hidden.
THEOREM AuditRemembers == Spec => []SInv
  BY AuditInvariant, InitSInv, NextSInv, PTL DEF Spec

\* A healthy verdict that saw one change at most, whether the script's or an
\* administrator's, is about a catalog there was during the audit.
THEOREM VerdictHasACatalog == Spec => []VerdictOfSomeCatalog
<1>1. SInv => VerdictOfSomeCatalog
  BY DEF SInv
<1>. QED  BY <1>1, AuditRemembers, PTL

\* Running the script never weakens an isolated table that has an unchanged
\* guard, or none yet, or every policy of the script.
THEOREM SetupKeepsIsolation == Spec => SetupNeverWeakens
<1>1. IInv /\ SInv /\ [Next]_vars =>
        [Setup /\ \/ catalog.policies["guard"] \in {NoPolicy, GuardPolicy}
                  \/ \A n \in Generated : catalog.policies[n] # NoPolicy
           => (Isolates(catalog) => Isolates(catalog'))]_vars
  BY SetupIsolates DEF IInv, Values, SInv, Setup, GuardKept
<1>. QED  BY <1>1, AuditInvariant, AuditRemembers, PTL DEF Spec, SetupNeverWeakens
===============================================================================
