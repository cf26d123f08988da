------------------------------ MODULE DoctorAudit ------------------------------
(***************************************************************************)
(* What a healthy verdict is worth:                                        *)
(*   src/src/cli/doctor-catalog.ts   auditDoctorDatabase                   *)
(*                                                                         *)
(* The audit reads the catalog in eight statements, each with a snapshot   *)
(* of its own, while the setup script may run and a database administrator *)
(* may change anything in between.  Without --active.                      *)
(***************************************************************************)
EXTENDS DoctorChecks

CONSTANTS
  Drifted,      \* policies an administrator may create, under any name
  MaxChanges    \* bound on the administrator's changes

ASSUME AuditConstants ==
  /\ Drifted \subseteq {p \in Policy : WellFormed(p)}
  /\ MaxChanges \in Nat

VARIABLES
  catalog,    \* the catalog now
  changes,    \* changes made by the administrator
  step,       \* the statement the audit sends next; 0: none is running
  roleFound,  \* the statement on the role returned a row
  failed,     \* a check of this audit fails
  altered,    \* changes by the administrator since the audit began
  rerun,      \* the script changed something since the audit began
  matched,    \* at some moment since it began every check would have passed
  verdict     \* the result of the last audit, until an administrator's change

vars == <<catalog, changes, step, roleFound, failed, altered, rerun, matched, verdict>>

Init ==
  /\ catalog = Fresh
  /\ changes = 0
  /\ step = 0
  /\ roleFound = FALSE /\ failed = FALSE
  /\ altered = 0 /\ rerun = FALSE /\ matched = FALSE
  /\ verdict = "none"

-------------------------------------------------------------------------------
(***************************************************************************)
(* The audit.                                                              *)
(***************************************************************************)
Begin ==
  /\ step = 0
  /\ step' = 1
  /\ roleFound' = FALSE /\ failed' = FALSE
  /\ altered' = 0 /\ rerun' = FALSE
  /\ matched' = HealthyCatalog(catalog)
  /\ verdict' = "none"
  /\ UNCHANGED <<catalog, changes>>

Conclude(fails) ==
  /\ step' = 0 /\ failed' = FALSE /\ roleFound' = FALSE
  /\ \/ ~ fails /\ verdict' = "healthy" /\ UNCHANGED <<altered, rerun, matched>>
     \/ /\ fails /\ verdict' = "unhealthy"
        /\ altered' = 0 /\ rerun' = FALSE /\ matched' = FALSE

\* Seeded fault: the condition on the column is the wrong way round.
IndexOfNoColumn(q) ==
  \/ q = "table" /\ ~ roleFound
  \/ q = "reachable" /\ catalog.column # "none"
  \/ q = "index"

\* Without a role nothing that depends on it is read, and without the tenant
\* column its index is not.
LastStatement(q) ==
  \/ q = "table" /\ ~ roleFound
  \/ q = "reachable" /\ failed /\ catalog.column = "none"
  \/ q = "index"

Read ==
  /\ step \in 1 .. 8
  /\ \E who \in Logins :
       LET q     == Statements[step]
           fails == failed \/ ~ Passes(q, catalog, who)
       IN
       /\ q # "session" => who = "app"
       /\ \/ LastStatement(q) /\ Conclude(fails)
          \/ /\ ~ LastStatement(q)
             /\ step' = step + 1 /\ failed' = fails
             /\ roleFound' = (IF q = "role" THEN catalog.role # "none" ELSE roleFound)
             /\ UNCHANGED <<verdict, altered, rerun, matched>>
  /\ UNCHANGED <<catalog, changes>>

-------------------------------------------------------------------------------
(***************************************************************************)
(* What changes the catalog.                                               *)
(***************************************************************************)
Setup ==
  /\ SetupRuns(catalog)
  /\ catalog' = AfterSetup(catalog)
  /\ IF step # 0
     THEN /\ rerun' = (rerun \/ catalog' # catalog)
          /\ matched' = (matched \/ HealthyCatalog(catalog'))
     ELSE UNCHANGED <<rerun, matched>>
  /\ UNCHANGED <<changes, step, roleFound, failed, altered, verdict>>

\* PostgreSQL keeps a column that a policy refers to as it is.
ColumnInUse(cat) ==
  \E n \in PolicyNames : cat.policies[n] # NoPolicy
       /\ "tenant" \in {cat.policies[n].using, cat.policies[n].check}

Altered(cat) ==
       {[cat EXCEPT !.role = r] : r \in {"login", "nologin", "super", "bypassrls"}}
  \cup {[cat EXCEPT !.ownerRights = b] : b \in BOOLEAN}
  \cup {[cat EXCEPT !.reaches = b] : b \in BOOLEAN}
  \cup {[cat EXCEPT !.rls = b] : b \in BOOLEAN}
  \cup {[cat EXCEPT !.forced = b] : b \in BOOLEAN}
  \cup {[cat EXCEPT !.column = c] :
           c \in IF ColumnInUse(cat) THEN {} ELSE {"none", "text", "uuid", "other"}}
  \cup {[cat EXCEPT !.notNull = b] : b \in BOOLEAN}
  \cup {[cat EXCEPT !.stored = b] : b \in BOOLEAN}
  \cup {[cat EXCEPT !.index = b] : b \in BOOLEAN}
  \cup {[cat EXCEPT !.usage = b] : b \in BOOLEAN}
  \cup {[cat EXCEPT !.dml = b] : b \in BOOLEAN}
  \cup {[cat EXCEPT !.truncate = b] : b \in BOOLEAN}
  \cup {[cat EXCEPT !.policies[n] = p] :
           n \in PolicyNames,
           p \in {NoPolicy} \cup {d \in Drifted :
                    "tenant" \in {d.using, d.check} => cat.column \in {"text", "uuid"}}}

Alter ==
  /\ changes < MaxChanges
  /\ changes' = changes + 1
  /\ catalog' \in Altered(catalog) \ {catalog}
  /\ \/ /\ step # 0
        /\ altered' = altered + 1
        /\ matched' = (matched \/ HealthyCatalog(catalog'))
        /\ UNCHANGED rerun
     \/ step = 0 /\ altered' = 0 /\ rerun' = FALSE /\ matched' = FALSE
  /\ verdict' = "none"
  /\ UNCHANGED <<step, roleFound, failed>>

Next == Begin \/ Read \/ Setup \/ Alter

Spec == Init /\ [][Next]_vars

-------------------------------------------------------------------------------
(***************************************************************************)
(* Properties.                                                             *)
(***************************************************************************)
\* Every variable has its type.
TypeOK ==
  /\ catalog \in Catalog
  /\ changes \in 0 .. MaxChanges
  /\ step \in 0 .. 8
  /\ roleFound \in BOOLEAN /\ failed \in BOOLEAN
  /\ rerun \in BOOLEAN /\ matched \in BOOLEAN
  /\ altered \in 0 .. MaxChanges
  /\ verdict \in {"none", "healthy", "unhealthy"}

\* A healthy verdict of an audit during which no administrator changed
\* anything: the application role reaches no row but those of the tenant it
\* has set, whatever other policies the table has, and although the setup
\* script may have run between two statements of the audit.
VerdictSound == verdict = "healthy" /\ altered = 0 => Isolates(catalog)

\* The statements share no snapshot.  A healthy verdict that saw at most one
\* change still describes a catalog there was at some moment of the audit; with
\* two changes it need not.
VerdictOfSomeCatalog ==
  verdict = "healthy" /\ altered + (IF rerun THEN 1 ELSE 0) <= 1 => matched

\* Running the script never weakens a table that is isolated, as long as it has
\* an unchanged guard, or none yet, or every policy the script would create.  (A
\* guard that was weakened while no permissive policy existed is preserved, and
\* the policies created next to it then do admit rows.)
SetupNeverWeakens ==
  [][Setup /\ \/ catalog.policies["guard"] \in {NoPolicy, GuardPolicy}
              \/ \A n \in Generated : catalog.policies[n] # NoPolicy
       => (Isolates(catalog) => Isolates(catalog'))]_vars

\* Where nothing the script preserves stands in the way, it leaves a database
\* that the audit finds healthy: generator and audit agree on the contract.
Unspoiled(cat) ==
  /\ cat.role \in {"none", "login"} /\ ~ cat.ownerRights /\ ~ cat.reaches
  /\ cat.notNull /\ cat.stored /\ ~ cat.truncate
  /\ \A n \in Generated : cat.policies[n] \in {NoPolicy, GeneratedPolicy(n)}
  /\ \A n \in Extra : cat.policies[n] # NoPolicy => ~ cat.policies[n].permissive

SetupMakesHealthy == [][Setup /\ Unspoiled(catalog) => HealthyCatalog(catalog')]_vars
===============================================================================
