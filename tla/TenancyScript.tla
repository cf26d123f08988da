----------------------------- MODULE TenancyScript -----------------------------
(***************************************************************************)
(* tenancy-setup.sql as a sequence of lines, a line being one statement or *)
(* one comment that means something:                                       *)
(*   src/src/cli/templates/setup-sql.ts   generateSetupSql                 *)
(*   src/src/cli/tenant-column.ts         resolveTenantColumn              *)
(* and what a fail-fast client does to a database with it (external).      *)
(* TenancyCatalog has the effect of the whole script on one table; here it *)
(* is made of its statements, for several tables and for edited scripts.   *)
(***************************************************************************)
EXTENDS TenancyCatalog, FiniteSets, SequencesExt

CONSTANTS
  Tables, Schemas,
  SchemaOf,     \* the schema of a table
  Public        \* the schema that every script grants

ASSUME ScriptConstants ==
  /\ IsFiniteSet(Tables)
  /\ SchemaOf \in [Tables -> Schemas]
  /\ Public \in Schemas

\* A Prisma schema says of each table whether a model maps it, and what
\* resolveTenantColumn makes of the model: a TEXT or UUID column, or an error.
Kinds == {"absent", "text", "uuid", "unscoped"}

Models(prisma) == {t \in Tables : prisma[t] # "absent"}

ModelSchemas(prisma) == {Public} \cup {SchemaOf[t] : t \in Models(prisma)}

(***************************************************************************)
(* Lines.  "disable" stands for every statement that takes row-level       *)
(* security or a policy away, "do" for a DO block that hides one,          *)
(* "escalate" for every statement the generator never emits, "otherKey"    *)
(* for a statement that reads another setting, "open" for a quote or a     *)
(* comment that is never closed.                                           *)
(***************************************************************************)
Line(op, x) == [op |-> op, on |-> x]

\* A policy, made if it is missing ("guarded") or outright ("create"); type is
\* the cast of a tenant predicate.
PolicyLine(op, t, n, p, type) ==
  [op |-> op, on |-> t, name |-> n, policy |-> p, type |-> type]

Comments == {"header", "start", "end", "shared"}

IsComment(line) == line.op \in Comments
IsPolicy(line)  == line.op \in {"guarded", "create"}

WellFormedPolicies == {p \in Policy : WellFormed(p)}

PolicyLines ==
  {l \in [op : {"guarded", "create"}, on : Tables, name : PolicyNames,
          policy : WellFormedPolicies, type : {"any", "text", "uuid"}] :
     l.type = "any" <=> "tenant" \notin {l.policy.using, l.policy.check}}

ScriptLines ==
  [op : {"header", "start", "end", "BEGIN", "COMMIT", "role", "escalate", "otherKey", "open"},
   on : {Public}]
  \cup [op : {"usage", "sequences"}, on : Schemas]
  \cup [op : {"shared", "enable", "force", "index", "grant", "disable", "do"}, on : Tables]
  \cup PolicyLines

\* The sequences of lines that belong to the members of a set, in some order.
ForEach(linesOf) ==
  LET order == SetToSeq(DOMAIN linesOf) IN
  FlattenSeq([i \in 1 .. Cardinality(DOMAIN linesOf) |-> linesOf[order[i]]])

GuardedPolicy(t, n, kind) ==
  PolicyLine("guarded", t, n, GeneratedPolicy(n), IF n = "guard" THEN "any" ELSE kind)

TableLines(t, kind) ==
  <<Line("enable", t), Line("force", t), Line("index", t),
    GuardedPolicy(t, "isolation", kind), GuardedPolicy(t, "insert", kind),
    GuardedPolicy(t, "guard", kind), Line("grant", t)>>

\* Seeded fault: a shared model has no marker.
UnmarkedSharedLines(t) == <<Line("grant", t)>>

SharedLines(t) == <<Line("shared", t), Line("grant", t)>>

\* resolveTenantColumn finds the column of every model that is not shared
Generates(prisma, shared) == \A t \in Models(prisma) \ shared : prisma[t] \in {"text", "uuid"}

Generate(prisma, shared) ==
  <<Line("header", Public), Line("start", Public), Line("BEGIN", Public), Line("role", Public)>>
  \o ForEach([s \in ModelSchemas(prisma) |-> <<Line("usage", s)>>])
  \o ForEach([t \in Models(prisma) |->
                IF t \in shared THEN SharedLines(t) ELSE TableLines(t, prisma[t])])
  \o ForEach([s \in ModelSchemas(prisma) |-> <<Line("sequences", s)>>])
  \o <<Line("COMMIT", Public), Line("end", Public)>>

-------------------------------------------------------------------------------
(***************************************************************************)
(* Running it.  A database has a catalog for each table; the role is the   *)
(* same in all of them, USAGE in those of one schema.  A statement fails   *)
(* on a table or a role that is not there, on a predicate of another type  *)
(* than the column, and on a policy that exists already.                   *)
(***************************************************************************)
Fails(line, d, prisma) ==
  LET t == line.on IN
  \/ line.op \in {"enable", "force", "disable", "do", "index", "grant", "guarded", "create"}
     /\ prisma[t] = "absent"
  \/ line.op \in {"usage", "sequences", "grant", "escalate"}
     /\ \E u \in Tables : d[u].role = "none"
  \/ line.op = "index" /\ d[t].column = "none"
  \/ IsPolicy(line) /\ line.type \notin {"any", d[t].column} /\ d[t].policies[line.name] = NoPolicy
  \/ line.op = "create" /\ d[t].policies[line.name] # NoPolicy

\* Seeded fault: a policy is replaced where it exists.
ReplacePolicy(d, line) == [d EXCEPT ![line.on].policies[line.name] = line.policy]

\* CREATE POLICY, after IF NOT EXISTS for a guarded one
MakePolicy(d, line) ==
  [d EXCEPT ![line.on].policies[line.name] = IF @ = NoPolicy THEN line.policy ELSE @]

Effect(line, d) ==
  LET t == line.on IN
  CASE line.op = "role" ->
         [u \in Tables |-> [d[u] EXCEPT !.role = IF @ = "none" THEN "login" ELSE @]]
    [] line.op = "usage" ->
         [u \in Tables |-> [d[u] EXCEPT !.usage = @ \/ SchemaOf[u] = t]]
    [] line.op = "enable" -> [d EXCEPT ![t].rls = TRUE]
    [] line.op = "force"  -> [d EXCEPT ![t].forced = TRUE]
    [] line.op = "index"  -> [d EXCEPT ![t].index = TRUE]
    [] line.op = "grant"  -> [d EXCEPT ![t].dml = TRUE]
    [] IsPolicy(line)     -> MakePolicy(d, line)
    [] line.op \in {"disable", "do"} -> [d EXCEPT ![t].rls = FALSE]
    [] line.op = "escalate" -> [u \in Tables |-> [d[u] EXCEPT !.role = "bypassrls"]]
    [] OTHER -> d

\* One statement of a session: r.db is the database as the session sees it,
\* r.saved what a ROLLBACK restores while r.open.  After an error nothing is sent.
Execute(r, line, prisma) ==
  IF r.failed \/ IsComment(line) THEN r
  ELSE IF line.op = "BEGIN" THEN [r EXCEPT !.open = TRUE, !.saved = IF r.open THEN @ ELSE r.db]
  ELSE IF line.op = "COMMIT" THEN [r EXCEPT !.open = FALSE]
  ELSE IF Fails(line, r.db, prisma) THEN [r EXCEPT !.failed = TRUE]
  ELSE [r EXCEPT !.db = Effect(line, @)]

\* The session before the first line, and after each of them.
Course(lines, d, prisma) ==
  LET after[i \in 0 .. Len(lines)] ==
        IF i = 0 THEN [db |-> d, saved |-> d, open |-> FALSE, failed |-> FALSE]
        ELSE Execute(after[i - 1], lines[i], prisma)
  IN after

\* The database once the session is closed, and whether a statement failed or a
\* transaction was left open.
RunScript(lines, d, prisma) ==
  LET r == Course(lines, d, prisma)[Len(lines)]
  IN [db |-> IF r.open THEN r.saved ELSE r.db, failed |-> r.failed \/ r.open]

\* A migrated database that the script has not seen.
Migrated(kind) ==
  [Fresh EXCEPT !.column = IF kind \in {"text", "uuid"} THEN kind ELSE "none"]

FreshDatabase(prisma) == [t \in Tables |-> Migrated(prisma[t])]
===============================================================================
