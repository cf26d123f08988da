------------------------------ MODULE StaticCheck ------------------------------
(***************************************************************************)
(* `tenancy check`: is tenancy-setup.sql in sync with the Prisma schema?   *)
(*   src/src/cli/check.ts   runCheck                                       *)
(*   src/src/cli/init.ts    runInit                                        *)
(*                                                                         *)
(* The file is generated, edited by hand and applied while the schema      *)
(* migrates, in any order.  Inside the boundary markers the check accepts  *)
(* only what the generator emits; a file without any marker is compared    *)
(* with it statement by statement.  How SQL is scanned and matched is      *)
(* abstracted to which line each statement is (see TenancyScript).         *)
(***************************************************************************)
EXTENDS TenancyScript

CONSTANTS
  StartSchemas,   \* Prisma schemas to start from
  SharedSets,     \* answers to init's question for shared models
  Insertable,     \* lines that an edit may add
  MaxChanges      \* bound on edits and migrations

ASSUME CheckConstants ==
  /\ StartSchemas \subseteq [Tables -> Kinds]
  /\ SharedSets \subseteq SUBSET Tables
  /\ Insertable \subseteq ScriptLines
  /\ Extra # {}
  /\ MaxChanges \in Nat

VARIABLES
  prisma,     \* schema.prisma, and the migrated database's columns
  file,       \* tenancy-setup.sql; <<>> where there is none
  shared,     \* the shared models it was generated for
  pristine,   \* it is as generated, from the schema as it is
  db,         \* the catalog of each table
  changes     \* edits and migrations so far

vars == <<prisma, file, shared, pristine, db, changes>>

-------------------------------------------------------------------------------
(***************************************************************************)
(* What the check reads.                                                   *)
(***************************************************************************)
Of(lines, op) == {i \in DOMAIN lines : lines[i].op = op}

Has(lines, op, x) == Line(op, x) \in ToSet(lines)

\* scanSql: what an unclosed quote or comment swallows is not there
Lexes(lines) == Of(lines, "open") = {}
Scan(lines)  == IF Lexes(lines) THEN lines ELSE SubSeq(lines, 1, Min(Of(lines, "open")) - 1)

\* extractGeneratedSqlSection: from the first start marker to the first end
\* marker after it, or the whole file
Ends(f) ==
  LET seen == Scan(f) IN
  {j \in Of(seen, "end") : Of(seen, "start") # {} /\ j > Min(Of(seen, "start"))}

Marked(f) == Ends(f) # {}

Section(f) ==
  IF Marked(f) THEN SubSeq(f, Min(Of(Scan(f), "start")) + 1, Min(Ends(f)) - 1) ELSE f

\* Any of the generator's comments calls for exactly one pair of markers.
MarkersCanonical(f) ==
  LET seen == Scan(f) IN
  \/ \A op \in {"start", "end", "header"} : Of(seen, op) = {}
  \/ /\ Cardinality(Of(seen, "start")) = 1 /\ Cardinality(Of(seen, "end")) = 1
     /\ Marked(f)

-------------------------------------------------------------------------------
(***************************************************************************)
(* The checks, on the lines of the section; marked tells a section between *)
(* markers from a whole file without any.                                  *)
(***************************************************************************)
SqlLines(lines) == {i \in DOMAIN lines : ~ IsComment(lines[i])}

\* Seeded fault: nothing asks for the COMMIT.
EnvelopeBegins(lines) ==
  \E b \in Of(lines, "BEGIN") : \A i \in SqlLines(lines) : b <= i

\* one transaction, from the first statement to the last
EnvelopeCanonical(lines) ==
  \E b \in Of(lines, "BEGIN"), c \in Of(lines, "COMMIT") :
    /\ Of(lines, "BEGIN") = {b} /\ Of(lines, "COMMIT") = {c}
    /\ SqlLines(lines) \subseteq b .. c

\* every statement is one the generator emits, no policy is unguarded
OnlySupported(lines) ==
  \A op \in {"create", "disable", "escalate", "otherKey"} : Of(lines, op) = {}

\* the models that a marker and a grant declare to be shared, and the others
SharedModels(lines, sch) ==
  {t \in Models(sch) : Has(lines, "shared", t) /\ Has(lines, "grant", t)}

Expected(lines, sch) == Models(sch) \ SharedModels(lines, sch)

SqlTables(lines) == {t \in Tables : Has(lines, "enable", t)}

\* every target belongs to a model, and every schema of a model is granted
TargetsExpected(lines, sch) ==
  /\ \A i \in DOMAIN lines :
       LET l == lines[i] IN
       /\ l.op = "grant" => l.on \in Models(sch)
       /\ l.op \in {"enable", "force", "index"} => l.on \in Expected(lines, sch)
       /\ l.op \in {"usage", "sequences"} => l.on \in ModelSchemas(sch)
  /\ \A s \in ModelSchemas(sch) : Has(lines, "usage", s) /\ Has(lines, "sequences", s)

\* Seeded fault: a predicate of either type will do.
AnyType(type, kind) == TRUE

TypeFits(type, kind) == type \in {"any", kind}

\* The policies of a table that are the generated one of a name: a file without
\* markers may call its context guard what it likes.
Matching(lines, marked, sch, t, n) ==
  {i \in DOMAIN lines :
     /\ IsPolicy(lines[i]) /\ lines[i].on = t
     /\ lines[i].policy = GeneratedPolicy(n) /\ TypeFits(lines[i].type, sch[t])
     /\ lines[i].name = n \/ (n = "guard" /\ ~ marked)}

\* FORCE, the grant, the index and each of the three policies exactly once
Complete(lines, marked, sch, t) ==
  /\ sch[t] # "unscoped"
  /\ Has(lines, "force", t) /\ Has(lines, "index", t)
  /\ marked => Has(lines, "grant", t)
  /\ \A n \in Generated : Cardinality(Matching(lines, marked, sch, t, n)) = 1

\* Seeded fault: another policy is nobody's business.
AnyPolicies(lines, marked, sch) == TRUE

\* There is no other policy, but for restrictive ones in a file without markers.
OnlyKnownPolicies(lines, marked, sch) ==
  \A i \in DOMAIN lines : IsPolicy(lines[i]) =>
    /\ lines[i].on \in SqlTables(lines) \cap Expected(lines, sch)
    /\ \/ \E n \in Generated : i \in Matching(lines, marked, sch, lines[i].on, n)
       \/ ~ marked /\ ~ lines[i].policy.permissive

InSync(f, sch) ==
  LET marked == Marked(f)
      lines  == Section(f) IN
  /\ f # <<>>
  /\ Lexes(lines) /\ MarkersCanonical(f)
  /\ Of(lines, "do") = {} /\ Of(lines, "disable") = {} /\ Of(lines, "otherKey") = {}
  /\ marked => /\ EnvelopeCanonical(lines)
               /\ OnlySupported(lines)
               /\ TargetsExpected(lines, sch)
  /\ SqlTables(lines) = Expected(lines, sch)
  /\ \A t \in Expected(lines, sch) : Complete(lines, marked, sch, t)
  /\ OnlyKnownPolicies(lines, marked, sch)

-------------------------------------------------------------------------------
(***************************************************************************)
(* What happens to the file, the schema and the database.                  *)
(***************************************************************************)
\* A file as it was written before there were markers: no transaction, no
\* guarded policy, a context guard added by hand under a name of its own.
CreatePolicy(t, name, n, kind) ==
  PolicyLine("create", t, name, GeneratedPolicy(n), IF n = "guard" THEN "any" ELSE kind)

LegacyLines(t, kind) ==
  <<Line("grant", t), Line("enable", t), Line("force", t), Line("index", t)>>
  \o [i \in 1 .. 3 |-> LET n == <<"isolation", "insert", "guard">>[i] IN
        CreatePolicy(t, IF n = "guard" THEN CHOOSE x \in Extra : TRUE ELSE n, n, kind)]

LegacyFile(sch, sh) ==
  <<Line("role", Public)>>
  \o ForEach([t \in Models(sch) |->
                IF t \in sh THEN SharedLines(t) ELSE LegacyLines(t, sch[t])])

Init ==
  /\ prisma \in StartSchemas
  /\ shared \in {sh \in SharedSets : Generates(prisma, sh)}
  /\ file \in {<<>>, LegacyFile(prisma, shared)}
  /\ pristine = FALSE
  /\ db = FreshDatabase(prisma)
  /\ changes = 0

\* runInit: an invalid model leaves the file as it is
RunInit(sh) ==
  /\ Generates(prisma, sh)
  /\ file' = Generate(prisma, sh)
  /\ shared' = sh
  /\ pristine' = TRUE
  /\ UNCHANGED <<prisma, db, changes>>

\* A line is added by hand, outside of the markers, inside of BEGIN or COMMIT, or
\* between COMMIT and the end marker; or one is removed.
EditedPlaces(f) == {0, 3, Len(f) - 2, Len(f) - 1} \cap 0 .. Len(f)

Edit ==
  /\ file # <<>>
  /\ changes < MaxChanges
  /\ \/ \E i \in DOMAIN file : file' = RemoveAt(file, i)
     \/ \E i \in EditedPlaces(file), line \in Insertable : file' = InsertAt(file, i + 1, line)
  /\ changes' = changes + 1
  /\ pristine' = FALSE
  /\ UNCHANGED <<prisma, shared, db>>

\* A model comes or goes with its table, or the type of its column changes,
\* which PostgreSQL refuses while a policy depends on it.
Migrate(t, kind) ==
  /\ changes < MaxChanges
  /\ kind # prisma[t]
  /\ "absent" \in {prisma[t], kind} \/ \A n \in PolicyNames : db[t].policies[n] = NoPolicy
  /\ prisma' = [prisma EXCEPT ![t] = kind]
  /\ db' = [db EXCEPT ![t] = [Migrated(kind) EXCEPT !.role = db[t].role,
                                                       !.usage = db[t].usage]]
  /\ changes' = changes + 1
  /\ pristine' = FALSE
  /\ UNCHANGED <<file, shared>>

\* The section is run; what stands outside of it is the application's own.
Apply ==
  /\ file # <<>>
  /\ db' = RunScript(Scan(Section(file)), db, prisma).db
  /\ UNCHANGED <<prisma, file, shared, pristine, changes>>

Next ==
  \/ \E sh \in SharedSets : RunInit(sh)
  \/ Edit
  \/ \E t \in Tables, kind \in Kinds : Migrate(t, kind)
  \/ Apply

Spec == Init /\ [][Next]_vars

-------------------------------------------------------------------------------
(***************************************************************************)
(* Properties.                                                             *)
(***************************************************************************)
\* No two policies of a table have the same name.
NamesUnique(lines) ==
  \A i, j \in DOMAIN lines :
    IsPolicy(lines[i]) /\ IsPolicy(lines[j]) /\ lines[i].on = lines[j].on
    /\ lines[i].name = lines[j].name => i = j

\* However a file was edited: if the check finds it in sync and it runs to its
\* end on a migrated database, every model that is not shared is isolated.  A
\* file without markers is compared only with what the check knows, so there two
\* things are excluded: a statement it does not know, and a further restrictive
\* policy, which it accepts, under the name that the context guard has too, and
\* which then keeps a guarded one from being created.
SyncIsolates ==
  LET lines == Section(file)
      run   == RunScript(lines, FreshDatabase(prisma), prisma) IN
  /\ InSync(file, prisma) /\ ~ run.failed
  /\ Marked(file) \/ (Of(lines, "escalate") = {} /\ NamesUnique(lines))
  =>
    \A t \in Expected(lines, prisma) : Isolates(run.db[t])

\* "The generated BEGIN / COMMIT makes its roles, grants, indexes, RLS flags, and
\* policies all-or-nothing" of every marked section the check accepts, edited or
\* not, on the database as it is and on one that is still without the table of a
\* model, where the script fails half-way.
AllOrNothing ==
  InSync(file, prisma) /\ Marked(file) =>
    \A there \in {prisma} \cup {[prisma EXCEPT ![t] = "absent"] : t \in Tables} :
      LET run == RunScript(Section(file), db, there) IN run.failed => run.db = db

\* What init writes is in sync with the schema it was generated from.
GeneratedInSync == pristine => InSync(file, prisma)

\* The generated script does to each table what TenancyCatalog says it does, on
\* whatever an earlier application of this or another file has left.
ScriptSetsUp ==
  pristine =>
    RunScript(Section(file), db, prisma).db =
      [t \in Tables |->
         IF t \in Models(prisma) \ shared THEN AfterSetup(db[t])
         ELSE [db[t] EXCEPT !.role = IF @ = "none" THEN "login" ELSE @,
                            !.usage = @ \/ SchemaOf[t] \in ModelSchemas(prisma),
                            !.dml = @ \/ t \in shared \cap Models(prisma)]]

\* Drift is found: a file is in sync with at most one schema, up to the columns
\* of the models it declares to be shared.
DriftFound ==
  InSync(file, prisma) =>
    \A t \in Tables : \A kind \in Kinds \ {prisma[t]} :
      LET other == [prisma EXCEPT ![t] = kind] IN
      InSync(file, other) => t \in SharedModels(Section(file), prisma) \cup SharedModels(Section(file), other)
===============================================================================
