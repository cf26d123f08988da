--------------------------- MODULE StaticCheckProofs ---------------------------
(***************************************************************************)
(* What `tenancy check` promises of a script that it accepts, and what the *)
(* generated script does, for any models in any number of schemas and any  *)
(* number of edits and migrations.                                         *)
(***************************************************************************)
EXTENDS StaticCheck, FiniteSetTheorems, SequenceTheorems, TLAPS

-------------------------------------------------------------------------------
(***************************************************************************)
(* Induction and recursion over the lines of a script.  The provers cannot *)
(* instantiate a theorem that takes a predicate, so these take a set.      *)
(***************************************************************************)
\* Every non-empty set of naturals has a least element.
LEMMA NatMin ==
  ASSUME NEW T \in SUBSET Nat, T # {}
  PROVE  \E m \in T : \A k \in T : m <= k
<1> DEFINE U == {0 .. k : k \in T}
           R == StrictSubsetOrdering(Nat)
           F == FiniteSubsetsOf(Nat)
<1>1. IsWellFoundedOn(R, F)
  BY FS_StrictSubsetOrderingWellFounded
<1>2. U \subseteq F /\ U # {}
  <2>1. \A k \in T : 0 .. k \in SUBSET Nat /\ IsFiniteSet(0 .. k)
    BY FS_Interval
  <2>. QED  BY <2>1 DEF FiniteSubsetsOf
<1>3. \E u \in U : \A v \in U : ~ (<<v, u>> \in R)
  <2>. HIDE DEF U, R, F
  <2>. QED  BY <1>1, <1>2, WFMin
<1>4. PICK m \in T : \A k \in T : ~ (<<0 .. k, 0 .. m>> \in R)
  BY <1>3
<1>5. ASSUME NEW k \in T, k < m
      PROVE  FALSE
  <2>1. 0 .. k \subseteq 0 .. m /\ m \notin 0 .. k /\ m \in 0 .. m
    BY <1>5
  <2>2. <<0 .. k, 0 .. m>> \in R
    BY <2>1 DEF StrictSubsetOrdering
  <2>. QED  BY <2>2, <1>4
<1>. QED  BY <1>5

\* A set that holds 0 and the successor of each of its members below n holds
\* everything up to n.
LEMMA UpTo ==
  ASSUME NEW n \in Nat, NEW T, 0 \in T, \A i \in 0 .. n - 1 : i \in T => i + 1 \in T
  PROVE  0 .. n \subseteq T
<1>1. SUFFICES ASSUME (0 .. n) \ T # {}
               PROVE  FALSE
  OBVIOUS
<1>2. PICK m \in (0 .. n) \ T : \A k \in (0 .. n) \ T : m <= k
  <2>1. (0 .. n) \ T \in SUBSET Nat
    OBVIOUS
  <2>. QED  BY <1>1, <2>1, NatMin
<1>3. m # 0 /\ m - 1 \in 0 .. n - 1
  BY <1>2
<1>4. m - 1 \in T
  BY <1>2, <1>3
<1>. QED  BY <1>2, <1>3, <1>4

\* A function may be defined by recursion over 0 .. n.
Iterates(g, n, V, c, Step) ==
  /\ g \in [0 .. n -> V]
  /\ g[0] = c /\ \A i \in 1 .. n : g[i] = Step[i][g[i - 1]]

LEMMA Recursion ==
  ASSUME NEW n \in Nat, NEW V, NEW c \in V, NEW Step \in [1 .. n -> [V -> V]]
  PROVE  \E g : Iterates(g, n, V, c, Step)
<1> DEFINE T == {m \in 0 .. n : \E g \in [0 .. m -> V] :
                   g[0] = c /\ \A i \in 1 .. m : g[i] = Step[i][g[i - 1]]}
<1>1. 0 \in T
  <2> DEFINE g == [i \in 0 .. 0 |-> c]
  <2>1. g \in [0 .. 0 -> V] /\ g[0] = c /\ \A i \in 1 .. 0 : g[i] = Step[i][g[i - 1]]
    OBVIOUS
  <2>. HIDE DEF g
  <2>. QED  BY <2>1
<1>2. ASSUME NEW m \in 0 .. n - 1, m \in T
      PROVE  m + 1 \in T
  <2>1. PICK g \in [0 .. m -> V] : g[0] = c /\ \A i \in 1 .. m : g[i] = Step[i][g[i - 1]]
    BY <1>2
  <2> DEFINE h == [i \in 0 .. m + 1 |-> IF i <= m THEN g[i] ELSE Step[m + 1][g[m]]]
  <2>2. Step[m + 1][g[m]] \in V
    OBVIOUS
  <2>3. h \in [0 .. m + 1 -> V]
    BY <2>2
  <2>4. h[0] = c
    BY <2>1
  <2>5. ASSUME NEW i \in 1 .. m + 1
        PROVE  h[i] = Step[i][h[i - 1]]
    BY <2>1
  <2>. HIDE DEF h
  <2>. QED  BY <2>3, <2>4, <2>5
<1>3. 0 .. n \subseteq T
  <2>. HIDE DEF T
  <2>. QED  BY <1>1, <1>2, UpTo
<1>. QED  BY <1>3 DEF Iterates

-------------------------------------------------------------------------------
(***************************************************************************)
(* Statements and sessions.                                                *)
(***************************************************************************)
Databases == [Tables -> Catalog]

Sessions == [db : Databases, saved : Databases, open : BOOLEAN, failed : BOOLEAN]

\* A line by its operation.
LEMMA LineType ==
  ASSUME NEW line \in ScriptLines
  PROVE  /\ line.op \in {"enable", "force", "index", "grant", "disable", "do", "shared"} =>
              line = Line(line.op, line.on) /\ line.on \in Tables
         /\ line.op \in {"usage", "sequences"} =>
              line = Line(line.op, line.on) /\ line.on \in Schemas
         /\ line.op \in {"header", "start", "end", "BEGIN", "COMMIT", "role", "escalate",
                         "otherKey", "open"} => line = Line(line.op, Public)
         /\ IsPolicy(line) <=> line \in PolicyLines
         /\ IsPolicy(line) =>
              /\ line.on \in Tables /\ line.name \in PolicyNames
              /\ line.policy \in WellFormedPolicies /\ line.type \in {"any", "text", "uuid"}
              /\ line.type = "any" <=> "tenant" \notin {line.policy.using, line.policy.check}
         /\ line.op \in {"header", "start", "end", "BEGIN", "COMMIT", "role", "escalate",
                         "otherKey", "open", "usage", "sequences", "shared", "enable", "force",
                         "index", "grant", "disable", "do", "guarded", "create"}
<1>1. CASE line \in PolicyLines
  BY <1>1 DEF PolicyLines, IsPolicy
<1>2. CASE line \notin PolicyLines
  BY <1>2 DEF ScriptLines, IsPolicy, Line
<1>. QED  BY <1>1, <1>2

\* What a statement does to the catalog of one table.
Becomes(e, c, line, u) ==
  /\ e \in Catalog
  /\ e.role = IF line.op = "role" /\ c.role = "none" THEN "login"
              ELSE IF line.op = "escalate" THEN "bypassrls" ELSE c.role
  /\ e.usage = (c.usage \/ (line.op = "usage" /\ SchemaOf[u] = line.on))
  /\ e.rls = IF line.on = u /\ line.op = "enable" THEN TRUE
             ELSE IF line.on = u /\ line.op \in {"disable", "do"} THEN FALSE ELSE c.rls
  /\ e.forced = IF line.on = u /\ line.op = "force" THEN TRUE ELSE c.forced
  /\ e.index = IF line.on = u /\ line.op = "index" THEN TRUE ELSE c.index
  /\ e.dml = IF line.on = u /\ line.op = "grant" THEN TRUE ELSE c.dml
  /\ \A n \in PolicyNames :
       e.policies[n] =
         IF IsPolicy(line) /\ line.on = u /\ line.name = n /\ c.policies[n] = NoPolicy
         THEN line.policy ELSE c.policies[n]
  /\ e.ownerRights = c.ownerRights /\ e.reaches = c.reaches
  /\ e.column = c.column /\ e.notNull = c.notNull /\ e.stored = c.stored
  /\ e.truncate = c.truncate

LEMMA EffectOnTable ==
  ASSUME NEW d \in Databases, NEW line \in ScriptLines, NEW u \in Tables
  PROVE  Becomes(Effect(line, d)[u], d[u], line, u)
<1>. USE DEF Becomes
<1> DEFINE t == line.on
<1>0. d[u] \in Catalog
  BY DEF Databases
<1>1. CASE line.op = "role"
  BY <1>0, <1>1 DEF Effect, Catalog, IsPolicy
<1>2. CASE line.op = "usage"
  BY <1>0, <1>2 DEF Effect, Catalog, IsPolicy
<1>3. CASE line.op \in {"enable", "force", "index", "grant", "disable", "do"}
  <2>1. t \in Tables /\ ~ IsPolicy(line)
    BY <1>3, LineType DEF IsPolicy
  <2>2. CASE line.op = "enable"
    BY <1>0, <2>1, <2>2 DEF Effect, Catalog, Databases
  <2>3. CASE line.op = "force"
    BY <1>0, <2>1, <2>3 DEF Effect, Catalog, Databases
  <2>4. CASE line.op = "index"
    BY <1>0, <2>1, <2>4 DEF Effect, Catalog, Databases
  <2>5. CASE line.op = "grant"
    BY <1>0, <2>1, <2>5 DEF Effect, Catalog, Databases
  <2>6. CASE line.op \in {"disable", "do"}
    BY <1>0, <2>1, <2>6 DEF Effect, Catalog, Databases, IsPolicy
  <2>. QED  BY <1>3, <2>2, <2>3, <2>4, <2>5, <2>6
<1>4. CASE IsPolicy(line)
  <2>1. t \in Tables /\ line.name \in PolicyNames /\ line.policy \in Policy
    BY <1>4, LineType DEF WellFormedPolicies
  <2>2. Effect(line, d) = MakePolicy(d, line)
    BY <1>4 DEF Effect, IsPolicy
  <2>3. CASE u = t
    <3> DEFINE made == [d[t].policies EXCEPT ![line.name] =
                          IF @ = NoPolicy THEN line.policy ELSE @]
    <3>1. Effect(line, d)[u] = [d[t] EXCEPT !.policies = made]
      BY <2>1, <2>2, <2>3 DEF MakePolicy, Databases
    <3>2. made \in [PolicyNames -> Policy \cup {NoPolicy}]
      BY <1>0, <2>1, <2>3 DEF Catalog
    <3>3. \A n \in PolicyNames :
            made[n] = IF line.name = n /\ d[t].policies[n] = NoPolicy
                      THEN line.policy ELSE d[t].policies[n]
      BY <1>0, <2>1, <2>3 DEF Catalog
    <3>. HIDE DEF made
    <3>4. Effect(line, d)[u] \in Catalog /\ Effect(line, d)[u].policies = made
      BY <1>0, <2>3, <3>1, <3>2 DEF Catalog
    <3>5. \A n \in PolicyNames :
            Effect(line, d)[u].policies[n] =
              IF IsPolicy(line) /\ line.on = u /\ line.name = n /\ d[u].policies[n] = NoPolicy
              THEN line.policy ELSE d[u].policies[n]
      BY <1>4, <2>3, <3>3, <3>4
    <3>6. line.op \notin {"role", "usage", "enable", "force", "index", "grant", "disable", "do",
                         "escalate"}
      BY <1>4 DEF IsPolicy
    <3>7. d[t] = d[u] /\ d[u] \in Catalog
      BY <1>0, <2>3
    <3>8. /\ Effect(line, d)[u].role = d[u].role /\ Effect(line, d)[u].usage = d[u].usage
          /\ Effect(line, d)[u].rls = d[u].rls /\ Effect(line, d)[u].forced = d[u].forced
          /\ Effect(line, d)[u].index = d[u].index /\ Effect(line, d)[u].dml = d[u].dml
          /\ Effect(line, d)[u].ownerRights = d[u].ownerRights
          /\ Effect(line, d)[u].reaches = d[u].reaches
          /\ Effect(line, d)[u].column = d[u].column
          /\ Effect(line, d)[u].notNull = d[u].notNull
          /\ Effect(line, d)[u].stored = d[u].stored
          /\ Effect(line, d)[u].truncate = d[u].truncate
      BY <3>1, <3>7 DEF Catalog
    <3>9. d[u].usage \in BOOLEAN
      BY <3>7 DEF Catalog
    <3>. QED  BY <3>4, <3>5, <3>6, <3>8, <3>9
  <2>4. CASE u # t
    <3>1. Effect(line, d)[u] = d[u]
      BY <2>1, <2>2, <2>4 DEF MakePolicy, Databases
    <3>. QED  BY <1>0, <1>4, <2>4, <3>1 DEF Catalog, IsPolicy
  <2>. QED  BY <2>3, <2>4
<1>5. CASE line.op = "escalate"
  BY <1>0, <1>5 DEF Effect, Catalog, IsPolicy
<1>6. CASE line.op \notin {"role", "usage", "enable", "force", "index", "grant", "disable", "do",
                          "escalate"} /\ ~ IsPolicy(line)
  BY <1>0, <1>6 DEF Effect, Catalog
<1>. QED  BY <1>1, <1>2, <1>3, <1>4, <1>5, <1>6

LEMMA EffectType ==
  ASSUME NEW d \in Databases, NEW line \in ScriptLines
  PROVE  Effect(line, d) \in Databases
<1>1. \A u \in Tables : Effect(line, d)[u] \in Catalog
  BY EffectOnTable DEF Becomes
<1>2. Effect(line, d) = [u \in Tables |-> Effect(line, d)[u]]
  <2>1. CASE line.op \in {"role", "usage", "escalate"}
    <3>1. CASE line.op = "role"
      <4>1. Effect(line, d) =
              [u \in Tables |-> [d[u] EXCEPT !.role = IF @ = "none" THEN "login" ELSE @]]
        BY <3>1 DEF Effect, IsPolicy
      <4>. QED  BY <4>1
    <3>2. CASE line.op = "usage"
      <4>1. Effect(line, d) =
              [u \in Tables |-> [d[u] EXCEPT !.usage = @ \/ SchemaOf[u] = line.on]]
        BY <3>2 DEF Effect, IsPolicy
      <4>. QED  BY <4>1
    <3>3. CASE line.op = "escalate"
      BY <3>3 DEF Effect, IsPolicy
    <3>. QED  BY <2>1, <3>1, <3>2, <3>3
  <2>2. CASE IsPolicy(line)
    <3>1. Effect(line, d) = MakePolicy(d, line)
      BY <2>2 DEF Effect, IsPolicy
    <3>. QED  BY <3>1 DEF MakePolicy, Databases
  <2>3. CASE line.op \notin {"role", "usage", "escalate"} /\ ~ IsPolicy(line)
    BY <2>3 DEF Effect, Databases
  <2>. QED  BY <2>1, <2>2, <2>3
<1>. QED  BY <1>1, <1>2 DEF Databases

LEMMA ExecuteType ==
  ASSUME NEW r \in Sessions, NEW line \in ScriptLines, NEW sch
  PROVE  Execute(r, line, sch) \in Sessions
BY EffectType DEF Execute, Sessions
Start(d) == [db |-> d, saved |-> d, open |-> FALSE, failed |-> FALSE]

\* The course of a session is what it says it is, step by step.
LEMMA CourseSteps ==
  ASSUME NEW lines \in Seq(ScriptLines), NEW d \in Databases, NEW sch
  PROVE  LET after == Course(lines, d, sch) IN
         /\ after \in [0 .. Len(lines) -> Sessions]
         /\ after[0] = Start(d)
         /\ \A i \in 1 .. Len(lines) : after[i] = Execute(after[i - 1], lines[i], sch)
<1> DEFINE n == Len(lines)
           Step == [i \in 1 .. n |-> [r \in Sessions |-> Execute(r, lines[i], sch)]]
           Body(f) == [i \in 0 .. n |-> IF i = 0 THEN Start(d) ELSE Execute(f[i - 1], lines[i], sch)]
           after == CHOOSE f : f = Body(f)
<1>1. n \in Nat /\ Start(d) \in Sessions /\ \A i \in 1 .. n : lines[i] \in ScriptLines
  BY LenProperties, ElementOfSeq DEF Start, Sessions
<1>2. Step \in [1 .. n -> [Sessions -> Sessions]]
  BY <1>1, ExecuteType
<1>3. PICK g \in [0 .. n -> Sessions] :
        g[0] = Start(d) /\ \A i \in 1 .. n : g[i] = Step[i][g[i - 1]]
  <2>1. n \in Nat /\ Start(d) \in Sessions
    BY <1>1
  <2>. HIDE DEF n, Step
  <2>2. \E g : Iterates(g, n, Sessions, Start(d), Step)
    BY <2>1, <1>2, Recursion
  <2>. QED  BY <2>2 DEF Iterates
<1>4. g = Body(g)
  <2>1. ASSUME NEW i \in 1 .. n
        PROVE  g[i] = Execute(g[i - 1], lines[i], sch)
    <3>1. i - 1 \in 0 .. n
      BY <1>1
    <3>2. g[i - 1] \in Sessions
      BY <3>1
    <3>3. Step[i][g[i - 1]] = Execute(g[i - 1], lines[i], sch)
      BY <3>2
    <3>. QED  BY <1>3, <3>3
  <2>2. \A i \in 0 .. n : g[i] = Body(g)[i]
    BY <1>1, <1>3, <2>1
  <2>. HIDE DEF n
  <2>. QED  BY <1>1, <2>2
<1>5. after = Body(after)
  <2>. HIDE DEF Body
  <2>. QED  BY <1>4
<1>6. Course(lines, d, sch) = after
  BY DEF Course, Start
<1>7. /\ after[0] = Start(d)
      /\ \A i \in 1 .. n : after[i] = Execute(after[i - 1], lines[i], sch)
  <2>. HIDE DEF after, n
  <2>. QED  BY <1>1, <1>5
<1>8. \A i \in 0 .. n : after[i] \in Sessions
  <2> DEFINE T == {i \in 0 .. n : after[i] \in Sessions}
  <2>1. 0 \in T
    BY <1>1, <1>7
  <2>2. \A i \in 0 .. n - 1 : i \in T => i + 1 \in T
    <3>. HIDE DEF after, n
    <3>. QED  BY <1>1, <1>7, ExecuteType
  <2>3. 0 .. n \subseteq T
    <3>. HIDE DEF T, n
    <3>. QED  BY <1>1, <2>1, <2>2, UpTo
  <2>. QED  BY <2>3
<1>9. after = [i \in 0 .. n |-> after[i]]
  <2>. HIDE DEF after, n
  <2>. QED  BY <1>5
<1>10. after \in [0 .. n -> Sessions]
  <2>. HIDE DEF after, n
  <2>. QED  BY <1>8, <1>9
<1>. QED  BY <1>6, <1>7, <1>10

-------------------------------------------------------------------------------
(***************************************************************************)
(* Scripts put together from the lines of their parts.                     *)
(***************************************************************************)
\* f is s followed by r.
Joins(f, X, s, r, m, k) ==
  /\ f \in Seq(X) /\ Len(f) = m + k
  /\ \A i \in 1 .. m : f[i] = s[i]
  /\ \A i \in 1 .. k : f[m + i] = r[i]

LEMMA Joined ==
  ASSUME NEW X, NEW s \in Seq(X), NEW r \in Seq(X), NEW m \in Nat, NEW k \in Nat,
         Len(s) = m, Len(r) = k
  PROVE  Joins(s \o r, X, s, r, m, k)
<1> DEFINE f == s \o r
<1>1. /\ f \in Seq(X) /\ Len(f) = m + k
      /\ \A i \in 1 .. m + k : f[i] = IF i <= m THEN s[i] ELSE r[i - m]
  BY ConcatProperties
<1>. HIDE DEF f
<1>2. \A i \in 1 .. m : f[i] = s[i]
  BY <1>1
<1>3. \A i \in 1 .. k : f[m + i] = r[i]
  <2>1. \A i \in 1 .. k : m + i \in 1 .. m + k /\ ~ (m + i <= m) /\ (m + i) - m = i
    OBVIOUS
  <2>. QED  BY <1>1, <2>1
<1>. QED  BY <1>1, <1>2, <1>3 DEF Joins, f

\* No line is in two parts, or twice in one.
AllDistinct(parts) ==
  \A k, l \in DOMAIN parts : \A i \in DOMAIN parts[k], j \in DOMAIN parts[l] :
    parts[k][i] = parts[l][j] => k = l /\ i = j

\* s has the lines of the first k parts, and each once if they are distinct.
Gathers(s, X, parts, k) ==
  /\ s \in Seq(X)
  /\ \A i \in 1 .. Len(s) : \E m \in 1 .. k : \E j \in 1 .. Len(parts[m]) : s[i] = parts[m][j]
  /\ \A m \in 1 .. k : \A j \in 1 .. Len(parts[m]) : \E i \in 1 .. Len(s) : s[i] = parts[m][j]
  /\ AllDistinct(parts) => \A i, j \in 1 .. Len(s) : s[i] = s[j] => i = j

LEMMA GathersNext ==
  ASSUME NEW X, NEW parts \in Seq(Seq(X)), NEW k \in Nat, k + 1 \in 1 .. Len(parts),
         NEW s, Gathers(s, X, parts, k)
  PROVE  Gathers(s \o parts[k + 1], X, parts, k + 1)
<1> DEFINE p == parts[k + 1]
           t == s \o p
<1>1. s \in Seq(X) /\ p \in Seq(X)
  BY DEF Gathers
<1>2. /\ t \in Seq(X) /\ Len(t) = Len(s) + Len(p) /\ Len(s) \in Nat /\ Len(p) \in Nat
      /\ \A i \in 1 .. Len(s) + Len(p) : t[i] = IF i <= Len(s) THEN s[i] ELSE p[i - Len(s)]
  BY <1>1, ConcatProperties, LenProperties
<1>3. ASSUME NEW i \in 1 .. Len(t)
      PROVE  \E m \in 1 .. k + 1 : \E j \in 1 .. Len(parts[m]) : t[i] = parts[m][j]
  <2>1. CASE i <= Len(s)
    <3>1. PICK m \in 1 .. k : \E j \in 1 .. Len(parts[m]) : s[i] = parts[m][j]
      BY <1>2, <2>1, SMTT(30) DEF Gathers
    <3>. QED  BY <1>2, <2>1, <3>1
  <2>2. CASE i > Len(s)
    <3>1. i - Len(s) \in 1 .. Len(p) /\ t[i] = p[i - Len(s)]
      BY <1>2, <2>2
    <3>. QED  BY <3>1
  <2>. QED  BY <1>2, <2>1, <2>2
<1>4. ASSUME NEW m \in 1 .. k + 1, NEW j \in 1 .. Len(parts[m])
      PROVE  \E i \in 1 .. Len(t) : t[i] = parts[m][j]
  <2>1. CASE m <= k
    <3>1. PICK i \in 1 .. Len(s) : s[i] = parts[m][j]
      BY <2>1 DEF Gathers
    <3>2. i \in 1 .. Len(t) /\ t[i] = s[i]
      BY <1>2
    <3>. QED  BY <3>1, <3>2
  <2>2. CASE m = k + 1
    <3>1. Len(s) + j \in 1 .. Len(t) /\ t[Len(s) + j] = p[j]
      BY <1>2, <2>2
    <3>. QED  BY <2>2, <3>1
  <2>. QED  BY <2>1, <2>2
<1>5. ASSUME AllDistinct(parts), NEW i \in 1 .. Len(t), NEW j \in 1 .. Len(t), t[i] = t[j]
      PROVE  i = j
  <2>0. DOMAIN parts = 1 .. Len(parts) /\ Len(parts) \in Nat
        /\ \A m \in 1 .. Len(parts) : DOMAIN parts[m] = 1 .. Len(parts[m])
    BY LenProperties
  <2>1. ASSUME NEW a \in 1 .. Len(s), NEW b \in 1 .. Len(p), s[a] = p[b]
        PROVE  FALSE
    <3>1. PICK m \in 1 .. k : \E c \in 1 .. Len(parts[m]) : s[a] = parts[m][c]
      BY DEF Gathers
    <3>2. PICK c \in 1 .. Len(parts[m]) : s[a] = parts[m][c]
      BY <3>1
    <3>3. m \in DOMAIN parts /\ k + 1 \in DOMAIN parts /\ c \in DOMAIN parts[m]
          /\ b \in DOMAIN parts[k + 1]
      BY <2>0, SMTT(30)
    <3>4. m = k + 1
      BY <1>5, <2>1, <3>2, <3>3 DEF AllDistinct
    <3>. QED  BY <3>4
  <2>2. \A a, b \in 1 .. Len(p) : p[a] = p[b] => a = b
    BY <1>5, <2>0 DEF AllDistinct
  <2>3. \A a, b \in 1 .. Len(s) : s[a] = s[b] => a = b
    BY <1>5 DEF Gathers
  <2>4. CASE i <= Len(s) /\ j <= Len(s)
    <3>1. i \in 1 .. Len(s) /\ j \in 1 .. Len(s) /\ s[i] = s[j]
      BY <1>2, <1>5, <2>4
    <3>. QED  BY <2>3, <3>1
  <2>5. CASE i > Len(s) /\ j > Len(s)
    <3>1. i - Len(s) \in 1 .. Len(p) /\ j - Len(s) \in 1 .. Len(p)
          /\ p[i - Len(s)] = p[j - Len(s)]
      BY <1>2, <1>5, <2>5
    <3>2. i - Len(s) = j - Len(s)
      BY <2>2, <3>1
    <3>. QED  BY <1>2, <3>2
  <2>6. CASE i <= Len(s) /\ j > Len(s)
    <3>1. i \in 1 .. Len(s) /\ j - Len(s) \in 1 .. Len(p) /\ s[i] = p[j - Len(s)]
      BY <1>2, <1>5, <2>6
    <3>. QED  BY <2>1, <3>1
  <2>7. CASE i > Len(s) /\ j <= Len(s)
    <3>1. j \in 1 .. Len(s) /\ i - Len(s) \in 1 .. Len(p) /\ s[j] = p[i - Len(s)]
      BY <1>2, <1>5, <2>7
    <3>. QED  BY <2>1, <3>1
  <2>. QED  BY <1>2, <2>4, <2>5, <2>6, <2>7
<1>. QED  BY <1>2, <1>3, <1>4, <1>5 DEF Gathers

\* FlattenSeq gathers all the parts.
LEMMA FlattenGathers ==
  ASSUME NEW X, NEW parts \in Seq(Seq(X))
  PROVE  Gathers(FlattenSeq(parts), X, parts, Len(parts))
<1> DEFINE n == Len(parts)
<1>1. n \in Nat /\ \A k \in 1 .. n : parts[k] \in Seq(X)
  BY LenProperties, ElementOfSeq
<1>2. Gathers(<< >>, X, parts, 0)
  BY DEF Gathers
<1>3. CASE n = 0
  <2>1. parts = << >>
    BY <1>3, EmptySeq
  <2>. QED  BY <1>2, <1>3, <2>1 DEF FlattenSeq
<1>4. CASE n # 0
  <2> DEFINE Step == [i \in 1 .. n |-> [v \in Seq(X) |-> v \o parts[i]]]
             Body(f) == [i \in 1 .. n |-> IF i = 1 THEN parts[i] ELSE f[i - 1] \o parts[i]]
             flat == CHOOSE f : f = Body(f)
  <2>1. Step \in [1 .. n -> [Seq(X) -> Seq(X)]]
    <3>1. \A i \in 1 .. n : \A v \in Seq(X) : v \o parts[i] \in Seq(X)
      BY <1>1, ConcatProperties
    <3>. QED  BY <3>1
  <2>2. PICK g : Iterates(g, n, Seq(X), << >>, Step)
    <3>1. << >> \in Seq(X)
      OBVIOUS
    <3>. HIDE DEF Step, n
    <3>. QED  BY <1>1, <2>1, <3>1, Recursion
  <2>3. \A i \in 1 .. n : g[i] = g[i - 1] \o parts[i]
    <3>1. ASSUME NEW i \in 1 .. n
          PROVE  g[i] = g[i - 1] \o parts[i]
      <4>1. i - 1 \in 0 .. n /\ g \in [0 .. n -> Seq(X)]
        BY <1>1, <2>2 DEF Iterates
      <4>2. g[i - 1] \in Seq(X)
        BY <4>1
      <4>3. g[i] = Step[i][g[i - 1]]
        BY <2>2 DEF Iterates
      <4>. QED  BY <4>2, <4>3
    <3>. QED  BY <3>1
  <2>4. \E f : f = Body(f)
    <3> DEFINE f == [i \in 1 .. n |-> g[i]]
    <3>1. ASSUME NEW i \in 1 .. n
          PROVE  f[i] = IF i = 1 THEN parts[i] ELSE f[i - 1] \o parts[i]
      <4>1. CASE i = 1
        <5>1. g[0] = << >> /\ g[1] = g[1 - 1] \o parts[1]
          BY <2>2, <2>3, <4>1 DEF Iterates
        <5>2. << >> \o parts[1] = parts[1]
          BY <1>1, <4>1, ConcatEmptySeq
        <5>3. 1 - 1 = 0
          OBVIOUS
        <5>4. g[1] = g[0] \o parts[1]
          BY <5>1, <5>3, Zenon
        <5>5. g[1] = parts[1]
          BY <5>1, <5>2, <5>4, Zenon
        <5>. QED  BY <4>1, <5>5
      <4>2. CASE i # 1
        <5>1. i - 1 \in 1 .. n
          BY <1>1, <4>2
        <5>. QED  BY <2>3, <4>2, <5>1
      <4>. QED  BY <4>1, <4>2
    <3>2. f = Body(f)
      <4>. HIDE DEF n
      <4>. QED  BY <3>1
    <3>. QED  BY <3>2
  <2>5. flat = Body(flat)
    <3>. HIDE DEF Body
    <3>. QED  BY <2>4
  <2>6. FlattenSeq(parts) = flat[n]
    BY <1>4 DEF FlattenSeq
  <2> DEFINE T == {i \in 0 .. n : i = 0 \/ Gathers(flat[i], X, parts, i)}
  <2>7. ASSUME NEW i \in 0 .. n - 1, i \in T
        PROVE  i + 1 \in T
    <3>1. i \in Nat /\ i + 1 \in 1 .. n /\ flat[i + 1] =
            IF i + 1 = 1 THEN parts[i + 1] ELSE flat[i] \o parts[i + 1]
      <4>. HIDE DEF flat, n
      <4>1. \A j \in 1 .. n : flat[j] = IF j = 1 THEN parts[j] ELSE flat[j - 1] \o parts[j]
        BY <2>5
      <4>2. i \in Nat /\ i + 1 \in 1 .. n /\ (i + 1) - 1 = i
        BY <1>1
      <4>. QED  BY <4>1, <4>2
    <3>2. CASE i = 0
      <4>1. Gathers(<< >> \o parts[i + 1], X, parts, i + 1)
        BY <1>2, <3>1, <3>2, GathersNext
      <4>2. << >> \o parts[i + 1] = parts[i + 1]
        BY <1>1, <3>1, ConcatEmptySeq
      <4>3. flat[i + 1] = parts[i + 1]
        BY <3>1, <3>2
      <4>. HIDE DEF flat, n
      <4>. QED  BY <1>1, <3>1, <4>1, <4>2, <4>3
    <3>3. CASE i # 0
      <4>1. Gathers(flat[i], X, parts, i)
        BY <2>7, <3>3
      <4>. HIDE DEF flat
      <4>2. Gathers(flat[i] \o parts[i + 1], X, parts, i + 1)
        BY <3>1, <4>1, GathersNext
      <4>. HIDE DEF n
      <4>. QED  BY <1>1, <3>1, <3>3, <4>2
    <3>. QED  BY <3>2, <3>3
  <2>8. 0 .. n \subseteq T
    <3>1. 0 \in T
      BY <1>1
    <3>. HIDE DEF T, n
    <3>. QED  BY <1>1, <2>7, <3>1, UpTo
  <2>9. Gathers(flat[n], X, parts, n)
    <3>. HIDE DEF flat, n
    <3>. QED  BY <1>1, <1>4, <2>8
  <2>. QED  BY <2>6, <2>9
<1>. QED  BY <1>3, <1>4

LEMMA SetToSeqBijects ==
  ASSUME NEW S, IsFiniteSet(S)
  PROVE  /\ Cardinality(S) \in Nat
         /\ SetToSeq(S) \in Bijection(1 .. Cardinality(S), S)
<1> DEFINE n == Cardinality(S)
<1>1. n \in Nat /\ ExistsBijection(1 .. n, S)
  BY FS_CardinalityType
<1>2. \E f \in [1 .. n -> S] : IsInjective(f)
  BY <1>1 DEF ExistsBijection, Bijection, Injection
<1>3. SetToSeq(S) \in Injection(1 .. n, S)
  BY <1>2 DEF SetToSeq, Injection
<1>4. IsFiniteSet(1 .. n) /\ Cardinality(1 .. n) = n
  BY <1>1, FS_Interval
<1>5. SetToSeq(S) \in Surjection(1 .. n, S)
  BY <1>3, <1>4, FS_Injection
<1>. QED  BY <1>1, <1>3, <1>5 DEF Bijection

\* The lines that belong to the members of a set are all there, and no other.
Spreads(f, S, X, linesOf) ==
  /\ f \in Seq(X)
  /\ \A i \in DOMAIN f : \E s \in S : \E j \in DOMAIN linesOf[s] : f[i] = linesOf[s][j]
  /\ \A s \in S : \A j \in DOMAIN linesOf[s] : \E i \in DOMAIN f : f[i] = linesOf[s][j]
  /\ AllDistinct(linesOf) => IsInjective(f)

LEMMA ForEachLines ==
  ASSUME NEW S, IsFiniteSet(S), NEW X, NEW linesOf \in [S -> Seq(X)]
  PROVE  Spreads(ForEach(linesOf), S, X, linesOf)
<1> DEFINE n == Cardinality(S)
           order == SetToSeq(S)
           parts == [i \in 1 .. n |-> linesOf[order[i]]]
           f == FlattenSeq(parts)
<1>1. n \in Nat /\ order \in Bijection(1 .. n, S)
  BY SetToSeqBijects
<1>2. /\ order \in [1 .. n -> S]
      /\ \A i, j \in 1 .. n : order[i] = order[j] => i = j
      /\ \A s \in S : \E i \in 1 .. n : order[i] = s
  <2>. HIDE DEF order, n
  <2>. QED  BY <1>1 DEF Bijection, Injection, Surjection, IsInjective
<1>3. ForEach(linesOf) = f
  BY DEF ForEach
<1>4. parts \in Seq(Seq(X)) /\ Len(parts) = n /\ DOMAIN parts = 1 .. n
  <2>1. \A i \in 1 .. n : linesOf[order[i]] \in Seq(X)
    <3>. HIDE DEF order, n
    <3>. QED  BY <1>2
  <2>. HIDE DEF order, n
  <2>. QED  BY <1>1, <2>1
<1>5. Gathers(f, X, parts, n)
  BY <1>4, FlattenGathers
<1>6. f \in Seq(X) /\ DOMAIN f = 1 .. Len(f)
  BY <1>5, LenProperties DEF Gathers
<1>7. \A i \in 1 .. n : parts[i] = linesOf[order[i]] /\ order[i] \in S
                        /\ DOMAIN parts[i] = 1 .. Len(parts[i])
  <2>1. \A i \in 1 .. n : parts[i] \in Seq(X)
    BY <1>4, ElementOfSeq
  <2>2. \A i \in 1 .. n : DOMAIN parts[i] = 1 .. Len(parts[i])
    BY <2>1, LenProperties
  <2>. HIDE DEF order, n
  <2>. QED  BY <1>2, <2>2
<1>. HIDE DEF f, parts, order, n
<1>8. ASSUME NEW i \in DOMAIN f
      PROVE  \E s \in S : \E j \in DOMAIN linesOf[s] : f[i] = linesOf[s][j]
  <2>1. PICK m \in 1 .. n : \E j \in 1 .. Len(parts[m]) : f[i] = parts[m][j]
    BY <1>5, <1>6 DEF Gathers
  <2>. QED  BY <1>7, <2>1
<1>9. ASSUME NEW s \in S, NEW j \in DOMAIN linesOf[s]
      PROVE  \E i \in DOMAIN f : f[i] = linesOf[s][j]
  <2>1. PICK m \in 1 .. n : order[m] = s
    BY <1>2
  <2>2. j \in 1 .. Len(parts[m]) /\ parts[m] = linesOf[s]
    BY <1>7, <2>1
  <2>3. PICK i \in 1 .. Len(f) : f[i] = parts[m][j]
    BY <1>5, <2>2 DEF Gathers
  <2>. QED  BY <1>6, <2>2, <2>3
<1>10. ASSUME AllDistinct(linesOf)
       PROVE  IsInjective(f)
  <2>1. AllDistinct(parts)
    <3>1. ASSUME NEW k \in 1 .. n, NEW l \in 1 .. n,
                 NEW i \in DOMAIN parts[k], NEW j \in DOMAIN parts[l], parts[k][i] = parts[l][j]
          PROVE  k = l /\ i = j
      <4>1. order[k] = order[l] /\ i = j
        BY <1>7, <1>10, <3>1 DEF AllDistinct
      <4>. QED  BY <1>2, <4>1
    <3>. QED  BY <1>4, <3>1 DEF AllDistinct
  <2>. QED  BY <1>5, <1>6, <2>1 DEF Gathers, IsInjective
<1>. QED  BY <1>3, <1>6, <1>8, <1>9, <1>10 DEF Spreads

LEMMA ModelsFinite ==
  ASSUME NEW sch \in [Tables -> Kinds]
  PROVE  /\ IsFiniteSet(Models(sch)) /\ Models(sch) \subseteq Tables
         /\ IsFiniteSet(ModelSchemas(sch)) /\ ModelSchemas(sch) \subseteq Schemas
<1> DEFINE S == Models(sch)
           T == {SchemaOf[t] : t \in S}
           f == [t \in S |-> SchemaOf[t]]
<1>1. S \subseteq Tables /\ IsFiniteSet(S)
  BY ScriptConstants, FS_Subset DEF Models
<1>2. f \in Surjection(S, T)
  BY DEF Surjection
<1>3. IsFiniteSet(T)
  <2>. HIDE DEF S, T, f
  <2>. QED  BY <1>1, <1>2, FS_Surjection
<1>4. ModelSchemas(sch) = T \cup {Public}
  BY DEF ModelSchemas
<1>5. IsFiniteSet(T \cup {Public})
  <2>. HIDE DEF T
  <2>. QED  BY <1>3, FS_AddElement
<1>6. T \cup {Public} \subseteq Schemas
  BY <1>1, ScriptConstants
<1>. QED  BY <1>1, <1>4, <1>5, <1>6

\* The policies of a table as a script makes them.
LEMMA PolicyLineType ==
  ASSUME NEW op \in {"guarded", "create"}, NEW t \in Tables, NEW kind \in {"text", "uuid"},
         NEW n \in Generated, NEW name \in PolicyNames
  PROVE  LET type == IF n = "guard" THEN "any" ELSE kind IN
         PolicyLine(op, t, name, GeneratedPolicy(n), type) \in PolicyLines
<1>1. n \in {"isolation", "insert", "guard"}
  BY DEF Generated
<1>2. /\ GeneratedPolicy("isolation") = IsolationPolicy
      /\ GeneratedPolicy("insert") = InsertPolicy
      /\ GeneratedPolicy("guard") = GuardPolicy
  BY DEF GeneratedPolicy
<1>3. /\ IsolationPolicy \in WellFormedPolicies
      /\ InsertPolicy \in WellFormedPolicies
      /\ GuardPolicy \in WellFormedPolicies
  BY DEF WellFormedPolicies, WellFormed, Policy, IsolationPolicy, InsertPolicy, GuardPolicy,
         Expressions, NoExpr
<1>4. "tenant" \notin {GeneratedPolicy(n).using, GeneratedPolicy(n).check} <=> n = "guard"
  BY <1>1, <1>2 DEF IsolationPolicy, InsertPolicy, GuardPolicy, NoExpr
<1>5. GeneratedPolicy(n) \in WellFormedPolicies
  BY <1>1, <1>2, <1>3
<1> HIDE DEF GeneratedPolicy
<1>. QED  BY <1>1, <1>4, <1>5 DEF PolicyLines, PolicyLine

LEMMA PartTypes ==
  ASSUME NEW t \in Tables, NEW kind \in {"text", "uuid"}
  PROVE  /\ SharedLines(t) \in Seq(ScriptLines)
         /\ TableLines(t, kind) \in Seq(ScriptLines)
         /\ LegacyLines(t, kind) \in Seq(ScriptLines)
<1>1. \A op \in {"shared", "enable", "force", "index", "grant"} : Line(op, t) \in ScriptLines
  BY DEF Line, ScriptLines
<1>2. \A n \in Generated : GuardedPolicy(t, n, kind) \in ScriptLines
  BY PolicyLineType DEF GuardedPolicy, ScriptLines, PolicyNames
<1>3. {"isolation", "insert", "guard"} = Generated
  BY DEF Generated
<1>4. SharedLines(t) \in Seq(ScriptLines)
  BY <1>1 DEF SharedLines
<1>5. TableLines(t, kind) \in Seq(ScriptLines)
  BY <1>1, <1>2, <1>3 DEF TableLines
<1>6. LegacyLines(t, kind) \in Seq(ScriptLines)
  <2> DEFINE extra == CHOOSE x \in Extra : TRUE
             n(i) == <<"isolation", "insert", "guard">>[i]
             made == [i \in 1 .. 3 |->
                        CreatePolicy(t, IF n(i) = "guard" THEN extra ELSE n(i), n(i), kind)]
  <2>1. extra \in PolicyNames
    BY CheckConstants DEF PolicyNames
  <2>2. \A m \in Generated :
          CreatePolicy(t, IF m = "guard" THEN extra ELSE m, m, kind) \in ScriptLines
    <3>. HIDE DEF extra
    <3>. QED  BY <2>1, PolicyLineType DEF CreatePolicy, ScriptLines, PolicyNames
  <2>3. \A i \in 1 .. 3 : n(i) \in Generated
    BY DEF Generated
  <2>4. made \in Seq(ScriptLines)
    <3>. HIDE DEF extra, n
    <3>. QED  BY <2>2, <2>3
  <2>5. <<Line("grant", t), Line("enable", t), Line("force", t), Line("index", t)>>
          \in Seq(ScriptLines)
    BY <1>1
  <2>6. LegacyLines(t, kind) =
          <<Line("grant", t), Line("enable", t), Line("force", t), Line("index", t)>> \o made
    BY DEF LegacyLines
  <2>. HIDE DEF made
  <2>. QED  BY <2>4, <2>5, <2>6, ConcatProperties
<1>. QED  BY <1>4, <1>5, <1>6

\* The lines that init writes between the role and the COMMIT.
BodyLine(line, sch, sh) ==
  \/ \E s \in ModelSchemas(sch) : line \in {Line("usage", s), Line("sequences", s)}
  \/ \E t \in Models(sch) \cap sh : line \in {Line("shared", t), Line("grant", t)}
  \/ \E t \in Models(sch) \ sh :
       \/ line \in {Line(op, t) : op \in {"enable", "force", "index", "grant"}}
       \/ line \in {GuardedPolicy(t, n, sch[t]) : n \in Generated}

LEMMA SharedLinesAre ==
  ASSUME NEW t
  PROVE  /\ DOMAIN SharedLines(t) = 1 .. 2
         /\ SharedLines(t)[1] = Line("shared", t) /\ SharedLines(t)[2] = Line("grant", t)
BY DEF SharedLines

LEMMA TableLinesAre ==
  ASSUME NEW t, NEW kind
  PROVE  LET s == TableLines(t, kind) IN
         /\ DOMAIN s = 1 .. 7
         /\ s[1] = Line("enable", t) /\ s[2] = Line("force", t) /\ s[3] = Line("index", t)
         /\ s[4] = GuardedPolicy(t, "isolation", kind)
         /\ s[5] = GuardedPolicy(t, "insert", kind)
         /\ s[6] = GuardedPolicy(t, "guard", kind)
         /\ s[7] = Line("grant", t)
BY DEF TableLines

\* No line is written for two tables, or twice for one.
LEMMA TablesDistinct ==
  ASSUME NEW sch, NEW sh
  PROVE  AllDistinct([t \in Models(sch) |->
                        IF t \in sh THEN SharedLines(t) ELSE TableLines(t, sch[t])])
<1> DEFINE L(t) == IF t \in sh THEN SharedLines(t) ELSE TableLines(t, sch[t])
<1>1. ASSUME NEW t
      PROVE  /\ \A i \in DOMAIN L(t) : L(t)[i].on = t
             /\ \A i, j \in DOMAIN L(t) : L(t)[i] = L(t)[j] => i = j
  <2>1. CASE t \in sh
    <3>1. Line("shared", t) # Line("grant", t) /\ Line("shared", t).on = t
          /\ Line("grant", t).on = t
      BY DEF Line
    <3>2. \A i \in 1 .. 2 : i = 1 \/ i = 2
      OBVIOUS
    <3>. QED  BY <2>1, <3>1, <3>2, SharedLinesAre
  <2>2. CASE t \notin sh
    <3> DEFINE s == TableLines(t, sch[t])
    <3>0. /\ s[1] = Line("enable", t) /\ s[2] = Line("force", t) /\ s[3] = Line("index", t)
          /\ s[4] = GuardedPolicy(t, "isolation", sch[t])
          /\ s[5] = GuardedPolicy(t, "insert", sch[t])
          /\ s[6] = GuardedPolicy(t, "guard", sch[t])
          /\ s[7] = Line("grant", t)
          /\ DOMAIN s = 1 .. 7
      BY TableLinesAre
    <3>. HIDE DEF s
    <3>1. /\ s[1].op = "enable" /\ s[2].op = "force" /\ s[3].op = "index" /\ s[7].op = "grant"
          /\ s[4].op = "guarded" /\ s[5].op = "guarded" /\ s[6].op = "guarded"
          /\ s[4].name = "isolation" /\ s[5].name = "insert" /\ s[6].name = "guard"
      BY <3>0 DEF Line, GuardedPolicy, PolicyLine
    <3>2. /\ s[1].on = t /\ s[2].on = t /\ s[3].on = t /\ s[4].on = t
          /\ s[5].on = t /\ s[6].on = t /\ s[7].on = t
      BY <3>0 DEF Line, GuardedPolicy, PolicyLine
    <3>3. DOMAIN s = 1 .. 7
      BY <3>0
    <3>4. \A i \in 1 .. 7 : i = 1 \/ i = 2 \/ i = 3 \/ i = 4 \/ i = 5 \/ i = 6 \/ i = 7
      OBVIOUS
    <3>5. \A i \in DOMAIN s : s[i].on = t
      BY <3>2, <3>3, <3>4
    <3>6. \A i, j \in DOMAIN s : s[i] = s[j] => i = j
      BY <3>1, <3>3, <3>4
    <3>7. L(t) = s
      BY <2>2 DEF s
    <3>. QED  BY <3>5, <3>6, <3>7
  <2>. QED  BY <2>1, <2>2
<1>. HIDE DEF L
<1> DEFINE parts == [t \in Models(sch) |-> L(t)]
<1>2. AllDistinct(parts)
  BY <1>1 DEF AllDistinct
<1>. QED  BY <1>2 DEF L

\* What init writes, line by line.
GeneratedLines(g, sch, sh) ==
  LET n == Len(g) IN
  /\ g \in Seq(ScriptLines) /\ n \in Nat /\ n >= 6
  /\ g[1] = Line("header", Public) /\ g[2] = Line("start", Public)
  /\ g[3] = Line("BEGIN", Public) /\ g[4] = Line("role", Public)
  /\ g[n - 1] = Line("COMMIT", Public) /\ g[n] = Line("end", Public)
  /\ \A i \in 5 .. n - 2 : BodyLine(g[i], sch, sh)
  /\ \A line : BodyLine(line, sch, sh) => \E i \in 5 .. n - 2 : g[i] = line
  /\ \A i, j \in 5 .. n - 2 : IsPolicy(g[i]) /\ g[i] = g[j] => i = j

LEMMA GenerateLines ==
  ASSUME NEW sch \in [Tables -> Kinds], NEW sh \in SUBSET Tables, Generates(sch, sh)
  PROVE  GeneratedLines(Generate(sch, sh), sch, sh)
<1> DEFINE H == <<Line("header", Public), Line("start", Public), Line("BEGIN", Public),
                  Line("role", Public)>>
           useOf == [s \in ModelSchemas(sch) |-> <<Line("usage", s)>>]
           tabOf == [t \in Models(sch) |->
                       IF t \in sh THEN SharedLines(t) ELSE TableLines(t, sch[t])]
           seqOf == [s \in ModelSchemas(sch) |-> <<Line("sequences", s)>>]
           U == ForEach(useOf)
           T == ForEach(tabOf)
           Q == ForEach(seqOf)
           E == <<Line("COMMIT", Public), Line("end", Public)>>
           g == H \o U \o T \o Q \o E
           n == Len(g)
<1>1. Generate(sch, sh) = g
  BY DEF Generate
<1>2. /\ U \in Seq(ScriptLines)
      /\ \A i \in DOMAIN U : \E s \in ModelSchemas(sch) : U[i] = Line("usage", s)
      /\ \A s \in ModelSchemas(sch) : \E i \in DOMAIN U : U[i] = Line("usage", s)
  <2>1. \A s \in ModelSchemas(sch) : Line("usage", s) \in ScriptLines
    BY ModelsFinite DEF Line, ScriptLines
  <2>2. useOf \in [ModelSchemas(sch) -> Seq(ScriptLines)]
    BY <2>1
  <2>3. \A s \in ModelSchemas(sch) :
          /\ \A j \in DOMAIN useOf[s] : useOf[s][j] = Line("usage", s)
          /\ 1 \in DOMAIN useOf[s] /\ useOf[s][1] = Line("usage", s)
    OBVIOUS
  <2>4. IsFiniteSet(ModelSchemas(sch))
    BY ModelsFinite
  <2>. HIDE DEF useOf
  <2>5. Spreads(ForEach(useOf), ModelSchemas(sch), ScriptLines, useOf)
    BY <2>2, <2>4, ForEachLines
  <2>. QED  BY <2>3, <2>5 DEF Spreads
<1>3. /\ Q \in Seq(ScriptLines)
      /\ \A i \in DOMAIN Q : \E s \in ModelSchemas(sch) : Q[i] = Line("sequences", s)
      /\ \A s \in ModelSchemas(sch) : \E i \in DOMAIN Q : Q[i] = Line("sequences", s)
  <2>1. \A s \in ModelSchemas(sch) : Line("sequences", s) \in ScriptLines
    BY ModelsFinite DEF Line, ScriptLines
  <2>2. seqOf \in [ModelSchemas(sch) -> Seq(ScriptLines)]
    BY <2>1
  <2>3. \A s \in ModelSchemas(sch) :
          /\ \A j \in DOMAIN seqOf[s] : seqOf[s][j] = Line("sequences", s)
          /\ 1 \in DOMAIN seqOf[s] /\ seqOf[s][1] = Line("sequences", s)
    OBVIOUS
  <2>4. IsFiniteSet(ModelSchemas(sch))
    BY ModelsFinite
  <2>. HIDE DEF seqOf
  <2>5. Spreads(ForEach(seqOf), ModelSchemas(sch), ScriptLines, seqOf)
    BY <2>2, <2>4, ForEachLines
  <2>. QED  BY <2>3, <2>5 DEF Spreads
<1>4. /\ T \in Seq(ScriptLines)
      /\ \A i \in DOMAIN T : \E t \in Models(sch) : \E j \in DOMAIN tabOf[t] : T[i] = tabOf[t][j]
      /\ \A t \in Models(sch) : \A j \in DOMAIN tabOf[t] : \E i \in DOMAIN T : T[i] = tabOf[t][j]
      /\ IsInjective(T)
  <2>1. \A t \in Models(sch) : t \in Tables /\ (t \in sh \/ sch[t] \in {"text", "uuid"})
    BY ModelsFinite DEF Generates
  <2>2. tabOf \in [Models(sch) -> Seq(ScriptLines)]
    <3>1. \A t \in Models(sch) : SharedLines(t) \in Seq(ScriptLines)
      BY <2>1, PartTypes
    <3>. QED  BY <2>1, <3>1, PartTypes
  <2>3. AllDistinct(tabOf)
    BY TablesDistinct
  <2>4. IsFiniteSet(Models(sch))
    BY ModelsFinite
  <2>. HIDE DEF tabOf
  <2>5. Spreads(ForEach(tabOf), Models(sch), ScriptLines, tabOf)
    BY <2>2, <2>4, ForEachLines
  <2>. QED  BY <2>3, <2>5 DEF Spreads
<1>5. H \in Seq(ScriptLines) /\ E \in Seq(ScriptLines) /\ Len(H) = 4 /\ Len(E) = 2
  <2>1. \A op \in {"header", "start", "BEGIN", "role", "COMMIT", "end"} :
          Line(op, Public) \in ScriptLines
    BY DEF Line, ScriptLines
  <2>. QED  BY <2>1
<1> DEFINE u == Len(U)
           t == Len(T)
           q == Len(Q)
<1>6. /\ H[1] = Line("header", Public) /\ H[2] = Line("start", Public)
      /\ H[3] = Line("BEGIN", Public) /\ H[4] = Line("role", Public)
      /\ E[1] = Line("COMMIT", Public) /\ E[2] = Line("end", Public)
  OBVIOUS
<1>7. /\ u \in Nat /\ t \in Nat /\ q \in Nat
      /\ DOMAIN U = 1 .. u /\ DOMAIN T = 1 .. t /\ DOMAIN Q = 1 .. q
  BY <1>2, <1>3, <1>4, LenProperties
<1>8. /\ g \in Seq(ScriptLines) /\ n = 6 + u + t + q
      /\ \A i \in 1 .. 4 : g[i] = H[i]
      /\ \A i \in 1 .. u : g[4 + i] = U[i]
      /\ \A i \in 1 .. t : g[4 + u + i] = T[i]
      /\ \A i \in 1 .. q : g[4 + u + t + i] = Q[i]
      /\ \A i \in 1 .. 2 : g[4 + u + t + q + i] = E[i]
  <2> DEFINE c1 == H \o U
             c2 == c1 \o T
             c3 == c2 \o Q
  <2>. HIDE DEF H, U, T, Q, E
  <2>1. Joins(c1, ScriptLines, H, U, 4, u)
    BY <1>2, <1>5, <1>7, Joined
  <2>2. Joins(c2, ScriptLines, c1, T, 4 + u, t)
    <3>1. c1 \in Seq(ScriptLines) /\ Len(c1) = 4 + u /\ 4 + u \in Nat
      BY <1>7, <2>1 DEF Joins
    <3>. HIDE DEF c1
    <3>. QED  BY <1>4, <1>7, <3>1, Joined
  <2>3. Joins(c3, ScriptLines, c2, Q, 4 + u + t, q)
    <3>1. c2 \in Seq(ScriptLines) /\ Len(c2) = 4 + u + t /\ 4 + u + t \in Nat
      BY <1>7, <2>2 DEF Joins
    <3>. HIDE DEF c2
    <3>. QED  BY <1>3, <1>7, <3>1, Joined
  <2>4. Joins(c3 \o E, ScriptLines, c3, E, 4 + u + t + q, 2)
    <3>1. c3 \in Seq(ScriptLines) /\ Len(c3) = 4 + u + t + q /\ 4 + u + t + q \in Nat
      BY <1>7, <2>3 DEF Joins
    <3>. HIDE DEF c3
    <3>. QED  BY <1>5, <3>1, Joined
  <2>5. g = c3 \o E
    OBVIOUS
  <2>. HIDE DEF u, t, q, c1, c2, c3, g
  <2>6. \A i \in 1 .. 4 : g[i] = H[i]
    <3>1. \A i \in 1 .. 4 : i \in 1 .. 4 + u /\ i \in 1 .. 4 + u + t /\ i \in 1 .. 4 + u + t + q
      BY <1>7
    <3>. QED  BY <3>1, <2>1, <2>2, <2>3, <2>4, <2>5 DEF Joins
  <2>7. \A i \in 1 .. u : g[4 + i] = U[i]
    <3>1. \A i \in 1 .. u : 4 + i \in 1 .. 4 + u /\ 4 + i \in 1 .. 4 + u + t
                            /\ 4 + i \in 1 .. 4 + u + t + q
      BY <1>7
    <3>. QED  BY <3>1, <2>1, <2>2, <2>3, <2>4, <2>5 DEF Joins
  <2>8. \A i \in 1 .. t : g[4 + u + i] = T[i]
    <3>1. \A i \in 1 .. t : 4 + u + i \in 1 .. 4 + u + t /\ 4 + u + i \in 1 .. 4 + u + t + q
      BY <1>7
    <3>. QED  BY <3>1, <2>2, <2>3, <2>4, <2>5 DEF Joins
  <2>9. \A i \in 1 .. q : g[4 + u + t + i] = Q[i]
    <3>1. \A i \in 1 .. q : 4 + u + t + i \in 1 .. 4 + u + t + q
      BY <1>7
    <3>. QED  BY <3>1, <2>3, <2>4, <2>5 DEF Joins
  <2>10. \A i \in 1 .. 2 : g[4 + u + t + q + i] = E[i]
    BY <2>4, <2>5 DEF Joins
  <2>11. g \in Seq(ScriptLines) /\ n = 6 + u + t + q
    BY <1>7, <2>4, <2>5 DEF Joins
  <2>. HIDE DEF n
  <2>. QED  BY <2>6, <2>7, <2>8, <2>9, <2>10, <2>11
<1>9. \A i \in 5 .. n - 2 :
        \/ \E j \in 1 .. u : i = 4 + j /\ g[i] = U[j]
        \/ \E j \in 1 .. t : i = 4 + u + j /\ g[i] = T[j]
        \/ \E j \in 1 .. q : i = 4 + u + t + j /\ g[i] = Q[j]
  <2>. HIDE DEF u, t, q, U, T, Q, g, n
  <2>1. ASSUME NEW i \in 5 .. n - 2
        PROVE  \/ \E j \in 1 .. u : i = 4 + j /\ g[i] = U[j]
               \/ \E j \in 1 .. t : i = 4 + u + j /\ g[i] = T[j]
               \/ \E j \in 1 .. q : i = 4 + u + t + j /\ g[i] = Q[j]
    <3>1. CASE i <= 4 + u
      <4>1. i - 4 \in 1 .. u /\ i = 4 + (i - 4)
        BY <1>7, <1>8, <3>1
      <4>. QED  BY <1>8, <4>1
    <3>2. CASE i > 4 + u /\ i <= 4 + u + t
      <4>1. i - (4 + u) \in 1 .. t /\ i = 4 + u + (i - (4 + u))
        BY <1>7, <3>2
      <4>. QED  BY <1>8, <4>1
    <3>3. CASE i > 4 + u + t
      <4>0. i <= 4 + u + t + q
        BY <1>7, <1>8
      <4>1. i - (4 + u + t) \in 1 .. q /\ i = 4 + u + t + (i - (4 + u + t))
        BY <1>7, <3>3, <4>0
      <4>. QED  BY <1>8, <4>1
    <3>. QED  BY <1>7, <3>1, <3>2, <3>3
  <2>. QED  BY <2>1
<1>10. ASSUME NEW i \in 1 .. t
       PROVE  BodyLine(T[i], sch, sh)
  <2>1. PICK m \in Models(sch) : \E j \in DOMAIN tabOf[m] : T[i] = tabOf[m][j]
    BY <1>4, <1>7
  <2>2. PICK j \in DOMAIN tabOf[m] : T[i] = tabOf[m][j]
    BY <2>1
  <2>. HIDE DEF T
  <2>3. CASE m \in sh
    <3>1. T[i] \in {Line("shared", m), Line("grant", m)}
      BY <2>2, <2>3, SharedLinesAre
    <3>. QED  BY <2>3, <3>1 DEF BodyLine
  <2>4. CASE m \notin sh
    <3>1. \/ T[i] \in {Line(op, m) : op \in {"enable", "force", "index", "grant"}}
          \/ T[i] \in {GuardedPolicy(m, p, sch[m]) : p \in Generated}
      <4>1. j \in 1 .. 7 /\ T[i] = TableLines(m, sch[m])[j]
        BY <2>2, <2>4, TableLinesAre
      <4>2. j = 1 \/ j = 2 \/ j = 3 \/ j = 4 \/ j = 5 \/ j = 6 \/ j = 7
        BY <4>1
      <4>. QED  BY <4>1, <4>2, TableLinesAre DEF Generated
    <3>. QED  BY <2>4, <3>1 DEF BodyLine
  <2>. QED  BY <2>3, <2>4
<1>11. ASSUME NEW line, BodyLine(line, sch, sh)
       PROVE  \E i \in 5 .. n - 2 : g[i] = line
  <2>. HIDE DEF u, t, q, U, T, Q, g, n, H, E
  <2>0. u \in Nat /\ t \in Nat /\ q \in Nat /\ n = 6 + u + t + q
    BY <1>7, <1>8
  <2>1. CASE \E s \in ModelSchemas(sch) : line = Line("usage", s)
    <3>1. PICK j \in 1 .. u : U[j] = line
      BY <1>2, <1>7, <2>1
    <3>2. 4 + j \in 5 .. n - 2
      BY <2>0
    <3>3. g[4 + j] = line
      BY <1>8, <3>1
    <3>. QED  BY <3>2, <3>3
  <2>2. CASE \E s \in ModelSchemas(sch) : line = Line("sequences", s)
    <3>1. PICK j \in 1 .. q : Q[j] = line
      BY <1>3, <1>7, <2>2
    <3>2. 4 + u + t + j \in 5 .. n - 2
      BY <2>0
    <3>3. g[4 + u + t + j] = line
      BY <1>8, <3>1
    <3>. QED  BY <3>2, <3>3
  <2>3. CASE \E m \in Models(sch) : \E j \in DOMAIN tabOf[m] : line = tabOf[m][j]
    <3>1. PICK j \in 1 .. t : T[j] = line
      <4>1. PICK m \in Models(sch) : \E j \in DOMAIN tabOf[m] : line = tabOf[m][j]
        BY <2>3
      <4>. QED  BY <1>4, <1>7, <4>1
    <3>2. 4 + u + j \in 5 .. n - 2
      BY <2>0
    <3>3. g[4 + u + j] = line
      BY <1>8, <3>1
    <3>. QED  BY <3>2, <3>3
  <2>4. ASSUME NEW m \in Models(sch) \cap sh, line \in {Line("shared", m), Line("grant", m)}
        PROVE  \E j \in DOMAIN tabOf[m] : line = tabOf[m][j]
    <3>1. tabOf[m] = SharedLines(m)
      OBVIOUS
    <3>2. 1 \in 1 .. 2 /\ 2 \in 1 .. 2
      OBVIOUS
    <3>. HIDE DEF tabOf
    <3>. QED  BY <2>4, <3>1, <3>2, SharedLinesAre
  <2>5. ASSUME NEW m \in Models(sch) \ sh,
               \/ line \in {Line(op, m) : op \in {"enable", "force", "index", "grant"}}
               \/ line \in {GuardedPolicy(m, p, sch[m]) : p \in Generated}
        PROVE  \E j \in DOMAIN tabOf[m] : line = tabOf[m][j]
    <3>1. tabOf[m] = TableLines(m, sch[m])
      OBVIOUS
    <3>2. \A j \in {1, 2, 3, 4, 5, 6, 7} : j \in 1 .. 7
      OBVIOUS
    <3>3. \/ line = Line("enable", m) \/ line = Line("force", m) \/ line = Line("index", m)
          \/ line = Line("grant", m) \/ line = GuardedPolicy(m, "isolation", sch[m])
          \/ line = GuardedPolicy(m, "insert", sch[m]) \/ line = GuardedPolicy(m, "guard", sch[m])
      BY <2>5 DEF Generated
    <3>. HIDE DEF tabOf
    <3>. QED  BY <3>1, <3>2, <3>3, TableLinesAre
  <2>. HIDE DEF tabOf
  <2>. QED  BY <1>11, <2>1, <2>2, <2>3, <2>4, <2>5 DEF BodyLine
<1>12. ASSUME NEW i \in 5 .. n - 2
       PROVE  BodyLine(g[i], sch, sh)
  <2>. HIDE DEF u, t, q, U, T, Q, g, n
  <2>1. CASE \E j \in 1 .. u : i = 4 + j /\ g[i] = U[j]
    BY <1>2, <1>7, <2>1 DEF BodyLine
  <2>2. CASE \E j \in 1 .. t : i = 4 + u + j /\ g[i] = T[j]
    BY <1>10, <2>2
  <2>3. CASE \E j \in 1 .. q : i = 4 + u + t + j /\ g[i] = Q[j]
    BY <1>3, <1>7, <2>3 DEF BodyLine
  <2>. QED  BY <1>9, <2>1, <2>2, <2>3
<1>13. ASSUME NEW i \in 5 .. n - 2, NEW j \in 5 .. n - 2, IsPolicy(g[i]), g[i] = g[j]
       PROVE  i = j
  <2>. HIDE DEF u, t, q, U, T, Q, g, n
  <2>1. ASSUME NEW k \in 5 .. n - 2, IsPolicy(g[k])
        PROVE  \E a \in 1 .. t : k = 4 + u + a /\ g[k] = T[a]
    <3>1. \A s : ~ IsPolicy(Line("usage", s)) /\ ~ IsPolicy(Line("sequences", s))
      BY DEF IsPolicy, Line
    <3>2. \A a \in 1 .. u : ~ IsPolicy(U[a])
      BY <1>2, <1>7, <3>1
    <3>3. \A a \in 1 .. q : ~ IsPolicy(Q[a])
      BY <1>3, <1>7, <3>1
    <3>. QED  BY <1>9, <2>1, <3>2, <3>3
  <2>2. PICK a \in 1 .. t : i = 4 + u + a /\ g[i] = T[a]
    BY <1>13, <2>1
  <2>3. PICK b \in 1 .. t : j = 4 + u + b /\ g[j] = T[b]
    BY <1>13, <2>1
  <2>4. a = b
    BY <1>4, <1>7, <1>13, <2>2, <2>3 DEF IsInjective
  <2>. QED  BY <2>2, <2>3, <2>4
<1>14. /\ n \in Nat /\ n >= 6
       /\ g[1] = H[1] /\ g[2] = H[2] /\ g[3] = H[3] /\ g[4] = H[4]
       /\ g[n - 1] = E[1] /\ g[n] = E[2]
  <2>. HIDE DEF u, t, q, U, T, Q, g, n, H, E
  <2>0. u \in Nat /\ t \in Nat /\ q \in Nat /\ n = 6 + u + t + q
    BY <1>7, <1>8
  <2>1. n - 1 = 4 + u + t + q + 1 /\ n = 4 + u + t + q + 2 /\ n >= 6 /\ n \in Nat
    BY <2>0
  <2>. QED  BY <1>8, <2>1
<1>. HIDE DEF g, H, E
<1>. QED  BY <1>1, <1>6, <1>8, <1>11, <1>12, <1>13, <1>14 DEF GeneratedLines

-------------------------------------------------------------------------------
(***************************************************************************)
(* What the check reads of a file.                                         *)
(***************************************************************************)
LEMMA MinIs ==
  ASSUME NEW S \in SUBSET Nat, S # {}
  PROVE  Min(S) \in S /\ \A k \in S : Min(S) <= k
<1>1. \E m \in S : \A k \in S : m <= k
  BY NatMin
<1>. QED  BY <1>1 DEF Min

LEMMA Part ==
  ASSUME NEW X, NEW f \in Seq(X), NEW m \in Nat \ {0}, NEW n \in Int, n <= Len(f)
  PROVE  /\ SubSeq(f, m, n) \in Seq(X)
         /\ DOMAIN SubSeq(f, m, n) = 1 .. n - m + 1
         /\ \A i \in 1 .. n - m + 1 : SubSeq(f, m, n)[i] = f[m + i - 1] /\ m + i - 1 \in DOMAIN f
<1>1. \A i \in m .. n : f[i] \in X
  BY LenProperties, ElementOfSeq
<1>2. /\ SubSeq(f, m, n) \in Seq(X)
      /\ Len(SubSeq(f, m, n)) = IF m <= n THEN n - m + 1 ELSE 0
      /\ \A i \in 1 .. n - m + 1 : SubSeq(f, m, n)[i] = f[m + i - 1]
  BY <1>1, SubSeqProperties
<1>3. DOMAIN SubSeq(f, m, n) = 1 .. n - m + 1
  BY <1>2, LenProperties
<1>4. \A i \in 1 .. n - m + 1 : m + i - 1 \in DOMAIN f
  BY LenProperties
<1>. QED  BY <1>2, <1>3, <1>4

\* What is scanned of a file is its beginning, its section a part of it.
LEMMA SectionType ==
  ASSUME NEW f \in Seq(ScriptLines)
  PROVE  /\ Scan(f) \in Seq(ScriptLines) /\ Section(f) \in Seq(ScriptLines)
         /\ \A i \in DOMAIN Scan(f) : i \in DOMAIN f /\ Scan(f)[i] = f[i]
<1>1. DOMAIN f = 1 .. Len(f) /\ Len(f) \in Nat
  BY LenProperties
<1>2. \A op : Of(f, op) \subseteq 1 .. Len(f)
  BY <1>1 DEF Of
<1>3. Scan(f) \in Seq(ScriptLines) /\ \A i \in DOMAIN Scan(f) : i \in DOMAIN f /\ Scan(f)[i] = f[i]
  <2>1. CASE Lexes(f)
    BY <2>1 DEF Scan
  <2>2. CASE ~ Lexes(f)
    <3> DEFINE m == Min(Of(f, "open"))
    <3>1. m \in 1 .. Len(f)
      <4>1. Of(f, "open") \in SUBSET Nat /\ Of(f, "open") # {}
        BY <1>1, <1>2, <2>2 DEF Lexes
      <4>. QED  BY <1>2, <4>1, MinIs
    <3>2. Scan(f) = SubSeq(f, 1, m - 1)
      BY <2>2 DEF Scan
    <3>. HIDE DEF m
    <3>3. m - 1 <= Len(f) /\ 1 \in Nat \ {0} /\ m - 1 \in Int
      BY <1>1, <3>1
    <3>. QED  BY <3>2, <3>3, Part
  <2>. QED  BY <2>1, <2>2
<1>4. Section(f) \in Seq(ScriptLines)
  <2>1. CASE ~ Marked(f)
    BY <2>1 DEF Section
  <2>2. CASE Marked(f)
    <3> DEFINE a == Min(Of(Scan(f), "start"))
               b == Min(Ends(f))
    <3>1. DOMAIN Scan(f) = 1 .. Len(Scan(f)) /\ Len(Scan(f)) \in Nat
      BY <1>3, LenProperties
    <3>2. Of(Scan(f), "start") \in SUBSET Nat /\ Of(Scan(f), "start") # {}
      <4>1. Of(Scan(f), "start") # {}
        BY <2>2 DEF Marked, Ends
      <4>. QED  BY <3>1, <4>1 DEF Of
    <3>3. a \in Nat
      BY <3>2, MinIs
    <3>4. Ends(f) \subseteq 1 .. Len(f)
      BY <1>1, <1>3 DEF Ends, Of
    <3>5. b \in 1 .. Len(f)
      BY <2>2, <3>4, <1>1, MinIs DEF Marked
    <3>6. Section(f) = SubSeq(f, a + 1, b - 1)
      BY <2>2 DEF Section
    <3>. HIDE DEF a, b
    <3>7. a + 1 \in Nat \ {0} /\ b - 1 \in Int /\ b - 1 <= Len(f)
      BY <1>1, <3>3, <3>5
    <3>. QED  BY <3>6, <3>7, Part
  <2>. QED  BY <2>1, <2>2
<1>. QED  BY <1>3, <1>4

-------------------------------------------------------------------------------
(***************************************************************************)
(* The invariant.                                                          *)
(***************************************************************************)
ColumnOf(kind) == IF kind \in {"text", "uuid"} THEN kind ELSE "none"

\* A table has the column that its model says, whatever was applied to it; and a
\* file that was left as it was generated is what init writes for the schema as
\* it is.
ScriptInv ==
  /\ prisma \in [Tables -> Kinds]
  /\ file \in Seq(ScriptLines)
  /\ shared \in SUBSET Tables
  /\ pristine \in BOOLEAN
  /\ db \in Databases
  /\ changes \in Nat
  /\ \A t \in Tables : db[t].column = ColumnOf(prisma[t])
  /\ pristine => file = Generate(prisma, shared) /\ Generates(prisma, shared)

\* A run keeps the columns.
LEMMA RunType ==
  ASSUME NEW lines \in Seq(ScriptLines), NEW d \in Databases, NEW sch
  PROVE  /\ RunScript(lines, d, sch).db \in Databases
         /\ \A t \in Tables : RunScript(lines, d, sch).db[t].column = d[t].column
<1> DEFINE n == Len(lines)
           after == Course(lines, d, sch)
           SameColumns(e) == \A t \in Tables : e[t].column = d[t].column
           T == {i \in 0 .. n : SameColumns(after[i].db) /\ SameColumns(after[i].saved)}
<1>1. /\ n \in Nat /\ after \in [0 .. n -> Sessions]
      /\ after[0] = Start(d)
      /\ \A i \in 1 .. n : after[i] = Execute(after[i - 1], lines[i], sch)
      /\ \A i \in 1 .. n : lines[i] \in ScriptLines
  BY CourseSteps, LenProperties, ElementOfSeq
<1>2. 0 \in T
  BY <1>1 DEF Start
<1>3. ASSUME NEW i \in 0 .. n - 1, i \in T
      PROVE  i + 1 \in T
  <2> DEFINE r == after[i]
             line == lines[i + 1]
  <2>1. i \in 0 .. n /\ i + 1 \in 1 .. n /\ (i + 1) - 1 = i /\ i + 1 \in 0 .. n
    BY <1>1
  <2>2. r \in Sessions /\ line \in ScriptLines /\ after[i + 1] = Execute(r, line, sch)
    BY <1>1, <2>1
  <2>3. SameColumns(r.db) /\ SameColumns(r.saved)
    BY <1>3
  <2>. HIDE DEF r, line, after
  <2>4. SameColumns(Effect(line, r.db))
    <3>1. r.db \in Databases
      BY <2>2 DEF Sessions
    <3>2. \A t \in Tables : Effect(line, r.db)[t].column = r.db[t].column
      BY <2>2, <3>1, EffectOnTable, ZenonT(40) DEF Becomes
    <3>. QED  BY <2>3, <3>2
  <2>. HIDE DEF SameColumns
  <2>5. SameColumns(after[i + 1].db) /\ SameColumns(after[i + 1].saved)
    BY <2>2, <2>3, <2>4 DEF Execute, Sessions
  <2>. QED  BY <2>1, <2>5
<1>4. 0 .. n \subseteq T
  <2>. HIDE DEF T, n
  <2>. QED  BY <1>1, <1>2, <1>3, UpTo
<1>5. SameColumns(after[n].db) /\ SameColumns(after[n].saved) /\ after[n] \in Sessions
  <2>. HIDE DEF n, after, SameColumns
  <2>. QED  BY <1>1, <1>4
<1>6. RunScript(lines, d, sch).db = IF after[n].open THEN after[n].saved ELSE after[n].db
  BY DEF RunScript
<1>. HIDE DEF after, n
<1>. QED  BY <1>5, <1>6 DEF Sessions

LEMMA MigratedType ==
  ASSUME NEW kind \in Kinds
  PROVE  Migrated(kind) \in Catalog /\ Migrated(kind).column = ColumnOf(kind)
BY DEF Migrated, Fresh, Catalog, ColumnOf, Kinds

LEMMA LegacyType ==
  ASSUME NEW sch \in [Tables -> Kinds], NEW sh \in SUBSET Tables, Generates(sch, sh)
  PROVE  LegacyFile(sch, sh) \in Seq(ScriptLines)
<1> DEFINE tabOf == [t \in Models(sch) |->
                       IF t \in sh THEN SharedLines(t) ELSE LegacyLines(t, sch[t])]
<1>1. \A t \in Models(sch) : t \in Tables /\ (t \in sh \/ sch[t] \in {"text", "uuid"})
  BY ModelsFinite DEF Generates
<1>2. tabOf \in [Models(sch) -> Seq(ScriptLines)]
  <2>1. \A t \in Models(sch) : SharedLines(t) \in Seq(ScriptLines)
    BY <1>1, PartTypes
  <2>. QED  BY <1>1, <2>1, PartTypes
<1>3. IsFiniteSet(Models(sch))
  BY ModelsFinite
<1>4. <<Line("role", Public)>> \in Seq(ScriptLines)
  BY DEF Line, ScriptLines
<1>5. LegacyFile(sch, sh) = <<Line("role", Public)>> \o ForEach(tabOf)
  BY DEF LegacyFile
<1>. HIDE DEF tabOf
<1>6. ForEach(tabOf) \in Seq(ScriptLines)
  BY <1>2, <1>3, ForEachLines DEF Spreads
<1>. QED  BY <1>4, <1>5, <1>6, ConcatProperties

LEMMA ScriptInvInit == Init => ScriptInv
<1>. SUFFICES ASSUME Init
              PROVE  ScriptInv
  OBVIOUS
<1>1. /\ prisma \in [Tables -> Kinds] /\ shared \in SUBSET Tables
      /\ Generates(prisma, shared)
  BY CheckConstants DEF Init
<1>2. file \in Seq(ScriptLines)
  <2>1. LegacyFile(prisma, shared) \in Seq(ScriptLines)
    BY <1>1, LegacyType
  <2>2. file = << >> \/ file = LegacyFile(prisma, shared)
    BY DEF Init
  <2>3. << >> \in Seq(ScriptLines)
    OBVIOUS
  <2>. QED  BY <2>1, <2>2, <2>3
<1>3. \A t \in Tables : db[t] \in Catalog /\ db[t].column = ColumnOf(prisma[t])
  BY <1>1, MigratedType DEF Init, FreshDatabase
<1>4. db \in Databases
  BY <1>3 DEF Init, FreshDatabase, Databases
<1>. QED  BY <1>1, <1>2, <1>3, <1>4 DEF Init, ScriptInv

LEMMA ScriptInvNext == ScriptInv /\ [Next]_vars => ScriptInv'
<1>. SUFFICES ASSUME ScriptInv, [Next]_vars
              PROVE  ScriptInv'
  OBVIOUS
<1>1. ASSUME NEW sh \in SharedSets, RunInit(sh)
      PROVE  ScriptInv'
  <2>1. sh \in SUBSET Tables
    BY CheckConstants
  <2>2. Generate(prisma, sh) \in Seq(ScriptLines)
    BY <1>1, <2>1, GenerateLines DEF RunInit, ScriptInv, GeneratedLines
  <2>. QED  BY <1>1, <2>1, <2>2 DEF RunInit, ScriptInv
<1>2. CASE Edit
  <2>0. DOMAIN file = 1 .. Len(file) /\ Len(file) \in Nat /\ file \in Seq(ScriptLines)
    BY LenProperties DEF ScriptInv
  <2>1. ASSUME NEW i \in DOMAIN file
        PROVE  RemoveAt(file, i) \in Seq(ScriptLines)
    <3>1. SubSeq(file, 1, i - 1) \in Seq(ScriptLines)
      BY <2>0, <2>1, Part
    <3>2. SubSeq(file, i + 1, Len(file)) \in Seq(ScriptLines)
      BY <2>0, <2>1, Part
    <3>. QED  BY <3>1, <3>2, ConcatProperties DEF RemoveAt
  <2>2. ASSUME NEW i \in EditedPlaces(file), NEW line \in Insertable
        PROVE  InsertAt(file, i + 1, line) \in Seq(ScriptLines)
    <3>1. i \in 0 .. Len(file) /\ <<line>> \in Seq(ScriptLines)
      BY CheckConstants DEF EditedPlaces
    <3>2. SubSeq(file, 1, (i + 1) - 1) \in Seq(ScriptLines)
      BY <2>0, <3>1, Part
    <3>3. SubSeq(file, i + 1, Len(file)) \in Seq(ScriptLines)
      BY <2>0, <3>1, Part
    <3>4. SubSeq(file, 1, (i + 1) - 1) \o <<line>> \in Seq(ScriptLines)
      BY <3>1, <3>2, ConcatProperties
    <3>. QED  BY <3>3, <3>4, ConcatProperties DEF InsertAt
  <2>3. file' \in Seq(ScriptLines)
    BY <1>2, <2>1, <2>2 DEF Edit
  <2>4. /\ prisma' = prisma /\ shared' = shared /\ db' = db
        /\ changes' \in Nat /\ pristine' = FALSE
    BY <1>2 DEF Edit, ScriptInv
  <2>. QED  BY <2>3, <2>4 DEF ScriptInv
<1>3. ASSUME NEW t \in Tables, NEW kind \in Kinds, Migrate(t, kind)
      PROVE  ScriptInv'
  <2> DEFINE new == [Migrated(kind) EXCEPT !.role = db[t].role, !.usage = db[t].usage]
  <2>1. db \in Databases /\ db[t] \in Catalog
    BY DEF ScriptInv, Databases
  <2>2. new \in Catalog /\ new.column = ColumnOf(kind)
    BY <2>1, MigratedType DEF Catalog
  <2>3. db' = [db EXCEPT ![t] = new] /\ prisma' = [prisma EXCEPT ![t] = kind]
    BY <1>3 DEF Migrate
  <2>. HIDE DEF new
  <2>4. db' \in Databases
    BY <2>1, <2>2, <2>3 DEF Databases
  <2>5. \A u \in Tables : db'[u].column = ColumnOf(prisma'[u])
    BY <2>1, <2>2, <2>3 DEF ScriptInv, Databases
  <2>6. prisma' \in [Tables -> Kinds]
    BY <2>3 DEF ScriptInv
  <2>7. /\ file' = file /\ shared' = shared /\ changes' \in Nat /\ pristine' = FALSE
    BY <1>3 DEF Migrate, ScriptInv
  <2>. QED  BY <2>4, <2>5, <2>6, <2>7 DEF ScriptInv
<1>4. CASE Apply
  <2> DEFINE run == RunScript(Scan(Section(file)), db, prisma)
  <2>1. Scan(Section(file)) \in Seq(ScriptLines)
    BY SectionType DEF ScriptInv
  <2>2. run.db \in Databases /\ \A t \in Tables : run.db[t].column = db[t].column
    BY <2>1, RunType DEF ScriptInv
  <2>3. db' = run.db
    BY <1>4 DEF Apply
  <2>. HIDE DEF run
  <2>. QED  BY <1>4, <2>2, <2>3 DEF Apply, ScriptInv
<1>5. CASE UNCHANGED vars
  BY <1>5 DEF vars, ScriptInv
<1>. QED  BY <1>1, <1>2, <1>3, <1>4, <1>5 DEF Next

THEOREM ScriptInvariant == Spec => []ScriptInv
BY ScriptInvInit, ScriptInvNext, PTL DEF Spec

-------------------------------------------------------------------------------
(***************************************************************************)
(* Drift.                                                                  *)
(***************************************************************************)
LEMMA OneMember ==
  ASSUME NEW S, Cardinality(S) = 1
  PROVE  S # {}
BY FS_EmptySet

\* Between them the tenant predicates of a script fix the type of a column: a
\* file that two schemas agree with is generated for the column of one of them.
LEMMA InSyncWithOne ==
  ASSUME NEW f \in Seq(ScriptLines), NEW sch \in [Tables -> Kinds], NEW t \in Tables,
         NEW kind \in Kinds, kind # sch[t], NEW other, other = [sch EXCEPT ![t] = kind],
         InSync(f, sch), InSync(f, other),
         t \notin SharedModels(Section(f), sch) \cup SharedModels(Section(f), other)
  PROVE  FALSE
<1> DEFINE lines == Section(f)
           marked == Marked(f)
<1>0. lines \in Seq(ScriptLines)
  BY SectionType
<1>1. /\ SqlTables(lines) = Expected(lines, sch) /\ SqlTables(lines) = Expected(lines, other)
      /\ \A u \in Expected(lines, sch) : Complete(lines, marked, sch, u)
      /\ \A u \in Expected(lines, other) : Complete(lines, marked, other, u)
      /\ OnlyKnownPolicies(lines, marked, sch)
  BY DEF InSync
<1>2. other[t] = kind
  OBVIOUS
<1>. HIDE DEF lines, marked
<1>3. t \in Expected(lines, sch) /\ t \in Expected(lines, other)
  <2>1. sch[t] # "absent" => t \in Expected(lines, sch)
    BY DEF Expected, Models, lines
  <2>2. kind # "absent" => t \in Expected(lines, other)
    BY <1>2 DEF Expected, Models, lines
  <2>. QED  BY <1>1, <2>1, <2>2
<1>4. ASSUME NEW s, Complete(lines, marked, s, t)
      PROVE  \E i \in DOMAIN lines : /\ IsPolicy(lines[i]) /\ lines[i].on = t
                                     /\ lines[i].policy = IsolationPolicy
                                     /\ lines[i].type = s[t]
  <2>1. Matching(lines, marked, s, t, "isolation") # {}
    BY <1>4, OneMember DEF Complete, Generated
  <2>2. PICK i \in Matching(lines, marked, s, t, "isolation") : TRUE
    BY <2>1
  <2>3. /\ i \in DOMAIN lines /\ IsPolicy(lines[i]) /\ lines[i].on = t
        /\ lines[i].policy = IsolationPolicy /\ TypeFits(lines[i].type, s[t])
    BY DEF Matching, GeneratedPolicy
  <2>4. lines[i] \in ScriptLines
    BY <1>0, <2>3, LenProperties, ElementOfSeq
  <2>5. lines[i].type # "any"
    BY <2>3, <2>4, LineType DEF IsolationPolicy
  <2>. QED  BY <2>3, <2>5 DEF TypeFits
<1>5. PICK i \in DOMAIN lines : /\ IsPolicy(lines[i]) /\ lines[i].on = t
                                /\ lines[i].policy = IsolationPolicy
                                /\ lines[i].type = kind
  BY <1>1, <1>2, <1>3, <1>4
<1>6. lines[i] \in ScriptLines /\ lines[i].type # "any"
  <2>1. lines[i] \in ScriptLines
    BY <1>0, <1>5, LenProperties, ElementOfSeq
  <2>. QED  BY <1>5, <2>1, LineType DEF IsolationPolicy
<1>7. IsolationPolicy.permissive
  BY DEF IsolationPolicy
<1>8. PICK n \in Generated : i \in Matching(lines, marked, sch, lines[i].on, n)
  BY <1>1, <1>5, <1>7 DEF OnlyKnownPolicies
<1>9. TypeFits(kind, sch[t])
  BY <1>5, <1>8 DEF Matching
<1>. QED  BY <1>5, <1>6, <1>9 DEF TypeFits

\* Drift is found (StaticCheck!DriftFound): a file is in sync with one schema
\* only, up to the columns of the models that it declares to be shared.
THEOREM DriftIsFound == Spec => []DriftFound
<1>1. ScriptInv => DriftFound
  BY InSyncWithOne DEF DriftFound, ScriptInv
<1>. QED  BY <1>1, ScriptInvariant, PTL

-------------------------------------------------------------------------------
(***************************************************************************)
(* All or nothing.                                                         *)
(***************************************************************************)
\* Between its BEGIN and its COMMIT a session can go back to where it began; and
\* after the COMMIT nothing has failed, or everything can still be undone.
Enveloped(r, d, i, b, c) ==
  /\ i < b => r = Start(d)
  /\ b <= i /\ i < c => r.open /\ r.saved = d
  /\ c <= i => \/ ~ r.failed /\ ~ r.open
               \/ r.open /\ r.saved = d

LEMMA EnvelopedNext ==
  ASSUME NEW lines \in Seq(ScriptLines), NEW d \in Databases, NEW sch,
         NEW b \in DOMAIN lines, NEW c \in DOMAIN lines,
         Of(lines, "BEGIN") = {b}, Of(lines, "COMMIT") = {c}, SqlLines(lines) \subseteq b .. c,
         NEW i \in 0 .. Len(lines) - 1, NEW r \in Sessions, Enveloped(r, d, i, b, c)
  PROVE  Enveloped(Execute(r, lines[i + 1], sch), d, i + 1, b, c)
<1> DEFINE line == lines[i + 1]
           e == Execute(r, line, sch)
<1>. SUFFICES Enveloped(e, d, i + 1, b, c)
  OBVIOUS
<1>1. /\ DOMAIN lines = 1 .. Len(lines) /\ Len(lines) \in Nat /\ i + 1 \in DOMAIN lines
      /\ i \in Nat /\ b \in Nat /\ c \in Nat
  BY LenProperties
<1>2. /\ line.op = "BEGIN" <=> i + 1 = b
      /\ line.op = "COMMIT" <=> i + 1 = c
      /\ ~ IsComment(line) => b <= i + 1 /\ i + 1 <= c
  BY <1>1 DEF Of, SqlLines
<1>3. b < c
  <2>1. /\ lines[b].op = "BEGIN" /\ lines[c].op = "COMMIT" /\ ~ IsComment(lines[c])
    BY DEF Of, IsComment, Comments
  <2>2. b <= c /\ b # c
    BY <1>1, <2>1 DEF SqlLines
  <2>. QED  BY <1>1, <2>2
<1>. HIDE DEF line
<1>4. CASE IsComment(line)
  <2>1. e = r
    BY <1>4 DEF Execute
  <2>2. i + 1 # b /\ i + 1 # c
    BY <1>2, <1>4 DEF IsComment, Comments
  <2>3. /\ i + 1 < b => i < b
        /\ b <= i + 1 /\ i + 1 < c => b <= i /\ i < c
        /\ c <= i + 1 => c <= i
    BY <1>1, <2>2
  <2>. HIDE DEF e
  <2>. QED  BY <2>1, <2>3 DEF Enveloped
<1>5. CASE i + 1 = b
  <2>1. r = Start(d) /\ line.op = "BEGIN" /\ ~ IsComment(line)
    BY <1>1, <1>2, <1>5 DEF Enveloped, IsComment, Comments
  <2>2. e.open /\ e.saved = d
    BY <2>1 DEF Execute, Start
  <2>3. ~ (i + 1 < b) /\ ~ (c <= i + 1)
    BY <1>1, <1>3, <1>5
  <2>. HIDE DEF e
  <2>. QED  BY <2>2, <2>3 DEF Enveloped
<1>6. CASE ~ IsComment(line) /\ i + 1 # b
  <2>1. b <= i /\ i < c /\ r.open /\ r.saved = d
    BY <1>1, <1>2, <1>6 DEF Enveloped
  <2>2. CASE i + 1 = c
    <3>1. line.op = "COMMIT"
      BY <1>2, <2>2
    <3>2. (e.open /\ e.saved = d) \/ (~ e.failed /\ ~ e.open)
      BY <1>6, <2>1, <3>1 DEF Execute, Sessions
    <3>3. ~ (i + 1 < b) /\ ~ (i + 1 < c)
      BY <1>1, <1>3, <2>2
    <3>. HIDE DEF e
    <3>. QED  BY <3>2, <3>3 DEF Enveloped
  <2>3. CASE i + 1 # c
    <3>1. line.op \notin {"BEGIN", "COMMIT"} /\ i + 1 < c
      BY <1>1, <1>2, <1>6, <2>1, <2>3
    <3>2. e.open /\ e.saved = d
      BY <1>6, <2>1, <3>1 DEF Execute, Sessions
    <3>3. ~ (i + 1 < b) /\ ~ (c <= i + 1)
      BY <1>1, <2>1, <3>1
    <3>. HIDE DEF e
    <3>. QED  BY <3>2, <3>3 DEF Enveloped
  <2>. QED  BY <2>2, <2>3
<1>. QED  BY <1>4, <1>5, <1>6

\* A script in one transaction changes everything or nothing, whatever else its
\* lines are, on every database and every schema.
LEMMA EnvelopeProtects ==
  ASSUME NEW lines \in Seq(ScriptLines), NEW d \in Databases, NEW sch,
         EnvelopeCanonical(lines), RunScript(lines, d, sch).failed
  PROVE  RunScript(lines, d, sch).db = d
<1> DEFINE n == Len(lines)
           after == Course(lines, d, sch)
<1>1. PICK b \in Of(lines, "BEGIN"), c \in Of(lines, "COMMIT") :
        /\ Of(lines, "BEGIN") = {b} /\ Of(lines, "COMMIT") = {c}
        /\ SqlLines(lines) \subseteq b .. c
  BY DEF EnvelopeCanonical
<1>2. /\ n \in Nat /\ DOMAIN lines = 1 .. n /\ b \in DOMAIN lines /\ c \in DOMAIN lines
  BY <1>1, LenProperties DEF Of
<1>3. /\ after \in [0 .. n -> Sessions] /\ after[0] = Start(d)
      /\ \A i \in 1 .. n : after[i] = Execute(after[i - 1], lines[i], sch)
  BY CourseSteps
<1> DEFINE T == {i \in 0 .. n : Enveloped(after[i], d, i, b, c)}
<1>4. 0 \in T
  BY <1>2, <1>3 DEF Enveloped
<1>5. ASSUME NEW i \in 0 .. n - 1, i \in T
      PROVE  i + 1 \in T
  <2>1. i + 1 \in 1 .. n /\ (i + 1) - 1 = i /\ i \in 0 .. n /\ i + 1 \in 0 .. n
    BY <1>2
  <2>2. after[i] \in Sessions /\ after[i + 1] = Execute(after[i], lines[i + 1], sch)
    BY <1>3, <2>1
  <2>3. Enveloped(after[i], d, i, b, c)
    BY <1>5
  <2>. HIDE DEF after
  <2>4. Enveloped(after[i + 1], d, i + 1, b, c)
    BY <1>1, <1>2, <2>2, <2>3, EnvelopedNext, ZenonT(40)
  <2>. QED  BY <2>1, <2>4
<1>6. 0 .. n \subseteq T
  <2>. HIDE DEF T, n
  <2>. QED  BY <1>2, <1>4, <1>5, UpTo
<1>7. Enveloped(after[n], d, n, b, c)
  <2>. HIDE DEF n
  <2>. QED  BY <1>2, <1>6
<1>8. /\ RunScript(lines, d, sch).db = IF after[n].open THEN after[n].saved ELSE after[n].db
      /\ RunScript(lines, d, sch).failed = (after[n].failed \/ after[n].open)
  BY DEF RunScript
<1>9. c <= n
  BY <1>2
<1>. HIDE DEF n, after
<1>. QED  BY <1>7, <1>8, <1>9 DEF Enveloped

\* A marked section that the check accepts is all-or-nothing
\* (StaticCheck!AllOrNothing), edited or not, and wherever it fails.
THEOREM SectionsAreAllOrNothing == Spec => []AllOrNothing
<1>1. ASSUME ScriptInv
      PROVE  AllOrNothing
  <2>1. Section(file) \in Seq(ScriptLines) /\ db \in Databases
    BY <1>1, SectionType DEF ScriptInv
  <2>2. InSync(file, prisma) /\ Marked(file) => EnvelopeCanonical(Section(file))
    BY DEF InSync
  <2>. QED  BY <2>1, <2>2, EnvelopeProtects DEF AllOrNothing
<1>. QED  BY <1>1, ScriptInvariant, PTL

-------------------------------------------------------------------------------
(***************************************************************************)
(* Isolation.                                                              *)
(***************************************************************************)
\* A table with the context guard, on which only the generated policies permit
\* anything.
Guarded(cat) ==
  /\ \E n \in PolicyNames : cat.policies[n] = GuardPolicy
  /\ \A n \in PolicyNames :
       cat.policies[n] = NoPolicy \/ ~ cat.policies[n].permissive
       \/ cat.policies[n] \in {IsolationPolicy, InsertPolicy}

\* What passes its policies has the tenant that the session has set.
LEMMA GuardedPassesOwn ==
  ASSUME NEW cat, Guarded(cat), NEW command \in {"SELECT", "INSERT", "UPDATE", "DELETE"},
         NEW written \in BOOLEAN, command = "INSERT" => written,
         NEW s \in Settings, NEW t, Pass(cat, command, written, s, t)
  PROVE  s = t /\ s \in Tenants
<1>1. PICK p \in Applying(cat, command) :
         p.permissive /\ Holds(cat, Expression(p, written), s, t)
  BY DEF Pass
<1>2. p \in {IsolationPolicy, InsertPolicy} /\ p.command \in {"ALL", command}
  BY <1>1 DEF Applying, Guarded
<1>3. p = InsertPolicy => written
  BY <1>2 DEF InsertPolicy
<1>4. Expression(p, written) = "tenant"
  BY <1>2, <1>3 DEF Expression, IsolationPolicy, InsertPolicy, NoExpr
<1>5. s = t /\ s # Unset
  BY <1>1, <1>4 DEF Holds
<1>6. s \notin {Empty, Unset}
  <2>1. GuardPolicy # NoPolicy
    <3>1. GuardPolicy \in Policy
      BY DEF GuardPolicy, Policy, Expressions, NoExpr
    <3>. QED  BY <3>1, NoPolicyIsNone
  <2>2. GuardPolicy \in Applying(cat, command)
    BY <2>1 DEF Guarded, Applying, GuardPolicy
  <2>3. ~ GuardPolicy.permissive /\ Expression(GuardPolicy, written) = "guard"
    BY DEF GuardPolicy, Expression
  <2>4. Holds(cat, "guard", s, t)
    BY <2>2, <2>3 DEF Pass
  <2>. QED  BY <2>4 DEF Holds
<1>. QED  BY <1>5, <1>6 DEF Settings

LEMMA GuardedIsolates ==
  ASSUME NEW cat, Guarded(cat), ~ Exempt(cat)
  PROVE  Isolates(cat)
<1>1. ASSUME NEW s \in Settings, NEW t \in RowTenants(cat),
             \/ Sees(cat, s, t) \/ Inserts(cat, s, t) \/ Deletes(cat, s, t)
             \/ \E u \in RowTenants(cat) : Updates(cat, s, t, u) \/ Updates(cat, s, u, t)
      PROVE  s = t /\ s \in Tenants
  <2>1. CASE Sees(cat, s, t)
    BY <2>1, GuardedPassesOwn DEF Sees
  <2>2. CASE Inserts(cat, s, t)
    BY <2>2, GuardedPassesOwn DEF Inserts
  <2>3. CASE Deletes(cat, s, t)
    BY <2>3, GuardedPassesOwn DEF Deletes
  <2>4. ASSUME NEW u \in RowTenants(cat), Updates(cat, s, t, u) \/ Updates(cat, s, u, t)
        PROVE  s = t /\ s \in Tenants
    BY <2>4, GuardedPassesOwn DEF Updates
  <2>. QED  BY <1>1, <2>1, <2>2, <2>3, <2>4
<1>. QED  BY <1>1 DEF Isolates

\* Nothing of the script takes row-level security away or gives the role more.
Harmless(lines) ==
  Of(lines, "disable") = {} /\ Of(lines, "do") = {} /\ Of(lines, "escalate") = {}

\* The database after the first i lines of a harmless script that has not failed.
RanOver(e, lines, i) ==
  \A t \in Tables :
    /\ ~ e[t].ownerRights /\ ~ e[t].reaches /\ ~ e[t].truncate
    /\ e[t].role \in {"none", "login"}
    /\ \A j \in 1 .. i : lines[j] = Line("enable", t) => e[t].rls
    /\ \A n \in PolicyNames : e[t].policies[n] # NoPolicy =>
         \E j \in 1 .. i : /\ IsPolicy(lines[j]) /\ lines[j].on = t /\ lines[j].name = n
                           /\ lines[j].policy = e[t].policies[n]
    /\ \A j \in 1 .. i : IsPolicy(lines[j]) /\ lines[j].on = t =>
         e[t].policies[lines[j].name] # NoPolicy

LEMMA RanOverNext ==
  ASSUME NEW lines \in Seq(ScriptLines), Harmless(lines), NEW i \in 0 .. Len(lines) - 1,
         NEW e \in Databases, RanOver(e, lines, i)
  PROVE  RanOver(Effect(lines[i + 1], e), lines, i + 1)
<1> DEFINE line == lines[i + 1]
           f == Effect(line, e)
<1>. SUFFICES RanOver(f, lines, i + 1)
  OBVIOUS
<1>1. line \in ScriptLines /\ i + 1 \in DOMAIN lines
      /\ \A j \in 1 .. i + 1 : j \in 1 .. i \/ j = i + 1
  BY LenProperties, ElementOfSeq
<1>2. line.op \notin {"disable", "do", "escalate"}
  BY <1>1 DEF Harmless, Of
<1>. SUFFICES ASSUME NEW t \in Tables
              PROVE  /\ ~ f[t].ownerRights /\ ~ f[t].reaches /\ ~ f[t].truncate
                     /\ f[t].role \in {"none", "login"}
                     /\ \A j \in 1 .. i + 1 : lines[j] = Line("enable", t) => f[t].rls
                     /\ \A n \in PolicyNames : f[t].policies[n] # NoPolicy =>
                          \E j \in 1 .. i + 1 :
                             /\ IsPolicy(lines[j]) /\ lines[j].on = t /\ lines[j].name = n
                             /\ lines[j].policy = f[t].policies[n]
                     /\ \A j \in 1 .. i + 1 : IsPolicy(lines[j]) /\ lines[j].on = t =>
                          f[t].policies[lines[j].name] # NoPolicy
  BY DEF RanOver
<1>3. /\ f[t].role = IF line.op = "role" /\ e[t].role = "none" THEN "login" ELSE e[t].role
      /\ f[t].rls = IF line.on = t /\ line.op = "enable" THEN TRUE ELSE e[t].rls
      /\ f[t].ownerRights = e[t].ownerRights /\ f[t].reaches = e[t].reaches
      /\ f[t].truncate = e[t].truncate
      /\ \A n \in PolicyNames :
           f[t].policies[n] =
             IF IsPolicy(line) /\ line.on = t /\ line.name = n /\ e[t].policies[n] = NoPolicy
             THEN line.policy ELSE e[t].policies[n]
  <2>1. Becomes(f[t], e[t], line, t)
    BY <1>1, EffectOnTable
  <2>. HIDE DEF f, line
  <2>. QED  BY <1>2, <2>1 DEF Becomes
<1>. HIDE DEF f
<1>4. /\ ~ e[t].ownerRights /\ ~ e[t].reaches /\ ~ e[t].truncate
      /\ e[t].role \in {"none", "login"}
      /\ \A j \in 1 .. i : lines[j] = Line("enable", t) => e[t].rls
      /\ \A n \in PolicyNames : e[t].policies[n] # NoPolicy =>
           \E j \in 1 .. i : /\ IsPolicy(lines[j]) /\ lines[j].on = t /\ lines[j].name = n
                             /\ lines[j].policy = e[t].policies[n]
      /\ \A j \in 1 .. i : IsPolicy(lines[j]) /\ lines[j].on = t =>
           e[t].policies[lines[j].name] # NoPolicy
  BY DEF RanOver
<1>5. ~ f[t].ownerRights /\ ~ f[t].reaches /\ ~ f[t].truncate
      /\ f[t].role \in {"none", "login"}
  BY <1>3, <1>4
<1>6. ASSUME NEW j \in 1 .. i + 1, lines[j] = Line("enable", t)
      PROVE  f[t].rls
  <2>1. CASE j \in 1 .. i
    <3>1. e[t].rls
      BY <1>4, <1>6, <2>1
    <3>. QED  BY <1>3, <3>1
  <2>2. CASE j = i + 1
    BY <1>3, <1>6, <2>2 DEF Line
  <2>. QED  BY <1>1, <2>1, <2>2
<1>7. ASSUME NEW n \in PolicyNames, f[t].policies[n] # NoPolicy
      PROVE  \E j \in 1 .. i + 1 : /\ IsPolicy(lines[j]) /\ lines[j].on = t
                                   /\ lines[j].name = n /\ lines[j].policy = f[t].policies[n]
  <2>1. CASE IsPolicy(line) /\ line.on = t /\ line.name = n /\ e[t].policies[n] = NoPolicy
    <3>1. f[t].policies[n] = line.policy /\ i + 1 \in 1 .. i + 1
      BY <1>3, <2>1
    <3>. QED  BY <2>1, <3>1
  <2>2. CASE ~ (IsPolicy(line) /\ line.on = t /\ line.name = n /\ e[t].policies[n] = NoPolicy)
    <3>1. f[t].policies[n] = e[t].policies[n]
      BY <1>3, <2>2
    <3>2. \A j \in 1 .. i : j \in 1 .. i + 1
      OBVIOUS
    <3>. QED  BY <1>4, <1>7, <3>1, <3>2
  <2>. QED  BY <2>1, <2>2
<1>8. ASSUME NEW j \in 1 .. i + 1, IsPolicy(lines[j]), lines[j].on = t
      PROVE  f[t].policies[lines[j].name] # NoPolicy
  <2> DEFINE n == lines[j].name
  <2>1. lines[j] \in ScriptLines
    BY LenProperties, ElementOfSeq
  <2>2. n \in PolicyNames /\ lines[j].policy # NoPolicy
    BY <1>8, <2>1, LineType, NoPolicyIsNone DEF WellFormedPolicies
  <2>3. CASE j \in 1 .. i
    <3>1. e[t].policies[n] # NoPolicy
      BY <1>4, <1>8, <2>3
    <3>. QED  BY <1>3, <2>2, <3>1
  <2>4. CASE j = i + 1
    BY <1>3, <1>8, <2>2, <2>4
  <2>. QED  BY <1>1, <2>3, <2>4
<1>. QED  BY <1>5, <1>6, <1>7, <1>8

\* What a harmless script has done to a migrated database, if it did not fail.
LEMMA HarmlessRun ==
  ASSUME NEW lines \in Seq(ScriptLines), NEW sch \in [Tables -> Kinds], Harmless(lines),
         ~ RunScript(lines, FreshDatabase(sch), sch).failed
  PROVE  RanOver(RunScript(lines, FreshDatabase(sch), sch).db, lines, Len(lines))
<1> DEFINE n == Len(lines)
           d == FreshDatabase(sch)
           after == Course(lines, d, sch)
           T == {i \in 0 .. n : after[i].failed \/ RanOver(after[i].db, lines, i)}
<1>1. d \in Databases
  BY MigratedType DEF FreshDatabase, Databases
<1>2. /\ n \in Nat /\ after \in [0 .. n -> Sessions]
      /\ after[0] = Start(d)
      /\ \A i \in 1 .. n : after[i] = Execute(after[i - 1], lines[i], sch)
      /\ \A i \in 1 .. n : lines[i] \in ScriptLines
  BY <1>1, CourseSteps, LenProperties, ElementOfSeq
<1>3. 0 \in T
  <2>1. RanOver(d, lines, 0)
    BY DEF RanOver, FreshDatabase, Migrated, Fresh
  <2>2. after[0].db = d
    BY <1>2 DEF Start
  <2>. HIDE DEF after, d
  <2>. QED  BY <1>2, <2>1, <2>2
<1>4. ASSUME NEW i \in 0 .. n - 1, i \in T
      PROVE  i + 1 \in T
  <2> DEFINE r == after[i]
             line == lines[i + 1]
  <2>1. i \in 0 .. n /\ i + 1 \in 1 .. n /\ (i + 1) - 1 = i /\ i + 1 \in 0 .. n
    BY <1>2
  <2>2. r \in Sessions /\ line \in ScriptLines /\ after[i + 1] = Execute(r, line, sch)
    BY <1>2, <2>1
  <2>3. r.failed \/ RanOver(r.db, lines, i)
    BY <1>4
  <2>. HIDE DEF r, after
  <2>4. CASE r.failed
    BY <2>1, <2>2, <2>4 DEF Execute
  <2>5. CASE ~ r.failed /\ (IsComment(line) \/ line.op \in {"BEGIN", "COMMIT"})
    <3>1. after[i + 1].db = r.db
      BY <2>2, <2>5 DEF Execute, Sessions
    <3>2. ~ IsPolicy(line) /\ \A t : line # Line("enable", t)
      BY <2>5 DEF IsPolicy, IsComment, Comments, Line
    <3>3. \A j \in 1 .. i + 1 : j \in 1 .. i \/ j = i + 1
      BY <2>1
    <3>4. \A j \in 1 .. i : j \in 1 .. i + 1
      BY <2>1, SMTT(30)
    <3>5. RanOver(r.db, lines, i + 1)
      BY <2>3, <2>5, <3>2, <3>3, <3>4 DEF RanOver
    <3>. QED  BY <2>1, <3>1, <3>5
  <2>6. CASE ~ r.failed /\ ~ IsComment(line) /\ line.op \notin {"BEGIN", "COMMIT"}
    <3>1. CASE Fails(line, r.db, sch)
      <4>1. after[i + 1].failed
        BY <2>2, <2>6, <3>1 DEF Execute, Sessions
      <4>. QED  BY <2>1, <4>1
    <3>2. CASE ~ Fails(line, r.db, sch)
      <4>1. after[i + 1].db = Effect(line, r.db)
        BY <2>2, <2>6, <3>2 DEF Execute, Sessions
      <4>2. r.db \in Databases /\ RanOver(r.db, lines, i)
        BY <2>2, <2>3, <2>6 DEF Sessions
      <4>3. RanOver(Effect(line, r.db), lines, i + 1)
        BY <4>2, RanOverNext
      <4>. QED  BY <2>1, <4>1, <4>3
    <3>. QED  BY <3>1, <3>2
  <2>. QED  BY <2>4, <2>5, <2>6
<1>5. 0 .. n \subseteq T
  <2>. HIDE DEF T, n
  <2>. QED  BY <1>2, <1>3, <1>4, UpTo
<1>6. after[n].failed \/ RanOver(after[n].db, lines, n)
  <2>. HIDE DEF n, after
  <2>. QED  BY <1>2, <1>5
<1>7. /\ RunScript(lines, d, sch).db = IF after[n].open THEN after[n].saved ELSE after[n].db
      /\ RunScript(lines, d, sch).failed = (after[n].failed \/ after[n].open)
  BY DEF RunScript
<1>. HIDE DEF n, after, d
<1>. QED  BY <1>6, <1>7 DEF n, d

\* Every table that the check expects is guarded by a script that it accepts.
LEMMA InSyncIsolates ==
  ASSUME NEW f \in Seq(ScriptLines), NEW sch \in [Tables -> Kinds], NEW lines,
         lines = Section(f), InSync(f, sch), NEW run,
         run = RunScript(lines, FreshDatabase(sch), sch), ~ run.failed,
         Marked(f) \/ (Of(lines, "escalate") = {} /\ NamesUnique(lines)),
         NEW t \in Expected(lines, sch)
  PROVE  Isolates(run.db[t])
<1> DEFINE marked == Marked(f)
           c == run.db[t]
<1>1. /\ Of(lines, "do") = {} /\ Of(lines, "disable") = {}
      /\ marked => OnlySupported(lines)
      /\ SqlTables(lines) = Expected(lines, sch)
      /\ Complete(lines, marked, sch, t)
      /\ OnlyKnownPolicies(lines, marked, sch)
  BY DEF InSync
<1>2. lines \in Seq(ScriptLines) /\ t \in Tables
  BY SectionType DEF Expected, Models
<1>3. Harmless(lines)
  BY <1>1 DEF OnlySupported, Harmless
<1>4. RanOver(run.db, lines, Len(lines))
  BY <1>2, <1>3, HarmlessRun
<1>5. DOMAIN lines = 1 .. Len(lines) /\ \A i \in DOMAIN lines : lines[i] \in ScriptLines
  BY <1>2, LenProperties, ElementOfSeq
<1>. HIDE DEF marked, c
<1>6. /\ ~ c.ownerRights /\ ~ c.reaches /\ ~ c.truncate /\ c.role \in {"none", "login"}
      /\ \A j \in DOMAIN lines : lines[j] = Line("enable", t) => c.rls
      /\ \A n \in PolicyNames : c.policies[n] # NoPolicy =>
           \E j \in DOMAIN lines : /\ IsPolicy(lines[j]) /\ lines[j].on = t /\ lines[j].name = n
                                   /\ lines[j].policy = c.policies[n]
      /\ \A j \in DOMAIN lines : IsPolicy(lines[j]) /\ lines[j].on = t =>
           c.policies[lines[j].name] # NoPolicy
  BY <1>2, <1>4, <1>5 DEF RanOver, c
<1>7. c.rls
  <2>1. Line("enable", t) \in ToSet(lines)
    BY <1>1 DEF SqlTables, Has
  <2>. QED  BY <1>6, <2>1 DEF ToSet
<1>8. ~ Exempt(c)
  BY <1>6, <1>7 DEF Exempt
<1>9. \E n \in PolicyNames : c.policies[n] = GuardPolicy
  <2>1. PICK i \in Matching(lines, marked, sch, t, "guard") : TRUE
    BY <1>1, OneMember DEF Complete, Generated
  <2> DEFINE n == lines[i].name
  <2>2. /\ i \in DOMAIN lines /\ IsPolicy(lines[i]) /\ lines[i].on = t
        /\ lines[i].policy = GuardPolicy /\ (marked => n = "guard")
    BY <2>1 DEF Matching, GeneratedPolicy
  <2>3. n \in PolicyNames
    BY <1>5, <2>2, LineType
  <2>4. c.policies[n] # NoPolicy
    BY <1>6, <2>2
  <2>. HIDE DEF n
  <2>5. PICK j \in DOMAIN lines : /\ IsPolicy(lines[j]) /\ lines[j].on = t /\ lines[j].name = n
                                  /\ lines[j].policy = c.policies[n]
    BY <1>6, <2>3, <2>4
  <2>6. CASE marked
    <3>1. PICK m \in Generated : j \in Matching(lines, marked, sch, lines[j].on, m)
      BY <1>1, <2>5, <2>6 DEF OnlyKnownPolicies
    <3>2. lines[j].name = m /\ lines[j].policy = GeneratedPolicy(m)
      BY <2>6, <3>1 DEF Matching
    <3>3. m = "guard"
      BY <2>2, <2>5, <2>6, <3>2
    <3>. QED  BY <2>3, <2>5, <3>2, <3>3 DEF GeneratedPolicy
  <2>7. CASE ~ marked
    <3>1. i = j
      BY <2>2, <2>5, <2>7 DEF NamesUnique, marked, n
    <3>. QED  BY <2>2, <2>3, <2>5, <3>1
  <2>. QED  BY <2>6, <2>7
<1>10. ASSUME NEW n \in PolicyNames, c.policies[n] # NoPolicy, c.policies[n].permissive
       PROVE  c.policies[n] \in {IsolationPolicy, InsertPolicy}
  <2>1. PICK j \in DOMAIN lines : /\ IsPolicy(lines[j]) /\ lines[j].on = t /\ lines[j].name = n
                                  /\ lines[j].policy = c.policies[n]
    BY <1>6, <1>10
  <2>2. PICK m \in Generated : j \in Matching(lines, marked, sch, lines[j].on, m)
    BY <1>1, <1>10, <2>1 DEF OnlyKnownPolicies
  <2>3. lines[j].policy = GeneratedPolicy(m)
    BY <2>2 DEF Matching
  <2>4. m = "isolation" \/ m = "insert" \/ m = "guard"
    BY DEF Generated
  <2>5. ~ GuardPolicy.permissive
    BY DEF GuardPolicy
  <2>. QED  BY <1>10, <2>1, <2>3, <2>4, <2>5 DEF GeneratedPolicy
<1>11. Guarded(c)
  BY <1>9, <1>10 DEF Guarded
<1>. QED  BY <1>8, <1>11, GuardedIsolates DEF c

\* A script that the check accepts isolates the tenants when it is run to its end
\* (StaticCheck!SyncIsolates), however it was edited.
THEOREM AcceptedScriptsIsolate == Spec => []SyncIsolates
<1>1. ScriptInv => SyncIsolates
  BY InSyncIsolates DEF SyncIsolates, ScriptInv
<1>. QED  BY <1>1, ScriptInvariant, PTL

-------------------------------------------------------------------------------
(***************************************************************************)
(* What init writes is in sync.                                            *)
(***************************************************************************)
LEMMA BodyLineIs ==
  ASSUME NEW line, NEW sch, NEW sh, BodyLine(line, sch, sh)
  PROVE  /\ line.op \in {"usage", "sequences", "shared", "grant", "enable", "force", "index",
                         "guarded"}
         /\ line.op \in {"usage", "sequences"} =>
              \E s \in ModelSchemas(sch) : line = Line(line.op, s)
         /\ line.op = "shared" => \E t \in Models(sch) \cap sh : line = Line("shared", t)
         /\ line.op = "grant" => \E t \in Models(sch) : line = Line("grant", t)
         /\ line.op \in {"enable", "force", "index"} =>
              \E t \in Models(sch) \ sh : line = Line(line.op, t)
         /\ IsPolicy(line) =>
              \E t \in Models(sch) \ sh, m \in Generated : line = GuardedPolicy(t, m, sch[t])
<1>1. CASE \E s \in ModelSchemas(sch) : line \in {Line("usage", s), Line("sequences", s)}
  BY <1>1 DEF Line, IsPolicy
<1>2. CASE \E t \in Models(sch) \cap sh : line \in {Line("shared", t), Line("grant", t)}
  BY <1>2 DEF Line, IsPolicy
<1>3. ASSUME NEW t \in Models(sch) \ sh,
             line \in {Line(op, t) : op \in {"enable", "force", "index", "grant"}}
      PROVE  line.op \in {"enable", "force", "index", "grant"} /\ line = Line(line.op, t)
  BY <1>3 DEF Line
<1>4. ASSUME NEW t \in Models(sch) \ sh, line \in {GuardedPolicy(t, m, sch[t]) : m \in Generated}
      PROVE  line.op = "guarded" /\ \E m \in Generated : line = GuardedPolicy(t, m, sch[t])
  BY <1>4 DEF GuardedPolicy, PolicyLine
<1>5. CASE \E t \in Models(sch) \ sh :
             line \in {Line(op, t) : op \in {"enable", "force", "index", "grant"}}
  BY <1>3, <1>5 DEF IsPolicy
<1>6. CASE \E t \in Models(sch) \ sh : line \in {GuardedPolicy(t, m, sch[t]) : m \in Generated}
  BY <1>4, <1>6
<1>. QED  BY <1>1, <1>2, <1>5, <1>6 DEF BodyLine

\* The section of what init writes.
SectionLines(lines, sch, sh) ==
  LET k == Len(lines) IN
  /\ lines \in Seq(ScriptLines) /\ k \in Nat /\ k >= 3
  /\ lines[1] = Line("BEGIN", Public) /\ lines[2] = Line("role", Public)
  /\ lines[k] = Line("COMMIT", Public)
  /\ \A i \in 3 .. k - 1 : BodyLine(lines[i], sch, sh)
  /\ \A line : BodyLine(line, sch, sh) => \E i \in 3 .. k - 1 : lines[i] = line
  /\ \A i, j \in 3 .. k - 1 : IsPolicy(lines[i]) /\ lines[i] = lines[j] => i = j

LEMMA GeneratedSection ==
  ASSUME NEW g, NEW sch, NEW sh, GeneratedLines(g, sch, sh)
  PROVE  /\ g # << >> /\ Marked(g) /\ MarkersCanonical(g) /\ Lexes(g)
         /\ SectionLines(Section(g), sch, sh)
<1> DEFINE n == Len(g)
<1>1. /\ g \in Seq(ScriptLines) /\ n \in Nat /\ n >= 6 /\ DOMAIN g = 1 .. n
      /\ g[1] = Line("header", Public) /\ g[2] = Line("start", Public)
      /\ g[3] = Line("BEGIN", Public) /\ g[4] = Line("role", Public)
      /\ g[n - 1] = Line("COMMIT", Public) /\ g[n] = Line("end", Public)
      /\ \A i \in 5 .. n - 2 : BodyLine(g[i], sch, sh)
      /\ \A line : BodyLine(line, sch, sh) => \E i \in 5 .. n - 2 : g[i] = line
      /\ \A i, j \in 5 .. n - 2 : IsPolicy(g[i]) /\ g[i] = g[j] => i = j
  BY LenProperties DEF GeneratedLines
<1>2. n = Len(g)
  OBVIOUS
<1>. HIDE DEF n
<1>3. n \in Nat /\ n >= 6
  BY <1>1
<1>4. /\ g[1].op = "header" /\ g[2].op = "start" /\ g[3].op = "BEGIN" /\ g[4].op = "role"
      /\ g[n - 1].op = "COMMIT" /\ g[n].op = "end"
  BY <1>1 DEF Line
<1>5. \A i \in 5 .. n - 2 : g[i].op \in {"usage", "sequences", "shared", "grant", "enable",
                                        "force", "index", "guarded"}
  BY <1>1, BodyLineIs
<1>6. \A i \in 1 .. n : i = 1 \/ i = 2 \/ i = 3 \/ i = 4 \/ i = n - 1 \/ i = n \/ i \in 5 .. n - 2
  BY <1>3
<1>7. Of(g, "open") = {} /\ Of(g, "start") = {2} /\ Of(g, "end") = {n}
  <2>1. \A i \in 1 .. n : g[i].op # "open" /\ (g[i].op = "start" <=> i = 2)
                          /\ (g[i].op = "end" <=> i = n)
    BY <1>4, <1>5, <1>6, <1>3
  <2>2. DOMAIN g = 1 .. n /\ 2 \in 1 .. n /\ n \in 1 .. n
    BY <1>1
  <2>. QED  BY <2>1, <2>2 DEF Of
<1>8. Lexes(g) /\ Scan(g) = g
  BY <1>7 DEF Lexes, Scan
<1>9. Min({2}) = 2 /\ Min({n}) = n
  <2>1. {2} \in SUBSET Nat /\ {2} # {} /\ {n} \in SUBSET Nat /\ {n} # {}
    BY <1>3
  <2>2. Min({2}) \in {2} /\ Min({n}) \in {n}
    BY <2>1, MinIs
  <2>. QED  BY <2>2
<1>10. Ends(g) = {n}
  <2>1. Ends(g) = {j \in Of(g, "end") : Of(g, "start") # {} /\ j > Min(Of(g, "start"))}
    BY <1>8 DEF Ends
  <2>2. Ends(g) = {j \in {n} : j > 2}
    BY <2>1, <1>7, <1>9
  <2>. QED  BY <2>2, <1>3
<1>11. Marked(g)
  BY <1>10 DEF Marked
<1>12. MarkersCanonical(g)
  BY <1>7, <1>8, <1>11, FS_Singleton DEF MarkersCanonical
<1> DEFINE lines == SubSeq(g, 3, n - 1)
           k == n - 3
<1>13. Section(g) = lines
  <2>1. Section(g) = SubSeq(g, Min(Of(Scan(g), "start")) + 1, Min(Ends(g)) - 1)
    BY <1>11 DEF Section
  <2>2. Section(g) = SubSeq(g, 2 + 1, n - 1)
    BY <2>1, <1>7, <1>8, <1>9, <1>10
  <2>3. 2 + 1 = 3
    OBVIOUS
  <2>. QED  BY <2>2, <2>3
<1>14. /\ lines \in Seq(ScriptLines) /\ Len(lines) = k /\ k \in Nat /\ k >= 3
       /\ \A i \in 1 .. k : lines[i] = g[i + 2]
  <2>1. 3 \in Nat \ {0} /\ n - 1 \in Int /\ n - 1 <= Len(g) /\ (n - 1) - 3 + 1 = k
        /\ \A i \in 1 .. k : 3 + i - 1 = i + 2
    BY <1>3, <1>2
  <2>2. /\ lines \in Seq(ScriptLines) /\ DOMAIN lines = 1 .. k
        /\ \A i \in 1 .. k : lines[i] = g[3 + i - 1]
    BY <1>1, <2>1, Part
  <2>3. k \in Nat /\ k >= 3
    BY <1>3
  <2>. HIDE DEF lines, k
  <2>. QED  BY <2>1, <2>2, <2>3, LenProperties
<1>. HIDE DEF lines
<1>15. /\ lines[1] = Line("BEGIN", Public) /\ lines[2] = Line("role", Public)
       /\ lines[k] = Line("COMMIT", Public)
  <2>1. 1 \in 1 .. k /\ 2 \in 1 .. k /\ k \in 1 .. k /\ k + 2 = n - 1
    BY <1>3
  <2>2. lines[1] = g[3] /\ lines[2] = g[4] /\ lines[k] = g[n - 1]
    BY <1>14, <2>1
  <2>. QED  BY <1>1, <2>2
<1>16. \A i \in 3 .. k - 1 : i + 2 \in 5 .. n - 2 /\ i \in 1 .. k
  BY <1>3
<1>17. \A i \in 3 .. k - 1 : BodyLine(lines[i], sch, sh)
  BY <1>1, <1>14, <1>16
<1>18. ASSUME NEW line, BodyLine(line, sch, sh)
       PROVE  \E i \in 3 .. k - 1 : lines[i] = line
  <2>1. PICK i \in 5 .. n - 2 : g[i] = line
    BY <1>1, <1>18
  <2>2. i - 2 \in 3 .. k - 1 /\ i - 2 \in 1 .. k /\ (i - 2) + 2 = i
    BY <1>3
  <2>. QED  BY <1>14, <2>1, <2>2
<1>19. ASSUME NEW i \in 3 .. k - 1, NEW j \in 3 .. k - 1, IsPolicy(lines[i]), lines[i] = lines[j]
       PROVE  i = j
  <2>1. IsPolicy(g[i + 2]) /\ g[i + 2] = g[j + 2] /\ i + 2 \in 5 .. n - 2 /\ j + 2 \in 5 .. n - 2
    BY <1>14, <1>16, <1>19
  <2>2. i + 2 = j + 2
    BY <1>1, <2>1
  <2>. QED  BY <2>2
<1>20. g # << >>
  BY <1>1, <1>2
<1>21. SectionLines(lines, sch, sh)
  <2>. HIDE DEF k
  <2>. QED  BY <1>14, <1>15, <1>17, <1>18, <1>19 DEF SectionLines
<1>. QED  BY <1>8, <1>11, <1>12, <1>13, <1>20, <1>21

\* What is in that section.
LEMMA SectionHas ==
  ASSUME NEW lines, NEW sch, NEW sh, SectionLines(lines, sch, sh)
  PROVE  /\ Of(lines, "BEGIN") = {1} /\ Of(lines, "COMMIT") = {Len(lines)}
         /\ \A op \in {"open", "do", "disable", "otherKey", "create", "escalate"} :
              Of(lines, op) = {}
         /\ \A x : Has(lines, "shared", x) <=> x \in Models(sch) \cap sh
         /\ \A x : Has(lines, "grant", x) <=> x \in Models(sch)
         /\ \A op \in {"enable", "force", "index"} : \A x :
              Has(lines, op, x) <=> x \in Models(sch) \ sh
         /\ \A op \in {"usage", "sequences"} : \A x :
              Has(lines, op, x) <=> x \in ModelSchemas(sch)
<1> DEFINE k == Len(lines)
           body == 3 .. k - 1
<1>1. /\ DOMAIN lines = 1 .. k /\ k \in Nat /\ k >= 3
      /\ lines[1].op = "BEGIN" /\ lines[2].op = "role" /\ lines[k].op = "COMMIT"
      /\ \A i \in body : BodyLine(lines[i], sch, sh)
      /\ \A line : BodyLine(line, sch, sh) => \E i \in body : lines[i] = line
  BY LenProperties DEF SectionLines, Line
<1>. HIDE DEF k
<1>2. /\ \A i \in 1 .. k : i = 1 \/ i = 2 \/ i = k \/ i \in body
      /\ body \subseteq 1 .. k /\ 1 \in 1 .. k /\ k \in 1 .. k /\ k # 1
  BY <1>1
<1>. HIDE DEF body
<1>3. \A i \in body : lines[i].op \in {"usage", "sequences", "shared", "grant", "enable",
                                       "force", "index", "guarded"}
  BY <1>1, BodyLineIs
<1>4. /\ Of(lines, "BEGIN") = {1} /\ Of(lines, "COMMIT") = {k}
      /\ \A op \in {"open", "do", "disable", "otherKey", "create", "escalate"} : Of(lines, op) = {}
  <2>1. \A i \in 1 .. k :
          /\ lines[i].op = "BEGIN" <=> i = 1
          /\ lines[i].op = "COMMIT" <=> i = k
          /\ lines[i].op \notin {"open", "do", "disable", "otherKey", "create", "escalate"}
    BY <1>1, <1>2, <1>3
  <2>. QED  BY <1>1, <1>2, <2>1 DEF Of
<1>5. ASSUME NEW op \in {"usage", "sequences", "shared", "grant", "enable", "force", "index"}, NEW x
      PROVE  Has(lines, op, x) <=> BodyLine(Line(op, x), sch, sh)
  <2>1. Line(op, x).op = op
    BY DEF Line
  <2>2. Has(lines, op, x) <=> \E i \in 1 .. k : lines[i] = Line(op, x)
    BY <1>1 DEF Has, ToSet
  <2>3. ASSUME NEW i \in 1 .. k, lines[i] = Line(op, x)
        PROVE  i \in body
    BY <1>1, <1>2, <2>1, <2>3
  <2>. QED  BY <1>1, <1>2, <2>2, <2>3
<1>6. \A op, x, y : Line(op, x) = Line(op, y) => x = y
  BY DEF Line
<1>7. \A op, x : Line(op, x).op = op
  BY DEF Line
<1>8. \A x : BodyLine(Line("shared", x), sch, sh) <=> x \in Models(sch) \cap sh
  <2>1. ASSUME NEW x, BodyLine(Line("shared", x), sch, sh)
        PROVE  x \in Models(sch) \cap sh
    BY <1>6, <1>7, <2>1, BodyLineIs
  <2>. QED  BY <2>1 DEF BodyLine
<1>9. \A x : BodyLine(Line("grant", x), sch, sh) <=> x \in Models(sch)
  <2>1. ASSUME NEW x, BodyLine(Line("grant", x), sch, sh)
        PROVE  x \in Models(sch)
    BY <1>6, <1>7, <2>1, BodyLineIs
  <2>2. ASSUME NEW x \in Models(sch)
        PROVE  BodyLine(Line("grant", x), sch, sh)
    BY DEF BodyLine
  <2>. QED  BY <2>1, <2>2
<1>10. \A op \in {"enable", "force", "index"} : \A x :
         BodyLine(Line(op, x), sch, sh) <=> x \in Models(sch) \ sh
  <2>1. ASSUME NEW op \in {"enable", "force", "index"}, NEW x, BodyLine(Line(op, x), sch, sh)
        PROVE  x \in Models(sch) \ sh
    <3>1. Line(op, x).op = op
      BY <1>7
    <3>2. \E t \in Models(sch) \ sh : Line(op, x) = Line(op, t)
      BY <2>1, <3>1, BodyLineIs
    <3>. QED  BY <1>6, <3>2
  <2>. QED  BY <2>1 DEF BodyLine
<1>11. \A op \in {"usage", "sequences"} : \A x :
         BodyLine(Line(op, x), sch, sh) <=> x \in ModelSchemas(sch)
  <2>1. ASSUME NEW op \in {"usage", "sequences"}, NEW x, BodyLine(Line(op, x), sch, sh)
        PROVE  x \in ModelSchemas(sch)
    <3>1. Line(op, x).op = op
      BY <1>7
    <3>2. \E s \in ModelSchemas(sch) : Line(op, x) = Line(op, s)
      BY <2>1, <3>1, BodyLineIs
    <3>. QED  BY <1>6, <3>2
  <2>. QED  BY <2>1 DEF BodyLine
<1>. QED  BY <1>4, <1>5, <1>8, <1>9, <1>10, <1>11 DEF k

LEMMA GuardedPolicyIs ==
  ASSUME NEW t, NEW m, NEW kind
  PROVE  /\ GuardedPolicy(t, m, kind).op = "guarded" /\ IsPolicy(GuardedPolicy(t, m, kind))
         /\ GuardedPolicy(t, m, kind).on = t /\ GuardedPolicy(t, m, kind).name = m
         /\ GuardedPolicy(t, m, kind).policy = GeneratedPolicy(m)
         /\ TypeFits(GuardedPolicy(t, m, kind).type, kind)
BY DEF GuardedPolicy, PolicyLine, IsPolicy, TypeFits

\* Each policy of each model that is not shared is there once, and no other.
PoliciesOnce(lines, sch, sh) ==
  /\ \A t \in Models(sch) \ sh, m \in Generated :
       \E i : Matching(lines, TRUE, sch, t, m) = {i}
  /\ \A i \in DOMAIN lines : IsPolicy(lines[i]) =>
       \E t \in Models(sch) \ sh, m \in Generated :
         lines[i].on = t /\ i \in Matching(lines, TRUE, sch, t, m)

LEMMA SectionPolicies ==
  ASSUME NEW lines, NEW sch, NEW sh, SectionLines(lines, sch, sh)
  PROVE  PoliciesOnce(lines, sch, sh)
<1> DEFINE k == Len(lines)
           body == 3 .. k - 1
<1>1. /\ DOMAIN lines = 1 .. k /\ k \in Nat /\ k >= 3
      /\ lines[1].op = "BEGIN" /\ lines[2].op = "role" /\ lines[k].op = "COMMIT"
      /\ \A i \in body : BodyLine(lines[i], sch, sh)
      /\ \A line : BodyLine(line, sch, sh) => \E i \in body : lines[i] = line
      /\ \A i, j \in body : IsPolicy(lines[i]) /\ lines[i] = lines[j] => i = j
  BY LenProperties DEF SectionLines, Line
<1>. HIDE DEF k
<1>2. /\ \A i \in 1 .. k : i = 1 \/ i = 2 \/ i = k \/ i \in body
      /\ body \subseteq 1 .. k
  BY <1>1
<1>. HIDE DEF body
<1>3. ASSUME NEW i \in DOMAIN lines, IsPolicy(lines[i])
      PROVE  i \in body
  BY <1>1, <1>2, <1>3 DEF IsPolicy
<1>4. ASSUME NEW i \in DOMAIN lines, IsPolicy(lines[i])
      PROVE  \E t \in Models(sch) \ sh, m \in Generated : lines[i] = GuardedPolicy(t, m, sch[t])
  <2>1. BodyLine(lines[i], sch, sh)
    BY <1>1, <1>3, <1>4
  <2>. QED  BY <1>4, <2>1, BodyLineIs
<1> DEFINE M(t, m) == Matching(lines, TRUE, sch, t, m)
<1>5. \A t, m : M(t, m) = {i \in DOMAIN lines :
                             /\ IsPolicy(lines[i]) /\ lines[i].on = t
                             /\ lines[i].policy = GeneratedPolicy(m)
                             /\ TypeFits(lines[i].type, sch[t]) /\ lines[i].name = m}
  BY DEF Matching
<1>. HIDE DEF M
<1>6. ASSUME NEW t, NEW m, NEW i \in DOMAIN lines, lines[i] = GuardedPolicy(t, m, sch[t])
      PROVE  i \in M(t, m)
  BY <1>5, <1>6, GuardedPolicyIs
<1>7. ASSUME NEW t, NEW m, NEW i \in M(t, m)
      PROVE  i \in body /\ IsPolicy(lines[i]) /\ lines[i] = GuardedPolicy(t, m, sch[t])
  <2>1. /\ i \in DOMAIN lines /\ IsPolicy(lines[i]) /\ lines[i].on = t /\ lines[i].name = m
    BY <1>5
  <2>2. PICK t2 \in Models(sch) \ sh, m2 \in Generated : lines[i] = GuardedPolicy(t2, m2, sch[t2])
    BY <1>4, <2>1
  <2>3. t2 = t /\ m2 = m
    BY <2>1, <2>2, GuardedPolicyIs
  <2>. QED  BY <1>3, <2>1, <2>2, <2>3
<1>8. ASSUME NEW t \in Models(sch) \ sh, NEW m \in Generated
      PROVE  \E i : M(t, m) = {i}
  <2>1. BodyLine(GuardedPolicy(t, m, sch[t]), sch, sh)
    BY DEF BodyLine
  <2>2. PICK i \in body : lines[i] = GuardedPolicy(t, m, sch[t])
    BY <1>1, <2>1
  <2>3. i \in M(t, m)
    BY <1>1, <1>2, <1>6, <2>2
  <2>4. \A j \in M(t, m) : j = i
    BY <1>1, <1>7, <2>2, <2>3
  <2>. QED  BY <2>3, <2>4
<1>9. ASSUME NEW i \in DOMAIN lines, IsPolicy(lines[i])
      PROVE  \E t \in Models(sch) \ sh, m \in Generated :
               lines[i].on = t /\ i \in M(t, m)
  <2>1. PICK t \in Models(sch) \ sh, m \in Generated : lines[i] = GuardedPolicy(t, m, sch[t])
    BY <1>4, <1>9
  <2>. QED  BY <1>6, <2>1, GuardedPolicyIs
<1>. QED  BY <1>8, <1>9 DEF M, PoliciesOnce

LEMMA GenerateInSync ==
  ASSUME NEW sch \in [Tables -> Kinds], NEW sh \in SUBSET Tables, Generates(sch, sh)
  PROVE  InSync(Generate(sch, sh), sch)
<1> DEFINE f == Generate(sch, sh)
           lines == Section(f)
<1>1. GeneratedLines(f, sch, sh)
  BY GenerateLines
<1>. HIDE DEF f
<1>2. f # << >> /\ Marked(f) /\ MarkersCanonical(f) /\ SectionLines(lines, sch, sh)
  BY <1>1, GeneratedSection
<1>15. PoliciesOnce(lines, sch, sh)
  BY <1>2, SectionPolicies
<1>. HIDE DEF lines
<1>3. /\ Of(lines, "BEGIN") = {1} /\ Of(lines, "COMMIT") = {Len(lines)}
      /\ \A op \in {"open", "do", "disable", "otherKey", "create", "escalate"} :
           Of(lines, op) = {}
  BY <1>2, SectionHas
<1>4. /\ \A x : Has(lines, "shared", x) <=> x \in Models(sch) \cap sh
      /\ \A x : Has(lines, "grant", x) <=> x \in Models(sch)
      /\ \A x : Has(lines, "enable", x) <=> x \in Models(sch) \ sh
      /\ \A op \in {"enable", "force", "index"} : \A x : Has(lines, op, x) <=> x \in Models(sch) \ sh
      /\ \A op \in {"usage", "sequences"} : \A x : Has(lines, op, x) <=> x \in ModelSchemas(sch)
  BY <1>2, SectionHas
<1>5. Models(sch) \subseteq Tables
  BY DEF Models
<1>6. /\ Expected(lines, sch) = Models(sch) \ sh
      /\ SqlTables(lines) = Models(sch) \ sh
  BY <1>4, <1>5 DEF Expected, SharedModels, SqlTables
<1>7. DOMAIN lines = 1 .. Len(lines) /\ Len(lines) \in Nat
  BY <1>2, LenProperties DEF SectionLines
<1>8. EnvelopeCanonical(lines)
  <2>1. SqlLines(lines) \subseteq 1 .. Len(lines)
    BY <1>7 DEF SqlLines
  <2>. QED  BY <1>3, <2>1 DEF EnvelopeCanonical
<1>9. OnlySupported(lines)
  BY <1>3 DEF OnlySupported
<1>10. TargetsExpected(lines, sch)
  <2>1. ASSUME NEW i \in DOMAIN lines,
               NEW op \in {"grant", "enable", "force", "index", "usage", "sequences"},
               lines[i].op = op
        PROVE  Has(lines, op, lines[i].on)
    <3>1. lines[i] \in ScriptLines
      BY <1>2, ElementOfSeq, <1>7 DEF SectionLines
    <3>2. lines[i] = Line(op, lines[i].on)
      BY <2>1, <3>1, LineType
    <3>. QED  BY <3>2 DEF Has, ToSet
  <2>2. ASSUME NEW i \in DOMAIN lines
        PROVE  /\ lines[i].op = "grant" => lines[i].on \in Models(sch)
               /\ lines[i].op \in {"enable", "force", "index"} => lines[i].on \in Expected(lines, sch)
               /\ lines[i].op \in {"usage", "sequences"} => lines[i].on \in ModelSchemas(sch)
    BY <1>4, <1>6, <2>1
  <2>. QED  BY <1>4, <2>2 DEF TargetsExpected
<1>11. ASSUME NEW t \in Models(sch) \ sh
       PROVE  Complete(lines, TRUE, sch, t)
  <2>1. sch[t] # "unscoped"
    BY DEF Generates
  <2>2. \A m \in Generated : Cardinality(Matching(lines, TRUE, sch, t, m)) = 1
    <3>1. \A m \in Generated : \E i : Matching(lines, TRUE, sch, t, m) = {i}
      BY <1>15 DEF PoliciesOnce
    <3>. QED  BY <3>1, FS_Singleton
  <2>3. Has(lines, "force", t) /\ Has(lines, "index", t) /\ Has(lines, "grant", t)
    BY <1>4
  <2>. QED  BY <2>1, <2>2, <2>3 DEF Complete
<1>12. OnlyKnownPolicies(lines, TRUE, sch)
  <2>1. ASSUME NEW i \in DOMAIN lines, IsPolicy(lines[i])
        PROVE  /\ lines[i].on \in SqlTables(lines) \cap Expected(lines, sch)
               /\ \E n \in Generated : i \in Matching(lines, TRUE, sch, lines[i].on, n)
    <3>1. \E t \in Models(sch) \ sh, m \in Generated :
            lines[i].on = t /\ i \in Matching(lines, TRUE, sch, t, m)
      BY <1>15, <2>1 DEF PoliciesOnce
    <3>. QED  BY <1>6, <3>1
  <2>. QED  BY <2>1 DEF OnlyKnownPolicies
<1>13. Lexes(lines)
  BY <1>3 DEF Lexes
<1>14. InSync(f, sch)
  <2>1. Marked(f) = TRUE
    BY <1>2 DEF Marked
  <2>. QED  BY <1>2, <1>3, <1>6, <1>8, <1>9, <1>10, <1>11, <1>12, <1>13, <2>1 DEF InSync, lines
<1>. QED  BY <1>14 DEF f

\* What `tenancy init` writes passes `tenancy check`, for any Prisma schema that it
\* accepts, any tables and schemas and any answer about shared models.
THEOREM GeneratedIsInSync == Spec => []GeneratedInSync
<1>1. ScriptInv => GeneratedInSync
  BY GenerateInSync DEF ScriptInv, GeneratedInSync
<1>. QED  BY <1>1, ScriptInvariant, PTL

-------------------------------------------------------------------------------
(***************************************************************************)
(* What the generated script does.                                         *)
(***************************************************************************)
\* A line is among the first i.
Done(lines, i, line) == \E j \in 1 .. i : lines[j] = line

LEMMA DoneNext ==
  ASSUME NEW lines, NEW i \in Nat, NEW line
  PROVE  /\ ~ Done(lines, 0, line)
         /\ Done(lines, i + 1, line) <=> Done(lines, i, line) \/ lines[i + 1] = line
<1>1. \A j : j \in 1 .. i + 1 <=> j \in 1 .. i \/ j = i + 1
  BY SMTT(30)
<1>. QED  BY <1>1 DEF Done

\* The catalog of a table after the first i lines of a generated section.
ProgressOn(e, c, lines, i, t, sch) ==
  /\ e.role = IF 2 <= i /\ c.role = "none" THEN "login" ELSE c.role
  /\ e.usage = (c.usage \/ Done(lines, i, Line("usage", SchemaOf[t])))
  /\ e.rls = (c.rls \/ Done(lines, i, Line("enable", t)))
  /\ e.forced = (c.forced \/ Done(lines, i, Line("force", t)))
  /\ e.index = (c.index \/ Done(lines, i, Line("index", t)))
  /\ e.dml = (c.dml \/ Done(lines, i, Line("grant", t)))
  /\ \A n \in PolicyNames :
       e.policies[n] =
         IF n \in Generated /\ c.policies[n] = NoPolicy
            /\ Done(lines, i, GuardedPolicy(t, n, sch[t]))
         THEN GeneratedPolicy(n) ELSE c.policies[n]
  /\ e.ownerRights = c.ownerRights /\ e.reaches = c.reaches
  /\ e.column = c.column /\ e.notNull = c.notNull /\ e.stored = c.stored
  /\ e.truncate = c.truncate

Progress(e, d, lines, i, sch) ==
  \A t \in Tables : ProgressOn(e[t], d[t], lines, i, t, sch)

\* A line of the section by what it is for one table.
LEMMA SectionLine ==
  ASSUME NEW lines, NEW sch, NEW sh, SectionLines(lines, sch, sh), NEW i \in 1 .. Len(lines)
  PROVE  /\ lines[i] \in ScriptLines
         /\ lines[i].op \notin {"escalate", "disable", "do", "create"}
         /\ lines[i].op = "role" <=> i = 2
         /\ lines[i].op = "BEGIN" <=> i = 1
         /\ lines[i].op = "COMMIT" <=> i = Len(lines)
         /\ i # 1 /\ i # 2 /\ i # Len(lines) => BodyLine(lines[i], sch, sh)
         /\ IsPolicy(lines[i]) =>
              \E t \in Models(sch) \ sh, m \in Generated : lines[i] = GuardedPolicy(t, m, sch[t])
<1> DEFINE k == Len(lines)
           body == 3 .. k - 1
<1>1. /\ DOMAIN lines = 1 .. k /\ k \in Nat /\ k >= 3 /\ lines \in Seq(ScriptLines)
      /\ lines[1].op = "BEGIN" /\ lines[2].op = "role" /\ lines[k].op = "COMMIT"
      /\ \A j \in body : BodyLine(lines[j], sch, sh)
  BY LenProperties DEF SectionLines, Line
<1>2. lines[i] \in ScriptLines
  BY <1>1, ElementOfSeq
<1>3. k = Len(lines)
  OBVIOUS
<1>. HIDE DEF k
<1>4. (i = 1 \/ i = 2 \/ i = k \/ i \in body) /\ k # 1 /\ k # 2 /\ 1 \notin body
      /\ 2 \notin body /\ k \notin body
  <2>1. i \in 1 .. k
    BY <1>3
  <2>2. k \in Nat /\ k >= 3
    BY <1>1
  <2>. QED  BY <2>1, <2>2
<1>. HIDE DEF body
<1>5. i \in body => BodyLine(lines[i], sch, sh) /\
        lines[i].op \in {"usage", "sequences", "shared", "grant", "enable", "force", "index",
                         "guarded"}
  BY <1>1, BodyLineIs
<1>6. IsPolicy(lines[i]) => i \in body
  BY <1>1, <1>4 DEF IsPolicy
<1>7. IsPolicy(lines[i]) =>
        \E t \in Models(sch) \ sh, m \in Generated : lines[i] = GuardedPolicy(t, m, sch[t])
  BY <1>5, <1>6, BodyLineIs
<1>. QED  BY <1>1, <1>2, <1>3, <1>4, <1>5, <1>7

LEMMA ProgressNext ==
  ASSUME NEW lines, NEW sch, NEW sh, SectionLines(lines, sch, sh), NEW i \in 0 .. Len(lines) - 1,
         NEW d, NEW e \in Databases, Progress(e, d, lines, i, sch)
  PROVE  Progress(Effect(lines[i + 1], e), d, lines, i + 1, sch)
<1> DEFINE line == lines[i + 1]
           f == Effect(line, e)
<1>0. i \in Nat /\ i + 1 \in 1 .. Len(lines)
  BY DEF SectionLines
<1>1. /\ line \in ScriptLines
      /\ line.op \notin {"escalate", "disable", "do"}
      /\ line.op = "role" <=> i + 1 = 2
      /\ IsPolicy(line) =>
           \E t \in Models(sch) \ sh, m \in Generated : line = GuardedPolicy(t, m, sch[t])
  BY <1>0, SectionLine
<1>2. \A l : Done(lines, i + 1, l) <=> Done(lines, i, l) \/ line = l
  BY <1>0, DoneNext
<1>. SUFFICES ASSUME NEW t \in Tables
              PROVE  ProgressOn(f[t], d[t], lines, i + 1, t, sch)
  BY DEF Progress
<1>3. Becomes(f[t], e[t], line, t)
  <2>. HIDE DEF line
  <2>. QED  BY <1>1, EffectOnTable
<1>4. ProgressOn(e[t], d[t], lines, i, t, sch)
  BY DEF Progress
<1>5. \A op, x : Line(op, x).op = op /\ Line(op, x).on = x
  BY DEF Line
<1>6. /\ \A op \in {"enable", "force", "index", "grant"} :
           line.on = t /\ line.op = op <=> line = Line(op, t)
      /\ line.op = "usage" /\ SchemaOf[t] = line.on <=> line = Line("usage", SchemaOf[t])
  BY <1>1, <1>5, LineType
<1>7. ASSUME NEW n \in PolicyNames
      PROVE  /\ IsPolicy(line) /\ line.on = t /\ line.name = n <=>
                  n \in Generated /\ line = GuardedPolicy(t, n, sch[t])
             /\ IsPolicy(line) /\ line.on = t /\ line.name = n => line.policy = GeneratedPolicy(n)
  BY <1>1, GuardedPolicyIs
<1>. HIDE DEF line, f
<1>8. \A n \in PolicyNames :
        f[t].policies[n] =
          IF n \in Generated /\ d[t].policies[n] = NoPolicy
             /\ Done(lines, i + 1, GuardedPolicy(t, n, sch[t]))
          THEN GeneratedPolicy(n) ELSE d[t].policies[n]
  <2>. SUFFICES ASSUME NEW n \in PolicyNames
                PROVE  f[t].policies[n] =
                         IF n \in Generated /\ d[t].policies[n] = NoPolicy
                            /\ Done(lines, i + 1, GuardedPolicy(t, n, sch[t]))
                         THEN GeneratedPolicy(n) ELSE d[t].policies[n]
    OBVIOUS
  <2>1. f[t].policies[n] =
          IF IsPolicy(line) /\ line.on = t /\ line.name = n /\ e[t].policies[n] = NoPolicy
          THEN line.policy ELSE e[t].policies[n]
    BY <1>3 DEF Becomes
  <2>2. e[t].policies[n] =
          IF n \in Generated /\ d[t].policies[n] = NoPolicy
             /\ Done(lines, i, GuardedPolicy(t, n, sch[t]))
          THEN GeneratedPolicy(n) ELSE d[t].policies[n]
    BY <1>4 DEF ProgressOn
  <2>3. n \in Generated => GeneratedPolicy(n) # NoPolicy
    <3>1. \A m \in Generated : GeneratedPolicy(m) \in Policy
      BY DEF Generated, GeneratedPolicy, Policy, IsolationPolicy, InsertPolicy, GuardPolicy,
             Expressions, NoExpr
    <3>. QED  BY <3>1, NoPolicyIsNone
  <2>. QED  BY <1>2, <1>7, <2>1, <2>2, <2>3
<1>9. f[t].role = IF 2 <= i + 1 /\ d[t].role = "none" THEN "login" ELSE d[t].role
  <2>1. f[t].role = IF line.op = "role" /\ e[t].role = "none" THEN "login" ELSE e[t].role
    BY <1>1, <1>3 DEF Becomes
  <2>2. e[t].role = IF 2 <= i /\ d[t].role = "none" THEN "login" ELSE d[t].role
    BY <1>4 DEF ProgressOn
  <2>3. 2 <= i + 1 <=> 2 <= i \/ i + 1 = 2
    BY <1>0
  <2>. QED  BY <1>1, <2>1, <2>2, <2>3
<1>10. /\ f[t].usage = (d[t].usage \/ Done(lines, i + 1, Line("usage", SchemaOf[t])))
       /\ f[t].rls = (d[t].rls \/ Done(lines, i + 1, Line("enable", t)))
       /\ f[t].forced = (d[t].forced \/ Done(lines, i + 1, Line("force", t)))
       /\ f[t].index = (d[t].index \/ Done(lines, i + 1, Line("index", t)))
       /\ f[t].dml = (d[t].dml \/ Done(lines, i + 1, Line("grant", t)))
  <2>0. /\ e[t].rls \in BOOLEAN /\ e[t].forced \in BOOLEAN /\ e[t].index \in BOOLEAN
        /\ e[t].dml \in BOOLEAN /\ e[t].usage \in BOOLEAN
    BY DEF Databases, Catalog
  <2>1. /\ f[t].usage = (e[t].usage \/ line = Line("usage", SchemaOf[t]))
        /\ f[t].rls = (e[t].rls \/ line = Line("enable", t))
        /\ f[t].forced = (e[t].forced \/ line = Line("force", t))
        /\ f[t].index = (e[t].index \/ line = Line("index", t))
        /\ f[t].dml = (e[t].dml \/ line = Line("grant", t))
    BY <1>1, <1>3, <1>6, <2>0 DEF Becomes
  <2>2. /\ e[t].usage = (d[t].usage \/ Done(lines, i, Line("usage", SchemaOf[t])))
        /\ e[t].rls = (d[t].rls \/ Done(lines, i, Line("enable", t)))
        /\ e[t].forced = (d[t].forced \/ Done(lines, i, Line("force", t)))
        /\ e[t].index = (d[t].index \/ Done(lines, i, Line("index", t)))
        /\ e[t].dml = (d[t].dml \/ Done(lines, i, Line("grant", t)))
    BY <1>4 DEF ProgressOn
  <2>. QED  BY <1>2, <2>1, <2>2, Zenon
<1>11. /\ f[t].ownerRights = d[t].ownerRights /\ f[t].reaches = d[t].reaches
       /\ f[t].column = d[t].column /\ f[t].notNull = d[t].notNull /\ f[t].stored = d[t].stored
       /\ f[t].truncate = d[t].truncate
  BY <1>3, <1>4 DEF Becomes, ProgressOn
<1>. QED  BY <1>8, <1>9, <1>10, <1>11 DEF ProgressOn

\* Nothing keeps a statement from running.
Runs(line, e, sch) ==
  /\ line.op # "create"
  /\ line.op \in {"enable", "force", "disable", "do", "index", "grant", "guarded"} =>
       sch[line.on] # "absent"
  /\ line.op \in {"usage", "sequences", "grant", "escalate"} => \A u \in Tables : e[u].role # "none"
  /\ line.op = "index" => e[line.on].column # "none"
  /\ IsPolicy(line) => line.type \in {"any", e[line.on].column}

LEMMA RunsOn ==
  ASSUME NEW line, NEW e, NEW sch, Runs(line, e, sch)
  PROVE  ~ Fails(line, e, sch)
<1>1. line.op \in {"usage", "sequences", "grant", "escalate"} => ~ \E u \in Tables : e[u].role = "none"
  BY DEF Runs
<1>2. line.op \in {"enable", "force", "disable", "do", "index", "grant", "guarded", "create"} =>
        sch[line.on] # "absent"
  BY DEF Runs
<1>3. /\ line.op # "create"
      /\ line.op = "index" => e[line.on].column # "none"
      /\ IsPolicy(line) => line.type \in {"any", e[line.on].column}
  BY DEF Runs
<1>. QED  BY <1>1, <1>2, <1>3 DEF Fails

\* No statement of the section fails on a database whose columns are the models'.
LEMMA SectionRuns ==
  ASSUME NEW sch \in [Tables -> Kinds], NEW sh \in SUBSET Tables, Generates(sch, sh),
         NEW lines, SectionLines(lines, sch, sh), NEW i \in 0 .. Len(lines) - 1,
         NEW d \in Databases, NEW e \in Databases, Progress(e, d, lines, i, sch),
         \A t \in Tables : d[t].column = ColumnOf(sch[t]),
         lines[i + 1].op \notin {"BEGIN", "COMMIT"}
  PROVE  ~ Fails(lines[i + 1], e, sch)
<1> DEFINE line == lines[i + 1]
<1>. SUFFICES ~ Fails(line, e, sch)
  OBVIOUS
<1>1. i \in Nat /\ i + 1 \in 1 .. Len(lines)
  BY DEF SectionLines
<1>2. /\ line.op = "role" <=> i + 1 = 2
      /\ line.op = "BEGIN" <=> i + 1 = 1
      /\ line.op = "COMMIT" <=> i + 1 = Len(lines)
      /\ i + 1 # 1 /\ i + 1 # 2 /\ i + 1 # Len(lines) => BodyLine(line, sch, sh)
  BY <1>1, SectionLine
<1>3. CASE line.op = "role"
  BY <1>3 DEF Fails, IsPolicy
<1>4. CASE line.op # "role"
  <2>1. BodyLine(line, sch, sh) /\ 2 <= i
    BY <1>1, <1>2, <1>4
  <2>. HIDE DEF line
  <2>2. \A u \in Tables : e[u].role # "none"
    BY <2>1 DEF Progress, ProgressOn
  <2>3. \A u \in Tables : e[u].column = ColumnOf(sch[u])
    BY DEF Progress, ProgressOn
  <2>4. \A t \in Models(sch) : t \in Tables /\ sch[t] # "absent"
    BY DEF Models
  <2>5. \A t \in Models(sch) \ sh : sch[t] \in {"text", "uuid"} /\ e[t].column = sch[t]
    BY <2>3, <2>4 DEF Generates, ColumnOf
  <2>6. CASE IsPolicy(line)
    <3>1. PICK t \in Models(sch) \ sh, m \in Generated : line = GuardedPolicy(t, m, sch[t])
      BY <2>1, <2>6, BodyLineIs
    <3>2. line.op = "guarded" /\ line.on = t /\ line.type \in {"any", sch[t]}
      BY <3>1 DEF GuardedPolicy, PolicyLine
    <3>3. sch[line.on] # "absent" /\ line.type \in {"any", e[line.on].column}
      BY <2>4, <2>5, <3>2
    <3>9. Runs(line, e, sch)
      BY <3>2, <3>3 DEF Runs
    <3>. QED  BY <3>9, RunsOn
  <2>7. CASE line.op \in {"enable", "force", "index"}
    <3>1. PICK t \in Models(sch) \ sh : line = Line(line.op, t)
      BY <2>1, <2>7, BodyLineIs
    <3>2. line.on = t
      BY <3>1 DEF Line
    <3>3. sch[line.on] # "absent" /\ e[line.on].column # "none" /\ ~ IsPolicy(line)
      BY <2>4, <2>5, <2>7, <3>2 DEF IsPolicy
    <3>9. Runs(line, e, sch)
      BY <2>7, <3>3 DEF Runs
    <3>. QED  BY <3>9, RunsOn
  <2>8. CASE line.op = "grant"
    <3>1. PICK t \in Models(sch) : line = Line(line.op, t)
      BY <2>1, <2>8, BodyLineIs
    <3>2. line.on = t
      BY <3>1 DEF Line
    <3>3. sch[line.on] # "absent" /\ ~ IsPolicy(line)
      BY <2>4, <2>8, <3>2 DEF IsPolicy
    <3>9. Runs(line, e, sch)
      BY <2>2, <2>8, <3>3 DEF Runs
    <3>. QED  BY <3>9, RunsOn
  <2>9. CASE line.op \in {"usage", "sequences", "shared"}
    <3>1. ~ IsPolicy(line)
      BY <2>9 DEF IsPolicy
    <3>9. Runs(line, e, sch)
      BY <2>2, <2>9, <3>1 DEF Runs
    <3>. QED  BY <3>9, RunsOn
  <2>. QED  BY <2>1, <2>6, <2>7, <2>8, <2>9, BodyLineIs DEF IsPolicy
<1>. QED  BY <1>3, <1>4

\* A session that runs the section of a generated script.
SettingUp(r, d, lines, i, sch) ==
  /\ ~ r.failed
  /\ r.open <=> 1 <= i /\ i < Len(lines)
  /\ Progress(r.db, d, lines, i, sch)

LEMMA SettingUpNext ==
  ASSUME NEW sch \in [Tables -> Kinds], NEW sh \in SUBSET Tables, Generates(sch, sh),
         NEW lines, SectionLines(lines, sch, sh), NEW i \in 0 .. Len(lines) - 1,
         NEW d \in Databases, \A t \in Tables : d[t].column = ColumnOf(sch[t]),
         NEW r \in Sessions, SettingUp(r, d, lines, i, sch)
  PROVE  SettingUp(Execute(r, lines[i + 1], sch), d, lines, i + 1, sch)
<1> DEFINE line == lines[i + 1]
           e == Execute(r, line, sch)
<1>1. i \in Nat /\ i + 1 \in 1 .. Len(lines) /\ Len(lines) \in Nat /\ Len(lines) >= 3
  BY DEF SectionLines
<1>2. /\ line \in ScriptLines
      /\ line.op = "BEGIN" <=> i + 1 = 1
      /\ line.op = "COMMIT" <=> i + 1 = Len(lines)
  BY <1>1, SectionLine
<1>3. r.db \in Databases /\ ~ r.failed /\ Progress(r.db, d, lines, i, sch)
  BY DEF Sessions, SettingUp
<1>4. Progress(Effect(line, r.db), d, lines, i + 1, sch)
  BY <1>3, ProgressNext
<1>5. line.op \notin {"BEGIN", "COMMIT"} => ~ Fails(line, r.db, sch)
  BY <1>3, SectionRuns
<1>. HIDE DEF line
<1>6. IsComment(line) \/ line.op \in {"BEGIN", "COMMIT"} => Effect(line, r.db) = r.db
  BY DEF Effect, IsPolicy, IsComment, Comments
<1>7. /\ e.db = Effect(line, r.db) /\ ~ e.failed
      /\ e.open = IF line.op = "BEGIN" THEN TRUE
                  ELSE IF line.op = "COMMIT" THEN FALSE ELSE r.open
  <2>1. CASE IsComment(line)
    <3>1. line.op \notin {"BEGIN", "COMMIT"}
      BY <2>1 DEF IsComment, Comments
    <3>. QED  BY <1>3, <1>6, <2>1, <3>1 DEF Execute
  <2>2. CASE ~ IsComment(line) /\ line.op = "BEGIN"
    BY <1>3, <1>6, <2>2 DEF Execute, Sessions
  <2>3. CASE ~ IsComment(line) /\ line.op = "COMMIT"
    BY <1>3, <1>6, <2>3 DEF Execute, Sessions
  <2>4. CASE ~ IsComment(line) /\ line.op \notin {"BEGIN", "COMMIT"}
    BY <1>3, <1>5, <2>4 DEF Execute, Sessions
  <2>. QED  BY <2>1, <2>2, <2>3, <2>4 DEF IsComment, Comments
<1>8. e.open <=> 1 <= i + 1 /\ i + 1 < Len(lines)
  <2>1. r.open <=> 1 <= i /\ i < Len(lines)
    BY DEF SettingUp
  <2>. QED  BY <1>1, <1>2, <1>7, <2>1
<1>. HIDE DEF e
<1>9. SettingUp(e, d, lines, i + 1, sch)
  BY <1>4, <1>7, <1>8 DEF SettingUp
<1>. QED  BY <1>9 DEF e, line

\* Two catalogs with the same columns and policies are the same.
LEMMA SameCatalog ==
  ASSUME NEW a \in Catalog, NEW b \in Catalog,
         a.role = b.role, a.ownerRights = b.ownerRights, a.reaches = b.reaches,
         a.rls = b.rls, a.forced = b.forced, a.column = b.column,
         a.notNull = b.notNull, a.stored = b.stored, a.index = b.index,
         a.usage = b.usage, a.dml = b.dml, a.truncate = b.truncate,
         \A n \in PolicyNames : a.policies[n] = b.policies[n]
  PROVE  a = b
<1>1. a.policies = b.policies
  <2>1. a.policies \in [PolicyNames -> Policy \cup {NoPolicy}]
        /\ b.policies \in [PolicyNames -> Policy \cup {NoPolicy}]
    BY DEF Catalog
  <2>. QED  BY <2>1
<1>. QED  BY <1>1 DEF Catalog

\* What the whole script should make of a table.
SetUpAs(c, t, sch, sh) ==
  IF t \in Models(sch) \ sh THEN AfterSetup(c)
  ELSE [c EXCEPT !.role = IF @ = "none" THEN "login" ELSE @,
                 !.usage = @ \/ SchemaOf[t] \in ModelSchemas(sch),
                 !.dml = @ \/ t \in sh \cap Models(sch)]

LEMMA SetUpIs ==
  ASSUME NEW c \in Catalog, NEW t, NEW sch, NEW sh
  PROVE  /\ SetUpAs(c, t, sch, sh) \in Catalog
         /\ t \in Models(sch) \ sh =>
              /\ SetUpAs(c, t, sch, sh).rls /\ SetUpAs(c, t, sch, sh).forced
              /\ SetUpAs(c, t, sch, sh).index /\ SetUpAs(c, t, sch, sh).usage
              /\ SetUpAs(c, t, sch, sh).dml
              /\ \A n \in PolicyNames :
                   SetUpAs(c, t, sch, sh).policies[n] =
                     IF n \in Generated /\ c.policies[n] = NoPolicy
                     THEN GeneratedPolicy(n) ELSE c.policies[n]
         /\ t \notin Models(sch) \ sh =>
              /\ SetUpAs(c, t, sch, sh).rls = c.rls /\ SetUpAs(c, t, sch, sh).forced = c.forced
              /\ SetUpAs(c, t, sch, sh).index = c.index
              /\ SetUpAs(c, t, sch, sh).usage = (c.usage \/ SchemaOf[t] \in ModelSchemas(sch))
              /\ SetUpAs(c, t, sch, sh).dml = (c.dml \/ t \in sh \cap Models(sch))
              /\ SetUpAs(c, t, sch, sh).policies = c.policies
         /\ SetUpAs(c, t, sch, sh).role = IF c.role = "none" THEN "login" ELSE c.role
         /\ SetUpAs(c, t, sch, sh).ownerRights = c.ownerRights
         /\ SetUpAs(c, t, sch, sh).reaches = c.reaches
         /\ SetUpAs(c, t, sch, sh).column = c.column
         /\ SetUpAs(c, t, sch, sh).notNull = c.notNull
         /\ SetUpAs(c, t, sch, sh).stored = c.stored
         /\ SetUpAs(c, t, sch, sh).truncate = c.truncate
<1> DEFINE a == SetUpAs(c, t, sch, sh)
<1>1. CASE t \in Models(sch) \ sh
  <2>1. a = AfterSetup(c)
    BY <1>1 DEF SetUpAs
  <2>2. \A n \in Generated : GeneratedPolicy(n) \in Policy
    BY DEF Generated, GeneratedPolicy, Policy, IsolationPolicy, InsertPolicy, GuardPolicy,
           Expressions, NoExpr
  <2>3. CreatePoliciesIfMissing(c) \in [PolicyNames -> Policy \cup {NoPolicy}]
    BY <2>2 DEF CreatePoliciesIfMissing, Catalog
  <2>4. \A n \in PolicyNames :
          CreatePoliciesIfMissing(c)[n] =
            IF n \in Generated /\ c.policies[n] = NoPolicy
            THEN GeneratedPolicy(n) ELSE c.policies[n]
    BY DEF CreatePoliciesIfMissing
  <2>. HIDE DEF a
  <2>5. a \in Catalog /\ a.policies = CreatePoliciesIfMissing(c)
    BY <2>1, <2>3 DEF AfterSetup, Catalog
  <2>6. /\ a.role = IF c.role = "none" THEN "login" ELSE c.role
        /\ a.rls /\ a.forced /\ a.index /\ a.usage /\ a.dml
        /\ a.ownerRights = c.ownerRights /\ a.reaches = c.reaches /\ a.column = c.column
        /\ a.notNull = c.notNull /\ a.stored = c.stored /\ a.truncate = c.truncate
    BY <2>1 DEF AfterSetup, Catalog
  <2>. QED  BY <1>1, <2>4, <2>5, <2>6 DEF a
<1>2. CASE t \notin Models(sch) \ sh
  <2>1. a = [c EXCEPT !.role = IF @ = "none" THEN "login" ELSE @,
                      !.usage = @ \/ SchemaOf[t] \in ModelSchemas(sch),
                      !.dml = @ \/ t \in sh \cap Models(sch)]
    BY <1>2 DEF SetUpAs
  <2>. HIDE DEF a
  <2>2. a \in Catalog /\ a.policies = c.policies
    BY <2>1, ZenonT(40) DEF Catalog
  <2>3. /\ a.role = IF c.role = "none" THEN "login" ELSE c.role
        /\ a.usage = (c.usage \/ SchemaOf[t] \in ModelSchemas(sch))
        /\ a.dml = (c.dml \/ t \in sh \cap Models(sch))
        /\ a.rls = c.rls /\ a.forced = c.forced /\ a.index = c.index
        /\ a.ownerRights = c.ownerRights /\ a.reaches = c.reaches /\ a.column = c.column
        /\ a.notNull = c.notNull /\ a.stored = c.stored /\ a.truncate = c.truncate
    BY <2>1 DEF Catalog
  <2>. QED  BY <1>2, <2>2, <2>3 DEF a
<1>. QED  BY <1>1, <1>2

\* At the end of the section a table is as the whole script should make it.
LEMMA ProgressMade ==
  ASSUME NEW sch, NEW sh \in SUBSET Tables, NEW lines, SectionLines(lines, sch, sh),
         NEW t \in Tables, NEW e \in Catalog, NEW c \in Catalog,
         ProgressOn(e, c, lines, Len(lines), t, sch)
  PROVE  e = SetUpAs(c, t, sch, sh)
<1> DEFINE k == Len(lines)
           a == SetUpAs(c, t, sch, sh)
<1>1. DOMAIN lines = 1 .. k /\ k \in Nat /\ k >= 3
  BY LenProperties DEF SectionLines
<1>2. \A op, x : Done(lines, k, Line(op, x)) <=> Has(lines, op, x)
  BY <1>1 DEF Done, Has, ToSet
<1>3. /\ Done(lines, k, Line("grant", t)) <=> t \in Models(sch)
      /\ Done(lines, k, Line("enable", t)) <=> t \in Models(sch) \ sh
      /\ Done(lines, k, Line("force", t)) <=> t \in Models(sch) \ sh
      /\ Done(lines, k, Line("index", t)) <=> t \in Models(sch) \ sh
      /\ Done(lines, k, Line("usage", SchemaOf[t])) <=> SchemaOf[t] \in ModelSchemas(sch)
  BY <1>2, SectionHas
<1>4. ASSUME NEW m \in Generated
      PROVE  Done(lines, k, GuardedPolicy(t, m, sch[t])) <=> t \in Models(sch) \ sh
  <2>1. ASSUME Done(lines, k, GuardedPolicy(t, m, sch[t]))
        PROVE  t \in Models(sch) \ sh
    <3>1. PICK i \in 1 .. Len(lines) : lines[i] = GuardedPolicy(t, m, sch[t])
      BY <2>1 DEF Done
    <3>2. IsPolicy(lines[i]) /\ lines[i].on = t
      BY <3>1, GuardedPolicyIs
    <3>3. PICK u \in Models(sch) \ sh, n \in Generated : lines[i] = GuardedPolicy(u, n, sch[u])
      BY <3>2, SectionLine
    <3>. QED  BY <3>2, <3>3, GuardedPolicyIs
  <2>2. ASSUME t \in Models(sch) \ sh
        PROVE  Done(lines, k, GuardedPolicy(t, m, sch[t]))
    <3>1. BodyLine(GuardedPolicy(t, m, sch[t]), sch, sh)
      BY <2>2 DEF BodyLine
    <3>2. \E i \in 3 .. k - 1 : lines[i] = GuardedPolicy(t, m, sch[t])
      BY <3>1 DEF SectionLines
    <3>3. 3 .. k - 1 \subseteq 1 .. k
      BY <1>1
    <3>. QED  BY <3>2, <3>3 DEF Done
  <2>. QED  BY <2>1, <2>2
<1>5. t \in Models(sch) => SchemaOf[t] \in ModelSchemas(sch)
  BY DEF ModelSchemas
<1>6. /\ e.role = IF 2 <= k /\ c.role = "none" THEN "login" ELSE c.role
      /\ e.usage = (c.usage \/ Done(lines, k, Line("usage", SchemaOf[t])))
      /\ e.rls = (c.rls \/ Done(lines, k, Line("enable", t)))
      /\ e.forced = (c.forced \/ Done(lines, k, Line("force", t)))
      /\ e.index = (c.index \/ Done(lines, k, Line("index", t)))
      /\ e.dml = (c.dml \/ Done(lines, k, Line("grant", t)))
      /\ \A n \in PolicyNames :
           e.policies[n] =
             IF n \in Generated /\ c.policies[n] = NoPolicy
                /\ Done(lines, k, GuardedPolicy(t, n, sch[t]))
             THEN GeneratedPolicy(n) ELSE c.policies[n]
      /\ e.ownerRights = c.ownerRights /\ e.reaches = c.reaches
      /\ e.column = c.column /\ e.notNull = c.notNull /\ e.stored = c.stored
      /\ e.truncate = c.truncate
  BY DEF ProgressOn
<1>7. 2 <= k
  BY <1>1
<1>8. /\ c.rls \in BOOLEAN /\ c.forced \in BOOLEAN /\ c.index \in BOOLEAN
      /\ c.usage \in BOOLEAN /\ c.dml \in BOOLEAN
  BY DEF Catalog
<1>9. /\ a \in Catalog /\ e.role = a.role /\ e.ownerRights = a.ownerRights
      /\ e.reaches = a.reaches /\ e.column = a.column /\ e.notNull = a.notNull
      /\ e.stored = a.stored /\ e.truncate = a.truncate
  BY <1>6, <1>7, SetUpIs
<1>10. CASE t \in Models(sch) \ sh
  <2>1. /\ a.rls \in BOOLEAN /\ a.forced \in BOOLEAN /\ a.index \in BOOLEAN
        /\ a.usage \in BOOLEAN /\ a.dml \in BOOLEAN
    BY <1>9 DEF Catalog
  <2>2. /\ a.rls /\ a.forced /\ a.index /\ a.usage /\ a.dml
        /\ \A n \in PolicyNames :
             a.policies[n] = IF n \in Generated /\ c.policies[n] = NoPolicy
                             THEN GeneratedPolicy(n) ELSE c.policies[n]
    BY <1>10, SetUpIs
  <2>3. \A n \in PolicyNames : e.policies[n] = a.policies[n]
    BY <1>4, <1>6, <1>10, <2>2
  <2>. HIDE DEF a, k
  <2>4. e.rls = TRUE /\ e.forced = TRUE /\ e.index = TRUE /\ e.usage = TRUE /\ e.dml = TRUE
    BY <1>3, <1>5, <1>6, <1>10
  <2>5. a.rls = TRUE /\ a.forced = TRUE /\ a.index = TRUE /\ a.usage = TRUE /\ a.dml = TRUE
    BY <2>1, <2>2
  <2>6. e = a
    BY <1>9, <2>3, <2>4, <2>5, SameCatalog
  <2>. QED  BY <2>6 DEF a
<1>11. CASE t \notin Models(sch) \ sh
  <2>1. /\ a.rls = c.rls /\ a.forced = c.forced /\ a.index = c.index
        /\ a.usage = (c.usage \/ SchemaOf[t] \in ModelSchemas(sch))
        /\ a.dml = (c.dml \/ t \in sh \cap Models(sch))
        /\ a.policies = c.policies
    BY <1>11, SetUpIs
  <2>2. \A n \in PolicyNames : e.policies[n] = a.policies[n]
    BY <1>4, <1>6, <1>11, <2>1
  <2>3. t \in Models(sch) <=> t \in sh \cap Models(sch)
    BY <1>11
  <2>. HIDE DEF a, k
  <2>4. e.rls = c.rls /\ e.forced = c.forced /\ e.index = c.index
    BY <1>3, <1>6, <1>8, <1>11
  <2>5. /\ e.usage = (c.usage \/ SchemaOf[t] \in ModelSchemas(sch))
        /\ e.dml = (c.dml \/ t \in sh \cap Models(sch))
    BY <1>3, <1>6, <2>3, Zenon
  <2>6. e = a
    BY <1>9, <2>1, <2>2, <2>4, <2>5, SameCatalog
  <2>. QED  BY <2>6 DEF a
<1>. QED  BY <1>10, <1>11

\* The section of a generated script, run on a database whose columns are the
\* models', makes of each of its tables what TenancyCatalog says.
LEMMA SectionSetsUp ==
  ASSUME NEW sch \in [Tables -> Kinds], NEW sh \in SUBSET Tables, Generates(sch, sh),
         NEW lines, SectionLines(lines, sch, sh),
         NEW d \in Databases, \A t \in Tables : d[t].column = ColumnOf(sch[t])
  PROVE  RunScript(lines, d, sch).db = [t \in Tables |-> SetUpAs(d[t], t, sch, sh)]
<1> DEFINE k == Len(lines)
           after == Course(lines, d, sch)
           T == {i \in 0 .. k : SettingUp(after[i], d, lines, i, sch)}
<1>1. lines \in Seq(ScriptLines) /\ k \in Nat /\ k >= 3
  BY DEF SectionLines
<1>2. /\ after \in [0 .. k -> Sessions] /\ after[0] = Start(d)
      /\ \A i \in 1 .. k : after[i] = Execute(after[i - 1], lines[i], sch)
  BY <1>1, CourseSteps
<1>3. 0 \in T
  <2>1. \A t \in Tables : ProgressOn(d[t], d[t], lines, 0, t, sch)
    <3>. SUFFICES ASSUME NEW t \in Tables
                  PROVE  ProgressOn(d[t], d[t], lines, 0, t, sch)
      OBVIOUS
    <3>1. d[t] \in Catalog
      BY DEF Databases
    <3>2. \A l : ~ Done(lines, 0, l)
      BY DEF Done
    <3>3. ~ (2 <= 0)
      OBVIOUS
    <3>. QED  BY <3>1, <3>2, <3>3 DEF ProgressOn, Catalog
  <2>2. Progress(Start(d).db, d, lines, 0, sch) /\ ~ Start(d).failed /\ ~ Start(d).open
    BY <2>1 DEF Progress, Start
  <2>. QED  BY <1>1, <1>2, <2>2 DEF SettingUp
<1>4. ASSUME NEW i \in 0 .. k - 1, i \in T
      PROVE  i + 1 \in T
  <2>1. i \in 0 .. k /\ i + 1 \in 1 .. k /\ (i + 1) - 1 = i /\ i + 1 \in 0 .. k
    BY <1>1
  <2>2. after[i] \in Sessions /\ after[i + 1] = Execute(after[i], lines[i + 1], sch)
    BY <1>2, <2>1
  <2>3. SettingUp(after[i], d, lines, i, sch)
    BY <1>4
  <2>. HIDE DEF after
  <2>4. SettingUp(after[i + 1], d, lines, i + 1, sch)
    BY <2>2, <2>3, SettingUpNext
  <2>. QED  BY <2>1, <2>4
<1>5. 0 .. k \subseteq T
  <2>. HIDE DEF T, k
  <2>. QED  BY <1>1, <1>3, <1>4, UpTo
<1>6. SettingUp(after[k], d, lines, k, sch) /\ after[k] \in Sessions
  <2>1. k \in 0 .. k
    BY <1>1
  <2>. HIDE DEF after, k
  <2>. QED  BY <1>2, <1>5, <2>1
<1>7. RunScript(lines, d, sch).db = IF after[k].open THEN after[k].saved ELSE after[k].db
  BY DEF RunScript
<1>8. ~ (k < Len(lines))
  BY <1>1
<1> DEFINE e == after[k].db
<1>. HIDE DEF after
<1>9. /\ RunScript(lines, d, sch).db = e /\ e \in Databases
      /\ Progress(e, d, lines, Len(lines), sch)
  BY <1>6, <1>7, <1>8 DEF SettingUp, Sessions
<1>. HIDE DEF e, k
<1>10. \A t \in Tables : e[t] = SetUpAs(d[t], t, sch, sh)
  <2>1. \A t \in Tables : e[t] \in Catalog /\ d[t] \in Catalog
    BY <1>9 DEF Databases
  <2>. QED  BY <1>9, <2>1, ProgressMade DEF Progress
<1>. QED  BY <1>9, <1>10 DEF Databases

\* Applying a script as `tenancy init` wrote it, to a database as any earlier
\* applications of this or other files and any migrations have left it, does to
\* each table what the setup of one table does (StaticCheck!ScriptSetsUp).
THEOREM GeneratedScriptSetsUp == Spec => []ScriptSetsUp
<1>1. ASSUME ScriptInv, pristine
      PROVE  RunScript(Section(file), db, prisma).db =
               [t \in Tables |-> SetUpAs(db[t], t, prisma, shared)]
  <2>1. /\ prisma \in [Tables -> Kinds] /\ shared \in SUBSET Tables /\ db \in Databases
        /\ Generates(prisma, shared) /\ file = Generate(prisma, shared)
        /\ \A t \in Tables : db[t].column = ColumnOf(prisma[t])
    BY <1>1 DEF ScriptInv
  <2>2. SectionLines(Section(file), prisma, shared)
    BY <2>1, GenerateLines, GeneratedSection
  <2>. QED  BY <2>1, <2>2, SectionSetsUp
<1>2. ScriptInv => ScriptSetsUp
  BY <1>1 DEF ScriptSetsUp, SetUpAs
<1>. QED  BY <1>2, ScriptInvariant, PTL
===============================================================================
