-------------------------- MODULE DoctorCommandProofs --------------------------
(***************************************************************************)
(* Proofs about `tenancy doctor`, from the command line to the five probes *)
(* of a table: for any command lines and manifests, any catalogs, tenants  *)
(* and rows, and wherever a statement fails, the connection breaks or the  *)
(* batch is aborted.                                                       *)
(***************************************************************************)
EXTENDS DoctorCommand, TLAPS

\* The theorems about the catalog audit.  HealthyIsolates is about a catalog and
\* not about a state of DoctorAudit, whose variables may stand for anything.
AuditProofs == INSTANCE DoctorAuditProofs WITH
  Drifted <- {}, MaxChanges <- 0, catalog <- Fresh, changes <- 0, step <- 0,
  roleFound <- FALSE, failed <- FALSE, altered <- 0, rerun <- FALSE,
  matched <- FALSE, verdict <- "none"

Probing == {"begin", "bound", "setting", "look", "finish", "undo"}
Places  == {"off", "connect", "audit", "end", "done"} \cup Probing

\* Every variable keeps its type; whatever a probe sets, it sets locally.
TypeOK ==
  /\ at \in Places /\ probe \in 0 .. 5
  /\ seen \in [empty : BOOLEAN, visible : BOOLEAN, mismatch : BOOLEAN]
  /\ checks \in [1 .. 5 -> {"none", "pass", "fail", "warn"}]
  /\ findings \in BOOLEAN /\ steady \in BOOLEAN
  /\ result \in {"none", "healthy", "findings", "error"}
  /\ client \in {"none", "open", "lost", "ended"}
  /\ tx \in {"none", "open", "broken"}
  /\ local \in {NoLocal} \cup [value : ProbeIds, isLocal : {TRUE}]

\* What was typed decides about the probes.
Asked ==
  /\ typed \in [command : {"doctor", "init", "check", "other"}, help : BOOLEAN,
                json : Nat, active : Nat, stray : BOOLEAN]
  /\ at = "off" /\ exit = Absent =>
       \A f \in TenantFlags : values[f] \in ProbeIds \cup {Absent, Blank, Twice}
  /\ options.active \in BOOLEAN
  /\ at # "off" => typed.command = "doctor" /\ typed.help = FALSE
  /\ at # "off" /\ typed.active > 0 => options.active = TRUE
  /\ options.active = TRUE =>
       /\ typed.active = 1 /\ options.tenantA # options.tenantB
       /\ options.tenantA \in ProbeIds /\ options.tenantB \in ProbeIds

\* The session: a transaction is open only within a probe, and the setting is
\* the one it came with, but for what PostgreSQL makes of one never set.
Session ==
  /\ at \in {"off", "connect", "audit", "begin", "end", "done"} \/ client # "open" =>
       tx = "none" /\ local = NoLocal
  /\ setting = preset \/ (preset = Unset /\ setting = Empty)
  /\ probe <= 1 => local = NoLocal /\ setting = preset
  /\ probe >= 3 => setting # Unset
  /\ probe \notin {2, 4} \/ at \in {"bound", "setting"} => local = NoLocal
  /\ client = "open" /\ at \in {"look", "finish"} /\ probe \in {2, 4} =>
       local = [value |-> Ids[probe], isLocal |-> TRUE]

AllPass == \A i \in 1 .. 8 : Passes(Statements[i], cat, database.who)

\* The audit and the probes, in their order.
Progress ==
  /\ at \in {"off", "connect", "audit"} => probe = 0
  /\ at \in Probing =>
       /\ probe >= 1
       /\ \A i \in 1 .. 5 : i < probe => checks[i] # "none"
       /\ findings = FALSE => AllPass
  /\ probe >= 1 => options.active = TRUE
  /\ \A i \in 1 .. 5 : i > probe => checks[i] = "none"
  /\ at \in Probing \cup {"audit"} => database \in Databases
  /\ at \in {"end", "done"} <=> result # "none"
  /\ result = "healthy" =>
       /\ database \in Databases /\ AllPass
       /\ options.active = TRUE => \A i \in 1 .. 5 : checks[i] = "pass"

\* What was seen, and what a check that passed says, of rows that nobody has
\* written since.
Evidence ==
  /\ client = "open" /\ at \in {"look", "finish"} /\ probe \notin {2, 4} /\ seen.empty = TRUE =>
       setting \in {Unset, Empty}
  /\ steady = TRUE /\ client = "open" /\ at = "finish" =>
       IF probe \in {2, 4}
       THEN /\ seen.visible = TRUE => Visible(Ids[probe]) # {}
            /\ seen.mismatch = FALSE => Visible(Ids[probe]) \subseteq {Meant(Ids[probe])}
       ELSE seen.visible = FALSE => Visible(setting) = {}
  /\ steady = TRUE =>
       /\ checks[1] = "pass" => preset \in {Unset, Empty} /\ Visible(preset) = {}
       /\ checks[3] = "pass" => Visible(Empty) = {}
       /\ checks[2] = "pass" => Visible(options.tenantA) = {Meant(options.tenantA)}
       /\ checks[4] = "pass" => Visible(options.tenantB) = {Meant(options.tenantB)}

\* The results that the command has printed.
Printed ==
  /\ exit = Absent => stdout = [json |-> 0, text |-> 0] /\ stderr = 0
  /\ OneResult
  /\ exit = 0 /\ Audited => at = "done" /\ result = "healthy"

IInv == TypeOK /\ Asked /\ Session /\ Progress /\ Evidence /\ Printed

-------------------------------------------------------------------------------
(***************************************************************************)
(* Steps: what the command line does to an audit is to start it.           *)
(***************************************************************************)
Starts ==
  /\ at = "off" /\ at' = "connect"
  /\ UNCHANGED <<envVars, aborted, connVars, probe, seen, checks, findings, result>>

\* A step of the command line starts the audit of a table, or leaves it alone.
LEMMA CliKinds ==
  ASSUME CliStep
  PROVE  UNCHANGED probeVars \/ Starts
<1>1. CASE RunInit \/ RunCheck \/ ShowHelp \/ RefuseUsage \/ DoctorDone
  BY <1>1 DEF RunInit, RunCheck, ShowHelp, RefuseUsage, DoctorDone
<1>2. ASSUME NEW o, NEW signal, RunDoctor(o, signal)
      PROVE  Starts
  BY <1>2 DEF RunDoctor, Starts, Goto
<1>3. CASE DoctorTable
  BY <1>2, <1>3, Zenon DEF DoctorTable
<1>4. CASE DoctorManifest
  BY <1>2, <1>4, Zenon DEF DoctorManifest
<1>5. QED
  BY <1>1, <1>3, <1>4 DEF CliStep

\* The steps of the system, as an audit sees them.
LEMMA StepKinds ==
  ASSUME [Next]_vars
  PROVE  \/ UNCHANGED probeVars \/ Starts
         \/ Connect \/ Audit \/ BeginReadOnly \/ BoundTimeout \/ SetOrReadSetting
         \/ Look \/ Refused \/ Finish \/ Undo \/ End \/ Break \/ Abort \/ Write
BY CliKinds DEF Next, AuditStep, vars

-------------------------------------------------------------------------------
(***************************************************************************)
(* Types and the session.                                                  *)
(***************************************************************************)
\* A tenant's probe runs with an id that was given.
LEMMA IdsGiven ==
  ASSUME IInv, at \in Probing, probe \in {2, 4}
  PROVE  Ids[probe] \in ProbeIds
<1>1. options.tenantA \in ProbeIds /\ options.tenantB \in ProbeIds
  BY DEF IInv, Progress, Asked
<1>2. QED
  BY <1>1 DEF Ids

\* No step breaks the types; a tenant is only ever set locally.
LEMMA TypeKeeps ==
  ASSUME IInv, [Next]_vars
  PROVE  TypeOK'
<1> USE DEF TypeOK, Places, Probing, Goto, Fail
<1>0. TypeOK
  BY DEF IInv
<1>1. CASE UNCHANGED probeVars
  <2>1. UNCHANGED <<at, probe, seen, checks, findings, steady, result, client, tx, local>>
    BY <1>1 DEF probeVars, envVars, connVars, stepVars
  <2> HIDE DEF Places
  <2>2. QED
    BY <1>0, <2>1
<1>2. CASE Starts
  BY <1>0, <1>2 DEF Starts, envVars, connVars
<1>3. CASE Connect
  <2>1. /\ at' \in Places /\ result' \in {"none", "healthy", "findings", "error"}
        /\ client' \in {"none", "open", "lost", "ended"} /\ steady' = steady
        /\ UNCHANGED <<tx, local, probe, seen, checks, findings>>
    BY <1>0, <1>3 DEF Connect, optVars, envVars
  <2>2. QED
    BY <1>0, <2>1
<1>4. CASE Audit
  <2>1. findings' \in BOOLEAN
    BY <1>0, <1>4, Zenon DEF Audit
  <2>2. /\ at' \in Places /\ result' \in {"none", "healthy", "findings", "error"}
        /\ probe' \in 0 .. 5
    BY <1>0, <1>4 DEF Audit, Decide
  <2>3. UNCHANGED <<client, tx, local, seen, checks, steady>>
    BY <1>4 DEF Audit, connVars, envVars
  <2>4. QED
    BY <1>0, <2>1, <2>2, <2>3
<1>5. CASE BeginReadOnly
  BY <1>0, <1>5 DEF BeginReadOnly, envVars, optVars
<1>6. CASE BoundTimeout
  BY <1>0, <1>6 DEF BoundTimeout, Interrupted, envVars, optVars, connVars
<1>7. CASE SetOrReadSetting
  <2>1. seen' \in [empty : BOOLEAN, visible : BOOLEAN, mismatch : BOOLEAN]
    <3>1. (Current \in {Unset, Empty}) \in BOOLEAN
      OBVIOUS
    <3>2. [Unseen EXCEPT !.empty = Current \in {Unset, Empty}]
            \in [empty : BOOLEAN, visible : BOOLEAN, mismatch : BOOLEAN]
      BY <3>1 DEF Unseen
    <3>3. QED
      BY <1>0, <1>7, <3>2 DEF SetOrReadSetting
  <2>2. local' \in {NoLocal} \cup [value : ProbeIds, isLocal : {TRUE}]
    <3>1. CASE IsTenantProbe
      <4>1. local' = [value |-> Ids[probe], isLocal |-> TRUE]
        BY <1>7, <3>1 DEF SetOrReadSetting, SetTenant
      <4>2. Ids[probe] \in ProbeIds
        BY <1>7, <3>1, IdsGiven DEF SetOrReadSetting, IsTenantProbe
      <4>3. QED
        BY <4>1, <4>2
    <3>2. CASE ~ IsTenantProbe
      BY <1>0, <1>7, <3>2 DEF SetOrReadSetting
    <3>3. QED
      BY <3>1, <3>2
  <2>3. QED
    BY <1>0, <1>7, <2>1, <2>2 DEF SetOrReadSetting, envVars, optVars
<1>8. CASE Look
  <2>1. seen' \in [empty : BOOLEAN, visible : BOOLEAN, mismatch : BOOLEAN]
    BY <1>0, <1>8 DEF Look
  <2>2. QED
    BY <1>0, <1>8, <2>1 DEF Look, envVars, optVars, connVars
<1>9. CASE Refused
  BY <1>0, <1>9 DEF Refused, envVars, optVars
<1>10. CASE Finish
  <2>1. Status \in {"pass", "fail", "warn"}
    BY DEF Status
  <2>2. checks' \in [1 .. 5 -> {"none", "pass", "fail", "warn"}]
    BY <1>0, <1>10, <2>1 DEF Finish
  <2>3. result' \in {"none", "healthy", "findings", "error"} /\ at' \in Places /\ probe' \in 0 .. 5
    BY <1>0, <1>10 DEF Finish, Decide, Outcome
  <2>4. QED
    BY <1>0, <1>10, <2>2, <2>3 DEF Finish, EndTx, Unseen, envVars, optVars
<1>11. CASE Undo
  BY <1>0, <1>11 DEF Undo, EndTx, envVars, optVars
<1>12. CASE End
  BY <1>0, <1>12 DEF End, envVars, optVars
<1>13. CASE Break
  BY <1>0, <1>13 DEF Break, EndTx, envVars, optVars, stepVars
<1>14. CASE Abort
  <2>1. UNCHANGED <<at, probe, seen, checks, findings, steady, result, client, tx, local>>
    BY <1>14 DEF Abort, envVars, connVars, stepVars
  <2> HIDE DEF Places
  <2>2. QED
    BY <1>0, <2>1
<1>15. CASE Write
  <2>1. UNCHANGED <<at, probe, seen, checks, findings, result, client, tx, local>>
    BY <1>15 DEF Write, connVars, stepVars
  <2>2. steady' \in BOOLEAN
    BY <1>15 DEF Write
  <2> HIDE DEF Places
  <2>3. QED
    BY <1>0, <2>1, <2>2
<1>16. QED
  BY StepKinds, <1>1, <1>2, <1>3, <1>4, <1>5, <1>6, <1>7, <1>8, <1>9, <1>10,
     <1>11, <1>12, <1>13, <1>14, <1>15

\* The end of a transaction leaves nothing of what a probe has set.
LEMMA Ends ==
  ASSUME TypeOK, Session, NEW commits, EndTx(commits)
  PROVE  /\ tx' = "none" /\ local' = NoLocal
         /\ setting' = IF local # NoLocal /\ setting = Unset THEN Empty ELSE setting
<1>1. local # NoLocal => local.isLocal = TRUE
  BY DEF TypeOK
<1>2. QED
  BY <1>1 DEF EndTx, Reverted

\* However a probe ends, by its COMMIT or ROLLBACK, by an error or because the
\* connection breaks, nothing of it stays in the session.
LEMMA SessionKeeps ==
  ASSUME IInv, [Next]_vars
  PROVE  Session'
<1> USE CatalogConstants DEF Session, Goto, Fail
<1>0. TypeOK /\ Session /\ Progress
  BY DEF IInv
<1>1. CASE UNCHANGED probeVars
  BY <1>0, <1>1 DEF probeVars, envVars, optVars, connVars, stepVars, Ids
<1>2. CASE Starts
  BY <1>0, <1>2 DEF Starts, envVars, connVars
<1>3. CASE Connect
  BY <1>0, <1>3 DEF Connect, optVars, envVars, Progress
<1>4. CASE Audit
  BY <1>0, <1>4 DEF Audit, Decide, envVars, optVars, connVars, Progress
<1>5. CASE BeginReadOnly
  BY <1>0, <1>5 DEF BeginReadOnly, envVars, optVars
<1>6. CASE BoundTimeout
  BY <1>0, <1>6 DEF BoundTimeout, Interrupted, envVars, optVars, connVars
<1>7. CASE SetOrReadSetting
  BY <1>0, <1>7 DEF SetOrReadSetting, SetTenant, IsTenantProbe, Ids, envVars, optVars
<1>8. CASE Look
  BY <1>0, <1>8 DEF Look, Ids, envVars, optVars, connVars
<1>9. CASE Refused
  BY <1>0, <1>9 DEF Refused, envVars, optVars
<1>10. CASE Finish
  <2>1. /\ tx' = "none" /\ local' = NoLocal
        /\ setting' = IF local # NoLocal /\ setting = Unset THEN Empty ELSE setting
    BY <1>0, <1>10, Ends DEF Finish
  <2>2. probe = 2 => local # NoLocal
    <3>1. ASSUME probe = 2
          PROVE  local \in [value : ProbeIds, isLocal : BOOLEAN]
      <4>1. local = [value |-> Ids[probe], isLocal |-> TRUE]
        BY <1>0, <1>10, <3>1 DEF Finish
      <4>2. Ids[probe] \in ProbeIds
        BY <1>10, <3>1, IdsGiven DEF Finish, Probing
      <4>3. QED
        BY <4>1, <4>2
    <3>2. QED
      BY <3>1, ProbeConstants
  <2>3. QED
    BY <1>0, <1>10, <2>1, <2>2 DEF Finish, Decide, envVars, optVars, TypeOK
<1>11. CASE Undo
  <2>1. CASE client = "open"
    <3>1. /\ tx' = "none" /\ local' = NoLocal
          /\ setting' = IF local # NoLocal /\ setting = Unset THEN Empty ELSE setting
      BY <1>0, <1>11, <2>1, Ends DEF Undo
    <3>2. QED
      BY <1>0, <1>11, <3>1 DEF Undo, envVars, optVars
  <2>2. CASE client = "lost"
    BY <1>0, <1>11, <2>2 DEF Undo, envVars, optVars
  <2>3. QED
    BY <1>11, <2>1, <2>2 DEF Undo
<1>12. CASE End
  BY <1>0, <1>12 DEF End, envVars, optVars
<1>13. CASE Break
  <2>1. /\ tx' = "none" /\ local' = NoLocal
        /\ setting' = IF local # NoLocal /\ setting = Unset THEN Empty ELSE setting
    BY <1>0, <1>13, Ends DEF Break
  <2>2. QED
    BY <1>0, <1>13, <2>1 DEF Break, envVars, optVars, stepVars
<1>14. CASE Abort
  BY <1>0, <1>14 DEF Abort, envVars, connVars, stepVars, Ids
<1>15. CASE Write
  BY <1>0, <1>15 DEF Write, optVars, connVars, stepVars, Ids
<1>16. QED
  BY StepKinds, <1>1, <1>2, <1>3, <1>4, <1>5, <1>6, <1>7, <1>8, <1>9, <1>10,
     <1>11, <1>12, <1>13, <1>14, <1>15

-------------------------------------------------------------------------------
(***************************************************************************)
(* The audit: where every check passes, the role is the application's and  *)
(* the probes can run, and none of them is left out.                       *)
(***************************************************************************)
\* The checks by name, of which only that of the session asks who logged in.
LEMMA PassesByName ==
  ASSUME AllPass
  PROVE  /\ SessionChecks(cat, database.who) /\ RoleChecks(cat) /\ ColumnChecks(cat)
         /\ PrivilegeChecks(cat)
         /\ \A i \in 2 .. 8 : Passes(Statements[i], cat, "app")
<1>1. /\ Passes("session", cat, database.who) <=> SessionChecks(cat, database.who)
      /\ Passes("role", cat, database.who) <=> RoleChecks(cat)
      /\ Passes("column", cat, database.who) <=> ColumnChecks(cat)
      /\ Passes("privilege", cat, database.who) <=> PrivilegeChecks(cat)
  BY DEF Passes
<1>2. /\ Statements[1] = "session" /\ Statements[2] = "role"
      /\ Statements[4] = "column" /\ Statements[5] = "privilege"
  BY DEF Statements
<1>3. ASSUME NEW i \in 2 .. 8
      PROVE  Passes(Statements[i], cat, "app")
  <2>1. /\ i \in 1 .. 8
        /\ Statements[i] \in {"role", "table", "column", "privilege", "policy",
                              "reachable", "index"}
    BY DEF Statements
  <2>2. \A q \in {"role", "table", "column", "privilege", "policy", "reachable", "index"} :
          Passes(q, cat, database.who) <=> Passes(q, cat, "app")
    BY DEF Passes
  <2>3. Passes(Statements[i], cat, database.who)
    BY <2>1 DEF AllPass
  <2>4. QED
    BY <2>1, <2>2, <2>3
<1>4. QED
  BY <1>1, <1>2, <1>3 DEF AllPass

\* A catalog that passes for a login is healthy, and can be probed by it.
LEMMA PassingIsApp ==
  ASSUME database \in Databases, AllPass
  PROVE  database.who = "app" /\ HealthyCatalog(cat) /\ CanProbe
<1>1. database.who \in Logins /\ cat \in Catalog
  BY ProbeConstants DEF cat
<1>2. database.who = "app"
  BY <1>1, PassesByName DEF SessionChecks, Logins
<1>3. HealthyCatalog(cat)
  BY <1>2 DEF AllPass, HealthyCatalog
<1>4. CanProbe
  BY <1>2, PassesByName DEF CanProbe, RoleChecks, ColumnChecks, PrivilegeChecks
<1>5. QED
  BY <1>2, <1>3, <1>4

\* While the audit's catalog is the same one.
LEMMA PassesStay ==
  ASSUME database' = database
  PROVE  AllPass' = AllPass
BY DEF AllPass, cat

\* The checks are made in order, and a healthy result needs all of them.
LEMMA ProgressKeeps ==
  ASSUME IInv, [Next]_vars
  PROVE  Progress'
<1> USE DEF Progress, Probing, Goto, Fail
<1>0. TypeOK /\ Asked /\ Progress
  BY DEF IInv
<1>1. CASE UNCHANGED probeVars
  <2>1. /\ UNCHANGED <<at, probe, checks, findings, result, options, database>>
        /\ AllPass' = AllPass
    BY <1>1, PassesStay DEF probeVars, envVars, optVars, stepVars
  <2>2. QED
    BY <1>0, <2>1
<1>2. CASE Starts
  BY <1>0, <1>2 DEF Starts, TypeOK
<1>3. CASE Connect
  BY <1>0, <1>3 DEF Connect, TypeOK
<1>4. CASE Audit
  <2>1. /\ probe = 0 /\ result = "none" /\ database \in Databases
        /\ UNCHANGED <<database, checks, options>> /\ AllPass' = AllPass
    BY <1>0, <1>4, PassesStay DEF Audit, envVars, optVars
  <2>2. CASE result' = "error" /\ at' = "end" /\ probe' = probe
    BY <1>0, <2>1, <2>2
  <2>3. CASE /\ at' = "begin" /\ probe' = 1 /\ result' = result
             /\ options.active = TRUE
             /\ findings' = FALSE => AllPass
    BY <1>0, <2>1, <2>3
  <2>4. CASE /\ at' = "end" /\ probe' = probe /\ result' = "findings"
    BY <1>0, <2>1, <2>4
  <2>5. CASE /\ at' = "end" /\ probe' = probe /\ result' = "healthy"
             /\ AllPass /\ options.active = FALSE
    BY <1>0, <2>1, <2>5
  <2>6. QED
    <3> DEFINE fails == \E i \in 1 .. 8 : ~ Passes(Statements[i], cat, database.who)
    <3>1. ~ fails <=> AllPass
      BY DEF AllPass
    <3>2. AllPass => CanProbe
      BY <2>1, PassingIsApp
    <3> HIDE DEF fails
    <3>3. \/ Fail /\ UNCHANGED probe
          \/ /\ findings' = (fails \/ ((options.active /\ CanProbe) /\ ~ IdsFit))
             /\ IF (options.active /\ CanProbe) /\ IdsFit
                THEN probe' = 1 /\ at' = "begin" /\ UNCHANGED result
                ELSE /\ result' = IF findings' THEN "findings" ELSE "healthy"
                     /\ at' = "end" /\ UNCHANGED probe
      BY <1>4, Zenon DEF Audit, Decide, fails
    <3>4. options.active \in BOOLEAN
      BY <1>0 DEF Asked
    <3>5. CASE Fail /\ UNCHANGED probe
      BY <2>2, <3>5
    <3>6. CASE options.active = TRUE /\ CanProbe /\ IdsFit /\ ~ (Fail /\ UNCHANGED probe)
      BY <2>3, <3>1, <3>3, <3>6
    <3>7. CASE ~ (options.active = TRUE /\ CanProbe /\ IdsFit) /\ ~ (Fail /\ UNCHANGED probe)
      BY <2>4, <2>5, <3>1, <3>2, <3>3, <3>4, <3>7
    <3>8. QED
      BY <3>5, <3>6, <3>7
<1>5. CASE BeginReadOnly
  <2>1. UNCHANGED <<probe, checks, findings, options, database>> /\ AllPass' = AllPass
    BY <1>5, PassesStay DEF BeginReadOnly, envVars, optVars
  <2>2. QED
    BY <1>0, <1>5, <2>1 DEF BeginReadOnly
<1>6. CASE BoundTimeout
  <2>1. UNCHANGED <<probe, checks, findings, result, options, database>> /\ AllPass' = AllPass
    BY <1>6, PassesStay DEF BoundTimeout, Interrupted, envVars, optVars, stepVars
  <2>2. QED
    BY <1>0, <1>6, <2>1 DEF BoundTimeout, Interrupted
<1>7. CASE SetOrReadSetting
  <2>1. UNCHANGED <<probe, checks, findings, result, options, database>> /\ AllPass' = AllPass
    BY <1>7, PassesStay DEF SetOrReadSetting, envVars, optVars
  <2>2. at = "setting" /\ at' = "look"
    BY <1>7 DEF SetOrReadSetting
  <2>3. QED
    BY <1>0, <2>1, <2>2
<1>8. CASE Look
  <2>1. UNCHANGED <<probe, checks, findings, result, options, database>> /\ AllPass' = AllPass
    BY <1>8, PassesStay DEF Look, envVars, optVars
  <2>2. at = "look" /\ at' \in {"undo", "finish"}
    BY <1>8 DEF Look
  <2>3. QED
    BY <1>0, <2>1, <2>2
<1>9. CASE Refused
  <2>1. UNCHANGED <<probe, checks, findings, result, options, database>> /\ AllPass' = AllPass
    BY <1>9, PassesStay DEF Refused, envVars, optVars
  <2>2. QED
    BY <1>0, <1>9, <2>1 DEF Refused
<1>10. CASE Finish
  <2>1. UNCHANGED <<findings, options, database>> /\ AllPass' = AllPass
    BY <1>10, PassesStay DEF Finish, envVars, optVars
  <2>2. /\ Status \in {"pass", "fail", "warn"}
        /\ checks' = [checks EXCEPT ![probe] = Status]
        /\ probe \in 1 .. 5 /\ at = "finish" /\ result = "none" /\ database \in Databases
        /\ options.active = TRUE
        /\ findings = FALSE => AllPass
    BY <1>0, <1>10 DEF Finish, Status, TypeOK
  <2>3. /\ \A i \in 1 .. 5 : i <= probe => checks'[i] # "none"
        /\ \A i \in 1 .. 5 : i > probe => checks'[i] = "none"
        /\ checks' \in [1 .. 5 -> {"none", "pass", "fail", "warn"}]
    BY <1>0, <1>10, <2>2 DEF TypeOK, Finish
  <2>4. CASE probe < 5
    <3>1. probe' = probe + 1 /\ at' = "begin" /\ result' = "none" /\ probe' \in 1 .. 5
      BY <1>10, <2>2, <2>4 DEF Finish
    <3>2. \A i \in 1 .. 5 : (i < probe' => i <= probe) /\ (i > probe' => i > probe)
      BY <2>2, <3>1
    <3>3. QED
      BY <1>0, <2>1, <2>2, <2>3, <3>1, <3>2
  <2>5. CASE probe = 5
    <3>1. /\ probe' = probe /\ at' = "end" /\ result' = Outcome(checks')
          /\ Outcome(checks') # "none"
      BY <1>10, <2>5 DEF Finish, Decide, Outcome
    <3>2. ASSUME result' = "healthy"
          PROVE  /\ findings = FALSE
                 /\ \A i \in 1 .. 5 : checks'[i] = "pass"
      <4>1. /\ findings = FALSE
            /\ \A i \in 1 .. 5 : checks'[i] \notin {"fail", "warn"}
        BY <1>0, <3>1, <3>2 DEF Outcome, TypeOK
      <4>2. QED
        BY <2>3, <2>5, <4>1
    <3>3. QED
      BY <1>0, <2>1, <2>2, <2>3, <2>5, <3>1, <3>2
  <2>6. probe < 5 \/ probe = 5
    BY <2>2
  <2>7. QED
    BY <2>4, <2>5, <2>6
<1>11. CASE Undo
  <2>1. UNCHANGED <<probe, checks, findings, options, database>> /\ AllPass' = AllPass
    BY <1>11, PassesStay DEF Undo, envVars, optVars
  <2>2. at' = "end" /\ result' = "error"
    BY <1>11 DEF Undo
  <2>3. QED
    BY <1>0, <2>1, <2>2
<1>12. CASE End
  <2>1. UNCHANGED <<probe, checks, findings, result, options, database>> /\ AllPass' = AllPass
    BY <1>12, PassesStay DEF End, envVars, optVars
  <2>2. QED
    BY <1>0, <1>12, <2>1 DEF End
<1>13. CASE Break \/ Abort \/ Write
  <2>1. /\ UNCHANGED <<at, probe, checks, findings, result, options, database>>
        /\ AllPass' = AllPass
    BY <1>13, PassesStay DEF Break, Abort, Write, envVars, optVars, stepVars
  <2>2. QED
    BY <1>0, <2>1
<1>14. QED
  BY StepKinds, <1>1, <1>2, <1>3, <1>4, <1>5, <1>6, <1>7, <1>8, <1>9, <1>10,
     <1>11, <1>12, <1>13

-------------------------------------------------------------------------------
(***************************************************************************)
(* What was asked for: only --active enables the probes, and the ids are   *)
(* checked wherever they come from.                                        *)
(***************************************************************************)
\* The options a table's audit is started with, by flags.
LEMMA AskedByFlags ==
  ASSUME Asked, Dispatched("doctor"), Parses(ParsesAsTable), Valid(OptionsOfTable),
         NEW o, o = Validated(OptionsOfTable)
  PROVE  /\ o.active = (typed.active = 1)
         /\ typed.active <= 1
         /\ o.active => /\ o.tenantA # o.tenantB
                        /\ o.tenantA \in ProbeIds /\ o.tenantB \in ProbeIds
<1>1. OptionsOfTable["active"] = (typed.active = 1)
  BY DEF OptionsOfTable
<1>2. OptionsOfTable["tenantA"] = values["tenantA"] /\ OptionsOfTable["tenantB"] = values["tenantB"]
  BY DEF OptionsOfTable, Inherited
<1>3. \A f \in TenantFlags : values[f] \in ProbeIds \cup {Absent}
  BY DEF Asked, Dispatched, Parses, Malformed, TenantFlags, ValueFlags, Inherited
<1>4. typed.active \in Nat /\ ~ (typed.active > 1)
  BY DEF Asked, Parses, Malformed
<1>5. /\ o.active = OptionsOfTable["active"]
      /\ o.tenantA = OptionsOfTable["tenantA"] /\ o.tenantB = OptionsOfTable["tenantB"]
  BY DEF Validated
<1>6. OptionsOfTable["active"] =>
        /\ Text(OptionsOfTable["tenantA"]) /\ Text(OptionsOfTable["tenantB"])
        /\ OptionsOfTable["tenantA"] # OptionsOfTable["tenantB"]
  BY DEF Valid
<1>7. QED
  BY <1>1, <1>2, <1>3, <1>4, <1>5, <1>6 DEF Text, TenantFlags

\* And by an entry of a manifest.
LEMMA AskedByManifest ==
  ASSUME Asked, Parses(ParsesAsBatch), NEW m \in Manifests, ValidManifest(m),
         NEW i \in DOMAIN m.tables,
         NEW o, o = Validated(OptionsOfEntry(m, m.tables[i]))
  PROVE  /\ o.active = (typed.active = 1)
         /\ typed.active <= 1
         /\ o.active => /\ o.tenantA # o.tenantB
                        /\ o.tenantA \in ProbeIds /\ o.tenantB \in ProbeIds
<1> DEFINE entry == m.tables[i]
           given == OptionsOfEntry(m, entry)
<1>1. given["active"] = (typed.active = 1)
  BY DEF OptionsOfEntry, Active
<1>2. ASSUME NEW f \in TenantFlags, typed.active = 1, Text(given[f])
      PROVE  given[f] \in ProbeIds
  <2>1. given[f] = IF entry[f] # Absent THEN entry[f] ELSE m.defaults[f]
    BY <1>2 DEF OptionsOfEntry, Active, TenantFlags, Inherited
  <2>2. \A p \in {m.defaults, entry} :
          /\ p[f] \in ProbeIds \cup {Absent, Blank, NotAString}
          /\ f \in DOMAIN p
    BY CommandConstants DEF TenantFlags, Named, Inherited
  <2>3. Proper(m.defaults) /\ Proper(entry)
    BY DEF ValidManifest
  <2>4. \A p \in {m.defaults, entry} : p[f] \in ProbeIds \cup {Absent, Blank}
    BY <2>2, <2>3 DEF Proper
  <2>5. QED
    BY <1>2, <2>1, <2>4 DEF Text
<1>3. typed.active \in Nat /\ ~ (typed.active > 1)
  BY DEF Asked, Parses, Malformed
<1>4. o.active = given["active"] /\ o.tenantA = given["tenantA"] /\ o.tenantB = given["tenantB"]
  BY DEF Validated
<1>5. given["active"] =>
        Text(given["tenantA"]) /\ Text(given["tenantB"]) /\ given["tenantA"] # given["tenantB"]
  BY DEF ValidManifest, Valid
<1> HIDE DEF given
<1>6. typed.active <= 1
  BY <1>3
<1>7. ASSUME o.active
      PROVE  o.tenantA # o.tenantB /\ o.tenantA \in ProbeIds /\ o.tenantB \in ProbeIds
  <2>1. typed.active = 1 /\ Text(given["tenantA"]) /\ Text(given["tenantB"])
    BY <1>1, <1>4, <1>5, <1>7
  <2>2. "tenantA" \in TenantFlags /\ "tenantB" \in TenantFlags
    BY DEF TenantFlags
  <2>3. given["tenantA"] \in ProbeIds /\ given["tenantB"] \in ProbeIds
    BY <1>2, <2>1, <2>2
  <2>4. QED
    BY <1>4, <1>5, <1>7, <2>3
<1>8. QED
  BY <1>1, <1>4, <1>6, <1>7

\* No step of the audit goes back to the command line, or on after the end.
LEMMA AuditStays ==
  ASSUME AuditStep \/ Break \/ Abort \/ Write
  PROVE  at \notin {"off", "done"} /\ at' # "off" /\ options' = options
<1> USE DEF Goto, Fail, optVars
<1>1. CASE Connect
  BY <1>1 DEF Connect
<1>2. CASE Audit
  BY <1>2 DEF Audit, Decide
<1>3. CASE BeginReadOnly \/ BoundTimeout
  BY <1>3 DEF BeginReadOnly, BoundTimeout, Interrupted
<1>4. CASE SetOrReadSetting \/ Look
  BY <1>4 DEF SetOrReadSetting, Look
<1>5. CASE Refused \/ Undo \/ End
  BY <1>5 DEF Refused, Undo, End
<1>6. CASE Finish
  BY <1>6 DEF Finish, Decide
<1>7. CASE Break \/ Abort \/ Write
  BY <1>7 DEF Break, Abort, Write, Running, stepVars
<1>8. QED
  BY <1>1, <1>2, <1>3, <1>4, <1>5, <1>6, <1>7 DEF AuditStep

ResultPrinted ==
  IF typed.json > 0 THEN stdout' = [json |-> 1, text |-> 0] /\ stderr' = 0
                    ELSE stdout' = [json |-> 0, text |-> 1]

\* The command line starts an audit, or ends the command with one result.
LEMMA CliEffect ==
  ASSUME IInv, CliStep
  PROVE  /\ exit = Absent /\ typed' = typed
         /\ \/ /\ Starts /\ UNCHANGED <<stdout, stderr, exit>>
               /\ typed.command = "doctor" /\ typed.help = FALSE
            \/ /\ UNCHANGED probeVars /\ exit' \in 0 .. 2
               /\ Audited => ResultPrinted
               /\ exit' = 0 /\ Audited => at = "done" /\ result = "healthy"
<1>0. /\ TypeOK /\ Asked /\ Progress /\ Printed
      /\ exit = Absent => stdout = [json |-> 0, text |-> 0] /\ stderr = 0
      /\ typed.json \in Nat
  BY DEF IInv, Printed, Asked
<1>1. CASE RunInit \/ RunCheck
  <2>1. exit = Absent /\ typed.command # "doctor" /\ UNCHANGED <<typed, probeVars>>
    BY <1>1 DEF RunInit, RunCheck, Dispatched
  <2>2. exit' \in 0 .. 2
    <3>1. exit' \in {0, 1, 2}
      BY <1>1, Zenon DEF RunInit, RunCheck, ExitWith
    <3>2. QED
      BY <3>1
  <2>3. QED
    BY <2>1, <2>2 DEF Audited
<1>2. CASE ShowHelp
  BY <1>2 DEF ShowHelp, Dispatched, ExitWith, Audited
<1>3. ASSUME exit = Absent, NEW status \in {"healthy", "findings", "error"}, Report(status)
      PROVE  ResultPrinted /\ exit' \in 0 .. 2 /\ (exit' = 0 => status = "healthy")
  BY <1>0, <1>3 DEF Report, Output, ExitWith, Codes, ResultPrinted
<1>4. CASE RefuseUsage
  <2>1. ResultPrinted /\ exit' = 2
    BY <1>0, <1>4 DEF RefuseUsage, Dispatched, UsageError, Output, ExitWith, Codes, ResultPrinted
  <2>2. QED
    BY <1>4, <2>1 DEF RefuseUsage, Dispatched
<1>5. CASE DoctorTable
  <2>1. CASE Valid(OptionsOfTable)
    BY <1>5, <2>1, CliKinds DEF DoctorTable, Dispatched, RunDoctor, Starts, Goto
  <2>2. CASE ~ Valid(OptionsOfTable)
    BY <1>3, <1>5, <2>2 DEF DoctorTable, Dispatched
  <2>3. QED
    BY <2>1, <2>2
<1>6. CASE DoctorManifest
  <2>1. PICK m \in Manifests :
          IF ValidManifest(m)
          THEN /\ \E i \in DOMAIN m.tables :
                    RunDoctor(Validated(OptionsOfEntry(m, m.tables[i])), TRUE)
               /\ UNCHANGED <<typed, stdout, stderr, exit>>
          ELSE Report("error") /\ UNCHANGED <<typed, tables, probeVars>>
    BY <1>6, Zenon DEF DoctorManifest
  <2>2. exit = Absent /\ typed.command = "doctor" /\ typed.help = FALSE
    BY <1>0, <1>6 DEF DoctorManifest, Dispatched, Asked
  <2>3. CASE ValidManifest(m)
    BY <2>1, <2>2, <2>3 DEF RunDoctor, Starts, Goto
  <2>4. CASE ~ ValidManifest(m)
    BY <1>3, <2>1, <2>2, <2>4
  <2>5. QED
    BY <2>3, <2>4
<1>7. CASE DoctorDone
  <2>1. at = "done" /\ exit = Absent /\ UNCHANGED <<typed, probeVars>>
    BY <1>7 DEF DoctorDone
  <2>2. result \in {"healthy", "findings", "error"}
    BY <1>0, <2>1 DEF Progress, TypeOK
  <2>3. CASE tables > 1
    <3>1. PICK others \in SUBSET {"healthy", "findings", "error"} :
            Report(Worst({result} \cup others))
      BY <1>7, <2>3 DEF DoctorDone
    <3>2. /\ Worst({result} \cup others) \in {"healthy", "findings", "error"}
          /\ Worst({result} \cup others) = "healthy" => result = "healthy"
      BY DEF Worst
    <3>3. QED
      BY <1>3, <2>1, <3>1, <3>2
  <2>4. CASE ~ (tables > 1)
    BY <1>3, <1>7, <2>1, <2>2, <2>4 DEF DoctorDone
  <2>5. QED
    BY <2>3, <2>4
<1>8. QED
  BY <1>1, <1>2, <1>4, <1>5, <1>6, <1>7 DEF CliStep

\* A result is printed as the command exits, and once.
LEMMA PrintedKeeps ==
  ASSUME IInv, [Next]_vars
  PROVE  Printed'
<1>0. Printed
  BY DEF IInv
<1>1. CASE CliStep
  <2>1. CASE Starts /\ UNCHANGED <<stdout, stderr, exit>>
    <3>1. exit = Absent
      BY <1>1, CliEffect
    <3>2. QED
      BY <1>0, <2>1, <3>1, CommandConstants DEF Printed, OneResult
  <2>2. CASE /\ UNCHANGED <<typed, probeVars>> /\ exit' \in 0 .. 2
             /\ Audited => ResultPrinted
             /\ exit' = 0 /\ Audited => at = "done" /\ result = "healthy"
    BY <2>2, CommandConstants DEF Printed, OneResult, Audited, ResultPrinted, probeVars, stepVars
  <2>3. QED
    BY <1>1, <2>1, <2>2, CliEffect
<1>2. CASE (AuditStep \/ Break \/ Abort \/ Write) /\ UNCHANGED cliVars
  BY <1>0, <1>2, AuditStays DEF Printed, OneResult, Audited, cliVars
<1>3. CASE UNCHANGED vars
  BY <1>0, <1>3 DEF Printed, OneResult, Audited, vars, cliVars, probeVars, stepVars
<1>4. QED
  BY <1>1, <1>2, <1>3 DEF Next

\* The options of an audit are those that were asked for.
LEMMA AskedKeeps ==
  ASSUME IInv, [Next]_vars
  PROVE  Asked'
<1>0. Asked
  BY DEF IInv
<1>1. CASE CliStep
  <2>1. typed' = typed
    BY <1>1, CliEffect
  <2>2. ASSUME NEW o, NEW signal, RunDoctor(o, signal), typed.help = FALSE,
               typed.command = "doctor", o.active = (typed.active = 1), typed.active <= 1,
               o.active => o.tenantA # o.tenantB /\ o.tenantA \in ProbeIds /\ o.tenantB \in ProbeIds
        PROVE  Asked'
    <3>1. options' = o /\ at' = "connect"
      BY <2>2 DEF RunDoctor, Goto
    <3>2. typed.active \in Nat
      BY <1>0 DEF Asked
    <3>3. typed.active > 0 => typed.active = 1
      BY <2>2, <3>2
    <3>4. QED
      BY <1>0, <2>1, <2>2, <3>1, <3>3 DEF Asked
  <2>3. CASE DoctorTable /\ Valid(OptionsOfTable)
    BY <1>0, <2>2, <2>3, AskedByFlags DEF DoctorTable, Dispatched, Asked
  <2>4. CASE DoctorManifest /\ ~ UNCHANGED probeVars
    <3>1. PICK m \in Manifests :
            /\ ValidManifest(m)
            /\ \E i \in DOMAIN m.tables :
                 RunDoctor(Validated(OptionsOfEntry(m, m.tables[i])), TRUE)
      BY <2>4, Zenon DEF DoctorManifest
    <3>2. PICK i \in DOMAIN m.tables :
            RunDoctor(Validated(OptionsOfEntry(m, m.tables[i])), TRUE)
      BY <3>1
    <3>3. /\ typed.help = FALSE /\ typed.command = "doctor" /\ Parses(ParsesAsBatch)
      BY <1>0, <2>4 DEF DoctorManifest, Dispatched, Asked
    <3>4. QED
      BY <1>0, <2>2, <3>1, <3>2, <3>3, AskedByManifest
  <2>5. CASE UNCHANGED probeVars /\ exit' \in 0 .. 2
    BY <1>0, <2>1, <2>5, CommandConstants DEF Asked, probeVars, optVars, stepVars
  <2>6. DoctorTable /\ ~ Valid(OptionsOfTable) => UNCHANGED probeVars
    BY DEF DoctorTable
  <2>7. RunInit \/ RunCheck \/ ShowHelp \/ RefuseUsage \/ DoctorDone => UNCHANGED probeVars
    BY DEF RunInit, RunCheck, ShowHelp, RefuseUsage, DoctorDone
  <2>8. UNCHANGED probeVars => exit' \in 0 .. 2
    <3>1. UNCHANGED probeVars => ~ Starts
      BY DEF Starts, probeVars, stepVars
    <3>2. QED
      BY <1>1, <3>1, CliEffect
  <2>9. QED
    BY <1>1, <2>3, <2>4, <2>5, <2>6, <2>7, <2>8 DEF CliStep
<1>2. CASE (AuditStep \/ Break \/ Abort \/ Write) /\ UNCHANGED cliVars
  BY <1>0, <1>2, AuditStays DEF Asked, cliVars
<1>3. CASE UNCHANGED vars
  BY <1>0, <1>3 DEF Asked, vars, cliVars, probeVars, optVars, stepVars
<1>4. QED
  BY <1>1, <1>2, <1>3 DEF Next
-------------------------------------------------------------------------------
(***************************************************************************)
(* The evidence of the probes.                                             *)
(***************************************************************************)
\* Visible and Meant, with the rows and the catalog they are read from.
MeantBy(d, s) == IF d.cat.column = "uuid" /\ s \in DOMAIN UuidOf THEN UuidOf[s] ELSE s
Sight(R, d, s) == {t \in R : ~ RowSecurityActive(d.cat) \/ Sees(d.cat, MeantBy(d, s), t)}

\* Visible is a function of rows and catalog,
LEMMA SightIs ==
  /\ Visible(setting) = Sight(rows, database, setting)
  /\ Visible(preset) = Sight(rows, database, preset)
  /\ Visible(Empty) = Sight(rows, database, Empty)
  /\ Visible(Current) = Sight(rows, database, Current)
  /\ Visible(Ids[probe]) = Sight(rows, database, Ids[probe])
  /\ Visible(options.tenantA) = Sight(rows, database, options.tenantA)
  /\ Visible(options.tenantB) = Sight(rows, database, options.tenantB)
  /\ Meant(Ids[probe]) = MeantBy(database, Ids[probe])
  /\ Meant(options.tenantA) = MeantBy(database, options.tenantA)
  /\ Meant(options.tenantB) = MeantBy(database, options.tenantB)
BY Zenon DEF Visible, Meant, Sight, MeantBy, cat

\* also after a step.
LEMMA SightWillBe ==
  /\ Visible(setting)' = Sight(rows', database', setting')
  /\ Visible(preset)' = Sight(rows', database', preset')
  /\ Visible(Empty)' = Sight(rows', database', Empty)
  /\ Visible(Ids[probe])' = Sight(rows', database', Ids'[probe'])
  /\ Visible(options.tenantA)' = Sight(rows', database', options'.tenantA)
  /\ Visible(options.tenantB)' = Sight(rows', database', options'.tenantB)
  /\ Meant(Ids[probe])' = MeantBy(database', Ids'[probe'])
  /\ Meant(options.tenantA)' = MeantBy(database', options'.tenantA)
  /\ Meant(options.tenantB)' = MeantBy(database', options'.tenantB)
BY Zenon DEF Visible, Meant, Sight, MeantBy, cat

\* What has been seen.
Noted ==
  /\ client = "open" /\ at \in {"look", "finish"} /\ probe \notin {2, 4} /\ seen.empty = TRUE =>
       setting \in {Unset, Empty}
  /\ steady = TRUE /\ client = "open" /\ at = "finish" =>
       IF probe \in {2, 4}
       THEN /\ seen.visible = TRUE => Sight(rows, database, Ids[probe]) # {}
            /\ seen.mismatch = FALSE =>
                 Sight(rows, database, Ids[probe]) \subseteq {MeantBy(database, Ids[probe])}
       ELSE seen.visible = FALSE => Sight(rows, database, setting) = {}

\* What the checks say.
Shown ==
  steady = TRUE =>
    /\ checks[1] = "pass" => preset \in {Unset, Empty} /\ Sight(rows, database, preset) = {}
    /\ checks[3] = "pass" => Sight(rows, database, Empty) = {}
    /\ checks[2] = "pass" =>
         Sight(rows, database, options.tenantA) = {MeantBy(database, options.tenantA)}
    /\ checks[4] = "pass" =>
         Sight(rows, database, options.tenantB) = {MeantBy(database, options.tenantB)}

\* Evidence in two parts,
LEMMA EvidenceIs == Evidence <=> Noted /\ Shown
BY SightIs, Zenon DEF Evidence, Noted, Shown

\* also after a step.
LEMMA EvidenceWillBe == Evidence' <=> Noted' /\ Shown'
BY SightWillBe, Zenon DEF Evidence, Noted, Shown

\* What a probe has seen stays true of the rows until it is judged, unless
\* somebody writes.
LEMMA NotedKeeps ==
  ASSUME IInv, [Next]_vars
  PROVE  Noted'
<1> USE DEF Noted, Goto, Fail
<1>0. TypeOK /\ Session /\ Progress /\ Noted
  BY EvidenceIs DEF IInv
<1>1. CASE UNCHANGED probeVars
  BY <1>0, <1>1 DEF probeVars, envVars, optVars, connVars, stepVars, Ids
<1>2. CASE Starts \/ Connect \/ Audit \/ BeginReadOnly \/ Finish \/ Refused \/ Undo \/ End
  <2>1. at' \notin {"look", "finish"}
    BY <1>2 DEF Starts, Connect, Audit, BeginReadOnly, Finish, Refused, Undo, End, Decide
  <2>2. QED
    BY <2>1
<1>3. CASE BoundTimeout
  <2>1. at' \notin {"look", "finish"}
    BY <1>3 DEF BoundTimeout, Interrupted
  <2>2. QED
    BY <2>1
<1>4. CASE SetOrReadSetting
  <2>1. at' = "look" /\ probe' = probe /\ setting' = setting
    BY <1>4 DEF SetOrReadSetting
  <2>2. ASSUME probe \notin {2, 4}, seen'.empty = TRUE
        PROVE  setting \in {Unset, Empty}
    <3>1. seen'.empty = (Current \in {Unset, Empty})
      BY <1>4, <2>2 DEF SetOrReadSetting, IsTenantProbe, Unseen
    <3>2. Current = setting
      BY <1>0, <2>2 DEF Session, Current
    <3>3. QED
      BY <2>2, <3>1, <3>2
  <2>3. QED
    BY <2>1, <2>2
<1>5. CASE Look
  <2>1. /\ UNCHANGED <<rows, database, steady, probe, setting, client, options>>
        /\ at = "look" /\ client = "open" /\ seen'.empty = seen.empty
        /\ seen'.visible = (Visible(Current) # {})
        /\ seen'.mismatch = (IsTenantProbe /\ Visible(Current) \ {Meant(Ids[probe])} # {})
    BY <1>0, <1>5 DEF Look, TypeOK, envVars, optVars, connVars
  <2>2. Ids' = Ids
    BY <2>1 DEF Ids
  <2>3. CASE probe \in {2, 4}
    <3>1. Ids[probe] \in ProbeIds
      BY <1>0, <2>1, <2>3, IdsGiven DEF Probing
    <3>2. local = [value |-> Ids[probe], isLocal |-> TRUE]
      BY <1>0, <2>1, <2>3 DEF Session
    <3>3. Current = Ids[probe]
      <4>1. local \in [value : ProbeIds, isLocal : BOOLEAN]
        BY <3>1, <3>2
      <4>2. QED
        BY <3>2, <4>1, ProbeConstants DEF Current
    <3>4. /\ seen'.visible = (Sight(rows, database, Ids[probe]) # {})
          /\ seen'.mismatch =
               (Sight(rows, database, Ids[probe]) \ {MeantBy(database, Ids[probe])} # {})
      BY <2>1, <2>3, <3>3, SightIs DEF IsTenantProbe
    <3>5. QED
      BY <2>1, <2>2, <2>3, <3>4
  <2>4. CASE probe \notin {2, 4}
    <3>1. Current = setting
      BY <1>0, <2>4 DEF Session, Current
    <3>2. seen'.visible = (Sight(rows, database, setting) # {})
      BY <2>1, <3>1, SightIs
    <3>3. QED
      BY <1>0, <2>1, <2>4, <3>2
  <2>5. QED
    BY <2>3, <2>4
<1>6. CASE Break
  BY <1>6 DEF Break
<1>7. CASE Abort
  BY <1>0, <1>7 DEF Abort, envVars, connVars, stepVars, Ids
<1>8. CASE Write
  BY <1>0, <1>8 DEF Write, connVars, stepVars
<1>9. QED
  BY StepKinds, <1>1, <1>2, <1>3, <1>4, <1>5, <1>6, <1>7, <1>8

\* A check that passed was right about the rows, and stays right, unless
\* somebody writes.
LEMMA ShownKeeps ==
  ASSUME IInv, [Next]_vars
  PROVE  Shown'
<1>0. TypeOK /\ Session /\ Progress /\ Noted /\ Shown
  BY EvidenceIs DEF IInv
<1>1. CASE UNCHANGED <<checks, rows, database, preset, options, steady>>
  BY <1>0, <1>1 DEF Shown
<1>2. CASE Starts \/ Connect
  <2>1. checks' = checks /\ \A i \in 1 .. 5 : checks[i] = "none"
    BY <1>0, <1>2 DEF Starts, Connect, Progress, TypeOK
  <2>2. QED
    BY <2>1 DEF Shown
<1>3. CASE Finish
  <2>1. /\ UNCHANGED <<rows, database, preset, options, steady>>
        /\ at = "finish" /\ client = "open" /\ probe \in 1 .. 5
        /\ checks' = [checks EXCEPT ![probe] = Status]
    BY <1>0, <1>3 DEF Finish, envVars, optVars, Progress, Probing, TypeOK
  <2>2. \A i \in 1 .. 5 : checks'[i] = IF i = probe THEN Status ELSE checks[i]
    BY <1>0, <2>1 DEF TypeOK
  <2>3. CASE probe = 1
    <3>1. ASSUME steady = TRUE, Status = "pass"
          PROVE  preset \in {Unset, Empty} /\ Sight(rows, database, preset) = {}
      <4>1. seen.empty = TRUE /\ seen.visible = FALSE
        BY <1>0, <2>3, <3>1 DEF Status, IsTenantProbe, TypeOK
      <4>2. setting = preset
        BY <1>0, <2>3 DEF Session
      <4>3. QED
        BY <1>0, <2>1, <2>3, <3>1, <4>1, <4>2 DEF Noted
    <3>2. QED
      BY <1>0, <2>1, <2>2, <2>3, <3>1 DEF Shown
  <2>4. CASE probe = 3
    <3>1. ASSUME steady = TRUE, Status = "pass"
          PROVE  Sight(rows, database, Empty) = {}
      <4>1. seen.empty = TRUE /\ seen.visible = FALSE
        BY <1>0, <2>4, <3>1 DEF Status, IsTenantProbe, TypeOK
      <4>2. setting # Unset
        BY <1>0, <2>4 DEF Session
      <4>3. QED
        BY <1>0, <2>1, <2>4, <3>1, <4>1, <4>2 DEF Noted
    <3>2. QED
      BY <1>0, <2>1, <2>2, <2>4, <3>1 DEF Shown
  <2>5. CASE probe \in {2, 4}
    <3>1. ASSUME steady = TRUE, Status = "pass"
          PROVE  Sight(rows, database, Ids[probe]) = {MeantBy(database, Ids[probe])}
      <4>1. seen.mismatch = FALSE /\ seen.visible = TRUE
        BY <1>0, <2>5, <3>1 DEF Status, IsTenantProbe, TypeOK
      <4>2. /\ Sight(rows, database, Ids[probe]) # {}
            /\ Sight(rows, database, Ids[probe]) \subseteq {MeantBy(database, Ids[probe])}
        BY <1>0, <2>1, <2>5, <3>1, <4>1 DEF Noted
      <4>3. QED
        BY <4>2
    <3>2. (probe = 2 => Ids[probe] = options.tenantA) /\ (probe = 4 => Ids[probe] = options.tenantB)
      BY DEF Ids
    <3>3. QED
      BY <1>0, <2>1, <2>2, <2>5, <3>1, <3>2 DEF Shown
  <2>6. CASE probe = 5
    BY <1>0, <2>1, <2>2, <2>6 DEF Shown
  <2>7. QED
    BY <2>1, <2>3, <2>4, <2>5, <2>6
<1>4. CASE Write
  BY <1>4 DEF Write, Shown
<1>5. UNCHANGED probeVars \/ Abort \/ Break => UNCHANGED <<checks, rows, database, preset, options, steady>>
  BY DEF probeVars, Abort, Break, envVars, optVars, stepVars
<1>6. Audit \/ BeginReadOnly \/ Undo \/ End =>
        UNCHANGED <<checks, rows, database, preset, options, steady>>
  BY DEF Audit, BeginReadOnly, Undo, End, envVars, optVars
<1>7. BoundTimeout \/ SetOrReadSetting \/ Look \/ Refused =>
        UNCHANGED <<checks, rows, database, preset, options, steady>>
  BY DEF BoundTimeout, Interrupted, SetOrReadSetting, Look, Refused, envVars, optVars
<1>8. QED
  BY StepKinds, <1>1, <1>2, <1>3, <1>4, <1>5, <1>6, <1>7
-------------------------------------------------------------------------------
(***************************************************************************)
(* The invariant, and what follows from it.                                *)
(***************************************************************************)
\* The invariant holds before the command is dispatched,
LEMMA InitHolds ==
  ASSUME Init
  PROVE  IInv
<1>1. PICK c \in CommandLines : typed = c.typed /\ values = c.values
  BY DEF Init
<1>2. /\ typed \in [command : {"doctor", "init", "check", "other"}, help : BOOLEAN,
                    json : Nat, active : Nat, stray : BOOLEAN]
      /\ \A f \in TenantFlags : values[f] \in ProbeIds \cup {Absent, Blank, Twice}
  BY <1>1, CommandConstants, Zenon
<1> USE DEF Init, ProbeInit
<1>3. TypeOK
  <2>1. at \in Places
    BY DEF Places
  <2>2. checks \in [1 .. 5 -> {"none", "pass", "fail", "warn"}]
    OBVIOUS
  <2>3. seen \in [empty : BOOLEAN, visible : BOOLEAN, mismatch : BOOLEAN]
    BY DEF Unseen
  <2>4. findings \in BOOLEAN /\ steady \in BOOLEAN
    BY Zenon
  <2>5. /\ probe \in 0 .. 5
        /\ result \in {"none", "healthy", "findings", "error"}
        /\ client \in {"none", "open", "lost", "ended"}
        /\ tx \in {"none", "open", "broken"}
        /\ local = NoLocal
    OBVIOUS
  <2> HIDE DEF Init, ProbeInit
  <2>6. QED
    BY <2>1, <2>2, <2>3, <2>4, <2>5 DEF TypeOK
<1>4. Asked
  BY <1>2 DEF Asked, NoOptions
<1>5. Session
  BY DEF Session
<1>6. Progress
  BY DEF Progress, Probing
<1>7. Evidence
  BY DEF Evidence, Unseen
<1>8. Printed
  BY CommandConstants DEF Printed, OneResult
<1>9. QED
  BY <1>3, <1>4, <1>5, <1>6, <1>7, <1>8 DEF IInv

\* and every step keeps it.
LEMMA NextKeeps ==
  ASSUME IInv, [Next]_vars
  PROVE  IInv'
<1>1. Evidence'
  BY NotedKeeps, ShownKeeps, EvidenceWillBe
<1>2. QED
  BY <1>1, TypeKeeps, AskedKeeps, SessionKeeps, ProgressKeeps, PrintedKeeps DEF IInv

\* The inductive invariant of the command, the audit and the probes.
THEOREM InvariantHolds == Spec => []IInv
<1>1. Init => IInv
  BY InitHolds
<1>2. IInv /\ [Next]_vars => IInv'
  BY NextKeeps
<1>3. QED
  BY <1>1, <1>2, PTL DEF Spec

\* Whatever fails or is aborted, at whatever statement: no transaction and no
\* local setting of a probe is left when the table's result is decided or the
\* next probe begins (withReadOnlyTransaction).
THEOREM ProbesRolledBack == Spec => []RolledBackFirst
<1>1. IInv => RolledBackFirst
  BY DEF IInv, Progress, Session, RolledBackFirst
<1>2. QED
  BY <1>1, InvariantHolds, PTL

\* No probe runs unless --active was typed, with two ids that differ, whatever a
\* manifest says (parseDoctorArgs, validateDoctorBatchOptions).
THEOREM ProbesAsked == Spec => []ProbesOnlyWhenAsked
<1>1. IInv => ProbesOnlyWhenAsked
  <2>1. ASSUME IInv, probe > 0
        PROVE  options.active = TRUE
    BY <2>1 DEF IInv, TypeOK, Progress
  <2>2. QED
    BY <2>1 DEF IInv, Asked, ProbesOnlyWhenAsked
<1>2. QED
  BY <1>1, InvariantHolds, PTL

\* Five passes show a table that isolates the two tenants, where nobody wrote
\* while they ran: for any catalog, whatever else is wrong with it.
THEOREM PassesIsolate == Spec => []PassMeansIsolated
<1>1. ASSUME IInv, steady, \A i \in 1 .. 5 : checks[i] = "pass"
      PROVE  /\ Visible(preset) = {} /\ Visible(Empty) = {}
             /\ Visible(options.tenantA) = {Meant(options.tenantA)}
             /\ Visible(options.tenantB) = {Meant(options.tenantB)}
  <2>1. steady = TRUE
    BY <1>1 DEF IInv, TypeOK
  <2>2. checks[1] = "pass" /\ checks[2] = "pass" /\ checks[3] = "pass" /\ checks[4] = "pass"
    BY <1>1
  <2>3. QED
    BY <1>1, <2>1, <2>2, Zenon DEF IInv, Evidence
<1>2. IInv => PassMeansIsolated
  BY <1>1, Zenon DEF PassMeansIsolated
<1>3. QED
  BY <1>2, InvariantHolds, PTL

\* A command that exits printed exactly one result, as JSON if and only if --json
\* was typed (runDoctorCli).
THEOREM OneResultPrinted == Spec => []OneResult
<1>1. IInv => OneResult
  BY DEF IInv, Printed
<1>2. QED
  BY <1>1, InvariantHolds, PTL

\* A catalog on which every check passes isolates the tenants (HealthyIsolates of
\* DoctorAuditProofs, whose definitions are those of DoctorChecks here).
LEMMA AuditedIsolates ==
  ASSUME NEW c \in Catalog, HealthyCatalog(c)
  PROVE  Isolates(c)
<1>1. c \in AuditProofs!Catalog
  BY DEF Catalog, Policy, PolicyNames, Generated, Expressions, NoExpr, AuditProofs!Catalog,
         AuditProofs!Policy, AuditProofs!PolicyNames, AuditProofs!Generated,
         AuditProofs!Expressions, AuditProofs!NoExpr
<1>2. HealthyCatalog(c) <=> AuditProofs!HealthyCatalog(c)
  BY DEF HealthyCatalog, Statements, Passes, SessionChecks, RoleChecks, TableChecks,
         RowSecurityActive, ColumnChecks, PrivilegeChecks, PolicyChecks, IsolationContract,
         InsertContract, ContextGuardContract, HasExactPublicRole, UnexpectedPermissive,
         NoExpr, PolicyNames, Generated,
         AuditProofs!HealthyCatalog, AuditProofs!Statements, AuditProofs!Passes,
         AuditProofs!SessionChecks, AuditProofs!RoleChecks, AuditProofs!TableChecks,
         AuditProofs!RowSecurityActive, AuditProofs!ColumnChecks,
         AuditProofs!PrivilegeChecks, AuditProofs!PolicyChecks,
         AuditProofs!IsolationContract, AuditProofs!InsertContract,
         AuditProofs!ContextGuardContract, AuditProofs!HasExactPublicRole,
         AuditProofs!UnexpectedPermissive, AuditProofs!NoExpr, AuditProofs!PolicyNames,
         AuditProofs!Generated
<1>3. {} \subseteq {p \in AuditProofs!Policy : AuditProofs!WellFormed(p)} /\ 0 \in Nat
  OBVIOUS
<1>4. NoPolicy \notin AuditProofs!Policy
  BY NoPolicyIsNone
  DEF Policy, Expressions, NoExpr, AuditProofs!Policy, AuditProofs!Expressions,
      AuditProofs!NoExpr
<1>5. AuditProofs!Isolates(c)
  BY <1>1, <1>2, <1>3, <1>4, CatalogConstants, AuditProofs!HealthyIsolates
<1>6. AuditProofs!Isolates(c) <=> Isolates(c)
  BY DEF Isolates, Exempt, Settings, RowTenants, Sees, Inserts, Deletes, Updates, Pass,
         Applying, Holds, Expression, PolicyNames, Generated, NoExpr,
         AuditProofs!Isolates, AuditProofs!Exempt, AuditProofs!Settings,
         AuditProofs!RowTenants, AuditProofs!Sees, AuditProofs!Inserts,
         AuditProofs!Deletes, AuditProofs!Updates, AuditProofs!Pass,
         AuditProofs!Applying, AuditProofs!Holds, AuditProofs!Expression,
         AuditProofs!PolicyNames, AuditProofs!Generated, AuditProofs!NoExpr
<1>. QED  BY <1>5, <1>6

\* Exit code 0 means a catalog on which row-level security isolates every two
\* tenants, for the application's own login, and all five probes if they were
\* asked for.
THEOREM ExitZeroIsolates == Spec => []ExitZeroMeansIsolated
<1>1. ASSUME IInv, exit = 0, Audited
      PROVE  /\ database # Absent /\ database.who = "app" /\ Isolates(cat)
             /\ typed.active > 0 => \A i \in 1 .. 5 : checks[i] = "pass"
  <2>1. at = "done" /\ result = "healthy"
    BY <1>1 DEF IInv, Printed
  <2>2. /\ database \in Databases /\ AllPass
        /\ options.active = TRUE => \A i \in 1 .. 5 : checks[i] = "pass"
    BY <1>1, <2>1 DEF IInv, Progress
  <2>3. typed.active > 0 => options.active = TRUE
    BY <1>1, <2>1 DEF IInv, Asked
  <2>4. database.who = "app" /\ HealthyCatalog(cat) /\ cat \in Catalog /\ database # Absent
    BY <2>2, PassingIsApp, ProbeConstants DEF cat
  <2>5. Isolates(cat)
    BY <2>4, AuditedIsolates
  <2>6. QED
    BY <2>2, <2>3, <2>4, <2>5
<1>2. IInv => ExitZeroMeansIsolated
  BY <1>1, Zenon DEF ExitZeroMeansIsolated
<1>3. QED
  BY <1>2, InvariantHolds, PTL
===============================================================================
