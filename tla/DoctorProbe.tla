------------------------------ MODULE DoctorProbe ------------------------------
(***************************************************************************)
(* The audit of one table with --active, on its connection:                *)
(*   src/src/cli/doctor-probe.ts     the five read-only probes             *)
(*   src/src/cli/doctor-catalog.ts   when they run                         *)
(*   src/src/cli/doctor-runner.ts    runDoctor around them                 *)
(*                                                                         *)
(* The catalog stays as it is (DoctorAudit lets it change) and is audited  *)
(* in one step; other sessions write rows meanwhile.  Any statement may be *)
(* refused, the connection may break, and a batch may be aborted.          *)
(***************************************************************************)
EXTENDS DoctorChecks

CONSTANTS
  Databases,    \* catalogs, each with who the doctor logs in as
  RowSets,      \* the tenants that have rows, as other sessions write them
  Preset,       \* values the setting may have in a new session
  ProbeIds,     \* what can be given as a tenant id
  UuidOf,       \* of those that are UUIDs, the tenant they spell
  Absent,       \* undefined
  NoLocal       \* the transaction has not set the setting

ASSUME ProbeConstants ==
  /\ Databases \subseteq [cat : Catalog, who : Logins]
  /\ RowSets \subseteq SUBSET (Tenants \cup {Empty})
  /\ DOMAIN UuidOf \subseteq ProbeIds /\ \A t \in DOMAIN UuidOf : UuidOf[t] \in Tenants
  /\ Absent \notin ProbeIds /\ Absent \notin Databases
  /\ NoLocal \notin [value : ProbeIds, isLocal : BOOLEAN]

VARIABLES
  database,   \* the catalog and the login, once connected
  rows,       \* the tenants with rows in the table
  steady,     \* nobody has written since the audit began
  preset,     \* the setting as the session was given it, by its role, say
  options,    \* ValidatedDoctorOptions: active, tenantA, tenantB
  abortable,  \* a signal was passed: the table is one of a batch
  aborted,    \* signal.aborted
  client,     \* "none", "open", "lost" or "ended"
  tx,         \* the session's transaction: "none", "open" or "broken"
  setting,    \* the session's value of the setting
  local,      \* what the transaction has set it to, and for how long
  at,         \* where the audit is
  probe,      \* the probe that runs
  seen,       \* what its statements returned
  checks,     \* the status of each probe's check
  findings,   \* a check of the catalog fails
  result      \* the table's result

envVars   == <<database, rows, steady, preset>>
optVars   == <<options, abortable, aborted>>
connVars  == <<client, tx, setting, local>>
stepVars  == <<at, probe, seen, checks, findings, result>>
probeVars == <<envVars, optVars, connVars, stepVars>>

NoOptions == [active |-> FALSE, tenantA |-> Absent, tenantB |-> Absent]
Unseen    == [empty |-> FALSE, visible |-> FALSE, mismatch |-> FALSE]

ProbeInit ==
  /\ database = Absent /\ rows = {} /\ steady = TRUE
  /\ preset = Unset /\ setting = Unset
  /\ options = NoOptions /\ abortable = FALSE /\ aborted = FALSE
  /\ client = "none" /\ tx = "none" /\ local = NoLocal
  /\ at = "off" /\ probe = 0 /\ seen = Unseen
  /\ checks = [i \in 1 .. 5 |-> "none"] /\ findings = FALSE
  /\ result = "none"

-------------------------------------------------------------------------------
(***************************************************************************)
(* The session (external): set_config(), the end of a transaction, what it *)
(* shows of the setting, and what row-level security shows of the rows.    *)
(***************************************************************************)
cat == database.cat

\* A session-level value survives a COMMIT, a local one nothing; a setting that
\* was ever set locally is empty afterwards, not unset.
Reverted == IF local # NoLocal /\ setting = Unset THEN Empty ELSE setting

EndTx(commits) ==
  /\ tx' = "none" /\ local' = NoLocal
  /\ setting' = IF commits /\ local # NoLocal /\ ~ local.isLocal
                THEN local.value ELSE Reverted

Current == IF local # NoLocal THEN local.value ELSE setting

\* A UUID column compares UUIDs, a text column what was written.
Meant(s) == IF cat.column = "uuid" /\ s \in DOMAIN UuidOf THEN UuidOf[s] ELSE s

Visible(s) == {t \in rows : ~ RowSecurityActive(cat) \/ Sees(cat, Meant(s), t)}

-------------------------------------------------------------------------------
Goto(place) == at' = place

\* runDoctor() with options that validateDoctorOptions accepts
RunDoctor(o, signal) ==
  /\ at = "off"
  /\ options' = o /\ abortable' = signal
  /\ Goto("connect")
  /\ UNCHANGED <<envVars, aborted, connVars, probe, seen, checks, findings, result>>

\* an error of the audit: its result is decided, and the client is ended
Fail == result' = "error" /\ Goto("end")

Connect ==
  /\ at = "connect"
  /\ \/ /\ ~ aborted
        /\ client' = "open" /\ Goto("audit")
        /\ database' \in Databases /\ rows' \in RowSets
        /\ preset' \in Preset /\ setting' = preset'
        /\ UNCHANGED <<steady, result>>
     \/ /\ client' \in {"none", "open", "lost"} /\ Fail   \* aborted, or it failed
        /\ UNCHANGED <<envVars, setting>>
  /\ UNCHANGED <<optVars, tx, local, probe, seen, checks, findings>>

\* Seeded fault: only a text column is probed.
CanProbeText ==
  database.who # "admin" /\ cat.column = "text" /\ cat.dml

CanProbe ==
  /\ database.who # "admin"                     \* current_user = options.role
  /\ cat.role # "none"                          \* or the audit returns before
  /\ cat.column \in {"text", "uuid"}
  /\ cat.dml                                    \* can_select

\* UUID_REGEX
IdsFit == cat.column = "uuid" => {options.tenantA, options.tenantB} \subseteq DOMAIN UuidOf

Decide(verdict) == result' = verdict /\ Goto("end")

\* auditDoctorDatabase: the checks of the catalog, and whether to probe
Audit ==
  /\ at = "audit"
  /\ LET fails == \E i \in 1 .. 8 : ~ Passes(Statements[i], cat, database.who)
         probes == options.active /\ CanProbe
     IN
     \/ Fail /\ UNCHANGED <<probe, findings>>
     \/ /\ ~ aborted /\ client = "open"
        /\ findings' = (fails \/ (probes /\ ~ IdsFit))
        /\ IF probes /\ IdsFit
           THEN probe' = 1 /\ Goto("begin") /\ UNCHANGED result
           ELSE Decide(IF findings' THEN "findings" ELSE "healthy") /\ UNCHANGED probe
  /\ UNCHANGED <<envVars, optVars, connVars, seen, checks>>

-------------------------------------------------------------------------------
(***************************************************************************)
(* withReadOnlyTransaction.  A statement of it is refused by PostgreSQL,   *)
(* which leaves the transaction to be rolled back, or never answered.      *)
(***************************************************************************)
Ids == <<Absent, options.tenantA, Absent, options.tenantB, Absent>>
IsTenantProbe == probe \in {2, 4}

Refused ==
  /\ at \in {"bound", "setting", "look", "finish"}
  /\ \/ client = "open" /\ tx' = "broken"
     \/ client = "lost" /\ UNCHANGED tx
  /\ Goto("undo")
  /\ UNCHANGED <<envVars, optVars, client, setting, local, probe, seen, checks,
                 findings, result>>

\* throwIfAborted inside the transaction
Interrupted ==
  /\ aborted
  /\ Goto("undo")
  /\ UNCHANGED <<envVars, optVars, connVars, probe, seen, checks, findings, result>>

BeginReadOnly ==
  /\ at = "begin"
  /\ \/ Fail /\ UNCHANGED tx
     \/ /\ ~ aborted /\ client = "open"
        /\ tx' = "open" /\ Goto("bound") /\ UNCHANGED result
  /\ UNCHANGED <<envVars, optVars, client, setting, local, probe, seen, checks, findings>>

\* set_config('statement_timeout', ...), then the probe's own first statement
BoundTimeout ==
  /\ at = "bound" /\ client = "open"
  /\ \/ Interrupted
     \/ /\ ~ aborted
        /\ Goto("setting")
        /\ UNCHANGED <<envVars, optVars, connVars, probe, seen, checks, findings, result>>

\* Seeded fault: the tenant is set for the session.
TenantForSession(t) == local' = [value |-> t, isLocal |-> FALSE]

SetTenant(t) == local' = [value |-> t, isLocal |-> TRUE]

\* tenantProbe sets the tenant, noContextProbe reads the setting
SetOrReadSetting ==
  /\ at = "setting" /\ client = "open"
  /\ IF IsTenantProbe
     THEN SetTenant(Ids[probe]) /\ UNCHANGED seen
     ELSE /\ seen' = [Unseen EXCEPT !.empty = Current \in {Unset, Empty}]
          /\ UNCHANGED local
  /\ Goto("look")
  /\ UNCHANGED <<envVars, optVars, client, tx, setting, probe, checks, findings, result>>

\* The rows and, for a tenant, those of another one, in one statement.
Look ==
  /\ at = "look" /\ client = "open"
  /\ cat.usage
  /\ cat.column = "uuid" => Current \in DOMAIN UuidOf \cup {Unset, Empty}
  /\ LET visible == Visible(Current) IN
     seen' = [seen EXCEPT !.visible = visible # {},
                          !.mismatch = IsTenantProbe /\ visible \ {Meant(Ids[probe])} # {}]
  /\ \/ aborted /\ Goto("undo")
     \/ ~ aborted /\ Goto("finish")
  /\ UNCHANGED <<envVars, optVars, connVars, probe, checks, findings, result>>

\* Seeded fault: what shows no rows passes.
StatusUnlessLeaking ==
  IF IsTenantProbe
  THEN IF seen.mismatch THEN "fail" ELSE "pass"
  ELSE IF seen.empty /\ ~ seen.visible THEN "pass" ELSE "fail"

\* addNoContextCheck, addTenantProbeCheck
Status ==
  IF IsTenantProbe
  THEN IF seen.mismatch THEN "fail" ELSE IF seen.visible THEN "pass" ELSE "warn"
  ELSE IF seen.empty /\ ~ seen.visible THEN "pass" ELSE "fail"

\* doctorChecksResult
Outcome(cs) ==
  IF findings \/ \E i \in 1 .. 5 : cs[i] \in {"fail", "warn"} THEN "findings" ELSE "healthy"

\* COMMIT of tenant A's probe, ROLLBACK of the others; then its check, and the
\* next probe
Finish ==
  /\ at = "finish" /\ client = "open"
  /\ EndTx(probe = 2)
  /\ checks' = [checks EXCEPT ![probe] = Status]
  /\ seen' = Unseen
  /\ IF probe < 5
     THEN probe' = probe + 1 /\ Goto("begin") /\ UNCHANGED result
     ELSE Decide(Outcome(checks')) /\ UNCHANGED probe
  /\ UNCHANGED <<envVars, optVars, client, findings>>

\* Seeded faults: the error is returned before the transaction is ended; the
\* ROLLBACK is repeated until it succeeds.
LeaveOpen ==
  /\ at = "undo" /\ Fail
  /\ UNCHANGED <<envVars, optVars, connVars, probe, seen, checks, findings>>
UndoUntilDone ==
  /\ at = "undo" /\ client = "open"
  /\ EndTx(FALSE) /\ Fail
  /\ UNCHANGED <<envVars, optVars, client, probe, seen, checks, findings>>

\* finally: ROLLBACK; if that fails, the error that led here is kept
Undo ==
  /\ at = "undo"
  /\ \/ client = "open" /\ EndTx(FALSE)
     \/ client = "lost" /\ UNCHANGED <<tx, setting, local>>
  /\ Fail
  /\ UNCHANGED <<envVars, optVars, client, probe, seen, checks, findings>>

\* finally: client.end()
End ==
  /\ at = "end"
  /\ client' = IF client = "none" THEN client ELSE "ended"
  /\ Goto("done")
  /\ UNCHANGED <<envVars, optVars, tx, setting, local, probe, seen, checks, findings, result>>

AuditStep ==
  \/ Connect \/ Audit \/ BeginReadOnly \/ BoundTimeout \/ SetOrReadSetting \/ Look
  \/ Refused \/ Finish \/ Undo \/ End

-------------------------------------------------------------------------------
(***************************************************************************)
(* What happens to it.                                                     *)
(***************************************************************************)
Running == at \notin {"off", "done"}

\* The connection breaks: the server rolls back.
Break ==
  /\ client = "open" /\ Running
  /\ client' = "lost"
  /\ EndTx(FALSE)
  /\ UNCHANGED <<envVars, optVars, stepVars>>

\* The batch is aborted: by its caller or its deadline.
Abort ==
  /\ abortable /\ Running /\ ~ aborted
  /\ aborted' = TRUE
  /\ UNCHANGED <<envVars, options, abortable, connVars, stepVars>>

\* Another session writes.
Write ==
  /\ Running /\ database # Absent
  /\ rows' \in RowSets \ {rows}
  /\ steady' = FALSE
  /\ UNCHANGED <<database, preset, optVars, connVars, stepVars>>

-------------------------------------------------------------------------------
(***************************************************************************)
(* Properties.                                                             *)
(***************************************************************************)
\* "an opened probe transaction is rolled back before its table result
\* returns", whether the audit was aborted, a statement failed or all went well;
\* and between two probes the session shows the setting it came with.
RolledBackFirst ==
  result # "none" \/ at = "begin" =>
    /\ tx = "none" /\ local = NoLocal
    /\ setting = preset \/ (preset = Unset /\ setting = Empty)

\* "inconclusive rather than a false pass": where all five probes pass, and
\* nobody wrote meanwhile, a session without a tenant sees nothing, and each of
\* the two tenants sees rows, and only its own; whatever the catalog says.
PassMeansIsolated ==
  steady /\ (\A i \in 1 .. 5 : checks[i] = "pass") =>
    /\ Visible(preset) = {} /\ Visible(Empty) = {}
    /\ \A t \in {options.tenantA, options.tenantB} : Visible(t) = {Meant(t)}
===============================================================================
