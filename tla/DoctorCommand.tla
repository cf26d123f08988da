----------------------------- MODULE DoctorCommand -----------------------------
(***************************************************************************)
(* The command line around the audits:                                     *)
(*   src/src/cli/index.ts             runCliMain, runCli                   *)
(*   src/src/cli/doctor-contract.ts   parseDoctorArgs,                     *)
(*                                    validateDoctorOptions, the result    *)
(*   src/src/cli/doctor-batch.ts      the manifest, runDoctorBatch         *)
(*                                                                         *)
(* One table is followed through DoctorProbe, that of --table or any one   *)
(* of a manifest; the other tables of a batch, which share nothing with    *)
(* it, have any result (DoctorBatch has the workers).                      *)
(***************************************************************************)
EXTENDS DoctorProbe

CONSTANTS
  CommandLines,   \* what may be typed, and DATABASE_URL
  Manifests,      \* what may be in the manifest file
  Tables,         \* well-formed qualified table names
  Blank,          \* a value that is empty, or missing after its flag
  Spaces,         \* a value of blanks only
  Twice,          \* a flag that is given twice
  NotAString      \* a JSON value of another type

\* What a table's options are made of, given by flags or by a manifest.
Inherited == {"role", "settingKey", "tenantColumn", "tenantA", "tenantB"}

ValueFlags == Inherited \cup {"url", "table", "manifest", "concurrency", "timeoutMs"}

Valued == ValueFlags \cup {"DATABASE_URL"}
Named  == Inherited \cup {"unknown"}    \* properties; all others are one

TenantFlags == {"tenantA", "tenantB"}

\* Flags and properties that are left out have the value Absent.
ASSUME CommandConstants ==
  /\ Absent \notin 0 .. 2
  /\ \A c \in CommandLines :
       /\ c.typed \in [command : {"doctor", "init", "check", "other"}, help : BOOLEAN,
                       json : Nat, active : Nat, stray : BOOLEAN]
       /\ DOMAIN c.values = Valued
       /\ \A f \in TenantFlags : c.values[f] \in ProbeIds \cup {Absent, Blank, Twice}
  /\ \A m \in Manifests :
       \A p \in {m.defaults} \cup {m.tables[i] : i \in DOMAIN m.tables} :
         /\ Named \subseteq DOMAIN p
         /\ \A f \in TenantFlags : p[f] \in ProbeIds \cup {Absent, Blank, NotAString}

VARIABLES
  typed,      \* the command, --help, how often --json and --active are given,
              \* and whether anything unknown is
  values,     \* the value flags and DATABASE_URL, until they are parsed
  tables,     \* how many tables are audited
  stdout,     \* what was written to it: JSON results, and other texts
  stderr,     \* texts
  exit        \* process.exitCode, or Absent while it runs

cliVars == <<typed, values, tables, stdout, stderr, exit>>
vars    == <<probeVars, cliVars>>

NoValues == [f \in Valued |-> Absent]

Init ==
  /\ ProbeInit
  /\ \E c \in CommandLines : typed = c.typed /\ values = c.values
  /\ tables = 0
  /\ stdout = [json |-> 0, text |-> 0] /\ stderr = 0
  /\ exit = Absent

-------------------------------------------------------------------------------
(***************************************************************************)
(* Results are printed and turned into the exit code at once.              *)
(***************************************************************************)
Codes == [healthy |-> 0, warning |-> 1, unhealthy |-> 1, findings |-> 1, error |-> 2]

Output(json) ==
  stdout' = IF json THEN [stdout EXCEPT !.json = @ + 1] ELSE [stdout EXCEPT !.text = @ + 1]

ExitWith(code) == exit' = code /\ values' = NoValues

\* Seeded fault: --json counts only where the options could be parsed.
UsageErrorAsText ==
  /\ stderr' = stderr + 1 /\ Output(FALSE)
  /\ ExitWith(Codes["error"])

\* formatDoctorCliError: to stdout as JSON, or to stderr with the help
UsageError ==
  /\ IF typed.json > 0 THEN UNCHANGED stderr ELSE stderr' = stderr + 1
  /\ Output(typed.json > 0)
  /\ ExitWith(Codes["error"])

\* formatDoctorResult, formatDoctorBatchResult
Report(status) ==
  /\ Output(typed.json > 0)
  /\ ExitWith(Codes[status])
  /\ UNCHANGED stderr

-------------------------------------------------------------------------------
(***************************************************************************)
(* parseDoctorArgs.  Which of several errors is reported is left out.      *)
(***************************************************************************)
\* A flag that is unknown, given twice, or without its value.
Malformed ==
  \/ typed.stray \/ typed.json > 1 \/ typed.active > 1
  \/ \E f \in ValueFlags : values[f] \in {Blank, Twice}

Given(f) == values[f] # Absent

Url == IF Given("url") THEN values["url"] ELSE values["DATABASE_URL"]

\* parseBoundedInteger; a text that is no number is -1
InBounds(f, low, high) == Given(f) => values[f] \in low .. high

ParsesAsBatch ==
  /\ Given("manifest") /\ ~ Given("table")
  /\ \A f \in Inherited : ~ Given(f)
  /\ InBounds("concurrency", 1, 16) /\ InBounds("timeoutMs", 1, 600000)

ParsesAsTable ==
  /\ Given("table") /\ ~ Given("manifest") /\ Given("role")
  /\ ~ Given("concurrency") /\ ~ Given("timeoutMs")
  /\ IF typed.active = 1
     THEN /\ Given("tenantA") /\ Given("tenantB")
          /\ values["tenantA"] # values["tenantB"]
     ELSE ~ Given("tenantA") /\ ~ Given("tenantB")

Parses(kind) == ~ Malformed /\ Url \notin {Absent, Blank} /\ kind

-------------------------------------------------------------------------------
(***************************************************************************)
(* validateDoctorOptions, of one table's options.                          *)
(***************************************************************************)
Text(v) == v \notin {Absent, Blank}     \* isSafeText

Valid(o) ==
  /\ Url # Spaces                       \* url.trim()
  /\ o["table"] \in Tables              \* parseQualifiedTable
  /\ Text(o["role"])
  /\ o["settingKey"] \in {Absent, "valid"}
  /\ o["tenantColumn"] \in {Absent, "valid"}
  /\ IF o["active"]
     THEN Text(o["tenantA"]) /\ Text(o["tenantB"]) /\ o["tenantA"] # o["tenantB"]
     ELSE o["tenantA"] = Absent /\ o["tenantB"] = Absent

Validated(o) == [active |-> o["active"], tenantA |-> o["tenantA"], tenantB |-> o["tenantB"]]

OptionsOfTable ==
  [f \in Inherited \cup {"table", "active"} |->
     IF f = "active" THEN typed.active = 1 ELSE values[f]]

-------------------------------------------------------------------------------
(***************************************************************************)
(* validateDoctorBatchOptions: the manifest's defaults, and a table's own  *)
(* properties before them.                                                 *)
(***************************************************************************)
\* validateStringProperties, unknownKey
Proper(properties) ==
  /\ properties["unknown"] = Absent
  /\ \A f \in DOMAIN properties : properties[f] # NotAString

\* Seeded fault: tenants in the manifest enable the probes.
ActiveByManifest(m, entry) ==
  typed.active = 1 \/ Text(entry["tenantA"]) \/ Text(m.defaults["tenantA"])

Active(m, entry) == typed.active = 1

OptionsOfEntry(m, entry) ==
  [f \in Inherited \cup {"table", "active"} |->
     CASE f = "active" -> Active(m, entry)
       [] f = "table"  -> entry["table"]
       [] f \in {"tenantA", "tenantB"} /\ ~ Active(m, entry) -> Absent
       [] OTHER -> IF entry[f] # Absent THEN entry[f] ELSE m.defaults[f]]

ValidManifest(m) ==
  /\ m.shape = "manifest"               \* an object of this version, no more
  /\ Proper(m.defaults)
  /\ m.tables # <<>>
  /\ \A i \in DOMAIN m.tables :
       Proper(m.tables[i]) /\ Valid(OptionsOfEntry(m, m.tables[i]))
  /\ \A i, j \in DOMAIN m.tables :
       m.tables[i]["table"] = m.tables[j]["table"] => i = j

-------------------------------------------------------------------------------
(***************************************************************************)
(* runCli and runCliMain.                                                  *)
(***************************************************************************)
Dispatched(command) == exit = Absent /\ at = "off" /\ typed.command = command

\* runInit handles its errors; runCheck's go to runCliMain.
RunInit ==
  /\ Dispatched("init")
  /\ \/ \E code \in {0, 1} : ExitWith(code) /\ UNCHANGED <<stdout, stderr>>
     \/ ExitWith(1) /\ stderr' = stderr + 1 /\ UNCHANGED stdout
  /\ UNCHANGED <<typed, tables, probeVars>>

RunCheck ==
  /\ Dispatched("check")
  /\ \/ \E code \in {0, 1} : ExitWith(code) /\ UNCHANGED <<stdout, stderr>>
     \/ /\ ExitWith(2)
        /\ IF typed.json > 0 THEN Output(TRUE) /\ UNCHANGED stderr
                             ELSE stderr' = stderr + 1 /\ UNCHANGED stdout
  /\ UNCHANGED <<typed, tables, probeVars>>

ShowHelp ==
  /\ Dispatched("other") \/ (Dispatched("doctor") /\ typed.help)
  /\ Output(FALSE) /\ ExitWith(0)
  /\ UNCHANGED <<typed, tables, stderr, probeVars>>

RefuseUsage ==
  /\ Dispatched("doctor") /\ ~ typed.help
  /\ ~ Parses(ParsesAsTable) /\ ~ Parses(ParsesAsBatch)
  /\ UsageError
  /\ UNCHANGED <<typed, tables, probeVars>>

\* one table: runDoctor, or its INVALID_OPTIONS
DoctorTable ==
  /\ Dispatched("doctor") /\ ~ typed.help /\ Parses(ParsesAsTable)
  /\ IF Valid(OptionsOfTable)
     THEN /\ RunDoctor(Validated(OptionsOfTable), FALSE)
          /\ values' = NoValues /\ tables' = 1
          /\ UNCHANGED <<typed, stdout, stderr, exit>>
     ELSE Report("error") /\ UNCHANGED <<typed, tables, probeVars>>

\* a manifest: it is read, and one of its tables followed, or INVALID_MANIFEST
DoctorManifest ==
  /\ Dispatched("doctor") /\ ~ typed.help /\ Parses(ParsesAsBatch)
  /\ \E m \in Manifests :
       IF ValidManifest(m)
       THEN /\ \E i \in DOMAIN m.tables :
                 RunDoctor(Validated(OptionsOfEntry(m, m.tables[i])), TRUE)
            /\ values' = NoValues /\ tables' = Len(m.tables)
            /\ UNCHANGED <<typed, stdout, stderr, exit>>
       ELSE Report("error") /\ UNCHANGED <<typed, tables, probeVars>>

\* doctorBatchChecksResult
Worst(statuses) ==
  IF "error" \in statuses THEN "error"
  ELSE IF statuses = {"healthy"} THEN "healthy" ELSE "findings"

DoctorDone ==
  /\ at = "done" /\ exit = Absent
  /\ IF tables > 1
     THEN \E others \in (SUBSET {"healthy", "findings", "error"}) \ {{}} :
            Report(Worst({result} \cup others))
     ELSE Report(result)
  /\ UNCHANGED <<typed, tables, probeVars>>

CliStep == \/ RunInit \/ RunCheck \/ ShowHelp \/ RefuseUsage
           \/ DoctorTable \/ DoctorManifest \/ DoctorDone

Next ==
  \/ CliStep
  \/ (AuditStep \/ Break \/ Abort \/ Write) /\ UNCHANGED cliVars

Spec == Init /\ [][Next]_vars

\* pg settles every call (connection and statement time-outs).
FairSpec ==
  /\ Spec
  /\ WF_vars(CliStep) /\ WF_vars(AuditStep /\ UNCHANGED cliVars)

-------------------------------------------------------------------------------
(***************************************************************************)
(* Properties.                                                             *)
(***************************************************************************)
Audited == typed.command = "doctor" /\ ~ typed.help

\* "--json  Emit exactly one JSON result", whatever is wrong with the rest of
\* the command line, the manifest, the connection or the table; and never
\* without it.
OneResult ==
  exit # Absent /\ Audited =>
    IF typed.json > 0 THEN stdout = [json |-> 1, text |-> 0] /\ stderr = 0
                      ELSE stdout = [json |-> 0, text |-> 1]

\* A command that exits with 0 found a table that isolates its tenants for the
\* role it is used by, and, where probes were asked for, ran all five of them
\* and saw them pass: none is skipped in silence.
ExitZeroMeansIsolated ==
  exit = 0 /\ Audited =>
    /\ database # Absent /\ database.who = "app" /\ Isolates(cat)
    /\ typed.active > 0 => \A i \in 1 .. 5 : checks[i] = "pass"

\* "the manifest alone can never enable live probes": one runs only if --active
\* was typed, with two ids that are given and differ.
ProbesOnlyWhenAsked ==
  probe > 0 => /\ typed.active = 1
               /\ options.tenantA \in ProbeIds /\ options.tenantB \in ProbeIds
               /\ options.tenantA # options.tenantB

\* The command ends, although its connection may break and its batch be
\* aborted at any moment.
CommandEnds == <>(exit # Absent)
===============================================================================
