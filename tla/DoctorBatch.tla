------------------------------ MODULE DoctorBatch ------------------------------
(***************************************************************************)
(* Auditing many tables at once:                                           *)
(*   src/src/cli/doctor-batch.ts    runDoctorBatch, the worker pool        *)
(*   src/src/cli/doctor-runner.ts   runDoctor, one table over one client   *)
(*   src/src/cli/doctor-catalog.ts  auditDoctorDatabase, its statements    *)
(*                                                                         *)
(* Workers share a counter of the tables taken and one AbortController,    *)
(* which the caller's signal and a deadline may abort at any moment.  An   *)
(* action is what runs between two awaits.  The audit is the one without   *)
(* --active; PostgreSQL and pg are external: a call succeeds or fails.     *)
(***************************************************************************)
EXTENDS Integers, Sequences, FiniteSets

CONSTANTS
  N,             \* tables in the manifest
  Concurrency    \* options.concurrency

ASSUME BatchConstants == N \in Nat \ {0} /\ Concurrency \in 1 .. 16

Tables  == 1 .. N
Workers == 1 .. (IF Concurrency < N THEN Concurrency ELSE N)

VARIABLES
  signal,      \* why the controller was aborted, or "none"
  code,        \* interruption.code
  timer,       \* the deadline is armed
  listening,   \* the caller's signal may still abort
  next,        \* nextIndex
  at,          \* where a worker is
  table,       \* the table it works on
  given,       \* the abortCode it passed to runDoctor
  outcome,     \* what its runDoctor is about to return
  client,      \* the pg client of a table
  answered,    \* how many statements of a table's audit are behind it
  results,     \* the results, at the index of their table
  batch        \* what runDoctorBatch resolved to

run  == <<table, given, outcome, client, answered>>
vars == <<signal, code, timer, listening, next, at, run, results, batch>>

None     == "none"
Verdicts == {"healthy", "warning", "unhealthy"}
Codes    == {"ABORTED", "TIMEOUT"}
Errors   == Codes \cup {"DRIVER_UNAVAILABLE", "CONNECTION_FAILED", "QUERY_FAILED"}
Pending  == [status |-> None, error |-> None]

Aborted == signal # None

\* The statements of an audit, in order; "member" is sent only if "set" fails.
Audit == <<"timeout", "search_path", "session", "role", "table", "column",
           "privilege", "policy", "set", "member", "index">>

\* after these throwIfAborted is called
AbortChecked == {"timeout", "role", "column", "privilege", "policy", "set",
                 "member", "index"}

\* after these the audit may be over: no role or table; no tenant column
MayEnd == {"table", "set", "member"}

-------------------------------------------------------------------------------
(***************************************************************************)
(* The worker: the loop up to its next await.                              *)
(***************************************************************************)
Move(w, place) == at' = [at EXCEPT ![w] = place]

\* runDoctor up to client.connect(): the driver may be missing
StartDoctor(w, i) ==
  /\ table' = [table EXCEPT ![w] = i]
  /\ given' = [given EXCEPT ![w] = code]
  /\ answered' = [answered EXCEPT ![i] = 0]
  /\ \/ /\ client' = [client EXCEPT ![i] = "open"]
        /\ Move(w, "connecting")
        /\ UNCHANGED outcome
     \/ /\ outcome' = [outcome EXCEPT ![w] = "DRIVER_UNAVAILABLE"]
        /\ Move(w, "returned")
        /\ UNCHANGED client

\* Seeded fault: the counter is not advanced.
TakeAgain(w, res) ==
  IF next > N THEN Move(w, "done") /\ results' = res /\ UNCHANGED <<next, run>>
  ELSE StartDoctor(w, next) /\ results' = res /\ UNCHANGED next

\* from results[index] = ... to the next await: no table is left, or those left
\* are not started any more, or the next one is
Advance(w, res) ==
  \/ /\ next > N \/ Aborted
     /\ results' = [i \in Tables |-> IF i >= next THEN code ELSE res[i]]
     /\ next' = (IF next > N THEN next ELSE N + 1) + 1
     /\ Move(w, "done")
     /\ UNCHANGED run
  \/ /\ next <= N /\ ~ Aborted
     /\ StartDoctor(w, next)
     /\ next' = next + 1
     /\ results' = res

Returned(w) ==
  /\ at[w] = "returned"
  /\ Advance(w, [results EXCEPT ![table[w]] = outcome[w]])
  /\ UNCHANGED <<signal, code, timer, listening, batch>>

-------------------------------------------------------------------------------
(***************************************************************************)
(* runDoctor, from client.connect() on.                                    *)
(***************************************************************************)
\* Seeded fault: only the code passed at the start counts.
GivenCode(w) == given[w]

\* abortedCode
AbortedCode(w) == IF signal = "TIMEOUT" THEN "TIMEOUT" ELSE given[w]

\* Seeded faults: client.end() is not awaited; an interrupted audit passes.
ReturnAtOnce(w, out) ==
  /\ outcome' = [outcome EXCEPT ![w] = out]
  /\ Move(w, "returned")

PassInterrupted(w, out) ==
  /\ outcome' = [outcome EXCEPT ![w] = IF out \in Codes THEN "healthy" ELSE out]
  /\ Move(w, "ending")

\* the result is known; finally, the client is ended
Conclude(w, out) ==
  /\ outcome' = [outcome EXCEPT ![w] = out]
  /\ Move(w, "ending")

Connected(w) ==
  /\ at[w] = "connecting"
  /\ IF Aborted THEN Conclude(w, AbortedCode(w))
                ELSE Move(w, "query") /\ UNCHANGED outcome
  /\ UNCHANGED <<table, given, client, answered>>

ConnectFails(w) ==
  /\ at[w] = "connecting"
  /\ Conclude(w, "CONNECTION_FAILED")
  /\ UNCHANGED <<table, given, client, answered>>

\* a statement is answered: the audit goes on, or it is over
QueryReturns(w) ==
  LET i == table[w]
      q == Audit[answered[i] + 1]
      n == IF q = "set" THEN answered[i] + 2 ELSE answered[i] + 1
  IN
  /\ at[w] = "query"
  /\ answered' = [answered EXCEPT ![i] = n]
  /\ IF Aborted /\ q \in AbortChecked
     THEN Conclude(w, AbortedCode(w))
     ELSE \/ n < Len(Audit) /\ UNCHANGED <<at, outcome>>
          \/ q \in MayEnd /\ Conclude(w, "unhealthy")
          \/ n = Len(Audit) /\ \E v \in Verdicts : Conclude(w, v)
  /\ UNCHANGED <<table, given, client>>

\* Seeded fault: the older form is retried in turn.
RetryInTurn(w) ==
  LET i == table[w] IN
  /\ at[w] = "query"
  /\ CASE Audit[answered[i] + 1] = "set" ->
            answered' = [answered EXCEPT ![i] = @ + 1] /\ UNCHANGED <<at, outcome>>
       [] Audit[answered[i] + 1] = "member" ->
            answered' = [answered EXCEPT ![i] = @ - 1] /\ UNCHANGED <<at, outcome>>
       [] OTHER -> /\ Conclude(w, IF Aborted THEN AbortedCode(w) ELSE "QUERY_FAILED")
                   /\ UNCHANGED answered
  /\ UNCHANGED <<table, given, client>>

\* a statement fails: the membership query is retried in its older form
QueryFails(w) ==
  LET i == table[w] IN
  /\ at[w] = "query"
  /\ IF Audit[answered[i] + 1] = "set"
     THEN /\ answered' = [answered EXCEPT ![i] = @ + 1]
          /\ UNCHANGED <<at, outcome>>
     ELSE /\ Conclude(w, IF Aborted THEN AbortedCode(w) ELSE "QUERY_FAILED")
          /\ UNCHANGED answered
  /\ UNCHANGED <<table, given, client>>

\* client.end() settles; what it throws is dropped
Ended(w) ==
  /\ at[w] = "ending"
  /\ client' = [client EXCEPT ![table[w]] = "ended"]
  /\ Move(w, "returned")
  /\ UNCHANGED <<table, given, outcome, answered>>

RunDoctor(w) ==
  /\ Connected(w) \/ ConnectFails(w) \/ QueryReturns(w) \/ QueryFails(w) \/ Ended(w)
  /\ UNCHANGED <<signal, code, timer, listening, next, results, batch>>

-------------------------------------------------------------------------------
(***************************************************************************)
(* The batch.                                                              *)
(***************************************************************************)
Working == \E w \in Workers : at[w] # "done"

\* runDoctorBatch up to its await: each worker has taken its first table, or
\* the caller's signal was aborted before the call
Begun ==
  /\ signal = None /\ listening = TRUE
  /\ next = Cardinality(Workers) + 1
  /\ \E missing \in SUBSET Workers :
       /\ at = [w \in Workers |-> IF w \in missing THEN "returned" ELSE "connecting"]
       /\ outcome = [w \in Workers |-> IF w \in missing THEN "DRIVER_UNAVAILABLE"
                                                       ELSE None]
       /\ client = [i \in Tables |-> IF i \in Workers \ missing THEN "open" ELSE None]
  /\ table = [w \in Workers |-> w]
  /\ results = [i \in Tables |-> None]

BegunAborted ==
  /\ signal = "ABORTED" /\ listening = FALSE
  /\ next = N + Cardinality(Workers) + 1
  /\ at = [w \in Workers |-> "done"]
  /\ outcome = [w \in Workers |-> None]
  /\ client = [i \in Tables |-> None]
  /\ table = [w \in Workers |-> 0]
  /\ results = [i \in Tables |-> "ABORTED"]

Init ==
  /\ Begun \/ BegunAborted
  /\ code = "ABORTED"
  /\ timer = TRUE
  /\ given = [w \in Workers |-> "ABORTED"]
  /\ answered = [i \in Tables |-> 0]
  /\ batch = Pending

\* the caller aborts; the reason of a controller is that of its first abort
AbortFromCaller ==
  /\ listening
  /\ listening' = FALSE
  /\ signal' = IF Aborted THEN signal ELSE "ABORTED"
  /\ UNCHANGED <<code, timer, next, at, run, results, batch>>

\* the deadline expires while a worker awaits something
Expire ==
  /\ timer /\ Working
  /\ timer' = FALSE
  /\ IF Aborted THEN UNCHANGED <<signal, code>>
                ELSE signal' = "TIMEOUT" /\ code' = "TIMEOUT"
  /\ UNCHANGED <<listening, next, at, run, results, batch>>

Has(set) == \E i \in Tables : results[i] \in set

BatchStatus == CASE Has(Errors) -> "error"
                 [] ~ Has(Errors) /\ Has({"unhealthy"}) -> "unhealthy"
                 [] ~ Has(Errors \cup {"unhealthy"}) /\ Has({"warning"}) -> "warning"
                 [] OTHER -> "healthy"

\* every worker has returned
Resolve ==
  /\ ~ Working /\ batch = Pending
  /\ timer' = FALSE /\ listening' = FALSE
  /\ batch' = [status |-> BatchStatus, error |-> IF Has(Codes) THEN code ELSE None]
  /\ UNCHANGED <<signal, code, next, at, run, results>>

Step(w) == Returned(w) \/ RunDoctor(w)

Next ==
  \/ \E w \in Workers : Step(w)
  \/ AbortFromCaller \/ Expire \/ Resolve

\* pg settles every call: a connection attempt and a statement time out after
\* ten seconds.  Nothing makes the caller abort.
Spec     == Init /\ [][Next]_vars
FairSpec == Spec /\ WF_vars(Resolve) /\ \A w \in Workers : WF_vars(Step(w))

-------------------------------------------------------------------------------
(***************************************************************************)
(* Properties.                                                             *)
(***************************************************************************)
\* Every variable has its type.
TypeOK ==
  /\ signal \in Codes \cup {None} /\ code \in Codes
  /\ timer \in BOOLEAN /\ listening \in BOOLEAN
  /\ next \in 1 .. N + 1 + Cardinality(Workers)
  /\ at \in [Workers -> {"connecting", "query", "ending", "returned", "done"}]
  /\ table \in [Workers -> 0 .. N]
  /\ given \in [Workers -> Codes]
  /\ outcome \in [Workers -> Verdicts \cup Errors \cup {None}]
  /\ client \in [Tables -> {None, "open", "ended"}]
  /\ answered \in [Tables -> 0 .. Len(Audit)]
  /\ results \in [Tables -> Verdicts \cup Errors \cup {None}]
  /\ batch \in [status : Verdicts \cup {"error", None}, error : Codes \cup {None}]

\* Whatever comes first decides: every table that was interrupted, before or
\* during its audit, and the batch itself report the same code, that of the
\* first abort, although a worker passes on the code as it was when it began.
OneCode ==
  /\ \A i \in Tables : results[i] \in Codes => results[i] = signal
  /\ batch.error # None => batch.error = signal
  /\ batch # Pending /\ Has(Codes) => batch.error = signal

\* "in-flight table cleanup completed": when the batch resolves, interrupted or
\* not, every client is ended and every table has its result; until then no
\* more than `concurrency` clients are open.
CleanupCompleted ==
  /\ Cardinality({i \in Tables : client[i] = "open"}) <= Concurrency
  /\ batch # Pending =>
       \A i \in Tables : client[i] # "open" /\ results[i] # None

\* A table found healthy had every statement of its audit answered, and a batch
\* found healthy audited every table: an abort is never mistaken for a pass.
HealthyMeansAudited ==
  /\ \A i \in Tables :
       results[i] \in {"healthy", "warning"} => answered[i] = Len(Audit)
  /\ batch.status \in {"healthy", "warning"} =>
       \A i \in Tables : answered[i] = Len(Audit)

\* Each table is audited by one worker, once: its client is never opened again
\* and its result never replaced.
EachTableOnce ==
  [][\A i \in Tables :
       /\ client[i] = "ended" => client'[i] = "ended"
       /\ results[i] # None => results'[i] = results[i]]_vars

\* The batch resolves, and nothing that comes later changes its result.
BatchResolves == <>[](batch # Pending)
===============================================================================
