--------------------------- MODULE DoctorBatchProofs ---------------------------
(***************************************************************************)
(* Theorems about DoctorBatch, for every number of tables and workers.     *)
(***************************************************************************)
EXTENDS DoctorBatch, FiniteSetTheorems, TLAPS

-------------------------------------------------------------------------------
(***************************************************************************)
(* The inductive invariant.                                                *)
(***************************************************************************)
Busy(w) == at[w] # "done"

OnClient(w) == at[w] \in {"connecting", "query", "ending"}

Concluded(w) == at[w] \in {"ending", "returned"}

\* No two workers share a table.
Taken ==
  \A w \in Workers : Busy(w) =>
    /\ table[w] \in Tables /\ table[w] < next
    /\ \A v \in Workers : Busy(v) /\ table[v] = table[w] => v = w

\* A table has a result once its worker has returned, not before it was taken.
Filled ==
  \A i \in Tables :
    /\ results[i] # None =>
         i < next /\ \A w \in Workers : Busy(w) => table[w] # i
    /\ results[i] = None =>
         i >= next \/ \E w \in Workers : Busy(w) /\ table[w] = i

\* Workers stop when no table is left, and advance the counter once more.
Exhausted ==
  /\ \A w \in Workers : ~ Busy(w) => next > N
  /\ next <= N + 1 + Cardinality({w \in Workers : ~ Busy(w)})

\* A client is open while its worker uses it.
Clients ==
  \A i \in Tables :
    /\ client[i] = "open" => \E w \in Workers : OnClient(w) /\ table[w] = i
    /\ i >= next => client[i] = None

\* The code is that of the signal, and a worker begins before any abort.
Interrupted ==
  /\ code = IF signal = "TIMEOUT" THEN "TIMEOUT" ELSE "ABORTED"
  /\ \A w \in Workers :
       /\ given[w] = "ABORTED"
       /\ Concluded(w) => outcome[w] # None /\ (outcome[w] \in Codes => outcome[w] = signal)
  /\ \A i \in Tables : results[i] \in Codes => results[i] = signal

\* A table that passes has had all its statements answered.
Audited ==
  /\ \A w \in Workers :
       /\ at[w] \in {"connecting", "query"} => answered[table[w]] < Len(Audit)
       /\ Concluded(w) /\ outcome[w] \in {"healthy", "warning"} =>
            answered[table[w]] = Len(Audit)
  /\ \A i \in Tables :
       results[i] \in {"healthy", "warning"} => answered[i] = Len(Audit)

\* The batch resolves when every worker has returned.
Resolved ==
  batch # Pending =>
    /\ ~ Working
    /\ batch.error # None => batch.error = signal
    /\ Has(Codes) => batch.error = signal
    /\ batch.status \in {"healthy", "warning"} =>
         \A i \in Tables : answered[i] = Len(Audit)

IInv ==
  /\ TypeOK /\ Taken /\ Filled /\ Exhausted /\ Clients
  /\ Interrupted /\ Audited /\ Resolved

-------------------------------------------------------------------------------
(***************************************************************************)
(* Facts about the pool and the statements.                                *)
(***************************************************************************)
\* There are as many workers as the limit and the tables allow.
LEMMA WorkerCount ==
  /\ IsFiniteSet(Workers) /\ Cardinality(Workers) \in Nat
  /\ Workers = 1 .. Cardinality(Workers) /\ Cardinality(Workers) >= 1
  /\ Cardinality(Workers) <= Concurrency /\ Cardinality(Workers) <= N
  <1> DEFINE k == IF Concurrency < N THEN Concurrency ELSE N
  <1>1. k \in Int /\ k >= 1 /\ k <= Concurrency /\ k <= N /\ 1 \in Int
    BY BatchConstants
  <1>2. IsFiniteSet(1 .. k) /\ Cardinality(1 .. k) = k
    <2>1. IsFiniteSet(1 .. k) /\ Cardinality(1 .. k) = IF 1 > k THEN 0 ELSE k - 1 + 1
      BY <1>1, FS_Interval
    <2>2. QED
      BY <1>1, <2>1
  <1>3. Workers = 1 .. k
    BY DEF Workers
  <1> HIDE DEF k
  <1>4. QED
    BY <1>1, <1>2, <1>3

\* Eleven statements; after "set" only "index" may follow at once.
LEMMA Statements ==
  /\ Len(Audit) = 11
  /\ \A k \in 1 .. 11 : Audit[k] = "set" => k = 9
  <1>1. Len(Audit) = 11
    BY DEF Audit
  <1>2. \A k \in 1 .. 11 : k # 9 => Audit[k] # "set"
    BY DEF Audit
  <1>3. QED
    BY <1>1, <1>2

\* What an interrupted worker reports is the signal.
LEMMA CodeOfSignal ==
  ASSUME TypeOK, Interrupted, NEW w \in Workers, Aborted
  PROVE  AbortedCode(w) = signal /\ AbortedCode(w) \in Codes
BY DEF TypeOK, Interrupted, Aborted, AbortedCode, Codes, None

-------------------------------------------------------------------------------
(***************************************************************************)
(* A worker in runDoctor.                                                  *)
(***************************************************************************)
\* What one step of it does.
RunEffect(w) ==
  /\ UNCHANGED <<signal, code, timer, listening, next, results, batch, table, given>>
  /\ OnClient(w)
  /\ at'[w] \in {"query", "ending", "returned"}
  /\ at'[w] = "returned" <=> at[w] = "ending"
  /\ \A v \in Workers \ {w} : at'[v] = at[v] /\ outcome'[v] = outcome[v]
  /\ \A j \in Tables \ {table[w]} : client'[j] = client[j] /\ answered'[j] = answered[j]
  /\ client'[table[w]] = IF at[w] = "ending" THEN "ended" ELSE client[table[w]]
  /\ at'[w] = "query" => answered'[table[w]] < Len(Audit)
  /\ Concluded(w)' =>
       /\ outcome'[w] # None
       /\ outcome'[w] \in Codes => outcome'[w] = signal
       /\ outcome'[w] \in {"healthy", "warning"} => answered'[table[w]] = Len(Audit)

\* Every step of runDoctor has that effect.
LEMMA RunDoctorEffect ==
  ASSUME IInv, NEW w \in Workers, RunDoctor(w)
  PROVE  TypeOK' /\ RunEffect(w)
  <1> DEFINE i == table[w]
  <1>1. /\ OnClient(w) /\ Busy(w)
        /\ UNCHANGED <<signal, code, timer, listening, next, results, batch, table, given>>
    BY DEF RunDoctor, Connected, ConnectFails, QueryReturns, QueryFails, Ended, OnClient,
           Busy
  <1>2. i \in Tables
    BY <1>1 DEF IInv, Taken
  <1>3. Aborted => AbortedCode(w) = signal /\ AbortedCode(w) \in Codes
    BY CodeOfSignal DEF IInv
  <1>4. CASE Connected(w)
    <2>1. /\ at[w] = "connecting" /\ UNCHANGED <<client, answered>>
          /\ \/ /\ Aborted /\ at' = [at EXCEPT ![w] = "ending"]
                /\ outcome' = [outcome EXCEPT ![w] = AbortedCode(w)]
             \/ at' = [at EXCEPT ![w] = "query"] /\ outcome' = outcome
      BY <1>4 DEF Connected, Conclude, Move
    <2>2. answered[i] < Len(Audit)
      BY <2>1 DEF IInv, Audited
    <2>3. TypeOK'
      BY <1>1, <1>3, <2>1 DEF IInv, TypeOK, Errors
    <2>4. QED
      BY <1>1, <1>3, <2>1, <2>2, <2>3
         DEF RunEffect, IInv, TypeOK, Concluded, Codes, None
  <1>5. CASE ConnectFails(w)
    <2>1. /\ at[w] = "connecting" /\ UNCHANGED <<client, answered>>
          /\ at' = [at EXCEPT ![w] = "ending"]
          /\ outcome' = [outcome EXCEPT ![w] = "CONNECTION_FAILED"]
      BY <1>5 DEF ConnectFails, Conclude, Move
    <2>2. TypeOK'
      BY <1>1, <2>1 DEF IInv, TypeOK, Errors
    <2>3. QED
      BY <1>1, <2>1, <2>2 DEF RunEffect, IInv, TypeOK, Concluded, Codes, None
  <1>6. CASE QueryReturns(w)
    <2> DEFINE q == Audit[answered[i] + 1]
               n == IF q = "set" THEN answered[i] + 2 ELSE answered[i] + 1
    <2>1. at[w] = "query" /\ answered' = [answered EXCEPT ![i] = n] /\ UNCHANGED client
      BY <1>6 DEF QueryReturns
    <2>2. answered[i] \in 0 .. 10 /\ Len(Audit) = 11
      BY <1>2, <2>1, Statements DEF IInv, Audited, TypeOK
    <2>3. n \in 1 .. 11
      <3>1. q = "set" => answered[i] + 1 = 9
        BY <2>2, Statements
      <3>2. QED
        BY <2>2, <3>1
    <2> HIDE DEF n
    <2>4. answered' \in [Tables -> 0 .. Len(Audit)] /\ answered'[i] = n
          /\ \A j \in Tables \ {i} : answered'[j] = answered[j]
      BY <1>2, <2>1, <2>2, <2>3 DEF IInv, TypeOK
    <2>5. \/ n < Len(Audit) /\ UNCHANGED <<at, outcome>>
          \/ \E out \in Codes \cup Verdicts :
               /\ out \in Codes => out = signal
               /\ out \in {"healthy", "warning"} => n = Len(Audit)
               /\ at' = [at EXCEPT ![w] = "ending"]
               /\ outcome' = [outcome EXCEPT ![w] = out]
      <3>1. CASE Aborted /\ Conclude(w, AbortedCode(w))
        BY <1>3, <3>1 DEF Conclude, Move, Codes
      <3>2. CASE n < Len(Audit) /\ UNCHANGED <<at, outcome>>
        BY <3>2
      <3>3. CASE Conclude(w, "unhealthy")
        BY <3>3 DEF Conclude, Move, Codes, Verdicts
      <3>4. CASE n = Len(Audit) /\ \E v \in Verdicts : Conclude(w, v)
        BY <3>4 DEF Conclude, Move, Codes, Verdicts
      <3>5. QED
        BY <1>6, <3>1, <3>2, <3>3, <3>4 DEF QueryReturns, n
    <2>6. TypeOK'
      <3>1. /\ at' \in [Workers -> {"connecting", "query", "ending", "returned", "done"}]
            /\ outcome' \in [Workers -> Verdicts \cup Errors \cup {None}]
        <4>1. CASE UNCHANGED <<at, outcome>>
          BY <4>1 DEF IInv, TypeOK
        <4>2. CASE \E out \in Codes \cup Verdicts :
                     /\ at' = [at EXCEPT ![w] = "ending"]
                     /\ outcome' = [outcome EXCEPT ![w] = out]
          BY <4>2 DEF IInv, TypeOK, Errors
        <4>3. QED
          BY <2>5, <4>1, <4>2
      <3>2. QED
        BY <1>1, <2>1, <2>4, <3>1 DEF IInv, TypeOK
    <2>7. QED
      BY <1>1, <2>1, <2>4, <2>5, <2>6
         DEF RunEffect, IInv, TypeOK, Concluded, Codes, Verdicts, None
  <1>7. CASE QueryFails(w)
    <2>1. at[w] = "query" /\ UNCHANGED client
      BY <1>7 DEF QueryFails
    <2>2. answered[i] \in 0 .. 10 /\ Len(Audit) = 11
      BY <1>2, <2>1, Statements DEF IInv, Audited, TypeOK
    <2>3. CASE Audit[answered[i] + 1] = "set"
      <3>1. answered[i] = 8 /\ answered' = [answered EXCEPT ![i] = 9]
            /\ UNCHANGED <<at, outcome>>
        BY <1>7, <2>2, <2>3, Statements DEF QueryFails
      <3>2. TypeOK'
        BY <1>1, <1>2, <2>1, <2>2, <3>1 DEF IInv, TypeOK
      <3>3. QED
        BY <1>1, <1>2, <2>1, <2>2, <3>1, <3>2 DEF RunEffect, IInv, TypeOK, Concluded
    <2>4. CASE Audit[answered[i] + 1] # "set"
      <3>1. PICK out \in Errors :
              /\ out \in Codes => out = signal
              /\ at' = [at EXCEPT ![w] = "ending"]
              /\ outcome' = [outcome EXCEPT ![w] = out]
              /\ answered' = answered
        BY <1>3, <1>7, <2>4 DEF QueryFails, Conclude, Move, Errors, Codes
      <3>2. TypeOK'
        BY <1>1, <2>1, <3>1 DEF IInv, TypeOK
      <3>3. QED
        BY <1>1, <2>1, <3>1, <3>2
           DEF RunEffect, IInv, TypeOK, Concluded, Errors, Codes, None
    <2>5. QED
      BY <2>3, <2>4
  <1>8. CASE Ended(w)
    <2>1. /\ at[w] = "ending" /\ at' = [at EXCEPT ![w] = "returned"]
          /\ client' = [client EXCEPT ![i] = "ended"]
          /\ UNCHANGED <<outcome, answered>>
      BY <1>8 DEF Ended, Move
    <2>2. TypeOK'
      BY <1>1, <1>2, <2>1 DEF IInv, TypeOK
    <2>3. Concluded(w)
      BY <2>1 DEF Concluded
    <2>4. QED
      BY <1>1, <1>2, <2>1, <2>2, <2>3
         DEF RunEffect, IInv, TypeOK, Concluded, Interrupted, Audited
  <1>9. QED
    BY <1>4, <1>5, <1>6, <1>7, <1>8 DEF RunDoctor

\* It preserves the invariant.
LEMMA RunDoctorIInv ==
  ASSUME IInv, NEW w \in Workers, RunDoctor(w)
  PROVE  IInv'
  <1>1. TypeOK' /\ RunEffect(w)
    BY RunDoctorEffect
  <1>2. Busy(w) /\ table[w] \in Tables /\ \A v \in Workers : Busy(v)' <=> Busy(v)
    BY <1>1 DEF RunEffect, OnClient, Busy, IInv, Taken
  <1>3. \A v \in Workers \ {w} : Busy(v) => table[v] # table[w]
    BY <1>2 DEF IInv, Taken
  <1>4. Taken' /\ Filled'
    BY <1>1, <1>2 DEF RunEffect, IInv, Taken, Filled
  <1>5. Exhausted'
    <2>1. {v \in Workers : ~ Busy(v)}' = {v \in Workers : ~ Busy(v)}
      BY <1>2
    <2>2. QED
      BY <1>1, <1>2, <2>1 DEF RunEffect, IInv, Exhausted
  <1>6. Clients'
    <2> SUFFICES ASSUME NEW i \in Tables
                 PROVE  /\ client'[i] = "open" =>
                             \E v \in Workers : OnClient(v)' /\ table[v] = i
                        /\ i >= next => client'[i] = None
      BY <1>1 DEF RunEffect, Clients
    <2>1. CASE i = table[w]
      <3>1. i < next
        BY <1>2, <2>1 DEF IInv, Taken
      <3>2. client'[i] = "open" => OnClient(w)'
        BY <1>1, <2>1 DEF RunEffect, OnClient
      <3>3. QED
        BY <1>1, <2>1, <3>1, <3>2 DEF RunEffect, IInv, TypeOK, Tables
    <2>2. CASE i # table[w]
      BY <1>1, <2>2 DEF RunEffect, IInv, Clients, OnClient
    <2>3. QED
      BY <2>1, <2>2
  <1>7. Interrupted'
    BY <1>1 DEF RunEffect, IInv, Interrupted, Concluded
  <1>8. Audited'
    <2>1. ASSUME NEW v \in Workers
          PROVE  /\ at'[v] \in {"connecting", "query"} => answered'[table[v]] < Len(Audit)
                 /\ Concluded(v)' /\ outcome'[v] \in {"healthy", "warning"} =>
                      answered'[table[v]] = Len(Audit)
      <3>1. CASE v = w
        BY <1>1, <3>1 DEF RunEffect
      <3>2. CASE v # w /\ Busy(v)
        <4>1. table[v] \in Tables \ {table[w]}
          BY <1>3, <3>2 DEF IInv, Taken
        <4>2. QED
          BY <1>1, <3>2, <4>1 DEF RunEffect, IInv, Audited, Concluded
      <3>3. CASE v # w /\ ~ Busy(v)
        BY <1>1, <3>3 DEF RunEffect, Busy, Concluded
      <3>4. QED
        BY <3>1, <3>2, <3>3
    <2>2. ASSUME NEW i \in Tables, results[i] \in {"healthy", "warning"}
          PROVE  answered'[i] = Len(Audit)
      <3>1. i # table[w]
        BY <1>2, <2>2 DEF IInv, Filled, None
      <3>2. QED
        BY <1>1, <2>2, <3>1 DEF RunEffect, IInv, Audited
    <2>3. QED
      BY <1>1, <2>1, <2>2 DEF RunEffect, Audited
  <1>9. Resolved'
    BY <1>1, <1>2 DEF RunEffect, IInv, Resolved, Working, Busy
  <1>10. QED
    BY <1>1, <1>4, <1>5, <1>6, <1>7, <1>8, <1>9 DEF IInv

-------------------------------------------------------------------------------
(***************************************************************************)
(* A worker between two tables.                                            *)
(***************************************************************************)
\* The worker stores its result, and stops or takes the next table.
StopEffect(w) ==
  /\ next > N \/ Aborted
  /\ results' = [i \in Tables |->
       IF i >= next THEN code
       ELSE IF i = table[w] THEN outcome[w] ELSE results[i]]
  /\ next' = (IF next > N THEN next ELSE N + 1) + 1
  /\ at' = [at EXCEPT ![w] = "done"]
  /\ UNCHANGED run

TakeEffect(w) ==
  /\ next \in Tables /\ ~ Aborted
  /\ results' = [i \in Tables |-> IF i = table[w] THEN outcome[w] ELSE results[i]]
  /\ next' = next + 1
  /\ table' = [table EXCEPT ![w] = next]
  /\ given' = [given EXCEPT ![w] = code]
  /\ answered' = [answered EXCEPT ![next] = 0]
  /\ \/ /\ client' = [client EXCEPT ![next] = "open"]
        /\ at' = [at EXCEPT ![w] = "connecting"]
        /\ outcome' = outcome
     \/ /\ client' = client
        /\ at' = [at EXCEPT ![w] = "returned"]
        /\ outcome' = [outcome EXCEPT ![w] = "DRIVER_UNAVAILABLE"]

\* There is no third way.
LEMMA ReturnedEffect ==
  ASSUME IInv, NEW w \in Workers, Returned(w)
  PROVE  /\ at[w] = "returned" /\ table[w] \in Tables /\ table[w] < next
         /\ UNCHANGED <<signal, code, timer, listening, batch>>
         /\ batch = Pending
         /\ StopEffect(w) \/ TakeEffect(w)
  <1>1. /\ at[w] = "returned" /\ table[w] \in Tables /\ table[w] < next
        /\ UNCHANGED <<signal, code, timer, listening, batch>>
    BY DEF Returned, IInv, Taken, Busy
  <1>2. batch = Pending
    BY <1>1 DEF IInv, Resolved, Working
  <1> DEFINE res == [results EXCEPT ![table[w]] = outcome[w]]
  <1>3. res = [i \in Tables |-> IF i = table[w] THEN outcome[w] ELSE results[i]]
    BY DEF IInv, TypeOK
  <1> HIDE DEF res
  <1>4. Advance(w, res)
    BY DEF Returned, res
  <1>5. CASE next > N \/ Aborted
    <2>1. /\ results' = [i \in Tables |-> IF i >= next THEN code ELSE res[i]]
          /\ next' = (IF next > N THEN next ELSE N + 1) + 1
          /\ at' = [at EXCEPT ![w] = "done"]
          /\ UNCHANGED run
      BY <1>4, <1>5, BatchConstants DEF Advance, Move, IInv, TypeOK
    <2>2. QED
      BY <1>1, <1>2, <1>3, <1>5, <2>1 DEF StopEffect
  <1>6. CASE ~ (next > N \/ Aborted)
    <2>1. next \in Tables
      BY <1>6, BatchConstants DEF IInv, TypeOK, Tables
    <2>2. StartDoctor(w, next) /\ next' = next + 1 /\ results' = res
      BY <1>4, <1>6 DEF Advance
    <2>3. QED
      BY <1>1, <1>2, <1>3, <1>6, <2>1, <2>2 DEF TakeEffect, StartDoctor, Move
  <1>7. QED
    BY <1>5, <1>6

\* A worker that stops leaves every table with a result or with its worker.
LEMMA StopIInv ==
  ASSUME IInv, NEW w \in Workers, at[w] = "returned", table[w] \in Tables,
         table[w] < next, UNCHANGED <<signal, code, timer, listening, batch>>,
         batch = Pending, StopEffect(w)
  PROVE  IInv'
  <1>1. /\ at'[w] = "done" /\ \A v \in Workers \ {w} : at'[v] = at[v]
        /\ UNCHANGED <<table, given, outcome, client, answered>>
    BY DEF StopEffect, run, IInv, TypeOK
  <1>2. ~ Busy(w)' /\ \A v \in Workers \ {w} : Busy(v)' <=> Busy(v)
    BY <1>1 DEF Busy
  <1>3. N \in Nat /\ next \in Nat /\ next' \in Nat /\ next' > N /\ next' > next
        /\ next' <= (IF next > N THEN next ELSE N + 1) + 1
    BY BatchConstants, WorkerCount DEF StopEffect, IInv, TypeOK
  <1>4. Concluded(w) /\ Busy(w)
    BY DEF Concluded, Busy
  <1>5. outcome[w] \in Verdicts \cup Errors /\ (outcome[w] \in Codes => outcome[w] = signal)
    BY <1>4 DEF IInv, TypeOK, Interrupted
  <1>6. Exhausted'
    <2> DEFINE idle == {v \in Workers : ~ Busy(v)}
    <2>1. idle' = idle \cup {w} /\ w \notin idle
      BY <1>2, <1>4
    <2>2. IsFiniteSet(idle) /\ Cardinality(idle) \in Nat
      <3>1. idle \in SUBSET Workers
        OBVIOUS
      <3>2. QED
        BY <3>1, WorkerCount, FS_Subset, FS_CardinalityType
    <2>3. Cardinality(idle \cup {w}) = Cardinality(idle) + 1
      BY <2>1, <2>2, FS_AddElement
    <2>4. next' <= N + 1 + Cardinality(idle')
      <3>1. next <= N + 1 + Cardinality(idle)
        BY DEF IInv, Exhausted
      <3>2. Cardinality(idle') = Cardinality(idle) + 1
        BY <2>1, <2>3
      <3>3. QED
        BY <1>3, <2>2, <3>1, <3>2
    <2>5. QED
      BY <1>3, <2>4, BatchConstants DEF Exhausted
  <1>7. next' \in 1 .. N + 1 + Cardinality(Workers)
    <2>1. {v \in Workers : ~ Busy(v)}' \in SUBSET Workers
      OBVIOUS
    <2>2. Cardinality({v \in Workers : ~ Busy(v)}') <= Cardinality(Workers)
          /\ Cardinality({v \in Workers : ~ Busy(v)}') \in Nat
      BY <2>1, WorkerCount, FS_Subset, FS_CardinalityType
    <2>3. QED
      BY <1>3, <1>6, <2>2, WorkerCount, BatchConstants DEF Exhausted
  <1>8. TypeOK'
    <2>1. results' \in [Tables -> Verdicts \cup Errors \cup {None}]
      BY DEF StopEffect, IInv, TypeOK, Errors
    <2>2. QED
      BY <1>1, <1>7, <2>1 DEF StopEffect, IInv, TypeOK
  <1>9. \A i \in Tables : i \in Int
    BY DEF Tables
  <1>10. \A i \in Tables :
           results'[i] = IF i >= next THEN code
                         ELSE IF i = table[w] THEN outcome[w] ELSE results[i]
    BY DEF StopEffect
  <1>11. Taken'
    BY <1>1, <1>2, <1>3, <1>9 DEF IInv, Taken
  <1>12. Filled'
    <2> SUFFICES ASSUME NEW i \in Tables
                 PROVE  /\ results'[i] # None =>
                             i < next' /\ \A v \in Workers : Busy(v)' => table[v] # i
                        /\ results'[i] = None =>
                             i >= next' \/ \E v \in Workers : Busy(v)' /\ table[v] = i
      BY <1>1 DEF Filled
    <2>1. i < next' /\ i \in Int
      BY <1>3, <1>9 DEF Tables
    <2>2. CASE i >= next
      <3>1. results'[i] = code /\ code # None
        BY <1>10, <2>2 DEF IInv, TypeOK, Codes, None
      <3>2. \A v \in Workers : Busy(v)' => table[v] # i
        BY <1>2, <1>3, <2>1, <2>2 DEF IInv, Taken
      <3>3. QED
        BY <2>1, <3>1, <3>2
    <2>3. CASE i < next /\ i = table[w]
      <3>1. results'[i] # None
        BY <1>3, <1>5, <1>10, <2>1, <2>3 DEF Verdicts, Errors, Codes, None
      <3>2. \A v \in Workers : Busy(v)' => table[v] # i
        BY <1>2, <1>4, <2>3 DEF IInv, Taken
      <3>3. QED
        BY <2>1, <3>1, <3>2
    <2>4. CASE i < next /\ i # table[w]
      <3>1. results'[i] = results[i]
        BY <1>3, <1>10, <2>1, <2>4
      <3>2. QED
        BY <1>2, <1>3, <2>1, <2>4, <3>1 DEF IInv, Filled
    <2>5. QED
      BY <1>3, <2>1, <2>2, <2>3, <2>4
  <1>13. Clients'
    BY <1>1, <1>3, <1>9 DEF IInv, Clients, OnClient, Tables
  <1>14. Interrupted'
    <2>1. next > N => \A i \in Tables : ~ (i >= next)
      BY <1>3 DEF Tables
    <2>2. Aborted => code = signal
      BY DEF IInv, TypeOK, Interrupted, Aborted, Codes, None
    <2>3. \A i \in Tables : results'[i] \in Codes => results'[i] = signal
      BY <1>5, <1>10, <2>1, <2>2 DEF StopEffect, IInv, Interrupted
    <2>4. QED
      BY <1>1, <2>3 DEF IInv, Interrupted, Concluded
  <1>15. Audited'
    <2>1. \A i \in Tables : results'[i] \in {"healthy", "warning"} => answered[i] = Len(Audit)
      BY <1>4, <1>10 DEF IInv, TypeOK, Codes, Audited
    <2>2. QED
      BY <1>1, <2>1 DEF IInv, Audited, Concluded
  <1>16. Resolved'
    BY DEF Resolved
  <1>17. QED
    BY <1>6, <1>8, <1>11, <1>12, <1>13, <1>14, <1>15, <1>16 DEF IInv

\* A worker that goes on takes a table nobody has taken.
LEMMA TakeIInv ==
  ASSUME IInv, NEW w \in Workers, at[w] = "returned", table[w] \in Tables,
         table[w] < next, UNCHANGED <<signal, code, timer, listening, batch>>,
         batch = Pending, TakeEffect(w)
  PROVE  IInv'
  <1>1. /\ at'[w] \in {"connecting", "returned"} /\ \A v \in Workers \ {w} : at'[v] = at[v]
        /\ table'[w] = next /\ \A v \in Workers \ {w} : table'[v] = table[v]
        /\ given'[w] = code /\ \A v \in Workers \ {w} : given'[v] = given[v]
        /\ \A v \in Workers \ {w} : outcome'[v] = outcome[v]
        /\ at'[w] = "returned" => outcome'[w] = "DRIVER_UNAVAILABLE"
    BY DEF TakeEffect, IInv, TypeOK
  <1>2. /\ next \in Tables /\ next \in Nat /\ N \in Nat /\ next <= N /\ next' = next + 1
        /\ \A i \in Tables : i \in Int
    BY BatchConstants DEF TakeEffect, Tables
  <1>3. /\ answered'[next] = 0 /\ \A i \in Tables \ {next} : answered'[i] = answered[i]
        /\ \A i \in Tables \ {next} : client'[i] = client[i]
        /\ client'[next] \in {client[next], "open"}
        /\ client'[next] = "open" => at'[w] = "connecting"
    <2>1. client[next] = None
      BY <1>2 DEF IInv, Clients
    <2>2. QED
      BY <1>2, <2>1 DEF TakeEffect, IInv, TypeOK, None
  <1>4. Busy(w) /\ Concluded(w) /\ \A v \in Workers : Busy(v)' <=> Busy(v)
    BY <1>1 DEF Busy, Concluded
  <1>5. outcome[w] \in Verdicts \cup Errors /\ (outcome[w] \in Codes => outcome[w] = signal)
    BY <1>4 DEF IInv, TypeOK, Interrupted
  <1>6. \A i \in Tables :
          results'[i] = IF i = table[w] THEN outcome[w] ELSE results[i]
    BY DEF TakeEffect
  <1>7. TypeOK'
    <2>1. results' \in [Tables -> Verdicts \cup Errors \cup {None}]
      BY DEF TakeEffect, IInv, TypeOK
    <2>2. /\ table' \in [Workers -> 0 .. N] /\ given' \in [Workers -> Codes]
          /\ next' \in 1 .. N + 1 + Cardinality(Workers)
      BY <1>2, WorkerCount DEF TakeEffect, IInv, TypeOK
    <2>3. answered' \in [Tables -> 0 .. Len(Audit)]
      BY <1>2, Statements DEF TakeEffect, IInv, TypeOK
    <2>4. /\ at' \in [Workers -> {"connecting", "query", "ending", "returned", "done"}]
          /\ outcome' \in [Workers -> Verdicts \cup Errors \cup {None}]
          /\ client' \in [Tables -> {None, "open", "ended"}]
      BY DEF TakeEffect, IInv, TypeOK, Errors
    <2>5. QED
      BY <2>1, <2>2, <2>3, <2>4 DEF IInv, TypeOK
  <1>8. Taken'
    <2> SUFFICES ASSUME NEW v \in Workers, Busy(v)'
                 PROVE  /\ table'[v] \in Tables /\ table'[v] < next'
                        /\ \A u \in Workers : Busy(u)' /\ table'[u] = table'[v] => u = v
      BY DEF Taken
    <2>1. CASE v = w
      BY <1>1, <1>2, <1>4, <2>1 DEF IInv, Taken
    <2>2. CASE v # w
      <3>1. table'[v] = table[v] /\ Busy(v) /\ table[v] \in Tables /\ table[v] < next
        BY <1>1, <1>4, <2>2 DEF IInv, Taken
      <3>2. ASSUME NEW u \in Workers, Busy(u)', table'[u] = table'[v]
            PROVE  u = v
        <4>1. u # w
          BY <1>1, <1>2, <3>1, <3>2
        <4>2. QED
          BY <1>1, <1>4, <3>1, <3>2, <4>1 DEF IInv, Taken
      <3>3. table'[v] < next'
        <4>1. table[v] \in Int /\ next \in Int /\ next' = next + 1
          BY <1>2, <3>1
        <4>2. QED
          BY <3>1, <4>1
      <3>4. QED
        BY <3>1, <3>2, <3>3
    <2>3. QED
      BY <2>1, <2>2
  <1>9. Filled'
    <2> SUFFICES ASSUME NEW i \in Tables
                 PROVE  /\ results'[i] # None =>
                             i < next' /\ \A v \in Workers : Busy(v)' => table'[v] # i
                        /\ results'[i] = None =>
                             i >= next' \/ \E v \in Workers : Busy(v)' /\ table'[v] = i
      BY DEF Filled
    <2>1. CASE i = table[w]
      <3>1. results'[i] # None
        BY <1>5, <1>6, <2>1 DEF Verdicts, Errors, Codes, None
      <3>2. \A v \in Workers : Busy(v)' => table'[v] # i
        BY <1>1, <1>2, <1>4, <2>1 DEF IInv, Taken
      <3>3. i < next'
        <4>1. i < next
          BY <2>1
        <4>2. i \in Int /\ next \in Int /\ next' = next + 1
          BY <1>2
        <4>3. QED
          BY <4>1, <4>2
      <3>4. QED
        BY <3>1, <3>2, <3>3
    <2>2. CASE i = next
      <3>1. results'[i] = None
        BY <1>2, <1>6, <2>2 DEF IInv, Filled
      <3>2. QED
        BY <1>1, <1>4, <2>2, <3>1
    <2>3. CASE i # table[w] /\ i # next
      <3>1. results'[i] = results[i]
        BY <1>6, <2>3
      <3>2. QED
        BY <1>1, <1>2, <1>4, <2>3, <3>1 DEF IInv, Filled
    <2>4. QED
      BY <2>1, <2>2, <2>3
  <1>10. Exhausted'
    <2> DEFINE idle == {v \in Workers : ~ Busy(v)}
    <2>1. idle' \in SUBSET Workers
      OBVIOUS
    <2>2. Cardinality(idle') \in Nat
      BY <2>1, WorkerCount, FS_Subset, FS_CardinalityType
    <2>3. \A v \in Workers : Busy(v)
      BY <1>2 DEF IInv, Exhausted
    <2>4. next' <= N + 1 + Cardinality(idle')
      BY <1>2, <2>2
    <2>5. QED
      BY <1>4, <2>3, <2>4 DEF Exhausted
  <1>11. Clients'
    <2> SUFFICES ASSUME NEW i \in Tables
                 PROVE  /\ client'[i] = "open" =>
                             \E v \in Workers : OnClient(v)' /\ table'[v] = i
                        /\ i >= next' => client'[i] = None
      BY DEF Clients
    <2>1. CASE i = next
      BY <1>1, <1>2, <1>3, <2>1 DEF OnClient
    <2>2. CASE i # next
      <3>1. client'[i] = client[i]
        BY <1>3, <2>2
      <3>2. \A v \in Workers : OnClient(v) => OnClient(v)' /\ table'[v] = table[v]
        BY <1>1 DEF OnClient
      <3>3. /\ client[i] = "open" => \E v \in Workers : OnClient(v) /\ table[v] = i
            /\ i >= next => client[i] = None
        BY DEF IInv, Clients
      <3>4. i >= next' => i >= next
        BY <1>2
      <3>5. client'[i] = "open" => \E v \in Workers : OnClient(v)' /\ table'[v] = i
        BY <3>1, <3>2, <3>3
      <3>6. QED
        BY <3>1, <3>3, <3>4, <3>5
    <2>3. QED
      BY <2>1, <2>2
  <1>12. Interrupted'
    <2>1. code = "ABORTED"
      BY DEF TakeEffect, Aborted, IInv, Interrupted, None
    <2>2. \A v \in Workers :
            /\ given'[v] = "ABORTED"
            /\ Concluded(v)' =>
                 outcome'[v] # None /\ (outcome'[v] \in Codes => outcome'[v] = signal)
      BY <1>1, <2>1 DEF IInv, Interrupted, Concluded, Codes, None
    <2>3. \A i \in Tables : results'[i] \in Codes => results'[i] = signal
      BY <1>5, <1>6 DEF IInv, Interrupted
    <2>4. QED
      BY <2>2, <2>3 DEF IInv, Interrupted
  <1>13. Audited'
    <2>1. ASSUME NEW v \in Workers
          PROVE  /\ at'[v] \in {"connecting", "query"} => answered'[table'[v]] < Len(Audit)
                 /\ Concluded(v)' /\ outcome'[v] \in {"healthy", "warning"} =>
                      answered'[table'[v]] = Len(Audit)
      <3>1. CASE v = w
        BY <1>1, <1>3, <3>1, Statements DEF Concluded
      <3>2. CASE v # w /\ Busy(v)
        <4>1. table[v] \in Tables \ {next}
          BY <1>2, <3>2 DEF IInv, Taken
        <4>2. QED
          BY <1>1, <1>3, <3>2, <4>1 DEF IInv, Audited, Concluded
      <3>3. CASE v # w /\ ~ Busy(v)
        BY <1>1, <3>3 DEF Busy, Concluded
      <3>4. QED
        BY <3>1, <3>2, <3>3
    <2>2. ASSUME NEW i \in Tables, results'[i] \in {"healthy", "warning"}
          PROVE  answered'[i] = Len(Audit)
      <3>1. i # next
        BY <1>2, <1>6, <2>2 DEF IInv, Filled, None
      <3>2. QED
        BY <1>3, <1>4, <1>6, <2>2, <3>1 DEF IInv, Audited
    <2>3. QED
      BY <2>1, <2>2 DEF Audited
  <1>14. Resolved'
    BY DEF Resolved
  <1>15. QED
    BY <1>7, <1>8, <1>9, <1>10, <1>11, <1>12, <1>13, <1>14 DEF IInv

-------------------------------------------------------------------------------
(***************************************************************************)
(* The invariant is inductive.                                             *)
(***************************************************************************)
\* The invariant holds when each worker has taken its first table, and when the
\* caller had aborted before.
LEMMA InitIInv == Init => IInv
  <1> SUFFICES ASSUME Init PROVE IInv
    OBVIOUS
  <1> DEFINE k == Cardinality(Workers)
  <1>1. /\ k \in Nat /\ k >= 1 /\ k <= N /\ N \in Nat
        /\ \A w \in Workers : w \in Int /\ 1 <= w /\ w <= k
        /\ \A i \in Tables : i \in Int /\ 1 <= i /\ i <= N
        /\ \A i \in 1 .. N : i \in Tables
        /\ 1 \in Workers
    BY WorkerCount, BatchConstants DEF Tables
  <1>2. \A i \in Int : 1 <= i /\ i <= k => i \in Workers
    BY WorkerCount
  <1> HIDE DEF k
  <1>3. /\ code = "ABORTED" /\ batch = Pending /\ timer = TRUE
        /\ given = [w \in Workers |-> "ABORTED"]
        /\ answered = [i \in Tables |-> 0]
    BY DEF Init
  <1>4. CASE Begun
    <2>1. /\ signal = None /\ listening = TRUE /\ next = k + 1
          /\ table = [w \in Workers |-> w]
          /\ results = [i \in Tables |-> None]
      BY <1>4 DEF Begun, k
    <2>2. PICK missing \in SUBSET Workers :
            /\ at = [w \in Workers |-> IF w \in missing THEN "returned" ELSE "connecting"]
            /\ outcome = [w \in Workers |-> IF w \in missing THEN "DRIVER_UNAVAILABLE"
                                                           ELSE None]
            /\ client = [i \in Tables |-> IF i \in Workers \ missing THEN "open" ELSE None]
      BY <1>4 DEF Begun
    <2>3. TypeOK
      <3>1. table \in [Workers -> 0 .. N] /\ next \in 1 .. N + 1 + k
        BY <1>1, <2>1
      <3>2. answered \in [Tables -> 0 .. Len(Audit)]
        BY <1>3, Statements
      <3>3. QED
        BY <1>3, <2>1, <2>2, <3>1, <3>2 DEF TypeOK, Codes, Errors, Pending, None, k
    <2>4. \A w \in Workers : Busy(w)
      BY <2>2 DEF Busy
    <2>5. Taken
      BY <1>1, <2>1 DEF Taken
    <2>6. Filled
      <3>1. \A i \in Tables : results[i] = None
        BY <2>1
      <3>2. \A i \in Tables : i >= next \/ i \in Workers
        BY <1>1, <1>2, <2>1
      <3>3. \A i \in Workers : Busy(i) /\ table[i] = i
        BY <2>1, <2>4
      <3>4. QED
        BY <3>1, <3>2, <3>3 DEF Filled
    <2>7. Exhausted
      <3>1. {w \in Workers : ~ Busy(w)} = {}
        BY <2>4
      <3>2. Cardinality({w \in Workers : ~ Busy(w)}) = 0
        BY <3>1, FS_EmptySet
      <3>3. QED
        BY <1>1, <2>1, <2>4, <3>2 DEF Exhausted
    <2>8. Clients
      <3>1. ASSUME NEW i \in Tables, client[i] = "open"
            PROVE  \E w \in Workers : OnClient(w) /\ table[w] = i
        BY <2>1, <2>2, <3>1 DEF OnClient, None
      <3>2. \A i \in Tables : i >= next => client[i] = None
        BY <1>1, <2>1, <2>2
      <3>3. QED
        BY <3>1, <3>2 DEF Clients
    <2>9. Interrupted
      BY <1>3, <2>1, <2>2 DEF Interrupted, Concluded, Codes, None
    <2>10. Audited
      <3>1. \A w \in Workers : table[w] \in Tables
        BY <1>1, <2>1
      <3>2. QED
        BY <1>3, <2>1, <2>2, <3>1, Statements DEF Audited, Concluded, None
    <2>11. Resolved
      BY <1>3 DEF Resolved
    <2>12. QED
      BY <2>3, <2>5, <2>6, <2>7, <2>8, <2>9, <2>10, <2>11 DEF IInv
  <1>5. CASE BegunAborted
    <2>1. /\ signal = "ABORTED" /\ listening = FALSE /\ next = N + k + 1
          /\ at = [w \in Workers |-> "done"]
          /\ outcome = [w \in Workers |-> None]
          /\ client = [i \in Tables |-> None]
          /\ table = [w \in Workers |-> 0]
          /\ results = [i \in Tables |-> "ABORTED"]
      BY <1>5 DEF BegunAborted, k
    <2>2. TypeOK
      <3>1. table \in [Workers -> 0 .. N] /\ next \in 1 .. N + 1 + k
        BY <1>1, <2>1
      <3>2. answered \in [Tables -> 0 .. Len(Audit)]
        BY <1>3, Statements
      <3>3. QED
        BY <1>3, <2>1, <3>1, <3>2 DEF TypeOK, Codes, Errors, Pending, None, k
    <2>3. \A w \in Workers : ~ Busy(w)
      BY <2>1 DEF Busy
    <2>4. Taken /\ Filled
      BY <1>1, <2>1, <2>3 DEF Taken, Filled, None
    <2>5. Exhausted
      <3>1. {w \in Workers : ~ Busy(w)} = Workers
        BY <2>3
      <3>2. next <= N + 1 + Cardinality({w \in Workers : ~ Busy(w)})
        BY <1>1, <2>1, <3>1 DEF k
      <3>3. QED
        BY <1>1, <2>1, <3>2 DEF Exhausted
    <2>6. Clients
      BY <2>1 DEF Clients, None
    <2>7. Interrupted
      BY <1>3, <2>1 DEF Interrupted, Concluded
    <2>8. Audited
      BY <2>1 DEF Audited, Concluded
    <2>9. Resolved
      BY <1>3 DEF Resolved
    <2>10. QED
      BY <2>2, <2>4, <2>5, <2>6, <2>7, <2>8, <2>9 DEF IInv
  <1>6. QED
    BY <1>4, <1>5 DEF Init

\* The batch itself: an abort, or its result.
LEMMA BatchIInv ==
  ASSUME IInv, AbortFromCaller \/ Expire \/ Resolve
  PROVE  IInv'
  <1>1. UNCHANGED <<next, at, run, results>>
    BY DEF AbortFromCaller, Expire, Resolve
  <1>2. Taken' /\ Filled' /\ Exhausted' /\ Clients' /\ Audited'
    <2>1. \A w \in Workers :
            /\ Busy(w)' <=> Busy(w)
            /\ OnClient(w)' <=> OnClient(w)
            /\ Concluded(w)' <=> Concluded(w)
      BY <1>1 DEF Busy, OnClient, Concluded
    <2>2. {w \in Workers : ~ Busy(w)}' = {w \in Workers : ~ Busy(w)}
      BY <2>1
    <2>3. Taken' /\ Filled' /\ Clients' /\ Audited'
      BY <1>1, <2>1 DEF run, IInv, Taken, Filled, Clients, Audited
    <2>4. Exhausted'
      BY <1>1, <2>1, <2>2 DEF IInv, Exhausted
    <2>5. QED
      BY <2>3, <2>4
  <1>3. Interrupted' /\ (signal' = signal \/ signal = None)
    <2>1. /\ \/ UNCHANGED <<signal, code>>
             \/ /\ signal = None
                /\ \/ signal' = "ABORTED" /\ code' = code
                   \/ signal' = "TIMEOUT" /\ code' = "TIMEOUT"
      BY DEF AbortFromCaller, Expire, Resolve, Aborted
    <2>2. QED
      BY <1>1, <2>1 DEF run, IInv, Interrupted, Concluded, Codes, None
  <1>4. CASE AbortFromCaller \/ Expire
    <2>1. TypeOK'
      BY <1>1, <1>4 DEF run, IInv, TypeOK, AbortFromCaller, Expire, Codes
    <2>2. UNCHANGED batch
      BY <1>4 DEF AbortFromCaller, Expire
    <2>3. Resolved'
      <3>1. batch # Pending => batch.error \in Codes \cup {None}
        BY DEF IInv, TypeOK
      <3>2. ASSUME batch # Pending, Has(Codes)
            PROVE  signal # None
        BY <3>2 DEF Has, IInv, Interrupted, Codes, None
      <3>3. ASSUME batch # Pending, batch.error # None
            PROVE  signal # None
        BY <3>3 DEF IInv, Resolved
      <3>4. Working' = Working /\ Has(Codes)' = Has(Codes)
        BY <1>1 DEF Working, Has
      <3>5. QED
        BY <1>1, <1>3, <2>2, <3>2, <3>3, <3>4 DEF run, IInv, Resolved
    <2>4. QED
      BY <1>2, <1>3, <2>1, <2>3 DEF IInv
  <1>5. CASE Resolve
    <2>1. /\ ~ Working /\ UNCHANGED <<signal, code>>
          /\ timer' = FALSE /\ listening' = FALSE
          /\ batch' = [status |-> BatchStatus, error |-> IF Has(Codes) THEN code ELSE None]
      BY <1>5 DEF Resolve
    <2>2. BatchStatus \in Verdicts \cup {"error"}
      BY DEF BatchStatus, Verdicts
    <2>3. TypeOK'
      BY <1>1, <2>1, <2>2 DEF run, IInv, TypeOK
    <2>4. Has(Codes) => code = signal
      BY DEF Has, IInv, TypeOK, Interrupted, Codes
    <2>5. ASSUME BatchStatus \in {"healthy", "warning"}, NEW i \in Tables
          PROVE  answered[i] = Len(Audit)
      <3>1. ~ Has(Errors) /\ ~ Has({"unhealthy"})
        BY <2>5 DEF BatchStatus, Has
      <3>2. results[i] # None
        <4>1. \A w \in Workers : ~ Busy(w)
          BY <2>1 DEF Working, Busy
        <4>2. 1 \in Workers
          BY WorkerCount
        <4>3. next > N /\ i \in 1 .. N
          BY <4>1, <4>2 DEF IInv, Exhausted, Tables
        <4>4. QED
          BY <4>1, <4>3, BatchConstants DEF IInv, TypeOK, Filled
      <3>3. results[i] \in {"healthy", "warning"}
        BY <3>1, <3>2 DEF Has, IInv, TypeOK, Verdicts
      <3>4. QED
        BY <3>3 DEF IInv, Audited
    <2>6. Working' = Working /\ Has(Codes)' = Has(Codes) /\ answered' = answered
      BY <1>1 DEF Working, Has, run
    <2>7. Resolved'
      BY <2>1, <2>4, <2>5, <2>6 DEF Resolved
    <2>8. QED
      BY <1>2, <1>3, <2>3, <2>7 DEF IInv
  <1>6. QED
    BY <1>4, <1>5

\* Every step preserves the invariant.
LEMMA NextIInv == IInv /\ [Next]_vars => IInv'
  <1> SUFFICES ASSUME IInv, [Next]_vars PROVE IInv'
    OBVIOUS
  <1>1. ASSUME NEW w \in Workers, Returned(w)
        PROVE  IInv'
    BY <1>1, ReturnedEffect, StopIInv, TakeIInv
  <1>2. ASSUME NEW w \in Workers, RunDoctor(w)
        PROVE  IInv'
    BY <1>2, RunDoctorIInv
  <1>3. CASE UNCHANGED vars
    <2>1. \A w \in Workers :
            /\ Busy(w)' <=> Busy(w)
            /\ OnClient(w)' <=> OnClient(w)
            /\ Concluded(w)' <=> Concluded(w)
      BY <1>3 DEF vars, Busy, OnClient, Concluded
    <2>2. {w \in Workers : ~ Busy(w)}' = {w \in Workers : ~ Busy(w)}
      BY <2>1
    <2>3. TypeOK' /\ Taken' /\ Filled' /\ Clients' /\ Audited' /\ Interrupted'
      BY <1>3, <2>1
         DEF vars, run, IInv, TypeOK, Taken, Filled, Clients, Audited, Interrupted
    <2>4. Exhausted'
      BY <1>3, <2>1, <2>2 DEF vars, IInv, Exhausted
    <2>5. Resolved'
      BY <1>3 DEF vars, run, IInv, Resolved, Working, Has
    <2>6. QED
      BY <2>3, <2>4, <2>5 DEF IInv
  <1>4. QED
    BY <1>1, <1>2, <1>3, BatchIInv DEF Next, Step

\* The invariant holds in every reachable state.
THEOREM InvariantHolds == Spec => []IInv
BY InitIInv, NextIInv, PTL DEF Spec

-------------------------------------------------------------------------------
(***************************************************************************)
(* What follows in every reachable state.                                  *)
(***************************************************************************)
\* Every variable keeps its type: the counter of the tables passes their number
\* by no more than the workers that have stopped.
THEOREM TypeCorrect == Spec => []TypeOK
  <1>1. IInv => TypeOK
    BY DEF IInv
  <1>2. QED
    BY <1>1, InvariantHolds, PTL

\* Every interrupted table and the batch report the code of the first abort.
THEOREM OneCodeReported == Spec => []OneCode
  <1>1. IInv => OneCode
    <2> SUFFICES ASSUME IInv PROVE OneCode
      OBVIOUS
    <2>1. batch = Pending => batch.error = None
      BY DEF Pending
    <2>2. QED
      BY <2>1 DEF IInv, Interrupted, Resolved, OneCode
  <1>2. QED
    BY <1>1, InvariantHolds, PTL

\* No more clients are open than the limit allows, and none when the batch resolves,
\* when every table has its result.
THEOREM CleanedUp == Spec => []CleanupCompleted
  <1>1. IInv => CleanupCompleted
    <2> SUFFICES ASSUME IInv PROVE CleanupCompleted
      OBVIOUS
    <2> DEFINE open == {i \in Tables : client[i] = "open"}
               user == [i \in open |->
                          CHOOSE w \in Workers : OnClient(w) /\ table[w] = i]
    <2>1. \A i \in open : user[i] \in Workers /\ table[user[i]] = i
      BY DEF IInv, Clients
    <2>2. IsFiniteSet(open) /\ Cardinality(open) \in Nat
      <3>1. IsFiniteSet(Tables)
        BY BatchConstants, FS_Interval DEF Tables
      <3>2. open \in SUBSET Tables
        OBVIOUS
      <3>3. QED
        BY <3>1, <3>2, FS_Subset, FS_CardinalityType
    <2>3. Cardinality(open) <= Concurrency
      <3>1. SUFFICES ASSUME Cardinality(Workers) < Cardinality(open)
                     PROVE  FALSE
        BY <2>2, WorkerCount, BatchConstants
      <3>2. user \in [open -> Workers]
        BY <2>1
      <3>3. IsFiniteSet(Workers)
        BY WorkerCount
      <3> HIDE DEF open, user
      <3>4. \E i, j \in open : i # j /\ user[i] = user[j]
        BY <2>2, <3>1, <3>2, <3>3, FS_PigeonHole
      <3>5. QED
        BY <2>1, <3>4
    <2>4. ASSUME batch # Pending, NEW i \in Tables
          PROVE  client[i] # "open" /\ results[i] # None
      <3>1. \A w \in Workers : ~ Busy(w) /\ ~ OnClient(w)
        BY <2>4 DEF IInv, Resolved, Working, Busy, OnClient
      <3>2. next > N /\ i \in 1 .. N
        BY <3>1, WorkerCount DEF IInv, Exhausted, Tables
      <3>3. QED
        BY <3>1, <3>2, BatchConstants DEF IInv, TypeOK, Filled, Clients
    <2>5. QED
      BY <2>3, <2>4 DEF CleanupCompleted
  <1>2. QED
    BY <1>1, InvariantHolds, PTL

\* A table or a batch that passes was audited to the last statement.
THEOREM HealthyAudited == Spec => []HealthyMeansAudited
  <1>1. IInv => HealthyMeansAudited
    <2> SUFFICES ASSUME IInv PROVE HealthyMeansAudited
      OBVIOUS
    <2>1. batch = Pending => batch.status \notin {"healthy", "warning"}
      BY DEF Pending, None
    <2>2. QED
      BY <2>1 DEF IInv, Audited, Resolved, HealthyMeansAudited
  <1>2. QED
    BY <1>1, InvariantHolds, PTL

\* No table is audited twice: its client is not opened again and its result stays.
THEOREM TablesAuditedOnce == Spec => EachTableOnce
  <1>1. IInv /\ [Next]_vars =>
          [\A i \in Tables :
             /\ client[i] = "ended" => client'[i] = "ended"
             /\ results[i] # None => results'[i] = results[i]]_vars
    <2> SUFFICES ASSUME IInv, Next, NEW i \in Tables
                 PROVE  /\ client[i] = "ended" => client'[i] = "ended"
                        /\ results[i] # None => results'[i] = results[i]
      OBVIOUS
    <2>1. ASSUME NEW w \in Workers, RunDoctor(w)
          PROVE  /\ client[i] = "ended" => client'[i] = "ended"
                 /\ results[i] # None => results'[i] = results[i]
      <3>1. RunEffect(w)
        BY <2>1, RunDoctorEffect
      <3>2. QED
        BY <3>1 DEF RunEffect
    <2>2. ASSUME NEW w \in Workers, Returned(w)
          PROVE  /\ client[i] = "ended" => client'[i] = "ended"
                 /\ results[i] # None => results'[i] = results[i]
      <3>1. at[w] = "returned" /\ (StopEffect(w) \/ TakeEffect(w))
        BY <2>2, ReturnedEffect
      <3>2. next \in Tables => client[next] = None
        BY DEF IInv, TypeOK, Clients
      <3>3. client[i] = "ended" => client'[i] = "ended"
        BY <3>1, <3>2 DEF StopEffect, TakeEffect, run, IInv, TypeOK, None
      <3>4. ASSUME results[i] # None
            PROVE  results'[i] = results[i]
        <4>1. i < next /\ i # table[w]
          BY <3>1, <3>4 DEF IInv, Filled, Busy
        <4>2. ~ (i >= next)
          BY <4>1 DEF IInv, TypeOK, Tables
        <4>3. QED
          BY <3>1, <4>1, <4>2 DEF StopEffect, TakeEffect
      <3>5. QED
        BY <3>3, <3>4
    <2>3. CASE AbortFromCaller \/ Expire \/ Resolve
      BY <2>3 DEF AbortFromCaller, Expire, Resolve, run
    <2>4. QED
      BY <2>1, <2>2, <2>3 DEF Next, Step
  <1>2. QED
    BY <1>1, InvariantHolds, PTL DEF Spec, EachTableOnce

===============================================================================
