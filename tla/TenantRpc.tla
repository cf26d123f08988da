------------------------------- MODULE TenantRpc -------------------------------
(***************************************************************************)
(* A tenant on its way through a message:                                  *)
(*   src/src/propagation/bull-, kafka-, grpc-tenant-propagator.ts  inject  *)
(*   src/src/propagation/tenant-context.interceptor.ts             consume *)
(*   src/src/diagnostics/tenant-context-diagnostics.ts             report  *)
(*                                                                         *)
(* A producer publishes from whatever context it is in.  The transport     *)
(* (external) delivers a message any number of times, in any order, or     *)
(* never.  For each delivery the interceptor returns an Observable; it is  *)
(* subscribed later, perhaps again after an error (retry), perhaps never,  *)
(* and may be unsubscribed at any moment, each time from an unrelated      *)
(* ambient context.                                                        *)
(***************************************************************************)
EXTENDS TenancyContext

CONSTANTS
  Messages, Deliveries,
  NoMessage,
  Ambient,        \* contexts that surround producers, subscribers, cancellers
  ValidTenants,   \* what options.validateTenantId accepts
  Validates,      \* options.validateTenantId is given
  ProducerThrows, \* the producer's diagnostics have the policy 'throw'
  Consumers,      \* configurations of the interceptor: options.transport, or
                  \* "auto", and whether its diagnostics have the policy 'throw'
  MaxAttempts     \* bound on the subscriptions of one delivery

ASSUME RpcConstants ==
  /\ NoMessage \notin Messages
  /\ Ambient \subseteq Stack
  /\ ValidTenants \subseteq Tenants
  /\ Validates \in BOOLEAN
  /\ ProducerThrows \in BOOLEAN
  /\ Consumers \subseteq [transport : {"auto", "bull", "kafka", "grpc"}, throws : BOOLEAN]
  /\ MaxAttempts \in Nat \ {0}

VARIABLES
  options,    \* the interceptor's configuration; it never changes
  sent,       \* the messages published: transport, author and tenant carried
  msg,        \* the message of a delivery
  at,         \* where a delivery is
  attempt,    \* how often it was subscribed
  work,       \* the context of each attempt's handler, <<>> before it runs
  torn        \* the context of each attempt's teardown

vars == <<options, sent, msg, at, attempt, work, torn>>

Attempts == 1 .. MaxAttempts

Unsent == [transport |-> "none", author |-> NoTenant, tenant |-> NoTenant]

Init ==
  /\ options \in Consumers
  /\ sent = [m \in Messages |-> Unsent]
  /\ msg = [d \in Deliveries |-> NoMessage]
  /\ at = [d \in Deliveries |-> "idle"]
  /\ attempt = [d \in Deliveries |-> 0]
  /\ work = [d \in Deliveries |-> [n \in Attempts |-> <<>>]]
  /\ torn = [d \in Deliveries |-> [n \in Attempts |-> <<>>]]

-------------------------------------------------------------------------------
(***************************************************************************)
(* The producer.  The carrier may already hold a tenant: a job that is     *)
(* queued again, headers copied from an incoming message.                  *)
(***************************************************************************)
Transports ==
  IF options.transport = "auto" THEN {"bull", "kafka", "grpc"} ELSE {options.transport}

\* Seeded fault: a tenant in the carrier is kept.
KeepCarried(t, old) == IF old = NoTenant THEN t ELSE old

\* inject() with a tenant: the tenant carried afterwards
Injected(t, old) == t

\* BullTenantPropagator refuses job data of another tenant
Conflict(transport, t, old) == transport = "bull" /\ old \notin {NoTenant, t}

Publish(m) ==
  /\ sent[m] = Unsent
  /\ \E transport \in Transports, s \in Ambient, old \in TenantOrNull :
       LET t == CurrentTenantId(s) IN
       /\ IF t = NoTenant THEN ~ ProducerThrows ELSE ~ Conflict(transport, t, old)
       /\ sent' = [sent EXCEPT ![m] =
            [transport |-> transport, author |-> t,
             tenant |-> IF t = NoTenant THEN old ELSE Injected(t, old)]]
  /\ UNCHANGED <<msg, at, attempt, work, torn>>

-------------------------------------------------------------------------------
(***************************************************************************)
(* The consumer.                                                           *)
(***************************************************************************)
Move(d, place) == at' = [at EXCEPT ![d] = place]

Claimed(d) == IF msg[d] = NoMessage THEN NoTenant ELSE sent[msg[d]].tenant

\* Seeded fault: no transport is ever recognised.
NeverDetected(m) == FALSE

\* detectTransport: a job without its tenant key is not recognised
Detected(m) ==
  \/ options.transport # "auto"
  \/ sent[m].transport # "bull"
  \/ sent[m].tenant # NoTenant

\* intercept(): throws, or returns the Observable
Intercept(d, m) ==
  /\ at[d] = "idle"
  /\ sent[m] # Unsent
  /\ msg' = [msg EXCEPT ![d] = m]
  /\ Move(d, IF sent[m].tenant = NoTenant /\ Detected(m) /\ options.throws
             THEN "rejected" ELSE "built")
  /\ UNCHANGED <<sent, attempt, work, torn>>

\* Seeded fault: the handler runs where the Observable was subscribed.
AmbientWork(s, t) == s

\* subscribeInContext: the context the handler is subscribed in
InContext(s, t) == IF t = NoTenant THEN RunInEmpty(s) ELSE Run(s, t)

RunHandler(d, n, s) ==
  /\ work' = [work EXCEPT ![d][n] = InContext(s, Claimed(d))]
  /\ Move(d, "running")

\* Seeded fault: what was validated once is not validated again on a retry.
ValidatedOnce(d, s) ==
  LET n == attempt[d] + 1 IN
  /\ at[d] = "built"
  /\ n \in Attempts
  /\ attempt' = [attempt EXCEPT ![d] = n]
  /\ IF Validates /\ Claimed(d) # NoTenant /\ n = 1
     THEN Move(d, "validating") /\ UNCHANGED work
     ELSE RunHandler(d, n, s)
  /\ UNCHANGED <<sent, msg, torn>>

\* the Observable is subscribed: with a validator the handler waits for it
Subscribe(d, s) ==
  LET n == attempt[d] + 1 IN
  /\ at[d] = "built"
  /\ n \in Attempts
  /\ attempt' = [attempt EXCEPT ![d] = n]
  /\ IF Validates /\ Claimed(d) # NoTenant
     THEN Move(d, "validating") /\ UNCHANGED work
     ELSE RunHandler(d, n, s)
  /\ UNCHANGED <<sent, msg, torn>>

IsValid(t) == t \in ValidTenants

\* Seeded fault: the answer counts although nobody waits for it any more.
ValidatedLate(d, s) ==
  /\ at[d] \in {"validating", "cancelled"}
  /\ IsValid(Claimed(d))
  /\ RunHandler(d, attempt[d], s)
  /\ UNCHANGED <<sent, msg, attempt, torn>>

\* the validator settles: true, false or a rejection
Validated(d, s) ==
  /\ at[d] = "validating"
  /\ \/ IsValid(Claimed(d)) /\ RunHandler(d, attempt[d], s)
     \/ ~ IsValid(Claimed(d)) /\ Move(d, "failed") /\ UNCHANGED work
     \/ Move(d, "failed") /\ UNCHANGED work
  /\ UNCHANGED <<sent, msg, attempt, torn>>

\* Seeded fault: the teardown runs where the Observable was unsubscribed.
TearDownInPlace(d, s) ==
  torn' = [torn EXCEPT ![d][attempt[d]] = RunInEmpty(s)]

\* the teardown that subscribeInContext adds to the subscriber
TearDown(d, s) ==
  torn' = [torn EXCEPT ![d][attempt[d]] = InContext(s, Claimed(d))]

\* the handler completes or errors: either closes the subscriber
Settle(d, s) ==
  /\ at[d] = "running"
  /\ \/ Move(d, "completed") \/ Move(d, "failed")
  /\ TearDown(d, s)
  /\ UNCHANGED <<sent, msg, attempt, work>>

\* unsubscribed before the handler settled, or before it was started
Cancel(d, s) ==
  /\ \/ /\ at[d] = "running"
        /\ TearDown(d, s)
     \/ /\ at[d] = "validating"
        /\ UNCHANGED torn
  /\ Move(d, "cancelled")
  /\ UNCHANGED <<sent, msg, attempt, work>>

\* retry: the Observable of a failed attempt is subscribed once more
Retry(d) ==
  /\ at[d] = "failed"
  /\ attempt[d] < MaxAttempts
  /\ Move(d, "built")
  /\ UNCHANGED <<sent, msg, attempt, work, torn>>

Consume(d) ==
  \E s \in Ambient : Validated(d, s) \/ Settle(d, s)

Next ==
  /\ \/ \E m \in Messages : Publish(m)
     \/ \E d \in Deliveries :
          \/ \E m \in Messages : Intercept(d, m)
          \/ \E s \in Ambient : Subscribe(d, s) \/ Cancel(d, s)
          \/ Consume(d) \/ Retry(d)
  /\ UNCHANGED options

Spec == Init /\ [][Next]_vars

-------------------------------------------------------------------------------
(***************************************************************************)
(* Properties.                                                             *)
(***************************************************************************)
\* Every variable has its type.
TypeOK ==
  /\ options \in Consumers
  /\ sent \in [Messages -> [transport : {"none", "bull", "kafka", "grpc"},
                            author : TenantOrNull, tenant : TenantOrNull]]
  /\ msg \in [Deliveries -> Messages \cup {NoMessage}]
  /\ at \in [Deliveries -> {"idle", "rejected", "built", "validating", "running",
                            "completed", "failed", "cancelled"}]
  /\ attempt \in [Deliveries -> 0 .. MaxAttempts]
  /\ work \in [Deliveries -> [Attempts -> Stack]]
  /\ torn \in [Deliveries -> [Attempts -> Stack]]

Started(d, n) == work[d][n] # <<>>

\* Whoever subscribes, the handler of a message that was published inside a
\* tenant's context runs under that tenant: not under a tenant the carrier held
\* before, nor under the consumer's own.
WorksForAuthor ==
  \A d \in Deliveries, n \in Attempts :
    Started(d, n) /\ sent[msg[d]].author # NoTenant =>
      CurrentTenantId(work[d][n]) = sent[msg[d]].author

\* A message that carries no tenant is handled without one and is never taken
\* for a bypass, and a tenant the validator rejects is never worked for, on the
\* first subscription or on a retry.
WorksForClaim ==
  \A d \in Deliveries, n \in Attempts : Started(d, n) =>
    /\ CurrentTenantId(work[d][n]) = Claimed(d)
    /\ ~ IsBypassed(work[d][n])
    /\ Validates => Claimed(d) \in ValidTenants \cup {NoTenant}

\* What an attempt acquired it releases under the tenant it acquired it for,
\* wherever the unsubscription comes from, and exactly the attempts that were
\* started are torn down.
TornDownInContext ==
  \A d \in Deliveries, n \in Attempts :
    /\ torn[d][n] # <<>> =>
         /\ Started(d, n)
         /\ CurrentTenantId(torn[d][n]) = CurrentTenantId(work[d][n])
         /\ IsBypassed(torn[d][n]) = IsBypassed(work[d][n])
    /\ Started(d, n) /\ torn[d][n] = <<>> => at[d] = "running" /\ attempt[d] = n

\* A delivery that was cancelled or rejected starts no handler any more, even
\* when its validator answers afterwards.
NoLateWork ==
  [][\A d \in Deliveries :
       at[d] \in {"cancelled", "rejected", "completed"} => work'[d] = work[d]]_vars

\* The policy 'throw' of the interceptor's diagnostics: no handler runs without a
\* tenant.
MissingFailsClosed ==
  options.throws =>
    \A d \in Deliveries, n \in Attempts :
      Started(d, n) => CurrentTenantId(work[d][n]) # NoTenant

Verdict(d, n) ==
  IF Started(d, n) THEN "admitted"
  ELSE IF at[d] = "rejected" \/ n < attempt[d]
            \/ (n = attempt[d] /\ at[d] \in {"failed", "cancelled", "built"})
  THEN "refused"
  ELSE "waiting"

Admission == INSTANCE TenantAdmission WITH
  Work <- Deliveries \X Attempts,
  Acceptable <- IF Validates THEN ValidTenants ELSE Tenants,
  claim <- [w \in Deliveries \X Attempts |-> Claimed(w[1])],
  verdict <- [w \in Deliveries \X Attempts |-> Verdict(w[1], w[2])],
  scope <- [w \in Deliveries \X Attempts |-> CurrentTenantId(work[w[1]][w[2]])]

\* Every attempt at a delivery, the retries too, implements what every entry point
\* promises: it is refused, or it is admitted once and then for the tenant the
\* message carried when it came in, provided the application accepts that one, or
\* for none.  An attempt whose predecessor was refused is admitted on its own
\* merits, and one that was refused is not admitted later.
AdmissionRefined == Admission!Spec
===============================================================================
