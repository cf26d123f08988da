---------------------------- MODULE TenantRpcProofs ----------------------------
(***************************************************************************)
(* Theorems about TenantRpc, for every set of tenants, messages and        *)
(* deliveries, every configuration and any number of attempts.             *)
(***************************************************************************)
EXTENDS TenantRpc, TLAPS

-------------------------------------------------------------------------------
(***************************************************************************)
(* The inductive invariant.                                                *)
(***************************************************************************)
\* A message that was published inside a tenant's context carries that tenant.
Authored ==
  \A m \in Messages : sent[m].author # NoTenant => sent[m].tenant = sent[m].author

\* Only a delivery that was intercepted has a message, which was published.
Received(d) ==
  /\ at[d] = "idle" <=> msg[d] = NoMessage
  /\ at[d] # "idle" => sent[msg[d]] # Unsent

\* Attempts are made in order; one runs its handler at most once, and is torn
\* down unless it still runs.
Attempted(d) ==
  /\ at[d] \in {"idle", "rejected"} => attempt[d] = 0
  /\ at[d] \in {"validating", "running", "completed", "failed", "cancelled"} =>
       attempt[d] # 0
  /\ \A n \in Attempts :
       /\ n > attempt[d] => ~ Started(d, n)
       /\ ~ Started(d, n) => torn[d][n] = <<>>
       /\ Started(d, n) /\ torn[d][n] = <<>> => at[d] = "running" /\ n = attempt[d]
  /\ at[d] = "validating" => ~ Started(d, attempt[d])
  /\ at[d] = "running" => Started(d, attempt[d]) /\ torn[d][attempt[d]] = <<>>

\* Handlers and teardowns run for the tenant of the message, which the validator
\* has accepted.
InClaimed(d) ==
  \A n \in Attempts :
    /\ Started(d, n) =>
         /\ CurrentTenantId(work[d][n]) = Claimed(d) /\ IsBypassed(work[d][n]) = FALSE
         /\ Validates => Claimed(d) \in ValidTenants \cup {NoTenant}
    /\ torn[d][n] # <<>> =>
         CurrentTenantId(torn[d][n]) = Claimed(d) /\ IsBypassed(torn[d][n]) = FALSE

\* Where the transport is named and the policy is 'throw', what passed the
\* interceptor has a tenant.
Identified(d) ==
  options.throws /\ options.transport # "auto" /\ at[d] \notin {"idle", "rejected"} =>
    Claimed(d) # NoTenant

IInv ==
  /\ TypeOK
  /\ Authored
  /\ \A d \in Deliveries : Received(d) /\ Attempted(d) /\ InClaimed(d) /\ Identified(d)

\* What code reads of its context is a tenant or none.
LEMMA CurrentType ==
  ASSUME NEW s \in Stack
  PROVE  CurrentTenantId(s) \in TenantOrNull
  <1>1. CASE s = <<>>
    BY <1>1 DEF CurrentTenantId, TenantOrNull
  <1>2. CASE s # <<>>
    <2>1. Len(s) \in 1 .. Len(s)
      BY <1>2 DEF Stack
    <2>2. s[Len(s)] \in Frame
      BY <2>1 DEF Stack
    <2>3. QED
      BY <1>2, <2>2
         DEF CurrentTenantId, Frame, EmptyFrame, BypassFrame, TenantFrame, TenantOrNull
  <1>3. QED
    BY <1>1, <1>2

\* Whatever surrounds it, a handler or a teardown gets the tenant of its message,
\* and no bypass.
LEMMA ContextOpened ==
  ASSUME NEW s \in Ambient, NEW t \in TenantOrNull
  PROVE  /\ InContext(s, t) \in Stack
         /\ InContext(s, t) # <<>>
         /\ CurrentTenantId(InContext(s, t)) = t
         /\ IsBypassed(InContext(s, t)) = FALSE
  <1>1. s \in Seq(Frame)
    BY RpcConstants DEF Stack
  <1>2. EmptyFrame \in Frame /\ (t # NoTenant => TenantFrame(t) \in Frame)
    BY DEF Frame, TenantOrNull
  <1>3. PICK f \in Frame : InContext(s, t) = Append(s, f) /\ f.tenantId = t /\ f.bypassed = FALSE
    BY <1>2 DEF InContext, RunInEmpty, Run, EmptyFrame, TenantFrame
  <1>4. Append(s, f) \in Seq(Frame) /\ Len(Append(s, f)) = Len(s) + 1
        /\ Append(s, f)[Len(s) + 1] = f
    BY <1>1
  <1>5. Append(s, f) # <<>>
    BY <1>1, <1>4
  <1>6. QED
    BY <1>3, <1>4, <1>5 DEF CurrentTenantId, IsBypassed, Stack

\* The tenant a delivery's message carries is an id or none.
LEMMA ClaimType ==
  ASSUME TypeOK, NEW d \in Deliveries
  PROVE  Claimed(d) \in TenantOrNull
BY DEF Claimed, TypeOK, TenantOrNull

\* The invariant holds initially.
LEMMA InitIInv == Init => IInv
  <1> SUFFICES ASSUME Init PROVE IInv
    OBVIOUS
  <1>1. <<>> \in Stack
    BY DEF Stack
  <1>2. TypeOK
    BY <1>1, RpcConstants DEF Init, TypeOK, Unsent, TenantOrNull, Attempts
  <1>3. Authored
    BY DEF Init, Authored, Unsent
  <1>4. ASSUME NEW d \in Deliveries
        PROVE  Received(d) /\ Attempted(d) /\ InClaimed(d) /\ Identified(d)
    BY DEF Init, Received, Attempted, InClaimed, Identified, Started
  <1>5. QED
    BY <1>2, <1>3, <1>4 DEF IInv

\* A producer publishes a message that no delivery has yet.
LEMMA PublishIInv ==
  ASSUME IInv, NEW m \in Messages, Publish(m), UNCHANGED options
  PROVE  IInv'
  <1>1. PICK transport \in Transports, s \in Ambient, old \in TenantOrNull :
          LET t == CurrentTenantId(s) IN
          sent' = [sent EXCEPT ![m] =
            [transport |-> transport, author |-> t,
             tenant |-> IF t = NoTenant THEN old ELSE Injected(t, old)]]
    BY DEF Publish
  <1>2. transport \in {"bull", "kafka", "grpc"}
    BY RpcConstants DEF Transports, IInv, TypeOK
  <1>3. CurrentTenantId(s) \in TenantOrNull
    BY CurrentType, RpcConstants
  <1>4. TypeOK'
    BY <1>1, <1>2, <1>3 DEF Publish, Injected, IInv, TypeOK, Unsent
  <1>5. Authored'
    BY <1>1, <1>3 DEF Injected, Authored, IInv, TypeOK
  <1>6. ASSUME NEW d \in Deliveries
        PROVE  (Received(d) /\ Attempted(d) /\ InClaimed(d) /\ Identified(d))'
    <2>1. Received(d) /\ Attempted(d) /\ InClaimed(d) /\ Identified(d)
      BY DEF IInv
    <2>2. msg[d] # m
      BY <2>1, RpcConstants DEF Received, Publish
    <2>3. Claimed(d)' = Claimed(d) /\ Received(d)'
      BY <1>1, <2>1, <2>2 DEF Claimed, Received, IInv, TypeOK, Publish
    <2>4. QED
      BY <2>1, <2>3
         DEF Publish, Attempted, InClaimed, Identified, Started
  <1>7. QED
    BY <1>4, <1>5, <1>6 DEF IInv

\* What a delivery does leaves the others alone.
LEMMA OthersUnchanged ==
  ASSUME NEW e \in Deliveries,
         Received(e), Attempted(e), InClaimed(e), Identified(e),
         UNCHANGED <<options, sent>>,
         UNCHANGED <<msg[e], at[e], attempt[e], work[e], torn[e]>>
  PROVE  (Received(e) /\ Attempted(e) /\ InClaimed(e) /\ Identified(e))'
BY DEF Received, Attempted, InClaimed, Identified, Started, Claimed

\* The interceptor rejects a delivery, or returns its Observable.
LEMMA InterceptIInv ==
  ASSUME IInv, NEW d \in Deliveries, NEW m \in Messages, Intercept(d, m),
         UNCHANGED options
  PROVE  IInv'
  <1>1. TypeOK' /\ Authored'
    BY DEF Intercept, Move, IInv, TypeOK, Authored
  <1>2. /\ msg' = [msg EXCEPT ![d] = m] /\ msg'[d] = m
        /\ at'[d] \in {"rejected", "built"}
        /\ at'[d] = "built" /\ options.throws /\ options.transport # "auto" =>
             sent[m].tenant # NoTenant
        /\ UNCHANGED <<sent, attempt, work, torn>> /\ sent[m] # Unsent /\ at[d] = "idle"
    BY DEF Intercept, Move, IInv, TypeOK, Detected
  <1>3. m # NoMessage
    BY RpcConstants
  <1>4. \A n \in Attempts : ~ Started(d, n)' /\ torn'[d][n] = <<>>
    BY <1>2, RpcConstants DEF IInv, Attempted, Started, Attempts
  <1>5. (Received(d) /\ Attempted(d) /\ InClaimed(d) /\ Identified(d))'
    BY <1>2, <1>3, <1>4
       DEF IInv, Received, Attempted, InClaimed, Identified, Claimed
  <1>6. ASSUME NEW e \in Deliveries, e # d
        PROVE  (Received(e) /\ Attempted(e) /\ InClaimed(e) /\ Identified(e))'
    BY <1>6, OthersUnchanged DEF Intercept, Move, IInv, TypeOK
  <1>7. QED
    BY <1>1, <1>5, <1>6 DEF IInv

\* An attempt runs its handler, on its subscription or when the validator has
\* accepted the tenant.
LEMMA HandlerIInv ==
  ASSUME IInv, NEW d \in Deliveries, NEW s \in Ambient, NEW n \in Attempts,
         at[d] \notin {"idle", "rejected", "running"},
         n > attempt[d] \/ (n = attempt[d] /\ ~ Started(d, n)),
         Validates => Claimed(d) \in ValidTenants \cup {NoTenant},
         RunHandler(d, n, s), attempt' = [attempt EXCEPT ![d] = n],
         UNCHANGED <<options, sent, msg, torn>>
  PROVE  IInv'
  <1>1. Claimed(d) \in TenantOrNull
    BY ClaimType DEF IInv
  <1>2. TypeOK' /\ Authored'
    <2>1. InContext(s, Claimed(d)) \in Stack
      BY <1>1, ContextOpened
    <2>2. n \in 0 .. MaxAttempts
      BY RpcConstants DEF Attempts
    <2>3. QED
      BY <2>1, <2>2 DEF RunHandler, Move, IInv, TypeOK, Authored
  <1>3. work'[d][n] = InContext(s, Claimed(d)) /\ Claimed(d)' = Claimed(d)
        /\ \A k \in Attempts \ {n} : work'[d][k] = work[d][k]
    BY DEF RunHandler, IInv, TypeOK, Claimed
  <1>4. Started(d, n)' /\ \A k \in Attempts \ {n} : Started(d, k)' = Started(d, k)
    BY <1>1, <1>3, ContextOpened DEF Started
  <1>5. at'[d] = "running" /\ attempt'[d] = n /\ torn'[d] = torn[d]
    BY DEF RunHandler, Move, IInv, TypeOK
  <1>6. Received(d)' /\ Identified(d)'
    BY <1>3, <1>5 DEF IInv, Received, Identified
  <1>7. Attempted(d)'
    <2>1. torn[d][n] = <<>>
      BY DEF IInv, Attempted
    <2>2. attempt[d] \in 0 .. MaxAttempts /\ n \in 1 .. MaxAttempts /\ attempt[d] <= n
      BY RpcConstants DEF IInv, TypeOK, Attempts
    <2>3. QED
      BY <1>4, <1>5, <2>1, <2>2, RpcConstants DEF IInv, Attempted, Attempts
  <1>8. InClaimed(d)'
    BY <1>1, <1>3, <1>4, <1>5, ContextOpened DEF IInv, InClaimed
  <1>9. ASSUME NEW e \in Deliveries, e # d
        PROVE  (Received(e) /\ Attempted(e) /\ InClaimed(e) /\ Identified(e))'
    BY <1>9, OthersUnchanged DEF RunHandler, Move, IInv, TypeOK
  <1>10. QED
    BY <1>2, <1>6, <1>7, <1>8, <1>9 DEF IInv

\* An attempt begins.
LEMMA SubscribeIInv ==
  ASSUME IInv, NEW d \in Deliveries, NEW s \in Ambient, Subscribe(d, s),
         UNCHANGED options
  PROVE  IInv'
  <1> DEFINE n == attempt[d] + 1
  <1>1. n \in Attempts /\ n > attempt[d] /\ at[d] = "built"
    BY RpcConstants DEF Subscribe, IInv, TypeOK, Attempts
  <1>2. CASE Validates /\ Claimed(d) # NoTenant
    <2>1. at' = [at EXCEPT ![d] = "validating"] /\ attempt' = [attempt EXCEPT ![d] = n]
          /\ UNCHANGED <<sent, msg, work, torn>>
      BY <1>2 DEF Subscribe, Move
    <2>2. TypeOK' /\ Authored'
      BY <1>1, <2>1, RpcConstants DEF IInv, TypeOK, Authored, Attempts
    <2>3. (Received(d) /\ Attempted(d) /\ InClaimed(d) /\ Identified(d))'
      BY <1>1, <2>1, RpcConstants
         DEF IInv, TypeOK, Received, Attempted, InClaimed, Identified, Started,
             Claimed, Attempts
    <2>4. ASSUME NEW e \in Deliveries, e # d
          PROVE  (Received(e) /\ Attempted(e) /\ InClaimed(e) /\ Identified(e))'
      BY <2>1, <2>4, OthersUnchanged DEF IInv, TypeOK
    <2>5. QED
      BY <2>2, <2>3, <2>4 DEF IInv
  <1>3. CASE ~ (Validates /\ Claimed(d) # NoTenant)
    BY <1>1, <1>3, HandlerIInv DEF Subscribe
  <1>4. QED
    BY <1>2, <1>3

\* An attempt moves on without a handler: its validator refuses, it is cancelled
\* while it waits for it, or it is retried.
LEMMA MoveIInv ==
  ASSUME IInv, NEW d \in Deliveries, NEW place \in {"failed", "cancelled", "built"},
         at[d] \in {"validating", "failed"}, Move(d, place),
         UNCHANGED <<options, sent, msg, attempt, work, torn>>
  PROVE  IInv'
  <1>1. TypeOK' /\ Authored'
    BY DEF Move, IInv, TypeOK, Authored
  <1>2. (Received(d) /\ Attempted(d) /\ InClaimed(d) /\ Identified(d))'
    BY DEF Move, IInv, TypeOK, Received, Attempted, InClaimed, Identified, Started,
           Claimed
  <1>3. ASSUME NEW e \in Deliveries, e # d
        PROVE  (Received(e) /\ Attempted(e) /\ InClaimed(e) /\ Identified(e))'
    BY <1>3, OthersUnchanged DEF Move, IInv, TypeOK
  <1>4. QED
    BY <1>1, <1>2, <1>3 DEF IInv

\* A running handler is torn down.
LEMMA TearDownIInv ==
  ASSUME IInv, NEW d \in Deliveries, NEW s \in Ambient,
         NEW place \in {"completed", "failed", "cancelled"},
         at[d] = "running", Move(d, place), TearDown(d, s),
         UNCHANGED <<options, sent, msg, attempt, work>>
  PROVE  IInv'
  <1> DEFINE n == attempt[d]
  <1>1. Claimed(d) \in TenantOrNull /\ Claimed(d)' = Claimed(d)
    BY ClaimType DEF IInv, Claimed
  <1>2. n \in Attempts
    BY RpcConstants DEF IInv, TypeOK, Attempted, Attempts
  <1>3. TypeOK' /\ Authored'
    BY <1>1, <1>2, ContextOpened DEF Move, TearDown, IInv, TypeOK, Authored
  <1>4. torn'[d][n] = InContext(s, Claimed(d))
        /\ \A k \in Attempts \ {n} : torn'[d][k] = torn[d][k]
    BY <1>2 DEF TearDown, IInv, TypeOK
  <1>5. at'[d] = place
    BY DEF Move, IInv, TypeOK
  <1>6. Received(d)' /\ Identified(d)'
    BY <1>1, <1>5 DEF IInv, Received, Identified
  <1>7. Attempted(d)'
    BY <1>1, <1>2, <1>4, <1>5, ContextOpened DEF IInv, Attempted, Started
  <1>8. InClaimed(d)'
    BY <1>1, <1>4, ContextOpened DEF IInv, InClaimed, Started
  <1>9. ASSUME NEW e \in Deliveries, e # d
        PROVE  (Received(e) /\ Attempted(e) /\ InClaimed(e) /\ Identified(e))'
    BY <1>9, OthersUnchanged DEF Move, TearDown, IInv, TypeOK
  <1>10. QED
    BY <1>3, <1>6, <1>7, <1>8, <1>9 DEF IInv

\* Every step preserves the invariant.
LEMMA NextIInv == IInv /\ [Next]_vars => IInv'
  <1> SUFFICES ASSUME IInv, [Next]_vars PROVE IInv'
    OBVIOUS
  <1>1. ASSUME NEW m \in Messages, Publish(m), UNCHANGED options
        PROVE  IInv'
    BY <1>1, PublishIInv
  <1>2. ASSUME NEW d \in Deliveries, NEW m \in Messages, Intercept(d, m),
               UNCHANGED options
        PROVE  IInv'
    BY <1>2, InterceptIInv
  <1>3. ASSUME NEW d \in Deliveries, NEW s \in Ambient, Subscribe(d, s),
               UNCHANGED options
        PROVE  IInv'
    BY <1>3, SubscribeIInv
  <1>4. ASSUME NEW d \in Deliveries, NEW s \in Ambient, Cancel(d, s),
               UNCHANGED options
        PROVE  IInv'
    BY <1>4, MoveIInv, TearDownIInv DEF Cancel
  <1>5. ASSUME NEW d \in Deliveries, NEW s \in Ambient, Validated(d, s),
               UNCHANGED options
        PROVE  IInv'
    <2>1. CASE IsValid(Claimed(d)) /\ RunHandler(d, attempt[d], s)
      <3>1. attempt[d] \in Attempts /\ attempt' = [attempt EXCEPT ![d] = attempt[d]]
            /\ ~ Started(d, attempt[d])
        BY <1>5, RpcConstants DEF Validated, IInv, TypeOK, Attempted, Attempts
      <3>2. QED
        BY <1>5, <2>1, <3>1, HandlerIInv DEF Validated, IsValid
    <2>2. CASE Move(d, "failed") /\ UNCHANGED work
      BY <1>5, <2>2, MoveIInv DEF Validated
    <2>3. QED
      BY <1>5, <2>1, <2>2 DEF Validated
  <1>6. ASSUME NEW d \in Deliveries, NEW s \in Ambient, Settle(d, s),
               UNCHANGED options
        PROVE  IInv'
    BY <1>6, TearDownIInv DEF Settle
  <1>7. ASSUME NEW d \in Deliveries, Retry(d), UNCHANGED options
        PROVE  IInv'
    BY <1>7, MoveIInv DEF Retry
  <1>8. CASE UNCHANGED vars
    BY <1>8 DEF vars, IInv, TypeOK, Authored, Received, Attempted, InClaimed,
                Identified, Started, Claimed
  <1>9. QED
    BY <1>1, <1>2, <1>3, <1>4, <1>5, <1>6, <1>7, <1>8 DEF Next, Consume

\* The invariant holds in every reachable state.
THEOREM InvariantHolds == Spec => []IInv
BY InitIInv, NextIInv, PTL DEF Spec

-------------------------------------------------------------------------------
(***************************************************************************)
(* What follows for handlers and teardowns.                                *)
(***************************************************************************)
\* Every variable keeps its type.
THEOREM TypeCorrect == Spec => []TypeOK
  <1>1. IInv => TypeOK
    BY DEF IInv
  <1>2. QED
    BY <1>1, InvariantHolds, PTL

\* A handler runs for the tenant whose context its message was published in,
\* whoever subscribes, delivers it again or had a tenant in the carrier before.
THEOREM HandlersWorkForAuthors == Spec => []WorksForAuthor
  <1>1. IInv => WorksForAuthor
    <2> SUFFICES ASSUME IInv, NEW d \in Deliveries, NEW n \in Attempts,
                        Started(d, n), sent[msg[d]].author # NoTenant
                 PROVE  CurrentTenantId(work[d][n]) = sent[msg[d]].author
      BY DEF WorksForAuthor
    <2>1. at[d] # "idle"
      BY RpcConstants DEF IInv, TypeOK, Attempted, Attempts
    <2>2. msg[d] \in Messages /\ msg[d] # NoMessage
      BY <2>1 DEF IInv, TypeOK, Received
    <2>3. QED
      BY <2>2 DEF IInv, Authored, InClaimed, Claimed
  <1>2. QED
    BY <1>1, InvariantHolds, PTL

\* A handler runs for the tenant its message carries, once the validator has
\* accepted it, or for none; and never as a bypass.
THEOREM HandlersWorkForClaims == Spec => []WorksForClaim
  <1>1. IInv => WorksForClaim
    BY DEF IInv, InClaimed, WorksForClaim
  <1>2. QED
    BY <1>1, InvariantHolds, PTL

\* Every handler that was started is torn down, in its own context, unless it
\* still runs.
THEOREM TeardownsInContext == Spec => []TornDownInContext
  <1>1. IInv => TornDownInContext
    <2> SUFFICES ASSUME IInv, NEW d \in Deliveries, NEW n \in Attempts
                 PROVE  /\ torn[d][n] # <<>> =>
                             /\ Started(d, n)
                             /\ CurrentTenantId(torn[d][n]) = CurrentTenantId(work[d][n])
                             /\ IsBypassed(torn[d][n]) = IsBypassed(work[d][n])
                        /\ Started(d, n) /\ torn[d][n] = <<>> =>
                             at[d] = "running" /\ attempt[d] = n
      BY DEF TornDownInContext
    <2>1. QED
      BY DEF IInv, Attempted, InClaimed
  <1>2. QED
    BY <1>1, InvariantHolds, PTL

\* With the transport named wherever the policy is 'throw', no handler runs
\* without a tenant.  (Without that assumption it may: the run rpc_undetected.)
THEOREM MissingRefused ==
  ASSUME \A o \in Consumers : o.throws => o.transport # "auto"
  PROVE  Spec => []MissingFailsClosed
  <1>1. IInv => MissingFailsClosed
    <2> SUFFICES ASSUME IInv, options.throws, NEW d \in Deliveries, NEW n \in Attempts,
                        Started(d, n)
                 PROVE  CurrentTenantId(work[d][n]) # NoTenant
      BY DEF MissingFailsClosed
    <2>1. options.transport # "auto"
      BY DEF IInv, TypeOK
    <2>2. at[d] \notin {"idle", "rejected"}
      BY RpcConstants DEF IInv, TypeOK, Attempted, Attempts
    <2>3. QED
      BY <2>1, <2>2 DEF IInv, Identified, InClaimed
  <1>2. QED
    BY <1>1, InvariantHolds, PTL

-------------------------------------------------------------------------------
(***************************************************************************)
(* What a step does to the work of a delivery.                             *)
(***************************************************************************)
\* A step changes the work of one delivery at most, of one that is subscribed or
\* awaits its validator, and starts the attempt it has come to.
LEMMA WorkStep ==
  ASSUME IInv, [Next]_vars, NEW d \in Deliveries, work'[d] # work[d]
  PROVE  at[d] \in {"built", "validating"}
  <1>1. ASSUME NEW e \in Deliveries, NEW n, NEW s, RunHandler(e, n, s)
        PROVE  e = d
    BY <1>1 DEF RunHandler, IInv, TypeOK
  <1>2. ASSUME NEW e \in Deliveries, NEW s, Subscribe(e, s)
        PROVE  at[d] = "built"
    BY <1>1, <1>2 DEF Subscribe
  <1>3. ASSUME NEW e \in Deliveries, NEW s, Validated(e, s)
        PROVE  at[d] = "validating"
    BY <1>1, <1>3 DEF Validated
  <1>4. QED
    BY <1>2, <1>3
       DEF Next, Consume, Publish, Intercept, Cancel, Settle, Retry, vars

\* A delivery that was cancelled, rejected or completed starts no handler any
\* more, whatever its validator answers.
THEOREM NoWorkAfterEnd == Spec => NoLateWork
  <1>1. IInv /\ [Next]_vars =>
          [\A d \in Deliveries :
             at[d] \in {"cancelled", "rejected", "completed"} => work'[d] = work[d]]_vars
    BY WorkStep
  <1>2. QED
    BY <1>1, InvariantHolds, PTL DEF Spec, NoLateWork

(***************************************************************************)
(* The refinement.  What a step does to one attempt at a delivery, as the  *)
(* abstract specification sees it: nothing, or one of its three actions.   *)
(***************************************************************************)
AcceptableClaims == IF Validates THEN ValidTenants ELSE Tenants

Scope(d, n) == CurrentTenantId(work[d][n])

Unseen(d, n) ==
  /\ Claimed(d)' = Claimed(d) /\ Verdict(d, n)' = Verdict(d, n)
  /\ Scope(d, n)' = Scope(d, n)

\* Every attempt at the delivery claims the same tenant.
Claims(d) ==
  /\ Claimed(d) = NoTenant /\ Claimed(d)' \in Tenants
  /\ \A n \in Attempts :
       /\ Verdict(d, n) = "waiting" /\ Verdict(d, n)' = "waiting"
       /\ Scope(d, n)' = Scope(d, n)

\* The attempts in N are refused, and the others are as they were.
Refuses(d, N) ==
  /\ Claimed(d)' = Claimed(d)
  /\ \A n \in Attempts :
       /\ n \in N => Verdict(d, n) = "waiting" /\ Verdict(d, n)' = "refused"
       /\ n \notin N => Verdict(d, n)' = Verdict(d, n)
       /\ Scope(d, n)' = Scope(d, n)

Admits(d, n) ==
  /\ Claimed(d)' = Claimed(d)
  /\ Verdict(d, n) = "waiting" /\ Verdict(d, n)' = "admitted"
  /\ Scope(d, n)' = Claimed(d) /\ Claimed(d) \in {NoTenant} \cup AcceptableClaims
  /\ \A k \in Attempts \ {n} : Unseen(d, k)

Seen(d) ==
  \/ \A n \in Attempts : Unseen(d, n)
  \/ Claims(d)
  \/ \E N \in SUBSET Attempts : Refuses(d, N)
  \/ \E n \in Attempts : Admits(d, n)

\* A step that touches one delivery is a step of the abstract specification.
LEMMA StepRefined ==
  ASSUME NEW d \in Deliveries,
         \A e \in Deliveries \ {d}, n \in Attempts : Unseen(e, n), Seen(d)
  PROVE  [Admission!Next]_(Admission!admVars)
  <1> DEFINE Every == Deliveries \X Attempts
  <1>0. \A w \in Every : w[1] \in Deliveries /\ w[2] \in Attempts /\ w = <<w[1], w[2]>>
    OBVIOUS
  <1>1. CASE \A n \in Attempts : Unseen(d, n)
    <2>1. \A w \in Every : Unseen(w[1], w[2])
      BY <1>0, <1>1
    <2>2. QED
      BY <2>1 DEF Unseen, Scope, Admission!admVars
  <1>2. CASE Claims(d)
    <2> DEFINE W == {d} \X Attempts
    <2>1. \A w \in Every : (w \in W <=> w[1] = d) /\ (w[1] # d => Unseen(w[1], w[2]))
      BY <1>0
    <2>2. /\ W \in SUBSET Every
          /\ \A w \in W : w[1] = d /\ w[2] \in Attempts /\ w \in Every
      OBVIOUS
    <2>3. Admission!Claim(W)
      <3>1. \A w \in W : Verdict(w[1], w[2]) = "waiting" /\ Claimed(w[1]) = NoTenant
        BY <1>2, <2>2 DEF Claims
      <3>2. \A w \in Every : Claimed(w[1])' = IF w \in W THEN Claimed(d)' ELSE Claimed(w[1])
        BY <2>1 DEF Unseen
      <3>3. \A w \in Every : Verdict(w[1], w[2])' = Verdict(w[1], w[2])
        BY <1>0, <1>2, <2>1 DEF Claims, Unseen
      <3>4. \A w \in Every : CurrentTenantId(work[w[1]][w[2]])' = CurrentTenantId(work[w[1]][w[2]])
        BY <1>0, <1>2, <2>1 DEF Claims, Unseen, Scope
      <3>5. Claimed(d)' \in Tenants
        BY <1>2 DEF Claims
      <3> HIDE DEF W
      <3>6. QED
        BY <2>2, <3>1, <3>2, <3>3, <3>4, <3>5 DEF Admission!Claim
    <2>4. QED
      BY <2>2, <2>3 DEF Admission!Next
  <1>3. ASSUME NEW N \in SUBSET Attempts, Refuses(d, N)
        PROVE  [Admission!Next]_(Admission!admVars)
    <2> DEFINE W == {d} \X N
    <2>1. /\ W \in SUBSET Every
          /\ \A w \in Every : w \in W <=> w[1] = d /\ w[2] \in N
      OBVIOUS
    <2>2. \A w \in Every : w[1] # d => Unseen(w[1], w[2])
      BY <1>0
    <2>3. Admission!Refuse(W)
      <3>1. \A w \in W : Verdict(w[1], w[2]) = "waiting" /\ w \in Every
        BY <1>0, <1>3, <2>1 DEF Refuses
      <3>2. \A w \in Every : Claimed(w[1])' = Claimed(w[1])
        BY <1>3, <2>2 DEF Refuses, Unseen
      <3>3. \A w \in Every :
              Verdict(w[1], w[2])' = IF w \in W THEN "refused" ELSE Verdict(w[1], w[2])
        BY <1>0, <1>3, <2>1, <2>2 DEF Refuses, Unseen
      <3>4. \A w \in Every : CurrentTenantId(work[w[1]][w[2]])' = CurrentTenantId(work[w[1]][w[2]])
        BY <1>0, <1>3, <2>2 DEF Refuses, Unseen, Scope
      <3> HIDE DEF W
      <3>5. QED
        BY <3>1, <3>2, <3>3, <3>4 DEF Admission!Refuse
    <2>4. QED
      BY <2>1, <2>3 DEF Admission!Next
  <1>4. ASSUME NEW n \in Attempts, Admits(d, n)
        PROVE  [Admission!Next]_(Admission!admVars)
    <2> DEFINE v == <<d, n>>
    <2>1. \A w \in Every : w # v => Unseen(w[1], w[2])
      BY <1>0, <1>4 DEF Admits
    <2>2. v \in Every /\ v[1] = d /\ v[2] = n
      OBVIOUS
    <2>3. Admission!Admit(v)
      <3>1. \A w \in Every : Claimed(w[1])' = Claimed(w[1])
        BY <1>4, <2>1, <2>2 DEF Admits, Unseen
      <3>2. \A w \in Every :
              Verdict(w[1], w[2])' = IF w = v THEN "admitted" ELSE Verdict(w[1], w[2])
        BY <1>4, <2>1, <2>2 DEF Admits, Unseen
      <3>3. \A w \in Every :
              CurrentTenantId(work[w[1]][w[2]])' =
                IF w = v THEN Claimed(d) ELSE CurrentTenantId(work[w[1]][w[2]])
        BY <1>4, <2>1, <2>2 DEF Admits, Unseen, Scope
      <3>4. /\ Verdict(v[1], v[2]) = "waiting"
            /\ Claimed(d) \in {NoTenant} \cup ({Claimed(v[1])} \cap AcceptableClaims)
        BY <1>4, <2>2 DEF Admits
      <3> HIDE DEF v
      <3>5. QED
        BY <2>2, <3>1, <3>2, <3>3, <3>4 DEF Admission!Admit, AcceptableClaims
    <2>4. QED
      BY <2>2, <2>3 DEF Admission!Next
  <1>5. QED
    BY <1>1, <1>2, <1>3, <1>4 DEF Seen

\* What a delivery does is not seen of the others.
LEMMA OthersUnseen ==
  ASSUME NEW e \in Deliveries, NEW n \in Attempts,
         UNCHANGED <<options, sent>>, UNCHANGED <<msg[e], at[e], attempt[e], work[e]>>
  PROVE  Unseen(e, n)
BY DEF Unseen, Scope, Claimed, Verdict, Started

\* What the interceptor learns is the claim of every attempt; its rejection
\* refuses them all.
LEMMA InterceptRefined ==
  ASSUME IInv, NEW d \in Deliveries, NEW m \in Messages, Intercept(d, m),
         UNCHANGED options
  PROVE  Seen(d)
  <1>1. /\ attempt'[d] = 0 /\ attempt[d] = 0 /\ work'[d] = work[d] /\ at[d] = "idle"
        /\ \A n \in Attempts : ~ Started(d, n) /\ ~ Started(d, n)' /\ n \in Nat /\ n > 0
    BY RpcConstants DEF Intercept, IInv, TypeOK, Attempted, Attempts, Started
  <1>2. msg[d] = NoMessage /\ msg'[d] = m /\ m # NoMessage /\ UNCHANGED sent
    BY RpcConstants DEF Intercept, IInv, TypeOK, Received
  <1>3. Claimed(d) = NoTenant /\ Claimed(d)' = sent[m].tenant
        /\ sent[m].tenant \in TenantOrNull
    BY <1>2 DEF Claimed, IInv, TypeOK
  <1>4. \A n \in Attempts : Verdict(d, n) = "waiting" /\ Scope(d, n)' = Scope(d, n)
    BY <1>1 DEF Verdict, Scope
  <1>5. CASE at'[d] = "rejected" /\ sent[m].tenant = NoTenant
    <2>1. \A n \in Attempts : Verdict(d, n)' = "refused"
      BY <1>1, <1>5 DEF Verdict
    <2>2. Refuses(d, Attempts)
      BY <1>3, <1>4, <1>5, <2>1 DEF Refuses
    <2>3. QED
      BY <2>2 DEF Seen
  <1>6. CASE at'[d] = "built"
    <2>1. \A n \in Attempts : Verdict(d, n)' = "waiting"
      BY <1>1, <1>6 DEF Verdict
    <2>2. Claims(d) \/ \A n \in Attempts : Unseen(d, n)
      BY <1>3, <1>4, <2>1 DEF Claims, Unseen, TenantOrNull
    <2>3. QED
      BY <2>2 DEF Seen
  <1>7. QED
    BY <1>5, <1>6 DEF Intercept, Move, IInv, TypeOK

\* The handler that runs admits its attempt and no other.
LEMMA HandlerRefined ==
  ASSUME IInv, NEW d \in Deliveries, NEW s \in Ambient, NEW n \in Attempts,
         \/ at[d] = "built" /\ n = attempt[d] + 1
         \/ at[d] = "validating" /\ n = attempt[d],
         Claimed(d) \in {NoTenant} \cup AcceptableClaims,
         RunHandler(d, n, s), attempt' = [attempt EXCEPT ![d] = n],
         UNCHANGED <<options, sent, msg>>
  PROVE  Seen(d)
  <1>1. /\ Claimed(d) \in TenantOrNull /\ Claimed(d)' = Claimed(d)
        /\ work'[d][n] = InContext(s, Claimed(d))
        /\ \A k \in Attempts \ {n} : work'[d][k] = work[d][k]
        /\ at'[d] = "running" /\ attempt'[d] = n
    BY ClaimType DEF RunHandler, Move, IInv, TypeOK, Claimed
  <1>2. attempt[d] \in Nat /\ \A k \in Attempts : k \in Nat
    BY RpcConstants DEF Attempts, IInv, TypeOK
  <1>3. ~ Started(d, n) /\ Verdict(d, n) = "waiting"
    BY <1>2 DEF IInv, Attempted, Verdict
  <1>4. work'[d][n] # <<>> /\ CurrentTenantId(work'[d][n]) = Claimed(d)
    BY <1>1, ContextOpened
  <1>5. Verdict(d, n)' = "admitted" /\ Scope(d, n)' = Claimed(d)
    BY <1>4 DEF Verdict, Started, Scope
  <1>6. ASSUME NEW k \in Attempts \ {n}
        PROVE  Unseen(d, k)
    <2>1. Started(d, k)' = Started(d, k) /\ Scope(d, k)' = Scope(d, k)
      BY <1>1 DEF Started, Scope
    <2>2. (k < attempt[d] \/ (k = attempt[d] /\ at[d] = "built")) <=> k < n
      BY <1>2
    <2>3. Verdict(d, k)' = Verdict(d, k)
      BY <1>1, <1>2, <2>1, <2>2 DEF Verdict
    <2>4. QED
      BY <1>1, <2>1, <2>3 DEF Unseen
  <1>7. Admits(d, n)
    BY <1>1, <1>3, <1>5, <1>6 DEF Admits
  <1>8. QED
    BY <1>7 DEF Seen

\* A subscription that waits for the validator is not seen.
LEMMA SubscribeRefined ==
  ASSUME IInv, NEW d \in Deliveries, NEW s \in Ambient, Subscribe(d, s),
         UNCHANGED options
  PROVE  Seen(d)
  <1>1. CASE Validates /\ Claimed(d) # NoTenant
    <2>1. /\ at[d] = "built" /\ at'[d] = "validating" /\ attempt'[d] = attempt[d] + 1
          /\ attempt[d] \in Nat /\ work' = work /\ Claimed(d)' = Claimed(d)
      BY <1>1, RpcConstants DEF Subscribe, Move, IInv, TypeOK, Claimed
    <2>2. \A k \in Attempts : k \in Nat /\ (k > attempt[d] => ~ Started(d, k))
      BY <2>1, RpcConstants DEF IInv, Attempted, Attempts
    <2>3. ASSUME NEW k \in Attempts
          PROVE  Unseen(d, k)
      BY <2>1, <2>2 DEF Unseen, Scope, Verdict, Started
    <2>4. QED
      BY <2>3 DEF Seen
  <1>2. CASE ~ (Validates /\ Claimed(d) # NoTenant)
    <2>1. Claimed(d) \in {NoTenant} \cup AcceptableClaims
      BY <1>2, ClaimType DEF IInv, TenantOrNull, AcceptableClaims
    <2>2. QED
      BY <1>2, <2>1, HandlerRefined DEF Subscribe
  <1>3. QED
    BY <1>1, <1>2

\* An attempt that ends without a handler is refused; a retry is not seen.
LEMMA MoveRefined ==
  ASSUME IInv, NEW d \in Deliveries,
         NEW place \in {"built", "completed", "failed", "cancelled"}, Move(d, place),
         \/ at[d] = "running" /\ place # "built"
         \/ at[d] = "validating" /\ place \in {"failed", "cancelled"}
         \/ at[d] = "failed" /\ place = "built",
         UNCHANGED <<options, sent, msg, attempt, work>>
  PROVE  Seen(d)
  <1>1. /\ at'[d] = place /\ Claimed(d)' = Claimed(d) /\ work'[d] = work[d]
        /\ attempt'[d] = attempt[d] /\ attempt[d] \in Nat /\ attempt[d] # 0
        /\ \A k \in Attempts : k \in Nat
    BY RpcConstants DEF Move, IInv, TypeOK, Claimed, Attempted, Attempts
  <1>2. \A k \in Attempts :
          Started(d, k)' = Started(d, k) /\ Scope(d, k)' = Scope(d, k)
    BY <1>1 DEF Started, Scope
  <1>3. at[d] = "running" => Started(d, attempt[d])
    BY <1>1 DEF IInv, Attempted
  <1>4. CASE at[d] = "validating"
    <2>1. \A k \in Attempts : k >= attempt[d] => ~ Started(d, k)
      BY <1>1, <1>4 DEF IInv, Attempted
    <2>2. Refuses(d, {attempt[d]} \cap Attempts)
      BY <1>1, <1>2, <1>4, <2>1 DEF Refuses, Verdict
    <2>3. QED
      BY <2>2 DEF Seen
  <1>5. CASE at[d] \in {"running", "failed"}
    <2>1. ASSUME NEW k \in Attempts
          PROVE  Verdict(d, k)' = Verdict(d, k)
      <3>1. CASE Started(d, k)
        BY <1>2, <3>1 DEF Verdict
      <3>2. CASE ~ Started(d, k) /\ k < attempt[d]
        BY <1>1, <1>2, <3>2 DEF Verdict
      <3>3. CASE ~ Started(d, k) /\ k >= attempt[d]
        BY <1>1, <1>2, <1>3, <1>5, <3>3 DEF Verdict
      <3>4. QED
        BY <1>1, <3>1, <3>2, <3>3
    <2>2. QED
      BY <1>1, <1>2, <2>1 DEF Unseen, Seen
  <1>6. QED
    BY <1>4, <1>5

\* However a message is delivered, subscribed, retried and cancelled, each attempt
\* at it, the first and every retry, is refused or admitted once, and admitted for
\* the tenant the message carries, if that one is accepted, or for none.
THEOREM AdmissionImplemented == Spec => AdmissionRefined
  <1>1. Init => Admission!Init
    <2> SUFFICES ASSUME Init PROVE Admission!Init
      OBVIOUS
    <2>1. ASSUME NEW d \in Deliveries, NEW n \in Attempts
          PROVE  Claimed(d) = NoTenant /\ Verdict(d, n) = "waiting"
                 /\ CurrentTenantId(work[d][n]) = NoTenant
      <3>1. n \in Nat /\ n > 0
        BY RpcConstants DEF Attempts
      <3>2. QED
        BY <3>1 DEF Init, Claimed, Verdict, Started, CurrentTenantId
    <2>2. \A w \in Deliveries \X Attempts : w[1] \in Deliveries /\ w[2] \in Attempts
      OBVIOUS
    <2>3. QED
      BY <2>1, <2>2 DEF Admission!Init
  <1>2. IInv /\ [Next]_vars => [Admission!Next]_(Admission!admVars)
    <2> SUFFICES ASSUME IInv, [Next]_vars
                 PROVE  [Admission!Next]_(Admission!admVars)
      OBVIOUS
    <2>1. ASSUME \A e \in Deliveries, n \in Attempts : Unseen(e, n)
          PROVE  UNCHANGED Admission!admVars
      <3>1. \A w \in Deliveries \X Attempts : Unseen(w[1], w[2])
        BY <2>1
      <3>2. QED
        BY <3>1 DEF Unseen, Scope, Admission!admVars
    <2>2. CASE UNCHANGED vars
      BY <2>1, <2>2, OthersUnseen DEF vars
    <2>3. ASSUME NEW m \in Messages, Publish(m), UNCHANGED options
          PROVE  UNCHANGED Admission!admVars
      <3>1. ASSUME NEW e \in Deliveries, NEW n \in Attempts PROVE Unseen(e, n)
        <4>1. msg[e] # m
          BY <2>3, RpcConstants DEF Publish, IInv, Received
        <4>2. Claimed(e)' = Claimed(e)
          BY <2>3, <4>1 DEF Publish, Claimed, IInv, TypeOK
        <4>3. QED
          BY <2>3, <4>2 DEF Publish, Unseen, Scope, Verdict, Started
      <3>2. QED
        BY <2>1, <3>1
    <2>4. ASSUME NEW d \in Deliveries, NEW m \in Messages, Intercept(d, m),
                 UNCHANGED options
          PROVE  [Admission!Next]_(Admission!admVars)
      <3>1. \A e \in Deliveries \ {d}, n \in Attempts : Unseen(e, n)
        BY <2>4, OthersUnseen DEF Intercept, Move, IInv, TypeOK
      <3>2. QED
        BY <2>4, <3>1, InterceptRefined, StepRefined
    <2>5. ASSUME NEW d \in Deliveries, NEW s \in Ambient, Subscribe(d, s),
                 UNCHANGED options
          PROVE  [Admission!Next]_(Admission!admVars)
      <3>1. \A e \in Deliveries \ {d}, n \in Attempts : Unseen(e, n)
        BY <2>5, OthersUnseen DEF Subscribe, RunHandler, Move, IInv, TypeOK
      <3>2. QED
        BY <2>5, <3>1, SubscribeRefined, StepRefined
    <2>6. ASSUME NEW d \in Deliveries, NEW s \in Ambient, Validated(d, s),
                 UNCHANGED options
          PROVE  [Admission!Next]_(Admission!admVars)
      <3>1. \A e \in Deliveries \ {d}, n \in Attempts : Unseen(e, n)
        BY <2>6, OthersUnseen DEF Validated, RunHandler, Move, IInv, TypeOK
      <3>2. CASE IsValid(Claimed(d)) /\ RunHandler(d, attempt[d], s)
        <4>1. attempt[d] \in Attempts /\ attempt' = [attempt EXCEPT ![d] = attempt[d]]
          BY <2>6, RpcConstants DEF Validated, IInv, TypeOK, Attempted, Attempts
        <4>2. Claimed(d) \in {NoTenant} \cup AcceptableClaims
          BY <3>2, RpcConstants DEF IsValid, AcceptableClaims
        <4>3. Seen(d)
          BY <2>6, <3>2, <4>1, <4>2, HandlerRefined DEF Validated
        <4>4. QED
          BY <3>1, <4>3, StepRefined
      <3>3. CASE Move(d, "failed") /\ UNCHANGED work
        <4>1. Seen(d)
          BY <2>6, <3>3, MoveRefined DEF Validated
        <4>2. QED
          BY <3>1, <4>1, StepRefined
      <3>4. QED
        BY <2>6, <3>2, <3>3 DEF Validated
    <2>7. ASSUME NEW d \in Deliveries, NEW s \in Ambient, Settle(d, s) \/ Cancel(d, s),
                 UNCHANGED options
          PROVE  [Admission!Next]_(Admission!admVars)
      <3>1. \A e \in Deliveries \ {d}, n \in Attempts : Unseen(e, n)
        BY <2>7, OthersUnseen DEF Settle, Cancel, Move, IInv, TypeOK
      <3>2. Seen(d)
        BY <2>7, MoveRefined DEF Settle, Cancel
      <3>3. QED
        BY <3>1, <3>2, StepRefined
    <2>8. ASSUME NEW d \in Deliveries, Retry(d), UNCHANGED options
          PROVE  [Admission!Next]_(Admission!admVars)
      <3>1. \A e \in Deliveries \ {d}, n \in Attempts : Unseen(e, n)
        BY <2>8, OthersUnseen DEF Retry, Move, IInv, TypeOK
      <3>2. Seen(d)
        BY <2>8, MoveRefined DEF Retry
      <3>3. QED
        BY <3>1, <3>2, StepRefined
    <2>9. QED
      BY <2>2, <2>3, <2>4, <2>5, <2>6, <2>7, <2>8 DEF Next, Consume
  <1>3. QED
    BY <1>1, <1>2, InvariantHolds, PTL DEF Spec, AdmissionRefined, Admission!Spec
===============================================================================
