---------------------------- MODULE TenantPipeline ----------------------------
(***************************************************************************)
(* An HTTP request on its way to its handler:                              *)
(*   src/src/middleware/tenant.middleware.ts   TenantMiddleware            *)
(*   src/src/extractors/composite...           CompositeTenantExtractor    *)
(*   src/src/guards/tenancy.guard.ts           TenancyGuard                *)
(*   src/src/telemetry/...                     the 'tenant.resolved' span  *)
(*   src/src/events/...                        the lifecycle events        *)
(*                                                                         *)
(* The middleware is one asynchronous chain per request.  It awaits the    *)
(* application's extractor, validator, cross-check and hooks, each of      *)
(* which returns or throws.  Once it calls next() the rest of the request  *)
(* is a chain of its own, in the context next() was called in, and runs    *)
(* concurrently with what is left of the middleware: the end of the span.  *)
(* A request may reach the middleware in any ambient context, that of a    *)
(* server started inside one, say.                                         *)
(***************************************************************************)
EXTENDS TenantExtractors

CONSTANTS
  Requests,
  Incoming,       \* what each request can hold
  Sources,        \* the extractors of the composite extractor, in order
  Ambient,        \* contexts a request can find around it
  ValidTenants,   \* what options.validateTenantId accepts
  CrossChecks,    \* values of options.crossCheck: "off", "reject" or "log", and
                  \* whether the secondary source is required
  Unread          \* the secondary source was not read

ASSUME PipelineConstants ==
  /\ Ambient \subseteq Stack
  /\ Sources \in Seq({"header", "jwt", "path", "host", "lookup"}) /\ Sources # <<>>
  /\ \A r \in Requests : Unread \notin Incoming[r]
  /\ \A r \in Requests : \A q \in Incoming[r], i \in DOMAIN Sources :
       Extracted(Sources[i], q) \in TenantOrNull \cup {EmptyText}   \* string | null
  /\ ValidTenants \subseteq Tenants
  /\ CrossChecks \subseteq [onFailed : {"off", "reject", "log"}, required : BOOLEAN]
  /\ Unread \notin TenantOrNull

VARIABLES
  crossCheck, \* options.crossCheck of the module; it never changes
  at,       \* where the middleware of a request is
  request,  \* what it holds, until its tenant is extracted
  source,   \* the extractor that is asked
  stack,    \* the context of its chain
  id,       \* tenantId
  second,   \* crossCheckId
  span,     \* how often the span was started and ended
  down,     \* where the rest of the request is
  seen,     \* the context of that chain
  log       \* the events emitted for the request

reqVars == <<request, source>>
vars == <<crossCheck, at, reqVars, stack, id, second, span, down, seen, log>>

NoSpan == [started |-> 0, ended |-> 0]

Init ==
  /\ crossCheck \in CrossChecks
  /\ at = [r \in Requests |-> "new"]
  /\ request = [r \in Requests |-> Unread]
  /\ source = [r \in Requests |-> 0]
  /\ stack \in [Requests -> Ambient]
  /\ id = [r \in Requests |-> NoTenant]
  /\ second = [r \in Requests |-> Unread]
  /\ span = [r \in Requests |-> NoSpan]
  /\ down = [r \in Requests |-> "none"]
  /\ seen = stack
  /\ log = [r \in Requests |-> <<>>]

-------------------------------------------------------------------------------
Goto(r, place) == at' = [at EXCEPT ![r] = place]

Emit(r, event) == log' = [log EXCEPT ![r] = Append(@, event)]

\* next(): the downstream chain starts in the context of the caller
CallNext(r) ==
  /\ down' = [down EXCEPT ![r] = "guard"]
  /\ seen' = [seen EXCEPT ![r] = stack[r]]

\* Seeded fault: the ambient context shows through.
InAmbientContext(s) == s

InEmptyContext(s) == RunInEmpty(s)

\* use(): the chain leaves whatever context it was called in
Use(r) ==
  /\ at[r] = "new"
  /\ stack' = [stack EXCEPT ![r] = InEmptyContext(@)]
  /\ \E q \in Incoming[r] : request' = [request EXCEPT ![r] = q]
  /\ source' = [source EXCEPT ![r] = 1]
  /\ Goto(r, "extract")
  /\ UNCHANGED <<id, second, span, down, seen, log>>

Forget(r) ==
  /\ request' = [request EXCEPT ![r] = Unread]
  /\ source' = [source EXCEPT ![r] = 0]

\* Seeded fault: an empty id is passed over.
EndsIfTruthy(value) == value \notin {NoTenant, EmptyText}

\* result != null
EndsSearch(value) == value # NoTenant

\* One extractor of the composite answers, at once or by its Promise, or
\* rejects; the middleware takes '' for no tenant.
Extract(r) ==
  /\ at[r] = "extract"
  /\ LET value == Extracted(Sources[source[r]], request[r]) IN
     \/ /\ ~ EndsSearch(value) /\ source[r] < Len(Sources)
        /\ source' = [source EXCEPT ![r] = @ + 1]
        /\ UNCHANGED <<at, request, id, log>>
     \/ /\ EndsSearch(value) \/ source[r] = Len(Sources)
        /\ Forget(r)
        /\ IF value \in {NoTenant, EmptyText}
           THEN Emit(r, "NOT_FOUND") /\ Goto(r, "notFound") /\ UNCHANGED id
           ELSE id' = [id EXCEPT ![r] = value] /\ Goto(r, "validate") /\ UNCHANGED log
     \/ /\ Sources[source[r]] = "lookup"
        /\ Forget(r)
        /\ Emit(r, "EXTRACTION_FAILED") /\ Goto(r, "failed") /\ UNCHANGED id
  /\ UNCHANGED <<stack, second, span, down, seen>>

\* Seeded fault: the test for 'skip' is inverted.
PassIfSkipped(r) ==
  /\ at[r] = "notFound"
  /\ \/ Goto(r, "skipped") /\ CallNext(r)
     \/ Goto(r, "done") /\ UNCHANGED <<down, seen>>
     \/ Goto(r, "failed") /\ UNCHANGED <<down, seen>>
  /\ UNCHANGED <<reqVars, stack, id, second, span, log>>

\* onTenantNotFound, if there is one: next(), 'skip' or an exception
NotFound(r) ==
  /\ at[r] = "notFound"
  /\ \/ Goto(r, "done") /\ CallNext(r)
     \/ Goto(r, "skipped") /\ UNCHANGED <<down, seen>>
     \/ Goto(r, "failed") /\ UNCHANGED <<down, seen>>
  /\ UNCHANGED <<reqVars, stack, id, second, span, log>>

\* context.run(tenantId, ...) up to the first await in it: the span is started
\* and onTenantResolved is called
EnterTenant(r) ==
  /\ stack' = [stack EXCEPT ![r] = Run(@, id[r])]
  /\ span' = [span EXCEPT ![r].started = @ + 1]
  /\ Goto(r, "hook")

\* Seeded fault: an id the validator rejects goes on.
AcceptsAnything(t) == TRUE

IsValid(t) == t \in ValidTenants

Validate(r) ==
  /\ at[r] = "validate"
  /\ \/ /\ ~ IsValid(id[r])
        /\ Emit(r, "VALIDATION_FAILED") /\ Goto(r, "failed")
        /\ UNCHANGED <<stack, span>>
     \/ Goto(r, "failed") /\ UNCHANGED <<stack, span, log>>
     \/ /\ IsValid(id[r])
        /\ IF crossCheck.onFailed = "off"
           THEN EnterTenant(r)
           ELSE Goto(r, "crossCheck") /\ UNCHANGED <<stack, span>>
        /\ UNCHANGED log
  /\ UNCHANGED <<reqVars, id, second, down, seen>>

\* Seeded fault: a missing secondary source is never required.
Optional(x) == FALSE

Missing(x) == x = NoTenant /\ crossCheck.required

Mismatch(r, x) == x \notin {NoTenant, id[r]}

CompareSources(r) ==
  /\ at[r] = "crossCheck"
  /\ \/ Goto(r, "failed") /\ UNCHANGED <<stack, second, span, log>>
     \/ \E x \in TenantOrNull :
          /\ second' = [second EXCEPT ![r] = x]
          /\ \/ Missing(x) /\ Goto(r, "failed") /\ UNCHANGED <<stack, span, log>>
             \/ /\ Mismatch(r, x)
                /\ Emit(r, "CROSS_CHECK_FAILED")
                /\ IF crossCheck.onFailed = "reject"
                   THEN Goto(r, "failed") /\ UNCHANGED <<stack, span>>
                   ELSE EnterTenant(r)
             \/ /\ ~ Missing(x) /\ ~ Mismatch(r, x)
                /\ EnterTenant(r)
                /\ UNCHANGED log
  /\ UNCHANGED <<reqVars, id, down, seen>>

\* Seeded fault: next() runs although the hook threw.
PassAlthoughThrown(r) ==
  /\ at[r] = "hook"
  /\ CallNext(r)
  /\ \/ Emit(r, "RESOLVED") /\ Goto(r, "endSpan")
     \/ Goto(r, "endSpanThrow") /\ UNCHANGED log
  /\ UNCHANGED <<reqVars, stack, id, second, span>>

\* onTenantResolved settles
Resolved(r) ==
  /\ at[r] = "hook"
  /\ \/ Emit(r, "RESOLVED") /\ CallNext(r) /\ Goto(r, "endSpan")
     \/ Goto(r, "endSpanThrow") /\ UNCHANGED <<down, seen, log>>
  /\ UNCHANGED <<reqVars, stack, id, second, span>>

\* Seeded fault: the span survives a hook that throws.
EndUnlessThrown(r) ==
  IF at[r] = "endSpan" THEN span' = [span EXCEPT ![r].ended = @ + 1]
                       ELSE UNCHANGED span

EndSpan(r) == span' = [span EXCEPT ![r].ended = @ + 1]

\* endSpanAfter: finally, then the middleware's promise settles
SpanSettled(r) ==
  /\ at[r] \in {"endSpan", "endSpanThrow"}
  /\ EndSpan(r)
  /\ Goto(r, IF at[r] = "endSpan" THEN "done" ELSE "failed")
  /\ UNCHANGED <<reqVars, stack, id, second, down, seen, log>>

-------------------------------------------------------------------------------
\* canActivate: of a route with @BypassTenancy(), and of any other
Guard(r) ==
  /\ down[r] = "guard"
  /\ \/ /\ Emit(r, "CONTEXT_BYPASSED")
        /\ down' = [down EXCEPT ![r] = "handler"]
     \/ /\ down' = [down EXCEPT ![r] =
                      IF CurrentTenantId(seen[r]) = NoTenant THEN "forbidden"
                                                             ELSE "handler"]
        /\ UNCHANGED log
  /\ UNCHANGED <<at, reqVars, stack, id, second, span, seen>>

\* the handler answers
Handle(r) ==
  /\ down[r] = "handler"
  /\ down' = [down EXCEPT ![r] = "answered"]
  /\ UNCHANGED <<at, reqVars, stack, id, second, span, seen, log>>

Step(r) ==
  \/ Use(r) \/ Extract(r) \/ NotFound(r) \/ Validate(r) \/ CompareSources(r)
  \/ Resolved(r) \/ SpanSettled(r) \/ Guard(r) \/ Handle(r)

Next == (\E r \in Requests : Step(r)) /\ UNCHANGED crossCheck

\* The application's callbacks settle and the event loop runs every chain.
Spec     == Init /\ [][Next]_vars
FairSpec == Spec /\ \A r \in Requests : WF_vars(Step(r) /\ UNCHANGED crossCheck)

-------------------------------------------------------------------------------
(***************************************************************************)
(* Properties.                                                             *)
(***************************************************************************)
Places == {"new", "extract", "notFound", "validate", "crossCheck", "hook",
           "endSpan", "endSpanThrow", "done", "skipped", "failed"}

Events == {"EXTRACTION_FAILED", "NOT_FOUND", "VALIDATION_FAILED",
           "CROSS_CHECK_FAILED", "RESOLVED", "CONTEXT_BYPASSED"}

\* Every variable has its type; a span is started and ended at most once.
TypeOK ==
  /\ crossCheck \in CrossChecks
  /\ at \in [Requests -> Places]
  /\ DOMAIN request = Requests /\ \A r \in Requests : request[r] \in Incoming[r] \cup {Unread}
  /\ source \in [Requests -> 0 .. Len(Sources)]
  /\ stack \in [Requests -> Stack]
  /\ id \in [Requests -> TenantOrNull]
  /\ second \in [Requests -> TenantOrNull \cup {Unread}]
  /\ span \in [Requests -> [started : 0 .. 1, ended : 0 .. 1]]
  /\ down \in [Requests -> {"none", "guard", "forbidden", "handler", "answered"}]
  /\ seen \in [Requests -> Stack]
  /\ log \in [Requests -> Seq(Events)]

\* "Tries each extractor in order, returns the first non-null result": a later
\* extractor never decides over one before it that is asynchronous, and one that
\* names no tenant by '' is not made up for by another.
First(q) ==
  LET naming == {i \in DOMAIN Sources : Extracted(Sources[i], q) # NoTenant} IN
  IF naming = {} THEN NoTenant
  ELSE Extracted(Sources[CHOOSE i \in naming : \A j \in naming : i <= j], q)

FirstSourceWins ==
  [][\A r \in Requests : at[r] = "extract" =>
       /\ at'[r] = "validate" => id'[r] = First(request[r])
       /\ at'[r] = "notFound" => First(request[r]) \in {NoTenant, EmptyText}]_vars

Handled(r) == down[r] \in {"handler", "answered"}

Emitted(r, event) == \E i \in DOMAIN log[r] : log[r][i] = event

\* A handler runs under the tenant its own request named, after the validator
\* accepted it and RESOLVED was emitted; or without a tenant, on a route that
\* is exempt.  The ambient context, tenant or bypass, never reaches it.
HandlerContext ==
  \A r \in Requests : Handled(r) =>
    LET t == CurrentTenantId(seen[r]) IN
    /\ ~ IsBypassed(seen[r])
    /\ IF t = NoTenant THEN Emitted(r, "CONTEXT_BYPASSED")
       ELSE t = id[r] /\ t \in ValidTenants /\ Emitted(r, "RESOLVED")

\* A cross-check that rejects keeps from the handler every request whose second
\* source names another tenant, or none where one is required.
CrossCheckHonoured ==
  \A r \in Requests :
    Handled(r) /\ CurrentTenantId(seen[r]) # NoTenant =>
      /\ crossCheck.onFailed = "reject" => second[r] \in {NoTenant, id[r]}
      /\ crossCheck.onFailed # "off" /\ crossCheck.required => second[r] \in Tenants

\* Once the middleware has settled no span of it is left open, whether the hook
\* returned or threw.
SpansClosed ==
  \A r \in Requests :
    at[r] \in {"done", "failed", "skipped"} => span[r].started = span[r].ended

\* The events of a request tell one consistent story: one verdict of the
\* middleware, a logged mismatch only before RESOLVED, and a bypass last.
Verdicts == {"EXTRACTION_FAILED", "NOT_FOUND", "VALIDATION_FAILED", "RESOLVED"}

EventStory ==
  \A r \in Requests :
    /\ \A i, j \in DOMAIN log[r] :
         log[r][i] \in Verdicts /\ log[r][j] \in Verdicts => i = j
    /\ \A i \in DOMAIN log[r] :
         /\ log[r][i] = "CROSS_CHECK_FAILED" => i = 1 /\ second[r] # id[r]
         /\ log[r][i] = "CONTEXT_BYPASSED" =>
              i = Len(log[r]) /\ (Emitted(r, "NOT_FOUND") \/ Emitted(r, "RESOLVED"))

\* The pipeline implements what every entry point promises.
Verdict(r) ==
  IF Handled(r) THEN "admitted"
  ELSE IF at[r] \in {"failed", "endSpanThrow"} \/ down[r] = "forbidden" THEN "refused"
  ELSE "waiting"

Admission == INSTANCE TenantAdmission WITH
  Work <- Requests, Acceptable <- ValidTenants, claim <- id,
  verdict <- [r \in Requests |-> Verdict(r)],
  scope <- [r \in Requests |->
              IF Handled(r) THEN CurrentTenantId(seen[r]) ELSE NoTenant]

AdmissionRefined == Admission!Spec

\* Every request is answered, unless onTenantNotFound said 'skip'.
RequestsSettle ==
  \A r \in Requests :
    at[r] = "extract" ~>
      at[r] \in {"failed", "skipped"} \/ down[r] \in {"forbidden", "answered"}
===============================================================================
