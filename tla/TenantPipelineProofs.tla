------------------------- MODULE TenantPipelineProofs -------------------------
(***************************************************************************)
(* Theorems about TenantPipeline, for every set of tenants and requests,   *)
(* every composite of extractors, every ambient context and every          *)
(* cross-check.                                                            *)
(***************************************************************************)
EXTENDS TenantPipeline, TLAPS

-------------------------------------------------------------------------------
(***************************************************************************)
(* The inductive invariant, request by request.                            *)
(***************************************************************************)
Carries(s, t) == CurrentTenantId(s) = t /\ IsBypassed(s) = FALSE

\* No extractor before the one that is asked has named a tenant.
Searched(r) ==
  at[r] = "extract" =>
    /\ request[r] \in Incoming[r]
    /\ source[r] \in 1 .. Len(Sources)
    /\ \A j \in 1 .. source[r] - 1 : Extracted(Sources[j], request[r]) = NoTenant

\* The tenant id is there once one was extracted, and is valid once it was
\* validated; the rest of the request runs once next() was called, with a valid
\* tenant or none.
Chosen(r) ==
  /\ at[r] \in {"new", "extract", "notFound", "skipped"} => id[r] = NoTenant
  /\ at[r] = "validate" => id[r] \in Tenants
  /\ at[r] \in {"crossCheck", "hook", "endSpan", "endSpanThrow"} => id[r] \in ValidTenants
  /\ down[r] # "none" <=> at[r] \in {"endSpan", "done"}
  /\ at[r] = "done" => id[r] \in ValidTenants \cup {NoTenant}

\* The chain has left the context it was called in; what next() starts runs in
\* the context of the tenant id.
Scoped(r) ==
  /\ at[r] \in {"extract", "notFound", "validate", "crossCheck"} =>
       Carries(stack[r], NoTenant)
  /\ at[r] = "hook" => Carries(stack[r], id[r])
  /\ down[r] # "none" => Carries(seen[r], id[r])

\* What enters a tenant's context has passed the cross-check.
Compared(r) ==
  at[r] = "hook" \/ (down[r] # "none" /\ id[r] # NoTenant) =>
    /\ crossCheck.onFailed = "reject" => second[r] \in {NoTenant, id[r]}
    /\ crossCheck.onFailed # "off" /\ crossCheck.required => second[r] \in Tenants

\* A span is open from the hook to the end of it.
Spanned(r) ==
  /\ at[r] \in {"new", "extract", "notFound", "validate", "crossCheck"} =>
       span[r] = NoSpan
  /\ at[r] \in {"hook", "endSpan", "endSpanThrow"} =>
       span[r].started = 1 /\ span[r].ended = 0
  /\ at[r] \in {"done", "failed", "skipped"} => span[r].started = span[r].ended

\* What has been emitted, by how far the request has come.
Told(r) ==
  /\ at[r] \in {"new", "extract", "validate", "crossCheck"} => log[r] = <<>>
  /\ at[r] \in {"hook", "endSpanThrow"} => \A e \in Verdicts : ~ Emitted(r, e)
  /\ at[r] = "hook" => Len(log[r]) <= 1
  /\ at[r] \in {"notFound"} => Emitted(r, "NOT_FOUND")
  /\ down[r] # "none" =>
       Emitted(r, IF id[r] = NoTenant THEN "NOT_FOUND" ELSE "RESOLVED")
  /\ down[r] \in {"none", "guard", "forbidden"} => ~ Emitted(r, "CONTEXT_BYPASSED")
  /\ Handled(r) /\ id[r] = NoTenant => Emitted(r, "CONTEXT_BYPASSED")

\* EventStory, of one request.
Story(r) ==
  /\ \A i, j \in DOMAIN log[r] :
       log[r][i] \in Verdicts /\ log[r][j] \in Verdicts => i = j
  /\ \A i \in DOMAIN log[r] :
       /\ log[r][i] = "CROSS_CHECK_FAILED" => i = 1 /\ second[r] # id[r]
       /\ log[r][i] = "CONTEXT_BYPASSED" =>
            i = Len(log[r]) /\ (Emitted(r, "NOT_FOUND") \/ Emitted(r, "RESOLVED"))

RequestInv(r) ==
  /\ Searched(r) /\ Chosen(r) /\ Scoped(r) /\ Compared(r)
  /\ Spanned(r) /\ Told(r) /\ Story(r)

IInv == TypeOK /\ \A r \in Requests : RequestInv(r)

-------------------------------------------------------------------------------
(***************************************************************************)
(* Contexts and events.                                                    *)
(***************************************************************************)
\* A context that is opened is the one that is read.
LEMMA ContextOpened ==
  ASSUME NEW s \in Stack, NEW f \in Frame
  PROVE  /\ Append(s, f) \in Stack
         /\ CurrentTenantId(Append(s, f)) = f.tenantId
         /\ IsBypassed(Append(s, f)) = f.bypassed
  <1>1. Append(s, f) \in Seq(Frame) /\ Len(Append(s, f)) = Len(s) + 1
        /\ Append(s, f)[Len(s) + 1] = f
    BY DEF Stack
  <1>2. Append(s, f) # <<>>
    BY <1>1 DEF Stack
  <1>3. QED
    BY <1>1, <1>2 DEF CurrentTenantId, IsBypassed, Stack

\* The chain of a request leaves the context it was called in.
LEMMA EmptyOpened ==
  ASSUME NEW s \in Stack
  PROVE  InEmptyContext(s) \in Stack /\ Carries(InEmptyContext(s), NoTenant)
  <1>1. EmptyFrame \in Frame /\ EmptyFrame.tenantId = NoTenant /\ EmptyFrame.bypassed = FALSE
    BY DEF Frame, EmptyFrame
  <1>2. QED
    BY <1>1, ContextOpened DEF InEmptyContext, RunInEmpty, Carries

\* context.run(tenantId, ...) carries the tenant.
LEMMA TenantOpened ==
  ASSUME NEW s \in Stack, NEW t \in Tenants
  PROVE  Run(s, t) \in Stack /\ Carries(Run(s, t), t)
  <1>1. TenantFrame(t) \in Frame /\ TenantFrame(t).tenantId = t
        /\ TenantFrame(t).bypassed = FALSE
    BY DEF Frame, TenantFrame
  <1>2. QED
    BY <1>1, ContextOpened DEF Run, Carries

\* What an emission adds to the log.
LEMMA Emission ==
  ASSUME TypeOK, NEW r \in Requests, NEW e \in Events, Emit(r, e)
  PROVE  /\ log' \in [Requests -> Seq(Events)]
         /\ \A q \in Requests \ {r} : log'[q] = log[q]
         /\ Len(log[r]) \in Nat /\ DOMAIN log[r] = 1 .. Len(log[r])
         /\ Len(log'[r]) = Len(log[r]) + 1 /\ DOMAIN log'[r] = 1 .. Len(log[r]) + 1
         /\ \A i \in DOMAIN log[r] : log'[r][i] = log[r][i]
         /\ log'[r][Len(log[r]) + 1] = e
         /\ \A x : Emitted(r, x)' <=> Emitted(r, x) \/ x = e
  <1>1. log[r] \in Seq(Events) /\ log'[r] = Append(log[r], e)
        /\ \A q \in Requests \ {r} : log'[q] = log[q]
    BY DEF TypeOK, Emit
  <1>2. Append(log[r], e) \in Seq(Events)
    BY <1>1
  <1>3. log' \in [Requests -> Seq(Events)]
    BY <1>2 DEF TypeOK, Emit
  <1>4. Len(log[r]) \in Nat /\ DOMAIN log[r] = 1 .. Len(log[r])
    BY <1>1
  <1>5. Len(log'[r]) = Len(log[r]) + 1 /\ DOMAIN log'[r] = 1 .. Len(log[r]) + 1
    BY <1>1, <1>2, <1>4
  <1>6. \A i \in DOMAIN log[r] : log'[r][i] = log[r][i]
    BY <1>1, <1>4
  <1>7. log'[r][Len(log[r]) + 1] = e
    BY <1>1, <1>4
  <1>8. \A x : Emitted(r, x)' <=> Emitted(r, x) \/ x = e
    BY <1>4, <1>5, <1>6, <1>7 DEF Emitted
  <1>9. QED
    BY <1>1, <1>3, <1>4, <1>5, <1>6, <1>7, <1>8

\* A step that emits nothing leaves the story as it is.
LEMMA NothingTold ==
  ASSUME NEW r \in Requests, Story(r), log'[r] = log[r],
         log[r] = <<>> \/ (id'[r] = id[r] /\ second'[r] = second[r])
  PROVE  Story(r)'
BY DEF Story, Emitted

\* The verdict of the middleware, when none was given yet.
LEMMA VerdictTold ==
  ASSUME TypeOK, NEW r \in Requests, Story(r), NEW e \in Verdicts, Emit(r, e),
         \A x \in Verdicts : ~ Emitted(r, x), ~ Emitted(r, "CONTEXT_BYPASSED"),
         id'[r] = id[r] \/ log[r] = <<>>, second'[r] = second[r]
  PROVE  Story(r)'
  <1>1. e \in Events /\ e \notin {"CROSS_CHECK_FAILED", "CONTEXT_BYPASSED"}
    BY DEF Verdicts, Events
  <1> DEFINE n == Len(log[r])
  <1>2. /\ n \in Nat /\ DOMAIN log[r] = 1 .. n /\ DOMAIN log'[r] = 1 .. n + 1
        /\ \A i \in 1 .. n : log'[r][i] = log[r][i]
        /\ log'[r][n + 1] = e
    BY <1>1, Emission
  <1>3. \A i \in 1 .. n : log[r][i] \notin Verdicts /\ log[r][i] # "CONTEXT_BYPASSED"
    BY <1>2 DEF Emitted
  <1>4. \A i \in 1 .. n + 1 : log'[r][i] \in Verdicts => i = n + 1
    BY <1>2, <1>3
  <1>5. \A i \in 1 .. n + 1 : log'[r][i] = "CROSS_CHECK_FAILED" => i = 1 /\ second'[r] # id'[r]
    BY <1>1, <1>2 DEF Story
  <1>6. \A i \in 1 .. n + 1 : log'[r][i] # "CONTEXT_BYPASSED"
    BY <1>1, <1>2, <1>3
  <1>7. QED
    BY <1>2, <1>4, <1>5, <1>6 DEF Story

\* A mismatch, as the first event.
LEMMA MismatchTold ==
  ASSUME TypeOK, NEW r \in Requests, log[r] = <<>>, Emit(r, "CROSS_CHECK_FAILED"),
         second'[r] # id'[r]
  PROVE  /\ Story(r)' /\ Len(log'[r]) = 1
         /\ \A x : Emitted(r, x)' <=> x = "CROSS_CHECK_FAILED"
  <1>1. /\ DOMAIN log'[r] = 1 .. 1 /\ log'[r][1] = "CROSS_CHECK_FAILED" /\ Len(log'[r]) = 1
        /\ \A x : Emitted(r, x)' <=> Emitted(r, x) \/ x = "CROSS_CHECK_FAILED"
    <2>1. "CROSS_CHECK_FAILED" \in Events
      BY DEF Events
    <2>2. Len(log[r]) = 0
      OBVIOUS
    <2>3. /\ Len(log'[r]) = Len(log[r]) + 1 /\ DOMAIN log'[r] = 1 .. Len(log[r]) + 1
          /\ log'[r][Len(log[r]) + 1] = "CROSS_CHECK_FAILED"
          /\ \A x : Emitted(r, x)' <=> Emitted(r, x) \/ x = "CROSS_CHECK_FAILED"
      BY <2>1, Emission
    <2>4. QED
      BY <2>2, <2>3
  <1>2. \A x : ~ Emitted(r, x)
    BY DEF Emitted
  <1>3. QED
    BY <1>1, <1>2 DEF Story, Verdicts

\* A bypass, once the middleware has let the request pass.
LEMMA BypassTold ==
  ASSUME TypeOK, NEW r \in Requests, Story(r), Emit(r, "CONTEXT_BYPASSED"),
         ~ Emitted(r, "CONTEXT_BYPASSED"),
         Emitted(r, "NOT_FOUND") \/ Emitted(r, "RESOLVED"),
         id'[r] = id[r], second'[r] = second[r]
  PROVE  Story(r)'
  <1> DEFINE n == Len(log[r])
  <1>1. "CONTEXT_BYPASSED" \in Events /\ "CONTEXT_BYPASSED" \notin Verdicts
    BY DEF Events, Verdicts
  <1>2. /\ n \in Nat /\ DOMAIN log[r] = 1 .. n /\ DOMAIN log'[r] = 1 .. n + 1
        /\ Len(log'[r]) = n + 1
        /\ \A i \in 1 .. n : log'[r][i] = log[r][i]
        /\ log'[r][n + 1] = "CONTEXT_BYPASSED"
        /\ \A x : Emitted(r, x) => Emitted(r, x)'
    BY <1>1, Emission
  <1>3. \A i \in 1 .. n : log[r][i] # "CONTEXT_BYPASSED"
    BY <1>2 DEF Emitted
  <1>4. \A i \in 1 .. n + 1 : i \in 1 .. n \/ i = n + 1
    BY <1>2
  <1>5. \A i, j \in 1 .. n + 1 :
          log'[r][i] \in Verdicts /\ log'[r][j] \in Verdicts => i = j
    <2>1. \A i, j \in 1 .. n : log[r][i] \in Verdicts /\ log[r][j] \in Verdicts => i = j
      BY <1>2 DEF Story
    <2>2. QED
      BY <1>1, <1>2, <1>4, <2>1
  <1>6. \A i \in 1 .. n + 1 : log'[r][i] = "CROSS_CHECK_FAILED" => i = 1 /\ second'[r] # id'[r]
    <2>1. \A i \in 1 .. n : log[r][i] = "CROSS_CHECK_FAILED" => i = 1 /\ second[r] # id[r]
      BY <1>2 DEF Story
    <2>2. QED
      BY <1>2, <1>4, <2>1
  <1>7. \A i \in 1 .. n + 1 : log'[r][i] = "CONTEXT_BYPASSED" => i = n + 1
    BY <1>2, <1>3, <1>4
  <1>8. QED
    BY <1>2, <1>5, <1>6, <1>7 DEF Story

-------------------------------------------------------------------------------
(***************************************************************************)
(* The invariant is inductive.                                             *)
(***************************************************************************)
\* The invariant holds initially.
LEMMA InitIInv == Init => IInv
  <1> SUFFICES ASSUME Init PROVE IInv
    OBVIOUS
  <1>1. stack \in [Requests -> Stack]
    BY PipelineConstants DEF Init
  <1>2. Len(Sources) \in Nat
    BY PipelineConstants
  <1>3. <<>> \in Seq(Events)
    OBVIOUS
  <1>4. TypeOK
    BY <1>1, <1>2, <1>3 DEF Init, TypeOK, Places, NoSpan, TenantOrNull
  <1>5. ASSUME NEW r \in Requests PROVE RequestInv(r)
    BY DEF Init, RequestInv, Searched, Chosen, Scoped, Compared, Spanned, Told, Story,
           Emitted, Handled, NoSpan
  <1>6. QED
    BY <1>4, <1>5 DEF IInv

Untouched(e) ==
  UNCHANGED <<at[e], request[e], source[e], stack[e], id[e], second[e], span[e],
              down[e], seen[e], log[e]>>

\* Requests do not touch each other.
LEMMA OneRequest ==
  ASSUME TypeOK, NEW r \in Requests, Step(r), NEW e \in Requests \ {r}
  PROVE  Untouched(e)
  <1>1. CASE Use(r)
    BY <1>1 DEF TypeOK, Untouched, Use, Goto
  <1>2. CASE Extract(r)
    BY <1>2 DEF TypeOK, Untouched, Extract, Goto, Emit, Forget
  <1>3. CASE NotFound(r)
    BY <1>3 DEF TypeOK, Untouched, NotFound, Goto, CallNext, reqVars
  <1>4. CASE Validate(r)
    BY <1>4 DEF TypeOK, Untouched, Validate, Goto, Emit, EnterTenant, reqVars
  <1>5. CASE CompareSources(r)
    BY <1>5 DEF TypeOK, Untouched, CompareSources, Goto, Emit, EnterTenant, reqVars
  <1>6. CASE Resolved(r)
    BY <1>6 DEF TypeOK, Untouched, Resolved, Goto, Emit, CallNext, reqVars
  <1>7. CASE SpanSettled(r)
    BY <1>7 DEF TypeOK, Untouched, SpanSettled, Goto, EndSpan, reqVars
  <1>8. CASE Guard(r)
    BY <1>8 DEF TypeOK, Untouched, Guard, Emit, reqVars
  <1>9. CASE Handle(r)
    BY <1>9 DEF TypeOK, Untouched, Handle, reqVars
  <1>10. QED
    BY <1>1, <1>2, <1>3, <1>4, <1>5, <1>6, <1>7, <1>8, <1>9 DEF Step

\* What is left alone keeps its invariant.
LEMMA UntouchedInv ==
  ASSUME NEW e \in Requests, RequestInv(e), Untouched(e), UNCHANGED crossCheck
  PROVE  RequestInv(e)'
BY DEF Untouched, RequestInv, Searched, Chosen, Scoped, Compared, Spanned, Told, Story,
       Emitted, Handled

\* use() begins: the context is left, and the first extractor is to be asked.
LEMMA UseInv ==
  ASSUME IInv, NEW r \in Requests, Use(r), UNCHANGED crossCheck
  PROVE  TypeOK' /\ RequestInv(r)'
  <1>1. InEmptyContext(stack[r]) \in Stack /\ Carries(InEmptyContext(stack[r]), NoTenant)
    BY EmptyOpened DEF IInv, TypeOK
  <1>2. Len(Sources) \in Nat /\ Len(Sources) >= 1
    BY PipelineConstants
  <1>3. PICK q \in Incoming[r] : request' = [request EXCEPT ![r] = q]
    BY DEF Use
  <1>4. DOMAIN request' = Requests /\ request'[r] = q
        /\ \A e \in Requests \ {r} : request'[e] = request[e]
    BY <1>3 DEF IInv, TypeOK
  <1>5. TypeOK'
    BY <1>1, <1>2, <1>4 DEF IInv, TypeOK, Use, Goto, Places
  <1>6. /\ at[r] = "new" /\ at'[r] = "extract" /\ source'[r] = 1
        /\ stack'[r] = InEmptyContext(stack[r])
        /\ UNCHANGED <<id, second, span, down, seen, log>>
    BY DEF IInv, TypeOK, Use, Goto
  <1>7. Searched(r)'
    BY <1>2, <1>4, <1>6 DEF Searched
  <1>8. (Chosen(r) /\ Scoped(r) /\ Compared(r) /\ Spanned(r) /\ Told(r))'
    BY <1>1, <1>6
       DEF IInv, RequestInv, Chosen, Scoped, Compared, Spanned, Told, Emitted, Handled
  <1>9. Story(r)'
    BY <1>6, NothingTold DEF IInv, RequestInv
  <1>10. QED
    BY <1>5, <1>7, <1>8, <1>9 DEF RequestInv

\* Once its tenant is settled, what the request held is of no interest.
LEMMA Forgotten ==
  ASSUME TypeOK, NEW r \in Requests, Forget(r)
  PROVE  /\ DOMAIN request' = Requests
         /\ \A e \in Requests : request'[e] \in Incoming[e] \cup {Unread}
         /\ source' \in [Requests -> 0 .. Len(Sources)]
  <1>1. /\ DOMAIN request' = Requests /\ request'[r] = Unread
        /\ \A e \in Requests \ {r} : request'[e] = request[e]
    BY DEF TypeOK, Forget
  <1>2. 0 \in 0 .. Len(Sources)
    BY PipelineConstants
  <1>3. QED
    BY <1>1, <1>2 DEF TypeOK, Forget

\* An extractor finds a tenant or none, or fails, or the next one is asked.
LEMMA ExtractInv ==
  ASSUME IInv, NEW r \in Requests, Extract(r), UNCHANGED crossCheck
  PROVE  TypeOK' /\ RequestInv(r)'
  <1> DEFINE value == Extracted(Sources[source[r]], request[r])
  <1>1. /\ at[r] = "extract" /\ request[r] \in Incoming[r]
        /\ source[r] \in 1 .. Len(Sources) /\ Len(Sources) \in Nat
        /\ DOMAIN Sources = 1 .. Len(Sources)
        /\ \A j \in 1 .. source[r] - 1 : Extracted(Sources[j], request[r]) = NoTenant
        /\ id[r] = NoTenant /\ log[r] = <<>> /\ down[r] = "none" /\ span[r] = NoSpan
        /\ UNCHANGED <<stack, second, span, down, seen>>
    BY PipelineConstants DEF Extract, IInv, RequestInv, Searched, Chosen, Told, Spanned
  <1>2. value \in TenantOrNull \cup {EmptyText}
    BY <1>1, PipelineConstants
  <1>3. CASE ~ EndsSearch(value) /\ source[r] < Len(Sources)
             /\ source' = [source EXCEPT ![r] = @ + 1]
             /\ UNCHANGED <<at, request, id, log>>
    <2>1. source'[r] = source[r] + 1 /\ source[r] + 1 \in 1 .. Len(Sources)
      BY <1>1, <1>3 DEF IInv, TypeOK
    <2>2. TypeOK'
      BY <1>1, <1>3, <2>1 DEF IInv, TypeOK
    <2>3. Searched(r)'
      <3>1. \A j \in 1 .. (source[r] + 1) - 1 : j \in 1 .. source[r] - 1 \/ j = source[r]
        BY <1>1
      <3>2. QED
        BY <1>1, <1>3, <2>1, <3>1 DEF Searched, EndsSearch
    <2>4. (Chosen(r) /\ Scoped(r) /\ Compared(r) /\ Spanned(r) /\ Told(r) /\ Story(r))'
      BY <1>1, <1>3
         DEF IInv, RequestInv, Chosen, Scoped, Compared, Spanned, Told, Story, Emitted,
             Handled
    <2>5. QED
      BY <2>2, <2>3, <2>4 DEF RequestInv
  <1>4. CASE Forget(r) /\ value \in {NoTenant, EmptyText} /\ Emit(r, "NOT_FOUND")
             /\ Goto(r, "notFound") /\ UNCHANGED id
    <2>1. "NOT_FOUND" \in Events /\ "NOT_FOUND" \in Verdicts
      BY DEF Events, Verdicts
    <2>2. log' \in [Requests -> Seq(Events)] /\ \A x : Emitted(r, x)' <=> x = "NOT_FOUND"
      BY <1>1, <1>4, <2>1, Emission DEF IInv, Emitted
    <2>3. TypeOK'
      BY <1>1, <1>4, <2>2, Forgotten DEF IInv, TypeOK, Goto, Places
    <2>4. at'[r] = "notFound" /\ id'[r] = id[r]
      BY <1>4 DEF IInv, TypeOK, Goto
    <2>5. Story(r)'
      <3>1. \A x : ~ Emitted(r, x)
        BY <1>1 DEF Emitted
      <3>2. QED
        BY <1>1, <1>4, <2>1, <2>4, <3>1, VerdictTold DEF IInv, RequestInv
    <2>6. (Searched(r) /\ Chosen(r) /\ Scoped(r) /\ Compared(r) /\ Spanned(r) /\ Told(r))'
      BY <1>1, <2>2, <2>4
         DEF IInv, RequestInv, Searched, Chosen, Scoped, Compared, Spanned, Told, Handled
    <2>7. QED
      BY <2>3, <2>5, <2>6 DEF RequestInv
  <1>5. CASE Forget(r) /\ value \notin {NoTenant, EmptyText}
             /\ id' = [id EXCEPT ![r] = value] /\ Goto(r, "validate") /\ UNCHANGED log
    <2>1. value \in Tenants
      BY <1>2, <1>5 DEF TenantOrNull
    <2>2. TypeOK'
      BY <1>1, <1>5, <2>1, Forgotten DEF IInv, TypeOK, Goto, Places, TenantOrNull
    <2>3. at'[r] = "validate" /\ id'[r] = value
      BY <1>5 DEF IInv, TypeOK, Goto
    <2>4. Story(r)'
      BY <1>1, <1>5, NothingTold DEF IInv, RequestInv
    <2>5. (Searched(r) /\ Chosen(r) /\ Scoped(r) /\ Compared(r) /\ Spanned(r) /\ Told(r))'
      BY <1>1, <1>5, <2>1, <2>3
         DEF IInv, RequestInv, Searched, Chosen, Scoped, Compared, Spanned, Told, Emitted,
             Handled
    <2>6. QED
      BY <2>2, <2>4, <2>5 DEF RequestInv
  <1>6. CASE Forget(r) /\ Emit(r, "EXTRACTION_FAILED") /\ Goto(r, "failed") /\ UNCHANGED id
    <2>1. "EXTRACTION_FAILED" \in Events /\ "EXTRACTION_FAILED" \in Verdicts
      BY DEF Events, Verdicts
    <2>2. log' \in [Requests -> Seq(Events)]
          /\ \A x : Emitted(r, x)' <=> x = "EXTRACTION_FAILED"
      BY <1>1, <1>6, <2>1, Emission DEF IInv, Emitted
    <2>3. TypeOK'
      BY <1>1, <1>6, <2>2, Forgotten DEF IInv, TypeOK, Goto, Places
    <2>4. at'[r] = "failed" /\ id'[r] = id[r]
      BY <1>6 DEF IInv, TypeOK, Goto
    <2>5. Story(r)'
      <3>1. \A x : ~ Emitted(r, x)
        BY <1>1 DEF Emitted
      <3>2. QED
        BY <1>1, <1>6, <2>1, <2>4, <3>1, VerdictTold DEF IInv, RequestInv
    <2>6. (Searched(r) /\ Chosen(r) /\ Scoped(r) /\ Compared(r) /\ Spanned(r) /\ Told(r))'
      BY <1>1, <2>2, <2>4
         DEF IInv, RequestInv, Searched, Chosen, Scoped, Compared, Spanned, Told, Handled,
             NoSpan
    <2>7. QED
      BY <2>3, <2>5, <2>6 DEF RequestInv
  <1>7. QED
    BY <1>3, <1>4, <1>5, <1>6 DEF Extract

\* Nobody named a tenant: next(), 'skip' or an exception.
LEMMA NotFoundInv ==
  ASSUME IInv, NEW r \in Requests, NotFound(r), UNCHANGED crossCheck
  PROVE  TypeOK' /\ RequestInv(r)'
  <1>1. TypeOK'
    <2>1. /\ at' \in [Requests -> Places]
          /\ seen' \in [Requests -> Stack]
          /\ down' \in [Requests -> {"none", "guard", "forbidden", "handler", "answered"}]
      <3>1. \A place \in {"done", "skipped", "failed"} :
              [at EXCEPT ![r] = place] \in [Requests -> Places]
        BY DEF IInv, TypeOK, Places
      <3>2. [seen EXCEPT ![r] = stack[r]] \in [Requests -> Stack]
        BY DEF IInv, TypeOK
      <3>3. QED
        BY <3>1, <3>2 DEF IInv, TypeOK, NotFound, Goto, CallNext
    <2>2. UNCHANGED <<request, source, stack, id, second, span, log>>
      BY DEF NotFound, reqVars
    <2>3. QED
      BY <2>1, <2>2 DEF IInv, TypeOK
  <1>2. /\ at[r] = "notFound" /\ down[r] = "none"
        /\ \/ at'[r] = "done" /\ down'[r] = "guard" /\ seen'[r] = stack[r]
           \/ at'[r] \in {"skipped", "failed"} /\ down'[r] = "none"
        /\ UNCHANGED <<stack, id, second, span, log>>
    BY DEF IInv, TypeOK, RequestInv, Chosen, NotFound, Goto, CallNext
  <1>3. (Searched(r) /\ Chosen(r) /\ Scoped(r) /\ Compared(r) /\ Spanned(r) /\ Told(r))'
    BY <1>2
       DEF IInv, RequestInv, Searched, Chosen, Scoped, Compared, Spanned, Told, Emitted,
           Handled, NoSpan
  <1>4. Story(r)'
    BY <1>2, NothingTold DEF IInv, RequestInv
  <1>5. QED
    BY <1>1, <1>3, <1>4 DEF RequestInv

\* What follows when a valid tenant's context is entered, after the comparison.
LEMMA EnterInv ==
  ASSUME IInv, NEW r \in Requests, EnterTenant(r), UNCHANGED crossCheck,
         at[r] \in {"validate", "crossCheck"}, id[r] \in ValidTenants,
         \/ UNCHANGED log
         \/ Emit(r, "CROSS_CHECK_FAILED") /\ second'[r] # id[r],
         crossCheck.onFailed = "reject" => second'[r] \in {NoTenant, id[r]},
         crossCheck.onFailed # "off" /\ crossCheck.required => second'[r] \in Tenants,
         second' \in [Requests -> TenantOrNull \cup {Unread}],
         UNCHANGED <<request, source, id, down, seen>>
  PROVE  TypeOK' /\ RequestInv(r)'
  <1>1. id[r] \in Tenants /\ down[r] = "none" /\ log[r] = <<>> /\ span[r] = NoSpan
    BY PipelineConstants DEF IInv, RequestInv, Chosen, Told, Spanned
  <1>2. Run(stack[r], id[r]) \in Stack /\ Carries(Run(stack[r], id[r]), id[r])
    BY <1>1, TenantOpened DEF IInv, TypeOK
  <1>3. at'[r] = "hook" /\ stack'[r] = Run(stack[r], id[r])
    BY DEF IInv, TypeOK, EnterTenant, Goto
  <1>4. span'[r].started = 1 /\ span'[r].ended = 0
        /\ span' \in [Requests -> [started : 0 .. 1, ended : 0 .. 1]]
    <2>1. span' = [span EXCEPT ![r] = [span[r] EXCEPT !.started = 1]]
      BY <1>1 DEF EnterTenant, NoSpan
    <2>2. [span[r] EXCEPT !.started = 1] = [started |-> 1, ended |-> 0]
      BY <1>1 DEF NoSpan
    <2>3. QED
      BY <2>1, <2>2 DEF IInv, TypeOK
  <1>5. /\ log' \in [Requests -> Seq(Events)] /\ Story(r)' /\ Len(log'[r]) <= 1
        /\ \A e \in Verdicts \cup {"CONTEXT_BYPASSED"} : ~ Emitted(r, e)'
    <2>1. CASE UNCHANGED log
      BY <1>1, <2>1, NothingTold DEF IInv, TypeOK, RequestInv, Emitted
    <2>2. CASE Emit(r, "CROSS_CHECK_FAILED") /\ second'[r] # id[r]
      <3>1. "CROSS_CHECK_FAILED" \in Events
            /\ "CROSS_CHECK_FAILED" \notin Verdicts \cup {"CONTEXT_BYPASSED"}
        BY DEF Events, Verdicts
      <3>2. QED
        BY <1>1, <2>2, <3>1, Emission, MismatchTold DEF IInv
    <2>3. QED
      BY <2>1, <2>2
  <1>6. TypeOK'
    BY <1>2, <1>4, <1>5 DEF IInv, TypeOK, EnterTenant, Goto, Places
  <1>7. (Searched(r) /\ Chosen(r) /\ Scoped(r) /\ Compared(r) /\ Spanned(r) /\ Told(r))'
    BY <1>1, <1>2, <1>3, <1>4, <1>5
       DEF Searched, Chosen, Scoped, Compared, Spanned, Told, Handled
  <1>8. QED
    BY <1>5, <1>6, <1>7 DEF RequestInv

\* The request ends before next(), with an event or without.
LEMMA FailInv ==
  ASSUME IInv, NEW r \in Requests, Goto(r, "failed"), UNCHANGED crossCheck,
         at[r] \in {"validate", "crossCheck"},
         \/ UNCHANGED <<log, second>>
         \/ Emit(r, "VALIDATION_FAILED") /\ UNCHANGED second
         \/ UNCHANGED log /\ second' \in [Requests -> TenantOrNull \cup {Unread}]
         \/ /\ Emit(r, "CROSS_CHECK_FAILED") /\ second'[r] # id[r]
            /\ second' \in [Requests -> TenantOrNull \cup {Unread}],
         UNCHANGED <<request, source, stack, id, span, down, seen>>
  PROVE  TypeOK' /\ RequestInv(r)'
  <1>1. down[r] = "none" /\ log[r] = <<>> /\ span[r] = NoSpan /\ id[r] # NoTenant
        /\ \A x : ~ Emitted(r, x)
    BY PipelineConstants, NoTenantIsNoId
       DEF IInv, RequestInv, Chosen, Told, Spanned, Emitted
  <1>2. log' \in [Requests -> Seq(Events)] /\ Story(r)' /\ ~ Emitted(r, "CONTEXT_BYPASSED")'
    <2>1. CASE UNCHANGED log
      BY <1>1, <2>1, NothingTold DEF IInv, TypeOK, RequestInv, Emitted
    <2>2. CASE Emit(r, "VALIDATION_FAILED") /\ UNCHANGED second
      <3>1. "VALIDATION_FAILED" \in Events /\ "VALIDATION_FAILED" \in Verdicts
        BY DEF Events, Verdicts
      <3>2. QED
        BY <1>1, <2>2, <3>1, Emission, VerdictTold DEF IInv, RequestInv
    <2>3. CASE Emit(r, "CROSS_CHECK_FAILED") /\ second'[r] # id[r]
      <3>1. "CROSS_CHECK_FAILED" \in Events
        BY DEF Events
      <3>2. QED
        BY <1>1, <2>3, <3>1, Emission, MismatchTold DEF IInv
    <2>4. QED
      BY <2>1, <2>2, <2>3
  <1>3. TypeOK'
    BY <1>2 DEF IInv, TypeOK, Goto, Places
  <1>4. at'[r] = "failed"
    BY DEF IInv, TypeOK, Goto
  <1>5. (Searched(r) /\ Chosen(r) /\ Scoped(r) /\ Compared(r) /\ Spanned(r) /\ Told(r))'
    BY <1>1, <1>2, <1>4
       DEF Searched, Chosen, Scoped, Compared, Spanned, Told, Handled, NoSpan
  <1>6. QED
    BY <1>2, <1>3, <1>5 DEF RequestInv

\* The validator accepts the id, refuses it or throws.
LEMMA ValidateInv ==
  ASSUME IInv, NEW r \in Requests, Validate(r), UNCHANGED crossCheck
  PROVE  TypeOK' /\ RequestInv(r)'
  <1>1. at[r] = "validate" /\ UNCHANGED <<request, source, id, second, down, seen>>
        /\ second' \in [Requests -> TenantOrNull \cup {Unread}]
    BY DEF Validate, reqVars, IInv, TypeOK
  <1>2. CASE Goto(r, "failed") /\ UNCHANGED <<stack, span>>
             /\ (Emit(r, "VALIDATION_FAILED") \/ UNCHANGED log)
    BY <1>1, <1>2, FailInv
  <1>3. CASE IsValid(id[r]) /\ crossCheck.onFailed = "off" /\ EnterTenant(r)
             /\ UNCHANGED log
    BY <1>1, <1>3, EnterInv DEF IsValid
  <1>4. CASE IsValid(id[r]) /\ Goto(r, "crossCheck") /\ UNCHANGED <<stack, span, log>>
    <2>1. TypeOK'
      BY <1>1, <1>4 DEF IInv, TypeOK, Goto, Places
    <2>2. at'[r] = "crossCheck"
      BY <1>4 DEF IInv, TypeOK, Goto
    <2>3. (Searched(r) /\ Chosen(r) /\ Scoped(r) /\ Compared(r) /\ Spanned(r) /\ Told(r))'
      BY <1>1, <1>4, <2>2
         DEF IInv, RequestInv, Searched, Chosen, Scoped, Compared, Spanned, Told,
             Emitted, Handled, IsValid
    <2>4. Story(r)'
      BY <1>1, <1>4, NothingTold DEF IInv, RequestInv
    <2>5. QED
      BY <2>1, <2>3, <2>4 DEF RequestInv
  <1>5. QED
    BY <1>2, <1>3, <1>4 DEF Validate

\* The second source is compared.
LEMMA CompareInv ==
  ASSUME IInv, NEW r \in Requests, CompareSources(r), UNCHANGED crossCheck
  PROVE  TypeOK' /\ RequestInv(r)'
  <1>1. at[r] = "crossCheck" /\ UNCHANGED <<request, source, id, down, seen>>
        /\ id[r] \in ValidTenants
    BY DEF CompareSources, reqVars, IInv, RequestInv, Chosen
  <1>2. CASE Goto(r, "failed") /\ UNCHANGED <<stack, second, span, log>>
    BY <1>1, <1>2, FailInv
  <1>3. ASSUME NEW x \in TenantOrNull, second' = [second EXCEPT ![r] = x],
               \/ Missing(x) /\ Goto(r, "failed") /\ UNCHANGED <<stack, span, log>>
               \/ /\ Mismatch(r, x)
                  /\ Emit(r, "CROSS_CHECK_FAILED")
                  /\ IF crossCheck.onFailed = "reject"
                     THEN Goto(r, "failed") /\ UNCHANGED <<stack, span>>
                     ELSE EnterTenant(r)
               \/ ~ Missing(x) /\ ~ Mismatch(r, x) /\ EnterTenant(r) /\ UNCHANGED log
        PROVE  TypeOK' /\ RequestInv(r)'
    <2>1. second' \in [Requests -> TenantOrNull \cup {Unread}] /\ second'[r] = x
      BY <1>3 DEF IInv, TypeOK
    <2>2. CASE Missing(x) /\ Goto(r, "failed") /\ UNCHANGED <<stack, span, log>>
      BY <1>1, <2>1, <2>2, FailInv
    <2>3. CASE Mismatch(r, x) /\ Emit(r, "CROSS_CHECK_FAILED") /\ Goto(r, "failed")
               /\ UNCHANGED <<stack, span>>
      BY <1>1, <2>1, <2>3, FailInv DEF Mismatch
    <2>4. CASE Mismatch(r, x) /\ Emit(r, "CROSS_CHECK_FAILED")
               /\ crossCheck.onFailed # "reject" /\ EnterTenant(r)
      <3>1. x \in Tenants /\ x # id[r]
        BY <2>4 DEF Mismatch, TenantOrNull
      <3>2. QED
        BY <1>1, <2>1, <2>4, <3>1, EnterInv
    <2>5. CASE ~ Missing(x) /\ ~ Mismatch(r, x) /\ EnterTenant(r) /\ UNCHANGED log
      <3>1. x \in {NoTenant, id[r]} /\ (crossCheck.required => x \in Tenants)
        BY <2>5 DEF Missing, Mismatch, TenantOrNull
      <3>2. QED
        BY <1>1, <2>1, <2>5, <3>1, EnterInv
    <2>6. QED
      BY <1>3, <2>2, <2>3, <2>4, <2>5
  <1>4. QED
    BY <1>2, <1>3 DEF CompareSources

\* onTenantResolved settles: next() is called, or the span is to be ended.
LEMMA ResolvedInv ==
  ASSUME IInv, NEW r \in Requests, Resolved(r), UNCHANGED crossCheck
  PROVE  TypeOK' /\ RequestInv(r)'
  <1>1. /\ at[r] = "hook" /\ down[r] = "none" /\ id[r] \in ValidTenants
        /\ id[r] # NoTenant
        /\ \A e \in Verdicts : ~ Emitted(r, e)
        /\ ~ Emitted(r, "CONTEXT_BYPASSED")
        /\ UNCHANGED <<request, source, stack, id, second, span>>
    BY PipelineConstants, NoTenantIsNoId
       DEF Resolved, reqVars, IInv, RequestInv, Chosen, Told
  <1>2. CASE Emit(r, "RESOLVED") /\ CallNext(r) /\ Goto(r, "endSpan")
    <2>1. "RESOLVED" \in Events /\ "RESOLVED" \in Verdicts
      BY DEF Events, Verdicts
    <2>2. /\ log' \in [Requests -> Seq(Events)]
          /\ \A x : Emitted(r, x)' <=> Emitted(r, x) \/ x = "RESOLVED"
      BY <1>2, <2>1, Emission DEF IInv
    <2>3. Story(r)'
      BY <1>1, <1>2, <2>1, VerdictTold DEF IInv, RequestInv
    <2>4. TypeOK'
      BY <1>1, <1>2, <2>2 DEF IInv, TypeOK, CallNext, Goto, Places
    <2>5. at'[r] = "endSpan" /\ down'[r] = "guard" /\ seen'[r] = stack[r]
      BY <1>2 DEF IInv, TypeOK, CallNext, Goto
    <2>6. (Searched(r) /\ Chosen(r) /\ Scoped(r) /\ Compared(r) /\ Spanned(r) /\ Told(r))'
      BY <1>1, <2>2, <2>5
         DEF IInv, RequestInv, Searched, Chosen, Scoped, Compared, Spanned, Told, Handled
    <2>7. QED
      BY <2>3, <2>4, <2>6 DEF RequestInv
  <1>3. CASE Goto(r, "endSpanThrow") /\ UNCHANGED <<down, seen, log>>
    <2>1. TypeOK'
      BY <1>1, <1>3 DEF IInv, TypeOK, Goto, Places
    <2>2. at'[r] = "endSpanThrow"
      BY <1>3 DEF IInv, TypeOK, Goto
    <2>3. (Searched(r) /\ Chosen(r) /\ Scoped(r) /\ Compared(r) /\ Spanned(r) /\ Told(r))'
      BY <1>1, <1>3, <2>2
         DEF IInv, RequestInv, Searched, Chosen, Scoped, Compared, Spanned, Told,
             Emitted, Handled
    <2>4. Story(r)'
      BY <1>1, <1>3, NothingTold DEF IInv, RequestInv
    <2>5. QED
      BY <2>1, <2>3, <2>4 DEF RequestInv
  <1>4. QED
    BY <1>2, <1>3 DEF Resolved

\* The span is ended, whether the hook returned or threw.
LEMMA SpanSettledInv ==
  ASSUME IInv, NEW r \in Requests, SpanSettled(r), UNCHANGED crossCheck
  PROVE  TypeOK' /\ RequestInv(r)'
  <1>1. /\ at[r] \in {"endSpan", "endSpanThrow"}
        /\ span[r].started = 1 /\ span[r].ended = 0
        /\ UNCHANGED <<request, source, stack, id, second, down, seen, log>>
    BY DEF SpanSettled, reqVars, IInv, RequestInv, Spanned
  <1>2. /\ span'[r].started = 1 /\ span'[r].ended = 1
        /\ span' \in [Requests -> [started : 0 .. 1, ended : 0 .. 1]]
    <2>1. span' = [span EXCEPT ![r] = [span[r] EXCEPT !.ended = 1]]
      BY <1>1 DEF SpanSettled, EndSpan
    <2>2. [span[r] EXCEPT !.ended = 1] \in [started : 0 .. 1, ended : 0 .. 1]
          /\ [span[r] EXCEPT !.ended = 1].started = 1
          /\ [span[r] EXCEPT !.ended = 1].ended = 1
      BY <1>1 DEF IInv, TypeOK
    <2>3. QED
      BY <2>1, <2>2 DEF IInv, TypeOK
  <1>3. TypeOK'
    BY <1>1, <1>2 DEF SpanSettled, IInv, TypeOK, Goto, Places
  <1>4. at'[r] = IF at[r] = "endSpan" THEN "done" ELSE "failed"
    BY DEF SpanSettled, IInv, TypeOK, Goto
  <1>5. (Searched(r) /\ Chosen(r) /\ Scoped(r) /\ Compared(r) /\ Spanned(r) /\ Told(r))'
    BY <1>1, <1>2, <1>4
       DEF IInv, RequestInv, Searched, Chosen, Scoped, Compared, Spanned, Told, Emitted,
           Handled
  <1>6. Story(r)'
    BY <1>1, NothingTold DEF IInv, RequestInv
  <1>7. QED
    BY <1>3, <1>5, <1>6 DEF RequestInv

\* The guard decides, in the context next() was called in.
LEMMA GuardInv ==
  ASSUME IInv, NEW r \in Requests, Guard(r), UNCHANGED crossCheck
  PROVE  TypeOK' /\ RequestInv(r)'
  <1>1. /\ down[r] = "guard" /\ at[r] \in {"endSpan", "done"}
        /\ CurrentTenantId(seen[r]) = id[r]
        /\ ~ Emitted(r, "CONTEXT_BYPASSED")
        /\ Emitted(r, IF id[r] = NoTenant THEN "NOT_FOUND" ELSE "RESOLVED")
        /\ UNCHANGED <<at, request, source, stack, id, second, span, seen>>
    BY DEF Guard, reqVars, IInv, RequestInv, Chosen, Scoped, Told, Carries
  <1>2. CASE Emit(r, "CONTEXT_BYPASSED") /\ down' = [down EXCEPT ![r] = "handler"]
    <2>1. "CONTEXT_BYPASSED" \in Events
      BY DEF Events
    <2>2. /\ log' \in [Requests -> Seq(Events)]
          /\ \A x : Emitted(r, x)' <=> Emitted(r, x) \/ x = "CONTEXT_BYPASSED"
      BY <1>2, <2>1, Emission DEF IInv
    <2>3. Story(r)'
      BY <1>1, <1>2, BypassTold DEF IInv, RequestInv
    <2>4. TypeOK'
      BY <1>1, <1>2, <2>2 DEF IInv, TypeOK
    <2>5. down'[r] = "handler"
      BY <1>2 DEF IInv, TypeOK
    <2>6. (Searched(r) /\ Chosen(r) /\ Scoped(r) /\ Compared(r) /\ Spanned(r) /\ Told(r))'
      BY <1>1, <2>2, <2>5
         DEF IInv, RequestInv, Searched, Chosen, Scoped, Compared, Spanned, Told, Handled
    <2>7. QED
      BY <2>3, <2>4, <2>6 DEF RequestInv
  <1>3. CASE UNCHANGED log
             /\ down' = [down EXCEPT ![r] = IF CurrentTenantId(seen[r]) = NoTenant
                                            THEN "forbidden" ELSE "handler"]
    <2>1. down'[r] = IF id[r] = NoTenant THEN "forbidden" ELSE "handler"
      BY <1>1, <1>3 DEF IInv, TypeOK
    <2>2. TypeOK'
      BY <1>1, <1>3 DEF IInv, TypeOK
    <2>3. (Searched(r) /\ Chosen(r) /\ Scoped(r) /\ Compared(r) /\ Spanned(r) /\ Told(r))'
      BY <1>1, <1>3, <2>1
         DEF IInv, RequestInv, Searched, Chosen, Scoped, Compared, Spanned, Told,
             Emitted, Handled
    <2>4. Story(r)'
      BY <1>1, <1>3, NothingTold DEF IInv, RequestInv
    <2>5. QED
      BY <2>2, <2>3, <2>4 DEF RequestInv
  <1>4. QED
    BY <1>2, <1>3 DEF Guard

\* The handler answers.
LEMMA HandleInv ==
  ASSUME IInv, NEW r \in Requests, Handle(r), UNCHANGED crossCheck
  PROVE  TypeOK' /\ RequestInv(r)'
  <1>1. /\ down[r] = "handler" /\ down'[r] = "answered"
        /\ UNCHANGED <<at, request, source, stack, id, second, span, seen, log>>
    BY DEF Handle, reqVars, IInv, TypeOK
  <1>2. TypeOK'
    BY <1>1 DEF Handle, IInv, TypeOK
  <1>3. (Searched(r) /\ Chosen(r) /\ Scoped(r) /\ Compared(r) /\ Spanned(r) /\ Told(r))'
    BY <1>1
       DEF IInv, RequestInv, Searched, Chosen, Scoped, Compared, Spanned, Told, Emitted,
           Handled
  <1>4. Story(r)'
    BY <1>1, NothingTold DEF IInv, RequestInv
  <1>5. QED
    BY <1>2, <1>3, <1>4 DEF RequestInv

\* Every step preserves the invariant.
LEMMA NextIInv == IInv /\ [Next]_vars => IInv'
  <1> SUFFICES ASSUME IInv, [Next]_vars PROVE IInv'
    OBVIOUS
  <1>1. ASSUME NEW r \in Requests, Step(r), UNCHANGED crossCheck
        PROVE  IInv'
    <2>1. TypeOK' /\ RequestInv(r)'
      BY <1>1, UseInv, ExtractInv, NotFoundInv, ValidateInv, CompareInv, ResolvedInv,
         SpanSettledInv, GuardInv, HandleInv DEF Step
    <2>2. ASSUME NEW e \in Requests \ {r} PROVE RequestInv(e)'
      BY <1>1, OneRequest, UntouchedInv DEF IInv
    <2>3. QED
      BY <2>1, <2>2 DEF IInv
  <1>2. CASE UNCHANGED vars
    <2>1. TypeOK'
      BY <1>2 DEF vars, reqVars, IInv, TypeOK
    <2>2. ASSUME NEW e \in Requests PROVE RequestInv(e)'
      BY <1>2, UntouchedInv DEF IInv, vars, reqVars, Untouched
    <2>3. QED
      BY <2>1, <2>2 DEF IInv
  <1>3. QED
    BY <1>1, <1>2 DEF Next

\* The invariant holds in every reachable state.
THEOREM InvariantHolds == Spec => []IInv
BY InitIInv, NextIInv, PTL DEF Spec

-------------------------------------------------------------------------------
(***************************************************************************)
(* What follows in every reachable state.                                  *)
(***************************************************************************)
\* Every variable keeps its type, and a span is started and ended at most once.
THEOREM TypeCorrect == Spec => []TypeOK
  <1>1. IInv => TypeOK
    BY DEF IInv
  <1>2. QED
    BY <1>1, InvariantHolds, PTL

\* A handler runs under the tenant its request named and the validator accepted,
\* or without one on a route that is exempt, whatever context surrounds it.
THEOREM HandlersInContext == Spec => []HandlerContext
  <1>1. IInv => HandlerContext
    <2> SUFFICES ASSUME IInv, NEW r \in Requests, Handled(r)
                 PROVE  LET t == CurrentTenantId(seen[r]) IN
                        /\ ~ IsBypassed(seen[r])
                        /\ IF t = NoTenant THEN Emitted(r, "CONTEXT_BYPASSED")
                           ELSE t = id[r] /\ t \in ValidTenants /\ Emitted(r, "RESOLVED")
      BY DEF HandlerContext
    <2>1. down[r] # "none"
      BY DEF Handled
    <2>2. CurrentTenantId(seen[r]) = id[r] /\ IsBypassed(seen[r]) = FALSE
      BY <2>1 DEF IInv, RequestInv, Scoped, Carries
    <2>3. id[r] \in ValidTenants \cup {NoTenant}
      BY <2>1 DEF IInv, RequestInv, Chosen
    <2>4. Emitted(r, IF id[r] = NoTenant THEN "NOT_FOUND" ELSE "RESOLVED")
          /\ (id[r] = NoTenant => Emitted(r, "CONTEXT_BYPASSED"))
      BY <2>1 DEF IInv, RequestInv, Told
    <2>5. QED
      BY <2>2, <2>3, <2>4
  <1>2. QED
    BY <1>1, InvariantHolds, PTL

\* No handler runs for a request a rejecting cross-check should have stopped.
THEOREM CrossChecksHonoured == Spec => []CrossCheckHonoured
  <1>1. IInv => CrossCheckHonoured
    BY DEF IInv, RequestInv, Compared, Scoped, Carries, Handled, CrossCheckHonoured
  <1>2. QED
    BY <1>1, InvariantHolds, PTL

\* A middleware that has settled leaves no span open.
THEOREM NoSpanLeftOpen == Spec => []SpansClosed
  <1>1. IInv => SpansClosed
    BY DEF IInv, RequestInv, Spanned, SpansClosed
  <1>2. QED
    BY <1>1, InvariantHolds, PTL

\* The events of a request tell one story.
THEOREM EventsConsistent == Spec => []EventStory
  <1>1. IInv => EventStory
    BY DEF IInv, RequestInv, Story, EventStory
  <1>2. QED
    BY <1>1, InvariantHolds, PTL

\* What the first extractor that names one says is the composite's answer.
LEMMA FirstFound ==
  ASSUME NEW q, NEW i \in DOMAIN Sources,
         \A j \in 1 .. i - 1 : Extracted(Sources[j], q) = NoTenant,
         EndsSearch(Extracted(Sources[i], q)) \/ i = Len(Sources)
  PROVE  First(q) = Extracted(Sources[i], q)
  <1> DEFINE naming == {k \in DOMAIN Sources : Extracted(Sources[k], q) # NoTenant}
  <1>1. DOMAIN Sources = 1 .. Len(Sources) /\ Len(Sources) \in Nat
    BY PipelineConstants
  <1>2. \A k \in naming : i <= k
    BY <1>1
  <1>3. CASE Extracted(Sources[i], q) = NoTenant
    <2>1. naming = {}
      BY <1>1, <1>2, <1>3 DEF EndsSearch
    <2>2. QED
      BY <1>3, <2>1 DEF First
  <1>4. CASE Extracted(Sources[i], q) # NoTenant
    <2>1. i \in naming
      BY <1>4
    <2>2. (CHOOSE k \in naming : \A j \in naming : k <= j) = i
      <3>1. \A k \in naming : (\A j \in naming : k <= j) => k = i
        BY <1>1, <1>2, <2>1
      <3>2. QED
        BY <1>2, <2>1, <3>1
    <2>3. QED
      BY <2>1, <2>2 DEF First
  <1>5. QED
    BY <1>3, <1>4

\* A request works for the tenant of the first extractor that names one, however
\* long the ones before it take, and '' from it counts as an answer.
THEOREM FirstExtractorWins == Spec => FirstSourceWins
  <1>1. IInv /\ [Next]_vars =>
          [\A r \in Requests : at[r] = "extract" =>
             /\ at'[r] = "validate" => id'[r] = First(request[r])
             /\ at'[r] = "notFound" => First(request[r]) \in {NoTenant, EmptyText}]_vars
    <2> SUFFICES ASSUME IInv, Next, NEW r \in Requests, at[r] = "extract",
                        at'[r] \in {"validate", "notFound"}
                 PROVE  /\ at'[r] = "validate" => id'[r] = First(request[r])
                        /\ at'[r] = "notFound" => First(request[r]) \in {NoTenant, EmptyText}
      OBVIOUS
    <2> DEFINE value == Extracted(Sources[source[r]], request[r])
    <2>1. Extract(r)
      <3>1. PICK q \in Requests : Step(q)
        BY DEF Next
      <3>2. q = r
        BY <3>1, OneRequest DEF IInv, Untouched
      <3>3. QED
        BY <3>1, <3>2
           DEF Step, Use, NotFound, Validate, CompareSources, Resolved, SpanSettled,
               Guard, Handle
    <2>2. DOMAIN Sources = 1 .. Len(Sources)
      BY PipelineConstants
    <2>3. source[r] \in DOMAIN Sources
          /\ \A j \in 1 .. source[r] - 1 : Extracted(Sources[j], request[r]) = NoTenant
      BY <2>2 DEF IInv, RequestInv, Searched
    <2>4. /\ EndsSearch(value) \/ source[r] = Len(Sources)
          /\ at'[r] = "validate" => id'[r] = value
          /\ at'[r] = "notFound" => value \in {NoTenant, EmptyText}
      BY <2>1 DEF Extract, IInv, TypeOK, Goto
    <2>5. First(request[r]) = value
      BY <2>3, <2>4, FirstFound
    <2>6. QED
      BY <2>4, <2>5
  <1>2. QED
    BY <1>1, InvariantHolds, PTL DEF Spec, FirstSourceWins

-------------------------------------------------------------------------------
(***************************************************************************)
(* The refinement.  What a step does to one request, as the abstract       *)
(* specification sees it: nothing, or one of its three actions.            *)
(***************************************************************************)
Scope(r) == IF Handled(r) THEN CurrentTenantId(seen[r]) ELSE NoTenant

Unseen(r) == id'[r] = id[r] /\ Verdict(r)' = Verdict(r) /\ Scope(r)' = Scope(r)

Claims(r) ==
  /\ Verdict(r) = "waiting" /\ Verdict(r)' = "waiting" /\ Scope(r)' = Scope(r)
  /\ id[r] = NoTenant /\ \E t \in Tenants : id' = [id EXCEPT ![r] = t]

Refuses(r) ==
  /\ Verdict(r) = "waiting" /\ Verdict(r)' = "refused"
  /\ id'[r] = id[r] /\ Scope(r)' = Scope(r)

Admits(r) ==
  /\ Verdict(r) = "waiting" /\ Verdict(r)' = "admitted"
  /\ id'[r] = id[r] /\ Scope(r)' = id[r]
  /\ id[r] \in {NoTenant} \cup ValidTenants

\* A step that touches one request is a step of the abstract specification.
LEMMA StepRefined ==
  ASSUME NEW r \in Requests, TypeOK, TypeOK', \A e \in Requests \ {r} : Unseen(e),
         Unseen(r) \/ Claims(r) \/ Refuses(r) \/ Admits(r)
  PROVE  [Admission!Next]_(Admission!admVars)
  <1>1. ASSUME \A e \in Requests : id'[e] = id[e]
        PROVE  id' = id
    BY <1>1 DEF TypeOK
  <1>2. CASE Unseen(r)
    BY <1>1, <1>2 DEF Unseen, Scope, Admission!admVars
  <1>3. CASE Claims(r)
    <2>1. PICK t \in Tenants : id' = [id EXCEPT ![r] = t]
      BY <1>3 DEF Claims
    <2>2. id' = [w \in Requests |-> IF w \in {r} THEN t ELSE id[w]]
      BY <2>1 DEF TypeOK
    <2>3. Admission!Claim({r})
      BY <1>3, <2>2 DEF Claims, Unseen, Scope, Admission!Claim
    <2>4. QED
      BY <2>3 DEF Admission!Next
  <1>4. CASE Refuses(r)
    <2>1. Admission!Refuse({r})
      BY <1>1, <1>4 DEF Refuses, Unseen, Scope, Admission!Refuse
    <2>2. QED
      BY <2>1 DEF Admission!Next
  <1>5. CASE Admits(r)
    <2>1. Admission!Admit(r)
      BY <1>1, <1>5 DEF Admits, Unseen, Scope, Admission!Admit
    <2>2. QED
      BY <2>1 DEF Admission!Next
  <1>6. QED
    BY <1>2, <1>3, <1>4, <1>5

\* Until the guard has decided, a step of the middleware at most claims or refuses.
LEMMA MiddlewareRefined ==
  ASSUME IInv, NEW r \in Requests,
         \/ Use(r) \/ Extract(r) \/ NotFound(r) \/ Validate(r) \/ CompareSources(r)
         \/ Resolved(r)
  PROVE  Unseen(r) \/ Claims(r) \/ Refuses(r)
  <1>1. at[r] \in Places \ {"endSpan", "endSpanThrow", "done", "skipped", "failed"}
        /\ down[r] = "none"
    BY DEF IInv, RequestInv, Chosen, Places, Use, Extract, NotFound, Validate,
           CompareSources, Resolved
  <1>2. Verdict(r) = "waiting" /\ Scope(r) = NoTenant
    BY <1>1 DEF Verdict, Handled, Scope, Places
  <1>3. down'[r] \in {"none", "guard"}
    BY <1>1 DEF IInv, TypeOK, Use, Extract, NotFound, Validate, CompareSources, Resolved,
           CallNext
  <1>4. Scope(r)' = NoTenant /\ Verdict(r)' \in {"waiting", "refused"}
    BY <1>3 DEF Scope, Handled, Verdict
  <1>5. CASE id' = id
    BY <1>2, <1>4, <1>5 DEF Unseen, Refuses
  <1>6. CASE id' # id
    <2>1. Extract(r)
      BY <1>6 DEF Use, NotFound, Validate, CompareSources, Resolved, EnterTenant
    <2>2. at[r] = "extract" /\ at' = [at EXCEPT ![r] = "validate"] /\ down' = down
          /\ id' = [id EXCEPT ![r] = Extracted(Sources[source[r]], request[r])]
          /\ Extracted(Sources[source[r]], request[r]) \notin {NoTenant, EmptyText}
      BY <1>6, <2>1 DEF Extract, Goto
    <2>3. id[r] = NoTenant
      BY <2>2 DEF IInv, RequestInv, Chosen
    <2>4. Extracted(Sources[source[r]], request[r]) \in Tenants
      <3>1. request[r] \in Incoming[r] /\ source[r] \in DOMAIN Sources
        BY <2>2, PipelineConstants DEF IInv, RequestInv, Searched
      <3>2. QED
        BY <2>2, <3>1, PipelineConstants DEF TenantOrNull
    <2>5. at'[r] = "validate"
      BY <2>2 DEF IInv, TypeOK
    <2>6. Verdict(r)' = "waiting"
      BY <1>1, <2>2, <2>5 DEF Verdict, Handled
    <2>7. QED
      BY <1>2, <1>4, <2>2, <2>3, <2>4, <2>6 DEF Claims
  <1>7. QED
    BY <1>5, <1>6

\* The end of the span is not seen; the guard admits or refuses.
LEMMA DownstreamRefined ==
  ASSUME IInv, NEW r \in Requests, SpanSettled(r) \/ Guard(r) \/ Handle(r)
  PROVE  Unseen(r) \/ Refuses(r) \/ Admits(r)
  <1>1. CASE SpanSettled(r)
    <2>1. /\ at[r] \in {"endSpan", "endSpanThrow"}
          /\ at'[r] = IF at[r] = "endSpan" THEN "done" ELSE "failed"
          /\ UNCHANGED <<id, down, seen>>
      BY <1>1 DEF SpanSettled, Goto, IInv, TypeOK
    <2>2. QED
      BY <2>1 DEF Unseen, Verdict, Scope, Handled
  <1>2. CASE Guard(r)
    <2>1. /\ down[r] = "guard" /\ at[r] \in {"endSpan", "done"}
          /\ down'[r] \in {"handler", "forbidden"}
          /\ UNCHANGED <<at, id, seen>>
          /\ CurrentTenantId(seen[r]) = id[r]
          /\ id[r] \in {NoTenant} \cup ValidTenants
      BY <1>2 DEF Guard, IInv, TypeOK, RequestInv, Chosen, Scoped, Carries
    <2>2. QED
      BY <2>1 DEF Refuses, Admits, Verdict, Scope, Handled
  <1>3. CASE Handle(r)
    <2>1. down[r] = "handler" /\ down'[r] = "answered" /\ UNCHANGED <<at, id, seen>>
      BY <1>3 DEF Handle, IInv, TypeOK
    <2>2. QED
      BY <2>1 DEF Unseen, Verdict, Scope, Handled
  <1>4. QED
    BY <1>1, <1>2, <1>3

\* A request is refused or admitted once, for the tenant that was extracted from it
\* and validated or for none.
THEOREM AdmissionImplemented == Spec => AdmissionRefined
  <1>1. Init => Admission!Init
    BY DEF Init, Admission!Init, Verdict, Handled
  <1>2. IInv /\ IInv' /\ [Next]_vars => [Admission!Next]_(Admission!admVars)
    <2> SUFFICES ASSUME IInv, IInv', [Next]_vars
                 PROVE  [Admission!Next]_(Admission!admVars)
      OBVIOUS
    <2>1. CASE UNCHANGED vars
      BY <2>1 DEF vars, Admission!admVars, Verdict, Handled
    <2>2. ASSUME NEW r \in Requests, Step(r)
          PROVE  [Admission!Next]_(Admission!admVars)
      <3>1. ASSUME NEW e \in Requests \ {r} PROVE Unseen(e)
        BY <2>2, OneRequest DEF IInv, Untouched, Unseen, Verdict, Scope, Handled
      <3>2. Unseen(r) \/ Claims(r) \/ Refuses(r) \/ Admits(r)
        BY <2>2, MiddlewareRefined, DownstreamRefined DEF Step
      <3>3. QED
        BY <3>1, <3>2, StepRefined DEF IInv
    <2>3. QED
      BY <2>1, <2>2 DEF Next
  <1>3. QED
    BY <1>1, <1>2, InvariantHolds, PTL DEF Spec, AdmissionRefined, Admission!Spec

===============================================================================
