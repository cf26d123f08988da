---------------------------- MODULE TenantResources ----------------------------
(***************************************************************************)
(* What tenants share besides the database:                                *)
(*   src/src/cache/tenant-cache.interceptor.ts   the keys of cached routes *)
(*   src/src/resources/tenant-resource-key.ts    keys for Redis and search *)
(*   src/src/resources/tenant-search.ts          scoped searches           *)
(*   src/src/diagnostics/...                     a missing context         *)
(*                                                                         *)
(* Chains of calls, each in a context of its own, use one store.  Nest's   *)
(* CacheInterceptor, the store and the search engine are external.  A key  *)
(* is the sequence of its characters, a tenant id too.                     *)
(***************************************************************************)
EXTENDS TenancyContext, FiniteSets, Functions

CONSTANTS
  Chains,
  Contexts,    \* the contexts a chain may run in
  Jobs,        \* what a chain may do: its kind, its base key, whether that is
               \* a Promise and whether the route is @SharedTenantCache()
  Options,     \* the options of the interceptor and of TenantResourceKey, and
               \* the policy of the diagnostics
  MaxEntries,  \* how many entries the store holds
  Everyone,    \* the tenant of what is the same for all
  Characters,  \* of ids, keys and the options
  Sha256,      \* the digest of each id, in hexadecimal
  NoKey,       \* no base key: null, undefined or ''
  NoJob, Nothing

Kinds    == {"route", "key", "search"}
Policies == {"ignore", "warn", "throw"}
Text     == Seq(Characters)
Digit    == <<"0", "1", "2", "3", "4", "5", "6", "7", "8", "9">>
Hex      == Range(Digit) \cup {"a", "b", "c", "d", "e", "f"}

\* An id is not '', which counts as none, and the model writes lengths of up to
\* two digits.  Digests have a fixed length and do not collide.
ASSUME IdConstants ==
  /\ Hex \cup {":"} \subseteq Characters
  /\ \A t \in Tenants : t \in Text /\ 0 < Len(t) /\ Len(t) < 100
  /\ Contexts \subseteq Stack
  /\ \A t \in Tenants : Sha256[t] \in Seq(Hex) /\ Len(Sha256[t]) = 64
  /\ \A t, u \in Tenants : Sha256[t] = Sha256[u] => t = u

\* Only routes have no key to begin with, and only they can be shared.
ASSUME JobConstants ==
  /\ NoKey \notin Text /\ NoJob \notin Jobs
  /\ \A j \in Jobs :
       /\ j.kind \in Kinds /\ j.async \in BOOLEAN /\ j.shared \in BOOLEAN
       /\ IF j.kind = "route" THEN j.base \in (Text \ {<<>>}) \cup {NoKey}
          ELSE j.base \in Text /\ ~ j.shared

\* Prefixes and separators are any texts, '' too: nothing checks them.
ASSUME OptionConstants ==
  \A o \in Options :
    /\ o.hash \in BOOLEAN /\ o.policy \in Policies
    /\ {o.tenantPrefix, o.sharedPrefix, o.separator} \subseteq Text
    /\ {o.keyPrefix, o.keySeparator} \subseteq Text

VARIABLES
  options,   \* of the module
  stack,     \* the context of each chain
  at,        \* where it is
  job,       \* what it does
  key,       \* the key it uses
  store,     \* the entries of the cache and of Redis, by key
  answer     \* what it got, and for whom that was made

vars == <<options, stack, at, job, key, store, answer>>

Init ==
  /\ options \in Options
  /\ stack \in [Chains -> Contexts]
  /\ at = [c \in Chains |-> "new"]
  /\ job = [c \in Chains |-> NoJob]
  /\ key = [c \in Chains |-> NoKey]
  /\ store = <<>>
  /\ answer = [c \in Chains |-> Nothing]

-------------------------------------------------------------------------------
(***************************************************************************)
(* Keys.                                                                   *)
(***************************************************************************)
\* tenantId.length, as text
Length(t) ==
  IF Len(t) < 10 THEN <<Digit[Len(t) + 1]>>
  ELSE <<Digit[(Len(t) \div 10) + 1], Digit[(Len(t) % 10) + 1]>>

\* Seeded fault: the id alone.
TenantIdAlone(t) == t

\* Its SHA-256, or its length and itself.
FormatTenantId(t) ==
  IF options.hash THEN Sha256[t] ELSE Length(t) \o <<":">> \o t

SharedKey(base) == options.sharedPrefix \o options.separator \o base

TenantKey(t, base) ==
  LET s == options.separator IN
  options.tenantPrefix \o s \o FormatTenantId(t) \o s \o base

\* TenantResourceKey.create, with a tenant
ResourceKey(t, base) ==
  LET s == options.keySeparator IN
  options.keyPrefix \o s \o Length(t) \o s \o t \o s \o base

-------------------------------------------------------------------------------
Goto(c, place) == at' = [at EXCEPT ![c] = place]

\* what the application computes for the chain
Made(c) ==
  [for |-> IF job[c].shared THEN Everyone ELSE CurrentTenantId(stack[c]),
   of |-> job[c].base]

Answer(c, value) == answer' = [answer EXCEPT ![c] = value] /\ Goto(c, "answered")

Start(c) ==
  /\ at[c] = "new"
  /\ \E j \in Jobs : job' = [job EXCEPT ![c] = j]
  /\ Goto(c, "scope")
  /\ UNCHANGED <<options, stack, key, store, answer>>

\* The continuation of an asynchronous base key runs in the context in which
\* then() was called, whoever resolves the Promise.
TenantOfChain(c, resolver) == CurrentTenantId(stack[c])

\* TenantContextDiagnostics.report(): it throws, or the chain goes on without
\* a key or a search
Report(c, unscoped) ==
  IF options.policy = "throw" THEN Goto(c, "failed") ELSE Goto(c, unscoped)

\* trackBy, scopeCacheKey
TrackBy(c) ==
  /\ at[c] = "scope" /\ job[c].kind = "route"
  /\ \E resolver \in IF job[c].async THEN Chains ELSE {c} :
       LET t == TenantOfChain(c, resolver)
           base == job[c].base IN
       \/ /\ base = NoKey
          /\ Goto(c, "compute") /\ UNCHANGED key
       \/ /\ base # NoKey /\ job[c].shared
          /\ key' = [key EXCEPT ![c] = SharedKey(base)] /\ Goto(c, "get")
       \/ /\ base # NoKey /\ ~ job[c].shared /\ t = NoTenant
          /\ Report(c, "compute") /\ UNCHANGED key
       \/ /\ base # NoKey /\ ~ job[c].shared /\ t # NoTenant
          /\ key' = [key EXCEPT ![c] = TenantKey(t, base)] /\ Goto(c, "get")
  /\ UNCHANGED <<options, stack, job, store, answer>>

\* TenantResourceKey.create(): the application uses no key that is null
CreateKey(c) ==
  /\ at[c] = "scope" /\ job[c].kind = "key"
  /\ LET t == CurrentTenantId(stack[c]) IN
     \/ t = NoTenant /\ Report(c, "unscoped") /\ UNCHANGED key
     \/ /\ t # NoTenant
        /\ key' = [key EXCEPT ![c] = ResourceKey(t, job[c].base)] /\ Goto(c, "get")
  /\ UNCHANGED <<options, stack, job, store, answer>>

\* TenantSearch.search(): the adapter answers for its scope, or fails
Search(c) ==
  /\ at[c] = "scope" /\ job[c].kind = "search"
  /\ LET t == CurrentTenantId(stack[c]) IN
     \/ t = NoTenant /\ Report(c, "unscoped") /\ UNCHANGED answer
     \/ t # NoTenant /\ Answer(c, [for |-> t, of |-> job[c].base])
     \/ t # NoTenant /\ Goto(c, "failed") /\ UNCHANGED answer
  /\ UNCHANGED <<options, stack, job, key, store>>

(***************************************************************************)
(* External: CacheInterceptor.intercept() and applications that use keys   *)
(* the same way; the store may fail, and forget.                           *)
(***************************************************************************)
Get(c) ==
  /\ at[c] = "get"
  /\ \/ /\ key[c] \in DOMAIN store
        /\ Answer(c, store[key[c]])
     \/ /\ key[c] \notin DOMAIN store
        /\ Goto(c, "compute") /\ UNCHANGED answer
     \/ Goto(c, "failing") /\ UNCHANGED answer
  /\ UNCHANGED <<options, stack, job, key, store>>

\* next.handle(), and what it returns is stored under a key
Compute(c) ==
  /\ at[c] \in {"compute", "failing"}
  /\ \/ /\ at[c] = "compute" /\ key[c] # NoKey
        /\ \E kept \in SUBSET (DOMAIN store \ {key[c]}) :
             /\ Cardinality(kept) < MaxEntries
             /\ store' = [k \in kept \cup {key[c]} |->
                            IF k = key[c] THEN Made(c) ELSE store[k]]
     \/ UNCHANGED store
  /\ Answer(c, Made(c))
  /\ UNCHANGED <<options, stack, job, key>>

\* A chain of another call takes its place.
Renew(c) ==
  /\ at[c] \in {"answered", "failed", "unscoped"}
  /\ Goto(c, "new")
  /\ \E s \in Contexts : stack' = [stack EXCEPT ![c] = s]
  /\ job' = [job EXCEPT ![c] = NoJob]
  /\ key' = [key EXCEPT ![c] = NoKey]
  /\ answer' = [answer EXCEPT ![c] = Nothing]
  /\ UNCHANGED <<options, store>>

Next ==
  \E c \in Chains :
    \/ Start(c) \/ TrackBy(c) \/ CreateKey(c) \/ Search(c)
    \/ Get(c) \/ Compute(c) \/ Renew(c)

Spec == Init /\ [][Next]_vars

-------------------------------------------------------------------------------
(***************************************************************************)
(* Properties.                                                             *)
(***************************************************************************)
(***************************************************************************)
(* Options under which no two keys in one store coincide.  The code does   *)
(* not ask for them.                                                       *)
(***************************************************************************)
\* The kinds of keys in the store.
Used == {IF j.shared THEN "shared" ELSE j.kind : j \in Jobs}

\* Neither text begins with the other.
Apart(x, y) == \E i \in 1 .. Len(x) : i <= Len(y) /\ x[i] # y[i]

\* The separator of TenantResourceKey also ends the length: its first character
\* that is no digit shows where.  It is not '', and not digits alone.
Ends(m, i) == m[i] \notin Range(Digit) /\ \A k \in 1 .. i - 1 : m[k] \in Range(Digit)

LengthEnds(o) == \E i \in 1 .. Len(o.keySeparator) : Ends(o.keySeparator, i)

\* Routes and resources with one prefix are told apart if their keys are read in
\* one way, or if ':' follows the prefix of one and an id that of the other.
OneForm(o) ==
  /\ o.tenantPrefix = o.keyPrefix
  /\ o.keySeparator = <<":">> /\ o.separator \in {<<>>, <<":">>}

Unambiguous(o) ==
  LET tenant == o.tenantPrefix \o o.separator
      shared == o.sharedPrefix \o o.separator
      resource == o.keyPrefix \o o.keySeparator IN
  /\ "key" \in Used => LengthEnds(o)
  /\ {"shared", "route"} \subseteq Used => Apart(shared, tenant)
  /\ {"shared", "key"} \subseteq Used => Apart(shared, resource)
  /\ {"route", "key"} \subseteq Used => Apart(tenant, resource) \/ OneForm(o)

\* "If two tenants hit the same route ... an unscoped response cache can leak
\* one tenant's data": an answer, cached or searched or not, was made for the
\* tenant of its chain, or for everyone where the route is marked so, and from
\* the key it asked for; whatever ids and keys look like, and whoever filled the
\* store meanwhile.  And with the policy 'throw' a chain without a tenant gets
\* nothing that is meant for one.
ServedOwn ==
  \A c \in Chains : at[c] = "answered" =>
    /\ answer[c] = Made(c)
    /\ options.policy = "throw" /\ job[c].base # NoKey /\ ~ job[c].shared =>
         answer[c].for \in Tenants

\* "Creates collision-safe tenant-scoped identifiers for Redis and search
\* resources" (resources/tenant-resource-key.ts:17): two calls that are about to use
\* the same key are the same tenant's, and were given the same base key.
CollisionSafe ==
  \A c, d \in Chains :
    /\ at[c] = "get" /\ job[c].kind = "key"
    /\ at[d] = "get" /\ job[d].kind = "key"
    /\ key[c] = key[d]
    => /\ CurrentTenantId(stack[c]) = CurrentTenantId(stack[d])
       /\ job[c].base = job[d].base
===============================================================================
