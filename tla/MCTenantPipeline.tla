--------------------------- MODULE MCTenantPipeline ---------------------------
(***************************************************************************)
(* Instances of TenantPipeline for TLC.                                    *)
(***************************************************************************)
EXTENDS TenantPipeline, Integers, TLC

CONSTANTS A, B, UpperA, EscapedA, q1, q2

\* No context around the request, a tenant's, or one without tenancy.
Around == {<<>>, <<TenantFrame(B)>>, <<BypassFrame>>}

\* No cross-check, or either reaction to a mismatch with either treatment of a
\* missing source.
Configured ==
  [onFailed : {"off"}, required : {FALSE}]
    \cup [onFailed : {"reject", "log"}, required : BOOLEAN]

\* The extractors of the package around one of the application.
Composite == <<"header", "jwt", "lookup", "path", "host">>
ApiPath   == <<"api", Param>>
Escapes   == EscapedA :> A @@ "%" :> NoTenant
Capitals  == UpperA :> A @@ "WWW" :> "www"

\* A request that names no tenant anywhere, and what each extractor may find.
Nowhere ==
  [header |-> NoTenant, authorization |-> NoTenant, lookup |-> NoTenant, path |-> <<>>,
   host |-> [isIp |-> FALSE, error |-> FALSE, listed |-> TRUE,
             subdomain |-> <<>>, labels |-> <<"example", "com">>]]

Headers == {NoTenant, EmptyText, A, <<>>, <<A, B>>, <<EmptyText, B>>}

Claims == {[exp |-> {}, nbf |-> {}, claim |-> c] : c \in {A, NoTenant, EmptyText}}
          \cup {[exp |-> {e}, nbf |-> {n}, claim |-> A] : e, n \in {0, 1}}

Bearer(c) == [form |-> "bearer", parts |-> 3, decodes |-> TRUE, payload |-> c]

Authorizations ==
  {Bearer(c) : c \in Claims}
  \cup {[Bearer([exp |-> {}, nbf |-> {}, claim |-> A]) EXCEPT !.form = f, !.parts = n, !.decodes = d] :
          f \in {"bearer", "other"}, n \in {2, 3}, d \in BOOLEAN}

Paths == {<<"api">>, <<"api", A>>, <<"web", A>>, <<"api", "%">>, <<"api", EscapedA>>, <<"api", A, "x">>}

Hosts ==
  LET h == Nowhere.host IN
  {[h EXCEPT !.subdomain = <<l>>] : l \in {A, UpperA, "www", "WWW"}}
  \cup {[h EXCEPT !.isIp = TRUE, !.listed = FALSE, !.labels = <<A, A, A, A>>],
        [h EXCEPT !.error = TRUE, !.listed = FALSE, !.labels = <<A, "example", "local">>],
        [h EXCEPT !.listed = FALSE, !.labels = <<A, "example", "local">>],
        [h EXCEPT !.listed = FALSE, !.labels = <<"example", "local">>]}

\* Each of them alone, and with a fallback behind it.
Received ==
  LET also == {Nowhere, [Nowhere EXCEPT !.lookup = B, !.path = <<"api", B>>]} IN
  UNION {{[q EXCEPT !.header = v] : v \in Headers}
         \cup {[q EXCEPT !.authorization = v] : v \in Authorizations} : q \in also}
  \cup {[Nowhere EXCEPT !.lookup = v, !.path = <<"api", B>>] : v \in {A, NoTenant, EmptyText}}
  \cup {[Nowhere EXCEPT !.path = v] : v \in Paths}
  \cup {[Nowhere EXCEPT !.host = v] : v \in Hosts}

\* Requests share nothing but the module's options: one of them holds anything,
\* the other what differs afterwards.
ReceivedBy ==
  q1 :> Received @@ q2 :> {[Nowhere EXCEPT !.header = v] : v \in {NoTenant, A, B}}
===============================================================================
