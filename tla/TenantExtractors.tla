--------------------------- MODULE TenantExtractors ---------------------------
(***************************************************************************)
(* Where a request names its tenant:                                       *)
(*   src/src/extractors/...   the built-in extractors                      *)
(*                                                                         *)
(* A request is what each of them reads of it, already parsed by the       *)
(* framework; NoTenant stands for null and undefined.                      *)
(***************************************************************************)
EXTENDS TenancyContext

CONSTANTS
  EmptyText,    \* '', which is a value to `!= null` and none to `!tenantId`
  Pattern,      \* the path extractor's pattern, by segments
  Param,        \* its ':tenantId' segment
  Decoded,      \* path segments with escapes, and what decodeURIComponent makes
                \* of them: nothing, of one that it refuses
  Excluded,     \* excludeSubdomains, in lower case
  LowerCase     \* labels with capitals, and what they are in lower case

ASSUME ExtractorConstants ==
  /\ EmptyText \notin TenantOrNull
  /\ \E i \in DOMAIN Pattern : Pattern[i] = Param    \* the constructor throws

\* HeaderTenantExtractor: a header that is given several times is an array.
HeaderTenant(header) ==
  IF header \in {NoTenant, EmptyText} \cup Tenants
  THEN IF header = EmptyText THEN NoTenant ELSE header
  ELSE IF header = <<>> THEN NoTenant ELSE header[1]

\* exp and nbf as seconds from now; a claim that is no number is not looked at.
OutsideTimeWindow(payload) ==
  (\E t \in payload.exp : t <= 0) \/ (\E t \in payload.nbf : t > 0)

\* JwtClaimTenantExtractor, which verifies no signature
JwtTenant(authorization) ==
  IF /\ authorization # NoTenant
     /\ authorization.form = "bearer" /\ authorization.parts = 3
     /\ authorization.decodes
     /\ ~ OutsideTimeWindow(authorization.payload)
  THEN authorization.payload.claim
  ELSE NoTenant

Decode(segment) == IF segment \in DOMAIN Decoded THEN Decoded[segment] ELSE segment

\* PathTenantExtractor, of the path's segments that are not empty
PathTenant(path) ==
  LET index == CHOOSE i \in DOMAIN Pattern :
                 Pattern[i] = Param /\ \A j \in 1 .. i - 1 : Pattern[j] # Param IN
  IF /\ Len(path) >= Len(Pattern)
     /\ \A i \in DOMAIN Pattern \ {index} : path[i] = Pattern[i]
  THEN Decode(path[index])
  ELSE NoTenant

Lowered(label) == IF label \in DOMAIN LowerCase THEN LowerCase[label] ELSE label

\* SubdomainTenantExtractor, with what psl.parse() answers: an error, or the
\* labels of the sub-domain and whether the domain is listed
HostTenant(host) ==
  LET label == CASE host.subdomain # <<>> -> Lowered(host.subdomain[1])
                 [] host.subdomain = <<>> /\ ~ host.listed /\ Len(host.labels) >= 3 ->
                      Lowered(host.labels[1])
                 [] OTHER -> NoTenant IN
  IF host.isIp \/ host.error \/ label \in Excluded THEN NoTenant ELSE label

\* "lookup" is an extractor of the application, which returns a Promise.
Extracted(source, request) ==
  CASE source = "header" -> HeaderTenant(request.header)
    [] source = "jwt"    -> JwtTenant(request.authorization)
    [] source = "path"   -> PathTenant(request.path)
    [] source = "host"   -> HostTenant(request.host)
    [] source = "lookup" -> request.lookup
===============================================================================
