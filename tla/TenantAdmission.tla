---------------------------- MODULE TenantAdmission ----------------------------
(***************************************************************************)
(* What an entry point of the package promises of a unit of work (an HTTP  *)
(* request, an attempt at handling a message): it is refused, or it is     *)
(* admitted once, in a context that carries either the tenant the work     *)
(* itself claimed, and then one the application accepts, or no tenant.     *)
(***************************************************************************)
EXTENDS TenancyContext

CONSTANTS
  Work,         \* requests, or attempts at handling a delivered message
  Acceptable    \* the tenants an accepted claim may name

VARIABLES
  claim,        \* the tenant each unit of work claims, once it is known
  verdict,      \* "waiting", "refused" or "admitted"
  scope         \* the tenant it runs for once it is admitted

admVars == <<claim, verdict, scope>>

Init ==
  /\ claim = [w \in Work |-> NoTenant]
  /\ verdict = [w \in Work |-> "waiting"]
  /\ scope = [w \in Work |-> NoTenant]

\* What comes in together, the attempts at one delivery, makes one claim and is
\* refused together.
Claim(W) ==
  /\ \A w \in W : verdict[w] = "waiting" /\ claim[w] = NoTenant
  /\ \E t \in Tenants : claim' = [w \in Work |-> IF w \in W THEN t ELSE claim[w]]
  /\ UNCHANGED <<verdict, scope>>

Refuse(W) ==
  /\ \A w \in W : verdict[w] = "waiting"
  /\ verdict' = [w \in Work |-> IF w \in W THEN "refused" ELSE verdict[w]]
  /\ UNCHANGED <<claim, scope>>

Admit(w) ==
  /\ verdict[w] = "waiting"
  /\ verdict' = [verdict EXCEPT ![w] = "admitted"]
  /\ \E t \in {NoTenant} \cup ({claim[w]} \cap Acceptable) :
       scope' = [scope EXCEPT ![w] = t]
  /\ UNCHANGED claim

Next ==
  \/ \E W \in SUBSET Work : Claim(W) \/ Refuse(W)
  \/ \E w \in Work : Admit(w)

Spec == Init /\ [][Next]_admVars
===============================================================================
