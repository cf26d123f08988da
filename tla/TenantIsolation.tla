---------------------------- MODULE TenantIsolation ----------------------------
(***************************************************************************)
(* What the package promises of a database shared by several tenants,      *)
(* without contexts, connections, settings or policies: every tenant has a *)
(* store of its own.  An operation answers with rows of the tenant it runs *)
(* for and with none when it runs for no tenant; a row that a tenant owns  *)
(* is never given to another.                                              *)
(***************************************************************************)
EXTENDS TenancyContext

CONSTANTS Tasks, Ids

VARIABLES
  store,     \* the row ids each tenant owns
  answer     \* what the last operation of each task was given

isoVars == <<store, answer>>

Unanswered == [scope |-> NoTenant, owners |-> {}]

Init ==
  /\ store \in [Tenants -> SUBSET Ids]
  /\ \A t, u \in Tenants : t # u => store[t] \cap store[u] = {}
  /\ answer = [k \in Tasks |-> Unanswered]

Answers(k) ==
  \E s \in TenantOrNull, owners \in SUBSET Tenants :
    /\ owners \subseteq {s}
    /\ answer' = [answer EXCEPT ![k] = [scope |-> s, owners |-> owners]]

Forgets ==
  \E ks \in SUBSET Tasks :
    answer' = [k \in Tasks |-> IF k \in ks THEN Unanswered ELSE answer[k]]

Grows ==
  /\ \A t \in Tenants : store'[t] \in SUBSET Ids /\ store[t] \subseteq store'[t]
  /\ \A t, u \in Tenants : t # u => store'[t] \cap store'[u] = {}
  /\ DOMAIN store' = Tenants

Next == Grows /\ (Forgets \/ \E k \in Tasks : Answers(k))

Spec == Init /\ [][Next]_isoVars
===============================================================================
