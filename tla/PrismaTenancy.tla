----------------------------- MODULE PrismaTenancy -----------------------------
(***************************************************************************)
(* The Prisma entry points of the package and the store they read:         *)
(*   src/src/prisma/prisma-tenancy.extension.ts   $allOperations           *)
(*   src/src/prisma/tenancy-transaction.ts        tenancyTransaction       *)
(*   src/src/services/tenancy.service.ts          withoutTenant, ...       *)
(*                                                                         *)
(* Tasks are asynchronous call chains of the application.  Each enters and *)
(* leaves tenant contexts and awaits one model operation at a time; between*)
(* two steps of an operation every other task may run.  Connections are    *)
(* shared by all of them.                                                  *)
(***************************************************************************)
EXTENDS RlsDatabase, FiniteSets

CONSTANTS
  FailClosed,     \* options.failClosed
  AutoInject,     \* options.autoInjectTenantId
  ItxSupport,     \* options.interactiveTransactionSupport
  SharedRead,     \* an operation on one of options.sharedModels
  Statements,     \* statements the application issues on the tenant table
  BaseStacks,     \* contexts a task can be started in
  MaxDepth,       \* bound on the frames a task nests
  TxKinds,        \* interactive transactions the application uses
  MixedItx        \* TRUE: one interactive transaction is used under several
                  \* contexts; FALSE: under the context it was opened in

ASSUME PrismaConstants ==
  /\ {FailClosed, AutoInject, ItxSupport, MixedItx} \subseteq BOOLEAN
  /\ Statements \subseteq Statement
  /\ SharedRead \notin Statement
  /\ BaseStacks \subseteq Stack
  /\ MaxDepth \in Nat
  /\ TxKinds \subseteq {"itx", "tenancy"}

VARIABLES
  frames,    \* the context stack of each task
  op,        \* the operation each task is awaiting
  db,        \* the connections
  rows,      \* the committed tenant-scoped rows
  answer     \* what the last operation of each task was given

vars == <<frames, op, db, rows, answer>>

(***************************************************************************)
(* An operation: what it does (mode), how far it got, the tenant read when *)
(* it was called, its statement after injection, and its connection: the   *)
(* one its transaction got, or that of the interactive transaction on      *)
(* whose client it was called.                                             *)
(***************************************************************************)
Idle == [mode |-> "none", phase |-> "idle", scope |-> NoTenant,
         stmt |-> SharedRead, conn |-> NoConn]

Op ==
  [mode  : {"none", "direct", "batch", "itx", "tenancy"},
   phase : {"idle", "begin", "config", "query", "commit"},
   scope : TenantOrNull,
   stmt  : Statement \cup {SharedRead},
   conn  : Conns \cup {NoConn}]

NoAnswer == [scope |-> NoTenant, owners |-> {}]

Answer == [scope : TenantOrNull, owners : SUBSET Tenants]

TenantOf(k) == CurrentTenantId(frames[k])

Init ==
  /\ frames \in [Tasks -> BaseStacks]
  /\ op = [k \in Tasks |-> Idle]
  /\ db = [c \in Conns |-> NewConnection]
  /\ rows \in Table
  /\ answer = [k \in Tasks |-> NoAnswer]

-------------------------------------------------------------------------------
(***************************************************************************)
(* The context of a task.                                                  *)
(***************************************************************************)
CanMove(k) == op[k].phase = "idle"

OpenItx(k) == {c \in Conns : db[c].tx = "itx" /\ db[c].owner = k}

Enter(k, stack) ==
  /\ CanMove(k)
  /\ Len(frames[k]) < MaxDepth
  /\ MixedItx \/ OpenItx(k) = {}
  /\ frames' = [frames EXCEPT ![k] = stack]
  /\ UNCHANGED <<op, db, rows, answer>>

EnterTenant(k) == \E t \in Tenants : Enter(k, Run(frames[k], t))

WithoutTenant(k) == Enter(k, RunWithoutTenant(frames[k]))

Leave(k) ==
  /\ CanMove(k)
  /\ frames[k] # <<>>
  /\ MixedItx \/ OpenItx(k) = {}
  /\ frames' = [frames EXCEPT ![k] = Exit(frames[k])]
  /\ UNCHANGED <<op, db, rows, answer>>

-------------------------------------------------------------------------------
(***************************************************************************)
(* $allOperations, up to its first await.                                  *)
(***************************************************************************)
\* Seeded fault: the update branch of an upsert is left as it came.
KeepTenantField(s) == s

StripTenantField(s) == [s EXCEPT !.update = NoTenant]

Inject(s, t) ==
  IF ~ AutoInject THEN s
  ELSE CASE s.kind = "create" -> [s EXCEPT !.create = t]
         [] s.kind = "upsert" -> [StripTenantField(s) EXCEPT !.create = t]
         [] OTHER             -> s

\* Seeded fault: failClosed is ignored.
PassesAnything(k) == TRUE

PassesUnscoped(k) == IsBypassed(frames[k]) \/ ~ FailClosed

Call(k, o) ==
  /\ op' = [op EXCEPT ![k] = o]
  /\ answer' = [answer EXCEPT ![k] = NoAnswer]
  /\ UNCHANGED <<frames, db, rows>>

\* sharedModels.has(model): query(args), whatever the context
CallShared(k, via) ==
  Call(k, [Idle EXCEPT !.mode = "direct", !.phase = "query", !.conn = via])

\* no tenant: through, or TenancyContextRequiredError
CallUnscoped(k, via, s) ==
  /\ TenantOf(k) = NoTenant
  /\ IF PassesUnscoped(k)
     THEN Call(k, [Idle EXCEPT !.mode = "direct", !.phase = "query",
                               !.stmt = s, !.conn = via])
     ELSE Call(k, Idle)

ScopedMode(via) == IF ItxSupport /\ via # NoConn THEN "itx" ELSE "batch"

CallScoped(k, via, s) ==
  /\ TenantOf(k) # NoTenant
  /\ Call(k, [mode  |-> ScopedMode(via),
              phase |-> IF ScopedMode(via) = "itx" THEN "config" ELSE "begin",
              scope |-> TenantOf(k),
              stmt  |-> Inject(s, TenantOf(k)),
              conn  |-> IF ScopedMode(via) = "itx" THEN via ELSE NoConn])

AllOperations(k) ==
  /\ CanMove(k)
  /\ \E via \in {NoConn} \cup OpenItx(k) :
       \/ CallShared(k, via)
       \/ \E s \in Statements : CallUnscoped(k, via, s) \/ CallScoped(k, via, s)

-------------------------------------------------------------------------------
(***************************************************************************)
(* The statements of an operation on its connection.                       *)
(***************************************************************************)
\* Seeded fault: set_config() for the whole session.
SetTenantForSession(c, t) == SetConfig(c, t, FALSE)

SetTenant(c, t) == SetConfig(c, t, TRUE)

Free(c) == db[c].tx = "free"

Unlocked(c, s) == \A d \in Conns \ {c} : db[d].pend[s.id] = NoTenant

Finish(k, owners) ==
  /\ op' = [op EXCEPT ![k] = Idle]
  /\ answer' = [answer EXCEPT ![k] = [scope |-> op[k].scope, owners |-> owners]]

\* query(args) without a transaction of the extension: on a free connection,
\* committed at once, or on the interactive transaction it was called in
DirectQuery(k, c) ==
  LET s == op[k].stmt IN
  /\ op[k].mode = "direct"
  /\ IF op[k].conn = NoConn THEN Free(c) ELSE c = op[k].conn
  /\ UNCHANGED frames
  /\ \/ /\ s = SharedRead \/ (s \in Statement /\ Refused(db[c], rows, s))
        /\ Finish(k, {})
        /\ UNCHANGED <<db, rows>>
     \/ /\ s \in Statement
        /\ ~ Refused(db[c], rows, s)
        /\ Unlocked(c, s)
        /\ Finish(k, ReturnedOwners(db[c], rows, s))
        /\ IF op[k].conn = NoConn
           THEN /\ rows' = View(Executed(db[c], rows, s), rows)
                /\ UNCHANGED db
           ELSE /\ db' = [db EXCEPT ![c] = Executed(@, rows, s)]
                /\ UNCHANGED rows

\* baseClient.$transaction([set_config, query(args)])
BatchBegin(k, c) ==
  /\ op[k].mode = "batch" /\ op[k].phase = "begin"
  /\ Free(c)
  /\ db' = [db EXCEPT ![c] = Begun(@, "batch", k, op[k].scope)]
  /\ op' = [op EXCEPT ![k].phase = "config", ![k].conn = c]
  /\ UNCHANGED <<frames, rows, answer>>

\* the batch and the transparent interactive mode both set the tenant first
SetScope(k) ==
  /\ op[k].mode \in {"batch", "itx"} /\ op[k].phase = "config"
  /\ db' = [db EXCEPT ![op[k].conn] = SetTenant(@, op[k].scope)]
  /\ op' = [op EXCEPT ![k].phase = "query"]
  /\ UNCHANGED <<frames, rows, answer>>

ScopedQuery(k) ==
  LET c == op[k].conn
      s == op[k].stmt
  IN
  /\ op[k].mode \in {"batch", "itx"} /\ op[k].phase = "query"
  /\ ~ Refused(db[c], rows, s)
  /\ Unlocked(c, s)
  /\ db' = [db EXCEPT ![c] = Executed(@, rows, s)]
  /\ answer' = [answer EXCEPT ![k] =
                  [scope |-> op[k].scope,
                   owners |-> ReturnedOwners(db[c], rows, s)]]
  /\ op' = [op EXCEPT ![k] =
              IF op[k].mode = "itx" THEN Idle ELSE [@ EXCEPT !.phase = "commit"]]
  /\ UNCHANGED <<frames, rows>>

BatchCommit(k) ==
  LET c == op[k].conn IN
  /\ op[k].mode = "batch" /\ op[k].phase = "commit"
  /\ rows' = View(db[c], rows)
  /\ db' = [db EXCEPT ![c] = Released(@)]
  /\ op' = [op EXCEPT ![k] = Idle]
  /\ UNCHANGED <<frames, answer>>

-------------------------------------------------------------------------------
(***************************************************************************)
(* Interactive transactions: the extended client's $transaction(fn), which *)
(* the extension does not see begin, and tenancyTransaction(), which reads *)
(* the tenant before it begins and sets it before the callback runs.       *)
(***************************************************************************)
ItxBegin(k, c) ==
  /\ "itx" \in TxKinds
  /\ CanMove(k) /\ OpenItx(k) = {} /\ Free(c)
  /\ db' = [db EXCEPT ![c] = Begun(@, "itx", k, NoTenant)]
  /\ UNCHANGED <<frames, op, rows, answer>>

TenancyTransaction(k) ==
  /\ "tenancy" \in TxKinds
  /\ CanMove(k)
  /\ TenantOf(k) # NoTenant    \* getCurrentTenantOrThrow
  /\ Call(k, [Idle EXCEPT !.mode = "tenancy", !.phase = "begin",
                          !.scope = TenantOf(k)])

TenancyTxBegin(k, c) ==
  /\ op[k].mode = "tenancy" /\ op[k].phase = "begin"
  /\ Free(c)
  /\ db' = [db EXCEPT ![c] = Begun(@, "tenancy", k, op[k].scope)]
  /\ op' = [op EXCEPT ![k].phase = "config", ![k].conn = c]
  /\ UNCHANGED <<frames, rows, answer>>

\* Seeded fault: the callback starts before the tenant is set.
TenancyTxNoConfig(k) ==
  /\ op[k].mode = "tenancy" /\ op[k].phase = "config"
  /\ op' = [op EXCEPT ![k] = Idle]
  /\ UNCHANGED <<frames, db, rows, answer>>

TenancyTxConfig(k) ==
  /\ op[k].mode = "tenancy" /\ op[k].phase = "config"
  /\ db' = [db EXCEPT ![op[k].conn] = SetTenant(@, op[k].scope)]
  /\ op' = [op EXCEPT ![k] = Idle]
  /\ UNCHANGED <<frames, rows, answer>>

\* the callback's tx client runs no hook of the extension
TenancyTxQuery(k, c, s) ==
  /\ CanMove(k)
  /\ db[c].tx = "tenancy" /\ db[c].owner = k
  /\ ~ Refused(db[c], rows, s)
  /\ Unlocked(c, s)
  /\ db' = [db EXCEPT ![c] = Executed(@, rows, s)]
  /\ answer' = [answer EXCEPT ![k] =
                  [scope |-> db[c].tenant,
                   owners |-> ReturnedOwners(db[c], rows, s)]]
  /\ UNCHANGED <<frames, op, rows>>

TxCommit(k, c) ==
  /\ CanMove(k)
  /\ db[c].tx \in {"itx", "tenancy"} /\ db[c].owner = k
  /\ rows' = View(db[c], rows)
  /\ db' = [db EXCEPT ![c] = Released(@)]
  /\ UNCHANGED <<frames, op, answer>>

-------------------------------------------------------------------------------
(***************************************************************************)
(* Failures.  A transaction rolls back when a statement of it is refused,  *)
(* when its callback throws, when it runs out of time or when its          *)
(* connection breaks: whoever waits on that connection is rejected.        *)
(***************************************************************************)
Rollback(c) ==
  /\ ~ Free(c)
  /\ db' = [db EXCEPT ![c] = Released(@)]
  /\ op' = [k \in Tasks |->
              IF op[k].conn = c THEN Idle ELSE op[k]]
  /\ answer' = [k \in Tasks |->
              IF op[k].conn = c THEN NoAnswer ELSE answer[k]]
  /\ UNCHANGED <<frames, rows>>

\* no connection in time: maxWait, or the pool's own timeout
GiveUp(k) ==
  /\ \/ op[k].phase = "begin"
     \/ op[k].mode = "direct"
  /\ op' = [op EXCEPT ![k] = Idle]
  /\ UNCHANGED <<frames, db, rows, answer>>

-------------------------------------------------------------------------------
ContextStep(k) == EnterTenant(k) \/ WithoutTenant(k) \/ Leave(k)

OperationStep(k) ==
  \/ SetScope(k) \/ ScopedQuery(k) \/ BatchCommit(k) \/ GiveUp(k)
  \/ \E c \in Conns : DirectQuery(k, c) \/ BatchBegin(k, c)

TransactionStep(k) ==
  \/ TenancyTransaction(k) \/ TenancyTxConfig(k)
  \/ \E c \in Conns : ItxBegin(k, c) \/ TenancyTxBegin(k, c) \/ TxCommit(k, c)
  \/ \E c \in Conns, s \in Statements : TenancyTxQuery(k, c, s)

Next ==
  \/ \E k \in Tasks : ContextStep(k) \/ AllOperations(k) \/ OperationStep(k)
                        \/ TransactionStep(k)
  \/ \E c \in Conns : Rollback(c)

Spec == Init /\ [][Next]_vars

-------------------------------------------------------------------------------
(***************************************************************************)
(* Properties.                                                             *)
(***************************************************************************)

\* Every variable has its type.
TypeOK ==
  /\ frames \in [Tasks -> Stack]
  /\ op \in [Tasks -> Op]
  /\ db \in [Conns -> Connection]
  /\ rows \in Table
  /\ answer \in [Tasks -> Answer]

\* A connection that goes back to the pool carries neither the tenant nor the
\* uncommitted rows of whoever used it: the is_local argument of set_config()
\* in the extension and in tenancyTransaction().
NoResidualTenant ==
  \A c \in Conns :
    /\ db[c].session \notin Tenants
    /\ Free(c) => /\ db[c].setting = db[c].session
                  /\ db[c].pend = NoWrites
                  /\ db[c].owner = NoTask

\* From set_config() to the end of its transaction, no step of another task
\* changes the setting under an operation: batches of concurrent tenants do
\* not mix, and a tenancyTransaction callback runs under the tenant it was
\* opened for, whatever context the callback enters.
ScopeHeld ==
  /\ \A k \in Tasks :
       op[k].mode \in {"batch", "itx"} /\ op[k].phase \in {"query", "commit"} =>
         /\ db[op[k].conn].owner = k
         /\ db[op[k].conn].setting = op[k].scope
  /\ \A c \in Conns :
       db[c].tx = "tenancy" /\ db[c].setting # db[c].tenant =>
         \E k \in Tasks : op[k].conn = c /\ op[k].phase = "config"

\* failClosed: a statement on a tenant-scoped model reaches the database
\* without a tenant only in a context that withoutTenant() opened.
FailsClosed ==
  \A k \in Tasks :
    op[k].mode = "direct" /\ op[k].stmt # SharedRead =>
      \/ ~ FailClosed
      \/ IsBypassed(frames[k]) /\ TenantOf(k) = NoTenant

\* With autoInjectTenantId, and no policy to stop it, a scoped create or upsert
\* still leaves every row it inserts with the tenant of its context and every
\* row it finds with the tenant the row had.  (The extension does not touch
\* update; the run leaves it out.)
InjectedWritesStayOwn ==
  \A c \in Conns : db[c].tx = "batch" =>
    \A i \in Ids : db[c].pend[i] # NoTenant =>
      db[c].pend[i] = IF rows[i] = NoTenant THEN db[c].tenant ELSE rows[i]

\* The store of each tenant, and the answers given: the refinement of the
\* abstract promise under row-level security.
Isolation == INSTANCE TenantIsolation WITH
               store <- [t \in Tenants |-> {i \in Ids : rows[i] = t}]

TenantsIsolated == Isolation!Spec

\* The two promises as state predicates: an answer holds rows of the tenant it
\* was asked for, and of none when it was asked for none; a row written in an
\* open transaction is new or already belonged to the tenant that wrote it, and
\* nobody else is writing it.
AnswersIsolated == \A k \in Tasks : answer[k].owners \subseteq {answer[k].scope}

PendingOwned ==
  \A c \in Conns, i \in Ids : db[c].pend[i] # NoTenant =>
    /\ rows[i] \in {NoTenant, db[c].pend[i]}
    /\ \A d \in Conns \ {c} : db[d].pend[i] = NoTenant

\* An operation holds the connection it says it holds, and a connection that is
\* not free is held by a task.
Attached(k, o) ==
  /\ o.mode = "none" => o = Idle
  /\ o.mode = "direct" =>
       /\ o.phase = "query" /\ o.scope = NoTenant
       /\ o.stmt # SharedRead => TenantOf(k) = NoTenant
       /\ o.conn # NoConn => db[o.conn].tx = "itx" /\ db[o.conn].owner = k
  /\ o.mode = "itx" =>
       /\ o.phase \in {"config", "query"} /\ o.scope = TenantOf(k)
       /\ o.scope \in Tenants /\ o.stmt # SharedRead
       /\ o.conn \in Conns /\ db[o.conn].tx = "itx" /\ db[o.conn].owner = k
  /\ o.mode = "batch" =>
       /\ o.phase \in {"begin", "config", "query", "commit"}
       /\ o.scope \in Tenants /\ o.stmt # SharedRead
  /\ o.mode = "tenancy" => o.phase \in {"begin", "config"} /\ o.scope \in Tenants
  /\ o.mode \in {"batch", "tenancy"} =>
       IF o.phase = "begin" THEN o.conn = NoConn
       ELSE /\ o.conn \in Conns /\ db[o.conn].tx = o.mode
            /\ db[o.conn].owner = k /\ db[o.conn].tenant = o.scope

OperationsAttached ==
  /\ \A k \in Tasks : Attached(k, op[k])
  /\ \A c \in Conns : Free(c) \/ db[c].owner \in Tasks

\* An interactive transaction that is used under one context carries the
\* tenant of that context, or none yet.
ItxScoped ==
  \A c \in Conns : db[c].tx = "itx" /\ db[c].setting \in Tenants =>
    TenantOf(db[c].owner) = db[c].setting

\* The inductive invariant of the isolation proof.
IInv ==
  /\ TypeOK /\ OperationsAttached /\ NoResidualTenant /\ ScopeHeld
  /\ ItxScoped /\ PendingOwned /\ AnswersIsolated

\* withoutTenant(): an operation that runs for no tenant is given no row of
\* the tenant-scoped table.
UnscopedSeesNothing ==
  \A k \in Tasks : answer[k].scope = NoTenant => answer[k].owners = {}

(***************************************************************************)
(* Scheduling.  Prisma and PostgreSQL run what they accepted, the pool     *)
(* serves its waiters in turn, a refused statement rolls its transaction   *)
(* back and an interactive transaction is ended by its timeout at the      *)
(* latest.  The application is under no obligation, and no timeout ends a  *)
(* wait for a connection.                                                  *)
(***************************************************************************)
\* Seeded fault: the timeout waits for what the callback awaits.
TimeoutIfIdle(c) ==
  db[c].tx \in {"itx", "tenancy"} /\ CanMove(db[c].owner) /\ Rollback(c)

TxTimeout(c) == db[c].tx \in {"itx", "tenancy"} /\ Rollback(c)

RefusedRollback(k) ==
  /\ op[k].phase = "query" /\ op[k].mode \in {"batch", "itx"}
  /\ Refused(db[op[k].conn], rows, op[k].stmt)
  /\ Rollback(op[k].conn)

Fairness ==
  /\ \A k \in Tasks :
       /\ WF_vars(SetScope(k)) /\ WF_vars(BatchCommit(k))
       /\ WF_vars(TenancyTxConfig(k)) /\ WF_vars(RefusedRollback(k))
       /\ SF_vars(ScopedQuery(k))
       /\ SF_vars(\E c \in Conns : BatchBegin(k, c))
       /\ SF_vars(\E c \in Conns : TenancyTxBegin(k, c))
       /\ SF_vars(\E c \in Conns : DirectQuery(k, c))
  /\ \A c \in Conns : WF_vars(TxTimeout(c))

FairSpec == Spec /\ Fairness

\* Every operation is answered or rejected, even when every connection is held
\* by an interactive transaction whose callback waits for another connection.
CallsSettle == \A k \in Tasks : op[k].phase # "idle" ~> op[k].phase = "idle"
===============================================================================
