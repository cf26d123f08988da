-------------------------- MODULE PrismaTenancyProofs --------------------------
(***************************************************************************)
(* Theorems about PrismaTenancy, for every set of tenants, tasks,          *)
(* connections and rows.                                                   *)
(***************************************************************************)
EXTENDS PrismaTenancy, TLAPS

-------------------------------------------------------------------------------
(***************************************************************************)
(* Connections.                                                            *)
(***************************************************************************)
\* The operators on connections yield connections.
LEMMA ConnectionTypes ==
  ASSUME NEW c \in Connection, NEW kind \in {"batch", "itx", "tenancy"},
         NEW k \in Tasks, NEW t \in TenantOrNull
  PROVE  /\ Begun(c, kind, k, t) \in Connection
         /\ \A u \in Tenants : SetTenant(c, u) \in Connection
         /\ Released(c) \in Connection
         /\ NewConnection \in Connection
BY DatabaseConstants
   DEF Begun, SetTenant, SetConfig, Released, NewConnection, Connection,
       TenantOrNull, Table, NoWrites

\* Whatever the policies are, a statement writes at most the row it names, and
\* returns rows that somebody owns.
LEMMA StatementTypes ==
  ASSUME NEW c \in Connection, NEW r \in Table, NEW s \in Statement
  PROVE  /\ View(c, r) \in Table
         /\ s.id \in Ids /\ s.kind \in Kinds
         /\ Written(c, r, s) \in TenantOrNull
         /\ ReturnedOwners(c, r, s) \subseteq Tenants
  <1>1. View(c, r) \in Table
    BY DEF View, Table, Connection
  <1>2. s.id \in Ids /\ s.create \in TenantOrNull /\ s.update \in TenantOrNull
        /\ s.kind \in Kinds
    BY DEF Statement
  <1>3. Written(c, r, s) \in TenantOrNull
    BY <1>1, <1>2 DEF Written, Updated, Table, TenantOrNull
  <1>4. \A i \in Visible(c, r) : View(c, r)[i] \in Tenants
    BY DEF Visible
  <1>5. ReturnedOwners(c, r, s) \subseteq Tenants
    BY <1>4 DEF ReturnedOwners
  <1>6. QED
    BY <1>1, <1>2, <1>3, <1>5

\* Under row-level security a statement that is not refused returns rows of the
\* tenant in the setting only, and writes at most a row of that tenant, which
\* did not belong to another before.
LEMMA StatementUnderRls ==
  ASSUME RlsEnforced,
         NEW c \in Connection, NEW r \in Table, NEW s \in Statement,
         ~ Refused(c, r, s)
  PROVE  /\ ReturnedOwners(c, r, s) \subseteq {c.setting}
         /\ ReturnedOwners(c, r, s) \subseteq Tenants
         /\ Written(c, r, s) \in TenantOrNull
         /\ Written(c, r, s) # NoTenant =>
              /\ Written(c, r, s) = c.setting
              /\ View(c, r)[s.id] \in {NoTenant, c.setting}
  <1>2. View(c, r) \in Table /\ s.id \in Ids /\ s.kind \in Kinds
    BY StatementTypes
  <1>3. \A i \in Visible(c, r) : i \in Ids /\ View(c, r)[i] = c.setting
                                  /\ View(c, r)[i] \in Tenants
    BY DEF Visible, Admitted
  <1>4. Written(c, r, s) \in TenantOrNull
    BY StatementTypes
  <1>5. Written(c, r, s) # NoTenant => Written(c, r, s) = c.setting
    BY <1>4 DEF Refused, Admitted, TenantOrNull
  <1>6. ASSUME Written(c, r, s) # NoTenant
        PROVE  View(c, r)[s.id] \in {NoTenant, c.setting}
    <2>1. CASE s.id \in Visible(c, r)
      BY <2>1, <1>3
    <2>2. CASE s.id \notin Visible(c, r)
      <3>1. Inserts(c, r, s)
        BY <2>2, <1>6, <1>2 DEF Written, Inserts, Kinds
      <3>2. QED
        BY <3>1 DEF Refused
    <2>3. QED
      BY <2>1, <2>2
  <1>7. ReturnedOwners(c, r, s) \subseteq {c.setting}
        /\ ReturnedOwners(c, r, s) \subseteq Tenants
    BY <1>3, <1>5, NoTenantIsNoId DEF ReturnedOwners
  <1>8. QED
    BY <1>4, <1>5, <1>6, <1>7

\* Executing a statement changes only the pending row that it writes.
LEMMA ExecutedEffect ==
  ASSUME NEW c \in Connection, NEW r \in Table, NEW s \in Statement
  PROVE  LET e == Executed(c, r, s) IN
         /\ e \in Connection
         /\ e.tx = c.tx /\ e.owner = c.owner /\ e.tenant = c.tenant
         /\ e.setting = c.setting /\ e.session = c.session
         /\ \A i \in Ids : e.pend[i] # c.pend[i] =>
              i = s.id /\ e.pend[i] = Written(c, r, s) /\ e.pend[i] # NoTenant
         /\ Written(c, r, s) = NoTenant => e = c
  <1>1. Written(c, r, s) \in TenantOrNull /\ s.id \in Ids
    BY StatementTypes
  <1>2. CASE Written(c, r, s) = NoTenant
    BY <1>2 DEF Executed
  <1>3. CASE Written(c, r, s) # NoTenant
    <2>1. Executed(c, r, s) = [c EXCEPT !.pend[s.id] = Written(c, r, s)]
      BY <1>3 DEF Executed
    <2>2. QED
      BY <2>1, <1>1, <1>3 DEF Connection, Table
  <1>4. QED
    BY <1>2, <1>3

-------------------------------------------------------------------------------
(***************************************************************************)
(* Connections and operations.  Nothing here depends on the policies, or   *)
(* on the context in which an interactive transaction is used.             *)
(***************************************************************************)
\* Row locks: two open transactions have not written the same row.
OneWriter ==
  \A c \in Conns, i \in Ids : db[c].pend[i] # NoTenant =>
    \A d \in Conns \ {c} : db[d].pend[i] = NoTenant

Base ==
  /\ TypeOK /\ OperationsAttached /\ NoResidualTenant /\ ScopeHeld /\ OneWriter

\* The rest of the invariant is about rows and answers.
Owned == ItxScoped /\ PendingOwned /\ AnswersIsolated

\* The two parts make up the invariant.
LEMMA InvariantParts == IInv <=> Base /\ Owned
BY DEF IInv, Base, Owned, PendingOwned, OneWriter

\* It holds initially.
LEMMA InitBase == Init => Base
  <1> SUFFICES ASSUME Init PROVE Base
    OBVIOUS
  <1>1. NewConnection \in Connection /\ Idle \in Op /\ NoAnswer \in Answer
    BY DEF NewConnection, Connection, NoWrites, Table, TenantOrNull, Idle, Op,
           NoAnswer, Answer
  <1>2. TypeOK
    BY <1>1, PrismaConstants DEF Init, TypeOK
  <1>3. \A k \in Tasks : op[k] = Idle /\ answer[k] = NoAnswer
    BY DEF Init
  <1>4. \A c \in Conns : db[c] = NewConnection
    BY DEF Init
  <1>5. OperationsAttached
    BY <1>3, <1>4 DEF OperationsAttached, Attached, Idle, NewConnection, Free
  <1>6. NoResidualTenant
    BY <1>4, DatabaseConstants DEF NoResidualTenant, NewConnection, Free
  <1>7. ScopeHeld
    BY <1>3, <1>4, DatabaseConstants DEF ScopeHeld, Idle, NewConnection
  <1>8. OneWriter
    BY <1>4 DEF OneWriter, NewConnection, NoWrites
  <1>9. QED
    BY <1>2, <1>5, <1>6, <1>7, <1>8 DEF Base

\* A task that awaits nothing has the idle operation.
LEMMA IdleOp ==
  ASSUME Base, NEW k \in Tasks, op[k].phase = "idle"
  PROVE  op[k] = Idle
  <1>1. Attached(k, op[k]) /\ op[k] \in Op
    BY DEF Base, OperationsAttached, TypeOK
  <1>2. op[k].mode = "none"
    BY <1>1 DEF Attached, Op
  <1>3. QED
    BY <1>1, <1>2 DEF Attached

\* The context of a task changes only while it awaits nothing.
LEMMA ContextBase ==
  ASSUME Base, NEW k \in Tasks, ContextStep(k)
  PROVE  /\ Base' /\ UNCHANGED <<op, db, rows, answer>>
         /\ \A j \in Tasks : j # k => TenantOf(j)' = TenantOf(j)
  <1>1. /\ op[k].phase = "idle"
        /\ UNCHANGED <<op, db, rows, answer>>
    BY DEF ContextStep, EnterTenant, WithoutTenant, Enter, Leave, CanMove
  <1>2. \E stack \in Stack : frames' = [frames EXCEPT ![k] = stack]
    <2>1. frames[k] \in Stack
      BY DEF Base, TypeOK
    <2>2. \A t \in Tenants : TenantFrame(t) \in Frame
      BY DEF Frame
    <2>3. BypassFrame \in Frame
      BY DEF Frame
    <2>4. CASE EnterTenant(k)
      <3>1. PICK t \in Tenants : Enter(k, Run(frames[k], t))
        BY <2>4 DEF EnterTenant
      <3>2. Run(frames[k], t) \in Stack
        BY <2>1, <2>2 DEF Run, Stack
      <3>3. QED
        BY <3>1, <3>2 DEF Enter
    <2>5. CASE WithoutTenant(k)
      <3>1. RunWithoutTenant(frames[k]) \in Stack
        BY <2>1, <2>3 DEF RunWithoutTenant, Stack
      <3>2. QED
        BY <2>5, <3>1 DEF WithoutTenant, Enter
    <2>6. CASE Leave(k)
      <3>1. frames[k] # <<>>
        BY <2>6 DEF Leave
      <3>2. Exit(frames[k]) \in Stack
        BY <2>1, <3>1 DEF Exit, Stack
      <3>3. QED
        BY <2>6, <3>2 DEF Leave
    <2>7. QED
      BY <2>4, <2>5, <2>6 DEF ContextStep
  <1>3. TypeOK'
    BY <1>1, <1>2 DEF Base, TypeOK
  <1>4. \A j \in Tasks : j # k => TenantOf(j)' = TenantOf(j)
    BY <1>2 DEF TenantOf, Base, TypeOK
  <1>5. op[k] = Idle
    BY <1>1, IdleOp
  <1>6. OperationsAttached'
    <2>1. \A j \in Tasks : Attached(j, op[j])'
      <3> SUFFICES ASSUME NEW j \in Tasks PROVE Attached(j, op[j])'
        OBVIOUS
      <3>1. CASE j = k
        BY <1>1, <1>5, <3>1 DEF Attached, Idle
      <3>2. CASE j # k
        BY <1>1, <1>4, <3>2 DEF Base, OperationsAttached, Attached
      <3>3. QED
        BY <3>1, <3>2
    <2>2. QED
      BY <2>1, <1>1 DEF Base, OperationsAttached, Free
  <1>7. NoResidualTenant' /\ OneWriter'
    BY <1>1 DEF Base, NoResidualTenant, OneWriter, Free
  <1>8. ScopeHeld'
    BY <1>1 DEF Base, ScopeHeld
  <1>9. QED
    BY <1>1, <1>3, <1>4, <1>6, <1>7, <1>8 DEF Base

\* What getTenantId() returns.
LEMMA TenantOfType ==
  ASSUME TypeOK, NEW k \in Tasks
  PROVE  TenantOf(k) \in TenantOrNull
  <1>1. frames[k] \in Seq(Frame)
    BY DEF TypeOK, Stack
  <1>2. \A f \in Frame : f.tenantId \in TenantOrNull
    BY DEF Frame, EmptyFrame, BypassFrame, TenantFrame, TenantOrNull
  <1>3. CASE frames[k] = <<>>
    BY <1>3 DEF TenantOf, CurrentTenantId, TenantOrNull
  <1>4. CASE frames[k] # <<>>
    <2>1. frames[k][Len(frames[k])] \in Frame
      BY <1>1, <1>4
    <2>2. QED
      BY <2>1, <1>2, <1>4 DEF TenantOf, CurrentTenantId
  <1>5. QED
    BY <1>3, <1>4

\* An operation that was just called: attached, and not past set_config().
Callable(k, o) ==
  /\ o \in Op /\ Attached(k, o)
  /\ o.phase \in {"idle", "begin", "config"} \/ o.mode = "direct"

\* Whatever the context, $allOperations and tenancyTransaction start such an
\* operation.
LEMMA CallsAreCallable ==
  ASSUME Base, NEW k \in Tasks, AllOperations(k) \/ TenancyTransaction(k)
  PROVE  \E o \in Op : Callable(k, o) /\ Call(k, o)
  <1>1. TenantOf(k) \in TenantOrNull
    BY TenantOfType DEF Base
  <1>2. Idle \in Op
    BY DEF Idle, Op, TenantOrNull
  <1>3. ASSUME NEW via \in {NoConn} \cup OpenItx(k), CallShared(k, via)
        PROVE  \E o \in Op : Callable(k, o) /\ Call(k, o)
    <2> DEFINE o == [Idle EXCEPT !.mode = "direct", !.phase = "query", !.conn = via]
    <2>1. o \in Op /\ Attached(k, o) /\ o.mode = "direct"
      BY DEF Op, Idle, OpenItx, TenantOrNull, Attached
    <2>2. QED
      BY <1>3, <2>1 DEF CallShared, Callable
  <1>4. ASSUME NEW via \in {NoConn} \cup OpenItx(k), NEW s \in Statements,
               CallUnscoped(k, via, s)
        PROVE  \E o \in Op : Callable(k, o) /\ Call(k, o)
    <2> DEFINE o == [Idle EXCEPT !.mode = "direct", !.phase = "query",
                                 !.stmt = s, !.conn = via]
    <2>1. o \in Op /\ Attached(k, o) /\ o.mode = "direct"
      BY <1>4, PrismaConstants
         DEF CallUnscoped, Op, Idle, OpenItx, TenantOrNull, Attached
    <2>2. Attached(k, Idle) /\ Idle.phase = "idle"
      BY DEF Attached, Idle
    <2>3. QED
      BY <1>2, <1>4, <2>1, <2>2 DEF CallUnscoped, Callable
  <1>5. ASSUME NEW via \in {NoConn} \cup OpenItx(k), NEW s \in Statements,
               CallScoped(k, via, s)
        PROVE  \E o \in Op : Callable(k, o) /\ Call(k, o)
    <2> DEFINE t == TenantOf(k)
               m == ScopedMode(via)
               o == [mode  |-> m, phase |-> IF m = "itx" THEN "config" ELSE "begin",
                     scope |-> t, stmt |-> Inject(s, t),
                     conn  |-> IF m = "itx" THEN via ELSE NoConn]
    <2>1. t \in Tenants
      BY <1>1, <1>5 DEF CallScoped, TenantOrNull
    <2>2. Inject(s, t) \in Statement
      <3>1. s \in Statement /\ t \in TenantOrNull /\ NoTenant \in TenantOrNull
        BY <2>1, PrismaConstants DEF TenantOrNull
      <3>2. \A x \in TenantOrNull : [s EXCEPT !.create = x] \in Statement
        BY <3>1 DEF Statement
      <3>3. StripTenantField(s) \in Statement
        BY <3>1 DEF StripTenantField, Statement
      <3>4. [StripTenantField(s) EXCEPT !.create = t] \in Statement
        BY <3>1, <3>3 DEF Statement
      <3>5. QED
        BY <3>1, <3>2, <3>4 DEF Inject
    <2>3. m = "itx" => via \in OpenItx(k)
      BY DEF ScopedMode
    <2>4. m \in {"itx", "batch"}
      BY DEF ScopedMode
    <2>5. o \in Op
      BY <2>1, <2>2, <2>3, <2>4 DEF Op, OpenItx, TenantOrNull
    <2>6. Attached(k, o)
      BY <2>1, <2>2, <2>3, <2>4, PrismaConstants DEF Attached, OpenItx
    <2>7. QED
      BY <1>5, <2>4, <2>5, <2>6 DEF CallScoped, Callable
  <1>6. ASSUME TenancyTransaction(k)
        PROVE  \E o \in Op : Callable(k, o) /\ Call(k, o)
    <2> DEFINE o == [Idle EXCEPT !.mode = "tenancy", !.phase = "begin",
                                 !.scope = TenantOf(k)]
    <2>1. TenantOf(k) \in Tenants
      BY <1>1, <1>6 DEF TenancyTransaction, TenantOrNull
    <2>2. o \in Op /\ Attached(k, o) /\ o.phase = "begin"
      BY <2>1 DEF Op, Idle, TenantOrNull, Attached
    <2>3. QED
      BY <1>6, <2>2 DEF TenancyTransaction, Callable
  <1>7. QED
    BY <1>3, <1>4, <1>5, <1>6 DEF AllOperations

\* A call reads the context and touches no connection.
LEMMA CallBase ==
  ASSUME Base, NEW k \in Tasks, AllOperations(k) \/ TenancyTransaction(k)
  PROVE  /\ Base' /\ UNCHANGED <<frames, db, rows>>
         /\ answer' = [answer EXCEPT ![k] = NoAnswer]
  <1>1. PICK o \in Op : Callable(k, o) /\ Call(k, o)
    BY CallsAreCallable
  <1>2. /\ op' = [op EXCEPT ![k] = o]
        /\ answer' = [answer EXCEPT ![k] = NoAnswer]
        /\ UNCHANGED <<frames, db, rows>>
    BY <1>1 DEF Call
  <1>3. op[k] = Idle
    BY IdleOp DEF AllOperations, TenancyTransaction, CanMove
  <1>4. TypeOK'
    BY <1>2 DEF Base, TypeOK, NoAnswer, Answer, TenantOrNull
  <1>5. OperationsAttached'
    <2>1. \A j \in Tasks : Attached(j, op'[j])
      BY <1>1, <1>2 DEF Base, TypeOK, OperationsAttached, Callable
    <2>2. QED
      BY <2>1, <1>2 DEF Base, OperationsAttached, Attached, TenantOf, Free
  <1>6. ScopeHeld'
    BY <1>1, <1>2, <1>3 DEF Base, TypeOK, ScopeHeld, Callable, Attached, Idle
  <1>7. NoResidualTenant' /\ OneWriter'
    BY <1>2 DEF Base, NoResidualTenant, OneWriter, Free
  <1>8. QED
    BY <1>2, <1>4, <1>5, <1>6, <1>7 DEF Base

\* The task that waits on a connection is the one that holds it.
LEMMA Holder ==
  ASSUME Base, NEW j \in Tasks, op[j].conn # NoConn
  PROVE  /\ op[j].conn \in Conns
         /\ db[op[j].conn].owner = j
         /\ ~ Free(op[j].conn)
         /\ op[j].mode \in {"direct", "batch", "itx", "tenancy"}
  <1>1. op[j] \in Op /\ Attached(j, op[j])
    BY DEF Base, TypeOK, OperationsAttached
  <1>2. op[j].mode # "none"
    BY <1>1 DEF Attached, Idle
  <1>3. op[j].conn \in Conns
    BY <1>1 DEF Op
  <1>4. QED
    BY <1>1, <1>2, <1>3 DEF Attached, Op, Free

\* A task that gives up waiting for a connection holds none, or only its own
\* interactive transaction.
LEMMA GiveUpBase ==
  ASSUME Base, NEW k \in Tasks, GiveUp(k)
  PROVE  Base'
  <1>1. /\ op' = [op EXCEPT ![k] = Idle] /\ UNCHANGED <<frames, db, rows, answer>>
        /\ op[k].phase = "begin" \/ op[k].mode = "direct"
    BY DEF GiveUp
  <1>2. TypeOK'
    <2>1. Idle \in Op
      BY DEF Idle, Op, TenantOrNull
    <2>2. QED
      BY <1>1, <2>1 DEF Base, TypeOK
  <1>3. op[k].phase # "config"
    BY <1>1 DEF Base, OperationsAttached, Attached
  <1>4. OperationsAttached'
    <2>1. Attached(k, Idle)
      BY DEF Attached, Idle
    <2>2. \A j \in Tasks : Attached(j, op'[j])
      BY <1>1, <2>1 DEF Base, TypeOK, OperationsAttached
    <2>3. QED
      BY <2>2, <1>1 DEF Base, OperationsAttached, Attached, TenantOf, Free
  <1>5. ScopeHeld'
    BY <1>1, <1>3 DEF Base, TypeOK, ScopeHeld, Idle
  <1>6. NoResidualTenant' /\ OneWriter'
    BY <1>1 DEF Base, NoResidualTenant, OneWriter, Free
  <1>7. QED
    BY <1>2, <1>4, <1>5, <1>6 DEF Base

\* A transaction begins on a connection that nobody holds and that carries no
\* tenant.
LEMMA BeginBase ==
  ASSUME Base, NEW k \in Tasks, NEW c \in Conns,
         BatchBegin(k, c) \/ TenancyTxBegin(k, c) \/ ItxBegin(k, c)
  PROVE  /\ Base' /\ UNCHANGED <<frames, rows, answer>>
         /\ \A d \in Conns : db'[d].pend = db[d].pend
         /\ db'[c].setting \notin Tenants
         /\ \A d \in Conns \ {c} : db'[d] = db[d]
  <1>1. Free(c) /\ UNCHANGED <<frames, rows, answer>>
    BY DEF BatchBegin, TenancyTxBegin, ItxBegin
  <1>2. PICK kind \in {"batch", "itx", "tenancy"}, t \in TenantOrNull :
          /\ db' = [db EXCEPT ![c] = Begun(@, kind, k, t)]
          /\ \/ /\ kind = "itx" /\ UNCHANGED op
             \/ /\ kind = op[k].mode /\ t = op[k].scope /\ op[k].phase = "begin"
                /\ kind \in {"batch", "tenancy"}
                /\ op' = [op EXCEPT ![k].phase = "config", ![k].conn = c]
    <2>1. op[k].scope \in TenantOrNull /\ NoTenant \in TenantOrNull
      BY DEF Base, TypeOK, Op, TenantOrNull
    <2>2. CASE ItxBegin(k, c)
      BY <2>1, <2>2 DEF ItxBegin
    <2>3. CASE BatchBegin(k, c)
      BY <2>1, <2>3 DEF BatchBegin
    <2>4. CASE TenancyTxBegin(k, c)
      BY <2>1, <2>4 DEF TenancyTxBegin
    <2>5. QED
      BY <2>2, <2>3, <2>4
  <1>3. db[c] \in Connection /\ Begun(db[c], kind, k, t) \in Connection
    BY ConnectionTypes DEF Base, TypeOK
  <1>4. /\ db'[c].tx = kind /\ db'[c].owner = k /\ db'[c].tenant = t
        /\ db'[c].setting = db[c].setting /\ db'[c].session = db[c].session
        /\ db'[c].pend = db[c].pend
        /\ \A d \in Conns \ {c} : db'[d] = db[d]
    BY <1>2, <1>3 DEF Base, TypeOK, Begun, Connection
  <1>5. \A j \in Tasks : op[j].conn # c
    BY <1>1, Holder, DatabaseConstants
  <1>6. \A j \in Tasks : /\ op'[j].mode = op[j].mode /\ op'[j].scope = op[j].scope
                         /\ op'[j].stmt = op[j].stmt
                         /\ j # k => op'[j] = op[j]
    BY <1>2 DEF Base, TypeOK, Op
  <1>7. TypeOK'
    <2>1. op' \in [Tasks -> Op]
      BY <1>2 DEF Base, TypeOK, Op
    <2>2. QED
      BY <2>1, <1>1, <1>2, <1>3 DEF Base, TypeOK
  <1>8. OperationsAttached'
    <2>1. ASSUME NEW j \in Tasks PROVE Attached(j, op[j])'
      <3>1. Attached(j, op[j]) /\ op[j] \in Op
        BY DEF Base, OperationsAttached, TypeOK
      <3>2. CASE op'[j] = op[j]
        <4>1. CASE op[j].conn = NoConn
          BY <3>1, <3>2, <4>1, <1>1, DatabaseConstants DEF Attached, TenantOf
        <4>2. CASE op[j].conn # NoConn
          <5>1. op[j].conn \in Conns \ {c}
            BY <4>2, <1>5, Holder
          <5>2. QED
            BY <3>1, <3>2, <4>2, <5>1, <1>1, <1>4 DEF Attached, TenantOf
        <4>3. QED
          BY <4>1, <4>2
      <3>3. CASE op'[j] # op[j]
        <4>1. /\ j = k /\ op'[j] = [op[j] EXCEPT !.phase = "config", !.conn = c]
              /\ op[j].mode = kind /\ op[j].scope = t /\ kind \in {"batch", "tenancy"}
          BY <3>3, <1>2, <1>6 DEF Base, TypeOK
        <4>2. op'[j].phase = "config" /\ op'[j].conn = c
          BY <4>1, <3>1 DEF Op
        <4>3. QED
          BY <3>1, <4>1, <4>2, <1>4, <1>6 DEF Attached
      <3>4. QED
        BY <3>2, <3>3
    <2>2. \A d \in Conns : db'[d].tx = "free" \/ db'[d].owner \in Tasks
      BY <1>4 DEF Base, OperationsAttached, Free
    <2>3. QED
      BY <2>1, <2>2 DEF OperationsAttached, Free
  <1>9. NoResidualTenant'
    BY <1>4 DEF Base, NoResidualTenant, Free
  <1>10. db[c].setting \notin Tenants
    BY <1>1 DEF Base, NoResidualTenant
  <1>11. ScopeHeld'
    <2>1. ASSUME NEW j \in Tasks, op'[j].mode \in {"batch", "itx"},
                 op'[j].phase \in {"query", "commit"}
          PROVE  db'[op'[j].conn].owner = j /\ db'[op'[j].conn].setting = op'[j].scope
      <3>1. op'[j] = op[j]
        BY <1>2, <2>1 DEF Base, TypeOK, Op
      <3>2. op[j].conn \in Conns \ {c}
        BY <2>1, <3>1, <1>5 DEF Base, OperationsAttached, Attached
      <3>3. QED
        BY <2>1, <3>1, <3>2, <1>4 DEF Base, ScopeHeld
    <2>2. ASSUME NEW d \in Conns, db'[d].tx = "tenancy", db'[d].setting # db'[d].tenant
          PROVE  \E j \in Tasks : op'[j].conn = d /\ op'[j].phase = "config"
      <3>1. CASE d = c
        BY <2>2, <3>1, <1>2, <1>4 DEF Base, TypeOK, Op
      <3>2. CASE d # c
        <4>1. PICK j \in Tasks : op[j].conn = d /\ op[j].phase = "config"
          BY <2>2, <3>2, <1>4 DEF Base, ScopeHeld
        <4>2. op'[j] = op[j]
          BY <4>1, <1>2 DEF Base, TypeOK
        <4>3. QED
          BY <4>1, <4>2
      <3>3. QED
        BY <3>1, <3>2
    <2>3. QED
      BY <2>1, <2>2 DEF ScopeHeld
  <1>12. OneWriter'
    BY <1>4 DEF Base, OneWriter
  <1>13. QED
    BY <1>1, <1>4, <1>7, <1>8, <1>9, <1>10, <1>11, <1>12 DEF Base

\* set_config() reaches only the connection of the operation that issued it.
LEMMA ConfigBase ==
  ASSUME Base, NEW k \in Tasks, SetScope(k) \/ TenancyTxConfig(k)
  PROVE  /\ Base' /\ UNCHANGED <<frames, rows, answer>>
         /\ \A d \in Conns : /\ db'[d].tx = db[d].tx /\ db'[d].owner = db[d].owner
                             /\ db'[d].tenant = db[d].tenant /\ db'[d].pend = db[d].pend
         /\ \A d \in Conns : db'[d].setting # db[d].setting =>
              /\ db[d].owner = k /\ db'[d].setting = op[k].scope
              /\ op[k].mode = db[d].tx
              /\ op[k].mode = "itx" => TenantOf(k) = op[k].scope
  <1> DEFINE c == op[k].conn
             t == op[k].scope
  <1>1. /\ op[k].mode \in {"batch", "itx", "tenancy"} /\ op[k].phase = "config"
        /\ db' = [db EXCEPT ![c] = SetTenant(@, t)]
        /\ op' = [op EXCEPT ![k] =
             IF op[k].mode = "tenancy" THEN Idle ELSE [op[k] EXCEPT !.phase = "query"]]
        /\ UNCHANGED <<frames, rows, answer>>
    <2>1. CASE SetScope(k)
      BY <2>1 DEF SetScope
    <2>2. CASE TenancyTxConfig(k)
      BY <2>2 DEF TenancyTxConfig
    <2>3. QED
      BY <2>1, <2>2
  <1>2. /\ c \in Conns /\ t \in Tenants
        /\ db[c].owner = k /\ db[c].tx = op[k].mode
        /\ op[k].mode # "itx" => db[c].tenant = t
        /\ op[k].mode = "itx" => TenantOf(k) = t
    BY <1>1 DEF Base, OperationsAttached, Attached
  <1>3. db[c] \in Connection /\ SetTenant(db[c], t) \in Connection
    <2>1. db[c] \in Connection
      BY <1>2 DEF Base, TypeOK
    <2>2. QED
      BY <1>2, <2>1, DatabaseConstants
         DEF SetTenant, SetConfig, Connection, TenantOrNull
  <1>4. /\ db'[c].tx = db[c].tx /\ db'[c].owner = k
        /\ db'[c].tenant = db[c].tenant /\ db'[c].pend = db[c].pend
        /\ db'[c].setting = t
        /\ db'[c].session \in {db[c].session, EmptySetting}
        /\ \A d \in Conns \ {c} : db'[d] = db[d]
    BY <1>1, <1>2, <1>3
       DEF Base, TypeOK, SetTenant, SetConfig, Connection
  <1>5. \A j \in Tasks : j # k => op'[j] = op[j] /\ op[j].conn # c
    <2>1. \A j \in Tasks : j # k => op'[j] = op[j]
      BY <1>1 DEF Base, TypeOK
    <2>2. \A j \in Tasks : j # k => op[j].conn # c
      BY <1>2, Holder, DatabaseConstants
    <2>3. QED
      BY <2>1, <2>2
  <1>6. op'[k] = IF op[k].mode = "tenancy" THEN Idle
                 ELSE [op[k] EXCEPT !.phase = "query"]
    BY <1>1 DEF Base, TypeOK
  <1>7. op[k].mode # "tenancy" =>
          /\ op'[k].mode = op[k].mode /\ op'[k].phase = "query"
          /\ op'[k].scope = t /\ op'[k].conn = c /\ op'[k].stmt = op[k].stmt
    BY <1>6 DEF Base, TypeOK, Op
  <1>8. TypeOK'
    <2>1. Idle \in Op
      BY DEF Idle, Op, TenantOrNull
    <2>2. op'[k] \in Op
      BY <2>1, <1>6 DEF Base, TypeOK, Op
    <2>3. op' \in [Tasks -> Op]
      BY <1>1, <2>2 DEF Base, TypeOK
    <2>4. QED
      BY <2>3, <1>1, <1>3 DEF Base, TypeOK
  <1>9. OperationsAttached'
    <2>1. ASSUME NEW j \in Tasks, j # k PROVE Attached(j, op[j])'
      <3>1. Attached(j, op[j]) /\ op[j] \in Op /\ op'[j] = op[j]
        BY <2>1, <1>5 DEF Base, OperationsAttached, TypeOK
      <3>2. op[j].conn # NoConn => op[j].conn \in Conns \ {c}
        BY <2>1, <1>5, Holder
      <3>3. QED
        BY <3>1, <3>2, <1>1, <1>4, DatabaseConstants DEF Attached, TenantOf
    <2>2. Attached(k, op[k])'
      <3>1. CASE op[k].mode = "tenancy"
        BY <3>1, <1>6 DEF Attached, Idle
      <3>2. CASE op[k].mode # "tenancy"
        <4>1. Attached(k, op[k])
          BY DEF Base, OperationsAttached
        <4>2. QED
          BY <4>1, <3>2, <1>1, <1>2, <1>4, <1>7 DEF Attached, TenantOf
      <3>3. QED
        BY <3>1, <3>2
    <2>3. \A d \in Conns : db'[d].tx = "free" \/ db'[d].owner \in Tasks
      BY <1>4 DEF Base, OperationsAttached, Free
    <2>4. QED
      BY <2>1, <2>2, <2>3 DEF OperationsAttached, Free
  <1>10. NoResidualTenant'
    BY <1>1, <1>2, <1>4, DatabaseConstants DEF Base, NoResidualTenant, Free
  <1>11. ScopeHeld'
    <2>1. ASSUME NEW j \in Tasks, op'[j].mode \in {"batch", "itx"},
                 op'[j].phase \in {"query", "commit"}
          PROVE  db'[op'[j].conn].owner = j /\ db'[op'[j].conn].setting = op'[j].scope
      <3>1. CASE j = k
        BY <2>1, <3>1, <1>4, <1>6, <1>7 DEF Idle
      <3>2. CASE j # k
        <4>1. op'[j] = op[j] /\ op[j].conn \in Conns \ {c}
          BY <2>1, <3>2, <1>5 DEF Base, OperationsAttached, Attached
        <4>2. QED
          BY <2>1, <4>1, <1>4 DEF Base, ScopeHeld
      <3>3. QED
        BY <3>1, <3>2
    <2>2. ASSUME NEW d \in Conns, db'[d].tx = "tenancy", db'[d].setting # db'[d].tenant
          PROVE  \E j \in Tasks : op'[j].conn = d /\ op'[j].phase = "config"
      <3>1. d # c
        BY <2>2, <1>1, <1>2, <1>4
      <3>2. PICK j \in Tasks : op[j].conn = d /\ op[j].phase = "config"
        BY <2>2, <3>1, <1>4 DEF Base, ScopeHeld
      <3>3. op'[j] = op[j]
        BY <3>1, <3>2, <1>5
      <3>4. QED
        BY <3>2, <3>3
    <2>3. QED
      BY <2>1, <2>2 DEF ScopeHeld
  <1>12. OneWriter'
    BY <1>4 DEF Base, OneWriter
  <1>13. QED
    BY <1>1, <1>2, <1>4, <1>8, <1>9, <1>10, <1>11, <1>12 DEF Base

\* A statement in an open transaction touches the pending rows of its own
\* connection, and only a row that no other transaction has written.
LEMMA StatementStep ==
  ASSUME Base, NEW c \in Conns, NEW s \in Statement, ~ Free(c), Unlocked(c, s),
         db' = [db EXCEPT ![c] = Executed(@, rows, s)], UNCHANGED rows
  PROVE  /\ db' \in [Conns -> Connection]
         /\ \A d \in Conns :
              /\ db'[d].tx = db[d].tx /\ db'[d].owner = db[d].owner
              /\ db'[d].tenant = db[d].tenant /\ db'[d].setting = db[d].setting
              /\ db'[d].session = db[d].session
         /\ \A d \in Conns, i \in Ids : db'[d].pend[i] # db[d].pend[i] =>
              /\ d = c /\ i = s.id
              /\ db'[d].pend[i] = Written(db[c], rows, s)
              /\ db'[d].pend[i] # NoTenant
         /\ NoResidualTenant' /\ OneWriter'
  <1> DEFINE e == Executed(db[c], rows, s)
  <1>1. db[c] \in Connection /\ rows \in Table
    BY DEF Base, TypeOK
  <1>2. /\ e \in Connection
        /\ e.tx = db[c].tx /\ e.owner = db[c].owner /\ e.tenant = db[c].tenant
        /\ e.setting = db[c].setting /\ e.session = db[c].session
        /\ \A i \in Ids : e.pend[i] # db[c].pend[i] =>
             i = s.id /\ e.pend[i] = Written(db[c], rows, s) /\ e.pend[i] # NoTenant
    BY <1>1, ExecutedEffect
  <1>3. db'[c] = e /\ \A d \in Conns \ {c} : db'[d] = db[d]
    BY DEF Base, TypeOK
  <1> HIDE DEF e
  <1>4. db' \in [Conns -> Connection]
    <2>1. \A d \in Conns : db'[d] \in Connection
      BY <1>2, <1>3 DEF Base, TypeOK
    <2>2. DOMAIN db' = Conns /\ db' = [d \in Conns |-> db'[d]]
      BY DEF Base, TypeOK
    <2>3. QED
      BY <2>1, <2>2
  <1>5. \A d \in Conns :
              /\ db'[d].tx = db[d].tx /\ db'[d].owner = db[d].owner
              /\ db'[d].tenant = db[d].tenant /\ db'[d].setting = db[d].setting
              /\ db'[d].session = db[d].session
    BY <1>2, <1>3
  <1>6. \A d \in Conns, i \in Ids : db'[d].pend[i] # db[d].pend[i] =>
              /\ d = c /\ i = s.id
              /\ db'[d].pend[i] = Written(db[c], rows, s)
              /\ db'[d].pend[i] # NoTenant
    BY <1>2, <1>3
  <1>7. NoResidualTenant'
    <2>1. \A d \in Conns : db'[d].tx = "free" => db'[d] = db[d]
      BY <1>3, <1>5 DEF Free
    <2>2. QED
      BY <1>5, <2>1 DEF Base, NoResidualTenant, Free
  <1>8. OneWriter'
    <2> SUFFICES ASSUME NEW d \in Conns, NEW i \in Ids, db'[d].pend[i] # NoTenant,
                        NEW x \in Conns \ {d}
                 PROVE  db'[x].pend[i] = NoTenant
      BY DEF OneWriter
    <2>1. CASE db'[d].pend[i] # db[d].pend[i]
      <3>1. d = c /\ i = s.id
        BY <2>1, <1>6
      <3>2. db[x].pend[i] = NoTenant /\ db'[x] = db[x]
        BY <3>1, <1>3 DEF Unlocked
      <3>3. QED
        BY <3>2
    <2>2. CASE db'[x].pend[i] # db[x].pend[i]
      <3>1. x = c /\ i = s.id /\ d # c
        BY <2>2, <1>6
      <3>2. db[d].pend[i] = NoTenant /\ db'[d] = db[d]
        BY <3>1, <1>3 DEF Unlocked
      <3>3. QED
        BY <3>2
    <2>3. CASE db'[d].pend[i] = db[d].pend[i] /\ db'[x].pend[i] = db[x].pend[i]
      BY <2>3 DEF Base, OneWriter
    <2>4. QED
      BY <2>1, <2>2, <2>3
  <1>9. QED
    BY <1>4, <1>5, <1>6, <1>7, <1>8

\* The pieces of the invariant that only read connections, operations and
\* contexts survive a step of task k that leaves the shape of the connections
\* and the operations of the others alone.
LEMMA SameShape ==
  ASSUME Base, NEW k \in Tasks, NEW o \in Op,
         op' = [op EXCEPT ![k] = o], UNCHANGED frames,
         \A d \in Conns :
              /\ db'[d].tx = db[d].tx /\ db'[d].owner = db[d].owner
              /\ db'[d].tenant = db[d].tenant /\ db'[d].setting = db[d].setting,
         op[k].phase # "config",
         o = op[k] \/ o = Idle \/ (/\ op[k].mode = "batch" /\ op[k].phase = "query"
                                   /\ o = [op[k] EXCEPT !.phase = "commit"])
  PROVE  op' \in [Tasks -> Op] /\ OperationsAttached' /\ ScopeHeld'
  <1>1. op' \in [Tasks -> Op]
    BY DEF Base, TypeOK
  <1>2. op'[k] = o /\ \A j \in Tasks : j # k => op'[j] = op[j]
    BY DEF Base, TypeOK
  <1>3. ASSUME NEW j \in Tasks PROVE Attached(j, op[j])'
    <2>1. Attached(j, op[j]) /\ op[j] \in Op
      BY DEF Base, TypeOK, OperationsAttached
    <2>2. op[j].conn # NoConn => op[j].conn \in Conns
      BY <2>1 DEF Op
    <2>3. CASE op'[j] = op[j]
      BY <2>1, <2>2, <2>3, DatabaseConstants DEF Attached, TenantOf
    <2>4. CASE op'[j] = Idle
      BY <2>4 DEF Attached, Idle
    <2>5. CASE /\ j = k /\ op[j].mode = "batch" /\ op[j].phase = "query"
               /\ op'[j] = [op[j] EXCEPT !.phase = "commit"]
      <3>1. /\ op'[j].mode = "batch" /\ op'[j].phase = "commit"
            /\ op'[j].scope = op[j].scope /\ op'[j].conn = op[j].conn
            /\ op'[j].stmt = op[j].stmt
        BY <2>1, <2>5 DEF Op
      <3>2. QED
        BY <2>1, <2>2, <2>5, <3>1 DEF Attached
    <2>6. QED
      BY <1>2, <2>3, <2>4, <2>5
  <1>4. OperationsAttached'
    BY <1>3 DEF Base, OperationsAttached, Free
  <1>5. ScopeHeld'
    <2>1. ASSUME NEW j \in Tasks, op'[j].mode \in {"batch", "itx"},
                 op'[j].phase \in {"query", "commit"}
          PROVE  db'[op'[j].conn].owner = j /\ db'[op'[j].conn].setting = op'[j].scope
      <3>1. /\ op[j].mode \in {"batch", "itx"} /\ op[j].phase \in {"query", "commit"}
            /\ op'[j].conn = op[j].conn /\ op'[j].scope = op[j].scope
        BY <2>1, <1>2 DEF Base, TypeOK, Op, Idle
      <3>2. op[j].conn \in Conns
        BY <3>1 DEF Base, OperationsAttached, Attached
      <3>3. QED
        BY <3>1, <3>2 DEF Base, ScopeHeld
    <2>2. ASSUME NEW d \in Conns, db'[d].tx = "tenancy", db'[d].setting # db'[d].tenant
          PROVE  \E j \in Tasks : op'[j].conn = d /\ op'[j].phase = "config"
      <3>1. PICK j \in Tasks : op[j].conn = d /\ op[j].phase = "config"
        BY <2>2 DEF Base, ScopeHeld
      <3>2. op'[j] = op[j]
        BY <3>1, <1>2
      <3>3. QED
        BY <3>1, <3>2
    <2>3. QED
      BY <2>1, <2>2 DEF ScopeHeld
  <1>6. QED
    BY <1>1, <1>4, <1>5

\* A scoped statement: nobody else waits on its connection.
LEMMA ScopedQueryBase ==
  ASSUME Base, NEW k \in Tasks, ScopedQuery(k)
  PROVE  Base'
  <1> DEFINE c == op[k].conn
             s == op[k].stmt
             o == IF op[k].mode = "itx" THEN Idle ELSE [op[k] EXCEPT !.phase = "commit"]
             owners == ReturnedOwners(db[c], rows, s)
  <1>1. /\ op[k].mode \in {"batch", "itx"} /\ op[k].phase = "query"
        /\ Unlocked(c, s)
        /\ db' = [db EXCEPT ![c] = Executed(@, rows, s)]
        /\ answer' = [answer EXCEPT ![k] = [scope |-> op[k].scope, owners |-> owners]]
        /\ op' = [op EXCEPT ![k] = o]
        /\ UNCHANGED <<frames, rows>>
    BY DEF ScopedQuery
  <1>2. c \in Conns /\ s \in Statement /\ op[k].scope \in Tenants /\ ~ Free(c)
    BY <1>1 DEF Base, TypeOK, OperationsAttached, Attached, Op, Free
  <1>3. db[c] \in Connection /\ rows \in Table
    BY <1>2 DEF Base, TypeOK
  <1>4. owners \subseteq Tenants
    BY <1>2, <1>3, StatementTypes
  <1>5. /\ db' \in [Conns -> Connection]
        /\ \A d \in Conns :
             /\ db'[d].tx = db[d].tx /\ db'[d].owner = db[d].owner
             /\ db'[d].tenant = db[d].tenant /\ db'[d].setting = db[d].setting
        /\ NoResidualTenant' /\ OneWriter'
    BY <1>1, <1>2, StatementStep
  <1>6. o \in Op
    <2>1. Idle \in Op
      BY DEF Idle, Op, TenantOrNull
    <2>2. QED
      BY <2>1 DEF Base, TypeOK, Op
  <1>7. op' \in [Tasks -> Op] /\ OperationsAttached' /\ ScopeHeld'
    BY <1>1, <1>5, <1>6, SameShape
  <1>8. answer' \in [Tasks -> Answer]
    BY <1>1, <1>2, <1>4 DEF Base, TypeOK, Answer, TenantOrNull
  <1>9. TypeOK'
    BY <1>1, <1>5, <1>7, <1>8 DEF Base, TypeOK
  <1>10. QED
    BY <1>5, <1>7, <1>9 DEF Base

\* A statement of the callback of tenancyTransaction.
LEMMA TenancyTxQueryBase ==
  ASSUME Base, NEW k \in Tasks, NEW c \in Conns, NEW s \in Statements,
         TenancyTxQuery(k, c, s)
  PROVE  Base'
  <1> DEFINE owners == ReturnedOwners(db[c], rows, s)
  <1>1. /\ op[k].phase = "idle" /\ db[c].tx = "tenancy" /\ db[c].owner = k
        /\ Unlocked(c, s)
        /\ db' = [db EXCEPT ![c] = Executed(@, rows, s)]
        /\ answer' = [answer EXCEPT ![k] = [scope |-> db[c].tenant, owners |-> owners]]
        /\ UNCHANGED <<frames, op, rows>>
    BY DEF TenancyTxQuery, CanMove
  <1>2. s \in Statement /\ ~ Free(c) /\ db[c] \in Connection /\ rows \in Table
    BY <1>1, PrismaConstants DEF Free, Base, TypeOK
  <1>3. owners \subseteq Tenants
    BY <1>2, StatementTypes
  <1>4. /\ db' \in [Conns -> Connection]
        /\ \A d \in Conns :
             /\ db'[d].tx = db[d].tx /\ db'[d].owner = db[d].owner
             /\ db'[d].tenant = db[d].tenant /\ db'[d].setting = db[d].setting
        /\ NoResidualTenant' /\ OneWriter'
    BY <1>1, <1>2, StatementStep
  <1>5. OperationsAttached' /\ ScopeHeld'
    <2>1. op[k] \in Op /\ op' = [op EXCEPT ![k] = op[k]]
      BY <1>1 DEF Base, TypeOK
    <2>2. QED
      BY <1>1, <1>4, <2>1, SameShape
  <1>6. answer' \in [Tasks -> Answer]
    <2>1. db[c].tenant \in TenantOrNull
      BY <1>2 DEF Connection
    <2>2. QED
      BY <1>1, <1>3, <2>1 DEF Base, TypeOK, Answer
  <1>7. TypeOK'
    BY <1>1, <1>4, <1>6 DEF Base, TypeOK
  <1>8. QED
    BY <1>4, <1>5, <1>7 DEF Base

\* A query outside any scope, on a free connection or within the interactive
\* transaction it was called in.
LEMMA DirectQueryBase ==
  ASSUME Base, NEW k \in Tasks, NEW c \in Conns, DirectQuery(k, c)
  PROVE  Base'
  <1> DEFINE s == op[k].stmt
  <1>1. /\ op[k].mode = "direct"
        /\ IF op[k].conn = NoConn THEN Free(c) ELSE c = op[k].conn
        /\ op' = [op EXCEPT ![k] = Idle]
        /\ UNCHANGED frames
    BY DEF DirectQuery, Finish
  <1>2. /\ op[k].phase = "query" /\ op[k].scope = NoTenant
        /\ op[k].conn # NoConn => db[c].tx = "itx" /\ db[c].owner = k
    BY <1>1 DEF Base, OperationsAttached, Attached
  <1>3. db[c] \in Connection /\ rows \in Table /\ Idle \in Op
    BY DEF Base, TypeOK, Idle, Op, TenantOrNull
  <1>4. ASSUME NEW owners, Finish(k, owners), owners \subseteq Tenants,
               db' \in [Conns -> Connection], rows' \in Table,
               \A d \in Conns :
                 /\ db'[d].tx = db[d].tx /\ db'[d].owner = db[d].owner
                 /\ db'[d].tenant = db[d].tenant /\ db'[d].setting = db[d].setting,
               NoResidualTenant', OneWriter'
        PROVE  Base'
    <2>1. op' \in [Tasks -> Op] /\ OperationsAttached' /\ ScopeHeld'
      BY <1>1, <1>2, <1>3, <1>4, SameShape
    <2>2. answer' \in [Tasks -> Answer]
      BY <1>2, <1>4 DEF Finish, Base, TypeOK, Answer, TenantOrNull
    <2>3. TypeOK'
      BY <1>1, <1>4, <2>1, <2>2 DEF Base, TypeOK
    <2>4. QED
      BY <1>4, <2>1, <2>3 DEF Base
  <1>5. UNCHANGED db =>
          /\ db' \in [Conns -> Connection]
          /\ \A d \in Conns :
               /\ db'[d].tx = db[d].tx /\ db'[d].owner = db[d].owner
               /\ db'[d].tenant = db[d].tenant /\ db'[d].setting = db[d].setting
          /\ NoResidualTenant' /\ OneWriter'
    BY DEF Base, TypeOK, NoResidualTenant, OneWriter, Free
  <1>6. CASE Finish(k, {}) /\ UNCHANGED <<db, rows>>
    BY <1>3, <1>4, <1>5, <1>6
  <1>7. CASE /\ s \in Statement /\ Unlocked(c, s)
             /\ Finish(k, ReturnedOwners(db[c], rows, s))
             /\ IF op[k].conn = NoConn
                THEN rows' = View(Executed(db[c], rows, s), rows) /\ UNCHANGED db
                ELSE db' = [db EXCEPT ![c] = Executed(@, rows, s)] /\ UNCHANGED rows
    <2>1. ReturnedOwners(db[c], rows, s) \subseteq Tenants
      BY <1>3, <1>7, StatementTypes
    <2>2. CASE op[k].conn = NoConn
      <3>1. Executed(db[c], rows, s) \in Connection
        BY <1>3, <1>7, ExecutedEffect
      <3>2. rows' \in Table
        BY <1>3, <1>7, <2>2, <3>1 DEF View, Table, Connection
      <3>3. QED
        BY <1>4, <1>5, <1>7, <2>1, <2>2, <3>2
    <2>3. CASE op[k].conn # NoConn
      <3>1. ~ Free(c)
        BY <1>2, <2>3 DEF Free
      <3>2. db' = [db EXCEPT ![c] = Executed(@, rows, s)] /\ UNCHANGED rows
        BY <1>7, <2>3
      <3>3. /\ db' \in [Conns -> Connection]
            /\ \A d \in Conns :
                 /\ db'[d].tx = db[d].tx /\ db'[d].owner = db[d].owner
                 /\ db'[d].tenant = db[d].tenant /\ db'[d].setting = db[d].setting
            /\ NoResidualTenant' /\ OneWriter'
        BY <1>7, <3>1, <3>2, StatementStep
      <3>4. QED
        BY <1>3, <1>4, <1>7, <2>1, <3>2, <3>3
    <2>4. QED
      BY <2>2, <2>3
  <1>8. QED
    BY <1>6, <1>7 DEF DirectQuery

\* The end of a transaction, committed or not: the connection is free and bare,
\* and no operation is left on it.
LEMMA ReleaseStep ==
  ASSUME Base, NEW c \in Conns,
         db' = [db EXCEPT ![c] = Released(@)],
         op' = [j \in Tasks |-> IF op[j].conn = c THEN Idle ELSE op[j]],
         UNCHANGED frames,
         rows' \in {rows, View(db[c], rows)},
         answer' \in [Tasks -> Answer]
  PROVE  /\ Base'
         /\ db'[c].tx = "free" /\ db'[c].pend = NoWrites
         /\ \A d \in Conns \ {c} : db'[d] = db[d]
  <1>1. db[c] \in Connection /\ Released(db[c]) \in Connection
    BY DatabaseConstants
       DEF Base, TypeOK, Released, NewConnection, Connection, NoWrites, Table, TenantOrNull
  <1>2. /\ db'[c].tx = "free" /\ db'[c].owner = NoTask /\ db'[c].tenant = NoTenant
        /\ db'[c].setting = db[c].session /\ db'[c].session = db[c].session
        /\ db'[c].pend = NoWrites
        /\ \A d \in Conns \ {c} : db'[d] = db[d]
    BY DEF Base, TypeOK, Released, NewConnection
  <1>3. \A j \in Tasks : op'[j] = IF op[j].conn = c THEN Idle ELSE op[j]
    OBVIOUS
  <1>4. rows' \in Table
    BY <1>1 DEF Base, TypeOK, View, Table, Connection
  <1>5. TypeOK'
    <2>1. Idle \in Op
      BY DEF Idle, Op, TenantOrNull
    <2>2. op' \in [Tasks -> Op]
      BY <2>1 DEF Base, TypeOK
    <2>3. db' \in [Conns -> Connection]
      BY <1>1 DEF Base, TypeOK
    <2>4. QED
      BY <2>2, <2>3, <1>4 DEF Base, TypeOK
  <1>6. OperationsAttached'
    <2>1. ASSUME NEW j \in Tasks PROVE Attached(j, op[j])'
      <3>1. CASE op[j].conn = c
        BY <3>1, <1>3 DEF Attached, Idle
      <3>2. CASE op[j].conn # c
        <4>1. op'[j] = op[j] /\ Attached(j, op[j])
          BY <3>2, <1>3 DEF Base, OperationsAttached
        <4>2. op[j].conn # NoConn => op[j].conn \in Conns \ {c}
          BY <3>2, Holder
        <4>3. QED
          BY <4>1, <4>2, <1>2, DatabaseConstants DEF Attached, TenantOf
      <3>3. QED
        BY <3>1, <3>2
    <2>2. \A d \in Conns : db'[d].tx = "free" \/ db'[d].owner \in Tasks
      BY <1>2 DEF Base, OperationsAttached, Free
    <2>3. QED
      BY <2>1, <2>2 DEF OperationsAttached, Free
  <1>7. NoResidualTenant'
    BY <1>2 DEF Base, NoResidualTenant, Free
  <1>8. ScopeHeld'
    <2>1. ASSUME NEW j \in Tasks, op'[j].mode \in {"batch", "itx"},
                 op'[j].phase \in {"query", "commit"}
          PROVE  db'[op'[j].conn].owner = j /\ db'[op'[j].conn].setting = op'[j].scope
      <3>1. op'[j] = op[j] /\ op[j].conn # c
        BY <2>1, <1>3 DEF Idle
      <3>2. op[j].conn \in Conns
        BY <2>1, <3>1 DEF Base, OperationsAttached, Attached
      <3>3. QED
        BY <2>1, <3>1, <3>2, <1>2 DEF Base, ScopeHeld
    <2>2. ASSUME NEW d \in Conns, db'[d].tx = "tenancy", db'[d].setting # db'[d].tenant
          PROVE  \E j \in Tasks : op'[j].conn = d /\ op'[j].phase = "config"
      <3>1. d # c
        BY <2>2, <1>2
      <3>2. PICK j \in Tasks : op[j].conn = d /\ op[j].phase = "config"
        BY <2>2, <3>1, <1>2 DEF Base, ScopeHeld
      <3>3. op'[j] = op[j]
        BY <3>1, <3>2, <1>3
      <3>4. QED
        BY <3>2, <3>3
    <2>3. QED
      BY <2>1, <2>2 DEF ScopeHeld
  <1>9. OneWriter'
    BY <1>2 DEF Base, OneWriter, NoWrites
  <1>10. QED
    BY <1>2, <1>5, <1>6, <1>7, <1>8, <1>9 DEF Base

\* Committing makes the pending rows of one connection the rows of the table.
LEMMA CommitBase ==
  ASSUME Base, NEW k \in Tasks, NEW c \in Conns,
         TxCommit(k, c) \/ (BatchCommit(k) /\ c = op[k].conn)
  PROVE  /\ Base' /\ rows' = View(db[c], rows) /\ UNCHANGED <<frames, answer>>
         /\ db'[c].tx = "free" /\ db'[c].pend = NoWrites
         /\ \A d \in Conns \ {c} : db'[d] = db[d]
  <1>1. /\ rows' = View(db[c], rows) /\ db' = [db EXCEPT ![c] = Released(@)]
        /\ UNCHANGED <<frames, answer>>
    BY DEF TxCommit, BatchCommit
  <1>2. op' = [j \in Tasks |-> IF op[j].conn = c THEN Idle ELSE op[j]]
    <2>1. CASE TxCommit(k, c)
      <3>1. op[k].phase = "idle" /\ db[c].owner = k /\ UNCHANGED op
        BY <2>1 DEF TxCommit, CanMove
      <3>2. op[k] = Idle /\ Idle.conn = NoConn
        BY <3>1, IdleOp DEF Idle
      <3>3. \A j \in Tasks : op[j].conn # c
        BY <3>1, <3>2, Holder, DatabaseConstants
      <3>4. QED
        BY <3>1, <3>3 DEF Base, TypeOK
    <2>2. CASE BatchCommit(k) /\ c = op[k].conn
      <3>1. op' = [op EXCEPT ![k] = Idle]
        BY <2>2 DEF BatchCommit
      <3>2. \A j \in Tasks : op[j].conn = c => j = k
        BY <2>2, Holder, DatabaseConstants
      <3>3. QED
        BY <2>2, <3>1, <3>2 DEF Base, TypeOK
    <2>3. QED
      BY <2>1, <2>2
  <1>3. answer' \in [Tasks -> Answer]
    BY <1>1 DEF Base, TypeOK
  <1>4. QED
    BY <1>1, <1>2, <1>3, ReleaseStep

\* Rolling back drops the pending rows and rejects whoever waits.
LEMMA RollbackBase ==
  ASSUME Base, NEW c \in Conns, Rollback(c)
  PROVE  /\ Base' /\ UNCHANGED <<frames, rows>>
         /\ db'[c].tx = "free" /\ db'[c].pend = NoWrites
         /\ \A d \in Conns \ {c} : db'[d] = db[d]
         /\ \A j \in Tasks : answer'[j] \in {NoAnswer, answer[j]}
  <1>1. /\ db' = [db EXCEPT ![c] = Released(@)]
        /\ op' = [j \in Tasks |-> IF op[j].conn = c THEN Idle ELSE op[j]]
        /\ answer' = [j \in Tasks |-> IF op[j].conn = c THEN NoAnswer ELSE answer[j]]
        /\ UNCHANGED <<frames, rows>>
    BY DEF Rollback
  <1>2. answer' \in [Tasks -> Answer]
    BY <1>1 DEF Base, TypeOK, NoAnswer, Answer, TenantOrNull
  <1>3. \A j \in Tasks : answer'[j] \in {NoAnswer, answer[j]}
    BY <1>1
  <1>4. QED
    BY <1>1, <1>2, <1>3, ReleaseStep

\* It is inductive.
LEMMA NextBase ==
  ASSUME Base, [Next]_vars
  PROVE  Base'
  <1>1. ASSUME NEW k \in Tasks, ContextStep(k) PROVE Base'
    BY <1>1, ContextBase
  <1>2. ASSUME NEW k \in Tasks, AllOperations(k) PROVE Base'
    BY <1>2, CallBase
  <1>3. ASSUME NEW k \in Tasks, OperationStep(k) PROVE Base'
    <2>1. CASE SetScope(k)
      BY <2>1, ConfigBase
    <2>2. CASE ScopedQuery(k)
      BY <2>2, ScopedQueryBase
    <2>3. CASE BatchCommit(k)
      <3>1. op[k].conn \in Conns
        BY <2>3 DEF BatchCommit, Base, OperationsAttached, Attached
      <3>2. QED
        BY <2>3, <3>1, CommitBase
    <2>4. CASE GiveUp(k)
      BY <2>4, GiveUpBase
    <2>5. ASSUME NEW c \in Conns, DirectQuery(k, c) PROVE Base'
      BY <2>5, DirectQueryBase
    <2>6. ASSUME NEW c \in Conns, BatchBegin(k, c) PROVE Base'
      BY <2>6, BeginBase
    <2>7. QED
      BY <1>3, <2>1, <2>2, <2>3, <2>4, <2>5, <2>6 DEF OperationStep
  <1>4. ASSUME NEW k \in Tasks, TransactionStep(k) PROVE Base'
    <2>1. CASE TenancyTransaction(k)
      BY <2>1, CallBase
    <2>2. CASE TenancyTxConfig(k)
      BY <2>2, ConfigBase
    <2>3. ASSUME NEW c \in Conns, ItxBegin(k, c) \/ TenancyTxBegin(k, c) PROVE Base'
      BY <2>3, BeginBase
    <2>4. ASSUME NEW c \in Conns, TxCommit(k, c) PROVE Base'
      BY <2>4, CommitBase
    <2>5. ASSUME NEW c \in Conns, NEW s \in Statements, TenancyTxQuery(k, c, s)
          PROVE  Base'
      BY <2>5, TenancyTxQueryBase
    <2>6. QED
      BY <1>4, <2>1, <2>2, <2>3, <2>4, <2>5 DEF TransactionStep
  <1>5. ASSUME NEW c \in Conns, Rollback(c) PROVE Base'
    BY <1>5, RollbackBase
  <1>6. CASE UNCHANGED vars
    BY <1>6 DEF vars, Base, TypeOK, OperationsAttached, Attached, NoResidualTenant,
                ScopeHeld, OneWriter, Free, TenantOf
  <1>7. QED
    BY <1>1, <1>2, <1>3, <1>4, <1>5, <1>6 DEF Next

\* It holds in every reachable state.
THEOREM BaseHolds == Spec => []Base
  <1>1. Init => Base
    BY InitBase
  <1>2. Base /\ [Next]_vars => Base'
    BY NextBase
  <1>3. QED
    BY <1>1, <1>2, PTL DEF Spec

\* Every variable keeps its type.
THEOREM TypeCorrect == Spec => []TypeOK
  <1>1. Base => TypeOK
    BY DEF Base
  <1>2. QED
    BY <1>1, BaseHolds, PTL

\* No connection goes back to the pool with a tenant or with uncommitted rows,
\* and no step of another task changes the tenant under an operation: with or
\* without policies, and however interactive transactions are used.
THEOREM TenantStaysInTransaction == Spec => [](NoResidualTenant /\ ScopeHeld)
  <1>1. Base => NoResidualTenant /\ ScopeHeld
    BY DEF Base
  <1>2. QED
    BY <1>1, BaseHolds, PTL

-------------------------------------------------------------------------------
(***************************************************************************)
(* Rows and answers, under row-level security, where an interactive        *)
(* transaction is used in the context it was opened in.                    *)
(***************************************************************************)
\* The rest of the invariant reads these parts of the state only.
LEMMA OwnedStays ==
  ASSUME IInv, UNCHANGED <<frames, rows>>,
         \A d \in Conns : db'[d].pend = db[d].pend,
         \A d \in Conns : db'[d].tx = "itx" /\ db'[d].setting \in Tenants =>
           TenantOf(db'[d].owner) = db'[d].setting,
         \A j \in Tasks : answer'[j].owners \subseteq {answer'[j].scope}
  PROVE  Owned'
  <1>1. ItxScoped' /\ AnswersIsolated'
    BY DEF ItxScoped, AnswersIsolated, TenantOf
  <1>2. PendingOwned'
    BY DEF IInv, PendingOwned
  <1>3. QED
    BY <1>1, <1>2 DEF Owned

\* The context of a task does not change while it has an interactive
\* transaction open.
LEMMA ContextOwned ==
  ASSUME IInv, ~ MixedItx, NEW k \in Tasks, ContextStep(k)
  PROVE  Owned'
  <1>1. /\ UNCHANGED <<op, db, rows, answer>>
        /\ \A j \in Tasks : j # k => TenantOf(j)' = TenantOf(j)
    BY ContextBase, InvariantParts
  <1>2. OpenItx(k) = {}
    BY DEF ContextStep, EnterTenant, WithoutTenant, Enter, Leave
  <1>3. ItxScoped'
    <2> SUFFICES ASSUME NEW c \in Conns, db[c].tx = "itx", db[c].setting \in Tenants
                 PROVE  TenantOf(db[c].owner)' = db[c].setting
      BY <1>1 DEF ItxScoped
    <2>1. db[c].owner \in Tasks /\ TenantOf(db[c].owner) = db[c].setting
      BY DEF IInv, OperationsAttached, ItxScoped, Free
    <2>2. db[c].owner # k
      BY <1>2 DEF OpenItx
    <2>3. TenantOf(db[c].owner)' = TenantOf(db[c].owner)
      BY <1>1, <2>1, <2>2 DEF TenantOf
    <2>4. QED
      BY <2>1, <2>3
  <1>4. PendingOwned' /\ AnswersIsolated'
    BY <1>1 DEF IInv, PendingOwned, AnswersIsolated
  <1>5. QED
    BY <1>3, <1>4 DEF Owned

\* A call and a wait given up touch no connection.
LEMMA CallOwned ==
  ASSUME IInv, NEW k \in Tasks, AllOperations(k) \/ TenancyTransaction(k) \/ GiveUp(k)
  PROVE  Owned'
  <1>1. /\ UNCHANGED <<frames, db, rows>>
        /\ answer' = [answer EXCEPT ![k] = NoAnswer] \/ UNCHANGED answer
    BY CallBase, InvariantParts DEF GiveUp
  <1>2. \A j \in Tasks : answer'[j].owners \subseteq {answer'[j].scope}
    BY <1>1 DEF IInv, TypeOK, AnswersIsolated, NoAnswer
  <1>3. QED
    BY <1>1, <1>2, OwnedStays DEF IInv, ItxScoped

\* A transaction begins on a connection that carries no tenant.
LEMMA BeginOwned ==
  ASSUME IInv, NEW k \in Tasks, NEW c \in Conns,
         BatchBegin(k, c) \/ TenancyTxBegin(k, c) \/ ItxBegin(k, c)
  PROVE  Owned'
  <1>1. /\ UNCHANGED <<frames, rows, answer>>
        /\ \A d \in Conns : db'[d].pend = db[d].pend
        /\ db'[c].setting \notin Tenants
        /\ \A d \in Conns \ {c} : db'[d] = db[d]
    BY BeginBase, InvariantParts
  <1>2. QED
    BY <1>1, OwnedStays DEF IInv, ItxScoped, AnswersIsolated

\* set_config() puts the tenant of the caller's context on a connection.
LEMMA ConfigOwned ==
  ASSUME IInv, NEW k \in Tasks, SetScope(k) \/ TenancyTxConfig(k)
  PROVE  Owned'
  <1>1. /\ UNCHANGED <<frames, rows, answer>>
        /\ \A d \in Conns : /\ db'[d].tx = db[d].tx /\ db'[d].owner = db[d].owner
                            /\ db'[d].tenant = db[d].tenant /\ db'[d].pend = db[d].pend
        /\ \A d \in Conns : db'[d].setting # db[d].setting =>
             /\ db[d].owner = k /\ db'[d].setting = op[k].scope
             /\ op[k].mode = db[d].tx
             /\ op[k].mode = "itx" => TenantOf(k) = op[k].scope
    BY ConfigBase, InvariantParts
  <1>2. \A d \in Conns : db'[d].tx = "itx" /\ db'[d].setting \in Tenants =>
          TenantOf(db'[d].owner) = db'[d].setting
    BY <1>1 DEF IInv, ItxScoped
  <1>3. QED
    BY <1>1, <1>2, OwnedStays DEF IInv, AnswersIsolated

\* A statement on a connection with the tenant t writes rows of t.
LEMMA StatementOwned ==
  ASSUME IInv, RlsEnforced, NEW c \in Conns, NEW s \in Statement,
         ~ Free(c), ~ Refused(db[c], rows, s), Unlocked(c, s),
         db' = [db EXCEPT ![c] = Executed(@, rows, s)], UNCHANGED <<frames, rows>>
  PROVE  ItxScoped' /\ PendingOwned'
  <1>1. /\ \A d \in Conns :
             /\ db'[d].tx = db[d].tx /\ db'[d].owner = db[d].owner
             /\ db'[d].setting = db[d].setting
        /\ \A d \in Conns, i \in Ids : db'[d].pend[i] # db[d].pend[i] =>
             /\ d = c /\ i = s.id
             /\ db'[d].pend[i] = Written(db[c], rows, s)
             /\ db'[d].pend[i] # NoTenant
        /\ OneWriter'
    <2>1. Base /\ UNCHANGED rows
      BY InvariantParts
    <2>2. db' = [db EXCEPT ![c] = Executed(@, rows, s)]
      OBVIOUS
    <2>3. QED
      BY <2>1, <2>2, StatementStep, Zenon
  <1>2. db[c] \in Connection /\ rows \in Table
    BY DEF IInv, TypeOK
  <1>3. ItxScoped'
    BY <1>1 DEF IInv, ItxScoped, TenantOf
  <1>4. PendingOwned'
    <2> SUFFICES ASSUME NEW d \in Conns, NEW i \in Ids, db'[d].pend[i] # NoTenant
                 PROVE  rows[i] \in {NoTenant, db'[d].pend[i]}
      BY <1>1 DEF PendingOwned, OneWriter
    <2>1. CASE db'[d].pend[i] = db[d].pend[i]
      BY <2>1 DEF IInv, PendingOwned
    <2>2. CASE db'[d].pend[i] # db[d].pend[i]
      <3>1. /\ d = c /\ i = s.id /\ db'[d].pend[i] = Written(db[c], rows, s)
            /\ Written(db[c], rows, s) # NoTenant
        BY <2>2, <1>1
      <3>2. /\ db'[d].pend[i] = db[c].setting
            /\ View(db[c], rows)[i] \in {NoTenant, db[c].setting}
        BY <3>1, <1>2, StatementUnderRls
      <3>3. View(db[c], rows)[i] =
              IF db[c].pend[i] = NoTenant THEN rows[i] ELSE db[c].pend[i]
        BY DEF View
      <3>4. db[c].pend[i] = NoTenant
        BY <2>2, <3>1, <3>2, <3>3
      <3>5. QED
        BY <3>2, <3>3, <3>4
    <2>3. QED
      BY <2>1, <2>2
  <1>5. QED
    BY <1>3, <1>4

\* A scoped statement runs on a connection that carries the tenant of its
\* operation, so what it returns and writes belongs to that tenant.
LEMMA ScopedQueryOwned ==
  ASSUME IInv, RlsEnforced, NEW k \in Tasks, ScopedQuery(k)
  PROVE  Owned'
  <1> DEFINE c == op[k].conn
             s == op[k].stmt
             owners == ReturnedOwners(db[c], rows, s)
  <1>1. /\ op[k].mode \in {"batch", "itx"} /\ op[k].phase = "query"
        /\ ~ Refused(db[c], rows, s) /\ Unlocked(c, s)
        /\ db' = [db EXCEPT ![c] = Executed(@, rows, s)]
        /\ answer' = [answer EXCEPT ![k] = [scope |-> op[k].scope, owners |-> owners]]
        /\ UNCHANGED <<frames, rows>>
    BY DEF ScopedQuery
  <1>2. c \in Conns /\ s \in Statement /\ ~ Free(c)
    BY <1>1 DEF IInv, TypeOK, OperationsAttached, Attached, Op, Free
  <1>3. db[c].setting = op[k].scope
    BY <1>1 DEF IInv, ScopeHeld
  <1>4. db[c] \in Connection /\ rows \in Table
    BY <1>2 DEF IInv, TypeOK
  <1>5. owners \subseteq {op[k].scope}
    BY <1>1, <1>2, <1>3, <1>4, StatementUnderRls
  <1>6. AnswersIsolated'
    BY <1>1, <1>5 DEF IInv, TypeOK, AnswersIsolated
  <1>7. ItxScoped' /\ PendingOwned'
    BY <1>1, <1>2, StatementOwned
  <1>8. QED
    BY <1>6, <1>7 DEF Owned

\* The callback of tenancyTransaction runs after set_config(), so the setting is
\* the tenant the transaction was opened for.
LEMMA TenancyTxQueryOwned ==
  ASSUME IInv, RlsEnforced, NEW k \in Tasks, NEW c \in Conns, NEW s \in Statements,
         TenancyTxQuery(k, c, s)
  PROVE  Owned'
  <1> DEFINE owners == ReturnedOwners(db[c], rows, s)
  <1>1. /\ op[k].phase = "idle" /\ db[c].tx = "tenancy" /\ db[c].owner = k
        /\ ~ Refused(db[c], rows, s) /\ Unlocked(c, s)
        /\ db' = [db EXCEPT ![c] = Executed(@, rows, s)]
        /\ answer' = [answer EXCEPT ![k] = [scope |-> db[c].tenant, owners |-> owners]]
        /\ UNCHANGED <<frames, op, rows>>
    BY DEF TenancyTxQuery, CanMove
  <1>2. s \in Statement /\ ~ Free(c) /\ db[c] \in Connection /\ rows \in Table
    BY <1>1, PrismaConstants DEF Free, IInv, TypeOK
  <1>3. db[c].setting = db[c].tenant
    <2>1. ~ \E j \in Tasks : op[j].conn = c /\ op[j].phase = "config"
      BY <1>1, Holder, InvariantParts, DatabaseConstants
    <2>2. QED
      BY <1>1, <2>1 DEF IInv, ScopeHeld
  <1>4. owners \subseteq {db[c].tenant}
    BY <1>1, <1>2, <1>3, StatementUnderRls
  <1>5. AnswersIsolated'
    BY <1>1, <1>4 DEF IInv, TypeOK, AnswersIsolated
  <1>6. ItxScoped' /\ PendingOwned'
    BY <1>1, <1>2, StatementOwned
  <1>7. QED
    BY <1>5, <1>6 DEF Owned

\* A query outside any scope runs on a connection without a tenant: a free one,
\* or an interactive transaction of a context without one.
LEMMA DirectQueryOwned ==
  ASSUME IInv, RlsEnforced, NEW k \in Tasks, NEW c \in Conns, DirectQuery(k, c)
  PROVE  Owned' /\ rows' = rows /\ op[k].scope = NoTenant
  <1> DEFINE s == op[k].stmt
  <1>1. /\ op[k].mode = "direct"
        /\ IF op[k].conn = NoConn THEN Free(c) ELSE c = op[k].conn
        /\ op' = [op EXCEPT ![k] = Idle]
        /\ UNCHANGED frames
    BY DEF DirectQuery, Finish
  <1>2. /\ op[k].phase = "query" /\ op[k].scope = NoTenant
        /\ op[k].conn # NoConn => db[c].tx = "itx" /\ db[c].owner = k
    BY <1>1 DEF IInv, OperationsAttached, Attached
  <1>3. s # SharedRead => db[c].setting \notin Tenants
    <2>1. CASE op[k].conn = NoConn
      BY <2>1, <1>1 DEF IInv, NoResidualTenant
    <2>2. CASE op[k].conn # NoConn
      <3>1. s # SharedRead => TenantOf(k) = NoTenant
        BY <1>1 DEF IInv, OperationsAttached, Attached
      <3>2. QED
        BY <2>2, <3>1, <1>2, NoTenantIsNoId DEF IInv, ItxScoped
    <2>3. QED
      BY <2>1, <2>2
  <1>4. db[c] \in Connection /\ rows \in Table
    BY DEF IInv, TypeOK
  <1>5. CASE /\ Finish(k, {}) /\ UNCHANGED <<db, rows>>
    <2>1. \A j \in Tasks : answer'[j].owners \subseteq {answer'[j].scope}
      BY <1>5 DEF Finish, IInv, TypeOK, AnswersIsolated
    <2>2. QED
      BY <1>1, <1>2, <1>5, <2>1, OwnedStays DEF IInv, ItxScoped
  <1>6. CASE /\ s \in Statement /\ ~ Refused(db[c], rows, s) /\ Unlocked(c, s)
             /\ Finish(k, ReturnedOwners(db[c], rows, s))
             /\ IF op[k].conn = NoConn
                THEN rows' = View(Executed(db[c], rows, s), rows) /\ UNCHANGED db
                ELSE db' = [db EXCEPT ![c] = Executed(@, rows, s)] /\ UNCHANGED rows
    <2>1. s # SharedRead
      BY <1>6, PrismaConstants
    <2>2. Written(db[c], rows, s) = NoTenant
      BY <1>3, <1>4, <1>6, <2>1, StatementUnderRls DEF TenantOrNull
    <2>3. Executed(db[c], rows, s) = db[c]
      BY <2>2 DEF Executed
    <2>4. ReturnedOwners(db[c], rows, s) = {}
      BY <1>3, <1>4, <1>6, <2>1, StatementUnderRls
    <2>5. UNCHANGED <<db, rows>>
      <3>1. CASE op[k].conn = NoConn
        <4>1. db[c].pend = NoWrites
          BY <3>1, <1>1 DEF IInv, NoResidualTenant
        <4>2. View(db[c], rows) = rows
          BY <4>1, <1>4 DEF View, NoWrites, Table
        <4>3. QED
          BY <3>1, <4>2, <1>6, <2>3
      <3>2. CASE op[k].conn # NoConn
        <4>1. db' = db
          BY <3>2, <1>6, <2>3 DEF IInv, TypeOK
        <4>2. QED
          BY <3>2, <4>1, <1>6
      <3>3. QED
        BY <3>1, <3>2
    <2>6. QED
      BY <1>5, <1>6, <2>4, <2>5
  <1>7. QED
    BY <1>5, <1>6 DEF DirectQuery

\* The end of a transaction, committed or not: the connection is bare, and the
\* rows that others have written stay.
LEMMA ReleaseOwned ==
  ASSUME IInv, NEW c \in Conns,
         db'[c].tx = "free", db'[c].pend = NoWrites,
         \A d \in Conns \ {c} : db'[d] = db[d],
         UNCHANGED frames, rows' \in {rows, View(db[c], rows)},
         \A j \in Tasks : answer'[j].owners \subseteq {answer'[j].scope}
  PROVE  Owned'
  <1>1. ItxScoped' /\ AnswersIsolated'
    BY DEF IInv, ItxScoped, AnswersIsolated, TenantOf
  <1>2. PendingOwned'
    <2> SUFFICES ASSUME NEW d \in Conns, NEW i \in Ids, db'[d].pend[i] # NoTenant
                 PROVE  /\ rows'[i] \in {NoTenant, db'[d].pend[i]}
                        /\ \A x \in Conns \ {d} : db'[x].pend[i] = NoTenant
      BY DEF PendingOwned
    <2>1. d # c
      BY DEF NoWrites
    <2>2. /\ rows[i] \in {NoTenant, db[d].pend[i]} /\ db'[d] = db[d]
          /\ \A x \in Conns \ {d} : db[x].pend[i] = NoTenant
      BY <2>1 DEF IInv, PendingOwned
    <2>3. rows'[i] = rows[i]
      BY <2>1, <2>2 DEF View
    <2>4. \A x \in Conns \ {d} : db'[x].pend[i] = NoTenant
      BY <2>2 DEF NoWrites
    <2>5. QED
      BY <2>2, <2>3, <2>4
  <1>3. QED
    BY <1>1, <1>2 DEF Owned

\* Committing makes the pending rows of one connection the rows of the table.
LEMMA CommitOwned ==
  ASSUME IInv, NEW k \in Tasks, NEW c \in Conns,
         TxCommit(k, c) \/ (BatchCommit(k) /\ c = op[k].conn)
  PROVE  Owned' /\ rows' = View(db[c], rows) /\ UNCHANGED answer
  <1>1. /\ rows' = View(db[c], rows) /\ UNCHANGED <<frames, answer>>
        /\ db'[c].tx = "free" /\ db'[c].pend = NoWrites
        /\ \A d \in Conns \ {c} : db'[d] = db[d]
    BY CommitBase, InvariantParts
  <1>2. \A j \in Tasks : answer'[j].owners \subseteq {answer'[j].scope}
    BY <1>1 DEF IInv, AnswersIsolated
  <1>3. QED
    BY <1>1, <1>2, ReleaseOwned

\* Rolling back drops the pending rows and rejects whoever waits.
LEMMA RollbackOwned ==
  ASSUME IInv, NEW c \in Conns, Rollback(c)
  PROVE  Owned'
  <1>1. /\ UNCHANGED <<frames, rows>>
        /\ db'[c].tx = "free" /\ db'[c].pend = NoWrites
        /\ \A d \in Conns \ {c} : db'[d] = db[d]
        /\ \A j \in Tasks : answer'[j] \in {NoAnswer, answer[j]}
    BY RollbackBase, InvariantParts
  <1>2. \A j \in Tasks : answer'[j].owners \subseteq {answer'[j].scope}
    BY <1>1 DEF IInv, AnswersIsolated, NoAnswer
  <1>3. QED
    BY <1>1, <1>2, ReleaseOwned

\* The invariant is inductive.
LEMMA NextIInv ==
  ASSUME IInv, RlsEnforced, ~ MixedItx, [Next]_vars
  PROVE  IInv'
  <1>1. Base'
    BY NextBase, InvariantParts
  <1>2. ASSUME NEW k \in Tasks, ContextStep(k) \/ AllOperations(k) PROVE Owned'
    BY <1>2, ContextOwned, CallOwned
  <1>3. ASSUME NEW k \in Tasks, OperationStep(k) PROVE Owned'
    <2>1. CASE SetScope(k) \/ ScopedQuery(k) \/ GiveUp(k)
      BY <2>1, ConfigOwned, ScopedQueryOwned, CallOwned
    <2>2. CASE BatchCommit(k)
      <3>1. op[k].conn \in Conns
        BY <2>2 DEF BatchCommit, IInv, OperationsAttached, Attached
      <3>2. QED
        BY <2>2, <3>1, CommitOwned
    <2>3. ASSUME NEW c \in Conns, DirectQuery(k, c) \/ BatchBegin(k, c) PROVE Owned'
      BY <2>3, DirectQueryOwned, BeginOwned
    <2>4. QED
      BY <1>3, <2>1, <2>2, <2>3 DEF OperationStep
  <1>4. ASSUME NEW k \in Tasks, TransactionStep(k) PROVE Owned'
    <2>1. CASE TenancyTransaction(k) \/ TenancyTxConfig(k)
      BY <2>1, CallOwned, ConfigOwned
    <2>2. ASSUME NEW c \in Conns, ItxBegin(k, c) \/ TenancyTxBegin(k, c) \/ TxCommit(k, c)
          PROVE  Owned'
      BY <2>2, BeginOwned, CommitOwned
    <2>3. ASSUME NEW c \in Conns, NEW s \in Statements, TenancyTxQuery(k, c, s)
          PROVE  Owned'
      BY <2>3, TenancyTxQueryOwned
    <2>4. QED
      BY <1>4, <2>1, <2>2, <2>3 DEF TransactionStep
  <1>5. ASSUME NEW c \in Conns, Rollback(c) PROVE Owned'
    BY <1>5, RollbackOwned
  <1>6. ASSUME UNCHANGED vars PROVE Owned'
    BY <1>6 DEF vars, IInv, Owned, ItxScoped, PendingOwned, AnswersIsolated, TenantOf
  <1>7. Owned'
    BY <1>2, <1>3, <1>4, <1>5, <1>6 DEF Next
  <1>8. Base' /\ Owned' => IInv'
    BY DEF IInv, Base, Owned
  <1>9. QED
    BY <1>1, <1>7, <1>8

\* Under row-level security, and when an interactive transaction is used in the
\* context it was opened in, the invariant holds in every reachable state.
THEOREM InvariantHolds ==
  ASSUME RlsEnforced, ~ MixedItx
  PROVE  Spec => []IInv
  <1>1. Init => IInv
    <2>1. Init => Owned
      BY DatabaseConstants
         DEF Init, Owned, ItxScoped, PendingOwned, AnswersIsolated, NewConnection,
             NoWrites, NoAnswer
    <2>2. QED
      BY <2>1, InitBase, InvariantParts
  <1>2. IInv /\ [Next]_vars => IInv'
    BY NextIInv
  <1>3. QED
    BY <1>1, <1>2, PTL DEF Spec

-------------------------------------------------------------------------------
(***************************************************************************)
(* The refinement: what the tasks do is what TenantIsolation allows.       *)
(***************************************************************************)
\* A transaction that commits leaves every owned row with its owner.
LEMMA CommittedRows ==
  ASSUME IInv, NEW c \in Conns, rows' \in {rows, View(db[c], rows)}
  PROVE  \A i \in Ids : rows[i] # NoTenant => rows'[i] = rows[i]
BY DEF IInv, PendingOwned, View

\* What a step does to the committed rows and to the answers.
LEMMA StepEffect ==
  ASSUME IInv, RlsEnforced, ~ MixedItx, Next
  PROVE  /\ \A i \in Ids : rows[i] # NoTenant => rows'[i] = rows[i]
         /\ \/ \E ks \in SUBSET Tasks :
                 answer' = [j \in Tasks |-> IF j \in ks THEN NoAnswer ELSE answer[j]]
            \/ \E k \in Tasks, x \in TenantOrNull, owners \in SUBSET Tenants :
                 answer' = [answer EXCEPT ![k] = [scope |-> x, owners |-> owners]]
  <1> DEFINE Kept == \A i \in Ids : rows[i] # NoTenant => rows'[i] = rows[i]
             Forgot == \E ks \in SUBSET Tasks :
               answer' = [j \in Tasks |-> IF j \in ks THEN NoAnswer ELSE answer[j]]
             Gave == \E k \in Tasks, x \in TenantOrNull, owners \in SUBSET Tenants :
               answer' = [answer EXCEPT ![k] = [scope |-> x, owners |-> owners]]
  <1>1. answer \in [Tasks -> Answer] /\ op \in [Tasks -> Op] /\ rows \in Table
    BY DEF IInv, TypeOK
  <1>2. IInv'
    BY NextIInv
  <1>3. UNCHANGED answer => Forgot
    <2> SUFFICES ASSUME UNCHANGED answer PROVE Forgot
      OBVIOUS
    <2>1. answer' = [j \in Tasks |-> IF j \in {} THEN NoAnswer ELSE answer[j]]
      BY <1>1
    <2>2. {} \in SUBSET Tasks
      OBVIOUS
    <2>3. QED
      BY <2>1, <2>2, Zenon
  <1>4. ASSUME NEW k \in Tasks, answer' = [answer EXCEPT ![k] = NoAnswer] PROVE Forgot
    <2>1. answer' = [j \in Tasks |-> IF j \in {k} THEN NoAnswer ELSE answer[j]]
      BY <1>1, <1>4
    <2>2. {k} \in SUBSET Tasks
      OBVIOUS
    <2>3. QED
      BY <2>1, <2>2, Zenon
  <1>5. ASSUME NEW k \in Tasks, NEW x, NEW owners,
               answer' = [answer EXCEPT ![k] = [scope |-> x, owners |-> owners]]
        PROVE  Gave
    <2>1. answer'[k] = [scope |-> x, owners |-> owners]
      BY <1>1, <1>5
    <2>2. answer'[k] \in Answer
      BY <1>2 DEF IInv, TypeOK
    <2>3. answer'[k].scope = x /\ answer'[k].owners = owners
      BY <2>1
    <2>4. x \in TenantOrNull /\ owners \in SUBSET Tenants
      BY <2>2, <2>3 DEF Answer
    <2>5. QED
      BY <1>5, <2>4
  <1>6. UNCHANGED rows => Kept
    OBVIOUS
  <1>7. ASSUME NEW k \in Tasks, ContextStep(k) PROVE Kept /\ Forgot
    BY <1>3, <1>6, <1>7 DEF ContextStep, EnterTenant, WithoutTenant, Leave, Enter
  <1>8. ASSUME NEW k \in Tasks, AllOperations(k) \/ TenancyTransaction(k)
        PROVE  Kept /\ Forgot
    BY <1>4, <1>6, <1>8, CallsAreCallable, InvariantParts DEF Call
  <1>9. ASSUME NEW k \in Tasks, OperationStep(k) PROVE Kept /\ (Forgot \/ Gave)
    <2>1. CASE SetScope(k) \/ GiveUp(k)
      BY <2>1, <1>3, <1>6 DEF SetScope, GiveUp
    <2>2. CASE ScopedQuery(k)
      BY <2>2, <1>5, <1>6 DEF ScopedQuery
    <2>3. CASE BatchCommit(k)
      <3>1. op[k].conn \in Conns
        BY <2>3 DEF BatchCommit, IInv, OperationsAttached, Attached
      <3>2. QED
        BY <2>3, <3>1, <1>3, CommitOwned, CommittedRows
    <2>4. ASSUME NEW c \in Conns, DirectQuery(k, c) PROVE Kept /\ Gave
      BY <2>4, <1>5, <1>6, DirectQueryOwned DEF DirectQuery, Finish
    <2>5. ASSUME NEW c \in Conns, BatchBegin(k, c) PROVE Kept /\ Forgot
      BY <2>5, <1>3, <1>6 DEF BatchBegin
    <2>6. QED
      BY <1>9, <2>1, <2>2, <2>3, <2>4, <2>5 DEF OperationStep
  <1>10. ASSUME NEW k \in Tasks, TransactionStep(k) PROVE Kept /\ (Forgot \/ Gave)
    <2>1. CASE TenancyTransaction(k)
      BY <2>1, <1>8
    <2>2. CASE TenancyTxConfig(k)
      BY <2>2, <1>3, <1>6 DEF TenancyTxConfig
    <2>3. ASSUME NEW c \in Conns, ItxBegin(k, c) \/ TenancyTxBegin(k, c)
          PROVE  Kept /\ Forgot
      BY <2>3, <1>3, <1>6 DEF ItxBegin, TenancyTxBegin
    <2>4. ASSUME NEW c \in Conns, TxCommit(k, c) PROVE Kept /\ Forgot
      BY <2>4, <1>3, CommitOwned, CommittedRows
    <2>5. ASSUME NEW c \in Conns, NEW s \in Statements, TenancyTxQuery(k, c, s)
          PROVE  Kept /\ Gave
      BY <2>5, <1>5, <1>6 DEF TenancyTxQuery
    <2>6. QED
      BY <1>10, <2>1, <2>2, <2>3, <2>4, <2>5 DEF TransactionStep
  <1>11. ASSUME NEW c \in Conns, Rollback(c) PROVE Kept /\ Forgot
    <2>1. UNCHANGED rows /\
          answer' = [j \in Tasks |-> IF op[j].conn = c THEN NoAnswer ELSE answer[j]]
      BY <1>11 DEF Rollback
    <2>2. answer' = [j \in Tasks |-> IF j \in {x \in Tasks : op[x].conn = c}
                                     THEN NoAnswer ELSE answer[j]]
      BY <2>1
    <2>3. QED
      BY <1>6, <2>1, <2>2
  <1>12. QED
    BY <1>7, <1>8, <1>9, <1>10, <1>11 DEF Next

\* Under row-level security the tasks, connections and transactions together
\* implement the abstract promise: no operation is given another tenant's row
\* and no row changes its owner, whatever tenant column its statements name.
THEOREM IsolationRefined ==
  ASSUME RlsEnforced, ~ MixedItx
  PROVE  Spec => TenantsIsolated
  <1>1. Init => Isolation!Init
    <2> SUFFICES ASSUME Init PROVE Isolation!Init
      OBVIOUS
    <2>1. rows \in Table /\ answer = [k \in Tasks |-> NoAnswer]
      BY DEF Init
    <2>2. \A t, u \in Tenants : t # u =>
             {i \in Ids : rows[i] = t} \cap {i \in Ids : rows[i] = u} = {}
      OBVIOUS
    <2>3. [t \in Tenants |-> {i \in Ids : rows[i] = t}] \in [Tenants -> SUBSET Ids]
      OBVIOUS
    <2>4. QED
      BY <2>1, <2>2, <2>3 DEF Isolation!Init, Isolation!Unanswered, NoAnswer
  <1>2. IInv /\ IInv' /\ [Next]_vars => [Isolation!Next]_(Isolation!isoVars)
    <2> SUFFICES ASSUME IInv, IInv', [Next]_vars
                 PROVE  [Isolation!Next]_(Isolation!isoVars)
      OBVIOUS
    <2>1. CASE UNCHANGED vars
      BY <2>1 DEF vars, Isolation!isoVars
    <2>2. CASE Next
      <3>1. \A i \in Ids : rows[i] # NoTenant => rows'[i] = rows[i]
        BY <2>2, StepEffect
      <3>2. Isolation!Grows
        BY <3>1, NoTenantIsNoId DEF Isolation!Grows
      <3>3. Isolation!Forgets \/ \E k \in Tasks : Isolation!Answers(k)
        <4>1. CASE \E ks \in SUBSET Tasks :
                 answer' = [j \in Tasks |-> IF j \in ks THEN NoAnswer ELSE answer[j]]
          BY <4>1 DEF Isolation!Forgets, Isolation!Unanswered, NoAnswer
        <4>2. ASSUME NEW k \in Tasks, NEW x \in TenantOrNull,
                     NEW owners \in SUBSET Tenants,
                     answer' = [answer EXCEPT ![k] = [scope |-> x, owners |-> owners]]
              PROVE  Isolation!Answers(k)
          <5>1. answer'[k] = [scope |-> x, owners |-> owners]
            BY <4>2 DEF IInv, TypeOK
          <5>2. owners \subseteq {x}
            BY <5>1 DEF IInv, AnswersIsolated
          <5>3. QED
            BY <4>2, <5>2, Zenon
               DEF Isolation!Answers, TenantOrNull, Isolation!TenantOrNull
        <4>3. QED
          BY <2>2, <4>1, <4>2, StepEffect
      <3>4. QED
        BY <3>2, <3>3 DEF Isolation!Next
    <2>3. QED
      BY <2>1, <2>2
  <1>3. QED
    BY <1>1, <1>2, InvariantHolds, PTL DEF Spec, TenantsIsolated, Isolation!Spec

-------------------------------------------------------------------------------
(***************************************************************************)
(* failClosed needs neither policies nor disciplined transactions: a step  *)
(* that changes a context finds its task idle, and a step that starts a    *)
(* query has just read the context.                                        *)
(***************************************************************************)
WellFormed(o) ==
  /\ {"mode", "phase", "scope", "stmt", "conn"} \subseteq DOMAIN o
  /\ o.mode = "direct" => o.phase = "query"

Shape ==
  /\ frames = [k \in Tasks |-> frames[k]]
  /\ op = [k \in Tasks |-> op[k]]
  /\ \A k \in Tasks : WellFormed(op[k])

\* The operation $allOperations starts runs directly only on a shared model,
\* or where the context lets it through.
LEMMA CallShape ==
  ASSUME NEW k \in Tasks, AllOperations(k)
  PROVE  \E o : /\ Call(k, o) /\ WellFormed(o)
                /\ o.mode = "direct" /\ o.stmt # SharedRead =>
                     PassesUnscoped(k) /\ TenantOf(k) = NoTenant
  <1> DEFINE Good(o) == /\ WellFormed(o)
                        /\ o.mode = "direct" /\ o.stmt # SharedRead =>
                             PassesUnscoped(k) /\ TenantOf(k) = NoTenant
  <1>1. Good(Idle)
    BY DEF WellFormed, Idle
  <1>2. ASSUME NEW via, CallShared(k, via) PROVE \E o : Call(k, o) /\ Good(o)
    <2>1. Good([Idle EXCEPT !.mode = "direct", !.phase = "query", !.conn = via])
      BY DEF WellFormed, Idle
    <2>2. QED
      BY <1>2, <2>1 DEF CallShared
  <1>3. ASSUME NEW via, NEW s, CallUnscoped(k, via, s)
        PROVE  \E o : Call(k, o) /\ Good(o)
    <2> DEFINE o == [Idle EXCEPT !.mode = "direct", !.phase = "query",
                                 !.stmt = s, !.conn = via]
    <2>1. WellFormed(o)
      BY DEF WellFormed, Idle
    <2>2. CASE PassesUnscoped(k)
      <3>1. Good(o) /\ Call(k, o)
        BY <1>3, <2>1, <2>2 DEF CallUnscoped
      <3>2. QED
        BY <3>1
    <2>3. CASE ~ PassesUnscoped(k)
      BY <1>1, <1>3, <2>3 DEF CallUnscoped
    <2>4. QED
      BY <2>2, <2>3
  <1>4. ASSUME NEW via, NEW s, CallScoped(k, via, s)
        PROVE  \E o : Call(k, o) /\ Good(o)
    <2> DEFINE o == [mode  |-> ScopedMode(via),
                     phase |-> IF ScopedMode(via) = "itx" THEN "config" ELSE "begin",
                     scope |-> TenantOf(k), stmt |-> Inject(s, TenantOf(k)),
                     conn  |-> IF ScopedMode(via) = "itx" THEN via ELSE NoConn]
    <2>1. o.mode # "direct"
      BY DEF ScopedMode
    <2>2. Good(o)
      BY <2>1 DEF WellFormed
    <2>3. Call(k, o)
      BY <1>4 DEF CallScoped
    <2>4. QED
      BY <2>2, <2>3
  <1>5. QED
    BY <1>2, <1>3, <1>4 DEF AllOperations

\* Every other step of a task leaves its context alone, and turns no operation
\* into one that runs directly.
LEMMA StepShape ==
  ASSUME Shape, NEW k \in Tasks, OperationStep(k) \/ TransactionStep(k)
  PROVE  /\ UNCHANGED frames
         /\ \E o : /\ op' = [op EXCEPT ![k] = o] /\ WellFormed(o)
                   /\ o.mode = "direct" => o = op[k]
  <1> DEFINE Moved(o) == /\ UNCHANGED frames
                         /\ op' = [op EXCEPT ![k] = o] /\ WellFormed(o)
                         /\ o.mode = "direct" => o = op[k]
  <1>1. WellFormed(Idle) /\ Idle.mode # "direct"
    BY DEF WellFormed, Idle
  <1>2. WellFormed(op[k]) /\ op = [op EXCEPT ![k] = op[k]]
    BY DEF Shape
  <1>3. CASE op' = [op EXCEPT ![k] = Idle] /\ UNCHANGED frames
    BY <1>1, <1>3
  <1>4. CASE UNCHANGED <<frames, op>>
    BY <1>2, <1>4
  <1>5. ASSUME NEW p, NEW c, op[k].mode # "direct", UNCHANGED frames,
               op' = [op EXCEPT ![k] = [op[k] EXCEPT !.phase = p, !.conn = c]]
        PROVE  \E o : Moved(o)
    <2> DEFINE o == [op[k] EXCEPT !.phase = p, !.conn = c]
    <2>1. WellFormed(o) /\ o.mode # "direct"
      BY <1>2, <1>5 DEF WellFormed
    <2>2. QED
      BY <1>5, <2>1
  <1>6. ASSUME NEW p, op[k].mode # "direct", UNCHANGED frames,
               op' = [op EXCEPT ![k] = [op[k] EXCEPT !.phase = p]]
        PROVE  \E o : Moved(o)
    <2> DEFINE o == [op[k] EXCEPT !.phase = p]
    <2>1. WellFormed(o) /\ o.mode # "direct"
      BY <1>2, <1>6 DEF WellFormed
    <2>2. QED
      BY <1>6, <2>1
  <1>7. CASE \E c : BatchBegin(k, c) \/ TenancyTxBegin(k, c)
    <2>1. PICK c : BatchBegin(k, c) \/ TenancyTxBegin(k, c)
      BY <1>7
    <2>2. /\ op[k].mode # "direct" /\ UNCHANGED frames
          /\ op' = [op EXCEPT ![k].phase = "config", ![k].conn = c]
      BY <2>1 DEF BatchBegin, TenancyTxBegin
    <2>3. op' = [op EXCEPT ![k] = [op[k] EXCEPT !.phase = "config", !.conn = c]]
      BY <2>2 DEF Shape
    <2>4. QED
      BY <1>5, <2>2, <2>3
  <1>8. CASE SetScope(k)
    <2>1. op[k].mode # "direct" /\ UNCHANGED frames
      BY <1>8 DEF SetScope
    <2>2. op' = [op EXCEPT ![k] = [op[k] EXCEPT !.phase = "query"]]
      BY <1>8 DEF SetScope, Shape
    <2>3. QED
      BY <1>6, <2>1, <2>2
  <1>9. CASE ScopedQuery(k)
    <2>1. op[k].mode # "direct" /\ UNCHANGED frames
      BY <1>9 DEF ScopedQuery
    <2>2. \/ op' = [op EXCEPT ![k] = Idle]
          \/ op' = [op EXCEPT ![k] = [op[k] EXCEPT !.phase = "commit"]]
      BY <1>9 DEF ScopedQuery, Shape
    <2>3. QED
      BY <1>3, <1>6, <2>1, <2>2
  <1>10. CASE BatchCommit(k) \/ GiveUp(k) \/ TenancyTxConfig(k)
    BY <1>3, <1>10 DEF BatchCommit, GiveUp, TenancyTxConfig
  <1>11. CASE \E c : DirectQuery(k, c)
    BY <1>3, <1>11 DEF DirectQuery, Finish
  <1>12. CASE \E c : \/ ItxBegin(k, c) \/ TxCommit(k, c)
                     \/ \E s : TenancyTxQuery(k, c, s)
    BY <1>4, <1>12 DEF ItxBegin, TxCommit, TenancyTxQuery
  <1>13. CASE TenancyTransaction(k)
    <2> DEFINE o == [Idle EXCEPT !.mode = "tenancy", !.phase = "begin",
                                 !.scope = TenantOf(k)]
    <2>1. op' = [op EXCEPT ![k] = o] /\ UNCHANGED frames
      BY <1>13 DEF TenancyTransaction, Call
    <2>2. WellFormed(o) /\ o.mode # "direct"
      BY DEF WellFormed, Idle
    <2>3. QED
      BY <2>1, <2>2
  <1>14. QED
    BY <1>7, <1>8, <1>9, <1>10, <1>11, <1>12, <1>13
       DEF OperationStep, TransactionStep

\* With failClosed, no statement on a tenant-scoped model reaches the database
\* without a tenant unless withoutTenant() opened its context.
THEOREM FailClosedHolds == Spec => []FailsClosed
  <1> DEFINE OK(o, stack) ==
        o.mode = "direct" /\ o.stmt # SharedRead =>
          \/ ~ FailClosed
          \/ IsBypassed(stack) /\ CurrentTenantId(stack) = NoTenant
  <1>1. Init => Shape /\ FailsClosed
    BY DEF Init, Shape, FailsClosed, WellFormed, Idle
  <1>2. Shape /\ FailsClosed /\ [Next]_vars => Shape' /\ FailsClosed'
    <2> SUFFICES ASSUME Shape, FailsClosed, [Next]_vars
                 PROVE  Shape' /\ FailsClosed'
      OBVIOUS
    <2>1. \A j \in Tasks : OK(op[j], frames[j]) /\ WellFormed(op[j])
      BY DEF FailsClosed, TenantOf, Shape
    <2>2. ASSUME NEW k \in Tasks, NEW o, WellFormed(o), UNCHANGED frames,
                 op' = [op EXCEPT ![k] = o], OK(o, frames[k])
          PROVE  Shape' /\ FailsClosed'
      <3>1. op'[k] = o /\ \A j \in Tasks : j # k => op'[j] = op[j]
        BY <2>2 DEF Shape
      <3>2. \A j \in Tasks : OK(op'[j], frames'[j]) /\ WellFormed(op'[j])
        BY <2>1, <2>2, <3>1
      <3>3. frames' = [j \in Tasks |-> frames'[j]] /\ op' = [j \in Tasks |-> op'[j]]
        BY <2>2 DEF Shape
      <3>4. QED
        BY <3>2, <3>3 DEF Shape, FailsClosed, TenantOf
    <2>3. ASSUME NEW k \in Tasks, ContextStep(k) PROVE Shape' /\ FailsClosed'
      <3>1. op[k].phase = "idle" /\ op' = op
        BY <2>3 DEF ContextStep, EnterTenant, WithoutTenant, Enter, Leave, CanMove
      <3>2. /\ frames' = [j \in Tasks |-> frames'[j]]
            /\ \A j \in Tasks : j # k => frames'[j] = frames[j]
        BY <2>3 DEF Shape, ContextStep, EnterTenant, WithoutTenant, Enter, Leave
      <3>3. op[k].mode # "direct"
        BY <2>1, <3>1 DEF WellFormed
      <3>4. \A j \in Tasks : OK(op'[j], frames'[j]) /\ WellFormed(op'[j])
        BY <2>1, <3>1, <3>2, <3>3
      <3>5. QED
        BY <3>1, <3>2, <3>4 DEF Shape, FailsClosed, TenantOf
    <2>4. ASSUME NEW k \in Tasks, AllOperations(k) PROVE Shape' /\ FailsClosed'
      <3>1. PICK o : /\ Call(k, o) /\ WellFormed(o)
                     /\ o.mode = "direct" /\ o.stmt # SharedRead =>
                          PassesUnscoped(k) /\ TenantOf(k) = NoTenant
        BY <2>4, CallShape
      <3>2. OK(o, frames[k])
        BY <3>1 DEF PassesUnscoped, TenantOf
      <3>3. QED
        BY <2>2, <3>1, <3>2 DEF Call
    <2>5. ASSUME NEW k \in Tasks, OperationStep(k) \/ TransactionStep(k)
          PROVE  Shape' /\ FailsClosed'
      BY <2>1, <2>2, <2>5, StepShape
    <2>6. ASSUME NEW c \in Conns, Rollback(c) PROVE Shape' /\ FailsClosed'
      <3>1. /\ UNCHANGED frames
            /\ op' = [j \in Tasks |-> IF op[j].conn = c THEN Idle ELSE op[j]]
        BY <2>6 DEF Rollback
      <3>2. WellFormed(Idle) /\ Idle.mode # "direct"
        BY DEF WellFormed, Idle
      <3>3. \A j \in Tasks : OK(op'[j], frames'[j]) /\ WellFormed(op'[j])
        BY <2>1, <3>1, <3>2
      <3>4. op' = [j \in Tasks |-> op'[j]]
        BY <3>1
      <3>5. QED
        BY <3>1, <3>3, <3>4 DEF Shape, FailsClosed, TenantOf
    <2>7. CASE UNCHANGED vars
      BY <2>7 DEF vars, Shape, FailsClosed, TenantOf
    <2>8. QED
      BY <2>3, <2>4, <2>5, <2>6, <2>7 DEF Next
  <1>3. QED
    BY <1>1, <1>2, PTL DEF Spec

-------------------------------------------------------------------------------
(***************************************************************************)
(* autoInjectTenantId, without any policy.  The statement of a batch was   *)
(* injected for the tenant its transaction was opened for; a row is        *)
(* written under a lock; and a transaction starts with nothing pending.    *)
(***************************************************************************)
InjectedFor(s, t) ==
  /\ s.kind # "update"
  /\ s.kind # "read" => s.create = t
  /\ s.kind = "upsert" => s.update = NoTenant

Injected ==
  \A k \in Tasks : op[k].mode = "batch" => InjectedFor(op[k].stmt, op[k].scope)

\* An injected statement inserts a row of its tenant, or leaves a row to the
\* tenant that has it.
LEMMA InjectedWrite ==
  ASSUME NEW c \in Connection, NEW r \in Table, NEW s \in Statement, NEW t,
         InjectedFor(s, t), ~ Refused(c, r, s), Written(c, r, s) # NoTenant
  PROVE  Written(c, r, s) = IF View(c, r)[s.id] = NoTenant THEN t ELSE View(c, r)[s.id]
  <1>1. s.id \in Ids /\ s.kind \in {"create", "upsert"}
    <2>1. s.id \in Ids /\ s.kind \in Kinds
      BY StatementTypes
    <2>2. s.kind # "read"
      BY DEF Written, Inserts
    <2>3. s.kind # "update"
      BY DEF InjectedFor
    <2>4. QED
      BY <2>1, <2>2, <2>3 DEF Kinds
  <1>2. CASE s.id \in Visible(c, r) /\ s.kind = "upsert"
    <2>1. View(c, r)[s.id] # NoTenant
      BY <1>2, NoTenantIsNoId DEF Visible
    <2>2. ~ Inserts(c, r, s) /\ s.kind # "read"
      BY <1>2 DEF Inserts
    <2>3. Written(c, r, s) = Updated(c, r, s)
      BY <1>2, <2>2 DEF Written
    <2>4. QED
      BY <1>2, <2>1, <2>3 DEF Updated, InjectedFor
  <1>3. CASE s.id \notin Visible(c, r) \/ s.kind = "create"
    <2>1. Inserts(c, r, s) /\ Written(c, r, s) = s.create
      BY <1>1, <1>3 DEF Inserts, Written
    <2>2. View(c, r)[s.id] = NoTenant
      BY <2>1 DEF Refused
    <2>3. QED
      BY <1>1, <2>1, <2>2 DEF InjectedFor
  <1>4. QED
    BY <1>1, <1>2, <1>3

\* Where the application issues no update, the statement of every batch that
\* $allOperations starts is injected.
LEMMA CallInjected ==
  ASSUME AutoInject, \A s \in Statements : s.kind # "update",
         Base, Injected, NEW k \in Tasks, AllOperations(k)
  PROVE  Injected'
  <1>1. ASSUME NEW o, op' = [op EXCEPT ![k] = o],
               o.mode = "batch" => InjectedFor(o.stmt, o.scope)
        PROVE  Injected'
    BY <1>1 DEF Base, TypeOK, Injected
  <1>2. Idle.mode # "batch"
    BY DEF Idle
  <1>3. ASSUME NEW via, CallShared(k, via) PROVE Injected'
    <2> DEFINE o == [Idle EXCEPT !.mode = "direct", !.phase = "query", !.conn = via]
    <2>1. op' = [op EXCEPT ![k] = o] /\ o.mode # "batch"
      BY <1>3 DEF CallShared, Call, Idle
    <2>2. QED
      BY <1>1, <2>1
  <1>4. ASSUME NEW via, NEW s, CallUnscoped(k, via, s) PROVE Injected'
    <2> DEFINE o == [Idle EXCEPT !.mode = "direct", !.phase = "query",
                                 !.stmt = s, !.conn = via]
    <2>1. op' = [op EXCEPT ![k] = o] \/ op' = [op EXCEPT ![k] = Idle]
      BY <1>4 DEF CallUnscoped, Call
    <2>2. o.mode # "batch"
      BY DEF Idle
    <2>3. QED
      BY <1>1, <1>2, <2>1, <2>2
  <1>5. ASSUME NEW via, NEW s \in Statements, CallScoped(k, via, s) PROVE Injected'
    <2> DEFINE t == TenantOf(k)
               o == [mode  |-> ScopedMode(via),
                     phase |-> IF ScopedMode(via) = "itx" THEN "config" ELSE "begin",
                     scope |-> t, stmt |-> Inject(s, t),
                     conn  |-> IF ScopedMode(via) = "itx" THEN via ELSE NoConn]
    <2>1. op' = [op EXCEPT ![k] = o]
      BY <1>5 DEF CallScoped, Call
    <2>2. s \in Statement /\ s.kind # "update"
      BY PrismaConstants
    <2>3. s.kind \in {"read", "create", "upsert"}
      BY <2>2 DEF Statement, Kinds
    <2>4. InjectedFor(Inject(s, t), t)
      <3>1. CASE s.kind = "read"
        BY <3>1, AutoInject DEF Inject, InjectedFor
      <3>2. CASE s.kind = "create"
        <4>1. Inject(s, t) = [s EXCEPT !.create = t]
          BY <3>2, AutoInject DEF Inject
        <4>2. QED
          BY <4>1, <3>2, <2>2 DEF InjectedFor, Statement
      <3>3. CASE s.kind = "upsert"
        <4>1. Inject(s, t) = [StripTenantField(s) EXCEPT !.create = t]
          BY <3>3, AutoInject DEF Inject
        <4>2. QED
          BY <4>1, <3>3, <2>2 DEF InjectedFor, Statement, StripTenantField
      <3>4. QED
        BY <2>3, <3>1, <3>2, <3>3
    <2>5. o.stmt = Inject(s, t) /\ o.scope = t
      OBVIOUS
    <2>6. QED
      BY <1>1, <2>1, <2>4, <2>5
  <1>6. QED
    BY <1>3, <1>4, <1>5 DEF AllOperations

\* No other step gives a batch another statement, or another tenant.
LEMMA StatementKept ==
  ASSUME Base, Injected,
         \/ \E k \in Tasks : ContextStep(k) \/ OperationStep(k) \/ TransactionStep(k)
         \/ \E c \in Conns : Rollback(c)
  PROVE  Injected'
  <1>1. SUFFICES \A j \in Tasks : op'[j].mode = "batch" =>
                    /\ op[j].mode = "batch" /\ op'[j].scope = op[j].scope
                    /\ op'[j].stmt = op[j].stmt
    BY DEF Injected
  <1> DEFINE Kept == \A j \in Tasks : op'[j].mode = "batch" =>
                    /\ op[j].mode = "batch" /\ op'[j].scope = op[j].scope
                    /\ op'[j].stmt = op[j].stmt
  <1>2. op \in [Tasks -> Op]
    BY DEF Base, TypeOK
  <1>3. ASSUME NEW k \in Tasks, ContextStep(k) \/ OperationStep(k) \/ TransactionStep(k)
        PROVE  Kept
    <2>1. CASE ContextStep(k)
      BY <2>1 DEF ContextStep, EnterTenant, WithoutTenant, Enter, Leave
    <2>2. CASE SetScope(k) \/ ScopedQuery(k)
      BY <2>2, <1>2 DEF SetScope, ScopedQuery, Idle, Op
    <2>3. CASE BatchCommit(k) \/ GiveUp(k) \/ TenancyTxConfig(k)
      BY <2>3, <1>2 DEF BatchCommit, GiveUp, TenancyTxConfig, Idle
    <2>4. CASE TenancyTransaction(k)
      BY <2>4, <1>2 DEF TenancyTransaction, Call, Idle
    <2>5. ASSUME NEW c \in Conns,
                 DirectQuery(k, c) \/ BatchBegin(k, c) \/ TenancyTxBegin(k, c)
          PROVE  Kept
      BY <2>5, <1>2 DEF DirectQuery, Finish, BatchBegin, TenancyTxBegin, Idle, Op
    <2>6. ASSUME NEW c \in Conns, ItxBegin(k, c) \/ TxCommit(k, c) PROVE Kept
      BY <2>6 DEF ItxBegin, TxCommit
    <2>7. ASSUME NEW c \in Conns, NEW s \in Statements, TenancyTxQuery(k, c, s)
          PROVE  Kept
      BY <2>7 DEF TenancyTxQuery
    <2>8. QED
      BY <1>3, <2>1, <2>2, <2>3, <2>4, <2>5, <2>6, <2>7
         DEF OperationStep, TransactionStep
  <1>4. ASSUME NEW c \in Conns, Rollback(c) PROVE Kept
    BY <1>4, <1>2 DEF Rollback, Idle
  <1>5. QED
    BY <1>3, <1>4

\* A step that writes no row another batch has pending, and leaves what a batch
\* has pending alone.
LEMMA PendingKept ==
  ASSUME InjectedWritesStayOwn,
         \A d \in Conns : db'[d].tx = "batch" =>
           \/ \A i \in Ids : db'[d].pend[i] = NoTenant
           \/ /\ db[d].tx = "batch" /\ db'[d].tenant = db[d].tenant
              /\ \A i \in Ids : db[d].pend[i] # NoTenant => rows'[i] = rows[i]
              /\ \A i \in Ids : db'[d].pend[i] = db[d].pend[i]
  PROVE  InjectedWritesStayOwn'
  <1> SUFFICES ASSUME NEW d \in Conns, NEW i \in Ids, db'[d].tx = "batch",
                      db'[d].pend[i] # NoTenant
               PROVE  db'[d].pend[i] = IF rows'[i] = NoTenant THEN db'[d].tenant
                                       ELSE rows'[i]
    BY DEF InjectedWritesStayOwn
  <1>1. /\ db[d].tx = "batch" /\ db'[d].tenant = db[d].tenant
        /\ db'[d].pend[i] = db[d].pend[i] /\ rows'[i] = rows[i]
    OBVIOUS
  <1>2. QED
    BY <1>1 DEF InjectedWritesStayOwn

\* What a batch or a tenancyTransaction writes, and the statement of a
\* transparent interactive transaction.
LEMMA ScopedQueryStaysOwn ==
  ASSUME Base, Injected, InjectedWritesStayOwn, NEW k \in Tasks, ScopedQuery(k)
  PROVE  InjectedWritesStayOwn'
  <1> DEFINE c == op[k].conn
             s == op[k].stmt
  <1>1. /\ op[k].mode \in {"batch", "itx"} /\ op[k].phase = "query"
        /\ ~ Refused(db[c], rows, s)
        /\ Unlocked(c, s)
        /\ db' = [db EXCEPT ![c] = Executed(@, rows, s)]
        /\ UNCHANGED rows
    BY DEF ScopedQuery
  <1>2. /\ c \in Conns /\ s \in Statement /\ ~ Free(c)
        /\ db[c].tx = op[k].mode
        /\ db[c].tx = "batch" => db[c].tenant = op[k].scope
    BY <1>1 DEF Base, TypeOK, OperationsAttached, Attached, Op, Free
  <1>3. db[c] \in Connection /\ rows \in Table
    BY <1>2 DEF Base, TypeOK
  <1>4. /\ \A d \in Conns : db'[d].tx = db[d].tx /\ db'[d].tenant = db[d].tenant
        /\ \A d \in Conns, i \in Ids : db'[d].pend[i] # db[d].pend[i] =>
              /\ d = c /\ i = s.id
              /\ db'[d].pend[i] = Written(db[c], rows, s)
              /\ db'[d].pend[i] # NoTenant
    <2>1. db' = [db EXCEPT ![c] = Executed(@, rows, s)] /\ UNCHANGED rows
      BY <1>1
    <2> HIDE DEF c, s
    <2>2. QED
      BY <1>1, <1>2, <2>1, StatementStep, Zenon
  <1> SUFFICES ASSUME NEW d \in Conns, NEW i \in Ids, db'[d].tx = "batch",
                      db'[d].pend[i] # NoTenant
               PROVE  db'[d].pend[i] = IF rows[i] = NoTenant THEN db[d].tenant
                                       ELSE rows[i]
    BY <1>1, <1>4 DEF InjectedWritesStayOwn
  <1>5. CASE db'[d].pend[i] = db[d].pend[i]
    BY <1>4, <1>5 DEF InjectedWritesStayOwn
  <1>6. CASE db'[d].pend[i] # db[d].pend[i]
    <2>1. /\ d = c /\ i = s.id /\ db'[d].pend[i] = Written(db[c], rows, s)
          /\ db[c].tx = "batch"
      BY <1>4, <1>6
    <2>2. InjectedFor(s, db[c].tenant)
      BY <1>2, <2>1 DEF Injected
    <2>3. Written(db[c], rows, s) = IF View(db[c], rows)[i] = NoTenant THEN db[c].tenant
                                    ELSE View(db[c], rows)[i]
      BY <1>1, <1>2, <1>3, <2>1, <2>2, InjectedWrite
    <2>4. View(db[c], rows)[i] =
            IF db[c].pend[i] = NoTenant THEN rows[i] ELSE db[c].pend[i]
      BY DEF View
    <2>5. QED
      BY <1>6, <2>1, <2>3, <2>4
  <1>7. QED
    BY <1>5, <1>6

\* A query outside any transaction of the extension writes no row that is
\* pending somewhere, and a statement of an interactive transaction nothing of
\* a batch.
LEMMA OtherQueryStaysOwn ==
  ASSUME Base, InjectedWritesStayOwn, NEW k \in Tasks, NEW c \in Conns,
         DirectQuery(k, c) \/ (\E s \in Statements : TenancyTxQuery(k, c, s))
  PROVE  InjectedWritesStayOwn'
  <1>1. ASSUME NEW s \in Statement, db[c].tx \in {"itx", "tenancy"}, Unlocked(c, s),
               db' = [db EXCEPT ![c] = Executed(@, rows, s)], UNCHANGED rows
        PROVE  InjectedWritesStayOwn'
    <2>1. ~ Free(c)
      BY <1>1 DEF Free
    <2>2. /\ \A d \in Conns : db'[d].tx = db[d].tx /\ db'[d].tenant = db[d].tenant
          /\ \A d \in Conns, i \in Ids : db'[d].pend[i] # db[d].pend[i] => d = c
      BY <1>1, <2>1, StatementStep
    <2>3. \A d \in Conns, i \in Ids :
            db'[d].tx = "batch" => db'[d].pend[i] = db[d].pend[i]
      BY <1>1, <2>2
    <2>4. QED
      BY <1>1, <2>2, <2>3, PendingKept
  <1>2. CASE \E s \in Statements : TenancyTxQuery(k, c, s)
    <2>1. PICK s \in Statements : TenancyTxQuery(k, c, s)
      BY <1>2
    <2>2. s \in Statement
      BY PrismaConstants
    <2>3. QED
      BY <1>1, <2>1, <2>2 DEF TenancyTxQuery
  <1>3. CASE DirectQuery(k, c)
    <2> DEFINE s == op[k].stmt
    <2>1. /\ op[k].mode = "direct"
          /\ IF op[k].conn = NoConn THEN Free(c) ELSE c = op[k].conn
      BY <1>3 DEF DirectQuery
    <2>2. CASE UNCHANGED <<db, rows>>
      BY <2>2 DEF InjectedWritesStayOwn
    <2>3. CASE /\ s \in Statement /\ Unlocked(c, s) /\ op[k].conn = NoConn
               /\ rows' = View(Executed(db[c], rows, s), rows) /\ UNCHANGED db
      <3>1. db[c] \in Connection /\ rows \in Table
        BY DEF Base, TypeOK
      <3>2. \A i \in Ids : db[c].pend[i] = NoTenant
        BY <2>1, <2>3 DEF Base, NoResidualTenant, NoWrites
      <3>3. \A i \in Ids : i # s.id => Executed(db[c], rows, s).pend[i] = db[c].pend[i]
        BY <2>3, <3>1, ExecutedEffect
      <3>4. \A i \in Ids : i # s.id => rows'[i] = rows[i]
        BY <2>3, <3>2, <3>3 DEF View
      <3>5. \A d \in Conns, i \in Ids : db[d].pend[i] # NoTenant => i # s.id
        BY <2>3, <3>2 DEF Unlocked
      <3>6. QED
        BY <2>3, <3>4, <3>5, PendingKept
    <2>4. CASE /\ s \in Statement /\ Unlocked(c, s) /\ op[k].conn # NoConn
               /\ db' = [db EXCEPT ![c] = Executed(@, rows, s)] /\ UNCHANGED rows
      <3>1. db[c].tx = "itx"
        BY <2>1, <2>4 DEF Base, OperationsAttached, Attached
      <3>2. QED
        BY <1>1, <2>4, <3>1
    <2>5. QED
      BY <1>3, <2>2, <2>3, <2>4 DEF DirectQuery
  <1>4. QED
    BY <1>2, <1>3

\* The end of a transaction: only rows of its own lock change, and its
\* connection has nothing pending.
LEMMA ReleaseStaysOwn ==
  ASSUME Base, InjectedWritesStayOwn, NEW c \in Conns,
         rows' \in {rows, View(db[c], rows)}, db'[c].tx = "free",
         \A d \in Conns \ {c} : db'[d] = db[d]
  PROVE  InjectedWritesStayOwn'
  <1>1. ASSUME NEW d \in Conns \ {c}, NEW i \in Ids, db[d].pend[i] # NoTenant
        PROVE  rows'[i] = rows[i]
    <2>1. db[c].pend[i] = NoTenant
      BY <1>1 DEF Base, OneWriter
    <2>2. QED
      BY <2>1 DEF View
  <1>2. QED
    BY <1>1, PendingKept

\* Injected statements stay with their tenant: one step.
LEMMA NextStaysOwn ==
  ASSUME AutoInject, \A s \in Statements : s.kind # "update",
         Base, Injected, InjectedWritesStayOwn, [Next]_vars
  PROVE  Injected' /\ InjectedWritesStayOwn'
  <1>1. Injected'
    <2>1. CASE UNCHANGED vars
      BY <2>1 DEF vars, Injected
    <2>2. QED
      BY <2>1, CallInjected, StatementKept DEF Next
  <1>2. ASSUME UNCHANGED <<db, rows>> PROVE InjectedWritesStayOwn'
    BY <1>2 DEF InjectedWritesStayOwn
  <1>3. ASSUME NEW k \in Tasks,
               ContextStep(k) \/ AllOperations(k) \/ GiveUp(k) \/ TenancyTransaction(k)
        PROVE  InjectedWritesStayOwn'
    BY <1>2, <1>3, ContextBase, CallBase DEF GiveUp
  <1>4. ASSUME NEW k \in Tasks, NEW c \in Conns,
               BatchBegin(k, c) \/ TenancyTxBegin(k, c) \/ ItxBegin(k, c)
        PROVE  InjectedWritesStayOwn'
    <2>1. /\ UNCHANGED rows /\ \A d \in Conns : db'[d].pend = db[d].pend
          /\ \A d \in Conns \ {c} : db'[d] = db[d]
      BY <1>4, BeginBase
    <2>2. \A i \in Ids : db[c].pend[i] = NoTenant
      BY <1>4 DEF BatchBegin, TenancyTxBegin, ItxBegin, Base, NoResidualTenant, NoWrites
    <2>3. QED
      BY <2>1, <2>2, PendingKept
  <1>5. ASSUME NEW k \in Tasks, SetScope(k) \/ TenancyTxConfig(k)
        PROVE  InjectedWritesStayOwn'
    BY <1>5, ConfigBase, PendingKept
  <1>6. ASSUME NEW k \in Tasks, OperationStep(k) PROVE InjectedWritesStayOwn'
    <2>1. CASE BatchCommit(k)
      <3>1. op[k].conn \in Conns
        BY <2>1 DEF BatchCommit, Base, OperationsAttached, Attached
      <3>2. QED
        BY <2>1, <3>1, CommitBase, ReleaseStaysOwn
    <2>2. QED
      BY <1>3, <1>4, <1>5, <1>6, <2>1, ScopedQueryStaysOwn, OtherQueryStaysOwn
         DEF OperationStep
  <1>7. ASSUME NEW k \in Tasks, TransactionStep(k) PROVE InjectedWritesStayOwn'
    <2>1. ASSUME NEW c \in Conns, TxCommit(k, c) PROVE InjectedWritesStayOwn'
      BY <2>1, CommitBase, ReleaseStaysOwn
    <2>2. ASSUME NEW c \in Conns, \E s \in Statements : TenancyTxQuery(k, c, s)
          PROVE  InjectedWritesStayOwn'
      BY <2>2, OtherQueryStaysOwn
    <2>3. QED
      BY <1>3, <1>4, <1>5, <1>7, <2>1, <2>2 DEF TransactionStep
  <1>8. ASSUME NEW c \in Conns, Rollback(c) PROVE InjectedWritesStayOwn'
    BY <1>8, RollbackBase, ReleaseStaysOwn
  <1>9. ASSUME UNCHANGED vars PROVE InjectedWritesStayOwn'
    BY <1>2, <1>9 DEF vars
  <1>10. QED
    BY <1>1, <1>3, <1>6, <1>7, <1>8, <1>9 DEF Next

\* With autoInjectTenantId and no policy at all, as long as the application
\* issues no update: what a scoped create or upsert leaves pending belongs to
\* the tenant of its context where the row is new, and to the tenant that has
\* the row where it is not.
THEOREM InjectionHolds ==
  ASSUME AutoInject, \A s \in Statements : s.kind # "update"
  PROVE  Spec => []InjectedWritesStayOwn
  <1>1. Init => Injected /\ InjectedWritesStayOwn
    BY DEF Init, Injected, InjectedWritesStayOwn, Idle, NewConnection
  <1>2. Base /\ Injected /\ InjectedWritesStayOwn /\ [Next]_vars
          => Injected' /\ InjectedWritesStayOwn'
    BY NextStaysOwn
  <1>3. QED
    BY <1>1, <1>2, BaseHolds, PTL DEF Spec
===============================================================================
