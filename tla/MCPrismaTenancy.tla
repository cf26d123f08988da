---------------------------- MODULE MCPrismaTenancy ----------------------------
(***************************************************************************)
(* Instances of PrismaTenancy for TLC.                                     *)
(***************************************************************************)
EXTENDS PrismaTenancy, TLC

CONSTANTS A, B, r1

Stmt(kind, create, update) ==
  [kind |-> kind, id |-> r1, create |-> create, update |-> update]

\* A read, a create and an upsert that name tenant B whoever issues them, and
\* an update that tries to move the row to B.
AllStatements ==
  {Stmt("read", NoTenant, NoTenant), Stmt("create", B, NoTenant),
   Stmt("upsert", B, B), Stmt("update", NoTenant, B)}

InjectedWrites == {Stmt("create", B, NoTenant), Stmt("upsert", B, B)}

ReadOrUpsert == {Stmt("read", NoTenant, NoTenant), Stmt("upsert", B, B)}

\* A task starts with no store, inside a request, or inside a tenant's job.
Starts == {<<>>, <<EmptyFrame>>, <<TenantFrame(A)>>, <<TenantFrame(B)>>}

\* Or inside a bypass, or where one context is nested in another, to which the
\* task may return.
NestedStarts ==
  Starts \cup {<<BypassFrame>>, <<TenantFrame(A), BypassFrame>>,
               <<BypassFrame, TenantFrame(B)>>, <<TenantFrame(A), TenantFrame(B)>>}

RequestStarts == {<<TenantFrame(A)>>, <<TenantFrame(B)>>}

\* Tasks and connections are interchangeable; tenants are not, statements name
\* them.
Symmetry == Permutations(Tasks) \cup Permutations(Conns)
===============================================================================
