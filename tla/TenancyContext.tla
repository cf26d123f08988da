---------------------------- MODULE TenancyContext ----------------------------
(***************************************************************************)
(* The AsyncLocalStorage store of src/src/services/tenancy-context.ts.     *)
(*                                                                         *)
(* A chain of asynchronous calls sees the store of the innermost           *)
(* storage.run() that is still open around it, and sees the enclosing one  *)
(* again when that callback settles.  The chain therefore carries a stack  *)
(* of frames, innermost last; the empty stack is "no store".  Node.js      *)
(* keeps the stack of a chain across its awaits, whatever other chains run *)
(* in between: the modules that compose this one give every chain a stack  *)
(* of its own.                                                             *)
(***************************************************************************)
EXTENDS Naturals, Sequences

CONSTANTS
  Tenants,    \* tenant ids an application can meet, valid or not
  NoTenant    \* null: no tenant id

ASSUME NoTenantIsNoId == NoTenant \notin Tenants

TenantOrNull == Tenants \cup {NoTenant}

(***************************************************************************)
(* The three shapes of TenantStore.                                        *)
(***************************************************************************)
EmptyFrame     == [tenantId |-> NoTenant, bypassed |-> FALSE]
BypassFrame    == [tenantId |-> NoTenant, bypassed |-> TRUE]
TenantFrame(t) == [tenantId |-> t, bypassed |-> FALSE]

Frame == {EmptyFrame, BypassFrame} \cup {TenantFrame(t) : t \in Tenants}

Stack == Seq(Frame)

(***************************************************************************)
(* What the code reads: getCurrentTenantId and isBypassed.                 *)
(***************************************************************************)
CurrentTenantId(s) == IF s = <<>> THEN NoTenant ELSE s[Len(s)].tenantId
IsBypassed(s)      == IF s = <<>> THEN FALSE ELSE s[Len(s)].bypassed

(***************************************************************************)
(* What the code opens: run, runWithoutTenant, runInEmptyTenancyContext;   *)
(* and Exit, the end of the callback that one of them was given.           *)
(***************************************************************************)
Run(s, t)           == Append(s, TenantFrame(t))
RunWithoutTenant(s) == Append(s, BypassFrame)
RunInEmpty(s)       == Append(s, EmptyFrame)
Exit(s)             == SubSeq(s, 1, Len(s) - 1)
===============================================================================
