----------------------------- MODULE MCStaticCheck -----------------------------
(***************************************************************************)
(* Instances of StaticCheck for TLC.                                       *)
(***************************************************************************)
EXTENDS StaticCheck

CONSTANTS A, B, users, plans, public, billing

\* The second table has a schema of its own.
Placed == [t \in Tables |-> IF t = plans THEN billing ELSE public]

\* A tenant-scoped model beside one that has no tenant column, or beside another
\* one of the other type.
Start == {[t \in Tables |-> IF t = users THEN "text" ELSE "unscoped"],
          [t \in Tables |-> IF t = users THEN "uuid" ELSE "text"]}

Shares == {{}, {plans}}

Open == [command |-> "ALL", permissive |-> TRUE, roles |-> "PUBLIC",
         using |-> "true", check |-> NoExpr]

\* What a hand may add: any line of the generator, on the wrong table too, and
\* one of every other sort.
Additions ==
  {Line(op, Public) : op \in {"start", "end", "COMMIT", "escalate", "otherKey", "open"}}
  \cup {Line(op, users) : op \in {"shared", "enable", "disable", "do"}}
  \cup {Line("grant", plans), Line("enable", plans)}
  \cup {GuardedPolicy(users, "isolation", "text"),
        PolicyLine("guarded", users, "extra", Open, "any"),
        PolicyLine("create", users, "isolation", Open, "any"),
        PolicyLine("create", users, "extra", [Open EXCEPT !.permissive = FALSE], "any")}
===============================================================================
