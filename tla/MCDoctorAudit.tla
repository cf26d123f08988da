----------------------------- MODULE MCDoctorAudit -----------------------------
(***************************************************************************)
(* Instances of DoctorAudit for TLC.                                       *)
(***************************************************************************)
EXTENDS DoctorAudit

CONSTANTS A, B

\* The generated policies with one part changed, and a few that are broader or
\* narrower than any of them.
OnePart(p) ==
  {[p EXCEPT !.permissive = ~ @]}
  \cup {[p EXCEPT !.roles = r] : r \in {"app", "other"}}
  \cup {[p EXCEPT !.using = e] : e \in Expressions}
  \cup {[p EXCEPT !.check = e] : e \in Expressions \cup {NoExpr}}
  \cup {[p EXCEPT !.command = c, !.check = NoExpr] : c \in {"SELECT", "DELETE"}}
  \cup {[p EXCEPT !.command = "UPDATE"]}

Changed ==
  {p \in UNION {{GeneratedPolicy(n)} \cup OnePart(GeneratedPolicy(n)) : n \in Generated} :
     WellFormed(p)}
===============================================================================
