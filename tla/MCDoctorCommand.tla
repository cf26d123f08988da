---------------------------- MODULE MCDoctorCommand ----------------------------
(***************************************************************************)
(* Instances of DoctorCommand for TLC.                                     *)
(***************************************************************************)
EXTENDS DoctorCommand, TLC

CONSTANTS A, B, Lower, Plain

\* A tenant in its usual and in another spelling, and an id that is no UUID.
Ids4 == {A, B, Lower, Plain}
Spelled == (A :> A) @@ (B :> B) @@ (Lower :> A)

\* The database as the script leaves it, and with one part of it changed.
Good == AfterSetup(Fresh)

AnyRow == [IsolationPolicy EXCEPT !.using = "true"]

Changed ==
  {Good, [Good EXCEPT !.column = "uuid"],
   [Good EXCEPT !.usage = FALSE], [Good EXCEPT !.dml = FALSE],
   [Good EXCEPT !.role = "bypassrls"], [Good EXCEPT !.rls = FALSE],
   [Good EXCEPT !.policies["guard"] = NoPolicy],
   [Good EXCEPT !.policies["isolation"] = NoPolicy],
   [Good EXCEPT !.policies["extra"] = AnyRow]}

Reached ==
  {[cat |-> c, who |-> "app"] : c \in Changed}
  \cup {[cat |-> Good, who |-> "admin"],
        [cat |-> [Good EXCEPT !.role = "none"], who |-> "admin"],
        [cat |-> [Good EXCEPT !.column = "uuid"], who |-> "setRole"]}

Stored == {{}, {A}, {A, B}}

\* Command lines that are right, and those with one or two flags changed.
NoFlags == [command |-> "doctor", help |-> FALSE, json |-> 0, active |-> 0, stray |-> FALSE]
Typing(n, flags) ==
  [typed |-> [NoFlags EXCEPT !.active = n],
   values |-> flags @@ ("DATABASE_URL" :> "url") @@ NoValues]

OneTable == ("table" :> "public.t") @@ ("role" :> "app")
OfTenants(a, b) == ("tenantA" :> a) @@ ("tenantB" :> b)

Right ==
  {Typing(0, OneTable), Typing(1, OneTable @@ OfTenants(A, B)),
   Typing(0, "manifest" :> "path"), Typing(1, "manifest" :> "path")}

Differently(c) ==
  {[c EXCEPT !.typed.json = n] : n \in 0 .. 2}
  \cup {[c EXCEPT !.typed.active = n] : n \in 0 .. 2}
  \cup {[c EXCEPT !.typed.stray = TRUE], [c EXCEPT !.typed.help = TRUE]}
  \cup {[c EXCEPT !.values[f] = v] : f \in {"tenantA", "tenantB"}, v \in {Absent, A, Lower, Plain}}
  \cup {[c EXCEPT !.values[f] = v] : f \in {"role", "settingKey", "tenantColumn"},
                                     v \in {Absent, "valid", "invalid"}}
  \cup {[c EXCEPT !.values["table"] = v] : v \in {Absent, Blank, "public.t", "t"}}
  \cup {[c EXCEPT !.values["manifest"] = v] : v \in {Absent, Twice, "path"}}
  \cup {[c EXCEPT !.values[f] = v] : f \in {"concurrency", "timeoutMs"},
                                     v \in {Absent, -1, 0, 16, 17, 600001}}
  \cup {[c EXCEPT !.values[f] = v] : f \in {"url", "DATABASE_URL"}, v \in {Absent, Blank, Spaces}}

CommandsTyped ==
  UNION {Differently(d) : d \in UNION {Differently(c) : c \in Right}}
  \cup {[Typing(0, <<>>) EXCEPT !.typed.command = w, !.typed.json = n] :
          w \in {"init", "check", "other"}, n \in {0, 1}}

\* Manifests that are right, and those with one property changed.
NoProperties == [f \in Named |-> Absent]
Entry(name) == ("table" :> name) @@ NoProperties

Listing ==
  [shape |-> "manifest",
   defaults |-> ("role" :> "app") @@ OfTenants(A, B) @@ NoProperties,
   tables |-> <<Entry("public.t")>>]

Texts(f) ==
  {Absent, Blank, NotAString}
  \cup (IF f \in {"tenantA", "tenantB"} THEN {A, Plain} ELSE {"valid"})

InFile ==
  {Listing, [Listing EXCEPT !.shape = "unreadable"], [Listing EXCEPT !.tables = <<>>]}
  \cup {[Listing EXCEPT !.tables = @ \o <<Entry(n)>>] : n \in {"public.t", "public.u", "t"}}
  \cup UNION {{[Listing EXCEPT !.defaults[f] = v] : v \in Texts(f)} : f \in Inherited \cup {"unknown"}}
  \cup UNION {{[Listing EXCEPT !.tables[1][f] = v] : v \in Texts(f)} : f \in Inherited \cup {"unknown"}}
===============================================================================
