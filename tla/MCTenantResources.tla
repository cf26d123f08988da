--------------------------- MODULE MCTenantResources ---------------------------
(***************************************************************************)
(* Instances of TenantResources for TLC.                                   *)
(***************************************************************************)
EXTENDS TenantResources, TLC

\* Ids and base keys that read as each other's when they are put together.
Ids   == {<<"a">>, <<"a", ":", "1">>}
Bases == {<<"x">>, <<"1", ":", "x">>}

Alphabet == Hex \cup {":", "x", "tenant", "shared"}

\* Any two hexadecimal texts of 64 characters.
Digests == [t \in Ids |-> [i \in 1..64 |-> IF t = <<"a">> THEN "a" ELSE "1"]]

Around == {<<BypassFrame>>} \cup {<<TenantFrame(t)>> : t \in Ids}

Job(kind, base, async, shared) ==
  [kind |-> kind, base |-> base, async |-> async, shared |-> shared]

Work ==
  {Job("route", b, FALSE, s) : b \in Bases, s \in BOOLEAN}
  \cup {Job("route", <<"x">>, TRUE, FALSE), Job("route", NoKey, FALSE, FALSE)}
  \cup {Job("key", b, FALSE, FALSE) : b \in Bases}
  \cup {Job("search", <<"x">>, FALSE, FALSE)}

\* The defaults, but for the separators
Separated(h, s, ks, p) ==
  [hash |-> h, tenantPrefix |-> <<"tenant">>, sharedPrefix |-> <<"shared">>,
   separator |-> s, keyPrefix |-> <<"tenant">>, keySeparator |-> ks, policy |-> p]

Configured ==
  {Separated(h, s, <<":">>, p) :
     h \in BOOLEAN, s \in {<<>>, <<":">>}, p \in {"warn", "throw"}}
  \cup {[Separated(FALSE, <<":">>, <<"1", ":">>, "warn") EXCEPT
           !.tenantPrefix = <<>>, !.keyPrefix = <<"x">>]}

\* Ids and base keys for separators that do not end a length.
Long        == <<"1", "0", "0", "0", "0", "0", "0", "0", "0", "0">>
NumberedIds == {<<"0">>, Long}
NumberedDigests == [t \in NumberedIds |-> [i \in 1..64 |-> t[1]]]
AroundNumbered  == {<<TenantFrame(t)>> : t \in NumberedIds}
NumberedWork    == {Job("key", b, FALSE, FALSE) : b \in {<<"x">>, Long \o <<"x">>}}
Unended         == {Separated(FALSE, <<":">>, <<>>, "warn")}

\* The options of the passing run are some under which no keys coincide.
ASSUME ConfiguredUnambiguous == \A o \in Configured : Unambiguous(o)
===============================================================================
