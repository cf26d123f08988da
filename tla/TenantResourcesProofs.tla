------------------------- MODULE TenantResourcesProofs -------------------------
(***************************************************************************)
(* Proofs about TenantResources: with options that are unambiguous no two  *)
(* tenants share a key, whatever characters their ids and keys consist of, *)
(* and so every chain is served what was made for its tenant.              *)
(***************************************************************************)
EXTENDS TenantResources, SequenceTheorems, TLAPS

(***************************************************************************)
(* Texts and lengths.  Cat is \o, kept folded in the proofs.               *)
(***************************************************************************)
Cat(a, x) == a \o x

\* Texts put together.
LEMMA Joined ==
  ASSUME NEW a \in Text, NEW x \in Text
  PROVE  Cat(a, x) \in Text
BY ConcatProperties DEF Text, Cat

\* Brackets may be moved.
LEMMA Three ==
  ASSUME NEW a \in Text, NEW b \in Text, NEW x \in Text
  PROVE  Cat(Cat(a, b), x) = Cat(a, Cat(b, x))
BY ConcatAssociative DEF Text, Cat

\* The characters of the first part.
LEMMA Within ==
  ASSUME NEW a \in Text, NEW x \in Text
  PROVE  \A i \in 1 .. Len(a) : Cat(a, x)[i] = a[i]
<1>1. Len(a) \in Nat /\ Len(x) \in Nat
  BY LenProperties DEF Text
<1>2. \A i \in 1 .. Len(a) + Len(x) : Cat(a, x)[i] = IF i <= Len(a) THEN a[i] ELSE x[i - Len(a)]
  BY ConcatProperties DEF Text, Cat
<1>3. \A i \in 1 .. Len(a) : i \in 1 .. Len(a) + Len(x) /\ i <= Len(a)
  BY <1>1
<1>4. QED
  BY <1>2, <1>3

\* The characters after it.
LEMMA After ==
  ASSUME NEW a \in Text, NEW x \in Text, NEW i \in 1 .. Len(x)
  PROVE  Cat(a, x)[Len(a) + i] = x[i]
<1>1. Len(a) \in Nat /\ Len(x) \in Nat
  BY LenProperties DEF Text
<1>2. \A k \in 1 .. Len(a) + Len(x) : Cat(a, x)[k] = IF k <= Len(a) THEN a[k] ELSE x[k - Len(a)]
  BY ConcatProperties DEF Text, Cat
<1>3. Len(a) + i \in 1 .. Len(a) + Len(x) /\ ~ (Len(a) + i <= Len(a)) /\ (Len(a) + i) - Len(a) = i
  BY <1>1
<1>4. QED
  BY <1>2, <1>3

\* A text that begins with something is not empty, and begins with that.
LEMMA Begins ==
  ASSUME NEW a \in Text, NEW x \in Text, a # <<>>
  PROVE  Cat(a, x) # <<>> /\ Cat(a, x)[1] = a[1]
<1>1. Len(a) \in Nat \ {0} /\ Len(x) \in Nat
  BY LenProperties, EmptySeq DEF Text
<1>2. 1 \in 1 .. Len(a)
  BY <1>1
<1>3. Cat(a, x)[1] = a[1]
  BY <1>2, Within
<1>4. Len(Cat(a, x)) = Len(a) + Len(x)
  BY ConcatProperties DEF Text, Cat
<1>5. Len(Cat(a, x)) # 0
  BY <1>1, <1>4
<1>6. QED
  BY <1>3, <1>5, EmptySeq

\* Equal texts have equal parts if their first parts are equally long.
LEMMA Split ==
  ASSUME NEW a \in Text, NEW b \in Text, NEW x \in Text, NEW y \in Text,
         Cat(a, x) = Cat(b, y), Len(a) = Len(b)
  PROVE  a = b /\ x = y
<1>1. Len(a) \in Nat /\ Len(x) \in Nat /\ Len(y) \in Nat
  BY LenProperties DEF Text
<1>2. Len(Cat(a, x)) = Len(a) + Len(x) /\ Len(Cat(b, y)) = Len(b) + Len(y)
  BY ConcatProperties DEF Text, Cat
<1>3. Len(x) = Len(y)
  BY <1>1, <1>2
<1>4. \A i \in 1 .. Len(a) : a[i] = b[i]
  BY Within
<1>5. a = b
  BY <1>4, SeqEqual DEF Text
<1>6. ASSUME NEW i \in 1 .. Len(x)
      PROVE  x[i] = y[i]
  <2>1. Len(a) + i \in 1 .. Len(a) + Len(x) /\ ~ (Len(a) + i <= Len(a)) /\ (Len(a) + i) - Len(a) = i
    BY <1>1
  <2>2. Cat(a, x)[Len(a) + i] = x[i] /\ Cat(a, y)[Len(a) + i] = y[i]
    BY <1>3, <2>1, ConcatProperties DEF Text, Cat
  <2>3. QED
    BY <1>5, <2>2
<1>7. x = y
  BY <1>3, <1>6, SeqEqual DEF Text
<1>8. QED
  BY <1>5, <1>7

\* The ten digits differ.
LEMMA Digits ==
  /\ \A i \in 1 .. 10 : Digit[i] \in Characters /\ Digit[i] \in Range(Digit)
  /\ \A i, k \in 1 .. 10 : Digit[i] = Digit[k] => i = k
<1>1. DOMAIN Digit = 1 .. 10
  BY DEF Digit
<1>2. \A i \in 1 .. 10 : Digit[i] \in Range(Digit)
  BY <1>1 DEF Range
<1>3. \A i \in 1 .. 10 : Digit[i] \in Characters
  BY <1>2, IdConstants DEF Hex
<1>4. \A i, k \in 1 .. 10 : Digit[i] = Digit[k] => i = k
  BY SMTT(60) DEF Digit
<1>5. QED
  BY <1>2, <1>3, <1>4

\* A length is written in digits, and read back.
LEMMA Lengths ==
  ASSUME NEW t \in Text, Len(t) < 100
  PROVE  /\ Length(t) \in Text
         /\ Len(Length(t)) = IF Len(t) < 10 THEN 1 ELSE 2
         /\ \A i \in 1 .. Len(Length(t)) : Length(t)[i] \in Range(Digit)
<1>1. Len(t) \in Nat
  BY LenProperties DEF Text
<1>2. CASE Len(t) < 10
  <2>1. Len(t) + 1 \in 1 .. 10
    BY <1>1, <1>2
  <2>2. Length(t) = <<Digit[Len(t) + 1]>>
    BY <1>2 DEF Length
  <2>3. Digit[Len(t) + 1] \in Characters /\ Digit[Len(t) + 1] \in Range(Digit)
    BY <2>1, Digits
  <2> HIDE DEF Length, Digit
  <2>4. QED
    BY <1>2, <2>2, <2>3 DEF Text
<1>3. CASE ~ (Len(t) < 10)
  <2>1. (Len(t) \div 10) + 1 \in 1 .. 10 /\ (Len(t) % 10) + 1 \in 1 .. 10
    BY <1>1, <1>3
  <2>2. Length(t) = <<Digit[(Len(t) \div 10) + 1], Digit[(Len(t) % 10) + 1]>>
    BY <1>3 DEF Length
  <2>3. PICK d, e : /\ Length(t) = <<d, e>>
                    /\ d \in Characters /\ e \in Characters
                    /\ d \in Range(Digit) /\ e \in Range(Digit)
    BY <2>1, <2>2, Digits
  <2>4. Len(Length(t)) = 2 /\ Length(t)[1] = d /\ Length(t)[2] = e /\ Length(t) \in Text
    BY <2>3 DEF Text
  <2>5. \A i \in 1 .. 2 : i = 1 \/ i = 2
    OBVIOUS
  <2>6. QED
    BY <1>3, <2>3, <2>4, <2>5
<1>4. QED
  BY <1>2, <1>3

\* A written length stands for one number.
LEMMA LengthsTell ==
  ASSUME NEW t \in Text, NEW u \in Text, Len(t) < 100, Len(u) < 100,
         Length(t) = Length(u)
  PROVE  Len(t) = Len(u)
<1>1. Len(t) \in Nat /\ Len(u) \in Nat
  BY LenProperties DEF Text
<1>2. (Len(t) < 10) <=> (Len(u) < 10)
  BY Lengths
<1>3. CASE Len(t) < 10
  <2>1. Digit[Len(t) + 1] = Digit[Len(u) + 1]
    BY <1>2, <1>3 DEF Length
  <2>2. Len(t) + 1 \in 1 .. 10 /\ Len(u) + 1 \in 1 .. 10
    BY <1>1, <1>2, <1>3
  <2>3. Len(t) + 1 = Len(u) + 1
    BY <2>1, <2>2, Digits
  <2>4. QED
    BY <1>1, <2>3
<1>4. CASE ~ (Len(t) < 10)
  <2>1. /\ Digit[(Len(t) \div 10) + 1] = Digit[(Len(u) \div 10) + 1]
        /\ Digit[(Len(t) % 10) + 1] = Digit[(Len(u) % 10) + 1]
    BY <1>2, <1>4 DEF Length
  <2>2. /\ (Len(t) \div 10) + 1 \in 1 .. 10 /\ (Len(u) \div 10) + 1 \in 1 .. 10
        /\ (Len(t) % 10) + 1 \in 1 .. 10 /\ (Len(u) % 10) + 1 \in 1 .. 10
    BY <1>1, <1>2, <1>4
  <2>3. /\ (Len(t) \div 10) + 1 = (Len(u) \div 10) + 1
        /\ (Len(t) % 10) + 1 = (Len(u) % 10) + 1
    BY <2>1, <2>2, Digits
  <2>4. QED
    BY <1>1, <2>3
<1>5. QED
  BY <1>3, <1>4

\* The text after digits tells how many there are, if it begins with one mark.
LEMMA DigitsEnd ==
  ASSUME NEW a \in Text, NEW b \in Text, Len(a) < Len(b),
         \A k \in 1 .. Len(b) : b[k] \in Range(Digit),
         NEW m \in Text, NEW i \in 1 .. Len(m), Ends(m, i),
         NEW x \in Text, NEW y \in Text
  PROVE  Cat(a, Cat(m, x)) # Cat(b, Cat(m, y))
<1>1. Len(a) \in Nat /\ Len(b) \in Nat /\ Len(m) \in Nat /\ i \in Nat \ {0}
  BY LenProperties DEF Text
<1>2. Cat(m, x) \in Text /\ Cat(m, y) \in Text
  BY Joined
<1>3. Len(Cat(m, x)) = Len(m) + Len(x) /\ Len(Cat(m, y)) = Len(m) + Len(y)
      /\ Len(x) \in Nat /\ Len(y) \in Nat
  BY ConcatProperties, LenProperties DEF Text, Cat
<1>4. Cat(a, Cat(m, x))[Len(a) + i] \notin Range(Digit)
  <2>1. i \in 1 .. Len(Cat(m, x))
    BY <1>1, <1>3
  <2>2. Cat(a, Cat(m, x))[Len(a) + i] = Cat(m, x)[i]
    BY <1>2, <2>1, After
  <2>3. Cat(m, x)[i] = m[i]
    BY Within
  <2>4. QED
    BY <2>2, <2>3 DEF Ends
<1>5. Cat(b, Cat(m, y))[Len(a) + i] \in Range(Digit)
  <2>1. CASE Len(a) + i <= Len(b)
    <3>1. Len(a) + i \in 1 .. Len(b)
      BY <1>1, <2>1
    <3>2. Cat(b, Cat(m, y))[Len(a) + i] = b[Len(a) + i]
      BY <1>2, <3>1, Within
    <3>3. QED
      BY <3>1, <3>2
  <2>2. CASE ~ (Len(a) + i <= Len(b))
    <3> DEFINE k == (Len(a) + i) - Len(b)
    <3>1. k \in 1 .. i - 1 /\ k \in 1 .. Len(m) /\ Len(b) + k = Len(a) + i
      BY <1>1, <2>2
    <3>2. k \in 1 .. Len(Cat(m, y))
      BY <1>1, <1>3, <3>1
    <3> HIDE DEF k
    <3>3. Cat(b, Cat(m, y))[Len(b) + k] = Cat(m, y)[k]
      BY <1>2, <3>2, After
    <3>4. Cat(m, y)[k] = m[k]
      BY <3>1, Within
    <3>5. QED
      BY <3>1, <3>3, <3>4 DEF Ends
  <2>3. QED
    BY <2>1, <2>2
<1>6. QED
  BY <1>4, <1>5

\* A length is read back if the mark after it shows where it ends.
LEMMA Prefixed ==
  ASSUME NEW t \in Text, NEW u \in Text, Len(t) < 100, Len(u) < 100,
         NEW m \in Text, NEW i \in 1 .. Len(m), Ends(m, i),
         NEW x \in Text, NEW y \in Text,
         Cat(Length(t), Cat(m, x)) = Cat(Length(u), Cat(m, y))
  PROVE  Len(t) = Len(u) /\ x = y
<1>1. /\ Length(t) \in Text /\ Len(Length(t)) \in 1 .. 2
      /\ \A k \in 1 .. Len(Length(t)) : Length(t)[k] \in Range(Digit)
  BY Lengths
<1>2. /\ Length(u) \in Text /\ Len(Length(u)) \in 1 .. 2
      /\ \A k \in 1 .. Len(Length(u)) : Length(u)[k] \in Range(Digit)
  BY Lengths
<1>3. ~ (Len(Length(t)) < Len(Length(u))) /\ ~ (Len(Length(u)) < Len(Length(t)))
  BY <1>1, <1>2, DigitsEnd
<1>4. Len(Length(t)) = Len(Length(u))
  BY <1>1, <1>2, <1>3
<1>5. Cat(m, x) \in Text /\ Cat(m, y) \in Text
  BY Joined
<1>6. Length(t) = Length(u) /\ Cat(m, x) = Cat(m, y)
  BY <1>1, <1>2, <1>4, <1>5, Split
<1>7. x = y
  BY <1>6, Split
<1>8. QED
  BY <1>6, <1>7, LengthsTell

\* Length, mark, id, separator and base key, put together, are read back.
LEMMA ReadBack ==
  ASSUME NEW t \in Text, NEW u \in Text, Len(t) < 100, Len(u) < 100,
         NEW m \in Text, NEW i \in 1 .. Len(m), Ends(m, i),
         NEW s \in Text, NEW b \in Text, NEW d \in Text,
         Cat(Length(t), Cat(m, Cat(t, Cat(s, b))))
           = Cat(Length(u), Cat(m, Cat(u, Cat(s, d))))
  PROVE  t = u /\ b = d
<1>1. Cat(s, b) \in Text /\ Cat(s, d) \in Text
  BY Joined
<1>2. Cat(t, Cat(s, b)) \in Text /\ Cat(u, Cat(s, d)) \in Text
  BY <1>1, Joined
<1>3. Len(t) = Len(u) /\ Cat(t, Cat(s, b)) = Cat(u, Cat(s, d))
  BY <1>2, Prefixed
<1>4. t = u /\ Cat(s, b) = Cat(s, d)
  BY <1>1, <1>3, Split
<1>5. b = d
  BY <1>4, Split
<1>6. QED
  BY <1>4, <1>5

\* Texts stay apart, whatever follows them.
LEMMA ApartTell ==
  ASSUME NEW a \in Text, NEW b \in Text, Apart(a, b), NEW x \in Text, NEW y \in Text
  PROVE  Cat(a, x) # Cat(b, y) /\ Cat(b, y) # Cat(a, x)
<1>1. PICK i \in 1 .. Len(a) : i <= Len(b) /\ a[i] # b[i]
  BY DEF Apart
<1>2. i \in 1 .. Len(b)
  BY <1>1, LenProperties DEF Text
<1>3. Cat(a, x)[i] = a[i] /\ Cat(b, y)[i] = b[i]
  BY <1>2, Within
<1>4. QED
  BY <1>1, <1>3

-------------------------------------------------------------------------------
(***************************************************************************)
(* Keys.                                                                   *)
(***************************************************************************)
Colon == <<":">>

\* The mark between the length and the id in the key of a route.
LEMMA Marks ==
  /\ Colon \in Text /\ Colon # <<>> /\ Colon[1] = ":" /\ Len(Colon) = 1
  /\ Ends(Colon, 1) /\ ":" \notin Hex
<1>1. ":" \in Characters
  BY IdConstants
<1>2. ":" \notin Range(Digit)
  <2>1. DOMAIN Digit = 1 .. 10 /\ \A i \in 1 .. 10 : Digit[i] # ":"
    BY DEF Digit
  <2>2. QED
    BY <2>1 DEF Range
<1>3. ":" \notin Hex
  BY <1>2 DEF Hex
<1>4. Ends(Colon, 1)
  BY <1>2 DEF Ends, Colon
<1>5. QED
  BY <1>1, <1>3, <1>4 DEF Text, Colon

\* What the assumptions say of one id and of the options in force.
LEMMA Ids ==
  ASSUME NEW t \in Tenants
  PROVE  /\ t \in Text /\ Len(t) < 100
         /\ Sha256[t] \in Text /\ Len(Sha256[t]) = 64
         /\ \A i \in 1 .. 64 : Sha256[t][i] \in Hex
<1>1. t \in Text /\ Len(t) < 100
  BY IdConstants
<1>2. Sha256[t] \in Seq(Hex) /\ Len(Sha256[t]) = 64
  BY IdConstants
<1>3. Hex \subseteq Characters
  BY IdConstants
<1>4. Sha256[t] \in Text
  BY <1>2, <1>3, SeqMonotonic DEF Text
<1>5. \A i \in 1 .. 64 : Sha256[t][i] \in Hex
  BY <1>2, ElementOfSeq
<1>6. QED
  BY <1>1, <1>2, <1>4, <1>5

\* What the assumptions say of the options in force.
LEMMA OptionTexts ==
  ASSUME options \in Options
  PROVE  /\ options.separator \in Text /\ options.keySeparator \in Text
         /\ options.tenantPrefix \in Text /\ options.sharedPrefix \in Text
         /\ options.keyPrefix \in Text
BY OptionConstants

\* The keys, their parts grouped from the right.
RouteTail(t, base) == Cat(t, Cat(options.separator, base))
ResourceTail(t, base) == Cat(t, Cat(options.keySeparator, base))

RouteRest(t, base) == Cat(FormatTenantId(t), Cat(options.separator, base))
ResourceRest(t, base) == Cat(Length(t), Cat(options.keySeparator, ResourceTail(t, base)))

\* The keys of the model are these texts.
LEMMA KeyParts ==
  ASSUME options \in Options, NEW t \in Tenants, NEW b \in Text
  PROVE  /\ RouteRest(t, b) \in Text /\ ResourceRest(t, b) \in Text
         /\ TenantKey(t, b) = Cat(Cat(options.tenantPrefix, options.separator), RouteRest(t, b))
         /\ ResourceKey(t, b) = Cat(Cat(options.keyPrefix, options.keySeparator), ResourceRest(t, b))
         /\ options.hash => RouteRest(t, b) = Cat(Sha256[t], Cat(options.separator, b))
         /\ ~ options.hash =>
              RouteRest(t, b) = Cat(Length(t), Cat(Colon, RouteTail(t, b)))
         /\ RouteTail(t, b) \in Text /\ ResourceTail(t, b) \in Text
<1> DEFINE s == options.separator
           r == options.keySeparator
           p == options.tenantPrefix
           q == options.keyPrefix
           l == Length(t)
           f == FormatTenantId(t)
<1>1. s \in Text /\ r \in Text /\ p \in Text /\ q \in Text
  BY OptionTexts
<1>2. t \in Text /\ l \in Text /\ Sha256[t] \in Text
  BY Ids, Lengths
<1>3. Colon \in Text
  BY Marks
<1>4. f = IF options.hash THEN Sha256[t] ELSE Cat(Cat(l, Colon), t)
  BY DEF FormatTenantId, Cat, Colon
<1>5. TenantKey(t, b) = Cat(Cat(Cat(Cat(p, s), f), s), b)
  BY DEF TenantKey, Cat
<1>6. ResourceKey(t, b) = Cat(Cat(Cat(Cat(Cat(Cat(q, r), l), r), t), r), b)
  BY DEF ResourceKey, Cat
<1> HIDE DEF s, r, p, q, l, f
<1>7. f \in Text
  <2>1. Cat(l, Colon) \in Text
    BY <1>2, <1>3, Joined
  <2>2. Cat(Cat(l, Colon), t) \in Text
    BY <1>2, <2>1, Joined
  <2>3. QED
    BY <1>2, <1>4, <2>2
<1>8. Cat(s, b) \in Text /\ Cat(r, b) \in Text
  BY <1>1, Joined
<1>9. /\ Cat(f, Cat(s, b)) \in Text /\ Cat(t, Cat(s, b)) \in Text
      /\ Cat(t, Cat(r, b)) \in Text
  BY <1>2, <1>7, <1>8, Joined
<1>10. Cat(Cat(Cat(Cat(p, s), f), s), b) = Cat(Cat(p, s), Cat(f, Cat(s, b)))
  <2>1. Cat(p, s) \in Text /\ Cat(Cat(p, s), f) \in Text
    BY <1>1, <1>7, Joined
  <2>2. Cat(Cat(Cat(Cat(p, s), f), s), b) = Cat(Cat(Cat(p, s), f), Cat(s, b))
    BY <1>1, <2>1, Three
  <2>3. Cat(Cat(Cat(p, s), f), Cat(s, b)) = Cat(Cat(p, s), Cat(f, Cat(s, b)))
    BY <1>7, <1>8, <2>1, Three
  <2>4. QED
    BY <2>2, <2>3
<1>11. ~ options.hash => Cat(f, Cat(s, b)) = Cat(l, Cat(Colon, Cat(t, Cat(s, b))))
  <2>1. Cat(l, Colon) \in Text
    BY <1>2, <1>3, Joined
  <2>2. Cat(Cat(Cat(l, Colon), t), Cat(s, b)) = Cat(Cat(l, Colon), Cat(t, Cat(s, b)))
    BY <1>2, <1>8, <2>1, Three
  <2>3. Cat(Cat(l, Colon), Cat(t, Cat(s, b))) = Cat(l, Cat(Colon, Cat(t, Cat(s, b))))
    BY <1>2, <1>3, <1>9, Three
  <2>4. QED
    BY <1>4, <2>2, <2>3
<1>12. Cat(Cat(Cat(Cat(Cat(Cat(q, r), l), r), t), r), b)
         = Cat(Cat(q, r), Cat(l, Cat(r, Cat(t, Cat(r, b)))))
  <2> DEFINE prl == Cat(Cat(q, r), l)
             end == Cat(t, Cat(r, b))
  <2>1. Cat(q, r) \in Text /\ prl \in Text /\ Cat(prl, r) \in Text
        /\ Cat(Cat(prl, r), t) \in Text
    BY <1>1, <1>2, <1>3, Joined
  <2>2. Cat(Cat(Cat(Cat(prl, r), t), r), b) = Cat(Cat(Cat(prl, r), t), Cat(r, b))
    BY <1>1, <2>1, Three
  <2>3. Cat(Cat(Cat(prl, r), t), Cat(r, b)) = Cat(Cat(prl, r), end)
    BY <1>2, <1>8, <2>1, Three
  <2>4. Cat(Cat(prl, r), end) = Cat(prl, Cat(r, end))
    BY <1>1, <1>9, <2>1, Three
  <2>5. Cat(r, end) \in Text /\ Cat(l, Cat(r, end)) \in Text
    BY <1>1, <1>2, <1>9, Joined
  <2>6. Cat(prl, Cat(r, end)) = Cat(Cat(q, r), Cat(l, Cat(r, end)))
    BY <1>2, <2>1, <2>5, Three
  <2>7. QED
    BY <2>2, <2>3, <2>4, <2>6
<1>13. Cat(r, Cat(t, Cat(r, b))) \in Text /\ Cat(l, Cat(r, Cat(t, Cat(r, b)))) \in Text
  BY <1>1, <1>2, <1>9, Joined
<1>14. QED
  BY <1>4, <1>5, <1>6, <1>9, <1>10, <1>11, <1>12, <1>13
     DEF RouteRest, ResourceRest, RouteTail, ResourceTail, s, r, p, q, l, f

\* Id and base key are read back from the key of a route.
LEMMA RoutesTell ==
  ASSUME options \in Options,
         NEW t \in Tenants, NEW u \in Tenants, NEW b \in Text, NEW d \in Text,
         RouteRest(t, b) = RouteRest(u, d)
  PROVE  t = u /\ b = d
<1>1. options.separator \in Text
  BY OptionTexts
<1>2. /\ t \in Text /\ u \in Text /\ Len(t) < 100 /\ Len(u) < 100
      /\ Sha256[t] \in Text /\ Sha256[u] \in Text /\ Len(Sha256[t]) = Len(Sha256[u])
  BY Ids
<1>3. CASE options.hash
  <2>1. Cat(options.separator, b) \in Text /\ Cat(options.separator, d) \in Text
    BY <1>1, Joined
  <2>2. Cat(Sha256[t], Cat(options.separator, b)) = Cat(Sha256[u], Cat(options.separator, d))
    BY <1>3, KeyParts
  <2>3. Sha256[t] = Sha256[u] /\ Cat(options.separator, b) = Cat(options.separator, d)
    BY <1>2, <2>1, <2>2, Split
  <2>4. b = d
    BY <1>1, <2>3, Split
  <2>5. QED
    BY <2>3, <2>4, IdConstants
<1>4. CASE ~ options.hash
  <2>1. Cat(Length(t), Cat(Colon, RouteTail(t, b))) = Cat(Length(u), Cat(Colon, RouteTail(u, d)))
    BY <1>4, KeyParts
  <2>2. Colon \in Text /\ 1 \in 1 .. Len(Colon) /\ Ends(Colon, 1)
    BY Marks
  <2>3. QED
    BY <1>1, <1>2, <2>1, <2>2, ReadBack DEF RouteTail
<1>5. QED
  BY <1>3, <1>4

\* They are read back from the key of a resource if the separator ends the length.
LEMMA ResourcesTell ==
  ASSUME options \in Options, LengthEnds(options),
         NEW t \in Tenants, NEW u \in Tenants, NEW b \in Text, NEW d \in Text,
         ResourceRest(t, b) = ResourceRest(u, d)
  PROVE  t = u /\ b = d
<1>1. options.keySeparator \in Text
  BY OptionTexts
<1>2. t \in Text /\ u \in Text /\ Len(t) < 100 /\ Len(u) < 100
  BY Ids
<1>3. PICK i \in 1 .. Len(options.keySeparator) : Ends(options.keySeparator, i)
  BY DEF LengthEnds
<1>4. QED
  BY <1>1, <1>2, <1>3, ReadBack DEF ResourceRest, ResourceTail

\* An id begins with a hexadecimal digit, hashed or with its length before it.
LEMMA RouteBegins ==
  ASSUME options \in Options, NEW t \in Tenants, NEW b \in Text
  PROVE  RouteRest(t, b) # <<>> /\ RouteRest(t, b)[1] \in Hex
<1>1. CASE options.hash
  <2>1. Sha256[t] \in Text /\ Len(Sha256[t]) = 64 /\ Sha256[t][1] \in Hex
    BY Ids
  <2>2. Sha256[t] # <<>>
    BY <2>1
  <2>3. Cat(options.separator, b) \in Text
    BY OptionTexts, Joined
  <2>4. QED
    BY <1>1, <2>1, <2>2, <2>3, KeyParts, Begins
<1>2. CASE ~ options.hash
  <2>1. Length(t) \in Text /\ Length(t) # <<>> /\ Length(t)[1] \in Hex
    <3>1. /\ Length(t) \in Text /\ Len(Length(t)) \in 1 .. 2
          /\ \A i \in 1 .. Len(Length(t)) : Length(t)[i] \in Range(Digit)
      BY Ids, Lengths
    <3>2. 1 \in 1 .. Len(Length(t)) /\ Len(Length(t)) # 0
      BY <3>1
    <3>3. QED
      BY <3>1, <3>2, EmptySeq DEF Hex
  <2>2. Cat(Colon, RouteTail(t, b)) \in Text
    BY KeyParts, Marks, Joined
  <2>3. RouteRest(t, b) = Cat(Length(t), Cat(Colon, RouteTail(t, b)))
    BY <1>2, KeyParts
  <2>4. QED
    BY <2>1, <2>2, <2>3, Begins
<1>3. QED
  BY <1>1, <1>2

\* In one form, the key of a route is the key of a resource only for the same
\* tenant and base key.
LEMMA OneFormTells ==
  ASSUME options \in Options, OneForm(options),
         NEW t \in Tenants, NEW u \in Tenants, NEW b \in Text, NEW d \in Text,
         TenantKey(t, b) = ResourceKey(u, d)
  PROVE  t = u /\ b = d
<1> DEFINE s == options.separator
           p == options.tenantPrefix
           x == RouteRest(t, b)
           y == ResourceRest(u, d)
<1>1. s \in Text /\ p \in Text /\ Colon \in Text /\ x \in Text /\ y \in Text
  BY OptionTexts, Marks, KeyParts
<1>2. s \in {<<>>, Colon} /\ options.keySeparator = Colon /\ options.keyPrefix = p
  BY DEF OneForm, Colon
<1>3. Cat(s, x) \in Text /\ Cat(Colon, y) \in Text
  BY <1>1, Joined
<1>4. Cat(s, x) = Cat(Colon, y)
  <2>1. Cat(Cat(p, s), x) = Cat(Cat(p, Colon), y)
    BY <1>2, KeyParts
  <2>2. Cat(p, Cat(s, x)) = Cat(p, Cat(Colon, y))
    BY <1>1, <2>1, Three
  <2>3. QED
    BY <1>1, <1>3, <2>2, Split
<1>5. Cat(Colon, y)[1] = ":"
  BY <1>1, Marks, Begins
<1>6. ASSUME s = <<>>
      PROVE  FALSE
  <2>1. Cat(s, x) = x
    BY <1>1, <1>6, ConcatEmptySeq DEF Cat, Text
  <2>2. QED
    BY <1>4, <1>5, <2>1, RouteBegins, Marks
<1>7. CASE s = Colon
  <2>1. x = y
    BY <1>1, <1>4, <1>7, Split
  <2>2. u \in Text /\ Len(u) < 100 /\ Length(u) \in Text /\ Len(Length(u)) \in 1 .. 2
    BY Ids, Lengths
  <2>3. y = Cat(Length(u), Cat(Colon, ResourceTail(u, d)))
    BY <1>2 DEF ResourceRest
  <2>4. CASE options.hash
    <3>1. /\ Cat(Colon, ResourceTail(u, d)) \in Text
          /\ Cat(Colon, ResourceTail(u, d))[1] = ":"
          /\ 1 \in 1 .. Len(Cat(Colon, ResourceTail(u, d)))
      <4>1. /\ Cat(Colon, ResourceTail(u, d)) \in Text /\ Cat(Colon, ResourceTail(u, d)) # <<>>
            /\ Cat(Colon, ResourceTail(u, d))[1] = ":"
        BY <1>1, KeyParts, Marks, Joined, Begins
      <4>2. Len(Cat(Colon, ResourceTail(u, d))) \in Nat \ {0}
        BY <4>1, EmptySeq, LenProperties DEF Text
      <4>3. QED
        BY <4>1, <4>2
    <3>2. y[Len(Length(u)) + 1] = ":"
      BY <2>2, <2>3, <3>1, After
    <3>3. x = Cat(Sha256[t], Cat(s, b)) /\ Cat(s, b) \in Text
      BY <1>1, <2>4, KeyParts, Joined
    <3>4. Len(Length(u)) + 1 \in 1 .. 64
      <4>1. \A n \in 1 .. 2 : n + 1 \in 1 .. 64
        OBVIOUS
      <4>2. QED
        BY <2>2, <4>1
    <3>5. /\ Sha256[t] \in Text /\ Len(Sha256[t]) = 64
          /\ Sha256[t][Len(Length(u)) + 1] \in Hex
      BY <3>4, Ids
    <3>6. Cat(Sha256[t], Cat(s, b))[Len(Length(u)) + 1] = Sha256[t][Len(Length(u)) + 1]
      <4> DEFINE n == Len(Length(u)) + 1
                 w == Cat(s, b)
                 h == Sha256[t]
      <4>1. n \in 1 .. Len(h) /\ w \in Text /\ h \in Text
        BY <3>3, <3>4, <3>5
      <4> HIDE DEF n, w, h
      <4>2. \A i \in 1 .. Len(h) : Cat(h, w)[i] = h[i]
        BY <4>1, Within
      <4>3. Cat(h, w)[n] = h[n]
        BY <4>1, <4>2
      <4>4. QED
        BY <4>3 DEF n, w, h
    <3>7. x[Len(Length(u)) + 1] \in Hex
      BY <3>3, <3>5, <3>6
    <3>8. QED
      BY <2>1, <3>2, <3>7, Marks
  <2>5. CASE ~ options.hash
    <3>1. x = Cat(Length(t), Cat(Colon, Cat(t, Cat(Colon, b))))
      BY <1>7, <2>5, KeyParts DEF RouteTail
    <3>2. y = Cat(Length(u), Cat(Colon, Cat(u, Cat(Colon, d))))
      BY <1>2, <2>3 DEF ResourceTail
    <3>3. Colon \in Text /\ 1 \in 1 .. Len(Colon) /\ Ends(Colon, 1)
      BY Marks
    <3>4. t \in Text /\ Len(t) < 100
      BY Ids
    <3>5. u \in Text /\ Len(u) < 100
      BY <2>2
    <3>6. Cat(Length(t), Cat(Colon, Cat(t, Cat(Colon, b))))
            = Cat(Length(u), Cat(Colon, Cat(u, Cat(Colon, d))))
      BY <2>1, <3>1, <3>2
    <3>7. QED
      BY <3>3, <3>4, <3>5, <3>6, ReadBack
  <2>6. QED
    BY <2>4, <2>5
<1>8. QED
  BY <1>2, <1>6, <1>7

\* The key of a job for a tenant, and what is computed for it.
KeyOf(j, t) ==
  IF j.shared THEN SharedKey(j.base)
  ELSE IF j.kind = "route" THEN TenantKey(t, j.base) ELSE ResourceKey(t, j.base)

ValueOf(j, t) == [for |-> IF j.shared THEN Everyone ELSE t, of |-> j.base]

HasKey(j, t) ==
  /\ j \in Jobs /\ j.kind \in {"route", "key"} /\ j.base \in Text
  /\ t \in TenantOrNull /\ (j.shared \/ t \in Tenants)

\* Every key begins with the prefix and the separator of its kind.
KindOf(j) == IF j.shared THEN "shared" ELSE j.kind

MarkOf(j) ==
  CASE KindOf(j) = "shared" -> Cat(options.sharedPrefix, options.separator)
    [] KindOf(j) = "route"  -> Cat(options.tenantPrefix, options.separator)
    [] KindOf(j) = "key"    -> Cat(options.keyPrefix, options.keySeparator)

RestOf(j, t) ==
  CASE KindOf(j) = "shared" -> j.base
    [] KindOf(j) = "route"  -> RouteRest(t, j.base)
    [] KindOf(j) = "key"    -> ResourceRest(t, j.base)

LEMMA KeyForm ==
  ASSUME options \in Options, NEW j, NEW t, HasKey(j, t)
  PROVE  /\ KindOf(j) \in {"shared", "route", "key"} /\ KindOf(j) \in Used
         /\ MarkOf(j) \in Text /\ RestOf(j, t) \in Text
         /\ KeyOf(j, t) = Cat(MarkOf(j), RestOf(j, t))
<1>1. /\ j \in Jobs /\ j.kind \in {"route", "key"} /\ j.base \in Text
      /\ j.shared \in BOOLEAN /\ (~ j.shared => t \in Tenants)
  BY JobConstants DEF HasKey
<1>2. KindOf(j) \in {"shared", "route", "key"} /\ KindOf(j) \in Used
  BY <1>1 DEF KindOf, Used
<1>3. /\ Cat(options.sharedPrefix, options.separator) \in Text
      /\ Cat(options.tenantPrefix, options.separator) \in Text
      /\ Cat(options.keyPrefix, options.keySeparator) \in Text
  BY OptionTexts, Joined
<1>4. CASE KindOf(j) = "shared"
  <2>1. SharedKey(j.base) = Cat(Cat(options.sharedPrefix, options.separator), j.base)
    BY DEF SharedKey, Cat
  <2>2. QED
    BY <1>1, <1>2, <1>3, <1>4, <2>1 DEF KindOf, MarkOf, RestOf, KeyOf
<1>5. CASE KindOf(j) = "route"
  BY <1>1, <1>2, <1>3, <1>5, KeyParts DEF KindOf, MarkOf, RestOf, KeyOf
<1>6. CASE KindOf(j) = "key"
  BY <1>1, <1>2, <1>3, <1>6, KeyParts DEF KindOf, MarkOf, RestOf, KeyOf
<1>7. QED
  BY <1>2, <1>4, <1>5, <1>6

\* With unambiguous options keys of different kinds that may be in one store
\* differ, unless both have one form.
LEMMA KindsTell ==
  ASSUME options \in Options, Unambiguous(options),
         NEW i, NEW j, NEW t, NEW u, HasKey(i, t), HasKey(j, u),
         KeyOf(i, t) = KeyOf(j, u), KindOf(i) # KindOf(j)
  PROVE  {KindOf(i), KindOf(j)} = {"route", "key"} /\ OneForm(options)
<1>1. /\ Cat(MarkOf(i), RestOf(i, t)) = Cat(MarkOf(j), RestOf(j, u))
      /\ MarkOf(i) \in Text /\ MarkOf(j) \in Text
      /\ RestOf(i, t) \in Text /\ RestOf(j, u) \in Text
      /\ KindOf(i) \in {"shared", "route", "key"} \cap Used
      /\ KindOf(j) \in {"shared", "route", "key"} \cap Used
  BY KeyForm
<1>2. ~ Apart(MarkOf(i), MarkOf(j)) /\ ~ Apart(MarkOf(j), MarkOf(i))
  BY <1>1, ApartTell
<1> DEFINE Shared   == Cat(options.sharedPrefix, options.separator)
           Route    == Cat(options.tenantPrefix, options.separator)
           Resource == Cat(options.keyPrefix, options.keySeparator)
<1>3. /\ {"shared", "route"} \subseteq Used => Apart(Shared, Route)
      /\ {"shared", "key"} \subseteq Used => Apart(Shared, Resource)
      /\ {"route", "key"} \subseteq Used => Apart(Route, Resource) \/ OneForm(options)
  BY DEF Unambiguous, Cat
<1>4. ASSUME NEW k, KindOf(k) \in {"shared", "route", "key"}
      PROVE  MarkOf(k) = IF KindOf(k) = "shared" THEN Shared
                         ELSE IF KindOf(k) = "route" THEN Route ELSE Resource
  BY <1>4 DEF MarkOf
<1> HIDE DEF Shared, Route, Resource
<1>5. CASE KindOf(i) = "shared" \/ KindOf(j) = "shared"
  <2>1. CASE KindOf(i) = "shared"
    BY <1>1, <1>2, <1>3, <1>4, <2>1
  <2>2. CASE KindOf(j) = "shared"
    BY <1>1, <1>2, <1>3, <1>4, <2>2
  <2>3. QED
    BY <1>5, <2>1, <2>2
<1>6. CASE KindOf(i) = "route" /\ KindOf(j) = "key"
  BY <1>1, <1>2, <1>3, <1>4, <1>6
<1>7. CASE KindOf(i) = "key" /\ KindOf(j) = "route"
  BY <1>1, <1>2, <1>3, <1>4, <1>7
<1>8. QED
  BY <1>1, <1>5, <1>6, <1>7

\* A key stands for one value only: the central lemma.
LEMMA KeyTellsValue ==
  ASSUME options \in Options, Unambiguous(options)
  PROVE  \A i, j \in Jobs, t, u \in TenantOrNull :
           HasKey(i, t) /\ HasKey(j, u) /\ KeyOf(i, t) = KeyOf(j, u) =>
             ValueOf(i, t) = ValueOf(j, u)
<1> SUFFICES ASSUME NEW i \in Jobs, NEW j \in Jobs,
                    NEW t \in TenantOrNull, NEW u \in TenantOrNull,
                    HasKey(i, t), HasKey(j, u), KeyOf(i, t) = KeyOf(j, u)
             PROVE  ValueOf(i, t) = ValueOf(j, u)
  OBVIOUS
<1> DEFINE b == i.base
           d == j.base
<1>1. /\ b \in Text /\ d \in Text
      /\ i.shared \in BOOLEAN /\ j.shared \in BOOLEAN
      /\ i.kind \in {"route", "key"} /\ j.kind \in {"route", "key"}
      /\ ~ i.shared => t \in Tenants
      /\ ~ j.shared => u \in Tenants
  BY JobConstants DEF HasKey
<1>2. CASE KindOf(i) = KindOf(j)
  <2>1. MarkOf(i) = MarkOf(j)
    BY <1>2 DEF MarkOf
  <2>2. /\ Cat(MarkOf(i), RestOf(i, t)) = Cat(MarkOf(j), RestOf(j, u))
        /\ MarkOf(i) \in Text /\ MarkOf(j) \in Text
        /\ RestOf(i, t) \in Text /\ RestOf(j, u) \in Text
        /\ KindOf(i) \in {"shared", "route", "key"} \cap Used
    BY KeyForm
  <2>3. RestOf(i, t) = RestOf(j, u)
    BY <2>1, <2>2, Split
  <2>4. CASE KindOf(i) = "shared"
    BY <1>1, <1>2, <2>3, <2>4 DEF RestOf, KindOf, ValueOf
  <2>5. CASE KindOf(i) = "route"
    <3>1. RouteRest(t, b) = RouteRest(u, d)
      BY <1>2, <2>3, <2>5 DEF RestOf
    <3>2. ~ i.shared /\ ~ j.shared
      BY <1>1, <1>2, <2>5 DEF KindOf
    <3>3. t = u /\ b = d
      BY <1>1, <3>1, <3>2, RoutesTell
    <3>4. QED
      BY <3>2, <3>3 DEF ValueOf
  <2>6. CASE KindOf(i) = "key"
    <3>1. ResourceRest(t, b) = ResourceRest(u, d)
      BY <1>2, <2>3, <2>6 DEF RestOf
    <3>2. ~ i.shared /\ ~ j.shared
      BY <1>1, <1>2, <2>6 DEF KindOf
    <3>3. LengthEnds(options)
      BY <2>2, <2>6 DEF Unambiguous
    <3>4. t = u /\ b = d
      BY <1>1, <3>1, <3>2, <3>3, ResourcesTell
    <3>5. QED
      BY <3>2, <3>4 DEF ValueOf
  <2>7. QED
    BY <2>2, <2>4, <2>5, <2>6
<1>3. CASE KindOf(i) # KindOf(j)
  <2>1. {KindOf(i), KindOf(j)} = {"route", "key"} /\ OneForm(options)
    BY <1>3, KindsTell
  <2>2. CASE KindOf(i) = "route" /\ KindOf(j) = "key"
    <3>1. ~ i.shared /\ ~ j.shared /\ TenantKey(t, b) = ResourceKey(u, d)
      BY <1>1, <2>2 DEF KindOf, KeyOf
    <3>2. t = u /\ b = d
      BY <1>1, <2>1, <3>1, OneFormTells
    <3>3. QED
      BY <3>1, <3>2 DEF ValueOf
  <2>3. CASE KindOf(i) = "key" /\ KindOf(j) = "route"
    <3>1. ~ i.shared /\ ~ j.shared /\ TenantKey(u, d) = ResourceKey(t, b)
      BY <1>1, <2>3 DEF KindOf, KeyOf
    <3>2. u = t /\ d = b
      BY <1>1, <2>1, <3>1, OneFormTells
    <3>3. QED
      BY <3>1, <3>2 DEF ValueOf
  <2>4. QED
    BY <1>3, <2>1, <2>2, <2>3
<1>4. QED
  BY <1>2, <1>3

-------------------------------------------------------------------------------
(***************************************************************************)
(* The invariant: a chain's key is the one of its job and tenant, and an   *)
(* entry is what some chain computed for its key.  That an answer is what  *)
(* the chain would have computed itself depends on the options.            *)
(***************************************************************************)
Places ==
  {"new", "scope", "get", "compute", "failing", "answered", "failed", "unscoped"}

TypeOK ==
  /\ options \in Options
  /\ stack \in [Chains -> Stack]
  /\ at \in [Chains -> Places]
  /\ job \in [Chains -> Jobs \cup {NoJob}]
  /\ DOMAIN key = Chains
  /\ key = [c \in Chains |-> key[c]]
  /\ DOMAIN answer = Chains
  /\ answer = [c \in Chains |-> answer[c]]

Tenant(c) == CurrentTenantId(stack[c])

Keyed(c) == HasKey(job[c], Tenant(c)) /\ key[c] = KeyOf(job[c], Tenant(c))

\* A chain that goes on without a tenant was let through by the policy.
Permitted(c) ==
  options.policy = "throw" /\ job[c].base # NoKey /\ ~ job[c].shared =>
    Tenant(c) \in Tenants

Chain(c) ==
  /\ at[c] # "new" => job[c] \in Jobs
  /\ at[c] \in {"new", "scope"} => key[c] = NoKey
  /\ at[c] \in {"get", "failing"} => Keyed(c) /\ Permitted(c)
  /\ at[c] = "compute" => (key[c] = NoKey \/ Keyed(c)) /\ Permitted(c)
  /\ at[c] = "answered" =>
       (Unambiguous(options) => answer[c] = Made(c)) /\ Permitted(c)

Entries ==
  \A k \in DOMAIN store :
    \E j \in Jobs, t \in TenantOrNull :
      HasKey(j, t) /\ k = KeyOf(j, t) /\ store[k] = ValueOf(j, t)

IInv == TypeOK /\ (\A c \in Chains : Chain(c)) /\ Entries

\* A context names a tenant or none.
LEMMA TenantTyped ==
  ASSUME NEW s \in Stack
  PROVE  CurrentTenantId(s) \in TenantOrNull
<1>1. CASE s = <<>>
  BY <1>1 DEF CurrentTenantId, TenantOrNull
<1>2. CASE s # <<>>
  <2>1. Len(s) \in 1 .. Len(s)
    BY <1>2, EmptySeq, LenProperties DEF Stack
  <2>2. s[Len(s)] \in Frame
    BY <2>1, ElementOfSeq DEF Stack
  <2>3. \A f \in Frame : f.tenantId \in TenantOrNull
    BY DEF Frame, EmptyFrame, BypassFrame, TenantFrame, TenantOrNull
  <2>4. QED
    BY <1>2, <2>2, <2>3 DEF CurrentTenantId
<1>3. QED
  BY <1>1, <1>2

\* The options are those of the module: keys do not change.
LEMMA KeysStay ==
  ASSUME NEW j, NEW t, options' = options
  PROVE  KeyOf(j, t)' = KeyOf(j, t)
BY DEF KeyOf, SharedKey, TenantKey, ResourceKey, FormatTenantId

\* A chain that does nothing.
LEMMA OthersKeep ==
  ASSUME NEW d \in Chains, Chain(d), options' = options,
         stack'[d] = stack[d], at'[d] = at[d], job'[d] = job[d],
         key'[d] = key[d], answer'[d] = answer[d]
  PROVE  Chain(d)'
<1>1. Keyed(d)' = Keyed(d)
  BY KeysStay DEF Keyed, Tenant
<1>2. QED
  BY <1>1 DEF Chain, Permitted, Made, Tenant

\* A step that leaves the store alone.
LEMMA EntriesKeep ==
  ASSUME Entries, options' = options, store' = store
  PROVE  Entries'
BY KeysStay DEF Entries

\* What remains to be shown of a step of chain c.
LEMMA StepOf ==
  ASSUME IInv, NEW c \in Chains, TypeOK', options' = options,
         \A d \in Chains \ {c} :
           /\ stack'[d] = stack[d] /\ at'[d] = at[d] /\ job'[d] = job[d]
           /\ key'[d] = key[d] /\ answer'[d] = answer[d],
         Chain(c)', Entries'
  PROVE  IInv'
<1>1. ASSUME NEW d \in Chains
      PROVE  Chain(d)'
  BY <1>1, OthersKeep DEF IInv
<1>2. QED
  BY <1>1 DEF IInv

\* Initially there are no keys, entries or answers.
LEMMA InitIInv == Init => IInv
<1> SUFFICES ASSUME Init PROVE IInv
  OBVIOUS
<1>1. TypeOK
  BY IdConstants DEF Init, TypeOK, Places
<1>2. \A c \in Chains : Chain(c)
  BY DEF Init, Chain
<1>3. Entries
  BY DEF Init, Entries
<1>4. QED
  BY <1>1, <1>2, <1>3 DEF IInv

\* A job is taken before there is a key.
LEMMA StartKeeps ==
  ASSUME IInv, NEW c \in Chains, Start(c)
  PROVE  IInv'
<1>1. TypeOK'
  BY DEF IInv, TypeOK, Start, Goto, Places
<1>2. Chain(c)'
  BY DEF IInv, TypeOK, Chain, Start, Goto
<1>3. Entries'
  BY EntriesKeep DEF IInv, Start
<1>4. QED
  BY <1>1, <1>2, <1>3, StepOf DEF IInv, TypeOK, Start, Goto

\* The key of a route is that of its tenant, or of all.
LEMMA TrackByKeeps ==
  ASSUME IInv, NEW c \in Chains, TrackBy(c)
  PROVE  IInv'
<1>1. TypeOK'
  BY DEF IInv, TypeOK, TrackBy, Report, Goto, Places
<1>2. Chain(c)'
  <2>1. /\ job[c] \in Jobs /\ job[c].kind = "route" /\ key[c] = NoKey
        /\ job' = job /\ stack' = stack /\ options' = options
        /\ job[c].shared \in BOOLEAN
    BY JobConstants DEF IInv, Chain, TrackBy
  <2>2. job[c].base # NoKey => job[c].base \in Text
    BY <2>1, JobConstants
  <2>3. Tenant(c) \in TenantOrNull
    BY TenantTyped DEF IInv, TypeOK, Tenant
  <2>4. CASE job[c].base = NoKey /\ at'[c] = "compute" /\ key' = key
    BY <2>1, <2>4 DEF Chain, Permitted, Tenant
  <2>5. CASE /\ job[c].base # NoKey /\ job[c].shared
             /\ key'[c] = SharedKey(job[c].base) /\ at'[c] = "get"
    <3>1. HasKey(job[c], Tenant(c)) /\ key'[c] = KeyOf(job[c], Tenant(c))
      BY <2>1, <2>2, <2>3, <2>5 DEF HasKey, KeyOf
    <3>2. Keyed(c)'
      BY <2>1, <3>1, KeysStay DEF Keyed, Tenant
    <3>3. QED
      BY <2>1, <2>5, <3>2 DEF Chain, Permitted
  <2>6. CASE /\ job[c].base # NoKey /\ ~ job[c].shared /\ Tenant(c) = NoTenant
             /\ key' = key
             /\ at'[c] = IF options.policy = "throw" THEN "failed" ELSE "compute"
    BY <2>1, <2>6 DEF Chain, Permitted
  <2>7. CASE /\ job[c].base # NoKey /\ ~ job[c].shared /\ Tenant(c) # NoTenant
             /\ key'[c] = TenantKey(Tenant(c), job[c].base) /\ at'[c] = "get"
    <3>1. Tenant(c) \in Tenants
      BY <2>3, <2>7 DEF TenantOrNull
    <3>2. HasKey(job[c], Tenant(c)) /\ key'[c] = KeyOf(job[c], Tenant(c))
      BY <2>1, <2>2, <2>3, <2>7, <3>1 DEF HasKey, KeyOf
    <3>3. Keyed(c)'
      BY <2>1, <3>2, KeysStay DEF Keyed, Tenant
    <3>4. QED
      BY <2>1, <2>7, <3>1, <3>3 DEF Chain, Permitted, Tenant
  <2>8. QED
    BY <2>4, <2>5, <2>6, <2>7
       DEF TrackBy, TenantOfChain, Tenant, Report, Goto, IInv, TypeOK
<1>3. Entries'
  BY EntriesKeep DEF IInv, TrackBy
<1>4. QED
  BY <1>1, <1>2, <1>3, StepOf DEF IInv, TypeOK, TrackBy, Report, Goto

\* The key of a resource is that of its tenant.
LEMMA CreateKeyKeeps ==
  ASSUME IInv, NEW c \in Chains, CreateKey(c)
  PROVE  IInv'
<1>1. TypeOK'
  BY DEF IInv, TypeOK, CreateKey, Report, Goto, Places
<1>2. Chain(c)'
  <2>1. /\ job[c] \in Jobs /\ job[c].kind = "key" /\ key[c] = NoKey
        /\ job' = job /\ stack' = stack /\ options' = options
        /\ job[c].shared = FALSE /\ job[c].base \in Text
    BY JobConstants DEF IInv, Chain, CreateKey
  <2>2. Tenant(c) \in TenantOrNull
    BY TenantTyped DEF IInv, TypeOK, Tenant
  <2>3. CASE /\ key' = key
             /\ at'[c] = IF options.policy = "throw" THEN "failed" ELSE "unscoped"
    BY <2>1, <2>3 DEF Chain
  <2>4. CASE /\ Tenant(c) # NoTenant /\ at'[c] = "get"
             /\ key'[c] = ResourceKey(Tenant(c), job[c].base)
    <3>1. Tenant(c) \in Tenants
      BY <2>2, <2>4 DEF TenantOrNull
    <3>2. HasKey(job[c], Tenant(c)) /\ key'[c] = KeyOf(job[c], Tenant(c))
      BY <2>1, <2>2, <2>4, <3>1 DEF HasKey, KeyOf
    <3>3. Keyed(c)'
      BY <2>1, <3>2, KeysStay DEF Keyed, Tenant
    <3>4. QED
      BY <2>1, <2>4, <3>1, <3>3 DEF Chain, Permitted, Tenant
  <2>5. QED
    BY <2>3, <2>4 DEF CreateKey, Tenant, Report, Goto, IInv, TypeOK
<1>3. Entries'
  BY EntriesKeep DEF IInv, CreateKey
<1>4. QED
  BY <1>1, <1>2, <1>3, StepOf DEF IInv, TypeOK, CreateKey, Report, Goto

\* A search is answered for its tenant.
LEMMA SearchKeeps ==
  ASSUME IInv, NEW c \in Chains, Search(c)
  PROVE  IInv'
<1>1. TypeOK'
  BY DEF IInv, TypeOK, Search, Report, Goto, Answer, Places
<1>2. Chain(c)'
  <2>1. /\ job[c] \in Jobs /\ key[c] = NoKey /\ job[c].shared = FALSE
        /\ job' = job /\ stack' = stack /\ options' = options /\ key' = key
    BY JobConstants DEF IInv, Chain, Search
  <2>2. Tenant(c) \in TenantOrNull
    BY TenantTyped DEF IInv, TypeOK, Tenant
  <2>3. CASE at'[c] \in {"failed", "unscoped"}
    BY <2>1, <2>3 DEF Chain
  <2>4. CASE /\ Tenant(c) # NoTenant /\ at'[c] = "answered"
             /\ answer'[c] = [for |-> Tenant(c), of |-> job[c].base]
    BY <2>1, <2>2, <2>4 DEF Chain, Permitted, Made, Tenant, TenantOrNull
  <2>5. QED
    BY <2>3, <2>4 DEF Search, Tenant, Answer, Report, Goto, IInv, TypeOK
<1>3. Entries'
  BY EntriesKeep DEF IInv, Search
<1>4. QED
  BY <1>1, <1>2, <1>3, StepOf DEF IInv, TypeOK, Search, Report, Goto, Answer

\* What the store holds under the key is what the chain would compute.
LEMMA GetKeeps ==
  ASSUME IInv, NEW c \in Chains, Get(c)
  PROVE  IInv'
<1>1. TypeOK'
  BY DEF IInv, TypeOK, Get, Goto, Answer, Places
<1>2. Chain(c)'
  <2>1. /\ job[c] \in Jobs /\ Keyed(c) /\ Permitted(c)
        /\ job' = job /\ stack' = stack /\ options' = options /\ key' = key
    BY DEF IInv, Chain, Get
  <2>2. Keyed(c)' = Keyed(c) /\ Permitted(c)' = Permitted(c)
    BY <2>1, KeysStay DEF Keyed, Permitted, Tenant
  <2>3. CASE at'[c] \in {"compute", "failing"}
    BY <2>1, <2>2, <2>3 DEF Chain
  <2>4. CASE /\ key[c] \in DOMAIN store
             /\ at'[c] = "answered" /\ answer'[c] = store[key[c]]
    <3>1. PICK j \in Jobs, t \in TenantOrNull :
            /\ HasKey(j, t) /\ key[c] = KeyOf(j, t)
            /\ store[key[c]] = ValueOf(j, t)
      BY <2>4 DEF IInv, Entries
    <3>2. options \in Options
      BY DEF IInv, TypeOK
    <3>3. Unambiguous(options) => ValueOf(j, t) = ValueOf(job[c], Tenant(c))
      <4>1. HasKey(job[c], Tenant(c)) /\ KeyOf(j, t) = KeyOf(job[c], Tenant(c))
        BY <2>1, <3>1 DEF Keyed
      <4>2. QED
        BY <2>1, <3>1, <3>2, <4>1, KeyTellsValue, Zenon DEF HasKey
    <3>4. ValueOf(job[c], Tenant(c)) = Made(c)'
      BY <2>1 DEF ValueOf, Made, Tenant
    <3>5. QED
      BY <2>1, <2>2, <2>4, <3>1, <3>3, <3>4 DEF Chain
  <2>5. QED
    BY <2>3, <2>4 DEF Get, Answer, Goto, IInv, TypeOK
<1>3. Entries'
  BY EntriesKeep DEF IInv, Get
<1>4. QED
  BY <1>1, <1>2, <1>3, StepOf DEF IInv, TypeOK, Get, Goto, Answer

\* What is stored was computed for the job and the tenant of its key.
LEMMA ComputeKeeps ==
  ASSUME IInv, NEW c \in Chains, Compute(c)
  PROVE  IInv'
<1>1. TypeOK'
  BY DEF IInv, TypeOK, Compute, Goto, Answer, Places
<1>2. Chain(c)'
  <2>1. /\ job[c] \in Jobs /\ Permitted(c)
        /\ job' = job /\ stack' = stack /\ options' = options
    BY DEF IInv, Chain, Compute
  <2>2. Permitted(c)' = Permitted(c) /\ Made(c)' = Made(c)
    BY <2>1 DEF Permitted, Made, Tenant
  <2>3. at'[c] = "answered" /\ answer'[c] = Made(c)
    BY DEF Compute, Answer, Goto, IInv, TypeOK
  <2>4. QED
    BY <2>1, <2>2, <2>3 DEF Chain
<1>3. Entries'
  <2>1. options' = options
    BY DEF Compute
  <2>2. CASE store' = store
    BY <2>1, <2>2, EntriesKeep DEF IInv
  <2>3. CASE store' # store
    <3>1. at[c] = "compute" /\ key[c] # NoKey
      BY <2>3 DEF Compute
    <3>2. PICK kept \in SUBSET (DOMAIN store \ {key[c]}) :
            store' = [k \in kept \cup {key[c]} |->
                        IF k = key[c] THEN Made(c) ELSE store[k]]
      BY <2>3 DEF Compute
    <3>3. job[c] \in Jobs /\ Keyed(c)
      BY <3>1 DEF IInv, Chain
    <3>4. Made(c) = ValueOf(job[c], Tenant(c))
      BY DEF Made, ValueOf, Tenant
    <3>5. Tenant(c) \in TenantOrNull
      BY <3>3 DEF Keyed, HasKey
    <3>6. ASSUME NEW k \in DOMAIN store'
          PROVE  \E j \in Jobs, t \in TenantOrNull :
                   HasKey(j, t) /\ k = KeyOf(j, t) /\ store'[k] = ValueOf(j, t)
      <4>1. CASE k = key[c]
        <5>1. store'[k] = ValueOf(job[c], Tenant(c))
          BY <3>2, <3>4, <4>1
        <5>2. QED
          BY <3>3, <3>5, <4>1, <5>1 DEF Keyed
      <4>2. CASE k # key[c]
        <5>1. k \in DOMAIN store /\ store'[k] = store[k]
          BY <3>2, <4>2
        <5>2. QED
          BY <5>1 DEF IInv, Entries
      <4>3. QED
        BY <4>1, <4>2
    <3>7. QED
      BY <2>1, <3>6, KeysStay DEF Entries
  <2>4. QED
    BY <2>2, <2>3
<1>4. QED
  BY <1>1, <1>2, <1>3, StepOf DEF IInv, TypeOK, Compute, Goto, Answer

\* A new chain has no key and no answer.
LEMMA RenewKeeps ==
  ASSUME IInv, NEW c \in Chains, Renew(c)
  PROVE  IInv'
<1>1. TypeOK'
  <2>1. stack' \in [Chains -> Stack]
    BY IdConstants DEF IInv, TypeOK, Renew
  <2>2. at' \in [Chains -> Places] /\ job' \in [Chains -> Jobs \cup {NoJob}]
    BY DEF IInv, TypeOK, Renew, Goto, Places
  <2>3. QED
    BY <2>1, <2>2 DEF IInv, TypeOK, Renew
<1>2. Chain(c)'
  BY DEF IInv, TypeOK, Chain, Renew, Goto
<1>3. Entries'
  BY EntriesKeep DEF IInv, Renew
<1>4. QED
  BY <1>1, <1>2, <1>3, StepOf DEF IInv, TypeOK, Renew, Goto

\* Every action keeps the invariant, and so does a step that changes nothing.
LEMMA NextKeeps == IInv /\ [Next]_vars => IInv'
<1> SUFFICES ASSUME IInv, [Next]_vars PROVE IInv'
  OBVIOUS
<1>1. CASE Next
  BY <1>1, StartKeeps, TrackByKeeps, CreateKeyKeeps, SearchKeeps, GetKeeps,
     ComputeKeeps, RenewKeeps DEF Next
<1>2. CASE UNCHANGED vars
  <2>1. \A c \in Chains : Chain(c)'
    BY <1>2, OthersKeep DEF IInv, vars
  <2>2. Entries'
    BY <1>2, EntriesKeep DEF IInv, vars
  <2>3. TypeOK'
    BY <1>2 DEF IInv, TypeOK, vars
  <2>4. QED
    BY <2>1, <2>2, <2>3 DEF IInv
<1>3. QED
  BY <1>1, <1>2

\* The invariant holds in every reachable state.
THEOREM InvariantHolds == Spec => []IInv
BY InitIInv, NextKeeps, PTL DEF Spec

\* With unambiguous options no two tenants are served each other's entries, whatever
\* the ids, the base keys and the order in which chains fill the store; and with the
\* policy 'throw' none is served without a tenant.  What the options have to be is
\* stated with the model: Unambiguous; the code accepts others too.
THEOREM TenantsServedOwn == Spec => [](Unambiguous(options) => ServedOwn)
<1>1. IInv => (Unambiguous(options) => ServedOwn)
  <2> SUFFICES ASSUME IInv, Unambiguous(options), NEW c \in Chains, at[c] = "answered"
      PROVE  /\ answer[c] = Made(c)
             /\ options.policy = "throw" /\ job[c].base # NoKey /\ ~ job[c].shared =>
                  answer[c].for \in Tenants
    BY DEF ServedOwn
  <2>1. answer[c] = Made(c) /\ Permitted(c)
    BY DEF IInv, Chain
  <2>2. ~ job[c].shared => answer[c].for = Tenant(c)
    BY <2>1 DEF Made, Tenant
  <2>3. QED
    BY <2>1, <2>2 DEF Permitted
<1>2. QED
  BY <1>1, InvariantHolds, PTL

\* The keys of TenantResourceKey are collision-safe, as its documentation says, if
\* its separator has a character that is no digit: then no two of them coincide,
\* for any prefix, any ids and any base keys.
THEOREM KeysCollisionSafe == Spec => [](LengthEnds(options) => CollisionSafe)
<1>1. IInv => (LengthEnds(options) => CollisionSafe)
  <2> SUFFICES ASSUME IInv, LengthEnds(options), NEW c \in Chains, NEW d \in Chains,
                      at[c] = "get", job[c].kind = "key",
                      at[d] = "get", job[d].kind = "key", key[c] = key[d]
               PROVE  Tenant(c) = Tenant(d) /\ job[c].base = job[d].base
    BY DEF CollisionSafe, Tenant
  <2>1. /\ options \in Options
        /\ HasKey(job[c], Tenant(c)) /\ HasKey(job[d], Tenant(d))
        /\ KeyOf(job[c], Tenant(c)) = KeyOf(job[d], Tenant(d))
    BY DEF IInv, TypeOK, Chain, Keyed
  <2>2. ~ job[c].shared /\ ~ job[d].shared
    BY <2>1, JobConstants DEF HasKey
  <2>3. /\ Tenant(c) \in Tenants /\ Tenant(d) \in Tenants
        /\ job[c].base \in Text /\ job[d].base \in Text
    BY <2>1, <2>2 DEF HasKey
  <2>4. ResourceRest(Tenant(c), job[c].base) = ResourceRest(Tenant(d), job[d].base)
    <3>1. ResourceKey(Tenant(c), job[c].base) = ResourceKey(Tenant(d), job[d].base)
      BY <2>1, <2>2 DEF KeyOf
    <3>2. Cat(options.keyPrefix, options.keySeparator) \in Text
      BY <2>1, OptionTexts, Joined
    <3>3. ASSUME NEW t \in Tenants, NEW b \in Text
          PROVE  /\ ResourceRest(t, b) \in Text
                 /\ ResourceKey(t, b) =
                      Cat(Cat(options.keyPrefix, options.keySeparator), ResourceRest(t, b))
      BY <2>1, KeyParts
    <3>4. QED
      BY <2>3, <3>1, <3>2, <3>3, Split
  <2>5. QED
    BY <2>1, <2>3, <2>4, ResourcesTell
<1>2. QED
  BY <1>1, InvariantHolds, PTL
===============================================================================
