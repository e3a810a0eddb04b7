----------------------------- MODULE NamingProofs -----------------------------
(***************************************************************************)
(* What the names of secrets rest on, for every alphabet, every set of     *)
(* domains, applications and secrets.  As long as application names have   *)
(* no "@", unique names are unique and can be read back; as long as those  *)
(* names also reach Keywhiz as they are (PlainApps), secrets are created   *)
(* and deleted as if each were known by what users call it, but for a      *)
(* secret with a name that changes in a URL, which may be taken for        *)
(* another one of its application.                                         *)
(***************************************************************************)
EXTENDS Naming, SequenceTheorems, FiniteSetTheorems, Functions, TLAPS

\* Splitting at the first separator undoes joining with one.
LEMMA SplitJoined ==
    ASSUME NEW a \in Seq(Chars), NEW b \in Seq(Chars), NEW c \in Chars, ~ Has(c, a)
    PROVE  LET s == a \o <<c>> \o b
           IN  Has(c, s) /\ Before(c, s) = a /\ After(c, s) = b
<1> DEFINE s == (a \o <<c>>) \o b
<1>1. /\ a \o <<c>> \in Seq(Chars) /\ Len(a \o <<c>>) = Len(a) + 1
      /\ \A i \in 1 .. Len(a) + 1 : (a \o <<c>>)[i] = IF i <= Len(a) THEN a[i] ELSE c
  <2>1. <<c>> \in Seq(Chars) /\ Len(<<c>>) = 1 /\ <<c>>[1] = c
    OBVIOUS
  <2>2. QED
    BY <2>1, ConcatProperties, LenProperties
<1>2. /\ s \in Seq(Chars) /\ Len(s) = Len(a) + 1 + Len(b)
      /\ \A i \in 1 .. Len(s) : s[i] = IF i <= Len(a) + 1 THEN (a \o <<c>>)[i]
                                       ELSE b[i - (Len(a) + 1)]
  BY <1>1, ConcatProperties
<1>3. Len(a) \in Nat /\ Len(b) \in Nat /\ Len(s) \in Nat
  BY <1>2, LenProperties
<1>4. \A i \in 1 .. Len(a) : s[i] = a[i] /\ a[i] # c /\ a[i] \in Chars
  BY <1>1, <1>2, <1>3, ElementOfSeq DEF Has
<1>5. s[Len(a) + 1] = c
  BY <1>1, <1>2, <1>3
<1>6. \A i \in 1 .. Len(b) : s[Len(a) + 1 + i] = b[i] /\ b[i] \in Chars
  BY <1>1, <1>2, <1>3, ElementOfSeq
<1> HIDE DEF s
<1>7. Has(c, s)
  BY <1>2, <1>3, <1>5 DEF Has
<1>8. FirstAt(c, s) = Len(a) + 1
  <2>1. Len(a) + 1 \in 1 .. Len(s) /\ \A j \in 1 .. (Len(a) + 1) - 1 : s[j] # c
    BY <1>2, <1>3, <1>4
  <2>2. ASSUME NEW i \in 1 .. Len(s), s[i] = c, \A j \in 1 .. i - 1 : s[j] # c
        PROVE  i = Len(a) + 1
    <3>1. CASE i < Len(a) + 1
      BY <2>2, <3>1, <1>3, <1>4
    <3>2. CASE i > Len(a) + 1
      <4>1. Len(a) + 1 \in 1 .. i - 1
        BY <3>2, <1>3
      <4>2. QED
        BY <2>2, <4>1, <1>5
    <3>3. QED
      BY <3>1, <3>2, <1>3
  <2>3. QED
    BY <2>1, <2>2, <1>5 DEF FirstAt
<1>9. Before(c, s) = a
  <2>1. Before(c, s) = SubSeq(s, 1, Len(a))
    BY <1>3, <1>8 DEF Before
  <2>2. /\ SubSeq(s, 1, Len(a)) \in Seq(Chars) /\ Len(SubSeq(s, 1, Len(a))) = Len(a)
        /\ \A i \in 1 .. Len(a) : SubSeq(s, 1, Len(a))[i] = s[i]
    BY <1>3, <1>4, SubSeqProperties
  <2>3. QED
    BY <2>1, <2>2, <1>4, SeqEqual
<1>10. After(c, s) = b
  <2>1. After(c, s) = SubSeq(s, Len(a) + 2, Len(s))
    BY <1>3, <1>8 DEF After
  <2>2. \A i \in Len(a) + 2 .. Len(s) : s[i] \in Chars
    BY <1>2, <1>3, ElementOfSeq
  <2>3. /\ SubSeq(s, Len(a) + 2, Len(s)) \in Seq(Chars)
        /\ Len(SubSeq(s, Len(a) + 2, Len(s))) = Len(b)
        /\ \A i \in 1 .. Len(b) :
              SubSeq(s, Len(a) + 2, Len(s))[i] = s[Len(a) + 1 + i]
    <3> DEFINE m == Len(a) + 2
    <3>1. m \in Int /\ Len(s) \in Int /\ Len(s) - m + 1 = Len(b) /\ m + 0 = Len(a) + 2
      BY <1>2, <1>3
    <3>2. /\ SubSeq(s, m, Len(s)) \in Seq(Chars)
          /\ Len(SubSeq(s, m, Len(s))) = IF m <= Len(s) THEN Len(s) - m + 1 ELSE 0
          /\ \A i \in 1 .. Len(s) - m + 1 : SubSeq(s, m, Len(s))[i] = s[m + i - 1]
      BY <3>1, <2>2, SubSeqProperties
    <3>3. \A i \in 1 .. Len(b) : m + i - 1 = Len(a) + 1 + i
      BY <1>3
    <3>4. QED
      BY <3>1, <3>2, <3>3, <1>2, <1>3
  <2>4. QED
    BY <2>1, <2>3, <1>6, SeqEqual
<1>11. QED
  BY <1>7, <1>9, <1>10 DEF s

\* Joined texts without a separator have none but the one they are joined with.
LEMMA NoneInJoined ==
    ASSUME NEW a \in Seq(Chars), NEW b \in Seq(Chars), NEW c, NEW d \in Chars,
           c # d, ~ Has(c, a), ~ Has(c, b)
    PROVE  /\ a \o <<d>> \o b \in Seq(Chars)
           /\ ~ Has(c, a \o <<d>> \o b)
<1>1. /\ a \o <<d>> \in Seq(Chars) /\ Len(a \o <<d>>) = Len(a) + 1
      /\ \A i \in 1 .. Len(a) + 1 : (a \o <<d>>)[i] = IF i <= Len(a) THEN a[i] ELSE d
  <2>1. <<d>> \in Seq(Chars) /\ Len(<<d>>) = 1 /\ <<d>>[1] = d
    OBVIOUS
  <2>2. QED
    BY <2>1, ConcatProperties, LenProperties
<1>2. /\ (a \o <<d>>) \o b \in Seq(Chars)
      /\ Len((a \o <<d>>) \o b) = Len(a) + 1 + Len(b)
      /\ \A i \in 1 .. Len(a) + 1 + Len(b) :
            ((a \o <<d>>) \o b)[i] = IF i <= Len(a) + 1 THEN (a \o <<d>>)[i]
                                     ELSE b[i - (Len(a) + 1)]
  BY <1>1, ConcatProperties
<1>3. Len(a) \in Nat /\ Len(b) \in Nat
  BY LenProperties
<1>4. QED
  BY <1>1, <1>2, <1>3 DEF Has

\* Texts joined with a separator end as the second does, if it is not empty.
LEMMA EndOfJoined ==
    ASSUME NEW a \in Seq(Chars), NEW b \in Seq(Chars), NEW d \in Chars
    PROVE  LET s == a \o <<d>> \o b
           IN  /\ s \in Seq(Chars) /\ s # <<>>
               /\ s[Len(s)] = IF b = <<>> THEN d ELSE b[Len(b)]
<1> DEFINE s == (a \o <<d>>) \o b
<1>1. /\ a \o <<d>> \in Seq(Chars) /\ Len(a \o <<d>>) = Len(a) + 1
      /\ \A i \in 1 .. Len(a) + 1 : (a \o <<d>>)[i] = IF i <= Len(a) THEN a[i] ELSE d
  <2>1. <<d>> \in Seq(Chars) /\ Len(<<d>>) = 1 /\ <<d>>[1] = d
    OBVIOUS
  <2>2. QED
    BY <2>1, ConcatProperties, LenProperties
<1>2. /\ s \in Seq(Chars) /\ Len(s) = Len(a) + 1 + Len(b)
      /\ \A i \in 1 .. Len(s) : s[i] = IF i <= Len(a) + 1 THEN (a \o <<d>>)[i]
                                       ELSE b[i - (Len(a) + 1)]
  BY <1>1, ConcatProperties
<1>3. Len(a) \in Nat /\ Len(b) \in Nat /\ (b = <<>> <=> Len(b) = 0)
  BY LenProperties, EmptySeq
<1> HIDE DEF s
<1>4. Len(s) \in 1 .. Len(s)
  BY <1>2, <1>3
<1>5. s # <<>>
  <2>1. Len(s) # 0
    BY <1>2, <1>3
  <2>2. QED
    BY <2>1
<1>6. CASE b = <<>>
  <2>1. s[Len(s)] = d
    BY <1>1, <1>2, <1>3, <1>4, <1>6
  <2>2. QED
    BY <1>2, <1>5, <1>6, <2>1 DEF s
<1>7. CASE b # <<>>
  <2>1. s[Len(s)] = b[Len(b)]
    BY <1>2, <1>3, <1>4, <1>7
  <2>2. QED
    BY <1>2, <1>5, <1>7, <2>1 DEF s
<1>8. QED
  BY <1>6, <1>7

-----------------------------------------------------------------------------

\* The beginning of a unique name, up to the first "@", gives the type of the
\* domain and the application, whatever follows it.
LEMMA SplitUniq ==
    ASSUME NoUniqSep, NEW x \in AppSecret, NEW c \in Seq(Chars)
    PROVE  LET prefix == x.type \o <<GROUP_SEP>> \o x.app
               n == prefix \o <<UNIQ_NAME_SEP>> \o c
           IN  /\ Has(UNIQ_NAME_SEP, n) /\ Has(GROUP_SEP, prefix)
               /\ Before(UNIQ_NAME_SEP, n) = prefix /\ After(UNIQ_NAME_SEP, n) = c
               /\ Before(GROUP_SEP, prefix) = x.type /\ After(GROUP_SEP, prefix) = x.app
<1> DEFINE prefix == x.type \o <<GROUP_SEP>> \o x.app
<1>1. x.type \in Types /\ x.app \in AppNames
  BY DEF AppSecret
<1>2. /\ x.type \in Seq(Chars) /\ x.app \in Seq(Chars)
      /\ ~ Has(GROUP_SEP, x.type) /\ ~ Has(UNIQ_NAME_SEP, x.type)
      /\ ~ Has(UNIQ_NAME_SEP, x.app)
  BY <1>1, TypesAssumption, NamesAssumption DEF NoUniqSep
<1>3. GROUP_SEP \in Chars /\ UNIQ_NAME_SEP \in Chars /\ GROUP_SEP # UNIQ_NAME_SEP
  BY CharsAssumption DEF GROUP_SEP, UNIQ_NAME_SEP
<1>4. prefix \in Seq(Chars) /\ ~ Has(UNIQ_NAME_SEP, prefix)
  BY <1>2, <1>3, NoneInJoined
<1>5. /\ Has(GROUP_SEP, prefix)
      /\ Before(GROUP_SEP, prefix) = x.type /\ After(GROUP_SEP, prefix) = x.app
  BY <1>2, <1>3, SplitJoined
<1> HIDE DEF prefix
<1>6. LET n == prefix \o <<UNIQ_NAME_SEP>> \o c
      IN  /\ Has(UNIQ_NAME_SEP, n)
          /\ Before(UNIQ_NAME_SEP, n) = prefix /\ After(UNIQ_NAME_SEP, n) = c
  BY <1>3, <1>4, SplitJoined
<1>7. QED
  BY <1>5, <1>6 DEF prefix

\* AppSecret(x.getUniqSecretName()) is x again, for the application names that
\* AppGroup accepts, provided they have no "@".
LEMMA ParseUniq ==
    ASSUME NoUniqSep, NEW x \in AppSecret, WellFormed(x.app)
    PROVE  /\ Parsable(UniqSecretName(x))
           /\ Parse(UniqSecretName(x)) = x
<1>1. /\ x.type \in Types /\ x.name \in Seq(Chars) /\ LowerCase(x.type) = x.type
      /\ x = [type |-> x.type, app |-> x.app, name |-> x.name]
  BY TypesAssumption, NamesAssumption DEF AppSecret
<1>2. LET prefix == x.type \o <<GROUP_SEP>> \o x.app
          n == UniqSecretName(x)
      IN  /\ Has(UNIQ_NAME_SEP, n) /\ Has(GROUP_SEP, prefix)
          /\ Before(UNIQ_NAME_SEP, n) = prefix /\ After(UNIQ_NAME_SEP, n) = x.name
          /\ Before(GROUP_SEP, prefix) = x.type /\ After(GROUP_SEP, prefix) = x.app
  BY <1>1, SplitUniq DEF UniqSecretName
<1>3. Parsable(UniqSecretName(x))
  BY <1>1, <1>2 DEF Parsable
<1>4. Parse(UniqSecretName(x)) = x
  BY <1>1, <1>2 DEF Parse
<1>5. QED
  BY <1>3, <1>4

LEMMA Regrouped == \A p, q, r \in Seq(Chars) : (p \o q) \o r = p \o (q \o r)
  BY ConcatAssociative

\* What NoUniqSep is for: an "@" in the name of an application could as well be
\* in the name of a secret, and getUniqSecretName makes one name of the two.
THEOREM SeparatorIsAmbiguous ==
    ASSUME NEW type \in Seq(Chars), NEW a \in Seq(Chars), NEW b \in Seq(Chars), NEW c \in Seq(Chars)
    PROVE  UniqSecretName([type |-> type, app |-> a, name |-> b \o <<UNIQ_NAME_SEP>> \o c]) =
           UniqSecretName([type |-> type, app |-> a \o <<UNIQ_NAME_SEP>> \o b, name |-> c])
<1> DEFINE p == type \o <<GROUP_SEP>>
           s == <<UNIQ_NAME_SEP>>
           pa == p \o a
           as == a \o s
           bs == b \o s
           pas == pa \o s
<1>1. p \in Seq(Chars) /\ s \in Seq(Chars)
  BY CharsAssumption, ConcatProperties
<1> HIDE DEF p, s
<1>2. pa \in Seq(Chars) /\ as \in Seq(Chars) /\ bs \in Seq(Chars)
  BY <1>1, ConcatProperties
<1>3. \A q, r \in Seq(Chars) : (p \o q) \o r = p \o (q \o r)
  BY <1>1, Regrouped, Zenon
<1>4. pa \o s = p \o as
  BY <1>1, <1>3, Zenon
<1> HIDE DEF pa, as
<1>5. pas \in Seq(Chars)
  BY <1>1, <1>2, ConcatProperties
<1> HIDE DEF pas
<1>6. \A q, r \in Seq(Chars) : (pas \o q) \o r = pas \o (q \o r)
  BY <1>5, Regrouped, Zenon
<1>7. pas \o bs = (pas \o b) \o s
  BY <1>1, <1>6, Zenon
<1> HIDE DEF bs
<1>8. pas \o (bs \o c) = (pas \o bs) \o c
  BY <1>2, <1>6, Zenon
<1>9. (p \o as) \o b = p \o (as \o b)
  BY <1>2, <1>3, Zenon
<1>10. pas \o (bs \o c) = ((p \o (as \o b)) \o s) \o c
  BY <1>4, <1>7, <1>8, <1>9, Zenon DEF pas
<1>11. QED
  BY <1>10, Zenon DEF UniqSecretName, p, s, pa, as, bs, pas

-----------------------------------------------------------------------------

(* Names on their way to Keywhiz.                                          *)

LEMMA UpToCardinality ==
    ASSUME NEW n \in Nat
    PROVE  IsFiniteSet(1 .. n) /\ Cardinality(1 .. n) = n
<1>1. IsFiniteSet(1 .. n)
  BY FS_Interval
<1>2. Cardinality(1 .. n) = IF 1 > n THEN 0 ELSE n - 1 + 1
  BY FS_Interval
<1>3. QED
  BY <1>1, <1>2

\* A text that does not end in a blank is not trimmed, and one without "?" and
\* "#" not cut.
LEMMA NothingDropped ==
    ASSUME NEW s \in Seq(Chars)
    PROVE  /\ s # <<>> /\ s[Len(s)] # Blank => Trimmed(s) = s
           /\ (\A i \in 1 .. Len(s) : s[i] \notin PATH_END) => UpToEnd(s) = s
<1>1. Len(s) \in Nat /\ (s # <<>> => Len(s) > 0) /\ SubSeq(s, 1, Len(s)) = s
  BY LenProperties, EmptySeq, SubSeqFull
<1>2. Cardinality(1 .. Len(s)) = Len(s)
  BY <1>1, UpToCardinality
<1>3. ASSUME s # <<>>, s[Len(s)] # Blank
      PROVE  Trimmed(s) = s
  <2>1. {i \in 1 .. Len(s) : \E j \in i .. Len(s) : s[j] # Blank} = 1 .. Len(s)
    BY <1>1, <1>3
  <2>2. QED
    BY <1>1, <1>2, <2>1 DEF Trimmed
<1>4. ASSUME \A i \in 1 .. Len(s) : s[i] \notin PATH_END
      PROVE  UpToEnd(s) = s
  <2>1. {i \in 1 .. Len(s) : \A j \in 1 .. i : s[j] \notin PATH_END} = 1 .. Len(s)
    BY <1>1, <1>4
  <2>2. QED
    BY <1>1, <1>2, <2>1 DEF UpToEnd
<1>5. QED
  BY <1>3, <1>4

\* A beginning that has no "?" or "#" and does not end in a blank is left as it
\* is, whatever follows it.
LEMMA BeginningKept ==
    ASSUME NEW a \in Seq(Chars), NEW b \in Seq(Chars),
           a # <<>>, a[Len(a)] # Blank, \A i \in 1 .. Len(a) : a[i] \notin PATH_END
    PROVE  /\ \E c \in Seq(Chars) : Trimmed(a \o b) = a \o c
           /\ \E c \in Seq(Chars) : UpToEnd(a \o b) = a \o c
<1> DEFINE s == a \o b
<1>1. /\ s \in Seq(Chars) /\ Len(s) = Len(a) + Len(b)
      /\ \A i \in 1 .. Len(a) + Len(b) : s[i] = IF i <= Len(a) THEN a[i] ELSE b[i - Len(a)]
  BY ConcatProperties
<1>2. Len(a) \in Nat /\ Len(b) \in Nat /\ Len(s) \in Nat /\ Len(a) > 0
  BY <1>1, LenProperties, EmptySeq
<1>3. \A i \in 1 .. Len(a) : s[i] = a[i] /\ a[i] \in Chars
  BY <1>1, <1>2, ElementOfSeq
<1>4. \A i \in 1 .. Len(b) : s[Len(a) + i] = b[i] /\ b[i] \in Chars
  BY <1>1, <1>2, ElementOfSeq
<1> HIDE DEF s
<1>5. ASSUME NEW T, 1 .. Len(a) \subseteq T, T \subseteq 1 .. Len(s)
      PROVE  \E c \in Seq(Chars) : SubSeq(s, 1, Cardinality(T)) = a \o c
  <2> DEFINE k == Cardinality(T)
             c == SubSeq(b, 1, k - Len(a))
  <2>1. k \in Nat /\ Len(a) <= k /\ k <= Len(s)
    <3>1. IsFiniteSet(1 .. Len(s)) /\ Cardinality(1 .. Len(s)) = Len(s)
      BY <1>2, UpToCardinality
    <3>2. Cardinality(1 .. Len(a)) = Len(a)
      BY <1>2, UpToCardinality
    <3>3. IsFiniteSet(T) /\ k <= Len(s)
      BY <1>5, <3>1, FS_Subset
    <3>4. k \in Nat
      BY <3>3, FS_CardinalityType
    <3>5. Len(a) <= k
      BY <1>5, <3>2, <3>3, FS_Subset
    <3>6. QED
      BY <3>3, <3>4, <3>5
  <2> HIDE DEF k
  <2>2. /\ c \in Seq(Chars) /\ Len(c) = k - Len(a)
        /\ \A i \in 1 .. k - Len(a) : c[i] = b[i]
    <3>1. k - Len(a) \in Int /\ \A i \in 1 .. k - Len(a) : b[i] \in Chars
      BY <1>1, <1>2, <1>4, <2>1
    <3>2. /\ c \in Seq(Chars)
          /\ Len(c) = IF 1 <= k - Len(a) THEN (k - Len(a)) - 1 + 1 ELSE 0
          /\ \A i \in 1 .. (k - Len(a)) - 1 + 1 : c[i] = b[1 + i - 1]
      BY <3>1, SubSeqProperties
    <3>3. (k - Len(a)) - 1 + 1 = k - Len(a) /\ \A i \in 1 .. k - Len(a) : 1 + i - 1 = i
      BY <1>2, <2>1
    <3>4. QED
      BY <3>2, <3>3, <1>2, <2>1
  <2> HIDE DEF c
  <2>3. /\ SubSeq(s, 1, k) \in Seq(Chars) /\ Len(SubSeq(s, 1, k)) = k
        /\ \A i \in 1 .. k : SubSeq(s, 1, k)[i] = s[i]
    <3>1. \A i \in 1 .. k : s[i] \in Chars
      BY <1>1, <1>2, <2>1, ElementOfSeq
    <3>2. QED
      BY <1>2, <2>1, <3>1, SubSeqProperties
  <2>4. /\ a \o c \in Seq(Chars) /\ Len(a \o c) = k
        /\ \A i \in 1 .. k : (a \o c)[i] = IF i <= Len(a) THEN a[i] ELSE c[i - Len(a)]
    <3>1. /\ a \o c \in Seq(Chars) /\ Len(a \o c) = Len(a) + Len(c)
          /\ \A i \in 1 .. Len(a) + Len(c) :
                (a \o c)[i] = IF i <= Len(a) THEN a[i] ELSE c[i - Len(a)]
      BY <2>2, ConcatProperties
    <3>2. Len(a) + Len(c) = k
      BY <1>2, <2>1, <2>2
    <3>3. QED
      BY <3>1, <3>2
  <2>5. \A i \in 1 .. k : s[i] = (a \o c)[i]
    <3>1. ASSUME NEW i \in 1 .. k
          PROVE  s[i] = IF i <= Len(a) THEN a[i] ELSE c[i - Len(a)]
      <4>1. CASE i <= Len(a)
        BY <1>2, <1>3, <2>1, <4>1
      <4>2. CASE i > Len(a)
        <5>1. i - Len(a) \in 1 .. k - Len(a) /\ i - Len(a) \in 1 .. Len(b) /\ Len(a) + (i - Len(a)) = i
          BY <1>1, <1>2, <2>1, <4>2
        <5>2. QED
          BY <1>2, <1>4, <2>2, <4>2, <5>1
      <4>3. QED
        BY <1>2, <2>1, <4>1, <4>2
    <3>2. QED
      BY <2>4, <3>1
  <2>6. SubSeq(s, 1, k) = a \o c
    BY <2>1, <2>3, <2>4, <2>5, SeqEqual
  <2>7. QED
    BY <2>2, <2>6 DEF k
<1>6. \E c \in Seq(Chars) : Trimmed(s) = a \o c
  <2> DEFINE T == {i \in 1 .. Len(s) : \E j \in i .. Len(s) : s[j] # Blank}
  <2>1. Len(a) \in 1 .. Len(s) /\ s[Len(a)] # Blank
    BY <1>1, <1>2, <1>3
  <2>2. 1 .. Len(a) \subseteq T /\ T \subseteq 1 .. Len(s)
    BY <1>2, <2>1
  <2> HIDE DEF T
  <2>3. QED
    BY <1>5, <2>2 DEF Trimmed, T
<1>7. \E c \in Seq(Chars) : UpToEnd(s) = a \o c
  <2> DEFINE T == {i \in 1 .. Len(s) : \A j \in 1 .. i : s[j] \notin PATH_END}
  <2>1. ASSUME NEW i \in 1 .. Len(a)
        PROVE  i \in 1 .. Len(s) /\ \A j \in 1 .. i : s[j] \notin PATH_END
    <3>1. i \in 1 .. Len(s) /\ \A j \in 1 .. i : j \in 1 .. Len(a)
      BY <1>1, <1>2
    <3>2. QED
      BY <1>3, <3>1
  <2>2. 1 .. Len(a) \subseteq T /\ T \subseteq 1 .. Len(s)
    BY <2>1
  <2> HIDE DEF T
  <2>3. QED
    BY <1>5, <2>2 DEF UpToEnd, T
<1>8. QED
  BY <1>6, <1>7 DEF s

\* What an application's names begin with, in URLs too.
LEMMA PrefixKept ==
    ASSUME PlainApps, NEW x \in AppSecret
    PROVE  LET prefix == x.type \o <<GROUP_SEP>> \o x.app
               n == UniqSecretName(x)
           IN  /\ \E c \in Seq(Chars) : Sent(n) = prefix \o <<UNIQ_NAME_SEP>> \o c
               /\ \E c \in Seq(Chars) : SentBefore(n) = prefix \o <<UNIQ_NAME_SEP>> \o c
<1> DEFINE prefix == x.type \o <<GROUP_SEP>> \o x.app
           a == prefix \o <<UNIQ_NAME_SEP>>
<1>1. /\ x.type \in Seq(Chars) /\ x.app \in Seq(Chars) /\ x.name \in Seq(Chars)
      /\ x.type \in Types /\ x.app \in AppNames
      /\ GROUP_SEP \in Chars /\ UNIQ_NAME_SEP \in Chars
  BY TypesAssumption, NamesAssumption, CharsAssumption DEF AppSecret
<1>2. \A c \in PATH_END : /\ ~ Has(c, x.type) /\ ~ Has(c, x.app)
                          /\ c # GROUP_SEP /\ c # UNIQ_NAME_SEP
  BY <1>1, TypesAssumption DEF PlainApps, PATH_END, GROUP_SEP, UNIQ_NAME_SEP
<1>3. prefix \in Seq(Chars) /\ \A c \in PATH_END : ~ Has(c, prefix)
  <2>1. prefix \in Seq(Chars)
    BY <1>1, EndOfJoined
  <2>2. ASSUME NEW c \in PATH_END PROVE ~ Has(c, prefix)
    BY <1>1, <1>2, NoneInJoined
  <2>3. QED
    BY <2>1, <2>2
<1> HIDE DEF prefix
<1>4. /\ a \in Seq(Chars) /\ a # <<>> /\ a[Len(a)] # Blank
      /\ \A i \in 1 .. Len(a) : a[i] \notin PATH_END
  <2>1. /\ a \in Seq(Chars) /\ Len(a) = Len(prefix) + 1 /\ Len(prefix) \in Nat
        /\ \A i \in 1 .. Len(prefix) + 1 : a[i] = IF i <= Len(prefix) THEN prefix[i] ELSE UNIQ_NAME_SEP
    <3>1. <<UNIQ_NAME_SEP>> \in Seq(Chars) /\ Len(<<UNIQ_NAME_SEP>>) = 1
          /\ <<UNIQ_NAME_SEP>>[1] = UNIQ_NAME_SEP
      BY <1>1
    <3>2. QED
      BY <1>3, <3>1, ConcatProperties, LenProperties
  <2>2. UNIQ_NAME_SEP # Blank /\ UNIQ_NAME_SEP \notin PATH_END
    BY <1>2 DEF UNIQ_NAME_SEP, Blank
  <2> HIDE DEF a
  <2>3. a # <<>>
    BY <2>1, EmptySeq
  <2>4. a[Len(a)] = UNIQ_NAME_SEP
    BY <2>1
  <2>5. \A i \in 1 .. Len(prefix) : prefix[i] \notin PATH_END
    BY <1>3 DEF Has
  <2>6. QED
    BY <2>1, <2>2, <2>3, <2>4, <2>5
<1>5. UniqSecretName(x) = a \o x.name
  BY DEF UniqSecretName, prefix
<1> HIDE DEF a
<1>6. \A b \in Seq(Chars) : /\ \E c \in Seq(Chars) : Trimmed(a \o b) = a \o c
                            /\ \E c \in Seq(Chars) : UpToEnd(a \o b) = a \o c
  BY <1>4, BeginningKept
<1>7. PICK b \in Seq(Chars) : Trimmed(a \o x.name) = a \o b
  BY <1>1, <1>6, Zenon
<1>8. \E c \in Seq(Chars) : Sent(UniqSecretName(x)) = a \o c
  BY <1>5, <1>6, <1>7, Zenon DEF Sent
<1>9. \E c \in Seq(Chars) : SentBefore(UniqSecretName(x)) = a \o c
  BY <1>1, <1>5, <1>6, Zenon DEF SentBefore
<1>10. QED
  BY <1>8, <1>9 DEF a, prefix

\* A secret that a call for x may reach is one of the same application.
LEMMA AstrayStaysInApp ==
    ASSUME NoUniqSep, PlainApps, NEW x \in AppSecret, NEW y \in AppSecret,
           UniqSecretName(y) \in {Sent(UniqSecretName(x)), SentBefore(UniqSecretName(x))}
    PROVE  y.type = x.type /\ y.app = x.app
<1> DEFINE prefix == x.type \o <<GROUP_SEP>> \o x.app
<1>1. PICK c \in Seq(Chars) : UniqSecretName(y) = prefix \o <<UNIQ_NAME_SEP>> \o c
  BY PrefixKept
<1>2. /\ Before(UNIQ_NAME_SEP, UniqSecretName(y)) = prefix
      /\ Before(GROUP_SEP, prefix) = x.type /\ After(GROUP_SEP, prefix) = x.app
  BY <1>1, SplitUniq
<1>3. y.name \in Seq(Chars)
  BY NamesAssumption DEF AppSecret
<1>4. LET p == y.type \o <<GROUP_SEP>> \o y.app
      IN  /\ Before(UNIQ_NAME_SEP, UniqSecretName(y)) = p
          /\ Before(GROUP_SEP, p) = y.type /\ After(GROUP_SEP, p) = y.app
  BY <1>3, SplitUniq DEF UniqSecretName
<1>5. QED
  BY <1>2, <1>4

\* Plain names reach Keywhiz as they are, in both kinds of URL.
LEMMA PlainIsSent ==
    ASSUME PlainApps, NEW x \in Plain
    PROVE  LET n == UniqSecretName(x)
           IN  Sent(n) = n /\ SentBefore(n) = n /\ ~ EndsPath(n)
<1> DEFINE prefix == x.type \o <<GROUP_SEP>> \o x.app
           n == prefix \o <<UNIQ_NAME_SEP>> \o x.name
<1>1. /\ x.type \in Seq(Chars) /\ x.app \in Seq(Chars) /\ x.name \in Seq(Chars)
      /\ x.app \in AppNames /\ x.type \in Types /\ IsPlain(x.name)
      /\ GROUP_SEP \in Chars /\ UNIQ_NAME_SEP \in Chars
  BY TypesAssumption, NamesAssumption, CharsAssumption DEF AppSecret, Plain
<1>2. \A c \in PATH_END : /\ ~ Has(c, x.type) /\ ~ Has(c, x.app) /\ ~ Has(c, x.name)
                          /\ c # GROUP_SEP /\ c # UNIQ_NAME_SEP
  BY <1>1, TypesAssumption DEF PlainApps, IsPlain, PATH_END, GROUP_SEP, UNIQ_NAME_SEP
<1>3. UniqSecretName(x) = n
  BY DEF UniqSecretName
<1>4. ASSUME NEW c \in PATH_END
      PROVE  ~ Has(c, n)
  <2>1. prefix \in Seq(Chars) /\ ~ Has(c, prefix)
    BY <1>1, <1>2, NoneInJoined
  <2>2. QED
    BY <1>1, <1>2, <2>1, NoneInJoined
<1>5. prefix \in Seq(Chars)
  BY <1>1, EndOfJoined
<1> HIDE DEF prefix
<1>6. n \in Seq(Chars) /\ n # <<>> /\ n[Len(n)] # Blank
  <2>1. n \in Seq(Chars) /\ n # <<>> /\ n[Len(n)] = IF x.name = <<>> THEN UNIQ_NAME_SEP
                                                    ELSE x.name[Len(x.name)]
    BY <1>1, <1>5, EndOfJoined
  <2>2. x.name # <<>> => x.name[Len(x.name)] # Blank
    BY <1>1 DEF IsPlain
  <2>3. UNIQ_NAME_SEP # Blank
    BY DEF UNIQ_NAME_SEP, Blank
  <2> HIDE DEF n
  <2>4. QED
    BY <2>1, <2>2, <2>3
<1> HIDE DEF n
<1>7. \A i \in 1 .. Len(n) : n[i] \notin PATH_END
  BY <1>4 DEF Has
<1>8. Trimmed(n) = n /\ UpToEnd(n) = n
  BY <1>6, <1>7, NothingDropped
<1>9. ~ EndsPath(n)
  BY <1>4 DEF EndsPath
<1>10. QED
  BY <1>3, <1>8, <1>9 DEF Sent, SentBefore

-----------------------------------------------------------------------------

\* What Keywhiz holds was put there by createSecret.
OwnSecrets ==
    \A e \in stored : /\ e.owner \in Proper /\ e.uniq = UniqSecretName(e.owner)
                      /\ e.groups \subseteq {GroupOf[e.owner]}

LEMMA OwnSecretsInit == Init => OwnSecrets
  BY DEF Init, OwnSecrets

\* Only createSecret adds to what is stored.
LEMMA OnlyCreateAdds ==
    ASSUME NEW x \in AppSecret,
           \/ Malformed(x) \/ DeleteUnchecked(x) \/ Delete(x) \/ DeleteNone(x) \/ DeleteAll(x)
           \/ \E createGroup \in BOOLEAN : CreateNoGroup(x, createGroup)
    PROVE  stored' \subseteq stored /\ groups' = groups
  BY DEF Malformed, DeleteUnchecked, Delete, DeleteNone, DeleteAll, CreateNoGroup

LEMMA OwnSecretsStep ==
    ASSUME OwnSecrets, [Next]_vars
    PROVE  OwnSecrets'
<1>1. ASSUME NEW x \in AppSecret, NEW createGroup \in BOOLEAN, Create(x, createGroup)
      PROVE  OwnSecrets'
  <2> DEFINE e == [uniq |-> UniqSecretName(x), groups |-> {GroupOf[x]} \cap groups', owner |-> x]
  <2>1. stored' \subseteq stored \cup {e} /\ x \in Proper
    BY <1>1 DEF Create
  <2>2. e.owner = x /\ e.uniq = UniqSecretName(x) /\ e.groups \subseteq {GroupOf[x]}
    OBVIOUS
  <2> HIDE DEF e
  <2>3. QED
    BY <2>1, <2>2 DEF OwnSecrets
<1>2. ASSUME stored' \subseteq stored
      PROVE  OwnSecrets'
  BY <1>2 DEF OwnSecrets
<1>3. CASE UNCHANGED vars
  BY <1>2, <1>3 DEF vars
<1>4. QED
  BY <1>1, <1>2, <1>3, OnlyCreateAdds DEF Next

LEMMA OwnSecretsReadBack ==
    ASSUME NoUniqSep, OwnSecrets, NEW e \in stored
    PROVE  /\ Parsable(e.uniq) /\ Parse(e.uniq) = e.owner
           /\ e.uniq = UniqSecretName(e.owner) /\ e.owner \in Proper /\ e.owner \in AppSecret
<1>1. /\ e.owner \in AppSecret /\ WellFormed(e.owner.app) /\ e.owner \in Proper
      /\ e.uniq = UniqSecretName(e.owner)
  BY DEF OwnSecrets, Proper
<1>2. QED
  BY <1>1, ParseUniq

\* Every unique name in Keywhiz can be parsed into what it was built from: for
\* AppSecret(String) and SecretService.normalize.
THEOREM NamesAreReadBack ==
    ASSUME NoUniqSep
    PROVE  Spec => []NamesReadBack
<1>1. OwnSecrets => NamesReadBack
  <2> SUFFICES ASSUME OwnSecrets, NEW e \in stored
               PROVE  /\ Parsable(e.uniq) /\ Parse(e.uniq) = e.owner
                      /\ e.groups \subseteq {GroupName(e.owner.type, e.owner.app)}
    BY DEF NamesReadBack
  <2>1. GroupOf[e.owner] = GroupName(e.owner.type, e.owner.app)
    BY DEF OwnSecrets, GroupOf
  <2>2. QED
    BY <2>1, OwnSecretsReadBack DEF OwnSecrets
<1>2. QED
  BY <1>1, OwnSecretsInit, OwnSecretsStep, PTL DEF Spec

\* A secret is refused as already there only when it is: for getUniqSecretName
\* in the name space that all applications share.
THEOREM UniqueNamesAreUnique ==
    ASSUME NoUniqSep
    PROVE  Spec => []TakenByItself
<1>1. Init => TakenByItself
  BY DEF Init, TakenByItself
<1>2. OwnSecrets /\ TakenByItself /\ [Next]_vars => TakenByItself'
  <2> SUFFICES ASSUME OwnSecrets, TakenByItself, [Next]_vars
               PROVE  TakenByItself'
    OBVIOUS
  <2>1. ASSUME NEW x \in AppSecret,
               \/ Malformed(x) \/ DeleteUnchecked(x) \/ Delete(x) \/ DeleteNone(x) \/ DeleteAll(x)
        PROVE  TakenByItself'
    <3>1. answer'.op # "create"
      BY <2>1 DEF Malformed, DeleteUnchecked, Delete, DeleteNone, DeleteAll, Answer
    <3>2. QED
      BY <3>1 DEF TakenByItself
  <2>2. ASSUME NEW x \in AppSecret, NEW createGroup \in BOOLEAN, CreateNoGroup(x, createGroup)
        PROVE  TakenByItself'
    <3>1. answer'.result # "refused"
      BY <2>2 DEF CreateNoGroup, Answer
    <3>2. QED
      BY <3>1 DEF TakenByItself
  <2>3. ASSUME NEW x \in AppSecret, NEW createGroup \in BOOLEAN, Create(x, createGroup)
        PROVE  TakenByItself'
    <3>1. CASE Taken(UniqSecretName(x))
      <4>1. PICK e \in stored : e.uniq = UniqSecretName(x)
        BY <3>1 DEF Taken
      <4>2. WellFormed(x.app) /\ answer'.of = x /\ stored' = stored
        BY <2>3, <3>1 DEF Create, Answer, Proper
      <4>3. e.owner = x
        BY <4>1, <4>2, ParseUniq, OwnSecretsReadBack
      <4>4. QED
        BY <4>2, <4>3 DEF TakenByItself
    <3>2. CASE ~ Taken(UniqSecretName(x))
      <4>1. answer'.result = "ok"
        BY <2>3, <3>2 DEF Create, Answer
      <4>2. QED
        BY <4>1 DEF TakenByItself
    <3>3. QED
      BY <3>1, <3>2
  <2>4. CASE UNCHANGED vars
    BY <2>4 DEF vars, TakenByItself
  <2>5. QED
    BY <2>1, <2>2, <2>3, <2>4 DEF Next
<1>3. QED
  BY <1>1, <1>2, OwnSecretsInit, OwnSecretsStep, PTL DEF Spec

-----------------------------------------------------------------------------
(* Deleting, by names that may change on their way.                        *)

\* Every secret is in the group of its application, which exists; there are
\* only finitely many.
Filed ==
    /\ IsFiniteSet(stored)
    /\ \A e \in stored : /\ e = [uniq |-> e.uniq, groups |-> {GroupOf[e.owner]}, owner |-> e.owner]
                         /\ GroupOf[e.owner] \in groups

LEMMA FiledInit == Init => Filed
  BY FS_EmptySet DEF Init, Filed

LEMMA FiledStep ==
    ASSUME PlainApps, Filed, [Next]_vars
    PROVE  Filed'
<1>1. ASSUME NEW x \in AppSecret, NEW createGroup \in BOOLEAN, Create(x, createGroup)
      PROVE  Filed'
  <2> DEFINE e == [uniq |-> UniqSecretName(x), groups |-> {GroupOf[x]} \cap groups', owner |-> x]
  <2>1. stored' \subseteq stored \cup {e} /\ groups \subseteq groups'
    BY <1>1 DEF Create
  <2>2. GroupOf[x] \in groups'
    BY <1>1 DEF Create, PlainApps
  <2>3. e.owner = x /\ e = [uniq |-> e.uniq, groups |-> {GroupOf[e.owner]}, owner |-> e.owner]
    BY <2>2
  <2> HIDE DEF e
  <2>4. IsFiniteSet(stored \cup {e})
    BY FS_AddElement DEF Filed
  <2>5. IsFiniteSet(stored')
    BY <2>1, <2>4, FS_Subset
  <2>6. QED
    BY <2>1, <2>2, <2>3, <2>5 DEF Filed
<1>2. ASSUME stored' \subseteq stored, groups' = groups
      PROVE  Filed'
  <2>1. IsFiniteSet(stored')
    BY <1>2, FS_Subset DEF Filed
  <2>2. QED
    BY <1>2, <2>1 DEF Filed
<1>3. CASE UNCHANGED vars
  BY <1>2, <1>3 DEF vars
<1>4. QED
  BY <1>1, <1>2, <1>3, OnlyCreateAdds DEF Next

\* A unique name is taken exactly when the secret it was built from is there.
LEMMA TakenIsThere ==
    ASSUME NoUniqSep, OwnSecrets, NEW x \in Proper
    PROVE  /\ Taken(UniqSecretName(x)) <=> x \in {e.owner : e \in stored}
           /\ \A e \in stored : e.uniq = UniqSecretName(x) <=> e.owner = x
<1>1. x \in AppSecret /\ Parse(UniqSecretName(x)) = x
  BY ParseUniq DEF Proper
<1>2. \A e \in stored : Parse(e.uniq) = e.owner /\ e.uniq = UniqSecretName(e.owner)
  BY OwnSecretsReadBack
<1>3. \A e \in stored : e.uniq = UniqSecretName(x) <=> e.owner = x
  BY <1>1, <1>2
<1>4. QED
  BY <1>3 DEF Taken

\* Secrets of one group, in the table and in Keywhiz.
LEMMA FellowsAreFiled ==
    ASSUME OwnSecrets, Filed, NEW x \in Proper
    PROVE  /\ Table!Fellows(x) = {e.owner : e \in Group(GroupOf[x])}
           /\ Group(GroupOf[x]) \subseteq stored
           /\ \A e \in stored : GroupOf[e.owner] = GroupOf[x] <=> e \in Group(GroupOf[x])
<1>1. \A e \in stored : e.groups = {GroupOf[e.owner]}
  BY DEF Filed
<1>2. \A e \in stored : GroupOf[e.owner] = GroupOf[x] <=> e \in Group(GroupOf[x])
  BY <1>1 DEF Group
<1>3. Group(GroupOf[x]) \subseteq stored
  BY DEF Group
<1>4. QED
  BY <1>2, <1>3 DEF Table!Fellows

\* What the name of a secret becomes in a URL is the name of another secret of
\* the same group, if of any.
LEMMA AstrayStaysInGroup ==
    ASSUME NoUniqSep, PlainApps, OwnSecrets, Filed, NEW x \in Proper, NEW e \in stored,
           e.uniq = Sent(UniqSecretName(x))
    PROVE  e \in Group(GroupOf[x])
<1>1. x \in AppSecret /\ e.owner \in AppSecret /\ e.owner \in Proper
      /\ e.uniq = UniqSecretName(e.owner)
  BY DEF OwnSecrets, Proper
<1>2. e.owner.type = x.type /\ e.owner.app = x.app
  BY <1>1, AstrayStaysInApp
<1>3. GroupOf[e.owner] = GroupOf[x]
  BY <1>1, <1>2 DEF GroupOf
<1>4. QED
  BY <1>3, FellowsAreFiled

\* Each of a finite number of secrets is deleted by a call of its own for one
\* of them.
LEMMA EachHasItsCall ==
    ASSUME NEW S, IsFiniteSet(S), NEW f \in [S -> S],
           \A a, b \in S : f[a] = f[b] => a = b
    PROVE  \A b \in S : \E a \in S : f[a] = b
<1>1. f \in Injection(S, S)
  BY DEF Injection, IsInjective
<1>2. f \in Surjection(S, S)
  BY <1>1, FS_Injection
<1>3. QED
  BY <1>2 DEF Surjection

\* What deleteAllSecrets does, said of the secrets and not of their names: its
\* calls stay in the group, so that as many as there are secrets, which find
\* each its own, delete them all; and none fails unless a name changes in URLs.
LEMMA GroupIsDeleted ==
    ASSUME NoUniqSep, PlainApps, OwnSecrets, Filed, NEW x \in AppSecret, DeleteAll(x)
    PROVE  LET fellows == Group(GroupOf[x])
           IN  /\ x \in Proper
               /\ \/ /\ stored' = stored \ fellows
                     /\ answer' = [op |-> "deleteAll", of |-> x, result |-> "ok",
                                   names |-> {e.owner.name : e \in fellows}]
                  \/ /\ stored \ fellows \subseteq stored' /\ stored' \subseteq stored
                     /\ answer' = [op |-> "deleteAll", of |-> x, result |-> "missing", names |-> {}]
                     /\ \E e \in fellows : e.owner \notin Plain
<1> DEFINE fellows == Group(GroupOf[x])
           S(e) == Sent(e.uniq)
           calls == {Purge(Parse(e.uniq)) : e \in fellows}
<1>1. x \in Proper /\ KeywhizGroup(GroupOf[x]) = GroupOf[x]
  BY DEF DeleteAll, PlainApps
<1>2. fellows \subseteq stored
  BY DEF Group
<1>3. \A e \in stored : /\ Purge(Parse(e.uniq)) = [secret |-> e.owner, sent |-> S(e)]
                        /\ e.owner \in Proper /\ e.owner \in AppSecret
                        /\ e.uniq = UniqSecretName(e.owner)
  BY OwnSecretsReadBack DEF Purge
<1>4. \A d \in fellows, e \in stored : e.uniq = S(d) => e \in fellows
  <2> SUFFICES ASSUME NEW d \in fellows, NEW e \in stored, e.uniq = S(d)
               PROVE  e \in fellows
    OBVIOUS
  <2>1. d \in stored /\ GroupOf[d.owner] = GroupOf[x]
    BY <1>1, <1>2, FellowsAreFiled
  <2>2. e \in Group(GroupOf[d.owner])
    BY <1>3, <2>1, AstrayStaysInGroup
  <2>3. QED
    BY <2>1, <2>2
\* A secret is known by its owner.
<1>5. \A d, e \in stored : d.owner = e.owner => d = e
  <2> SUFFICES ASSUME NEW d \in stored, NEW e \in stored, d.owner = e.owner
               PROVE  d = e
    OBVIOUS
  <2>1. d.uniq = e.uniq
    BY <1>3
  <2>2. /\ d = [uniq |-> d.uniq, groups |-> {GroupOf[d.owner]}, owner |-> d.owner]
        /\ e = [uniq |-> e.uniq, groups |-> {GroupOf[e.owner]}, owner |-> e.owner]
    BY DEF Filed
  <2>3. QED
    BY <2>1, <2>2, Zenon
<1>6. PICK done \in SUBSET calls :
          /\ \A c \in done : Taken(c.sent) /\ \A d \in done : c.sent = d.sent => c = d
          /\ stored' = {e \in stored : \A c \in done : e.uniq # c.sent}
          /\ \/ done = calls /\ Answer("deleteAll", x, "ok", {c.secret.name : c \in calls})
             \/ /\ \E c \in calls \ done : \A e \in stored' : e.uniq # c.sent
                /\ Answer("deleteAll", x, "missing", {})
  BY <1>1 DEF DeleteAll
<1> HIDE DEF fellows, S
<1>7. calls = {[secret |-> e.owner, sent |-> S(e)] : e \in fellows}
  BY <1>2, <1>3
<1> HIDE DEF calls
<1>8. stored \ fellows \subseteq stored' /\ stored' \subseteq stored
  <2> SUFFICES ASSUME NEW e \in stored \ fellows, NEW c \in done, e.uniq = c.sent
               PROVE  FALSE
    BY <1>6
  <2>1. PICK d \in fellows : c = [secret |-> d.owner, sent |-> S(d)]
    BY <1>6, <1>7
  <2>2. QED
    BY <1>4, <2>1
<1>9. CASE done = calls /\ Answer("deleteAll", x, "ok", {c.secret.name : c \in calls})
  <2> DEFINE f == [d \in fellows |-> CHOOSE e \in fellows : e.uniq = S(d)]
  <2>1. \A d \in fellows : [secret |-> d.owner, sent |-> S(d)] \in done
    BY <1>7, <1>9
  <2>2. \A d \in fellows : \E e \in fellows : e.uniq = S(d)
    BY <1>4, <1>6, <2>1 DEF Taken
  <2>3. \A d \in fellows : f[d] \in fellows /\ f[d].uniq = S(d)
    BY <2>2
  <2>4. f \in [fellows -> fellows]
    BY <2>3
  <2> HIDE DEF f
  <2>5. ASSUME NEW a \in fellows, NEW b \in fellows, f[a] = f[b]
        PROVE  a = b
    <3>1. S(a) = S(b)
      BY <2>3, <2>5
    <3>2. [secret |-> a.owner, sent |-> S(a)] = [secret |-> b.owner, sent |-> S(b)]
      BY <1>6, <2>1, <3>1
    <3>3. a.owner = b.owner
      BY <3>2
    <3>4. QED
      BY <1>2, <1>5, <3>3
  <2>6. IsFiniteSet(fellows)
    BY <1>2, FS_Subset DEF Filed
  <2>7. \A e \in fellows : \E d \in fellows : f[d] = e
    BY <2>4, <2>5, <2>6, EachHasItsCall
  <2>8. \A e \in fellows : \E c \in done : e.uniq = c.sent
    <3> SUFFICES ASSUME NEW e \in fellows
                 PROVE  \E c \in done : e.uniq = c.sent
      OBVIOUS
    <3>1. PICK d \in fellows : f[d] = e
      BY <2>7
    <3>2. e.uniq = S(d) /\ [secret |-> d.owner, sent |-> S(d)] \in done
      BY <2>1, <2>3, <3>1
    <3>3. QED
      BY <3>2
  <2>9. stored' = stored \ fellows
    BY <1>6, <1>8, <2>8
  <2>10. {c.secret.name : c \in calls} = {e.owner.name : e \in fellows}
    <3>1. \A e \in fellows : \E c \in calls : c.secret.name = e.owner.name
      <4> SUFFICES ASSUME NEW e \in fellows
                   PROVE  \E c \in calls : c.secret.name = e.owner.name
        OBVIOUS
      <4>1. [secret |-> e.owner, sent |-> S(e)] \in calls
        BY <1>7
      <4>2. QED
        BY <4>1
    <3>2. \A c \in calls : \E e \in fellows : c.secret.name = e.owner.name
      BY <1>7
    <3>3. QED
      BY <3>1, <3>2
  <2>11. QED
    BY <1>1, <1>9, <2>9, <2>10 DEF Answer, fellows
<1>10. CASE /\ \E c \in calls \ done : \A e \in stored' : e.uniq # c.sent
            /\ Answer("deleteAll", x, "missing", {})
  <2>1. PICK c \in calls \ done : \A e \in stored' : e.uniq # c.sent
    BY <1>10
  <2>2. \E e \in fellows : e.owner \notin Plain
    <3>1. SUFFICES ASSUME \A e \in fellows : e.owner \in Plain
                   PROVE  FALSE
      OBVIOUS
    <3>2. \A e \in fellows : S(e) = e.uniq
      BY <1>2, <1>3, <3>1, PlainIsSent DEF S
    <3>3. PICK e \in fellows : c = [secret |-> e.owner, sent |-> e.uniq]
      BY <1>7, <2>1, <3>2
    <3>4. e \in stored /\ e \notin stored'
      BY <1>2, <2>1, <3>3
    <3>5. PICK d \in done : e.uniq = d.sent
      BY <1>6, <3>4
    <3>6. PICK g \in fellows : d = [secret |-> g.owner, sent |-> g.uniq]
      BY <1>6, <1>7, <3>2, <3>5
    <3>7. g.owner = e.owner
      BY <1>2, <3>4, <3>5, <3>6, OwnSecretsReadBack
    <3>8. c = d
      BY <1>2, <1>5, <3>3, <3>4, <3>6, <3>7
    <3>9. QED
      BY <2>1, <3>5, <3>8
  <2>3. QED
    BY <1>1, <1>8, <1>10, <2>2 DEF Answer, fellows
<1>11. QED
  BY <1>6, <1>9, <1>10

\* deleteAllSecrets, when it answers that it did, has deleted what the group
\* held and nothing else, and reports it: for its way from unique names to
\* parts and back, and into URLs, whatever secrets are called.
THEOREM DeleteAllIsExactForAll ==
    ASSUME NoUniqSep, PlainApps
    PROVE  Spec => DeleteAllIsExact
<1> DEFINE Exact ==
      answer'.op = "deleteAll" /\ answer'.result = "ok" =>
        LET g == GroupName(answer'.of.type, answer'.of.app)
        IN  /\ stored' = stored \ Group(g)
            /\ answer'.names = {e.owner.name : e \in Group(g)}
<1>1. OwnSecrets /\ Filed /\ [Next]_vars => [Exact]_vars
  <2> SUFFICES ASSUME OwnSecrets, Filed, Next
               PROVE  Exact
    OBVIOUS
  <2>1. ASSUME NEW x \in AppSecret, DeleteAll(x)
        PROVE  Exact
    <3>1. /\ answer'.of = x /\ x \in Proper
          /\ \/ /\ stored' = stored \ Group(GroupOf[x])
                /\ answer'.names = {e.owner.name : e \in Group(GroupOf[x])}
             \/ answer'.result # "ok"
      BY <2>1, GroupIsDeleted
    <3>2. GroupOf[x] = GroupName(x.type, x.app)
      BY <3>1 DEF GroupOf
    <3>3. QED
      BY <3>1, <3>2
  <2>2. ASSUME NEW x \in AppSecret,
               \/ Malformed(x) \/ DeleteUnchecked(x) \/ Delete(x)
               \/ \E createGroup \in BOOLEAN : CreateNoGroup(x, createGroup) \/ Create(x, createGroup)
        PROVE  Exact
    <3>1. answer'.op # "deleteAll"
      BY <2>2 DEF Malformed, DeleteUnchecked, Delete, CreateNoGroup, Create, Answer
    <3>2. QED
      BY <3>1
  <2>3. ASSUME NEW x \in AppSecret, DeleteNone(x)
        PROVE  Exact
    <3>1. answer'.result # "ok"
      BY <2>3 DEF DeleteNone, Answer
    <3>2. QED
      BY <3>1
  <2>4. QED
    BY <2>1, <2>2, <2>3 DEF Next
<1>2. QED
  BY <1>1, OwnSecretsInit, OwnSecretsStep, FiledInit, FiledStep, PTL DEF Spec, DeleteAllIsExact

-----------------------------------------------------------------------------
(* The refinement.                                                         *)

LEMMA TableInit == Init => Table!Init
  BY DEF Init, Table!Init

\* A group that does not exist has no secrets.
LEMMA NoGroupNoFellows ==
    ASSUME OwnSecrets, Filed, NEW x \in Proper, GroupOf[x] \notin groups
    PROVE  Table!Fellows(x) = {} /\ Group(GroupOf[x]) = {}
<1>1. Group(GroupOf[x]) = {}
  BY DEF Filed, Group
<1>2. QED
  BY <1>1, FellowsAreFiled

\* Every request does to the table what its code does to the unique names.
LEMMA TableStep ==
    ASSUME NoUniqSep, PlainApps, OwnSecrets, Filed, [Next]_vars
    PROVE  [Table!Next]_(Table!vars)
<1> DEFINE owners == {e.owner : e \in stored}
<1>1. ASSUME NEW x \in AppSecret, Malformed(x)
      PROVE  Table!Reject(x)
  BY <1>1 DEF Malformed, Answer, Table!Reject
<1>2. ASSUME NEW x \in AppSecret, NEW createGroup \in BOOLEAN, CreateNoGroup(x, createGroup)
      PROVE  Table!Create(x)
  <2>1. x \in Proper /\ GroupOf[x] \notin groups
    BY <1>2 DEF CreateNoGroup, PlainApps
  <2>2. ~ createGroup
    BY <1>2, <2>1 DEF CreateNoGroup
  <2>3. /\ answer' = [op |-> "create", of |-> x, result |-> "noGroup", names |-> {}]
        /\ stored' = stored
    BY <1>2, <2>2 DEF CreateNoGroup, Answer
  <2>4. Table!Fellows(x) = {}
    BY <2>1, NoGroupNoFellows
  <2>5. QED
    BY <2>1, <2>3, <2>4 DEF Table!Create
<1>3. ASSUME NEW x \in AppSecret, NEW createGroup \in BOOLEAN, Create(x, createGroup)
      PROVE  Table!Create(x)
  <2>1. x \in Proper
    BY <1>3 DEF Create
  <2>2. CASE x \in owners
    <3>1. /\ answer' = [op |-> "create", of |-> x, result |-> "refused", names |-> {}]
          /\ stored' = stored
      BY <1>3, <2>1, <2>2, TakenIsThere DEF Create, Answer
    <3>2. QED
      BY <2>1, <2>2, <3>1 DEF Table!Create
  <2>3. CASE x \notin owners
    <3> DEFINE e == [uniq |-> UniqSecretName(x), groups |-> {GroupOf[x]} \cap groups', owner |-> x]
    <3>1. /\ answer' = [op |-> "create", of |-> x, result |-> "ok", names |-> {}]
          /\ stored' = stored \cup {e}
      BY <1>3, <2>1, <2>3, TakenIsThere DEF Create, Answer
    <3>2. e.owner = x
      OBVIOUS
    <3> HIDE DEF e
    <3>3. {f.owner : f \in stored'} = owners \cup {x}
      BY <3>1, <3>2
    <3>4. QED
      BY <2>1, <2>3, <3>1, <3>3 DEF Table!Create
  <2>4. QED
    BY <2>2, <2>3
<1>4. ASSUME NEW x \in AppSecret, DeleteUnchecked(x)
      PROVE  Table!Delete(x) \/ Table!DeleteAstray(x)
  <2>1. x \in Proper /\ stored' = stored /\ answer'.op = "delete" /\ answer'.of = x /\ answer'.names = {}
    BY <1>4 DEF DeleteUnchecked, Answer
  <2>2. CASE x \in Plain
    <3>1. /\ ~ EndsPath(UniqSecretName(x))
          /\ SentBefore(UniqSecretName(x)) = UniqSecretName(x)
      BY <2>2, PlainIsSent
    <3>2. answer'.result = "missing" /\ ~ InGroup(x)
      BY <1>4, <3>1 DEF DeleteUnchecked, Answer
    <3>3. \A e \in stored : e.owner = x => e \in Group(GroupOf[x])
      BY <2>1, FellowsAreFiled
    <3>4. x \notin owners
      BY <2>1, <3>1, <3>2, <3>3, TakenIsThere DEF InGroup
    <3>5. QED
      BY <2>1, <3>2, <3>4 DEF Table!Delete
  <2>3. CASE x \notin Plain
    <3>1. answer'.result \in {"missing", "failed"}
      BY <1>4 DEF DeleteUnchecked, Answer
    <3>2. QED
      BY <2>1, <2>3, <3>1 DEF Table!DeleteAstray
  <2>4. QED
    BY <2>2, <2>3
<1>5. ASSUME NEW x \in AppSecret, Delete(x)
      PROVE  Table!Delete(x) \/ Table!DeleteAstray(x)
  <2> DEFINE sent == Sent(UniqSecretName(x))
  <2>1. /\ x \in Proper /\ InGroup(x)
        /\ stored' = {e \in stored : e.uniq # sent}
        /\ answer' = [op |-> "delete", of |-> x,
                      result |-> IF Taken(sent) THEN "ok" ELSE "missing", names |-> {}]
    BY <1>5 DEF Delete, Answer
  <2>2. ASSUME NEW y \in Proper, sent = UniqSecretName(y), Taken(sent)
        PROVE  {e.owner : e \in stored'} = owners \ {y} /\ y \in owners
    BY <2>1, <2>2, TakenIsThere
  <2>3. CASE x \in Plain
    <3>1. sent = UniqSecretName(x) /\ SentBefore(UniqSecretName(x)) = UniqSecretName(x)
      BY <2>3, PlainIsSent
    <3>2. Taken(sent)
      BY <2>1, <3>1 DEF InGroup, Group, Taken
    <3>3. QED
      BY <2>1, <2>2, <3>1, <3>2 DEF Table!Delete
  <2>4. CASE x \notin Plain /\ Taken(sent)
    <3>1. PICK e \in stored : e.uniq = sent
      BY <2>4 DEF Taken
    <3>2. e.owner \in Proper /\ sent = UniqSecretName(e.owner)
      BY <3>1 DEF OwnSecrets
    <3>3. e \in Group(GroupOf[x])
      BY <2>1, <3>1, AstrayStaysInGroup
    <3>4. e.owner \in Table!Fellows(x)
      BY <2>1, <3>3, FellowsAreFiled
    <3>5. {f.owner : f \in stored'} = owners \ {e.owner}
      BY <2>2, <2>4, <3>2
    <3>6. answer' = [op |-> "delete", of |-> x, result |-> "ok", names |-> {}]
      BY <2>1, <2>4
    <3>7. \E y \in Table!Fellows(x) : {f.owner : f \in stored'} = owners \ {y}
      BY <3>4, <3>5
    <3> HIDE DEF owners
    <3>8. QED
      BY <2>1, <2>4, <3>6, <3>7 DEF Table!DeleteAstray, owners
  <2>5. CASE x \notin Plain /\ ~ Taken(sent)
    <3>1. stored' = stored
      BY <2>1, <2>5 DEF Taken
    <3>2. answer' = [op |-> "delete", of |-> x, result |-> "missing", names |-> {}]
      BY <2>1, <2>5
    <3>3. QED
      BY <2>1, <2>5, <3>1, <3>2 DEF Table!DeleteAstray
  <2>6. QED
    BY <2>3, <2>4, <2>5
<1>6. ASSUME NEW x \in AppSecret, DeleteNone(x)
      PROVE  Table!DeleteAll(x)
  <2>1. x \in Proper /\ KeywhizGroup(GroupOf[x]) = GroupOf[x] /\ stored' = stored
    BY <1>6 DEF DeleteNone, PlainApps
  <2>2. GroupOf[x] \notin groups
    <3>1. Foreign(GroupOf[x]) = {}
      BY OwnSecretsReadBack DEF Foreign, Group
    <3>2. QED
      BY <1>6, <2>1, <3>1 DEF DeleteNone
  <2>3. answer' = [op |-> "deleteAll", of |-> x, result |-> "noGroup", names |-> {}]
    BY <1>6, <2>1, <2>2 DEF DeleteNone, Answer
  <2>4. Table!Fellows(x) = {}
    BY <2>1, <2>2, NoGroupNoFellows
  <2>5. QED
    BY <2>1, <2>3, <2>4 DEF Table!DeleteAll
<1>7. ASSUME NEW x \in AppSecret, DeleteAll(x)
      PROVE  Table!DeleteAll(x) \/ Table!DeleteSome(x)
  <2> DEFINE fellows == Group(GroupOf[x])
  <2>1. x \in Proper
    BY <1>7, GroupIsDeleted
  <2>2. /\ Table!Fellows(x) = {e.owner : e \in fellows}
        /\ fellows \subseteq stored
        /\ \A e \in stored : e.owner \in Table!Fellows(x) <=> e \in fellows
    BY <2>1, FellowsAreFiled DEF Table!Fellows
  <2>3. CASE /\ stored' = stored \ fellows
             /\ answer' = [op |-> "deleteAll", of |-> x, result |-> "ok",
                           names |-> {e.owner.name : e \in fellows}]
    <3> HIDE DEF fellows
    <3>1. {e.owner : e \in stored'} = owners \ Table!Fellows(x)
      BY <2>2, <2>3
    <3>2. {e.owner.name : e \in fellows} = {y.name : y \in Table!Fellows(x)}
      BY <2>2
    <3>3. QED
      BY <2>1, <2>3, <3>1, <3>2 DEF Table!DeleteAll
  <2>4. CASE /\ stored \ fellows \subseteq stored' /\ stored' \subseteq stored
             /\ answer' = [op |-> "deleteAll", of |-> x, result |-> "missing", names |-> {}]
             /\ \E e \in fellows : e.owner \notin Plain
    <3> DEFINE gone == owners \ {e.owner : e \in stored'}
    <3> HIDE DEF fellows
    <3>1. gone \subseteq Table!Fellows(x) /\ {e.owner : e \in stored'} = owners \ gone
      BY <2>2, <2>4
    <3>2. ~ (Table!Fellows(x) \subseteq Plain)
      BY <2>2, <2>4
    <3> HIDE DEF gone
    <3>3. QED
      BY <2>1, <2>4, <3>1, <3>2 DEF Table!DeleteSome
  <2>5. QED
    BY <1>7, <2>3, <2>4, GroupIsDeleted
<1>8. CASE UNCHANGED vars
  BY <1>8 DEF vars, Table!vars
<1>9. QED
  BY <1>1, <1>2, <1>3, <1>4, <1>5, <1>6, <1>7, <1>8 DEF Next, Table!Next

\* Unique names in one name space, sent in URLs, serve as well as a table of
\* secrets, as long as the names of applications have no "@" and are the same
\* in URLs.  Secrets may have any name: by one that changes in a URL a request
\* may delete another secret, but never one of another group.
THEOREM NamesServeAsTable ==
    ASSUME NoUniqSep, PlainApps
    PROVE  Spec => ServesAsTable
<1>1. OwnSecrets /\ Filed /\ [Next]_vars => [Table!Next]_(Table!vars)
  BY TableStep
<1>2. QED
  BY <1>1, OwnSecretsInit, OwnSecretsStep, FiledInit, FiledStep, TableInit, PTL
     DEF Spec, ServesAsTable, Table!Spec
===============================================================================
