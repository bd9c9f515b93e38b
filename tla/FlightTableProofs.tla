------------------------- MODULE FlightTableProofs --------------------------
(***************************************************************************)
(* For any flights, kinds of flights, launch methods and days: the view of *)
(* the flight table, which only hears of changes, shows the flight list    *)
(* with the towflights of its airtows, the list has the flights of the     *)
(* displayed day, and the log books account for each of its flights.       *)
(***************************************************************************)
EXTENDS FlightTable, FiniteSetTheorems, SequenceTheorems, WellFoundedInduction,
        TLAPS

-----------------------------------------------------------------------------
(* Sequences: inserting, removing and replacing *)

\* a set of numbers has a least one: what every induction here goes by
LEMMA LeastNat == ASSUME NEW T, T \subseteq Nat, T # {}
  PROVE \E x \in T : \A y \in T : x <= y
<1> DEFINE R == {ss \in Nat \X Nat : ss[1] < ss[2]}
<1>1. IsWellFoundedOn(R, Nat)
  BY NatLessThanWellFounded DEF OpToRel
<1>2. \A y, x \in Nat : y < x => <<y, x>> \in R
  OBVIOUS
<1>3. \E x \in T : \A y \in T : ~ (<<y, x>> \in R)
  <2> HIDE DEF R
  <2> QED BY <1>1, WFMin
<1>4. PICK x \in T : \A y \in T : ~ (<<y, x>> \in R)
  BY <1>3
<1>5. \A y \in T : ~(y < x)
  <2> HIDE DEF R
  <2> QED BY <1>2, <1>4
<1> QED BY <1>5


\* what the operators of SequencesExt do, element by element
LEMMA RemoveAtIs ==
  ASSUME NEW S, NEW s \in Seq(S), NEW n \in 1 .. Len(s)
  PROVE  /\ RemoveAt(s, n) \in Seq(S)
         /\ Len(RemoveAt(s, n)) = Len(s) - 1
         /\ \A i \in 1 .. Len(s) - 1 :
              RemoveAt(s, n)[i] = IF i < n THEN s[i] ELSE s[i + 1]
<1> DEFINE l == SubSeq(s, 1, n - 1)
           r == SubSeq(s, n + 1, Len(s))
<1>1. Len(s) \in Nat /\ \A i \in 1 .. Len(s) : s[i] \in S
  BY LenProperties, ElementOfSeq
<1>2. l \in Seq(S) /\ Len(l) = n - 1 /\ \A i \in 1 .. n - 1 : l[i] = s[i]
  BY <1>1, SubSeqProperties
<1>3. /\ r \in Seq(S) /\ Len(r) = Len(s) - n
      /\ \A i \in 1 .. Len(s) - n : r[i] = s[n + i]
  BY <1>1, SubSeqProperties
<1>4. RemoveAt(s, n) = l \o r
  BY DEF RemoveAt
<1> HIDE DEF l, r
<1>5. /\ l \o r \in Seq(S) /\ Len(l \o r) = Len(l) + Len(r)
      /\ \A i \in 1 .. Len(l) + Len(r) :
           (l \o r)[i] = IF i <= Len(l) THEN l[i] ELSE r[i - Len(l)]
  BY <1>2, <1>3, ConcatProperties
<1> DEFINE c == l \o r
<1> HIDE DEF c
<1>6. /\ c \in Seq(S) /\ Len(c) = Len(s) - 1
      /\ \A i \in 1 .. Len(s) - 1 : c[i] = IF i <= n - 1 THEN l[i] ELSE r[i - (n - 1)]
  BY <1>5, <1>2, <1>3, <1>1 DEF c
<1>7. \A i \in 1 .. Len(s) - 1 : c[i] = IF i < n THEN s[i] ELSE s[i + 1]
  <2> TAKE i \in 1 .. Len(s) - 1
  <2>1. CASE i < n
    BY <2>1, <1>6, <1>2, <1>1
  <2>2. CASE ~ (i < n)
    <3>1. i - (n - 1) \in 1 .. Len(s) - n /\ n + (i - (n - 1)) = i + 1
      BY <2>2, <1>1
    <3>2. c[i] = r[i - (n - 1)]
      BY <2>2, <1>6, <1>1
    <3> QED BY <3>1, <3>2, <1>3, <2>2
  <2> QED BY <2>1, <2>2
<1> QED BY <1>4, <1>6, <1>7 DEF c

LEMMA InsertAtIs ==
  ASSUME NEW S, NEW s \in Seq(S), NEW n \in 1 .. Len(s) + 1, NEW e \in S
  PROVE  /\ InsertAt(s, n, e) \in Seq(S)
         /\ Len(InsertAt(s, n, e)) = Len(s) + 1
         /\ \A i \in 1 .. Len(s) + 1 :
              InsertAt(s, n, e)[i] = IF i < n THEN s[i]
                                     ELSE IF i = n THEN e ELSE s[i - 1]
<1> DEFINE l == SubSeq(s, 1, n - 1)
           r == SubSeq(s, n, Len(s))
           m == Append(l, e)
<1>1. Len(s) \in Nat /\ \A i \in 1 .. Len(s) : s[i] \in S
  BY LenProperties, ElementOfSeq
<1>2. l \in Seq(S) /\ Len(l) = n - 1 /\ \A i \in 1 .. n - 1 : l[i] = s[i]
  BY <1>1, SubSeqProperties
<1>3. /\ r \in Seq(S) /\ Len(r) = Len(s) - n + 1
      /\ \A i \in 1 .. Len(s) - n + 1 : r[i] = s[n + i - 1]
  BY <1>1, SubSeqProperties
<1>4. InsertAt(s, n, e) = l \o <<e>> \o r
  BY DEF InsertAt
<1> HIDE DEF l, r
<1>5. l \o <<e>> = m
  BY <1>2
<1>6. /\ m \in Seq(S) /\ Len(m) = n
      /\ \A i \in 1 .. n : m[i] = IF i < n THEN s[i] ELSE e
  BY <1>2, <1>1
<1> HIDE DEF m
<1> DEFINE c == m \o r
<1>7. /\ c \in Seq(S) /\ Len(c) = Len(m) + Len(r)
      /\ \A i \in 1 .. Len(m) + Len(r) :
           c[i] = IF i <= Len(m) THEN m[i] ELSE r[i - Len(m)]
  BY <1>3, <1>6, ConcatProperties
<1> HIDE DEF c
<1>8. /\ c \in Seq(S) /\ Len(c) = Len(s) + 1
      /\ \A i \in 1 .. Len(s) + 1 : c[i] = IF i <= n THEN m[i] ELSE r[i - n]
  BY <1>7, <1>3, <1>6, <1>1
<1>9. \A i \in 1 .. Len(s) + 1 : c[i] = IF i < n THEN s[i]
                                     ELSE IF i = n THEN e ELSE s[i - 1]
  <2> TAKE i \in 1 .. Len(s) + 1
  <2>1. CASE i <= n
    BY <2>1, <1>8, <1>6, <1>1
  <2>2. CASE ~ (i <= n)
    <3>1. i - n \in 1 .. Len(s) - n + 1 /\ n + (i - n) - 1 = i - 1
      BY <2>2, <1>1
    <3>2. c[i] = r[i - n]
      BY <2>2, <1>8, <1>1
    <3>3. ~ (i < n) /\ i # n
      BY <2>2, <1>1
    <3> QED BY <3>1, <3>2, <3>3, <1>3
  <2> QED BY <2>1, <2>2
<1> QED BY <1>4, <1>5, <1>8, <1>9 DEF c

LEMMA ReplaceAtIs ==
  ASSUME NEW S, NEW s \in Seq(S), NEW n \in 1 .. Len(s), NEW e \in S
  PROVE  /\ ReplaceAt(s, n, e) \in Seq(S)
         /\ Len(ReplaceAt(s, n, e)) = Len(s)
         /\ \A i \in 1 .. Len(s) : ReplaceAt(s, n, e)[i] = IF i = n THEN e ELSE s[i]
BY ExceptSeq DEF ReplaceAt

\* the view is two sequences one after the other: a row appended to the first
LEMMA InsertBehindFirst ==
  ASSUME NEW S, NEW a \in Seq(S), NEW b \in Seq(S), NEW e \in S
  PROVE  InsertAt(a \o b, Len(a) + 1, (Append(a, e) \o b)[Len(a) + 1])
           = Append(a, e) \o b
<1> DEFINE ab == a \o b
           a1 == Append(a, e)
           c  == a1 \o b
           m  == Len(a) + 1
           d  == InsertAt(ab, m, e)
<1>1. /\ ab \in Seq(S) /\ Len(ab) = Len(a) + Len(b) /\ Len(a) \in Nat /\ Len(b) \in Nat
      /\ \A i \in 1 .. Len(ab) : ab[i] = IF i <= Len(a) THEN a[i] ELSE b[i - Len(a)]
  BY ConcatProperties, LenProperties
<1>2. /\ a1 \in Seq(S) /\ Len(a1) = Len(a) + 1
      /\ \A i \in 1 .. Len(a) + 1 : a1[i] = IF i <= Len(a) THEN a[i] ELSE e
  BY <1>1
<1> HIDE DEF a1, ab
<1>3. /\ c \in Seq(S) /\ Len(c) = Len(a1) + Len(b)
      /\ \A i \in 1 .. Len(a1) + Len(b) :
           c[i] = IF i <= Len(a1) THEN a1[i] ELSE b[i - Len(a1)]
  BY <1>2, ConcatProperties
<1> HIDE DEF c
<1>4. m \in 1 .. Len(ab) + 1 /\ c[m] = e /\ m = Len(a) + 1
  BY <1>1, <1>2, <1>3
<1> HIDE DEF m
<1>5. /\ d \in Seq(S) /\ Len(d) = Len(ab) + 1
      /\ \A i \in 1 .. Len(ab) + 1 :
           d[i] = IF i < m THEN ab[i] ELSE IF i = m THEN e ELSE ab[i - 1]
  <2>1. ab \in Seq(S) /\ m \in 1 .. Len(ab) + 1
    BY <1>1, <1>4
  <2> HIDE DEF d
  <2>2. \A i \in 1 .. Len(ab) + 1 :
          InsertAt(ab, m, e)[i] = IF i < m THEN ab[i] ELSE IF i = m THEN e ELSE ab[i - 1]
    BY <2>1, InsertAtIs
  <2>3. InsertAt(ab, m, e) \in Seq(S) /\ Len(InsertAt(ab, m, e)) = Len(ab) + 1
    BY <2>1, InsertAtIs
  <2> QED BY <2>2, <2>3 DEF d
<1> HIDE DEF d
<1>6. Len(d) = Len(c)
  BY <1>1, <1>2, <1>3, <1>5
<1>7. ASSUME NEW i \in 1 .. Len(d) PROVE d[i] = c[i]
  <2>1. CASE i <= Len(a)
    <3>1. d[i] = ab[i]
      BY <2>1, <1>1, <1>4, <1>5
    <3>2. ab[i] = a[i]
      BY <2>1, <1>1, <1>5
    <3>3. c[i] = a1[i]
      BY <2>1, <1>1, <1>2, <1>3, <1>5
    <3>4. a1[i] = a[i]
      BY <2>1, <1>1, <1>2, <1>5
    <3> QED BY <3>1, <3>2, <3>3, <3>4
  <2>2. CASE i = Len(a) + 1
    BY <2>2, <1>1, <1>4, <1>5
  <2>3. CASE i > Len(a) + 1
    <3>1. d[i] = ab[i - 1]
      BY <2>3, <1>1, <1>4, <1>5
    <3>2. ab[i - 1] = b[i - 1 - Len(a)]
      <4>1. i - 1 \in 1 .. Len(ab) /\ ~ (i - 1 <= Len(a))
        BY <2>3, <1>1, <1>5
      <4> QED BY <4>1, <1>1
    <3>3. c[i] = b[i - Len(a1)]
      BY <2>3, <1>1, <1>2, <1>3, <1>5
    <3>4. i - Len(a1) = i - 1 - Len(a)
      BY <1>1, <1>2, <1>5
    <3> QED BY <3>1, <3>2, <3>3, <3>4
  <2> QED BY <2>1, <2>2, <2>3, <1>1, <1>5
<1>8. d = c
  BY <1>3, <1>5, <1>6, <1>7, SeqEqual
<1> QED BY <1>4, <1>8 DEF d, c, ab, a1, m

\* and to the second
LEMMA InsertBehindSecond ==
  ASSUME NEW S, NEW a \in Seq(S), NEW b \in Seq(S), NEW e \in S
  PROVE  InsertAt(a \o b, Len(a \o Append(b, e)),
                  (a \o Append(b, e))[Len(a \o Append(b, e))])
           = a \o Append(b, e)
<1> DEFINE ab == a \o b
           b1 == Append(b, e)
           c  == a \o b1
           m  == Len(c)
           d  == InsertAt(ab, m, e)
<1>1. /\ ab \in Seq(S) /\ Len(ab) = Len(a) + Len(b) /\ Len(a) \in Nat /\ Len(b) \in Nat
      /\ \A i \in 1 .. Len(ab) : ab[i] = IF i <= Len(a) THEN a[i] ELSE b[i - Len(a)]
  BY ConcatProperties, LenProperties
<1>2. /\ b1 \in Seq(S) /\ Len(b1) = Len(b) + 1
      /\ \A i \in 1 .. Len(b) + 1 : b1[i] = IF i <= Len(b) THEN b[i] ELSE e
  BY <1>1
<1> HIDE DEF b1, ab
<1>3. /\ c \in Seq(S) /\ Len(c) = Len(a) + Len(b1)
      /\ \A i \in 1 .. Len(a) + Len(b1) :
           c[i] = IF i <= Len(a) THEN a[i] ELSE b1[i - Len(a)]
  BY <1>2, ConcatProperties
<1> HIDE DEF c
<1>4. m = Len(c) /\ m = Len(ab) + 1 /\ m \in 1 .. Len(ab) + 1
  BY <1>1, <1>2, <1>3
<1>9. c[Len(c)] = e
  <2>1. Len(c) - Len(a) = Len(b) + 1 /\ ~ (Len(c) <= Len(a)) /\ Len(c) \in 1 .. Len(a) + Len(b1)
    BY <1>1, <1>2, <1>3
  <2>2. c[Len(c)] = b1[Len(b) + 1]
    BY <2>1, <1>3
  <2> QED BY <2>2, <1>2, <1>1
<1> HIDE DEF m
<1>5. /\ d \in Seq(S) /\ Len(d) = Len(ab) + 1
      /\ \A i \in 1 .. Len(ab) + 1 :
           d[i] = IF i < m THEN ab[i]
                  ELSE IF i = m THEN e ELSE ab[i - 1]
  <2>1. ab \in Seq(S) /\ m \in 1 .. Len(ab) + 1
    BY <1>1, <1>4
  <2> HIDE DEF d
  <2>2. \A i \in 1 .. Len(ab) + 1 :
          InsertAt(ab, m, e)[i] = IF i < m THEN ab[i] ELSE IF i = m THEN e ELSE ab[i - 1]
    BY <2>1, InsertAtIs
  <2>3. InsertAt(ab, m, e) \in Seq(S) /\ Len(InsertAt(ab, m, e)) = Len(ab) + 1
    BY <2>1, InsertAtIs
  <2> QED BY <2>2, <2>3 DEF d
<1> HIDE DEF d
<1>7. ASSUME NEW i \in 1 .. Len(d) PROVE d[i] = c[i]
  <2>1. CASE i <= Len(a)
    <3>1. d[i] = ab[i]
      BY <2>1, <1>1, <1>4, <1>5
    <3>2. ab[i] = a[i]
      BY <2>1, <1>1, <1>4, <1>5
    <3>3. c[i] = a[i]
      BY <2>1, <1>1, <1>2, <1>3, <1>4, <1>5
    <3> QED BY <3>1, <3>2, <3>3
  <2>2. CASE i = Len(c)
    BY <2>2, <1>9, <1>4, <1>5
  <2>3. CASE i > Len(a) /\ i # Len(c)
    <3>1. d[i] = ab[i]
      BY <2>3, <1>1, <1>5, <1>4
    <3>2. ab[i] = b[i - Len(a)]
      <4>1. i \in 1 .. Len(ab) /\ ~ (i <= Len(a))
        BY <2>3, <1>1, <1>5, <1>4
      <4> QED BY <4>1, <1>1
    <3>3. c[i] = b1[i - Len(a)]
      BY <2>3, <1>1, <1>2, <1>3, <1>5
    <3>4. i - Len(a) \in 1 .. Len(b)
      BY <2>3, <1>1, <1>5, <1>4
    <3>5. b1[i - Len(a)] = b[i - Len(a)]
      <4>1. i - Len(a) \in 1 .. Len(b) + 1 /\ i - Len(a) <= Len(b)
        BY <3>4, <1>1
      <4> QED BY <4>1, <1>2
    <3> QED BY <3>1, <3>2, <3>3, <3>5
  <2> QED BY <2>1, <2>2, <2>3, <1>1, <1>5
<1>8. d = c
  BY <1>3, <1>5, <1>4, <1>7, SeqEqual
<1> QED BY <1>9, <1>8 DEF d, c, ab, b1, m

\* a row removed from the first, and from the second
LEMMA RemoveFromFirst ==
  ASSUME NEW S, NEW a \in Seq(S), NEW b \in Seq(S), NEW n \in 1 .. Len(a)
  PROVE  RemoveAt(a \o b, n) = RemoveAt(a, n) \o b
<1> DEFINE ab == a \o b
           a1 == RemoveAt(a, n)
           c  == a1 \o b
           d  == RemoveAt(ab, n)
<1>1. /\ ab \in Seq(S) /\ Len(ab) = Len(a) + Len(b) /\ Len(a) \in Nat /\ Len(b) \in Nat
      /\ \A i \in 1 .. Len(ab) : ab[i] = IF i <= Len(a) THEN a[i] ELSE b[i - Len(a)]
  BY ConcatProperties, LenProperties
<1>2. /\ a1 \in Seq(S) /\ Len(a1) = Len(a) - 1
      /\ \A i \in 1 .. Len(a) - 1 : a1[i] = IF i < n THEN a[i] ELSE a[i + 1]
  BY RemoveAtIs
<1> HIDE DEF a1, ab
<1>3. /\ c \in Seq(S) /\ Len(c) = Len(a1) + Len(b)
      /\ \A i \in 1 .. Len(a1) + Len(b) :
           c[i] = IF i <= Len(a1) THEN a1[i] ELSE b[i - Len(a1)]
  BY <1>2, ConcatProperties
<1>4. n \in 1 .. Len(ab)
  BY <1>1
<1>5. /\ d \in Seq(S) /\ Len(d) = Len(ab) - 1
      /\ \A i \in 1 .. Len(ab) - 1 : d[i] = IF i < n THEN ab[i] ELSE ab[i + 1]
  BY <1>1, <1>4, RemoveAtIs
<1> HIDE DEF c, d
<1>6. Len(d) = Len(c)
  BY <1>1, <1>2, <1>3, <1>5
<1>7. ASSUME NEW i \in 1 .. Len(d) PROVE d[i] = c[i]
  <2>1. CASE i <= Len(a) - 1
    <3>1. c[i] = a1[i]
      BY <2>1, <1>1, <1>2, <1>3, <1>5
    <3>2. a1[i] = IF i < n THEN a[i] ELSE a[i + 1]
      BY <2>1, <1>1, <1>2, <1>5
    <3>3. ab[i] = a[i] /\ ab[i + 1] = a[i + 1]
      BY <2>1, <1>1, <1>5
    <3>4. d[i] = IF i < n THEN ab[i] ELSE ab[i + 1]
      BY <1>5, <1>1
    <3> QED BY <3>1, <3>2, <3>3, <3>4
  <2>3. CASE i > Len(a) - 1
    <3>1. d[i] = ab[i + 1]
      BY <2>3, <1>1, <1>5
    <3>2. ab[i + 1] = b[i + 1 - Len(a)]
      BY <2>3, <1>1, <1>5
    <3>3. c[i] = b[i - Len(a1)]
      BY <2>3, <1>1, <1>2, <1>3, <1>5
    <3>4. i - Len(a1) = i + 1 - Len(a)
      BY <1>1, <1>2, <1>5
    <3> QED BY <3>1, <3>2, <3>3, <3>4
  <2> QED BY <2>1, <2>3, <1>1, <1>5
<1>8. d = c
  BY <1>3, <1>5, <1>6, <1>7, SeqEqual
<1> QED BY <1>8 DEF d, c, ab, a1

LEMMA RemoveFromSecond ==
  ASSUME NEW S, NEW a \in Seq(S), NEW b \in Seq(S), NEW n \in 1 .. Len(b)
  PROVE  RemoveAt(a \o b, Len(a) + n) = a \o RemoveAt(b, n)
<1> DEFINE ab == a \o b
           b1 == RemoveAt(b, n)
           c  == a \o b1
           m  == Len(a) + n
           d  == RemoveAt(ab, m)
<1>1. /\ ab \in Seq(S) /\ Len(ab) = Len(a) + Len(b) /\ Len(a) \in Nat /\ Len(b) \in Nat
      /\ \A i \in 1 .. Len(ab) : ab[i] = IF i <= Len(a) THEN a[i] ELSE b[i - Len(a)]
  BY ConcatProperties, LenProperties
<1>2. /\ b1 \in Seq(S) /\ Len(b1) = Len(b) - 1
      /\ \A i \in 1 .. Len(b) - 1 : b1[i] = IF i < n THEN b[i] ELSE b[i + 1]
  BY RemoveAtIs
<1> HIDE DEF b1, ab
<1>3. /\ c \in Seq(S) /\ Len(c) = Len(a) + Len(b1)
      /\ \A i \in 1 .. Len(a) + Len(b1) :
           c[i] = IF i <= Len(a) THEN a[i] ELSE b1[i - Len(a)]
  BY <1>2, ConcatProperties
<1>4. m \in 1 .. Len(ab) /\ m = Len(a) + n
  BY <1>1
<1> HIDE DEF m
<1>5. /\ d \in Seq(S) /\ Len(d) = Len(ab) - 1
      /\ \A i \in 1 .. Len(ab) - 1 : d[i] = IF i < m THEN ab[i] ELSE ab[i + 1]
  BY <1>1, <1>4, RemoveAtIs
<1> HIDE DEF c, d
<1>6. Len(d) = Len(c)
  BY <1>1, <1>2, <1>3, <1>5
<1>7. ASSUME NEW i \in 1 .. Len(d) PROVE d[i] = c[i]
  <2>1. CASE i <= Len(a)
    BY <2>1, <1>1, <1>2, <1>3, <1>4, <1>5
  <2>3. CASE i > Len(a)
    <3>1. c[i] = b1[i - Len(a)]
      BY <2>3, <1>1, <1>2, <1>3, <1>5
    <3>2. i - Len(a) \in 1 .. Len(b) - 1
      BY <2>3, <1>1, <1>5
    <3>3. b1[i - Len(a)] = IF i - Len(a) < n THEN b[i - Len(a)] ELSE b[i - Len(a) + 1]
      BY <3>2, <1>2
    <3>4. ab[i] = b[i - Len(a)]
      BY <2>3, <1>1, <1>5
    <3>5. ab[i + 1] = b[i + 1 - Len(a)] /\ i + 1 - Len(a) = i - Len(a) + 1
      BY <2>3, <1>1, <1>5
    <3>6. d[i] = IF i < m THEN ab[i] ELSE ab[i + 1]
      BY <1>5, <1>1
    <3>7. i < m <=> i - Len(a) < n
      BY <1>4, <1>1, <1>5
    <3> QED BY <3>1, <3>3, <3>4, <3>5, <3>6, <3>7
  <2> QED BY <2>1, <2>3, <1>1, <1>5
<1>8. d = c
  BY <1>3, <1>5, <1>6, <1>7, SeqEqual
<1> QED BY <1>8 DEF d, c, ab, b1, m

\* a row of the first replaced
LEMMA ReplacedInFirst ==
  ASSUME NEW S, NEW a \in Seq(S), NEW b \in Seq(S), NEW n \in 1 .. Len(a), NEW e \in S
  PROVE  ReplaceAt(a \o b, n, e) = ReplaceAt(a, n, e) \o b
<1> DEFINE ab == a \o b
           a1 == ReplaceAt(a, n, e)
           c  == a1 \o b
           d  == ReplaceAt(ab, n, e)
<1>1. /\ ab \in Seq(S) /\ Len(ab) = Len(a) + Len(b) /\ Len(a) \in Nat /\ Len(b) \in Nat
      /\ \A i \in 1 .. Len(ab) : ab[i] = IF i <= Len(a) THEN a[i] ELSE b[i - Len(a)]
  BY ConcatProperties, LenProperties
<1>2. /\ a1 \in Seq(S) /\ Len(a1) = Len(a)
      /\ \A i \in 1 .. Len(a) : a1[i] = IF i = n THEN e ELSE a[i]
  BY ExceptSeq DEF ReplaceAt
<1> HIDE DEF a1, ab
<1>3. /\ c \in Seq(S) /\ Len(c) = Len(a1) + Len(b)
      /\ \A i \in 1 .. Len(a1) + Len(b) :
           c[i] = IF i <= Len(a1) THEN a1[i] ELSE b[i - Len(a1)]
  BY <1>2, ConcatProperties
<1>4. n \in 1 .. Len(ab)
  BY <1>1
<1>5. /\ d \in Seq(S) /\ Len(d) = Len(ab)
      /\ \A i \in 1 .. Len(ab) : d[i] = IF i = n THEN e ELSE ab[i]
  BY <1>1, <1>4, ExceptSeq DEF ReplaceAt
<1> HIDE DEF c
<1> HIDE DEF d
<1>7. ASSUME NEW i \in 1 .. Len(d) PROVE d[i] = c[i]
  <2>1. CASE i <= Len(a)
    BY <2>1, <1>1, <1>2, <1>3, <1>5
  <2>2. CASE i > Len(a)
    <3>1. d[i] = ab[i]
      BY <2>2, <1>1, <1>5
    <3>2. ab[i] = b[i - Len(a)]
      BY <2>2, <1>1, <1>5
    <3>3. c[i] = b[i - Len(a)]
      BY <2>2, <1>1, <1>2, <1>3, <1>5
    <3> QED BY <3>1, <3>2, <3>3
  <2> QED BY <2>1, <2>2, <1>1, <1>5
<1>8. d = c
  BY <1>1, <1>2, <1>3, <1>5, <1>7, SeqEqual
<1> QED BY <1>8 DEF d, c, ab, a1

-----------------------------------------------------------------------------
(* The ids of a set in their order *)

\* a finite set of numbers can be put in order
LEMMA SortedExists ==
  ASSUME NEW k \in Nat
  PROVE  \A S \in SUBSET Nat : IsFiniteSet(S) /\ Cardinality(S) = k =>
           \E s \in [1 .. k -> S] : \A i, j \in 1 .. k : i < j => s[i] < s[j]
<1> DEFINE P(m) == \A S \in SUBSET Nat : IsFiniteSet(S) /\ Cardinality(S) = m =>
           \E s \in [1 .. m -> S] : \A i, j \in 1 .. m : i < j => s[i] < s[j]
           Bad == {m \in Nat : ~ P(m)}
<1>1. ASSUME Bad # {} PROVE FALSE
  <2>1. PICK m \in Bad : \A y \in Bad : m <= y
    <3> HIDE DEF P
    <3> QED BY <1>1, LeastNat
  <2>2. m \in Nat /\ ~ P(m)
    OBVIOUS
  <2>3. PICK S \in SUBSET Nat : /\ IsFiniteSet(S) /\ Cardinality(S) = m
                                /\ ~ \E s \in [1 .. m -> S] :
                                       \A i, j \in 1 .. m : i < j => s[i] < s[j]
    BY <2>2
  <2>4. m # 0
    <3> SUFFICES ASSUME m = 0 PROVE FALSE
      OBVIOUS
    <3>1. 1 .. m = {}
      OBVIOUS
    <3>2. [x \in 1 .. m |-> x] \in [1 .. m -> S]
      BY <3>1
    <3> QED BY <3>1, <3>2, <2>3
  <2>5. S # {}
    BY <2>3, <2>4, FS_EmptySet
  <2>6. PICK x \in S : \A y \in S : x <= y
    BY <2>5, LeastNat
  <2>7. IsFiniteSet(S \ {x}) /\ Cardinality(S \ {x}) = m - 1
    BY <2>3, FS_RemoveElement
  <2>8. m - 1 \in Nat /\ P(m - 1)
    <3>1. m - 1 \in Nat /\ ~ (m <= m - 1)
      BY <2>2, <2>4
    <3>2. m - 1 \notin Bad
      BY <2>1, <3>1
    <3> HIDE DEF P
    <3> QED BY <3>1, <3>2
  <2>9. PICK s \in [1 .. m - 1 -> S \ {x}] :
          \A i, j \in 1 .. m - 1 : i < j => s[i] < s[j]
    BY <2>7, <2>8
  <2> DEFINE r == [i \in 1 .. m |-> IF i = 1 THEN x ELSE s[i - 1]]
  <2>10. r \in [1 .. m -> S]
    <3> SUFFICES ASSUME NEW i \in 1 .. m, i # 1 PROVE s[i - 1] \in S
      OBVIOUS
    <3>1. i - 1 \in 1 .. m - 1
      BY <2>2
    <3> QED BY <3>1
  <2>11. ASSUME NEW i \in 1 .. m, NEW j \in 1 .. m, i < j PROVE r[i] < r[j]
    <3>1. j - 1 \in 1 .. m - 1 /\ r[j] = s[j - 1]
      BY <2>2, <2>11
    <3>2. CASE i = 1
      <4>1. s[j - 1] \in S /\ s[j - 1] # x
        BY <3>1
      <4>2. x \in Nat /\ s[j - 1] \in Nat /\ x <= s[j - 1]
        BY <4>1, <2>6
      <4>3. r[i] = x
        BY <3>2
      <4> QED BY <3>1, <4>1, <4>2, <4>3
    <3>3. CASE i # 1
      <4>1. i - 1 \in 1 .. m - 1 /\ r[i] = s[i - 1] /\ i - 1 < j - 1
        BY <2>2, <2>11, <3>3
      <4> QED BY <3>1, <4>1, <2>9
    <3> QED BY <3>2, <3>3
  <2> HIDE DEF r
  <2> QED BY <2>3, <2>10, <2>11
<1>2. P(k)
  <2> HIDE DEF P
  <2> QED BY <1>1
<1> QED BY <1>2

\* InOrder has each member of the set once
LEMMA InOrderIs ==
  ASSUME NEW S \in SUBSET Nat, IsFiniteSet(S)
  PROVE  /\ InOrder(S) \in Seq(S) /\ Len(InOrder(S)) = Cardinality(S)
         /\ DOMAIN InOrder(S) = 1 .. Cardinality(S)
         /\ Cardinality(S) \in Nat
         /\ \A i, j \in 1 .. Cardinality(S) : InOrder(S)[i] = InOrder(S)[j] => i = j
         /\ \A x \in S : \E i \in 1 .. Cardinality(S) : InOrder(S)[i] = x
<1> DEFINE k == Cardinality(S)
           s == InOrder(S)
<1>1. k \in Nat
  BY FS_CardinalityType
<1>2. \E r \in [1 .. k -> S] : \A i, j \in 1 .. k : i < j => r[i] < r[j]
  BY <1>1, SortedExists
<1>3. \E r \in [1 .. k -> S] : \A i, j \in DOMAIN r : i < j => r[i] < r[j]
  <2> HIDE DEF k
  <2> QED BY <1>2
<1>4. s \in [1 .. k -> S] /\ \A i, j \in DOMAIN s : i < j => s[i] < s[j]
  BY <1>3 DEF InOrder
<1> HIDE DEF s
<1>5. \A i, j \in 1 .. k : s[i] = s[j] => i = j
  <2> HIDE DEF k
  <2> SUFFICES ASSUME NEW i \in 1 .. k, NEW j \in 1 .. k, s[i] = s[j], i # j PROVE FALSE
    OBVIOUS
  <2>1. s[i] \in Nat /\ s[j] \in Nat
    BY <1>4
  <2>2. i < j \/ j < i
    BY <1>1
  <2>3. DOMAIN s = 1 .. k
    BY <1>4
  <2>4. s[i] < s[j] \/ s[j] < s[i]
    BY <2>2, <2>3, <1>4
  <2> QED BY <2>1, <2>4
<1>6. s \in Injection(1 .. k, S)
  <2> HIDE DEF k
  <2> QED BY <1>4, <1>5 DEF Injection, IsInjective
<1>7. Cardinality(1 .. k) = k
  <2> HIDE DEF k
  <2> QED BY <1>1, FS_Interval
<1>8. s \in Surjection(1 .. k, S)
  BY <1>6, <1>7, FS_Injection
<1>9. \A x \in S : \E i \in 1 .. k : s[i] = x
  <2> HIDE DEF k
  <2> QED BY <1>8 DEF Surjection
<1>10. s \in Seq(S) /\ Len(s) = k /\ DOMAIN s = 1 .. k
  <2> HIDE DEF k
  <2> QED BY <1>4, <1>1
<1> QED BY <1>1, <1>5, <1>9, <1>10 DEF s

-----------------------------------------------------------------------------
(* What the signals do to the view: it stays the list and the towflights *)

(* The parts of a table; that its view is the list and the towflights;     *)
(* that its labels count the list.                                         *)
TableShape(t) == t = [list |-> t.list, tows |-> t.tows, view |-> t.view,
                      active |-> t.active, total |-> t.total]

Shown(t) == /\ TableShape(t)
            /\ t.list \in Seq(Flight) /\ t.tows \in Seq(Flight)
            /\ t.view = t.list \o t.tows

LabelsRight(t, on) ==
  /\ t.total = IF on THEN CountHappened(t.list) ELSE NoNumber
  /\ t.active \in {NoNumber, CountFlying(t.list)}

LEMMA TowflightIsFlight ==
  ASSUME NEW f \in Flight
  PROVE  /\ MakeTowflight(f) \in Flight /\ MakeTowflight(f).id = f.id
         /\ MakeTowflight(f).tow
BY DEF MakeTowflight, Flight

\* one part of the table is assigned, the others are left
LEMMA TableParts ==
  ASSUME NEW t, TableShape(t), NEW p
  PROVE  /\ [t EXCEPT !.list = p] = [list |-> p, tows |-> t.tows, view |-> t.view,
                                     active |-> t.active, total |-> t.total]
         /\ [t EXCEPT !.tows = p] = [list |-> t.list, tows |-> p, view |-> t.view,
                                     active |-> t.active, total |-> t.total]
         /\ [t EXCEPT !.view = p] = [list |-> t.list, tows |-> t.tows, view |-> p,
                                     active |-> t.active, total |-> t.total]
BY DEF TableShape

\* flightListChanged sets the labels and nothing else
LEMMA ListChangedShows ==
  ASSUME NEW t, Shown(t)
  PROVE  LET r == FlightListChanged(t)
         IN  Shown(r) /\ LabelsRight(r, enabled') /\ r.list = t.list /\ r.tows = t.tows
<1> DEFINE r == FlightListChanged(t)
           a == IF enabled' /\ displayDate' = today' THEN CountFlying(t.list) ELSE NoNumber
           n == IF enabled' THEN CountHappened(t.list) ELSE NoNumber
<1>1. r = [t EXCEPT !.active = a, !.total = n]
  BY DEF FlightListChanged
<1>2. a \in {NoNumber, CountFlying(t.list)}
  OBVIOUS
<1> HIDE DEF a, r
<1>3. r = [list |-> t.list, tows |-> t.tows, view |-> t.view, active |-> a, total |-> n]
  <2> HIDE DEF n
  <2> QED BY <1>1 DEF Shown, TableShape
<1> QED BY <1>2, <1>3 DEF Shown, LabelsRight, TableShape, r

\* a towflight is added
LEMMA AddTowflightShows ==
  ASSUME NEW t, Shown(t), NEW f \in Flight
  PROVE  LET r == AddTowflightFor(t, f)
         IN  Shown(r) /\ r.list = t.list /\ r.tows = Append(t.tows, MakeTowflight(f))
<1> DEFINE e == MakeTowflight(f)
           u == [t EXCEPT !.tows = Append(@, e)]
           v == InsertAt(t.view, Len(ProxyRows(u)), ProxyRows(u)[Len(ProxyRows(u))])
<1>1. e \in Flight
  BY TowflightIsFlight
<1>2. AddTowflightFor(t, f) = [u EXCEPT !.view = v]
  BY DEF AddTowflightFor, ViewInserted, Shown, TableShape
<1> HIDE DEF e
<1> DEFINE o == Append(t.tows, e)
<1>3. u = [list |-> t.list, tows |-> o, view |-> t.view,
           active |-> t.active, total |-> t.total]
  <2>1. u = [t EXCEPT !.tows = o]
    OBVIOUS
  <2> HIDE DEF u, o
  <2> QED BY <2>1, TableParts DEF Shown
<1>4. ProxyRows(u) = t.list \o Append(t.tows, e)
  BY <1>3 DEF ProxyRows
<1>5. v = t.list \o Append(t.tows, e)
  BY <1>1, <1>4, InsertBehindSecond DEF Shown
<1> HIDE DEF u, v
<1>6. [u EXCEPT !.view = v] =
          [list |-> t.list, tows |-> Append(t.tows, e), view |-> v,
           active |-> t.active, total |-> t.total]
  <2> HIDE DEF o
  <2>1. [u EXCEPT !.view = v] =
          [list |-> t.list, tows |-> o, view |-> v,
           active |-> t.active, total |-> t.total]
    BY <1>3
  <2> QED BY <2>1 DEF o
<1>7. Append(t.tows, e) \in Seq(Flight)
  BY <1>1 DEF Shown
<1> QED BY <1>2, <1>5, <1>6, <1>7 DEF Shown, TableShape, e

\* a flight is appended, with its towflight
LEMMA AppendShows ==
  ASSUME NEW t, Shown(t), NEW f \in Flight
  PROVE  LET r == AppendFlight(t, f)
         IN  /\ Shown(r) /\ LabelsRight(r, enabled') /\ r.list = Append(t.list, f)
             /\ r.tows = IF ProxyIsAirtow(f) THEN Append(t.tows, MakeTowflight(f))
                         ELSE t.tows
<1> DEFINE u == [t EXCEPT !.list = Append(@, f)]
           n == Len(u.list)
           v == InsertAt(t.view, n, ProxyRows(u)[n])
           w == ViewInserted(u, n)
<1>1. u = [list |-> Append(t.list, f), tows |-> t.tows, view |-> t.view,
           active |-> t.active, total |-> t.total]
  <2> DEFINE l == Append(t.list, f)
  <2>1. u = [t EXCEPT !.list = l]
    OBVIOUS
  <2>2. [t EXCEPT !.list = l] = [list |-> l, tows |-> t.tows, view |-> t.view,
           active |-> t.active, total |-> t.total]
    <3> HIDE DEF l
    <3> QED BY TableParts DEF Shown
  <2> QED BY <2>1, <2>2
<1>2. n = Len(t.list) + 1 /\ u.list[n] = f /\ Append(t.list, f) \in Seq(Flight)
  BY <1>1 DEF Shown
<1>3. v = Append(t.list, f) \o t.tows
  <2>1. ProxyRows(u) = Append(t.list, f) \o t.tows
    BY <1>1 DEF ProxyRows
  <2> HIDE DEF u
  <2> QED BY <2>1, <1>2, InsertBehindFirst DEF Shown
<1>4. w = [list |-> Append(t.list, f), tows |-> t.tows, view |-> v,
           active |-> t.active, total |-> t.total]
  <2>1. w = [u EXCEPT !.view = v]
    BY <1>1 DEF ViewInserted
  <2> HIDE DEF u, v, w
  <2> QED BY <2>1, <1>1
<1> HIDE DEF u, v, w, n
<1>5. Shown(w)
  BY <1>2, <1>3, <1>4 DEF Shown, TableShape
<1>6. SourceModelRowsInserted(u, n) = IF ProxyIsAirtow(f) THEN AddTowflightFor(w, f) ELSE w
  BY <1>2 DEF SourceModelRowsInserted, w
<1> DEFINE x == SourceModelRowsInserted(u, n)
<1>7. Shown(x) /\ x.list = Append(t.list, f)
      /\ x.tows = IF ProxyIsAirtow(f) THEN Append(t.tows, MakeTowflight(f)) ELSE t.tows
  <2>1. CASE ProxyIsAirtow(f)
    BY <2>1, <1>4, <1>5, <1>6, AddTowflightShows
  <2>2. CASE ~ ProxyIsAirtow(f)
    BY <2>2, <1>4, <1>5, <1>6
  <2> QED BY <2>1, <2>2
<1>8. AppendFlight(t, f) = FlightListChanged(x)
  BY DEF AppendFlight, u, n
<1> HIDE DEF x
<1> QED BY <1>7, <1>8, ListChangedShows

\* a towflight is removed
LEMMA RemoveTowflightShows ==
  ASSUME NEW t, Shown(t), NEW n \in 1 .. Len(t.tows)
  PROVE  LET r == RemoveTowflight(t, n)
         IN  Shown(r) /\ r.list = t.list /\ r.tows = RemoveAt(t.tows, n)
<1> DEFINE u == [t EXCEPT !.tows = RemoveAt(@, n)]
           v == RemoveAt(t.view, Len(t.list) + n)
           o == RemoveAt(t.tows, n)
<1>1. u = [list |-> t.list, tows |-> o, view |-> t.view,
           active |-> t.active, total |-> t.total]
  <2>1. u = [t EXCEPT !.tows = o]
    OBVIOUS
  <2> HIDE DEF u, o
  <2> QED BY <2>1, TableParts DEF Shown
<1>2. RemoveTowflight(t, n) = [u EXCEPT !.view = v]
  BY <1>1 DEF RemoveTowflight, ViewRemoved
<1>3. v = t.list \o o
  BY RemoveFromSecond DEF Shown
<1>4. o \in Seq(Flight)
  BY RemoveAtIs DEF Shown
<1> HIDE DEF u, v, o
<1>5. RemoveTowflight(t, n) = [list |-> t.list, tows |-> o, view |-> v,
           active |-> t.active, total |-> t.total]
  BY <1>1, <1>2
<1> QED BY <1>3, <1>4, <1>5 DEF Shown, TableShape, o

LEMMA IndexOfIs ==
  ASSUME NEW s \in Seq(Flight), NEW id
  PROVE  /\ IndexOf(s, id) = 0 <=> \A i \in 1 .. Len(s) : s[i].id # id
         /\ IndexOf(s, id) # 0 => IndexOf(s, id) \in 1 .. Len(s) /\ s[IndexOf(s, id)].id = id
<1> DEFINE I == {i \in 1 .. Len(s) : s[i].id = id}
           n == IndexOf(s, id)
<1>1. n = IF I # {} THEN CHOOSE x \in I : \A y \in I : x =< y ELSE 0
  BY DEF IndexOf, SelectInSeq, Min
<1>2. I \subseteq Nat /\ 0 \notin I
  OBVIOUS
<1>3. I # {} => n \in I
  <2> HIDE DEF I, n
  <2> QED BY <1>1, <1>2, LeastNat
<1>4. I = {} => n = 0
  BY <1>1
<1>5. (n = 0 <=> I = {}) /\ (n # 0 => n \in I)
  <2> HIDE DEF I, n
  <2> QED BY <1>2, <1>3, <1>4
<1> HIDE DEF n
<1>6. /\ n = 0 <=> \A i \in 1 .. Len(s) : s[i].id # id
      /\ n # 0 => n \in 1 .. Len(s) /\ s[n].id = id
  BY <1>5
<1> QED BY <1>6 DEF n

\* a flight is removed, its towflight before it
LEMMA RemoveShows ==
  ASSUME NEW t, Shown(t), NEW n \in 1 .. Len(t.list)
  PROVE  LET r == RemoveAtIndex(t, n)
             k == IndexOf(t.tows, t.list[n].id)
         IN  /\ Shown(r) /\ LabelsRight(r, enabled') /\ r.list = RemoveAt(t.list, n)
             /\ r.tows = IF k = 0 THEN t.tows ELSE RemoveAt(t.tows, k)
<1> DEFINE k == IndexOf(t.tows, t.list[n].id)
           u == SourceModelRowsAboutToBeRemoved(t, n)
           l == RemoveAt(t.list, n)
           v == RemoveAt(u.view, n)
           w == [u EXCEPT !.list = l]
           x == ViewRemoved(w, n)
<1>1. Shown(u) /\ u.list = t.list
      /\ u.tows = IF k = 0 THEN t.tows ELSE RemoveAt(t.tows, k)
  <2>1. CASE k = 0
    BY <2>1 DEF SourceModelRowsAboutToBeRemoved
  <2>2. CASE k # 0
    <3>1. k \in 1 .. Len(t.tows)
      BY <2>2, IndexOfIs DEF Shown
    <3>2. u = RemoveTowflight(t, k)
      BY <2>2 DEF SourceModelRowsAboutToBeRemoved
    <3> HIDE DEF k, u
    <3> QED BY <2>2, <3>1, <3>2, RemoveTowflightShows
  <2> QED BY <2>1, <2>2
<1> HIDE DEF u
<1>2. w = [list |-> l, tows |-> u.tows, view |-> u.view,
           active |-> u.active, total |-> u.total]
  <2> HIDE DEF l
  <2> QED BY <1>1, TableParts DEF Shown
<1>3. x = [list |-> l, tows |-> u.tows, view |-> v,
           active |-> u.active, total |-> u.total]
  <2>1. x = [w EXCEPT !.view = v]
    BY <1>2 DEF ViewRemoved
  <2> HIDE DEF w, x, v, l
  <2> QED BY <2>1, <1>2
<1>4. v = l \o u.tows
  <2>1. t.list \in Seq(Flight) /\ u.tows \in Seq(Flight) /\ u.view = t.list \o u.tows
    BY <1>1 DEF Shown
  <2> QED BY <2>1, RemoveFromFirst
<1>5. l \in Seq(Flight)
  BY RemoveAtIs DEF Shown
<1>6. Shown(x) /\ x.list = l /\ x.tows = u.tows
  <2> HIDE DEF w, x, v, l
  <2> QED BY <1>1, <1>3, <1>4, <1>5 DEF Shown, TableShape
<1>7. RemoveAtIndex(t, n) = FlightListChanged(x)
  <2>1. [u EXCEPT !.list = RemoveAt(@, n)] = w
    BY <1>1
  <2> QED BY <2>1 DEF RemoveAtIndex, u
<1> HIDE DEF x, w, k
<1> QED BY <1>1, <1>6, <1>7, ListChangedShows DEF k

TowsAfterReplace(t, f) ==
  LET k == IndexOf(t.tows, f.id)
  IN  IF ProxyIsAirtow(f)
      THEN IF k = 0 THEN Append(t.tows, MakeTowflight(f))
           ELSE IF InCache(f.id, cache') THEN [t.tows EXCEPT ![k] = MakeTowflight(f)]
           ELSE t.tows
      ELSE IF k = 0 THEN t.tows ELSE RemoveAt(t.tows, k)

\* a flight is replaced, and then its towflight
LEMMA ReplacedInList ==
  ASSUME NEW t, t.list \in Seq(Flight), t.tows \in Seq(Flight),
         t.view = t.list \o t.tows, NEW n \in 1 .. Len(t.list), NEW f \in Flight
  PROVE  ReplaceAt(t.view, n, f) = ReplaceAt(t.list, n, f) \o t.tows
<1>1. ReplaceAt(t.list \o t.tows, n, f) = ReplaceAt(t.list, n, f) \o t.tows
  BY ReplacedInFirst, Zenon
<1> QED BY <1>1, Zenon

LEMMA ReplacedInTows ==
  ASSUME NEW t, t.list \in Seq(Flight), t.tows \in Seq(Flight),
         t.view = t.list \o t.tows, NEW n \in 1 .. Len(t.tows), NEW e \in Flight
  PROVE  ReplaceAt(t.view, Len(t.list) + n, e) = t.list \o ReplaceAt(t.tows, n, e)
<1> DEFINE S == Flight
           a == t.list
           b == t.tows
           m == Len(a) + n
<1>0. /\ a \in Seq(S) /\ b \in Seq(S) /\ n \in 1 .. Len(b) /\ e \in S /\ m = Len(a) + n
      /\ a \o b = t.view
  OBVIOUS
<1> HIDE DEF S, a, b, m
<1> DEFINE ab == a \o b
           b1 == ReplaceAt(b, n, e)
           c  == a \o b1
           d  == ReplaceAt(ab, m, e)
<1>1. /\ ab \in Seq(S) /\ Len(ab) = Len(a) + Len(b) /\ Len(a) \in Nat /\ Len(b) \in Nat
      /\ \A i \in 1 .. Len(ab) : ab[i] = IF i <= Len(a) THEN a[i] ELSE b[i - Len(a)]
  BY <1>0, ConcatProperties, LenProperties
<1>2. /\ b1 \in Seq(S) /\ Len(b1) = Len(b)
      /\ \A i \in 1 .. Len(b) : b1[i] = IF i = n THEN e ELSE b[i]
  BY <1>0, ExceptSeq DEF ReplaceAt
<1> HIDE DEF b1, ab
<1>3. /\ c \in Seq(S) /\ Len(c) = Len(a) + Len(b1)
      /\ \A i \in 1 .. Len(a) + Len(b1) :
           c[i] = IF i <= Len(a) THEN a[i] ELSE b1[i - Len(a)]
  <2>1. a \in Seq(S) /\ b1 \in Seq(S)
    BY <1>0, <1>2
  <2> QED BY <2>1, ConcatProperties
<1>4. m \in 1 .. Len(ab) /\ m - Len(a) = n /\ ~ (m <= Len(a))
  BY <1>0, <1>1
<1>5. /\ d \in Seq(S) /\ Len(d) = Len(ab)
      /\ \A i \in 1 .. Len(ab) : d[i] = IF i = m THEN e ELSE ab[i]
  BY <1>1, <1>4, <1>0, ExceptSeq DEF ReplaceAt
<1> HIDE DEF c
<1> HIDE DEF d
<1>7. ASSUME NEW i \in 1 .. Len(d) PROVE d[i] = c[i]
  <2>1. CASE i <= Len(a)
    BY <2>1, <1>1, <1>2, <1>3, <1>4, <1>5
  <2>2. CASE i > Len(a)
    <3>1. c[i] = b1[i - Len(a)]
      BY <2>2, <1>1, <1>2, <1>3, <1>5
    <3>2. i - Len(a) \in 1 .. Len(b)
      BY <2>2, <1>1, <1>5
    <3>3. b1[i - Len(a)] = IF i - Len(a) = n THEN e ELSE b[i - Len(a)]
      BY <3>2, <1>2
    <3>4. ab[i] = b[i - Len(a)]
      BY <2>2, <1>1, <1>5
    <3>5. i = m <=> i - Len(a) = n
      BY <1>1, <1>4, <1>5
    <3>6. d[i] = IF i = m THEN e ELSE ab[i]
      BY <1>1, <1>5
    <3> QED BY <3>1, <3>3, <3>4, <3>5, <3>6
  <2> QED BY <2>1, <2>2, <1>1, <1>5
<1>8. d = c
  BY <1>1, <1>2, <1>3, <1>5, <1>7, SeqEqual
<1> QED BY <1>8, <1>0 DEF d, c, ab, b1, a, b, m

LEMMA ChangeTowflightShows ==
  ASSUME NEW t, Shown(t), NEW k \in 1 .. Len(t.tows), NEW id,
         rows'[id] \in Flight, ProxyIsAirtow(rows'[id])
  PROVE  LET r == ViewChanged(UpdateTowflight(t, id, k), Len(t.list) + k)
         IN  /\ Shown(r) /\ r.list = t.list
             /\ r.tows = IF InCache(id, cache')
                         THEN [t.tows EXCEPT ![k] = MakeTowflight(rows'[id])] ELSE t.tows
<1> DEFINE f == rows'[id]
           e == IF InCache(id, cache') THEN MakeTowflight(f) ELSE t.tows[k]
           o == ReplaceAt(t.tows, k, e)
           d == UpdateTowflight(t, id, k)
           v == ReplaceAt(t.view, Len(t.list) + k, e)
           y == ViewChanged(d, Len(t.list) + k)
<1>0. t.list \in Seq(Flight) /\ t.tows \in Seq(Flight) /\ t.view = t.list \o t.tows
  BY DEF Shown
<1>1. e \in Flight
  BY <1>0, TowflightIsFlight, ElementOfSeq
<1>2. o = IF InCache(id, cache') THEN [t.tows EXCEPT ![k] = MakeTowflight(f)] ELSE t.tows
  <2>1. t.tows = [t.tows EXCEPT ![k] = t.tows[k]]
    BY <1>0
  <2> QED BY <2>1 DEF ReplaceAt
<1>3. d = [t EXCEPT !.tows = o]
  <2>1. CASE InCache(id, cache')
    <3>1. d = [t EXCEPT !.tows[k] = MakeTowflight(f)]
      BY <2>1 DEF UpdateTowflight
    <3>2. [t EXCEPT !.tows[k] = MakeTowflight(f)] =
            [t EXCEPT !.tows = [t.tows EXCEPT ![k] = MakeTowflight(f)]]
      BY DEF Shown, TableShape
    <3> HIDE DEF d, o
    <3> QED BY <2>1, <3>1, <3>2, <1>2
  <2>2. CASE ~ InCache(id, cache')
    <3>1. d = t /\ o = t.tows
      BY <2>2, <1>2 DEF UpdateTowflight
    <3> HIDE DEF d, o
    <3> QED BY <3>1 DEF Shown, TableShape
  <2> QED BY <2>1, <2>2
<1> HIDE DEF e, d
<1>4. v = t.list \o o
  BY <1>0, <1>1, ReplacedInTows
<1>5. o \in Seq(Flight) /\ Len(o) = Len(t.tows) /\ o[k] = e
  BY <1>0, <1>1, ExceptSeq DEF ReplaceAt
<1> HIDE DEF o
<1>6. d = [list |-> t.list, tows |-> o, view |-> t.view,
           active |-> t.active, total |-> t.total]
  BY <1>3, TableParts DEF Shown
<1>7. y = [d EXCEPT !.view = v]
  <2>1. ProxyRows(d) = t.list \o o /\ d.view = t.view
    BY <1>6 DEF ProxyRows
  <2> DEFINE m == Len(t.list) + k
  <2>2. /\ m \in 1 .. Len(t.list) + Len(o) /\ ~ (m <= Len(t.list)) /\ m - Len(t.list) = k
    <3>1. Len(t.list) \in Nat /\ Len(t.tows) \in Nat
      BY <1>0
    <3> DEFINE p == Len(t.list)
               q == Len(o)
    <3>2. p \in Nat /\ q \in Nat /\ k \in 1 .. q
      BY <3>1, <1>5
    <3>3. m = p + k
      OBVIOUS
    <3> HIDE DEF p, q, m
    <3>4. m \in 1 .. p + q /\ ~ (m <= p) /\ m - p = k
      BY <3>2, <3>3
    <3> QED BY <3>4 DEF p, q
  <2>3. \A i \in 1 .. Len(t.list) + Len(o) :
          (t.list \o o)[i] = IF i <= Len(t.list) THEN t.list[i] ELSE o[i - Len(t.list)]
    BY <1>0, <1>5, ConcatProperties
  <2>4. (t.list \o o)[m] = e
    <3> HIDE DEF m
    <3> QED BY <2>2, <2>3, <1>5
  <2> QED BY <2>1, <2>4 DEF ViewChanged
<1> HIDE DEF v, y
<1>8. y = [list |-> t.list, tows |-> o, view |-> v,
           active |-> t.active, total |-> t.total]
  BY <1>6, <1>7
<1>9. Shown(y) /\ y.list = t.list /\ y.tows = o
  BY <1>0, <1>4, <1>5, <1>8 DEF Shown, TableShape
<1> QED BY <1>2, <1>9 DEF y, d

\* a flight is replaced, with what that does to its towflight
LEMMA ReplaceShows ==
  ASSUME NEW t, Shown(t), NEW n \in 1 .. Len(t.list), NEW f \in Flight,
         rows'[f.id] = f
  PROVE  LET r == ReplaceAtIndex(t, n, f)
         IN  /\ Shown(r) /\ LabelsRight(r, enabled') /\ r.list = ReplaceAt(t.list, n, f)
             /\ r.tows = TowsAfterReplace(t, f)
<1> DEFINE l == ReplaceAt(t.list, n, f)
           u == [t EXCEPT !.list = l]
           k == IndexOf(t.tows, f.id)
           v == ReplaceAt(t.view, n, f)
           w == ViewChanged(u, n)
           x == SourceModelDataChanged(u, n)
<1>0. [t EXCEPT !.list[n] = f] = u
  BY DEF Shown, TableShape, ReplaceAt
<1>1. t.list \in Seq(Flight) /\ t.tows \in Seq(Flight) /\ t.view = t.list \o t.tows
  BY DEF Shown
<1>2. l \in Seq(Flight) /\ l[n] = f /\ Len(l) = Len(t.list)
  BY <1>1, ExceptSeq DEF ReplaceAt
<1>3. v = l \o t.tows
  BY <1>1, ReplacedInList
<1> HIDE DEF l, v
<1>13. (l \o t.tows)[n] = f
  BY <1>1, <1>2
<1>4. u = [list |-> l, tows |-> t.tows, view |-> t.view,
           active |-> t.active, total |-> t.total]
  BY TableParts DEF Shown
<1>5. w = [u EXCEPT !.view = v]
  <2>1. ProxyRows(u) = l \o t.tows /\ u.view = t.view
    BY <1>4 DEF ProxyRows
  <2> HIDE DEF u
  <2> QED BY <2>1, <1>13 DEF ViewChanged, v
<1> HIDE DEF u, w
<1>6. w = [list |-> l, tows |-> t.tows, view |-> v,
           active |-> t.active, total |-> t.total]
  BY <1>4, <1>5
<1>7. Shown(w) /\ w.list = l /\ w.tows = t.tows
  BY <1>1, <1>2, <1>3, <1>6 DEF Shown, TableShape
<1>8. x = IF ProxyIsAirtow(f)
          THEN IF k = 0 THEN AddTowflightFor(w, f)
               ELSE ViewChanged(UpdateTowflight(w, f.id, k), Len(l) + k)
          ELSE IF k = 0 THEN w ELSE RemoveTowflight(w, k)
  BY <1>4, <1>2 DEF SourceModelDataChanged, w
<1>9. k # 0 => k \in 1 .. Len(t.tows)
  BY <1>1, IndexOfIs
<1>10. TowsAfterReplace(t, f) =
         IF ProxyIsAirtow(f)
         THEN IF k = 0 THEN Append(t.tows, MakeTowflight(f))
              ELSE IF InCache(f.id, cache') THEN [t.tows EXCEPT ![k] = MakeTowflight(f)]
              ELSE t.tows
         ELSE IF k = 0 THEN t.tows ELSE RemoveAt(t.tows, k)
  BY DEF TowsAfterReplace
<1> HIDE DEF x, k
<1>11. Shown(x) /\ x.list = l /\ x.tows = TowsAfterReplace(t, f)
  <2>1. CASE ProxyIsAirtow(f) /\ k # 0
    <3> DEFINE y == ViewChanged(UpdateTowflight(w, f.id, k), Len(l) + k)
    <3>1. /\ Shown(y) /\ y.list = l
          /\ y.tows = IF InCache(f.id, cache')
                      THEN [t.tows EXCEPT ![k] = MakeTowflight(f)] ELSE t.tows
      <4>1. Shown(w) /\ w.list = l /\ k \in 1 .. Len(w.tows)
        BY <2>1, <1>7, <1>9
      <4>2. rows'[f.id] \in Flight /\ ProxyIsAirtow(rows'[f.id])
        BY <2>1
      <4>3. /\ Shown(ViewChanged(UpdateTowflight(w, f.id, k), Len(w.list) + k))
            /\ ViewChanged(UpdateTowflight(w, f.id, k), Len(w.list) + k).list = w.list
            /\ ViewChanged(UpdateTowflight(w, f.id, k), Len(w.list) + k).tows =
                 IF InCache(f.id, cache')
                 THEN [w.tows EXCEPT ![k] = MakeTowflight(rows'[f.id])] ELSE w.tows
        BY <4>1, <4>2, ChangeTowflightShows
      <4> QED BY <4>1, <4>3, <1>7
    <3>2. x = y
      BY <2>1, <1>8
    <3> HIDE DEF y
    <3> QED BY <2>1, <3>1, <3>2, <1>10
  <2>2. CASE ProxyIsAirtow(f) /\ k = 0
    BY <2>2, <1>7, <1>8, <1>10, AddTowflightShows
  <2>3. CASE ~ ProxyIsAirtow(f) /\ k = 0
    BY <2>3, <1>7, <1>8, <1>10
  <2>4. CASE ~ ProxyIsAirtow(f) /\ k # 0
    BY <2>4, <1>7, <1>8, <1>9, <1>10, RemoveTowflightShows
  <2> QED BY <2>1, <2>2, <2>3, <2>4
<1>12. ReplaceAtIndex(t, n, f) = FlightListChanged(x)
  BY <1>0 DEF ReplaceAtIndex, x
<1> QED BY <1>11, <1>12, ListChangedShows DEF l

TowsAfterReset(flights) ==
  LET airtows == InOrder({n \in DOMAIN flights : ProxyIsAirtow(flights[n])})
  IN  [n \in DOMAIN airtows |-> MakeTowflight(flights[airtows[n]])]

\* the list is replaced
LEMMA ResetShows ==
  ASSUME NEW t, Shown(t), NEW flights \in Seq(Flight),
         TowsAfterReset(flights) \in Seq(Flight)
  PROVE  LET r == ReplaceList(t, flights)
         IN  /\ Shown(r) /\ LabelsRight(r, enabled') /\ r.list = flights
             /\ r.tows = TowsAfterReset(flights)
<1> DEFINE u == [t EXCEPT !.list = flights]
           o == TowsAfterReset(flights)
           w == [u EXCEPT !.tows = o]
           x == SourceModelModelReset(u)
<1>1. u = [list |-> flights, tows |-> t.tows, view |-> t.view,
           active |-> t.active, total |-> t.total]
  BY TableParts DEF Shown
<1>2. x = ViewReset(w)
  <2>1. u.list = flights
    BY <1>1
  <2> QED BY <2>1 DEF SourceModelModelReset, TowsAfterReset
<1> HIDE DEF x, u, o
<1>3. w = [list |-> flights, tows |-> o, view |-> t.view,
           active |-> t.active, total |-> t.total]
  BY <1>1
<1> HIDE DEF w
<1>4. ViewReset(w) = [list |-> flights, tows |-> o, view |-> flights \o o,
           active |-> t.active, total |-> t.total]
  <2>1. ProxyRows(w) = flights \o o /\ TableShape(w)
    BY <1>3 DEF ProxyRows, TableShape
  <2> DEFINE p == ProxyRows(w)
  <2>2. ViewReset(w) = [w EXCEPT !.view = p]
    BY DEF ViewReset
  <2> HIDE DEF p
  <2>3. [w EXCEPT !.view = p] = [list |-> w.list, tows |-> w.tows, view |-> p,
                                 active |-> w.active, total |-> w.total]
    BY <2>1, TableParts
  <2> QED BY <2>1, <2>2, <2>3, <1>3 DEF p
<1>5. Shown(x) /\ x.list = flights /\ x.tows = o
  <2>1. o \in Seq(Flight)
    BY DEF o
  <2> QED BY <2>1, <1>2, <1>4 DEF Shown, TableShape
<1>6. ReplaceList(t, flights) = FlightListChanged(x)
  BY DEF ReplaceList, x, u
<1> QED BY <1>5, <1>6, ListChangedShows DEF o

-----------------------------------------------------------------------------
(* The rows of the list and of the towflights, as sets *)

\* the rows of a sequence
Rows(s) == {s[i] : i \in 1 .. Len(s)}

\* no id is twice in a sequence
DistinctIds(s) == \A i, j \in 1 .. Len(s) : s[i].id = s[j].id => i = j

\* the rows of other ids
Without(S, id) == {g \in S : g.id # id}

LEMMA RowsAreFlights ==
  ASSUME NEW s \in Seq(Flight)
  PROVE  /\ Rows(s) \subseteq Flight
         /\ \A i \in 1 .. Len(s) : s[i] \in Rows(s)
BY ElementOfSeq DEF Rows

\* with distinct ids, a flight is known by its id
LEMMA SameId ==
  ASSUME NEW s \in Seq(Flight), DistinctIds(s), NEW f \in Rows(s), NEW g \in Rows(s),
         f.id = g.id
  PROVE  f = g
BY DEF Rows, DistinctIds

LEMMA AppendRows ==
  ASSUME NEW s \in Seq(Flight), DistinctIds(s), NEW e \in Flight,
         \A g \in Rows(s) : g.id # e.id
  PROVE  /\ Rows(Append(s, e)) = Rows(s) \cup {e}
         /\ DistinctIds(Append(s, e))
<1> DEFINE a == Append(s, e)
<1>1. /\ Len(s) \in Nat /\ Len(a) = Len(s) + 1
      /\ \A i \in 1 .. Len(s) : a[i] = s[i]
      /\ a[Len(s) + 1] = e
  OBVIOUS
<1> HIDE DEF a
<1>2. \A i \in 1 .. Len(a) : i \in 1 .. Len(s) \/ i = Len(s) + 1
  BY <1>1
<1>3. Rows(a) = Rows(s) \cup {e}
  <2>1. ASSUME NEW g \in Rows(a) PROVE g \in Rows(s) \cup {e}
    BY <1>1, <1>2 DEF Rows
  <2>2. Rows(s) \subseteq Rows(a)
    <3>1. \A i \in 1 .. Len(s) : i \in 1 .. Len(a)
      BY <1>1
    <3> QED BY <3>1, <1>1 DEF Rows
  <2>3. e \in Rows(a)
    <3>1. Len(s) + 1 \in 1 .. Len(a)
      BY <1>1
    <3> QED BY <3>1, <1>1 DEF Rows
  <2> QED BY <2>1, <2>2, <2>3
<1>4. \A i \in 1 .. Len(s) : s[i].id # e.id
  BY DEF Rows
<1>5. DistinctIds(a)
  <2> SUFFICES ASSUME NEW i \in 1 .. Len(a), NEW j \in 1 .. Len(a), a[i].id = a[j].id
               PROVE  i = j
    BY DEF DistinctIds
  <2> QED BY <1>1, <1>2, <1>4 DEF DistinctIds
<1> QED BY <1>3, <1>5 DEF a

LEMMA RemoveRows ==
  ASSUME NEW s \in Seq(Flight), DistinctIds(s), NEW n \in 1 .. Len(s)
  PROVE  /\ Rows(RemoveAt(s, n)) = Without(Rows(s), s[n].id)
         /\ DistinctIds(RemoveAt(s, n))
<1> DEFINE a == RemoveAt(s, n)
           At(i) == IF i < n THEN i ELSE i + 1
<1>1. /\ Len(s) \in Nat /\ Len(a) = Len(s) - 1
      /\ \A i \in 1 .. Len(s) - 1 : a[i] = IF i < n THEN s[i] ELSE s[i + 1]
  <2>1. Len(s) \in Nat
    OBVIOUS
  <2>2. Len(RemoveAt(s, n)) = Len(s) - 1
    BY RemoveAtIs
  <2>3. \A i \in 1 .. Len(s) - 1 :
          RemoveAt(s, n)[i] = IF i < n THEN s[i] ELSE s[i + 1]
    BY RemoveAtIs
  <2> QED BY <2>1, <2>2, <2>3
<1> HIDE DEF a
<1>2. \A i \in 1 .. Len(a) : At(i) \in 1 .. Len(s) /\ At(i) # n /\ a[i] = s[At(i)]
  BY <1>1
<1>3. \A i, j \in 1 .. Len(a) : At(i) = At(j) => i = j
  BY <1>1
<1>4. \A k \in 1 .. Len(s) : k # n => \E i \in 1 .. Len(a) : At(i) = k
  <2> SUFFICES ASSUME NEW k \in 1 .. Len(s), k # n PROVE \E i \in 1 .. Len(a) : At(i) = k
    OBVIOUS
  <2>1. CASE k < n
    <3>1. k \in 1 .. Len(a) /\ At(k) = k
      BY <2>1, <1>1
    <3> QED BY <3>1
  <2>2. CASE ~ (k < n)
    <3>1. k - 1 \in 1 .. Len(a) /\ At(k - 1) = k
      BY <2>2, <1>1
    <3> QED BY <3>1
  <2> QED BY <2>1, <2>2
<1> HIDE DEF At
<1>5. DistinctIds(a)
  BY <1>2, <1>3 DEF DistinctIds
<1>6. Rows(a) \subseteq Without(Rows(s), s[n].id)
  BY <1>2 DEF Rows, Without, DistinctIds
<1>7. ASSUME NEW g \in Without(Rows(s), s[n].id) PROVE g \in Rows(a)
  <2>1. PICK k \in 1 .. Len(s) : g = s[k]
    BY DEF Rows, Without
  <2>2. k # n
    BY <2>1 DEF Without
  <2>3. PICK i \in 1 .. Len(a) : At(i) = k
    BY <2>2, <1>4
  <2> QED BY <2>1, <2>3, <1>2 DEF Rows
<1> QED BY <1>5, <1>6, <1>7 DEF a

LEMMA ReplaceRows ==
  ASSUME NEW s \in Seq(Flight), DistinctIds(s), NEW n \in 1 .. Len(s), NEW e \in Flight,
         e.id = s[n].id
  PROVE  /\ Rows(ReplaceAt(s, n, e)) = Without(Rows(s), e.id) \cup {e}
         /\ DistinctIds(ReplaceAt(s, n, e))
<1> DEFINE a == ReplaceAt(s, n, e)
<1>1. /\ Len(s) \in Nat /\ Len(a) = Len(s)
      /\ \A i \in 1 .. Len(s) : a[i] = IF i = n THEN e ELSE s[i]
  BY ReplaceAtIs
<1> HIDE DEF a
<1>2. DistinctIds(a)
  BY <1>1 DEF DistinctIds
<1>3. Rows(a) \subseteq Without(Rows(s), e.id) \cup {e}
  BY <1>1 DEF Rows, Without, DistinctIds
<1>4. ASSUME NEW g \in Without(Rows(s), e.id) PROVE g \in Rows(a)
  <2>1. PICK k \in 1 .. Len(s) : g = s[k]
    BY DEF Rows, Without
  <2>2. k # n
    BY <2>1 DEF Without
  <2> QED BY <2>1, <2>2, <1>1 DEF Rows
<1>5. e \in Rows(a)
  BY <1>1 DEF Rows
<1> QED BY <1>2, <1>3, <1>4, <1>5 DEF a

LEMMA IndexOfRows ==
  ASSUME NEW s \in Seq(Flight), NEW id
  PROVE  IndexOf(s, id) = 0 <=> \A g \in Rows(s) : g.id # id
BY IndexOfIs DEF Rows

-----------------------------------------------------------------------------

(* A table that is right: no id is twice in the list, nor among the        *)
(* towflights, and each towflight is that of a flight of the list.         *)
Good(t) ==
  /\ Shown(t) /\ DistinctIds(t.list) /\ DistinctIds(t.tows)
  /\ \A g \in Rows(t.tows) : g.tow /\ \E f \in Rows(t.list) : f.id = g.id

\* f has its towflight among T, if it is an airtow, and none otherwise
TowRight(T, f, ty) ==
  IF IsAirtow(f, ty) THEN MakeTowflight(f) \in T ELSE \A g \in T : g.id # f.id

\* r is right, and is t but for the flight of an id
OnlyAt(t, r, id) ==
  /\ Good(r) /\ LabelsRight(r, enabled')
  /\ Without(Rows(r.list), id) = Without(Rows(t.list), id)
  /\ Without(Rows(r.tows), id) = Without(Rows(t.tows), id)

\* FlightProxyList and Flight have the same airtows
LEMMA AirtowsAgree ==
  ASSUME NEW f \in Flight, ~ f.tow
  PROVE  ProxyIsAirtow(f) <=> IsAirtow(f, types')
<1>1. f.kind \in Kinds
  BY DEF Flight
<1>2. f.kind.mode \in {"local", "leaving", "coming"}
      /\ (f.kind.mode = "coming" => f.kind.method = InvalidId)
  BY <1>1, KindsAssumption
<1> QED BY <1>2 DEF ProxyIsAirtow, IsAirtow, DepartsHere, Mode

\* what the operations leave: only the flight of the id and its towflight
\* are touched, and the towflight is right
LEMMA AppendIs ==
  ASSUME NEW t, Good(t), NEW f \in Flight, ~ f.tow,
         \A g \in Rows(t.list) : g.id # f.id
  PROVE  LET r == AppendFlight(t, f)
         IN  /\ OnlyAt(t, r, f.id) /\ f \in Rows(r.list)
             /\ TowRight(Rows(r.tows), f, types')
<1> DEFINE r == AppendFlight(t, f)
           e == MakeTowflight(f)
<1>1. /\ Shown(r) /\ LabelsRight(r, enabled') /\ r.list = Append(t.list, f)
      /\ r.tows = IF ProxyIsAirtow(f) THEN Append(t.tows, MakeTowflight(f)) ELSE t.tows
  BY AppendShows DEF Good
<1> HIDE DEF r
<1>2. t.list \in Seq(Flight) /\ t.tows \in Seq(Flight)
  BY DEF Good, Shown
<1>3. Rows(r.list) = Rows(t.list) \cup {f} /\ DistinctIds(r.list)
  BY <1>1, <1>2, AppendRows DEF Good
<1>4. \A g \in Rows(t.tows) : g.id # f.id
  BY DEF Good
<1>5. e \in Flight /\ e.id = f.id /\ e.tow
  BY TowflightIsFlight
<1> HIDE DEF e
<1>6. Rows(r.tows) = (IF ProxyIsAirtow(f) THEN Rows(t.tows) \cup {e} ELSE Rows(t.tows))
      /\ DistinctIds(r.tows)
  <2>1. CASE ProxyIsAirtow(f)
    <3>1. r.tows = Append(t.tows, e)
      BY <2>1, <1>1 DEF e
    <3>2. Rows(Append(t.tows, e)) = Rows(t.tows) \cup {e} /\ DistinctIds(Append(t.tows, e))
      BY <1>2, <1>4, <1>5, AppendRows DEF Good
    <3> QED BY <2>1, <3>1, <3>2
  <2>2. CASE ~ ProxyIsAirtow(f)
    BY <2>2, <1>1 DEF Good
  <2> QED BY <2>1, <2>2
<1>7. Good(r)
  BY <1>1, <1>3, <1>5, <1>6 DEF Good
<1>8. OnlyAt(t, r, f.id)
  BY <1>1, <1>3, <1>5, <1>6, <1>7 DEF OnlyAt, Without
<1>9. TowRight(Rows(r.tows), f, types')
  BY <1>4, <1>6, AirtowsAgree DEF TowRight, e
<1> QED BY <1>3, <1>8, <1>9 DEF r

LEMMA RemoveIs ==
  ASSUME NEW t, Good(t), NEW n \in 1 .. Len(t.list)
  PROVE  LET r == RemoveAtIndex(t, n)
         IN  /\ OnlyAt(t, r, t.list[n].id)
             /\ \A g \in Rows(r.list) : g.id # t.list[n].id
<1> DEFINE r == RemoveAtIndex(t, n)
           id == t.list[n].id
           k == IndexOf(t.tows, id)
<1>1. /\ Shown(r) /\ LabelsRight(r, enabled') /\ r.list = RemoveAt(t.list, n)
      /\ r.tows = IF k = 0 THEN t.tows ELSE RemoveAt(t.tows, k)
  BY RemoveShows DEF Good
<1> HIDE DEF r
<1>2. t.list \in Seq(Flight) /\ t.tows \in Seq(Flight)
  BY DEF Good, Shown
<1>3. Rows(r.list) = Without(Rows(t.list), id) /\ DistinctIds(r.list)
  BY <1>1, <1>2, RemoveRows DEF Good
<1>4. k # 0 => k \in 1 .. Len(t.tows) /\ t.tows[k].id = id
  BY <1>2, IndexOfIs
<1>5. k = 0 => \A g \in Rows(t.tows) : g.id # id
  BY <1>2, IndexOfRows
<1> HIDE DEF k, id
<1>6. Rows(r.tows) = Without(Rows(t.tows), id) /\ DistinctIds(r.tows)
  <2>1. CASE k = 0
    BY <2>1, <1>1, <1>5 DEF Good, Without
  <2>2. CASE k # 0
    <3>1. k \in 1 .. Len(t.tows) /\ t.tows[k].id = id /\ r.tows = RemoveAt(t.tows, k)
      BY <2>2, <1>1, <1>4
    <3>2. DistinctIds(t.tows)
      BY DEF Good
    <3>3. /\ Rows(RemoveAt(t.tows, k)) = Without(Rows(t.tows), t.tows[k].id)
          /\ DistinctIds(RemoveAt(t.tows, k))
      BY <3>1, <3>2, <1>2, RemoveRows
    <3> QED BY <3>1, <3>3
  <2> QED BY <2>1, <2>2
<1>7. Good(r)
  BY <1>1, <1>3, <1>6 DEF Good, Without
<1> QED BY <1>1, <1>3, <1>6, <1>7 DEF OnlyAt, Without, r, id

LEMMA ReplaceIs ==
  ASSUME NEW t, Good(t), NEW n \in 1 .. Len(t.list), NEW f \in Flight, ~ f.tow,
         rows'[f.id] = f, t.list[n].id = f.id
  PROVE  LET r == ReplaceAtIndex(t, n, f)
         IN  /\ OnlyAt(t, r, f.id) /\ f \in Rows(r.list)
             /\ InCache(f.id, cache') => TowRight(Rows(r.tows), f, types')
             /\ DOMAIN r.list = DOMAIN t.list
             /\ \A i \in 1 .. Len(t.list) : r.list[i].id = t.list[i].id
<1> DEFINE r == ReplaceAtIndex(t, n, f)
           e == MakeTowflight(f)
           k == IndexOf(t.tows, f.id)
<1>1. /\ Shown(r) /\ LabelsRight(r, enabled') /\ r.list = ReplaceAt(t.list, n, f)
      /\ r.tows = TowsAfterReplace(t, f)
  BY ReplaceShows DEF Good
<1> HIDE DEF r
<1>2. t.list \in Seq(Flight) /\ t.tows \in Seq(Flight)
  BY DEF Good, Shown
<1>3. Rows(r.list) = Without(Rows(t.list), f.id) \cup {f} /\ DistinctIds(r.list)
  BY <1>1, <1>2, ReplaceRows DEF Good
<1>4. k # 0 => k \in 1 .. Len(t.tows) /\ t.tows[k].id = f.id
  BY <1>2, IndexOfIs
<1>5. k = 0 => \A g \in Rows(t.tows) : g.id # f.id
  BY <1>2, IndexOfRows
<1>6. e \in Flight /\ e.id = f.id /\ e.tow
  BY TowflightIsFlight
<1>7. r.tows =
         IF ProxyIsAirtow(f)
         THEN IF k = 0 THEN Append(t.tows, e)
              ELSE IF InCache(f.id, cache') THEN ReplaceAt(t.tows, k, e)
              ELSE t.tows
         ELSE IF k = 0 THEN t.tows ELSE RemoveAt(t.tows, k)
  BY <1>1 DEF TowsAfterReplace, ReplaceAt
<1> HIDE DEF k, e
<1>8. DistinctIds(t.tows) /\ Rows(t.tows) \subseteq Flight
  BY <1>2, RowsAreFlights DEF Good
<1>9. /\ DistinctIds(r.tows) /\ Without(Rows(r.tows), f.id) = Without(Rows(t.tows), f.id)
      /\ \A g \in Rows(r.tows) : g.tow
      /\ ProxyIsAirtow(f) /\ InCache(f.id, cache') => e \in Rows(r.tows)
      /\ ~ ProxyIsAirtow(f) => \A g \in Rows(r.tows) : g.id # f.id
  <2>0. \A g \in Rows(t.tows) : g.tow
    BY DEF Good
  <2>1. CASE ProxyIsAirtow(f) /\ k = 0
    <3>1. r.tows = Append(t.tows, e)
      BY <2>1, <1>7
    <3>2. Rows(Append(t.tows, e)) = Rows(t.tows) \cup {e} /\ DistinctIds(Append(t.tows, e))
      BY <2>1, <1>2, <1>5, <1>6, <1>8, AppendRows
    <3> QED BY <2>0, <2>1, <3>1, <3>2, <1>5, <1>6 DEF Without
  <2>2. CASE ProxyIsAirtow(f) /\ k # 0 /\ InCache(f.id, cache')
    <3>1. r.tows = ReplaceAt(t.tows, k, e)
      BY <2>2, <1>7
    <3>2. k \in 1 .. Len(t.tows) /\ e.id = t.tows[k].id
      BY <2>2, <1>4, <1>6
    <3>3. Rows(ReplaceAt(t.tows, k, e)) = Without(Rows(t.tows), e.id) \cup {e}
          /\ DistinctIds(ReplaceAt(t.tows, k, e))
      BY <3>2, <1>2, <1>6, <1>8, ReplaceRows
    <3> QED BY <2>0, <2>2, <3>1, <3>3, <1>6 DEF Without
  <2>3. CASE ProxyIsAirtow(f) /\ k # 0 /\ ~ InCache(f.id, cache')
    BY <2>0, <2>3, <1>7, <1>8
  <2>4. CASE ~ ProxyIsAirtow(f) /\ k = 0
    BY <2>0, <2>4, <1>5, <1>7, <1>8
  <2>5. CASE ~ ProxyIsAirtow(f) /\ k # 0
    <3>1. r.tows = RemoveAt(t.tows, k) /\ k \in 1 .. Len(t.tows) /\ t.tows[k].id = f.id
      BY <2>5, <1>4, <1>7
    <3>2. /\ Rows(RemoveAt(t.tows, k)) = Without(Rows(t.tows), t.tows[k].id)
          /\ DistinctIds(RemoveAt(t.tows, k))
      BY <3>1, <1>2, <1>8, RemoveRows
    <3> QED BY <2>0, <2>5, <3>1, <3>2 DEF Without
  <2> QED BY <2>1, <2>2, <2>3, <2>4, <2>5
<1>10. \A g \in Rows(r.tows) : \E h \in Rows(r.list) : h.id = g.id
  <2> SUFFICES ASSUME NEW g \in Rows(r.tows) PROVE \E h \in Rows(r.list) : h.id = g.id
    OBVIOUS
  <2>1. CASE g.id = f.id
    BY <2>1, <1>3
  <2>2. CASE g.id # f.id
    <3>1. g \in Rows(t.tows)
      BY <2>2, <1>9 DEF Without
    <3> QED BY <2>2, <3>1, <1>3 DEF Good, Without
  <2> QED BY <2>1, <2>2
<1>11. Good(r)
  BY <1>1, <1>3, <1>9, <1>10 DEF Good
<1>12. OnlyAt(t, r, f.id)
  <2>1. Without(Rows(r.list), f.id) = Without(Rows(t.list), f.id)
    BY <1>3 DEF Without
  <2> QED BY <2>1, <1>1, <1>9, <1>11 DEF OnlyAt
<1>13. InCache(f.id, cache') => TowRight(Rows(r.tows), f, types')
  BY <1>9, AirtowsAgree DEF TowRight, e
<1>14. DOMAIN r.list = DOMAIN t.list
       /\ \A i \in 1 .. Len(t.list) : r.list[i].id = t.list[i].id
  BY <1>1, <1>2, ExceptSeq DEF ReplaceAt
<1> QED BY <1>3, <1>12, <1>13, <1>14 DEF r

\* one round of removeById
RemoveFirstById(t, id) ==
  LET first == IndexOf(t.list, id)
  IN  IF first = 0 THEN t ELSE RemoveAtIndex(t, first)

\* once is enough to remove all flights of an id
LEMMA RemoveFirstIs ==
  ASSUME NEW t, Good(t), LabelsRight(t, enabled'), NEW id
  PROVE  LET r == RemoveFirstById(t, id)
         IN  /\ OnlyAt(t, r, id) /\ \A g \in Rows(r.list) : g.id # id
             /\ RemoveFirstById(r, id) = r
             /\ t.list = <<>> => r = t
<1> DEFINE k == IndexOf(t.list, id)
           r == RemoveFirstById(t, id)
<1>1. t.list \in Seq(Flight)
  BY DEF Good, Shown
<1>2. k = 0 => \A g \in Rows(t.list) : g.id # id
  BY <1>1, IndexOfRows
<1>3. k # 0 => k \in 1 .. Len(t.list) /\ t.list[k].id = id
  BY <1>1, IndexOfIs
<1>4. r = IF k = 0 THEN t ELSE RemoveAtIndex(t, k)
  BY DEF RemoveFirstById
<1> HIDE DEF k, r
<1>5. OnlyAt(t, r, id) /\ \A g \in Rows(r.list) : g.id # id
  <2>1. CASE k = 0
    BY <2>1, <1>2, <1>4 DEF OnlyAt
  <2>2. CASE k # 0
    BY <2>2, <1>3, <1>4, RemoveIs
  <2> QED BY <2>1, <2>2
<1>6. IndexOf(r.list, id) = 0
  <2>1. r.list \in Seq(Flight)
    BY <1>5 DEF OnlyAt, Good, Shown
  <2> QED BY <2>1, <1>5, IndexOfRows
<1>7. RemoveFirstById(r, id) = r
  BY <1>6 DEF RemoveFirstById
<1>8. t.list = <<>> => r = t
  BY <1>1, <1>3, <1>4
<1> QED BY <1>5, <1>7, <1>8 DEF r

LEMMA RemoveByIdIs ==
  ASSUME NEW t, Good(t), LabelsRight(t, enabled'), NEW id
  PROVE  LET r == RemoveById(t, id)
         IN  OnlyAt(t, r, id) /\ \A g \in Rows(r.list) : g.id # id
<1> DEFINE size == Len(t.list)
           D == 0 .. size
           u == RemoveFirstById(t, id)
           F(d) == [n \in D |-> IF n = 0 THEN t ELSE RemoveFirstById(d[n - 1], id)]
           done == CHOOSE d : d = F(d)
           w == [n \in D |-> IF n = 0 THEN t ELSE u]
<1>1. size \in Nat /\ (size = 0 => t.list = <<>>)
  BY DEF Good, Shown
<1>2. /\ OnlyAt(t, u, id) /\ \A g \in Rows(u.list) : g.id # id
      /\ RemoveFirstById(u, id) = u
      /\ t.list = <<>> => u = t
  BY RemoveFirstIs
<1>3. RemoveById(t, id) = done[size]
  BY DEF RemoveById, RemoveFirstById
<1> HIDE DEF u
<1>4. RemoveFirstById(t, id) = u
  BY DEF u
<1>5. w = F(w)
  <2> HIDE DEF size
  <2>1. ASSUME NEW n \in D, n # 0 PROVE RemoveFirstById(w[n - 1], id) = u
    <3>1. n - 1 \in D
      BY <2>1, <1>1
    <3> QED BY <3>1, <1>2, <1>4
  <2> QED BY <2>1
<1>6. done = F(done)
  <2> HIDE DEF F, w
  <2> QED BY <1>5
<1> HIDE DEF done, w
<1>7. \A n \in 1 .. size : done[n] = u
  <2> DEFINE Bad == {n \in 1 .. size : done[n] # u}
  <2> SUFFICES ASSUME Bad # {} PROVE FALSE
    OBVIOUS
  <2>1. PICK n \in Bad : \A m \in Bad : n <= m
    <3>1. Bad \subseteq Nat
      BY <1>1
    <3> HIDE DEF Bad
    <3> QED BY <3>1, LeastNat
  <2>2. n \in D /\ n # 0 /\ n - 1 \in D
    BY <1>1
  <2>3. done[n] = RemoveFirstById(done[n - 1], id)
    BY <2>2, <1>6
  <2>4. CASE n = 1
    <3>1. done[0] = t
      BY <2>2, <2>4, <1>6
    <3> QED BY <2>3, <2>4, <3>1, <1>4
  <2>5. CASE n # 1
    <3>1. n - 1 \in 1 .. size /\ ~ (n <= n - 1)
      BY <2>2, <2>5, <1>1
    <3>2. done[n - 1] = u
      BY <3>1, <2>1
    <3> QED BY <2>3, <3>2, <1>2
  <2> QED BY <2>4, <2>5
<1>8. done[size] = u
  <2>1. CASE size = 0
    <3>1. done[0] = t
      BY <2>1, <1>6
    <3> QED BY <2>1, <3>1, <1>1, <1>2
  <2>2. CASE size # 0
    BY <2>2, <1>1, <1>7
  <2> QED BY <2>1, <2>2
<1> QED BY <1>2, <1>3, <1>8

\* only one row is replaced, the others have other ids
LEMMA ReplaceByIdIs ==
  ASSUME NEW t, Good(t), NEW f \in Flight, ~ f.tow, rows'[f.id] = f,
         IndexOf(t.list, f.id) # 0
  PROVE  LET r == ReplaceById(t, f)
         IN  /\ OnlyAt(t, r, f.id) /\ f \in Rows(r.list)
             /\ InCache(f.id, cache') => TowRight(Rows(r.tows), f, types')
<1> DEFINE size == Len(t.list)
           D == 0 .. size
           k == IndexOf(t.list, f.id)
           u == ReplaceAtIndex(t, k, f)
           F(d) == [n \in D |-> IF n = 0 THEN t
                                ELSE IF t.list[n].id = f.id
                                     THEN ReplaceAtIndex(d[n - 1], n, f) ELSE d[n - 1]]
           done == CHOOSE d : d = F(d)
           w == [n \in D |-> IF n < k THEN t ELSE u]
<1>1. size \in Nat /\ t.list \in Seq(Flight) /\ DistinctIds(t.list)
  BY DEF Good, Shown
<1>2. k \in 1 .. size /\ t.list[k].id = f.id
  BY <1>1, IndexOfIs
<1>3. \A n \in 1 .. size : t.list[n].id = f.id <=> n = k
  BY <1>1, <1>2 DEF DistinctIds
<1>4. ReplaceById(t, f) = done[size]
  BY DEF ReplaceById
<1> HIDE DEF k
<1>5. /\ OnlyAt(t, u, f.id) /\ f \in Rows(u.list)
      /\ InCache(f.id, cache') => TowRight(Rows(u.tows), f, types')
  BY <1>2, ReplaceIs
<1> HIDE DEF u
<1>6. w = F(w)
  <2> HIDE DEF size
  <2>1. ASSUME NEW n \in D, n # 0
        PROVE  w[n] = IF t.list[n].id = f.id
                      THEN ReplaceAtIndex(w[n - 1], n, f) ELSE w[n - 1]
    <3>1. n - 1 \in D /\ n \in 1 .. size
      BY <2>1, <1>1
    <3>2. CASE n = k
      <4>1. w[n - 1] = t /\ w[n] = u
        BY <3>1, <3>2, <1>1, <1>2
      <4> QED BY <3>1, <3>2, <4>1, <1>3 DEF u
    <3>3. CASE n # k
      <4>1. w[n - 1] = w[n]
        BY <3>1, <3>3, <1>1, <1>2
      <4> QED BY <3>1, <3>3, <4>1, <1>3
    <3> QED BY <3>2, <3>3
  <2>2. 0 \in D /\ w[0] = t
    BY <1>1, <1>2
  <2>3. \A n \in D : w[n] = F(w)[n]
    BY <2>1, <2>2
  <2> QED BY <2>3
<1>7. done = F(done)
  <2> HIDE DEF F, w
  <2> QED BY <1>6
<1> HIDE DEF done
<1>8. \A n \in D : done[n] = w[n]
  <2> DEFINE Bad == {n \in D : done[n] # w[n]}
  <2> SUFFICES ASSUME Bad # {} PROVE FALSE
    OBVIOUS
  <2>1. PICK n \in Bad : \A m \in Bad : n <= m
    <3>1. Bad \subseteq Nat
      BY <1>1
    <3> HIDE DEF Bad
    <3> QED BY <3>1, LeastNat
  <2>2. n # 0
    <3>1. done[0] = F(done)[0] /\ w[0] = F(w)[0] /\ 0 \in D
      <4> HIDE DEF F, w
      <4> QED BY <1>1, <1>6, <1>7
    <3>2. F(done)[0] = t /\ F(w)[0] = t
      <4> HIDE DEF w
      <4> QED BY <3>1
    <3> QED BY <3>1, <3>2
  <2>3. n \in D /\ n - 1 \in D /\ ~ (n <= n - 1)
    BY <2>2, <1>1
  <2>4. done[n - 1] = w[n - 1]
    BY <2>1, <2>3
  <2> HIDE DEF w
  <2>5. F(done)[n] = F(w)[n]
    BY <2>2, <2>3, <2>4
  <2>6. done[n] = w[n]
    <3> HIDE DEF F
    <3> QED BY <2>5, <1>6, <1>7
  <2> QED BY <2>6
<1>9. done[size] = u
  <2>1. size \in D /\ ~ (size < k)
    BY <1>1, <1>2
  <2> HIDE DEF size
  <2> QED BY <2>1, <1>8
<1> QED BY <1>4, <1>5, <1>9

LEMMA ReplaceOrAddIs ==
  ASSUME NEW t, Good(t), NEW f \in Flight, ~ f.tow, rows'[f.id] = f
  PROVE  LET r == ReplaceOrAdd(t, f)
         IN  /\ OnlyAt(t, r, f.id) /\ f \in Rows(r.list)
             /\ InCache(f.id, cache') => TowRight(Rows(r.tows), f, types')
<1>1. CASE IndexOf(t.list, f.id) = 0
  <2>1. t.list \in Seq(Flight)
    BY DEF Good, Shown
  <2>2. \A g \in Rows(t.list) : g.id # f.id
    BY <1>1, <2>1, IndexOfRows
  <2> QED BY <1>1, <2>2, AppendIs DEF ReplaceOrAdd
<1>2. CASE IndexOf(t.list, f.id) # 0
  BY <1>2, ReplaceByIdIs DEF ReplaceOrAdd
<1> QED BY <1>1, <1>2

\* one towflight for each airtow of the new list
LEMMA ResetTows ==
  ASSUME NEW flights \in Seq(Flight), DistinctIds(flights)
  PROVE  LET tows == TowsAfterReset(flights)
         IN  /\ tows \in Seq(Flight) /\ DistinctIds(tows)
             /\ \A g \in Rows(tows) : \E f \in Rows(flights) :
                  ProxyIsAirtow(f) /\ g = MakeTowflight(f)
             /\ \A f \in Rows(flights) : ProxyIsAirtow(f) => MakeTowflight(f) \in Rows(tows)
<1> DEFINE A == {n \in DOMAIN flights : ProxyIsAirtow(flights[n])}
           s == InOrder(A)
           k == Cardinality(A)
           tows == TowsAfterReset(flights)
<1>1. DOMAIN flights = 1 .. Len(flights) /\ Len(flights) \in Nat
      /\ \A n \in 1 .. Len(flights) : flights[n] \in Flight
  BY ElementOfSeq
<1>2. A \in SUBSET Nat /\ IsFiniteSet(A)
  <2>1. A \subseteq 1 .. Len(flights)
    BY <1>1
  <2>2. IsFiniteSet(1 .. Len(flights))
    BY <1>1, FS_Interval
  <2>3. A \in SUBSET Nat
    BY <2>1
  <2> HIDE DEF A
  <2>4. A \in SUBSET (1 .. Len(flights))
    BY <2>1
  <2> QED BY <2>2, <2>3, <2>4, FS_Subset
<1>3. tows = [n \in DOMAIN s |-> MakeTowflight(flights[s[n]])]
  BY DEF TowsAfterReset
<1>4. /\ s \in Seq(A) /\ Len(s) = k /\ DOMAIN s = 1 .. k /\ k \in Nat
      /\ \A i, j \in 1 .. k : s[i] = s[j] => i = j
      /\ \A x \in A : \E i \in 1 .. k : s[i] = x
  <2> HIDE DEF A
  <2> QED BY <1>2, InOrderIs
<1> HIDE DEF tows, s, k
<1>5. \A i \in 1 .. k : s[i] \in A
  <2> HIDE DEF A
  <2> QED BY <1>4
<1>6. \A i \in 1 .. k : s[i] \in 1 .. Len(flights) /\ flights[s[i]] \in Flight
                        /\ ProxyIsAirtow(flights[s[i]])
  BY <1>1, <1>5
<1>7. \A i \in 1 .. k : tows[i] = MakeTowflight(flights[s[i]])
                        /\ tows[i] \in Flight /\ tows[i].id = flights[s[i]].id
  BY <1>3, <1>4, <1>6, TowflightIsFlight
<1>8. tows \in Seq(Flight) /\ Len(tows) = k
  <2>1. tows \in [1 .. k -> Flight]
    BY <1>3, <1>4, <1>7
  <2> QED BY <2>1, <1>4
<1>9. DistinctIds(tows)
  BY <1>4, <1>6, <1>7, <1>8 DEF DistinctIds
<1>10. ASSUME NEW g \in Rows(tows)
       PROVE  \E f \in Rows(flights) : ProxyIsAirtow(f) /\ g = MakeTowflight(f)
  <2>1. PICK i \in 1 .. k : g = tows[i]
    BY <1>8 DEF Rows
  <2>2. flights[s[i]] \in Rows(flights)
    BY <1>6 DEF Rows
  <2> QED BY <2>1, <2>2, <1>6, <1>7
<1>11. ASSUME NEW f \in Rows(flights), ProxyIsAirtow(f)
       PROVE  MakeTowflight(f) \in Rows(tows)
  <2>1. PICK n \in 1 .. Len(flights) : f = flights[n]
    BY DEF Rows
  <2>2. n \in A
    BY <2>1, <1>11, <1>1
  <2>3. PICK i \in 1 .. k : s[i] = n
    <3> HIDE DEF A
    <3> QED BY <2>2, <1>4
  <2>4. tows[i] = MakeTowflight(f)
    BY <2>1, <2>3, <1>7
  <2> QED BY <2>4, <1>8 DEF Rows
<1> QED BY <1>8, <1>9, <1>10, <1>11 DEF tows

LEMMA ResetIs ==
  ASSUME NEW t, Shown(t), NEW flights \in Seq(Flight), DistinctIds(flights),
         \A f \in Rows(flights) : ~ f.tow
  PROVE  LET r == ReplaceList(t, flights)
         IN  /\ Good(r) /\ LabelsRight(r, enabled') /\ r.list = flights
             /\ \A f \in Rows(flights) : TowRight(Rows(r.tows), f, types')
<1> DEFINE r == ReplaceList(t, flights)
           tows == TowsAfterReset(flights)
<1>1. /\ tows \in Seq(Flight) /\ DistinctIds(tows)
      /\ \A g \in Rows(tows) : \E f \in Rows(flights) :
                  ProxyIsAirtow(f) /\ g = MakeTowflight(f)
      /\ \A f \in Rows(flights) : ProxyIsAirtow(f) => MakeTowflight(f) \in Rows(tows)
  BY ResetTows
<1>2. Shown(r) /\ LabelsRight(r, enabled') /\ r.list = flights /\ r.tows = tows
  BY <1>1, ResetShows
<1> HIDE DEF r, tows
<1>3. Rows(flights) \subseteq Flight
  BY RowsAreFlights
<1>4. \A f \in Rows(flights) : MakeTowflight(f).tow /\ MakeTowflight(f).id = f.id
  BY <1>3, TowflightIsFlight
<1>5. Good(r)
  BY <1>1, <1>2, <1>4 DEF Good
<1>6. ASSUME NEW f \in Rows(flights) PROVE TowRight(Rows(r.tows), f, types')
  <2>1. f \in Flight /\ ~ f.tow /\ (ProxyIsAirtow(f) <=> IsAirtow(f, types'))
    BY <1>3, AirtowsAgree
  <2>2. CASE ProxyIsAirtow(f)
    BY <2>1, <2>2, <1>1, <1>2 DEF TowRight
  <2>3. CASE ~ ProxyIsAirtow(f)
    <3>1. ASSUME NEW g \in Rows(tows), g.id = f.id PROVE FALSE
      <4>1. PICK h \in Rows(flights) : ProxyIsAirtow(h) /\ g = MakeTowflight(h)
        BY <1>1
      <4>2. h.id = f.id
        BY <4>1, <3>1, <1>4
      <4>3. h = f
        BY <4>2, SameId
      <4> QED BY <4>1, <4>3, <2>3
    <3> QED BY <3>1, <2>1, <2>3, <1>2 DEF TowRight
  <2> QED BY <2>2, <2>3
<1> QED BY <1>2, <1>5, <1>6 DEF r

-----------------------------------------------------------------------------
(* The inductive invariant *)

\* what holds of every row
RowRight(f, id) ==
  /\ f \in Flight /\ f.id = id /\ ~ f.tow
  /\ IsPrepared(f) <=> f.day = NoDay

\* the variables about the database
RowsInv ==
  /\ today \in Days /\ displayDate \in Days /\ lastId \in 0 .. MaxFlights
  /\ DOMAIN rows \subseteq 1 .. lastId
  /\ \A id \in DOMAIN rows : RowRight(rows[id], id)
  /\ types \in Types

\* the fetch that is under way is for a day, and what it fetched is one
FetchInv ==
  /\ fetch \in [date : Days \cup {NoDay},
                stage : {"none", "waiting", "fetched", "canceled"}]
  /\ fetch.stage = "waiting" => fetch.date \in Days
  /\ fetch.stage = "fetched" => cache.otherDate \in Days

(* While there is a connection, the lists of the cache have the flights of *)
(* their days; the list of the other date only if it is another date.      *)
CacheInv ==
  /\ cache \in [lists : [Lists -> SUBSET Ids], todayDate : Days \cup {NoDay},
                otherDate : Days \cup {NoDay}]
  /\ \A l \in Lists : cache.lists[l] \subseteq DOMAIN rows
  /\ cache.todayDate <= today
  /\ enabled =>
      /\ cache.todayDate \in Days
      /\ cache.lists["today"] = {id \in DOMAIN rows : rows[id].day = cache.todayDate}
      /\ cache.lists["prepared"] = {id \in DOMAIN rows : rows[id].day = NoDay}
      /\ cache.otherDate \notin {NoDay, cache.todayDate} =>
           cache.lists["other"] = {id \in DOMAIN rows : rows[id].day = cache.otherDate}

(* The rows of the list are those of the database, and their towflights    *)
(* are right unless they are known to be stale.                            *)
TableInv ==
  /\ Good(table) /\ LabelsRight(table, enabled)
  /\ \A f \in Rows(table.list) : f.id \in DOMAIN rows /\ rows[f.id] = f
  /\ \A f \in Rows(table.list) :
       f.id \notin stale => TowRight(Rows(table.tows), f, types)

\* where the table must show the day
Settled ==
  /\ enabled /\ cache.todayDate = today
  /\ displayDate = today \/ (displayDate = cache.otherDate /\ ~ Fetching)

\* that a row is of the displayed day, today also if it is prepared
OfDay(f, day, isToday) == f.day = day \/ (f.day = NoDay /\ isToday)

\* then the list has all flights of the day, and no others but prepared ones
ShownInv ==
  /\ (enabled /\ cache.todayDate = today) => (showPrepared <=> displayDate = today)
  /\ Settled =>
       /\ \A f \in Rows(table.list) : f.day \in {displayDate, NoDay}
       /\ \A id \in DOMAIN rows :
            OfDay(rows[id], displayDate, displayDate = today)
              => rows[id] \in Rows(table.list)

IInv == RowsInv /\ FetchInv /\ CacheInv /\ TableInv /\ ShownInv

-----------------------------------------------------------------------------
\* what is entered is a flight
LEMMA EnteredIsRight ==
  ASSUME NEW id \in Ids, NEW f \in Entered(id), today \in Days
  PROVE  RowRight(f, id)
<1>1. /\ f \in [id : {id}, kind : Kinds, day : (1 .. today) \cup {NoDay},
                landed : BOOLEAN, towLanded : BOOLEAN, tow : {FALSE}]
      /\ f.kind.mode = "coming" => (f.landed <=> f.day # NoDay)
      /\ f.landed => f.kind.mode # "leaving" /\ f.day # NoDay
  BY DEF Entered
<1>2. 1 .. today \subseteq Days
  <2>1. today \in Nat /\ LastDay \in Nat /\ today <= LastDay
    BY SizesAssumption DEF Days
  <2> QED BY <2>1 DEF Days
<1>3. f \in Flight /\ f.id = id /\ f.tow = FALSE /\ f.kind \in Kinds
  BY <1>1, <1>2 DEF Flight
<1>4. f.kind.mode \in {"local", "leaving", "coming"}
  BY <1>3, KindsAssumption
<1>5. IsPrepared(f) <=> f.day = NoDay
  BY <1>1, <1>3, <1>4 DEF IsPrepared, Happened, DepartsHere, LandsHere, Departed, Mode
<1> QED BY <1>3, <1>5 DEF RowRight

LEMMA DayFacts ==
  /\ \A d \in Days : d # NoDay /\ d \in Nat
  /\ NoDay \notin Days /\ Days \subseteq Nat
BY SizesAssumption DEF Days, NoDay

\* what the cache does with a change of the flight of an id
LEMMA DbChangedIs ==
  ASSUME CacheInv, NEW id \in Ids, DbChanged(id)
  PROVE  /\ cache' \in [lists : [Lists -> SUBSET Ids], todayDate : Days \cup {NoDay},
                        otherDate : Days \cup {NoDay}]
         /\ cache'.todayDate = cache.todayDate /\ cache'.otherDate = cache.otherDate
         /\ \A l \in Lists :
              cache'.lists[l] = IF id \in DOMAIN rows' /\ ListFor(rows'[id]) = l
                                THEN cache.lists[l] \cup {id} ELSE cache.lists[l] \ {id}
<1> DEFINE new == [l \in Lists |->
              IF id \in DOMAIN rows' /\ ListFor(rows'[id]) = l
              THEN cache.lists[l] \cup {id} ELSE cache.lists[l] \ {id}]
<1>1. cache' = [cache EXCEPT !.lists = new]
  BY DEF DbChanged
<1>2. new \in [Lists -> SUBSET Ids]
  BY DEF CacheInv
<1>3. \A l \in Lists : new[l] = IF id \in DOMAIN rows' /\ ListFor(rows'[id]) = l
                                THEN cache.lists[l] \cup {id} ELSE cache.lists[l] \ {id}
  OBVIOUS
<1> HIDE DEF new
<1>4. /\ cache'.lists = new
      /\ cache'.todayDate = cache.todayDate /\ cache'.otherDate = cache.otherDate
      /\ cache' \in [lists : [Lists -> SUBSET Ids], todayDate : Days \cup {NoDay},
                        otherDate : Days \cup {NoDay}]
  BY <1>1, <1>2 DEF CacheInv
<1> QED BY <1>3, <1>4

LEMMA ListForIs ==
  ASSUME NEW f, NEW id, RowRight(f, id)
  PROVE  /\ ListFor(f) = "prepared" <=> f.day = NoDay
         /\ ListFor(f) = "today" <=> f.day # NoDay /\ f.day = cache.todayDate
         /\ ListFor(f) = "other" <=> f.day # NoDay /\ f.day # cache.todayDate
                                     /\ f.day = cache.otherDate
BY DEF ListFor, RowRight

\* a flight is written
PutRow(f) ==
  /\ DOMAIN rows' = DOMAIN rows \cup {f.id} /\ rows'[f.id] = f
  /\ \A id \in DOMAIN rows : id # f.id => rows'[id] = rows[id]

\* an event leaves the lists of the cache right: of a flight that was written
LEMMA PutCache ==
  ASSUME RowsInv, CacheInv, NEW f, NEW id \in Ids, RowRight(f, id), PutRow(f),
         DbChanged(id), today' = today, enabled' = enabled
  PROVE  CacheInv'
<1>1. /\ cache' \in [lists : [Lists -> SUBSET Ids], todayDate : Days \cup {NoDay},
                        otherDate : Days \cup {NoDay}]
      /\ cache'.todayDate = cache.todayDate /\ cache'.otherDate = cache.otherDate
      /\ \A l \in Lists :
              cache'.lists[l] = IF id \in DOMAIN rows' /\ ListFor(rows'[id]) = l
                                THEN cache.lists[l] \cup {id} ELSE cache.lists[l] \ {id}
  BY DbChangedIs
<1>2. f.id = id /\ id \in DOMAIN rows' /\ rows'[id] = f
      /\ DOMAIN rows' = DOMAIN rows \cup {id}
      /\ \A i \in DOMAIN rows : i # id => rows'[i] = rows[i]
  BY DEF PutRow, RowRight
<1>3. \A l \in Lists : cache'.lists[l] = IF ListFor(f) = l THEN cache.lists[l] \cup {id}
                                         ELSE cache.lists[l] \ {id}
  BY <1>1, <1>2
<1>4. \A l \in Lists : cache'.lists[l] \subseteq DOMAIN rows'
  BY <1>2, <1>3 DEF CacheInv
<1>5. ASSUME enabled, NEW l \in Lists, NEW d,
             cache.lists[l] = {i \in DOMAIN rows : rows[i].day = d},
             ListFor(f) = l <=> f.day = d
      PROVE  cache'.lists[l] = {i \in DOMAIN rows' : rows'[i].day = d}
  <2>1. CASE f.day = d
    <3>1. cache'.lists[l] = cache.lists[l] \cup {id}
      BY <2>1, <1>3, <1>5
    <3> QED BY <2>1, <3>1, <1>2, <1>5
  <2>2. CASE f.day # d
    <3>1. cache'.lists[l] = cache.lists[l] \ {id}
      BY <2>2, <1>3, <1>5
    <3> QED BY <2>2, <3>1, <1>2, <1>5
  <2> QED BY <2>1, <2>2
<1>6. ASSUME enabled
      PROVE  /\ cache'.todayDate \in Days
             /\ cache'.lists["today"] = {i \in DOMAIN rows' : rows'[i].day = cache'.todayDate}
             /\ cache'.lists["prepared"] = {i \in DOMAIN rows' : rows'[i].day = NoDay}
             /\ cache'.otherDate \notin {NoDay, cache'.todayDate} =>
                  cache'.lists["other"] = {i \in DOMAIN rows' : rows'[i].day = cache'.otherDate}
  <2>0. /\ cache.todayDate \in Days
        /\ cache.lists["today"] = {i \in DOMAIN rows : rows[i].day = cache.todayDate}
        /\ cache.lists["prepared"] = {i \in DOMAIN rows : rows[i].day = NoDay}
        /\ cache.otherDate \notin {NoDay, cache.todayDate} =>
             cache.lists["other"] = {i \in DOMAIN rows : rows[i].day = cache.otherDate}
    BY <1>6 DEF CacheInv
  <2>1. cache.todayDate \in Days /\ cache.todayDate # NoDay
    BY <2>0, DayFacts
  <2>2. cache'.lists["today"] = {i \in DOMAIN rows' : rows'[i].day = cache.todayDate}
    <3>1. ListFor(f) = "today" <=> f.day = cache.todayDate
      BY <2>1, ListForIs
    <3> QED BY <2>0, <3>1, <1>5, <1>6 DEF Lists
  <2>3. cache'.lists["prepared"] = {i \in DOMAIN rows' : rows'[i].day = NoDay}
    <3>1. ListFor(f) = "prepared" <=> f.day = NoDay
      BY ListForIs
    <3> QED BY <2>0, <3>1, <1>5, <1>6 DEF Lists
  <2>4. ASSUME cache.otherDate \notin {NoDay, cache.todayDate}
        PROVE  cache'.lists["other"] = {i \in DOMAIN rows' : rows'[i].day = cache.otherDate}
    <3>1. ListFor(f) = "other" <=> f.day = cache.otherDate
      BY <2>4, ListForIs
    <3> QED BY <2>0, <2>4, <3>1, <1>5, <1>6 DEF Lists
  <2> QED BY <1>1, <2>1, <2>2, <2>3, <2>4
<1>7. cache'.todayDate <= today'
  BY <1>1 DEF CacheInv
<1> QED BY <1>1, <1>4, <1>6, <1>7 DEF CacheInv

\* and of one that was deleted
LEMMA DropCache ==
  ASSUME RowsInv, CacheInv, NEW id \in Ids,
         DOMAIN rows' = DOMAIN rows \ {id},
         \A i \in DOMAIN rows' : rows'[i] = rows[i],
         DbChanged(id), today' = today, enabled' = enabled
  PROVE  CacheInv'
<1>1. /\ cache' \in [lists : [Lists -> SUBSET Ids], todayDate : Days \cup {NoDay},
                        otherDate : Days \cup {NoDay}]
      /\ cache'.todayDate = cache.todayDate /\ cache'.otherDate = cache.otherDate
      /\ \A l \in Lists :
              cache'.lists[l] = IF id \in DOMAIN rows' /\ ListFor(rows'[id]) = l
                                THEN cache.lists[l] \cup {id} ELSE cache.lists[l] \ {id}
  BY DbChangedIs
<1>3. \A l \in Lists : cache'.lists[l] = cache.lists[l] \ {id}
  BY <1>1
<1>4. \A l \in Lists : cache'.lists[l] \subseteq DOMAIN rows'
  BY <1>3 DEF CacheInv
<1>5. ASSUME NEW l \in Lists, NEW d, cache.lists[l] = {i \in DOMAIN rows : rows[i].day = d}
      PROVE  cache'.lists[l] = {i \in DOMAIN rows' : rows'[i].day = d}
  BY <1>3, <1>5
<1>6. ASSUME enabled
      PROVE  /\ cache'.todayDate \in Days
             /\ cache'.lists["today"] = {i \in DOMAIN rows' : rows'[i].day = cache'.todayDate}
             /\ cache'.lists["prepared"] = {i \in DOMAIN rows' : rows'[i].day = NoDay}
             /\ cache'.otherDate \notin {NoDay, cache'.todayDate} =>
                  cache'.lists["other"] = {i \in DOMAIN rows' : rows'[i].day = cache'.otherDate}
  <2>0. /\ cache.todayDate \in Days
        /\ cache.lists["today"] = {i \in DOMAIN rows : rows[i].day = cache.todayDate}
        /\ cache.lists["prepared"] = {i \in DOMAIN rows : rows[i].day = NoDay}
        /\ cache.otherDate \notin {NoDay, cache.todayDate} =>
             cache.lists["other"] = {i \in DOMAIN rows : rows[i].day = cache.otherDate}
    BY <1>6 DEF CacheInv
  <2>2. cache'.lists["today"] = {i \in DOMAIN rows' : rows'[i].day = cache.todayDate}
    BY <2>0, <1>5 DEF Lists
  <2>3. cache'.lists["prepared"] = {i \in DOMAIN rows' : rows'[i].day = NoDay}
    BY <2>0, <1>5 DEF Lists
  <2>4. ASSUME cache.otherDate \notin {NoDay, cache.todayDate}
        PROVE  cache'.lists["other"] = {i \in DOMAIN rows' : rows'[i].day = cache.otherDate}
    BY <2>0, <2>4, <1>5 DEF Lists
  <2> QED BY <1>1, <2>0, <2>2, <2>3, <2>4
<1>7. cache'.todayDate <= today'
  BY <1>1 DEF CacheInv
<1> QED BY <1>1, <1>4, <1>6, <1>7 DEF CacheInv

\* the list made of ids has their rows, each once
LEMMA ListOfIs ==
  ASSUME RowsInv', NEW ids, ids \subseteq DOMAIN rows'
  PROVE  /\ ListOf(ids) \in Seq(Flight) /\ DistinctIds(ListOf(ids))
         /\ Rows(ListOf(ids)) = {rows'[id] : id \in ids}
<1> DEFINE s == InOrder(ids)
           k == Cardinality(ids)
           l == ListOf(ids)
<1>1. ids \in SUBSET Nat /\ IsFiniteSet(ids)
  <2>1. lastId' \in Nat
    BY SizesAssumption DEF RowsInv
  <2>2. ids \in SUBSET (1 .. lastId')
    BY DEF RowsInv
  <2>3. IsFiniteSet(1 .. lastId')
    BY <2>1, FS_Interval
  <2>4. ids \in SUBSET Nat
    BY <2>1, <2>2
  <2> QED BY <2>2, <2>3, <2>4, FS_Subset
<1>2. /\ s \in Seq(ids) /\ Len(s) = k /\ DOMAIN s = 1 .. k /\ k \in Nat
      /\ \A i, j \in 1 .. k : s[i] = s[j] => i = j
      /\ \A x \in ids : \E i \in 1 .. k : s[i] = x
  BY <1>1, InOrderIs
<1>3. l = [n \in DOMAIN s |-> rows'[s[n]]]
  BY DEF ListOf
<1> HIDE DEF s, k, l
<1>4. \A i \in 1 .. k : s[i] \in ids /\ RowRight(rows'[s[i]], s[i])
  BY <1>2 DEF RowsInv
<1>5. \A i \in 1 .. k : l[i] = rows'[s[i]] /\ l[i] \in Flight /\ l[i].id = s[i]
  BY <1>2, <1>3, <1>4 DEF RowRight
<1>6. l \in Seq(Flight) /\ Len(l) = k
  <2>1. l \in [1 .. k -> Flight]
    BY <1>2, <1>3, <1>5
  <2> QED BY <2>1, <1>2
<1>7. DistinctIds(l)
  BY <1>2, <1>5, <1>6 DEF DistinctIds
<1>8. Rows(l) = {rows'[id] : id \in ids}
  BY <1>2, <1>4, <1>5, <1>6 DEF Rows
<1> QED BY <1>6, <1>7, <1>8 DEF l

\* two lists, one after the other
LEMMA ConcatIs ==
  ASSUME NEW a \in Seq(Flight), NEW b \in Seq(Flight), NEW c, c = a \o b
  PROVE  /\ Len(c) = Len(a) + Len(b) /\ Len(a) \in Nat /\ Len(b) \in Nat
         /\ DOMAIN c = 1 .. Len(c)
         /\ \A i \in 1 .. Len(a) + Len(b) : c[i] = IF i <= Len(a) THEN a[i] ELSE b[i - Len(a)]
BY ConcatProperties, LenProperties

LEMMA ConcatRows ==
  ASSUME NEW a \in Seq(Flight), NEW b \in Seq(Flight), DistinctIds(a), DistinctIds(b),
         \A f \in Rows(a), g \in Rows(b) : f.id # g.id
  PROVE  /\ a \o b \in Seq(Flight) /\ DistinctIds(a \o b)
         /\ Rows(a \o b) = Rows(a) \cup Rows(b)
<1> DEFINE c == a \o b
<1>1. /\ c \in Seq(Flight) /\ Len(c) = Len(a) + Len(b) /\ Len(a) \in Nat /\ Len(b) \in Nat
      /\ \A i \in 1 .. Len(a) + Len(b) : c[i] = IF i <= Len(a) THEN a[i] ELSE b[i - Len(a)]
  BY ConcatProperties, LenProperties
<1> HIDE DEF c
<1>2. \A i \in 1 .. Len(c) : i \in 1 .. Len(a) \/ i - Len(a) \in 1 .. Len(b)
  BY <1>1
<1>3. \A i \in 1 .. Len(a) : i \in 1 .. Len(c) /\ c[i] = a[i]
  BY <1>1
<1>4. \A i \in 1 .. Len(b) : i + Len(a) \in 1 .. Len(c) /\ c[i + Len(a)] = b[i]
  <2> SUFFICES ASSUME NEW i \in 1 .. Len(b)
               PROVE  i + Len(a) \in 1 .. Len(c) /\ c[i + Len(a)] = b[i]
    OBVIOUS
  <2> DEFINE j == i + Len(a)
  <2>1. j \in 1 .. Len(a) + Len(b) /\ ~ (j <= Len(a)) /\ j - Len(a) = i
    BY <1>1
  <2> HIDE DEF j
  <2>2. j \in 1 .. Len(c) /\ c[j] = b[i]
    BY <2>1, <1>1
  <2> QED BY <2>2 DEF j
<1>5. \A i \in 1 .. Len(c) : i \notin 1 .. Len(a) =>
        i - Len(a) \in 1 .. Len(b) /\ c[i] = b[i - Len(a)]
  BY <1>1
<1>6. Rows(c) \subseteq Rows(a) \cup Rows(b)
  BY <1>3, <1>5 DEF Rows
<1>7. Rows(a) \subseteq Rows(c)
  BY <1>3 DEF Rows
<1>8. Rows(b) \subseteq Rows(c)
  BY <1>4 DEF Rows
<1>9. DistinctIds(c)
  <2> SUFFICES ASSUME NEW i \in 1 .. Len(c), NEW j \in 1 .. Len(c), c[i].id = c[j].id
               PROVE  i = j
    BY DEF DistinctIds
  <2>1. CASE i \in 1 .. Len(a) /\ j \in 1 .. Len(a)
    BY <2>1, <1>3 DEF DistinctIds
  <2>2. CASE i \notin 1 .. Len(a) /\ j \notin 1 .. Len(a)
    <3>1. i - Len(a) = j - Len(a)
      BY <2>2, <1>5 DEF DistinctIds
    <3> QED BY <3>1, <1>1
  <2>3. CASE i \in 1 .. Len(a) /\ j \notin 1 .. Len(a)
    BY <2>3, <1>3, <1>5 DEF Rows
  <2>4. CASE i \notin 1 .. Len(a) /\ j \in 1 .. Len(a)
    BY <2>4, <1>3, <1>5 DEF Rows
  <2> QED BY <2>1, <2>2, <2>3, <2>4
<1> QED BY <1>1, <1>6, <1>7, <1>8, <1>9 DEF c

-----------------------------------------------------------------------------
(* A reset of the list *)

\* refreshFlights leaves the table right, whatever it was
LEMMA RefreshIs ==
  ASSUME RowsInv', CacheInv', NEW t, Shown(t), RefreshFlights(t)
  PROVE  TableInv' /\ ShownInv'
<1> DEFINE isToday == displayDate' = today'
           lists == cache'.lists
           list == IF ~ enabled' THEN <<>>
                   ELSE IF isToday THEN ListOf(lists.today) \o ListOf(lists.prepared)
                   ELSE ListOf(lists.other)
           fresh == ReplaceList(t, list)
           ids == IF ~ enabled' THEN {}
                  ELSE IF isToday THEN lists["today"] \cup lists["prepared"]
                  ELSE lists["other"]
<1>1. /\ table' = fresh /\ stale' = {}
      /\ showPrepared' = IF enabled' THEN isToday ELSE showPrepared
  BY DEF RefreshFlights
<1>2. /\ \A l \in Lists : lists[l] \subseteq DOMAIN rows'
      /\ enabled' => /\ cache'.todayDate \in Days
                     /\ lists["today"] = {i \in DOMAIN rows' : rows'[i].day = cache'.todayDate}
                     /\ lists["prepared"] = {i \in DOMAIN rows' : rows'[i].day = NoDay}
                     /\ cache'.otherDate \notin {NoDay, cache'.todayDate} =>
                          lists["other"] = {i \in DOMAIN rows' : rows'[i].day = cache'.otherDate}
  BY DEF CacheInv
<1>3. \A l \in Lists : /\ ListOf(lists[l]) \in Seq(Flight) /\ DistinctIds(ListOf(lists[l]))
                       /\ Rows(ListOf(lists[l])) = {rows'[id] : id \in lists[l]}
  BY <1>2, ListOfIs
<1>4. \A id \in DOMAIN rows' : RowRight(rows'[id], id)
  BY DEF RowsInv
<1>5. list \in Seq(Flight) /\ DistinctIds(list) /\ Rows(list) = {rows'[id] : id \in ids}
  <2>1. CASE ~ enabled'
    <3>1. list = <<>> /\ Len(list) = 0 /\ ids = {}
      BY <2>1
    <3> HIDE DEF list, ids
    <3> QED BY <3>1 DEF Rows, DistinctIds
  <2>2. CASE enabled' /\ isToday
    <3> DEFINE a == ListOf(lists["today"])
               b == ListOf(lists["prepared"])
    <3>1. list = a \o b /\ ids = lists["today"] \cup lists["prepared"]
      BY <2>2
    <3>2. /\ a \in Seq(Flight) /\ DistinctIds(a) /\ Rows(a) = {rows'[id] : id \in lists["today"]}
          /\ b \in Seq(Flight) /\ DistinctIds(b) /\ Rows(b) = {rows'[id] : id \in lists["prepared"]}
      BY <1>3 DEF Lists
    <3> HIDE DEF a, b, list, ids
    <3>3. \A f \in Rows(a), g \in Rows(b) : f.id # g.id
      <4>1. \A i \in lists["today"], j \in lists["prepared"] : i # j
        BY <1>2, <2>2, DayFacts
      <4>2. \A i \in lists["today"] : rows'[i].id = i
        BY <1>2, <1>4 DEF Lists, RowRight
      <4>3. \A i \in lists["prepared"] : rows'[i].id = i
        BY <1>2, <1>4 DEF Lists, RowRight
      <4> QED BY <3>2, <4>1, <4>2, <4>3
    <3>4. a \o b \in Seq(Flight) /\ DistinctIds(a \o b) /\ Rows(a \o b) = Rows(a) \cup Rows(b)
      BY <3>2, <3>3, ConcatRows
    <3>5. Rows(a) \cup Rows(b) = {rows'[id] : id \in lists["today"] \cup lists["prepared"]}
      BY <3>2
    <3> QED BY <3>1, <3>4, <3>5
  <2>3. CASE enabled' /\ ~ isToday
    <3>1. list = ListOf(lists["other"]) /\ ids = lists["other"]
      BY <2>3
    <3> QED BY <3>1, <1>3 DEF Lists
  <2> QED BY <2>1, <2>2, <2>3
<1>6. ids \subseteq DOMAIN rows'
  BY <1>2 DEF Lists
<1> HIDE DEF list, fresh
<1>7. \A f \in Rows(list) : f.id \in DOMAIN rows' /\ rows'[f.id] = f /\ ~ f.tow
  BY <1>4, <1>5, <1>6 DEF RowRight
<1>8. /\ Good(fresh) /\ LabelsRight(fresh, enabled') /\ fresh.list = list
      /\ \A f \in Rows(list) : TowRight(Rows(fresh.tows), f, types')
  BY <1>5, <1>7, ResetIs DEF fresh
<1>9. TableInv'
  BY <1>1, <1>7, <1>8 DEF TableInv
<1>10. ASSUME Settled'
       PROVE  /\ \A i \in ids : rows'[i].day \in {displayDate', NoDay}
              /\ \A i \in DOMAIN rows' : OfDay(rows'[i], displayDate', isToday) => i \in ids
  <2>1. enabled' /\ cache'.todayDate = today' /\ (isToday \/ displayDate' = cache'.otherDate)
    BY <1>10 DEF Settled
  <2>2. CASE isToday
    BY <2>1, <2>2, <1>2 DEF OfDay
  <2>3. CASE ~ isToday
    <3>1. displayDate' \in Days
      BY DEF RowsInv
    <3>2. cache'.otherDate \notin {NoDay, cache'.todayDate}
      BY <2>1, <2>3, <3>1, DayFacts
    <3> QED BY <2>1, <2>3, <3>2, <1>2 DEF OfDay
  <2> QED BY <2>2, <2>3
<1> HIDE DEF ids
<1>11. ShownInv'
  BY <1>1, <1>5, <1>8, <1>10 DEF ShownInv, Settled
<1> QED BY <1>9, <1>11

-----------------------------------------------------------------------------
(* A change of one flight *)

\* the rows of all other flights are as before
RowsKept(id) ==
  /\ DOMAIN rows' \ {id} = DOMAIN rows \ {id}
  /\ \A i \in DOMAIN rows : i # id => rows'[i] = rows[i]

\* the table stays right when one flight is touched
LEMMA TouchedIs ==
  ASSUME TableInv, NEW id, OnlyAt(table, table', id), types' = types, RowsKept(id),
         \A i \in Ids : i # id /\ i \notin stale' => i \notin stale,
         \A f \in Rows(table'.list) : f.id = id =>
           /\ id \in DOMAIN rows' /\ rows'[id] = f
           /\ id \notin stale' => TowRight(Rows(table'.tows), f, types')
  PROVE  TableInv'
<1> DEFINE L == Rows(table.list)
           M == Rows(table'.list)
           T == Rows(table.tows)
           U == Rows(table'.tows)
<1>1. /\ Good(table') /\ LabelsRight(table', enabled')
      /\ Without(M, id) = Without(L, id) /\ Without(U, id) = Without(T, id)
  BY DEF OnlyAt
<1>2. ASSUME NEW f \in M PROVE f.id \in DOMAIN rows' /\ rows'[f.id] = f
  <2>1. CASE f.id = id
    BY <2>1
  <2>2. CASE f.id # id
    <3>1. f \in L
      BY <2>2, <1>1 DEF Without
    <3>2. f.id \in DOMAIN rows /\ rows[f.id] = f
      BY <3>1 DEF TableInv
    <3> QED BY <2>2, <3>2 DEF RowsKept
  <2> QED BY <2>1, <2>2
<1>3. ASSUME NEW f \in M, f.id \notin stale' PROVE TowRight(U, f, types')
  <2>1. CASE f.id = id
    BY <1>3, <2>1
  <2>2. CASE f.id # id
    <3>1. f \in L
      BY <2>2, <1>1 DEF Without
    <3>2. f.id \in Ids
      <4>1. L \subseteq Flight
        BY RowsAreFlights DEF TableInv, Good, Shown
      <4> QED BY <3>1, <4>1 DEF Flight
    <3>3. TowRight(T, f, types)
      BY <1>3, <2>2, <3>1, <3>2 DEF TableInv
    <3>4. MakeTowflight(f).id = f.id
      BY DEF MakeTowflight
    <3> HIDE DEF T, U
    <3> QED BY <1>1, <2>2, <3>3, <3>4 DEF TowRight, Without
  <2> QED BY <2>1, <2>2
<1> QED BY <1>1, <1>2, <1>3 DEF TableInv

\* and so does what is shown of the day
LEMMA ShownTouched ==
  ASSUME RowsInv, RowsInv', ShownInv, NEW id, OnlyAt(table, table', id), RowsKept(id),
         enabled' = enabled, today' = today, cache'.todayDate = cache.todayDate,
         displayDate' = displayDate, showPrepared' = showPrepared, Settled' => Settled,
         \A f \in Rows(table'.list) : f.id = id => f.day \in {displayDate, NoDay},
         id \in DOMAIN rows' /\ OfDay(rows'[id], displayDate, displayDate = today)
           => rows'[id] \in Rows(table'.list)
  PROVE  ShownInv'
<1> DEFINE L == Rows(table.list)
           M == Rows(table'.list)
<1>1. Without(M, id) = Without(L, id)
  BY DEF OnlyAt
<1>2. enabled' /\ cache'.todayDate = today' => (showPrepared' <=> displayDate' = today')
  BY DEF ShownInv
<1>3. ASSUME Settled, NEW f \in M PROVE f.day \in {displayDate', NoDay}
  <2>1. CASE f.id = id
    BY <2>1
  <2>2. CASE f.id # id
    <3>1. f \in L
      BY <2>2, <1>1 DEF Without
    <3> QED BY <1>3, <3>1 DEF ShownInv
  <2> QED BY <2>1, <2>2
<1>4. ASSUME Settled, NEW i \in DOMAIN rows', OfDay(rows'[i], displayDate', displayDate' = today')
      PROVE  rows'[i] \in M
  <2>1. CASE i = id
    BY <2>1, <1>4
  <2>2. CASE i # id
    <3>1. i \in DOMAIN rows /\ rows'[i] = rows[i]
      BY <2>2 DEF RowsKept
    <3>2. rows[i].id = i
      BY <3>1 DEF RowsInv, RowRight
    <3>3. rows[i] \in L
      BY <1>4, <3>1 DEF ShownInv
    <3> QED BY <2>2, <3>1, <3>2, <3>3, <1>1 DEF Without
  <2> QED BY <2>1, <2>2
<1> QED BY <1>2, <1>3, <1>4 DEF ShownInv

-----------------------------------------------------------------------------
LEMMA SameTable ==
  ASSUME TableInv, UNCHANGED <<table, rows, types, enabled, stale>>
  PROVE  TableInv'
BY DEF TableInv

\* refreshAll leaves the lists of the cache right
LEMMA RefreshedCache ==
  ASSUME RowsInv', CacheInv, RefreshCache, UNCHANGED <<rows, today>>
  PROVE  CacheInv'
<1> DEFINE lists == [today |-> OnDate(today),
                     other |-> IF cache.otherDate = NoDay THEN cache.lists.other
                               ELSE OnDate(cache.otherDate),
                     prepared |-> Prepared]
<1>1. cache' = [cache EXCEPT !.todayDate = today, !.lists = lists]
  BY DEF RefreshCache, CacheInv
<1>2. /\ lists["today"] = {i \in DOMAIN rows' : rows'[i].day = today}
      /\ lists["prepared"] = {i \in DOMAIN rows' : rows'[i].day = NoDay}
      /\ cache.otherDate # NoDay =>
           lists["other"] = {i \in DOMAIN rows' : rows'[i].day = cache.otherDate}
  BY DEF OnDate, Prepared, RowsInv, RowRight
<1>3. lists["other"] \subseteq DOMAIN rows'
  BY DEF OnDate, CacheInv, Lists
<1>4. DOMAIN rows' \subseteq Ids /\ today \in Days
  <2>1. lastId' \in Nat /\ lastId' <= MaxFlights /\ MaxFlights \in Nat
    BY SizesAssumption DEF RowsInv
  <2> QED BY <2>1 DEF RowsInv, Ids
<1>5. DOMAIN lists = Lists
  BY DEF Lists
<1>6. \A l \in Lists : lists[l] \subseteq DOMAIN rows'
  BY <1>2, <1>3 DEF Lists
<1>7. lists = [l \in Lists |-> lists[l]]
  BY <1>5
<1> HIDE DEF lists
<1>8. lists \in [Lists -> SUBSET Ids]
  <2>1. \A l \in Lists : lists[l] \in SUBSET Ids
    BY <1>4, <1>6
  <2> QED BY <2>1, <1>7
<1>9. /\ cache' \in [lists : [Lists -> SUBSET Ids], todayDate : Days \cup {NoDay},
                    otherDate : Days \cup {NoDay}]
      /\ cache'.lists = lists /\ cache'.todayDate = today
      /\ cache'.otherDate = cache.otherDate
  BY <1>1, <1>4, <1>8 DEF CacheInv
<1> QED BY <1>2, <1>4, <1>6, <1>9, DayFacts DEF CacheInv

LEMMA ChangedCache ==
  ASSUME CacheInv, NEW id \in Ids, DbChanged(id)
  PROVE  cache'.todayDate = cache.todayDate /\ cache'.otherDate = cache.otherDate
BY DbChangedIs

LEMMA CreateKeeps ==
  ASSUME IInv, Create
  PROVE  IInv'
<1> DEFINE id == lastId'
<1>1. PICK f \in Entered(id) :
        /\ MayEnter(f)
        /\ rows' = [i \in DOMAIN rows \cup {f.id} |-> IF i = f.id THEN f ELSE rows[i]]
        /\ DbChanged(f.id)
        /\ FlightAdded(f)
  BY DEF Create
<1>2. lastId < MaxFlights /\ id = lastId + 1 /\ UNCHANGED <<today, types, enabled>>
  BY DEF Create, Elsewhere
<1>3. /\ lastId \in Nat /\ id \in Ids /\ id \in 1 .. id /\ id \in 0 .. MaxFlights
      /\ DOMAIN rows \subseteq 1 .. id /\ id \notin DOMAIN rows
  <2>1. lastId \in Nat /\ MaxFlights \in Nat /\ DOMAIN rows \subseteq 1 .. lastId
    BY SizesAssumption DEF IInv, RowsInv
  <2> QED BY <2>1, <1>2 DEF Ids
<1> HIDE DEF id
<1>4. RowRight(f, id) /\ f \in Flight /\ f.id = id /\ ~ f.tow
      /\ (IsPrepared(f) <=> f.day = NoDay)
  <2>1. RowRight(f, id)
    BY <1>3, EnteredIsRight DEF IInv, RowsInv
  <2> QED BY <2>1 DEF RowRight
<1>5. DOMAIN rows' = DOMAIN rows \cup {id} /\ rows'[id] = f
      /\ \A i \in DOMAIN rows : i # id => rows'[i] = rows[i]
  BY <1>1, <1>4
<1>6. PutRow(f) /\ RowsKept(id)
  BY <1>4, <1>5 DEF PutRow, RowsKept
<1>7. CacheInv'
  BY <1>1, <1>2, <1>3, <1>4, <1>6, PutCache DEF IInv
<1>8. cache'.todayDate = cache.todayDate /\ cache'.otherDate = cache.otherDate
  BY <1>1, <1>3, <1>4, ChangedCache DEF IInv
<1>9. ASSUME displayDate' \in Days PROVE RowsInv'
  <2>1. \A i \in DOMAIN rows' : RowRight(rows'[i], i)
    BY <1>4, <1>5 DEF IInv, RowsInv
  <2>2. DOMAIN rows' \subseteq 1 .. id
    BY <1>3, <1>5
  <2> QED BY <1>2, <1>3, <1>9, <2>1, <2>2 DEF IInv, RowsInv, id
<1> DEFINE t == IF Interesting(f) THEN AppendFlight(table, f) ELSE table
           date == IF IsPrepared(f) THEN today ELSE f.day
<1>10. \A g \in Rows(table.list) : g.id # id
  BY <1>3 DEF IInv, TableInv
<1>11. /\ Good(t) /\ OnlyAt(table, t, id)
       /\ Interesting(f) => f \in Rows(t.list) /\ TowRight(Rows(t.tows), f, types')
       /\ ~ Interesting(f) => \A g \in Rows(t.list) : g.id # id
  <2>1. Good(table) /\ LabelsRight(table, enabled')
    BY <1>2 DEF IInv, TableInv
  <2>2. CASE Interesting(f)
    <3>1. t = AppendFlight(table, f)
      BY <2>2
    <3>2. /\ OnlyAt(table, AppendFlight(table, f), id) /\ f \in Rows(AppendFlight(table, f).list)
          /\ TowRight(Rows(AppendFlight(table, f).tows), f, types')
      BY <1>4, <1>10, <2>1, AppendIs
    <3> QED BY <2>2, <3>1, <3>2 DEF OnlyAt
  <2>3. CASE ~ Interesting(f)
    <3>1. t = table
      BY <2>3
    <3> QED BY <2>1, <2>3, <3>1, <1>10 DEF OnlyAt
  <2> QED BY <2>2, <2>3
<1>12. \/ /\ UNCHANGED <<displayDate, showPrepared, fetch, stale>>
          /\ table' = t
       \/ date # displayDate /\ SetDisplayDate(t, date)
  BY <1>1 DEF FlightAdded
<1>13. date \in Days
  <2>1. f.day \in Days \cup {NoDay}
    BY <1>4 DEF Flight
  <2> QED BY <1>4, <2>1 DEF IInv, RowsInv
<1> HIDE DEF t
<1>14. ASSUME table' = t, UNCHANGED <<displayDate, showPrepared, stale>>, Settled' => Settled
       PROVE  RowsInv' /\ TableInv' /\ ShownInv'
  <2>1. RowsInv'
    BY <1>9, <1>14 DEF IInv, RowsInv
  <2>2. \A g \in Rows(table'.list) : g.id = id => Interesting(f) /\ g = f
    <3>1. DistinctIds(t.list) /\ t.list \in Seq(Flight)
      BY <1>11 DEF Good, Shown
    <3> QED BY <1>4, <1>11, <1>14, <3>1, SameId
  <2>3. TableInv'
    <3>1. OnlyAt(table, table', id)
      BY <1>11, <1>14
    <3>2. \A g \in Rows(table'.list) : g.id = id =>
           /\ id \in DOMAIN rows' /\ rows'[id] = g
           /\ id \notin stale' => TowRight(Rows(table'.tows), g, types')
      BY <1>5, <1>11, <1>14, <2>2
    <3> QED BY <3>1, <3>2, <1>2, <1>6, <1>14, TouchedIs DEF IInv
  <2>4. ShownInv'
    <3>1. OnlyAt(table, table', id)
      BY <1>11, <1>14
    <3>2. \A g \in Rows(table'.list) : g.id = id => g.day \in {displayDate, NoDay}
      BY <1>4, <2>2 DEF Interesting
    <3>3. id \in DOMAIN rows' /\ OfDay(rows'[id], displayDate, displayDate = today)
             => rows'[id] \in Rows(table'.list)
      BY <1>4, <1>5, <1>11, <1>14 DEF OfDay, Interesting
    <3> QED BY <3>1, <3>2, <3>3, <2>1, <1>2, <1>6, <1>8, <1>14, ShownTouched DEF IInv
  <2> QED BY <2>1, <2>3, <2>4
<1>15. CASE /\ UNCHANGED <<displayDate, showPrepared, fetch, stale>>
            /\ table' = t
  <2>1. Settled' => Settled
    BY <1>2, <1>8, <1>15 DEF Settled, Fetching
  <2>2. RowsInv' /\ TableInv' /\ ShownInv'
    BY <1>14, <1>15, <2>1
  <2>3. FetchInv'
    BY <1>8, <1>15 DEF IInv, FetchInv
  <2> QED BY <2>2, <2>3, <1>7 DEF IInv
<1>16. CASE SetDisplayDate(t, date) /\ (date = today \/ date = cache'.otherDate)
  <2>1. displayDate' = date /\ RefreshFlights(t) /\ UNCHANGED fetch
    BY <1>16 DEF SetDisplayDate
  <2>2. RowsInv'
    BY <2>1, <1>9, <1>13
  <2>3. TableInv' /\ ShownInv'
    BY <2>1, <2>2, <1>7, <1>11, RefreshIs DEF Good
  <2>4. FetchInv'
    BY <1>8, <2>1 DEF IInv, FetchInv
  <2> QED BY <2>2, <2>3, <2>4, <1>7 DEF IInv
<1>17. CASE SetDisplayDate(t, date) /\ ~ (date = today \/ date = cache'.otherDate)
  <2>1. /\ fetch' = [date |-> date, stage |-> "waiting"]
        /\ UNCHANGED <<displayDate, showPrepared, stale>> /\ table' = t
    BY <1>17 DEF SetDisplayDate
  <2>2. Settled' => Settled
    BY <1>2, <1>8, <2>1 DEF Settled, Fetching
  <2>3. RowsInv' /\ TableInv' /\ ShownInv'
    BY <1>14, <2>1, <2>2
  <2>4. FetchInv'
    BY <1>13, <2>1 DEF FetchInv
  <2> QED BY <2>3, <2>4, <1>7 DEF IInv
<1> QED BY <1>12, <1>15, <1>16, <1>17

LEMMA ChangeKeeps ==
  ASSUME IInv, NEW id \in Ids, Change(id)
  PROVE  IInv'
<1>1. PICK f \in Entered(id) :
        /\ rows' = [rows EXCEPT ![id] = f]
        /\ DbChanged(id)
        /\ FlightChanged(f)
  BY DEF Change
<1>2. id \in DOMAIN rows /\ UNCHANGED <<today, types, enabled, lastId>>
  BY DEF Change, Elsewhere
<1>3. RowRight(f, id) /\ f \in Flight /\ f.id = id /\ ~ f.tow
      /\ (IsPrepared(f) <=> f.day = NoDay)
  <2>1. RowRight(f, id)
    BY EnteredIsRight DEF IInv, RowsInv
  <2> QED BY <2>1 DEF RowRight
<1>4. DOMAIN rows' = DOMAIN rows /\ rows'[id] = f
      /\ \A i \in DOMAIN rows : i # id => rows'[i] = rows[i]
  BY <1>1, <1>2
<1>5. PutRow(f) /\ RowsKept(id)
  BY <1>2, <1>3, <1>4 DEF PutRow, RowsKept
<1>6. CacheInv'
  BY <1>1, <1>2, <1>3, <1>5, PutCache DEF IInv
<1>7. cache'.todayDate = cache.todayDate /\ cache'.otherDate = cache.otherDate
  BY <1>1, ChangedCache DEF IInv
<1> DEFINE t == IF Interesting(f) THEN ReplaceOrAdd(table, f) ELSE RemoveById(table, id)
<1>8. /\ UNCHANGED <<displayDate, showPrepared, fetch>> /\ table' = t
      /\ stale' = IF InCache(id, cache') THEN stale \ {id} ELSE stale \cup {id}
  BY <1>1, <1>3 DEF FlightChanged
<1>9. RowsInv'
  <2>1. \A i \in DOMAIN rows' : RowRight(rows'[i], i)
    BY <1>3, <1>4 DEF IInv, RowsInv
  <2> QED BY <1>2, <1>4, <1>8, <2>1 DEF IInv, RowsInv
<1>10. /\ OnlyAt(table, t, id)
       /\ Interesting(f) => f \in Rows(t.list)
            /\ (InCache(id, cache') => TowRight(Rows(t.tows), f, types'))
       /\ ~ Interesting(f) => \A g \in Rows(t.list) : g.id # id
  <2>1. Good(table) /\ LabelsRight(table, enabled')
    BY <1>2 DEF IInv, TableInv
  <2>2. CASE Interesting(f)
    <3>1. t = ReplaceOrAdd(table, f)
      BY <2>2
    <3>2. /\ OnlyAt(table, ReplaceOrAdd(table, f), id) /\ f \in Rows(ReplaceOrAdd(table, f).list)
          /\ InCache(id, cache') => TowRight(Rows(ReplaceOrAdd(table, f).tows), f, types')
      BY <1>3, <1>4, <2>1, ReplaceOrAddIs
    <3> QED BY <2>2, <3>1, <3>2
  <2>3. CASE ~ Interesting(f)
    <3>1. t = RemoveById(table, id)
      BY <2>3
    <3>2. OnlyAt(table, RemoveById(table, id), id)
          /\ \A g \in Rows(RemoveById(table, id).list) : g.id # id
      BY <2>1, RemoveByIdIs
    <3> QED BY <2>3, <3>1, <3>2
  <2> QED BY <2>2, <2>3
<1> HIDE DEF t
<1>11. OnlyAt(table, table', id)
  BY <1>8, <1>10
<1>12. \A g \in Rows(table'.list) : g.id = id => Interesting(f) /\ g = f
  <2>1. DistinctIds(t.list) /\ t.list \in Seq(Flight)
    BY <1>10 DEF OnlyAt, Good, Shown
  <2> QED BY <1>3, <1>8, <1>10, <2>1, SameId
<1>13. TableInv'
  <2>1. \A g \in Rows(table'.list) : g.id = id =>
           /\ id \in DOMAIN rows' /\ rows'[id] = g
           /\ id \notin stale' => TowRight(Rows(table'.tows), g, types')
    BY <1>2, <1>4, <1>8, <1>10, <1>12
  <2>2. \A i \in Ids : i # id /\ i \notin stale' => i \notin stale
    BY <1>8
  <2> QED BY <2>1, <2>2, <1>2, <1>5, <1>11, TouchedIs DEF IInv
<1>14. Settled' => Settled
  BY <1>2, <1>7, <1>8 DEF Settled, Fetching
<1>15. ShownInv'
  <2>1. \A g \in Rows(table'.list) : g.id = id => g.day \in {displayDate, NoDay}
    BY <1>3, <1>12 DEF Interesting
  <2>2. id \in DOMAIN rows' /\ OfDay(rows'[id], displayDate, displayDate = today)
             => rows'[id] \in Rows(table'.list)
    BY <1>3, <1>4, <1>8, <1>10 DEF OfDay, Interesting
  <2> QED BY <2>1, <2>2, <1>2, <1>5, <1>7, <1>8, <1>9, <1>11, <1>14, ShownTouched DEF IInv
<1>16. FetchInv'
  BY <1>7, <1>8 DEF IInv, FetchInv
<1> QED BY <1>6, <1>9, <1>13, <1>15, <1>16 DEF IInv

LEMMA DeleteKeeps ==
  ASSUME IInv, NEW id \in Ids, Delete(id)
  PROVE  IInv'
<1>1. /\ DbChanged(id) /\ table' = RemoveById(table, id) /\ stale' = stale \ {id}
      /\ UNCHANGED <<today, types, enabled, lastId, displayDate, showPrepared, fetch>>
      /\ rows' = [i \in DOMAIN rows \ {id} |-> rows[i]]
  BY DEF Delete, FlightDeleted, Elsewhere
<1>2. /\ DOMAIN rows' = DOMAIN rows \ {id} /\ \A i \in DOMAIN rows' : rows'[i] = rows[i]
      /\ RowsKept(id)
  BY <1>1 DEF RowsKept
<1>3. CacheInv'
  BY <1>1, <1>2, DropCache DEF IInv
<1>4. cache'.todayDate = cache.todayDate /\ cache'.otherDate = cache.otherDate
  BY <1>1, ChangedCache DEF IInv
<1>5. RowsInv'
  BY <1>1, <1>2 DEF IInv, RowsInv
<1>6. OnlyAt(table, table', id) /\ \A g \in Rows(table'.list) : g.id # id
  BY <1>1, RemoveByIdIs DEF IInv, TableInv
<1>7. TableInv'
  <2>1. \A i \in Ids : i # id /\ i \notin stale' => i \notin stale
    BY <1>1
  <2> QED BY <2>1, <1>1, <1>2, <1>6, TouchedIs DEF IInv
<1>8. Settled' => Settled
  BY <1>1, <1>4 DEF Settled, Fetching
<1>9. ShownInv'
  BY <1>1, <1>2, <1>4, <1>5, <1>6, <1>8, ShownTouched DEF IInv
<1>10. FetchInv'
  BY <1>1, <1>4 DEF IInv, FetchInv
<1> QED BY <1>3, <1>5, <1>7, <1>9, <1>10 DEF IInv

LEMMA ChangeMethodKeeps ==
  ASSUME IInv, NEW m \in Methods, ChangeMethod(m)
  PROVE  IInv'
<1>1. /\ types' = [types EXCEPT ![m] = IF @ = "winch" THEN "airtow" ELSE "winch"]
      /\ stale' = stale \cup {table.list[n].id : n \in
                {n \in DOMAIN table.list : table.list[n].kind.method = m}}
      /\ UNCHANGED <<today, rows, lastId, cache, enabled, displayDate, showPrepared,
                 fetch, table>>
  BY DEF ChangeMethod
<1>2. types' \in Types /\ \A k \in Methods : k # m => types'[k] = types[k]
  BY <1>1 DEF IInv, RowsInv, Types
<1>3. RowsInv' /\ FetchInv' /\ CacheInv' /\ ShownInv'
  <2>1. RowsInv'
    BY <1>1, <1>2 DEF IInv, RowsInv
  <2>2. FetchInv'
    BY <1>1 DEF IInv, FetchInv
  <2>3. CacheInv'
    BY <1>1 DEF IInv, CacheInv
  <2>4. ShownInv'
    BY <1>1 DEF IInv, ShownInv, Settled, Fetching
  <2> QED BY <2>1, <2>2, <2>3, <2>4
<1>4. table.list \in Seq(Flight)
  BY DEF IInv, TableInv, Good, Shown
<1>5. ASSUME NEW f \in Rows(table.list), f.id \notin stale'
      PROVE  TowRight(Rows(table.tows), f, types')
  <2>1. PICK n \in 1 .. Len(table.list) : f = table.list[n]
    BY DEF Rows
  <2>2. n \in DOMAIN table.list
    BY <1>4, <2>1
  <2>3. f.id \notin stale /\ f.kind.method # m
    BY <1>1, <1>5, <2>1, <2>2
  <2>4. f \in Flight /\ f.kind \in Kinds
    <3>1. f \in Flight
      BY <1>4, RowsAreFlights
    <3> QED BY <3>1 DEF Flight
  <2>5. f.kind.method # InvalidId => f.kind.method \in Methods
    BY <2>4 DEF Methods
  <2>6. IsAirtow(f, types') <=> IsAirtow(f, types)
    BY <1>2, <2>3, <2>5 DEF IsAirtow
  <2>7. TowRight(Rows(table.tows), f, types)
    BY <2>3 DEF IInv, TableInv
  <2> QED BY <2>6, <2>7 DEF TowRight
<1>6. TableInv'
  BY <1>1, <1>5 DEF IInv, TableInv
<1> QED BY <1>3, <1>6 DEF IInv

-----------------------------------------------------------------------------
(* The steps *)

LEMMA SameCache ==
  ASSUME CacheInv, UNCHANGED <<cache, rows, today, enabled>>
  PROVE  CacheInv'
BY DEF CacheInv

LEMMA RefreshKeeps ==
  ASSUME IInv, RowsInv', CacheInv', FetchInv', RefreshFlights(table)
  PROVE  IInv'
BY RefreshIs DEF IInv, TableInv, Good

LEMMA SelectDateKeeps ==
  ASSUME IInv, NEW date \in Days, SelectDate(date)
  PROVE  IInv'
<1>1. /\ UNCHANGED <<cache, rows, lastId, today, types, enabled>>
      /\ SetDisplayDate(table, date)
  BY DEF SelectDate, Stored, Elsewhere
<1>2. CacheInv'
  BY <1>1, SameCache DEF IInv
<1>3. CASE date = today \/ date = cache'.otherDate
  <2>1. displayDate' = date /\ RefreshFlights(table) /\ UNCHANGED fetch
    BY <1>1, <1>3 DEF SetDisplayDate
  <2>2. RowsInv'
    BY <1>1, <2>1 DEF IInv, RowsInv
  <2>3. FetchInv'
    BY <1>1, <2>1 DEF IInv, FetchInv
  <2> QED BY <1>2, <2>1, <2>2, <2>3, RefreshKeeps
<1>4. CASE ~ (date = today \/ date = cache'.otherDate)
  <2>1. /\ fetch' = [date |-> date, stage |-> "waiting"]
        /\ UNCHANGED <<displayDate, showPrepared, stale, table>>
    BY <1>1, <1>4 DEF SetDisplayDate
  <2>2. RowsInv'
    BY <1>1, <2>1 DEF IInv, RowsInv
  <2>3. FetchInv'
    BY <2>1 DEF FetchInv
  <2>4. TableInv'
    BY <1>1, <2>1, SameTable DEF IInv
  <2>5. ShownInv'
    BY <1>1, <2>1 DEF IInv, ShownInv, Settled, Fetching
  <2> QED BY <1>2, <2>2, <2>3, <2>4, <2>5 DEF IInv
<1> QED BY <1>3, <1>4

LEMMA FetchKeeps ==
  ASSUME IInv, Fetch
  PROVE  IInv'
<1>1. /\ fetch.stage = "waiting" /\ fetch' = [fetch EXCEPT !.stage = "fetched"]
      /\ cache' = [cache EXCEPT !.otherDate = fetch.date,
                                !.lists.other = OnDate(fetch.date)]
      /\ UNCHANGED <<rows, lastId, today, types, enabled>>
      /\ UNCHANGED <<displayDate, showPrepared, table, stale>>
  BY DEF Fetch, FetchFlightsOther, Stored, Elsewhere
<1>2. fetch.date \in Days
  BY <1>1 DEF IInv, FetchInv
<1>3. RowsInv'
  BY <1>1 DEF IInv, RowsInv
<1> DEFINE other == OnDate(fetch.date)
<1>4. other = {i \in DOMAIN rows' : rows'[i].day = fetch.date}
  BY DEF OnDate
<1> HIDE DEF other
<1>5. DOMAIN rows' \subseteq Ids
  <2>1. lastId' \in Nat /\ lastId' <= MaxFlights /\ MaxFlights \in Nat
    BY <1>3, SizesAssumption DEF RowsInv
  <2> QED BY <2>1, <1>3 DEF RowsInv, Ids
<1>6. /\ cache' \in [lists : [Lists -> SUBSET Ids], todayDate : Days \cup {NoDay},
                    otherDate : Days \cup {NoDay}]
      /\ cache'.todayDate = cache.todayDate /\ cache'.otherDate = fetch.date
      /\ cache'.lists = [cache.lists EXCEPT !["other"] = other]
  BY <1>1, <1>2, <1>4, <1>5 DEF IInv, CacheInv, Lists, other
<1>7. /\ cache'.lists["other"] = other
      /\ cache'.lists["today"] = cache.lists["today"]
      /\ cache'.lists["prepared"] = cache.lists["prepared"]
  BY <1>6 DEF IInv, CacheInv, Lists
<1>8. CacheInv'
  <2>1. \A l \in Lists : cache'.lists[l] \subseteq DOMAIN rows'
    BY <1>1, <1>4, <1>7 DEF IInv, CacheInv, Lists
  <2> QED BY <2>1, <1>1, <1>4, <1>6, <1>7 DEF IInv, CacheInv
<1>9. FetchInv'
  BY <1>1, <1>2, <1>6 DEF IInv, FetchInv
<1>10. TableInv'
  BY <1>1, SameTable DEF IInv
<1>11. fetch'.stage # "none"
  BY <1>1 DEF IInv, FetchInv
<1>12. ShownInv'
  BY <1>1, <1>6, <1>11 DEF IInv, ShownInv, Settled, Fetching
<1> QED BY <1>3, <1>8, <1>9, <1>10, <1>12 DEF IInv

LEMMA CancelKeeps ==
  ASSUME IInv, Cancel
  PROVE  IInv'
<1>1. /\ fetch.stage = "waiting" /\ fetch' = [fetch EXCEPT !.stage = "canceled"]
      /\ UNCHANGED <<cache, displayDate, showPrepared, table, stale>>
      /\ UNCHANGED <<rows, lastId, today, types, enabled>>
  BY DEF Cancel, Stored, Elsewhere
<1>2. fetch' \in [date : Days \cup {NoDay},
                  stage : {"none", "waiting", "fetched", "canceled"}]
      /\ fetch'.stage = "canceled"
  BY <1>1 DEF IInv, FetchInv
<1>3. FetchInv'
  BY <1>2 DEF FetchInv
<1>4. RowsInv'
  BY <1>1 DEF IInv, RowsInv
<1>5. CacheInv'
  BY <1>1, SameCache DEF IInv
<1>6. TableInv'
  BY <1>1, SameTable DEF IInv
<1>7. ShownInv'
  BY <1>1, <1>2 DEF IInv, ShownInv, Settled, Fetching
<1> QED BY <1>3, <1>4, <1>5, <1>6, <1>7 DEF IInv

LEMMA FetchedKeeps ==
  ASSUME IInv, Fetched
  PROVE  IInv'
<1>1. /\ fetch' = NoFetch /\ RefreshFlights(table)
      /\ displayDate' = IF fetch.stage = "fetched" THEN cache.otherDate ELSE displayDate
      /\ UNCHANGED <<cache, rows, lastId, today, types, enabled>>
  BY DEF Fetched, Stored, Elsewhere
<1>2. RowsInv'
  BY <1>1 DEF IInv, RowsInv, FetchInv
<1>3. FetchInv'
  BY <1>1 DEF NoFetch, FetchInv
<1>4. CacheInv'
  BY <1>1, SameCache DEF IInv
<1> QED BY <1>1, <1>2, <1>3, <1>4, RefreshKeeps

LEMMA RefreshAllKeeps ==
  ASSUME IInv, RefreshAll
  PROVE  IInv'
<1>1. /\ UNCHANGED <<displayDate, fetch, rows, lastId, today, types, enabled>>
      /\ RefreshCache /\ RefreshFlights(table)
  BY DEF RefreshAll, Stored, Elsewhere
<1>2. RowsInv'
  BY <1>1 DEF IInv, RowsInv
<1>3. CacheInv'
  BY <1>1, <1>2, RefreshedCache DEF IInv
<1>4. cache'.otherDate = cache.otherDate
  BY <1>1 DEF RefreshCache, IInv, CacheInv
<1>5. FetchInv'
  BY <1>1, <1>4 DEF IInv, FetchInv
<1> QED BY <1>1, <1>2, <1>3, <1>5, RefreshKeeps

LEMMA RefreshTableKeeps ==
  ASSUME IInv, RefreshTable
  PROVE  IInv'
<1>1. /\ UNCHANGED <<cache, displayDate, fetch, rows, lastId, today, types, enabled>>
      /\ RefreshFlights(table)
  BY DEF RefreshTable, Stored, Elsewhere
<1>2. RowsInv'
  BY <1>1 DEF IInv, RowsInv
<1>3. CacheInv'
  BY <1>1, SameCache DEF IInv
<1>4. FetchInv'
  BY <1>1 DEF IInv, FetchInv
<1> QED BY <1>1, <1>2, <1>3, <1>4, RefreshKeeps

LEMMA DisconnectKeeps ==
  ASSUME IInv, Disconnect
  PROVE  IInv'
<1>1. /\ fetch.stage = "none" /\ enabled' = FALSE /\ RefreshFlights(table)
      /\ cache' = [lists |-> NoLists, todayDate |-> NoDay, otherDate |-> NoDay]
      /\ UNCHANGED <<today, types, displayDate, fetch, rows, lastId>>
  BY DEF Disconnect, Fetching, Clear, Stored
<1>2. RowsInv'
  BY <1>1 DEF IInv, RowsInv
<1>3. CacheInv'
  <2>1. today \in Nat
    BY DayFacts DEF IInv, RowsInv
  <2> QED BY <1>1, <2>1 DEF NoLists, CacheInv, NoDay
<1>4. FetchInv'
  BY <1>1 DEF IInv, FetchInv
<1> QED BY <1>1, <1>2, <1>3, <1>4, RefreshKeeps

LEMMA ConnectKeeps ==
  ASSUME IInv, Connect
  PROVE  IInv'
<1>1. /\ displayDate' = today /\ RefreshCache /\ RefreshFlights(table)
      /\ UNCHANGED <<fetch, rows, lastId, today, types>>
  BY DEF Connect, Stored
<1>2. RowsInv'
  BY <1>1 DEF IInv, RowsInv
<1>3. CacheInv'
  BY <1>1, <1>2, RefreshedCache DEF IInv
<1>4. cache'.otherDate = cache.otherDate
  BY <1>1 DEF RefreshCache, IInv, CacheInv
<1>5. FetchInv'
  BY <1>1, <1>4 DEF IInv, FetchInv
<1> QED BY <1>1, <1>2, <1>3, <1>5, RefreshKeeps

LEMMA MidnightKeeps ==
  ASSUME IInv, Midnight
  PROVE  IInv'
<1>1. /\ today < LastDay /\ today' = today + 1
      /\ UNCHANGED <<types, enabled, cache, displayDate, showPrepared, fetch, table,
                     stale, rows, lastId>>
  BY DEF Midnight, Stored
<1>2. today \in Nat /\ today' \in Days /\ cache.todayDate \in Nat
      /\ cache.todayDate <= today
  <2>1. today \in Days /\ cache.todayDate \in Days \cup {NoDay} /\ cache.todayDate <= today
    BY DEF IInv, RowsInv, CacheInv
  <2> QED BY <1>1, <2>1, SizesAssumption DEF Days, NoDay
<1>3. cache.todayDate # today' /\ cache.todayDate <= today'
  BY <1>1, <1>2
<1>4. RowsInv'
  BY <1>1, <1>2 DEF IInv, RowsInv
<1>5. CacheInv'
  BY <1>1, <1>3 DEF IInv, CacheInv
<1>6. FetchInv'
  BY <1>1 DEF IInv, FetchInv
<1>7. TableInv'
  BY <1>1, SameTable DEF IInv
<1>8. ShownInv'
  BY <1>1, <1>3 DEF ShownInv, Settled
<1> QED BY <1>4, <1>5, <1>6, <1>7, <1>8 DEF IInv

-----------------------------------------------------------------------------
LEMMA IInvInit ==
  ASSUME Init PROVE IInv
<1>1. 1 \in Days /\ MaxFlights \in Nat
  BY SizesAssumption DEF Days
<1>2. table.list = <<>> /\ table.tows = <<>> /\ Rows(table.list) = {} /\ Rows(table.tows) = {}
  BY DEF Init, Rows
<1>3. RowsInv
  BY <1>1 DEF Init, RowsInv
<1>4. FetchInv
  BY DEF Init, FetchInv, NoFetch
<1>5. CacheInv
  BY DEF Init, CacheInv, NoLists, NoDay
<1>6. Good(table)
  BY <1>2 DEF Init, Good, Shown, TableShape, DistinctIds
<1>7. TableInv
  BY <1>2, <1>6 DEF Init, TableInv, LabelsRight
<1>8. ShownInv
  BY DEF Init, ShownInv, Settled
<1> QED BY <1>3, <1>4, <1>5, <1>7, <1>8 DEF IInv

LEMMA IInvNext ==
  ASSUME IInv, [Next]_vars PROVE IInv'
<1>1. CASE UNCHANGED vars
  <2>1. UNCHANGED <<today, rows, lastId, types, cache, enabled, displayDate, showPrepared,
          fetch, table, stale>>
    BY <1>1 DEF vars
  <2>2. RowsInv' /\ FetchInv'
    BY <2>1 DEF IInv, RowsInv, FetchInv
  <2>3. CacheInv' /\ TableInv'
    BY <2>1, SameCache, SameTable DEF IInv
  <2>4. ShownInv'
    BY <2>1 DEF IInv, ShownInv, Settled, Fetching
  <2> QED BY <2>2, <2>3, <2>4 DEF IInv
<1>2. CASE Next
  BY <1>2, CreateKeeps, ChangeKeeps, DeleteKeeps, ChangeMethodKeeps, SelectDateKeeps,
     FetchKeeps, CancelKeeps, FetchedKeeps, RefreshAllKeeps, RefreshTableKeeps,
     DisconnectKeeps, ConnectKeeps, MidnightKeeps
     DEF Next
<1> QED BY <1>1, <1>2

-----------------------------------------------------------------------------
(* The theorems *)

(* The inductive invariant holds always. *)
THEOREM Invariant == Spec => []IInv
<1>1. Init => IInv
  BY IInvInit
<1>2. IInv /\ [Next]_vars => IInv'
  BY IInvNext
<1> QED BY <1>1, <1>2, PTL DEF Spec

\* each airtow has one towflight, the others have none
LEMMA TowflightsShown ==
  ASSUME IInv, NEW n \in DOMAIN table.list, table.list[n].id \notin stale
  PROVE  LET f == table.list[n]
         IN  IF IsAirtow(f, types)
             THEN \E m \in DOMAIN table.tows :
                    /\ TowflightsOf(f.id) = {m}
                    /\ table.tows[m] = MakeTowflight(f)
             ELSE TowflightsOf(f.id) = {}
<1> DEFINE f == table.list[n]
           s == table.tows
           e == MakeTowflight(f)
<1>1. table.list \in Seq(Flight) /\ s \in Seq(Flight) /\ DistinctIds(s)
  BY DEF IInv, TableInv, Good, Shown
<1>2. f \in Flight /\ f \in Rows(table.list)
  <2>1. n \in 1 .. Len(table.list)
    BY <1>1
  <2> QED BY <1>1, <2>1, RowsAreFlights
<1>3. TowRight(Rows(s), f, types)
  BY <1>2 DEF IInv, TableInv
<1>4. DOMAIN s = 1 .. Len(s)
  BY <1>1
<1>5. e.id = f.id
  BY <1>2, TowflightIsFlight
<1>6. TowflightsOf(f.id) = {m \in 1 .. Len(s) : s[m].id = f.id}
  BY <1>4 DEF TowflightsOf
<1> HIDE DEF f, s, e
<1>7. CASE IsAirtow(f, types)
  <2>1. e \in Rows(s)
    BY <1>3, <1>7 DEF TowRight, e
  <2>2. PICK m \in 1 .. Len(s) : s[m] = e
    BY <2>1 DEF Rows
  <2>3. TowflightsOf(f.id) = {m}
    BY <1>1, <1>5, <1>6, <2>2 DEF DistinctIds
  <2> QED BY <1>4, <1>7, <2>2, <2>3 DEF f, s, e
<1>8. CASE ~ IsAirtow(f, types)
  <2>1. \A m \in 1 .. Len(s) : s[m].id # f.id
    BY <1>3, <1>8 DEF TowRight, Rows
  <2>2. TowflightsOf(f.id) = {}
    BY <1>6, <2>1
  <2> QED BY <1>8, <2>2 DEF f
<1> QED BY <1>7, <1>8

(* ViewShowsTheList, for any flights, kinds and days: the view, which only *)
(* hears of rows inserted, removed, changed and reset, has the flights of  *)
(* the list and then their towflights, the labels count the list, and each *)
(* airtow has exactly one towflight, made of it as it is now.              *)
THEOREM ViewFollowsList == Spec => []ViewShowsTheList
<1>1. IInv => ViewShowsTheList
  <2> SUFFICES ASSUME IInv PROVE ViewShowsTheList
    OBVIOUS
  <2>1. /\ Shown(table) /\ LabelsRight(table, enabled)
        /\ \A g \in Rows(table.tows) : \E f \in Rows(table.list) : f.id = g.id
    BY DEF IInv, TableInv, Good
  <2>2. table.view = ProxyRows(table)
    BY <2>1 DEF Shown, ProxyRows
  <2>3. /\ table.total = IF enabled THEN CountHappened(table.list) ELSE NoNumber
        /\ table.active \in {NoNumber, CountFlying(table.list)}
    BY <2>1 DEF LabelsRight
  <2>4. ASSUME NEW m \in DOMAIN table.tows PROVE IndexOf(table.list, table.tows[m].id) # 0
    <3>1. table.list \in Seq(Flight) /\ table.tows \in Seq(Flight)
      BY <2>1 DEF Shown
    <3>2. table.tows[m] \in Rows(table.tows)
      BY <3>1 DEF Rows
    <3> QED BY <2>1, <3>1, <3>2, IndexOfRows
  <2> QED BY <2>2, <2>3, <2>4, TowflightsShown DEF ViewShowsTheList
<1> QED BY <1>1, Invariant, PTL

(* ShownIsTheDay, for any flights, kinds and days: the flights that the    *)
(* filter accepts are those of the displayed day, today with the prepared  *)
(* ones, also around a fetch that is under way, canceled or overtaken by   *)
(* other changes.                                                          *)
THEOREM ShownFlightsAreTheDays == Spec => []ShownIsTheDay
<1>1. IInv => ShownIsTheDay
  <2> SUFFICES ASSUME IInv, Settled
               PROVE  ShownFlights = {rows[id] : id \in {id \in DOMAIN rows :
                        \/ rows[id].day = displayDate
                        \/ IsPrepared(rows[id]) /\ displayDate = today}}
    BY DEF ShownIsTheDay, Settled
  <2> DEFINE l == table.list
             s == table.tows
             v == table.view
  <2>1. /\ l \in Seq(Flight) /\ s \in Seq(Flight) /\ v = l \o s
        /\ \A g \in Rows(s) : g.tow
    BY DEF IInv, TableInv, Good, Shown
  <2>2. \A f \in Rows(l) : f.id \in DOMAIN rows /\ rows[f.id] = f
    BY DEF IInv, TableInv
  <2>3. \A id \in DOMAIN rows : /\ rows[id].id = id /\ ~ rows[id].tow
                                /\ IsPrepared(rows[id]) <=> rows[id].day = NoDay
    BY DEF IInv, RowsInv, RowRight
  <2>4. /\ showPrepared <=> displayDate = today
        /\ \A f \in Rows(l) : f.day \in {displayDate, NoDay}
        /\ \A id \in DOMAIN rows :
             OfDay(rows[id], displayDate, displayDate = today) => rows[id] \in Rows(l)
    BY DEF IInv, ShownInv, Settled
  <2>5. displayDate # NoDay
    BY DayFacts DEF IInv, RowsInv
  <2> HIDE DEF l, s, v
  <2>6. /\ Len(v) = Len(l) + Len(s) /\ Len(l) \in Nat /\ Len(s) \in Nat
        /\ DOMAIN v = 1 .. Len(v)
        /\ \A i \in 1 .. Len(l) + Len(s) : v[i] = IF i <= Len(l) THEN l[i] ELSE s[i - Len(l)]
    BY <2>1, ConcatIs
  <2> DEFINE Accepted == {f \in Rows(l) : FilterAcceptsRow(f)}
  <2>7. ASSUME NEW n \in DOMAIN v, FilterAcceptsRow(v[n]), ~ v[n].tow
        PROVE  v[n] \in Accepted
    <3>1. n \in 1 .. Len(l) + Len(s)
      BY <2>6
    <3>2. CASE n <= Len(l)
      BY <3>1, <3>2, <2>6, <2>7 DEF Rows
    <3>3. CASE ~ (n <= Len(l))
      <4>1. n - Len(l) \in 1 .. Len(s) /\ v[n] = s[n - Len(l)]
        BY <3>1, <3>3, <2>6
      <4> QED BY <4>1, <2>1, <2>7 DEF Rows
    <3> QED BY <3>2, <3>3
  <2>8. ASSUME NEW f \in Accepted
        PROVE  \E n \in DOMAIN v : f = v[n] /\ FilterAcceptsRow(v[n]) /\ ~ v[n].tow
    <3>1. PICK n \in 1 .. Len(l) : f = l[n]
      BY DEF Rows
    <3>2. n \in DOMAIN v /\ v[n] = f
      BY <3>1, <2>6
    <3>3. FilterAcceptsRow(f) /\ ~ f.tow
      BY <2>2, <2>3
    <3> QED BY <3>2, <3>3
  <2>9. ShownFlights = Accepted
    BY <2>7, <2>8 DEF ShownFlights, v
  <2> DEFINE Wanted == {id \in DOMAIN rows : \/ rows[id].day = displayDate
                                             \/ IsPrepared(rows[id]) /\ displayDate = today}
  <2>10. ASSUME NEW f \in Accepted PROVE f.id \in Wanted /\ rows[f.id] = f
    <3>1. f \in Rows(l) /\ f.id \in DOMAIN rows /\ rows[f.id] = f
          /\ (IsPrepared(f) => showPrepared)
      BY <2>2 DEF FilterAcceptsRow
    <3> QED BY <3>1, <2>3, <2>4
  <2>11. ASSUME NEW id \in Wanted PROVE rows[id] \in Accepted
    <3>1. OfDay(rows[id], displayDate, displayDate = today)
      BY <2>3 DEF OfDay
    <3>2. rows[id] \in Rows(l)
      BY <3>1, <2>4
    <3>3. FilterAcceptsRow(rows[id])
      BY <2>3, <2>4, <2>5 DEF FilterAcceptsRow
    <3> QED BY <3>2, <3>3
  <2> HIDE DEF Accepted, Wanted
  <2>12. Accepted = {rows[id] : id \in Wanted}
    BY <2>10, <2>11
  <2> QED BY <2>9, <2>12 DEF Wanted
<1> QED BY <1>1, Invariant, PTL

-----------------------------------------------------------------------------
(* Sums *)

\* what every induction over finite sets goes by
LEMMA LeastSet ==
  ASSUME NEW D, IsFiniteSet(D), NEW Bad \in SUBSET SUBSET D, Bad # {}
  PROVE  \E S \in Bad : \A x \in S : S \ {x} \notin Bad
<1> DEFINE T == {Cardinality(S) : S \in Bad}
<1>1. \A S \in SUBSET D : IsFiniteSet(S) /\ Cardinality(S) \in Nat
  BY FS_Subset, FS_CardinalityType
<1>2. T \subseteq Nat /\ T # {}
  BY <1>1
<1>3. PICK n \in T : \A m \in T : n <= m
  <2> HIDE DEF T
  <2> QED BY <1>2, LeastNat
<1>4. PICK S \in Bad : Cardinality(S) = n
  OBVIOUS
<1>5. ASSUME NEW x \in S, S \ {x} \in Bad PROVE FALSE
  <2>1. Cardinality(S \ {x}) = n - 1
    BY <1>1, <1>4, FS_RemoveElement
  <2>2. n - 1 \in T /\ n \in Nat
    BY <1>2, <1>5, <2>1
  <2> QED BY <1>3, <2>2
<1> QED BY <1>5

\* two sets without a common element
LEMMA UnionIs ==
  ASSUME NEW A, IsFiniteSet(A), NEW B, IsFiniteSet(B), A \cap B = {}
  PROVE  /\ IsFiniteSet(A \cup B)
         /\ Cardinality(A \cup B) = Cardinality(A) + Cardinality(B)
<1>1. Cardinality(A) \in Nat /\ Cardinality(B) \in Nat
  BY FS_CardinalityType
<1>2. /\ IsFiniteSet(A \cup B)
      /\ Cardinality(A \cup B) = Cardinality(A) + Cardinality(B) - Cardinality(A \cap B)
  BY FS_Union
<1>3. Cardinality(A \cap B) = 0
  BY FS_EmptySet
<1> QED BY <1>1, <1>2, <1>3

\* the sum of w over S counts these
Units(w, S) == {u \in S \X Nat : u[2] < w[u[1]]}

\* one number has as many units
LEMMA UnitsOfOne ==
  ASSUME NEW w, NEW x, w[x] \in Nat
  PROVE  IsFiniteSet(Units(w, {x})) /\ Cardinality(Units(w, {x})) = w[x]
<1> DEFINE K == 0 .. w[x] - 1
           f == [k \in K |-> <<x, k>>]
<1>1. IsFiniteSet(K) /\ Cardinality(K) = w[x]
  <2>1. w[x] - 1 \in Int /\ 0 \in Int
    OBVIOUS
  <2>2. IsFiniteSet(K) /\ Cardinality(K) = IF 0 > w[x] - 1 THEN 0 ELSE (w[x] - 1) - 0 + 1
    BY <2>1, FS_Interval
  <2> QED BY <2>2
<1>2. f \in Bijection(K, Units(w, {x}))
  <2>1. f \in [K -> Units(w, {x})]
    BY DEF Units
  <2>2. IsInjective(f)
    BY DEF IsInjective
  <2>3. ASSUME NEW u \in Units(w, {x}) PROVE \E k \in K : f[k] = u
    <3>1. u[2] \in K /\ u = <<x, u[2]>>
      BY DEF Units
    <3> QED BY <3>1
  <2> QED BY <2>1, <2>2, <2>3 DEF Bijection, Injection, Surjection
<1>3. ExistsBijection(K, Units(w, {x}))
  BY <1>2 DEF ExistsBijection
<1> QED BY <1>1, <1>3, FS_Bijection

\* the units of one more index
LEMMA UnitsAdd ==
  ASSUME NEW w, NEW S, NEW x \in S, w[x] \in Nat, IsFiniteSet(Units(w, S \ {x}))
  PROVE  /\ IsFiniteSet(Units(w, S))
         /\ Cardinality(Units(w, S)) = w[x] + Cardinality(Units(w, S \ {x}))
<1>1. Units(w, S) = Units(w, {x}) \cup Units(w, S \ {x})
  BY DEF Units
<1>2. Units(w, {x}) \cap Units(w, S \ {x}) = {}
  BY DEF Units
<1>3. IsFiniteSet(Units(w, {x})) /\ Cardinality(Units(w, {x})) = w[x]
  BY UnitsOfOne
<1> QED BY <1>1, <1>2, <1>3, UnionIs

\* there are finitely many
LEMMA UnitsFinite ==
  ASSUME NEW D, IsFiniteSet(D), NEW w, \A x \in D : w[x] \in Nat
  PROVE  \A S \in SUBSET D : IsFiniteSet(Units(w, S)) /\ Cardinality(Units(w, S)) \in Nat
<1> DEFINE Bad == {S \in SUBSET D : ~ IsFiniteSet(Units(w, S))}
<1>1. Bad = {}
  <2> SUFFICES ASSUME Bad # {} PROVE FALSE
    OBVIOUS
  <2>1. PICK S \in Bad : \A x \in S : S \ {x} \notin Bad
    <3>1. Bad \in SUBSET SUBSET D
      OBVIOUS
    <3> HIDE DEF Bad
    <3> QED BY <3>1, LeastSet
  <2>2. CASE S = {}
    <3>1. Units(w, S) = {}
      BY <2>2 DEF Units
    <3> QED BY <3>1, FS_EmptySet
  <2>3. CASE S # {}
    <3>1. PICK x \in S : TRUE
      BY <2>3
    <3>2. IsFiniteSet(Units(w, S \ {x})) /\ w[x] \in Nat
      BY <2>1
    <3> QED BY <3>2, UnitsAdd
  <2> QED BY <2>2, <2>3
<1> QED BY <1>1, FS_CardinalityType

\* what SumFunction computes, for all sets of indices
SumStep(w, D, g) ==
  [s \in SUBSET D |-> IF s = {} THEN 0
                      ELSE LET x == CHOOSE x \in s : TRUE IN w[x] + g[s \ {x}]]

\* SumFunction adds in an order of its own; the sum is the number of units
LEMMA SumIs ==
  ASSUME NEW D, IsFiniteSet(D), NEW w \in [D -> Nat]
  PROVE  SumFunction(w) = Cardinality(Units(w, D)) /\ SumFunction(w) \in Nat
<1> DEFINE it == CHOOSE g : g = SumStep(w, D, g)
           c == [s \in SUBSET D |-> Cardinality(Units(w, s))]
<1>1. SumFunction(w) = it[D]
  <2>1. DOMAIN w = D
    OBVIOUS
  <2>2. SumFunction(w) = (CHOOSE g : g = SumStep(w, DOMAIN w, g))[DOMAIN w]
    BY DEF SumFunction, SumFunctionOnSet, FoldFunctionOnSet, MapThenFoldSet, SumStep
  <2> QED BY <2>1, <2>2
<1>2. \A s \in SUBSET D : IsFiniteSet(Units(w, s)) /\ Cardinality(Units(w, s)) \in Nat
  BY UnitsFinite
<1>3. ASSUME NEW s \in SUBSET D, NEW x \in s
      PROVE  Cardinality(Units(w, s)) = w[x] + Cardinality(Units(w, s \ {x}))
  BY <1>2, UnitsAdd
<1>4. Units(w, {}) = {}
  BY DEF Units
<1>5. c = SumStep(w, D, c)
  <2>1. ASSUME NEW s \in SUBSET D, s = {} PROVE c[s] = 0
    BY <1>4, <2>1, FS_EmptySet
  <2>2. ASSUME NEW s \in SUBSET D, s # {}
        PROVE  LET x == CHOOSE x \in s : TRUE IN c[s] = w[x] + c[s \ {x}]
    <3> DEFINE x == CHOOSE x \in s : TRUE
    <3>1. x \in s
      BY <2>2
    <3> HIDE DEF x
    <3>2. c[s] = w[x] + c[s \ {x}]
      BY <1>3, <3>1
    <3> QED BY <3>2 DEF x
  <2> HIDE DEF c
  <2>3. DOMAIN c = SUBSET D /\ c = [s \in SUBSET D |-> c[s]]
    BY DEF c
  <2> QED BY <2>1, <2>2, <2>3 DEF SumStep
<1>6. it = SumStep(w, D, it)
  <2> HIDE DEF c
  <2> QED BY <1>5
<1> HIDE DEF it
<1> DEFINE Bad == {s \in SUBSET D : it[s] # c[s]}
<1>7. Bad = {}
  <2> SUFFICES ASSUME Bad # {} PROVE FALSE
    OBVIOUS
  <2>1. PICK s \in Bad : \A x \in s : s \ {x} \notin Bad
    <3>1. Bad \in SUBSET SUBSET D
      OBVIOUS
    <3> HIDE DEF Bad
    <3> QED BY <3>1, LeastSet
  <2>2. s \in SUBSET D /\ it[s] # c[s]
    OBVIOUS
  <2>3. CASE s = {}
    <3>1. it[s] = 0
      BY <1>6, <2>3 DEF SumStep
    <3>2. c[s] = 0
      BY <1>4, <2>3, FS_EmptySet
    <3> QED BY <2>2, <3>1, <3>2
  <2>4. CASE s # {}
    <3> DEFINE x == CHOOSE x \in s : TRUE
    <3>1. x \in s
      BY <2>4
    <3>2. it[s] = w[x] + it[s \ {x}]
      BY <1>6, <2>2, <2>4 DEF SumStep
    <3> HIDE DEF x
    <3>3. it[s \ {x}] = c[s \ {x}]
      BY <2>1, <2>2, <3>1
    <3>4. c[s] = w[x] + c[s \ {x}]
      BY <1>3, <2>2, <3>1
    <3> QED BY <2>2, <3>2, <3>3, <3>4
  <2> QED BY <2>3, <2>4
<1>8. it[D] = c[D]
  <2>1. D \in SUBSET D
    OBVIOUS
  <2> HIDE DEF c
  <2> QED BY <1>7, <2>1
<1> QED BY <1>1, <1>2, <1>8

\* a number at the end of a sequence
LEMMA SumAppend ==
  ASSUME NEW a \in Seq(Nat), NEW x \in Nat
  PROVE  SumFunction(Append(a, x)) = SumFunction(a) + x
<1> DEFINE n == Len(a)
           b == Append(a, x)
<1>1. /\ n \in Nat /\ a \in [1 .. n -> Nat]
      /\ b \in [1 .. n + 1 -> Nat] /\ b[n + 1] = x /\ \A i \in 1 .. n : b[i] = a[i]
  <2>1. n \in Nat /\ a \in [1 .. n -> Nat]
    OBVIOUS
  <2>2. b \in Seq(Nat) /\ Len(b) = n + 1 /\ b[n + 1] = x
    OBVIOUS
  <2>3. \A i \in 1 .. n : b[i] = a[i]
    OBVIOUS
  <2>4. b \in [1 .. n + 1 -> Nat]
    <3> HIDE DEF b, n
    <3> QED BY <2>2
  <2> QED BY <2>1, <2>2, <2>3, <2>4
<1> HIDE DEF b, n
<1>2. IsFiniteSet(1 .. n) /\ IsFiniteSet(1 .. n + 1)
  BY <1>1, FS_Interval
<1>3. (1 .. n + 1) \ {n + 1} = 1 .. n /\ n + 1 \in 1 .. n + 1
  BY <1>1
<1>4. Units(b, 1 .. n) = Units(a, 1 .. n)
  <2>1. ASSUME NEW u \in (1 .. n) \X Nat PROVE b[u[1]] = a[u[1]]
    BY <1>1
  <2> QED BY <2>1 DEF Units
<1>5. IsFiniteSet(Units(b, 1 .. n))
  <2>1. \A i \in 1 .. n + 1 : b[i] \in Nat
    BY <1>1
  <2>2. 1 .. n \in SUBSET (1 .. n + 1)
    BY <1>3
  <2> QED BY <2>1, <2>2, <1>2, UnitsFinite
<1>6. Cardinality(Units(b, 1 .. n + 1)) = x + Cardinality(Units(b, 1 .. n))
  BY <1>1, <1>3, <1>5, UnitsAdd
<1>7. /\ SumFunction(a) = Cardinality(Units(a, 1 .. n)) /\ SumFunction(a) \in Nat
      /\ SumFunction(b) = Cardinality(Units(b, 1 .. n + 1))
  BY <1>1, <1>2, SumIs
<1> QED BY <1>4, <1>6, <1>7 DEF b

LEMMA SumEmpty == SumFunction(<<>>) = 0
<1>1. <<>> \in [{} -> Nat] /\ Units(<<>>, {}) = {}
  BY DEF Units
<1> QED BY <1>1, SumIs, FS_EmptySet

\* how many of X the function g sends to each of D, taken together
LEMMA SumOfCounts ==
  ASSUME NEW D, IsFiniteSet(D), NEW X, IsFiniteSet(X), NEW g, NEW w \in [D -> Nat],
         \A p \in D : w[p] = Cardinality({n \in X : g[n] = p})
  PROVE  SumFunction(w) = Cardinality({n \in X : g[n] \in D})
<1> DEFINE To(S) == {n \in X : g[n] \in S}
           Bad == {S \in SUBSET D : Cardinality(Units(w, S)) # Cardinality(To(S))}
<1>1. \A S : IsFiniteSet(To(S)) /\ Cardinality(To(S)) \in Nat
  BY FS_Subset, FS_CardinalityType
<1>2. Bad = {}
  <2> SUFFICES ASSUME Bad # {} PROVE FALSE
    OBVIOUS
  <2>1. PICK S \in Bad : \A x \in S : S \ {x} \notin Bad
    <3>1. Bad \in SUBSET SUBSET D
      OBVIOUS
    <3> HIDE DEF Bad
    <3> QED BY <3>1, LeastSet
  <2>2. S \in SUBSET D /\ Cardinality(Units(w, S)) # Cardinality(To(S))
    OBVIOUS
  <2>3. CASE S = {}
    <3>1. Units(w, S) = {} /\ To(S) = {}
      BY <2>3 DEF Units
    <3> QED BY <2>2, <3>1
  <2>4. CASE S # {}
    <3>1. PICK x \in S : TRUE
      BY <2>4
    <3>2. S \ {x} \in SUBSET D /\ w[x] \in Nat /\ x \in D
      BY <2>2
    <3>3. Cardinality(Units(w, S \ {x})) = Cardinality(To(S \ {x}))
      BY <2>1, <3>2
    <3>4. IsFiniteSet(Units(w, S \ {x}))
      BY <3>2, UnitsFinite
    <3>5. Cardinality(Units(w, S)) = w[x] + Cardinality(To(S \ {x}))
      BY <3>2, <3>3, <3>4, UnitsAdd
    <3>6. To(S) = To({x}) \cup To(S \ {x}) /\ To({x}) \cap To(S \ {x}) = {}
      OBVIOUS
    <3>7. To({x}) = {n \in X : g[n] = x}
      OBVIOUS
    <3>8. w[x] = Cardinality(To({x}))
      BY <3>2, <3>7
    <3>9. IsFiniteSet(To({x})) /\ IsFiniteSet(To(S \ {x}))
      BY <1>1
    <3> HIDE DEF To
    <3>10. Cardinality(To(S)) = Cardinality(To({x})) + Cardinality(To(S \ {x}))
      BY <3>6, <3>9, UnionIs
    <3> QED BY <2>2, <3>5, <3>8, <3>10
  <2> QED BY <2>3, <2>4
<1>3. D \in SUBSET D /\ D \notin Bad
  BY <1>2
<1> QED BY <1>3, SumIs

\* a sum of zeros and ones
LEMMA SumOfBits ==
  ASSUME NEW D, IsFiniteSet(D), NEW w \in [D -> {0, 1}]
  PROVE  SumFunction(w) = Cardinality({x \in D : w[x] = 1})
<1> DEFINE E == {x \in D : w[x] = 1}
           f == [x \in E |-> <<x, 0>>]
<1>1. f \in Bijection(E, Units(w, D))
  <2>1. f \in [E -> Units(w, D)]
    BY DEF Units
  <2>2. IsInjective(f)
    BY DEF IsInjective
  <2>3. ASSUME NEW u \in Units(w, D) PROVE \E x \in E : f[x] = u
    <3>1. u \in D \X Nat /\ u[2] < w[u[1]] /\ w[u[1]] \in {0, 1}
      BY DEF Units
    <3>2. w[u[1]] = 1 /\ u[2] = 0 /\ u = <<u[1], u[2]>>
      BY <3>1
    <3> QED BY <3>1, <3>2
  <2> QED BY <2>1, <2>2, <2>3 DEF Bijection, Injection, Surjection
<1>2. ExistsBijection(E, Units(w, D)) /\ IsFiniteSet(E)
  BY <1>1, FS_Subset DEF ExistsBijection
<1>3. Cardinality(Units(w, D)) = Cardinality(E)
  BY <1>2, FS_Bijection
<1>4. w \in [D -> Nat]
  OBVIOUS
<1> QED BY <1>3, <1>4, SumIs

-----------------------------------------------------------------------------
(* Flights that are selected and sorted *)

\* r has the elements of s at the indices A, each once
Picks(r, s, A) ==
  /\ DOMAIN r = 1 .. Len(r) /\ Len(r) \in Nat
  /\ \E e \in Bijection(1 .. Len(r), A) : \A k \in 1 .. Len(r) : r[k] = s[e[k]]

\* there are as many elements as indices
LEMMA PicksCount ==
  ASSUME NEW r, NEW s, NEW A, Picks(r, s, A)
  PROVE  IsFiniteSet(A) /\ Cardinality(A) = Len(r)
<1>1. ExistsBijection(1 .. Len(r), A)
  BY DEF Picks, ExistsBijection
<1>2. IsFiniteSet(1 .. Len(r)) /\ Cardinality(1 .. Len(r)) = Len(r)
  BY FS_Interval DEF Picks
<1> QED BY <1>1, <1>2, FS_Bijection

\* where elements of V are
Those(s, A, V) == {n \in A : s[n] \in V}

\* what is said of the elements is true of as many of each
LEMMA PicksThose ==
  ASSUME NEW r, NEW s, NEW A, Picks(r, s, A), NEW V
  PROVE  Cardinality(Those(r, DOMAIN r, V)) = Cardinality(Those(s, A, V))
<1> DEFINE K == {k \in 1 .. Len(r) : r[k] \in V}
           N == {n \in A : s[n] \in V}
<1>1. PICK e \in Bijection(1 .. Len(r), A) : \A k \in 1 .. Len(r) : r[k] = s[e[k]]
  BY DEF Picks
<1> DEFINE f == [k \in K |-> e[k]]
<1>2. /\ e \in [1 .. Len(r) -> A]
      /\ \A i, j \in 1 .. Len(r) : e[i] = e[j] => i = j
      /\ \A n \in A : \E k \in 1 .. Len(r) : e[k] = n
  BY DEF Bijection, Injection, Surjection, IsInjective
<1>3. f \in Bijection(K, N)
  <2>1. f \in [K -> N]
    BY <1>1, <1>2
  <2>2. IsInjective(f)
    BY <1>2 DEF IsInjective
  <2>3. ASSUME NEW n \in N PROVE \E k \in K : f[k] = n
    <3>1. PICK k \in 1 .. Len(r) : e[k] = n
      BY <1>2
    <3>2. k \in K
      BY <1>1, <3>1
    <3> QED BY <3>1, <3>2
  <2> QED BY <2>1, <2>2, <2>3 DEF Bijection, Injection, Surjection
<1>4. ExistsBijection(K, N)
  BY <1>3 DEF ExistsBijection
<1>5. IsFiniteSet(K)
  <2>1. IsFiniteSet(1 .. Len(r))
    BY FS_Interval DEF Picks
  <2>2. K \in SUBSET (1 .. Len(r))
    OBVIOUS
  <2> QED BY <2>1, <2>2, FS_Subset
<1>6. DOMAIN r = 1 .. Len(r)
  BY DEF Picks
<1>7. Those(r, DOMAIN r, V) = K /\ Those(s, A, V) = N
  BY <1>6 DEF Those
<1> HIDE DEF K, N
<1> QED BY <1>4, <1>5, <1>7, FS_Bijection

\* what is picked from all that was picked
LEMMA PicksOfPicks ==
  ASSUME NEW r, NEW q, NEW s, NEW A, Picks(r, s, A), Picks(q, r, 1 .. Len(r))
  PROVE  Picks(q, s, A)
<1> DEFINE R == 1 .. Len(r)
           Q == 1 .. Len(q)
<1>1. PICK e \in Bijection(R, A) : \A k \in R : r[k] = s[e[k]]
  BY DEF Picks
<1>2. PICK f \in Bijection(Q, R) : \A k \in Q : q[k] = r[f[k]]
  BY DEF Picks
<1> DEFINE g == [k \in Q |-> e[f[k]]]
<1> HIDE DEF Q, R
<1>3. /\ e \in [R -> A] /\ f \in [Q -> R]
      /\ \A i, j \in R : e[i] = e[j] => i = j
      /\ \A i, j \in Q : f[i] = f[j] => i = j
      /\ \A n \in A : \E k \in R : e[k] = n
      /\ \A n \in R : \E k \in Q : f[k] = n
  BY DEF Bijection, Injection, Surjection, IsInjective
<1>4. g \in Bijection(Q, A)
  <2>1. g \in [Q -> A]
    BY <1>3
  <2>2. IsInjective(g)
    BY <1>3 DEF IsInjective
  <2>3. ASSUME NEW n \in A PROVE \E k \in Q : g[k] = n
    BY <1>3
  <2> QED BY <2>1, <2>2, <2>3 DEF Bijection, Injection, Surjection
<1>5. \A k \in Q : q[k] = s[g[k]]
  BY <1>1, <1>2, <1>3
<1> HIDE DEF g
<1> QED BY <1>4, <1>5 DEF Picks, Q

\* the elements of s at the indices A, in order
Chosen(s, A) == LET at == InOrder(A) IN [n \in DOMAIN at |-> s[at[n]]]

\* what is selected is as many elements, each once
LEMMA ChosenIs ==
  ASSUME NEW S, NEW s \in Seq(S), NEW A \in SUBSET DOMAIN s
  PROVE  /\ Chosen(s, A) \in Seq(S) /\ Picks(Chosen(s, A), s, A)
         /\ Len(Chosen(s, A)) = Cardinality(A) /\ IsFiniteSet(A)
<1> DEFINE at == InOrder(A)
           k == Cardinality(A)
           r == Chosen(s, A)
<1>1. A \in SUBSET Nat /\ IsFiniteSet(A)
  <2>1. A \in SUBSET (1 .. Len(s)) /\ Len(s) \in Nat
    OBVIOUS
  <2>2. IsFiniteSet(1 .. Len(s)) /\ 1 .. Len(s) \subseteq Nat
    BY <2>1, FS_Interval
  <2> QED BY <2>1, <2>2, FS_Subset
<1>2. /\ at \in Seq(A) /\ Len(at) = k /\ DOMAIN at = 1 .. k /\ k \in Nat
      /\ \A i, j \in 1 .. k : at[i] = at[j] => i = j
      /\ \A x \in A : \E i \in 1 .. k : at[i] = x
  BY <1>1, InOrderIs
<1>3. r = [n \in DOMAIN at |-> s[at[n]]]
  BY DEF Chosen
<1> HIDE DEF at, k, r
<1>4. at \in [1 .. k -> A]
  BY <1>2
<1>5. r \in [1 .. k -> S] /\ \A n \in 1 .. k : r[n] = s[at[n]]
  <2>1. \A n \in A : s[n] \in S
    OBVIOUS
  <2> QED BY <1>2, <1>3, <1>4, <2>1
<1>6. r \in Seq(S) /\ Len(r) = k
  BY <1>2, <1>5
<1>7. at \in Bijection(1 .. k, A)
  BY <1>2, <1>4 DEF Bijection, Injection, Surjection, IsInjective
<1> QED BY <1>1, <1>2, <1>5, <1>6, <1>7 DEF Picks, r, k

\* where a flight comes in the order: by day and id, then as it was
Before(r, i, j) == Earlier(r[i], r[j]) \/ (~ Earlier(r[j], r[i]) /\ i < j)

\* no two flights are in the same place
LEMMA BeforeOrders ==
  ASSUME NEW r \in Seq(Flight)
  PROVE  \A i, j, k \in DOMAIN r :
           /\ ~ Before(r, i, i)
           /\ i # j => Before(r, i, j) \/ Before(r, j, i)
           /\ Before(r, i, j) => ~ Before(r, j, i)
           /\ Before(r, i, j) /\ Before(r, j, k) => Before(r, i, k)
<1>1. \A i \in DOMAIN r : r[i].day \in Nat /\ r[i].id \in Nat /\ i \in Nat
  <2>1. \A f \in Flight : f.day \in Days \cup {NoDay} /\ f.id \in Ids
    BY DEF Flight
  <2>2. Days \cup {NoDay} \subseteq Nat /\ Ids \subseteq Nat
    BY SizesAssumption DEF Days, NoDay, Ids
  <2>3. \A i \in DOMAIN r : r[i] \in Flight /\ i \in Nat
    OBVIOUS
  <2> QED BY <2>1, <2>2, <2>3
<1> QED BY <1>1 DEF Before, Earlier

\* there is an order: a flight's place is the number of those before it, plus one
LEMMA SortExists ==
  ASSUME NEW r \in Seq(Flight)
  PROVE  \E p \in Injection(DOMAIN r, DOMAIN r) :
           \A i, j \in DOMAIN r : i < j => ~ Earlier(r[p[j]], r[p[i]])
<1> DEFINE n == Len(r)
           D == DOMAIN r
           Below(j) == {i \in D : Before(r, i, j)}
           rank == [j \in D |-> Cardinality(Below(j)) + 1]
           p == [k \in D |-> CHOOSE j \in D : rank[j] = k]
<1>1. n \in Nat /\ D = 1 .. n
  OBVIOUS
<1>2. /\ IsFiniteSet(D) /\ Cardinality(D) = n
      /\ \A S \in SUBSET D : IsFiniteSet(S) /\ Cardinality(S) \in Nat
  <2>1. IsFiniteSet(D) /\ Cardinality(D) = n
    BY <1>1, FS_Interval
  <2> QED BY <2>1, FS_Subset, FS_CardinalityType
<1> HIDE DEF n, D
<1>3. \A i, j, k \in D :
           /\ ~ Before(r, i, i)
           /\ i # j => Before(r, i, j) \/ Before(r, j, i)
           /\ Before(r, i, j) => ~ Before(r, j, i)
           /\ Before(r, i, j) /\ Before(r, j, k) => Before(r, i, k)
  BY BeforeOrders DEF D
<1>4. ASSUME NEW i \in D, NEW j \in D, Before(r, i, j) PROVE rank[i] < rank[j]
  <2>1. Below(i) \in SUBSET Below(j) /\ i \in Below(j) /\ i \notin Below(i)
    BY <1>3, <1>4
  <2>2. Below(i) \in SUBSET D /\ Below(j) \in SUBSET D
    OBVIOUS
  <2> HIDE DEF Below
  <2>3. /\ IsFiniteSet(Below(j))
        /\ Cardinality(Below(i)) \in Nat /\ Cardinality(Below(j)) \in Nat
    BY <1>2, <2>2
  <2>4. /\ Cardinality(Below(i)) <= Cardinality(Below(j))
        /\ Cardinality(Below(j)) = Cardinality(Below(i)) => Below(i) = Below(j)
    BY <2>1, <2>3, FS_Subset
  <2> QED BY <2>1, <2>3, <2>4
<1>5. rank \in [D -> D]
  <2> SUFFICES ASSUME NEW j \in D PROVE Cardinality(Below(j)) + 1 \in D
    OBVIOUS
  <2>1. Below(j) \in SUBSET (D \ {j}) /\ D \ {j} \in SUBSET D /\ Below(j) \in SUBSET D
    BY <1>3
  <2>2. Cardinality(D \ {j}) = n - 1
    BY <1>2, FS_RemoveElement
  <2> HIDE DEF Below
  <2>3. IsFiniteSet(D \ {j}) /\ Cardinality(Below(j)) \in Nat
    BY <1>2, <2>1
  <2>4. Cardinality(Below(j)) <= Cardinality(D \ {j})
    BY <2>1, <2>3, FS_Subset
  <2> QED BY <1>1, <2>2, <2>3, <2>4
<1> HIDE DEF rank
<1>6. \A i \in D : rank[i] \in Nat
  BY <1>1, <1>5
<1>7. \A i, j \in D : rank[i] = rank[j] => i = j
  <2> SUFFICES ASSUME NEW i \in D, NEW j \in D, rank[i] = rank[j], i # j PROVE FALSE
    OBVIOUS
  <2>1. rank[i] < rank[j] \/ rank[j] < rank[i]
    BY <1>3, <1>4
  <2> QED BY <2>1, <1>6
<1>8. rank \in Injection(D, D)
  BY <1>5, <1>7 DEF Injection, IsInjective
<1>9. rank \in Surjection(D, D)
  BY <1>2, <1>8, FS_Injection
<1>10. \A k \in D : p[k] \in D /\ rank[p[k]] = k
  <2>1. \A k \in D : \E j \in D : rank[j] = k
    BY <1>9 DEF Surjection
  <2> QED BY <2>1
<1>11. p \in [D -> D]
  <2>1. p = [k \in D |-> p[k]]
    OBVIOUS
  <2> HIDE DEF p
  <2> QED BY <2>1, <1>10
<1> HIDE DEF p
<1>12. p \in Injection(D, D)
  <2>1. \A i, j \in D : p[i] = p[j] => i = j
    BY <1>10
  <2>2. DOMAIN p = D
    BY <1>11
  <2> QED BY <1>11, <2>1, <2>2 DEF Injection, IsInjective
<1>13. ASSUME NEW i \in D, NEW j \in D, i < j PROVE ~ Earlier(r[p[j]], r[p[i]])
  <2>1. ~ Before(r, p[j], p[i])
    <3> SUFFICES ASSUME Before(r, p[j], p[i]) PROVE FALSE
      OBVIOUS
    <3>1. rank[p[j]] < rank[p[i]]
      BY <1>4, <1>10
    <3> QED BY <3>1, <1>1, <1>10, <1>13
  <2> QED BY <2>1 DEF Before
<1> QED BY <1>12, <1>13 DEF D

\* sorting loses and repeats nothing
LEMMA SortedIs ==
  ASSUME NEW r \in Seq(Flight)
  PROVE  Sorted(r) \in Seq(Flight) /\ Picks(Sorted(r), r, 1 .. Len(r))
<1> DEFINE D == DOMAIN r
           at == CHOOSE p \in Injection(D, D) : \A i, j \in D :
                   i < j => ~ Earlier(r[p[j]], r[p[i]])
           q == Sorted(r)
<1>1. at \in Injection(D, D)
  BY SortExists
<1>2. q = [n \in D |-> r[at[n]]]
  BY DEF Sorted
<1>3. D = 1 .. Len(r) /\ Len(r) \in Nat /\ \A n \in D : r[n] \in Flight
  OBVIOUS
<1> HIDE DEF D, at, q
<1>4. at \in Surjection(D, D)
  <2>1. IsFiniteSet(D)
    BY <1>3, FS_Interval
  <2> QED BY <2>1, <1>1, FS_Injection
<1>5. at \in [D -> D] /\ at \in Bijection(D, D)
  BY <1>1, <1>4 DEF Bijection, Injection
<1>6. q \in [1 .. Len(r) -> Flight]
  BY <1>2, <1>3, <1>5
<1>7. q \in Seq(Flight) /\ Len(q) = Len(r)
  BY <1>3, <1>6
<1> QED BY <1>2, <1>3, <1>5, <1>6, <1>7 DEF Picks, q

-----------------------------------------------------------------------------
(* The loop of a plane log *)

LEMMA MaxIs ==
  ASSUME NEW n \in Nat, NEW S \in SUBSET (1 .. n), S # {}
  PROVE  Max(S) \in S /\ \A y \in S : y <= Max(S)
<1> DEFINE T == {n - x : x \in S}
<1>1. T \subseteq Nat /\ T # {}
  <2>1. \A x \in S : n - x \in Nat
    OBVIOUS
  <2> QED BY <2>1
<1>2. PICK t \in T : \A u \in T : t <= u
  <2> HIDE DEF T
  <2> QED BY <1>1, LeastNat
<1>3. PICK x \in S : t = n - x
  OBVIOUS
<1>4. ASSUME NEW y \in S PROVE x >= y
  <2>1. n - x <= n - y
    BY <1>2, <1>3
  <2> QED BY <2>1
<1>5. \E z \in S : \A y \in S : z >= y
  BY <1>4
<1>6. Max(S) \in S /\ \A y \in S : Max(S) >= y
  BY <1>5 DEF Max
<1> QED BY <1>6

\* what FoldLeft computes, for all sets of indices below n
LoopOver(r, n, g) ==
  [s \in SUBSET (1 .. n) |-> IF s = {} THEN NoEntries
                             ELSE LET x == Max(s) IN Accumulate(g[s \ {x}], r[x])]

\* there is such a function
LEMMA LoopExists ==
  ASSUME NEW r, NEW n \in Nat
  PROVE  \E g : g = LoopOver(r, n, g)
<1> DEFINE Bad == {k \in Nat : ~ \E g : g = LoopOver(r, k, g)}
<1>1. Bad = {}
  <2> SUFFICES ASSUME Bad # {} PROVE FALSE
    OBVIOUS
  <2>1. PICK k \in Bad : \A j \in Bad : k <= j
    <3>1. Bad \subseteq Nat
      OBVIOUS
    <3> HIDE DEF Bad
    <3> QED BY <3>1, LeastNat
  <2>2. k \in Nat /\ ~ \E g : g = LoopOver(r, k, g)
    OBVIOUS
  <2>3. CASE k = 0
    <3> DEFINE g == [s \in SUBSET (1 .. k) |-> NoEntries]
    <3>1. 1 .. k = {}
      BY <2>3
    <3>2. g = LoopOver(r, k, g)
      BY <3>1 DEF LoopOver
    <3> QED BY <2>2, <3>2
  <2>4. CASE k # 0
    <3>1. k - 1 \in Nat /\ k - 1 \notin Bad
      BY <2>1, <2>2, <2>4
    <3>2. PICK f : f = LoopOver(r, k - 1, f)
      BY <3>1
    <3> DEFINE g == LoopOver(r, k, f)
    <3>3. ASSUME NEW s \in SUBSET (1 .. k), s # {}
          PROVE  s \ {Max(s)} \in SUBSET (1 .. k - 1)
      <4>1. Max(s) \in s /\ \A y \in s : y <= Max(s)
        BY <2>2, <3>3, MaxIs
      <4> DEFINE m == Max(s)
      <4>2. m \in 1 .. k
        BY <4>1
      <4> HIDE DEF m
      <4>3. ASSUME NEW y \in s \ {m} PROVE y \in 1 .. k - 1
        <5>1. y \in 1 .. k /\ y <= m /\ y # m
          BY <4>1 DEF m
        <5> QED BY <2>2, <4>2, <5>1
      <4> QED BY <4>3 DEF m
    <3>4. ASSUME NEW s \in SUBSET (1 .. k - 1) PROVE g[s] = f[s]
      <4>1. s \in SUBSET (1 .. k)
        BY <2>2
      <4>2. f[s] = IF s = {} THEN NoEntries
                   ELSE LET x == Max(s) IN Accumulate(f[s \ {x}], r[x])
        BY <3>2 DEF LoopOver
      <4> QED BY <4>1, <4>2 DEF LoopOver
    <3>5. ASSUME NEW s \in SUBSET (1 .. k), s # {}
          PROVE  g[s \ {Max(s)}] = f[s \ {Max(s)}]
      BY <3>3, <3>4, <3>5
    <3> HIDE DEF g
    <3>6. LoopOver(r, k, f) = LoopOver(r, k, g)
      BY <3>5 DEF LoopOver
    <3>7. g = LoopOver(r, k, g)
      BY <3>6 DEF g
    <3> QED BY <2>2, <3>7
  <2> QED BY <2>3, <2>4
<1> QED BY <1>1

\* the log before each flight of a plane: it is made by turns of the loop
LEMMA LoopTurns ==
  ASSUME NEW r, NEW n \in Nat, DOMAIN r = 1 .. n
  PROVE  \E h : /\ h[0] = NoEntries
                /\ \A k \in 1 .. n : h[k] = Accumulate(h[k - 1], r[k])
                /\ FoldLeft(Accumulate, NoEntries, r) = h[n]
<1> DEFINE it == CHOOSE g : g = LoopOver(r, n, g)
           h  == [k \in 0 .. n |-> it[1 .. k]]
<1>1. it = LoopOver(r, n, it)
  BY LoopExists
<1>2. FoldLeft(Accumulate, NoEntries, r) = it[1 .. n]
  <2>1. FoldLeft(Accumulate, NoEntries, r) =
          (CHOOSE g : g = [s \in SUBSET DOMAIN r |->
                             IF s = {} THEN NoEntries
                             ELSE LET x == Max(s) IN Accumulate(g[s \ {x}], r[x])])[DOMAIN r]
    BY DEF FoldLeft, MapThenFoldSet
  <2> QED BY <2>1 DEF LoopOver
<1> HIDE DEF it
<1>3. h[0] = NoEntries
  <2>1. h[0] = it[1 .. 0] /\ 1 .. 0 = {}
    OBVIOUS
  <2>2. it[{}] = NoEntries
    BY <1>1 DEF LoopOver
  <2> QED BY <2>1, <2>2
<1>4. ASSUME NEW k \in 1 .. n PROVE h[k] = Accumulate(h[k - 1], r[k])
  <2>1. 1 .. k \in SUBSET (1 .. n) /\ k \in 1 .. k /\ k \in Nat
    OBVIOUS
  <2>2. Max(1 .. k) = k
    <3>1. Max(1 .. k) \in 1 .. k /\ \A y \in 1 .. k : y <= Max(1 .. k)
      BY <2>1, MaxIs
    <3> QED BY <2>1, <3>1
  <2>3. (1 .. k) \ {k} = 1 .. k - 1 /\ k - 1 \in 0 .. n
    OBVIOUS
  <2>4. it[1 .. k] = Accumulate(it[(1 .. k) \ {k}], r[k])
    <3>1. it[1 .. k] = IF 1 .. k = {} THEN NoEntries
                       ELSE LET x == Max(1 .. k)
                            IN  Accumulate(it[(1 .. k) \ {x}], r[x])
      BY <1>1, <2>1 DEF LoopOver
    <3>2. 1 .. k # {}
      BY <2>1
    <3> QED BY <2>2, <3>1, <3>2
  <2>5. h[k] = it[1 .. k] /\ h[k - 1] = it[1 .. k - 1]
    BY <2>3
  <2> QED BY <2>3, <2>4, <2>5
<1>5. h[n] = it[1 .. n]
  OBVIOUS
<1> QED BY <1>2, <1>3, <1>4, <1>5

\* the sum of what each flight of an entry counts, and of all entries
Weight(v, entry)   == SumFunction([n \in DOMAIN entry |-> v[entry[n]]])
Weights(v, entries) == SumFunction([n \in DOMAIN entries |-> Weight(v, entries[n])])

\* one more flight in an entry, and one more entry in a log
LEMMA WeightAppend ==
  ASSUME NEW v \in [Flight -> Nat], NEW e \in Seq(Flight), NEW f \in Flight
  PROVE  /\ Weight(v, e) \in Nat /\ Weight(v, <<>>) = 0
         /\ Weight(v, Append(e, f)) = Weight(v, e) + v[f]
<1> DEFINE a == [n \in DOMAIN e |-> v[e[n]]]
           b == Append(e, f)
           c == [n \in DOMAIN b |-> v[b[n]]]
<1>1. /\ DOMAIN e = 1 .. Len(e) /\ Len(e) \in Nat /\ \A n \in 1 .. Len(e) : e[n] \in Flight
      /\ b \in Seq(Flight) /\ DOMAIN b = 1 .. Len(e) + 1 /\ b[Len(e) + 1] = f
      /\ \A n \in 1 .. Len(e) : b[n] = e[n]
  OBVIOUS
<1>2. a \in Seq(Nat) /\ Len(a) = Len(e) /\ a \in [1 .. Len(e) -> Nat]
  <2>1. a \in [1 .. Len(e) -> Nat]
    BY <1>1
  <2> QED BY <1>1, <2>1
<1>3. v[f] \in Nat
  OBVIOUS
<1> HIDE DEF b
<1>4. c = Append(a, v[f])
  <2> DEFINE d == Append(a, v[f])
  <2>1. d \in [1 .. Len(e) + 1 -> Nat] /\ d[Len(e) + 1] = v[f]
        /\ \A n \in 1 .. Len(e) : d[n] = a[n]
    <3> HIDE DEF a
    <3>1. d \in Seq(Nat) /\ Len(d) = Len(e) + 1 /\ d[Len(e) + 1] = v[f]
      <4> DEFINE x == v[f]
      <4>1. x \in Nat
        BY <1>3
      <4> HIDE DEF x
      <4>2. Append(a, x) \in Seq(Nat) /\ Len(Append(a, x)) = Len(e) + 1 /\ Append(a, x)[Len(e) + 1] = x
        BY <1>2, <4>1
      <4> QED BY <4>2 DEF x
    <3>2. \A n \in 1 .. Len(e) : d[n] = a[n]
      BY <1>2, <1>3
    <3>3. d \in [1 .. Len(e) + 1 -> Nat]
      <4> HIDE DEF a, d
      <4> QED BY <3>1
    <3> QED BY <3>1, <3>2, <3>3
  <2> HIDE DEF d
  <2>2. c \in [1 .. Len(e) + 1 -> Nat]
    <3>1. \A n \in 1 .. Len(e) + 1 : b[n] \in Flight
      BY <1>1
    <3> QED BY <1>1, <3>1
  <2>3. ASSUME NEW n \in 1 .. Len(e) + 1 PROVE c[n] = d[n]
    <3>1. CASE n \in 1 .. Len(e)
      BY <1>1, <2>1, <3>1
    <3>2. CASE n = Len(e) + 1
      BY <1>1, <2>1, <3>2
    <3> QED BY <1>1, <3>1, <3>2
  <2>4. c = d
    <3> HIDE DEF c
    <3> QED BY <2>1, <2>2, <2>3
  <2> QED BY <2>4 DEF d
<1>5. SumFunction(c) = SumFunction(a) + v[f]
  <2> HIDE DEF a, c
  <2> QED BY <1>2, <1>3, <1>4, SumAppend
<1>6. SumFunction(a) \in Nat
  <2>1. IsFiniteSet(1 .. Len(e))
    BY <1>1, FS_Interval
  <2> QED BY <1>2, <2>1, SumIs
<1>7. Weight(v, <<>>) = 0
  <2>1. [n \in DOMAIN <<>> |-> v[<<>>[n]]] = <<>>
    OBVIOUS
  <2> QED BY <2>1, SumEmpty DEF Weight
<1> QED BY <1>5, <1>6, <1>7 DEF Weight, b

LEMMA WeightsAppend ==
  ASSUME NEW v \in [Flight -> Nat], NEW l \in Seq(Seq(Flight)), NEW e \in Seq(Flight)
  PROVE  /\ Weights(v, l) \in Nat /\ Weights(v, <<>>) = 0
         /\ Weights(v, Append(l, e)) = Weights(v, l) + Weight(v, e)
<1> DEFINE a == [n \in DOMAIN l |-> Weight(v, l[n])]
           b == Append(l, e)
           c == [n \in DOMAIN b |-> Weight(v, b[n])]
           w == Weight(v, e)
<1>0. \A d \in Seq(Flight) : Weight(v, d) \in Nat
  <2> TAKE d \in Seq(Flight)
  <2>1. CASE Flight = {}
    <3>1. d = <<>>
      BY <2>1
    <3>2. [n \in DOMAIN <<>> |-> v[<<>>[n]]] = <<>>
      OBVIOUS
    <3> QED BY <3>1, <3>2, SumEmpty DEF Weight
  <2>2. CASE Flight # {}
    BY <2>2, WeightAppend
  <2> QED BY <2>1, <2>2
<1>1. /\ DOMAIN l = 1 .. Len(l) /\ Len(l) \in Nat
      /\ \A n \in 1 .. Len(l) : l[n] \in Seq(Flight)
      /\ b \in Seq(Seq(Flight)) /\ DOMAIN b = 1 .. Len(l) + 1 /\ b[Len(l) + 1] = e
      /\ \A n \in 1 .. Len(l) : b[n] = l[n]
  <2> DEFINE T == Seq(Flight)
  <2>1. l \in Seq(T) /\ e \in T
    OBVIOUS
  <2> HIDE DEF T
  <2>2. /\ DOMAIN l = 1 .. Len(l) /\ Len(l) \in Nat /\ \A n \in 1 .. Len(l) : l[n] \in T
        /\ b \in Seq(T) /\ DOMAIN b = 1 .. Len(l) + 1 /\ b[Len(l) + 1] = e
        /\ \A n \in 1 .. Len(l) : b[n] = l[n]
    BY <2>1
  <2> QED BY <2>2 DEF T
<1>2. a \in [1 .. Len(l) -> Nat]
  BY <1>0, <1>1
<1>3. a \in Seq(Nat) /\ Len(a) = Len(l) /\ w \in Nat
  BY <1>0, <1>1, <1>2
<1> HIDE DEF b, w
<1>4. c = Append(a, w)
  <2> DEFINE d == Append(a, w)
  <2>1. d \in [1 .. Len(l) + 1 -> Nat] /\ d[Len(l) + 1] = w
        /\ \A n \in 1 .. Len(l) : d[n] = a[n]
    <3> HIDE DEF a
    <3>1. d \in Seq(Nat) /\ Len(d) = Len(l) + 1 /\ d[Len(l) + 1] = w
      BY <1>3
    <3>2. \A n \in 1 .. Len(l) : d[n] = a[n]
      BY <1>3
    <3>3. d \in [1 .. Len(l) + 1 -> Nat]
      <4> HIDE DEF d
      <4> QED BY <3>1
    <3> QED BY <3>1, <3>2, <3>3
  <2> HIDE DEF d
  <2>2. c \in [1 .. Len(l) + 1 -> Nat]
    <3>1. \A n \in 1 .. Len(l) + 1 : b[n] \in Seq(Flight)
      BY <1>1
    <3> QED BY <1>0, <1>1, <3>1
  <2>3. ASSUME NEW n \in 1 .. Len(l) + 1 PROVE c[n] = d[n]
    <3>1. CASE n \in 1 .. Len(l)
      BY <1>1, <2>1, <3>1
    <3>2. CASE n = Len(l) + 1
      BY <1>1, <2>1, <3>2 DEF w
    <3> QED BY <1>1, <3>1, <3>2
  <2>4. c = d
    <3> HIDE DEF c
    <3> QED BY <2>1, <2>2, <2>3
  <2> QED BY <2>4 DEF d
<1>5. SumFunction(c) = SumFunction(a) + w
  <2> HIDE DEF a, c
  <2> QED BY <1>3, <1>4, SumAppend
<1>6. SumFunction(a) \in Nat
  <2>1. IsFiniteSet(1 .. Len(l))
    BY <1>1, FS_Interval
  <2> QED BY <1>2, <2>1, SumIs
<1>7. Weights(v, <<>>) = 0
  <2>1. [n \in DOMAIN <<>> |-> Weight(v, <<>>[n])] = <<>>
    OBVIOUS
  <2> QED BY <2>1, SumEmpty DEF Weights
<1> QED BY <1>5, <1>6, <1>7 DEF Weights, b, w

\* so far, each flight is in a closed entry or in the open one
LogHas(v, log, r, k) ==
  /\ log = [entries |-> log.entries, open |-> log.open]
  /\ log.entries \in Seq(Seq(Flight)) /\ log.open \in Seq(Flight)
  /\ Weights(v, log.entries) + Weight(v, log.open) = Weight(v, [i \in 1 .. k |-> r[i]])

\* a turn of the loop, whether it merges or not
LEMMA TurnKeeps ==
  ASSUME NEW v \in [Flight -> Nat], NEW r \in Seq(Flight), NEW k \in 1 .. Len(r),
         NEW log, LogHas(v, log, r, k - 1)
  PROVE  LogHas(v, Accumulate(log, r[k]), r, k)
<1> DEFINE f == r[k]
           before == [i \in 1 .. k - 1 |-> r[i]]
           after  == [i \in 1 .. k |-> r[i]]
           l == log.entries
           o == log.open
<1>1. f \in Flight /\ k \in Nat /\ k - 1 \in Nat /\ \A i \in 1 .. Len(r) : r[i] \in Flight
  OBVIOUS
<1>2. before \in Seq(Flight) /\ Len(before) = k - 1 /\ after \in [1 .. k -> Flight]
  <2>1. before \in [1 .. k - 1 -> Flight] /\ after \in [1 .. k -> Flight]
    BY <1>1
  <2> QED BY <1>1, <2>1
<1>3. after = Append(before, f)
  <2> DEFINE d == Append(before, f)
  <2>1. d \in Seq(Flight) /\ Len(d) = k /\ d[k] = f /\ \A i \in 1 .. k - 1 : d[i] = r[i]
    BY <1>1, <1>2
  <2> HIDE DEF d
  <2>2. d \in [1 .. k -> Flight]
    BY <2>1
  <2>3. \A i \in 1 .. k : d[i] = after[i]
    <3>1. \A i \in 1 .. k : i = k \/ i \in 1 .. k - 1
      BY <1>1
    <3> QED BY <2>1, <3>1
  <2> HIDE DEF after
  <2>4. d = after
    BY <1>2, <2>2, <2>3
  <2> QED BY <2>4 DEF d
<1>4. /\ l \in Seq(Seq(Flight)) /\ o \in Seq(Flight)
      /\ Weights(v, l) + Weight(v, o) = Weight(v, before)
      /\ log = [entries |-> l, open |-> o]
  BY DEF LogHas
<1> HIDE DEF f, before, after, l, o
<1>5. Weight(v, after) = Weight(v, before) + v[f]
  BY <1>1, <1>2, <1>3, WeightAppend
<1>6. v[f] \in Nat /\ Weight(v, o) \in Nat /\ Weights(v, l) \in Nat
  BY <1>1, <1>4, WeightAppend, WeightsAppend
<1>7. CASE o # <<>> /\ ~ CollectiveLogEntryPossible(Last(o), f)
  <2> DEFINE m == Append(l, o)
  <2>1. Accumulate(log, f) = [entries |-> m, open |-> <<f>>]
    BY <1>7 DEF Accumulate, l, o
  <2>2. m \in Seq(Seq(Flight))
    <3> DEFINE T == Seq(Flight)
    <3>1. l \in Seq(T) /\ o \in T
      BY <1>4
    <3> HIDE DEF T
    <3>2. m \in Seq(T)
      BY <3>1
    <3> QED BY <3>2 DEF T
  <2>3. Weights(v, m) = Weights(v, l) + Weight(v, o)
    BY <1>4, WeightsAppend
  <2>4. Weight(v, <<f>>) = v[f]
    <3>1. <<>> \in Seq(Flight) /\ Append(<<>>, f) = <<f>>
      OBVIOUS
    <3>2. Weight(v, Append(<<>>, f)) = Weight(v, <<>>) + v[f] /\ Weight(v, <<>>) = 0
      BY <1>1, <3>1, WeightAppend
    <3> QED BY <1>6, <3>1, <3>2
  <2>5. <<f>> \in Seq(Flight)
    BY <1>1
  <2> HIDE DEF m
  <2>6. Weights(v, m) + Weight(v, <<f>>) = Weight(v, after)
    BY <1>4, <1>5, <1>6, <2>3, <2>4
  <2> QED BY <2>1, <2>2, <2>5, <2>6 DEF LogHas, f, after
<1>8. CASE ~ (o # <<>> /\ ~ CollectiveLogEntryPossible(Last(o), f))
  <2> DEFINE m == Append(o, f)
  <2>1. Accumulate(log, f) = [entries |-> l, open |-> m]
    <3>1. Accumulate(log, f) = [log EXCEPT !.open = Append(log.open, f)]
      BY <1>8 DEF Accumulate, o
    <3>2. log = [entries |-> l, open |-> o] /\ log.open = o
      BY <1>4
    <3>3. [log EXCEPT !.open = m] = [entries |-> l, open |-> m]
      <4> HIDE DEF m
      <4>1. [[entries |-> l, open |-> o] EXCEPT !.open = m] = [entries |-> l, open |-> m]
        OBVIOUS
      <4> QED BY <3>2, <4>1
    <3> QED BY <3>1, <3>2, <3>3
  <2>2. m \in Seq(Flight) /\ Weight(v, m) = Weight(v, o) + v[f]
    <3>1. m \in Seq(Flight)
      BY <1>1, <1>4
    <3>2. Weight(v, Append(o, f)) = Weight(v, o) + v[f]
      BY <1>1, <1>4, WeightAppend
    <3> QED BY <3>1, <3>2
  <2> HIDE DEF m
  <2>3. Weights(v, l) + Weight(v, m) = Weight(v, after)
    BY <1>4, <1>5, <1>6, <2>2
  <2> QED BY <1>4, <2>1, <2>2, <2>3 DEF LogHas, f, after
<1> QED BY <1>7, <1>8

\* the entries of a log weigh what the flights do that it is made of
LEMMA LogWeighs ==
  ASSUME NEW v \in [Flight -> Nat], NEW r \in Seq(Flight), Flight # {}
  PROVE  LET log     == FoldLeft(Accumulate, NoEntries, r)
             entries == Append(log.entries, log.open)
         IN  entries \in Seq(Seq(Flight)) /\ Weights(v, entries) = Weight(v, r)
<1> DEFINE n == Len(r)
<1>1. n \in Nat /\ DOMAIN r = 1 .. n
  OBVIOUS
<1>2. PICK h : /\ h[0] = NoEntries
               /\ \A k \in 1 .. n : h[k] = Accumulate(h[k - 1], r[k])
               /\ FoldLeft(Accumulate, NoEntries, r) = h[n]
  BY <1>1, LoopTurns
<1> DEFINE Bad == {k \in 0 .. n : ~ LogHas(v, h[k], r, k)}
<1>3. Bad = {}
  <2> SUFFICES ASSUME Bad # {} PROVE FALSE
    OBVIOUS
  <2>1. PICK k \in Bad : \A j \in Bad : k <= j
    <3>1. Bad \subseteq Nat
      BY <1>1
    <3> HIDE DEF Bad
    <3> QED BY <3>1, LeastNat
  <2>2. k \in 0 .. n /\ ~ LogHas(v, h[k], r, k)
    OBVIOUS
  <2>3. CASE k = 0
    <3>1. h[0] = [entries |-> <<>>, open |-> <<>>]
      BY <1>2 DEF NoEntries
    <3>2. [i \in 1 .. 0 |-> r[i]] = <<>>
      OBVIOUS
    <3>3. <<>> \in Seq(Flight) /\ <<>> \in Seq(Seq(Flight))
      OBVIOUS
    <3>4. Weight(v, <<>>) = 0 /\ Weights(v, <<>>) = 0
      BY <3>3, WeightAppend, WeightsAppend
    <3> QED BY <2>2, <2>3, <3>1, <3>2, <3>3, <3>4 DEF LogHas
  <2>4. CASE k # 0
    <3>1. k \in 1 .. n /\ k - 1 \in 0 .. n /\ ~ (k <= k - 1)
      BY <1>1, <2>2, <2>4
    <3>2. LogHas(v, h[k - 1], r, k - 1)
      BY <2>1, <3>1
    <3>3. LogHas(v, Accumulate(h[k - 1], r[k]), r, k)
      BY <3>1, <3>2, TurnKeeps
    <3> QED BY <1>2, <2>2, <3>1, <3>3
  <2> QED BY <2>3, <2>4
<1>4. LogHas(v, h[n], r, n)
  BY <1>1, <1>3
<1>5. r = [i \in 1 .. n |-> r[i]]
  OBVIOUS
<1> DEFINE l == h[n].entries
           o == h[n].open
<1>6. /\ l \in Seq(Seq(Flight)) /\ o \in Seq(Flight)
      /\ Weights(v, l) + Weight(v, o) = Weight(v, r)
  BY <1>4, <1>5 DEF LogHas
<1> HIDE DEF l, o
<1>7. Append(l, o) \in Seq(Seq(Flight))
  <2> DEFINE T == Seq(Flight)
  <2>1. l \in Seq(T) /\ o \in T
    BY <1>6
  <2> HIDE DEF T
  <2>2. Append(l, o) \in Seq(T)
    BY <2>1
  <2> QED BY <2>2 DEF T
<1>8. Weights(v, Append(l, o)) = Weight(v, r)
  BY <1>6, WeightsAppend
<1> QED BY <1>2, <1>7, <1>8 DEF l, o

-----------------------------------------------------------------------------
(* The log books of a list of flights *)

\* the flights of a plane, and those of a pilot
LEMMA FinishedOfPlane ==
  ASSUME NEW F \in Seq(Flight), NEW p
  PROVE  /\ OfPlane(p, F) \in Seq(Flight)
         /\ Picks(OfPlane(p, F), F, {n \in DOMAIN F : Finished(F[n]) /\ Plane(F[n]) = p})
<1> DEFINE A == {n \in DOMAIN F : Finished(F[n]) /\ Plane(F[n]) = p}
           c == Chosen(F, A)
<1>1. OfPlane(p, F) = Sorted(c)
  BY DEF OfPlane, Select, Where, Chosen
<1>2. A \in SUBSET DOMAIN F
  OBVIOUS
<1> HIDE DEF A
<1>3. c \in Seq(Flight) /\ Picks(c, F, A)
  BY <1>2, ChosenIs
<1> HIDE DEF c
<1>4. Sorted(c) \in Seq(Flight) /\ Picks(Sorted(c), c, 1 .. Len(c))
  BY <1>3, SortedIs
<1>5. Picks(Sorted(c), F, A)
  BY <1>3, <1>4, PicksOfPicks
<1> QED BY <1>1, <1>4, <1>5 DEF A

LEMMA FinishedOfPilot ==
  ASSUME NEW F \in Seq(Flight), NEW p
  PROVE  /\ OfPilot(p, F) \in Seq(Flight)
         /\ Picks(OfPilot(p, F), F, {n \in DOMAIN F : Finished(F[n]) /\ Pilot(F[n]) = p})
<1> DEFINE A == {n \in DOMAIN F : Finished(F[n]) /\ Pilot(F[n]) = p}
           c == Chosen(F, A)
<1>1. OfPilot(p, F) = Sorted(c)
  BY DEF OfPilot, Select, Where, Chosen
<1>2. A \in SUBSET DOMAIN F
  OBVIOUS
<1> HIDE DEF A
<1>3. c \in Seq(Flight) /\ Picks(c, F, A)
  BY <1>2, ChosenIs
<1> HIDE DEF c
<1>4. Sorted(c) \in Seq(Flight) /\ Picks(Sorted(c), c, 1 .. Len(c))
  BY <1>3, SortedIs
<1>5. Picks(Sorted(c), F, A)
  BY <1>3, <1>4, PicksOfPicks
<1> QED BY <1>1, <1>4, <1>5 DEF A

\* a list is finite
LEMMA IndicesFinite ==
  ASSUME NEW F \in Seq(Flight)
  PROVE  /\ IsFiniteSet(DOMAIN F)
         /\ \A S \in SUBSET DOMAIN F : IsFiniteSet(S) /\ Cardinality(S) \in Nat
<1>1. IsFiniteSet(DOMAIN F)
  <2>1. DOMAIN F = 1 .. Len(F) /\ Len(F) \in Nat
    OBVIOUS
  <2> QED BY <2>1, FS_Interval
<1> QED BY <1>1, FS_Subset, FS_CardinalityType

\* a flight counts one by itself, and its landing if it has one
LEMMA LenIsWeight ==
  ASSUME NEW e \in Seq(Flight)
  PROVE  Weight([f \in Flight |-> 1], e) = Len(e)
<1> DEFINE v == [f \in Flight |-> 1]
           w == [n \in DOMAIN e |-> v[e[n]]]
<1>1. DOMAIN e = 1 .. Len(e) /\ Len(e) \in Nat /\ \A n \in DOMAIN e : e[n] \in Flight
  OBVIOUS
<1>2. \A n \in DOMAIN e : w[n] = 1
  BY <1>1
<1>3. w \in [DOMAIN e -> {0, 1}]
  BY <1>2
<1>4. IsFiniteSet(DOMAIN e) /\ Cardinality(DOMAIN e) = Len(e)
  BY <1>1, FS_Interval
<1>5. DOMAIN e = {n \in DOMAIN e : w[n] = 1}
  BY <1>2
<1> HIDE DEF w
<1>6. SumFunction(w) = Len(e)
  BY <1>3, <1>4, <1>5, SumOfBits
<1> QED BY <1>6 DEF Weight, w

\* flights with a landing
Landed == {f \in Flight : LandsHere(f) /\ f.landed}

LEMMA LandingsAreWeight ==
  ASSUME NEW e \in Seq(Flight)
  PROVE  LET v == [f \in Flight |-> NumLandings(f)]
         IN  /\ Weight(v, e) = Cardinality({n \in DOMAIN e : e[n] \in Landed})
             /\ Weight(v, e) = PlaneEntry(e).landings
<1> DEFINE v == [f \in Flight |-> NumLandings(f)]
           w == [n \in DOMAIN e |-> v[e[n]]]
<1>1. \A n \in DOMAIN e : e[n] \in Flight
  OBVIOUS
<1>2. \A n \in DOMAIN e : w[n] = NumLandings(e[n])
  BY <1>1
<1>3. \A n \in DOMAIN e : w[n] = IF e[n] \in Landed THEN 1 ELSE 0
  BY <1>1, <1>2 DEF NumLandings, Landed
<1>4. w \in [DOMAIN e -> {0, 1}]
  BY <1>3
<1>5. {n \in DOMAIN e : e[n] \in Landed} = {n \in DOMAIN e : w[n] = 1}
  <2> HIDE DEF w
  <2>1. \A n \in DOMAIN e : e[n] \in Landed <=> w[n] = 1
    BY <1>3
  <2> QED BY <2>1
<1>6. w = [n \in DOMAIN e |-> NumLandings(e[n])]
  BY <1>2
<1>7. PlaneEntry(e).landings = SumFunction(w)
  BY <1>6 DEF PlaneEntry
<1> HIDE DEF w
<1>8. SumFunction(w) = Cardinality({n \in DOMAIN e : w[n] = 1})
  BY <1>4, IndicesFinite, SumOfBits
<1> QED BY <1>5, <1>7, <1>8 DEF Weight, w

\* a plane's entries have its finished flights and their landings, each once
LEMMA PlaneAccounted ==
  ASSUME NEW F \in Seq(Flight), NEW p \in Planes
  PROVE  LET entries == PlaneLog(p, F)
             planes  == PlaneLogs(F)
             here    == {n \in DOMAIN F : Finished(F[n]) /\ Plane(F[n]) = p}
         IN  IF p \in DOMAIN planes
             THEN /\ Cardinality(here) =
                       SumFunction([n \in DOMAIN entries |-> Len(entries[n])])
                  /\ Cardinality({n \in here : F[n] \in Landed}) =
                       SumFunction([n \in DOMAIN planes[p] |-> planes[p][n].landings])
             ELSE Cardinality(here) = 0
<1> DEFINE entries == PlaneLog(p, F)
           planes  == PlaneLogs(F)
           here    == {n \in DOMAIN F : Finished(F[n]) /\ Plane(F[n]) = p}
           r       == OfPlane(p, F)
<1>1. DOMAIN planes = {Plane(f) : f \in AllFinished(F)} \ {InvalidId}
  BY DEF PlaneLogs
<1>2. p # InvalidId
  BY DEF Planes
<1>3. AllFinished(F) = {F[n] : n \in {n \in DOMAIN F : Finished(F[n])}}
  BY DEF AllFinished, Where
<1>4. p \in DOMAIN planes <=> here # {}
  BY <1>1, <1>2, <1>3
<1>5. r \in Seq(Flight) /\ Picks(r, F, here)
  BY FinishedOfPlane
<1>6. entries = LET log == FoldLeft(Accumulate, NoEntries, r)
                IN  Append(log.entries, log.open)
  BY DEF PlaneLog
<1>7. ASSUME p \in DOMAIN planes
      PROVE  planes[p] = [n \in DOMAIN entries |-> PlaneEntry(entries[n])]
  BY <1>7 DEF PlaneLogs
<1> HIDE DEF planes, entries, r
<1>8. CASE p \notin DOMAIN planes
  BY <1>4, <1>8, FS_EmptySet DEF planes
<1>9. CASE p \in DOMAIN planes
  <2>1. Flight # {}
    <3>1. PICK n \in DOMAIN F : TRUE
      BY <1>4, <1>9
    <3>2. F[n] \in Flight
      OBVIOUS
    <3> QED BY <3>2
  <2> DEFINE one   == [f \in Flight |-> 1]
             lands == [f \in Flight |-> NumLandings(f)]
  <2>2. one \in [Flight -> Nat] /\ lands \in [Flight -> Nat]
    <3>1. \A f \in Flight : NumLandings(f) \in Nat
      BY DEF NumLandings
    <3> QED BY <3>1
  <2> HIDE DEF one, lands, here
  <2>3. /\ entries \in Seq(Seq(Flight))
        /\ Weights(one, entries) = Weight(one, r)
        /\ Weights(lands, entries) = Weight(lands, r)
    BY <1>5, <1>6, <2>1, <2>2, LogWeighs
  <2>4. \A n \in DOMAIN entries : entries[n] \in Seq(Flight)
    BY <2>3
  <2>5. [n \in DOMAIN entries |-> Weight(one, entries[n])] =
          [n \in DOMAIN entries |-> Len(entries[n])]
    <3>1. \A n \in DOMAIN entries : Weight(one, entries[n]) = Len(entries[n])
      BY <2>4, LenIsWeight DEF one
    <3> QED BY <3>1
  <2>6. Weights(one, entries) = SumFunction([n \in DOMAIN entries |-> Len(entries[n])])
    BY <2>5 DEF Weights
  <2>7. Weight(one, r) = Cardinality(here)
    <3>1. Weight(one, r) = Len(r)
      BY <1>5, LenIsWeight DEF one
    <3> QED BY <1>5, <3>1, PicksCount
  <2>8. [n \in DOMAIN entries |-> Weight(lands, entries[n])] =
          [n \in DOMAIN planes[p] |-> planes[p][n].landings]
    <3>1. \A n \in DOMAIN entries : Weight(lands, entries[n]) = PlaneEntry(entries[n]).landings
      BY <2>4, LandingsAreWeight DEF lands
    <3>2. /\ DOMAIN planes[p] = DOMAIN entries
          /\ \A n \in DOMAIN entries : planes[p][n] = PlaneEntry(entries[n])
      BY <1>7, <1>9
    <3>3. \A n \in DOMAIN entries : Weight(lands, entries[n]) = planes[p][n].landings
      BY <3>1, <3>2
    <3> QED BY <3>2, <3>3
  <2>9. Weights(lands, entries) =
          SumFunction([n \in DOMAIN planes[p] |-> planes[p][n].landings])
    BY <2>8 DEF Weights
  <2>10. Weight(lands, r) = Cardinality({n \in here : F[n] \in Landed})
    <3>1. Weight(lands, r) = Cardinality({k \in DOMAIN r : r[k] \in Landed})
      BY <1>5, LandingsAreWeight DEF lands
    <3>2. Picks(r, F, here)
      BY <1>5
    <3>3. Cardinality(Those(r, DOMAIN r, Landed)) = Cardinality(Those(F, here, Landed))
      BY <3>2, PicksThose
    <3> QED BY <3>1, <3>3 DEF Those
  <2> QED BY <1>9, <2>3, <2>6, <2>7, <2>9, <2>10 DEF entries, planes, here
<1> QED BY <1>8, <1>9

\* so do the logs of all pilots together
LEMMA PilotsAccounted ==
  ASSUME NEW F \in Seq(Flight)
  PROVE  LET pilots == PilotLogs(F)
         IN  SumFunction([p \in DOMAIN pilots |-> Len(pilots[p])]) =
               Cardinality({n \in DOMAIN F : Finished(F[n]) /\ Pilot(F[n]) # InvalidId})
<1> DEFINE pilots == PilotLogs(F)
           D == DOMAIN pilots
           X == {n \in DOMAIN F : Finished(F[n])}
           g == [n \in DOMAIN F |-> Pilot(F[n])]
           w == [p \in D |-> Len(pilots[p])]
<1>1. D = (UNION {{Pilot(f), Copilot(f)} : f \in AllFinished(F)}) \ {InvalidId}
  BY DEF PilotLogs
<1>2. \A p \in D : pilots[p] = OfPilot(p, F)
  BY DEF PilotLogs
<1>3. AllFinished(F) = {F[n] : n \in X}
  BY DEF AllFinished, Where
<1>4. IsFiniteSet(X)
  BY IndicesFinite
<1>5. IsFiniteSet(D)
  <2> DEFINE a == {Pilot(F[n]) : n \in X}
             b == {Copilot(F[n]) : n \in X}
  <2>1. IsFiniteSet(a) /\ IsFiniteSet(b)
    <3> DEFINE ga == [n \in X |-> Pilot(F[n])]
               gb == [n \in X |-> Copilot(F[n])]
    <3>1. ga \in Surjection(X, a) /\ gb \in Surjection(X, b)
      BY DEF Surjection
    <3> QED BY <1>4, <3>1, FS_Surjection
  <2>2. IsFiniteSet(a \cup b)
    BY <2>1, FS_Union
  <2>3. D \in SUBSET (a \cup b)
    BY <1>1, <1>3
  <2> HIDE DEF a, b, D
  <2> QED BY <2>2, <2>3, FS_Subset
<1> HIDE DEF D, pilots
<1>6. ASSUME NEW p \in D
      PROVE  w[p] = Cardinality({n \in X : g[n] = p}) /\ w[p] \in Nat
  <2>1. Picks(pilots[p], F, {n \in DOMAIN F : Finished(F[n]) /\ Pilot(F[n]) = p})
    BY <1>2, FinishedOfPilot
  <2>2. {n \in X : g[n] = p} = {n \in DOMAIN F : Finished(F[n]) /\ Pilot(F[n]) = p}
    OBVIOUS
  <2>3. Len(pilots[p]) = Cardinality({n \in X : g[n] = p})
    BY <2>1, <2>2, PicksCount
  <2>4. Len(pilots[p]) \in Nat
    BY <2>1 DEF Picks
  <2> QED BY <2>3, <2>4
<1>7. {n \in X : g[n] \in D} =
        {n \in DOMAIN F : Finished(F[n]) /\ Pilot(F[n]) # InvalidId}
  <2>1. ASSUME NEW n \in X PROVE Pilot(F[n]) \in D <=> Pilot(F[n]) # InvalidId
    BY <1>1, <1>3
  <2> QED BY <2>1
<1>8. w \in [D -> Nat]
  BY <1>6
<1> HIDE DEF X, g, w
<1>9. SumFunction(w) = Cardinality({n \in X : g[n] \in D})
  BY <1>4, <1>5, <1>6, <1>8, SumOfCounts
<1> QED BY <1>7, <1>9 DEF w, D, pilots

\* and the launch methods, for the flights that happened
LEMMA MethodsAccounted ==
  ASSUME NEW F \in Seq(Flight)
  PROVE  LET methods == LaunchMethodStatistics(F)
         IN  SumFunction(methods.methods) + methods.towflights =
               Cardinality({n \in DOMAIN F : Happened(F[n]) /\
                              (F[n].tow \/ F[n].kind.method # InvalidId)})
<1> DEFINE X == {n \in DOMAIN F : Happened(F[n]) /\ ~ F[n].tow}
           g == [n \in DOMAIN F |-> F[n].kind.method]
           w == LaunchMethodStatistics(F).methods
           A == {n \in X : g[n] \in Methods}
           B == {n \in DOMAIN F : Happened(F[n]) /\ F[n].tow}
<1>1. \A n \in DOMAIN F : F[n].kind \in Kinds /\ F[n].tow \in BOOLEAN
  <2>1. \A n \in DOMAIN F : F[n] \in Flight
    OBVIOUS
  <2>2. \A f \in Flight : f.kind \in Kinds /\ f.tow \in BOOLEAN
    BY DEF Flight
  <2> QED BY <2>1, <2>2
<1>2. \A n \in DOMAIN F : F[n].kind.method \in Methods <=> F[n].kind.method # InvalidId
  BY <1>1 DEF Methods
<1>3. /\ IsFiniteSet(X) /\ IsFiniteSet(A) /\ IsFiniteSet(B)
  <2>1. X \in SUBSET DOMAIN F /\ A \in SUBSET DOMAIN F /\ B \in SUBSET DOMAIN F
    OBVIOUS
  <2> QED BY <2>1, IndicesFinite
<1>4. ASSUME NEW m \in Methods
      PROVE  w[m] = Cardinality({n \in X : g[n] = m}) /\ w[m] \in Nat
  <2>1. w[m] = Cardinality({n \in DOMAIN F : Happened(F[n]) /\ ~ F[n].tow
                                               /\ F[n].kind.method = m})
    BY DEF LaunchMethodStatistics, Count, Where
  <2>2. {n \in X : g[n] = m} = {n \in DOMAIN F : Happened(F[n]) /\ ~ F[n].tow
                                               /\ F[n].kind.method = m}
    OBVIOUS
  <2>3. {n \in X : g[n] = m} \in SUBSET DOMAIN F
    OBVIOUS
  <2> QED BY <2>1, <2>2, <2>3, IndicesFinite
<1>5. w \in [Methods -> Nat]
  <2>1. w = [m \in Methods |-> w[m]]
    BY DEF LaunchMethodStatistics
  <2> HIDE DEF w
  <2> QED BY <1>4, <2>1
<1>6. LaunchMethodStatistics(F).towflights = Cardinality(B)
  BY DEF LaunchMethodStatistics, Count, Where
<1>7. A \cap B = {}
  OBVIOUS
<1>8. A \cup B = {n \in DOMAIN F : Happened(F[n]) /\
                              (F[n].tow \/ F[n].kind.method # InvalidId)}
  BY <1>1, <1>2
<1> HIDE DEF w, X, g, B
<1>9. SumFunction(w) = Cardinality(A)
  <2>1. IsFiniteSet(Methods)
    BY MethodsAssumption
  <2>2. \A m \in Methods : w[m] = Cardinality({n \in X : g[n] = m})
    BY <1>4
  <2>3. SumFunction(w) = Cardinality({n \in X : g[n] \in Methods})
    <3> HIDE DEF A
    <3> QED BY <1>3, <1>5, <2>1, <2>2, SumOfCounts
  <2> QED BY <2>3
<1> HIDE DEF A
<1>10. Cardinality(A \cup B) = Cardinality(A) + Cardinality(B)
  BY <1>3, <1>7, UnionIs
<1> QED BY <1>6, <1>8, <1>9, <1>10 DEF w

\* the towflights that are made of a list, one of each airtow
LEMMA MakeTowflightsIs ==
  ASSUME NEW l \in Seq(Flight), DistinctIds(l), NEW ty
  PROVE  LET tows == MakeTowflights(l, ty)
         IN  /\ tows \in Seq(Flight) /\ DistinctIds(tows) /\ \A g \in Rows(tows) : g.tow
             /\ Rows(tows) = {MakeTowflight(f) : f \in {f \in Rows(l) : IsAirtow(f, ty)}}
<1> DEFINE A == {n \in DOMAIN l : IsAirtow(l[n], ty)}
           c == Chosen(l, A)
           tows == MakeTowflights(l, ty)
           k == Len(c)
<1>1. tows = [n \in DOMAIN c |-> MakeTowflight(c[n])]
  BY DEF MakeTowflights, Select, Where, Chosen
<1>2. A \in SUBSET DOMAIN l /\ DOMAIN l = 1 .. Len(l)
  OBVIOUS
<1>3. c \in Seq(Flight) /\ Picks(c, l, A)
  BY <1>2, ChosenIs
<1>4. DOMAIN c = 1 .. k /\ k \in Nat /\ \A n \in 1 .. k : c[n] \in Flight
  <2> HIDE DEF c
  <2> QED BY <1>3
<1>5. PICK e \in Bijection(1 .. k, A) : \A n \in 1 .. k : c[n] = l[e[n]]
  BY <1>3 DEF Picks
<1>6. /\ e \in [1 .. k -> A]
      /\ \A i, j \in 1 .. k : e[i] = e[j] => i = j
      /\ \A n \in A : \E i \in 1 .. k : e[i] = n
  BY <1>5 DEF Bijection, Injection, Surjection, IsInjective
<1> HIDE DEF c, tows, k
<1>7. tows \in [1 .. k -> Flight] /\ \A n \in 1 .. k : tows[n] = MakeTowflight(l[e[n]])
                                     /\ tows[n].tow /\ tows[n].id = l[e[n]].id
  BY <1>1, <1>4, <1>5, TowflightIsFlight
<1>8. tows \in Seq(Flight) /\ Len(tows) = k
  BY <1>4, <1>7
<1>9. DistinctIds(tows)
  <2> SUFFICES ASSUME NEW i \in 1 .. k, NEW j \in 1 .. k, tows[i].id = tows[j].id
               PROVE  i = j
    BY <1>8 DEF DistinctIds
  <2>1. l[e[i]].id = l[e[j]].id /\ e[i] \in 1 .. Len(l) /\ e[j] \in 1 .. Len(l)
    BY <1>2, <1>6, <1>7
  <2> QED BY <1>6, <2>1 DEF DistinctIds
<1>10. \A g \in Rows(tows) : g.tow
  BY <1>7, <1>8 DEF Rows
<1> DEFINE M == {MakeTowflight(f) : f \in {f \in Rows(l) : IsAirtow(f, ty)}}
<1>11. ASSUME NEW g \in Rows(tows) PROVE g \in M
  <2>1. PICK n \in 1 .. k : g = tows[n]
    BY <1>8 DEF Rows
  <2>2. e[n] \in A /\ g = MakeTowflight(l[e[n]])
    BY <1>6, <1>7, <2>1
  <2>3. l[e[n]] \in Rows(l) /\ IsAirtow(l[e[n]], ty)
    BY <1>2, <2>2 DEF Rows
  <2> QED BY <2>2, <2>3
<1>12. ASSUME NEW f \in Rows(l), IsAirtow(f, ty) PROVE MakeTowflight(f) \in Rows(tows)
  <2>1. PICK i \in 1 .. Len(l) : f = l[i]
    BY DEF Rows
  <2>2. i \in A
    BY <1>2, <1>12, <2>1
  <2>3. PICK n \in 1 .. k : e[n] = i
    BY <1>6, <2>2
  <2> QED BY <1>7, <1>8, <2>1, <2>3 DEF Rows
<1>13. Rows(tows) = M
  <2>1. Rows(tows) \subseteq M
    BY <1>11
  <2>2. M \subseteq Rows(tows)
    BY <1>12
  <2> QED BY <2>1, <2>2
<1> QED BY <1>8, <1>9, <1>10, <1>13 DEF tows

\* two sequences of the same flights, each once, have as many that happened
LEMMA SameRowsCount ==
  ASSUME NEW a \in Seq(Flight), NEW b \in Seq(Flight), DistinctIds(a), DistinctIds(b),
         Rows(a) = Rows(b)
  PROVE  CountHappened(a) = CountHappened(b)
<1> DEFINE A == {n \in 1 .. Len(a) : Happened(a[n])}
           B == {n \in 1 .. Len(b) : Happened(b[n])}
           f == [n \in A |-> CHOOSE m \in 1 .. Len(b) : b[m] = a[n]]
<1>1. CountHappened(a) = Cardinality(A) /\ CountHappened(b) = Cardinality(B)
  <2>1. DOMAIN a = 1 .. Len(a) /\ DOMAIN b = 1 .. Len(b)
    OBVIOUS
  <2> QED BY <2>1 DEF CountHappened, Count, Where
<1>2. \A n \in A : f[n] \in 1 .. Len(b) /\ b[f[n]] = a[n]
  <2>1. \A n \in A : \E m \in 1 .. Len(b) : b[m] = a[n]
    BY DEF Rows
  <2> QED BY <2>1
<1>3. f \in Bijection(A, B)
  <2>1. f \in [A -> B]
    <3>1. \A n \in A : f[n] \in B
      BY <1>2
    <3>2. f = [n \in A |-> f[n]]
      OBVIOUS
    <3> HIDE DEF f, A, B
    <3> QED BY <3>1, <3>2
  <2>2. \A i, j \in A : f[i] = f[j] => i = j
    <3> HIDE DEF f
    <3> QED BY <1>2 DEF DistinctIds
  <2>3. ASSUME NEW m \in B PROVE \E n \in A : f[n] = m
    <3>1. PICK n \in 1 .. Len(a) : a[n] = b[m]
      BY DEF Rows
    <3>2. n \in A
      BY <3>1
    <3>3. f[n] \in 1 .. Len(b) /\ b[f[n]].id = b[m].id
      BY <1>2, <3>1, <3>2
    <3> HIDE DEF f
    <3>4. f[n] = m
      BY <3>3 DEF DistinctIds
    <3> QED BY <3>2, <3>4
  <2>4. DOMAIN f = A
    OBVIOUS
  <2> HIDE DEF f, A, B
  <2> QED BY <2>1, <2>2, <2>3, <2>4 DEF Bijection, Injection, Surjection, IsInjective
<1>4. ExistsBijection(A, B)
  BY <1>3 DEF ExistsBijection
<1>5. IsFiniteSet(A)
  <2>1. A \in SUBSET DOMAIN a
    OBVIOUS
  <2> QED BY <2>1, IndicesFinite
<1> HIDE DEF A, B
<1> QED BY <1>1, <1>4, <1>5, FS_Bijection

\* the towflights that the table keeps are those that the statistics make
LEMMA SameTowflights ==
  ASSUME IInv, stale = {}
  PROVE  LET flights == table.list \o MakeTowflights(table.list, types)
         IN  /\ flights \in Seq(Flight)
             /\ Cardinality({n \in DOMAIN flights : Happened(flights[n]) /\ flights[n].tow})
                  = CountHappened(table.tows)
<1> DEFINE l == table.list
           s == table.tows
           t == MakeTowflights(l, types)
           F == l \o t
<1>1. /\ l \in Seq(Flight) /\ s \in Seq(Flight) /\ DistinctIds(l) /\ DistinctIds(s)
      /\ \A g \in Rows(s) : \E f \in Rows(l) : f.id = g.id
      /\ \A f \in Rows(l) : TowRight(Rows(s), f, types) /\ ~ f.tow
  BY DEF IInv, TableInv, Good, Shown, RowsInv, RowRight
<1>2. /\ t \in Seq(Flight) /\ DistinctIds(t) /\ \A g \in Rows(t) : g.tow
      /\ Rows(t) = {MakeTowflight(f) : f \in {f \in Rows(l) : IsAirtow(f, types)}}
  BY <1>1, MakeTowflightsIs
<1> HIDE DEF l, s, t
<1>3. Rows(s) = Rows(t)
  <2>1. ASSUME NEW g \in Rows(t) PROVE g \in Rows(s)
    BY <1>1, <1>2 DEF TowRight
  <2>2. ASSUME NEW g \in Rows(s) PROVE g \in Rows(t)
    <3>1. PICK f \in Rows(l) : f.id = g.id
      BY <1>1
    <3>2. f \in Flight
      BY <1>1, RowsAreFlights
    <3>3. IsAirtow(f, types) /\ MakeTowflight(f) \in Rows(s)
      BY <1>1, <3>1 DEF TowRight
    <3>4. MakeTowflight(f).id = g.id
      BY <3>1, <3>2, TowflightIsFlight
    <3>5. MakeTowflight(f) = g
      BY <1>1, <3>3, <3>4, SameId
    <3> QED BY <1>2, <3>3, <3>5
  <2> QED BY <2>1, <2>2
<1>4. CountHappened(t) = CountHappened(s)
  BY <1>1, <1>2, <1>3, SameRowsCount
<1>5. /\ Len(F) = Len(l) + Len(t) /\ Len(l) \in Nat /\ Len(t) \in Nat
      /\ DOMAIN F = 1 .. Len(F)
      /\ \A i \in 1 .. Len(l) + Len(t) : F[i] = IF i <= Len(l) THEN l[i] ELSE t[i - Len(l)]
  BY <1>1, <1>2, ConcatIs
<1>6. F \in Seq(Flight)
  BY <1>1, <1>2, ConcatProperties
<1> DEFINE A == {n \in 1 .. Len(t) : Happened(t[n])}
           B == {n \in DOMAIN F : Happened(F[n]) /\ F[n].tow}
           f == [n \in A |-> Len(l) + n]
<1> HIDE DEF F
<1>7. CountHappened(t) = Cardinality(A) /\ IsFiniteSet(A)
  <2>1. DOMAIN t = 1 .. Len(t)
    BY <1>2
  <2>2. A \in SUBSET DOMAIN t
    BY <2>1
  <2> QED BY <1>2, <2>1, <2>2, IndicesFinite DEF CountHappened, Count, Where
<1>8. f \in Bijection(A, B)
  <2>1. ASSUME NEW n \in A PROVE f[n] \in B
    <3>1. Len(l) + n \in 1 .. Len(l) + Len(t) /\ ~ (Len(l) + n <= Len(l))
          /\ (Len(l) + n) - Len(l) = n
      BY <1>5
    <3>2. F[Len(l) + n] = t[n] /\ t[n] \in Rows(t)
      BY <1>5, <3>1 DEF Rows
    <3> QED BY <1>2, <1>5, <3>1, <3>2
  <2>2. \A i, j \in A : f[i] = f[j] => i = j
    BY <1>5
  <2>3. ASSUME NEW m \in B PROVE \E n \in A : f[n] = m
    <3>1. m \in 1 .. Len(l) + Len(t)
      BY <1>5
    <3>2. ~ (m <= Len(l))
      <4> SUFFICES ASSUME m <= Len(l) PROVE FALSE
        OBVIOUS
      <4>1. m \in 1 .. Len(l) /\ F[m] = l[m]
        BY <1>5, <3>1
      <4> QED BY <1>1, <4>1 DEF Rows
    <3>3. m - Len(l) \in 1 .. Len(t) /\ F[m] = t[m - Len(l)] /\ Len(l) + (m - Len(l)) = m
      BY <1>5, <3>1, <3>2
    <3>4. m - Len(l) \in A
      BY <3>3
    <3> QED BY <3>3, <3>4
  <2>4. DOMAIN f = A
    OBVIOUS
  <2>5. f \in [A -> B]
    <3> HIDE DEF A, B
    <3> QED BY <2>1
  <2> HIDE DEF f, A, B
  <2> QED BY <2>2, <2>3, <2>4, <2>5 DEF Bijection, Injection, Surjection, IsInjective
<1>9. ExistsBijection(A, B)
  BY <1>8 DEF ExistsBijection
<1> HIDE DEF A
<1>10. Cardinality(A) = Cardinality(B)
  BY <1>7, <1>9, FS_Bijection
<1> QED BY <1>4, <1>6, <1>7, <1>10 DEF F, l, s, t

(* LogsAccountForAll, for any flights, kinds and days: the loop that makes *)
(* the entries of a plane, and the statistics of pilots and launch         *)
(* methods, lose and repeat no flight that is over; the towflights that    *)
(* the statistics make are as many as those that the table keeps.          *)
THEOREM LogsAreComplete == Spec => []LogsAccountForAll
<1>1. IInv => LogsAccountForAll
  <2> SUFFICES ASSUME IInv PROVE LogsAccountForAll
    OBVIOUS
  <2> DEFINE F == table.list \o MakeTowflights(table.list, types)
             planes  == PlaneLogs(F)
             pilots  == PilotLogs(F)
             methods == LaunchMethodStatistics(F)
  <2>1. F \in Seq(Flight)
    <3>1. table.list \in Seq(Flight) /\ DistinctIds(table.list)
      BY DEF IInv, TableInv, Good, Shown
    <3>2. MakeTowflights(table.list, types) \in Seq(Flight)
      BY <3>1, MakeTowflightsIs
    <3> QED BY <3>1, <3>2, ConcatProperties
  <2>2. stale = {} => Cardinality({n \in DOMAIN F : Happened(F[n]) /\ F[n].tow})
                        = CountHappened(table.tows)
    BY SameTowflights
  <2> HIDE DEF F
  <2>3. stale = {} => methods.towflights = CountHappened(table.tows)
    BY <2>2 DEF LaunchMethodStatistics, Count, Where
  <2>4. ASSUME NEW p \in Planes
        PROVE  LET entries  == PlaneLog(p, F)
                   Here(f)  == Finished(f) /\ Plane(f) = p
                   Lands(f) == Here(f) /\ LandsHere(f) /\ f.landed
               IN  IF p \in DOMAIN planes
                   THEN /\ Count(F, Here) =
                             SumFunction([n \in DOMAIN entries |-> Len(entries[n])])
                        /\ Count(F, Lands) =
                             SumFunction([n \in DOMAIN planes[p] |-> planes[p][n].landings])
                   ELSE Count(F, Here) = 0
    <3> DEFINE Here(f)  == Finished(f) /\ Plane(f) = p
               Lands(f) == Here(f) /\ LandsHere(f) /\ f.landed
               here     == {n \in DOMAIN F : Finished(F[n]) /\ Plane(F[n]) = p}
    <3>1. Count(F, Here) = Cardinality(here)
      BY DEF Count, Where
    <3>2. Count(F, Lands) = Cardinality({n \in here : F[n] \in Landed})
      <4>1. \A n \in DOMAIN F : F[n] \in Flight
        BY <2>1
      <4>2. {n \in DOMAIN F : Lands(F[n])} = {n \in here : F[n] \in Landed}
        BY <4>1 DEF Landed
      <4> QED BY <4>2 DEF Count, Where
    <3> QED BY <2>1, <3>1, <3>2, PlaneAccounted
  <2>5. SumFunction([p \in DOMAIN pilots |-> Len(pilots[p])]) =
          Count(F, LAMBDA f : Finished(f) /\ Pilot(f) # InvalidId)
    BY <2>1, PilotsAccounted DEF Count, Where
  <2>6. SumFunction(methods.methods) + methods.towflights =
          Count(F, LAMBDA f : Happened(f) /\ (f.tow \/ f.kind.method # InvalidId))
    BY <2>1, MethodsAccounted DEF Count, Where
  <2> HIDE DEF planes, pilots, methods
  <2> QED BY <2>3, <2>4, <2>5, <2>6 DEF LogsAccountForAll, planes, pilots, methods, F
<1> QED BY <1>1, Invariant, PTL

-----------------------------------------------------------------------------
(* The types *)

\* the list has room for the labels: no more flights than there are ids
LEMMA CountsFit ==
  ASSUME NEW s \in Seq(Flight), DistinctIds(s)
  PROVE  CountHappened(s) \in 0 .. MaxFlights /\ CountFlying(s) \in 0 .. MaxFlights
<1> DEFINE D == 1 .. Len(s)
           f == [n \in D |-> s[n].id]
<1>1. DOMAIN s = D /\ Len(s) \in Nat /\ MaxFlights \in Nat /\ \A n \in D : s[n].id \in Ids
  <2>1. \A g \in Flight : g.id \in Ids
    BY DEF Flight
  <2>2. MaxFlights \in Nat
    BY SizesAssumption
  <2> QED BY <2>1, <2>2
<1>2. IsFiniteSet(Ids) /\ Cardinality(Ids) = MaxFlights
  BY <1>1, FS_Interval DEF Ids
<1>3. f \in Injection(D, Ids)
  <2>1. f \in [D -> Ids]
    BY <1>1
  <2>2. \A i, j \in D : f[i] = f[j] => i = j
    BY DEF DistinctIds
  <2>3. DOMAIN f = D
    OBVIOUS
  <2> HIDE DEF f, D
  <2> QED BY <2>1, <2>2, <2>3 DEF Injection, IsInjective
<1>4. Cardinality(D) <= MaxFlights
  BY <1>2, <1>3, FS_Injection DEF ExistsInjection
<1>5. ASSUME NEW W \in SUBSET D PROVE Cardinality(W) \in 0 .. MaxFlights
  <2>1. IsFiniteSet(D) /\ Cardinality(D) \in Nat
    BY <1>1, FS_Interval, FS_CardinalityType
  <2>2. Cardinality(W) \in Nat /\ Cardinality(W) <= Cardinality(D)
    BY <2>1, FS_Subset, FS_CardinalityType
  <2> HIDE DEF D
  <2> QED BY <1>1, <1>4, <2>1, <2>2
<1> HIDE DEF D
<1>6. CountHappened(s) \in 0 .. MaxFlights
  <2> DEFINE W == {n \in D : Happened(s[n])}
  <2>1. CountHappened(s) = Cardinality(W)
    BY <1>1 DEF CountHappened, Count, Where
  <2>2. W \in SUBSET D
    OBVIOUS
  <2> HIDE DEF W
  <2> QED BY <1>5, <2>1, <2>2
<1>7. CountFlying(s) \in 0 .. MaxFlights
  <2> DEFINE W == {n \in D : IsFlying(s[n])}
  <2>1. CountFlying(s) = Cardinality(W)
    BY <1>1 DEF CountFlying, Count, Where
  <2>2. W \in SUBSET D
    OBVIOUS
  <2> HIDE DEF W
  <2> QED BY <1>5, <2>1, <2>2
<1> QED BY <1>6, <1>7

\* what the invariant does not need: that each row is as it can be entered
RestInv ==
  /\ \A id \in DOMAIN rows : rows[id] \in Entered(id)
  /\ stale \subseteq Ids /\ enabled \in BOOLEAN /\ showPrepared \in BOOLEAN

\* flights of a day that has begun stay such
LEMMA EnteredStays ==
  ASSUME NEW id, today \in Nat, today' \in Nat, today <= today', NEW f \in Entered(id)
  PROVE  f \in Entered(id)'
<1>1. (1 .. today) \cup {NoDay} \subseteq (1 .. today') \cup {NoDay}
  OBVIOUS
<1>2. /\ f \in [id : {id}, kind : Kinds, day : (1 .. today) \cup {NoDay},
                landed : BOOLEAN, towLanded : BOOLEAN, tow : {FALSE}]
      /\ f.kind.mode = "coming" => (f.landed <=> f.day # NoDay)
      /\ f.landed => f.kind.mode # "leaving" /\ f.day # NoDay
      /\ f.towLanded => f.kind.towplane # InvalidId /\ f.day # NoDay
      /\ f.landed /\ f.kind.towplane # InvalidId => f.towLanded
  BY DEF Entered
<1>3. f \in [id : {id}, kind : Kinds, day : (1 .. today') \cup {NoDay},
             landed : BOOLEAN, towLanded : BOOLEAN, tow : {FALSE}]
  BY <1>1, <1>2
<1> QED BY <1>2, <1>3 DEF Entered

LEMMA RefreshRest ==
  ASSUME NEW t, RefreshFlights(t), showPrepared \in BOOLEAN
  PROVE  stale' = {} /\ showPrepared' \in BOOLEAN
BY DEF RefreshFlights

LEMMA DisplayRest ==
  ASSUME NEW t, NEW date, SetDisplayDate(t, date), showPrepared \in BOOLEAN
  PROVE  stale' \subseteq stale /\ showPrepared' \in BOOLEAN
<1>1. \/ RefreshFlights(t)
      \/ UNCHANGED <<showPrepared, stale>>
  BY DEF SetDisplayDate
<1> QED BY <1>1, RefreshRest

LEMMA AddedRest ==
  ASSUME NEW f, FlightAdded(f), showPrepared \in BOOLEAN
  PROVE  stale' \subseteq stale /\ showPrepared' \in BOOLEAN
<1>1. \/ UNCHANGED <<showPrepared, stale>>
      \/ \E t, date : SetDisplayDate(t, date)
  BY DEF FlightAdded
<1> QED BY <1>1, DisplayRest

LEMMA RestNext ==
  ASSUME IInv, IInv', RestInv, [Next]_vars
  PROVE  RestInv'
<1>1. today \in Nat /\ today' \in Nat /\ \A id \in DOMAIN rows : id \in Ids
  <2>1. today \in Days /\ today' \in Days /\ lastId \in 0 .. MaxFlights
        /\ DOMAIN rows \subseteq 1 .. lastId
    BY DEF IInv, RowsInv
  <2>2. LastDay \in Nat /\ MaxFlights \in Nat
    BY SizesAssumption
  <2> QED BY <2>1, <2>2 DEF Days, Ids
<1>2. ASSUME today <= today' PROVE \A id \in DOMAIN rows : rows[id] \in Entered(id)'
  BY <1>1, <1>2, EnteredStays DEF RestInv
<1>3. CASE Create
  <2>1. PICK f \in Entered(lastId') :
          /\ rows' = [id \in DOMAIN rows \cup {f.id} |-> IF id = f.id THEN f ELSE rows[id]]
          /\ FlightAdded(f)
    BY <1>3 DEF Create
  <2>2. UNCHANGED <<today, enabled>>
    BY <1>3 DEF Create, Elsewhere
  <2>3. f.id = lastId' /\ f \in Entered(f.id)'
    <3>1. f.id = lastId'
      BY DEF Entered
    <3> QED BY <3>1, <1>1, <2>2, EnteredStays
  <2>4. \A id \in DOMAIN rows : rows[id] \in Entered(id)'
    BY <1>1, <1>2, <2>2
  <2>5. \A id \in DOMAIN rows' : rows'[id] \in Entered(id)'
    BY <2>1, <2>3, <2>4
  <2>6. stale' \subseteq stale /\ showPrepared' \in BOOLEAN
    BY <2>1, AddedRest DEF RestInv
  <2> QED BY <2>2, <2>5, <2>6 DEF RestInv
<1>4. ASSUME NEW id \in Ids, Change(id) PROVE RestInv'
  <2>1. PICK f \in Entered(id) : rows' = [rows EXCEPT ![id] = f] /\ FlightChanged(f)
    BY <1>4 DEF Change
  <2>2. UNCHANGED <<today, enabled>> /\ id \in DOMAIN rows
    BY <1>4 DEF Change, Elsewhere
  <2>3. f.id = id /\ f \in Entered(id)'
    <3>1. f.id = id
      BY DEF Entered
    <3> QED BY <3>1, <1>1, <2>2, EnteredStays
  <2>4. \A i \in DOMAIN rows : rows[i] \in Entered(i)'
    BY <1>1, <1>2, <2>2
  <2>5. \A i \in DOMAIN rows' : rows'[i] \in Entered(i)'
    BY <2>1, <2>3, <2>4
  <2>6. stale' \subseteq stale \cup {id} /\ UNCHANGED showPrepared
    BY <2>1, <2>3 DEF FlightChanged
  <2> QED BY <2>2, <2>5, <2>6 DEF RestInv
<1>5. ASSUME NEW id \in Ids, Delete(id) PROVE RestInv'
  <2>1. /\ rows' = [i \in DOMAIN rows \ {id} |-> rows[i]]
        /\ stale' = stale \ {id} /\ UNCHANGED <<showPrepared, today, enabled>>
    BY <1>5 DEF Delete, FlightDeleted, Elsewhere
  <2>2. \A i \in DOMAIN rows : rows[i] \in Entered(i)'
    BY <1>1, <1>2, <2>1
  <2>3. \A i \in DOMAIN rows' : rows'[i] \in Entered(i)'
    BY <2>1, <2>2
  <2> QED BY <2>1, <2>3 DEF RestInv
<1>6. ASSUME NEW m \in Methods, ChangeMethod(m) PROVE RestInv'
  <2>1. /\ stale' = stale \cup {table.list[n].id : n \in
                      {n \in DOMAIN table.list : table.list[n].kind.method = m}}
        /\ UNCHANGED <<rows, showPrepared, today, enabled>>
    BY <1>6 DEF ChangeMethod
  <2>2. \A n \in DOMAIN table.list : table.list[n].id \in Ids
    <3>1. table.list \in Seq(Flight)
      BY DEF IInv, TableInv, Good, Shown
    <3>2. \A n \in DOMAIN table.list : table.list[n] \in Flight
      BY <3>1
    <3> QED BY <3>2 DEF Flight
  <2>3. \A i \in DOMAIN rows : rows[i] \in Entered(i)'
    BY <1>1, <1>2, <2>1
  <2> QED BY <2>1, <2>2, <2>3 DEF RestInv
<1>7. ASSUME UNCHANGED <<rows, today>>, stale' \subseteq stale, enabled' \in BOOLEAN,
             showPrepared' \in BOOLEAN
      PROVE  RestInv'
  <2>1. \A i \in DOMAIN rows : rows[i] \in Entered(i)'
    BY <1>1, <1>2, <1>7
  <2> QED BY <1>7, <2>1 DEF RestInv
<1>8. ASSUME NEW date \in Days, SelectDate(date) PROVE RestInv'
  <2>1. UNCHANGED <<rows, today, enabled>> /\ SetDisplayDate(table, date)
    BY <1>8 DEF SelectDate, Stored, Elsewhere
  <2> QED BY <1>7, <2>1, DisplayRest DEF RestInv
<1>9. CASE Fetch \/ Cancel
  <2>1. UNCHANGED <<rows, today, enabled, stale, showPrepared>>
    BY <1>9 DEF Fetch, Cancel, Stored, Elsewhere
  <2> QED BY <1>7, <2>1 DEF RestInv
<1>10. CASE Fetched \/ RefreshAll \/ RefreshTable \/ Disconnect \/ Connect
  <2>1. UNCHANGED <<rows, today>> /\ RefreshFlights(table)
        /\ (enabled' \in BOOLEAN \/ UNCHANGED enabled)
    BY <1>10 DEF Fetched, RefreshAll, RefreshTable, Disconnect, Connect, Stored, Elsewhere
  <2> QED BY <1>7, <2>1, RefreshRest DEF RestInv
<1>11. CASE Midnight
  <2>1. today' = today + 1 /\ UNCHANGED <<rows, enabled, stale, showPrepared>>
    BY <1>11 DEF Midnight, Stored
  <2>2. \A i \in DOMAIN rows : rows[i] \in Entered(i)'
    BY <1>1, <1>2, <2>1
  <2> QED BY <2>1, <2>2 DEF RestInv
<1>12. CASE UNCHANGED vars
  <2>1. UNCHANGED <<rows, today, enabled, stale, showPrepared>>
    BY <1>12 DEF vars
  <2> QED BY <1>7, <2>1 DEF RestInv
<1> QED BY <1>3, <1>4, <1>5, <1>6, <1>8, <1>9, <1>10, <1>11, <1>12 DEF Next

(* TypeOK, for any kinds of flights and days: also that what is stored is  *)
(* what can be entered, in particular that no towplane is in the air when  *)
(* its glider has landed, and that the labels stay within the ids.         *)
THEOREM TableTypeCorrect == Spec => []TypeOK
<1>1. Init => RestInv
  <2> SUFFICES ASSUME Init PROVE RestInv
    OBVIOUS
  <2>1. DOMAIN rows = {} /\ stale = {} /\ enabled = FALSE /\ showPrepared = TRUE
    BY DEF Init
  <2> QED BY <2>1 DEF RestInv
<1>2. IInv /\ IInv' /\ RestInv /\ [Next]_vars => RestInv'
  BY RestNext
<1>3. IInv /\ RestInv => TypeOK
  <2> SUFFICES ASSUME IInv, RestInv PROVE TypeOK
    OBVIOUS
  <2>1. /\ table.list \in Seq(Flight) /\ table.tows \in Seq(Flight)
        /\ table.view = table.list \o table.tows /\ DistinctIds(table.list)
        /\ LabelsRight(table, enabled)
    BY DEF IInv, TableInv, Good, Shown
  <2>2. table.view \in Seq(Flight)
    BY <2>1, ConcatProperties
  <2>3. \A part \in {table.list, table.tows, table.view} :
          \A n \in DOMAIN part : part[n] \in Flight
    <3>1. \A s \in Seq(Flight) : \A n \in DOMAIN s : s[n] \in Flight
      OBVIOUS
    <3>2. \A part \in {table.list, table.tows, table.view} : part \in Seq(Flight)
      BY <2>1, <2>2
    <3> QED BY <3>1, <3>2
  <2>4. {table.active, table.total} \subseteq {NoNumber} \cup 0 .. MaxFlights
    BY <2>1, CountsFit DEF LabelsRight
  <2>5. \A id \in DOMAIN rows : rows[id] \in Entered(id)
    BY DEF RestInv
  <2>6. /\ today \in Days /\ types \in Types /\ displayDate \in Days
        /\ DOMAIN rows \subseteq 1 .. lastId /\ lastId \in 0 .. MaxFlights
    BY DEF IInv, RowsInv
  <2>7. /\ \A l \in Lists : cache.lists[l] \subseteq DOMAIN rows
        /\ {cache.todayDate, cache.otherDate} \subseteq Days \cup {NoDay}
    BY DEF IInv, CacheInv
  <2>8. fetch \in [date : Days \cup {NoDay}, stage : {"none", "waiting", "fetched",
                                                       "canceled"}]
    BY DEF IInv, FetchInv
  <2> QED BY <2>3, <2>4, <2>5, <2>6, <2>7, <2>8 DEF TypeOK, RestInv
<1> QED BY <1>1, <1>2, <1>3, Invariant, PTL DEF Spec
=============================================================================
