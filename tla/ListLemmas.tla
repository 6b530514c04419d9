----------------------------- MODULE ListLemmas -----------------------------
(* What the list operators of the models do to the set of entries of a list   *)
(* and to a list without repetitions. The proof modules cite these facts.     *)
EXTENDS Lists, FiniteSetTheorems, TLAPS

(* A list with no entry twice.                                                *)
Distinct(s) == \A i, j \in DOMAIN s : s[i] = s[j] => i = j

(* The entries of the empty list.                                             *)
LEMMA EmptyEntries == Range(<<>>) = {} /\ Distinct(<<>>)
  BY DEF Range, Distinct

(* A list of length zero is the empty list.                                   *)
LEMMA NoEntries == ASSUME NEW S, NEW s \in Seq(S) PROVE Len(s) = 0 <=> s = <<>>
  OBVIOUS

(* What it is to be an entry.                                                 *)
LEMMA Member == ASSUME NEW s, NEW x PROVE x \in Range(s) <=> \E i \in DOMAIN s : s[i] = x
  BY Zenon DEF Range

(* The entries of a list are elements of its base set, and a list with        *)
(* entries is not empty.                                                      *)
LEMMA EntriesOf ==
    ASSUME NEW S, NEW s \in Seq(S)
    PROVE  /\ Range(s) \subseteq S
           /\ s # <<>> => Head(s) \in Range(s)
           /\ Range(s) = {} => s = <<>>
<1>1. DOMAIN s = 1 .. Len(s) /\ \A i \in 1 .. Len(s) : s[i] \in S
  OBVIOUS
<1>2. s # <<>> => 1 \in 1 .. Len(s) /\ Head(s) = s[1]
  OBVIOUS
<1>3. s # <<>> => Head(s) \in Range(s)
  BY <1>1, <1>2, Member, Zenon
<1>4. Range(s) \subseteq S
  BY <1>1, Member
<1> QED BY <1>3, <1>4, Zenon

(* Taking the first entry.                                                    *)
LEMMA TailEntries ==
    ASSUME NEW S, NEW s \in Seq(S), s # <<>>
    PROVE  /\ Head(s) \in S /\ Tail(s) \in Seq(S)
           /\ Range(s) = {Head(s)} \cup Range(Tail(s))
           /\ Distinct(s) => Distinct(Tail(s)) /\ Range(Tail(s)) = Range(s) \ {Head(s)}
<1>1. /\ Head(s) \in S /\ Tail(s) \in Seq(S) /\ Len(Tail(s)) = Len(s) - 1
      /\ \A i \in 1 .. Len(s) - 1 : Tail(s)[i] = s[i + 1]
      /\ Head(s) = s[1] /\ Len(s) \in Nat \ {0}
  OBVIOUS
<1>2. DOMAIN s = 1 .. Len(s) /\ DOMAIN Tail(s) = 1 .. Len(s) - 1
  BY <1>1
<1>3. \A i \in 1 .. Len(s) : i = 1 \/ (i - 1 \in 1 .. Len(s) - 1 /\ s[i] = Tail(s)[i - 1])
  BY <1>1
<1>4. Range(s) = {Head(s)} \cup Range(Tail(s))
  <2>1. \A i \in DOMAIN Tail(s) : i + 1 \in DOMAIN s /\ s[i + 1] = Tail(s)[i]
    BY <1>1, <1>2
  <2>2. 1 \in DOMAIN s
    BY <1>1, <1>2
  <2>3. ASSUME NEW x, x \in Range(s) PROVE x = Head(s) \/ x \in Range(Tail(s))
    <3>1. PICK i \in 1 .. Len(s) : s[i] = x
      BY <2>3, <1>2, Member, Zenon
    <3> QED BY <3>1, <1>1, <1>2, <1>3, Member, Zenon
  <2>4. ASSUME NEW x, x \in Range(Tail(s)) PROVE x \in Range(s)
    <3>1. PICK i \in DOMAIN Tail(s) : Tail(s)[i] = x
      BY <2>4, Member, Zenon
    <3> QED BY <3>1, <2>1, Member, Zenon
  <2>5. Head(s) \in Range(s)
    BY <1>1, <2>2, Member, Zenon
  <2> QED BY <2>3, <2>4, <2>5, Zenon
<1>5. ASSUME Distinct(s) PROVE Distinct(Tail(s)) /\ Head(s) \notin Range(Tail(s))
  <2>1. \A i \in 1 .. Len(s) - 1 : i + 1 \in 1 .. Len(s)
    BY <1>1
  <2> QED BY <1>1, <1>2, <1>5, <2>1 DEF Distinct, Range
<1> QED BY <1>1, <1>4, <1>5, Zenon

(* Adding an entry at the end.                                                *)
LEMMA AppendEntries ==
    ASSUME NEW S, NEW s \in Seq(S), NEW e \in S
    PROVE  /\ Append(s, e) \in Seq(S)
           /\ Range(Append(s, e)) = Range(s) \cup {e}
           /\ Distinct(s) /\ e \notin Range(s) => Distinct(Append(s, e))
<1> DEFINE t == Append(s, e)
<1>1. /\ t \in Seq(S) /\ Len(t) = Len(s) + 1 /\ Len(s) \in Nat
      /\ \A i \in 1 .. Len(s) : t[i] = s[i]
      /\ t[Len(s) + 1] = e
  OBVIOUS
<1>2. DOMAIN s = 1 .. Len(s) /\ DOMAIN t = 1 .. Len(s) + 1
  BY <1>1
<1> HIDE DEF t
<1>3. Range(t) = Range(s) \cup {e}
  <2>1. \A i \in 1 .. Len(s) : i \in 1 .. Len(s) + 1
    BY <1>1
  <2>2. \A i \in 1 .. Len(s) + 1 : i \in 1 .. Len(s) \/ i = Len(s) + 1
    BY <1>1
  <2>3. Len(s) + 1 \in 1 .. Len(s) + 1
    BY <1>1
  <2>4. ASSUME NEW x PROVE x \in Range(t) <=> x \in Range(s) \/ x = e
    BY <1>1, <1>2, <2>1, <2>2, <2>3, Member
  <2> QED BY <2>4, Zenon
<1>4. Distinct(s) /\ e \notin Range(s) => Distinct(t)
  BY <1>1, <1>2 DEF Range, Distinct
<1> QED BY <1>1, <1>3, <1>4, Zenon DEF t

(* The places of two lists joined.                                            *)
LEMMA Joined ==
    ASSUME NEW S, NEW s \in Seq(S), NEW t \in Seq(S)
    PROVE  /\ s \o t \in Seq(S) /\ Len(s \o t) = Len(s) + Len(t)
           /\ Len(s) \in Nat /\ Len(t) \in Nat
           /\ \A i \in 1 .. Len(s) + Len(t) :
                (s \o t)[i] = IF i <= Len(s) THEN s[i] ELSE t[i - Len(s)]
  OBVIOUS

(* Joining two lists.                                                         *)
LEMMA ConcatEntries ==
    ASSUME NEW S, NEW s \in Seq(S), NEW t \in Seq(S)
    PROVE  /\ s \o t \in Seq(S)
           /\ Range(s \o t) = Range(s) \cup Range(t)
           /\ Distinct(s) /\ Distinct(t) /\ Range(s) \cap Range(t) = {} => Distinct(s \o t)
<1> DEFINE u == s \o t
<1>1. /\ u \in Seq(S) /\ Len(u) = Len(s) + Len(t) /\ Len(s) \in Nat /\ Len(t) \in Nat
      /\ \A i \in 1 .. Len(s) + Len(t) : u[i] = IF i <= Len(s) THEN s[i] ELSE t[i - Len(s)]
  BY Joined, Zenon
<1>2. /\ DOMAIN s = 1 .. Len(s) /\ DOMAIN t = 1 .. Len(t)
      /\ DOMAIN u = 1 .. Len(s) + Len(t)
  BY <1>1
<1> HIDE DEF u
<1>3. \A i \in 1 .. Len(s) : i \in DOMAIN u /\ u[i] = s[i]
  BY <1>1, <1>2
<1>4. \A i \in 1 .. Len(t) : i + Len(s) \in DOMAIN u /\ u[i + Len(s)] = t[i]
  <2> SUFFICES ASSUME NEW i \in 1 .. Len(t)
               PROVE  i + Len(s) \in DOMAIN u /\ u[i + Len(s)] = t[i]
    BY Zenon
  <2>1. i + Len(s) \in 1 .. Len(s) + Len(t) /\ ~(i + Len(s) <= Len(s)) /\ (i + Len(s)) - Len(s) = i
    BY <1>1
  <2> QED BY <1>1, <1>2, <2>1, Zenon
<1>5. \A i \in DOMAIN u : \/ i \in 1 .. Len(s) /\ u[i] = s[i]
                          \/ i - Len(s) \in 1 .. Len(t) /\ u[i] = t[i - Len(s)]
  BY <1>1, <1>2
<1>6. Range(u) = Range(s) \cup Range(t)
  <2>1. ASSUME NEW x, x \in Range(u) PROVE x \in Range(s) \/ x \in Range(t)
    <3>1. PICK i \in DOMAIN u : u[i] = x
      BY <2>1, Member, Zenon
    <3> QED BY <3>1, <1>2, <1>5, Member, Zenon
  <2>2. ASSUME NEW x, x \in Range(s) PROVE x \in Range(u)
    <3>1. PICK i \in DOMAIN s : s[i] = x
      BY <2>2, Member, Zenon
    <3> QED BY <3>1, <1>2, <1>3, Member, Zenon
  <2>3. ASSUME NEW x, x \in Range(t) PROVE x \in Range(u)
    <3>1. PICK i \in DOMAIN t : t[i] = x
      BY <2>3, Member, Zenon
    <3> QED BY <3>1, <1>2, <1>4, Member, Zenon
  <2> QED BY <2>1, <2>2, <2>3, Zenon
<1>7. ASSUME Distinct(s), Distinct(t), Range(s) \cap Range(t) = {},
             NEW i \in DOMAIN u, NEW j \in DOMAIN u, u[i] = u[j]
      PROVE  i = j
  <2>1. CASE i \in 1 .. Len(s) /\ j \in 1 .. Len(s)
    BY <2>1, <1>2, <1>3, <1>7, Zenon DEF Distinct
  <2>2. CASE i \notin 1 .. Len(s) /\ j \notin 1 .. Len(s)
    <3>1. i - Len(s) = j - Len(s)
      BY <2>2, <1>2, <1>5, <1>7, Zenon DEF Distinct
    <3> QED BY <3>1, <1>1, <1>2
  <2>3. CASE i \in 1 .. Len(s) /\ j \notin 1 .. Len(s)
    BY <2>3, <1>2, <1>3, <1>5, <1>7, Member, Zenon
  <2>4. CASE i \notin 1 .. Len(s) /\ j \in 1 .. Len(s)
    BY <2>4, <1>2, <1>3, <1>5, <1>7, Member, Zenon
  <2> QED BY <2>1, <2>2, <2>3, <2>4, Zenon
<1> QED BY <1>1, <1>6, <1>7, Zenon DEF u, Distinct

(* Cutting a list in two after its first n entries.                           *)
LEMMA SplitEntries ==
    ASSUME NEW S, NEW s \in Seq(S), NEW n \in 0 .. Len(s)
    PROVE  LET a == SubSeq(s, 1, n)
               b == SubSeq(s, n + 1, Len(s))
           IN  /\ a \in Seq(S) /\ b \in Seq(S)
               /\ Range(s) = Range(a) \cup Range(b)
               /\ Distinct(s) => /\ Distinct(a) /\ Distinct(b)
                                 /\ Range(a) \cap Range(b) = {}
<1> DEFINE a == SubSeq(s, 1, n)
           b == SubSeq(s, n + 1, Len(s))
<1>1. Len(s) \in Nat /\ DOMAIN s = 1 .. Len(s) /\ \A i \in 1 .. Len(s) : s[i] \in S
  OBVIOUS
<1>2. a \in Seq(S) /\ DOMAIN a = 1 .. n /\ \A i \in 1 .. n : a[i] = s[i]
  OBVIOUS
<1>3. b \in Seq(S) /\ DOMAIN b = 1 .. Len(s) - n /\ \A i \in 1 .. Len(s) - n : b[i] = s[n + i]
  OBVIOUS
<1> HIDE DEF a, b
<1>4. \A i \in 1 .. n : i \in DOMAIN s
  BY <1>1
<1>5. \A i \in 1 .. Len(s) - n : n + i \in DOMAIN s /\ n + i \notin 1 .. n
  BY <1>1
<1>6. \A i \in DOMAIN s : \/ i \in 1 .. n
                          \/ i - n \in 1 .. Len(s) - n /\ n + (i - n) = i
  BY <1>1
<1>7. Range(s) = Range(a) \cup Range(b)
  <2>1. ASSUME NEW x, x \in Range(s) PROVE x \in Range(a) \/ x \in Range(b)
    <3>1. PICK i \in DOMAIN s : s[i] = x
      BY <2>1, Member, Zenon
    <3> QED BY <3>1, <1>2, <1>3, <1>6, Member, Zenon
  <2>2. ASSUME NEW x, x \in Range(a) PROVE x \in Range(s)
    <3>1. PICK i \in DOMAIN a : a[i] = x
      BY <2>2, Member, Zenon
    <3> QED BY <3>1, <1>2, <1>4, Member, Zenon
  <2>3. ASSUME NEW x, x \in Range(b) PROVE x \in Range(s)
    <3>1. PICK i \in DOMAIN b : b[i] = x
      BY <2>3, Member, Zenon
    <3> QED BY <3>1, <1>3, <1>5, Member, Zenon
  <2> QED BY <2>1, <2>2, <2>3, Zenon
<1>8. ASSUME Distinct(s) PROVE Distinct(a) /\ Distinct(b) /\ Range(a) \cap Range(b) = {}
  <2>1. Distinct(a)
    BY <1>2, <1>4, <1>8, Zenon DEF Distinct
  <2>2. Distinct(b)
    <3>1. \A i, j \in 1 .. Len(s) - n : n + i = n + j => i = j
      BY <1>1
    <3> QED BY <1>3, <1>5, <1>8, <3>1, Zenon DEF Distinct
  <2>3. Range(a) \cap Range(b) = {}
    <3>1. ASSUME NEW x, x \in Range(a), x \in Range(b) PROVE FALSE
      <4>1. PICK i \in 1 .. n : s[i] = x
        BY <3>1, <1>2, Member
      <4>2. PICK j \in 1 .. Len(s) - n : s[n + j] = x
        BY <3>1, <1>3, Member
      <4> QED BY <4>1, <4>2, <1>4, <1>5, <1>8 DEF Distinct
    <3> QED BY <3>1, Zenon
  <2> QED BY <2>1, <2>2, <2>3, Zenon
<1> QED BY <1>2, <1>3, <1>7, <1>8, Zenon DEF a, b

(* What removing an entry at a position leaves: the others keep their order.  *)
LEMMA RemoveAtEntries ==
    ASSUME NEW S, NEW s \in Seq(S), NEW i \in 1 .. Len(s)
    PROVE  /\ RemoveAt(s, i) \in Seq(S)
           /\ Len(RemoveAt(s, i)) = Len(s) - 1
           /\ \A j \in 1 .. Len(s) - 1 :
                RemoveAt(s, i)[j] = IF j < i THEN s[j] ELSE s[j + 1]
<1> DEFINE a == SubSeq(s, 1, i - 1)
           b == SubSeq(s, i + 1, Len(s))
<1>1. a \in Seq(S) /\ Len(a) = i - 1 /\ \A j \in 1 .. i - 1 : a[j] = s[j]
  OBVIOUS
<1>2. b \in Seq(S) /\ Len(b) = Len(s) - i /\ \A j \in 1 .. Len(s) - i : b[j] = s[i + j]
  OBVIOUS
<1>3. RemoveAt(s, i) = a \o b
  BY Zenon DEF RemoveAt
<1> HIDE DEF a, b
<1>4. /\ a \o b \in Seq(S) /\ Len(a \o b) = Len(a) + Len(b)
      /\ \A j \in 1 .. Len(a) + Len(b) :
            (a \o b)[j] = IF j <= Len(a) THEN a[j] ELSE b[j - Len(a)]
  BY <1>1, <1>2, Joined, Zenon
<1>5. ASSUME NEW j \in 1 .. Len(s) - 1
      PROVE  (a \o b)[j] = IF j < i THEN s[j] ELSE s[j + 1]
  <2>1. (a \o b)[j] = IF j <= i - 1 THEN a[j] ELSE b[j - (i - 1)]
    BY <1>1, <1>2, <1>4
  <2>2. CASE j < i
    BY <2>1, <2>2, <1>1
  <2>3. CASE j >= i
    <3>1. j - (i - 1) \in 1 .. Len(s) - i
      BY <2>3
    <3>2. b[j - (i - 1)] = s[i + (j - (i - 1))]
      BY <3>1, <1>2, Zenon
    <3>3. i + (j - (i - 1)) = j + 1 /\ ~(j <= i - 1) /\ ~(j < i)
      BY <2>3
    <3> QED
      BY <2>1, <3>2, <3>3, Zenon
  <2>4. j < i \/ j >= i
    OBVIOUS
  <2> QED
    BY <2>2, <2>3, <2>4, Zenon
<1>6. Len(a) + Len(b) = Len(s) - 1
  BY <1>1, <1>2
<1> QED
  BY <1>3, <1>4, <1>5, <1>6, Zenon

(* A sequence without repetitions loses exactly the entry that is removed.    *)
LEMMA RemoveAtDistinct ==
    ASSUME NEW S, NEW s \in Seq(S), NEW k \in 1 .. Len(s), Distinct(s)
    PROVE  /\ RemoveAt(s, k) \in Seq(S) /\ Len(RemoveAt(s, k)) = Len(s) - 1
           /\ Distinct(RemoveAt(s, k))
           /\ Range(RemoveAt(s, k)) = Range(s) \ {s[k]}
<1> DEFINE t == RemoveAt(s, k)
           n == Len(s)
           Old(j) == IF j < k THEN j ELSE j + 1
<1>1. n \in Nat /\ k \in 1 .. n
  OBVIOUS
<1>2. /\ t \in Seq(S) /\ Len(t) = n - 1
      /\ \A j \in 1 .. n - 1 : t[j] = IF j < k THEN s[j] ELSE s[j + 1]
  BY RemoveAtEntries, Zenon
<1>3. DOMAIN s = 1 .. n /\ \A i, j \in 1 .. n : s[i] = s[j] => i = j
  BY DEF Distinct
<1> HIDE DEF n, t
<1>4. ASSUME NEW j \in 1 .. n - 1
      PROVE  Old(j) \in 1 .. n /\ Old(j) # k /\ t[j] = s[Old(j)]
  <2>1. Old(j) \in 1 .. n /\ Old(j) # k
    BY <1>1
  <2>2. t[j] = s[Old(j)]
    BY <1>2, Zenon
  <2> QED
    BY <2>1, <2>2, Zenon
<1>5. ASSUME NEW i \in 1 .. n - 1, NEW j \in 1 .. n - 1, t[i] = t[j]
      PROVE  i = j
  <2>1. Old(i) = Old(j)
    BY <1>3, <1>4, <1>5
  <2> QED
    BY <2>1, <1>1
<1>6. ASSUME NEW r \in S, NEW i \in 1 .. n - 1, t[i] = r
      PROVE  r # s[k] /\ \E j \in 1 .. n : s[j] = r
  BY <1>1, <1>3, <1>4, <1>6, Zenon
<1>7. ASSUME NEW r \in S, r # s[k], NEW j \in 1 .. n, s[j] = r
      PROVE  \E i \in 1 .. n - 1 : t[i] = r
  <2>1. PICK i \in 1 .. n - 1 : Old(i) = j
    <3>1. j # k
      BY <1>7, Zenon
    <3>2. CASE j < k
      <4>1. j \in 1 .. n - 1 /\ Old(j) = j
        BY <3>2, <1>1
      <4> QED
        BY <4>1, Zenon
    <3>3. CASE j > k
      <4>1. j - 1 \in 1 .. n - 1 /\ Old(j - 1) = j
        BY <3>3, <1>1
      <4> QED
        BY <4>1, Zenon
    <3> QED
      BY <3>1, <3>2, <3>3, <1>1
  <2> QED
    BY <2>1, <1>4, <1>7, Zenon
<1>8. DOMAIN t = 1 .. n - 1
  BY <1>1, <1>2
<1>9. Distinct(t)
  BY <1>5, <1>8, Zenon DEF Distinct
<1>10. \A r \in S : r \in Range(t) <=> r # s[k] /\ r \in Range(s)
  <2>1. ASSUME NEW r \in S, r \in Range(t) PROVE r # s[k] /\ r \in Range(s)
    <3>1. PICK i \in 1 .. n - 1 : t[i] = r
      BY <2>1, <1>8, Member, Zenon
    <3>2. r # s[k] /\ \E j \in 1 .. n : s[j] = r
      BY <3>1, <1>6, Zenon
    <3> QED BY <3>2, <1>3, Member, Zenon
  <2>2. ASSUME NEW r \in S, r # s[k], r \in Range(s) PROVE r \in Range(t)
    <3>1. PICK j \in 1 .. n : s[j] = r
      BY <2>2, <1>3, Member, Zenon
    <3>2. \E i \in 1 .. n - 1 : t[i] = r
      BY <3>1, <2>2, <1>7, Zenon
    <3> QED BY <3>2, <1>8, Member, Zenon
  <2> QED BY <2>1, <2>2, Zenon
<1>11. Range(t) = Range(s) \ {s[k]}
  BY <1>2, <1>10, EntriesOf, Zenon
<1> QED
  BY <1>2, <1>9, <1>11, Zenon DEF t, n

(* Removing an entry of a list without repetitions: no other entry goes.      *)
LEMMA RemoveFirstEntries ==
    ASSUME NEW S, NEW s \in Seq(S), NEW e, Distinct(s)
    PROVE  /\ RemoveFirst(s, e) \in Seq(S)
           /\ Range(RemoveFirst(s, e)) = Range(s) \ {e}
           /\ Distinct(RemoveFirst(s, e))
<1>1. DOMAIN s = 1 .. Len(s)
  OBVIOUS
<1>2. CASE e \notin Range(s)
  <2>1. RemoveFirst(s, e) = s
    BY <1>1, <1>2, Member, Zenon DEF RemoveFirst
  <2> QED BY <1>2, <2>1, Zenon
<1>3. CASE e \in Range(s)
  <2>1. PICK k \in 1 .. Len(s) : s[k] = e
    BY <1>1, <1>3, Member, Zenon
  <2>2. ASSUME NEW i \in DOMAIN s, s[i] = e PROVE i = k
    BY <1>1, <2>1, <2>2, Zenon DEF Distinct
  <2>3. \A j \in 1 .. (k - 1) : s[j] # e
    BY <1>1, <2>2
  <2>4. (CHOOSE i \in DOMAIN s : s[i] = e /\ \A j \in 1 .. (i - 1) : s[j] # e) = k
    BY <1>1, <2>1, <2>2, <2>3, Zenon
  <2>5. RemoveFirst(s, e) = RemoveAt(s, k)
    BY <1>3, <2>4, Zenon DEF RemoveFirst
  <2> QED BY <2>1, <2>5, RemoveAtDistinct
<1> QED BY <1>2, <1>3, Zenon

(* A finite set listed in some order.                                         *)
LEMMA ListedEntries ==
    ASSUME NEW S, IsFiniteSet(S)
    PROVE  /\ SetToSeq(S) \in Seq(S) /\ Range(SetToSeq(S)) = S
           /\ Distinct(SetToSeq(S))
<1> DEFINE n == Cardinality(S)
<1>1. n \in Nat /\ \E f : f \in Bijection(1 .. n, S)
  BY FS_CardinalityType, Zenon DEF ExistsBijection
<1>2. PICK f : f \in Bijection(1 .. n, S)
  BY <1>1, Zenon
<1>3. f \in [1 .. n -> S] /\ IsInjective(f)
  BY <1>2, Zenon DEF Bijection, Injection, IsInjective
<1>4. \E g \in [1 .. n -> S] : IsInjective(g)
  BY <1>3, Zenon
<1> DEFINE g == SetToSeq(S)
<1>5. g \in [1 .. n -> S] /\ IsInjective(g)
  BY <1>4, Zenon DEF SetToSeq
<1> HIDE DEF g, n
<1>6. DOMAIN g = 1 .. n /\ g \in Seq(S)
  BY <1>1, <1>5
<1>7. g \in Injection(1 .. n, S)
  BY <1>5, Zenon DEF Injection, IsInjective
<1>8. IsFiniteSet(1 .. n) /\ Cardinality(1 .. n) = Cardinality(S)
  BY <1>1, FS_Interval DEF n
<1>9. g \in Surjection(1 .. n, S)
  BY <1>7, <1>8, FS_Injection, Zenon
<1>10. Range(g) = S
  <2>1. \A x \in S : \E i \in 1 .. n : g[i] = x
    BY <1>9, Zenon DEF Surjection
  <2>2. S \subseteq Range(g)
    BY <1>6, <2>1, Member, Zenon
  <2> QED BY <1>6, <2>2, EntriesOf, Zenon
<1> QED BY <1>5, <1>6, <1>10, Zenon DEF g, Distinct, IsInjective

(* A list without repetitions has as many entries as it is long, so no more   *)
(* than its base set has elements.                                            *)
LEMMA DistinctLength ==
    ASSUME NEW S, NEW s \in Seq(S), Distinct(s)
    PROVE  /\ IsFiniteSet(Range(s)) /\ Cardinality(Range(s)) = Len(s)
           /\ IsFiniteSet(S) => Len(s) <= Cardinality(S)
<1>1. s \in [1 .. Len(s) -> Range(s)] /\ DOMAIN s = 1 .. Len(s) /\ Len(s) \in Nat
  <2>1. s \in [1 .. Len(s) -> S] /\ DOMAIN s = 1 .. Len(s) /\ Len(s) \in Nat
    OBVIOUS
  <2>2. \A i \in 1 .. Len(s) : s[i] \in Range(s)
    BY <2>1, Member, Zenon
  <2> QED BY <2>1, <2>2, Zenon
<1>2. s \in Bijection(1 .. Len(s), Range(s))
  <2>1. \A x \in Range(s) : \E i \in 1 .. Len(s) : s[i] = x
    BY <1>1, Member, Zenon
  <2>2. IsInjective(s)
    BY Zenon DEF Distinct, IsInjective
  <2> QED BY <1>1, <2>1, <2>2, Zenon DEF Bijection, Injection, Surjection
<1>3. IsFiniteSet(1 .. Len(s)) /\ Cardinality(1 .. Len(s)) = Len(s)
  <2>1. Cardinality(1 .. Len(s)) = IF 1 > Len(s) THEN 0 ELSE Len(s) - 1 + 1
    BY <1>1, FS_Interval
  <2> QED BY <1>1, <2>1, FS_Interval
<1>4. IsFiniteSet(Range(s)) /\ Cardinality(Range(s)) = Len(s)
  <2>1. ExistsBijection(1 .. Len(s), Range(s))
    BY <1>2, Zenon DEF ExistsBijection
  <2> QED BY <1>3, <2>1, FS_Bijection, Zenon
<1>5. IsFiniteSet(S) => Len(s) <= Cardinality(S)
  BY <1>4, FS_Subset, EntriesOf, Zenon
<1> QED BY <1>4, <1>5, Zenon
=============================================================================
