--------------------------- MODULE SequenceFacts ---------------------------
(***************************************************************************)
(* Facts about the operators of SequencesExt that the clients use on the   *)
(* response buffer and on what they have sent.                             *)
(***************************************************************************)
EXTENDS ResponseBuffer, Naturals, SequenceTheorems, FiniteSetTheorems, WellFoundedInduction,
        TLAPS

(* A set of natural numbers has a least element. *)
LEMMA NatMin ==
  ASSUME NEW I, I \subseteq Nat, I # {}
  PROVE  \E m \in I : \A n \in I : m <= n
<1>1. \E m \in I : \A n \in I : ~ (<< n, m >> \in OpToRel(<, Nat))
  BY NatLessThanWellFounded, WFMin
<1>2. PICK m \in I : \A n \in I : ~ (<< n, m >> \in OpToRel(<, Nat))
  BY <1>1
<1>3. \A n \in I : ~ (n < m)
  <2> SUFFICES ASSUME NEW n \in I, n < m PROVE FALSE
    OBVIOUS
  <2>1. << n, m >> \in Nat \X Nat
    OBVIOUS
  <2>2. << n, m >>[1] < << n, m >>[2]
    OBVIOUS
  <2>3. << n, m >> \in OpToRel(<, Nat)
    BY ONLY <2>1, <2>2 DEF OpToRel
  <2> QED BY <2>3, <1>2
<1> QED BY <1>3

(* The least one of a set of natural numbers *)
LEMMA MinIsLeast ==
  ASSUME NEW I, I \subseteq Nat, I # {}
  PROVE  Min(I) \in I /\ \A n \in I : Min(I) <= n
BY NatMin DEF Min

(* The greatest of a set of numbers up to some number *)
LEMMA MaxIsGreatest ==
  ASSUME NEW n \in Nat, NEW I, I \subseteq 1..n, I # {}
  PROVE  Max(I) \in I /\ \A i \in I : i <= Max(I)
<1> DEFINE J == {n - i : i \in I}
<1>1. PICK j \in J : \A k \in J : j <= k
  BY NatMin, J \subseteq Nat, J # {}
<1>2. \E i \in I : \A k \in I : i >= k
  <2>1. PICK i \in I : j = n - i
    BY <1>1
  <2>2. \A k \in I : n - i <= n - k
    BY <1>1, <2>1
  <2> QED BY <2>2
<1> QED BY <1>2 DEF Max

(* RemoveAt closes the gap at the place removed. *)
LEMMA RemoveAtProperties ==
  ASSUME NEW S, NEW s \in Seq(S), NEW i \in 1..Len(s)
  PROVE  /\ RemoveAt(s, i) \in Seq(S)
         /\ Len(RemoveAt(s, i)) = Len(s) - 1
         /\ \A j \in 1..(Len(s) - 1) :
              RemoveAt(s, i)[j] = s[IF j < i THEN j ELSE j + 1]
<1> DEFINE front == SubSeq(s, 1, i - 1)
           back  == SubSeq(s, i + 1, Len(s))
<1>1. /\ front \in Seq(S) /\ Len(front) = i - 1
      /\ \A j \in 1..(i - 1) : front[j] = s[j]
  BY SubSeqProperties, ElementOfSeq, LenProperties
<1>2. /\ back \in Seq(S) /\ Len(back) = Len(s) - i
      /\ \A j \in 1..(Len(s) - i) : back[j] = s[j + i]
  <2> DEFINE m == i + 1  n == Len(s)
  <2>1. m \in Int /\ n \in Int /\ \A j \in m..n : s[j] \in S
    BY ElementOfSeq, LenProperties
  <2>2. /\ SubSeq(s, m, n) \in Seq(S)
        /\ Len(SubSeq(s, m, n)) = IF m <= n THEN n - m + 1 ELSE 0
        /\ \A j \in 1..(n - m + 1) : SubSeq(s, m, n)[j] = s[m + j - 1]
    BY <2>1, SubSeqProperties
  <2> QED BY <2>2
<1>3. /\ front \o back \in Seq(S)
      /\ Len(front \o back) = Len(front) + Len(back)
      /\ \A j \in 1..(Len(front) + Len(back)) :
           (front \o back)[j] = IF j <= Len(front) THEN front[j] ELSE back[j - Len(front)]
  BY <1>1, <1>2, ConcatProperties
<1> HIDE DEF front, back
<1>4. RemoveAt(s, i) = front \o back
  BY DEF RemoveAt, front, back
<1>5. \A j \in 1..(Len(s) - 1) :
        (front \o back)[j] = s[IF j < i THEN j ELSE j + 1]
  <2> SUFFICES ASSUME NEW j \in 1..(Len(s) - 1)
               PROVE  (front \o back)[j] = s[IF j < i THEN j ELSE j + 1]
    OBVIOUS
  <2>0. Len(s) \in Nat
    BY LenProperties
  <2>1. CASE j < i
    BY <2>0, <2>1, <1>1, <1>2, <1>3
  <2>2. CASE j >= i
    <3>1. back[j - (i - 1)] = s[j - (i - 1) + i]
      BY <2>0, <2>2, <1>2
    <3>2. j - (i - 1) + i = j + 1
      BY <2>0
    <3>3. (front \o back)[j] = back[j - (i - 1)]
      BY <2>0, <2>2, <1>1, <1>2, <1>3
    <3> QED BY <2>0, <2>2, <3>1, <3>2, <3>3
  <2>3. j < i \/ j >= i
    BY <2>0
  <2> QED BY <2>1, <2>2, <2>3
<1>6. Len(front) + Len(back) = Len(s) - 1
  BY <1>1, <1>2, LenProperties
<1> QED BY <1>3, <1>4, <1>5, <1>6

(* RemoveFirst removes one place that holds the element, and no other. *)
LEMMA RemoveFirstProperties ==
  ASSUME NEW S, NEW s \in Seq(S), NEW i \in 1..Len(s)
  PROVE  \E k \in 1..Len(s) : s[k] = s[i] /\ RemoveFirst(s, s[i]) = RemoveAt(s, k)
<1> DEFINE I == {k \in 1..Len(s) : s[k] = s[i]}
<1>1. Min(I) \in I
  <2>1. I \subseteq Nat /\ I # {}
    BY LenProperties
  <2> QED BY <2>1, MinIsLeast
<1>2. SelectInSeq(s, LAMBDA v : v = s[i]) = Min(I)
  BY <1>1 DEF SelectInSeq
<1>3. RemoveFirst(s, s[i]) = RemoveAt(s, Min(I))
  BY <1>2 DEF RemoveFirst
<1> QED BY <1>1, <1>3
-----------------------------------------------------------------------------
(* A lookup in the response buffer finds a place that holds its type. *)
LEMMA LookupFinds ==
  ASSUME NEW S, NEW buffer \in Seq(S), NEW type, HasType(buffer, type)
  PROVE  \E i \in 1..Len(buffer) :
            MessageByID(buffer, type) = buffer[i] /\ buffer[i].type = type
<1> DEFINE I == {i \in 1..Len(buffer) : buffer[i].type = type}
<1>1. Min(I) \in I
  <2>1. I # {}
    BY LenProperties DEF HasType, ToSet
  <2>2. I \subseteq Nat
    BY LenProperties
  <2> QED BY <2>1, <2>2, MinIsLeast
<1>2. SelectInSeq(buffer, LAMBDA d : d.type = type) = Min(I)
  BY <1>1 DEF SelectInSeq
<1> QED BY <1>1, <1>2 DEF MessageByID

(* What the TCP lookup takes is such a place, and the rest stays in order. *)
LEMMA TakenProperties ==
  ASSUME NEW S, NEW buffer \in Seq(S), NEW type, HasType(buffer, type)
  PROVE  \E i \in 1..Len(buffer) :
            /\ MessageByID(buffer, type) = buffer[i] /\ buffer[i].type = type
            /\ Taken(buffer, type) \in Seq(S)
            /\ Len(Taken(buffer, type)) = Len(buffer) - 1
            /\ \A j \in 1..(Len(buffer) - 1) :
                 Taken(buffer, type)[j] = buffer[IF j < i THEN j ELSE j + 1]
<1>1. PICK n \in 1..Len(buffer) :
        MessageByID(buffer, type) = buffer[n] /\ buffer[n].type = type
  BY LookupFinds
<1>2. PICK i \in 1..Len(buffer) :
        buffer[i] = buffer[n] /\ RemoveFirst(buffer, buffer[n]) = RemoveAt(buffer, i)
  BY RemoveFirstProperties
<1>3. Taken(buffer, type) = RemoveAt(buffer, i)
  BY <1>1, <1>2 DEF Taken
<1>4. /\ RemoveAt(buffer, i) \in Seq(S)
      /\ Len(RemoveAt(buffer, i)) = Len(buffer) - 1
      /\ \A j \in 1..(Len(buffer) - 1) :
           RemoveAt(buffer, i)[j] = buffer[IF j < i THEN j ELSE j + 1]
  BY RemoveAtProperties
<1>5. MessageByID(buffer, type) = buffer[i] /\ buffer[i].type = type
  BY <1>1, <1>2
<1> QED BY <1>3, <1>4, <1>5
-----------------------------------------------------------------------------
(* Counting the elements of a set of places from the first place on passes *)
(* every number up to how many there are.                                  *)
LEMMA CountReaches ==
  ASSUME NEW L \in Nat, NEW I, I \subseteq 1..L, NEW n \in 1..Cardinality(I)
  PROVE  \E i \in I : Cardinality(I \cap 1..i) = n
<1> DEFINE count(j) == Cardinality(I \cap 1..j)
           J == {j \in 0..L : count(j) >= n}
<1>f. IsFiniteSet(I) /\ Cardinality(I) \in Nat
  <2>1. IsFiniteSet(1..L) /\ I \in SUBSET (1..L)
    BY FS_Interval
  <2>2. IsFiniteSet(I)
    BY <2>1, FS_Subset
  <2> QED BY <2>2, FS_CardinalityType
<1>c. \A j \in Nat : IsFiniteSet(I \cap 1..j) /\ count(j) \in Nat
  <2> SUFFICES ASSUME NEW j \in Nat PROVE IsFiniteSet(I \cap 1..j) /\ count(j) \in Nat
    OBVIOUS
  <2>1. IsFiniteSet(I \cap 1..j)
    BY <1>f, FS_Subset
  <2> QED BY <2>1, FS_CardinalityType
<1>n. n \in Nat /\ 1 <= n /\ n <= Cardinality(I)
  BY <1>f
<1>1. L \in J
  <2>1. I \cap 1..L = I
    OBVIOUS
  <2> QED BY <2>1, <1>f
<1>2. PICK m \in J : \A j \in J : m <= j
  BY <1>1, NatMin, J \subseteq Nat
<1>3. m # 0
  <2>1. I \cap 1..0 = {}
    OBVIOUS
  <2>2. count(0) = 0
    BY <2>1, FS_EmptySet
  <2> QED BY <1>2, <1>n, <2>2
<1>4. m - 1 \in Nat /\ count(m - 1) < n
  <2>1. m - 1 \in 0..L /\ m - 1 \notin J
    BY <1>2, <1>3
  <2>2. count(m - 1) \in Nat /\ ~ (count(m - 1) >= n)
    BY <2>1, <1>c
  <2> QED BY <2>1, <2>2, <1>n
<1>5. I \cap 1..m = IF m \in I THEN (I \cap 1..(m - 1)) \cup {m} ELSE I \cap 1..(m - 1)
  BY <1>2, <1>4
<1>6. m \in I
  BY <1>2, <1>4, <1>5, <1>c, <1>f
<1>7. count(m) = count(m - 1) + 1
  <2>1. I \cap 1..m = (I \cap 1..(m - 1)) \cup {m} /\ m \notin I \cap 1..(m - 1)
    BY <1>4, <1>5, <1>6
  <2> HIDE DEF J
  <2> QED BY <2>1, <1>4, <1>c, FS_AddElement
<1> QED
  <2>1. count(m) \in Nat /\ count(m - 1) \in Nat /\ count(m) >= n /\ n \in Nat
    BY <1>2, <1>4, <1>c, <1>n, SMTT(30)
  <2>2. count(m) = n
    BY <2>1, <1>4, <1>7
  <2> QED BY <2>2, <1>6

(* The places that are not d, each once, none of them lost *)
LEMMA WithoutProperties ==
  ASSUME NEW S, NEW s \in Seq(S), NEW d
  PROVE  /\ Without(s, d) \in Seq(S)
         /\ \E f \in [1..Len(Without(s, d)) -> 1..Len(s)] :
              /\ \A m, n \in 1..Len(Without(s, d)) : f[m] = f[n] => m = n
              /\ \A n \in 1..Len(Without(s, d)) : Without(s, d)[n] = s[f[n]] /\ s[f[n]] # d
<1> DEFINE others == {i \in DOMAIN s : s[i] # d}
           total == Cardinality(others)
           place(n) == CHOOSE i \in others : Cardinality(others \cap 1..i) = n
           f == [n \in 1..total |-> place(n)]
<1>1. Len(s) \in Nat /\ DOMAIN s = 1..Len(s) /\ others \subseteq 1..Len(s)
  BY LenProperties
<1>2. total \in Nat
  <2>1. IsFiniteSet(1..Len(s)) /\ others \in SUBSET (1..Len(s))
    BY <1>1, FS_Interval
  <2>2. IsFiniteSet(others)
    BY <2>1, FS_Subset
  <2> QED BY <2>2, FS_CardinalityType
<1>3. \A n \in 1..total : place(n) \in others /\ Cardinality(others \cap 1..place(n)) = n
  BY <1>1, CountReaches
<1>4. Without(s, d) = [n \in 1..total |-> s[place(n)]]
  BY DEF Without
<1>5. \A n \in 1..total : s[place(n)] \in S
  BY <1>1, <1>3, ElementOfSeq
<1> HIDE DEF others, total, place
<1>6. Without(s, d) \in Seq(S) /\ Len(Without(s, d)) = total
  BY <1>2, <1>4, <1>5, IsASeq, LenProperties
<1>7. f \in [1..Len(Without(s, d)) -> 1..Len(s)]
  BY <1>1, <1>3, <1>6
<1>8. \A m, n \in 1..total : f[m] = f[n] => m = n
  BY <1>3
<1>9. \A n \in 1..total : Without(s, d)[n] = s[f[n]] /\ s[f[n]] # d
  BY <1>3, <1>4 DEF others
<1> QED BY <1>6, <1>7, <1>8, <1>9

(* What removeMessageFromBuffer leaves: places of the buffer, none twice,  *)
(* and not all that held the message.                                      *)
LEMMA RemoveMessageProperties ==
  ASSUME NEW S, NEW s \in Seq(S), NEW d, NEW rest \in RemoveMessage(s, d)
  PROVE  /\ rest \in Seq(S)
         /\ \E f \in [1..Len(rest) -> 1..Len(s)] :
              /\ \A m, n \in 1..Len(rest) : f[m] = f[n] => m = n
              /\ \A n \in 1..Len(rest) : rest[n] = s[f[n]]
              /\ \A i \in 1..Len(s) : s[i] = d =>
                   \E k \in 1..Len(s) : s[k] = d /\ \A n \in 1..Len(rest) : f[n] # k
<1>0. Len(s) \in Nat
  BY LenProperties
<1>1. CASE rest = Without(s, d)
  <2>1. PICK f \in [1..Len(rest) -> 1..Len(s)] :
          /\ \A m, n \in 1..Len(rest) : f[m] = f[n] => m = n
          /\ \A n \in 1..Len(rest) : rest[n] = s[f[n]] /\ s[f[n]] # d
    BY <1>1, WithoutProperties
  <2>2. \A i \in 1..Len(s) : s[i] = d => \A n \in 1..Len(rest) : f[n] # i
    BY <2>1
  <2> QED BY <1>1, <2>1, <2>2, WithoutProperties
<1>2. CASE rest = RemoveFirst(s, d)
  <2>1. CASE \E i \in 1..Len(s) : s[i] = d
    <3>1. PICK k \in 1..Len(s) : s[k] = d /\ rest = RemoveAt(s, k)
      BY <1>2, <2>1, RemoveFirstProperties
    <3>2. /\ rest \in Seq(S) /\ Len(rest) = Len(s) - 1
          /\ \A j \in 1..Len(rest) : rest[j] = s[IF j < k THEN j ELSE j + 1]
      BY <3>1, RemoveAtProperties
    <3> DEFINE f == [n \in 1..Len(rest) |-> IF n < k THEN n ELSE n + 1]
    <3>3. f \in [1..Len(rest) -> 1..Len(s)]
      BY <1>0, <3>2
    <3>4. \A m, n \in 1..Len(rest) : f[m] = f[n] => m = n
      BY <1>0, <3>2
    <3>5. \A n \in 1..Len(rest) : rest[n] = s[f[n]] /\ f[n] # k
      BY <1>0, <3>2
    <3> HIDE DEF f
    <3>6. \A i \in 1..Len(s) : s[i] = d =>
            \E j \in 1..Len(s) : s[j] = d /\ \A n \in 1..Len(rest) : f[n] # j
      BY <3>1, <3>5
    <3> QED BY <3>2, <3>3, <3>4, <3>5, <3>6
  <2>2. CASE ~ \E i \in 1..Len(s) : s[i] = d
    <3>1. rest = s
      BY <1>2, <2>2 DEF RemoveFirst
    <3> DEFINE f == [n \in 1..Len(rest) |-> n]
    <3>2. f \in [1..Len(rest) -> 1..Len(s)] /\ \A n \in 1..Len(rest) : f[n] = n
      BY <3>1
    <3> QED BY <2>2, <3>1, <3>2
  <2> QED BY <2>1, <2>2
<1> QED BY <1>1, <1>2 DEF RemoveMessage
=============================================================================
