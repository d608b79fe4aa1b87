-------------------------- MODULE ConversionProofs --------------------------
(***************************************************************************)
(* Proofs about the conversions, for every vocabulary and texts, lines and *)
(* command lines of any length.                                            *)
(***************************************************************************)
EXTENDS Conversions, SequenceFacts, TLAPS

(* The numbers of the code in bytes *)
LEMMA Powers == 2^16 = 256 * 256 /\ 2^15 = 128 * 256 /\ 2^8 = 256
OBVIOUS

(* A number is made of its high part and its low byte. *)
LEMMA Divided ==
  ASSUME NEW n \in Int
  PROVE  n \div 256 \in Int /\ n % 256 \in Bytes /\ n = 256 * (n \div 256) + (n % 256)
BY DEF Bytes

(* ... and the division of a number so composed gives its parts. *)
LEMMA Composed ==
  ASSUME NEW high \in Int, NEW low \in Bytes, NEW n, n = 256 * high + low
  PROVE  n \div 256 = high /\ n % 256 = low
BY DEF Bytes

(* The bytes of an identifier *)
LEMMA IDBytes ==
  ASSUME NEW id \in IDs
  PROVE  /\ id \div 256 \in Bytes /\ id % 256 \in Bytes
         /\ id = 256 * (id \div 256) + (id % 256)
         /\ ShortToBytes(id) = << id \div 256, id % 256 >>
<1>1. id \in Int /\ 0 <= id /\ id < 256 * 256
  BY Powers DEF IDs
<1>2. /\ id \div 256 \in Int /\ id % 256 \in Bytes
      /\ id = 256 * (id \div 256) + (id % 256)
  BY <1>1, Divided
<1>3. id \div 256 \in Bytes
  BY <1>1, <1>2 DEF Bytes
<1>4. id \div 256 = 256 * 0 + (id \div 256)
  BY <1>2
<1>5. (id \div 256) % 256 = id \div 256
  BY <1>3, <1>4, Composed
<1> QED BY <1>2, <1>3, <1>5 DEF ShortToBytes

(* A number whose high part is short of a byte by one lap has its bytes. *)
LEMMA NegativeBytes ==
  ASSUME NEW high \in Bytes, NEW low \in Bytes, NEW n, n = 256 * (high - 256) + low
  PROVE  ShortToBytes(n) = << high, low >>
<1>1. n \div 256 = high - 256 /\ n % 256 = low
  BY Composed DEF Bytes
<1>2. PICK lap \in Int : lap = 0 - 1
  OBVIOUS
<1>3. (high - 256) % 256 = high
  <2>1. high - 256 = 256 * lap + high
    BY <1>2 DEF Bytes
  <2> QED BY <2>1, Composed DEF Bytes
<1> QED BY <1>1, <1>3 DEF ShortToBytes

(* The conversion to a short changes no byte. *)
LEMMA ShortBytes ==
  ASSUME NEW id \in IDs
  PROVE  ShortToBytes(ToShort(id)) = ShortToBytes(id)
<1>1. CASE id < 2^15
  BY <1>1 DEF ToShort
<1>2. CASE ~ (id < 2^15)
  <2> DEFINE high == id \div 256
             low  == id % 256
  <2>1. /\ high \in Bytes /\ low \in Bytes
        /\ id = 256 * high + low /\ ShortToBytes(id) = << high, low >>
    BY IDBytes
  <2>2. ToShort(id) = id - 256 * 256
    BY <1>2, Powers DEF ToShort
  <2> HIDE DEF high, low
  <2>3. ToShort(id) = 256 * (high - 256) + low
    BY <2>1, <2>2 DEF Bytes
  <2> QED BY <2>1, <2>3, NegativeBytes
<1> QED BY <1>1, <1>2

(* The bytes of a number that is made of two bytes *)
LEMMA TwoBytes ==
  ASSUME NEW high \in Bytes, NEW low \in Bytes, NEW n, n = 256 * high + low
  PROVE  n \in IDs /\ ShortToBytes(n) = << high, low >>
<1>1. n \in IDs
  BY Powers DEF IDs, Bytes
<1>2. n \div 256 = high /\ n % 256 = low
  BY Composed DEF Bytes
<1> QED BY <1>1, <1>2, IDBytes

(* What is written is read back. *)
LEMMA ReadBack ==
  ASSUME NEW id \in IDs
  PROVE  ReadID(ShortToBytes(id)) = id
BY IDBytes DEF ReadID

(* What the receiver thread reads, and what it confirms *)
LEMMA ReadSigned ==
  ASSUME NEW high \in Bytes, NEW low \in Bytes
  PROVE  /\ ReadSignedID(<< high, low >>) \in Shorts
         /\ low < 128 => ReceiverConfirm(<< high, low >>) = << high, low >>
         /\ low >= 128 => ReceiverConfirm(<< high, low >>) = << 255, low >>
<1>1. CASE low < 128 /\ high < 128
  <2>1. ReadSignedID(<< high, low >>) = 256 * high + low
    BY <1>1 DEF ReadSignedID, Char
  <2>2. 256 * high + low \in Shorts
    BY <1>1, Powers DEF Shorts, Bytes
  <2>3. ReceiverConfirm(<< high, low >>) = << high, low >>
    BY <2>1, TwoBytes DEF ReceiverConfirm
  <2> QED BY <1>1, <2>1, <2>2, <2>3 DEF Bytes
<1>2. CASE low < 128 /\ ~ (high < 128)
  <2>1. ReadSignedID(<< high, low >>) = 256 * (high - 256) + low
    BY <1>2 DEF ReadSignedID, Char
  <2>2. 256 * (high - 256) + low \in Shorts
    BY <1>2, Powers DEF Shorts, Bytes
  <2>3. ReceiverConfirm(<< high, low >>) = << high, low >>
    BY <2>1, NegativeBytes DEF ReceiverConfirm
  <2> QED BY <1>2, <2>1, <2>2, <2>3 DEF Bytes
<1>3. CASE ~ (low < 128)
  <2>1. ReadSignedID(<< high, low >>) = low - 256
    BY <1>3 DEF ReadSignedID, Char
  <2>2. low - 256 \in Shorts
    BY <1>3, Powers DEF Shorts, Bytes
  <2>3. low - 256 = 256 * (255 - 256) + low
    BY DEF Bytes
  <2>4. 255 \in Bytes
    BY DEF Bytes
  <2>5. ShortToBytes(256 * (255 - 256) + low) = << 255, low >>
    BY <2>4, NegativeBytes
  <2>6. ReceiverConfirm(<< high, low >>) = << 255, low >>
    BY <2>1, <2>3, <2>5, Zenon DEF ReceiverConfirm
  <2> QED BY <1>3, <2>1, <2>2, <2>6 DEF Bytes
<1> QED BY <1>1, <1>2, <1>3
-----------------------------------------------------------------------------
(* A place where a spelling of the keyword stands between two spaces, and  *)
(* how many such places are directly in front of it                        *)
Candidate(words, keyword, i) ==
  i \in 2..(Len(words) - 1) /\ words[i] \in Spellings(keyword)

Run(words, keyword, i, n) ==
  /\ n \in 0..(i - 1)
  /\ \A j \in (i - n)..(i - 1) : Candidate(words, keyword, j)
  /\ ~ Candidate(words, keyword, i - n - 1)

(* Going back from any place one gets to the end of such a run, ... *)
LEMMA RunExists ==
  ASSUME NEW words, Len(words) \in Nat, NEW keyword, NEW i \in 1..Len(words)
  PROVE  \E n : Run(words, keyword, i, n)
<1> DEFINE I == {n \in 0..(i - 1) : ~ Candidate(words, keyword, i - n - 1)}
<1>1. i - 1 \in I
  BY DEF Candidate
<1>2. PICK n \in I : \A m \in I : n <= m
  BY <1>1, NatMin, I \subseteq Nat
<1>3. ASSUME NEW j \in (i - n)..(i - 1) PROVE Candidate(words, keyword, j)
  <2>1. i - j - 1 \in 0..(i - 1) /\ ~ (n <= i - j - 1) /\ i - (i - j - 1) - 1 = j
    BY <1>2, <1>3
  <2> QED BY <1>2, <2>1
<1> QED BY <1>2, <1>3 DEF Run

(* ... and there is one such run only. *)
LEMMA RunUnique ==
  ASSUME NEW words, NEW keyword, NEW i \in Nat, NEW n, Run(words, keyword, i, n),
         NEW m, Run(words, keyword, i, m)
  PROVE  n = m
<1>1. /\ n \in 0..(i - 1) /\ m \in 0..(i - 1)
  BY DEF Run
<1>2. ~ (n < m)
  <2> SUFFICES ASSUME n < m PROVE FALSE
    OBVIOUS
  <2>1. i - n - 1 \in (i - m)..(i - 1)
    BY <1>1
  <2> QED BY <2>1 DEF Run
<1>3. ~ (m < n)
  <2> SUFFICES ASSUME m < n PROVE FALSE
    OBVIOUS
  <2>1. i - m - 1 \in (i - n)..(i - 1)
    BY <1>1
  <2> QED BY <2>1 DEF Run
<1> QED BY <1>1, <1>2, <1>3

(* Of a run of spellings every other one is matched, the first included. *)
EveryOther(words, keyword) ==
  [i \in 0..Len(words) |->
     /\ Candidate(words, keyword, i)
     /\ \E n : Run(words, keyword, i, n) /\ n % 2 = 0]

(* The reference obeys the recursion: a candidate is taken if the place in *)
(* front of it is not.                                                     *)
LEMMA EveryOtherStep ==
  ASSUME NEW words, Len(words) \in Nat, NEW keyword, NEW i \in 0..Len(words)
  PROVE  EveryOther(words, keyword)[i] <=>
           Candidate(words, keyword, i) /\ ~ EveryOther(words, keyword)[i - 1]
<1> DEFINE even(j) == \E n : Run(words, keyword, j, n) /\ n % 2 = 0
<1> SUFFICES ASSUME Candidate(words, keyword, i)
             PROVE  EveryOther(words, keyword)[i] <=> ~ EveryOther(words, keyword)[i - 1]
  BY DEF EveryOther
<1>1. i \in 2..Len(words) /\ i - 1 \in 1..Len(words)
  BY DEF Candidate
<1>2. EveryOther(words, keyword)[i] <=> even(i)
  BY DEF EveryOther
<1>3. EveryOther(words, keyword)[i - 1] <=> Candidate(words, keyword, i - 1) /\ even(i - 1)
  BY <1>1 DEF EveryOther
<1>4. CASE ~ Candidate(words, keyword, i - 1)
  <2>1. Run(words, keyword, i, 0)
    BY <1>1, <1>4 DEF Run
  <2> QED BY <1>2, <1>3, <1>4, <2>1, 0 % 2 = 0
<1>5. CASE Candidate(words, keyword, i - 1)
  <2>1. PICK n : Run(words, keyword, i - 1, n)
    BY <1>1, RunExists
  <2>2. n \in 0..(i - 2)
    BY <1>1, <2>1 DEF Run
  <2>3. Run(words, keyword, i, n + 1)
    <3>1. \A j \in (i - (n + 1))..(i - 1) : j = i - 1 \/ j \in (i - 1 - n)..(i - 1 - 1)
      BY <1>1, <2>2
    <3>2. i - (n + 1) - 1 = i - 1 - n - 1
      BY <1>1, <2>2
    <3> QED BY <1>1, <1>5, <2>1, <2>2, <3>1, <3>2 DEF Run
  <2>4. even(i - 1) <=> n % 2 = 0
    BY <1>1, <2>1, RunUnique
  <2>5. even(i) <=> (n + 1) % 2 = 0
    BY <1>1, <2>3, RunUnique
  <2>6. (n + 1) % 2 = 0 <=> n % 2 # 0
    BY <2>2
  <2> QED BY <1>2, <1>3, <1>5, <2>4, <2>5, <2>6
<1> QED BY <1>4, <1>5

(* The replacement from left to right takes every other candidate of a     *)
(* run: by a least place where the two would differ.                       *)
LEMMA MatchedEveryOther ==
  ASSUME NEW words, Len(words) \in Nat, NEW keyword
  PROVE  Matched(words, keyword) = EveryOther(words, keyword)
<1> DEFINE body(f) == [i \in 0..Len(words) |->
                         /\ i \in 2..(Len(words) - 1)
                         /\ words[i] \in DOMAIN Between /\ Between[words[i]] = keyword
                         /\ ~ f[i - 1]]
           M == Matched(words, keyword)
           E == EveryOther(words, keyword)
<1>1. E = body(E)
  <2>1. ASSUME NEW i \in 0..Len(words) PROVE E[i] = body(E)[i]
    <3>1. E[i] <=> Candidate(words, keyword, i) /\ ~ E[i - 1]
      BY EveryOtherStep
    <3>2. E[i] \in BOOLEAN
      BY DEF EveryOther
    <3>3. body(E)[i] = (/\ i \in 2..(Len(words) - 1)
                        /\ words[i] \in DOMAIN Between /\ Between[words[i]] = keyword
                        /\ ~ E[i - 1])
      OBVIOUS
    <3>4. Candidate(words, keyword, i)
            <=> /\ i \in 2..(Len(words) - 1)
                /\ words[i] \in DOMAIN Between /\ Between[words[i]] = keyword
      BY DEF Candidate, Spellings
    <3> QED BY <3>1, <3>2, <3>3, <3>4, Zenon
  <2> QED BY <2>1 DEF EveryOther
<1>2. M = CHOOSE f : f = body(f)
  BY DEF Matched
<1>3. M = body(M)
  <2> HIDE DEF body, E, M
  <2> QED BY <1>1, <1>2, Zenon
<1>4. \A i \in 0..Len(words) : M[i] = E[i]
  <2> DEFINE D == {i \in 0..Len(words) : M[i] # E[i]}
  <2> SUFFICES ASSUME D # {} PROVE FALSE
    OBVIOUS
  <2>1. PICK i \in D : \A j \in D : i <= j
    BY NatMin, D \subseteq Nat
  <2>2. M[i] = body(M)[i] /\ E[i] = body(E)[i]
    BY <1>1, <1>3
  <2>3. CASE i \in 2..(Len(words) - 1)
    <3>1. i - 1 \in 0..Len(words) /\ i - 1 \notin D
      BY <2>1, <2>3
    <3>2. M[i - 1] = E[i - 1]
      BY <3>1
    <3> QED BY <2>2, <3>2
  <2>4. CASE i \notin 2..(Len(words) - 1)
    BY <2>2, <2>4
  <2> QED BY <2>3, <2>4
<1> QED
  <2> HIDE DEF E, M
  <2>1. M = [i \in 0..Len(words) |-> M[i]]
    BY <1>3
  <2>2. E = [i \in 0..Len(words) |-> E[i]]
    BY <1>1
  <2> QED BY <1>4, <2>1, <2>2 DEF E, M

(* A spelling is matched if it has no spelling in front of it that is. *)
LEMMA MatchedStep ==
  ASSUME NEW words, Len(words) \in Nat, NEW keyword, NEW i \in 0..Len(words)
  PROVE  Matched(words, keyword)[i] <=>
           Candidate(words, keyword, i) /\ ~ Matched(words, keyword)[i - 1]
BY MatchedEveryOther, EveryOtherStep

(* A word is replaced exactly if an even number of spellings of its        *)
(* keyword stands directly in front of it.                                 *)
LEMMA MatchedByRun ==
  ASSUME NEW words, Len(words) \in Nat, words[1] \notin DOMAIN Between,
         NEW i \in 2..(Len(words) - 1), words[i] \in DOMAIN Between
  PROVE  /\ InFront(words, i) \in Nat
         /\ Matched(words, Between[words[i]])[i] <=> InFront(words, i) % 2 = 0
<1> DEFINE keyword == Between[words[i]]
           front(n) == /\ \A j \in (i - n)..(i - 1) : words[j] \in Spellings(keyword)
                       /\ n = i - 1 \/ words[i - n - 1] \notin Spellings(keyword)
<1>1. ASSUME NEW j \in 0..(i - 1)
      PROVE  Candidate(words, keyword, j) <=> j # 0 /\ words[j] \in Spellings(keyword)
  <2>1. CASE j \in 2..(i - 1)
    BY <2>1 DEF Candidate
  <2>2. CASE j = 1
    BY <2>2 DEF Candidate, Spellings
  <2>3. CASE j = 0
    BY <2>3 DEF Candidate
  <2> QED BY <2>1, <2>2, <2>3
<1>2. PICK n : Run(words, keyword, i, n)
  <2>1. i \in 1..Len(words)
    OBVIOUS
  <2> QED BY <2>1, RunExists
<1>3. \A m \in 0..(i - 1) : front(m) <=> Run(words, keyword, i, m)
  <2> SUFFICES ASSUME NEW m \in 0..(i - 1) PROVE front(m) <=> Run(words, keyword, i, m)
    OBVIOUS
  <2>1. i - m - 1 \in 0..(i - 1) /\ (i - m - 1 = 0 <=> m = i - 1)
    OBVIOUS
  <2>2. ASSUME front(m) PROVE Run(words, keyword, i, m)
    <3>1. \A j \in (i - m)..(i - 1) : j \in 0..(i - 1) /\ j # 0
      OBVIOUS
    <3> QED BY <1>1, <2>1, <2>2, <3>1 DEF Run
  <2>3. ASSUME Run(words, keyword, i, m) PROVE front(m)
    <3>1. \A j \in (i - m)..(i - 1) : j \in 0..(i - 1)
      OBVIOUS
    <3> QED BY <1>1, <2>1, <2>3, <3>1 DEF Run
  <2> QED BY <2>2, <2>3
<1>4. InFront(words, i) = CHOOSE m \in 0..(i - 1) : front(m)
  BY DEF InFront
<1>5. InFront(words, i) = n /\ n \in Nat
  <2>1. n \in 0..(i - 1) /\ n \in Nat
    BY <1>2 DEF Run
  <2>2. \A m \in 0..(i - 1) : front(m) <=> m = n
    BY <1>2, <1>3, <2>1, RunUnique
  <2> HIDE DEF front
  <2>3. InFront(words, i) \in 0..(i - 1) /\ front(InFront(words, i))
    BY <1>4, <2>1, <2>2
  <2> QED BY <2>1, <2>2, <2>3
<1>6. Matched(words, keyword)[i]
        <=> Candidate(words, keyword, i) /\ \E m : Run(words, keyword, i, m) /\ m % 2 = 0
  BY MatchedEveryOther DEF EveryOther
<1>7. Candidate(words, keyword, i)
  BY DEF Candidate, Spellings
<1> QED BY <1>2, <1>5, <1>6, <1>7, RunUnique

(* What is assumed of one word *)
LEMMA KeywordCapitals ==
  ASSUME NEW w \in DOMAIN Between
  PROVE  /\ w \in Words /\ Between[w] \in DOMAIN Between /\ Between[Between[w]] = Between[w]
         /\ AtEnd[w] = w /\ Anywhere[w] = w
         /\ Size[Between[w]] = Size[w] /\ (Between[w] \in Printable <=> w \in Printable)
BY CapitalsAssumption DEF CapitalsAssumption

(* What the two other regular expressions do to a word *)
LEMMA WordCapitals ==
  ASSUME NEW w \in Words
  PROVE  /\ AtEnd[w] \in Words /\ Anywhere[w] \in Words
         /\ Size[AtEnd[w]] = Size[w] /\ (AtEnd[w] \in Printable <=> w \in Printable)
         /\ Size[Anywhere[w]] = Size[w] /\ (Anywhere[w] \in Printable <=> w \in Printable)
         /\ w \notin DOMAIN Between => Anywhere[AtEnd[w]] \notin DOMAIN Between
         /\ Anywhere[AtEnd[w]] = w => AtEnd[w] = w
BY CapitalsAssumption DEF CapitalsAssumption

(* What upperTCP makes of each word *)
LEMMA UpperWord ==
  ASSUME NEW words \in Seq(Words), NEW i \in 1..Len(words)
  PROVE  /\ Len(upperTCP(words)) = Len(words)
         /\ words[i] \in DOMAIN Between =>
              upperTCP(words)[i] = IF Matched(words, Between[words[i]])[i]
                                   THEN Between[words[i]] ELSE words[i]
         /\ words[i] \notin DOMAIN Between =>
              upperTCP(words)[i] = Anywhere[IF i < Len(words) THEN AtEnd[words[i]] ELSE words[i]]
<1> DEFINE between == IF words[i] \in DOMAIN Between /\ Matched(words, Between[words[i]])[i]
                      THEN Between[words[i]] ELSE words[i]
<1>1. Len(words) \in Nat /\ words[i] \in Words
  BY LenProperties, ElementOfSeq
<1>2. /\ Len(upperTCP(words)) = Len(words)
      /\ upperTCP(words)[i] = Anywhere[IF i < Len(words) THEN AtEnd[between] ELSE between]
  BY <1>1 DEF upperTCP
<1>3. ASSUME words[i] \in DOMAIN Between
      PROVE  /\ between \in DOMAIN Between /\ Anywhere[between] = between
             /\ AtEnd[between] = between
  BY <1>3, KeywordCapitals
<1> QED BY <1>2, <1>3

(* The capitals change neither length nor printability. *)
LEMMA UpperSame ==
  ASSUME NEW words \in Seq(Words), NEW i \in 1..Len(words)
  PROVE  /\ Size[upperTCP(words)[i]] = Size[words[i]]
         /\ upperTCP(words)[i] \in Printable <=> words[i] \in Printable
<1>1. words[i] \in Words
  BY ElementOfSeq
<1>2. CASE words[i] \in DOMAIN Between
  BY <1>2, UpperWord, KeywordCapitals
<1>3. CASE words[i] \notin DOMAIN Between
  <2> DEFINE end == IF i < Len(words) THEN AtEnd[words[i]] ELSE words[i]
  <2>1. upperTCP(words)[i] = Anywhere[end]
    BY <1>3, UpperWord
  <2>2. /\ end \in Words /\ Size[end] = Size[words[i]]
        /\ end \in Printable <=> words[i] \in Printable
    BY <1>1, WordCapitals
  <2> HIDE DEF end
  <2> QED BY <2>1, <2>2, WordCapitals
<1> QED BY <1>2, <1>3

(* The message stays a sequence of words. *)
LEMMA UpperSeq ==
  ASSUME NEW words \in Seq(Words)
  PROVE  upperTCP(words) \in Seq(Words)
<1>1. Len(words) \in Nat
  BY LenProperties
<1>2. ASSUME NEW i \in 1..Len(words) PROVE upperTCP(words)[i] \in Words
  <2>1. words[i] \in Words
    BY ElementOfSeq
  <2>2. CASE words[i] \in DOMAIN Between
    BY <2>1, <2>2, UpperWord, KeywordCapitals
  <2>3. CASE words[i] \notin DOMAIN Between
    <3> DEFINE end == IF i < Len(words) THEN AtEnd[words[i]] ELSE words[i]
    <3>1. upperTCP(words)[i] = Anywhere[end] /\ end \in Words
      BY <2>1, <2>3, UpperWord, WordCapitals
    <3> HIDE DEF end
    <3> QED BY <3>1, WordCapitals
  <2> QED BY <2>2, <2>3
<1>3. upperTCP(words) = [i \in 1..Len(words) |-> upperTCP(words)[i]]
  BY <1>1 DEF upperTCP
<1>4. upperTCP(words) \in [1..Len(words) -> Words]
  BY <1>2, <1>3
<1> QED BY <1>1, <1>4, SeqDef

-----------------------------------------------------------------------------
(* A message with a text is its head and the words of the text. *)
LEMMA Headed ==
  ASSUME NEW head \in Seq(Words), NEW text \in Seq(Words), NEW words, words = head \o text
  PROVE  /\ words \in Seq(Words) /\ Len(words) = Len(head) + Len(text)
         /\ Len(text) \in Nat /\ Len(words) \in Nat
         /\ \A i \in 1..Len(head) : words[i] = head[i]
         /\ \A i \in 1..Len(text) : words[Len(head) + i] = text[i]
BY ConcatProperties, LenProperties

(* Capitals decide nothing about a name or the first word of a text. *)
LEMMA UpperValid ==
  ASSUME NEW words \in Seq(Words), NEW i \in 1..Len(words)
  PROVE  /\ ValidDName(upperTCP(words)[i]) <=> ValidDName(words[i])
         /\ ValidWord(upperTCP(words)[i]) <=> ValidWord(words[i])
<1> DEFINE u == upperTCP(words)[i]
<1>1. Size[u] = Size[words[i]] /\ (u \in Printable <=> words[i] \in Printable)
  BY UpperSame
<1> HIDE DEF u
<1>2. ValidDName(u) <=> ValidDName(words[i])
  BY <1>1, Zenon DEF ValidDName
<1>3. ValidWord(u) <=> ValidWord(words[i])
  BY <1>1, SMTT(20) DEF ValidWord
<1> QED BY <1>2, <1>3 DEF u

(* A spelling of a keyword is a word that becomes the keyword between      *)
(* spaces.                                                                 *)
LEMMA Spelled ==
  ASSUME NEW keyword, NEW w \in Spellings(keyword)
  PROVE  w \in DOMAIN Between /\ Between[w] = keyword /\ w \in Words
BY KeywordCapitals DEF Spellings

(* A MSG or ERR, however its keywords are spelled *)
LEMMA FromRecognised ==
  ASSUME NEW type \in Words, NEW keyword \in {"MSG", "ERR"}, AtEnd[type] = keyword,
         NEW from \in Spellings("FROM"), NEW is \in Spellings("IS"),
         NEW name \in Words, NEW text \in Seq(Words), Len(text) > 0
  PROVE  parseFrom(upperTCP(<< type, from, name, is >> \o text), keyword) <=>
           /\ ValidDName(name) /\ ValidWord(text[1])
           /\ is = "IS" \/ name \notin Spellings("IS")
<1> DEFINE words == << type, from, name, is >> \o text
           U == upperTCP(words)
           M == Matched(words, "IS")
<1>1. /\ words \in Seq(Words) /\ Len(words) \in Nat /\ Len(words) > 4
      /\ words[1] = type /\ words[2] = from /\ words[3] = name /\ words[4] = is
      /\ words[5] = text[1]
  <2> DEFINE head == << type, from, name, is >>
  <2>1. head \in Seq(Words) /\ Len(head) = 4
    BY Spelled
  <2>2. /\ words \in Seq(Words) /\ Len(words) = 4 + Len(text) /\ Len(text) \in Nat
        /\ \A i \in 1..4 : words[i] = head[i]
        /\ \A i \in 1..Len(text) : words[4 + i] = text[i]
    BY <2>1, Headed
  <2> QED BY <2>2
<1> HIDE DEF words
<1>2. \A i \in 0..Len(words) : M[i] <=> Candidate(words, "IS", i) /\ ~ M[i - 1]
  BY <1>1, MatchedStep
<1>3. U[1] = keyword
  <2>1. type \notin DOMAIN Between
    BY KeywordCapitals, CapitalsAssumption DEF CapitalsAssumption
  <2>2. U[1] = Anywhere[AtEnd[type]]
    BY <1>1, <2>1, UpperWord
  <2> QED BY <2>2, CapitalsAssumption DEF CapitalsAssumption
<1>4. U[2] = "FROM"
  <2>1. Matched(words, "FROM")[1] <=> FALSE
    BY <1>1, MatchedStep DEF Candidate
  <2>2. Matched(words, "FROM")[2]
    BY <1>1, <2>1, MatchedStep DEF Candidate
  <2> QED BY <1>1, <2>2, UpperWord, Spelled
<1>5. ~ M[2]
  BY <1>1, <1>2, Spelled DEF Candidate, Spellings
<1>6. M[3] <=> name \in Spellings("IS")
  BY <1>1, <1>2, <1>5 DEF Candidate
<1>7. U[4] = "IS" <=> is = "IS" \/ name \notin Spellings("IS")
  <2>1. M[4] <=> name \notin Spellings("IS")
    BY <1>1, <1>2, <1>6 DEF Candidate
  <2>2. U[4] = IF M[4] THEN "IS" ELSE is
    BY <1>1, UpperWord, Spelled
  <2> QED BY <2>1, <2>2
<1>8. ValidDName(U[3]) <=> ValidDName(name)
  <2>1. 3 \in 1..Len(words) /\ words[3] = name
    BY <1>1
  <2> QED BY <1>1, <2>1, UpperValid
<1>9. ValidWord(U[5]) <=> ValidWord(text[1])
  <2>1. 5 \in 1..Len(words) /\ words[5] = text[1]
    BY <1>1
  <2> QED BY <1>1, <2>1, UpperValid
<1> QED BY <1>3, <1>4, <1>7, <1>8, <1>9 DEF parseFrom, words

(* A REPLY, however its keywords are spelled *)
LEMMA ReplyRecognised ==
  ASSUME NEW type \in Words, AtEnd[type] = "REPLY", NEW result \in {"OK", "NOK"},
         NEW spelled \in Spellings(result), NEW is \in Spellings("IS"),
         NEW text \in Seq(Words), Len(text) > 0
  PROVE  parseRespondAuth(upperTCP(<< type, spelled, is >> \o text)) <=> ValidWord(text[1])
<1> DEFINE words == << type, spelled, is >> \o text
           U == upperTCP(words)
<1>1. /\ words \in Seq(Words) /\ Len(words) \in Nat /\ Len(words) > 3
      /\ words[1] = type /\ words[2] = spelled /\ words[3] = is /\ words[4] = text[1]
  <2> DEFINE head == << type, spelled, is >>
  <2>1. head \in Seq(Words) /\ Len(head) = 3
    BY Spelled
  <2>2. /\ words \in Seq(Words) /\ Len(words) = 3 + Len(text) /\ Len(text) \in Nat
        /\ \A i \in 1..3 : words[i] = head[i]
        /\ \A i \in 1..Len(text) : words[3 + i] = text[i]
    BY <2>1, Headed
  <2> QED BY <2>2
<1> HIDE DEF words
<1>2. U[1] = "REPLY"
  <2>1. type \notin DOMAIN Between
    BY KeywordCapitals, CapitalsAssumption DEF CapitalsAssumption
  <2>2. U[1] = Anywhere[AtEnd[type]]
    BY <1>1, <2>1, UpperWord
  <2> QED BY <2>2, CapitalsAssumption DEF CapitalsAssumption
<1>3. U[2] = result
  <2>1. ~ Matched(words, result)[1]
    BY <1>1, MatchedStep DEF Candidate
  <2>2. Matched(words, result)[2]
    BY <1>1, <2>1, MatchedStep DEF Candidate
  <2> QED BY <1>1, <2>2, UpperWord, Spelled
<1>4. U[3] = "IS"
  <2>1. ~ Matched(words, "IS")[2]
    BY <1>1, MatchedStep, Spelled DEF Candidate, Spellings
  <2>2. Matched(words, "IS")[3]
    BY <1>1, <2>1, MatchedStep DEF Candidate
  <2> QED BY <1>1, <2>2, UpperWord, Spelled
<1>5. ValidWord(U[4]) <=> ValidWord(text[1])
  BY <1>1, UpperValid
<1> QED BY <1>2, <1>3, <1>4, <1>5 DEF parseRespondAuth, words

(* The last IS between two spaces *)
LEMMA LastMarker ==
  ASSUME NEW words \in Seq(Words), Len(words) > 4, words[4] = "IS"
  PROVE  LET marker == SelectLastInSubSeq(words, 2, Len(words) - 1, LAMBDA w : w = "IS") IN
         /\ marker \in 4..(Len(words) - 1)
         /\ \A i \in 2..(Len(words) - 1) : words[i] = "IS" => i <= marker
         /\ words[marker] = "IS"
<1> DEFINE I == {i \in 2..(Len(words) - 1) : words[i] = "IS"}
<1>1. Len(words) \in Nat
  BY LenProperties
<1>2. 4 \in I /\ I \subseteq 1..Len(words)
  BY <1>1
<1>3. Max(I) \in I /\ \A i \in I : i <= Max(I)
  BY <1>1, <1>2, MaxIsGreatest
<1>4. SelectLastInSubSeq(words, 2, Len(words) - 1, LAMBDA w : w = "IS") = Max(I)
  BY <1>2 DEF SelectLastInSubSeq
<1> QED BY <1>1, <1>2, <1>3, <1>4

(* The text shown is what follows the fourth word exactly if the fourth is *)
(* the last IS.                                                            *)
LEMMA ShownText ==
  ASSUME NEW words \in Seq(Words), Len(words) > 4, words[4] = "IS",
         NEW text \in Seq(Words), Len(words) = Len(text) + 4
  PROVE  extractMessageContent(words) = text <=>
           /\ \A i \in 1..Len(text) : words[i + 4] = text[i]
           /\ \A i \in 1..(Len(text) - 1) : words[i + 4] # "IS"
<1> DEFINE marker == SelectLastInSubSeq(words, 2, Len(words) - 1, LAMBDA w : w = "IS")
<1>1. Len(words) \in Nat /\ Len(text) \in Nat
  BY LenProperties
<1>2. /\ marker \in 4..(Len(words) - 1)
      /\ \A i \in 2..(Len(words) - 1) : words[i] = "IS" => i <= marker
      /\ words[marker] = "IS"
  BY LastMarker
<1>3. extractMessageContent(words) = SubSeq(words, marker + 1, Len(words))
  BY <1>1, <1>2 DEF extractMessageContent
<1> HIDE DEF marker
<1>4. /\ SubSeq(words, marker + 1, Len(words)) \in Seq(Words)
      /\ Len(SubSeq(words, marker + 1, Len(words))) = Len(words) - marker
      /\ \A i \in 1..(Len(words) - marker) :
           SubSeq(words, marker + 1, Len(words))[i] = words[marker + i]
  BY <1>1, <1>2, SubSeqProperties
<1>5. ASSUME extractMessageContent(words) = text
      PROVE  /\ \A i \in 1..Len(text) : words[i + 4] = text[i]
             /\ \A i \in 1..(Len(text) - 1) : words[i + 4] # "IS"
  <2>1. Len(text) = Len(words) - marker
    BY <1>3, <1>4, <1>5
  <2>2. marker = 4
    BY <1>1, <1>2, <2>1
  <2>3. \A i \in 1..Len(text) : words[4 + i] = text[i]
    BY <1>3, <1>4, <1>5, <2>1, <2>2
  <2>4. \A i \in 1..Len(text) : words[i + 4] = text[i]
    BY <1>1, <2>3
  <2>5. ASSUME NEW i \in 1..(Len(text) - 1) PROVE words[i + 4] # "IS"
    BY <1>1, <1>2, <2>2
  <2> QED BY <2>4, <2>5
<1>6. ASSUME \A i \in 1..Len(text) : words[i + 4] = text[i],
             \A i \in 1..(Len(text) - 1) : words[i + 4] # "IS"
      PROVE  extractMessageContent(words) = text
  <2>1. marker = 4
    <3>1. marker # 4 => marker - 4 \in 1..(Len(text) - 1) /\ marker = (marker - 4) + 4
      BY <1>1, <1>2
    <3> QED BY <1>2, <1>6, <3>1
  <2>2. \A i \in 1..Len(text) : text[i] = SubSeq(words, marker + 1, Len(words))[i]
    BY <1>1, <1>4, <1>6, <2>1
  <2>3. Len(text) = Len(SubSeq(words, marker + 1, Len(words)))
    BY <1>1, <1>4, <2>1
  <2> QED BY <1>3, <1>4, <2>2, <2>3, SeqEqual
<1> QED BY <1>5, <1>6

(* What the capitals leave as it is *)
LEMMA LeftAlone ==
  ASSUME NEW words \in Seq(Words), words[1] \notin DOMAIN Between,
         NEW i \in 2..Len(words)
  PROVE  upperTCP(words)[i] = words[i] <=>
           /\ Anywhere[words[i]] = words[i]
           /\ i < Len(words) =>
                /\ AtEnd[words[i]] = words[i]
                /\ words[i] \in DOMAIN Between =>
                     words[i] = Between[words[i]] \/ InFront(words, i) % 2 = 1
<1>1. Len(words) \in Nat /\ words[i] \in Words /\ i \in 1..Len(words)
  BY LenProperties, ElementOfSeq
<1>2. CASE words[i] \notin DOMAIN Between
  <2>1. upperTCP(words)[i] = Anywhere[IF i < Len(words) THEN AtEnd[words[i]] ELSE words[i]]
    BY <1>1, <1>2, UpperWord
  <2> QED BY <1>1, <1>2, <2>1, WordCapitals
<1>3. CASE words[i] \in DOMAIN Between
  <2>1. /\ AtEnd[words[i]] = words[i] /\ Anywhere[words[i]] = words[i]
        /\ upperTCP(words)[i] = IF Matched(words, Between[words[i]])[i]
                                THEN Between[words[i]] ELSE words[i]
    BY <1>1, <1>3, UpperWord, KeywordCapitals
  <2>2. CASE i < Len(words)
    <3>1. i \in 2..(Len(words) - 1)
      BY <1>1, <2>2
    <3>2. Matched(words, Between[words[i]])[i] <=> InFront(words, i) % 2 = 0
      BY <1>1, <1>3, <3>1, MatchedByRun
    <3>3. InFront(words, i) % 2 = 1 <=> InFront(words, i) % 2 # 0
      BY <1>1, <1>3, <3>1, MatchedByRun
    <3>4. words[i] = Between[words[i]] \/ InFront(words, i) % 2 = 1
            <=> upperTCP(words)[i] = words[i]
      BY <2>1, <3>2, <3>3
    <3> QED BY <2>1, <2>2, <1>3, <3>4
  <2>3. CASE ~ (i < Len(words))
    <3>1. ~ Matched(words, Between[words[i]])[i]
      BY <1>1, <2>3, MatchedStep DEF Candidate
    <3> QED BY <2>1, <2>3, <3>1
  <2> QED BY <2>2, <2>3
<1> QED BY <1>2, <1>3
-----------------------------------------------------------------------------
(* Texts and lines are sequences of words. *)
LEMMA TextsAreSeqs ==
  ASSUME NEW text \in Texts
  PROVE  text \in Seq(Words) /\ Len(text) \in Nat /\ Len(text) > 0 /\ text # << "" >>
<1>1. MaxWords \in Nat /\ TextWords \subseteq Words
  BY InputsAssumption DEF InputsAssumption
<1>2. PICK n \in 1..MaxWords : text \in [1..n -> TextWords]
  BY DEF Texts
<1>3. text # << "" >>
  BY DEF Texts
<1>4. n \in Nat /\ n > 0 /\ text \in [1..n -> Words]
  BY <1>1, <1>2
<1>5. text \in Seq(Words) /\ Len(text) = n
  BY <1>4
<1> QED BY <1>3, <1>4, <1>5

(* The message another client receives of a text *)
LEMMA SentMessage ==
  ASSUME NEW name \in Words, NEW text \in Seq(Words), Len(text) > 0,
         input = [kind |-> "message", name |-> name, text |-> text],
         parseLine(text).type = "MSG"
  PROVE  /\ Sent = << "MSG", "FROM", name, "IS" >> \o text
         /\ Sent \in Seq(Words) /\ Len(Sent) = Len(text) + 4
         /\ Sent[1] = "MSG" /\ Sent[2] = "FROM" /\ Sent[3] = name /\ Sent[4] = "IS"
         /\ \A i \in 1..Len(text) : Sent[i + 4] = text[i]
<1>1. parseLine(text).message = text
  BY DEF parseLine, None, parseAuth
<1>2. Sent = << "MSG", "FROM", name, "IS" >> \o text
  BY <1>1 DEF Sent, tcp_construct_msg
<1>3. /\ << "MSG", "FROM", name, "IS" >> \in Seq(Words)
      /\ Len(<< "MSG", "FROM", name, "IS" >>) = 4
  <2>1. "MSG" \in Words /\ "FROM" \in Words /\ "IS" \in Words
    BY WordsAssumption DEF WordsAssumption
  <2> QED BY <2>1
<1> HIDE DEF Sent
<1>4. /\ Sent \in Seq(Words) /\ Len(Sent) = 4 + Len(text) /\ Len(text) \in Nat
      /\ \A i \in 1..4 : Sent[i] = << "MSG", "FROM", name, "IS" >>[i]
      /\ \A i \in 1..Len(text) : Sent[4 + i] = text[i]
  BY <1>2, <1>3, Headed
<1> QED BY <1>2, <1>4

(* The property for one text: rejected for the reasons it names only *)
LEMMA RejectedText ==
  ASSUME NEW name \in Words, NEW text \in Seq(Words), Len(text) > 0,
         input = [kind |-> "message", name |-> name, text |-> text],
         parseLine(text).type = "MSG"
  PROVE  RejectedExactly
<1>1. /\ "MSG" \in Words /\ AtEnd["MSG"] = "MSG"
      /\ "FROM" \in Spellings("FROM") /\ "IS" \in Spellings("IS")
  BY WordsAssumption, CapitalsAssumption DEF WordsAssumption, CapitalsAssumption, Spellings
<1>2. parseFrom(upperTCP(<< "MSG", "FROM", name, "IS" >> \o text), "MSG")
        <=> ValidDName(name) /\ ValidWord(text[1])
  BY <1>1, FromRecognised
<1>3. Sent = << "MSG", "FROM", name, "IS" >> \o text
  BY SentMessage
<1> QED BY <1>2, <1>3 DEF RejectedExactly, SentOver, parseMSG

(* The property for one text: recognised whatever its capitals *)
LEMMA KeywordsText ==
  ASSUME NEW name \in Words, NEW text \in Seq(Words), Len(text) > 0,
         input = [kind |-> "message", name |-> name, text |-> text]
  PROVE  KeywordsAnyCase
<1>1. /\ {"MSG", "ERR", "REPLY"} \subseteq Words
      /\ AtEnd["MSG"] = "MSG" /\ AtEnd["ERR"] = "ERR" /\ AtEnd["REPLY"] = "REPLY"
      /\ \A k \in {"FROM", "IS", "OK", "NOK"} : k \in Spellings(k)
  <2>1. {"MSG", "ERR", "REPLY"} \subseteq Words
    BY WordsAssumption DEF WordsAssumption
  <2>2. /\ AtEnd["MSG"] = "MSG" /\ AtEnd["ERR"] = "ERR" /\ AtEnd["REPLY"] = "REPLY"
        /\ \A k \in {"FROM", "IS", "OK", "NOK"} : k \in DOMAIN Between /\ Between[k] = k
    BY CapitalsAssumption DEF CapitalsAssumption
  <2> QED BY <2>1, <2>2 DEF Spellings
<1>2. input.name = name /\ input.text = text
  OBVIOUS
<1> SUFFICES ASSUME NEW is \in Spellings("IS")
             PROVE  LET known == is = "IS" \/ input.name \notin Spellings("IS") IN
                    /\ \A from \in Spellings("FROM") :
                         /\ \A type \in SpelledAtEnd("MSG") :
                              parseMSG(Upper(type, from, is))
                                <=> parseMSG(Upper("MSG", "FROM", "IS")) /\ known
                         /\ \A type \in SpelledAtEnd("ERR") :
                              parseERR(Upper(type, from, is))
                                <=> parseERR(Upper("ERR", "FROM", "IS")) /\ known
                    /\ \A type \in SpelledAtEnd("REPLY"), result \in {"OK", "NOK"} :
                         \A spelled \in Spellings(result) :
                           parseRespondAuth(UpperReply(type, spelled, is))
                             <=> parseRespondAuth(UpperReply("REPLY", result, "IS"))
  BY DEF KeywordsAnyCase
<1>3. ASSUME NEW from \in Spellings("FROM"), NEW keyword \in {"MSG", "ERR"},
             NEW type \in SpelledAtEnd(keyword)
      PROVE  parseFrom(Upper(type, from, is), keyword)
               <=> /\ parseFrom(Upper(keyword, "FROM", "IS"), keyword)
                   /\ is = "IS" \/ name \notin Spellings("IS")
  <2>1. type \in Words /\ AtEnd[type] = keyword
    BY DEF SpelledAtEnd
  <2>2. parseFrom(Upper(type, from, is), keyword)
          <=> /\ ValidDName(name) /\ ValidWord(text[1])
              /\ is = "IS" \/ name \notin Spellings("IS")
    BY <1>2, <2>1, FromRecognised DEF Upper
  <2>3. parseFrom(Upper(keyword, "FROM", "IS"), keyword) <=> ValidDName(name) /\ ValidWord(text[1])
    BY <1>1, <1>2, FromRecognised DEF Upper
  <2> QED BY <2>2, <2>3
<1>4. ASSUME NEW type \in SpelledAtEnd("REPLY"), NEW result \in {"OK", "NOK"},
             NEW spelled \in Spellings(result)
      PROVE  parseRespondAuth(UpperReply(type, spelled, is))
               <=> parseRespondAuth(UpperReply("REPLY", result, "IS"))
  <2>1. type \in Words /\ AtEnd[type] = "REPLY"
    BY DEF SpelledAtEnd
  <2>2. parseRespondAuth(UpperReply(type, spelled, is)) <=> ValidWord(text[1])
    BY <1>2, <2>1, ReplyRecognised DEF UpperReply
  <2>3. parseRespondAuth(UpperReply("REPLY", result, "IS")) <=> ValidWord(text[1])
    BY <1>1, <1>2, ReplyRecognised DEF UpperReply
  <2> QED BY <2>2, <2>3
<1> QED BY <1>2, <1>3, <1>4 DEF parseMSG, parseERR

(* The property for one text: shown whole, or cut for the reason it names *)
LEMMA ShownWhole ==
  ASSUME NEW name \in Words, NEW text \in Seq(Words), Len(text) > 0,
         input = [kind |-> "message", name |-> name, text |-> text],
         parseLine(text).type = "MSG"
  PROVE  ShownExactly
<1>1. /\ Sent \in Seq(Words) /\ Len(Sent) = Len(text) + 4 /\ Len(text) \in Nat
      /\ Sent[1] = "MSG" /\ Sent[2] = "FROM" /\ Sent[3] = name /\ Sent[4] = "IS"
      /\ \A i \in 1..Len(text) : Sent[i + 4] = text[i]
  BY SentMessage, LenProperties
<1>2. input.kind = "message" /\ input.text = text
  OBVIOUS
<1>3. "MSG" \notin DOMAIN Between /\ "IS" \in DOMAIN Between /\ Between["IS"] = "IS"
  BY CapitalsAssumption DEF CapitalsAssumption
<1> DEFINE kept(i) ==
      /\ Anywhere[text[i]] = text[i]
      /\ i < Len(text) =>
           /\ AtEnd[text[i]] = text[i] /\ text[i] # "IS"
           /\ text[i] \in DOMAIN Between =>
                text[i] = Between[text[i]] \/ InFront(Sent, i + 4) % 2 = 1
<1> HIDE DEF Sent
<1>4. /\ SentOver \in Seq(Words) /\ Len(SentOver) = Len(text) + 4 /\ SentOver[4] = "IS"
  <2>1. Len(SentOver) = Len(text) + 4 /\ SentOver[4] = "IS"
    BY <1>1, <1>3, UpperWord DEF SentOver
  <2>2. SentOver \in Seq(Words)
    BY <1>1, UpperSeq DEF SentOver
  <2> QED BY <2>1, <2>2
<1>5. extractMessageContent(SentOver) = text <=>
        /\ \A i \in 1..Len(text) : SentOver[i + 4] = text[i]
        /\ \A i \in 1..(Len(text) - 1) : SentOver[i + 4] # "IS"
  <2>1. Len(SentOver) > 4
    BY <1>1, <1>4
  <2> HIDE DEF SentOver
  <2> QED BY <1>4, <2>1, ShownText
<1>6. ASSUME NEW i \in 1..Len(text)
      PROVE  SentOver[i + 4] = text[i] /\ (i < Len(text) => text[i] # "IS") <=> kept(i)
  <2>1. i + 4 \in 2..Len(Sent) /\ Sent[i + 4] = text[i] /\ (i + 4 < Len(Sent) <=> i < Len(text))
    BY <1>1
  <2>2. SentOver[i + 4] = text[i] <=>
           /\ Anywhere[text[i]] = text[i]
           /\ i < Len(text) =>
                /\ AtEnd[text[i]] = text[i]
                /\ text[i] \in DOMAIN Between =>
                     text[i] = Between[text[i]] \/ InFront(Sent, i + 4) % 2 = 1
    BY <1>1, <1>3, <2>1, LeftAlone DEF SentOver
  <2> QED BY <2>2
<1>7. extractMessageContent(SentOver) = text <=> \A i \in 1..Len(text) : kept(i)
  <2>1. \A i \in 1..Len(text) : i < Len(text) <=> i \in 1..(Len(text) - 1)
    BY <1>1
  <2>2. 1..(Len(text) - 1) \subseteq 1..Len(text)
    BY <1>1
  <2> HIDE DEF kept, SentOver
  <2>3. ASSUME extractMessageContent(SentOver) = text, NEW i \in 1..Len(text) PROVE kept(i)
    <3>1. SentOver[i + 4] = text[i] /\ (i < Len(text) => text[i] # "IS")
      BY <1>5, <2>1, <2>3
    <3> QED BY <1>6, <3>1
  <2>4. ASSUME \A i \in 1..Len(text) : kept(i) PROVE extractMessageContent(SentOver) = text
    <3>1. ASSUME NEW i \in 1..Len(text)
          PROVE  SentOver[i + 4] = text[i] /\ (i < Len(text) => text[i] # "IS")
      <4>1. kept(i)
        BY <2>4
      <4> QED BY <1>6, <4>1
    <3> QED BY <1>5, <2>1, <2>2, <3>1
  <2> QED BY <2>3, <2>4
<1> QED BY <1>2, <1>7 DEF ShownExactly

-----------------------------------------------------------------------------
(* A typed line: a command and words.  Only an empty word at its end is    *)
(* lost when it is split.                                                  *)
LEMMA SplitLine ==
  ASSUME NEW line \in Lines
  PROVE  /\ line \in Seq(Words \cup {"/auth", "/join", "/rename", "/help"})
         /\ Len(line) \in Nat /\ line[1] \in {"/auth", "/join", "/rename", "/help"}
         /\ \A i \in 2..Len(line) : line[i] \in Words
         /\ Split(line) \in Seq(Words \cup {"/auth", "/join", "/rename", "/help"})
         /\ Len(Split(line)) \in 1..Len(line)
         /\ \A i \in 1..Len(Split(line)) : Split(line)[i] = line[i]
<1> DEFINE commands == {"/auth", "/join", "/rename", "/help"}
           S == Words \cup commands
           A == UNION {[1..n -> Arguments] : n \in 0..MaxArgs}
<1>1. MaxArgs \in Nat /\ Arguments \subseteq Words
  BY InputsAssumption DEF InputsAssumption
<1>2. PICK command \in commands, arg \in A : line = << command >> \o arg
  <2> DEFINE typed(command, arg) == << command >> \o arg
  <2>1. line \in {typed(command, arg) : command \in commands, arg \in A}
    BY DEF Lines
  <2> HIDE DEF commands, A, typed
  <2>2. \E command \in commands, arg \in A : line = typed(command, arg)
    BY <2>1
  <2> QED BY <2>2 DEF typed
<1>a. PICK n \in 0..MaxArgs : arg \in [1..n -> Arguments]
  OBVIOUS
<1>3. n \in Nat /\ arg \in Seq(Words) /\ Len(arg) = n
  <2>1. n \in Nat /\ arg \in [1..n -> Words]
    BY <1>1, <1>a
  <2> QED BY <2>1
<1>4. /\ Len(line) = n + 1 /\ line[1] = command
      /\ \A i \in 2..Len(line) : line[i] \in Words
      /\ line \in Seq(S)
  <2>1. << command >> \in Seq(S) /\ arg \in Seq(S) /\ Len(<< command >>) = 1
    BY <1>3
  <2>2. /\ line \in Seq(S) /\ Len(line) = n + 1
        /\ \A i \in 1..(n + 1) :
             line[i] = IF i <= 1 THEN << command >>[i] ELSE arg[i - 1]
    BY <1>2, <1>3, <2>1, ConcatProperties
  <2>3. line[1] = command
    BY <1>3, <2>2
  <2>4. ASSUME NEW i \in 2..Len(line) PROVE line[i] \in Words
    <3>1. i - 1 \in 1..n /\ line[i] = arg[i - 1]
      BY <1>3, <2>2
    <3> QED BY <3>1, <1>3, ElementOfSeq
  <2> QED BY <2>2, <2>3, <2>4
<1> HIDE DEF S
<1>5. CASE Last(line) # ""
  <2>1. Split(line) = line
    BY <1>5 DEF Split
  <2> QED BY <1>3, <1>4, <2>1 DEF S
<1>6. CASE Last(line) = ""
  <2>a. Len(line) - 1 = n
    BY <1>3, <1>4
  <2>1. Split(line) = SubSeq(line, 1, n)
    BY <1>6, <2>a DEF Split, Front
  <2>2. n # 0
    <3>1. Last(line) = line[n + 1] /\ line[1] # ""
      BY <1>4 DEF Last
    <3>2. n = 0 => n + 1 = 1
      OBVIOUS
    <3> QED BY <1>6, <3>1, <3>2
  <2>3. /\ SubSeq(line, 1, n) \in Seq(S) /\ Len(SubSeq(line, 1, n)) = n
        /\ \A i \in 1..n : SubSeq(line, 1, n)[i] = line[i]
    BY <1>3, <1>4, SubSeqProperties
  <2> QED BY <1>3, <1>4, <2>1, <2>2, <2>3 DEF S
<1> QED BY <1>5, <1>6

(* A valid identity has at most 28 characters. *)
LEMMA IDSize ==
  ASSUME NEW word \in Words, ValidID(word)
  PROVE  Size[word] \in 1..28
<1>1. Size[word] \in Nat
  BY WordsAssumption DEF WordsAssumption
<1>2. Size[Remains[word]] \in {Size[word], Size[word] - 8}
  BY DiscordAssumption DEF DiscordAssumption
<1> QED BY <1>1, <1>2 DEF ValidID

(* The property for one line: what is sent is what was typed. *)
LEMMA SentLine ==
  ASSUME NEW line \in Lines, input = [kind |-> "line", line |-> line]
  PROVE  SentAsTyped
<1> DEFINE words == Split(line)
           arg == Tail(words)
           m == parseLine(line)
<1>1. /\ Len(line) \in Nat /\ line[1] \in {"/auth", "/join", "/rename", "/help"}
      /\ \A i \in 2..Len(line) : line[i] \in Words
      /\ words \in Seq(Words \cup {"/auth", "/join", "/rename", "/help"})
      /\ Len(words) \in 1..Len(line)
      /\ \A i \in 1..Len(words) : words[i] = line[i]
  BY SplitLine
<1> HIDE DEF words
<1>2. /\ Len(arg) = Len(words) - 1
      /\ \A i \in 1..Len(arg) : arg[i] = line[i + 1] /\ arg[i] \in Words
  <2>1. words # << >>
    BY <1>1
  <2>2. /\ Len(arg) = Len(words) - 1
        /\ \A i \in 1..Len(arg) : arg[i] = words[i + 1]
    BY <1>1, <2>1
  <2>3. ASSUME NEW i \in 1..Len(arg) PROVE arg[i] = line[i + 1] /\ arg[i] \in Words
    <3>1. i + 1 \in 1..Len(words) /\ i + 1 \in 2..Len(line)
      BY <1>1, <2>2
    <3> QED BY <1>1, <2>2, <3>1
  <2> QED BY <2>2, <2>3
<1>3. words[1] = line[1]
  BY <1>1
<1>4. m = CASE words[1] = "/auth" ->
                 IF Len(arg) = 3 /\ ValidSecret(arg[2]) /\ ValidID(arg[1]) /\ ValidDName(arg[3])
                 THEN parseAuth(arg) ELSE None
            [] words[1] = "/join" ->
                 IF Len(arg) = 1 /\ ValidID(arg[1]) THEN [type |-> "JOIN", channel |-> arg[1]]
                 ELSE None
            [] words[1] = "/rename" ->
                 IF Len(arg) = 1 THEN [type |-> "RENAME", displayName |-> arg[1]] ELSE None
            [] words[1] = "/help" -> [type |-> "HELP"]
            [] OTHER -> [type |-> "MSG", message |-> line]
  BY DEF parseLine, words
<1> HIDE DEF arg, m
<1>5. ASSUME m.type = "AUTH"
      PROVE  /\ Len(arg) = 3 /\ m = parseAuth(arg)
             /\ Size[arg[1]] \in 1..28 /\ Size[arg[3]] \in 1..20 /\ Size[arg[2]] \in 1..128
  <2>1. /\ Len(arg) = 3 /\ m = parseAuth(arg)
        /\ ValidSecret(arg[2]) /\ ValidID(arg[1]) /\ ValidDName(arg[3])
    BY <1>1, <1>3, <1>4, <1>5 DEF None, parseAuth
  <2>2. arg[1] \in Words
    <3>1. 1 \in 1..Len(arg)
      BY <2>1
    <3> QED BY <1>2, <3>1
  <2> QED BY <2>1, <2>2, IDSize DEF ValidSecret, ValidDName
<1>6. ASSUME m.type = "JOIN"
      PROVE  /\ Len(arg) = 1 /\ m = [type |-> "JOIN", channel |-> arg[1]]
             /\ Size[arg[1]] \in 1..28
  <2>1. Len(arg) = 1 /\ m = [type |-> "JOIN", channel |-> arg[1]] /\ ValidID(arg[1])
    BY <1>1, <1>3, <1>4, <1>6 DEF None, parseAuth
  <2>2. arg[1] \in Words
    <3>1. 1 \in 1..Len(arg)
      BY <2>1
    <3> QED BY <1>2, <3>1
  <2> QED BY <2>1, <2>2, IDSize
<1>7. ASSUME Len(arg) = 3
      PROVE  /\ line[2] = arg[1] /\ SubSeq(line, 2, 4) = << arg[1], arg[2], arg[3] >>
  <2>1. 4 <= Len(line)
    <3>1. Len(words) \in Nat /\ Len(words) <= Len(line)
      BY <1>1
    <3>2. Len(words) - 1 = 3
      BY <1>2, <1>7
    <3>3. Len(words) = 4
      BY <3>1, <3>2
    <3> QED BY <3>1, <3>3
  <2>2. 1 \in 1..Len(arg) /\ 2 \in 1..Len(arg) /\ 3 \in 1..Len(arg)
    BY <1>7
  <2>3. arg[1] = line[1 + 1] /\ arg[2] = line[2 + 1] /\ arg[3] = line[3 + 1]
    BY <1>2, <2>2
  <2>4. line \in Seq(Words \cup {"/auth", "/join", "/rename", "/help"})
    BY SplitLine
  <2>5. SubSeq(line, 2, 4) = << line[2], line[3], line[4] >>
    <3> DEFINE S == Words \cup {"/auth", "/join", "/rename", "/help"}
    <3>1. /\ SubSeq(line, 2, 4) \in Seq(S) /\ Len(SubSeq(line, 2, 4)) = 3
          /\ \A i \in 1..3 : SubSeq(line, 2, 4)[i] = line[1 + i]
      <4>1. 2 \in 1..Len(line) + 1 /\ 4 \in 2 - 1..Len(line)
        BY <1>1, <2>1
      <4> HIDE DEF S
      <4> QED BY <2>4, <4>1, SubSeqProperties DEF S
    <3>2. /\ << line[2], line[3], line[4] >> \in Seq(S)
          /\ Len(<< line[2], line[3], line[4] >>) = 3
      <4>1. line[2] \in S /\ line[3] \in S /\ line[4] \in S
        BY <1>1, <2>1, <2>4
      <4> HIDE DEF S
      <4> QED BY <4>1
    <3>3. \A i \in 1..3 : SubSeq(line, 2, 4)[i] = << line[2], line[3], line[4] >>[i]
      BY <3>1
    <3> QED BY <3>1, <3>2, <3>3, SeqEqual
  <2> QED BY <2>3, <2>5
<1>8. ASSUME m.type = "AUTH"
      PROVE  LET auth == tcp_construct_auth(m) IN
             /\ << auth[1], auth[3], auth[5] >> = << "AUTH", "AS", "USING" >>
             /\ udp_construct_auth(m) = << auth[2], auth[4], auth[6] >>
             /\ SubSeq(line, 2, 4) = << auth[2], auth[6], auth[4] >>
             /\ Size[auth[2]] \in 1..28 /\ Size[auth[4]] \in 1..20 /\ Size[auth[6]] \in 1..128
  <2>1. /\ m.username = arg[1] /\ m.secret = arg[2] /\ m.displayName = arg[3]
    BY <1>5, <1>8 DEF parseAuth
  <2> QED BY <1>5, <1>7, <1>8, <2>1 DEF tcp_construct_auth, udp_construct_auth
<1>9. ASSUME m.type = "JOIN"
      PROVE  LET join == tcp_construct_join(m, "me") IN
             /\ << join[1], join[3] >> = << "JOIN", "AS" >>
             /\ udp_construct_join(m, "me") = << join[2], join[4] >>
             /\ line[2] = join[2] /\ Size[join[2]] \in 1..28
  <2>1. m.channel = arg[1] /\ arg[1] = line[2]
    <3>1. Len(arg) = 1
      BY <1>6, <1>9, Zenon
    <3>a. 1 \in 1..Len(arg)
      BY <3>1
    <3>2. arg[1] = line[1 + 1]
      BY <1>2, <3>a
    <3> QED BY <1>6, <1>9, <3>2
  <2> QED BY <1>6, <1>9, <2>1 DEF tcp_construct_join, udp_construct_join
<1>10. input.line = line
  OBVIOUS
<1> QED BY <1>8, <1>9, <1>10 DEF SentAsTyped, m

-----------------------------------------------------------------------------
(* What is claimed of one identifier *)
LEMMA ConvertedID ==
  ASSUME NEW id \in IDs, input = [kind |-> "id", id |-> id]
  PROVE  /\ ShortToBytes(ToShort(input.id)) \in Bytes \X Bytes
         /\ ReadSignedID(ShortToBytes(input.id)) \in Shorts
         /\ RoundTrip /\ NetworkConfirmsTheID /\ ReceiverConfirmWrongExactly
<1> DEFINE high == id \div 256
           low  == id % 256
<1>1. /\ high \in Bytes /\ low \in Bytes
      /\ id = 256 * high + low /\ ShortToBytes(id) = << high, low >>
  BY IDBytes
<1>2. input.id = id /\ input.kind = "id"
  OBVIOUS
<1>3. ShortToBytes(ToShort(id)) = ShortToBytes(id) /\ ReadID(ShortToBytes(id)) = id
  BY ShortBytes, ReadBack
<1> HIDE DEF high, low
<1>4. /\ ReadSignedID(<< high, low >>) \in Shorts
      /\ low < 128 => ReceiverConfirm(<< high, low >>) = << high, low >>
      /\ low >= 128 => ReceiverConfirm(<< high, low >>) = << 255, low >>
  BY <1>1, ReadSigned
<1>5. RoundTrip /\ NetworkConfirmsTheID
  BY <1>2, <1>3 DEF RoundTrip, NetworkConfirmsTheID, NetworkConfirm
<1>6. ReceiverConfirmWrongExactly
  <2>1. low < 128 \/ low >= 128
    BY <1>1 DEF Bytes
  <2>2. << high, low >> = << 255, low >> <=> high = 255
    OBVIOUS
  <2>3. ReceiverConfirm(<< high, low >>) = << high, low >> <=> (low < 128 \/ high = 255)
    BY <1>4, <2>1, <2>2
  <2> QED BY <1>1, <1>2, <1>4, <2>3 DEF ReceiverConfirmWrongExactly, high, low
<1> QED BY <1>1, <1>2, <1>3, <1>4, <1>5, <1>6
-----------------------------------------------------------------------------
(* The last option of a letter among those of a command line *)
LatestIn(options, letter) ==
  LET places == {i \in 1..Len(options) : options[i].opt = letter}
  IN  IF places = {} THEN << >> ELSE << options[Max(places)] >>

(* One more option is the last of its letter and of no other. *)
LEMMA LatestAppended ==
  ASSUME NEW options \in Seq(Options), NEW option \in Options, NEW letter
  PROVE  LatestIn(Append(options, option), letter) =
           IF option.opt = letter THEN << option >> ELSE LatestIn(options, letter)
<1> DEFINE all == Append(options, option)
           n == Len(options)
           before == {i \in 1..n : options[i].opt = letter}
           after == {i \in 1..Len(all) : all[i].opt = letter}
<1>1. /\ n \in Nat /\ all \in Seq(Options) /\ Len(all) = n + 1 /\ all[n + 1] = option
      /\ \A i \in 1..n : all[i] = options[i]
  BY AppendProperties, LenProperties
<1> HIDE DEF all, n
<1>2. CASE option.opt = letter
  <2>1. n + 1 \in after /\ after \subseteq 1..(n + 1)
    BY <1>1, <1>2
  <2> HIDE DEF after
  <2>2. Max(after) = n + 1
    <3>1. n + 1 \in Nat /\ after # {}
      BY <1>1, <2>1
    <3>2. Max(after) \in after /\ \A i \in after : i <= Max(after)
      BY <2>1, <3>1, MaxIsGreatest
    <3>3. Max(after) \in 1..(n + 1) /\ n + 1 <= Max(after)
      BY <2>1, <3>2
    <3> QED BY <1>1, <3>3
  <2>3. LatestIn(all, letter) = << all[Max(after)] >>
    BY <2>1 DEF LatestIn, after
  <2> QED BY <1>1, <1>2, <2>2, <2>3 DEF all
<1>3. CASE option.opt # letter
  <2>1. after = before
    BY <1>1, <1>3
  <2>2. LatestIn(options, letter) = IF before = {} THEN << >> ELSE << options[Max(before)] >>
    BY DEF LatestIn, n
  <2>3. LatestIn(all, letter) = IF before = {} THEN << >> ELSE << all[Max(before)] >>
    BY <2>1 DEF LatestIn
  <2>4. before # {} => Max(before) \in 1..n
    <3>1. before \subseteq 1..n
      OBVIOUS
    <3> HIDE DEF before
    <3> QED BY <1>1, <3>1, MaxIsGreatest
  <2> HIDE DEF before
  <2> QED BY <1>1, <1>3, <2>2, <2>3, <2>4 DEF all
<1> QED BY <1>2, <1>3

(* The last option of a letter, if any, is an option with that letter. *)
LEMMA LatestIsOption ==
  ASSUME NEW options \in Seq(Options), NEW letter
  PROVE  \/ LatestIn(options, letter) = << >>
         \/ \E option \in Options :
              option.opt = letter /\ LatestIn(options, letter) = << option >>
<1> DEFINE places == {i \in 1..Len(options) : options[i].opt = letter}
<1>1. Len(options) \in Nat /\ places \subseteq 1..Len(options)
  BY LenProperties
<1>2. CASE places = {}
  BY <1>2 DEF LatestIn
<1>3. CASE places # {}
  <2>1. Max(places) \in places
    <3> HIDE DEF places
    <3> QED BY <1>1, <1>3, MaxIsGreatest
  <2>2. options[Max(places)] \in Options
    BY <2>1, ElementOfSeq
  <2> QED BY <1>3, <2>1, <2>2 DEF LatestIn
<1> QED BY <1>2, <1>3

(* What a number becomes when it is kept in so many bits *)
LEMMA CastFits ==
  ASSUME NEW value \in Int
  PROVE  /\ Cast(value, 16) \in 0..(2^16 - 1) /\ Cast(value, 8) \in 0..(2^8 - 1)
         /\ Cast(value, 16) = value <=> value \in 0..(2^16 - 1)
         /\ Cast(value, 8) = value <=> value \in 0..(2^8 - 1)
<1>1. Cast(value, 16) = value % 65536 /\ Cast(value, 8) = value % 256
  BY 2^16 = 65536, 2^8 = 256 DEF Cast
<1>2. /\ value % 65536 \in Int /\ 0 <= value % 65536 /\ value % 65536 < 65536
      /\ 0 <= value /\ value < 65536 => value % 65536 = value
  OBVIOUS
<1>3. /\ value % 256 \in Int /\ 0 <= value % 256 /\ value % 256 < 256
      /\ 0 <= value /\ value < 256 => value % 256 = value
  OBVIOUS
<1> DEFINE short == 2^16 - 1
           char == 2^8 - 1
<1>4. short \in Int /\ short + 1 = 65536
  BY 2^16 = 65536
<1>5. char \in Int /\ char + 1 = 256
  BY 2^8 = 256
<1> HIDE DEF short, char
<1>6. Cast(value, 16) \in 0..short /\ (Cast(value, 16) = value <=> value \in 0..short)
  BY <1>1, <1>2, <1>4
<1>7. Cast(value, 8) \in 0..char /\ (Cast(value, 8) = value <=> value \in 0..char)
  BY <1>1, <1>3, <1>5
<1> QED BY <1>6, <1>7 DEF short, char
-----------------------------------------------------------------------------
(* The inductive invariant: the input is one of those that can be chosen,  *)
(* and the members are what the last option of each letter has made of     *)
(* them.                                                                   *)
InputOK ==
  \/ input = [kind |-> "none"]
  \/ \E id \in IDs : input = [kind |-> "id", id |-> id]
  \/ \E name \in Names, text \in Texts :
       /\ parseLine(text).type = "MSG"
       /\ input = [kind |-> "message", name |-> name, text |-> text]
  \/ \E line \in Lines : input = [kind |-> "line", line |-> line]
  \/ input = [kind |-> "options"]

Members ==
  [protocol : Protocols \cup {""}, serverIP : Hosts \cup {""},
   serverPort : 0..(2^16 - 1), udpTimeout : 0..(2^16 - 1),
   udpRetransmissions : 0..(2^8 - 1)]

TextKept(member, latest) == member = IF latest = << >> THEN "" ELSE latest[1].arg

NumberKept(member, latest, default, width) ==
  IF latest = << >> THEN member = default
  ELSE latest[1].stoi # NoNumber /\ member = Cast(latest[1].stoi[1], width)

AllKept(options, m) ==
  /\ TextKept(m.protocol, LatestIn(options, "t"))
  /\ m.protocol \in {"", "tcp", "udp"}
  /\ TextKept(m.serverIP, LatestIn(options, "s"))
  /\ NumberKept(m.serverPort, LatestIn(options, "p"), Defaults.serverPort, 16)
  /\ NumberKept(m.udpTimeout, LatestIn(options, "d"), Defaults.udpTimeout, 16)
  /\ NumberKept(m.udpRetransmissions, LatestIn(options, "r"), Defaults.udpRetransmissions, 8)

ParseInv ==
  /\ given \in Seq(Options) /\ members \in Members
  /\ parsing \in {"options", "parsed", "ended"}
  /\ parsing # "ended" => AllKept(given, members)
  /\ parsing = "parsed" => members.protocol # "" /\ members.serverIP # ""

IInv == InputOK /\ ParseInv

(* When no option of the letter was given, the default is kept. *)
LEMMA DefaultKept ==
  ASSUME NEW latest, latest = << >>, NEW member, NEW default, NEW width
  PROVE  /\ TextKept(member, latest) <=> member = ""
         /\ NumberKept(member, latest, default, width) <=> member = default
BY DEF TextKept, NumberKept

(* The members all have values of their types. *)
LEMMA MembersRecord ==
  ASSUME NEW protocol \in Protocols \cup {""}, NEW host \in Hosts \cup {""},
         NEW port \in 0..(2^16 - 1), NEW timeout \in 0..(2^16 - 1), NEW retries \in 0..(2^8 - 1)
  PROVE  [protocol |-> protocol, serverIP |-> host, serverPort |-> port,
          udpTimeout |-> timeout, udpRetransmissions |-> retries] \in Members
<1> DEFINE shorts == 0..(2^16 - 1)
           chars == 0..(2^8 - 1)
<1>1. Members = [protocol : Protocols \cup {""}, serverIP : Hosts \cup {""},
                 serverPort : shorts, udpTimeout : shorts, udpRetransmissions : chars]
  BY DEF Members
<1>2. port \in shorts /\ timeout \in shorts /\ retries \in chars
  OBVIOUS
<1> HIDE DEF shorts, chars
<1> QED BY <1>1, <1>2

(* The members fit their types before any option is read. *)
LEMMA DefaultMembers ==
  Defaults \in Members /\ Defaults.protocol = "" /\ Defaults.serverIP = ""
<1>1. Defaults.serverPort \in 0..(2^16 - 1)
  BY 2^16 - 1 = 65535 DEF Defaults
<1>2. Defaults.udpTimeout \in 0..(2^16 - 1)
  BY 2^16 - 1 = 65535 DEF Defaults
<1>3. Defaults.udpRetransmissions \in 0..(2^8 - 1)
  BY 2^8 - 1 = 255 DEF Defaults
<1>4. Defaults = [protocol |-> "", serverIP |-> "", serverPort |-> Defaults.serverPort,
                  udpTimeout |-> Defaults.udpTimeout,
                  udpRetransmissions |-> Defaults.udpRetransmissions]
  BY DEF Defaults
<1>5. "" \in Protocols \cup {""} /\ "" \in Hosts \cup {""}
  OBVIOUS
<1>6. Defaults \in Members
  BY <1>1, <1>2, <1>3, <1>4, <1>5, MembersRecord, Zenon
<1>7. Defaults.protocol = ""
  BY DEF Defaults
<1>8. Defaults.serverIP = ""
  BY DEF Defaults
<1> QED BY <1>6, <1>7, <1>8

(* The invariant holds in every initial state. *)
LEMMA InitIInv == Init => IInv
<1> SUFFICES ASSUME Init PROVE IInv
  OBVIOUS
<1>1. InputOK
  BY DEF Init, InputOK
<1>2. given = << >> /\ members = Defaults /\ parsing = "options"
  BY DEF Init, ParseInit
<1>3. members \in Members
  BY <1>2, DefaultMembers
<1>4. \A letter : LatestIn(given, letter) = << >>
  BY <1>2 DEF LatestIn
<1>5. AllKept(given, members)
  <2>1. ASSUME NEW letter, NEW member, NEW default, NEW width
        PROVE  /\ TextKept(member, LatestIn(given, letter)) <=> member = ""
               /\ NumberKept(member, LatestIn(given, letter), default, width)
                    <=> member = default
    BY <1>4, DefaultKept, Zenon
  <2>2. members.protocol = "" /\ members.serverIP = "" /\ members = Defaults
    BY <1>2, DefaultMembers
  <2>a. /\ members.serverPort = Defaults.serverPort /\ members.udpTimeout = Defaults.udpTimeout
        /\ members.udpRetransmissions = Defaults.udpRetransmissions
    BY <2>2
  <2>3. /\ TextKept(members.protocol, LatestIn(given, "t"))
        /\ TextKept(members.serverIP, LatestIn(given, "s"))
    BY <2>1, <2>2
  <2>4. NumberKept(members.serverPort, LatestIn(given, "p"), Defaults.serverPort, 16)
    BY <2>1, <2>a
  <2>5. NumberKept(members.udpTimeout, LatestIn(given, "d"), Defaults.udpTimeout, 16)
    BY <2>1, <2>a
  <2>6. NumberKept(members.udpRetransmissions, LatestIn(given, "r"),
                   Defaults.udpRetransmissions, 8)
    BY <2>1, <2>a
  <2> QED BY <2>2, <2>3, <2>4, <2>5, <2>6 DEF AllKept
<1> QED BY <1>1, <1>2, <1>3, <1>5 DEF IInv, ParseInv

(* What an option holds *)
LEMMA OptionTypes ==
  ASSUME NEW option \in Options
  PROVE  /\ option.opt = "t" => option.arg \in Protocols
         /\ option.opt = "s" => option.arg \in Hosts
         /\ option.opt \in {"p", "d", "r"} /\ option.stoi # NoNumber => option.stoi[1] \in Int
<1>1. option.opt = "t" => option.arg \in Protocols
  BY DEF Options
<1>2. option.opt = "s" => option.arg \in Hosts
  BY DEF Options
<1>3. ASSUME option.opt \in {"p", "d", "r"}, option.stoi # NoNumber
      PROVE  option.stoi[1] \in Int
  <2>1. option.stoi \in {<< n >> : n \in Numbers}
    BY <1>3 DEF Options
  <2>2. Numbers \subseteq Int
    BY OptionsAssumption DEF OptionsAssumption
  <2>3. PICK n \in Numbers : option.stoi = << n >>
    BY <2>1
  <2>4. option.stoi[1] = n
    BY <2>3
  <2> QED BY <2>2, <2>4
<1> QED BY <1>1, <1>2, <1>3

(* The members keep their types. *)
LEMMA MembersUpdated ==
  ASSUME NEW m \in Members
  PROVE  /\ \A x \in Protocols : [m EXCEPT !.protocol = x] \in Members
         /\ \A x \in Hosts : [m EXCEPT !.serverIP = x] \in Members
         /\ \A x \in 0..(2^16 - 1) : [m EXCEPT !.serverPort = x] \in Members
         /\ \A x \in 0..(2^16 - 1) : [m EXCEPT !.udpTimeout = x] \in Members
         /\ \A x \in 0..(2^8 - 1) : [m EXCEPT !.udpRetransmissions = x] \in Members
<1> DEFINE shorts == 0..(2^16 - 1)
           chars == 0..(2^8 - 1)
<1>1. Members = [protocol : Protocols \cup {""}, serverIP : Hosts \cup {""},
                 serverPort : shorts, udpTimeout : shorts, udpRetransmissions : chars]
  BY DEF Members
<1> HIDE DEF shorts, chars
<1>2. \A x \in Protocols : [m EXCEPT !.protocol = x] \in Members
  BY <1>1
<1>3. \A x \in Hosts : [m EXCEPT !.serverIP = x] \in Members
  BY <1>1
<1>4. \A x \in shorts : [m EXCEPT !.serverPort = x] \in Members
  BY <1>1
<1>5. \A x \in shorts : [m EXCEPT !.udpTimeout = x] \in Members
  BY <1>1
<1>6. \A x \in chars : [m EXCEPT !.udpRetransmissions = x] \in Members
  BY <1>1
<1> QED BY <1>2, <1>3, <1>4, <1>5, <1>6 DEF shorts, chars

(* What one more option makes of the last ones *)
LEMMA KeptAfter ==
  ASSUME NEW options \in Seq(Options), NEW option \in Options, NEW m \in Members,
         AllKept(options, m)
  PROVE  LET all == Append(options, option) IN
         /\ option.opt = "t" /\ option.arg \in {"tcp", "udp"}
              => AllKept(all, [m EXCEPT !.protocol = option.arg])
         /\ option.opt = "s" => AllKept(all, [m EXCEPT !.serverIP = option.arg])
         /\ option.opt = "p" /\ option.stoi # NoNumber
              => AllKept(all, [m EXCEPT !.serverPort = Cast(option.stoi[1], 16)])
         /\ option.opt = "d" /\ option.stoi # NoNumber
              => AllKept(all, [m EXCEPT !.udpTimeout = Cast(option.stoi[1], 16)])
         /\ option.opt = "r" /\ option.stoi # NoNumber
              => AllKept(all, [m EXCEPT !.udpRetransmissions = Cast(option.stoi[1], 8)])
<1> DEFINE all == Append(options, option)
           value == option.stoi[1]
<1>1. \A letter : LatestIn(all, letter) =
                    IF option.opt = letter THEN << option >> ELSE LatestIn(options, letter)
  BY LatestAppended
<1> HIDE DEF all
<1>2. TextKept(option.arg, << option >>)
  BY DEF TextKept
<1>3. ASSUME option.stoi # NoNumber, NEW default, NEW width
      PROVE  NumberKept(Cast(value, width), << option >>, default, width)
  BY <1>3 DEF NumberKept
<1>4. ASSUME option.opt = "t", option.arg \in {"tcp", "udp"}
      PROVE  AllKept(all, [m EXCEPT !.protocol = option.arg])
  BY <1>1, <1>2, <1>4 DEF AllKept, Members
<1>5. ASSUME option.opt = "s" PROVE AllKept(all, [m EXCEPT !.serverIP = option.arg])
  <2> DEFINE after == [m EXCEPT !.serverIP = option.arg]
  <2>1. /\ after.protocol = m.protocol /\ after.serverIP = option.arg
        /\ after.serverPort = m.serverPort /\ after.udpTimeout = m.udpTimeout
        /\ after.udpRetransmissions = m.udpRetransmissions
    BY DEF Members
  <2> HIDE DEF after
  <2>2. /\ LatestIn(all, "s") = << option >> /\ LatestIn(all, "t") = LatestIn(options, "t")
        /\ LatestIn(all, "p") = LatestIn(options, "p")
        /\ LatestIn(all, "d") = LatestIn(options, "d")
        /\ LatestIn(all, "r") = LatestIn(options, "r")
    BY <1>1, <1>5
  <2>3. AllKept(all, after)
    BY <1>2, <2>1, <2>2 DEF AllKept
  <2> QED BY <2>3 DEF after
<1>6. ASSUME option.opt = "p", option.stoi # NoNumber
      PROVE  AllKept(all, [m EXCEPT !.serverPort = Cast(value, 16)])
  BY <1>1, <1>3, <1>6 DEF AllKept, Members
<1>7. ASSUME option.opt = "d", option.stoi # NoNumber
      PROVE  AllKept(all, [m EXCEPT !.udpTimeout = Cast(value, 16)])
  BY <1>1, <1>3, <1>7 DEF AllKept, Members
<1>8. ASSUME option.opt = "r", option.stoi # NoNumber
      PROVE  AllKept(all, [m EXCEPT !.udpRetransmissions = Cast(value, 8)])
  BY <1>1, <1>3, <1>8 DEF AllKept, Members
<1> QED BY <1>4, <1>5, <1>6, <1>7, <1>8 DEF all

(* The loop keeps its part of the invariant. *)
LEMMA ParseStep == ParseInv /\ ParseNext => ParseInv'
<1> SUFFICES ASSUME ParseInv, ParseNext PROVE ParseInv'
  OBVIOUS
<1>1. /\ given \in Seq(Options) /\ members \in Members
      /\ parsing \in {"options", "parsed", "ended"}
      /\ parsing # "ended" => AllKept(given, members)
  BY DEF ParseInv
<1>2. CASE EndOptions
  <2>1. /\ given' = given /\ members' = members /\ parsing = "options"
        /\ parsing' = IF members.protocol = "" \/ members.serverIP = "" THEN "ended" ELSE "parsed"
    BY <1>2 DEF EndOptions
  <2> QED BY <1>1, <2>1 DEF ParseInv
<1>3. ASSUME NEW option \in Options, TakeOption(option) PROVE ParseInv'
  <2>1. parsing = "options" /\ given' = Append(given, option)
    BY <1>3 DEF TakeOption
  <2>2. given' \in Seq(Options) /\ AllKept(given, members)
    BY <1>1, <2>1, AppendProperties
  <2>3. CASE TakeProtocol(option)
    <3>1. /\ option.opt = "t" /\ members' = [members EXCEPT !.protocol = option.arg]
          /\ parsing' = IF option.arg \in {"tcp", "udp"} THEN "options" ELSE "ended"
      BY <2>3 DEF TakeProtocol
    <3>2. members' \in Members
      BY <1>1, <3>1, OptionTypes, MembersUpdated
    <3>3. parsing' # "ended" => AllKept(given', members')
      BY <1>1, <2>1, <2>2, <3>1, KeptAfter
    <3> QED BY <2>2, <3>1, <3>2, <3>3 DEF ParseInv
  <2>4. CASE TakeHost(option)
    <3>1. /\ option.opt = "s" /\ members' = [members EXCEPT !.serverIP = option.arg]
          /\ parsing' = "options"
      BY <2>1, <2>4 DEF TakeHost
    <3>2. members' \in Members
      BY <1>1, <3>1, OptionTypes, MembersUpdated
    <3>3. AllKept(given', members')
      BY <1>1, <2>1, <2>2, <3>1, KeptAfter
    <3> QED BY <2>2, <3>1, <3>2, <3>3 DEF ParseInv
  <2>5. CASE TakeNumber(option)
    <3>1. option.opt \in {"p", "d", "r"} /\ option.stoi # NoNumber /\ parsing' = "options"
      BY <2>1, <2>5 DEF TakeNumber
    <3>2. option.stoi[1] \in Int
      BY <3>1, OptionTypes
    <3>3. /\ Cast(option.stoi[1], 16) \in 0..(2^16 - 1)
          /\ Cast(option.stoi[1], 8) \in 0..(2^8 - 1)
      BY <3>2, CastFits
    <3>4. CASE option.opt = "p"
      <4>1. members' = [members EXCEPT !.serverPort = Cast(option.stoi[1], 16)]
        BY <2>5, <3>4 DEF TakeNumber
      <4>2. members' \in Members
        BY <1>1, <3>3, <4>1, MembersUpdated
      <4>3. AllKept(given', members')
        BY <1>1, <2>1, <2>2, <3>1, <3>4, <4>1, KeptAfter
      <4> QED BY <2>2, <3>1, <4>2, <4>3 DEF ParseInv
    <3>5. CASE option.opt = "d"
      <4>1. members' = [members EXCEPT !.udpTimeout = Cast(option.stoi[1], 16)]
        BY <2>5, <3>5 DEF TakeNumber
      <4>2. members' \in Members
        BY <1>1, <3>3, <4>1, MembersUpdated
      <4>3. AllKept(given', members')
        BY <1>1, <2>1, <2>2, <3>1, <3>5, <4>1, KeptAfter
      <4> QED BY <2>2, <3>1, <4>2, <4>3 DEF ParseInv
    <3>6. CASE option.opt = "r"
      <4>1. members' = [members EXCEPT !.udpRetransmissions = Cast(option.stoi[1], 8)]
        BY <2>5, <3>6 DEF TakeNumber
      <4>2. members' \in Members
        BY <1>1, <3>3, <4>1, MembersUpdated
      <4>3. AllKept(given', members')
        BY <1>1, <2>1, <2>2, <3>1, <3>6, <4>1, KeptAfter
      <4> QED BY <2>2, <3>1, <4>2, <4>3 DEF ParseInv
    <3> QED BY <3>1, <3>4, <3>5, <3>6
  <2>6. CASE TakeWrong(option)
    <3>1. parsing' = "ended" /\ members' = members
      BY <2>6 DEF TakeWrong
    <3> QED BY <1>1, <2>2, <3>1 DEF ParseInv
  <2> QED BY <1>3, <2>3, <2>4, <2>5, <2>6 DEF TakeOption
<1> QED BY <1>2, <1>3 DEF ParseNext

(* Every step keeps the invariant. *)
LEMMA NextIInv == IInv /\ [Next]_vars => IInv'
<1> SUFFICES ASSUME IInv, [Next]_vars PROVE IInv'
  OBVIOUS
<1>1. ASSUME UNCHANGED argVars PROVE ParseInv'
  BY <1>1 DEF IInv, ParseInv, argVars
<1>2. ASSUME UNCHANGED input PROVE InputOK'
  BY <1>2 DEF IInv, InputOK
<1>3. CASE ChooseID
  <2>1. InputOK'
    BY <1>3 DEF ChooseID, InputOK
  <2> QED BY <1>1, <1>3, <2>1 DEF ChooseID, IInv
<1>4. CASE ChooseMessage
  <2>1. InputOK'
    BY <1>4 DEF ChooseMessage, InputOK
  <2> QED BY <1>1, <1>4, <2>1 DEF ChooseMessage, IInv
<1>5. CASE ChooseLine
  <2>1. InputOK'
    BY <1>5 DEF ChooseLine, InputOK
  <2> QED BY <1>1, <1>5, <2>1 DEF ChooseLine, IInv
<1>6. CASE ChooseOptions
  <2>1. InputOK'
    BY <1>6 DEF ChooseOptions, InputOK
  <2> QED BY <1>1, <1>6, <2>1 DEF ChooseOptions, IInv
<1>7. CASE Parse
  BY <1>2, <1>7, ParseStep DEF Parse, IInv
<1>8. CASE UNCHANGED vars
  BY <1>1, <1>2, <1>8 DEF vars, argVars, IInv
<1> QED BY <1>3, <1>4, <1>5, <1>6, <1>7, <1>8 DEF Next, Chosen

(* The invariant holds throughout. *)
LEMMA Invariant == Spec => []IInv
BY InitIInv, NextIInv, PTL DEF Spec

-----------------------------------------------------------------------------
(* What is claimed of the options follows from the invariant. *)
LEMMA NumberAsAsked ==
  ASSUME NEW member, NEW latest, NEW default, NEW width \in {8, 16},
         NumberKept(member, latest, default, width), default \in 0..(2^width - 1),
         latest # << >> => latest[1].stoi = NoNumber \/ latest[1].stoi[1] \in Int
  PROVE  LET asked == IF latest = << >> THEN default ELSE latest[1].stoi[1]
         IN  member = asked <=> asked \in 0..(2^width - 1)
<1>1. CASE latest = << >>
  BY <1>1 DEF NumberKept
<1>2. CASE latest # << >>
  <2> DEFINE asked == latest[1].stoi[1]
  <2>1. member = Cast(asked, width) /\ asked \in Int
    BY <1>2 DEF NumberKept
  <2> HIDE DEF asked
  <2>2. Cast(asked, width) = asked <=> asked \in 0..(2^width - 1)
    <3>1. CASE width = 16
      BY <2>1, <3>1, CastFits
    <3>2. CASE width = 8
      BY <2>1, <3>2, CastFits
    <3> QED BY <3>1, <3>2
  <2> QED BY <1>2, <2>1, <2>2 DEF asked
<1> QED BY <1>1, <1>2

(* The members a parsed command line leaves are the ones asked for, where  *)
(* numbers fit.                                                            *)
LEMMA KeptOptions == ParseInv => OptionsKept
<1> SUFFICES ASSUME ParseInv PROVE OptionsKept
  OBVIOUS
<1>1. /\ given \in Seq(Options) /\ members \in Members
      /\ parsing # "ended" => AllKept(given, members)
      /\ parsing = "parsed" => members.protocol # "" /\ members.serverIP # ""
  BY DEF ParseInv
<1>2. \A letter : Latest(letter) = LatestIn(given, letter)
  BY DEF Latest, LatestIn
<1>3. ASSUME NEW letter \in {"p", "d", "r"}, Latest(letter) # << >>
      PROVE  Latest(letter)[1].stoi = NoNumber \/ Latest(letter)[1].stoi[1] \in Int
  <2>1. PICK option \in Options : option.opt = letter /\ Latest(letter) = << option >>
    BY <1>1, <1>2, <1>3, LatestIsOption
  <2> QED BY <2>1, OptionTypes
<1>4. ASSUME parsing # "ended"
      PROVE  /\ TextKept(members.protocol, Latest("t"))
             /\ members.protocol \in {"", "tcp", "udp"}
             /\ TextKept(members.serverIP, Latest("s"))
             /\ NumberKept(members.serverPort, Latest("p"), Defaults.serverPort, 16)
             /\ NumberKept(members.udpTimeout, Latest("d"), Defaults.udpTimeout, 16)
             /\ NumberKept(members.udpRetransmissions, Latest("r"),
                           Defaults.udpRetransmissions, 8)
  BY <1>1, <1>2, <1>4 DEF AllKept
<1>5. /\ Defaults.serverPort \in 0..(2^16 - 1) /\ Defaults.udpTimeout \in 0..(2^16 - 1)
      /\ Defaults.udpRetransmissions \in 0..(2^8 - 1)
  BY DefaultMembers DEF Members
<1> DEFINE asked(letter, member) ==
             IF Latest(letter) = << >> THEN Defaults[member] ELSE Latest(letter)[1].stoi[1]
<1>6. ASSUME parsing # "ended"
      PROVE  members["serverPort"] = asked("p", "serverPort")
               <=> asked("p", "serverPort") \in 0..(2^16 - 1)
  <2>1. Latest("p") # << >>
          => Latest("p")[1].stoi = NoNumber \/ Latest("p")[1].stoi[1] \in Int
    BY <1>3
  <2>2. /\ NumberKept(members.serverPort, Latest("p"), Defaults.serverPort, 16)
        /\ Defaults.serverPort \in 0..(2^16 - 1) /\ 16 \in {8, 16}
    BY <1>4, <1>5, <1>6
  <2>3. LET sought == IF Latest("p") = << >> THEN Defaults.serverPort
                      ELSE Latest("p")[1].stoi[1]
        IN  members.serverPort = sought <=> sought \in 0..(2^16 - 1)
    BY <2>1, <2>2, NumberAsAsked, Zenon
  <2> QED BY <2>3
<1>7. ASSUME parsing # "ended"
      PROVE  members["udpTimeout"] = asked("d", "udpTimeout")
               <=> asked("d", "udpTimeout") \in 0..(2^16 - 1)
  <2>1. Latest("d") # << >>
          => Latest("d")[1].stoi = NoNumber \/ Latest("d")[1].stoi[1] \in Int
    BY <1>3
  <2>2. /\ NumberKept(members.udpTimeout, Latest("d"), Defaults.udpTimeout, 16)
        /\ Defaults.udpTimeout \in 0..(2^16 - 1) /\ 16 \in {8, 16}
    BY <1>4, <1>5, <1>7
  <2>3. LET sought == IF Latest("d") = << >> THEN Defaults.udpTimeout
                      ELSE Latest("d")[1].stoi[1]
        IN  members.udpTimeout = sought <=> sought \in 0..(2^16 - 1)
    BY <2>1, <2>2, NumberAsAsked, Zenon
  <2> QED BY <2>3
<1>8. ASSUME parsing # "ended"
      PROVE  members["udpRetransmissions"] = asked("r", "udpRetransmissions")
               <=> asked("r", "udpRetransmissions") \in 0..(2^8 - 1)
  <2>1. Latest("r") # << >>
          => Latest("r")[1].stoi = NoNumber \/ Latest("r")[1].stoi[1] \in Int
    BY <1>3
  <2>2. /\ NumberKept(members.udpRetransmissions, Latest("r"), Defaults.udpRetransmissions, 8)
        /\ Defaults.udpRetransmissions \in 0..(2^8 - 1) /\ 8 \in {8, 16}
    BY <1>4, <1>5, <1>8
  <2>3. LET sought == IF Latest("r") = << >> THEN Defaults.udpRetransmissions
                      ELSE Latest("r")[1].stoi[1]
        IN  members.udpRetransmissions = sought <=> sought \in 0..(2^8 - 1)
    BY <2>1, <2>2, NumberAsAsked, Zenon
  <2> QED BY <2>3
<1>9. ASSUME parsing # "ended"
      PROVE  /\ Latest("t") # << >> => members.protocol = Latest("t")[1].arg
             /\ Latest("s") # << >> => members.serverIP = Latest("s")[1].arg
             /\ Latest("s") = << >> => members.serverIP = ""
  BY <1>4, <1>9 DEF TextKept
<1>10. ASSUME parsing = "parsed"
       PROVE  members.protocol \in {"tcp", "udp"} /\ members.serverIP # "" /\ Latest("s") # << >>
  BY <1>1, <1>4, <1>9, <1>10
<1> HIDE DEF Latest
<1> QED BY <1>6, <1>7, <1>8, <1>9, <1>10 DEF OptionsKept

(* What is claimed of the input chosen follows from the invariant, case by *)
(* case.                                                                   *)
LEMMA KindOfInput ==
  ASSUME InputOK
  PROVE  /\ input.kind = "id" => \E id \in IDs : input = [kind |-> "id", id |-> id]
         /\ input.kind = "message" =>
              \E name \in Words, text \in Seq(Words) :
                /\ Len(text) > 0 /\ parseLine(text).type = "MSG"
                /\ input = [kind |-> "message", name |-> name, text |-> text]
         /\ input.kind = "line" => \E line \in Lines : input = [kind |-> "line", line |-> line]
<1>1. Names \subseteq Words
  BY InputsAssumption DEF InputsAssumption
<1>2. CASE input = [kind |-> "none"]
  BY <1>2
<1>3. CASE \E id \in IDs : input = [kind |-> "id", id |-> id]
  BY <1>3
<1>4. ASSUME NEW name \in Names, NEW text \in Texts, parseLine(text).type = "MSG",
             input = [kind |-> "message", name |-> name, text |-> text]
      PROVE  /\ input.kind = "message" /\ name \in Words /\ text \in Seq(Words)
             /\ Len(text) > 0
  BY <1>1, <1>4, TextsAreSeqs
<1>5. CASE \E line \in Lines : input = [kind |-> "line", line |-> line]
  BY <1>5
<1>6. CASE input = [kind |-> "options"]
  BY <1>6
<1> QED BY <1>2, <1>3, <1>4, <1>5, <1>6 DEF InputOK

(* Every property of Conversions follows from the invariant. *)
LEMMA Claims ==
  IInv => /\ TypeOK /\ RoundTrip /\ NetworkConfirmsTheID /\ ReceiverConfirmWrongExactly
          /\ KeywordsAnyCase /\ RejectedExactly /\ ShownExactly /\ SentAsTyped /\ OptionsKept
<1> SUFFICES ASSUME InputOK, ParseInv
             PROVE  /\ TypeOK /\ RoundTrip /\ NetworkConfirmsTheID
                    /\ ReceiverConfirmWrongExactly /\ KeywordsAnyCase /\ RejectedExactly
                    /\ ShownExactly /\ SentAsTyped /\ OptionsKept
  BY DEF IInv
<1>1. /\ input.kind = "id" =>
           /\ ShortToBytes(ToShort(input.id)) \in Bytes \X Bytes
           /\ ReadSignedID(ShortToBytes(input.id)) \in Shorts
      /\ RoundTrip /\ NetworkConfirmsTheID /\ ReceiverConfirmWrongExactly
  <2>1. CASE input.kind = "id"
    BY <2>1, KindOfInput, ConvertedID
  <2>2. CASE input.kind # "id"
    BY <2>2 DEF RoundTrip, NetworkConfirmsTheID, ReceiverConfirmWrongExactly
  <2> QED BY <2>1, <2>2
<1>2. TypeOK
  BY <1>1 DEF TypeOK, ParseInv, Members
<1>3. KeywordsAnyCase /\ RejectedExactly /\ ShownExactly
  <2>1. CASE input.kind = "message"
    BY <2>1, KindOfInput, KeywordsText, RejectedText, ShownWhole
  <2>2. CASE input.kind # "message"
    BY <2>2 DEF KeywordsAnyCase, RejectedExactly, ShownExactly
  <2> QED BY <2>1, <2>2
<1>4. SentAsTyped
  <2>1. CASE input.kind = "line"
    BY <2>1, KindOfInput, SentLine
  <2>2. CASE input.kind # "line"
    BY <2>2 DEF SentAsTyped
  <2> QED BY <2>1, <2>2
<1> QED BY <1>1, <1>2, <1>3, <1>4, KeptOptions
-----------------------------------------------------------------------------
(* The bytes written and the short read are of their types for every       *)
(* identifier, and the members are whatever the command line is.           *)
THEOREM TypesKept == Spec => []TypeOK
BY Invariant, Claims, PTL

(* Every one of the 65536 identifiers is read back as it was written.      *)
THEOREM IDsSurvive == Spec => []RoundTrip
BY Invariant, Claims, PTL

(* The network thread confirms the identifier it has read. *)
THEOREM NetworkConfirmsRight == Spec => []NetworkConfirmsTheID
BY Invariant, Claims, PTL

(* The receiver thread, which reads it with a sign, does so exactly for    *)
(* the identifiers whose low byte has no sign bit.                         *)
THEOREM ReceiverConfirmsWrong == Spec => []ReceiverConfirmWrongExactly
BY Invariant, Claims, PTL

(* A message of a server is recognised in whatever case its keywords are,  *)
(* a name apart that is a spelling of IS: for every vocabulary, and texts  *)
(* of every length.                                                        *)
THEOREM KeywordsRecognised == Spec => []KeywordsAnyCase
BY Invariant, Claims, PTL

(* Which of the texts that one client sends another client drops *)
THEOREM TextsRejected == Spec => []RejectedExactly
BY Invariant, Claims, PTL

(* Which of them it shows as they were typed.  That every other spelling   *)
(* of a run is capitalised is the recursion of Matched solved, by its      *)
(* least counterexample.                                                   *)
THEOREM TextsShown == Spec => []ShownExactly
BY Invariant, Claims, PTL

(* A line accepted is the same request over both transports, and within    *)
(* the lengths of the protocol.                                            *)
THEOREM LinesSentAsTyped == Spec => []SentAsTyped
BY Invariant, Claims, PTL

(* What the members hold of a command line with any number of options *)
THEOREM MembersAsAsked == Spec => []OptionsKept
BY Invariant, Claims, PTL
=============================================================================
