--------------------------- MODULE SpiderCookie_proofs ---------------------------
(***************************************************************************)
(* Proofs about the parts of Spider that take texts apart.                  *)
(*                                                                         *)
(* SpiderCookie, for any cookie of weibo and any answers: a run crawls with *)
(* that cookie, were it not for a reason CookieHasReason names, wherever a  *)
(* record was torn, and what SpiderHttpClient_proofs proves of an exchange  *)
(* holds of each one the login makes.  The former rests on the text         *)
(* routines of SpiderText: what to_string writes, split_string and          *)
(* set_cookie read back.                                                   *)
(*                                                                         *)
(* The coding of addresses: what url_encode writes, url_decode reads.       *)
(*                                                                         *)
(* SpiderPage, for any page: get_all_url gives each of its links once, in   *)
(* order.                                                                  *)
(***************************************************************************)
EXTENDS SpiderCookie, SpiderPage, SpiderHttpClient_proofs, FiniteSetTheorems, WellFoundedInduction

-------------------------------------------------------------------------------
(* Numbers and recursion.                                                  *)

LEMMA LeastNat ==
    ASSUME NEW T, T \subseteq Nat, T # {}
    PROVE  \E n \in T : \A m \in T : n <= m
<1> DEFINE R == {p \in Nat \X Nat : p[1] < p[2]}
<1>1. IsWellFoundedOn(R, Nat)
  BY NatLessThanWellFounded DEF OpToRel
<1>2. PICK n \in T : \A m \in T : <<m, n>> \notin R
  BY <1>1, WFMin
<1>3. \A m \in T : <<m, n>> \in R <=> m < n
  OBVIOUS
<1>4. \A m \in T : ~(m < n) /\ m \in Nat /\ n \in Nat
  BY <1>2, <1>3
<1> QED  BY <1>4

LEMMA GreatestNat ==
    ASSUME NEW T, NEW b \in Nat, T \subseteq 0..b, T # {}
    PROVE  \E n \in T : \A m \in T : n >= m
<1> DEFINE U == {b - n : n \in T}
<1>1. U \subseteq Nat /\ U # {}
  <2>1. \A n \in T : n \in Nat /\ n <= b
    OBVIOUS
  <2>2. \A n \in T : b - n \in Nat
    BY <2>1
  <2> QED  BY <2>2
<1>2. PICK u \in U : \A v \in U : u <= v
  BY <1>1, LeastNat
<1>3. PICK n \in T : u = b - n
  OBVIOUS
<1>4. \A m \in T : b - n <= b - m
  BY <1>2, <1>3
<1> QED  BY <1>4

LEMMA SetInduction ==
    ASSUME NEW S, 0 \in S, \A n \in Nat : n \in S => n + 1 \in S
    PROVE  Nat \subseteq S
<1> SUFFICES ASSUME Nat \ S # {} PROVE FALSE
  OBVIOUS
<1>1. PICK n \in Nat \ S : \A m \in Nat \ S : n <= m
  BY LeastNat
<1>2. n # 0 /\ n - 1 \in Nat /\ (n - 1) + 1 = n
  BY <1>1
<1>3. n - 1 \in S
  BY <1>1, <1>2
<1> QED  BY <1>1, <1>2, <1>3

(* A recursive definition B has a function to its name if its value at x    *)
(* asks only for values where a measure is less.                           *)
Recursive(D, V, n, m, B) ==
    /\ V # {} /\ n \in Nat /\ m \in [D -> 0..n] /\ B \in [[D -> V] -> [D -> V]]
    /\ \A f, g \in [D -> V] : \A x \in D :
          (\A y \in D : m[y] < m[x] => f[y] = g[y]) => B[f][x] = B[g][x]

LEMMA Recursion ==
    ASSUME NEW D, NEW V, NEW n, NEW m, NEW B, Recursive(D, V, n, m, B)
    PROVE  \E f \in [D -> V] : f = B[f]
<1> USE DEF Recursive
<1> DEFINE Solves(f, k) == \A x \in D : m[x] < k => f[x] = B[f][x]
           S == {k \in Nat : \E f \in [D -> V] : Solves(f, k)}
<1>1. 0 \in S
  <2>1. PICK v \in V : TRUE
    OBVIOUS
  <2>2. [x \in D |-> v] \in [D -> V] /\ Solves([x \in D |-> v], 0)
    OBVIOUS
  <2> QED  BY <2>2
<1>2. ASSUME NEW k \in Nat, k \in S PROVE k + 1 \in S
  <2>1. PICK f \in [D -> V] : Solves(f, k)
    BY <1>2
  <2>2. B[f] \in [D -> V]
    OBVIOUS
  <2>3. ASSUME NEW x \in D, m[x] < k + 1 PROVE B[f][x] = B[B[f]][x]
    <3>1. \A y \in D : m[y] < m[x] => f[y] = B[f][y]
      BY <2>1, <2>3
    <3> QED  BY <2>2, <3>1
  <2>4. Solves(B[f], k + 1)
    BY <2>3
  <2> QED  BY <2>2, <2>4
<1>3. n + 1 \in S
  BY <1>1, <1>2, SetInduction
<1>4. PICK f \in [D -> V] : Solves(f, n + 1)
  BY <1>3
<1>5. \A x \in D : f[x] = B[f][x]
  BY <1>4
<1>6. f \in [D -> V] /\ B[f] \in [D -> V]
  OBVIOUS
<1> QED  BY <1>5, <1>6
-------------------------------------------------------------------------------
(* Sequences, of characters C.                                             *)

LEMMA OneElement ==
    ASSUME NEW C, NEW a \in C
    PROVE  <<a>> \in Seq(C) /\ Len(<<a>>) = 1 /\ <<a>>[1] = a /\ Range(<<a>>) = {a}
<1>1. <<a>> \in Seq(C) /\ Len(<<a>>) = 1 /\ <<a>>[1] = a
  OBVIOUS
<1>2. DOMAIN <<a>> = 1..1
  BY <1>1, LenProperties
<1>3. \A i \in 1..1 : i = 1
  OBVIOUS
<1> QED  BY <1>1, <1>2, <1>3 DEF Range

LEMMA RangeConcat ==
    ASSUME NEW C, NEW s \in Seq(C), NEW t \in Seq(C)
    PROVE  Range(s \o t) = Range(s) \cup Range(t)
<1>1. /\ s \o t \in Seq(C) /\ Len(s \o t) = Len(s) + Len(t)
      /\ \A i \in 1..Len(s) + Len(t) :
            (s \o t)[i] = IF i <= Len(s) THEN s[i] ELSE t[i - Len(s)]
  BY ConcatProperties
<1>2. /\ Len(s) \in Nat /\ Len(t) \in Nat
      /\ DOMAIN s = 1..Len(s) /\ DOMAIN t = 1..Len(t)
      /\ DOMAIN (s \o t) = 1..Len(s) + Len(t)
  BY <1>1, LenProperties
<1>3. ASSUME NEW i \in 1..Len(s) + Len(t) PROVE (s \o t)[i] \in Range(s) \cup Range(t)
  <2>1. CASE i <= Len(s)
    BY <1>1, <1>2, <2>1 DEF Range
  <2>2. CASE ~(i <= Len(s))
    <3>1. i - Len(s) \in 1..Len(t)
      BY <1>2, <2>2
    <3> QED  BY <1>1, <1>2, <2>2, <3>1 DEF Range
  <2> QED  BY <2>1, <2>2
<1>4. ASSUME NEW i \in 1..Len(s) PROVE s[i] \in Range(s \o t)
  <2>1. i \in 1..Len(s) + Len(t) /\ i <= Len(s)
    BY <1>2
  <2> QED  BY <1>1, <1>2, <2>1 DEF Range
<1>5. ASSUME NEW i \in 1..Len(t) PROVE t[i] \in Range(s \o t)
  <2>1. Len(s) + i \in 1..Len(s) + Len(t) /\ ~(Len(s) + i <= Len(s)) /\ Len(s) + i - Len(s) = i
    BY <1>2
  <2> QED  BY <1>1, <1>2, <2>1 DEF Range
<1> QED  BY <1>2, <1>3, <1>4, <1>5 DEF Range

(* The piece from a to b.                                                  *)
LEMMA Piece ==
    ASSUME NEW C, NEW s \in Seq(C), NEW a \in Nat, NEW b \in Nat,
           1 <= a, a <= b + 1, b <= Len(s)
    PROVE  /\ SubSeq(s, a, b) \in Seq(C) /\ Len(SubSeq(s, a, b)) = b - a + 1
           /\ \A i \in 1..b - a + 1 : SubSeq(s, a, b)[i] = s[a + i - 1]
<1>1. Len(s) \in Nat /\ \A i \in a..b : s[i] \in C
  <2>1. Len(s) \in Nat
    BY LenProperties
  <2>2. \A i \in a..b : i \in 1..Len(s)
    BY <2>1
  <2> QED  BY <2>1, <2>2, ElementOfSeq
<1>2. /\ SubSeq(s, a, b) \in Seq(C)
      /\ Len(SubSeq(s, a, b)) = IF a <= b THEN b - a + 1 ELSE 0
      /\ \A i \in 1..b - a + 1 : SubSeq(s, a, b)[i] = s[a + i - 1]
  <2>1. a \in Int /\ b \in Int
    OBVIOUS
  <2> QED  BY <1>1, <2>1, SubSeqProperties
<1> QED  BY <1>2
-------------------------------------------------------------------------------
(* find with one character, and trim_string.                               *)

LEMMA FindNone ==
    ASSUME NEW C, NEW s \in Seq(C), NEW c \in C, NEW i \in 1..Len(s) + 1,
           \A j \in i..Len(s) : s[j] # c
    PROVE  Find(s, <<c>>, i) = 0
<1>0. Len(s) \in Nat /\ Len(<<c>>) = 1 /\ <<c>>[1] = c
  BY LenProperties, OneElement
<1>1. ASSUME NEW j \in i..Len(s) - Len(<<c>>) + 1
      PROVE  SubSeq(s, j, j + Len(<<c>>) - 1) # <<c>>
  <2>1. j \in i..Len(s) /\ j \in Nat /\ j >= 1 /\ j + Len(<<c>>) - 1 = j
    BY <1>0
  <2>2. SubSeq(s, j, j)[1] = s[j]
    BY <1>0, <2>1, Piece
  <2> QED  BY <1>0, <2>1, <2>2
<1> QED  BY <1>1 DEF Find

LEMMA FindOne ==
    ASSUME NEW C, NEW s \in Seq(C), NEW c \in C, NEW i \in 1..Len(s),
           NEW p \in i..Len(s), s[p] = c, \A j \in i..p - 1 : s[j] # c
    PROVE  Find(s, <<c>>, i) = p
<1>0. Len(s) \in Nat /\ Len(<<c>>) = 1 /\ <<c>>[1] = c /\ <<c>> \in Seq(C)
  BY LenProperties, OneElement
<1> DEFINE places == {j \in i..Len(s) - Len(<<c>>) + 1 :
                         SubSeq(s, j, j + Len(<<c>>) - 1) = <<c>>}
<1>1. ASSUME NEW j \in i..Len(s)
      PROVE  SubSeq(s, j, j + Len(<<c>>) - 1) = <<c>> <=> s[j] = c
  <2>1. j \in Nat /\ j >= 1 /\ j <= Len(s) /\ j + Len(<<c>>) - 1 = j /\ j - j + 1 = 1
        /\ j + 1 - 1 = j
    BY <1>0
  <2>2. SubSeq(s, j, j) \in Seq(C) /\ Len(SubSeq(s, j, j)) = 1 /\ SubSeq(s, j, j)[1] = s[j]
    BY <2>1, Piece
  <2>3. ASSUME s[j] = c PROVE SubSeq(s, j, j) = <<c>>
    <3>1. \A k \in 1..Len(SubSeq(s, j, j)) : SubSeq(s, j, j)[k] = <<c>>[k]
      BY <1>0, <2>2, <2>3
    <3> QED  BY <1>0, <2>2, <3>1, SeqEqual
  <2> QED  BY <1>0, <2>1, <2>2, <2>3
<1>2. p \in places /\ \A j \in places : j \in i..Len(s) /\ s[j] = c
  <2>1. i..Len(s) - Len(<<c>>) + 1 = i..Len(s)
    BY <1>0
  <2> QED  BY <1>1, <2>1
<1>3. \A j \in places : p <= j
  BY <1>0, <1>2
<1>4. Find(s, <<c>>, i) = CHOOSE j \in places : \A k \in places : j <= k
  BY <1>2 DEF Find
<1>5. \A j \in places : (\A k \in places : j <= k) => j = p
  BY <1>0, <1>2, <1>3
<1> QED  BY <1>2, <1>3, <1>4, <1>5

(* What is kept goes from the first character not dropped to the last.      *)
LEMMA Trimmed ==
    ASSUME NEW C, NEW s \in Seq(C), NEW drop, NEW a \in 1..Len(s), NEW b \in a..Len(s),
           s[a] \notin drop, s[b] \notin drop,
           \A i \in 1..a - 1 : s[i] \in drop, \A i \in b + 1..Len(s) : s[i] \in drop
    PROVE  TrimString(s, drop) = SubSeq(s, a, b)
<1>0. Len(s) \in Nat
  BY LenProperties
<1> DEFINE kept == {i \in 1..Len(s) : s[i] \notin drop}
<1>1. a \in kept /\ b \in kept /\ \A i \in kept : a <= i /\ i <= b /\ i \in Nat
  BY <1>0
<1>2. \A i \in kept : (\A j \in kept : i <= j) => i = a
  BY <1>1
<1>3. \A i \in kept : (\A j \in kept : i >= j) => i = b
  BY <1>1
<1> HIDE DEF kept
<1>4. (CHOOSE i \in kept : \A j \in kept : i <= j) = a
  BY <1>1, <1>2
<1>5. (CHOOSE i \in kept : \A j \in kept : i >= j) = b
  BY <1>1, <1>3
<1> QED  BY <1>1, <1>4, <1>5 DEF TrimString, kept
LEMMA FindCases ==
    ASSUME NEW C, NEW s \in Seq(C), NEW c \in C, NEW i \in 1..Len(s)
    PROVE  \/ Find(s, <<c>>, i) = 0 /\ \A j \in i..Len(s) : s[j] # c
           \/ \E p \in i..Len(s) :
                 Find(s, <<c>>, i) = p /\ s[p] = c /\ \A j \in i..p - 1 : s[j] # c
<1>0. Len(s) \in Nat /\ i \in 1..Len(s) + 1
  BY LenProperties
<1> DEFINE T == {j \in i..Len(s) : s[j] = c}
<1>1. CASE T = {}
  BY <1>0, <1>1, FindNone
<1>2. CASE T # {}
  <2>1. T \subseteq Nat
    BY <1>0
  <2>2. PICK p \in T : \A j \in T : p <= j
    BY <1>2, <2>1, LeastNat
  <2>3. \A j \in i..p - 1 : s[j] # c
    BY <1>0, <2>2
  <2> QED  BY <2>2, <2>3, FindOne
<1> QED  BY <1>1, <1>2
-------------------------------------------------------------------------------
(* split_string with a splitter of one character.                           *)

(* What is split off from place i on, where items is that of later places.  *)
SplitAt(src, splitter, drop, items, i) ==
    IF i > Len(src) THEN <<>>
    ELSE IF src[i] \in drop THEN items[i + 1]
    ELSE LET pos == Find(src, splitter, i)
         IN  IF pos = 0 THEN <<SubSeq(src, i, Len(src))>>
             ELSE <<SubSeq(src, i, pos - 1)>> \o items[pos + Len(splitter)]

SplitItems(src, splitter, drop) ==
    CHOOSE items :
       items = [i \in 1..Len(src) + 1 |-> SplitAt(src, splitter, drop, items, i)]

Items(s, c) == SplitItems(s, <<c>>, {c})

LEMMA SplitFirst ==
    ASSUME NEW C, NEW c \in C, NEW t
    PROVE  SplitString(t, <<c>>) = Items(TrimString(t, {c}), c)[1]
<1> DEFINE drop == {<<c>>[i] : i \in 1..Len(<<c>>)}
<1>1. SplitString(t, <<c>>) = SplitItems(TrimString(t, drop), <<c>>, drop)[1]
  BY DEF SplitString, SplitItems, SplitAt
<1>2. drop = {c}
  BY OneElement
<1> QED  BY <1>1, <1>2 DEF Items

(* The place is a separator, begins the last item, or one with a separator  *)
(* behind it.                                                              *)
SplitStep(s, c, items, i) ==
    \/ s[i] = c /\ SplitAt(s, <<c>>, {c}, items, i) = items[i + 1]
    \/ /\ \A j \in i..Len(s) : s[j] # c
       /\ SplitAt(s, <<c>>, {c}, items, i) = <<SubSeq(s, i, Len(s))>>
    \/ \E p \in i + 1..Len(s) :
          /\ s[p] = c /\ \A j \in i..p - 1 : s[j] # c
          /\ SplitAt(s, <<c>>, {c}, items, i) = <<SubSeq(s, i, p - 1)>> \o items[p + 1]

LEMMA SplitCases ==
    ASSUME NEW C, NEW s \in Seq(C), NEW c \in C, NEW items, NEW i \in 1..Len(s)
    PROVE  SplitStep(s, c, items, i)
<1> USE DEF SplitStep
<1>0. Len(s) \in Nat /\ ~(i > Len(s)) /\ Len(<<c>>) = 1
  BY LenProperties
<1>1. CASE s[i] = c
  BY <1>0, <1>1 DEF SplitAt
<1>2. CASE s[i] # c /\ Find(s, <<c>>, i) = 0 /\ \A j \in i..Len(s) : s[j] # c
  BY <1>0, <1>2 DEF SplitAt
<1>3. CASE s[i] # c /\ \E p \in i..Len(s) :
              Find(s, <<c>>, i) = p /\ s[p] = c /\ \A j \in i..p - 1 : s[j] # c
  <2>0. PICK p \in i..Len(s) :
           Find(s, <<c>>, i) = p /\ s[p] = c /\ \A j \in i..p - 1 : s[j] # c
    BY <1>3
  <2>1. p # i
    BY <1>3, <2>0
  <2>2. p \in i + 1..Len(s) /\ p # 0
    BY <1>0, <2>1
  <2>3. SplitAt(s, <<c>>, {c}, items, i) = <<SubSeq(s, i, p - 1)>> \o items[p + 1]
    BY <1>0, <1>3, <2>0, <2>2 DEF SplitAt
  <2> QED  BY <2>0, <2>2, <2>3
<1>4. \/ Find(s, <<c>>, i) = 0 /\ \A j \in i..Len(s) : s[j] # c
      \/ \E p \in i..Len(s) :
            Find(s, <<c>>, i) = p /\ s[p] = c /\ \A j \in i..p - 1 : s[j] # c
  BY FindCases
<1> QED  BY <1>1, <1>2, <1>3, <1>4

LEMMA SplitEquation ==
    ASSUME NEW C, NEW s \in Seq(C), NEW c \in C
    PROVE  \A i \in 1..Len(s) + 1 : Items(s, c)[i] = SplitAt(s, <<c>>, {c}, Items(s, c), i)
<1> DEFINE D == 1..Len(s) + 1
           V == Seq(Seq(C))
           m == [i \in D |-> Len(s) + 1 - i]
           here(f, i) == SplitAt(s, <<c>>, {c}, f, i)
           B == [f \in [D -> V] |-> [i \in D |-> here(f, i)]]
<1>0. Len(s) \in Nat
  BY LenProperties
<1>e. <<>> \in V
  BY EmptySeq
<1>s. ASSUME NEW f, NEW i \in 1..Len(s)
      PROVE  \/ here(f, i) = f[i + 1]
             \/ here(f, i) = <<SubSeq(s, i, Len(s))>>
             \/ \E p \in i + 1..Len(s) : here(f, i) = <<SubSeq(s, i, p - 1)>> \o f[p + 1]
  <2>1. SplitStep(s, c, f, i)
    BY SplitCases
  <2> QED  BY <2>1 DEF SplitStep
<1>1. ASSUME NEW f \in [D -> V], NEW i \in D PROVE here(f, i) \in V
  <2>1. CASE i > Len(s)
    BY <1>e, <2>1 DEF SplitAt
  <2>2. CASE ~(i > Len(s))
    <3>0. i \in 1..Len(s)
      BY <1>0, <2>2
    <3>1. CASE here(f, i) = f[i + 1]
      <4>1. i + 1 \in D
        BY <1>0, <3>0
      <4> QED  BY <3>1, <4>1
    <3>2. CASE here(f, i) = <<SubSeq(s, i, Len(s))>>
      <4>1. SubSeq(s, i, Len(s)) \in Seq(C)
        BY <1>0, <3>0, Piece
      <4>2. <<SubSeq(s, i, Len(s))>> \in Seq(Seq(C))
        BY <4>1, OneElement
      <4> QED  BY <3>2, <4>2
    <3>3. CASE \E p \in i + 1..Len(s) : here(f, i) = <<SubSeq(s, i, p - 1)>> \o f[p + 1]
      <4>0. PICK p \in i + 1..Len(s) : here(f, i) = <<SubSeq(s, i, p - 1)>> \o f[p + 1]
        BY <3>3
      <4>1. p + 1 \in D /\ p - 1 \in Nat /\ i <= p - 1 + 1 /\ p - 1 <= Len(s)
        BY <1>0, <3>0
      <4>2. <<SubSeq(s, i, p - 1)>> \in V
        <5>1. SubSeq(s, i, p - 1) \in Seq(C)
          BY <1>0, <3>0, <4>1, Piece
        <5> QED  BY <5>1, OneElement
      <4>3. f[p + 1] \in V
        BY <4>1
      <4>4. <<SubSeq(s, i, p - 1)>> \o f[p + 1] \in V
        <5>1. ASSUME NEW x \in V, NEW y \in V PROVE x \o y \in V
          BY <5>1, ConcatProperties
        <5> HIDE DEF V
        <5> QED  BY <4>2, <4>3, <5>1
      <4> QED  BY <4>0, <4>4
    <3>4. \/ here(f, i) = f[i + 1] \/ here(f, i) = <<SubSeq(s, i, Len(s))>>
          \/ \E p \in i + 1..Len(s) : here(f, i) = <<SubSeq(s, i, p - 1)>> \o f[p + 1]
      BY <3>0, <1>s
    <3> QED  BY <3>1, <3>2, <3>3, <3>4
  <2> QED  BY <2>1, <2>2
<1>2. B \in [[D -> V] -> [D -> V]]
  BY <1>1
<1>3. m \in [D -> 0..Len(s)]
  BY <1>0
<1>4. ASSUME NEW f \in [D -> V], NEW g \in [D -> V], NEW i \in D,
             \A j \in D : m[j] < m[i] => f[j] = g[j]
      PROVE  here(f, i) = here(g, i)
  <2>1. \A j \in D : j > i => f[j] = g[j]
    BY <1>0, <1>4
  <2>2. CASE i > Len(s)
    BY <2>2 DEF SplitAt
  <2>3. CASE i <= Len(s) /\ s[i] = c
    <3>1. i + 1 \in D /\ i + 1 > i
      BY <1>0, <2>3
    <3> QED  BY <1>0, <2>1, <2>3, <3>1 DEF SplitAt
  <2>4. CASE i <= Len(s) /\ s[i] # c
    <3>0. i \in 1..Len(s) /\ ~(i > Len(s)) /\ Len(<<c>>) = 1
      BY <1>0, <2>4
    <3>1. CASE Find(s, <<c>>, i) = 0
      BY <2>4, <3>0, <3>1 DEF SplitAt
    <3>2. CASE \E p \in i..Len(s) : Find(s, <<c>>, i) = p
      <4>0. PICK p \in i..Len(s) : Find(s, <<c>>, i) = p
        BY <3>2
      <4>1. p + 1 \in D /\ p + 1 > i /\ p # 0
        BY <1>0, <3>0
      <4>2. f[p + 1] = g[p + 1]
        BY <2>1, <4>1
      <4> QED  BY <2>4, <3>0, <4>0, <4>1, <4>2 DEF SplitAt
    <3>3. Find(s, <<c>>, i) = 0 \/ \E p \in i..Len(s) : Find(s, <<c>>, i) = p
      BY <3>0, FindCases
    <3> QED  BY <3>1, <3>2, <3>3
  <2> QED  BY <1>0, <2>2, <2>3, <2>4
<1>5. \A f, g \in [D -> V] : \A i \in D :
         (\A j \in D : m[j] < m[i] => f[j] = g[j]) => B[f][i] = B[g][i]
  <2> HIDE DEF m, D, V, here
  <2> QED  BY <1>4
<1>6. PICK f \in [D -> V] : f = B[f]
  <2>1. V # {}
    BY <1>e
  <2>2. Recursive(D, V, Len(s), m, B)
    <3> HIDE DEF m, D, V, B
    <3> QED  BY <1>0, <1>2, <1>3, <1>5, <2>1 DEF Recursive
  <2> HIDE DEF m, D, V, B
  <2> QED  BY <2>2, Recursion
<1>7. f = [i \in D |-> here(f, i)]
  BY <1>6
<1>8. Items(s, c) = [i \in D |-> SplitAt(s, <<c>>, {c}, Items(s, c), i)]
  BY <1>7 DEF SplitItems, Items
<1> DEFINE F == Items(s, c)
<1> HIDE DEF F
<1>9. F = [i \in D |-> SplitAt(s, <<c>>, {c}, F, i)]
  BY <1>8 DEF F
<1>10. \A i \in D : F[i] = SplitAt(s, <<c>>, {c}, F, i)
  BY <1>9
<1> QED  BY <1>10 DEF F

(* The pieces between separators, of which none is empty, from place i on.  *)
RunAt(s, c, a, b) ==
    /\ a <= b /\ b <= Len(s)
    /\ \A j \in a..b : s[j] # c
    /\ a = 1 \/ s[a - 1] = c
    /\ b = Len(s) \/ s[b + 1] = c

Runs(C, s, c, i) ==
    {x \in Seq(C) : \E a, b \in i..Len(s) : RunAt(s, c, a, b) /\ x = SubSeq(s, a, b)}

(* The runs from a place on that is a separator, begins the last one, or is *)
(* before another.                                                         *)
LEMMA RunsSkip ==
    ASSUME NEW C, NEW s \in Seq(C), NEW c \in C, NEW i \in 1..Len(s), s[i] = c
    PROVE  Runs(C, s, c, i) = Runs(C, s, c, i + 1)
<1>0. Len(s) \in Nat
  BY LenProperties
<1>1. ASSUME NEW a \in i..Len(s), NEW b \in i..Len(s), RunAt(s, c, a, b)
      PROVE  a \in i + 1..Len(s) /\ b \in i + 1..Len(s)
  <2>1. a \in a..b /\ a # i
    BY <1>0, <1>1 DEF RunAt
  <2> QED  BY <1>0, <1>1, <2>1 DEF RunAt
<1>2. \A a \in i + 1..Len(s) : a \in i..Len(s)
  BY <1>0
<1> QED  BY <1>1, <1>2 DEF Runs

LEMMA RunsLast ==
    ASSUME NEW C, NEW s \in Seq(C), NEW c \in C, NEW i \in 1..Len(s),
           i = 1 \/ s[i - 1] = c, \A j \in i..Len(s) : s[j] # c
    PROVE  Runs(C, s, c, i) = {SubSeq(s, i, Len(s))}
<1>0. Len(s) \in Nat
  BY LenProperties
<1>1. SubSeq(s, i, Len(s)) \in Seq(C)
  BY <1>0, Piece
<1>2. RunAt(s, c, i, Len(s)) /\ i \in i..Len(s) /\ Len(s) \in i..Len(s)
  BY <1>0 DEF RunAt
<1>3. ASSUME NEW a \in i..Len(s), NEW b \in i..Len(s), RunAt(s, c, a, b)
      PROVE  a = i /\ b = Len(s)
  <2>1. a > i => a - 1 \in i..Len(s) /\ a # 1
    BY <1>0
  <2>2. b < Len(s) => b + 1 \in i..Len(s)
    BY <1>0
  <2> QED  BY <1>0, <1>3, <2>1, <2>2 DEF RunAt
<1> QED  BY <1>1, <1>2, <1>3 DEF Runs

LEMMA RunsNext ==
    ASSUME NEW C, NEW s \in Seq(C), NEW c \in C, NEW i \in 1..Len(s),
           i = 1 \/ s[i - 1] = c,
           NEW p \in i + 1..Len(s), s[p] = c, \A j \in i..p - 1 : s[j] # c
    PROVE  Runs(C, s, c, i) = {SubSeq(s, i, p - 1)} \cup Runs(C, s, c, p + 1)
<1>0. Len(s) \in Nat /\ p - 1 \in Nat /\ i <= p - 1 /\ p - 1 <= Len(s) /\ (p - 1) + 1 = p
  BY LenProperties
<1>1. SubSeq(s, i, p - 1) \in Seq(C)
  BY <1>0, Piece
<1>2. RunAt(s, c, i, p - 1) /\ i \in i..Len(s) /\ p - 1 \in i..Len(s)
  BY <1>0 DEF RunAt
<1>3. ASSUME NEW a \in i..Len(s), NEW b \in i..Len(s), RunAt(s, c, a, b)
      PROVE  \/ a = i /\ b = p - 1
             \/ a \in p + 1..Len(s) /\ b \in p + 1..Len(s)
  <2>1. a <= b /\ p \notin a..b
    BY <1>3 DEF RunAt
  <2>2. CASE a < p
    <3>1. b < p
      BY <1>0, <2>1, <2>2
    <3>2. a > i => a - 1 \in i..p - 1 /\ a # 1
      BY <1>0, <2>2
    <3>3. b < p - 1 => b + 1 \in i..p - 1 /\ b # Len(s)
      BY <1>0, <3>1
    <3> QED  BY <1>0, <1>3, <3>1, <3>2, <3>3 DEF RunAt
  <2>3. CASE a > p
    BY <1>0, <2>1, <2>3
  <2> QED  BY <1>0, <2>1, <2>2, <2>3
<1>4. \A a \in p + 1..Len(s) : a \in i..Len(s)
  BY <1>0
<1> QED  BY <1>1, <1>2, <1>3, <1>4 DEF Runs

LEMMA SplitRuns ==
    ASSUME NEW C, NEW s \in Seq(C), NEW c \in C
    PROVE  \A i \in 1..Len(s) + 1 :
              /\ Items(s, c)[i] \in Seq(Seq(C))
              /\ i = 1 \/ s[i - 1] = c => Range(Items(s, c)[i]) = Runs(C, s, c, i)
<1> DEFINE F == Items(s, c)
           Good(i) == /\ F[i] \in Seq(Seq(C))
                      /\ i = 1 \/ s[i - 1] = c => Range(F[i]) = Runs(C, s, c, i)
           S == {k \in Nat : \A i \in 1..Len(s) + 1 : i >= Len(s) + 1 - k => Good(i)}
<1>0. Len(s) \in Nat
  BY LenProperties
<1>1. \A i \in 1..Len(s) + 1 : F[i] = SplitAt(s, <<c>>, {c}, F, i)
  BY SplitEquation
<1>2. Good(Len(s) + 1)
  <2>1. F[Len(s) + 1] = <<>>
    <3>0. Len(s) + 1 \in 1..Len(s) + 1 /\ Len(s) + 1 > Len(s)
      BY <1>0
    <3>1. F[Len(s) + 1] = SplitAt(s, <<c>>, {c}, F, Len(s) + 1)
      <4> HIDE DEF F
      <4> QED  BY <1>1, <3>0
    <3> QED  BY <3>0, <3>1 DEF SplitAt
  <2>2. Range(<<>>) = {}
    BY DEF Range
  <2>3. Runs(C, s, c, Len(s) + 1) = {}
    BY <1>0 DEF Runs
  <2> QED  BY <2>1, <2>2, <2>3, EmptySeq
<1>3. ASSUME NEW i \in 1..Len(s), \A j \in i + 1..Len(s) + 1 : Good(j)
      PROVE  Good(i)
  <2>s. SplitStep(s, c, F, i)
    BY SplitCases
  <2>0. F[i] = SplitAt(s, <<c>>, {c}, F, i)
    <3>1. i \in 1..Len(s) + 1
      BY <1>0
    <3> HIDE DEF F
    <3> QED  BY <1>1, <3>1
  <2>1. CASE s[i] = c /\ SplitAt(s, <<c>>, {c}, F, i) = F[i + 1]
    <3>1. i + 1 \in i + 1..Len(s) + 1 /\ (i + 1) - 1 = i
      BY <1>0
    <3>2. Good(i + 1)
      BY <1>3, <3>1
    <3>3. Runs(C, s, c, i) = Runs(C, s, c, i + 1)
      BY <2>1, RunsSkip
    <3> QED  BY <2>0, <2>1, <3>1, <3>2, <3>3
  <2>2. CASE /\ \A j \in i..Len(s) : s[j] # c
             /\ SplitAt(s, <<c>>, {c}, F, i) = <<SubSeq(s, i, Len(s))>>
    <3>1. SubSeq(s, i, Len(s)) \in Seq(C)
      BY <1>0, Piece
    <3>2. /\ <<SubSeq(s, i, Len(s))>> \in Seq(Seq(C))
          /\ Range(<<SubSeq(s, i, Len(s))>>) = {SubSeq(s, i, Len(s))}
      BY <3>1, OneElement
    <3>3. i = 1 \/ s[i - 1] = c => Runs(C, s, c, i) = {SubSeq(s, i, Len(s))}
      BY <2>2, RunsLast
    <3> QED  BY <2>0, <2>2, <3>2, <3>3
  <2>3. CASE \E p \in i + 1..Len(s) :
                /\ s[p] = c /\ \A j \in i..p - 1 : s[j] # c
                /\ SplitAt(s, <<c>>, {c}, F, i) = <<SubSeq(s, i, p - 1)>> \o F[p + 1]
    <3>1. PICK p \in i + 1..Len(s) :
                /\ s[p] = c /\ \A j \in i..p - 1 : s[j] # c
                /\ SplitAt(s, <<c>>, {c}, F, i) = <<SubSeq(s, i, p - 1)>> \o F[p + 1]
      BY <2>3
    <3>2. p + 1 \in i + 1..Len(s) + 1 /\ (p + 1) - 1 = p /\ p - 1 \in Nat
          /\ i <= (p - 1) + 1 /\ p - 1 <= Len(s)
      BY <1>0
    <3>3. F[p + 1] \in Seq(Seq(C)) /\ Range(F[p + 1]) = Runs(C, s, c, p + 1)
      BY <1>3, <3>1, <3>2
    <3>4. SubSeq(s, i, p - 1) \in Seq(C)
      BY <1>0, <3>2, Piece
    <3>5. /\ <<SubSeq(s, i, p - 1)>> \in Seq(Seq(C))
          /\ Range(<<SubSeq(s, i, p - 1)>>) = {SubSeq(s, i, p - 1)}
      BY <3>4, OneElement
    <3>6. /\ F[i] \in Seq(Seq(C))
          /\ Range(F[i]) = {SubSeq(s, i, p - 1)} \cup Runs(C, s, c, p + 1)
      <4>1. F[i] = <<SubSeq(s, i, p - 1)>> \o F[p + 1]
        BY <2>0, <3>1
      <4> DEFINE u == <<SubSeq(s, i, p - 1)>>
                 v == F[p + 1]
      <4>2. u \in Seq(Seq(C)) /\ v \in Seq(Seq(C))
        BY <3>3, <3>5
      <4> HIDE DEF u, v
      <4>3. u \o v \in Seq(Seq(C)) /\ Range(u \o v) = Range(u) \cup Range(v)
        BY <4>2, RangeConcat, ConcatProperties
      <4> QED  BY <3>3, <3>5, <4>1, <4>3 DEF u, v
    <3>7. i = 1 \/ s[i - 1] = c =>
             Runs(C, s, c, i) = {SubSeq(s, i, p - 1)} \cup Runs(C, s, c, p + 1)
      <4>1. s[p] = c /\ \A j \in i..p - 1 : s[j] # c
        BY <3>1
      <4> HIDE DEF F, Good, S
      <4>2. ASSUME i = 1 \/ s[i - 1] = c
            PROVE  Runs(C, s, c, i) = {SubSeq(s, i, p - 1)} \cup Runs(C, s, c, p + 1)
        BY <4>1, <4>2, RunsNext
      <4> QED  BY <4>2
    <3> QED  BY <3>6, <3>7
  <2> QED  BY <2>s, <2>1, <2>2, <2>3 DEF SplitStep
<1>4. 0 \in S
  <2>1. \A i \in 1..Len(s) + 1 : i >= Len(s) + 1 - 0 => i = Len(s) + 1
    BY <1>0
  <2> HIDE DEF Good
  <2> QED  BY <1>2, <2>1
<1>5. ASSUME NEW k \in Nat, k \in S PROVE k + 1 \in S
  <2> SUFFICES ASSUME NEW i \in 1..Len(s) + 1, i >= Len(s) + 1 - (k + 1) PROVE Good(i)
    OBVIOUS
  <2>1. CASE i >= Len(s) + 1 - k
    BY <1>5, <2>1
  <2>2. CASE i = Len(s) - k
    <3>1. i \in 1..Len(s)
      BY <1>0, <2>2
    <3>2. \A j \in i + 1..Len(s) + 1 : j \in 1..Len(s) + 1 /\ j >= Len(s) + 1 - k
      BY <1>0, <2>2, <3>1
    <3>3. \A j \in i + 1..Len(s) + 1 : Good(j)
      BY <1>5, <3>2
    <3> HIDE DEF Good
    <3> QED  BY <1>3, <3>1, <3>3
  <2> QED  BY <1>0, <2>1, <2>2
<1>6. Len(s) \in S
  <2> HIDE DEF S
  <2> QED  BY <1>0, <1>4, <1>5, SetInduction
<1>7. \A i \in 1..Len(s) + 1 : Good(i)
  BY <1>0, <1>6
<1> QED  BY <1>7
LEMMA SamePiece ==
    ASSUME NEW C, NEW s \in Seq(C), NEW t \in Seq(C), NEW a \in Nat, NEW b \in Nat,
           1 <= a, a <= b + 1, b <= Len(s), b <= Len(t), \A i \in a..b : s[i] = t[i]
    PROVE  SubSeq(s, a, b) = SubSeq(t, a, b)
<1>1. /\ SubSeq(s, a, b) \in Seq(C) /\ Len(SubSeq(s, a, b)) = b - a + 1
      /\ \A i \in 1..b - a + 1 : SubSeq(s, a, b)[i] = s[a + i - 1]
  BY Piece
<1>2. /\ SubSeq(t, a, b) \in Seq(C) /\ Len(SubSeq(t, a, b)) = b - a + 1
      /\ \A i \in 1..b - a + 1 : SubSeq(t, a, b)[i] = t[a + i - 1]
  BY Piece
<1>3. \A i \in 1..b - a + 1 : s[a + i - 1] = t[a + i - 1]
  <2>1. \A i \in 1..b - a + 1 : a + i - 1 \in a..b
    OBVIOUS
  <2> QED  BY <2>1
<1> QED  BY <1>1, <1>2, <1>3, SeqEqual

(* The sequence s is u, a separator, and v.                                 *)
Joined(s, u, c, v) ==
    /\ Len(s) = Len(u) + 1 + Len(v)
    /\ \A j \in 1..Len(u) : s[j] = u[j]
    /\ s[Len(u) + 1] = c
    /\ \A j \in 1..Len(v) : s[Len(u) + 1 + j] = v[j]

LEMMA JoinedConcat ==
    ASSUME NEW C, NEW u \in Seq(C), NEW c \in C, NEW v \in Seq(C)
    PROVE  u \o (<<c>> \o v) \in Seq(C) /\ Joined(u \o (<<c>> \o v), u, c, v)
<1>0. Len(u) \in Nat /\ Len(v) \in Nat
  BY LenProperties
<1>1. <<c>> \in Seq(C) /\ Len(<<c>>) = 1 /\ <<c>>[1] = c
  BY OneElement
<1> DEFINE w == <<c>> \o v
<1>2. /\ w \in Seq(C) /\ Len(w) = 1 + Len(v)
      /\ \A i \in 1..1 + Len(v) : w[i] = IF i <= 1 THEN <<c>>[i] ELSE v[i - 1]
  BY <1>1, ConcatProperties
<1>3. w[1] = c /\ \A i \in 1..Len(v) : w[1 + i] = v[i]
  BY <1>0, <1>1, <1>2
<1> HIDE DEF w
<1>4. /\ u \o w \in Seq(C) /\ Len(u \o w) = Len(u) + Len(w)
      /\ \A i \in 1..Len(u) + Len(w) : (u \o w)[i] = IF i <= Len(u) THEN u[i] ELSE w[i - Len(u)]
  BY <1>2, ConcatProperties
<1>5. \A j \in 1..Len(u) : (u \o w)[j] = u[j]
  BY <1>0, <1>2, <1>4
<1>6. (u \o w)[Len(u) + 1] = c
  <2>1. Len(u) + 1 \in 1..Len(u) + Len(w) /\ Len(u) + 1 - Len(u) = 1 /\ ~(Len(u) + 1 <= Len(u))
    BY <1>0, <1>2
  <2> QED  BY <1>3, <1>4, <2>1
<1>7. ASSUME NEW j \in 1..Len(v) PROVE (u \o w)[Len(u) + 1 + j] = v[j]
  <2>1. /\ Len(u) + 1 + j \in 1..Len(u) + Len(w) /\ Len(u) + 1 + j - Len(u) = 1 + j
        /\ ~(Len(u) + 1 + j <= Len(u))
    BY <1>0, <1>2
  <2> QED  BY <1>3, <1>4, <2>1
<1>8. Len(u \o w) = Len(u) + 1 + Len(v)
  BY <1>0, <1>2, <1>4
<1>9. Joined(u \o w, u, c, v)
  BY <1>5, <1>6, <1>7, <1>8 DEF Joined
<1> QED  BY <1>4, <1>9 DEF w

LEMMA RunsJoined ==
    ASSUME NEW C, NEW s \in Seq(C), NEW u \in Seq(C), NEW c \in C, NEW v \in Seq(C),
           Joined(s, u, c, v), v # <<>>, \A j \in 1..Len(v) : v[j] # c
    PROVE  Runs(C, s, c, 1) = Runs(C, u, c, 1) \cup {v}
<1>0. /\ Len(u) \in Nat /\ Len(v) \in Nat /\ Len(v) > 0 /\ Len(s) = Len(u) + 1 + Len(v)
      /\ s[Len(u) + 1] = c
  BY LenProperties, EmptySeq DEF Joined
<1> DEFINE m == Len(u) + 1
<1>1. \A j \in m + 1..Len(s) : s[j] # c
  <2> SUFFICES ASSUME NEW j \in m + 1..Len(s) PROVE s[j] # c
    OBVIOUS
  <2>1. j - m \in 1..Len(v) /\ Len(u) + 1 + (j - m) = j
    BY <1>0
  <2>2. s[Len(u) + 1 + (j - m)] = v[j - m]
    BY <2>1 DEF Joined
  <2>3. v[j - m] # c
    BY <2>1
  <2> QED  BY <2>1, <2>2, <2>3
<1>2. SubSeq(s, m + 1, Len(s)) = v
  <2>1. /\ SubSeq(s, m + 1, Len(s)) \in Seq(C)
        /\ Len(SubSeq(s, m + 1, Len(s))) = Len(s) - (m + 1) + 1
        /\ \A i \in 1..Len(s) - (m + 1) + 1 : SubSeq(s, m + 1, Len(s))[i] = s[m + 1 + i - 1]
    <3>1. m + 1 \in Nat /\ Len(s) \in Nat /\ 1 <= m + 1 /\ m + 1 <= Len(s) + 1
      BY <1>0
    <3> HIDE DEF m
    <3> QED  BY <3>1, Piece
  <2>2. Len(s) - (m + 1) + 1 = Len(v)
    BY <1>0
  <2>3. \A i \in 1..Len(v) : SubSeq(s, m + 1, Len(s))[i] = v[i]
    <3> SUFFICES ASSUME NEW i \in 1..Len(v) PROVE SubSeq(s, m + 1, Len(s))[i] = v[i]
      OBVIOUS
    <3>1. m + 1 + i - 1 = Len(u) + 1 + i /\ i \in 1..Len(s) - (m + 1) + 1
      BY <1>0
    <3> QED  BY <2>1, <3>1 DEF Joined
  <2> HIDE DEF m
  <2> QED  BY <2>1, <2>2, <2>3, SeqEqual
<1>3. ASSUME NEW a \in 1..Len(s), NEW b \in 1..Len(s), RunAt(s, c, a, b)
      PROVE  SubSeq(s, a, b) \in Runs(C, u, c, 1) \cup {v}
  <2>1. a <= b /\ m \notin a..b
    BY <1>0, <1>3 DEF RunAt
  <2>2. CASE b < m
    <3>1. b <= Len(u) /\ a \in 1..Len(u) /\ b \in 1..Len(u) /\ b <= Len(s) /\ a <= b + 1
      BY <1>0, <2>1, <2>2
    <3>2. \A j \in 1..Len(u) : s[j] = u[j]
      BY DEF Joined
    <3>3. SubSeq(s, a, b) = SubSeq(u, a, b)
      <4>1. /\ a \in Nat /\ b \in Nat /\ 1 <= a /\ a <= b + 1 /\ b <= Len(s) /\ b <= Len(u)
            /\ \A j \in a..b : s[j] = u[j]
        BY <1>0, <3>1, <3>2
      <4> QED  BY <4>1, SamePiece
    <3>4. RunAt(u, c, a, b)
      <4>1. a # 1 => a - 1 \in 1..Len(u)
        BY <1>0, <3>1
      <4>2. b # Len(u) => b + 1 \in 1..Len(u) /\ b # Len(s)
        BY <1>0, <3>1
      <4>3. \A j \in a..b : j \in 1..Len(u)
        BY <1>0, <3>1
      <4> QED  BY <1>3, <3>1, <3>2, <4>1, <4>2, <4>3 DEF RunAt
    <3>5. SubSeq(u, a, b) \in Seq(C)
      BY <1>0, <3>1, Piece
    <3> QED  BY <3>1, <3>3, <3>4, <3>5 DEF Runs
  <2>3. CASE a > m
    <3>1. a > m + 1 => a - 1 \in m + 1..Len(s) /\ a # 1
      BY <1>0
    <3>0. m \in Nat /\ Len(s) \in Nat /\ a \in 1..Len(s) /\ b \in 1..Len(s)
      BY <1>0
    <3>2. b # Len(s) => b + 1 \in m + 1..Len(s)
      <4> HIDE DEF m
      <4> QED  BY <2>1, <2>3, <3>0
    <3>3. a = 1 \/ s[a - 1] = c
      BY <1>3 DEF RunAt
    <3>4. a = m + 1
      BY <1>0, <1>1, <2>3, <3>1, <3>3
    <3>5. b = Len(s)
      BY <1>1, <1>3, <3>2 DEF RunAt
    <3> QED  BY <1>2, <3>4, <3>5
  <2> QED  BY <1>0, <2>1, <2>2, <2>3
<1>4. v \in Runs(C, s, c, 1)
  <2>1. m + 1 \in 1..Len(s) /\ Len(s) \in 1..Len(s) /\ m + 1 - 1 = m /\ m + 1 <= Len(s)
    BY <1>0
  <2>2. RunAt(s, c, m + 1, Len(s))
    BY <1>0, <1>1, <2>1 DEF RunAt
  <2> HIDE DEF m
  <2> QED  BY <1>2, <2>1, <2>2 DEF Runs
<1>5. ASSUME NEW a \in 1..Len(u), NEW b \in 1..Len(u), RunAt(u, c, a, b)
      PROVE  SubSeq(u, a, b) \in Runs(C, s, c, 1)
  <2>1. a \in 1..Len(s) /\ b \in 1..Len(s) /\ a <= b /\ a <= b + 1
    BY <1>0, <1>5 DEF RunAt
  <2>2. \A j \in 1..Len(u) : s[j] = u[j]
    BY DEF Joined
  <2>3. SubSeq(s, a, b) = SubSeq(u, a, b)
    <3>1. /\ a \in Nat /\ b \in Nat /\ 1 <= a /\ b <= Len(s) /\ b <= Len(u)
          /\ \A j \in a..b : s[j] = u[j]
      BY <1>0, <2>1, <2>2
    <3> QED  BY <2>1, <3>1, SamePiece
  <2>4. RunAt(s, c, a, b)
    <3>1. a # 1 => a - 1 \in 1..Len(u)
      BY <1>0
    <3>2. b # Len(u) => b + 1 \in 1..Len(u)
      BY <1>0
    <3>3. \A j \in a..b : j \in 1..Len(u)
      BY <1>0
    <3>4. b # Len(s) => s[b + 1] = c
      BY <1>0, <1>5, <2>2, <3>2 DEF RunAt
    <3>5. a # 1 => s[a - 1] = c
      BY <1>5, <2>2, <3>1 DEF RunAt
    <3>6. \A j \in a..b : s[j] # c
      BY <1>5, <2>2, <3>3 DEF RunAt
    <3> QED  BY <1>0, <2>1, <3>4, <3>5, <3>6 DEF RunAt
  <2>5. SubSeq(s, a, b) \in Seq(C)
    BY <1>0, <2>1, Piece
  <2> QED  BY <2>1, <2>3, <2>4, <2>5 DEF Runs
<1>6. Runs(C, s, c, 1) \subseteq Runs(C, u, c, 1) \cup {v}
  BY <1>3 DEF Runs
<1>7. Runs(C, u, c, 1) \subseteq Runs(C, s, c, 1)
  BY <1>5 DEF Runs
<1> QED  BY <1>4, <1>6, <1>7
-------------------------------------------------------------------------------
(* The pieces a text is written from.                                      *)

Flat(pieces) ==
    CHOOSE f : f = [i \in 1..Len(pieces) |->
                       IF i = 1 THEN pieces[i] ELSE f[i - 1] \o pieces[i]]

LEMMA Flattened ==
    ASSUME NEW C, NEW pieces \in Seq(Seq(C)), Len(pieces) > 0
    PROVE  /\ FlattenSeq(pieces) = Flat(pieces)[Len(pieces)]
           /\ Flat(pieces)[1] = pieces[1]
           /\ \A i \in 2..Len(pieces) : Flat(pieces)[i] = Flat(pieces)[i - 1] \o pieces[i]
<1> DEFINE D == 1..Len(pieces)
           V == Seq(C)
           m == [i \in D |-> i]
           here(f, i) == IF i = 1 THEN pieces[i] ELSE f[i - 1] \o pieces[i]
           B == [f \in [D -> V] |-> [i \in D |-> here(f, i)]]
<1>0. Len(pieces) \in Nat /\ \A i \in D : pieces[i] \in V
  BY LenProperties, ElementOfSeq
<1>i. \A i \in D : i \in Nat /\ (i # 1 => i - 1 \in D /\ i - 1 < i)
  BY <1>0
<1>1. ASSUME NEW f \in [D -> V], NEW i \in D PROVE here(f, i) \in V
  <2>1. CASE i # 1
    <3>1. f[i - 1] \in V /\ pieces[i] \in V
      BY <1>0, <1>i, <2>1
    <3> QED  BY <2>1, <3>1, ConcatProperties
  <2> QED  BY <1>0, <2>1
<1>2. B \in [[D -> V] -> [D -> V]]
  BY <1>1
<1>3. m \in [D -> 0..Len(pieces)]
  BY <1>0
<1>a. ASSUME NEW f \in [D -> V], NEW g \in [D -> V], NEW i \in D,
             \A j \in D : m[j] < m[i] => f[j] = g[j]
      PROVE  here(f, i) = here(g, i)
  <2>1. i # 1 => f[i - 1] = g[i - 1]
    BY <1>i, <1>a
  <2> QED  BY <2>1
<1>4. \A f, g \in [D -> V] : \A i \in D :
         (\A j \in D : m[j] < m[i] => f[j] = g[j]) => B[f][i] = B[g][i]
  <2> HIDE DEF m, D, V, here
  <2> QED  BY <1>a
<1>5. V # {}
  BY EmptySeq
<1>6. Recursive(D, V, Len(pieces), m, B)
  <2> HIDE DEF m, D, V, B
  <2> QED  BY <1>0, <1>2, <1>3, <1>4, <1>5 DEF Recursive
<1>7. PICK f \in [D -> V] : f = B[f]
  <2> HIDE DEF m, D, V, B
  <2> QED  BY <1>6, Recursion
<1>8. Flat(pieces) = [i \in D |-> here(Flat(pieces), i)]
  <2>1. f = [i \in D |-> here(f, i)]
    BY <1>7
  <2> QED  BY <2>1 DEF Flat
<1>9. FlattenSeq(pieces) = Flat(pieces)[Len(pieces)]
  BY <1>0 DEF FlattenSeq, Flat
<1> HIDE DEF D
<1>10. \A i \in D : Flat(pieces)[i] = here(Flat(pieces), i)
  BY <1>8
<1>11. 1 \in D /\ \A i \in 2..Len(pieces) : i \in D /\ i # 1
  BY <1>0 DEF D
<1> QED  BY <1>9, <1>10, <1>11

(* Where each piece is in the text they are written to, and that there is   *)
(* nothing else in it.                                                     *)
Places(pieces, s, pos) ==
    /\ pos \in [0..Len(pieces) -> Nat] /\ pos[0] = 0 /\ pos[Len(pieces)] = Len(s)
    /\ \A k \in 1..Len(pieces) :
          /\ pos[k] = pos[k - 1] + Len(pieces[k]) /\ pos[k] <= Len(s)
          /\ \A j \in 1..Len(pieces[k]) : s[pos[k - 1] + j] = pieces[k][j]
    /\ \A i \in 1..Len(s) : \E k \in 1..Len(pieces) :
          \E j \in 1..Len(pieces[k]) : i = pos[k - 1] + j

LEMMA FlatPlaces ==
    ASSUME NEW C, NEW pieces \in Seq(Seq(C)), Len(pieces) > 0
    PROVE  /\ FlattenSeq(pieces) \in Seq(C)
           /\ \E pos : Places(pieces, FlattenSeq(pieces), pos)
<1> DEFINE n == Len(pieces)
           F == Flat(pieces)
           L(k) == IF k = 0 THEN 0 ELSE Len(F[k])
           Laid(m) ==
               /\ F[m] \in Seq(C)
               /\ \A k \in 1..m :
                     /\ L(k) = L(k - 1) + Len(pieces[k]) /\ L(k) \in Nat /\ L(k - 1) \in Nat
                     /\ L(k) <= L(m)
                     /\ \A j \in 1..Len(pieces[k]) : F[m][L(k - 1) + j] = pieces[k][j]
               /\ \A i \in 1..L(m) : \E k \in 1..m :
                     \E j \in 1..Len(pieces[k]) : i = L(k - 1) + j
           S == {m \in Nat : m + 1 <= n => Laid(m + 1)}
<1>0. /\ n \in Nat /\ n > 0
      /\ \A k \in 1..n : pieces[k] \in Seq(C) /\ Len(pieces[k]) \in Nat
  <2>1. n \in Nat /\ \A k \in 1..n : pieces[k] \in Seq(C)
    BY LenProperties, ElementOfSeq
  <2> QED  BY <2>1, LenProperties
<1>1. /\ FlattenSeq(pieces) = F[n] /\ F[1] = pieces[1]
      /\ \A k \in 2..n : F[k] = F[k - 1] \o pieces[k]
  BY Flattened
<1> HIDE DEF n, F
<1>2. Laid(1)
  <2>1. F[1] \in Seq(C) /\ L(0) = 0 /\ L(1) = Len(pieces[1]) /\ Len(pieces[1]) \in Nat /\ 1 \in 1..n
    BY <1>0, <1>1
  <2>2. \A k \in 1..1 : k = 1 /\ k - 1 = 0
    OBVIOUS
  <2> HIDE DEF L
  <2>3. \A j \in 1..Len(pieces[1]) : L(0) + j = j
    BY <2>1
  <2>4. \A i \in 1..L(1) : \E j \in 1..Len(pieces[1]) : i = L(0) + j
    BY <2>1, <2>3
  <2>5. /\ L(1) = L(0) + Len(pieces[1]) /\ L(1) \in Nat /\ L(0) \in Nat /\ L(1) <= L(1)
        /\ \A j \in 1..Len(pieces[1]) : F[1][L(0) + j] = pieces[1][j]
    BY <1>1, <2>1, <2>3
  <2>6. \A i \in 1..L(1) : \E k \in 1..1 : \E j \in 1..Len(pieces[k]) : i = L(k - 1) + j
    <3>1. 1 \in 1..1 /\ 1 - 1 = 0
      OBVIOUS
    <3> QED  BY <2>4, <3>1
  <2>7. \A k \in 1..1 : /\ L(k) = L(k - 1) + Len(pieces[k]) /\ L(k) \in Nat /\ L(k - 1) \in Nat
                        /\ L(k) <= L(1)
                        /\ \A j \in 1..Len(pieces[k]) : F[1][L(k - 1) + j] = pieces[k][j]
    BY <2>2, <2>5
  <2> QED  BY <2>1, <2>6, <2>7
<1>3. ASSUME NEW m \in Nat \ {0}, m + 1 <= n, Laid(m) PROVE Laid(m + 1)
  <2> DEFINE p == pieces[m + 1]
             b == Len(p)
  <2>1. m + 1 \in 2..n /\ m + 1 \in 1..n /\ (m + 1) - 1 = m /\ m # 0 /\ m + 1 # 0
    BY <1>0, <1>3
  <2>2. F[m + 1] = F[m] \o p /\ p \in Seq(C) /\ b \in Nat /\ F[m] \in Seq(C)
    BY <1>0, <1>1, <1>3, <2>1
  <2>3. /\ F[m + 1] \in Seq(C) /\ Len(F[m + 1]) = Len(F[m]) + b
        /\ \A i \in 1..Len(F[m]) + b :
              F[m + 1][i] = IF i <= Len(F[m]) THEN F[m][i] ELSE p[i - Len(F[m])]
    <3> HIDE DEF p
    <3> QED  BY <2>2, ConcatProperties
  <2>4. L(m) = Len(F[m]) /\ L(m + 1) = L(m) + b /\ L(m) \in Nat
    BY <2>1, <2>2, <2>3, LenProperties
  <2>5. /\ \A k \in 1..m :
             /\ L(k) = L(k - 1) + Len(pieces[k]) /\ L(k) \in Nat /\ L(k - 1) \in Nat
             /\ L(k) <= L(m)
             /\ \A j \in 1..Len(pieces[k]) : F[m][L(k - 1) + j] = pieces[k][j]
        /\ \A i \in 1..L(m) : \E k \in 1..m : \E j \in 1..Len(pieces[k]) : i = L(k - 1) + j
    BY <1>3
  <2> HIDE DEF L
  <2>6. \A k \in 1..m + 1 : k \in 1..m \/ k = m + 1
    OBVIOUS
  <2>7. ASSUME NEW k \in 1..m
        PROVE  /\ L(k) = L(k - 1) + Len(pieces[k]) /\ L(k) \in Nat /\ L(k - 1) \in Nat
               /\ L(k) <= L(m + 1)
               /\ \A j \in 1..Len(pieces[k]) : F[m + 1][L(k - 1) + j] = pieces[k][j]
    <3>1. /\ L(k) = L(k - 1) + Len(pieces[k]) /\ L(k) \in Nat /\ L(k - 1) \in Nat /\ L(k) <= L(m)
          /\ \A j \in 1..Len(pieces[k]) : F[m][L(k - 1) + j] = pieces[k][j]
      BY <2>5
    <3>2. Len(pieces[k]) \in Nat
      <4>1. k \in 1..n
        BY <1>0, <1>3
      <4> QED  BY <1>0, <4>1
    <3>3. L(k) <= L(m + 1)
      <4>1. L(m + 1) = L(m) + b /\ b \in Nat /\ L(m) \in Nat /\ L(k) \in Nat /\ L(k) <= L(m)
        BY <2>2, <2>4, <3>1
      <4> HIDE DEF b
      <4> QED  BY <4>1
    <3>4. \A j \in 1..Len(pieces[k]) : /\ L(k - 1) + j \in 1..Len(F[m]) + b
                                       /\ L(k - 1) + j <= Len(F[m])
      <4> DEFINE c == Len(pieces[k])
                 l == L(k - 1)
                 e == Len(F[m])
      <4>1. b \in Nat /\ c \in Nat /\ l \in Nat /\ e \in Nat /\ l + c <= e
        BY <2>2, <2>4, <3>1, <3>2
      <4> HIDE DEF b, c, l, e
      <4>2. \A j \in 1..c : l + j \in 1..e + b /\ l + j <= e
        BY <4>1
      <4> QED  BY <4>2 DEF c, l, e
    <3> QED  BY <2>3, <3>1, <3>3, <3>4
  <2>8. /\ L(m + 1) = L(m) + b /\ L(m + 1) \in Nat /\ L(m) \in Nat /\ L(m + 1) <= L(m + 1)
        /\ \A j \in 1..b : F[m + 1][L(m) + j] = p[j]
    <3> HIDE DEF p, b
    <3>1. \A j \in 1..b : /\ L(m) + j \in 1..Len(F[m]) + b /\ ~(L(m) + j <= Len(F[m]))
                          /\ (L(m) + j) - Len(F[m]) = j
      BY <2>2, <2>4
    <3>2. L(m + 1) \in Nat
      BY <2>2, <2>4
    <3>3. L(m + 1) <= L(m + 1)
      BY <3>2
    <3> QED  BY <2>3, <2>4, <3>1, <3>2, <3>3
  <2>9. \A i \in 1..L(m + 1) : \E k \in 1..m + 1 : \E j \in 1..Len(pieces[k]) : i = L(k - 1) + j
    <3> TAKE i \in 1..L(m + 1)
    <3>1. CASE i <= L(m)
      <4>1. PICK k \in 1..m : \E j \in 1..Len(pieces[k]) : i = L(k - 1) + j
        BY <2>4, <2>5, <3>1
      <4>2. k \in 1..m + 1
        OBVIOUS
      <4> QED  BY <4>1, <4>2
    <3>2. CASE i > L(m)
      <4>1. i - L(m) \in 1..b /\ i = L(m) + (i - L(m))
        <5> HIDE DEF b
        <5> QED  BY <2>2, <2>4, <3>2
      <4>2. m + 1 \in 1..m + 1
        OBVIOUS
      <4>3. \E j \in 1..Len(pieces[m + 1]) : i = L((m + 1) - 1) + j
        BY <2>1, <4>1
      <4> QED  BY <4>2, <4>3
    <3> QED  BY <2>4, <2>8, <3>1, <3>2
  <2>10. \A k \in 1..m + 1 :
             /\ L(k) = L(k - 1) + Len(pieces[k]) /\ L(k) \in Nat /\ L(k - 1) \in Nat
             /\ L(k) <= L(m + 1)
             /\ \A j \in 1..Len(pieces[k]) : F[m + 1][L(k - 1) + j] = pieces[k][j]
    BY <2>1, <2>6, <2>7, <2>8
  <2> QED  BY <2>3, <2>9, <2>10
<1>4. Laid(n)
  <2> HIDE DEF Laid
  <2>1. 0 \in S
    BY <1>2
  <2>2. ASSUME NEW m \in Nat, m \in S PROVE m + 1 \in S
    <3>1. ASSUME m + 1 + 1 <= n PROVE Laid(m + 1 + 1)
      <4>1. m + 1 \in Nat \ {0} /\ m + 1 <= n
        BY <1>0, <3>1
      <4> QED  BY <1>3, <2>2, <3>1, <4>1
    <3> QED  BY <3>1
  <2>3. Nat \subseteq S
    <3> HIDE DEF S
    <3> QED  BY <2>1, <2>2, SetInduction
  <2>4. n - 1 \in Nat /\ (n - 1) + 1 = n /\ n <= n
    BY <1>0
  <2> QED  BY <2>3, <2>4
<1> DEFINE pos == [k \in 0..n |-> L(k)]
<1>5. /\ F[n] \in Seq(C)
      /\ \A k \in 1..n :
            /\ L(k) = L(k - 1) + Len(pieces[k]) /\ L(k) \in Nat /\ L(k - 1) \in Nat
            /\ L(k) <= L(n)
            /\ \A j \in 1..Len(pieces[k]) : F[n][L(k - 1) + j] = pieces[k][j]
      /\ \A i \in 1..L(n) : \E k \in 1..n : \E j \in 1..Len(pieces[k]) : i = L(k - 1) + j
  BY <1>4
<1>6. L(0) = 0 /\ L(n) = Len(F[n])
  BY <1>0
<1> HIDE DEF L, Laid, S
<1>7. /\ \A k \in 0..n : pos[k] = L(k)
      /\ \A k \in 1..n : pos[k] = L(k) /\ pos[k - 1] = L(k - 1)
      /\ 0 \in 0..n /\ n \in 0..n
  <2>1. \A k \in 1..n : k \in 0..n /\ k - 1 \in 0..n
    BY <1>0
  <2>2. 0 \in 0..n /\ n \in 0..n
    BY <1>0
  <2> QED  BY <2>1, <2>2
<1>8. pos \in [0..n -> Nat]
  <2>1. \A k \in 0..n : k = 0 \/ k \in 1..n
    BY <1>0
  <2>2. \A k \in 0..n : L(k) \in Nat
    BY <1>5, <1>6, <2>1
  <2> QED  BY <2>2
<1> HIDE DEF pos
<1>9. pos[0] = 0 /\ pos[n] = Len(F[n])
  BY <1>6, <1>7
<1>10. ASSUME NEW k \in 1..n
       PROVE  /\ pos[k] = pos[k - 1] + Len(pieces[k]) /\ pos[k] <= Len(F[n])
              /\ \A j \in 1..Len(pieces[k]) : F[n][pos[k - 1] + j] = pieces[k][j]
  BY <1>5, <1>6, <1>7
<1>11. \A i \in 1..Len(F[n]) : \E k \in 1..n : \E j \in 1..Len(pieces[k]) : i = pos[k - 1] + j
  <2> TAKE i \in 1..Len(F[n])
  <2>1. PICK k \in 1..n : \E j \in 1..Len(pieces[k]) : i = L(k - 1) + j
    BY <1>5, <1>6
  <2> QED  BY <1>7, <2>1
<1>12. Places(pieces, F[n], pos)
  BY <1>8, <1>9, <1>10, <1>11 DEF Places, n
<1> QED  BY <1>1, <1>5, <1>12

LEMMA SetAsSequence ==
    ASSUME NEW S, IsFiniteSet(S)
    PROVE  /\ SetToSeq(S) \in Seq(S)
           /\ Range(SetToSeq(S)) = S
<1> DEFINE n == Cardinality(S)
           f == SetToSeq(S)
<1>1. n \in Nat /\ ExistsBijection(1..n, S)
  BY FS_CardinalityType
<1>2. PICK g \in [1..n -> S] : IsInjective(g)
  <2>1. PICK g \in Bijection(1..n, S) : TRUE
    BY <1>1 DEF ExistsBijection
  <2> QED  BY <2>1 DEF Bijection, Injection, IsInjective
<1>3. f \in [1..n -> S] /\ IsInjective(f)
  BY <1>2 DEF SetToSeq
<1> HIDE DEF f
<1>4. f \in Injection(1..n, S)
  BY <1>3 DEF Injection, IsInjective
<1>5. Cardinality(1..n) = n /\ IsFiniteSet(1..n)
  BY <1>1, FS_Interval
<1>6. f \in Surjection(1..n, S)
  BY <1>4, <1>5, FS_Injection
<1>7. Range(f) = S
  BY <1>3, <1>6 DEF Surjection, Range
<1> QED  BY <1>1, <1>3, <1>7 DEF f

(* Trimming does not see a space in front.                                 *)
LEMMA TrimSpace ==
    ASSUME NEW C, NEW n \in Seq(C), NEW c \in C
    PROVE  TrimString(<<c>> \o n, {c}) = TrimString(n, {c})
<1> DEFINE s == <<c>> \o n
           kept == {i \in 1..Len(n) : n[i] # c}
<1>0. Len(n) \in Nat /\ <<c>> \in Seq(C) /\ Len(<<c>>) = 1 /\ <<c>>[1] = c
  BY LenProperties, OneElement
<1>1. /\ s \in Seq(C) /\ Len(s) = 1 + Len(n)
      /\ \A i \in 1..1 + Len(n) : s[i] = IF i <= 1 THEN <<c>>[i] ELSE n[i - 1]
  BY <1>0, ConcatProperties
<1>2. s[1] = c /\ \A i \in 2..Len(s) : i - 1 \in 1..Len(n) /\ s[i] = n[i - 1]
  BY <1>0, <1>1
<1>3. \A i \in 1..Len(n) : s[i + 1] = n[i]
  BY <1>0, <1>1
<1>4. CASE kept = {}
  <2>1. \A i \in 1..Len(s) : s[i] = c
    BY <1>0, <1>1, <1>2, <1>4
  <2>2. {i \in 1..Len(s) : s[i] \notin {c}} = {} /\ {i \in 1..Len(n) : n[i] \notin {c}} = {}
    BY <1>4, <2>1
  <2> QED  BY <2>2 DEF TrimString
<1>5. CASE kept # {}
  <2>1. kept \subseteq Nat /\ kept \subseteq 0..Len(n)
    BY <1>0
  <2>2. PICK a \in kept : \A i \in kept : a <= i
    BY <1>5, <2>1, LeastNat
  <2>3. PICK b \in kept : \A i \in kept : b >= i
    BY <1>0, <1>5, <2>1, GreatestNat
  <2>4. /\ a \in 1..Len(n) /\ b \in a..Len(n) /\ n[a] # c /\ n[b] # c
        /\ \A i \in 1..a - 1 : n[i] = c
        /\ \A i \in b + 1..Len(n) : n[i] = c
    BY <1>0, <2>2, <2>3
  <2>5. TrimString(n, {c}) = SubSeq(n, a, b)
    <3>1. /\ n[a] \notin {c} /\ n[b] \notin {c}
          /\ \A i \in 1..a - 1 : n[i] \in {c}
          /\ \A i \in b + 1..Len(n) : n[i] \in {c}
      BY <2>4
    <3> QED  BY <2>4, <3>1, Trimmed
  <2>6. /\ a + 1 \in 1..Len(s) /\ b + 1 \in a + 1..Len(s) /\ s[a + 1] # c /\ s[b + 1] # c
        /\ \A i \in 1..a : s[i] = c
        /\ \A i \in b + 2..Len(s) : s[i] = c
    <3>1. \A i \in 1..a : i # 1 => i - 1 \in 1..a - 1 /\ i \in 2..Len(s)
      BY <1>0, <1>1, <2>4
    <3>2. \A i \in b + 2..Len(s) : i - 1 \in b + 1..Len(n) /\ i \in 2..Len(s)
      BY <1>0, <1>1, <2>4
    <3>3. a + 1 \in 1..Len(s) /\ b + 1 \in a + 1..Len(s)
      BY <1>0, <1>1, <2>4
    <3>4. b \in 1..Len(n)
      BY <1>0, <2>4
    <3> HIDE DEF s, kept
    <3> QED  BY <1>2, <1>3, <2>4, <3>1, <3>2, <3>3, <3>4
  <2>7. TrimString(s, {c}) = SubSeq(s, a + 1, b + 1)
    <3>1. /\ \A i \in 1..(a + 1) - 1 : s[i] \in {c}
          /\ \A i \in (b + 1) + 1..Len(s) : s[i] \in {c}
      BY <1>0, <2>4, <2>6
    <3> HIDE DEF s, kept
    <3> QED  BY <1>1, <2>6, <3>1, Trimmed
  <2>8. SubSeq(s, a + 1, b + 1) = SubSeq(n, a, b)
    <3>0. /\ a \in Nat /\ b \in Nat /\ 1 <= a /\ a <= b + 1 /\ b <= Len(n)
          /\ 1 <= a + 1 /\ a + 1 <= (b + 1) + 1 /\ b + 1 <= Len(s)
          /\ (b + 1) - (a + 1) + 1 = b - a + 1
      BY <1>0, <1>1, <2>4
    <3>1. /\ SubSeq(n, a, b) \in Seq(C) /\ Len(SubSeq(n, a, b)) = b - a + 1
          /\ \A i \in 1..b - a + 1 : SubSeq(n, a, b)[i] = n[a + i - 1]
      BY <3>0, Piece
    <3>2. /\ SubSeq(s, a + 1, b + 1) \in Seq(C) /\ Len(SubSeq(s, a + 1, b + 1)) = b - a + 1
          /\ \A i \in 1..b - a + 1 : SubSeq(s, a + 1, b + 1)[i] = s[a + 1 + i - 1]
      <4> HIDE DEF s, kept
      <4> QED  BY <1>1, <3>0, Piece
    <3>3. \A i \in 1..b - a + 1 : s[a + 1 + i - 1] = n[a + i - 1]
      <4>1. \A i \in 1..b - a + 1 : a + i - 1 \in 1..Len(n) /\ a + 1 + i - 1 = (a + i - 1) + 1
        BY <1>0, <2>4
      <4> HIDE DEF s, kept
      <4> QED  BY <1>3, <4>1
    <3> HIDE DEF s, kept
    <3> QED  BY <3>1, <3>2, <3>3, SeqEqual
  <2> QED  BY <2>5, <2>7, <2>8
<1> QED  BY <1>4, <1>5
-------------------------------------------------------------------------------
(* The cookie as a text.                                                   *)

Chars == STRING \cup {"weibo", "\n", Semicolon, "=", Space}

(* A name and its value as one piece, and what to_string makes of the i-th: *)
(* from the second on a space follows the separator, and stays.             *)
Item(name, value) == name \o (<<"=">> \o value)

Names == SetToSeq(DOMAIN LoginCookie)
KeptName(i) == IF i = 1 THEN Names[i] ELSE <<Space>> \o Names[i]
ValueOf(i) == LoginCookie[Names[i]]
KeptItem(i) == Item(KeptName(i), ValueOf(i))

LEMMA Characters ==
    /\ "weibo" \in Chars /\ "\n" \in Chars /\ Semicolon \in Chars /\ "=" \in Chars /\ Space \in Chars
    /\ <<"weibo">> \in Seq(Chars) /\ <<"\n">> \in Seq(Chars) /\ <<Semicolon>> \in Seq(Chars)
    /\ <<"=">> \in Seq(Chars) /\ <<Space>> \in Seq(Chars)
    /\ Space \notin {Semicolon, "\n", "="} /\ "=" \notin {Semicolon, "\n"}
    /\ "weibo" # "\n" /\ Semicolon # "\n"
<1>1. "weibo" \in Chars /\ "\n" \in Chars /\ Semicolon \in Chars /\ "=" \in Chars /\ Space \in Chars
  BY DEF Chars
<1>2. Space # Semicolon /\ Space # "\n" /\ Space # "=" /\ "=" # Semicolon /\ Semicolon # "\n"
  BY Zenon DEF Space, Semicolon
<1>3. "=" # "\n" /\ "weibo" # "\n"
  BY Zenon
<1> QED  BY <1>1, <1>2, <1>3, OneElement

LEMMA LoginNames ==
    /\ Names \in Seq(DOMAIN LoginCookie) /\ Len(Names) \in Nat /\ Len(Names) > 0
    /\ \A i \in 1..Len(Names) : Names[i] \in DOMAIN LoginCookie
    /\ \A n \in DOMAIN LoginCookie : \E i \in 1..Len(Names) : n = Names[i]
<1>1. Names \in Seq(DOMAIN LoginCookie) /\ Range(Names) = DOMAIN LoginCookie
  BY LoginAssumption, SetAsSequence DEF Names
<1>2. Len(Names) \in Nat /\ DOMAIN Names = 1..Len(Names)
  BY <1>1, LenProperties
<1>3. \A i \in 1..Len(Names) : Names[i] \in DOMAIN LoginCookie
  BY <1>1, ElementOfSeq
<1>4. \A n \in DOMAIN LoginCookie : \E i \in 1..Len(Names) : n = Names[i]
  BY <1>1, <1>2 DEF Range
<1>5. Len(Names) # 0
  BY <1>4, LoginAssumption
<1> QED  BY <1>1, <1>2, <1>3, <1>4, <1>5

(* No character of s is among the set.                                      *)
Without(s, drop) == \A j \in 1..Len(s) : s[j] \notin drop

LEMMA LoginTexts ==
    ASSUME NEW i \in 1..Len(Names)
    PROVE  /\ Names[i] \in Seq(Chars) /\ Without(Names[i], {Semicolon, "\n", "="})
           /\ ValueOf(i) \in Seq(Chars) /\ Without(ValueOf(i), {Semicolon, "\n"})
           /\ KeptName(i) \in Seq(Chars) /\ Without(KeptName(i), {Semicolon, "\n", "="})
<1> DEFINE n == Names[i]
           v == LoginCookie[n]
<1>1. n \in DOMAIN LoginCookie
  BY LoginNames
<1>2. /\ n \in Seq(STRING) /\ Range(n) \cap {Semicolon, "\n", "="} = {}
      /\ v \in Seq(STRING) /\ Range(v) \cap {Semicolon, "\n"} = {}
  BY <1>1, LoginAssumption
<1>3. n \in Seq(Chars) /\ v \in Seq(Chars)
  <2>1. STRING \subseteq Chars
    BY DEF Chars
  <2> QED  BY <1>2, <2>1, SeqMonotonic
<1>4. DOMAIN n = 1..Len(n) /\ DOMAIN v = 1..Len(v)
  BY <1>3, LenProperties
<1>5. Without(n, {Semicolon, "\n", "="}) /\ Without(v, {Semicolon, "\n"})
  BY <1>2, <1>4 DEF Without, Range
<1>6. <<Space>> \o n \in Seq(Chars) /\ Without(<<Space>> \o n, {Semicolon, "\n", "="})
  <2>1. <<Space>> \in Seq(Chars) /\ Len(<<Space>>) = 1 /\ <<Space>>[1] = Space /\ Len(n) \in Nat
    BY <1>3, Characters, OneElement, LenProperties
  <2>2. /\ <<Space>> \o n \in Seq(Chars) /\ Len(<<Space>> \o n) = 1 + Len(n)
        /\ \A j \in 1..1 + Len(n) :
              (<<Space>> \o n)[j] = IF j <= 1 THEN <<Space>>[j] ELSE n[j - 1]
    BY <1>3, <2>1, ConcatProperties
  <2>3. ASSUME NEW j \in 1..1 + Len(n) PROVE (<<Space>> \o n)[j] \notin {Semicolon, "\n", "="}
    <3>1. CASE j = 1
      BY <2>1, <2>2, <3>1, Characters
    <3>2. CASE j # 1
      <4>1. j - 1 \in 1..Len(n) /\ ~(j <= 1)
        BY <2>1, <3>2
      <4> QED  BY <1>5, <2>2, <4>1 DEF Without
    <3> QED  BY <3>1, <3>2
  <2> QED  BY <2>2, <2>3 DEF Without
<1> QED  BY <1>3, <1>5, <1>6 DEF KeptName, ValueOf

LEMMA ItemText ==
    ASSUME NEW name \in Seq(Chars), NEW value \in Seq(Chars),
           Without(name, {Semicolon, "\n", "="}), Without(value, {Semicolon, "\n"})
    PROVE  /\ Item(name, value) \in Seq(Chars) /\ Item(name, value) # <<>>
           /\ Joined(Item(name, value), name, "=", value)
           /\ Without(Item(name, value), {Semicolon, "\n"})
<1> DEFINE s == Item(name, value)
<1>1. s \in Seq(Chars) /\ Joined(s, name, "=", value)
  BY Characters, JoinedConcat DEF Item
<1>2. Len(name) \in Nat /\ Len(value) \in Nat /\ Len(s) = Len(name) + 1 + Len(value)
  BY <1>1, LenProperties DEF Joined
<1>3. s # <<>>
  BY <1>1, <1>2, EmptySeq
<1>4. ASSUME NEW j \in 1..Len(s) PROVE s[j] \notin {Semicolon, "\n"}
  <2>1. CASE j \in 1..Len(name)
    BY <1>1, <2>1 DEF Joined, Without
  <2>2. CASE j = Len(name) + 1
    BY <1>1, <2>2, Characters DEF Joined
  <2>3. CASE j > Len(name) + 1
    <3>1. j - (Len(name) + 1) \in 1..Len(value) /\ Len(name) + 1 + (j - (Len(name) + 1)) = j
      BY <1>2, <2>3
    <3> QED  BY <1>1, <3>1 DEF Joined, Without
  <2> QED  BY <1>2, <2>1, <2>2, <2>3
<1> QED  BY <1>1, <1>3, <1>4 DEF Without

(* The name and the value set_cookie takes from such a piece.               *)
LEMMA ItemRead ==
    ASSUME NEW name \in Seq(Chars), NEW value \in Seq(Chars),
           Without(name, {Semicolon, "\n", "="}), Without(value, {Semicolon, "\n"})
    PROVE  LET item == Item(name, value)
               pos == Find(item, <<"=">>, 1)
           IN  /\ pos # 0
               /\ SubSeq(item, 1, pos - 1) = name
               /\ SubSeq(item, pos + 1, Len(item)) = value
<1> DEFINE item == Item(name, value)
<1>1. item \in Seq(Chars) /\ Joined(item, name, "=", value)
  BY ItemText
<1>2. Len(name) \in Nat /\ Len(value) \in Nat /\ Len(item) = Len(name) + 1 + Len(value)
  BY <1>1, LenProperties DEF Joined
<1> HIDE DEF item
<1>3. Find(item, <<"=">>, 1) = Len(name) + 1
  <2>1. Len(name) + 1 \in 1..Len(item) /\ 1 \in 1..Len(item)
    BY <1>2
  <2>2. \A j \in 1..(Len(name) + 1) - 1 : item[j] # "="
    <3>1. \A j \in 1..(Len(name) + 1) - 1 : j \in 1..Len(name)
      BY <1>2
    <3> QED  BY <1>1, <3>1 DEF Joined, Without
  <2>3. item[Len(name) + 1] = "="
    BY <1>1 DEF Joined
  <2> QED  BY <1>1, <2>1, <2>2, <2>3, Characters, FindOne
<1>4. SubSeq(item, 1, Len(name)) = name
  <2>1. /\ SubSeq(item, 1, Len(name)) \in Seq(Chars)
        /\ Len(SubSeq(item, 1, Len(name))) = Len(name) - 1 + 1
        /\ \A i \in 1..Len(name) - 1 + 1 : SubSeq(item, 1, Len(name))[i] = item[1 + i - 1]
    <3>1. 1 \in Nat /\ 1 <= 1 /\ 1 <= Len(name) + 1 /\ Len(name) <= Len(item)
      BY <1>2
    <3> QED  BY <1>1, <1>2, <3>1, Piece
  <2>2. \A i \in 1..Len(name) : SubSeq(item, 1, Len(name))[i] = name[i]
    <3>1. \A i \in 1..Len(name) : i \in 1..Len(name) - 1 + 1 /\ 1 + i - 1 = i
      BY <1>2
    <3> QED  BY <1>1, <2>1, <3>1 DEF Joined
  <2> QED  BY <1>2, <2>1, <2>2, SeqEqual
<1>5. SubSeq(item, Len(name) + 1 + 1, Len(item)) = value
  <2> DEFINE a == Len(name) + 1 + 1
  <2>1. /\ SubSeq(item, a, Len(item)) \in Seq(Chars)
        /\ Len(SubSeq(item, a, Len(item))) = Len(item) - a + 1
        /\ \A i \in 1..Len(item) - a + 1 : SubSeq(item, a, Len(item))[i] = item[a + i - 1]
    <3>1. a \in Nat /\ Len(item) \in Nat /\ 1 <= a /\ a <= Len(item) + 1
      BY <1>2
    <3> HIDE DEF a
    <3> QED  BY <1>1, <3>1, Piece
  <2>2. Len(item) - a + 1 = Len(value)
    BY <1>2
  <2>3. \A i \in 1..Len(value) : SubSeq(item, a, Len(item))[i] = value[i]
    <3>1. \A i \in 1..Len(value) :
             i \in 1..Len(item) - a + 1 /\ a + i - 1 = Len(name) + 1 + i
      BY <1>2
    <3> QED  BY <1>1, <2>1, <3>1 DEF Joined
  <2> HIDE DEF a
  <2>4. SubSeq(item, a, Len(item)) = value
    BY <2>1, <2>2, <2>3, SeqEqual
  <2> QED  BY <2>4 DEF a
<1>6. Len(name) + 1 # 0 /\ (Len(name) + 1) - 1 = Len(name)
  BY <1>2
<1> QED  BY <1>3, <1>4, <1>5, <1>6 DEF item
Parts ==
    [i \in 1..Len(Names) |->
        IF i = 1 THEN Names[i] \o <<"=">> \o ValueOf(i)
        ELSE <<Semicolon, Space>> \o (Names[i] \o <<"=">> \o ValueOf(i))]

LEMMA PartsText ==
    /\ CookieText(LoginCookie) = FlattenSeq(Parts)
    /\ Parts \in Seq(Seq(Chars)) /\ Len(Parts) = Len(Names)
    /\ Parts[1] = KeptItem(1)
    /\ \A i \in 2..Len(Names) : Parts[i] = <<Semicolon>> \o KeptItem(i)
    /\ \A i \in 1..Len(Names) :
          /\ KeptItem(i) \in Seq(Chars) /\ KeptItem(i) # <<>>
          /\ Without(KeptItem(i), {Semicolon, "\n"})
<1>1. CookieText(LoginCookie) = FlattenSeq(Parts)
  BY DEF CookieText, Parts, Names, ValueOf
<1>2. ASSUME NEW i \in 1..Len(Names)
      PROVE  Names[i] \o <<"=">> \o ValueOf(i) = Item(Names[i], ValueOf(i))
  <2>1. Names[i] \in Seq(Chars) /\ <<"=">> \in Seq(Chars) /\ ValueOf(i) \in Seq(Chars)
    BY LoginTexts, Characters
  <2>2. \A n, e, v \in Seq(Chars) : n \o e \o v = n \o (e \o v)
    BY ConcatAssociative
  <2> QED  BY <2>1, <2>2 DEF Item
<1>3. ASSUME NEW i \in 1..Len(Names)
      PROVE  /\ KeptItem(i) \in Seq(Chars) /\ KeptItem(i) # <<>>
             /\ Without(KeptItem(i), {Semicolon, "\n"})
  <2>1. /\ ValueOf(i) \in Seq(Chars) /\ Without(ValueOf(i), {Semicolon, "\n"})
        /\ KeptName(i) \in Seq(Chars) /\ Without(KeptName(i), {Semicolon, "\n", "="})
    BY LoginTexts
  <2> QED  BY <2>1, ItemText DEF KeptItem
<1>4. ASSUME NEW i \in 1..Len(Names), i # 1
      PROVE  <<Semicolon, Space>> \o Item(Names[i], ValueOf(i)) = <<Semicolon>> \o KeptItem(i)
  <2> DEFINE n == Names[i]
             w == <<"=">> \o ValueOf(i)
  <2>1. /\ n \in Seq(Chars) /\ w \in Seq(Chars)
        /\ <<Semicolon>> \in Seq(Chars) /\ <<Space>> \in Seq(Chars)
    BY LoginTexts, Characters, ConcatProperties
  <2>2. <<Semicolon, Space>> = <<Semicolon>> \o <<Space>>
    OBVIOUS
  <2>3. n \o w \in Seq(Chars)
    BY <2>1, ConcatProperties
  <2>4. (<<Semicolon>> \o <<Space>>) \o (n \o w) = <<Semicolon>> \o (<<Space>> \o (n \o w))
    <3> HIDE DEF n, w
    <3> QED  BY <2>1, <2>3, ConcatAssociative
  <2>5. <<Space>> \o (n \o w) = (<<Space>> \o n) \o w
    <3> HIDE DEF n, w
    <3> QED  BY <2>1, ConcatAssociative
  <2>6. KeptItem(i) = (<<Space>> \o n) \o w
    BY <1>4 DEF KeptItem, KeptName, Item
  <2> HIDE DEF n, w
  <2>7. (<<Semicolon>> \o <<Space>>) \o (n \o w) = <<Semicolon>> \o KeptItem(i)
    BY <2>4, <2>5, <2>6
  <2>8. <<Semicolon, Space>> \o (n \o w) = <<Semicolon>> \o KeptItem(i)
    BY <2>2, <2>7
  <2> QED  BY <2>8 DEF Item, n, w
<1>5. 1 \in 1..Len(Names) /\ Len(Names) \in Nat
  BY LoginNames
<1>6. Parts[1] = KeptItem(1)
  BY <1>2, <1>5 DEF Parts, KeptItem, KeptName
<1>7. \A i \in 2..Len(Names) : Parts[i] = <<Semicolon>> \o KeptItem(i)
  <2> SUFFICES ASSUME NEW i \in 2..Len(Names) PROVE Parts[i] = <<Semicolon>> \o KeptItem(i)
    OBVIOUS
  <2>1. i \in 1..Len(Names) /\ i # 1
    BY <1>5
  <2>2. Parts[i] = <<Semicolon, Space>> \o (Names[i] \o <<"=">> \o ValueOf(i))
    BY <2>1 DEF Parts
  <2> QED  BY <1>2, <1>4, <2>1, <2>2
<1>8. \A i \in 1..Len(Names) : Parts[i] \in Seq(Chars)
  <2> SUFFICES ASSUME NEW i \in 1..Len(Names) PROVE Parts[i] \in Seq(Chars)
    OBVIOUS
  <2>1. CASE i = 1
    BY <1>3, <1>6, <2>1
  <2>2. CASE i # 1
    <3>1. i \in 2..Len(Names)
      BY <1>5, <2>2
    <3>2. <<Semicolon>> \o KeptItem(i) \in Seq(Chars)
      BY <1>3, Characters, ConcatProperties
    <3> QED  BY <1>7, <3>1, <3>2
  <2> QED  BY <2>1, <2>2
<1>9. Parts \in Seq(Seq(Chars)) /\ Len(Parts) = Len(Names)
  <2>1. DOMAIN Parts = 1..Len(Names) /\ Parts = [i \in 1..Len(Names) |-> Parts[i]]
    BY DEF Parts
  <2>2. Parts \in [1..Len(Names) -> Seq(Chars)]
    BY <1>8, <2>1
  <2> QED  BY <1>5, <2>2
<1> QED  BY <1>1, <1>3, <1>6, <1>7, <1>9

(* What is written when i pairs are written.                                *)
Written(s, i) ==
    /\ s \in Seq(Chars) /\ Len(s) > 0
    /\ s[1] # Semicolon /\ s[Len(s)] # Semicolon /\ Without(s, {"\n"})
    /\ Runs(Chars, s, Semicolon, 1) = {KeptItem(k) : k \in 1..i}

LEMMA WrittenFirst == Written(KeptItem(1), 1)
<1> DEFINE s == KeptItem(1)
<1>1. s \in Seq(Chars) /\ s # <<>> /\ Without(s, {Semicolon, "\n"}) /\ 1 \in 1..Len(Names)
  <2>1. 1 \in 1..Len(Names)
    BY LoginNames
  <2> QED  BY <2>1, PartsText
<1> HIDE DEF s
<1>2. Len(s) \in Nat /\ Len(s) > 0 /\ 1 \in 1..Len(s) /\ Len(s) \in 1..Len(s)
  BY <1>1, EmptySeq, LenProperties
<1>3. Runs(Chars, s, Semicolon, 1) = {SubSeq(s, 1, Len(s))}
  <2>1. \A j \in 1..Len(s) : s[j] # Semicolon
    BY <1>1 DEF Without
  <2> QED  BY <1>1, <1>2, <2>1, Characters, RunsLast
<1>4. SubSeq(s, 1, Len(s)) = s
  BY <1>1, SubSeqFull
<1>5. {KeptItem(k) : k \in 1..1} = {s}
  BY DEF s
<1>6. Written(s, 1)
  BY <1>1, <1>2, <1>3, <1>4, <1>5 DEF Written, Without
<1> QED  BY <1>6 DEF s

LEMMA WrittenNext ==
    ASSUME NEW i \in 1..Len(Names), i + 1 <= Len(Names), NEW s, Written(s, i)
    PROVE  Written(s \o (<<Semicolon>> \o KeptItem(i + 1)), i + 1)
<1> DEFINE v == KeptItem(i + 1)
           t == s \o (<<Semicolon>> \o v)
<1>0. Len(Names) \in Nat
  BY LoginNames
<1>1. v \in Seq(Chars) /\ v # <<>> /\ Without(v, {Semicolon, "\n"}) /\ i + 1 \in 1..Len(Names)
  <2>1. i + 1 \in 1..Len(Names) /\ i \in Nat
    BY <1>0
  <2> QED  BY <2>1, PartsText
<1>2. s \in Seq(Chars) /\ Len(s) \in Nat /\ Len(s) > 0
  BY LenProperties DEF Written
<1>3. t \in Seq(Chars) /\ Joined(t, s, Semicolon, v)
  <2> HIDE DEF v
  <2> QED  BY <1>1, <1>2, Characters, JoinedConcat
<1> HIDE DEF v, t
<1>4. Len(v) \in Nat /\ Len(v) > 0 /\ Len(t) = Len(s) + 1 + Len(v)
  BY <1>1, <1>3, EmptySeq, LenProperties DEF Joined
<1>5. t[1] # Semicolon
  BY <1>2, <1>3 DEF Joined, Written
<1>6. t[Len(t)] # Semicolon
  BY <1>1, <1>3, <1>4 DEF Joined, Without
<1>7. Without(t, {"\n"})
  <2> SUFFICES ASSUME NEW j \in 1..Len(t) PROVE t[j] # "\n"
    BY DEF Without
  <2>1. CASE j \in 1..Len(s)
    BY <1>3, <2>1 DEF Joined, Written, Without
  <2>2. CASE j = Len(s) + 1
    BY <1>3, <2>2, Characters DEF Joined
  <2>3. CASE j > Len(s) + 1
    <3>1. j - (Len(s) + 1) \in 1..Len(v) /\ Len(s) + 1 + (j - (Len(s) + 1)) = j
      BY <1>2, <1>4, <2>3
    <3>2. t[Len(s) + 1 + (j - (Len(s) + 1))] = v[j - (Len(s) + 1)]
      BY <1>3, <3>1 DEF Joined
    <3>3. v[j - (Len(s) + 1)] # "\n"
      BY <1>1, <3>1 DEF Without
    <3> QED  BY <3>1, <3>2, <3>3
  <2> QED  BY <1>2, <1>4, <2>1, <2>2, <2>3
<1>8. Runs(Chars, t, Semicolon, 1) = {KeptItem(k) : k \in 1..i} \cup {v}
  <2>1. \A j \in 1..Len(v) : v[j] # Semicolon
    BY <1>1 DEF Without
  <2>2. Runs(Chars, t, Semicolon, 1) = Runs(Chars, s, Semicolon, 1) \cup {v}
    BY <1>1, <1>2, <1>3, <2>1, Characters, RunsJoined
  <2> QED  BY <2>2 DEF Written
<1>9. {KeptItem(k) : k \in 1..i + 1} = {KeptItem(k) : k \in 1..i} \cup {v}
  <2>1. \A k : k \in 1..i + 1 <=> k \in 1..i \/ k = i + 1
    BY <1>0
  <2> QED  BY <2>1 DEF v
<1>10. Written(t, i + 1)
  <2>1. Len(t) > 0
    BY <1>2, <1>4
  <2> QED  BY <1>3, <1>5, <1>6, <1>7, <1>8, <1>9, <2>1 DEF Written
<1> QED  BY <1>10 DEF t, v

LEMMA CookieWritten == Written(CookieText(LoginCookie), Len(Names))
<1> DEFINE F == Flat(Parts)
           S == {k \in Nat : k + 1 <= Len(Names) => Written(F[k + 1], k + 1)}
<1>0. Len(Names) \in Nat /\ Len(Names) > 0 /\ Len(Parts) = Len(Names)
  BY LoginNames, PartsText
<1>1. /\ CookieText(LoginCookie) = F[Len(Names)]
      /\ F[1] = KeptItem(1)
      /\ \A i \in 2..Len(Names) : F[i] = F[i - 1] \o Parts[i]
  BY <1>0, PartsText, Flattened
<1> HIDE DEF F
<1>2. 0 \in S
  BY <1>1, WrittenFirst
<1>3. ASSUME NEW k \in Nat, k \in S PROVE k + 1 \in S
  <2> SUFFICES ASSUME k + 1 + 1 <= Len(Names) PROVE Written(F[k + 1 + 1], k + 1 + 1)
    OBVIOUS
  <2>1. k + 1 \in 1..Len(Names) /\ k + 1 + 1 \in 2..Len(Names) /\ (k + 1 + 1) - 1 = k + 1
    BY <1>0
  <2>2. Written(F[k + 1], k + 1)
    BY <1>3, <2>1
  <2>3. F[k + 1 + 1] = F[k + 1] \o (<<Semicolon>> \o KeptItem(k + 1 + 1))
    BY <1>1, <2>1, PartsText
  <2> QED  BY <2>1, <2>2, <2>3, WrittenNext
<1>4. Len(Names) - 1 \in S
  <2>1. Len(Names) - 1 \in Nat
    BY <1>0
  <2> HIDE DEF S
  <2> QED  BY <1>2, <1>3, <2>1, SetInduction
<1>5. (Len(Names) - 1) + 1 = Len(Names)
  BY <1>0
<1> QED  BY <1>0, <1>1, <1>4, <1>5
(* What set_cookie makes of the pieces: their names, and of each name the   *)
(* value that came last.                                                   *)
NameOf(item) == SubSeq(item, 1, Find(item, <<"=">>, 1) - 1)
TextOf(item) == SubSeq(item, Find(item, <<"=">>, 1) + 1, Len(item))
Setting(items) == {i \in 1..Len(items) : Find(items[i], <<"=">>, 1) # 0}
Named(items, n) == {i \in Setting(items) : NameOf(items[i]) = n}
SetFrom(items) ==
    [n \in {NameOf(items[i]) : i \in Setting(items)} |->
        TextOf(items[CHOOSE i \in Named(items, n) : \A j \in Named(items, n) : i >= j])]

LEMMA SetCookieFrom ==
    ASSUME NEW text
    PROVE  SetCookie(NoCookie, text) = SetFrom(SplitString(text, <<Semicolon>>))
<1> DEFINE items == SplitString(text, <<Semicolon>>)
           S == {NameOf(items[i]) : i \in Setting(items)}
           last(n) == TextOf(items[CHOOSE i \in Named(items, n) :
                                       \A j \in Named(items, n) : i >= j])
<1>1. SetCookie(NoCookie, text)
        = [n \in DOMAIN NoCookie \cup S |->
             IF Named(items, n) = {} THEN NoCookie[n] ELSE last(n)]
  BY Zenon DEF SetCookie, NameOf, TextOf, Setting, Named
<1>2. DOMAIN NoCookie = {}
  BY DEF NoCookie
<1>3. \A n \in S : Named(items, n) # {}
  BY DEF Named
<1>4. DOMAIN NoCookie \cup S = S
  BY <1>2
<1> HIDE DEF S, last
<1>5. [n \in S |-> IF Named(items, n) = {} THEN NoCookie[n] ELSE last(n)]
        = [n \in S |-> last(n)]
  BY <1>3
<1> QED  BY <1>1, <1>4, <1>5 DEF SetFrom, S, last

LEMMA PairsRead ==
    ASSUME NEW items \in Seq(Seq(Chars)),
           Range(items) = {KeptItem(k) : k \in 1..Len(Names)}
    PROVE  Unspaced(SetFrom(items)) = Unspaced(LoginCookie)
<1> DEFINE c == SetFrom(items)
<1>0. Len(items) \in Nat /\ DOMAIN items = 1..Len(items)
  BY LenProperties
<1>1. ASSUME NEW k \in 1..Len(Names), NEW item, item = KeptItem(k)
      PROVE  Find(item, <<"=">>, 1) # 0 /\ NameOf(item) = KeptName(k) /\ TextOf(item) = ValueOf(k)
  <2>1. /\ ValueOf(k) \in Seq(Chars) /\ Without(ValueOf(k), {Semicolon, "\n"})
        /\ KeptName(k) \in Seq(Chars) /\ Without(KeptName(k), {Semicolon, "\n", "="})
    BY LoginTexts
  <2>2. item = Item(KeptName(k), ValueOf(k))
    BY <1>1 DEF KeptItem
  <2> QED  BY <2>1, <2>2, ItemRead DEF NameOf, TextOf
<1>2. ASSUME NEW i \in 1..Len(items)
      PROVE  \E k \in 1..Len(Names) :
                /\ Find(items[i], <<"=">>, 1) # 0
                /\ NameOf(items[i]) = KeptName(k) /\ TextOf(items[i]) = ValueOf(k)
  <2>1. items[i] \in Range(items)
    BY <1>0 DEF Range
  <2>2. PICK k \in 1..Len(Names) : items[i] = KeptItem(k)
    BY <2>1
  <2> QED  BY <1>1, <2>2
<1>3. Setting(items) = 1..Len(items)
  BY <1>2 DEF Setting
<1>4. ASSUME NEW k \in 1..Len(Names) PROVE KeptName(k) \in DOMAIN c
  <2>1. PICK i \in 1..Len(items) : items[i] = KeptItem(k)
    BY <1>0 DEF Range
  <2>2. NameOf(items[i]) = KeptName(k)
    BY <1>1, <2>1
  <2> QED  BY <1>3, <2>2 DEF SetFrom
<1>5. ASSUME NEW n \in DOMAIN c
      PROVE  \E k \in 1..Len(Names) : n = KeptName(k) /\ c[n] = ValueOf(k)
  <2>1. PICK j \in 1..Len(items) : n = NameOf(items[j])
    BY <1>3 DEF SetFrom
  <2>2. Named(items, n) \subseteq 0..Len(items) /\ Named(items, n) # {}
    <3>1. j \in Named(items, n)
      BY <1>3, <2>1 DEF Named
    <3>2. \A i \in Named(items, n) : i \in 1..Len(items)
      BY <1>3 DEF Named
    <3>3. \A i \in 1..Len(items) : i \in 0..Len(items)
      BY <1>0
    <3> QED  BY <3>1, <3>2, <3>3
  <2>3. \E i \in Named(items, n) : \A m \in Named(items, n) : i >= m
    BY <1>0, <2>2, GreatestNat
  <2> DEFINE i == CHOOSE i \in Named(items, n) : \A m \in Named(items, n) : i >= m
  <2>4. i \in Named(items, n)
    BY <2>3
  <2>5. c[n] = TextOf(items[i])
    BY DEF SetFrom
  <2> HIDE DEF i
  <2>6. i \in 1..Len(items) /\ NameOf(items[i]) = n
    BY <1>3, <2>4 DEF Named
  <2> HIDE DEF c
  <2> QED  BY <1>2, <2>5, <2>6
<1> HIDE DEF c
<1>6. ASSUME NEW k \in 1..Len(Names)
      PROVE  TrimString(KeptName(k), {Space}) = TrimString(Names[k], {Space})
  <2>1. Names[k] \in Seq(Chars)
    BY LoginTexts
  <2> QED  BY <2>1, Characters, TrimSpace DEF KeptName
<1>7. ASSUME NEW n \in DOMAIN c
      PROVE  \E m \in DOMAIN LoginCookie :
                TrimString(n, {Space}) = TrimString(m, {Space}) /\ c[n] = LoginCookie[m]
  <2>1. PICK k \in 1..Len(Names) : n = KeptName(k) /\ c[n] = ValueOf(k)
    BY <1>5
  <2> QED  BY <1>6, <2>1, LoginNames DEF ValueOf
<1>8. ASSUME NEW m \in DOMAIN LoginCookie
      PROVE  \E n \in DOMAIN c :
                TrimString(n, {Space}) = TrimString(m, {Space}) /\ c[n] = LoginCookie[m]
  <2>1. PICK k \in 1..Len(Names) : m = Names[k]
    BY LoginNames
  <2> DEFINE n == KeptName(k)
  <2>2. n \in DOMAIN c
    BY <1>4
  <2>3. PICK j \in 1..Len(Names) : n = KeptName(j) /\ c[n] = ValueOf(j)
    BY <1>5, <2>2
  <2>4. TrimString(n, {Space}) = TrimString(m, {Space})
    BY <1>6, <2>1
  <2>5. TrimString(n, {Space}) = TrimString(Names[j], {Space})
    BY <1>6, <2>3
  <2>6. Names[j] \in DOMAIN LoginCookie
    BY LoginNames
  <2>7. Names[j] = m
    BY <2>4, <2>5, <2>6, LoginAssumption
  <2> QED  BY <2>2, <2>3, <2>4, <2>7 DEF ValueOf
<1>9. Unspaced(c) = Unspaced(LoginCookie)
  BY <1>7, <1>8 DEF Unspaced
<1> QED  BY <1>9 DEF c

(* What split_string makes of a text that begins and ends with no separator. *)
LEMMA SplitWhole ==
    ASSUME NEW C, NEW s \in Seq(C), NEW c \in C, Len(s) > 0, s[1] # c, s[Len(s)] # c
    PROVE  SplitString(s, <<c>>) = Items(s, c)[1]
<1>1. /\ Len(s) \in Nat /\ 1 \in 1..Len(s) /\ Len(s) \in 1..Len(s)
      /\ s[1] \notin {c} /\ s[Len(s)] \notin {c}
      /\ \A i \in 1..1 - 1 : s[i] \in {c}
      /\ \A i \in Len(s) + 1..Len(s) : s[i] \in {c}
  BY LenProperties
<1>2. TrimString(s, {c}) = SubSeq(s, 1, Len(s))
  BY <1>1, Trimmed
<1>3. SubSeq(s, 1, Len(s)) = s
  BY SubSeqFull
<1> QED  BY <1>2, <1>3, SplitFirst

(* A cookie that is written and read is the cookie, but for the spaces.     *)
THEOREM CookieRead == Unspaced(SetCookie(NoCookie, CookieText(LoginCookie))) = Unspaced(LoginCookie)
<1> DEFINE T == CookieText(LoginCookie)
           X == SplitString(T, <<Semicolon>>)
<1>1. Written(T, Len(Names))
  BY CookieWritten
<1> HIDE DEF T
<1>2. /\ T \in Seq(Chars) /\ Len(T) > 0 /\ T[1] # Semicolon /\ T[Len(T)] # Semicolon
      /\ Runs(Chars, T, Semicolon, 1) = {KeptItem(k) : k \in 1..Len(Names)}
  BY <1>1 DEF Written
<1>3. X = Items(T, Semicolon)[1]
  BY <1>2, Characters, SplitWhole
<1>4. /\ Items(T, Semicolon)[1] \in Seq(Seq(Chars))
      /\ Range(Items(T, Semicolon)[1]) = Runs(Chars, T, Semicolon, 1)
  <2>1. Len(T) \in Nat
    BY <1>2, LenProperties
  <2>2. 1 \in 1..Len(T) + 1
    BY <2>1
  <2> QED  BY <1>2, <2>2, Characters, SplitRuns
<1>5. SetCookie(NoCookie, T) = SetFrom(X)
  BY SetCookieFrom
<1> HIDE DEF X
<1>6. Unspaced(SetFrom(X)) = Unspaced(LoginCookie)
  BY <1>2, <1>3, <1>4, PairsRead
<1> QED  BY <1>5, <1>6 DEF T
-------------------------------------------------------------------------------
(* The record.                                                             *)

LEMMA SplitOne ==
    ASSUME NEW C, NEW s \in Seq(C), NEW c \in C, Len(s) > 0, \A j \in 1..Len(s) : s[j] # c
    PROVE  Items(s, c)[1] = <<SubSeq(s, 1, Len(s))>>
<1>0. Len(s) \in Nat /\ 1 \in 1..Len(s) + 1 /\ 1 \in 1..Len(s)
  BY LenProperties
<1>1. Items(s, c)[1] = SplitAt(s, <<c>>, {c}, Items(s, c), 1)
  BY <1>0, SplitEquation
<1>2. SplitStep(s, c, Items(s, c), 1)
  BY <1>0, SplitCases
<1>3. s[1] # c /\ \A p \in 1 + 1..Len(s) : s[p] # c
  BY <1>0
<1> QED  BY <1>1, <1>2, <1>3 DEF SplitStep

LEMMA TwoElements ==
    ASSUME NEW a, NEW b
    PROVE  <<a>> \o <<b>> = <<a, b>>
<1>1. /\ <<a>> \in Seq({a, b}) /\ Len(<<a>>) = 1 /\ <<a>>[1] = a
      /\ <<b>> \in Seq({a, b}) /\ Len(<<b>>) = 1 /\ <<b>>[1] = b
  BY OneElement
<1>2. <<a, b>> \in Seq({a, b}) /\ Len(<<a, b>>) = 2 /\ <<a, b>>[1] = a /\ <<a, b>>[2] = b
  OBVIOUS
<1> DEFINE u == <<a>>
           v == <<b>>
<1> HIDE DEF u, v
<1>3. u \in Seq({a, b}) /\ v \in Seq({a, b}) /\ Len(u) = 1 /\ Len(v) = 1
  BY <1>1 DEF u, v
<1>4. /\ u \o v \in Seq({a, b}) /\ Len(u \o v) = Len(u) + Len(v)
      /\ \A i \in 1..Len(u) + Len(v) : (u \o v)[i] = IF i <= Len(u) THEN u[i] ELSE v[i - Len(u)]
  BY <1>3, ConcatProperties
<1>5. Len(u \o v) = 2 /\ (u \o v)[1] = a /\ (u \o v)[2] = b
  <2>1. u[1] = a /\ v[1] = b
    BY <1>1 DEF u, v
  <2> QED  BY <1>3, <1>4, <2>1
<1>6. u \o v = <<a, b>>
  <2>1. ASSUME NEW w \in Seq({a, b}), NEW x \in Seq({a, b}), Len(w) = 2, Len(x) = 2,
               w[1] = a, w[2] = b, x[1] = a, x[2] = b
        PROVE  w = x
    <3>1. \A i \in 1..Len(w) : w[i] = x[i]
      BY <2>1
    <3> QED  BY <2>1, <3>1, SeqEqual
  <2> QED  BY <1>2, <1>4, <1>5, <2>1
<1> QED  BY <1>6 DEF u, v

LEMMA SplitTwo ==
    ASSUME NEW C, NEW s \in Seq(C), NEW u \in Seq(C), NEW c \in C, NEW v \in Seq(C),
           Joined(s, u, c, v), Len(u) > 0, Len(v) > 0,
           \A j \in 1..Len(u) : u[j] # c, \A j \in 1..Len(v) : v[j] # c
    PROVE  Items(s, c)[1] = <<u, v>>
<1> DEFINE F == Items(s, c)
           m == Len(u) + 1
<1>0. Len(u) \in Nat /\ Len(v) \in Nat /\ Len(s) = Len(u) + 1 + Len(v)
  BY LenProperties DEF Joined
<1>1. \A i \in 1..Len(s) + 1 : F[i] = SplitAt(s, <<c>>, {c}, F, i)
  BY SplitEquation
<1>2. \A i \in 1..Len(s) : SplitStep(s, c, F, i)
  BY SplitCases
<1> HIDE DEF F
<1>3. /\ \A j \in 1..Len(u) : s[j] # c
      /\ s[m] = c
      /\ \A j \in m + 1..Len(s) : s[j] # c
  <2>1. ASSUME NEW j \in m + 1..Len(s) PROVE s[j] # c
    <3>1. j - m \in 1..Len(v) /\ Len(u) + 1 + (j - m) = j
      BY <1>0
    <3> QED  BY <3>1 DEF Joined
  <2> QED  BY <2>1 DEF Joined
<1>4. SubSeq(s, 1, m - 1) = u
  <2>1. m - 1 = Len(u) /\ 1 \in Nat /\ 1 <= 1 /\ 1 <= Len(u) + 1 /\ Len(u) <= Len(s)
    BY <1>0
  <2>2. /\ SubSeq(s, 1, Len(u)) \in Seq(C) /\ Len(SubSeq(s, 1, Len(u))) = Len(u) - 1 + 1
        /\ \A i \in 1..Len(u) - 1 + 1 : SubSeq(s, 1, Len(u))[i] = s[1 + i - 1]
    BY <1>0, <2>1, Piece
  <2>3. \A i \in 1..Len(u) : SubSeq(s, 1, Len(u))[i] = u[i]
    <3>1. \A i \in 1..Len(u) : i \in 1..Len(u) - 1 + 1 /\ 1 + i - 1 = i
      BY <1>0
    <3> QED  BY <2>2, <3>1 DEF Joined
  <2>4. Len(SubSeq(s, 1, Len(u))) = Len(u)
    BY <1>0, <2>2
  <2>5. SubSeq(s, 1, Len(u)) = u
    BY <2>2, <2>3, <2>4, SeqEqual
  <2> QED  BY <2>1, <2>5
<1>5. SubSeq(s, m + 1, Len(s)) = v
  <2>1. m + 1 \in Nat /\ Len(s) \in Nat /\ 1 <= m + 1 /\ m + 1 <= Len(s) + 1 /\ Len(s) <= Len(s)
    BY <1>0
  <2>2. /\ SubSeq(s, m + 1, Len(s)) \in Seq(C)
        /\ Len(SubSeq(s, m + 1, Len(s))) = Len(s) - (m + 1) + 1
        /\ \A i \in 1..Len(s) - (m + 1) + 1 : SubSeq(s, m + 1, Len(s))[i] = s[m + 1 + i - 1]
    <3> HIDE DEF m
    <3> QED  BY <2>1, Piece
  <2>3. \A i \in 1..Len(v) : SubSeq(s, m + 1, Len(s))[i] = v[i]
    <3>1. \A i \in 1..Len(v) : /\ i \in 1..Len(s) - (m + 1) + 1
                               /\ m + 1 + i - 1 = Len(u) + 1 + i
      BY <1>0
    <3> QED  BY <2>2, <3>1 DEF Joined
  <2>4. Len(SubSeq(s, m + 1, Len(s))) = Len(v)
    BY <1>0, <2>2
  <2> HIDE DEF m
  <2> QED  BY <2>2, <2>3, <2>4, SeqEqual
<1>i. /\ m \in 2..Len(s) /\ m + 1 \in 2..Len(s) /\ m + 1 \in 1..Len(s) /\ 1 \in 1..Len(u)
      /\ 1 \in 1..Len(s) /\ m + 1 \in 1..Len(s) + 1 /\ 1 \in 1..Len(s) + 1
      /\ \A p \in 2..Len(s) : p < m => p \in 1..Len(u)
      /\ \A p \in 2..Len(s) : p > m => m \in 1..p - 1 /\ p \in m + 1..Len(s)
      /\ \A p \in (m + 1) + 1..Len(s) : p \in m + 1..Len(s)
      /\ \A p \in 2..Len(s) : p < m \/ p = m \/ p > m
      /\ m + 1 \in m + 1..Len(s)
      /\ 1 + 1 = 2
      /\ m \in 1..Len(s)
  BY <1>0
<1> HIDE DEF m
<1>6. F[m + 1] = <<v>>
  <2>1. SplitStep(s, c, F, m + 1)
    BY <1>2, <1>i
  <2>2. s[m + 1] # c /\ \A p \in (m + 1) + 1..Len(s) : s[p] # c
    BY <1>3, <1>i
  <2>3. F[m + 1] = SplitAt(s, <<c>>, {c}, F, m + 1)
    BY <1>1, <1>i
  <2> QED  BY <1>5, <2>1, <2>2, <2>3 DEF SplitStep
<1>7. F[1] = <<u>> \o F[m + 1]
  <2>1. SplitStep(s, c, F, 1)
    BY <1>2, <1>i
  <2>2. s[1] # c
    BY <1>3, <1>i
  <2>3. ~\A j \in 1..Len(s) : s[j] # c
    BY <1>3, <1>i
  <2>4. \E p \in 2..Len(s) :
           /\ s[p] = c /\ \A j \in 1..p - 1 : s[j] # c
           /\ SplitAt(s, <<c>>, {c}, F, 1) = <<SubSeq(s, 1, p - 1)>> \o F[p + 1]
    BY <1>i, <2>1, <2>2, <2>3 DEF SplitStep
  <2>5. PICK p \in 2..Len(s) :
           /\ s[p] = c /\ \A j \in 1..p - 1 : s[j] # c
           /\ SplitAt(s, <<c>>, {c}, F, 1) = <<SubSeq(s, 1, p - 1)>> \o F[p + 1]
    BY <2>4
  <2>6. p = m
    BY <1>3, <1>i, <2>5
  <2>7. F[1] = SplitAt(s, <<c>>, {c}, F, 1)
    BY <1>1, <1>i
  <2> QED  BY <1>4, <2>5, <2>6, <2>7
<1>8. <<u>> \o <<v>> = <<u, v>>
  BY TwoElements
<1> QED  BY <1>6, <1>7, <1>8 DEF F
Full == Site \o Newline \o CookieText(LoginCookie) \o Newline

LEMMA FullText ==
    LET T == CookieText(LoginCookie)
    IN  /\ T \in Seq(Chars) /\ Len(T) \in Nat /\ Len(T) > 0 /\ Without(T, {"\n"})
        /\ Full \in Seq(Chars) /\ Len(Full) = 3 + Len(T)
        /\ Full[1] = "weibo" /\ Full[2] = "\n" /\ Full[3 + Len(T)] = "\n"
        /\ \A j \in 1..Len(T) : Full[2 + j] = T[j]
        /\ Len(Site \o Newline) = 2 /\ Len(Site \o Newline \o T) = 2 + Len(T)
<1> DEFINE T == CookieText(LoginCookie)
           h == Site \o Newline
<1>1. T \in Seq(Chars) /\ Len(T) \in Nat /\ Len(T) > 0 /\ Without(T, {"\n"})
  BY CookieWritten, LenProperties DEF Written
<1> HIDE DEF T
<1>2. /\ Site \in Seq(Chars) /\ Len(Site) = 1 /\ Site[1] = "weibo"
      /\ Newline \in Seq(Chars) /\ Len(Newline) = 1 /\ Newline[1] = "\n"
  BY Characters, OneElement DEF Site, Newline
<1>3. h \in Seq(Chars) /\ Len(h) = 2 /\ h[1] = "weibo" /\ h[2] = "\n"
  <2>1. /\ h \in Seq(Chars) /\ Len(h) = 1 + 1
        /\ \A i \in 1..1 + 1 : h[i] = IF i <= 1 THEN Site[i] ELSE Newline[i - 1]
    BY <1>2, ConcatProperties
  <2> HIDE DEF h
  <2> QED  BY <1>2, <2>1
<1> HIDE DEF h
<1>4. /\ h \o T \in Seq(Chars) /\ Len(h \o T) = 2 + Len(T)
      /\ \A i \in 1..2 + Len(T) : (h \o T)[i] = IF i <= 2 THEN h[i] ELSE T[i - 2]
  <2>1. /\ h \o T \in Seq(Chars) /\ Len(h \o T) = Len(h) + Len(T)
        /\ \A i \in 1..Len(h) + Len(T) :
              (h \o T)[i] = IF i <= Len(h) THEN h[i] ELSE T[i - Len(h)]
    BY <1>1, <1>3, ConcatProperties
  <2>2. Len(h) = 2
    BY <1>3
  <2> QED  BY <2>1, <2>2
<1> DEFINE g == h \o T
<1> HIDE DEF g
<1>5. /\ g \o Newline \in Seq(Chars) /\ Len(g \o Newline) = 2 + Len(T) + 1
      /\ \A i \in 1..2 + Len(T) + 1 :
            (g \o Newline)[i] = IF i <= 2 + Len(T) THEN g[i] ELSE Newline[i - (2 + Len(T))]
  <2>1. g \in Seq(Chars) /\ Len(g) = 2 + Len(T)
    BY <1>4 DEF g
  <2>n. Newline \in Seq(Chars)
    BY <1>2
  <2>c. ASSUME NEW x \in Seq(Chars), NEW y \in Seq(Chars)
        PROVE  /\ x \o y \in Seq(Chars) /\ Len(x \o y) = Len(x) + Len(y)
               /\ \A i \in 1..Len(x) + Len(y) :
                     (x \o y)[i] = IF i <= Len(x) THEN x[i] ELSE y[i - Len(x)]
    BY ConcatProperties
  <2>2. /\ g \o Newline \in Seq(Chars) /\ Len(g \o Newline) = Len(g) + Len(Newline)
        /\ \A i \in 1..Len(g) + Len(Newline) :
              (g \o Newline)[i] = IF i <= Len(g) THEN g[i] ELSE Newline[i - Len(g)]
    BY <2>1, <2>n, <2>c
  <2>3. Len(Newline) = 1
    BY <1>2
  <2> QED  BY <2>1, <2>2, <2>3
<1>6. Full = g \o Newline
  BY DEF Full, g, h, T
<1>7. /\ g[1] = "weibo" /\ g[2] = "\n" /\ \A j \in 1..Len(T) : g[2 + j] = T[j]
  <2>1. /\ 1 \in 1..2 + Len(T) /\ 2 \in 1..2 + Len(T) /\ 1 <= 2 /\ 2 <= 2
        /\ \A j \in 1..Len(T) : 2 + j \in 1..2 + Len(T) /\ ~(2 + j <= 2) /\ (2 + j) - 2 = j
    BY <1>1
  <2> QED  BY <1>3, <1>4, <2>1 DEF g
<1>8. /\ 1 \in 1..2 + Len(T) + 1 /\ 1 <= 2 + Len(T) /\ 2 \in 1..2 + Len(T) + 1 /\ 2 <= 2 + Len(T)
      /\ \A j \in 1..Len(T) : 2 + j \in 1..2 + Len(T) + 1 /\ 2 + j <= 2 + Len(T)
      /\ 3 + Len(T) \in 1..2 + Len(T) + 1 /\ ~(3 + Len(T) <= 2 + Len(T))
      /\ (3 + Len(T)) - (2 + Len(T)) = 1 /\ 2 + Len(T) + 1 = 3 + Len(T)
  BY <1>1
<1>9. /\ Full \in Seq(Chars) /\ Len(Full) = 3 + Len(T)
      /\ Full[1] = "weibo" /\ Full[2] = "\n" /\ Full[3 + Len(T)] = "\n"
      /\ \A j \in 1..Len(T) : Full[2 + j] = T[j]
  BY <1>2, <1>5, <1>6, <1>7, <1>8
<1> QED  BY <1>1, <1>3, <1>4, <1>9 DEF T, h

(* What there is of a record whose writing ended after n characters.        *)
LEMMA RecordPart ==
    ASSUME NEW n \in 1..Len(Full)
    PROVE  /\ SubSeq(Full, 1, n) \in Seq(Chars) /\ Len(SubSeq(Full, 1, n)) = n
           /\ \A i \in 1..n : SubSeq(Full, 1, n)[i] = Full[i]
<1>1. Full \in Seq(Chars) /\ Len(Full) \in Nat
  BY FullText, LenProperties
<1>2. 1 \in Nat /\ n \in Nat /\ 1 <= 1 /\ 1 <= n + 1 /\ n <= Len(Full)
  BY <1>1
<1>3. /\ SubSeq(Full, 1, n) \in Seq(Chars) /\ Len(SubSeq(Full, 1, n)) = n - 1 + 1
      /\ \A i \in 1..n - 1 + 1 : SubSeq(Full, 1, n)[i] = Full[1 + i - 1]
  BY <1>1, <1>2, Piece
<1>4. n - 1 + 1 = n /\ \A i \in 1..n : 1 + i - 1 = i
  BY <1>2
<1> QED  BY <1>3, <1>4

LEMMA LinesTorn ==
    ASSUME NEW n \in 1..2
    PROVE  Len(SplitString(SubSeq(Full, 1, n), Newline)) = 1
<1> DEFINE s == SubSeq(Full, 1, n)
           r == SubSeq(s, 1, 1)
<1>1. s \in Seq(Chars) /\ Len(s) = n /\ \A i \in 1..n : s[i] = Full[i]
  <2>1. n \in 1..Len(Full)
    BY FullText
  <2> QED  BY <2>1, RecordPart
<1> HIDE DEF s
<1>2. s[1] = "weibo" /\ \A i \in 2..n : s[i] = "\n"
  <2>1. 1 \in 1..n /\ \A i \in 2..n : i \in 1..n /\ i = 2
    OBVIOUS
  <2> QED  BY <1>1, <2>1, FullText
<1>3. TrimString(s, {"\n"}) = r
  <2>1. /\ 1 \in 1..Len(s) /\ 1 \in 1..Len(s) /\ s[1] \notin {"\n"}
        /\ \A i \in 1..1 - 1 : s[i] \in {"\n"}
        /\ \A i \in 1 + 1..Len(s) : s[i] \in {"\n"}
    BY <1>1, <1>2, Characters
  <2> QED  BY <1>1, <2>1, Trimmed
<1>4. r \in Seq(Chars) /\ Len(r) = 1 /\ r[1] = "weibo"
  <2>1. 1 \in Nat /\ 1 <= 1 /\ 1 <= 1 + 1 /\ 1 <= Len(s) /\ 1 - 1 + 1 = 1 /\ 1 \in 1..1 - 1 + 1
        /\ 1 + 1 - 1 = 1
    BY <1>1
  <2>2. /\ r \in Seq(Chars) /\ Len(r) = 1 - 1 + 1
        /\ \A i \in 1..1 - 1 + 1 : r[i] = s[1 + i - 1]
    BY <1>1, <2>1, Piece
  <2> HIDE DEF r
  <2> QED  BY <1>2, <2>1, <2>2
<1> HIDE DEF r
<1>5. Items(r, "\n")[1] = <<SubSeq(r, 1, Len(r))>>
  <2>1. Len(r) > 0 /\ \A j \in 1..Len(r) : r[j] # "\n"
    BY <1>4, Characters
  <2> QED  BY <1>4, <2>1, Characters, SplitOne
<1>6. SplitString(s, <<"\n">>) = Items(r, "\n")[1]
  BY <1>3, Characters, SplitFirst
<1> QED  BY <1>5, <1>6 DEF Newline, s

LEMMA LinesWhole ==
    ASSUME NEW n \in 1..Len(Full), n >= 2 + Len(CookieText(LoginCookie))
    PROVE  SplitString(SubSeq(Full, 1, n), Newline) = <<Site, CookieText(LoginCookie)>>
<1> DEFINE T == CookieText(LoginCookie)
           s == SubSeq(Full, 1, n)
           b == 2 + Len(T)
           r == SubSeq(s, 1, b)
<1>1. s \in Seq(Chars) /\ Len(s) = n /\ \A i \in 1..n : s[i] = Full[i]
  BY RecordPart
<1>2. /\ T \in Seq(Chars) /\ Len(T) \in Nat /\ Len(T) > 0 /\ Without(T, {"\n"})
      /\ Full \in Seq(Chars) /\ Len(Full) = 3 + Len(T)
      /\ Full[1] = "weibo" /\ Full[2] = "\n" /\ Full[3 + Len(T)] = "\n"
      /\ \A j \in 1..Len(T) : Full[2 + j] = T[j]
  BY FullText
<1>3. n >= 2 + Len(T)
  OBVIOUS
<1> HIDE DEF T, s
<1>4. /\ s[1] = "weibo" /\ s[2] = "\n" /\ \A j \in 1..Len(T) : s[2 + j] = T[j]
      /\ \A i \in b + 1..n : s[i] = "\n"
  <2>1. /\ 1 \in 1..n /\ 2 \in 1..n /\ \A j \in 1..Len(T) : 2 + j \in 1..n
        /\ \A i \in b + 1..n : i \in 1..n /\ i = 3 + Len(T)
    BY <1>2, <1>3
  <2> QED  BY <1>1, <1>2, <2>1
<1>5. b \in 1..n /\ b \in 1..Len(s) /\ Len(T) \in 1..Len(T) /\ 2 + Len(T) = b
  BY <1>1, <1>2, <1>3
<1> HIDE DEF b
<1>6. s[b] # "\n"
  BY <1>2, <1>4, <1>5 DEF Without
<1>7. TrimString(s, {"\n"}) = r
  <2>1. /\ 1 \in 1..Len(s) /\ b \in 1..Len(s) /\ s[1] \notin {"\n"} /\ s[b] \notin {"\n"}
        /\ \A i \in 1..1 - 1 : s[i] \in {"\n"}
        /\ \A i \in b + 1..Len(s) : s[i] \in {"\n"}
    BY <1>1, <1>4, <1>5, <1>6, Characters
  <2>2. b \in 1..Len(s) /\ Len(s) \in Nat
    BY <1>5, LenProperties, <1>1
  <2>3. s \in Seq(Chars) /\ b \in 1..Len(s) /\ 1 \in 1..Len(s) /\ b \in 1..Len(s)
    BY <1>1, <2>1
  <2> QED  BY <2>1, <2>3, Trimmed
<1>8. /\ r \in Seq(Chars) /\ Len(r) = b
      /\ \A i \in 1..b : r[i] = s[i]
  <2>1. /\ 1 \in Nat /\ b \in Nat /\ 1 <= 1 /\ 1 <= b + 1 /\ b <= Len(s)
        /\ b - 1 + 1 = b /\ \A i \in 1..b : 1 + i - 1 = i
    BY <1>1, <1>5
  <2>2. /\ r \in Seq(Chars) /\ Len(r) = b - 1 + 1
        /\ \A i \in 1..b - 1 + 1 : r[i] = s[1 + i - 1]
    BY <1>1, <2>1, Piece
  <2> HIDE DEF r
  <2> QED  BY <2>1, <2>2
<1> HIDE DEF r
<1>9. Site \in Seq(Chars) /\ Len(Site) = 1 /\ Site[1] = "weibo"
  BY Characters, OneElement DEF Site
<1>10. Joined(r, Site, "\n", T)
  <2>1. /\ b = Len(Site) + 1 + Len(T) /\ 1 \in 1..b /\ 2 \in 1..b /\ Len(Site) + 1 = 2
        /\ \A j \in 1..Len(Site) : j = 1
        /\ \A j \in 1..Len(T) : 2 + j \in 1..b
    BY <1>2, <1>5, <1>9
  <2> QED  BY <1>4, <1>8, <1>9, <2>1 DEF Joined
<1>11. Items(r, "\n")[1] = <<Site, T>>
  <2>1. /\ Len(Site) > 0 /\ \A j \in 1..Len(Site) : Site[j] # "\n"
        /\ \A j \in 1..Len(T) : T[j] # "\n"
    BY <1>2, <1>9, Characters DEF Without
  <2>2. /\ r \in Seq(Chars) /\ Site \in Seq(Chars) /\ "\n" \in Chars /\ T \in Seq(Chars)
        /\ Len(T) > 0
    BY <1>2, <1>8, <1>9, Characters
  <2> DEFINE u == Site
             c == "\n"
  <2> HIDE DEF u, c
  <2>3. /\ r \in Seq(Chars) /\ u \in Seq(Chars) /\ c \in Chars /\ T \in Seq(Chars)
        /\ Joined(r, u, c, T) /\ Len(u) > 0 /\ Len(T) > 0
        /\ \A j \in 1..Len(u) : u[j] # c
        /\ \A j \in 1..Len(T) : T[j] # c
    BY <1>10, <2>1, <2>2 DEF u, c
  <2>4. Items(r, c)[1] = <<u, T>>
    BY <2>3, SplitTwo
  <2> QED  BY <2>4 DEF u, c
<1>12. SplitString(s, <<"\n">>) = Items(r, "\n")[1]
  BY <1>7, Characters, SplitFirst
<1> QED  BY <1>11, <1>12 DEF Newline, s, T
-------------------------------------------------------------------------------
(* The login.  The record is the cookie's, or its beginning, unless an      *)
(* answer nobody could read was counted as a login: only save_cookie writes *)
(* it, and of the cookie weibo gave or of none.                             *)
RecordInv ==
    /\ \/ "record" \in guessed \/ record = <<>>
       \/ \E n \in 0..Len(Full) : record = <<SubSeq(Full, 1, n)>>
    /\ doing \in Requests \cup {"start", "save", "crawl"}
    /\ doing \in Requests \cup {"start"} => ~failed
    /\ doing = "save" => failed \/ "cookie" \in guessed \/ cookie = LoginCookie
    /\ CookieHasReason

LEMMA RecordInit == LoginInit => RecordInv
<1> SUFFICES ASSUME LoginInit PROVE RecordInv
  OBVIOUS
<1>1. /\ record = <<>> /\ ~failed
      /\ \/ doing = "start" /\ cookie = NoCookie
         \/ doing = "crawl" /\ cookie = LoginCookie
  BY DEF LoginInit
<1> QED  BY <1>1 DEF RecordInv, CookieHasReason, Requests

(* What load_cookie takes from a record it finds good.                      *)
LEMMA RecordRead ==
    ASSUME RecordInv, GoodRecord, "record" \notin guessed,
           NEW c, c = (IF Len(Lines) = 2 /\ Lines[1] = Site
                       THEN SetCookie(NoCookie, Lines[2]) ELSE NoCookie)
    PROVE  \/ Unspaced(c) = Unspaced(LoginCookie)
           \/ record = <<<<>>>>
           \/ /\ Len(record[1]) > Len(Site \o Newline)
              /\ Len(record[1]) < Len(Site \o Newline \o CookieText(LoginCookie))
<1> DEFINE T == CookieText(LoginCookie)
<1>0. Full \in Seq(Chars) /\ Len(Full) = 3 + Len(T) /\ Len(T) \in Nat
      /\ Len(Site \o Newline) = 2 /\ Len(Site \o Newline \o T) = 2 + Len(T)
  BY FullText
<1>1. record # <<>> /\ Len(Lines) % 2 = 0
  BY DEF GoodRecord
<1>2. PICK n \in 0..Len(Full) : record = <<SubSeq(Full, 1, n)>>
  BY <1>1 DEF RecordInv
<1>3. record[1] = SubSeq(Full, 1, n)
  BY <1>2
<1>4. Lines = SplitString(SubSeq(Full, 1, n), Newline)
  BY <1>3 DEF Lines
<1>5. CASE n = 0
  <2>1. SubSeq(Full, 1, 0) = <<>>
    BY <1>0, SubSeqEmpty
  <2> QED  BY <1>2, <1>5, <2>1
<1>6. CASE n \in 1..2
  <2>1. Len(Lines) = 1
    BY <1>4, <1>6, LinesTorn
  <2>2. 1 % 2 = 1
    OBVIOUS
  <2> QED  BY <1>1, <2>1, <2>2
<1>7. CASE n > 2 /\ n < 2 + Len(T)
  <2>1. n \in 1..Len(Full)
    BY <1>0, <1>7
  <2>2. Len(record[1]) = n
    BY <1>3, <2>1, RecordPart
  <2> QED  BY <1>0, <1>7, <2>2
<1>8. CASE n >= 2 + Len(T)
  <2>1. n \in 1..Len(Full)
    BY <1>0, <1>8
  <2>2. Lines = <<Site, T>>
    BY <1>4, <1>8, <2>1, LinesWhole
  <2>3. Len(Lines) = 2 /\ Lines[1] = Site /\ Lines[2] = T
    <3> HIDE DEF T
    <3> QED  BY <2>2
  <2>4. c = SetCookie(NoCookie, T)
    BY <2>3
  <2> QED  BY <2>4, CookieRead
<1> QED  BY <1>0, <1>5, <1>6, <1>7, <1>8

LEMMA RecordStep == RecordInv /\ [LoginNext]_allVars => RecordInv'
<1> SUFFICES ASSUME RecordInv, [LoginNext]_allVars PROVE RecordInv'
  OBVIOUS
<1> USE DEF Requests
<1>0. Full \in Seq(Chars) /\ Len(Full) \in Nat
  BY FullText, LenProperties
<1>1. CASE UNCHANGED loginVars
  BY <1>1 DEF RecordInv, CookieHasReason, loginVars
<1>2. CASE Login
  <2>1. CASE LoadCookie
    <3>1. CASE /\ GoodRecord /\ doing' = "crawl"
               /\ cookie' = (IF Len(Lines) = 2 /\ Lines[1] = Site
                             THEN SetCookie(NoCookie, Lines[2]) ELSE NoCookie)
               /\ guessed' = (IF "record" \in guessed THEN guessed \cup {"cookie"} ELSE guessed)
      <4>1. CASE "record" \in guessed
        BY <2>1, <3>1, <4>1 DEF LoadCookie, RecordInv, CookieHasReason
      <4>2. CASE "record" \notin guessed
        <5>1. \/ Unspaced(cookie') = Unspaced(LoginCookie)
              \/ record = <<<<>>>>
              \/ /\ Len(record[1]) > Len(Site \o Newline)
                 /\ Len(record[1]) < Len(Site \o Newline \o CookieText(LoginCookie))
          BY <3>1, <4>2, RecordRead
        <5> QED  BY <2>1, <3>1, <4>2, <5>1 DEF LoadCookie, RecordInv, CookieHasReason
      <4> QED  BY <4>1, <4>2
    <3>2. CASE doing' = "prelogin" /\ UNCHANGED <<cookie, guessed>>
      BY <2>1, <3>2 DEF LoadCookie, RecordInv, CookieHasReason
    <3> QED  BY <2>1, <3>1, <3>2 DEF LoadCookie, Leave, Request
  <2>2. CASE PreloginStatus
    BY <2>2 DEF PreloginStatus, Over, Terminate, Leave, Request, RecordInv, CookieHasReason
  <2>3. CASE Dologin
    BY <2>3 DEF Dologin, Over, Terminate, Leave, Request, RecordInv, CookieHasReason
  <2>4. CASE AjaxLogin
    BY <2>4 DEF AjaxLogin, Over, Terminate, Leave, Request, RecordInv, CookieHasReason
  <2>5. CASE Codes
    BY <2>5 DEF Codes, Over, Terminate, Leave, Request, RecordInv, CookieHasReason
  <2>6. CASE SaveCookie
    <3>1. \/ "cookie" \in guessed \/ Record = <<>> \/ Record = Full
      BY <2>6 DEF SaveCookie, RecordInv, Record, Full
    <3>2. ASSUME Record = <<>> \/ Record = Full, NEW n \in 0..Len(Record)
          PROVE  \E k \in 0..Len(Full) : <<SubSeq(Full, 1, k)>> = <<SubSeq(Record, 1, n)>>
      <4>1. CASE Record = <<>>
        <5>1. SubSeq(<<>>, 1, 0) = <<>> /\ Len(Record) = 0
          BY <4>1, EmptySeq, SubSeqEmpty
        <5>2. n = 0
          BY <5>1
        <5>3. SubSeq(Full, 1, 0) = <<>> /\ 0 \in 0..Len(Full)
          BY <1>0, SubSeqEmpty
        <5> QED  BY <4>1, <5>1, <5>2, <5>3
      <4>2. CASE Record = Full
        BY <4>2
      <4> QED  BY <3>2, <4>1, <4>2
    <3>3. ASSUME Record = <<>> \/ Record = Full
          PROVE  \E n \in 0..Len(Full) : <<SubSeq(Full, 1, n)>> = <<Record>>
      <4>1. SubSeq(Full, 1, 0) = <<>> /\ 0 \in 0..Len(Full)
        BY <1>0, SubSeqEmpty
      <4>2. SubSeq(Full, 1, Len(Full)) = Full /\ Len(Full) \in 0..Len(Full)
        BY <1>0, SubSeqFull
      <4> QED  BY <3>3, <4>1, <4>2
    <3>4. CASE doing' = "crawl" /\ record' = <<Record>> /\ guessed' = Recorded
               /\ UNCHANGED <<cookie, failed>>
      <4>1. \/ "record" \in guessed' \/ record' = <<>>
            \/ \E n \in 0..Len(Full) : record' = <<SubSeq(Full, 1, n)>>
        BY <3>1, <3>3, <3>4 DEF Recorded
      <4>2. CookieHasReason'
        BY <2>6, <3>4 DEF SaveCookie, RecordInv, CookieHasReason, Recorded
      <4> QED  BY <3>4, <4>1, <4>2 DEF RecordInv
    <3>5. CASE doing' = "crawl" /\ UNCHANGED <<record, cookie, failed, guessed>>
      BY <2>6, <3>5 DEF SaveCookie, RecordInv, CookieHasReason
    <3>6. CASE doing' = "start" /\ failed' = FALSE /\ guessed' = Recorded \ {"cookie"}
               /\ \E n \in 0..Len(Record) : record' = <<SubSeq(Record, 1, n)>>
      <4>1. \/ "record" \in guessed' \/ record' = <<>>
            \/ \E n \in 0..Len(Full) : record' = <<SubSeq(Full, 1, n)>>
        <5>1. CASE "cookie" \in guessed
          BY <3>6, <5>1 DEF Recorded
        <5>2. CASE "cookie" \notin guessed
          BY <3>1, <3>2, <3>6, <5>2
        <5> QED  BY <5>1, <5>2
      <4> QED  BY <3>6, <4>1 DEF RecordInv, CookieHasReason
    <3> QED  BY <2>6, <3>4, <3>5, <3>6 DEF SaveCookie, Leave
  <2>7. CASE RunAgain
    BY <2>7 DEF RunAgain, Terminate, Leave, RecordInv, CookieHasReason
  <2> QED  BY <1>2, <2>1, <2>2, <2>3, <2>4, <2>5, <2>6, <2>7 DEF Login
<1> QED  BY <1>1, <1>2 DEF LoginNext, Exchange, allVars

(* A run crawls with the cookie weibo gave but for a reason that            *)
(* CookieHasReason names, wherever a record was torn, whatever the cookie's *)
(* names and values, and however the requests ended (load_cookie 164-206,   *)
(* save_cookie, login 99-121).                                             *)
THEOREM LoginCookieHasReason == LoginSpec => []CookieHasReason
<1>1. LoginInit => RecordInv
  BY RecordInit
<1>2. RecordInv /\ [LoginNext]_allVars => RecordInv'
  BY RecordStep
<1>3. RecordInv => CookieHasReason
  BY DEF RecordInv
<1> QED  BY <1>1, <1>2, <1>3, PTL DEF LoginSpec
-------------------------------------------------------------------------------
(* Each exchange of the login is one of SpiderHttpClient: it begins where   *)
(* the latter begins, and a step of it is one of the latter.                *)

LEMMA NewExchangeInit ==
    ASSUME TypeOK, Login PROVE Init'
<1>1. caller \in Callers /\ response \in Responses
  BY DEF TypeOK
<1>2. NewExchange(Responses) \/ NewExchange({response})
  BY DEF Login, LoadCookie, PreloginStatus, Dologin, AjaxLogin, Codes, SaveCookie, RunAgain,
         Terminate, Leave, Request
<1> QED  BY <1>1, <1>2 DEF NewExchange, Init

LEMMA LoginStep == HttpInv /\ [LoginNext]_allVars => HttpInv'
<1>1. Init' => HttpInv'
  BY HttpInit, PTL
<1>2. HttpInv /\ Login => Init'
  BY NewExchangeInit DEF HttpInv
<1>3. (Exchange(Server) \/ Exchange(Client) \/ UNCHANGED allVars) => [Next]_vars
  BY DEF Exchange, Next, allVars
<1> QED  BY <1>1, <1>2, <1>3, HttpStep DEF LoginNext

LEMMA LoginHttp == LoginSpec => []HttpInv
<1>1. LoginInit => Init
  BY DEF LoginInit
<1> QED  BY <1>1, HttpInit, LoginStep, PTL DEF LoginSpec

(* What holds of an exchange holds of each that the cookie login makes, and *)
(* of each request again after a redirect or a code: type correctness,      *)
(* pages that are processed only when they are what the server sent, and    *)
(* sockets given back (surface_page 404-447).                               *)
THEOREM LoginExchanges ==
    LoginSpec => [](/\ TypeOK /\ SocketReleased /\ AnnouncedIsWhole
                    /\ ChunkedIsContent /\ AnnouncedProcessed)
<1>1. HttpInv => /\ TypeOK /\ SocketReleased /\ AnnouncedIsWhole
                 /\ ChunkedIsContent /\ AnnouncedProcessed
  BY HttpShows DEF HttpInv
<1> QED  BY <1>1, LoginHttp, PTL
-------------------------------------------------------------------------------
(* Texts of characters, as the addresses of pages are coded.                *)
SignedChars == -128..127

(* A character stays, or is an escape which is read as that character.      *)
LEMMA CharCoded ==
    ASSUME NEW c \in SignedChars
    PROVE  \/ EncodeChar(c) = <<c>> /\ c # Percent
           \/ \E a, b \in Int \ {Percent} :
                 /\ EncodeChar(c) = <<Percent, a, b>>
                 /\ CharOf(16 * CharToDec(a) + CharToDec(b)) = c
<1> DEFINE j == IF c < 0 THEN c + 256 ELSE c
<1>1. CASE c \in Digits \cup Upper \cup Lower \cup {46}
  BY <1>1 DEF EncodeChar, Digits, Upper, Lower, Percent
<1>2. CASE c \notin Digits \cup Upper \cup Lower \cup {46}
  <2>1. EncodeChar(c) = <<Percent, DecToChar(j \div 16), DecToChar(j % 16)>>
    BY <1>2 DEF EncodeChar
  <2>2. j \in 0..255
    BY DEF SignedChars
  <2>3. CharOf(j) = c
    BY DEF SignedChars, CharOf
  <2> HIDE DEF j
  <2>4. j \div 16 \in 0..15 /\ j % 16 \in 0..15 /\ 16 * (j \div 16) + (j % 16) = j
    BY <2>2
  <2>5. \A d \in 0..15 : DecToChar(d) \in Int \ {Percent} /\ CharToDec(DecToChar(d)) = d
    <3> TAKE d \in 0..15
    <3>1. CASE d \in 0..9
      <4>1. DecToChar(d) = 48 + d
        BY <3>1 DEF DecToChar
      <4>2. 48 + d \in 48..57 /\ 48 + d # 37 /\ (48 + d) - 48 = d
        BY <3>1
      <4>3. CharToDec(48 + d) = (48 + d) - 48
        <5> DEFINE e == 48 + d
        <5>1. e \in 48..57 /\ e \notin 97..102 /\ e \notin 65..70
          BY <4>2
        <5> HIDE DEF e
        <5>2. CharToDec(e) = e - 48
          BY <5>1 DEF CharToDec
        <5> QED  BY <5>2 DEF e
      <4> QED  BY <4>1, <4>2, <4>3 DEF Percent
    <3>2. CASE d \in 10..15
      <4>1. DecToChar(d) = (65 + d) - 10
        BY <3>2 DEF DecToChar
      <4> DEFINE e == (65 + d) - 10
      <4>2. e \in 65..70 /\ e \notin 48..57 /\ e \notin 97..102 /\ e # 37 /\ (e - 65) + 10 = d
        BY <3>2
      <4>3. CharToDec(e) = (e - 65) + 10
        <5> HIDE DEF e
        <5> QED  BY <4>2 DEF CharToDec
      <4> QED  BY <4>1, <4>2, <4>3 DEF Percent
    <3> QED  BY <3>1, <3>2
  <2> DEFINE a == DecToChar(j \div 16)
             b == DecToChar(j % 16)
  <2>6. a \in Int \ {Percent} /\ b \in Int \ {Percent}
    BY <2>4, <2>5
  <2>7. CharToDec(a) = j \div 16 /\ CharToDec(b) = j % 16
    BY <2>4, <2>5
  <2> HIDE DEF a, b
  <2>8. 16 * CharToDec(a) + CharToDec(b) = j
    BY <2>4, <2>7
  <2>9. EncodeChar(c) = <<Percent, a, b>>
    BY <2>1 DEF a, b
  <2> QED  BY <2>3, <2>6, <2>8, <2>9
<1> QED  BY <1>1, <1>2

(* url_decode from place i on, of a text whose escapes are whole.           *)
DecodeAt(s, f, i) ==
    IF i > Len(s) THEN <<>>
    ELSE IF s[i] # Percent THEN <<s[i]>> \o f[i + 1]
    ELSE <<CharOf(16 * CharToDec(s[i + 1]) + CharToDec(s[i + 2]))>> \o f[i + 3]

Decoded(s) == CHOOSE f : f = [i \in 1..Len(s) + 1 |-> DecodeAt(s, f, i)]

WholeEscapes(s) == \A i \in 1..Len(s) : s[i] = Percent => i + 2 <= Len(s)

LEMMA DecodeEquation ==
    ASSUME NEW s \in Seq(Int), WholeEscapes(s)
    PROVE  /\ UrlDecode(s) = Decoded(s)[1]
           /\ \A i \in 1..Len(s) + 1 : Decoded(s)[i] = DecodeAt(s, Decoded(s), i)
<1> DEFINE D == 1..Len(s) + 1
           V == Seq(Int)
           m == [i \in D |-> Len(s) + 1 - i]
           here(f, i) == DecodeAt(s, f, i)
           B == [f \in [D -> V] |-> [i \in D |-> here(f, i)]]
<1>0. Len(s) \in Nat
  BY LenProperties
<1>e. <<>> \in V
  BY EmptySeq
<1>n. \A c : CharToDec(c) \in Int
  <2> TAKE c
  <2>1. CASE c \in 48..57
    <3>1. c \notin 97..102 /\ c \notin 65..70
      BY <2>1
    <3>2. CharToDec(c) = c - 48
      BY <2>1, <3>1 DEF CharToDec
    <3>3. c \in Int
      BY <2>1
    <3> QED  BY <3>2, <3>3
  <2>2. CASE c \in 97..102
    <3>1. c \notin 48..57 /\ c \notin 65..70
      BY <2>2
    <3>2. CharToDec(c) = (c - 97) + 10
      BY <2>2, <3>1 DEF CharToDec
    <3>3. c \in Int
      BY <2>2
    <3> QED  BY <3>2, <3>3
  <2>3. CASE c \in 65..70
    <3>1. c \notin 48..57 /\ c \notin 97..102
      BY <2>3
    <3>2. CharToDec(c) = (c - 65) + 10
      BY <2>3, <3>1 DEF CharToDec
    <3>3. c \in Int
      BY <2>3
    <3> QED  BY <3>2, <3>3
  <2>4. CASE c \notin 48..57 /\ c \notin 97..102 /\ c \notin 65..70
    BY <2>4 DEF CharToDec
  <2> QED  BY <2>1, <2>2, <2>3, <2>4
<1>c. \A a, b : CharOf(16 * CharToDec(a) + CharToDec(b)) \in Int
  <2> TAKE a, b
  <2>1. 16 * CharToDec(a) + CharToDec(b) \in Int
    BY <1>n
  <2> QED  BY <2>1 DEF CharOf
<1>o. ASSUME NEW a \in Int, NEW x \in V PROVE <<a>> \o x \in V
  <2>1. <<a>> \in Seq(Int)
    BY OneElement
  <2> QED  BY <2>1, ConcatProperties
<1>w. \A i \in D : i \in Nat /\ (~(i > Len(s)) =>
          /\ i \in 1..Len(s) /\ i + 1 \in D /\ i + 1 > i
          /\ s[i] = Percent => i + 3 \in D /\ i + 3 > i)
  BY <1>0 DEF WholeEscapes
<1>1. ASSUME NEW f \in [D -> V], NEW i \in D PROVE here(f, i) \in V
  <2>1. CASE i > Len(s)
    BY <1>e, <2>1 DEF DecodeAt
  <2>2. CASE ~(i > Len(s)) /\ s[i] # Percent
    <3>1. s[i] \in Int /\ f[i + 1] \in V
      <4>1. i \in 1..Len(s) /\ i + 1 \in D
        BY <1>w, <2>2
      <4> QED  BY <4>1, ElementOfSeq
    <3>2. here(f, i) = <<s[i]>> \o f[i + 1]
      BY <2>2 DEF DecodeAt
    <3> QED  BY <1>o, <3>1, <3>2
  <2>3. CASE ~(i > Len(s)) /\ s[i] = Percent
    <3>1. f[i + 3] \in V
      BY <1>w, <2>3
    <3>2. here(f, i) = <<CharOf(16 * CharToDec(s[i + 1]) + CharToDec(s[i + 2]))>> \o f[i + 3]
      BY <2>3 DEF DecodeAt
    <3> QED  BY <1>c, <1>o, <3>1, <3>2
  <2> QED  BY <2>1, <2>2, <2>3
<1>2. B \in [[D -> V] -> [D -> V]]
  BY <1>1
<1>3. m \in [D -> 0..Len(s)]
  BY <1>0
<1>4. ASSUME NEW f \in [D -> V], NEW g \in [D -> V], NEW i \in D,
             \A j \in D : m[j] < m[i] => f[j] = g[j]
      PROVE  here(f, i) = here(g, i)
  <2>1. \A j \in D : j > i => f[j] = g[j]
    BY <1>0, <1>4
  <2>2. CASE i > Len(s)
    BY <2>2 DEF DecodeAt
  <2>3. CASE ~(i > Len(s)) /\ s[i] # Percent
    <3>1. f[i + 1] = g[i + 1]
      BY <1>w, <2>1, <2>3
    <3> QED  BY <2>3, <3>1 DEF DecodeAt
  <2>4. CASE ~(i > Len(s)) /\ s[i] = Percent
    <3>1. f[i + 3] = g[i + 3]
      BY <1>w, <2>1, <2>4
    <3> QED  BY <2>4, <3>1 DEF DecodeAt
  <2> QED  BY <2>2, <2>3, <2>4
<1>5. \A f, g \in [D -> V] : \A i \in D :
         (\A j \in D : m[j] < m[i] => f[j] = g[j]) => B[f][i] = B[g][i]
  <2> HIDE DEF m, D, V, here
  <2> QED  BY <1>4
<1>6. PICK f \in [D -> V] : f = B[f]
  <2>1. V # {}
    BY <1>e
  <2>2. Recursive(D, V, Len(s), m, B)
    <3> HIDE DEF m, D, V, B
    <3> QED  BY <1>0, <1>2, <1>3, <1>5, <2>1 DEF Recursive
  <2> HIDE DEF m, D, V, B
  <2> QED  BY <2>2, Recursion
<1>7. f = [i \in D |-> here(f, i)]
  BY <1>6
<1>8. Decoded(s) = [i \in D |-> DecodeAt(s, Decoded(s), i)]
  BY <1>7 DEF Decoded
<1> DEFINE F == Decoded(s)
<1> HIDE DEF F
<1>9. F = [i \in D |-> DecodeAt(s, F, i)]
  BY <1>8 DEF F
<1>10. \A i \in D : F[i] = DecodeAt(s, F, i)
  BY <1>9
<1>11. UrlDecode(s) = Decoded(s)[1]
  BY DEF UrlDecode, Decoded, DecodeAt
<1> QED  BY <1>10, <1>11 DEF F

(* url_encode 7-30 and url_decode 32-51: of an address whose characters are *)
(* of eight bits, with sign, decoding what was encoded gives it back.       *)
THEOREM UrlRoundTrip == \A text \in Seq(SignedChars) : UrlDecode(UrlEncode(text)) = text
<1> TAKE text \in Seq(SignedChars)
<1> DEFINE n == Len(text)
           pieces == [k \in 1..n |-> EncodeChar(text[k])]
           s == UrlEncode(text)
           F == Decoded(s)
<1>0. n \in Nat /\ text \in [1..n -> SignedChars] /\ \A k \in 1..n : text[k] \in SignedChars /\ text[k] \in Int
  <2>1. n \in Nat /\ text \in [1..n -> SignedChars]
    BY LenProperties
  <2>2. \A c \in SignedChars : c \in Int
    BY DEF SignedChars
  <2> QED  BY <2>1, <2>2
<1>s. s = FlattenSeq(pieces)
  BY DEF UrlEncode
<1>1. CASE n = 0
  <2>1. text = <<>> /\ pieces = <<>>
    BY <1>0, <1>1
  <2>2. s = <<>>
    BY <1>s, <2>1 DEF FlattenSeq
  <2>3. s \in Seq(Int) /\ Len(s) = 0 /\ WholeEscapes(s)
    BY <2>2, EmptySeq DEF WholeEscapes
  <2> HIDE DEF s
  <2>4. UrlDecode(s) = DecodeAt(s, Decoded(s), 1)
    <3>1. 1 \in 1..Len(s) + 1
      BY <2>3
    <3> QED  BY <2>3, <3>1, DecodeEquation
  <2> QED  BY <2>1, <2>3, <2>4 DEF DecodeAt, s
<1>2. CASE n > 0
  <2>1. \A k \in 1..n :
           \/ pieces[k] = <<text[k]>> /\ text[k] # Percent
           \/ \E a, b \in Int \ {Percent} :
                 /\ pieces[k] = <<Percent, a, b>>
                 /\ CharOf(16 * CharToDec(a) + CharToDec(b)) = text[k]
    BY <1>0, CharCoded
  <2>2. \A k \in 1..n : pieces[k] \in Seq(Int)
    <3>1. \A a, b \in Int : <<Percent, a, b>> \in Seq(Int)
      BY DEF Percent
    <3>2. \A a \in Int : <<a>> \in Seq(Int)
      BY OneElement
    <3> HIDE DEF pieces
    <3> QED  BY <1>0, <2>1, <3>1, <3>2
  <2>3. pieces \in Seq(Seq(Int)) /\ Len(pieces) = n
    <3>1. pieces \in [1..n -> Seq(Int)]
      BY <2>2
    <3> HIDE DEF pieces
    <3>2. pieces \in Seq(Seq(Int))
      BY <1>0, <3>1, SeqDef
    <3> QED  BY <1>0, <3>1, <3>2, LenProperties
  <2> HIDE DEF pieces, s, n
  <2>4. s \in Seq(Int) /\ \E pos : Places(pieces, s, pos)
    BY <1>s, <1>2, <2>3, FlatPlaces
  <2>5. PICK pos : Places(pieces, s, pos)
    BY <2>4
  <2>6. /\ pos \in [0..n -> Nat] /\ pos[0] = 0 /\ pos[n] = Len(s)
        /\ \A k \in 1..n :
              /\ pos[k] = pos[k - 1] + Len(pieces[k]) /\ pos[k] <= Len(s)
              /\ \A j \in 1..Len(pieces[k]) : s[pos[k - 1] + j] = pieces[k][j]
        /\ \A i \in 1..Len(s) : \E k \in 1..n : \E j \in 1..Len(pieces[k]) : i = pos[k - 1] + j
    BY <2>3, <2>5 DEF Places
  <2>t. Len(s) \in Nat
    BY <2>4, LenProperties
  (* The two forms a character has in the text, with their places.          *)
  <2>7. ASSUME NEW k \in 1..n
        PROVE  /\ pos[k - 1] \in Nat
               /\ \/ /\ Len(pieces[k]) = 1 /\ pos[k] = pos[k - 1] + 1 /\ pos[k] <= Len(s)
                     /\ s[pos[k - 1] + 1] = text[k] /\ text[k] # Percent
                  \/ /\ Len(pieces[k]) = 3 /\ pos[k] = pos[k - 1] + 3 /\ pos[k] <= Len(s)
                     /\ s[pos[k - 1] + 1] = Percent
                     /\ s[pos[k - 1] + 2] # Percent /\ s[pos[k - 1] + 3] # Percent
                     /\ CharOf(16 * CharToDec(s[pos[k - 1] + 2]) + CharToDec(s[pos[k - 1] + 3]))
                           = text[k]
    <3>1. k - 1 \in 0..n
      BY <1>0
    <3>2. CASE pieces[k] = <<text[k]>> /\ text[k] # Percent
      <4>1. Len(pieces[k]) = 1 /\ pieces[k][1] = text[k] /\ 1 \in 1..1
        BY <3>2
      <4> QED  BY <2>6, <3>1, <3>2, <4>1
    <3>3. CASE \E a, b \in Int \ {Percent} :
                 /\ pieces[k] = <<Percent, a, b>>
                 /\ CharOf(16 * CharToDec(a) + CharToDec(b)) = text[k]
      <4>1. PICK a, b \in Int \ {Percent} :
                 /\ pieces[k] = <<Percent, a, b>>
                 /\ CharOf(16 * CharToDec(a) + CharToDec(b)) = text[k]
        BY <3>3
      <4>2. /\ Len(pieces[k]) = 3
            /\ pieces[k][1] = Percent /\ pieces[k][2] = a /\ pieces[k][3] = b
            /\ 1 \in 1..3 /\ 2 \in 1..3 /\ 3 \in 1..3
        BY <4>1
      <4>3. /\ s[pos[k - 1] + 1] = Percent /\ s[pos[k - 1] + 2] = a /\ s[pos[k - 1] + 3] = b
        BY <2>6, <4>2
      <4> QED  BY <2>6, <3>1, <4>1, <4>2, <4>3
    <3> QED  BY <2>1, <3>2, <3>3
  <2>8. WholeEscapes(s)
    <3> SUFFICES ASSUME NEW i \in 1..Len(s), s[i] = Percent PROVE i + 2 <= Len(s)
      BY DEF WholeEscapes
    <3>0. PICK k \in 1..n : \E j \in 1..Len(pieces[k]) : i = pos[k - 1] + j
      BY <2>6
    <3>1. PICK j \in 1..Len(pieces[k]) : i = pos[k - 1] + j
      BY <3>0
    <3>2. CASE Len(pieces[k]) = 1
      <4>1. j = 1
        BY <3>2
      <4>2. s[pos[k - 1] + 1] # Percent
        BY <2>7, <3>2
      <4> QED  BY <3>1, <4>1, <4>2
    <3>3. CASE Len(pieces[k]) = 3
      <4>1. j = 1 \/ j = 2 \/ j = 3
        BY <3>3
      <4>2. /\ s[pos[k - 1] + 2] # Percent /\ s[pos[k - 1] + 3] # Percent
            /\ pos[k] = pos[k - 1] + 3 /\ pos[k] <= Len(s) /\ pos[k - 1] \in Nat
        <5>1. Len(pieces[k]) # 1
          BY <3>3
        <5> QED  BY <2>7, <5>1
      <4>3. j = 1
        BY <3>1, <4>1, <4>2
      <4> QED  BY <2>t, <3>1, <4>2, <4>3
    <3> QED  BY <2>7, <3>2, <3>3
  <2>9. /\ UrlDecode(s) = F[1]
        /\ \A i \in 1..Len(s) + 1 : F[i] = DecodeAt(s, F, i)
    BY <2>4, <2>8, DecodeEquation
  <2> HIDE DEF F
  <2> DEFINE Rest(k) ==
                 /\ F[pos[k] + 1] \in Seq(Int) /\ Len(F[pos[k] + 1]) = n - k
                 /\ \A j \in 1..n - k : F[pos[k] + 1][j] = text[k + j]
             S == {x \in Nat : x <= n => Rest(n - x)}
  <2>10. Rest(n)
    <3>1. pos[n] + 1 \in 1..Len(s) + 1 /\ pos[n] + 1 > Len(s) /\ n - n = 0
      BY <1>0, <2>6, <2>t
    <3>2. F[pos[n] + 1] = <<>>
      BY <2>9, <3>1 DEF DecodeAt
    <3>3. <<>> \in Seq(Int) /\ Len(<<>>) = 0
      BY EmptySeq
    <3> QED  BY <3>1, <3>2, <3>3
  <2>11. ASSUME NEW k \in 1..n, Rest(k) PROVE Rest(k - 1)
    <3> DEFINE i == pos[k - 1] + 1
               x == F[pos[k] + 1]
    <3>1. /\ i \in 1..Len(s) + 1 /\ ~(i > Len(s)) /\ i \in Nat
          /\ \/ s[i] # Percent /\ s[i] = text[k] /\ pos[k] + 1 = i + 1
             \/ /\ s[i] = Percent /\ pos[k] + 1 = i + 3
                /\ CharOf(16 * CharToDec(s[i + 1]) + CharToDec(s[i + 2])) = text[k]
      <4>1. /\ pos[k - 1] \in Nat
            /\ \/ /\ pos[k] = pos[k - 1] + 1 /\ pos[k] <= Len(s)
                  /\ s[i] = text[k] /\ text[k] # Percent
               \/ /\ pos[k] = pos[k - 1] + 3 /\ pos[k] <= Len(s) /\ s[i] = Percent
                  /\ CharOf(16 * CharToDec(s[pos[k - 1] + 2]) + CharToDec(s[pos[k - 1] + 3]))
                        = text[k]
        BY <2>7
      <4>2. i + 1 = pos[k - 1] + 2 /\ i + 2 = pos[k - 1] + 3
        BY <4>1
      <4>3. \/ s[i] # Percent /\ s[i] = text[k] /\ pos[k] = pos[k - 1] + 1
            \/ /\ s[i] = Percent /\ pos[k] = pos[k - 1] + 3
               /\ CharOf(16 * CharToDec(s[i + 1]) + CharToDec(s[i + 2])) = text[k]
        BY <4>1, <4>2
      <4>4. pos[k - 1] \in Nat /\ pos[k - 1] + 1 <= Len(s)
        <5>1. \/ pos[k - 1] + 1 <= Len(s)
              \/ pos[k - 1] + 3 <= Len(s)
          BY <4>1
        <5> QED  BY <2>t, <4>1, <5>1
      <4>5. /\ pos[k] = pos[k - 1] + 1 => pos[k] + 1 = i + 1
            /\ pos[k] = pos[k - 1] + 3 => pos[k] + 1 = i + 3
        BY <4>4
      <4>6. i \in 1..Len(s) + 1 /\ ~(i > Len(s)) /\ i \in Nat
        BY <2>t, <4>4
      <4> QED  BY <4>3, <4>5, <4>6
    <3>2. F[i] = <<text[k]>> \o x
      <4> HIDE DEF i
      <4>1. F[i] = DecodeAt(s, F, i)
        BY <2>9, <3>1
      <4> QED  BY <3>1, <4>1 DEF DecodeAt
    <3>3. x \in Seq(Int) /\ Len(x) = n - k /\ \A j \in 1..n - k : x[j] = text[k + j]
      BY <2>11
    <3> HIDE DEF x
    <3>4. <<text[k]>> \in Seq(Int) /\ Len(<<text[k]>>) = 1 /\ <<text[k]>>[1] = text[k]
      BY <1>0, OneElement
    <3>5. /\ F[i] \in Seq(Int) /\ Len(F[i]) = 1 + (n - k)
          /\ \A j \in 1..1 + (n - k) : F[i][j] = IF j <= 1 THEN text[k] ELSE x[j - 1]
      <4>1. /\ <<text[k]>> \o x \in Seq(Int) /\ Len(<<text[k]>> \o x) = 1 + Len(x)
            /\ \A j \in 1..1 + Len(x) : (<<text[k]>> \o x)[j] =
                   IF j <= 1 THEN <<text[k]>>[j] ELSE x[j - 1]
        BY <3>3, <3>4, ConcatProperties
      <4>2. \A j \in 1..1 + Len(x) : j <= 1 => j = 1
        OBVIOUS
      <4> QED  BY <3>2, <3>3, <3>4, <4>1, <4>2
    <3>6. ASSUME NEW j \in 1..n - (k - 1) PROVE F[i][j] = text[(k - 1) + j]
      <4>1. j \in 1..1 + (n - k)
        BY <1>0
      <4>2. CASE j <= 1
        <5>1. j = 1 /\ (k - 1) + j = k
          BY <4>2
        <5> QED  BY <3>5, <4>1, <4>2, <5>1
      <4>3. CASE ~(j <= 1)
        <5>1. j - 1 \in 1..n - k /\ k + (j - 1) = (k - 1) + j
          BY <1>0, <4>3
        <5> QED  BY <3>3, <3>5, <4>1, <4>3, <5>1
      <4> QED  BY <4>2, <4>3
    <3>7. 1 + (n - k) = n - (k - 1)
      BY <1>0
    <3> QED  BY <3>5, <3>6, <3>7
  <2>12. Rest(0)
    <3> HIDE DEF Rest
    <3>1. 0 \in S
      <4>1. n - 0 = n
        BY <1>0
      <4> QED  BY <2>10, <4>1
    <3>2. ASSUME NEW x \in Nat, x \in S PROVE x + 1 \in S
      <4>1. ASSUME x + 1 <= n PROVE Rest(n - (x + 1))
        <5>1. n - x \in 1..n /\ (n - x) - 1 = n - (x + 1) /\ x <= n
          BY <1>0, <4>1
        <5> QED  BY <2>11, <3>2, <5>1
      <4> QED  BY <4>1
    <3>3. n \in S
      <4> HIDE DEF S
      <4> QED  BY <1>0, <3>1, <3>2, SetInduction
    <3>4. n <= n /\ n - n = 0
      BY <1>0
    <3> QED  BY <3>3, <3>4
  <2> DEFINE y == F[1]
  <2>13. y \in Seq(Int) /\ Len(y) = n /\ \A j \in 1..n : y[j] = text[j]
    <3>1. pos[0] + 1 = 1 /\ n - 0 = n /\ \A j \in 1..n : 0 + j = j
      BY <1>0, <2>6
    <3> QED  BY <2>12, <3>1
  <2> HIDE DEF y
  <2>14. y \in [1..n -> Int]
    BY <2>13, LenProperties
  <2>15. y = text
    BY <1>0, <2>13, <2>14
  <2> QED  BY <2>9, <2>15 DEF y, s
<1> QED  BY <1>0, <1>1, <1>2
-------------------------------------------------------------------------------
(* The links of a page.  What get_match finds.                              *)

(* Of a mark whose first character comes not again in it, get_next has only *)
(* zeros.                                                                  *)
Mark(C, m) == m \in Seq(C) /\ Len(m) > 0 /\ \A x \in 2..Len(m) : m[x] # m[1]

LEMMA NextZero ==
    ASSUME NEW C, NEW m, Mark(C, m)
    PROVE  \A j \in 0..Len(m) - 1 : GetNext(m)[j] = 0
<1> DEFINE D == 0..Len(m) - 1
           B(f) == [i \in D |-> IF i = 0 THEN 0
                                ELSE IF m[f[i - 1] + 1] = m[i + 1] THEN f[i - 1] + 1
                                ELSE 0]
           N == GetNext(m)
           Z == [i \in D |-> 0]
           S == {j \in Nat : j \in D => N[j] = 0}
<1>0. Len(m) \in Nat /\ Len(m) > 0 /\ \A x \in 2..Len(m) : m[x] # m[1]
  BY LenProperties DEF Mark
<1>a. ASSUME NEW i \in D, i # 0
      PROVE  i - 1 \in D /\ m[1] # m[i + 1]
  <2>1. i - 1 \in D /\ i + 1 \in 2..Len(m)
    BY <1>0, <1>a
  <2> QED  BY <1>0, <2>1
<1>1. Z = B(Z)
  <2>1. ASSUME NEW i \in D, i # 0
        PROVE  (IF m[Z[i - 1] + 1] = m[i + 1] THEN Z[i - 1] + 1 ELSE 0) = 0
    <3>1. Z[i - 1] + 1 = 1
      BY <1>a, <2>1
    <3> QED  BY <1>a, <2>1, <3>1
  <2>2. \A i \in D : (IF i = 0 THEN 0
                       ELSE IF m[Z[i - 1] + 1] = m[i + 1] THEN Z[i - 1] + 1
                       ELSE 0) = 0
    BY <2>1
  <2>3. [i \in D |-> IF i = 0 THEN 0
                     ELSE IF m[Z[i - 1] + 1] = m[i + 1] THEN Z[i - 1] + 1
                     ELSE 0] = [i \in D |-> 0]
    <3> HIDE DEF Z, D
    <3> QED  BY <2>2
  <2> QED  BY <2>3
<1>2. N = B(N)
  BY <1>1 DEF GetNext
<1> HIDE DEF N
<1>3. 0 \in S
  BY <1>2
<1>4. ASSUME NEW j \in Nat, j \in S PROVE j + 1 \in S
  <2>1. ASSUME j + 1 \in D PROVE N[j + 1] = 0
    <3>1. j + 1 # 0 /\ (j + 1) - 1 = j /\ j \in D
      BY <1>0, <2>1
    <3>2. N[j] = 0 /\ N[j] + 1 = 1
      BY <1>4, <3>1
    <3>3. m[1] # m[(j + 1) + 1]
      BY <1>a, <2>1, <3>1
    <3>4. N[j + 1] = IF j + 1 = 0 THEN 0
                     ELSE IF m[N[(j + 1) - 1] + 1] = m[(j + 1) + 1] THEN N[(j + 1) - 1] + 1
                     ELSE 0
      BY <1>2, <2>1
    <3> QED  BY <3>1, <3>2, <3>3, <3>4
  <2> QED  BY <2>1
<1>5. \A j \in Nat : j \in S
  <2> HIDE DEF S
  <2> QED  BY <1>3, <1>4, SetInduction
<1>6. \A j \in D : j \in Nat
  BY <1>0
<1> QED  BY <1>5, <1>6 DEF N

Fits(source, pattern, i, j) ==
    {k \in 0..Len(pattern) - j :
        \A n \in 1..k : i + n - 1 <= Len(source) /\ source[i + n - 1] = pattern[j + n]}

LEMMA MatchedFits ==
    ASSUME NEW source, NEW pattern, NEW i, NEW j \in Nat, Len(pattern) \in Nat, j <= Len(pattern)
    PROVE  /\ Matched(source, pattern, i, j) \in Fits(source, pattern, i, j)
           /\ \A n \in Fits(source, pattern, i, j) : n <= Matched(source, pattern, i, j)
<1> DEFINE F == Fits(source, pattern, i, j)
           b == Len(pattern) - j
<1>1. b \in Nat /\ F \subseteq 0..b
  BY DEF Fits
<1>2. 0 \in F
  BY DEF Fits
<1>3. \E k \in F : \A n \in F : k >= n
  <2> HIDE DEF F, b
  <2> QED  BY <1>1, <1>2, GreatestNat
<1>4. \E k \in F : \A n \in F : n <= k
  BY <1>1, <1>3
<1>5. Matched(source, pattern, i, j) = CHOOSE k \in F : \A n \in F : n <= k
  BY DEF Matched, Fits
<1> HIDE DEF F
<1>6. Matched(source, pattern, i, j) \in F /\ \A n \in F : n <= Matched(source, pattern, i, j)
  BY <1>4, <1>5
<1> QED  BY <1>6 DEF F

SearchAt(source, pattern, next, search, p) ==
    IF p[1] > Len(source) THEN 0
    ELSE LET k == Matched(source, pattern, p[1], p[2])
             j == p[2] + k
         IN  IF j = Len(pattern) THEN p[1] + k
             ELSE search[<<p[1] + k + 1, IF j > 1 THEN next[j - 1] ELSE p[2]>>]

SearchPlaces(source, start, pattern) ==
    (start..Len(source) + Len(pattern) + 1) \X (0..Len(pattern))

Search(source, start, pattern) ==
    CHOOSE search :
       search = [p \in SearchPlaces(source, start, pattern) |->
                    SearchAt(source, pattern, GetNext(pattern), search, p)]

LEMMA MatchSearch ==
    ASSUME NEW source, NEW start, NEW pattern
    PROVE  GetMatch(source, start, pattern) = Search(source, start, pattern)[<<start, 0>>]
BY DEF GetMatch, Search, SearchAt, SearchPlaces

(* Where the search goes on: behind what matched.                          *)
SearchStep(source, pattern, p) ==
    \E k \in Fits(source, pattern, p[1], p[2]), c \in {0, p[2]} :
       /\ \A n \in Fits(source, pattern, p[1], p[2]) : n <= k
       /\ \/ /\ p[2] + k = Len(pattern)
             /\ \A f : SearchAt(source, pattern, GetNext(pattern), f, p) = p[1] + k
          \/ /\ p[2] + k < Len(pattern)
             /\ \A f : SearchAt(source, pattern, GetNext(pattern), f, p)
                         = f[<<p[1] + k + 1, c>>]

LEMMA SearchCases ==
    ASSUME NEW C, NEW m, Mark(C, m), NEW source \in Seq(C),
           NEW i \in 1..Len(source), NEW j \in 0..Len(m)
    PROVE  SearchStep(source, m, <<i, j>>)
<1> DEFINE p == <<i, j>>
           k == Matched(source, m, i, j)
           next == GetNext(m)
<1>0. /\ Len(source) \in Nat /\ Len(m) \in Nat /\ i \in Nat /\ j \in Nat /\ j <= Len(m)
      /\ p[1] = i /\ p[2] = j /\ ~(i > Len(source))
  BY LenProperties DEF Mark
<1>1. k \in Fits(source, m, i, j) /\ \A n \in Fits(source, m, i, j) : n <= k
  BY <1>0, MatchedFits
<1>2. k \in 0..Len(m) - j
  BY <1>0, <1>1 DEF Fits
<1>3. \A n \in 0..Len(m) - 1 : next[n] = 0
  BY NextZero
<1> HIDE DEF p, k, next
<1>4. ASSUME NEW f
      PROVE  SearchAt(source, m, next, f, p)
               = IF j + k = Len(m) THEN i + k
                 ELSE f[<<i + k + 1, IF j + k > 1 THEN next[(j + k) - 1] ELSE j>>]
  <2>1. SearchAt(source, m, next, f, p)
          = IF p[1] > Len(source) THEN 0
            ELSE IF p[2] + Matched(source, m, p[1], p[2]) = Len(m)
                 THEN p[1] + Matched(source, m, p[1], p[2])
                 ELSE f[<<p[1] + Matched(source, m, p[1], p[2]) + 1,
                          IF p[2] + Matched(source, m, p[1], p[2]) > 1
                          THEN next[(p[2] + Matched(source, m, p[1], p[2])) - 1]
                          ELSE p[2]>>]
    BY DEF SearchAt
  <2> QED  BY <1>0, <2>1 DEF k
<1>5. CASE j + k = Len(m)
  <2>1. \A f : SearchAt(source, m, next, f, p) = i + k
    BY <1>4, <1>5
  <2> QED  BY <1>0, <1>1, <1>5, <2>1 DEF SearchStep, p, next
<1>6. CASE j + k # Len(m)
  <2>1. j + k < Len(m) /\ j + k \in Nat
    BY <1>0, <1>2, <1>6
  <2>2. j + k > 1 => next[(j + k) - 1] = 0
    <3>1. j + k > 1 => (j + k) - 1 \in 0..Len(m) - 1
      BY <1>0, <1>2, <2>1
    <3> QED  BY <1>3, <3>1
  <2>3. PICK c \in {0, j} : c = IF j + k > 1 THEN next[(j + k) - 1] ELSE j
    BY <2>2
  <2>4. \A f : SearchAt(source, m, next, f, p) = f[<<i + k + 1, c>>]
    BY <1>4, <1>6, <2>3
  <2> QED  BY <1>0, <1>1, <2>1, <2>3, <2>4 DEF SearchStep, p, next
<1> QED  BY <1>5, <1>6

LEMMA SearchEquation ==
    ASSUME NEW C, NEW m, Mark(C, m), NEW source \in Seq(C), NEW start \in 1..Len(source)
    PROVE  LET F == Search(source, start, m)
           IN  \A p \in SearchPlaces(source, start, m) :
                  F[p] = SearchAt(source, m, GetNext(m), F, p)
<1> DEFINE D == SearchPlaces(source, start, m)
           n == Len(source) + Len(m) + 1
           w == [p \in D |-> n - p[1]]
           here(f, p) == SearchAt(source, m, GetNext(m), f, p)
           B == [f \in [D -> Nat] |-> [p \in D |-> here(f, p)]]
<1>0. Len(source) \in Nat /\ Len(m) \in Nat /\ n \in Nat
  BY LenProperties DEF Mark
<1>d. /\ \A p \in D : p = <<p[1], p[2]>> /\ p[1] \in start..n /\ p[2] \in 0..Len(m)
      /\ \A i \in start..n, j \in 0..Len(m) : <<i, j>> \in D
  BY <1>0 DEF SearchPlaces
<1> HIDE DEF D
<1>s. ASSUME NEW p \in D, p[1] <= Len(source)
      PROVE  \E k \in 0..Len(m), c \in 0..Len(m) :
                \/ \A f : here(f, p) = p[1] + k
                \/ <<p[1] + k + 1, c>> \in D /\ \A f : here(f, p) = f[<<p[1] + k + 1, c>>]
  <2>1. SearchStep(source, m, p)
    <3>1. /\ p[1] \in 1..Len(source) /\ p[2] \in 0..Len(m) /\ p = <<p[1], p[2]>>
      BY <1>0, <1>d, <1>s
    <3>2. SearchStep(source, m, <<p[1], p[2]>>)
      BY <3>1, SearchCases
    <3> QED  BY <3>1, <3>2
  <2>2. PICK k \in Fits(source, m, p[1], p[2]), c \in {0, p[2]} :
           \/ \A f : here(f, p) = p[1] + k
           \/ p[2] + k < Len(m) /\ \A f : here(f, p) = f[<<p[1] + k + 1, c>>]
    BY <2>1 DEF SearchStep
  <2>3. k \in 0..Len(m) /\ c \in 0..Len(m)
    BY <1>0, <1>d, <2>2 DEF Fits
  <2>4. p[1] + k + 1 \in start..n
    BY <1>0, <1>d, <1>s, <2>3
  <2> HIDE DEF here
  <2> QED  BY <1>d, <2>2, <2>3, <2>4
<1>1. ASSUME NEW f \in [D -> Nat], NEW p \in D PROVE here(f, p) \in Nat
  <2>1. CASE p[1] > Len(source)
    BY <2>1 DEF SearchAt
  <2>2. CASE p[1] <= Len(source)
    <3> HIDE DEF here
    <3>1. PICK k \in 0..Len(m), c \in 0..Len(m) :
                \/ here(f, p) = p[1] + k
                \/ <<p[1] + k + 1, c>> \in D /\ here(f, p) = f[<<p[1] + k + 1, c>>]
      BY <1>s, <2>2
    <3>2. p[1] + k \in Nat
      BY <1>0, <1>d
    <3> QED  BY <3>1, <3>2
  <2> QED  BY <1>0, <1>d, <2>1, <2>2
<1>2. B \in [[D -> Nat] -> [D -> Nat]]
  BY <1>1
<1>3. w \in [D -> 0..n]
  BY <1>0, <1>d
<1>4. ASSUME NEW f \in [D -> Nat], NEW g \in [D -> Nat], NEW p \in D,
             \A q \in D : w[q] < w[p] => f[q] = g[q]
      PROVE  here(f, p) = here(g, p)
  <2>1. \A q \in D : q[1] > p[1] => f[q] = g[q]
    BY <1>0, <1>d, <1>4
  <2>2. CASE p[1] > Len(source)
    BY <2>2 DEF SearchAt
  <2>3. CASE p[1] <= Len(source)
    <3> HIDE DEF here
    <3>1. PICK k \in 0..Len(m), c \in 0..Len(m) :
                \/ \A e : here(e, p) = p[1] + k
                \/ <<p[1] + k + 1, c>> \in D /\ \A e : here(e, p) = e[<<p[1] + k + 1, c>>]
      BY <1>s, <2>3
    <3>2. <<p[1] + k + 1, c>>[1] > p[1]
      BY <1>0, <1>d
    <3> QED  BY <2>1, <3>1, <3>2
  <2> QED  BY <1>0, <1>d, <2>2, <2>3
<1>5. \A f, g \in [D -> Nat] : \A p \in D :
         (\A q \in D : w[q] < w[p] => f[q] = g[q]) => B[f][p] = B[g][p]
  <2> HIDE DEF w, here
  <2> QED  BY <1>4
<1>6. PICK f \in [D -> Nat] : f = B[f]
  <2>1. Recursive(D, Nat, n, w, B)
    <3> HIDE DEF w, B, n
    <3> QED  BY <1>0, <1>2, <1>3, <1>5 DEF Recursive
  <2> HIDE DEF w, B, n
  <2> QED  BY <2>1, Recursion
<1>7. f = [p \in D |-> here(f, p)]
  BY <1>6
<1> DEFINE F == Search(source, start, m)
<1>8. F = [p \in D |-> here(F, p)]
  BY <1>7 DEF Search, D
<1> HIDE DEF F, here
<1>9. \A p \in D : F[p] = here(F, p)
  BY <1>8
<1> QED  BY <1>9 DEF F, D, here

(* The first mark from i on, of a tag that is nowhere hidden behind a piece *)
(* of itself, and what get_match gives for it.                             *)
NextMark(html, tag, i, v) ==
    \/ v = 0 /\ \A q \in Marks(html, tag) : q < i
    \/ \E p \in Marks(html, tag) :
          /\ p >= i /\ v = p + Len(tag.mark)
          /\ \A q \in Marks(html, tag) : q >= i => q >= p

LEMMA MarkPlaces ==
    ASSUME NEW C, NEW html \in Seq(C), NEW tag, Mark(C, tag.mark), NEW q \in Marks(html, tag)
    PROVE  /\ Len(html) \in Nat /\ Len(tag.mark) \in Nat /\ Len(tag.mark) > 0
           /\ q \in Nat /\ q \in 1..Len(html) /\ q + Len(tag.mark) <= Len(html) + 1
           /\ html[q] = tag.mark[1]
           /\ \A x \in 1..Len(tag.mark) : html[q + x - 1] = tag.mark[x]
<1> DEFINE m == tag.mark
<1>0. Len(html) \in Nat /\ Len(m) \in Nat /\ Len(m) > 0
  BY LenProperties DEF Mark
<1>1. /\ q \in 1..Len(html) - Len(m) + 1
      /\ \A x \in 1..Len(m) : html[q + x - 1] = m[x]
  BY DEF Marks
<1> HIDE DEF m
<1>2. q \in Nat /\ q \in 1..Len(html) /\ q + Len(m) <= Len(html) + 1
  BY <1>0, <1>1
<1>3. html[q] = m[1]
  <2>1. 1 \in 1..Len(m) /\ q + 1 - 1 = q
    BY <1>0, <1>2
  <2> QED  BY <1>1, <2>1
<1> QED  BY <1>0, <1>1, <1>2, <1>3 DEF m

LEMMA SkippedNoMark ==
    ASSUME NEW C, NEW html \in Seq(C), NEW tag, Mark(C, tag.mark), Tidy(html, tag),
           NEW i \in 1..Len(html), NEW k \in Fits(html, tag.mark, i, 0), k < Len(tag.mark),
           \A n \in Fits(html, tag.mark, i, 0) : n <= k
    PROVE  \A q \in Marks(html, tag) : q >= i => q >= i + k + 1
<1> DEFINE m == tag.mark
<1>0. /\ Len(html) \in Nat /\ Len(m) \in Nat /\ k \in 0..Len(m) - 1
      /\ \A n \in 1..k : i + n - 1 <= Len(html) /\ html[i + n - 1] = m[n]
      /\ \A x \in 2..Len(m) : m[x] # m[1]
  BY LenProperties DEF Mark, Fits
<1>t. ASSUME NEW x \in 1..Len(m) - 1, i + x \in Marks(html, tag)
      PROVE  \E n \in 1..x : html[i + n - 1] # m[n]
  BY <1>t DEF Tidy
<1> SUFFICES ASSUME NEW q \in Marks(html, tag), q >= i, q < i + k + 1 PROVE FALSE
  BY <1>0, MarkPlaces
<1>1. /\ q \in Nat /\ q + Len(m) <= Len(html) + 1 /\ html[q] = m[1]
      /\ \A x \in 1..Len(m) : html[q + x - 1] = m[x]
  BY MarkPlaces
<1> HIDE DEF m
<1>2. CASE q = i
  <2>1. \A x \in 1..Len(m) : i + x - 1 <= Len(html) /\ html[i + x - 1] = m[0 + x]
    BY <1>0, <1>1, <1>2
  <2>2. Len(m) \in 0..Len(m) - 0
    BY <1>0
  <2>3. Len(m) \in Fits(html, m, i, 0)
    BY <2>1, <2>2 DEF Fits
  <2> QED  BY <1>0, <2>3 DEF m
<1>3. CASE q > i /\ q < i + k
  <2>1. (q - i) + 1 \in 2..Len(m) /\ (q - i) + 1 \in 1..k /\ i + ((q - i) + 1) - 1 = q
    BY <1>0, <1>1, <1>3
  <2> QED  BY <1>0, <1>1, <2>1
<1>4. CASE q = i + k /\ k > 0
  <2>1. k \in 1..Len(m) - 1
    BY <1>0, <1>4
  <2> QED  BY <1>0, <1>4, <1>t, <2>1
<1> QED  BY <1>0, <1>1, <1>2, <1>3, <1>4

LEMMA MatchNext ==
    ASSUME NEW C, NEW html \in Seq(C), NEW tag, Mark(C, tag.mark), Tidy(html, tag),
           NEW start \in 1..Len(html)
    PROVE  NextMark(html, tag, start, GetMatch(html, start, tag.mark))
<1> DEFINE m == tag.mark
           F == Search(html, start, m)
           n == Len(html) + Len(m) + 1
           Good(i) == NextMark(html, tag, i, F[<<i, 0>>])
           S == {k \in Nat : \A i \in start..n : i >= n - k => Good(i)}
<1>0. Len(html) \in Nat /\ Len(m) \in Nat /\ n \in Nat
  BY LenProperties DEF Mark
<1>m. \A q \in Marks(html, tag) : q \in Nat /\ q \in 1..Len(html)
  BY MarkPlaces
<1>1. ASSUME NEW i \in start..n
      PROVE  F[<<i, 0>>] = SearchAt(html, m, GetNext(m), F, <<i, 0>>)
  <2>1. <<i, 0>> \in SearchPlaces(html, start, m)
    BY <1>0 DEF SearchPlaces
  <2> QED  BY <2>1, SearchEquation
<1> HIDE DEF F
<1>2. ASSUME NEW i \in start..n, i > Len(html) PROVE Good(i)
  <2>1. F[<<i, 0>>] = 0
    BY <1>1, <1>2 DEF SearchAt
  <2>2. \A q \in Marks(html, tag) : q < i
    BY <1>0, <1>m, <1>2
  <2> QED  BY <2>1, <2>2 DEF NextMark
<1>3. ASSUME NEW i \in start..n, i <= Len(html), \A j \in start..n : j > i => Good(j)
      PROVE  Good(i)
  <2>0. i \in 1..Len(html) /\ <<i, 0>>[1] = i /\ <<i, 0>>[2] = 0
    BY <1>0, <1>3
  <2>1. SearchStep(html, m, <<i, 0>>)
    <3>1. Mark(C, m) /\ 0 \in 0..Len(m)
      BY <1>0
    <3> HIDE DEF m
    <3> QED  BY <2>0, <3>1, SearchCases
  <2> DEFINE p == <<i, 0>>
  <2>p. p[1] = i /\ p[2] = 0 /\ SearchStep(html, m, p)
        /\ F[p] = SearchAt(html, m, GetNext(m), F, p)
    BY <1>1, <2>0, <2>1
  <2>2. PICK k \in Fits(html, m, i, 0) :
           /\ \A x \in Fits(html, m, i, 0) : x <= k
           /\ \/ k = Len(m) /\ F[<<i, 0>>] = i + k
              \/ k < Len(m) /\ F[<<i, 0>>] = F[<<i + k + 1, 0>>]
    <3>1. PICK k \in Fits(html, m, i, 0), c \in {0} :
             /\ \A x \in Fits(html, m, i, 0) : x <= k
             /\ \/ 0 + k = Len(m) /\ F[<<i, 0>>] = i + k
                \/ 0 + k < Len(m) /\ F[<<i, 0>>] = F[<<i + k + 1, c>>]
      <4> HIDE DEF p, m
      <4>1. PICK x \in Fits(html, m, p[1], p[2]), c \in {0, p[2]} :
               /\ \A y \in Fits(html, m, p[1], p[2]) : y <= x
               /\ \/ p[2] + x = Len(m) /\ F[p] = p[1] + x
                  \/ p[2] + x < Len(m) /\ F[p] = F[<<p[1] + x + 1, c>>]
        BY <2>p DEF SearchStep
      <4> QED  BY <2>p, <4>1 DEF p
    <3>2. 0 + k = k
      BY <1>0 DEF Fits
    <3> QED  BY <3>1, <3>2
  <2>3. k \in 0..Len(m) /\ \A x \in 1..k : i + x - 1 <= Len(html) /\ html[i + x - 1] = m[x]
    BY <1>0, <2>2 DEF Fits
  <2>4. CASE k = Len(m)
    <3>1. Len(m) > 0 /\ i + Len(m) - 1 <= Len(html)
      <4>1. Len(m) > 0 /\ Len(m) \in 1..k
        BY <1>0, <2>4 DEF Mark
      <4> QED  BY <2>3, <4>1
    <3>2. i \in 1..Len(html) - Len(m) + 1
      BY <1>0, <2>0, <3>1
    <3>3. i \in Marks(html, tag)
      BY <2>3, <2>4, <3>2 DEF Marks
    <3>4. F[<<i, 0>>] = i + Len(m)
      BY <2>2, <2>4, <3>1
    <3>5. i >= i /\ \A q \in Marks(html, tag) : q >= i => q >= i
      BY <2>0
    <3> DEFINE v == F[<<i, 0>>]
    <3> HIDE DEF v
    <3>6. \E x \in Marks(html, tag) :
             /\ x >= i /\ v = x + Len(m)
             /\ \A q \in Marks(html, tag) : q >= i => q >= x
      BY <3>3, <3>4, <3>5 DEF v
    <3>7. NextMark(html, tag, i, v)
      BY <3>6 DEF NextMark
    <3> QED  BY <3>7 DEF v
  <2>5. CASE k < Len(m)
    <3>1. i + k + 1 \in start..n /\ i + k + 1 > i
      <4>1. k \in 0..Len(m)
        BY <2>3
      <4>2. i \in Nat /\ start \in Nat /\ start <= i /\ i <= Len(html) /\ n = Len(html) + Len(m) + 1
        BY <1>0, <2>0
      <4> HIDE DEF n
      <4> QED  BY <1>0, <2>5, <4>1, <4>2
    <3>2. NextMark(html, tag, i + k + 1, F[<<i, 0>>])
      BY <1>3, <2>2, <2>5, <3>1
    <3>3. \A q \in Marks(html, tag) : q >= i => q >= i + k + 1
      BY <2>0, <2>2, <2>5, SkippedNoMark
    <3> DEFINE a == F[<<i, 0>>]
               j == i + k + 1
    <3>4. j > i /\ i \in Nat /\ j \in Nat
      BY <2>0, <3>1
    <3>5. \A q \in Marks(html, tag) : q \in Nat
      BY <1>m
    <3>6. NextMark(html, tag, j, a) /\ \A q \in Marks(html, tag) : q >= i => q >= j
      BY <3>2, <3>3
    <3> HIDE DEF a, j
    <3>9. NextMark(html, tag, i, a)
      <4>1. CASE a = 0 /\ \A q \in Marks(html, tag) : q < j
        <5>1. \A q \in Marks(html, tag) : q < i
          BY <3>4, <3>5, <3>6, <4>1
        <5> QED  BY <4>1, <5>1 DEF NextMark
      <4>2. CASE \E r \in Marks(html, tag) :
                   r >= j /\ a = r + Len(m) /\ \A q \in Marks(html, tag) : q >= j => q >= r
        <5>1. PICK r \in Marks(html, tag) :
                   r >= j /\ a = r + Len(m) /\ \A q \in Marks(html, tag) : q >= j => q >= r
          BY <4>2
        <5>2. r >= i /\ \A q \in Marks(html, tag) : q >= i => q >= r
          BY <3>4, <3>5, <3>6, <5>1
        <5> QED  BY <5>1, <5>2 DEF NextMark
      <4> QED  BY <3>6, <4>1, <4>2 DEF NextMark
    <3> QED  BY <3>9 DEF a
  <2> QED  BY <2>3, <2>4, <2>5
<1>4. 0 \in S
  BY <1>0, <1>2
<1>5. ASSUME NEW k \in Nat, k \in S PROVE k + 1 \in S
  <2>1. ASSUME NEW i \in start..n, i >= n - (k + 1) PROVE Good(i)
    <3>1. \A j \in start..n : j > i => Good(j)
      BY <1>0, <1>5, <2>1
    <3> QED  BY <1>0, <1>2, <1>3, <3>1
  <2> QED  BY <2>1
<1>6. n \in S
  <2> HIDE DEF S
  <2> QED  BY <1>0, <1>4, <1>5, SetInduction
<1>7. Good(start)
  BY <1>0, <1>6
<1> QED  BY <1>7, MatchSearch DEF F

-------------------------------------------------------------------------------
(* A page in which every tag can be read, and of what texts are made.       *)
Usable(C, html, tag) ==
    /\ Mark(C, tag.mark) /\ tag.attribute \in C /\ Quote \in C
    /\ tag.attribute # Quote /\ tag.attribute # tag.mark[1]
    /\ Readable(html, tag)

LEMMA HrefRead ==
    ASSUME NEW C, NEW html \in Seq(C), NEW tag, Usable(C, html, tag), NEW paths,
           NEW p \in Marks(html, tag), NEW k \in p + Len(tag.mark)..Len(html),
           NEW n \in p + Len(tag.mark)..Len(html),
           AttributeAt(html, tag, p, k, n)
    PROVE  /\ AddressAt(html, tag, p) = SubSeq(html, k + 1, n - 1)
           /\ GetHrefImg(paths, html, p + Len(tag.mark), tag.attribute)
                = [end |-> n, child |-> ChildUrl(paths, AddressAt(html, tag, p))]
           /\ \A q \in Marks(html, tag) : q > p => q >= n
<1> DEFINE a == tag.attribute
           b == p + Len(tag.mark)
<1>0. /\ Len(html) \in Nat /\ p \in 1..Len(html) /\ p \in Nat /\ k \in Nat /\ n \in Nat
      /\ b \in Nat /\ p < b /\ b <= k /\ k + 1 < n /\ n <= Len(html)
      /\ a \in C /\ Quote \in C /\ a # Quote /\ html[p] # a /\ html[k] = a /\ html[n] = Quote
  <2>1. /\ Len(html) \in Nat /\ p \in 1..Len(html) /\ html[p] = tag.mark[1] /\ p \in Nat
        /\ b \in Nat /\ p < b
    <3>1. /\ Len(html) \in Nat /\ p \in 1..Len(html) /\ html[p] = tag.mark[1] /\ p \in Nat
          /\ Len(tag.mark) \in Nat /\ Len(tag.mark) > 0
      BY MarkPlaces DEF Usable
    <3> QED  BY <3>1
  <2>2. a \in C /\ Quote \in C /\ a # Quote /\ html[p] # a
    BY <2>1 DEF Usable
  <2>3. k + 1 < n /\ html[k] = a /\ html[n] = Quote
    BY DEF AttributeAt
  <2>4. k \in Nat /\ n \in Nat /\ b <= k /\ n <= Len(html)
    <3>1. k \in b..Len(html) /\ n \in b..Len(html)
      OBVIOUS
    <3> HIDE DEF b
    <3> QED  BY <2>1, <3>1
  <2> QED  BY <2>1, <2>2, <2>3, <2>4
<1>1. /\ \A j \in p + 1..n - 1 : j \notin Marks(html, tag)
      /\ \A j \in k + 1..n - 1 : html[j] # Quote
      /\ \A j \in p + 1..k - 1 : html[j] # a
  BY DEF AttributeAt
<1> HIDE DEF a, b
<1>2. Find(html, <<a>>, p) = k
  <2>1. p \in 1..Len(html) /\ k \in p..Len(html) /\ \A j \in p..k - 1 : j = p \/ j \in p + 1..k - 1
    BY <1>0
  <2>2. \A j \in p..k - 1 : html[j] # a
    BY <1>0, <1>1, <2>1
  <2> QED  BY <1>0, <2>1, <2>2, FindOne
<1>3. Find(html, <<a>>, b) = k
  <2>1. b \in 1..Len(html) /\ k \in b..Len(html) /\ \A j \in b..k - 1 : j \in p + 1..k - 1
    BY <1>0
  <2>2. \A j \in b..k - 1 : html[j] # a
    BY <1>1, <2>1
  <2> QED  BY <1>0, <2>1, <2>2, FindOne
<1>4. Find(html, <<Quote>>, k + 1) = n
  <2>1. k + 1 \in 1..Len(html) /\ n \in k + 1..Len(html)
    BY <1>0
  <2> QED  BY <1>0, <1>1, <2>1, FindOne
<1>5. Find(html, <<Quote>>, k) = n
  <2>1. k \in 1..Len(html) /\ n \in k..Len(html) /\ \A j \in k..n - 1 : j = k \/ j \in k + 1..n - 1
    BY <1>0
  <2>2. \A j \in k..n - 1 : html[j] # Quote
    BY <1>0, <1>1, <2>1
  <2> QED  BY <1>0, <2>1, <2>2, FindOne
<1>6. AddressAt(html, tag, p) = SubSeq(html, k + 1, n - 1)
  BY <1>2, <1>5 DEF AddressAt, a
<1>7. GetHrefImg(paths, html, p + Len(tag.mark), tag.attribute)
        = [end |-> n, child |-> ChildUrl(paths, SubSeq(html, k + 1, n - 1))]
  <2>1. k # 0 /\ n # 0
    BY <1>0
  <2> QED  BY <1>3, <1>4, <2>1 DEF GetHrefImg, a, b
<1>8. ASSUME NEW q \in Marks(html, tag), q > p PROVE q >= n
  <2>1. q \in Nat
    BY MarkPlaces DEF Usable
  <2>2. q \notin p + 1..n - 1
    BY <1>1
  <2> QED  BY <1>0, <1>8, <2>1, <2>2
<1> QED  BY <1>6, <1>7, <1>8

(* The address in full.                                                    *)
Completable(C, paths) == paths.root \in Seq(C) /\ paths.current \in Seq(C)

LEMMA Words == Script # Scheme /\ Script # "/" /\ Scheme # "/"
BY Zenon DEF Script, Scheme

LEMMA LongerText ==
    ASSUME NEW C, NEW s \in Seq(C), NEW u \in Seq(C), u # <<>>
    PROVE  s \o u \in Seq(C) /\ s \o u # <<>>
<1>1. Len(s) \in Nat /\ Len(u) \in Nat /\ Len(u) # 0
  BY LenProperties, EmptySeq
<1>2. s \o u \in Seq(C) /\ Len(s \o u) = Len(s) + Len(u)
  BY ConcatProperties
<1>3. Len(s \o u) # 0
  BY <1>1, <1>2
<1> QED  BY <1>2, <1>3, EmptySeq

LEMMA ChildText ==
    ASSUME NEW C, NEW paths, Completable(C, paths), NEW text \in Seq(C), text # <<>>
    PROVE  /\ ChildUrl(paths, text) \in Seq(C)
           /\ ChildUrl(paths, text) = <<>> <=> text[1] = Script
           /\ text[1] = Scheme => ChildUrl(paths, text) = text
           /\ text[1] = "/" => ChildUrl(paths, text) = paths.root \o text
           /\ text[1] \notin {Script, Scheme, "/"} =>
                 ChildUrl(paths, text) = paths.current \o text
<1>1. text[1] = Script => ChildUrl(paths, text) = <<>>
  BY Words DEF ChildUrl
<1>2. text[1] = Scheme => ChildUrl(paths, text) = text
  BY Words DEF ChildUrl
<1>3. text[1] = "/" => ChildUrl(paths, text) = paths.root \o text
  BY Words DEF ChildUrl
<1>4. text[1] \notin {Script, Scheme, "/"} => ChildUrl(paths, text) = paths.current \o text
  BY DEF ChildUrl
<1>5. /\ paths.root \o text \in Seq(C) /\ paths.root \o text # <<>>
      /\ paths.current \o text \in Seq(C) /\ paths.current \o text # <<>>
  BY LongerText DEF Completable
<1>6. <<>> \in Seq(C)
  BY EmptySeq
<1> QED  BY <1>1, <1>2, <1>3, <1>4, <1>5, <1>6, Words

(* The links of one tag, from place i on.                                  *)
FromAt(paths, html, tag, from, i) ==
    LET pos == GetMatch(html, i, tag.mark)
        found == GetHrefImg(paths, html, pos, tag.attribute)
    IN  IF i > Len(html) \/ pos = 0 THEN <<>>
        ELSE (IF found.child = <<>> THEN <<>> ELSE <<found.child>>) \o from[found.end]

From(paths, html, tag) ==
    CHOOSE from : from = [i \in 1..Len(html) + 1 |-> FromAt(paths, html, tag, from, i)]

LEMMA Collected ==
    ASSUME NEW url, NEW html
    PROVE  LET paths == GetRootCurrentUrl(url)
           IN  GetAllUrl(url, html)
                 = From(paths, html, Tags[1])[1] \o From(paths, html, Tags[2])[1]
BY DEF GetAllUrl, From, FromAt

Child(paths, html, tag, p) == ChildUrl(paths, AddressAt(html, tag, p))

One(child) == IF child = <<>> THEN <<>> ELSE <<child>>

(* No mark is left, or the first one is read and the rest follows.          *)
FromStep(paths, html, tag, i) ==
    \/ /\ \A q \in Marks(html, tag) : q < i
       /\ \A f : FromAt(paths, html, tag, f, i) = <<>>
    \/ \E p \in Marks(html, tag), n \in 1..Len(html) :
          /\ i <= p /\ p < n
          /\ \A q \in Marks(html, tag) : q >= i => q = p \/ q >= n
          /\ AddressAt(html, tag, p) # <<>>
          /\ \A f : FromAt(paths, html, tag, f, i) = One(Child(paths, html, tag, p)) \o f[n]

LEMMA FromCases ==
    ASSUME NEW C, NEW html \in Seq(C), NEW tag, Usable(C, html, tag), NEW paths,
           NEW i \in 1..Len(html)
    PROVE  FromStep(paths, html, tag, i)
<1> DEFINE pos == GetMatch(html, i, tag.mark)
<1>0. /\ Len(html) \in Nat /\ ~(i > Len(html)) /\ i \in Nat
      /\ \A q \in Marks(html, tag) : q \in Nat /\ q \in 1..Len(html)
  BY LenProperties, MarkPlaces DEF Usable
<1>1. NextMark(html, tag, i, pos)
  BY MatchNext DEF Usable, Readable
<1> HIDE DEF pos
<1>2. CASE pos = 0 /\ \A q \in Marks(html, tag) : q < i
  <2>1. \A f : FromAt(paths, html, tag, f, i) = <<>>
    BY <1>2 DEF FromAt, pos
  <2> QED  BY <1>2, <2>1 DEF FromStep
<1>3. CASE \E p \in Marks(html, tag) :
              /\ p >= i /\ pos = p + Len(tag.mark)
              /\ \A q \in Marks(html, tag) : q >= i => q >= p
  <2>1. PICK p \in Marks(html, tag) :
              /\ p >= i /\ pos = p + Len(tag.mark)
              /\ \A q \in Marks(html, tag) : q >= i => q >= p
    BY <1>3
  <2>2. PICK k, n \in p + Len(tag.mark)..Len(html) : AttributeAt(html, tag, p, k, n)
    BY DEF Usable, Readable
  <2>p. p \in 1..Len(html) /\ p \in Nat /\ n \in 1..Len(html) /\ k \in Nat /\ i <= p /\ p < n /\ pos # 0
    <3>1. p \in Nat /\ p \in 1..Len(html) /\ Len(tag.mark) \in Nat /\ Len(tag.mark) > 0
      BY MarkPlaces DEF Usable
    <3> QED  BY <1>0, <2>1, <3>1
  <2>3. /\ AddressAt(html, tag, p) = SubSeq(html, k + 1, n - 1)
        /\ GetHrefImg(paths, html, p + Len(tag.mark), tag.attribute)
             = [end |-> n, child |-> Child(paths, html, tag, p)]
        /\ \A q \in Marks(html, tag) : q > p => q >= n
    BY <2>2, HrefRead DEF Child
  <2>4. AddressAt(html, tag, p) # <<>>
    <3>1. /\ k + 1 \in Nat /\ n - 1 \in Nat /\ 1 <= k + 1 /\ k + 1 <= (n - 1) + 1 /\ n - 1 <= Len(html)
          /\ (n - 1) - (k + 1) + 1 # 0
      BY <1>0, <2>2, <2>p DEF AttributeAt
    <3>2. Len(SubSeq(html, k + 1, n - 1)) = (n - 1) - (k + 1) + 1
      BY <3>1, Piece
    <3> QED  BY <2>3, <3>1, <3>2, EmptySeq
  <2>5. \A q \in Marks(html, tag) : q >= i => q = p \/ q >= n
    BY <1>0, <2>1, <2>3, <2>p
  <2>6. ASSUME NEW f
        PROVE  FromAt(paths, html, tag, f, i) = One(Child(paths, html, tag, p)) \o f[n]
    <3> DEFINE r == [end |-> n, child |-> Child(paths, html, tag, p)]
    <3>1. pos # 0 /\ GetHrefImg(paths, html, pos, tag.attribute) = r
      BY <2>1, <2>3, <2>p
    <3>2. r.end = n /\ r.child = Child(paths, html, tag, p)
      OBVIOUS
    <3> HIDE DEF r
    <3>3. FromAt(paths, html, tag, f, i)
            = (IF r.child = <<>> THEN <<>> ELSE <<r.child>>) \o f[r.end]
      BY <1>0, <3>1 DEF FromAt, pos
    <3> QED  BY <3>2, <3>3 DEF One
  <2> QED  BY <2>4, <2>5, <2>6, <2>p DEF FromStep
<1> QED  BY <1>1, <1>2, <1>3 DEF NextMark

LEMMA OneText ==
    ASSUME NEW C, NEW paths, Completable(C, paths), NEW html \in Seq(C), NEW tag, Usable(C, html, tag),
           NEW p \in Marks(html, tag)
    PROVE  /\ AddressAt(html, tag, p) \in Seq(C) /\ AddressAt(html, tag, p) # <<>>
           /\ Child(paths, html, tag, p) \in Seq(C)
           /\ Child(paths, html, tag, p) = <<>> <=> p \notin Kept(html, tag)
           /\ One(Child(paths, html, tag, p)) \in Seq(Seq(C))
<1>0. Len(html) \in Nat /\ p \in 1..Len(html) /\ p + Len(tag.mark) \in Nat
  <2>1. Len(html) \in Nat /\ p \in 1..Len(html) /\ p \in Nat /\ Len(tag.mark) \in Nat
    BY MarkPlaces DEF Usable
  <2> QED  BY <2>1
<1>1. PICK k, n \in p + Len(tag.mark)..Len(html) : AttributeAt(html, tag, p, k, n)
  BY DEF Usable, Readable
<1>2. AddressAt(html, tag, p) = SubSeq(html, k + 1, n - 1)
  BY <1>1, HrefRead
<1>3. /\ k + 1 \in Nat /\ n - 1 \in Nat /\ 1 <= k + 1 /\ k + 1 <= (n - 1) + 1 /\ n - 1 <= Len(html)
      /\ (n - 1) - (k + 1) + 1 # 0
  BY <1>0, <1>1 DEF AttributeAt
<1>4. SubSeq(html, k + 1, n - 1) \in Seq(C) /\ Len(SubSeq(html, k + 1, n - 1)) = (n - 1) - (k + 1) + 1
  BY <1>3, Piece
<1>5. AddressAt(html, tag, p) \in Seq(C) /\ AddressAt(html, tag, p) # <<>>
  BY <1>2, <1>3, <1>4, EmptySeq
<1>6. Child(paths, html, tag, p) \in Seq(C)
      /\ (Child(paths, html, tag, p) = <<>> <=> AddressAt(html, tag, p)[1] = Script)
  BY <1>5, ChildText DEF Child
<1>7. One(Child(paths, html, tag, p)) \in Seq(Seq(C))
  <2> DEFINE c == Child(paths, html, tag, p)
  <2> HIDE DEF c
  <2>1. c \in Seq(C)
    BY <1>6 DEF c
  <2>2. <<>> \in Seq(Seq(C)) /\ <<c>> \in Seq(Seq(C))
    BY <2>1, EmptySeq, OneElement
  <2>3. One(c) \in Seq(Seq(C))
    BY <2>2 DEF One
  <2> QED  BY <2>3 DEF c
<1> QED  BY <1>5, <1>6, <1>7 DEF Kept

LEMMA FromEquation ==
    ASSUME NEW C, NEW paths, Completable(C, paths), NEW html \in Seq(C), NEW tag, Usable(C, html, tag)
    PROVE  LET F == From(paths, html, tag)
           IN  \A i \in 1..Len(html) + 1 : F[i] = FromAt(paths, html, tag, F, i)
<1> DEFINE D == 1..Len(html) + 1
           V == Seq(Seq(C))
           b == Len(html) + 1
           w == [i \in D |-> b - i]
           here(f, i) == FromAt(paths, html, tag, f, i)
           B == [f \in [D -> V] |-> [i \in D |-> here(f, i)]]
<1>0. Len(html) \in Nat /\ b \in Nat /\ \A i \in D : i \in 1..Len(html) \/ i > Len(html)
  BY LenProperties
<1>e. <<>> \in V
  BY EmptySeq
<1>s. ASSUME NEW i \in 1..Len(html)
      PROVE  \/ \A f : here(f, i) = <<>>
             \/ \E n \in i + 1..Len(html), c \in V : \A f : here(f, i) = c \o f[n]
  <2>1. FromStep(paths, html, tag, i)
    BY FromCases
  <2>2. CASE \A f : here(f, i) = <<>>
    BY <2>2
  <2>3. ASSUME NEW p \in Marks(html, tag), NEW n \in 1..Len(html), i <= p, p < n,
               \A f : here(f, i) = One(Child(paths, html, tag, p)) \o f[n]
        PROVE  \E x \in i + 1..Len(html), c \in V : \A f : here(f, i) = c \o f[x]
    <3>1. One(Child(paths, html, tag, p)) \in V
      BY OneText
    <3>2. p \in Nat
      BY MarkPlaces DEF Usable
    <3>3. n \in i + 1..Len(html)
      BY <1>0, <2>3, <3>2
    <3> HIDE DEF here, V
    <3> QED  BY <2>3, <3>1, <3>3
  <2> QED  BY <2>1, <2>2, <2>3 DEF FromStep
<1>1. ASSUME NEW f \in [D -> V], NEW i \in D PROVE here(f, i) \in V
  <2>1. CASE i > Len(html)
    BY <1>e, <2>1 DEF FromAt
  <2>2. CASE i \in 1..Len(html)
    <3> HIDE DEF here
    <3>1. CASE here(f, i) = <<>>
      BY <1>e, <3>1
    <3>2. ASSUME NEW n \in i + 1..Len(html), NEW c \in V, here(f, i) = c \o f[n]
          PROVE  here(f, i) \in V
      <4>1. n \in D
        BY <1>0
      <4>2. f[n] \in V
        BY <4>1
      <4>3. ASSUME NEW x \in V, NEW y \in V PROVE x \o y \in V
        BY <4>3, ConcatProperties
      <4> HIDE DEF V
      <4> QED  BY <3>2, <4>2, <4>3
    <3> QED  BY <1>s, <2>2, <3>1, <3>2
  <2> QED  BY <1>0, <2>1, <2>2
<1>2. B \in [[D -> V] -> [D -> V]]
  BY <1>1
<1>3. w \in [D -> 0..b]
  BY <1>0
<1>4. ASSUME NEW f \in [D -> V], NEW g \in [D -> V], NEW i \in D,
             \A j \in D : w[j] < w[i] => f[j] = g[j]
      PROVE  here(f, i) = here(g, i)
  <2>1. \A j \in D : j > i => f[j] = g[j]
    BY <1>0, <1>4
  <2>2. CASE i > Len(html)
    BY <2>2 DEF FromAt
  <2>3. CASE i \in 1..Len(html)
    <3> HIDE DEF here, V
    <3>1. CASE \A e : here(e, i) = <<>>
      BY <3>1
    <3>2. ASSUME NEW n \in i + 1..Len(html), NEW c, \A e : here(e, i) = c \o e[n]
          PROVE  here(f, i) = here(g, i)
      <4>1. n \in D /\ n > i
        BY <1>0
      <4> QED  BY <2>1, <3>2, <4>1
    <3> QED  BY <1>s, <2>3, <3>1, <3>2
  <2> QED  BY <1>0, <2>2, <2>3
<1>5. \A f, g \in [D -> V] : \A i \in D :
         (\A j \in D : w[j] < w[i] => f[j] = g[j]) => B[f][i] = B[g][i]
  <2> HIDE DEF w, here, D, V
  <2> QED  BY <1>4
<1>6. PICK f \in [D -> V] : f = B[f]
  <2>0. V # {}
    BY <1>e
  <2>1. Recursive(D, V, b, w, B)
    <3> HIDE DEF w, B, b, D, V
    <3> QED  BY <1>0, <1>2, <1>3, <1>5, <2>0 DEF Recursive
  <2> HIDE DEF w, B, b, D, V
  <2> QED  BY <2>1, Recursion
<1>7. f = [i \in D |-> here(f, i)]
  BY <1>6
<1> DEFINE F == From(paths, html, tag)
<1>8. F = [i \in D |-> here(F, i)]
  BY <1>7 DEF From
<1> HIDE DEF F, here
<1>9. \A i \in D : F[i] = here(F, i)
  BY <1>8
<1> QED  BY <1>9 DEF F, here

(* The r-th link is that of the r-th of the places K.                      *)
Ranked(K, s, paths, html, tag) ==
    /\ Len(s) = Cardinality(K)
    /\ \A p \in K : s[Cardinality({q \in K : q <= p})] = Child(paths, html, tag, p)

LEMMA RankedNext ==
    ASSUME NEW E, NEW s \in Seq(E), NEW K, IsFiniteSet(K), K \subseteq Nat, NEW p \in Nat, \A q \in K : q > p,
           NEW paths, NEW html, NEW tag, Child(paths, html, tag, p) \in E,
           Ranked(K, s, paths, html, tag)
    PROVE  Ranked({p} \cup K, <<Child(paths, html, tag, p)>> \o s, paths, html, tag)
<1> DEFINE e == Child(paths, html, tag, p)
           L == {p} \cup K
           t == <<e>> \o s
           R(q) == {j \in K : j <= q}
<1>0. e \in E /\ Len(s) \in Nat /\ Len(s) = Cardinality(K) /\ p \notin K
  BY LenProperties DEF Ranked
<1> HIDE DEF e
<1>1. /\ t \in Seq(E) /\ Len(t) = 1 + Len(s) /\ t[1] = e
      /\ \A r \in 1..Len(s) : t[r + 1] = s[r]
  <2>1. <<e>> \in Seq(E) /\ Len(<<e>>) = 1 /\ <<e>>[1] = e
    BY <1>0, OneElement
  <2>2. /\ t \in Seq(E) /\ Len(t) = Len(<<e>>) + Len(s)
        /\ \A i \in 1..Len(<<e>>) + Len(s) :
              t[i] = IF i <= Len(<<e>>) THEN <<e>>[i] ELSE s[i - Len(<<e>>)]
    BY <2>1, ConcatProperties
  <2>3. /\ 1 \in 1..1 + Len(s) /\ 1 <= 1
        /\ \A r \in 1..Len(s) : r + 1 \in 1..1 + Len(s) /\ ~(r + 1 <= 1) /\ (r + 1) - 1 = r
    BY <1>0
  <2> HIDE DEF t
  <2> QED  BY <2>1, <2>2, <2>3
<1> HIDE DEF t
<1>2. Cardinality(L) = Len(s) + 1
  <2>1. Cardinality(K \cup {p}) = Cardinality(K) + 1
    BY <1>0, FS_AddElement
  <2>2. L = K \cup {p}
    OBVIOUS
  <2> QED  BY <1>0, <2>1, <2>2
<1>3. t[Cardinality({q \in L : q <= p})] = e
  <2>1. {q \in L : q <= p} = {p}
    <3>1. \A q \in K : ~(q <= p)
      OBVIOUS
    <3>2. p <= p
      OBVIOUS
    <3> QED  BY <3>1, <3>2
  <2>2. Cardinality({p}) = 1
    BY FS_Singleton
  <2> QED  BY <1>1, <2>1, <2>2
<1>4. ASSUME NEW q \in K PROVE t[Cardinality({j \in L : j <= q})] = Child(paths, html, tag, q)
  <2>1. {j \in L : j <= q} = R(q) \cup {p} /\ p \notin R(q) /\ R(q) \subseteq K /\ q \in R(q)
    BY <1>0
  <2>2. IsFiniteSet(R(q)) /\ Cardinality(R(q)) <= Cardinality(K)
    BY <2>1, FS_Subset
  <2>3. Cardinality(R(q)) \in Nat /\ Cardinality(R(q)) # 0
    BY <2>1, <2>2, FS_CardinalityType, FS_EmptySet
  <2>4. Cardinality(R(q) \cup {p}) = Cardinality(R(q)) + 1
    BY <2>1, <2>2, FS_AddElement
  <2>5. s[Cardinality(R(q))] = Child(paths, html, tag, q)
    BY DEF Ranked
  <2>6. Cardinality({j \in L : j <= q}) = Cardinality(R(q)) + 1
    BY <2>1, <2>4
  <2>7. Cardinality(R(q)) \in 1..Len(s)
    BY <1>0, <2>2, <2>3
  <2> QED  BY <1>1, <2>5, <2>6, <2>7
<1>5. Len(t) = Cardinality(L)
  BY <1>0, <1>1, <1>2
<1>6. \A q \in L : t[Cardinality({j \in L : j <= q})] = Child(paths, html, tag, q)
  BY <1>3, <1>4 DEF e
<1>7. Ranked(L, t, paths, html, tag)
  BY <1>5, <1>6 DEF Ranked
<1> QED  BY <1>7 DEF t, e

LEMMA FromRanked ==
    ASSUME NEW C, NEW paths, Completable(C, paths), NEW html \in Seq(C), NEW tag, Usable(C, html, tag)
    PROVE  /\ From(paths, html, tag)[1] \in Seq(Seq(C)) /\ IsFiniteSet(Kept(html, tag))
           /\ Ranked(Kept(html, tag), From(paths, html, tag)[1], paths, html, tag)
<1> DEFINE F == From(paths, html, tag)
           b == Len(html) + 1
           K(i) == {p \in Kept(html, tag) : p >= i}
           Good(i) == F[i] \in Seq(Seq(C)) /\ Ranked(K(i), F[i], paths, html, tag)
           S == {k \in Nat : \A i \in 1..b : i >= b - k => Good(i)}
<1>0. /\ Len(html) \in Nat /\ b \in Nat
      /\ \A q \in Kept(html, tag) : q \in Marks(html, tag)
      /\ \A q \in Marks(html, tag) : q \in 1..Len(html) /\ q \in Nat
  BY LenProperties, MarkPlaces DEF Kept, Usable
<1>f. IsFiniteSet(Kept(html, tag)) /\ \A i \in Nat : IsFiniteSet(K(i))
  <2>1. IsFiniteSet(1..Len(html))
    BY <1>0, FS_Interval
  <2>2. Kept(html, tag) \subseteq 1..Len(html) /\ \A i \in Nat : K(i) \subseteq 1..Len(html)
    BY <1>0
  <2> QED  BY <2>1, <2>2, FS_Subset
<1>1. \A i \in 1..b : F[i] = FromAt(paths, html, tag, F, i)
  BY FromEquation
<1> HIDE DEF F
<1>e. ASSUME NEW i \in 1..b, F[i] = <<>>, K(i) = {} PROVE Good(i)
  <2>1. Cardinality({}) = 0 /\ Len(<<>>) = 0 /\ <<>> \in Seq(Seq(C))
    BY FS_EmptySet, EmptySeq
  <2> QED  BY <1>e, <2>1 DEF Ranked
<1>2. ASSUME NEW i \in 1..b, i > Len(html) PROVE Good(i)
  <2>1. F[i] = <<>>
    BY <1>1, <1>2 DEF FromAt
  <2>2. K(i) = {}
    BY <1>0, <1>2
  <2> QED  BY <1>e, <2>1, <2>2
<1>3. ASSUME NEW i \in 1..Len(html), \A j \in 1..b : j > i => Good(j) PROVE Good(i)
  <2>0. i \in 1..b
    BY <1>0
  <2>1. CASE (\A q \in Marks(html, tag) : q < i) /\ \A f : FromAt(paths, html, tag, f, i) = <<>>
    <3>1. F[i] = <<>>
      BY <1>1, <2>0, <2>1
    <3>2. K(i) = {}
      BY <1>0, <2>0, <2>1
    <3> QED  BY <1>e, <2>0, <3>1, <3>2
  <2>2. ASSUME NEW p \in Marks(html, tag), NEW n \in 1..Len(html), i <= p, p < n,
               \A q \in Marks(html, tag) : q >= i => q = p \/ q >= n,
               \A f : FromAt(paths, html, tag, f, i) = One(Child(paths, html, tag, p)) \o f[n]
        PROVE  Good(i)
    <3>0. p \in Nat /\ n \in 1..b /\ n > i /\ n \in Nat
      BY <1>0, <2>2
    <3>1. Good(n)
      BY <1>3, <3>0
    <3>k. \A q \in Kept(html, tag) : /\ q \in Nat /\ (q >= i => q = p \/ q >= n)
                                    /\ q >= n => q >= i /\ q > p
      <4>1. \A q \in Kept(html, tag) : q \in Nat /\ (q >= i => q = p \/ q >= n)
        BY <1>0, <2>2
      <4>2. \A q \in Nat : q >= n => q >= i /\ q > p
        BY <1>0, <2>2, <3>0
      <4> QED  BY <4>1, <4>2
    <3>2. F[i] = One(Child(paths, html, tag, p)) \o F[n]
      BY <1>1, <2>0, <2>2
    <3>3. CASE p \in Kept(html, tag)
      <4>1. K(i) = {p} \cup K(n)
        <5>1. p \in K(i)
          BY <2>2, <3>3
        <5>2. \A q \in Kept(html, tag) : q >= i <=> q = p \/ q >= n
          BY <1>0, <2>2, <3>0, <3>k
        <5> QED  BY <3>3, <5>1, <5>2
      <4>2. \A q \in K(n) : q > p
        BY <1>0, <2>2, <3>0, <3>k
      <4>3. /\ Child(paths, html, tag, p) \in Seq(C)
            /\ One(Child(paths, html, tag, p)) = <<Child(paths, html, tag, p)>>
            /\ One(Child(paths, html, tag, p)) \in Seq(Seq(C))
        BY <3>3, OneText DEF One
      <4>4. IsFiniteSet(K(n)) /\ K(n) \subseteq Nat
        BY <1>0, <1>f, <3>0
      <4>5. Ranked(K(i), F[i], paths, html, tag)
        <5> DEFINE N == K(n)
        <5> HIDE DEF N
        <5>1. Ranked(N, F[n], paths, html, tag) /\ F[n] \in Seq(Seq(C))
          BY <3>1 DEF N
        <5>2. IsFiniteSet(N) /\ N \subseteq Nat /\ \A q \in N : q > p
          BY <4>2, <4>4 DEF N
        <5>3. Ranked({p} \cup N, <<Child(paths, html, tag, p)>> \o F[n], paths, html, tag)
          BY <3>0, <4>3, <5>1, <5>2, RankedNext
        <5> QED  BY <3>2, <4>1, <4>3, <5>3 DEF N
      <4>6. F[i] \in Seq(Seq(C))
        BY <3>1, <3>2, <4>3, ConcatProperties
      <4> QED  BY <4>5, <4>6
    <3>4. CASE p \notin Kept(html, tag)
      <4>1. K(i) = K(n)
        <5>1. \A q \in Kept(html, tag) : q >= i <=> q >= n
          BY <1>0, <2>2, <3>0, <3>4, <3>k
        <5> QED  BY <5>1
      <4>2. One(Child(paths, html, tag, p)) = <<>>
        BY <3>4, OneText DEF One
      <4>3. F[i] = F[n]
        <5>1. \A s \in Seq(Seq(C)) : <<>> \o s = s
          BY ConcatEmptySeq
        <5> QED  BY <3>1, <3>2, <4>2, <5>1
      <4> QED  BY <3>1, <4>1, <4>3
    <3> QED  BY <3>3, <3>4
  <2>3. FromStep(paths, html, tag, i)
    BY FromCases
  <2> HIDE DEF Good
  <2> QED  BY <2>1, <2>2, <2>3 DEF FromStep
<1> HIDE DEF Good
<1>4. 0 \in S
  BY <1>0, <1>2
<1>5. ASSUME NEW k \in Nat, k \in S PROVE k + 1 \in S
  <2>1. ASSUME NEW i \in 1..b, i >= b - (k + 1) PROVE Good(i)
    <3>1. \A j \in 1..b : j > i => Good(j)
      BY <1>0, <1>5, <2>1
    <3>2. i \in 1..Len(html) \/ i > Len(html)
      BY <1>0
    <3> QED  BY <1>2, <1>3, <3>1, <3>2
  <2> QED  BY <2>1
<1>6. b \in S
  <2> HIDE DEF S
  <2> QED  BY <1>0, <1>4, <1>5, SetInduction
<1>7. Good(1)
  BY <1>0, <1>6
<1>8. K(1) = Kept(html, tag)
  BY <1>0
<1> QED  BY <1>7, <1>8, <1>f DEF F, Good

-------------------------------------------------------------------------------
(* The address of the page: its host ends at H, its path begins at R.       *)
UrlAt(url, H, R) ==
    /\ R \in 2..Len(url) /\ H \in 2..R
    /\ url[R] = "/" /\ \A i \in 2..R - 1 : url[i] # "/"
    /\ url[H] \in {":", "/"} /\ \A i \in 2..H - 1 : url[i] \notin {":", "/"}

LEMMA UrlPlaces ==
    ASSUME NEW C, NEW url \in Seq(C), Slashes(url) # {}
    PROVE  \E H : UrlAt(url, H, RootPos(url))
<1> DEFINE ends == {i \in 2..Len(url) : url[i] \in {":", "/"}}
           R == RootPos(url)
<1>0. Len(url) \in Nat /\ Slashes(url) \subseteq Nat /\ ends \subseteq Nat
  BY LenProperties DEF Slashes
<1>1. \E i \in Slashes(url) : \A j \in Slashes(url) : i <= j
  BY <1>0, LeastNat
<1>2. R \in Slashes(url) /\ \A j \in Slashes(url) : R <= j
  BY <1>1 DEF RootPos
<1> HIDE DEF R
<1>3. R \in 2..Len(url) /\ url[R] = "/" /\ R \in ends
  BY <1>2 DEF Slashes
<1>4. \A i \in 2..R - 1 : url[i] # "/"
  <2> SUFFICES ASSUME NEW i \in 2..R - 1, url[i] = "/" PROVE FALSE
    OBVIOUS
  <2>1. i \in Slashes(url)
    BY <1>0, <1>3 DEF Slashes
  <2> QED  BY <1>0, <1>2, <1>3, <2>1
<1>5. PICK H \in ends : \A j \in ends : H <= j
  <2> HIDE DEF ends
  <2> QED  BY <1>0, <1>3, LeastNat
<1>6. H \in 2..R
  BY <1>0, <1>3, <1>5
<1>7. \A i \in 2..H - 1 : url[i] \notin {":", "/"}
  <2> SUFFICES ASSUME NEW i \in 2..H - 1, url[i] \in {":", "/"} PROVE FALSE
    OBVIOUS
  <2>1. i \in ends
    BY <1>0, <1>3, <1>6
  <2> QED  BY <1>0, <1>5, <1>6, <2>1
<1> QED  BY <1>3, <1>4, <1>5, <1>6, <1>7 DEF UrlAt, R

LEMMA UrlParts ==
    ASSUME NEW C, "/" \in C, NEW url \in Seq(C), NEW H, NEW R, UrlAt(url, H, R)
    PROVE  /\ PraseUrl(url).host = SubSeq(url, 2, H - 1)
           /\ PraseUrl(url).port = IF url[H] = ":" THEN SubSeq(url, H + 1, R - 1) ELSE <<"80">>
           /\ PraseUrl(url).uri = SubSeq(url, R, Len(url))
<1> DEFINE ends == {i \in 2..Len(url) : url[i] \in {":", "/"}}
           hostEnd == IF ends = {} THEN Len(url) + 1
                      ELSE CHOOSE i \in ends : \A j \in ends : i <= j
           withPort == ends # {} /\ url[hostEnd] = ":"
           path == IF withPort THEN Find(url, <<"/">>, hostEnd + 1) ELSE hostEnd
<1>0. /\ Len(url) \in Nat /\ R \in 2..Len(url) /\ H \in 2..R /\ R \in Nat /\ H \in Nat
      /\ H \in ends /\ ends \subseteq Nat
      /\ url[R] = "/" /\ \A i \in 2..R - 1 : url[i] # "/"
      /\ url[H] \in {":", "/"} /\ \A i \in 2..H - 1 : url[i] \notin {":", "/"}
  <2>1. Len(url) \in Nat /\ R \in 2..Len(url) /\ H \in 2..R /\ url[H] \in {":", "/"}
    BY LenProperties DEF UrlAt
  <2> QED  BY <2>1 DEF UrlAt
<1>1. \A j \in ends : H <= j
  <2> SUFFICES ASSUME NEW j \in ends, j < H PROVE FALSE
    BY <1>0
  <2>1. j \in 2..H - 1 /\ url[j] \in {":", "/"}
    BY <1>0
  <2> QED  BY <1>0, <2>1
<1>p. /\ PraseUrl(url).host = SubSeq(url, 2, hostEnd - 1)
      /\ PraseUrl(url).port = IF withPort THEN SubSeq(url, hostEnd + 1, path - 1) ELSE <<"80">>
      /\ PraseUrl(url).uri = SubSeq(url, path, Len(url))
  BY DEF PraseUrl
<1>2. hostEnd = H
  <2>1. (CHOOSE i \in ends : \A j \in ends : i <= j) = H
    <3> DEFINE e == CHOOSE i \in ends : \A j \in ends : i <= j
    <3>1. e \in ends /\ \A j \in ends : e <= j
      BY <1>0, <1>1
    <3> HIDE DEF e
    <3>2. e <= H /\ H <= e /\ e \in Nat
      BY <1>0, <1>1, <3>1
    <3>3. e = H
      BY <1>0, <3>2
    <3> QED  BY <3>3 DEF e
  <2> QED  BY <1>0, <2>1
<1> HIDE DEF hostEnd
<1>3. withPort <=> url[H] = ":"
  BY <1>0, <1>2
<1> HIDE DEF withPort
<1>4. path = R
  <2>1. CASE url[H] = ":"
    <3>1. H # R
      BY <1>0, <2>1
    <3>2. H + 1 \in 1..Len(url) /\ R \in H + 1..Len(url) /\ \A j \in H + 1..R - 1 : j \in 2..R - 1
      BY <1>0, <3>1
    <3>3. \A j \in H + 1..R - 1 : url[j] # "/"
      BY <1>0, <3>2
    <3>4. Find(url, <<"/">>, H + 1) = R
      BY <1>0, <3>2, <3>3, FindOne
    <3> QED  BY <1>2, <1>3, <2>1, <3>4
  <2>2. CASE url[H] # ":"
    <3>1. url[H] = "/"
      BY <1>0, <2>2
    <3>2. H = R
      BY <1>0, <3>1
    <3> QED  BY <1>2, <1>3, <2>2, <3>2
  <2> QED  BY <2>1, <2>2
<1> HIDE DEF path
<1>6. CASE url[H] = ":"
  BY <1>p, <1>2, <1>3, <1>4, <1>6
<1>7. CASE url[H] # ":"
  BY <1>p, <1>2, <1>3, <1>4, <1>7
<1> QED  BY <1>6, <1>7

LEMMA SameHost ==
    ASSUME NEW C, "/" \in C, NEW url \in Seq(C), NEW H, NEW R, UrlAt(url, H, R),
           NEW link \in Seq(C), R <= Len(link), \A i \in 1..R : link[i] = url[i]
    PROVE  /\ PraseUrl(link).host = PraseUrl(url).host /\ PraseUrl(link).port = PraseUrl(url).port
           /\ PraseUrl(link).uri = SubSeq(link, R, Len(link))
<1>0. /\ Len(url) \in Nat /\ Len(link) \in Nat /\ R \in Nat /\ H \in Nat
      /\ 2 <= H /\ H <= R /\ R <= Len(url) /\ R <= Len(link)
  BY LenProperties DEF UrlAt
<1>1. UrlAt(link, H, R)
  <2>1. /\ R \in 1..R /\ H \in 1..R /\ R \in 2..Len(link) /\ H \in 2..R
        /\ \A i \in 2..R - 1 : i \in 1..R
        /\ \A i \in 2..H - 1 : i \in 1..R
    BY <1>0
  <2> QED  BY <2>1 DEF UrlAt
<1>2. SubSeq(link, 2, H - 1) = SubSeq(url, 2, H - 1)
  <2>1. /\ 2 \in Nat /\ H - 1 \in Nat /\ 1 <= 2 /\ 2 <= (H - 1) + 1 /\ H - 1 <= Len(link)
        /\ H - 1 <= Len(url) /\ \A i \in 2..H - 1 : i \in 1..R
    BY <1>0
  <2>2. \A i \in 2..H - 1 : link[i] = url[i]
    BY <2>1
  <2> QED  BY <2>1, <2>2, SamePiece
<1>3. url[H] = ":" => SubSeq(link, H + 1, R - 1) = SubSeq(url, H + 1, R - 1)
  <2> SUFFICES ASSUME url[H] = ":" PROVE SubSeq(link, H + 1, R - 1) = SubSeq(url, H + 1, R - 1)
    OBVIOUS
  <2>0. H # R
    BY DEF UrlAt
  <2>1. /\ H + 1 \in Nat /\ R - 1 \in Nat /\ 1 <= H + 1 /\ H + 1 <= (R - 1) + 1 /\ R - 1 <= Len(link)
        /\ R - 1 <= Len(url) /\ \A i \in H + 1..R - 1 : i \in 1..R
    BY <1>0, <2>0
  <2>2. \A i \in H + 1..R - 1 : link[i] = url[i]
    BY <2>1
  <2> QED  BY <2>1, <2>2, SamePiece
<1>4. link[H] = url[H]
  BY <1>0
<1>5. /\ PraseUrl(url).host = SubSeq(url, 2, H - 1)
      /\ PraseUrl(url).port = IF url[H] = ":" THEN SubSeq(url, H + 1, R - 1) ELSE <<"80">>
  BY UrlParts
<1>6. /\ PraseUrl(link).host = SubSeq(link, 2, H - 1)
      /\ PraseUrl(link).port = IF link[H] = ":" THEN SubSeq(link, H + 1, R - 1) ELSE <<"80">>
      /\ PraseUrl(link).uri = SubSeq(link, R, Len(link))
  BY <1>1, UrlParts
<1> QED  BY <1>2, <1>3, <1>4, <1>5, <1>6

(* What stands at the end of a text is a suffix of it.                      *)
LEMMA ReverseText ==
    ASSUME NEW C, NEW s \in Seq(C)
    PROVE  /\ Reverse(s) \in Seq(C) /\ Len(Reverse(s)) = Len(s)
           /\ \A i \in 1..Len(s) : Reverse(s)[i] = s[(Len(s) - i) + 1]
<1>0. Len(s) \in Nat /\ \A i \in 1..Len(s) : (Len(s) - i) + 1 \in 1..Len(s) /\ s[i] \in C
  BY LenProperties, ElementOfSeq
<1>1. Reverse(s) = [i \in 1..Len(s) |-> s[(Len(s) - i) + 1]]
  BY DEF Reverse
<1>2. Reverse(s) \in [1..Len(s) -> C]
  BY <1>0, <1>1
<1>3. Reverse(s) \in Seq(C) /\ Len(Reverse(s)) = Len(s)
  <2> DEFINE r == Reverse(s)
  <2> HIDE DEF r
  <2>1. r \in [1..Len(s) -> C]
    BY <1>2 DEF r
  <2>2. r \in Seq(C) /\ DOMAIN r = 1..Len(s)
    BY <1>0, <2>1, SeqDef
  <2>3. Len(r) = Len(s)
    BY <1>0, <2>2, LenProperties
  <2> QED  BY <2>2, <2>3 DEF r
<1> QED  BY <1>1, <1>3

LEMMA SuffixConcat ==
    ASSUME NEW C, NEW s \in Seq(C), NEW u \in Seq(C)
    PROVE  IsSuffix(u, s \o u)
<1> DEFINE t == s \o u
           n == Len(u)
<1>0. n \in Nat /\ Len(s) \in Nat
  BY LenProperties
<1>1. /\ t \in Seq(C) /\ Len(t) = Len(s) + n
      /\ \A i \in 1..Len(s) + n : t[i] = IF i <= Len(s) THEN s[i] ELSE u[i - Len(s)]
  BY ConcatProperties
<1> HIDE DEF t
<1>2. /\ Reverse(t) \in Seq(C) /\ Len(Reverse(t)) = Len(s) + n
      /\ \A i \in 1..Len(t) : Reverse(t)[i] = t[(Len(t) - i) + 1]
  BY <1>1, ReverseText
<1>3. /\ Reverse(u) \in Seq(C) /\ Len(Reverse(u)) = n
      /\ \A i \in 1..n : Reverse(u)[i] = u[(n - i) + 1]
  BY ReverseText
<1>4. ASSUME NEW i \in 1..n PROVE Reverse(u)[i] = Reverse(t)[i]
  <2>1. /\ i \in 1..Len(t) /\ (Len(t) - i) + 1 \in 1..Len(s) + n
        /\ ~((Len(t) - i) + 1 <= Len(s)) /\ ((Len(t) - i) + 1) - Len(s) = (n - i) + 1
    BY <1>0, <1>1
  <2> QED  BY <1>1, <1>2, <1>3, <2>1
<1>5. SubSeq(Reverse(u), 1, n) = SubSeq(Reverse(t), 1, n)
  <2> DEFINE x == Reverse(u)
             y == Reverse(t)
  <2>1. x \in Seq(C) /\ y \in Seq(C) /\ \A i \in 1..n : x[i] = y[i]
    BY <1>2, <1>3, <1>4
  <2>2. 1 \in Nat /\ n \in Nat /\ 1 <= 1 /\ 1 <= n + 1 /\ n <= Len(x) /\ n <= Len(y)
    BY <1>0, <1>2, <1>3
  <2> HIDE DEF x, y, n
  <2>3. SubSeq(x, 1, n) = SubSeq(y, 1, n)
    BY <2>1, <2>2, SamePiece
  <2> QED  BY <2>3 DEF x, y
<1> QED  BY <1>0, <1>2, <1>3, <1>5 DEF IsSuffix, IsPrefix, t

LEMMA PathsOfUrl ==
    ASSUME NEW C, NEW url \in Seq(C), Slashes(url) # {}
    PROVE  LET paths == GetRootCurrentUrl(url)
           IN  /\ paths.root \in Seq(C) /\ Len(paths.root) = RootPos(url) - 1
               /\ \A i \in 1..RootPos(url) - 1 : paths.root[i] = url[i]
               /\ paths.current \in Seq(C) /\ Len(paths.current) >= RootPos(url)
               /\ \A i \in 1..RootPos(url) : paths.current[i] = url[i]
<1> DEFINE R == RootPos(url)
           T == CurrentPos(url)
           paths == GetRootCurrentUrl(url)
<1>1. PICK H : UrlAt(url, H, R)
  BY UrlPlaces
<1>2. R \in 2..Len(url) /\ Len(url) \in Nat /\ R \in Slashes(url)
  BY <1>1, LenProperties DEF UrlAt, Slashes
<1>3. \E i \in Slashes(url) : \A j \in Slashes(url) : i >= j
  <2>1. Slashes(url) \subseteq 0..Len(url)
    BY <1>2 DEF Slashes
  <2> QED  BY <1>2, <2>1, GreatestNat
<1>4. T \in Slashes(url) /\ T >= R
  <2>1. T \in Slashes(url) /\ \A j \in Slashes(url) : T >= j
    BY <1>3 DEF CurrentPos
  <2> QED  BY <1>2, <2>1
<1>5. paths.root = SubSeq(url, 1, R - 1) /\ paths.current = SubSeq(url, 1, T)
  BY DEF GetRootCurrentUrl
<1> HIDE DEF R, T, paths
<1>6. T \in 2..Len(url)
  BY <1>4 DEF Slashes
<1>7. /\ paths.root \in Seq(C) /\ Len(paths.root) = (R - 1) - 1 + 1
      /\ \A i \in 1..(R - 1) - 1 + 1 : paths.root[i] = url[1 + i - 1]
  <2>1. 1 \in Nat /\ R - 1 \in Nat /\ 1 <= 1 /\ 1 <= (R - 1) + 1 /\ R - 1 <= Len(url)
    BY <1>2
  <2> QED  BY <1>5, <2>1, Piece
<1>8. /\ paths.current \in Seq(C) /\ Len(paths.current) = T - 1 + 1
      /\ \A i \in 1..T - 1 + 1 : paths.current[i] = url[1 + i - 1]
  <2>1. 1 \in Nat /\ T \in Nat /\ 1 <= 1 /\ 1 <= T + 1 /\ T <= Len(url)
    BY <1>2, <1>6
  <2> QED  BY <1>5, <2>1, Piece
<1>9. /\ (R - 1) - 1 + 1 = R - 1 /\ T - 1 + 1 = T /\ T >= R
      /\ \A i \in 1..R - 1 : 1 + i - 1 = i
      /\ \A i \in 1..R : 1 + i - 1 = i /\ i \in 1..T
  BY <1>2, <1>4, <1>6
<1> QED  BY <1>7, <1>8, <1>9 DEF R, paths

(* A link leads to the page's host, or to the one it names.                 *)
LEMMA Resolved ==
    ASSUME NEW C, "/" \in C, PageUrl \in Seq(C), Slashes(PageUrl) # {},
           NEW text \in Seq(C), text # <<>>, text[1] # Script
    PROVE  Resolves(ChildUrl(GetRootCurrentUrl(PageUrl), text), text)
<1> DEFINE url == PageUrl
           paths == GetRootCurrentUrl(PageUrl)
           R == RootPos(PageUrl)
           link == ChildUrl(paths, text)
           n == Len(text)
<1>1. PICK H : UrlAt(url, H, R)
  BY UrlPlaces
<1>2. /\ paths.root \in Seq(C) /\ Len(paths.root) = R - 1
      /\ \A i \in 1..R - 1 : paths.root[i] = url[i]
      /\ paths.current \in Seq(C) /\ Len(paths.current) >= R
      /\ \A i \in 1..R : paths.current[i] = url[i]
  BY PathsOfUrl
<1>3. /\ text[1] = Scheme => link = text
      /\ text[1] = "/" => link = paths.root \o text
      /\ text[1] \notin {Script, Scheme, "/"} => link = paths.current \o text
  <2>1. Completable(C, paths)
    BY <1>2 DEF Completable
  <2> HIDE DEF paths
  <2> QED  BY <2>1, ChildText
<1>4. n \in Nat /\ n >= 1 /\ R \in Nat /\ R >= 2 /\ url[R] = "/" /\ Len(paths.current) \in Nat
  <2>1. n \in Nat /\ n # 0 /\ Len(url) \in Nat /\ Len(paths.current) \in Nat
    BY <1>2, LenProperties, EmptySeq
  <2>2. R \in 2..Len(url) /\ url[R] = "/"
    BY <1>1 DEF UrlAt
  <2> QED  BY <2>1, <2>2
<1> HIDE DEF paths, R, link, n
<1>5. CASE text[1] = Scheme
  BY <1>3, <1>5 DEF Resolves, link, paths
<1>6. CASE text[1] = "/"
  <2> DEFINE p == paths.root
  <2>1. /\ link \in Seq(C) /\ Len(link) = (R - 1) + n
        /\ \A i \in 1..(R - 1) + n : link[i] = IF i <= R - 1 THEN p[i] ELSE text[i - (R - 1)]
    <3>1. p \in Seq(C) /\ link = p \o text /\ Len(p) = R - 1
      BY <1>2, <1>3, <1>6
    <3>2. /\ p \o text \in Seq(C) /\ Len(p \o text) = Len(p) + Len(text)
          /\ \A i \in 1..Len(p) + Len(text) :
                (p \o text)[i] = IF i <= Len(p) THEN p[i] ELSE text[i - Len(p)]
      BY <3>1, ConcatProperties
    <3> QED  BY <3>1, <3>2 DEF n
  <2>2. \A i \in 1..R : link[i] = url[i]
    <3>1. \A i \in 1..R - 1 : i \in 1..(R - 1) + n /\ i <= R - 1
      BY <1>4
    <3>2. R \in 1..(R - 1) + n /\ ~(R <= R - 1) /\ R - (R - 1) = 1
      BY <1>4
    <3>3. link[R] = url[R]
      BY <1>4, <1>6, <2>1, <3>2
    <3>4. \A i \in 1..R - 1 : link[i] = url[i]
      BY <1>2, <2>1, <3>1
    <3>5. \A i \in 1..R : i = R \/ i \in 1..R - 1
      BY <1>4
    <3> QED  BY <3>3, <3>4, <3>5
  <2>3. R <= Len(link)
    BY <1>4, <2>1
  <2>4. /\ PraseUrl(link).host = PraseUrl(url).host /\ PraseUrl(link).port = PraseUrl(url).port
        /\ PraseUrl(link).uri = SubSeq(link, R, Len(link))
    <3>1. link \in Seq(C)
      BY <2>1
    <3> QED  BY <1>1, <2>2, <2>3, <3>1, SameHost
  <2>5. SubSeq(link, R, Len(link)) = text
    <3>1. /\ R \in Nat /\ Len(link) \in Nat /\ 1 <= R /\ R <= Len(link) + 1 /\ Len(link) <= Len(link)
          /\ Len(link) - R + 1 = n
      BY <1>4, <2>1
    <3>2. /\ SubSeq(link, R, Len(link)) \in Seq(C) /\ Len(SubSeq(link, R, Len(link))) = n
          /\ \A i \in 1..n : SubSeq(link, R, Len(link))[i] = link[R + i - 1]
      BY <2>1, <3>1, Piece
    <3>3. ASSUME NEW i \in 1..n PROVE link[R + i - 1] = text[i]
      <4>1. /\ R + i - 1 \in 1..(R - 1) + n /\ ~(R + i - 1 <= R - 1)
            /\ (R + i - 1) - (R - 1) = i
        BY <1>4
      <4> QED  BY <2>1, <4>1
    <3> DEFINE x == SubSeq(link, R, Len(link))
    <3>4. x \in Seq(C) /\ Len(x) = Len(text) /\ \A i \in 1..Len(x) : x[i] = text[i]
      BY <3>2, <3>3 DEF n
    <3> HIDE DEF x
    <3>5. x = text
      BY <3>4, SeqEqual
    <3> QED  BY <3>5 DEF x
  <2>6. text[1] # Scheme
    BY <1>6, Words
  <2> QED  BY <1>6, <2>4, <2>5, <2>6 DEF Resolves, link, paths
<1>7. CASE text[1] \notin {Scheme, "/"}
  <2> DEFINE p == paths.current
  <2>0. p \in Seq(C) /\ link = p \o text
    BY <1>2, <1>3, <1>7
  <2>1. /\ link \in Seq(C) /\ Len(link) = Len(p) + n
        /\ \A i \in 1..Len(p) + n : link[i] = IF i <= Len(p) THEN p[i] ELSE text[i - Len(p)]
    BY <2>0, ConcatProperties DEF n
  <2>2. \A i \in 1..R : link[i] = url[i]
    <3>1. \A i \in 1..R : i \in 1..Len(p) + n /\ i <= Len(p)
      BY <1>2, <1>4
    <3> QED  BY <1>2, <2>1, <3>1
  <2>3. R <= Len(link)
    BY <1>2, <1>4, <2>1
  <2>4. PraseUrl(link).host = PraseUrl(url).host /\ PraseUrl(link).port = PraseUrl(url).port
    <3>1. link \in Seq(C)
      BY <2>1
    <3> QED  BY <1>1, <2>2, <2>3, <3>1, SameHost
  <2>5. IsSuffix(text, link)
    BY <2>0, SuffixConcat
  <2> QED  BY <1>7, <2>4, <2>5 DEF Resolves, link, paths
<1> QED  BY <1>5, <1>6, <1>7

-------------------------------------------------------------------------------
(* The tokens of a page, and its two tags.                                 *)
Tokens == STRING \cup {Quote, Space, "<", "i", "m", "g", "a", "src", "href", "/"}

LEMMA Letters ==
    /\ Quote \in Tokens /\ Space \in Tokens /\ "/" \in Tokens
    /\ "<" # "i" /\ "<" # "m" /\ "<" # "g" /\ "<" # "a" /\ "<" # Space
    /\ "src" # Quote /\ "src" # "<" /\ "href" # Quote /\ "href" # "<"
<1>1. Quote \in Tokens /\ Space \in Tokens /\ "/" \in Tokens
  BY DEF Tokens
<1>2. "<" # Space
  BY Zenon DEF Space
<1>3. "<" # "i" /\ "<" # "m" /\ "<" # "g" /\ "<" # "a" /\ "src" # "<" /\ "href" # "<"
  OBVIOUS
<1>4. "src" # Quote /\ "href" # Quote
  BY DEF Quote
<1> QED  BY <1>1, <1>2, <1>3, <1>4

LEMMA TagParts ==
    /\ Tags[1].attribute = "src" /\ Tags[2].attribute = "href"
    /\ Tags[1].mark = <<"<", "i", "m", "g", Space>> /\ Tags[2].mark = <<"<", "a", Space>>
    /\ Mark(Tokens, Tags[1].mark) /\ Mark(Tokens, Tags[2].mark)
    /\ Tags[1].mark[1] = "<" /\ Tags[2].mark[1] = "<"
<1>1. /\ Tags[1].attribute = "src" /\ Tags[2].attribute = "href"
      /\ Tags[1].mark = <<"<", "i", "m", "g", Space>> /\ Tags[2].mark = <<"<", "a", Space>>
  BY DEF Tags
<1>2. /\ "<" \in Tokens /\ "i" \in Tokens /\ "m" \in Tokens /\ "g" \in Tokens
      /\ "a" \in Tokens /\ Space \in Tokens
  BY DEF Tokens
<1>3. Mark(Tokens, <<"<", "a", Space>>)
  BY <1>2, Letters DEF Mark
<1>4. Mark(Tokens, <<"<", "i", "m", "g", Space>>)
  <2> DEFINE m == <<"<", "i", "m", "g", Space>>
  <2>1. m \in Seq(Tokens) /\ Len(m) = 5
    BY <1>2
  <2>2. m[1] = "<" /\ m[2] = "i" /\ m[3] = "m" /\ m[4] = "g" /\ m[5] = Space
    OBVIOUS
  <2> HIDE DEF m
  <2>3. \A x \in 2..5 : x = 2 \/ x = 3 \/ x = 4 \/ x = 5
    OBVIOUS
  <2>4. \A x \in 2..5 : m[x] # m[1]
    BY <2>2, <2>3, Letters
  <2>5. Mark(Tokens, m)
    BY <2>1, <2>4 DEF Mark
  <2> QED  BY <2>5 DEF m
<1>5. /\ <<"<", "i", "m", "g", Space>>[1] = "<"
      /\ <<"<", "a", Space>>[1] = "<"
  OBVIOUS
<1> QED  BY <1>1, <1>3, <1>4, <1>5

LEMMA TagsReadable ==
    ASSUME NEW html \in Seq(STRING), NEW t \in {1, 2}, Readable(html, Tags[t])
    PROVE  html \in Seq(Tokens) /\ Usable(Tokens, html, Tags[t])
<1>1. html \in Seq(Tokens)
  <2>1. Len(html) \in Nat /\ html \in [1..Len(html) -> STRING]
    BY LenProperties
  <2>2. html \in [1..Len(html) -> Tokens]
    BY <2>1 DEF Tokens
  <2> QED  BY <2>1, <2>2, SeqDef
<1>2. /\ Mark(Tokens, Tags[t].mark) /\ Tags[t].attribute \in {"src", "href"}
      /\ Tags[t].mark[1] = "<"
  BY TagParts
<1>3. /\ Tags[t].attribute \in Tokens /\ Tags[t].attribute # Quote
      /\ Tags[t].attribute # Tags[t].mark[1]
  BY <1>2, Letters DEF Tokens
<1> QED  BY <1>1, <1>2, <1>3, Letters DEF Usable

LEMMA RankBound ==
    ASSUME NEW K, IsFiniteSet(K), K \subseteq Nat, NEW p \in K
    PROVE  Cardinality({q \in K : q <= p}) \in 1..Cardinality(K)
<1> DEFINE R == {q \in K : q <= p}
<1>1. R \subseteq K /\ p \in R
  OBVIOUS
<1> HIDE DEF R
<1>2. IsFiniteSet(R) /\ Cardinality(R) <= Cardinality(K)
  BY <1>1, FS_Subset
<1>3. Cardinality(R) \in Nat /\ Cardinality(K) \in Nat /\ Cardinality(R) # 0
  BY <1>1, <1>2, FS_CardinalityType, FS_EmptySet
<1>4. Cardinality(R) \in 1..Cardinality(K)
  BY <1>2, <1>3
<1> QED  BY <1>4 DEF R

LEMMA RankedListed ==
    ASSUME NEW C, "/" \in C, PageUrl \in Seq(C), Slashes(PageUrl) # {},
           NEW html \in Seq(C), NEW tag, Usable(C, html, tag),
           NEW before \in Nat, NEW s, NEW found, IsFiniteSet(Kept(html, tag)),
           Ranked(Kept(html, tag), s, GetRootCurrentUrl(PageUrl), html, tag),
           \A r \in 1..Len(s) : found[before + r] = s[r]
    PROVE  Listed(found, before, html, tag)
<1> DEFINE K == Kept(html, tag)
           paths == GetRootCurrentUrl(PageUrl)
<1>1. K \subseteq Nat
  BY MarkPlaces DEF Kept, Usable
<1>2. Completable(C, paths)
  BY PathsOfUrl DEF Completable
<1>3. ASSUME NEW i \in K
      PROVE  Resolves(found[before + Cardinality({q \in K : q <= i})], AddressAt(html, tag, i))
  <2> DEFINE r == Cardinality({q \in K : q <= i})
             text == AddressAt(html, tag, i)
  <2>1. r \in 1..Cardinality(K)
    <3> HIDE DEF K
    <3> QED  BY <1>1, RankBound DEF K
  <2>2. found[before + r] = Child(paths, html, tag, i)
    BY <2>1 DEF Ranked
  <2>3. i \in Marks(html, tag) /\ text[1] # Script
    BY DEF Kept
  <2>4. text \in Seq(C) /\ text # <<>>
    <3> HIDE DEF paths
    <3> QED  BY <1>2, <2>3, OneText
  <2>5. Resolves(ChildUrl(paths, text), text)
    <3> HIDE DEF text
    <3> QED  BY <2>3, <2>4, Resolved
  <2> QED  BY <2>2, <2>5 DEF Child
<1> QED  BY <1>3 DEF Listed

LEMMA PageLinks ==
    ASSUME NEW html \in Seq(STRING), Slashes(PageUrl) # {},
           Readable(html, Tags[1]), Readable(html, Tags[2])
    PROVE  Found(html)
<1> DEFINE paths == GetRootCurrentUrl(PageUrl)
           found == GetAllUrl(PageUrl, html)
           s == From(paths, html, Tags[1])[1]
           u == From(paths, html, Tags[2])[1]
<1>0. "/" \in Tokens /\ html \in Seq(Tokens) /\ PageUrl \in Seq(Tokens)
  <2>1. html \in Seq(Tokens)
    BY TagsReadable
  <2>2. Len(PageUrl) \in Nat /\ PageUrl \in [1..Len(PageUrl) -> STRING]
    BY PageAssumption, LenProperties
  <2>3. PageUrl \in [1..Len(PageUrl) -> Tokens]
    BY <2>2 DEF Tokens
  <2>4. PageUrl \in Seq(Tokens)
    BY <2>2, <2>3, SeqDef
  <2> QED  BY <2>1, <2>4, Letters
<1>1. Usable(Tokens, html, Tags[1]) /\ Usable(Tokens, html, Tags[2])
  BY TagsReadable
<1>2. Completable(Tokens, paths)
  BY <1>0, PathsOfUrl DEF Completable
<1>3. found = s \o u
  BY Collected
<1>4. /\ s \in Seq(Seq(Tokens)) /\ IsFiniteSet(Kept(html, Tags[1]))
      /\ Ranked(Kept(html, Tags[1]), s, paths, html, Tags[1])
  <2> HIDE DEF paths
  <2> QED  BY <1>0, <1>1, <1>2, FromRanked
<1>5. /\ u \in Seq(Seq(Tokens)) /\ IsFiniteSet(Kept(html, Tags[2]))
      /\ Ranked(Kept(html, Tags[2]), u, paths, html, Tags[2])
  <2> HIDE DEF paths
  <2> QED  BY <1>0, <1>1, <1>2, FromRanked
<1> HIDE DEF found, s, u
<1>6. /\ Len(found) = Len(s) + Len(u) /\ Len(s) \in Nat /\ Len(u) \in Nat
      /\ \A i \in 1..Len(s) + Len(u) : found[i] = IF i <= Len(s) THEN s[i] ELSE u[i - Len(s)]
  BY <1>3, <1>4, <1>5, ConcatProperties, LenProperties
<1>7. Len(s) = Cardinality(Kept(html, Tags[1])) /\ Len(u) = Cardinality(Kept(html, Tags[2]))
  BY <1>4, <1>5 DEF Ranked
<1>8. \A r \in 1..Len(s) : found[0 + r] = s[r]
  <2>1. \A r \in 1..Len(s) : 0 + r = r /\ r \in 1..Len(s) + Len(u) /\ r <= Len(s)
    BY <1>6
  <2> QED  BY <1>6, <2>1
<1>9. \A r \in 1..Len(u) : found[Len(s) + r] = u[r]
  <2>1. \A r \in 1..Len(u) : /\ Len(s) + r \in 1..Len(s) + Len(u) /\ ~(Len(s) + r <= Len(s))
                            /\ (Len(s) + r) - Len(s) = r
    BY <1>6
  <2> QED  BY <1>6, <2>1
<1>10. Listed(found, 0, html, Tags[1])
  <2> HIDE DEF paths
  <2>1. 0 \in Nat /\ Ranked(Kept(html, Tags[1]), s, GetRootCurrentUrl(PageUrl), html, Tags[1])
    BY <1>4 DEF paths
  <2> QED  BY <1>0, <1>1, <1>4, <1>8, <2>1, RankedListed
<1>11. Listed(found, Len(s), html, Tags[2])
  <2> DEFINE before == Len(s)
             tag == Tags[2]
  <2>1. /\ before \in Nat /\ Usable(Tokens, html, tag) /\ IsFiniteSet(Kept(html, tag))
        /\ Ranked(Kept(html, tag), u, GetRootCurrentUrl(PageUrl), html, tag)
        /\ \A r \in 1..Len(u) : found[before + r] = u[r]
    <3> HIDE DEF paths
    <3>1. Ranked(Kept(html, Tags[2]), u, GetRootCurrentUrl(PageUrl), html, Tags[2])
      BY <1>5 DEF paths
    <3> QED  BY <1>1, <1>5, <1>6, <1>9, <3>1
  <2>2. "/" \in Tokens /\ html \in Seq(Tokens) /\ PageUrl \in Seq(Tokens) /\ Slashes(PageUrl) # {}
    BY <1>0
  <2>3. Listed(found, before, html, tag)
    <3> HIDE DEF before, tag, paths
    <3> QED  BY <2>1, <2>2, RankedListed
  <2> QED  BY <2>3
<1> QED  BY <1>6, <1>7, <1>10, <1>11 DEF Found, found

(* On the page of any answer, with whatever lies behind it.                *)
LEMMA LinksShown == TypeOK => LinksFound
<1> SUFFICES ASSUME TypeOK, Page = response.content, Slashes(PageUrl) # {},
                    NEW html \in Html(Page), Readable(html, Tags[1]), Readable(html, Tags[2])
             PROVE  Found(html)
  BY DEF LinksFound
<1>1. response \in Responses
  BY DEF TypeOK
<1>2. html \in Seq(STRING)
  BY <1>1, PageAssumption
<1> QED  BY <1>2, PageLinks

(* Of the text it is given with a page that is processed, the web site      *)
(* finds every picture and every link, each once and in their order, under  *)
(* the page's host unless it names another (get_all_url and what it calls), *)
(* whatever the page and whatever lies behind it, as far as no tag is       *)
(* hidden behind a piece of itself and each has its address.               *)
THEOREM PageLinksFound == LoginSpec => []LinksFound
<1>1. LoginSpec => []TypeOK
  BY LoginExchanges, PTL
<1> QED  BY <1>1, LinksShown, PTL
===============================================================================
