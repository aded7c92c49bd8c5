----------------------------- MODULE ChunkerProofs -----------------------------
(***************************************************************************)
(* Theorems of Chunker, for all documents, sizes of paragraphs and limits. *)
(***************************************************************************)
EXTENDS Chunker, SequenceTheorems, WellFoundedInduction, TLAPS

(* A non-empty set of natural numbers has a least element. *)
LEMMA LeastElement ==
  ASSUME NEW T, T \subseteq Nat, T # {}
  PROVE  \E t \in T : \A u \in T : t <= u
<1>1. PICK t \in T : \A u \in T : ~ (<<u, t>> \in OpToRel(<, Nat))
  BY NatLessThanWellFounded, WFMin, Zenon
<1>2. \A u \in T : ~ (u < t)
  BY <1>1 DEF OpToRel
<1> QED
  BY <1>2

(* What _tail_for_overlap keeps is a suffix of the buffer, all or none of  *)
(* it included: it starts in the buffer or just behind it.                 *)
LEMMA OverlapIsSuffix ==
  ASSUME NEW p, NEW i \in Nat, NEW j \in Nat, i <= j
  PROVE  Overlap(p, i, j) \in i .. j + 1
<1> DEFINE fits == {t \in i .. j : Tokens(p, t, j) <= OverlapTokens} \cup {j + 1}
<1>1. fits \subseteq Nat /\ fits # {} /\ fits \subseteq i .. j + 1
  OBVIOUS
<1> HIDE DEF fits
<1>2. \E t \in fits : \A u \in fits : t <= u
  BY <1>1, LeastElement
<1>3. (CHOOSE t \in fits : \A u \in fits : t <= u) \in fits
  BY <1>2
<1> QED
  BY <1>1, <1>3 DEF Overlap, fits

-----------------------------------------------------------------------------
(* Sum adds up: the recursion in its definition has a solution, found one  *)
(* paragraph after the other, and every solution is a number everywhere.   *)
Summed(s, i, f, k) == IF k < i THEN 0 ELSE f[k - 1] + s[k]

LEMMA SumExists ==
  ASSUME NEW s \in Seq(Nat), NEW i \in Nat \ {0}
  PROVE  \E f : f = [k \in 0 .. Len(s) |-> Summed(s, i, f, k)]
<1> DEFINE Prefixes(n) == {f \in [0 .. n -> Nat] : \A k \in 0 .. n : f[k] = Summed(s, i, f, k)}
           missing == {n \in 0 .. Len(s) : Prefixes(n) = {}}
<1>1. ASSUME missing # {} PROVE FALSE
  <2>1. PICK n \in missing : \A m \in missing : n <= m
    <3>1. missing \subseteq Nat
      OBVIOUS
    <3> HIDE DEF missing
    <3> QED BY <1>1, <3>1, LeastElement
  <2>2. CASE n = 0
    <3>1. [k \in 0 .. 0 |-> 0] \in Prefixes(0)
      BY DEF Summed
    <3> QED BY <2>1, <2>2, <3>1
  <2>3. CASE n # 0
    <3>1. n \in Nat /\ n - 1 \in 0 .. Len(s) /\ ~(n <= n - 1)
      BY <2>1, <2>3
    <3>2. PICK g \in [0 .. n - 1 -> Nat] : \A k \in 0 .. n - 1 : g[k] = Summed(s, i, g, k)
      <4>1. n - 1 \notin missing
        <5> HIDE DEF missing
        <5> QED BY <2>1, <3>1
      <4>2. Prefixes(n - 1) # {}
        <5> HIDE DEF Prefixes
        <5> QED BY <3>1, <4>1
      <4> QED BY <4>2
    <3>3. PICK v \in Nat : v = Summed(s, i, g, n)
      <4>1. n \in 1 .. Len(s) /\ n - 1 \in 0 .. n - 1
        BY <2>1, <2>3
      <4>2. s[n] \in Nat /\ g[n - 1] \in Nat
        BY <3>2, <4>1
      <4>3. Summed(s, i, g, n) \in Nat
        BY <4>2 DEF Summed
      <4> QED BY <4>3
    <3>4. PICK f : f = [k \in 0 .. n |-> IF k < n THEN g[k] ELSE v]
      OBVIOUS
    <3>5. f \in [0 .. n -> Nat] /\ f[n] = v /\ \A k \in 0 .. n - 1 : f[k] = g[k]
      BY <3>1, <3>2, <3>3, <3>4
    <3>6. \A k \in 0 .. n : f[k] = Summed(s, i, f, k)
      <4>1. ASSUME NEW k \in 0 .. n - 1 PROVE f[k] = Summed(s, i, f, k)
        <5>1. k \in Nat /\ (i <= k => k - 1 \in 0 .. n - 1) /\ (k < i \/ i <= k)
          BY <3>1
        <5> QED BY <3>2, <3>5, <5>1 DEF Summed
      <4>2. f[n] = Summed(s, i, f, n)
        <5>1. n - 1 \in 0 .. n - 1
          BY <2>3, <3>1
        <5> QED BY <3>3, <3>5, <5>1 DEF Summed
      <4>3. \A k \in 0 .. n : k = n \/ k \in 0 .. n - 1
        BY <3>1
      <4> QED BY <4>1, <4>2, <4>3
    <3>7. f \in Prefixes(n)
      BY <3>5, <3>6
    <3> QED BY <2>1, <3>7
  <2> QED BY <2>2, <2>3
<1>2. Len(s) \in 0 .. Len(s) /\ Prefixes(Len(s)) # {}
  <2>1. Len(s) \in 0 .. Len(s)
    OBVIOUS
  <2> HIDE DEF Prefixes
  <2> QED BY <1>1, <2>1
<1>3. PICK f \in [0 .. Len(s) -> Nat] : \A k \in 0 .. Len(s) : f[k] = Summed(s, i, f, k)
  BY <1>2
<1>4. f = [k \in 0 .. Len(s) |-> Summed(s, i, f, k)]
  BY <1>3
<1> QED
  BY <1>4

LEMMA SumsAreNumbers ==
  ASSUME NEW s \in Seq(Nat), NEW i \in Nat \ {0}, NEW f,
         f = [k \in 0 .. Len(s) |-> Summed(s, i, f, k)]
  PROVE  \A k \in 0 .. Len(s) : f[k] \in Nat
<1> DEFINE bad == {k \in 0 .. Len(s) : f[k] \notin Nat}
<1>1. ASSUME bad # {} PROVE FALSE
  <2>1. PICK k \in bad : \A m \in bad : k <= m
    <3>1. bad \subseteq Nat
      OBVIOUS
    <3> HIDE DEF bad
    <3> QED BY <1>1, <3>1, LeastElement
  <2>2. k \in 0 .. Len(s) /\ f[k] = Summed(s, i, f, k) /\ f[k] \notin Nat
    BY <2>1
  <2>3. k - 1 \in 0 .. Len(s) /\ s[k] \in Nat
    BY <2>2 DEF Summed
  <2>4. f[k - 1] \in Nat
    BY <2>1, <2>2, <2>3
  <2> QED BY <2>2, <2>3, <2>4 DEF Summed
<1> QED
  BY <1>1

(* The tokens of no paragraph are none, and the last paragraph adds its    *)
(* own.                                                                    *)
LEMMA SumSteps ==
  ASSUME NEW s \in Seq(Nat), NEW i \in Nat \ {0}, NEW j \in 0 .. Len(s)
  PROVE  /\ Sum(s, i, j) \in Nat
         /\ j < i => Sum(s, i, j) = 0
         /\ i <= j => Sum(s, i, j) = Sum(s, i, j - 1) + s[j] /\ Sum(s, i, j - 1) \in Nat
                      /\ s[j] \in Nat
<1> DEFINE total == CHOOSE f : f = [k \in 0 .. Len(s) |-> IF k < i THEN 0 ELSE f[k - 1] + s[k]]
<1>1. total = [k \in 0 .. Len(s) |-> IF k < i THEN 0 ELSE total[k - 1] + s[k]]
  BY SumExists DEF Summed
<1>2. \A k : Sum(s, i, k) = total[k]
  BY DEF Sum
<1> HIDE DEF total
<1>3. \A k \in 0 .. Len(s) : total[k] = IF k < i THEN 0 ELSE total[k - 1] + s[k]
  BY <1>1
<1>4. \A k \in 0 .. Len(s) : total[k] \in Nat
  BY <1>1, SumsAreNumbers DEF Summed
<1>5. i <= j => j - 1 \in 0 .. Len(s) /\ s[j] \in Nat
  OBVIOUS
<1>6. /\ total[j] \in Nat
      /\ j < i => total[j] = 0
      /\ i <= j => total[j] = total[j - 1] + s[j] /\ total[j - 1] \in Nat
  BY <1>3, <1>4, <1>5
<1> QED
  BY <1>2, <1>5, <1>6

(* Paragraphs that are not empty have at least a token each. *)
LEMMA SumCounts ==
  ASSUME NEW s \in Seq(Nat), \A k \in DOMAIN s : s[k] > 0, NEW i \in Nat \ {0}
  PROVE  \A j \in i .. Len(s) : Sum(s, i, j) > j - i
<1> DEFINE bad == {j \in i .. Len(s) : ~(Sum(s, i, j) > j - i)}
<1>1. ASSUME bad # {} PROVE FALSE
  <2>1. PICK j \in bad : \A m \in bad : j <= m
    <3>1. bad \subseteq Nat
      OBVIOUS
    <3> HIDE DEF bad
    <3> QED BY <1>1, <3>1, LeastElement
  <2>2. j \in i .. Len(s) /\ ~(Sum(s, i, j) > j - i) /\ j \in Nat /\ i \in Nat /\ Len(s) \in Nat
    BY <2>1
  <2>3. /\ Sum(s, i, j) = Sum(s, i, j - 1) + s[j] /\ Sum(s, i, j - 1) \in Nat
        /\ s[j] \in Nat /\ s[j] > 0
    <3>1. j \in 0 .. Len(s) /\ i <= j /\ j \in DOMAIN s
      BY <2>2
    <3> QED BY <3>1, SumSteps
  <2>4. CASE j = i
    BY <2>2, <2>3, <2>4
  <2>5. CASE j # i
    <3>1. j - 1 \in i .. Len(s) /\ ~(j <= j - 1)
      BY <2>2, <2>5
    <3>2. Sum(s, i, j - 1) > (j - 1) - i
      <4>1. j - 1 \notin bad
        <5> HIDE DEF bad
        <5> QED BY <2>1, <3>1
      <4> QED BY <3>1, <4>1
    <3> QED BY <2>2, <2>3, <3>2
  <2> QED BY <2>4, <2>5
<1> QED
  BY <1>1

LEMMA TokensStep ==
  ASSUME TypeOK, NEW p \in DOMAIN doc, NEW i \in Nat \ {0}, NEW j \in 0 .. Len(doc[p])
  PROVE  /\ Tokens(p, i, j) \in Nat
         /\ j < i => Tokens(p, i, j) = 0
         /\ i <= j => /\ Tokens(p, i, j - 1) \in Nat /\ doc[p][j] \in Nat
                      /\ Tokens(p, i, j) = Tokens(p, i, j - 1) + doc[p][j]
                      /\ Tokens(p, i, j) > j - i
                      /\ Tokens(p, i, j - 1) >= j - i
<1> DEFINE s == doc[p]
<1>1. s \in Seq(Nat) /\ \A k \in DOMAIN s : s[k] > 0
  BY DocumentsAssumption, ParagraphsAssumption DEF TypeOK
<1>2. Tokens(p, i, j) = Sum(s, i, j) /\ Tokens(p, i, j - 1) = Sum(s, i, j - 1)
  BY DEF Tokens
<1>3. j \in 0 .. Len(s)
  OBVIOUS
<1> HIDE DEF s
<1>4. /\ Sum(s, i, j) \in Nat
      /\ j < i => Sum(s, i, j) = 0
      /\ i <= j => Sum(s, i, j) = Sum(s, i, j - 1) + s[j] /\ Sum(s, i, j - 1) \in Nat
                   /\ s[j] \in Nat
  BY <1>1, <1>3, SumSteps
<1>5. i <= j => Sum(s, i, j) > j - i
  <2>1. i <= j => j \in i .. Len(s)
    BY <1>1, <1>3
  <2> QED BY <1>1, <2>1, SumCounts
<1>6. i <= j => Sum(s, i, j - 1) >= j - i
  <2>1. CASE i = j
    BY <1>3, <1>4, <2>1
  <2>2. CASE i < j
    <3>1. j - 1 \in i .. Len(s)
      BY <1>1, <1>3, <2>2
    <3>2. Sum(s, i, j - 1) > (j - 1) - i
      BY <1>1, <3>1, SumCounts
    <3> QED BY <1>3, <1>4, <2>2, <3>2
  <2> QED BY <1>3, <2>1, <2>2
<1>7. s = doc[p]
  BY DEF s
<1> QED
  BY <1>2, <1>4, <1>5, <1>6, <1>7

LEMMA TextIsCount ==
  ASSUME TypeOK, NEW p \in DOMAIN doc, NEW i \in Nat \ {0}, NEW j \in i .. Len(doc[p])
  PROVE  Text(p, i, j) \in Nat
<1>1. /\ j \in 0 .. Len(doc[p]) /\ j - i \in Nat /\ Tokens(p, i, j) \in Nat
  BY TokensStep
<1>2. BlankLine * (j - i) \in Nat
  BY <1>1, BudgetAssumption
<1> QED
  BY <1>1, <1>2 DEF Text

-----------------------------------------------------------------------------
Covered(cs, p, n) == \E i \in DOMAIN cs : Holds(cs[i], p, n)

Chunk == [page : Nat, from : Nat, to : Nat, tokens : Nat]

ChunkOf(p, i, j) == [page |-> p, from |-> i, to |-> j, tokens |-> Text(p, i, j)]

(* Emitting adds the paragraphs i .. j of page p and loses none. *)
LEMMA EmitCovers ==
  ASSUME NEW cs \in Seq(Chunk), NEW p \in Nat, NEW i \in Nat, NEW j \in Nat,
         Text(p, i, j) \in Nat
  PROVE  /\ Emit(cs, p, i, j) \in Seq(Chunk)
         /\ \A q, n : Covered(cs, q, n) => Covered(Emit(cs, p, i, j), q, n)
         /\ \A n \in i .. j : Covered(Emit(cs, p, i, j), p, n)
<1> DEFINE new == Emit(cs, p, i, j)
<1>1. new \in Seq(Chunk) /\ Len(new) = Len(cs) + 1 /\ DOMAIN new = 1 .. Len(cs) + 1
  BY DEF Emit, Chunk
<1>2. DOMAIN cs = 1 .. Len(cs) /\ \A k \in DOMAIN cs : k \in DOMAIN new /\ new[k] = cs[k]
  BY <1>1 DEF Emit
<1>3. /\ new[Len(cs) + 1] = ChunkOf(p, i, j)
      /\ Len(cs) + 1 \in DOMAIN new
  BY <1>1 DEF Emit, ChunkOf
<1>4. \A q, n : Covered(cs, q, n) => Covered(new, q, n)
  BY <1>2 DEF Covered
<1>5. \A n \in i .. j : Covered(new, p, n)
  BY <1>3 DEF Covered, Holds, ChunkOf
<1> QED
  BY <1>1, <1>4, <1>5

Inv == TypeOK /\ NothingLost

LEMMA InitInv == Init => Inv
<1> SUFFICES ASSUME Init PROVE Inv
  OBVIOUS
<1>1. doc \in Seq(Seq(Nat))
  BY DocumentsAssumption DEF Init
<1>2. TypeOK
  BY <1>1 DEF Init, TypeOK
<1>3. NothingLost
  BY <1>1 DEF Init, NothingLost
<1> QED
  BY <1>2, <1>3 DEF Inv

LEMMA AddParagraphInv == Inv /\ AddParagraph => Inv'
<1> SUFFICES ASSUME Inv, AddParagraph PROVE Inv'
  OBVIOUS
<1> DEFINE flushed == IF TooLarge THEN Emit(chunks, page, from, next - 1) ELSE chunks
           start == IF TooLarge THEN Overlap(page, from, next - 1) ELSE from
           full == Tokens(page, start, next) >= TargetTokens
<1>0. TypeOK /\ NothingLost
  BY DEF Inv
<1>1. /\ doc \in Seq(Seq(Nat)) /\ page \in Nat /\ page \in DOMAIN doc
      /\ doc[page] \in Seq(Nat) /\ next \in DOMAIN doc[page]
      /\ chunks \in Seq(Chunk)
      /\ from \in Nat /\ next \in Nat /\ 1 <= from /\ from <= next
  BY <1>0, DocumentsAssumption DEF AddParagraph, Chunk, TypeOK
<1>2. /\ chunks' = IF full THEN Emit(flushed, page, start, next) ELSE flushed
      /\ from' = IF full THEN Overlap(page, start, next) ELSE start
      /\ next' = next + 1 /\ UNCHANGED <<doc, page>>
  BY DEF AddParagraph
<1>3. /\ flushed \in Seq(Chunk) /\ start \in from .. next
      /\ \A q, n : Covered(chunks, q, n) => Covered(flushed, q, n)
      /\ \A n \in from .. start - 1 : Covered(flushed, page, n)
  <2>1. CASE TooLarge
    <3>1. /\ from \in Nat /\ next - 1 \in Nat /\ from <= next - 1
          /\ Text(page, from, next - 1) \in Nat
      <4>1. from \in Nat \ {0} /\ next - 1 \in from .. Len(doc[page])
        BY <2>1, <1>1 DEF TooLarge
      <4> QED
        BY <4>1, <1>0, <1>1, TextIsCount
    <3>2. start \in from .. next
      BY <1>1, <2>1, <3>1, OverlapIsSuffix
    <3>3. /\ flushed = Emit(chunks, page, from, next - 1)
          /\ flushed \in Seq(Chunk)
          /\ \A q, n : Covered(chunks, q, n) => Covered(flushed, q, n)
          /\ \A n \in from .. next - 1 : Covered(flushed, page, n)
      BY <2>1, <3>1, <1>1, EmitCovers
    <3>4. \A n \in from .. start - 1 : n \in from .. next - 1
      BY <1>1, <3>1, <3>2
    <3> QED
      BY <3>2, <3>3, <3>4
  <2>2. CASE ~TooLarge
    <3>1. start = from /\ flushed = chunks
      BY <2>2
    <3> QED
      BY <3>1, <1>1
  <2> QED
    BY <2>1, <2>2
<1> HIDE DEF flushed, start, full
<1>4. /\ chunks' \in Seq(Chunk) /\ from' \in from .. next + 1
      /\ \A q, n : Covered(chunks, q, n) => Covered(chunks', q, n)
      /\ \A n \in Nat : from <= n /\ n < from' => Covered(chunks', page, n)
  <2>1. CASE full
    <3>1. /\ start \in Nat /\ next \in Nat /\ start <= next
          /\ Text(page, start, next) \in Nat
      <4>1. start \in Nat \ {0} /\ next \in start .. Len(doc[page])
        BY <1>1, <1>3
      <4> QED
        BY <4>1, <1>0, <1>1, TextIsCount
    <3>2. from' \in start .. next + 1
      BY <2>1, <1>2, <3>1, OverlapIsSuffix
    <3>3. /\ chunks' \in Seq(Chunk)
          /\ \A q, n : Covered(flushed, q, n) => Covered(chunks', q, n)
          /\ \A n \in start .. next : Covered(chunks', page, n)
      BY <2>1, <1>1, <1>2, <1>3, <3>1, EmitCovers
    <3>4. ASSUME NEW n \in Nat, from <= n, n < from' PROVE Covered(chunks', page, n)
      <4>1. n <= next
        BY <1>1, <3>1, <3>2, <3>4
      <4>2. n \in from .. start - 1 \/ n \in start .. next
        BY <1>1, <3>1, <3>4, <4>1
      <4> QED
        BY <4>2, <1>3, <3>3
    <3>5. from' \in from .. next + 1
      BY <1>1, <1>3, <3>1, <3>2
    <3> QED
      BY <1>3, <3>3, <3>4, <3>5
  <2>2. CASE ~full
    <3>1. chunks' = flushed /\ from' = start
      BY <2>2, <1>2
    <3> QED
      BY <3>1, <1>1, <1>3
  <2> QED
    BY <2>1, <2>2
<1>5. TypeOK'
  <2>1. from' \in Nat /\ 1 <= from' /\ from' <= next'
    <3>1. from \in Nat /\ next \in Nat /\ 1 <= from /\ next' = next + 1
      BY <1>1, <1>2
    <3>2. from' \in from .. next + 1
      BY <1>4
    <3> QED
      BY <3>1, <3>2
  <2>2. next' \in Nat /\ page' \in DOMAIN doc' /\ next' <= Len(doc'[page']) + 1
    BY <1>1, <1>2
  <2> QED
    BY <1>0, <1>2, <1>4, <2>1, <2>2 DEF TypeOK, Chunk
<1>6. NothingLost'
  <2>1. ASSUME NEW p \in DOMAIN doc, NEW n \in DOMAIN doc[p],
               p < page \/ (p = page /\ n < from')
        PROVE  Covered(chunks', p, n)
    <3>1. CASE p < page \/ (p = page /\ n < from)
      BY <3>1, <1>0, <1>4 DEF NothingLost, Covered
    <3>2. CASE p = page /\ ~(n < from)
      <4>0. n \in Nat
        BY <3>2, <1>1
      <4>1. n \in Nat /\ from \in Nat /\ n < from'
        BY <3>2, <4>0, <1>1, <2>1
      <4>2. from <= n
        BY <3>2, <4>1
      <4> QED
        BY <3>2, <4>1, <4>2, <1>4
    <3> QED
      BY <2>1, <3>1, <3>2
  <2> QED
    BY <2>1, <1>2 DEF NothingLost, Covered
<1> QED
  BY <1>5, <1>6 DEF Inv

LEMMA EndPageInv == Inv /\ EndPage => Inv'
<1> SUFFICES ASSUME Inv, EndPage PROVE Inv'
  OBVIOUS
<1>0. TypeOK /\ NothingLost
  BY DEF Inv
<1>1. /\ doc \in Seq(Seq(Nat)) /\ page \in Nat /\ page \in DOMAIN doc
      /\ doc[page] \in Seq(Nat) /\ next = Len(doc[page]) + 1
      /\ chunks \in Seq(Chunk)
      /\ from \in Nat /\ next \in Nat /\ 1 <= from /\ from <= next
  <2>1. /\ doc \in Seq(Seq(Nat)) /\ page \in Nat /\ page \in DOMAIN doc /\ chunks \in Seq(Chunk)
        /\ from \in Nat /\ next \in Nat /\ 1 <= from /\ from <= next
        /\ next <= Len(doc[page]) + 1
    BY <1>0, DocumentsAssumption DEF EndPage, Chunk, TypeOK
  <2>2. doc[page] \in Seq(Nat)
    BY <2>1
  <2>3. Len(doc[page]) \in Nat /\ next <= Len(doc[page]) + 1 /\ next > Len(doc[page])
    BY <2>1, <2>2 DEF EndPage
  <2>4. next = Len(doc[page]) + 1
    <3>1. \A k \in Nat : next <= k + 1 /\ next > k => next = k + 1
      BY <2>1
    <3> QED
      BY <2>3, <3>1
  <2> QED
    BY <2>1, <2>2, <2>4
<1>2. /\ chunks' \in Seq(Chunk)
      /\ \A q, n : Covered(chunks, q, n) => Covered(chunks', q, n)
      /\ \A n \in from .. next - 1 : Covered(chunks', page, n)
  <2>1. CASE from < next
    <3>1. chunks' = Emit(chunks, page, from, next - 1) /\ next - 1 \in Nat
      BY <1>1, <2>1 DEF EndPage
    <3>2. Text(page, from, next - 1) \in Nat
      <4>1. from \in Nat \ {0} /\ next - 1 \in from .. Len(doc[page])
        BY <1>1, <2>1
      <4> QED
        BY <4>1, <1>0, <1>1, TextIsCount
    <3> QED
      BY <3>1, <3>2, <1>1, EmitCovers
  <2>2. CASE ~(from < next)
    <3>1. chunks' = chunks /\ from .. next - 1 = {}
      BY <1>1, <2>2 DEF EndPage
    <3> QED
      BY <3>1, <1>1
  <2> QED
    BY <2>1, <2>2
<1>3. TypeOK'
  <2>1. /\ page' = page + 1 /\ next' = 1 /\ from' = 1 /\ doc' = doc
        /\ page + 1 \in 1 .. Len(doc) + 1
        /\ page + 1 \in DOMAIN doc => Len(doc[page + 1]) \in Nat
    BY <1>1 DEF EndPage
  <2> QED
    BY <1>0, <1>2, <2>1 DEF TypeOK, Chunk
<1>4. NothingLost'
  <2>1. ASSUME NEW p \in DOMAIN doc, NEW n \in DOMAIN doc[p], p < page + 1
        PROVE  Covered(chunks', p, n)
    <3>0. p \in Nat /\ doc[p] \in Seq(Nat)
      BY <1>1
    <3>1. CASE p < page \/ (p = page /\ n < from)
      BY <3>1, <1>0, <1>2 DEF NothingLost, Covered
    <3>2. CASE p = page /\ ~(n < from)
      <4>1. n \in from .. next - 1
        BY <3>2, <1>1
      <4> QED
        BY <3>2, <4>1, <1>2
    <3>3. p < page \/ p = page
      BY <2>1, <3>0, <1>1
    <3> QED
      BY <3>1, <3>2, <3>3
  <2>2. page' = page + 1 /\ from' = 1 /\ doc' = doc
    BY DEF EndPage
  <2>3. ASSUME NEW p \in DOMAIN doc, NEW n \in DOMAIN doc[p],
               p < page' \/ (p = page' /\ n < from')
        PROVE  p < page + 1
    <3>0. p \in Nat /\ doc[p] \in Seq(Nat)
      BY <1>1
    <3>1. p \in Nat /\ n \in Nat /\ ~(n < 1)
      BY <3>0
    <3> QED
      BY <2>2, <2>3, <3>1
  <2> QED
    BY <2>1, <2>2, <2>3 DEF NothingLost, Covered
<1> QED
  BY <1>3, <1>4 DEF Inv

LEMMA InvKept == Spec => []Inv
<1>1. Inv /\ UNCHANGED vars => Inv'
  BY DEF Inv, TypeOK, NothingLost, Holds, vars
<1>2. Inv /\ [Next]_vars => Inv'
  BY <1>1, AddParagraphInv, EndPageInv DEF Next
<1> QED
  BY InitInv, <1>2, PTL DEF Spec

(* No paragraph is lost, for every document and every choice of the three  *)
(* limits, also when the overlap exceeds the target (chunk_pages,          *)
(* chunker.py:28-64).                                                      *)
THEOREM NoParagraphLost == Spec => []NothingLost
  BY InvKept, PTL DEF Inv

(* The buffer and every chunk are a run of adjacent paragraphs of one page *)
(* (buf and _emit, chunker.py:38-60, 75-86).                               *)
THEOREM ChunkTypes == Spec => []TypeOK
  BY InvKept, PTL DEF Inv

-----------------------------------------------------------------------------
(* The paragraphs of the buffer are over the maximum only by the last one, *)
(* when those before that fit into the overlap.                            *)
WithinBudget(p, i, j) ==
  Tokens(p, i, j) <= MaxTokens \/ Tokens(p, i, j - 1) <= OverlapTokens

BufferFits ==
  page \in DOMAIN doc /\ from < next =>
    WithinBudget(page, from, next - 1) /\ Tokens(page, from, next - 1) <= BufferLimit

(* The last chunk and the buffer i .. j: the buffer continues it, and      *)
(* repeats no more of it than the overlap.                                 *)
Continues(cs, p, i, j) ==
  LET last == cs[Len(cs)]
  IN  Len(cs) > 0 /\ last.page = p =>
        last.from <= i /\ last.to <= j /\ Tokens(p, i, last.to) <= OverlapTokens

(* A chunk that ends where the one before it ends is followed by another   *)
(* paragraph.                                                              *)
RepeatsOnce(cs, p, j) ==
  LET n == Len(cs)
  IN  n > 1 /\ cs[n].page = p /\ cs[n - 1].page = p /\ cs[n].to = j => cs[n - 1].to # j

Budgeted(c) ==
  /\ c.page \in DOMAIN doc /\ c.from \in Nat \ {0} /\ c.to \in c.from .. Len(doc[c.page])
  /\ c.tokens = Text(c.page, c.from, c.to)
  /\ WithinBudget(c.page, c.from, c.to) /\ Tokens(c.page, c.from, c.to - 1) <= BufferLimit

Advances(cs, i) ==
  LET last == cs[i - 1]
      c == cs[i]
  IN  i > 1 /\ last.page = c.page =>
        /\ last.from <= c.from /\ last.to <= c.to
        /\ Tokens(c.page, c.from, last.to) <= OverlapTokens
        /\ last.to = c.to =>
             /\ c.to = Len(doc[c.page]) \/ Tokens(c.page, c.from, c.to + 1) > MaxTokens
             /\ i > 2 => ~(cs[i - 2].page = c.page /\ last.to = cs[i - 2].to)

Emitted(cs) ==
  \A i \in DOMAIN cs : cs[i].page <= page /\ Budgeted(cs[i]) /\ Advances(cs, i)

SizesInv ==
  /\ BufferFits /\ Emitted(chunks)
  /\ Continues(chunks, page, from, next - 1) /\ RepeatsOnce(chunks, page, next - 1)

(* What is kept as overlap fits, and is all of a buffer that fits.         *)
LEMMA OverlapFits ==
  ASSUME TypeOK, NEW p \in DOMAIN doc, NEW i \in Nat \ {0}, NEW j \in Nat, i <= j,
         j <= Len(doc[p])
  PROVE  /\ Overlap(p, i, j) \in i .. j + 1
         /\ Tokens(p, Overlap(p, i, j), j) <= OverlapTokens
         /\ Tokens(p, i, j) <= OverlapTokens => Overlap(p, i, j) = i
<1> DEFINE fits == {t \in i .. j : Tokens(p, t, j) <= OverlapTokens} \cup {j + 1}
           least == CHOOSE t \in fits : \A u \in fits : t <= u
<1>1. fits \subseteq Nat /\ fits # {} /\ fits \subseteq i .. j + 1
  OBVIOUS
<1>2. \A t \in fits : Tokens(p, t, j) <= OverlapTokens
  <2>1. Tokens(p, j + 1, j) = 0
    <3>1. j + 1 \in Nat \ {0} /\ j \in 0 .. Len(doc[p]) /\ j < j + 1
      OBVIOUS
    <3> QED BY <3>1, TokensStep
  <2> QED BY <2>1, BudgetAssumption
<1>3. Tokens(p, i, j) <= OverlapTokens => i \in fits
  OBVIOUS
<1>4. least = Overlap(p, i, j)
  BY DEF Overlap
<1> HIDE DEF fits
<1>5. \E t \in fits : \A u \in fits : t <= u
  BY <1>1, LeastElement
<1>6. least \in fits /\ \A u \in fits : least <= u
  BY <1>5
<1>7. i \in fits => least = i
  <2>1. least \in i .. j + 1
    BY <1>1, <1>6
  <2> QED BY <1>6, <2>1
<1> QED
  BY <1>1, <1>2, <1>3, <1>4, <1>6, <1>7

LEMMA EmitAppends ==
  ASSUME NEW cs \in Seq(Chunk), NEW p \in Nat, NEW i \in Nat, NEW j \in Nat,
         Text(p, i, j) \in Nat, NEW new, new = Emit(cs, p, i, j)
  PROVE  /\ new \in Seq(Chunk) /\ Len(new) = Len(cs) + 1 /\ DOMAIN new = 1 .. Len(cs) + 1
         /\ new[Len(cs) + 1] = ChunkOf(p, i, j)
         /\ \A k \in 1 .. Len(cs) : new[k] = cs[k]
  BY DEF Emit, Chunk, ChunkOf

(* The chunk that is emitted keeps to the budget and advances. *)
LEMMA EmitKeeps ==
  ASSUME TypeOK, NEW cs \in Seq(Chunk), Emitted(cs), page \in Nat, page \in DOMAIN doc,
         NEW i \in Nat \ {0}, NEW j \in i .. Len(doc[page]),
         WithinBudget(page, i, j), Tokens(page, i, j - 1) <= BufferLimit,
         Continues(cs, page, i, j), RepeatsOnce(cs, page, j),
         Len(cs) > 0 /\ cs[Len(cs)].page = page /\ cs[Len(cs)].to = j =>
            j = Len(doc[page]) \/ Tokens(page, i, j + 1) > MaxTokens
  PROVE  Emitted(Emit(cs, page, i, j))
<1> DEFINE n == Len(cs) + 1
<1>0. PICK new : new = Emit(cs, page, i, j)
  OBVIOUS
<1>1. /\ new \in Seq(Chunk) /\ DOMAIN new = 1 .. n /\ n \in Nat
      /\ new[n] = ChunkOf(page, i, j)
      /\ \A k \in 1 .. Len(cs) : new[k] = cs[k]
      /\ DOMAIN cs = 1 .. Len(cs) /\ Len(cs) \in Nat
  <2>1. Len(cs) \in Nat /\ DOMAIN cs = 1 .. Len(cs)
    BY LenProperties
  <2>2. /\ new \in Seq(Chunk) /\ DOMAIN new = 1 .. Len(cs) + 1
        /\ new[Len(cs) + 1] = ChunkOf(page, i, j)
        /\ \A k \in 1 .. Len(cs) : new[k] = cs[k]
    <3>1. i \in Nat /\ j \in Nat
      OBVIOUS
    <3>2. Text(page, i, j) \in Nat
      BY TextIsCount
    <3> QED BY <1>0, <3>1, <3>2, EmitAppends, SMTT(20)
  <2> QED BY <2>1, <2>2
<1>2. ASSUME NEW k \in 1 .. Len(cs)
      PROVE  new[k].page <= page /\ Budgeted(new[k]) /\ Advances(new, k)
  <2>1. /\ new[k] = cs[k]
        /\ k > 1 => new[k - 1] = cs[k - 1]
        /\ k > 2 => new[k - 2] = cs[k - 2]
    BY <1>1, SMTT(20)
  <2>2. cs[k].page <= page /\ Budgeted(cs[k]) /\ Advances(cs, k)
    BY <1>1 DEF Emitted
  <2> QED BY <2>1, <2>2 DEF Advances
<1>3. new[n].page <= page /\ Budgeted(new[n])
  BY <1>1 DEF Budgeted, ChunkOf
<1>4. Advances(new, n)
  <2>1. /\ new[n].page = page /\ new[n].from = i /\ new[n].to = j
        /\ n > 1 => new[n - 1] = cs[Len(cs)] /\ Len(cs) > 0
        /\ n > 2 => new[n - 2] = cs[Len(cs) - 1] /\ Len(cs) > 1
    BY <1>1 DEF ChunkOf
  <2> QED BY <2>1 DEF Advances, Continues, RepeatsOnce
<1>5. \A k \in 1 .. n : k = n \/ k \in 1 .. Len(cs)
  BY <1>1
<1> QED
  BY <1>0, <1>1, <1>2, <1>3, <1>4, <1>5 DEF Emitted

LEMMA InitSizes == Init => SizesInv
  BY DEF Init, SizesInv, BufferFits, Emitted, Continues, RepeatsOnce

LEMMA AddParagraphSizes == TypeOK /\ SizesInv /\ AddParagraph => SizesInv'
<1> SUFFICES ASSUME TypeOK, SizesInv, AddParagraph PROVE SizesInv'
  OBVIOUS
<1> DEFINE flushed == IF TooLarge THEN Emit(chunks, page, from, next - 1) ELSE chunks
           start == IF TooLarge THEN Overlap(page, from, next - 1) ELSE from
           full == Tokens(page, start, next) >= TargetTokens
<1>1. /\ page \in Nat /\ page \in DOMAIN doc /\ doc[page] \in Seq(Nat)
      /\ next \in DOMAIN doc[page] /\ next \in Nat /\ next <= Len(doc[page])
      /\ Len(doc[page]) \in Nat
      /\ chunks \in Seq(Chunk)
      /\ from \in Nat /\ 1 <= from /\ from <= next
  <2>1. doc \in Seq(Seq(Nat)) /\ page \in DOMAIN doc /\ next \in DOMAIN doc[page]
    BY DocumentsAssumption DEF AddParagraph, TypeOK
  <2>2. chunks \in Seq(Chunk) /\ page \in Nat /\ from \in Nat /\ 1 <= from /\ from <= next
    BY <2>1 DEF Chunk, TypeOK
  <2> QED BY <2>1, <2>2
<1>2. /\ chunks' = IF full THEN Emit(flushed, page, start, next) ELSE flushed
      /\ from' = IF full THEN Overlap(page, start, next) ELSE start
      /\ next' = next + 1 /\ doc' = doc /\ page' = page
  BY DEF AddParagraph
<1>3. /\ flushed \in Seq(Chunk) /\ Emitted(flushed) /\ start \in from .. next
      /\ Continues(flushed, page, start, next - 1)
      /\ WithinBudget(page, start, next) /\ Tokens(page, start, next - 1) <= BufferLimit
  <2>1. CASE TooLarge
    <3>1. /\ from \in Nat \ {0} /\ next - 1 \in Nat /\ from <= next - 1
          /\ next - 1 <= Len(doc[page])
      BY <2>1, <1>1 DEF TooLarge
    <3>2. start \in from .. next /\ Tokens(page, start, next - 1) <= OverlapTokens
      <4>1. /\ Overlap(page, from, next - 1) \in from .. (next - 1) + 1
            /\ Tokens(page, Overlap(page, from, next - 1), next - 1) <= OverlapTokens
        BY <1>1, <3>1, OverlapFits
      <4> QED BY <1>1, <2>1, <4>1
    <3>3. WithinBudget(page, from, next - 1) /\ Tokens(page, from, (next - 1) - 1) <= BufferLimit
      <4>1. WithinBudget(page, from, next - 1) /\ Tokens(page, from, next - 1) <= BufferLimit
        BY <1>1, <2>1 DEF SizesInv, BufferFits, TooLarge
      <4>2. next - 1 \in 0 .. Len(doc[page])
        BY <1>1, <3>1
      <4>3. /\ Tokens(page, from, (next - 1) - 1) \in Nat /\ Tokens(page, from, next - 1) \in Nat
            /\ doc[page][next - 1] \in Nat
            /\ Tokens(page, from, next - 1) = Tokens(page, from, (next - 1) - 1) + doc[page][next - 1]
        BY <1>1, <3>1, <4>2, TokensStep
      <4> QED BY <4>1, <4>3, BudgetAssumption DEF BufferLimit
    <3>4. Tokens(page, from, (next - 1) + 1) > MaxTokens
      BY <1>1, <2>1 DEF TooLarge
    <3>5. Emitted(flushed)
      <4>1. next - 1 \in from .. Len(doc[page])
        BY <1>1, <3>1
      <4> QED BY <1>1, <2>1, <3>1, <3>3, <3>4, <4>1, EmitKeeps DEF SizesInv
    <3>6. /\ flushed \in Seq(Chunk) /\ Len(flushed) = Len(chunks) + 1
          /\ flushed[Len(flushed)] = ChunkOf(page, from, next - 1)
      <4>1. flushed = Emit(chunks, page, from, next - 1)
        BY <2>1
      <4>2. /\ flushed \in Seq(Chunk) /\ Len(flushed) = Len(chunks) + 1
            /\ flushed[Len(chunks) + 1] = ChunkOf(page, from, next - 1)
        <5> HIDE DEF flushed
        <5>1. /\ page \in Nat /\ from \in Nat /\ next - 1 \in Nat /\ chunks \in Seq(Chunk)
              /\ Text(page, from, next - 1) \in Nat
          BY <1>1, <3>1, TextIsCount
        <5>2. PICK new : new = Emit(chunks, page, from, next - 1)
          OBVIOUS
        <5>3. /\ new \in Seq(Chunk) /\ Len(new) = Len(chunks) + 1
              /\ new[Len(chunks) + 1] = ChunkOf(page, from, next - 1)
          BY <5>1, <5>2, EmitAppends
        <5> QED BY <4>1, <5>2, <5>3
      <4> HIDE DEF flushed
      <4> QED BY <4>2
    <3>7. Continues(flushed, page, start, next - 1)
      BY <1>1, <3>1, <3>2, <3>6, SMTT(20) DEF Continues, ChunkOf
    <3>8. WithinBudget(page, start, next) /\ Tokens(page, start, next - 1) <= BufferLimit
      <4>1. start \in Nat \ {0} /\ next - 1 \in 0 .. Len(doc[page])
        BY <1>1, <3>1, <3>2
      <4>2. Tokens(page, start, next - 1) \in Nat
        BY <1>1, <4>1, TokensStep
      <4> QED BY <3>2, <4>2, BudgetAssumption DEF WithinBudget, BufferLimit
    <3> QED BY <3>2, <3>5, <3>6, <3>7, <3>8
  <2>2. CASE ~TooLarge
    <3>1. start = from /\ flushed = chunks
      BY <2>2
    <3>3. Tokens(page, from, next - 1) <= BufferLimit
      <4>1. CASE from < next
        BY <1>1, <4>1 DEF SizesInv, BufferFits
      <4>2. CASE from = next
        <5>1. Tokens(page, from, next - 1) = 0
          <6>1. page \in DOMAIN doc /\ from \in Nat \ {0} /\ next - 1 < from
            BY <1>1, <4>2
          <6>2. next - 1 \in 0 .. Len(doc[page])
            BY <1>1
          <6> QED BY <1>1, <6>1, <6>2, TokensStep
        <5> QED BY <5>1, BudgetAssumption DEF BufferLimit
      <4> QED BY <1>1, <4>1, <4>2
    <3>2. WithinBudget(page, from, next)
      <4>1. CASE from < next
        <5>1. from \in Nat \ {0} /\ next \in 0 .. Len(doc[page])
          BY <1>1
        <5>2. Tokens(page, from, next) \in Nat
          BY <1>1, <5>1, TokensStep
        <5>3. ~(Tokens(page, from, next) > MaxTokens)
          BY <2>2, <4>1 DEF TooLarge
        <5> QED BY <5>2, <5>3, BudgetAssumption DEF WithinBudget
      <4>2. CASE from = next
        <5>1. Tokens(page, from, next - 1) = 0
          <6>1. page \in DOMAIN doc /\ from \in Nat \ {0} /\ next - 1 < from
            BY <1>1, <4>2
          <6>2. next - 1 \in 0 .. Len(doc[page])
            BY <1>1
          <6> QED BY <1>1, <6>1, <6>2, TokensStep
        <5> QED BY <5>1, BudgetAssumption DEF WithinBudget
      <4> QED BY <1>1, <4>1, <4>2
    <3> QED BY <1>1, <3>1, <3>2, <3>3 DEF SizesInv
  <2> QED BY <2>1, <2>2
<1> HIDE DEF flushed, start, full
<1>5. start \in Nat \ {0} /\ start <= next /\ next - 1 \in Nat
  BY <1>1, <1>3
<1>6. /\ Len(flushed) \in Nat
      /\ Len(flushed) > 0 /\ flushed[Len(flushed)].page = page =>
           flushed[Len(flushed)].to \in Nat /\ flushed[Len(flushed)].to <= next - 1
  <2>1. Len(flushed) \in Nat /\ (Len(flushed) > 0 => flushed[Len(flushed)] \in Chunk)
    BY <1>3
  <2> QED BY <1>3, <2>1 DEF Chunk, Continues
<1>4. Continues(flushed, page, start, next) /\ RepeatsOnce(flushed, page, next)
  BY <1>1, <1>3, <1>6, SMTT(20) DEF Continues, RepeatsOnce
<1>7. CASE full
  <2>1. /\ from' \in start .. next + 1 /\ Tokens(page, from', next) <= OverlapTokens
    BY <1>1, <1>2, <1>5, <1>7, OverlapFits
  <2>2. /\ chunks' = Emit(flushed, page, start, next)
        /\ Len(chunks') = Len(flushed) + 1 /\ Len(flushed) \in Nat
        /\ chunks'[Len(chunks')] = ChunkOf(page, start, next)
        /\ \A k \in 1 .. Len(flushed) : chunks'[k] = flushed[k]
    <3>1. chunks' = Emit(flushed, page, start, next)
      BY <1>2, <1>7
    <3>2. /\ Len(chunks') = Len(flushed) + 1
          /\ chunks'[Len(flushed) + 1] = ChunkOf(page, start, next)
          /\ \A k \in 1 .. Len(flushed) : chunks'[k] = flushed[k]
      <4>1. /\ page \in Nat /\ start \in Nat /\ next \in Nat /\ flushed \in Seq(Chunk)
            /\ Text(page, start, next) \in Nat
        BY <1>1, <1>3, <1>5, TextIsCount
      <4>2. PICK new : new = Emit(flushed, page, start, next)
        OBVIOUS
      <4>3. /\ Len(new) = Len(flushed) + 1
            /\ new[Len(flushed) + 1] = ChunkOf(page, start, next)
            /\ \A k \in 1 .. Len(flushed) : new[k] = flushed[k]
        BY <4>1, <4>2, EmitAppends
      <4> QED BY <3>1, <4>2, <4>3
    <3> QED BY <1>6, <3>1, <3>2
  <2>6. Emitted(chunks')
    <3>1. ~(Len(flushed) > 0 /\ flushed[Len(flushed)].page = page
             /\ flushed[Len(flushed)].to = next)
      BY <1>1, <1>6
    <3>2. next \in start .. Len(doc[page])
      BY <1>1, <1>5
    <3> QED BY <1>1, <1>3, <1>4, <1>5, <2>2, <3>1, <3>2, EmitKeeps
  <2>7. Continues(chunks', page, from', next)
    BY <1>1, <1>5, <2>1, <2>2 DEF Continues, ChunkOf
  <2>8. RepeatsOnce(chunks', page, next)
    <3>1. Len(chunks') > 1 => Len(flushed) > 0 /\ chunks'[Len(chunks') - 1] = flushed[Len(flushed)]
      BY <1>6, <2>2
    <3> QED BY <1>1, <1>6, <2>2, <3>1 DEF RepeatsOnce, ChunkOf
  <2>9. from' < next + 1 =>
          WithinBudget(page, from', next) /\ Tokens(page, from', next) <= BufferLimit
    <3>1. ASSUME from' < next + 1 PROVE Tokens(page, from', next - 1) <= OverlapTokens
      <4>1. from' \in Nat \ {0} /\ from' <= next /\ next \in 0 .. Len(doc[page])
        BY <1>1, <1>5, <2>1, <3>1
      <4>2. PICK t : t = from'
        OBVIOUS
      <4>3. /\ Tokens(page, t, next - 1) \in Nat /\ doc[page][next] \in Nat
            /\ Tokens(page, t, next) = Tokens(page, t, next - 1) + doc[page][next]
        BY <1>1, <4>1, <4>2, TokensStep
      <4>4. Tokens(page, t, next) <= OverlapTokens
        BY <2>1, <4>2
      <4>5. Tokens(page, t, next - 1) <= OverlapTokens
        BY <4>3, <4>4, BudgetAssumption
      <4> QED BY <4>2, <4>5
    <3>2. ASSUME from' < next + 1 PROVE Tokens(page, from', next) <= BufferLimit
      <4>1. from' \in Nat \ {0} /\ next \in 0 .. Len(doc[page])
        BY <1>1, <1>5, <2>1
      <4>2. Tokens(page, from', next) \in Nat
        BY <1>1, <4>1, TokensStep
      <4> QED BY <2>1, <4>2, BudgetAssumption DEF BufferLimit
    <3> QED BY <3>1, <3>2 DEF WithinBudget
  <2>10. Emitted(chunks)' /\ Continues(chunks, page, from, next - 1)'
         /\ RepeatsOnce(chunks, page, next - 1)'
    BY <1>1, <1>2, <2>6, <2>7, <2>8
    DEF Emitted, Continues, RepeatsOnce, Budgeted, Advances, WithinBudget, Tokens, Text, BufferLimit
  <2> QED BY <1>1, <1>2, <2>9, <2>10
       DEF SizesInv, BufferFits, WithinBudget, Tokens, BufferLimit
<1>8. CASE ~full
  <2>1. chunks' = flushed /\ from' = start
    BY <1>2, <1>8
  <2>2. /\ Emitted(chunks') /\ Continues(chunks', page, from', next)
        /\ RepeatsOnce(chunks', page, next) /\ WithinBudget(page, from', next)
    BY <1>3, <1>4, <2>1
  <2>3. Tokens(page, from', next) <= BufferLimit
    <3>1. start \in Nat \ {0} /\ next \in 0 .. Len(doc[page])
      BY <1>1, <1>5
    <3>2. Tokens(page, start, next) \in Nat
      BY <1>1, <3>1, TokensStep
    <3>3. ~(Tokens(page, start, next) >= TargetTokens)
      BY <1>8 DEF full
    <3> QED BY <2>1, <3>2, <3>3, BudgetAssumption DEF BufferLimit
  <2>10. Emitted(chunks)' /\ Continues(chunks, page, from, next - 1)'
         /\ RepeatsOnce(chunks, page, next - 1)'
    BY <1>1, <1>2, <2>2
    DEF Emitted, Continues, RepeatsOnce, Budgeted, Advances, WithinBudget, Tokens, Text, BufferLimit
  <2> QED BY <1>1, <1>2, <2>2, <2>3, <2>10
       DEF SizesInv, BufferFits, WithinBudget, Tokens, BufferLimit
<1> QED
  BY <1>7, <1>8

LEMMA EndPageSizes == TypeOK /\ SizesInv /\ EndPage => SizesInv'
<1> SUFFICES ASSUME TypeOK, SizesInv, EndPage PROVE SizesInv'
  OBVIOUS
<1>1. /\ page \in Nat /\ page \in DOMAIN doc /\ doc[page] \in Seq(Nat)
      /\ next \in Nat /\ next = Len(doc[page]) + 1 /\ Len(doc[page]) \in Nat
      /\ chunks \in Seq(Chunk)
      /\ from \in Nat /\ 1 <= from /\ from <= next
  <2>1. /\ page \in Nat /\ page \in DOMAIN doc /\ doc[page] \in Seq(Nat) /\ next \in Nat
        /\ next <= Len(doc[page]) + 1 /\ next > Len(doc[page]) /\ chunks \in Seq(Chunk)
        /\ from \in Nat /\ 1 <= from /\ from <= next
    BY DocumentsAssumption DEF EndPage, Chunk, TypeOK
  <2>2. Len(doc[page]) \in Nat
    BY <2>1
  <2> QED BY <2>1, <2>2
<1>2. page' = page + 1 /\ next' = 1 /\ from' = 1 /\ doc' = doc
  BY DEF EndPage
<1>3. chunks' \in Seq(Chunk) /\ Emitted(chunks')
  <2>1. CASE from < next
    <3>1. chunks' = Emit(chunks, page, from, next - 1) /\ next - 1 \in Nat
      BY <1>1, <2>1 DEF EndPage
    <3>2. /\ WithinBudget(page, from, next - 1) /\ next - 1 = Len(doc[page])
          /\ Tokens(page, from, next - 1) <= BufferLimit
      BY <1>1, <2>1 DEF SizesInv, BufferFits
    <3>3. /\ from \in Nat \ {0} /\ next - 1 \in from .. Len(doc[page])
          /\ next - 1 \in 0 .. Len(doc[page])
      BY <1>1, <2>1
    <3>4. Tokens(page, from, (next - 1) - 1) <= BufferLimit
      <4>1. /\ Tokens(page, from, (next - 1) - 1) \in Nat /\ Tokens(page, from, next - 1) \in Nat
            /\ doc[page][next - 1] \in Nat
            /\ Tokens(page, from, next - 1) = Tokens(page, from, (next - 1) - 1) + doc[page][next - 1]
        BY <1>1, <2>1, <3>3, TokensStep
      <4> QED BY <3>2, <4>1, BudgetAssumption DEF BufferLimit
    <3>5. Text(page, from, next - 1) \in Nat
      BY <1>1, <3>3, TextIsCount
    <3>6. Emitted(chunks')
      BY <1>1, <3>1, <3>2, <3>3, <3>4, EmitKeeps DEF SizesInv
    <3>7. chunks' \in Seq(Chunk)
      BY <1>1, <3>1, <3>5, EmitAppends
    <3> QED BY <3>6, <3>7
  <2>2. CASE ~(from < next)
    BY <1>1, <2>2 DEF EndPage, SizesInv
  <2> QED BY <2>1, <2>2
<1>4. \A k \in DOMAIN chunks' : chunks'[k].page \in Nat /\ chunks'[k].page <= page
  <2>1. \A k \in DOMAIN chunks' : chunks'[k] \in Chunk
    BY <1>3
  <2> QED BY <1>3, <2>1 DEF Emitted, Chunk
<1>5. \A k \in DOMAIN chunks' : chunks'[k].page <= page + 1 /\ chunks'[k].page # page + 1
  BY <1>1, <1>4
<1>6. Len(chunks') > 0 => Len(chunks') \in DOMAIN chunks'
  BY <1>3
<1>7. Continues(chunks', page + 1, 1, 0) /\ RepeatsOnce(chunks', page + 1, 0)
  <2>1. Len(chunks') \in Nat
    BY <1>3
  <2> QED BY <1>5, <1>6, <2>1 DEF Continues, RepeatsOnce
<1>8. Emitted(chunks)'
  BY <1>2, <1>3, <1>5 DEF Emitted, Budgeted, Advances, WithinBudget, Tokens, Text, BufferLimit
<1> QED
  BY <1>2, <1>7, <1>8 DEF SizesInv, BufferFits, Continues, RepeatsOnce, Tokens

LEMMA NextSizes == TypeOK /\ SizesInv /\ [Next]_vars => SizesInv'
<1>1. SizesInv /\ UNCHANGED vars => SizesInv'
  BY DEF SizesInv, BufferFits, Emitted, Continues, RepeatsOnce, Budgeted, Advances, WithinBudget,
     Tokens, Text, BufferLimit, vars
<1> QED
  BY <1>1, AddParagraphSizes, EndPageSizes DEF Next

(* What chunk_pages keeps from one round of its loops to the next: the     *)
(* buffer within its budget and joined to the last chunk emitted           *)
(* (chunker.py:40-60).                                                     *)
THEOREM SizesKept == Spec => []SizesInv
  BY InitSizes, NextSizes, ChunkTypes, PTL DEF Spec

(* The text of a chunk, its blank lines included, exceeds max_tokens only  *)
(* by these, or is a last paragraph behind an overlap, whatever the limits,*)
(* the sizes of the paragraphs and the tokens of a blank line              *)
(* (chunker.py:42-63, 75-86).                                              *)
THEOREM ChunksFitBudget == Spec => []BudgetKept
<1>1. TypeOK /\ SizesInv => BudgetKept
  <2> SUFFICES ASSUME TypeOK, SizesInv, NEW k \in DOMAIN chunks, NEW c, c = chunks[k]
               PROVE  \/ c.tokens <= MaxTokens + BlankLine * BufferLimit
                      \/ c.tokens <= doc[c.page][c.to] + OverlapTokens + BlankLine * OverlapTokens
    BY DEF BudgetKept
  <2>1. Budgeted(c)
    BY DEF SizesInv, Emitted
  <2> DEFINE all == Tokens(c.page, c.from, c.to)
             before == Tokens(c.page, c.from, c.to - 1)
             last == doc[c.page][c.to]
             lines == c.to - c.from
  <2>2. /\ all \in Nat /\ before \in Nat /\ last \in Nat /\ lines \in Nat
        /\ all = before + last /\ lines <= before
        /\ c.tokens = all + BlankLine * lines
        /\ before <= BufferLimit /\ (all <= MaxTokens \/ before <= OverlapTokens)
    <3>1. c.page \in DOMAIN doc /\ c.from \in Nat \ {0} /\ c.to \in c.from .. Len(doc[c.page])
      BY <2>1 DEF Budgeted
    <3>2. c.to \in 0 .. Len(doc[c.page]) /\ c.from <= c.to /\ c.to - c.from \in Nat
      BY <3>1
    <3>3. /\ all \in Nat /\ before \in Nat /\ last \in Nat
          /\ all = before + last /\ before >= lines
      BY <3>1, <3>2, TokensStep
    <3> QED BY <2>1, <3>2, <3>3 DEF Budgeted, Text, WithinBudget
  <2> HIDE DEF all, before, last, lines
  <2>3. BufferLimit \in Nat /\ OverlapTokens \in Nat /\ MaxTokens \in Nat /\ BlankLine \in Nat
    BY BudgetAssumption DEF BufferLimit
  <2>4. \A a, b, m \in Nat : a <= b => m * a <= m * b /\ m * a \in Nat /\ m * b \in Nat
    OBVIOUS
  <2>5. CASE all <= MaxTokens
    <3>1. BlankLine * lines <= BlankLine * BufferLimit
      BY <2>2, <2>3, <2>4
    <3> QED BY <2>2, <2>3, <2>4, <2>5, <3>1
  <2>6. CASE before <= OverlapTokens
    <3>1. BlankLine * lines <= BlankLine * OverlapTokens
      BY <2>2, <2>3, <2>4, <2>6
    <3>2. c.tokens <= last + OverlapTokens + BlankLine * OverlapTokens
      BY <2>2, <2>3, <2>4, <2>6, <3>1
    <3> QED BY <3>2 DEF last
  <2> QED BY <2>2, <2>5, <2>6
<1> QED
  BY <1>1, SizesKept, ChunkTypes, PTL

(* Each chunk goes on from the one before it and repeats no more of it     *)
(* than the overlap; a chunk of nothing but overlap comes only before a    *)
(* paragraph that does not fit or at the end of the page, and never twice  *)
(* in a row (chunker.py:43-63).                                            *)
THEOREM ChunksGoOn == Spec => []ChunksAdvance
<1>1. TypeOK /\ SizesInv => ChunksAdvance
  <2> SUFFICES ASSUME TypeOK, SizesInv, NEW i \in DOMAIN chunks, i > 1,
                      chunks[i - 1].page = chunks[i].page
               PROVE  LET last == chunks[i - 1]
                          c == chunks[i]
                      IN  /\ last.from <= c.from /\ last.to <= c.to
                          /\ Tokens(c.page, c.from, last.to) <= OverlapTokens
                          /\ last.to = c.to =>
                               /\ \/ c.to = Len(doc[c.page])
                                  \/ Tokens(c.page, c.from, c.to + 1) > MaxTokens
                               /\ i > 2 => ~(chunks[(i - 1) - 1].page = c.page
                                               /\ last.to = chunks[(i - 1) - 1].to)
    BY DEF ChunksAdvance
  <2>1. Advances(chunks, i)
    BY DEF SizesInv, Emitted
  <2>2. (i - 1) - 1 = i - 2
    BY DEF TypeOK
  <2> QED BY <2>1, <2>2 DEF Advances
<1> QED
  BY <1>1, SizesKept, ChunkTypes, PTL

=============================================================================
