--------------------------- MODULE DocIndexProofs ---------------------------
(***************************************************************************)
(* Theorems about DocIndex, for any files, requests, batches and lengths:  *)
(* the cutting of blocks into chunks, the types, what is indexed of what   *)
(* is stored, and where a chunk may be twice.                              *)
(***************************************************************************)
EXTENDS DocIndex, SequenceTheorems, WellFoundedInduction, TLAPS

----------------------------------------------------------------------------
(* Induction, by the least of those that fail                              *)

LEMMA Least ==
  ASSUME NEW T, T \subseteq Nat, T # {}
  PROVE  \E x \in T : \A y \in T : x <= y
<1>1. PICK x \in T : \A y \in T : ~ (<<y, x>> \in OpToRel(<, Nat))
  BY NatLessThanWellFounded, WFMin
<1>2. \A y \in T : ~ (y < x)
  BY <1>1 DEF OpToRel
<1> QED
  BY <1>2

\* g is what is collected after each of the first n blocks.
Scans(blocks, g, n) ==
    g = [i \in 0 .. n |-> IF i = 0 THEN Empty ELSE Taken(blocks, g[i - 1], i)]

LEMMA ScanGrows ==
  ASSUME NEW blocks, NEW m \in Nat, m # 0, NEW g, Scans(blocks, g, m - 1)
  PROVE  \E h : Scans(blocks, h, m)
<1> DEFINE h == [i \in 0 .. m |-> IF i = m THEN Taken(blocks, g[m - 1], m) ELSE g[i]]
           k == [i \in 0 .. m |-> IF i = 0 THEN Empty ELSE Taken(blocks, h[i - 1], i)]
<1>1. ASSUME NEW i \in 0 .. m
      PROVE  h[i] = k[i]
  <2>1. CASE i = m
    <3>1. m - 1 \in 0 .. m /\ m - 1 # m
      OBVIOUS
    <3>2. h[m - 1] = g[m - 1] /\ h[i] = Taken(blocks, g[m - 1], m)
      BY <2>1, <3>1
    <3>3. k[i] = Taken(blocks, h[m - 1], m)
      BY <2>1
    <3> QED
      BY <3>2, <3>3
  <2>2. CASE i # m
    <3>1. i \in 0 .. m - 1 /\ h[i] = g[i]
      BY <2>2
    <3>2. i # 0 => i - 1 \in 0 .. m /\ i - 1 # m /\ h[i - 1] = g[i - 1]
      BY <2>2
    <3>3. g[i] = IF i = 0 THEN Empty ELSE Taken(blocks, g[i - 1], i)
      BY <3>1 DEF Scans
    <3>4. k[i] = IF i = 0 THEN Empty ELSE Taken(blocks, h[i - 1], i)
      OBVIOUS
    <3> HIDE DEF h, k
    <3> QED
      BY <3>1, <3>2, <3>3, <3>4
  <2> QED
    BY <2>1, <2>2
<1>2. h = [i \in 0 .. m |-> h[i]] /\ k = [i \in 0 .. m |-> k[i]]
  OBVIOUS
<1>3. h = k
  <2> HIDE DEF h, k
  <2> QED
    BY <1>1, <1>2
<1>4. Scans(blocks, h, m)
  BY <1>3 DEF Scans
<1> HIDE DEF h
<1> QED
  BY <1>4

LEMMA ScanExists ==
  ASSUME NEW blocks, NEW n \in Nat
  PROVE  \E g : Scans(blocks, g, n)
<1> DEFINE T == {m \in Nat : ~ \E g : Scans(blocks, g, m)}
<1> SUFFICES ASSUME T # {} PROVE FALSE
  OBVIOUS
<1>1. PICK m \in T : \A y \in T : m <= y
  <2>1. T \subseteq Nat
    OBVIOUS
  <2> QED
    BY <2>1, Least
<1>2. CASE m = 0
  <2>1. Scans(blocks, [i \in 0 .. 0 |-> Empty], 0)
    BY DEF Scans
  <2> QED
    BY <1>2, <2>1
<1>3. CASE m # 0
  <2>1. m - 1 \in Nat /\ m - 1 \notin T
    BY <1>1, <1>3
  <2>2. PICK g : Scans(blocks, g, m - 1)
    BY <2>1
  <2> QED
    BY <1>1, <1>3, <2>2, ScanGrows
<1> QED
  BY <1>2, <1>3

LEMMA CollectedScans ==
  ASSUME NEW blocks, Len(blocks) \in Nat
  PROVE  Scans(blocks, Collected(blocks), Len(blocks))
<1>1. PICK k : Scans(blocks, k, Len(blocks))
  BY ScanExists
<1>2. Collected(blocks) =
        CHOOSE g : g = [i \in 0 .. Len(blocks) |-> IF i = 0 THEN Empty ELSE Taken(blocks, g[i - 1], i)]
  BY DEF Collected
<1>3. Collected(blocks) = CHOOSE h : Scans(blocks, h, Len(blocks))
  BY <1>2 DEF Scans
<1> HIDE DEF Collected
<1> QED
  BY <1>1, <1>3

----------------------------------------------------------------------------
(* chunk_blocks                                                            *)

LEMMA Grown ==
  ASSUME NEW S, NEW s \in Seq(S), NEW e \in S
  PROVE  /\ Append(s, e) \in Seq(S) /\ Len(Append(s, e)) = Len(s) + 1 /\ Len(s) \in Nat
         /\ DOMAIN s = 1 .. Len(s) /\ DOMAIN Append(s, e) = 1 .. Len(s) + 1
         /\ \A i \in 1 .. Len(s) : Append(s, e)[i] = s[i]
         /\ Append(s, e)[Len(s) + 1] = e
         /\ ToSet(Append(s, e)) = ToSet(s) \union {e}
<1>1. /\ Append(s, e) \in Seq(S) /\ Len(Append(s, e)) = Len(s) + 1 /\ Len(s) \in Nat
      /\ \A i \in 1 .. Len(s) : Append(s, e)[i] = s[i]
      /\ Append(s, e)[Len(s) + 1] = e
  OBVIOUS
<1>2. DOMAIN s = 1 .. Len(s) /\ DOMAIN Append(s, e) = 1 .. Len(s) + 1
  BY <1>1
<1>3. ToSet(Append(s, e)) = ToSet(s) \union {e}
  BY <1>1, <1>2 DEF ToSet
<1> QED
  BY <1>1, <1>2, <1>3

\* CutRight of the first i blocks.
CutTo(blocks, done, i) ==
    /\ \A j \in 1 .. i :
         Kept(blocks[j]) <=> \E k \in DOMAIN done : j \in ToSet(done[k].parts)
    /\ \A k \in DOMAIN done :
         RightChunk(blocks, done[k]) /\ ToSet(done[k].parts) \subseteq 1 .. i
    /\ \A k, l \in DOMAIN done :
         k < l => \A a \in ToSet(done[k].parts), b \in ToSet(done[l].parts) : a < b

\* A block that is not kept leaves the chunks right.
LEMMA CutSkips ==
  ASSUME NEW blocks, NEW done, NEW i \in Nat, i # 0, CutTo(blocks, done, i - 1), ~ Kept(blocks[i])
  PROVE  CutTo(blocks, done, i)
<1>1. ASSUME NEW k \in DOMAIN done
      PROVE  /\ RightChunk(blocks, done[k]) /\ ToSet(done[k].parts) \subseteq 1 .. i
             /\ i \notin ToSet(done[k].parts)
  <2>1. RightChunk(blocks, done[k]) /\ ToSet(done[k].parts) \subseteq 1 .. i - 1
    BY DEF CutTo
  <2>2. 1 .. i - 1 \subseteq 1 .. i /\ i \notin 1 .. i - 1
    OBVIOUS
  <2> QED
    BY <2>1, <2>2
<1>2. ASSUME NEW j \in 1 .. i
      PROVE  Kept(blocks[j]) <=> \E k \in DOMAIN done : j \in ToSet(done[k].parts)
  <2>1. CASE j = i
    BY <1>1, <2>1
  <2>2. CASE j # i
    <3>1. j \in 1 .. i - 1
      BY <2>2
    <3> QED
      BY <3>1 DEF CutTo
  <2> QED
    BY <2>1, <2>2
<1> QED
  BY <1>1, <1>2 DEF CutTo

\* A block that begins a chunk.
LEMMA CutBegins ==
  ASSUME NEW blocks, NEW C, NEW done \in Seq(C), NEW c \in C, NEW i \in Nat, i # 0,
         CutTo(blocks, done, i - 1), Kept(blocks[i]), RightChunk(blocks, c), ToSet(c.parts) = {i}
  PROVE  CutTo(blocks, Append(done, c), i)
<1> DEFINE next == Append(done, c)
           n == Len(done)
<1>1. /\ n \in Nat /\ DOMAIN done = 1 .. n /\ DOMAIN next = 1 .. n + 1
      /\ \A k \in 1 .. n : next[k] = done[k]
      /\ next[n + 1] = c
  BY Grown
<1> HIDE DEF next, n
<1>2. ASSUME NEW k \in DOMAIN done
      PROVE  /\ RightChunk(blocks, done[k]) /\ ToSet(done[k].parts) \subseteq 1 .. i
             /\ \A j \in ToSet(done[k].parts) : j < i
  <2>1. RightChunk(blocks, done[k]) /\ ToSet(done[k].parts) \subseteq 1 .. i - 1
    BY DEF CutTo
  <2>2. \A j \in 1 .. i - 1 : j \in 1 .. i /\ j < i
    OBVIOUS
  <2> QED
    BY <2>1, <2>2
<1>3. ASSUME NEW k \in DOMAIN next
      PROVE  RightChunk(blocks, next[k]) /\ ToSet(next[k].parts) \subseteq 1 .. i
  <2>1. CASE k \in 1 .. n
    BY <1>1, <1>2, <2>1
  <2>2. CASE k = n + 1
    BY <1>1, <2>2
  <2> QED
    BY <1>1, <2>1, <2>2
<1>4. ASSUME NEW j \in 1 .. i
      PROVE  Kept(blocks[j]) <=> \E k \in DOMAIN next : j \in ToSet(next[k].parts)
  <2>1. CASE j = i
    <3>1. n + 1 \in DOMAIN next /\ j \in ToSet(next[n + 1].parts)
      BY <1>1, <2>1
    <3> QED
      BY <2>1, <3>1
  <2>2. CASE j # i
    <3>1. j \in 1 .. i - 1 /\ j \notin ToSet(c.parts)
      BY <2>2
    <3>2. Kept(blocks[j]) <=> \E k \in DOMAIN done : j \in ToSet(done[k].parts)
      BY <3>1 DEF CutTo
    <3>3. ASSUME NEW k \in DOMAIN next, j \in ToSet(next[k].parts)
          PROVE  k \in DOMAIN done /\ next[k] = done[k]
      BY <1>1, <3>1, <3>3
    <3>4. \A k \in DOMAIN done : k \in DOMAIN next /\ next[k] = done[k]
      BY <1>1
    <3> QED
      BY <3>2, <3>3, <3>4
  <2> QED
    BY <2>1, <2>2
<1>5. ASSUME NEW k \in DOMAIN next, NEW l \in DOMAIN next, k < l,
             NEW a \in ToSet(next[k].parts), NEW b \in ToSet(next[l].parts)
      PROVE  a < b
  <2>1. k \in DOMAIN done /\ next[k] = done[k]
    BY <1>1, <1>5
  <2>2. CASE l \in 1 .. n
    <3>1. l \in DOMAIN done /\ next[l] = done[l]
      BY <1>1, <2>2
    <3> QED
      BY <1>5, <2>1, <3>1 DEF CutTo
  <2>3. CASE l = n + 1
    <3>1. b = i
      BY <1>1, <1>5, <2>3
    <3> QED
      BY <1>2, <1>5, <2>1, <3>1
  <2> QED
    BY <1>1, <2>2, <2>3
<1>6. CutTo(blocks, next, i)
  BY <1>3, <1>4, <1>5 DEF CutTo
<1> QED
  BY <1>6 DEF next

\* A block that joins the last chunk.
LEMMA CutJoins ==
  ASSUME NEW blocks, NEW C, NEW done \in Seq(C), NEW c \in C, NEW d \in C, NEW i \in Nat, i # 0,
         CutTo(blocks, Append(done, c), i - 1), Kept(blocks[i]),
         RightChunk(blocks, d), ToSet(d.parts) = ToSet(c.parts) \union {i}
  PROVE  CutTo(blocks, Append(done, d), i)
<1> DEFINE was == Append(done, c)
           next == Append(done, d)
           n == Len(done)
<1>1. /\ n \in Nat /\ DOMAIN was = 1 .. n + 1 /\ DOMAIN next = 1 .. n + 1
      /\ \A k \in 1 .. n : next[k] = was[k]
      /\ was[n + 1] = c /\ next[n + 1] = d
  <2>1. /\ n \in Nat /\ DOMAIN next = 1 .. n + 1
        /\ \A k \in 1 .. n : next[k] = done[k]
        /\ next[n + 1] = d
    BY Grown
  <2>2. /\ DOMAIN was = 1 .. n + 1
        /\ \A k \in 1 .. n : was[k] = done[k]
        /\ was[n + 1] = c
    BY Grown
  <2> HIDE DEF was, next, n
  <2> QED
    BY <2>1, <2>2
<1> HIDE DEF was, next, n
<1>2. CutTo(blocks, was, i - 1)
  BY DEF was
<1>3. ASSUME NEW k \in DOMAIN was
      PROVE  /\ RightChunk(blocks, was[k]) /\ ToSet(was[k].parts) \subseteq 1 .. i
             /\ \A j \in ToSet(was[k].parts) : j < i
  <2>1. RightChunk(blocks, was[k]) /\ ToSet(was[k].parts) \subseteq 1 .. i - 1
    BY <1>2 DEF CutTo
  <2>2. \A j \in 1 .. i - 1 : j \in 1 .. i /\ j < i
    OBVIOUS
  <2> QED
    BY <2>1, <2>2
<1>4. ASSUME NEW k \in DOMAIN next
      PROVE  RightChunk(blocks, next[k]) /\ ToSet(next[k].parts) \subseteq 1 .. i
  <2>1. CASE k \in 1 .. n
    BY <1>1, <1>3, <2>1
  <2>2. CASE k = n + 1
    <3>1. n + 1 \in DOMAIN was /\ was[n + 1] = c /\ i \in 1 .. i
      BY <1>1
    <3>2. ToSet(c.parts) \subseteq 1 .. i
      BY <1>3, <3>1
    <3> QED
      BY <1>1, <2>2, <3>1, <3>2
  <2> QED
    BY <1>1, <2>1, <2>2
<1>5. ASSUME NEW j \in 1 .. i
      PROVE  Kept(blocks[j]) <=> \E k \in DOMAIN next : j \in ToSet(next[k].parts)
  <2>1. CASE j = i
    <3>1. n + 1 \in DOMAIN next /\ j \in ToSet(next[n + 1].parts)
      BY <1>1, <2>1
    <3> QED
      BY <2>1, <3>1
  <2>2. CASE j # i
    <3>1. j \in 1 .. i - 1
      BY <2>2
    <3>2. Kept(blocks[j]) <=> \E k \in DOMAIN was : j \in ToSet(was[k].parts)
      BY <1>2, <3>1 DEF CutTo
    <3>3. ASSUME NEW k \in DOMAIN was
          PROVE  j \in ToSet(was[k].parts) <=> j \in ToSet(next[k].parts)
      <4>1. CASE k \in 1 .. n
        BY <1>1, <4>1
      <4>2. CASE k = n + 1
        BY <1>1, <2>2, <4>2
      <4> QED
        BY <1>1, <4>1, <4>2
    <3>4. DOMAIN was = DOMAIN next
      BY <1>1
    <3> QED
      BY <3>2, <3>3, <3>4
  <2> QED
    BY <2>1, <2>2
<1>6. ASSUME NEW k \in DOMAIN next, NEW l \in DOMAIN next, k < l,
             NEW a \in ToSet(next[k].parts), NEW b \in ToSet(next[l].parts)
      PROVE  a < b
  <2>1. k \in DOMAIN was /\ l \in DOMAIN was /\ next[k] = was[k]
    BY <1>1, <1>6
  <2>2. CASE b \in ToSet(was[l].parts)
    BY <1>2, <1>6, <2>1, <2>2 DEF CutTo
  <2>3. CASE b = i
    BY <1>3, <1>6, <2>1, <2>3
  <2>4. b \in ToSet(was[l].parts) \/ b = i
    BY <1>1, <1>6
  <2> QED
    BY <2>2, <2>3, <2>4
<1>7. CutTo(blocks, next, i)
  BY <1>4, <1>5, <1>6 DEF CutTo
<1> QED
  BY <1>7 DEF next

\* The chunks of a list of blocks are among these.
ChunkSet(blocks) ==
    [section : {blocks[j].section : j \in DOMAIN blocks}, size : Nat,
     parts : Seq(DOMAIN blocks), mandatory : BOOLEAN]

\* What is collected after i blocks is right so far, were it closed now.
Right(blocks, s, i) ==
    /\ s.done \in Seq(ChunkSet(blocks))
    /\ s.parts # <<>> => ChunkOf(blocks, s) \in ChunkSet(blocks)
    /\ s.metas = s.parts
    /\ CutTo(blocks, Closed(blocks, s), i)

LEMMA EmptyRight ==
  ASSUME NEW blocks
  PROVE  Right(blocks, Empty, 0)
<1>1. Closed(blocks, Empty) = <<>> /\ 1 .. 0 = {}
  BY DEF Closed, Empty
<1>2. CutTo(blocks, <<>>, 0)
  BY <1>1 DEF CutTo
<1> QED
  BY <1>1, <1>2 DEF Right, Empty

\* The chunk of one block
LEMMA OneRight ==
  ASSUME NEW blocks, AreBlocks(blocks), NEW i \in DOMAIN blocks, NEW s,
         s.section = blocks[i].section, s.size \in Nat, s.parts = <<i>>, s.metas = <<i>>
  PROVE  LET c == ChunkOf(blocks, s)
         IN  c \in ChunkSet(blocks) /\ RightChunk(blocks, c) /\ ToSet(c.parts) = {i}
<1> DEFINE c == ChunkOf(blocks, s)
<1>1. /\ c.section = blocks[i].section /\ c.size = s.size /\ c.parts = <<i>>
      /\ c.mandatory <=> blocks[i].mandatory
      /\ c = [section |-> c.section, size |-> c.size, parts |-> c.parts, mandatory |-> c.mandatory]
      /\ c.mandatory \in BOOLEAN
  BY DEF ChunkOf
<1>2. ToSet(<<i>>) = {i} /\ <<i>> # <<>> /\ DOMAIN <<i>> = {1} /\ <<i>>[1] = i /\ Len(<<i>>) = 1
      /\ <<i>> \in Seq(DOMAIN blocks)
  BY DEF ToSet
<1> HIDE DEF c
<1>3. c \in ChunkSet(blocks)
  BY <1>1, <1>2 DEF ChunkSet
<1>4. RightChunk(blocks, c)
  BY <1>1, <1>2 DEF RightChunk
<1> QED
  BY <1>1, <1>2, <1>3, <1>4 DEF c

\* t is s with the i-th block in its chunk.
Joins(blocks, s, t, i) ==
    /\ t.section = s.section /\ t.size = s.size + blocks[i].text
    /\ t.parts = Append(s.parts, i) /\ t.metas = Append(s.parts, i)

\* The chunk that a block joins
LEMMA MoreRight ==
  ASSUME NEW blocks, AreBlocks(blocks), NEW i \in DOMAIN blocks, NEW s, NEW t,
         ChunkOf(blocks, s) \in ChunkSet(blocks), RightChunk(blocks, ChunkOf(blocks, s)),
         s.metas = s.parts, ToSet(s.parts) \subseteq 1 .. i - 1, Fits(blocks, s, i),
         Joins(blocks, s, t, i)
  PROVE  LET d == ChunkOf(blocks, t)
         IN  /\ d \in ChunkSet(blocks) /\ RightChunk(blocks, d)
             /\ ToSet(d.parts) = ToSet(s.parts) \union {i}
<1> DEFINE c == ChunkOf(blocks, s)
           d == ChunkOf(blocks, t)
           p == s.parts
           q == Append(p, i)
<1>1. /\ c.section = s.section /\ c.size = s.size /\ c.parts = p
      /\ c.mandatory <=> \E n \in DOMAIN p : blocks[p[n]].mandatory
  BY DEF ChunkOf
<1>2. /\ d.section = s.section /\ d.size = s.size + blocks[i].text /\ d.parts = q
      /\ d.mandatory <=> \E n \in DOMAIN q : blocks[q[n]].mandatory
      /\ d = [section |-> d.section, size |-> d.size, parts |-> d.parts, mandatory |-> d.mandatory]
      /\ d.mandatory \in BOOLEAN
  BY DEF ChunkOf, Joins
<1>3. p \in Seq(DOMAIN blocks) /\ s.size \in Nat /\ s.section \in {blocks[j].section : j \in DOMAIN blocks}
  BY <1>1 DEF ChunkSet
<1> HIDE DEF c, d, p, q
<1>4. /\ q \in Seq(DOMAIN blocks) /\ Len(p) \in Nat /\ DOMAIN p = 1 .. Len(p) /\ DOMAIN q = 1 .. Len(p) + 1
      /\ \A n \in 1 .. Len(p) : q[n] = p[n]
      /\ q[Len(p) + 1] = i
      /\ ToSet(q) = ToSet(p) \union {i}
  BY <1>3, Grown DEF q
<1>5. d.mandatory <=> \E j \in ToSet(q) : blocks[j].mandatory
  BY <1>2 DEF ToSet
<1>6. i \in Nat /\ blocks[i].text \in Nat
  BY DEF AreBlocks
<1>7. d \in ChunkSet(blocks)
  BY <1>2, <1>3, <1>4, <1>6 DEF ChunkSet
<1>8. RightChunk(blocks, d)
  <2>1. RightChunk(blocks, c)
    BY DEF c
  <2>2. q # <<>> /\ ToSet(q) \subseteq DOMAIN blocks
    BY <1>1, <1>4, <2>1 DEF RightChunk
  <2>3. ASSUME NEW m \in DOMAIN q, NEW n \in DOMAIN q, m < n
        PROVE  q[m] < q[n]
    <3>1. m \in 1 .. Len(p) /\ q[m] = p[m]
      BY <1>4, <2>3
    <3>2. CASE n \in 1 .. Len(p)
      BY <1>1, <1>4, <2>1, <2>3, <3>1, <3>2 DEF RightChunk
    <3>3. CASE n = Len(p) + 1
      <4>1. p[m] \in ToSet(p)
        BY <1>4, <3>1 DEF ToSet
      <4>2. p[m] \in 1 .. i - 1
        BY <4>1 DEF p
      <4> QED
        BY <1>4, <1>6, <3>1, <3>3, <4>2
    <3> QED
      BY <1>4, <3>2, <3>3
  <2>4. d.size <= MaxChars
    BY <1>2 DEF Fits
  <2>5. \A j \in ToSet(q) : blocks[j].section = d.section
    BY <1>1, <1>2, <1>4, <2>1 DEF RightChunk, Fits
  <2> QED
    BY <1>2, <1>5, <2>2, <2>3, <2>4, <2>5 DEF RightChunk
<1>9. ToSet(d.parts) = ToSet(s.parts) \union {i}
  BY <1>2, <1>4 DEF p
<1> QED
  BY <1>7, <1>8, <1>9 DEF d

\* The next block leaves what is collected right.
LEMMA TakenRight ==
  ASSUME NEW blocks, AreBlocks(blocks), NEW i \in DOMAIN blocks, NEW s, Right(blocks, s, i - 1)
  PROVE  Right(blocks, Taken(blocks, s, i), i)
<1> DEFINE t == Taken(blocks, s, i)
           C == ChunkSet(blocks)
<1>1. i \in Nat /\ i # 0 /\ blocks[i].text \in Nat /\ blocks[i].mandatory \in BOOLEAN
  BY DEF AreBlocks
<1>2. s.done \in Seq(C) /\ s.metas = s.parts /\ CutTo(blocks, Closed(blocks, s), i - 1)
  BY DEF Right
<1>3. CASE ~ Kept(blocks[i])
  <2>1. t = s
    BY <1>3 DEF Taken
  <2>2. CutTo(blocks, Closed(blocks, s), i)
    BY <1>1, <1>2, <1>3, CutSkips
  <2> HIDE DEF t
  <2> QED
    BY <2>1, <2>2 DEF Right, t
<1>4. CASE Kept(blocks[i]) /\ s.parts = <<>>
  <2>1. /\ t.section = blocks[i].section /\ t.size = blocks[i].text /\ t.parts = <<i>>
        /\ t.metas = <<i>> /\ t.done = s.done
    BY <1>4 DEF Taken
  <2> HIDE DEF t
  <2>2. /\ ChunkOf(blocks, t) \in C /\ RightChunk(blocks, ChunkOf(blocks, t))
        /\ ToSet(ChunkOf(blocks, t).parts) = {i}
    BY <1>1, <2>1, OneRight
  <2>3. Closed(blocks, s) = s.done /\ Closed(blocks, t) = Append(s.done, ChunkOf(blocks, t))
    BY <1>4, <2>1 DEF Closed, Flushed
  <2>4. CutTo(blocks, Closed(blocks, t), i)
    BY <1>1, <1>2, <1>4, <2>2, <2>3, CutBegins
  <2>5. Right(blocks, t, i)
    BY <1>2, <2>1, <2>2, <2>4 DEF Right
  <2> QED
    BY <2>5 DEF t
<1>5. CASE Kept(blocks[i]) /\ s.parts # <<>> /\ Fits(blocks, s, i)
  <2>1. /\ t.section = s.section /\ t.size = s.size + blocks[i].text
        /\ t.parts = Append(s.parts, i) /\ t.metas = Append(s.parts, i) /\ t.done = s.done
    BY <1>2, <1>5 DEF Taken
  <2> HIDE DEF t
  <2> DEFINE c == ChunkOf(blocks, s)
             d == ChunkOf(blocks, t)
  <2>2. c \in C /\ c.parts = s.parts
    BY <1>5 DEF Right, ChunkOf
  <2>3. Closed(blocks, s) = Append(s.done, c)
    BY <1>5 DEF Closed, Flushed
  <2>4. RightChunk(blocks, c) /\ ToSet(s.parts) \subseteq 1 .. i - 1
    <3>1. Len(s.done) + 1 \in DOMAIN Append(s.done, c) /\ Append(s.done, c)[Len(s.done) + 1] = c
      <4> HIDE DEF c, C
      <4> QED
        BY <1>2, <2>2, Grown
    <3> QED
      BY <1>2, <2>2, <2>3, <3>1 DEF CutTo
  <2>5. /\ d \in C /\ RightChunk(blocks, d)
        /\ ToSet(d.parts) = ToSet(c.parts) \union {i}
    <3>1. d \in C /\ RightChunk(blocks, d) /\ ToSet(d.parts) = ToSet(s.parts) \union {i}
      <4>1. ChunkOf(blocks, s) \in ChunkSet(blocks) /\ RightChunk(blocks, ChunkOf(blocks, s))
        BY <2>2, <2>4
      <4>2. s.metas = s.parts /\ ToSet(s.parts) \subseteq 1 .. i - 1 /\ Fits(blocks, s, i)
        BY <1>2, <1>5, <2>4
      <4>3. Joins(blocks, s, t, i)
        BY <2>1 DEF Joins
      <4> QED
        BY <4>1, <4>2, <4>3, MoreRight
    <3> QED
      BY <2>2, <3>1
  <2>6. Append(s.parts, i) # <<>>
    <3>1. s.parts \in Seq(DOMAIN blocks)
      BY <2>2 DEF ChunkSet
    <3> QED
      BY <3>1
  <2>7. Closed(blocks, t) = Append(s.done, d)
    BY <2>1, <2>6 DEF Closed, Flushed
  <2> HIDE DEF c, d, C
  <2>8. CutTo(blocks, Append(s.done, c), i - 1)
    BY <1>2, <2>3
  <2>9. CutTo(blocks, Append(s.done, d), i)
    BY <1>1, <1>2, <1>5, <2>2, <2>5, <2>8, CutJoins
  <2>10. Right(blocks, t, i)
    BY <1>2, <2>1, <2>5, <2>7, <2>9 DEF Right, C, d
  <2> QED
    BY <2>10 DEF t
<1>6. CASE Kept(blocks[i]) /\ s.parts # <<>> /\ ~ Fits(blocks, s, i)
  <2>1. /\ t.section = blocks[i].section /\ t.size = Tailing(s) + blocks[i].text /\ t.parts = <<i>>
        /\ t.metas = <<i>> /\ t.done = Flushed(blocks, s)
    BY <1>6 DEF Taken, Restarted
  <2> HIDE DEF t
  <2>2. ChunkOf(blocks, s) \in C
    BY <1>6 DEF Right
  <2>3. s.size \in Nat
    BY <2>2 DEF ChunkSet, ChunkOf
  <2>4. t.size \in Nat
    BY <1>1, <2>1, <2>3, ConstantsAssumption DEF Tailing
  <2>5. /\ ChunkOf(blocks, t) \in C /\ RightChunk(blocks, ChunkOf(blocks, t))
        /\ ToSet(ChunkOf(blocks, t).parts) = {i}
    BY <1>1, <2>1, <2>4, OneRight
  <2>6. t.done \in Seq(C)
    <3> HIDE DEF C
    <3> QED
      BY <1>2, <2>1, <2>2, Grown DEF Flushed
  <2>7. Closed(blocks, s) = t.done /\ Closed(blocks, t) = Append(t.done, ChunkOf(blocks, t))
    BY <1>6, <2>1 DEF Closed, Flushed
  <2>8. CutTo(blocks, Closed(blocks, t), i)
    BY <1>1, <1>2, <1>6, <2>5, <2>6, <2>7, CutBegins
  <2>9. Right(blocks, t, i)
    BY <2>1, <2>5, <2>6, <2>8 DEF Right
  <2> QED
    BY <2>9 DEF t
<1> QED
  BY <1>3, <1>4, <1>5, <1>6

\* chunk_blocks goes through all of them.
LEMMA AllRight ==
  ASSUME NEW blocks, AreBlocks(blocks)
  PROVE  Right(blocks, Collected(blocks)[Len(blocks)], Len(blocks))
<1> DEFINE g == Collected(blocks)
           T == {i \in 0 .. Len(blocks) : ~ Right(blocks, g[i], i)}
<1>1. Len(blocks) \in Nat /\ DOMAIN blocks = 1 .. Len(blocks)
  BY DEF AreBlocks
<1>2. Scans(blocks, g, Len(blocks))
  BY <1>1, CollectedScans
<1> HIDE DEF g
<1>3. \A i \in 0 .. Len(blocks) : g[i] = IF i = 0 THEN Empty ELSE Taken(blocks, g[i - 1], i)
  BY <1>2 DEF Scans
<1>4. ASSUME T # {}
      PROVE  FALSE
  <2>1. T \subseteq Nat
    BY <1>1
  <2>2. PICK i \in T : \A j \in T : i <= j
    BY <1>4, <2>1, Least
  <2>3. CASE i = 0
    BY <1>1, <1>3, <2>2, <2>3, EmptyRight
  <2>4. CASE i # 0
    <3>1. i \in DOMAIN blocks /\ i - 1 \in 0 .. Len(blocks) /\ i - 1 \notin T
      BY <1>1, <2>2, <2>4
    <3>2. Right(blocks, g[i - 1], i - 1)
      BY <3>1
    <3>3. g[i] = Taken(blocks, g[i - 1], i)
      BY <1>3, <2>2, <2>4
    <3>4. Right(blocks, g[i], i)
      BY <3>1, <3>2, <3>3, TakenRight
    <3> QED
      BY <2>2, <3>4
  <2> QED
    BY <2>3, <2>4
<1>5. Len(blocks) \in 0 .. Len(blocks)
  BY <1>1
<1>6. Right(blocks, g[Len(blocks)], Len(blocks))
  BY <1>4, <1>5
<1> QED
  BY <1>6 DEF g

LEMMA ChunkBlocksRight ==
  ASSUME NEW blocks, AreBlocks(blocks)
  PROVE  ChunkBlocks(blocks) \in Seq(ChunkSet(blocks)) /\ CutRight(blocks, ChunkBlocks(blocks))
<1> DEFINE s == Collected(blocks)[Len(blocks)]
           C == ChunkSet(blocks)
           done == ChunkBlocks(blocks)
<1>1. Right(blocks, s, Len(blocks)) /\ done = Closed(blocks, s)
  BY AllRight DEF ChunkBlocks
<1> HIDE DEF s
<1>2. done \in Seq(C)
  <2>1. CASE s.parts = <<>>
    BY <1>1, <2>1 DEF Right, Closed
  <2>2. CASE s.parts # <<>>
    <3>1. s.done \in Seq(C) /\ ChunkOf(blocks, s) \in C /\ done = Append(s.done, ChunkOf(blocks, s))
      BY <1>1, <2>2 DEF Right, Closed, Flushed
    <3> HIDE DEF C, done
    <3> QED
      BY <3>1, Grown
  <2> QED
    BY <2>1, <2>2
<1>3. CutTo(blocks, done, Len(blocks))
  BY <1>1 DEF Right
<1>4. CutRight(blocks, done)
  BY <1>3 DEF CutTo, CutRight, AreBlocks
<1> QED
  BY <1>2, <1>4

\* How many chunks a file gives is a number, whatever its blocks.
LEMMA ChunkCount ==
  ASSUME NEW f \in Files
  PROVE  Len(Chunked(f)) \in Nat
<1>1. AreBlocks(f.blocks)
  BY ConstantsAssumption
<1>2. Chunked(f) \in Seq(ChunkSet(f.blocks))
  BY <1>1, ChunkBlocksRight DEF Chunked
<1> HIDE DEF Chunked
<1> QED
  BY <1>2

\* For blocks of any number, section, length and tags, and for any limit and
\* overlap: no block is lost or repeated, their order is kept, and each chunk is
\* right in its section, its length and its tag.
THEOREM CutsRight == Spec => []ChunksCutRight
<1>1. ChunksCutRight
  BY ChunkBlocksRight, ConstantsAssumption DEF ChunksCutRight
<1> QED
  BY <1>1, PTL

----------------------------------------------------------------------------
(* The chunks of a file, from one to another                               *)

Numbered == [of : Files, no : Nat]

LEMMA ChunksAre ==
  ASSUME NEW f \in Files, NEW a \in Nat, NEW b \in Nat, a >= 1, a <= b + 1
  PROVE  /\ ChunksOf(f, a, b) \in Seq(Numbered) /\ Len(ChunksOf(f, a, b)) = b - a + 1
         /\ DOMAIN ChunksOf(f, a, b) = 1 .. (b - a + 1)
         /\ \A i \in 1 .. (b - a + 1) : ChunksOf(f, a, b)[i] = [of |-> f, no |-> a + i - 1]
<1>1. b - a + 1 \in Nat
  OBVIOUS
<1>2. \A i \in 1 .. (b - a + 1) : [of |-> f, no |-> a + i - 1] \in Numbered
  BY DEF Numbered
<1>3. ChunksOf(f, a, b) \in [1 .. (b - a + 1) -> Numbered]
  BY <1>2 DEF ChunksOf
<1>4. ChunksOf(f, a, b) \in Seq(Numbered)
  BY <1>1, <1>3
<1>5. DOMAIN ChunksOf(f, a, b) = 1 .. (b - a + 1)
      /\ \A i \in 1 .. (b - a + 1) : ChunksOf(f, a, b)[i] = [of |-> f, no |-> a + i - 1]
  BY DEF ChunksOf
<1> HIDE DEF ChunksOf
<1> QED
  BY <1>1, <1>4, <1>5

LEMMA FirstChunks ==
  ASSUME NEW f \in Files, NEW b \in Nat
  PROVE  /\ ChunksOf(f, 1, b) \in Seq(Numbered) /\ Len(ChunksOf(f, 1, b)) = b
         /\ \A i \in 1 .. b : ChunksOf(f, 1, b)[i] = [of |-> f, no |-> i]
<1> DEFINE x == ChunksOf(f, 1, b)
<1>1. 1 \in Nat /\ 1 >= 1 /\ 1 <= b + 1 /\ b - 1 + 1 = b /\ \A i \in 1 .. b : 1 + i - 1 = i
  OBVIOUS
<1>2. /\ x \in Seq(Numbered) /\ Len(x) = b - 1 + 1
      /\ \A i \in 1 .. (b - 1 + 1) : x[i] = [of |-> f, no |-> 1 + i - 1]
  BY <1>1, ChunksAre
<1> HIDE DEF x
<1>3. /\ x \in Seq(Numbered) /\ Len(x) = b
      /\ \A i \in 1 .. b : x[i] = [of |-> f, no |-> i]
  BY <1>1, <1>2
<1> QED
  BY <1>3 DEF x

LEMMA ChunksJoin ==
  ASSUME NEW f \in Files, NEW a \in Nat, NEW b \in Nat, a <= b
  PROVE  ChunksOf(f, 1, a) \o ChunksOf(f, a + 1, b) = ChunksOf(f, 1, b)
<1> DEFINE x == ChunksOf(f, 1, a)
           y == ChunksOf(f, a + 1, b)
           z == ChunksOf(f, 1, b)
<1>1. /\ x \in Seq(Numbered) /\ Len(x) = a
      /\ \A i \in 1 .. a : x[i] = [of |-> f, no |-> i]
  BY FirstChunks
<1>2. /\ y \in Seq(Numbered) /\ Len(y) = b - a
      /\ \A i \in 1 .. (b - a) : y[i] = [of |-> f, no |-> a + i]
  <2>1. a + 1 \in Nat /\ a + 1 >= 1 /\ a + 1 <= b + 1 /\ b - (a + 1) + 1 = b - a
    OBVIOUS
  <2>2. /\ y \in Seq(Numbered) /\ Len(y) = b - (a + 1) + 1
        /\ \A i \in 1 .. (b - (a + 1) + 1) : y[i] = [of |-> f, no |-> a + 1 + i - 1]
    BY <2>1, ChunksAre
  <2> HIDE DEF y
  <2> QED
    BY <2>1, <2>2
<1>3. /\ z \in Seq(Numbered) /\ Len(z) = b
      /\ \A i \in 1 .. b : z[i] = [of |-> f, no |-> i]
  BY FirstChunks
<1> HIDE DEF x, y, z
<1>4. /\ x \o y \in Seq(Numbered) /\ Len(x \o y) = b
      /\ \A i \in 1 .. b : (x \o y)[i] = IF i <= a THEN x[i] ELSE y[i - a]
  <2>1. Len(x) + Len(y) = b
    BY <1>1, <1>2
  <2> QED
    BY <1>1, <1>2, <2>1, ConcatProperties
<1>5. ASSUME NEW i \in 1 .. b
      PROVE  (x \o y)[i] = z[i]
  <2>1. CASE i <= a
    BY <1>1, <1>3, <1>4, <2>1
  <2>2. CASE i > a
    <3>1. (x \o y)[i] = y[i - a] /\ i - a \in 1 .. (b - a) /\ a + (i - a) = i
      BY <1>4, <2>2
    <3> QED
      BY <1>2, <1>3, <3>1
  <2>3. i <= a \/ i > a
    OBVIOUS
  <2> QED
    BY <2>1, <2>2, <2>3
<1>6. x \o y = z
  BY <1>3, <1>4, <1>5, SeqEqual
<1> QED
  BY <1>6 DEF x, y, z

LEMMA ChunksBegin ==
  ASSUME NEW f \in Files, NEW a \in Nat, NEW b \in Nat, a <= b
  PROVE  IsPrefix(ChunksOf(f, 1, a), ChunksOf(f, 1, b))
<1> DEFINE x == ChunksOf(f, 1, a)
           z == ChunksOf(f, 1, b)
<1>1. /\ x \in Seq(Numbered) /\ Len(x) = a
      /\ \A i \in 1 .. a : x[i] = [of |-> f, no |-> i]
  BY FirstChunks
<1>2. /\ z \in Seq(Numbered) /\ Len(z) = b
      /\ \A i \in 1 .. b : z[i] = [of |-> f, no |-> i]
  BY FirstChunks
<1> HIDE DEF x, z
<1>3. SubSeq(x, 1, a) = [i \in 1 .. a |-> x[i]] /\ SubSeq(z, 1, a) = [i \in 1 .. a |-> z[i]]
  BY <1>1, <1>2
<1>4. \A i \in 1 .. a : x[i] = z[i]
  BY <1>1, <1>2
<1>5. SubSeq(x, 1, a) = SubSeq(z, 1, a)
  BY <1>3, <1>4
<1>6. IsPrefix(x, z)
  BY <1>1, <1>2, <1>5 DEF IsPrefix
<1> QED
  BY <1>6 DEF x, z

\* None of them is the beginning of any file's.
LEMMA NoneBegin ==
  ASSUME NEW f \in Files
  PROVE  /\ IsPrefix(<<>>, Whole(f)) /\ ChunksOf(f, 1, 0) = <<>>
         /\ Chunked(f) = <<>> => Whole(f) = <<>>
<1>1. ChunksOf(f, 1, 0) = <<>>
  <2>1. ChunksOf(f, 1, 0) \in Seq(Numbered) /\ Len(ChunksOf(f, 1, 0)) = 0
    BY ChunksAre
  <2> HIDE DEF ChunksOf
  <2> QED
    BY <2>1
<1>2. IsPrefix(<<>>, Whole(f))
  BY <1>1, ChunksBegin, ChunkCount DEF Whole
<1>3. Chunked(f) = <<>> => Whole(f) = <<>>
  BY <1>1 DEF Whole
<1> QED
  BY <1>1, <1>2, <1>3

LEMMA LastIs ==
  ASSUME NEW r, req[r].file \in Files, req[r].next \in Nat \ {0},
         req[r].next <= Len(Chunked(req[r].file))
  PROVE  /\ LastOf(r) \in Nat /\ req[r].next <= LastOf(r)
         /\ LastOf(r) <= Len(Chunked(req[r].file))
<1>1. Len(Chunked(req[r].file)) \in Nat
  BY ChunkCount
<1> HIDE DEF Chunked
<1> QED
  BY <1>1, ConstantsAssumption DEF LastOf
----------------------------------------------------------------------------
(* The inductive invariant                                                 *)

\* At these a failure leaves the row or the chunks of the document behind its object.
AtWork(r, d) ==
    req[r].pc \in {"select", "upsert", "meta", "clear", "insert"} /\ req[r].doc = d

KeyOf(x, d) == x.key \in DOMAIN objects /\ x.key[1] = d

\* What the fields of a request say of each other
Shaped(r) ==
    LET s == req[r] IN
    /\ s.pc \in {"idle", "load"} <=> s.doc = None
    /\ s.doc # None => s.file \in Files /\ \A h \in s.docs : h.id # s.doc
    /\ s.doc = None => s.seen = None
    /\ s.pc = "idle" => s.docs = {}
    /\ s.seeds # <<>> => s.docs = {}
    /\ \A g, h \in s.docs : g.id = h.id => g = h
    /\ s.pc = "meta" => s.seen # None
    /\ IF s.pc = "insert" THEN s.next <= Len(Chunked(s.file)) ELSE s.next = 1

\* What it has read is of its documents, and there is an object for it.
Keyed(r) ==
    LET s == req[r] IN
    /\ \A h \in s.docs : KeyOf(h.row, h.id) /\ row[h.id] # None
    /\ s.seen # None => row[s.doc] # None /\ KeyOf(s.seen, s.doc)
    /\ s.pc \in {"clear", "insert"} => row[s.doc] # None
    /\ s.pc \in {"select", "upsert"} => <<s.doc, s.file.name>> \in DOMAIN objects

RowsKeyed == \A d \in Docs : row[d] # None => KeyOf(row[d], d)

\* Two at one document know it, and then it is one two were at.
SharingKnown ==
    \A r \in Requests :
        /\ \A q \in Requests \ {r} : Holds(r) \intersect Holds(q) \subseteq req[r].shared
        /\ Holds(r) \intersect req[r].shared \subseteq met

\* What is so of the document a request is at, if it shares that with no other
Step(r) ==
    LET s == req[r]  d == s.doc IN
    /\ s.pc \in {"select", "upsert"} => objects[<<d, s.file.name>>] = s.file
    /\ s.pc = "upsert" => s.seen = row[d]
    /\ s.pc = "meta" => s.seen = row[d] /\ s.file = objects[s.seen.key]
    /\ s.pc \in {"clear", "insert"} => row[d].meta = s.file /\ objects[row[d].key] = s.file
    /\ s.pc = "insert" => chunks[d] = ChunksOf(s.file, 1, s.next - 1)

Alone(r) ==
    /\ \A h \in req[r].docs : h.id \notin req[r].shared => row[h.id] = h.row
    /\ req[r].doc \notin req[r].shared => Step(r)

Settled(d) ==
    row[d].meta = objects[row[d].key] /\ chunks[d] = Whole(objects[row[d].key])

SettledElse ==
    \A d \in Docs :
        row[d] # None /\ d \notin spoiled /\ (\A r \in Requests : ~ AtWork(r, d)) => Settled(d)

Sound ==
    /\ TypeOK
    /\ \A r \in Requests : Shaped(r) /\ Keyed(r) /\ Alone(r)
    /\ RowsKeyed /\ SharingKnown /\ SettledElse /\ TwinsNeedTwoRequests

----------------------------------------------------------------------------
(* What a step leaves as it is                                             *)

\* The fields of a request are kept, and it shares no less.
Carried(q) ==
    /\ req'[q].pc = req[q].pc /\ req'[q].doc = req[q].doc /\ req'[q].file = req[q].file
    /\ req'[q].seen = req[q].seen /\ req'[q].next = req[q].next
    /\ req'[q].seeds = req[q].seeds /\ req'[q].docs = req[q].docs
    /\ req[q].shared \subseteq req'[q].shared

\* No row and no object is lost.
Grows ==
    /\ DOMAIN objects \subseteq DOMAIN objects'
    /\ \A d \in Docs : row[d] # None => row'[d] # None

\* Nothing is written of document d.
Same(d) ==
    /\ row'[d] = row[d] /\ chunks'[d] = chunks[d]
    /\ \A k \in DOMAIN objects : k[1] = d => objects'[k] = objects[k]

LEMMA ShapedKept ==
  ASSUME NEW q, Shaped(q), Carried(q)
  PROVE  Shaped(q)'
BY DEF Shaped, Carried

\* The documents a request has read are documents.
LEMMA FieldsTyped ==
  ASSUME TypeOK, NEW r \in Requests
  PROVE  /\ req[r] \in RequestType
         /\ req[r].docs \subseteq Held /\ req[r].shared \subseteq Docs /\ req[r].next \in Nat \ {0}
         /\ req[r].doc \in Docs \union {None} /\ req[r].file \in Files \union {None}
         /\ req[r].seen \in Rows \union {None} /\ req[r].seeds \in Seq(Files)
         /\ \A h \in req[r].docs : h.id \in Docs /\ h.row \in Rows
         /\ Holds(r) \subseteq Docs
         /\ \A h \in req[r].docs : h.id \in Holds(r)
         /\ req[r].doc # None => req[r].doc \in Holds(r)
<1>1. req[r] \in RequestType
  BY DEF TypeOK
<1>2. /\ req[r].docs \subseteq Held /\ req[r].shared \subseteq Docs /\ req[r].next \in Nat \ {0}
      /\ req[r].doc \in Docs \union {None} /\ req[r].file \in Files \union {None}
      /\ req[r].seen \in Rows \union {None} /\ req[r].seeds \in Seq(Files)
  BY <1>1 DEF RequestType
<1>3. \A h \in req[r].docs : h.id \in Docs /\ h.row \in Rows
  BY <1>2 DEF Held
<1>4. /\ Holds(r) \subseteq Docs
      /\ \A h \in req[r].docs : h.id \in Holds(r)
      /\ req[r].doc # None => req[r].doc \in Holds(r)
  BY <1>2, <1>3 DEF Holds
<1> QED
  BY <1>1, <1>2, <1>3, <1>4

LEMMA KeyedKept ==
  ASSUME TypeOK, NEW q \in Requests, Shaped(q), Keyed(q), Carried(q), Grows
  PROVE  Keyed(q)'
<1>1. /\ \A h \in req[q].docs : h.id \in Docs
      /\ req[q].doc # None => req[q].doc \in Docs
  BY FieldsTyped
<1>2. ASSUME NEW h \in req'[q].docs
      PROVE  KeyOf(h.row, h.id)' /\ row'[h.id] # None
  BY <1>1 DEF Keyed, KeyOf, Carried, Grows
<1>3. ASSUME req'[q].seen # None
      PROVE  row'[req'[q].doc] # None /\ KeyOf(req[q].seen, req[q].doc)'
  BY <1>1, <1>3, NoneAssumption DEF Keyed, Shaped, KeyOf, Carried, Grows
<1>4. req'[q].pc \in {"clear", "insert"} => row'[req'[q].doc] # None
  BY <1>1 DEF Keyed, Shaped, Carried, Grows
<1>5. req'[q].pc \in {"select", "upsert"} => <<req'[q].doc, req'[q].file.name>> \in DOMAIN objects'
  BY DEF Keyed, Carried, Grows
<1> QED
  BY <1>2, <1>3, <1>4, <1>5 DEF Keyed, KeyOf, Carried

\* Another request writes what this one shares with it, or what this one is not at.
LEMMA AloneKept ==
  ASSUME TypeOK, RowsKeyed, NEW q \in Requests, Shaped(q), Keyed(q), Alone(q), Carried(q),
         \A d \in Holds(q) : d \notin req'[q].shared => Same(d)
  PROVE  Alone(q)'
<1> DEFINE s == req[q]
           d == s.doc
<1>1. /\ \A h \in s.docs : h.id \in Holds(q)
      /\ d # None => d \in Docs /\ d \in Holds(q)
  BY FieldsTyped
<1>2. ASSUME NEW h \in req'[q].docs, h.id \notin req'[q].shared
      PROVE  row'[h.id] = h.row
  <2>1. h \in s.docs /\ h.id \notin s.shared
    BY <1>2 DEF Carried
  <2>2. row[h.id] = h.row /\ Same(h.id)
    BY <1>1, <1>2, <2>1 DEF Alone
  <2> QED
    BY <2>2 DEF Same
<1>3. ASSUME req'[q].doc \notin req'[q].shared
      PROVE  Step(q)'
  <2>1. CASE d = None
    <3>1. req'[q].pc \in {"idle", "load"}
      BY <2>1 DEF Shaped, Carried
    <3> QED
      BY <3>1 DEF Step
  <2>2. CASE d # None
    <3>1. d \in Docs /\ Step(q) /\ Same(d) /\ s.file \in Files
      BY <1>1, <1>3, <2>2 DEF Alone, Carried, Shaped
    <3>2. /\ row'[d] = row[d] /\ chunks'[d] = chunks[d]
          /\ \A k \in DOMAIN objects : k[1] = d => objects'[k] = objects[k]
      BY <3>1 DEF Same
    <3>3. s.pc \in {"select", "upsert"} => objects'[<<d, s.file.name>>] = s.file
      BY <3>1, <3>2 DEF Step, Keyed
    <3>4. s.pc = "upsert" => s.seen = row'[d]
      BY <3>1, <3>2 DEF Step
    <3>5. s.pc = "meta" => s.seen = row'[d] /\ s.file = objects'[s.seen.key]
      <4>1. s.pc = "meta" => KeyOf(s.seen, d)
        BY DEF Keyed, Shaped
      <4> QED
        BY <3>1, <3>2, <4>1 DEF Step, KeyOf
    <3>6. s.pc \in {"clear", "insert"} => row'[d].meta = s.file /\ objects'[row'[d].key] = s.file
      <4>1. s.pc \in {"clear", "insert"} => KeyOf(row[d], d)
        BY <3>1 DEF Keyed, RowsKeyed
      <4> QED
        BY <3>1, <3>2, <4>1 DEF Step, KeyOf
    <3>7. s.pc = "insert" => chunks'[d] = ChunksOf(s.file, 1, s.next - 1)
      BY <3>1, <3>2 DEF Step
    <3> QED
      BY <3>3, <3>4, <3>5, <3>6, <3>7 DEF Step, Carried
  <2> QED
    BY <2>1, <2>2
<1> QED
  BY <1>2, <1>3 DEF Alone

LEMMA RowKept ==
  ASSUME RowsKeyed, Grows, NEW d \in Docs, Same(d), row'[d] # None
  PROVE  /\ KeyOf(row[d], d)'
         /\ Settled(d) => Settled(d)'
<1>1. row[d] # None /\ KeyOf(row[d], d)
  BY DEF Same, RowsKeyed
<1>2. row'[d].key \in DOMAIN objects' /\ objects'[row'[d].key] = objects[row[d].key]
  BY <1>1 DEF Same, Grows, KeyOf
<1> QED
  BY <1>1, <1>2 DEF Same, Settled, KeyOf

----------------------------------------------------------------------------
(* Who shares what                                                         *)

Has(s) == {h.id : h \in s.docs} \union ({s.doc} \ {None})

LEMMA TakeShares ==
  ASSUME TypeOK, SharingKnown, NEW r \in Requests, NEW s \in RequestType, Take(r, s),
         Has(s) \intersect s.shared \subseteq met
  PROVE  /\ SharingKnown' /\ req' \in [Requests -> RequestType]
         /\ met \subseteq met' /\ met' \subseteq Docs
         /\ \A q \in Requests \ {r} : Carried(q)
         /\ /\ req'[r].pc = s.pc /\ req'[r].doc = s.doc /\ req'[r].file = s.file
            /\ req'[r].seen = s.seen /\ req'[r].next = s.next /\ req'[r].seeds = s.seeds
            /\ req'[r].docs = s.docs
<1> DEFINE both(q) == Has(s) \intersect Holds(q)
           all == UNION {both(q) : q \in Requests \ {r}}
<1>1. \A q \in Requests : req[q] \in RequestType /\ Holds(q) \subseteq Docs
  BY FieldsTyped
<1>2. /\ \A q \in Requests \ {r} : both(q) \subseteq all /\ both(q) \subseteq Docs
      /\ all \subseteq Docs
  BY <1>1
<1>3. /\ met' = met \union all
      /\ req' = [q \in Requests |->
                  IF q = r THEN [s EXCEPT !.shared = @ \union all]
                  ELSE [req[q] EXCEPT !.shared = @ \union both(q)]]
  BY DEF Take, Has
<1> HIDE DEF both, all
<1>4. /\ req'[r] = [s EXCEPT !.shared = @ \union all]
      /\ \A q \in Requests \ {r} : req'[q] = [req[q] EXCEPT !.shared = @ \union both(q)]
  BY <1>3
<1>5. /\ req'[r] \in RequestType /\ req'[r].shared = s.shared \union all
      /\ req'[r].pc = s.pc /\ req'[r].doc = s.doc /\ req'[r].file = s.file
      /\ req'[r].seen = s.seen /\ req'[r].next = s.next /\ req'[r].seeds = s.seeds
      /\ req'[r].docs = s.docs
  BY <1>2, <1>4 DEF RequestType
<1>6. ASSUME NEW q \in Requests \ {r}
      PROVE  /\ req'[q] \in RequestType /\ Carried(q) /\ req'[q].shared = req[q].shared \union both(q)
  <2>1. /\ req[q] \in RequestType /\ both(q) \subseteq Docs
        /\ req'[q] = [req[q] EXCEPT !.shared = @ \union both(q)]
    BY <1>1, <1>2, <1>4
  <2>2. req'[q] \in RequestType
    BY <2>1 DEF RequestType
  <2>3. Carried(q) /\ req'[q].shared = req[q].shared \union both(q)
    BY <2>1 DEF RequestType, Carried
  <2> QED
    BY <2>2, <2>3
<1>7. Holds(r)' = Has(s) /\ \A q \in Requests \ {r} : Holds(q)' = Holds(q)
  BY <1>5, <1>6 DEF Holds, Has, Carried
<1>8. req' \in [Requests -> RequestType]
  BY <1>3, <1>5, <1>6
<1>9. SharingKnown'
  <2>1. ASSUME NEW q \in Requests
        PROVE  Holds(q)' \intersect req'[q].shared \subseteq met'
    <3>1. CASE q = r
      BY <1>3, <1>5, <1>7, <3>1
    <3>2. CASE q # r
      <4>1. Holds(q) \intersect req[q].shared \subseteq met /\ both(q) \subseteq all
        BY <1>2, <3>2 DEF SharingKnown
      <4> QED
        BY <1>3, <1>6, <1>7, <3>2, <4>1
    <3> QED
      BY <3>1, <3>2
  <2>2. ASSUME NEW q \in Requests, NEW p \in Requests \ {q}
        PROVE  Holds(q)' \intersect Holds(p)' \subseteq req'[q].shared
    <3>1. CASE q = r
      BY <1>2, <1>5, <1>7, <3>1 DEF both
    <3>2. CASE q # r /\ p = r
      BY <1>6, <1>7, <3>2 DEF both
    <3>3. CASE q # r /\ p # r
      <4>1. Holds(q) \intersect Holds(p) \subseteq req[q].shared
        BY DEF SharingKnown
      <4> QED
        BY <1>6, <1>7, <3>3, <4>1
    <3> QED
      BY <3>1, <3>2, <3>3
  <2> QED
    BY <2>1, <2>2 DEF SharingKnown
<1>10. met \subseteq met' /\ met' \subseteq Docs
  BY <1>2, <1>3 DEF TypeOK
<1> QED
  BY <1>5, <1>6, <1>8, <1>9, <1>10

\* No request is at a document it was not at.
LEMMA SharesStill ==
  ASSUME SharingKnown,
         \A q \in Requests :
            /\ Holds(q)' \subseteq Holds(q)
            /\ Holds(q)' # {} => req'[q].shared = req[q].shared
            /\ Holds(q)' \intersect req'[q].shared \intersect met \subseteq met'
  PROVE  SharingKnown'
<1>1. ASSUME NEW q \in Requests
      PROVE  Holds(q)' \intersect req'[q].shared \subseteq met'
  <2>1. Holds(q)' \intersect req'[q].shared \subseteq met
    BY DEF SharingKnown
  <2> QED
    BY <2>1
<1>2. ASSUME NEW q \in Requests, NEW p \in Requests \ {q}
      PROVE  Holds(q)' \intersect Holds(p)' \subseteq req'[q].shared
  <2>1. Holds(q) \intersect Holds(p) \subseteq req[q].shared
    BY DEF SharingKnown
  <2> QED
    BY <2>1
<1> QED
  BY <1>1, <1>2 DEF SharingKnown

\* A request that does not know it shares its document is alone at it.
LEMMA AloneAt ==
  ASSUME SharingKnown, NEW r \in Requests, req[r].doc # None,
         NEW q \in Requests \ {r}, req[r].doc \in Holds(q)
  PROVE  req[r].doc \in req[q].shared /\ req[r].doc \in req[r].shared
BY DEF SharingKnown, Holds

LEMMA OneMoves ==
  ASSUME TypeOK, NEW r \in Requests, NEW t \in RequestType, req' = [req EXCEPT ![r] = t]
  PROVE  /\ req' \in [Requests -> RequestType] /\ req'[r] = t
         /\ \A q \in Requests \ {r} : req'[q] = req[q] /\ Carried(q) /\ Holds(q)' = Holds(q)
<1>1. req \in [Requests -> RequestType]
  BY DEF TypeOK
<1>2. /\ req' \in [Requests -> RequestType] /\ req'[r] = t
      /\ \A q \in Requests \ {r} : req'[q] = req[q]
  BY <1>1
<1> QED
  BY <1>2 DEF Carried, Holds

----------------------------------------------------------------------------
(* A step of one request, at its document                                  *)

Elsewhere(r) ==
    /\ Grows
    /\ \A q \in Requests \ {r} : Carried(q)
    /\ \A d \in Docs :
          d # req[r].doc => Same(d) /\ (d \in spoiled => d \in spoiled') /\ (d \in met => d \in met')

\* What the step owes to document d
Written(d) ==
    /\ row'[d] # None => KeyOf(row[d], d)'
    /\ row'[d] # None /\ d \notin spoiled' /\ (\A q \in Requests : ~ AtWork(q, d)') => Settled(d)'
    /\ d \notin met' => \E f \in Files : IsPrefix(chunks'[d], Whole(f))

LEMMA StepSound ==
  ASSUME Sound, NEW r \in Requests, TypeOK', SharingKnown', Elsewhere(r),
         Shaped(r)', Keyed(r)', Alone(r)', \A d \in Docs : d = req[r].doc => Written(d)
  PROVE  Sound'
<1>1. ASSUME NEW q \in Requests \ {r}
      PROVE  Shaped(q)' /\ Keyed(q)' /\ Alone(q)'
  <2>1. Shaped(q) /\ Keyed(q) /\ Alone(q) /\ Carried(q) /\ Grows /\ TypeOK /\ RowsKeyed /\ SharingKnown
    BY DEF Sound, Elsewhere
  <2>2. ASSUME NEW d \in Holds(q), d \notin req'[q].shared
        PROVE  Same(d)
    <3>1. d \in Docs /\ d # None
      BY <2>1, FieldsTyped, NoneAssumption
    <3>2. d # req[r].doc
      <4>1. d \notin req[q].shared
        BY <2>1, <2>2 DEF Carried
      <4> QED
        BY <2>1, <3>1, <4>1, AloneAt
    <3> QED
      BY <3>1, <3>2 DEF Elsewhere
  <2>3. Alone(q)'
    BY <2>1, <2>2, AloneKept
  <2> QED
    BY <2>1, <2>3, ShapedKept, KeyedKept
<1>2. ASSUME NEW d \in Docs
      PROVE  Written(d)
  <2>1. CASE d = req[r].doc
    BY <2>1
  <2>2. CASE d # req[r].doc
    <3>1. /\ Same(d) /\ (d \in spoiled => d \in spoiled') /\ (d \in met => d \in met')
          /\ Grows /\ RowsKeyed
      BY <2>2 DEF Elsewhere, Sound
    <3>2. row'[d] # None => KeyOf(row[d], d)'
      BY <3>1, RowKept
    <3>3. ASSUME row'[d] # None, d \notin spoiled', \A q \in Requests : ~ AtWork(q, d)'
          PROVE  Settled(d)'
      <4>1. \A q \in Requests \ {r} : Carried(q)
        BY DEF Elsewhere
      <4>2. \A q \in Requests : ~ AtWork(q, d)
        BY <2>2, <3>3, <4>1 DEF AtWork, Carried
      <4>3. row[d] # None /\ d \notin spoiled
        BY <3>1, <3>3 DEF Same
      <4>4. Settled(d)
        BY <4>2, <4>3 DEF Sound, SettledElse
      <4> QED
        BY <3>1, <3>3, <4>4, RowKept
    <3>4. d \notin met' => \E f \in Files : IsPrefix(chunks'[d], Whole(f))
      BY <3>1 DEF Sound, TwinsNeedTwoRequests, Same
    <3> QED
      BY <3>2, <3>3, <3>4 DEF Written
  <2> QED
    BY <2>1, <2>2
<1>3. RowsKeyed' /\ SettledElse' /\ TwinsNeedTwoRequests'
  <2>1. RowsKeyed'
    BY <1>2 DEF RowsKeyed, Written
  <2>2. SettledElse'
    BY <1>2 DEF SettledElse, Written
  <2>3. TwinsNeedTwoRequests'
    BY <1>2 DEF TwinsNeedTwoRequests, Written
  <2> QED
    BY <2>1, <2>2, <2>3
<1> QED
  BY <1>1, <1>3 DEF Sound

\* Nothing is written at all.
LEMMA NothingWritten ==
  ASSUME Sound, UNCHANGED <<objects, row, chunks>>
  PROVE  /\ Grows /\ \A d \in Docs : Same(d)
         /\ \A d \in Docs : row'[d] # None => KeyOf(row[d], d)'
         /\ \A d \in Docs : Settled(d) => Settled(d)'
         /\ \A d \in Docs : d \notin met => \E f \in Files : IsPrefix(chunks'[d], Whole(f))
<1>1. Grows /\ \A d \in Docs : Same(d)
  BY DEF Grows, Same
<1> QED
  BY <1>1 DEF Sound, RowsKeyed, KeyOf, Settled, TwinsNeedTwoRequests

LEMMA IdleTyped == Idle \in RequestType
BY NoneAssumption DEF Idle, RequestType

LEMMA InitSound ==
  ASSUME Init
  PROVE  Sound
<1>1. \A r \in Requests : req[r] = Idle
  BY DEF Init
<1>2. Idle \in RequestType
  BY IdleTyped
<1>3. TypeOK
  <2>1. objects \in [DOMAIN objects -> Files] /\ DOMAIN objects \subseteq Keys
    BY DEF Init
  <2>2. row \in [Docs -> Rows \union {None}] /\ chunks \in [Docs -> Seq([of : Files, no : Nat])]
    BY DEF Init
  <2>3. \A d \in Docs : DOMAIN chunks[d] = {}
    BY DEF Init
  <2>4. req \in [Requests -> RequestType]
    BY <1>2 DEF Init
  <2>5. 0 \in 0 .. MaxRequests /\ 0 \in 0 .. MaxFaults
    BY ConstantsAssumption
  <2> QED
    BY <2>1, <2>2, <2>3, <2>4, <2>5 DEF Init, TypeOK
<1>4. ASSUME NEW r \in Requests
      PROVE  Shaped(r) /\ Keyed(r) /\ Alone(r) /\ Holds(r) = {}
  BY <1>1 DEF Idle, Shaped, Keyed, Alone, Step, Holds
<1>5. SharingKnown
  BY <1>4 DEF SharingKnown
<1>6. RowsKeyed /\ SettledElse
  BY DEF Init, RowsKeyed, SettledElse
<1>7. TwinsNeedTwoRequests
  BY NoneAssumption, NoneBegin DEF Init, TwinsNeedTwoRequests
<1> QED
  BY <1>3, <1>4, <1>5, <1>6, <1>7 DEF Sound

----------------------------------------------------------------------------
(* Every step keeps the invariant                                          *)

\* A request that has just taken a file, or rows it has just read.
Fresh(s) ==
    /\ s.seen = None /\ s.next = 1
    /\ \/ s.pc = "put" /\ s.doc # None /\ s.file \in Files /\ s.docs = {}
       \/ /\ s.pc = "load" /\ s.doc = None /\ s.seeds = <<>>
          /\ \A g, h \in s.docs : g.id = h.id => g = h
          /\ \A h \in s.docs : h.id \in Docs /\ row[h.id] # None /\ h.row = row[h.id]

LEMMA FreshFits ==
  ASSUME Sound, NEW r \in Requests, NEW s, Fresh(s), UNCHANGED row,
         DOMAIN objects \subseteq DOMAIN objects',
         /\ req'[r].pc = s.pc /\ req'[r].doc = s.doc /\ req'[r].file = s.file
         /\ req'[r].seen = s.seen /\ req'[r].next = s.next /\ req'[r].seeds = s.seeds
         /\ req'[r].docs = s.docs
  PROVE  Shaped(r)' /\ Keyed(r)' /\ Alone(r)'
<1>1. Shaped(r)'
  BY DEF Fresh, Shaped
<1>2. Keyed(r)'
  BY DEF Fresh, Keyed, KeyOf, Sound, RowsKeyed
<1>3. Alone(r)'
  BY DEF Fresh, Alone, Step
<1> QED
  BY <1>1, <1>2, <1>3

LEMMA BeginSound ==
  ASSUME Sound, NEW r \in Requests, NEW s \in RequestType, Begin(r), Take(r, s), Fresh(s), s.shared = {}
  PROVE  Sound'
<1>1. TypeOK /\ SharingKnown /\ UNCHANGED <<objects, row, chunks, spoiled, faults>>
  BY DEF Sound, Begin
<1>2. /\ SharingKnown' /\ req' \in [Requests -> RequestType]
      /\ met \subseteq met' /\ met' \subseteq Docs
      /\ \A q \in Requests \ {r} : Carried(q)
      /\ /\ req'[r].pc = s.pc /\ req'[r].doc = s.doc /\ req'[r].file = s.file
         /\ req'[r].seen = s.seen /\ req'[r].next = s.next /\ req'[r].seeds = s.seeds
         /\ req'[r].docs = s.docs
  BY <1>1, TakeShares
<1>3. TypeOK'
  <2>1. count' \in 0 .. MaxRequests
    BY <1>1, ConstantsAssumption DEF Begin, TypeOK
  <2> QED
    BY <1>1, <1>2, <2>1 DEF TypeOK
<1>4. Shaped(r)' /\ Keyed(r)' /\ Alone(r)'
  BY <1>1, <1>2, FreshFits
<1>5. req[r].doc = None
  BY DEF Begin, Sound, Shaped
<1>6. Elsewhere(r)
  BY <1>1, <1>2, NothingWritten DEF Elsewhere
<1> QED
  BY <1>2, <1>3, <1>4, <1>5, <1>6, NoneAssumption, StepSound

\* The document a file is of
LEMMA CodeIs ==
  ASSUME NEW f \in Files
  PROVE  DocCode(f) \in Docs /\ DocCode(f) # None
BY NoneAssumption DEF Docs

LEMMA UploadSound ==
  ASSUME Sound, NEW r \in Requests, Upload(r)
  PROVE  Sound'
<1>1. PICK f \in Uploads :
        Take(r, [Idle EXCEPT !.pc = "put", !.file = f, !.doc = NewIds[count + 1]])
  BY DEF Upload
<1> DEFINE s == [Idle EXCEPT !.pc = "put", !.file = f, !.doc = NewIds[count + 1]]
<1>2. NewIds[count + 1] \in Docs
  <2>1. count + 1 \in DOMAIN NewIds
    <3>1. count \in Nat /\ MaxRequests \in Nat /\ count < MaxRequests /\ MaxRequests <= Len(NewIds)
          /\ Len(NewIds) \in Nat
      BY ConstantsAssumption DEF Upload, Begin, Sound, TypeOK
    <3>2. DOMAIN NewIds = 1 .. Len(NewIds)
      BY ConstantsAssumption
    <3> QED
      BY <3>1, <3>2
  <2> QED
    BY <2>1 DEF Docs, ToSet
<1>3. f \in Files
  BY ConstantsAssumption
<1>4. s \in RequestType /\ Fresh(s) /\ s.shared = {}
  <2>1. /\ s.pc = "put" /\ s.doc = NewIds[count + 1] /\ s.file = f /\ s.seen = None /\ s.docs = {}
        /\ s.shared = {} /\ s.next = 1
    BY DEF Idle
  <2>2. s \in RequestType
    BY <1>2, <1>3, IdleTyped DEF RequestType
  <2> HIDE DEF s
  <2> QED
    BY <1>2, <1>3, <2>1, <2>2, NoneAssumption DEF Fresh
<1>5. Begin(r) /\ Take(r, s)
  BY <1>1 DEF Upload
<1> HIDE DEF s
<1> QED
  BY <1>4, <1>5, BeginSound

LEMMA SeedSound ==
  ASSUME Sound, NEW r \in Requests, Seed(r)
  PROVE  Sound'
<1>1. PICK dir \in SeedDirs \ {<<>>} :
        Take(r, [Idle EXCEPT !.pc = "put", !.file = Head(dir), !.doc = DocCode(Head(dir)),
                             !.seeds = Tail(dir)])
  BY DEF Seed
<1> DEFINE s == [Idle EXCEPT !.pc = "put", !.file = Head(dir), !.doc = DocCode(Head(dir)),
                             !.seeds = Tail(dir)]
<1>2. Head(dir) \in Files /\ Tail(dir) \in Seq(Files)
  <2>1. dir \in Seq(Files) /\ dir # <<>>
    BY <1>1, ConstantsAssumption
  <2> QED
    BY <2>1
<1>3. DocCode(Head(dir)) \in Docs /\ DocCode(Head(dir)) # None
  BY <1>2, CodeIs
<1>4. s \in RequestType /\ Fresh(s) /\ s.shared = {}
  <2>1. /\ s.pc = "put" /\ s.doc = DocCode(Head(dir)) /\ s.file = Head(dir) /\ s.seen = None
        /\ s.docs = {} /\ s.shared = {} /\ s.next = 1
    BY DEF Idle
  <2>2. s \in RequestType
    BY <1>2, <1>3, IdleTyped DEF RequestType
  <2> HIDE DEF s
  <2> QED
    BY <1>2, <1>3, <2>1, <2>2 DEF Fresh
<1>5. Begin(r) /\ Take(r, s)
  BY <1>1 DEF Seed
<1> HIDE DEF s
<1> QED
  BY <1>4, <1>5, BeginSound

LEMMA ReindexSound ==
  ASSUME Sound, NEW r \in Requests, Reindex(r)
  PROVE  Sound'
<1> DEFINE there == {[id |-> d, row |-> row[d]] : d \in {d \in Docs : row[d] # None}}
           s(docs) == [Idle EXCEPT !.pc = "load", !.docs = docs]
<1>1. PICK docs \in {there} \union {{d} : d \in there} : Take(r, s(docs))
  BY DEF Reindex
<1>2. docs \subseteq there
  BY <1>1
<1>3. \A h \in there : h.id \in Docs /\ h.row = row[h.id] /\ row[h.id] # None /\ h \in Held
  BY DEF Sound, TypeOK, Held
<1>4. \A g, h \in there : g.id = h.id => g = h
  OBVIOUS
<1> HIDE DEF there
<1>5. s(docs) \in RequestType /\ Fresh(s(docs)) /\ s(docs).shared = {}
  <2>1. /\ s(docs).pc = "load" /\ s(docs).doc = None /\ s(docs).seeds = <<>> /\ s(docs).seen = None
        /\ s(docs).docs = docs /\ s(docs).shared = {} /\ s(docs).next = 1
    BY DEF Idle
  <2>2. s(docs) \in RequestType
    BY <1>2, <1>3, IdleTyped DEF RequestType
  <2> HIDE DEF s
  <2> QED
    BY <1>2, <1>3, <1>4, <2>1, <2>2 DEF Fresh
<1>6. Begin(r) /\ Take(r, s(docs))
  BY <1>1 DEF Reindex
<1> HIDE DEF s
<1> QED
  BY <1>5, <1>6, BeginSound

\* A request goes on at what it has.
LEMMA GoesOn ==
  ASSUME Sound, NEW r \in Requests, NEW t \in RequestType, req' = [req EXCEPT ![r] = t],
         Has(t) \subseteq Holds(r), Has(t) # {} => t.shared = req[r].shared,
         \A q \in Requests : Holds(q)' \intersect req'[q].shared \intersect met \subseteq met'
  PROVE  /\ SharingKnown' /\ req' \in [Requests -> RequestType] /\ req'[r] = t
         /\ \A q \in Requests \ {r} : Carried(q) /\ req'[q] = req[q] /\ Holds(q)' = Holds(q)
<1>1. /\ req' \in [Requests -> RequestType] /\ req'[r] = t
      /\ \A q \in Requests \ {r} : req'[q] = req[q] /\ Carried(q) /\ Holds(q)' = Holds(q)
  BY OneMoves DEF Sound
<1>2. Holds(r)' = Has(t)
  BY <1>1 DEF Holds, Has
<1>3. \A q \in Requests : Holds(q)' \subseteq Holds(q) /\ (Holds(q)' # {} => req'[q].shared = req[q].shared)
  BY <1>1, <1>2
<1>4. SharingKnown'
  BY <1>3, SharesStill DEF Sound
<1> QED
  BY <1>1, <1>4

LEMMA PutSound ==
  ASSUME Sound, NEW r \in Requests, Put(r)
  PROVE  Sound'
<1> DEFINE s == req[r]
           d == s.doc
           key == <<d, s.file.name>>
           t == [s EXCEPT !.pc = "select"]
<1>1. /\ TypeOK /\ Shaped(r) /\ Keyed(r) /\ Alone(r) /\ RowsKeyed
      /\ s.pc = "put" /\ s \in RequestType /\ s.docs \subseteq Held
      /\ UNCHANGED <<row, chunks, count, spoiled, met, faults>>
  BY FieldsTyped DEF Sound, Put
<1>2. d \in Docs /\ d # None /\ s.file \in Files
  BY <1>1, FieldsTyped, NoneAssumption DEF Shaped
<1>3. /\ DOMAIN objects' = DOMAIN objects \union {key}
      /\ objects'[key] = s.file
      /\ \A k \in DOMAIN objects : k # key => objects'[k] = objects[k]
      /\ objects' \in [DOMAIN objects' -> Files]
  BY <1>1, <1>2 DEF Put, TypeOK
<1>4. key \in Keys
  BY <1>2 DEF Keys
<1>5. /\ SharingKnown' /\ req' \in [Requests -> RequestType] /\ req'[r] = t
      /\ \A q \in Requests \ {r} : Carried(q)
  <2>1. t \in RequestType /\ Has(t) = Holds(r) /\ t.shared = s.shared
    BY <1>1 DEF RequestType, Has, Holds
  <2>2. req' = [req EXCEPT ![r] = t]
    BY DEF Put, Go
  <2>3. Has(t) \subseteq Holds(r)
        /\ \A q \in Requests : Holds(q)' \intersect req'[q].shared \intersect met \subseteq met'
    BY <1>1, <2>1
  <2> HIDE DEF t
  <2> QED
    BY <2>1, <2>2, <2>3, GoesOn
<1>6. /\ t.pc = "select" /\ t.doc = d /\ t.file = s.file /\ t.seen = s.seen /\ t.next = s.next
      /\ t.seeds = s.seeds /\ t.docs = s.docs /\ t.shared = s.shared
  BY <1>1 DEF RequestType
<1>7. TypeOK'
  BY <1>1, <1>3, <1>4, <1>5 DEF TypeOK
<1> HIDE DEF t
<1>8. Grows
  BY <1>1, <1>3 DEF Grows
<1>9. Shaped(r)' /\ Keyed(r)' /\ Alone(r)'
  <2>1. Shaped(r)'
    BY <1>1, <1>2, <1>5, <1>6 DEF Shaped
  <2>2. Keyed(r)'
    BY <1>1, <1>2, <1>3, <1>5, <1>6 DEF Keyed, KeyOf
  <2>3. Alone(r)'
    BY <1>1, <1>2, <1>3, <1>5, <1>6 DEF Alone, Step
  <2> QED
    BY <2>1, <2>2, <2>3
<1>10. Elsewhere(r)
  BY <1>1, <1>3, <1>5, <1>8 DEF Elsewhere, Same
<1>11. ASSUME NEW e \in Docs, e = req[r].doc
       PROVE  Written(e)
  <2>1. AtWork(r, e)'
    BY <1>5, <1>6, <1>11 DEF AtWork
  <2>2. row'[e] # None => KeyOf(row[e], e)'
    BY <1>1, <1>3 DEF RowsKeyed, KeyOf
  <2> QED
    BY <1>1, <2>1, <2>2 DEF Written, Sound, TwinsNeedTwoRequests
<1> QED
  BY <1>5, <1>7, <1>9, <1>10, <1>11, StepSound

LEMMA SelectRowSound ==
  ASSUME Sound, NEW r \in Requests, SelectRow(r)
  PROVE  Sound'
<1> DEFINE s == req[r]
           d == s.doc
           t == [s EXCEPT !.pc = "upsert", !.seen = row[d]]
<1>1. /\ TypeOK /\ Shaped(r) /\ Keyed(r) /\ Alone(r) /\ RowsKeyed
      /\ s.pc = "select" /\ s \in RequestType /\ s.docs \subseteq Held
      /\ UNCHANGED <<objects, row, chunks, count, spoiled, met, faults>>
  BY FieldsTyped DEF Sound, SelectRow
<1>2. d \in Docs /\ d # None /\ s.file \in Files /\ row[d] \in Rows \union {None}
  BY <1>1, FieldsTyped, NoneAssumption DEF Shaped, TypeOK
<1>3. /\ SharingKnown' /\ req' \in [Requests -> RequestType] /\ req'[r] = t
      /\ \A q \in Requests \ {r} : Carried(q)
  <2>1. t \in RequestType /\ Has(t) = Holds(r) /\ t.shared = s.shared
    BY <1>1, <1>2 DEF RequestType, Has, Holds
  <2>2. req' = [req EXCEPT ![r] = t]
    BY DEF SelectRow
  <2>3. Has(t) \subseteq Holds(r)
        /\ \A q \in Requests : Holds(q)' \intersect req'[q].shared \intersect met \subseteq met'
    BY <1>1, <2>1
  <2> HIDE DEF t
  <2> QED
    BY <2>1, <2>2, <2>3, GoesOn
<1>4. /\ t.pc = "upsert" /\ t.doc = d /\ t.file = s.file /\ t.seen = row[d] /\ t.next = s.next
      /\ t.seeds = s.seeds /\ t.docs = s.docs /\ t.shared = s.shared
  BY <1>1 DEF RequestType
<1>5. TypeOK'
  BY <1>1, <1>3 DEF TypeOK
<1> HIDE DEF t
<1>6. Shaped(r)' /\ Keyed(r)' /\ Alone(r)'
  <2>1. Shaped(r)'
    BY <1>1, <1>2, <1>3, <1>4 DEF Shaped
  <2>2. Keyed(r)'
    BY <1>1, <1>2, <1>3, <1>4 DEF Keyed, KeyOf, RowsKeyed
  <2>3. Alone(r)'
    BY <1>1, <1>2, <1>3, <1>4 DEF Alone, Step
  <2> QED
    BY <2>1, <2>2, <2>3
<1>7. Elsewhere(r)
  BY <1>1, <1>3, NothingWritten DEF Elsewhere
<1>8. ASSUME NEW e \in Docs, e = req[r].doc
      PROVE  Written(e)
  <2>1. AtWork(r, e)'
    BY <1>3, <1>4, <1>8 DEF AtWork
  <2> QED
    BY <1>1, <2>1, NothingWritten DEF Written
<1> QED
  BY <1>3, <1>5, <1>6, <1>7, <1>8, StepSound

LEMMA UpsertSound ==
  ASSUME Sound, NEW r \in Requests, Upsert(r)
  PROVE  Sound'
<1> DEFINE s == req[r]
           d == s.doc
           key == <<d, s.file.name>>
           new == [key |-> key, meta |-> s.file]
           t == [s EXCEPT !.pc = "clear"]
           x == IF s.seen = None THEN new
                ELSE [key  |-> IF new.key = s.seen.key THEN row[d].key ELSE new.key,
                      meta |-> IF new.meta = s.seen.meta THEN row[d].meta ELSE new.meta]
<1>1. /\ TypeOK /\ Shaped(r) /\ Keyed(r) /\ Alone(r) /\ RowsKeyed
      /\ s.pc = "upsert" /\ s \in RequestType /\ s.docs \subseteq Held
      /\ UNCHANGED <<objects, chunks, count, spoiled, met, faults>>
  BY FieldsTyped DEF Sound, Upsert
<1>2. d \in Docs /\ d # None /\ s.file \in Files /\ s.seen \in Rows \union {None}
  BY <1>1, FieldsTyped, NoneAssumption DEF Shaped
<1>3. row' = [row EXCEPT ![d] = x]
  BY DEF Upsert
<1>4. key \in Keys /\ key \in DOMAIN objects
  BY <1>1, <1>2 DEF Keys, Keyed
<1>5. new \in Rows /\ new.key = key /\ new.meta = s.file
  BY <1>2, <1>4 DEF Rows
<1>6. s.seen # None => row[d] \in Rows /\ row[d] # None /\ KeyOf(row[d], d)
  BY <1>1, <1>2 DEF Keyed, RowsKeyed, TypeOK
<1> HIDE DEF new
<1>7. x \in Rows /\ x.key \in DOMAIN objects /\ x.key[1] = d
  <2>1. CASE s.seen = None
    BY <1>4, <1>5, <2>1
  <2>2. CASE s.seen # None
    <3>1. /\ x.key = IF new.key = s.seen.key THEN row[d].key ELSE key
          /\ x.meta = IF new.meta = s.seen.meta THEN row[d].meta ELSE new.meta
          /\ x = [key |-> x.key, meta |-> x.meta]
      BY <1>5, <2>2
    <3>2. row[d].key \in Keys /\ row[d].meta \in Files /\ new.meta \in Files
      BY <1>5, <1>6, <2>2 DEF Rows
    <3> HIDE DEF x
    <3> QED
      BY <1>4, <1>6, <2>2, <3>1, <3>2 DEF Rows, KeyOf
  <2> QED
    BY <2>1, <2>2
<1>8. d \notin s.shared => x.key = key /\ x.meta = s.file
  <2>1. CASE s.seen = None
    BY <1>5, <2>1
  <2>2. CASE s.seen # None /\ d \notin s.shared
    <3>1. s.seen = row[d]
      BY <1>1, <2>2 DEF Alone, Step
    <3> QED
      BY <1>5, <2>2, <3>1
  <2> QED
    BY <2>1, <2>2
<1> HIDE DEF x
<1>9. /\ row' \in [Docs -> Rows \union {None}] /\ row'[d] = x /\ x # None
      /\ \A e \in Docs : e # d => row'[e] = row[e]
  BY <1>1, <1>2, <1>3, <1>7, NoneAssumption DEF TypeOK
<1>10. /\ SharingKnown' /\ req' \in [Requests -> RequestType] /\ req'[r] = t
       /\ \A q \in Requests \ {r} : Carried(q)
  <2>1. t \in RequestType /\ Has(t) = Holds(r) /\ t.shared = s.shared
    BY <1>1 DEF RequestType, Has, Holds
  <2>2. req' = [req EXCEPT ![r] = t]
    BY DEF Upsert, Go
  <2>3. Has(t) \subseteq Holds(r)
        /\ \A q \in Requests : Holds(q)' \intersect req'[q].shared \intersect met \subseteq met'
    BY <1>1, <2>1
  <2> HIDE DEF t
  <2> QED
    BY <2>1, <2>2, <2>3, GoesOn
<1>11. /\ t.pc = "clear" /\ t.doc = d /\ t.file = s.file /\ t.seen = s.seen /\ t.next = s.next
       /\ t.seeds = s.seeds /\ t.docs = s.docs /\ t.shared = s.shared
  BY <1>1 DEF RequestType
<1>12. TypeOK'
  BY <1>1, <1>9, <1>10 DEF TypeOK
<1> HIDE DEF t, key
<1>13. Grows
  BY <1>1, <1>9 DEF Grows
<1>14. Shaped(r)' /\ Keyed(r)' /\ Alone(r)'
  <2>1. Shaped(r)'
    BY <1>1, <1>2, <1>10, <1>11 DEF Shaped
  <2>2. \A h \in s.docs : h.id \in Docs /\ h.id # d
    BY <1>1, <1>2 DEF Held, Shaped
  <2>3. Keyed(r)'
    BY <1>1, <1>2, <1>9, <1>10, <1>11, <2>2 DEF Keyed, KeyOf
  <2>4. d \notin s.shared => objects[key] = s.file
    BY <1>1 DEF Alone, Step, key
  <2>5. Alone(r)'
    BY <1>1, <1>2, <1>8, <1>9, <1>10, <1>11, <2>2, <2>4 DEF Alone, Step
  <2> QED
    BY <2>1, <2>3, <2>5
<1>15. Elsewhere(r)
  BY <1>1, <1>9, <1>10, <1>13 DEF Elsewhere, Same
<1>16. ASSUME NEW e \in Docs, e = req[r].doc
       PROVE  Written(e)
  <2>1. AtWork(r, e)'
    BY <1>10, <1>11, <1>16 DEF AtWork
  <2>2. KeyOf(row[e], e)'
    BY <1>1, <1>7, <1>9, <1>16 DEF KeyOf
  <2> QED
    BY <1>1, <2>1, <2>2 DEF Written, Sound, TwinsNeedTwoRequests
<1> QED
  BY <1>10, <1>12, <1>14, <1>15, <1>16, StepSound

LEMMA LoadSound ==
  ASSUME Sound, NEW r \in Requests, Load(r)
  PROVE  Sound'
<1> DEFINE s == req[r]
<1>1. /\ TypeOK /\ Shaped(r) /\ Keyed(r) /\ Alone(r)
      /\ s.pc = "load" /\ s.doc = None /\ s \in RequestType /\ s.docs \subseteq Held
      /\ UNCHANGED <<objects, row, chunks, count, spoiled, met, faults>>
  BY FieldsTyped DEF Sound, Load, Shaped
<1>2. PICK h \in s.docs :
        req' = [req EXCEPT ![r].pc = "meta", ![r].docs = @ \ {h}, ![r].doc = h.id,
                           ![r].seen = h.row, ![r].file = objects[h.row.key]]
  BY DEF Load
<1> DEFINE t == [s EXCEPT !.pc = "meta", !.docs = @ \ {h}, !.doc = h.id, !.seen = h.row,
                          !.file = objects[h.row.key]]
<1>3. /\ h.id \in Docs /\ h.row \in Rows /\ KeyOf(h.row, h.id) /\ row[h.id] # None
      /\ objects[h.row.key] \in Files
  BY <1>1 DEF Held, Keyed, KeyOf, TypeOK
<1>4. /\ t.pc = "meta" /\ t.doc = h.id /\ t.file = objects[h.row.key] /\ t.seen = h.row
      /\ t.next = s.next /\ t.seeds = s.seeds /\ t.docs = s.docs \ {h} /\ t.shared = s.shared
  BY <1>1 DEF RequestType
<1>5. /\ SharingKnown' /\ req' \in [Requests -> RequestType] /\ req'[r] = t
      /\ \A q \in Requests \ {r} : Carried(q)
  <2>1. t \in RequestType
    BY <1>1, <1>3 DEF RequestType
  <2>2. req' = [req EXCEPT ![r] = t]
    BY <1>2
  <2>3. Has(t) \subseteq Holds(r)
    BY <1>4 DEF Has, Holds
  <2>4. \A q \in Requests : Holds(q)' \intersect req'[q].shared \intersect met \subseteq met'
    BY <1>1
  <2> HIDE DEF t
  <2> QED
    BY <1>4, <2>1, <2>2, <2>3, <2>4, GoesOn
<1> HIDE DEF t
<1>6. TypeOK'
  BY <1>1, <1>5 DEF TypeOK
<1>7. Shaped(r)' /\ Keyed(r)' /\ Alone(r)'
  <2>1. h.id # None /\ h.row # None /\ s.seeds = <<>>
    BY <1>1, <1>3, NoneAssumption DEF Shaped
  <2>2. \A g \in t.docs : g \in s.docs /\ g.id # h.id
    BY <1>1, <1>4 DEF Shaped
  <2>3. Shaped(r)'
    BY <1>1, <1>3, <1>4, <1>5, <2>1, <2>2 DEF Shaped
  <2>4. Keyed(r)'
    BY <1>1, <1>3, <1>4, <1>5, <2>2 DEF Keyed, KeyOf
  <2>5. Alone(r)'
    BY <1>1, <1>3, <1>4, <1>5, <2>2 DEF Alone, Step
  <2> QED
    BY <2>3, <2>4, <2>5
<1>8. Elsewhere(r)
  BY <1>1, <1>5, NothingWritten DEF Elsewhere
<1> QED
  BY <1>1, <1>5, <1>6, <1>7, <1>8, NoneAssumption, StepSound

LEMMA SetMetaSound ==
  ASSUME Sound, NEW r \in Requests, SetMeta(r)
  PROVE  Sound'
<1> DEFINE s == req[r]
           d == s.doc
           t == [s EXCEPT !.pc = "clear"]
           m == IF s.file = s.seen.meta THEN row[d].meta ELSE s.file
           x == [row[d] EXCEPT !.meta = m]
<1>1. /\ TypeOK /\ Shaped(r) /\ Keyed(r) /\ Alone(r) /\ RowsKeyed
      /\ s.pc = "meta" /\ s \in RequestType /\ s.docs \subseteq Held
      /\ UNCHANGED <<objects, chunks, count, spoiled, met, faults>>
  BY FieldsTyped DEF Sound, SetMeta
<1>2. /\ d \in Docs /\ d # None /\ s.file \in Files
      /\ row[d] # None /\ row[d] \in Rows /\ KeyOf(row[d], d)
  BY <1>1, FieldsTyped, NoneAssumption DEF Shaped, Keyed, RowsKeyed, TypeOK
<1>3. row' = [row EXCEPT ![d] = x]
  BY DEF SetMeta
<1>4. x \in Rows /\ x.key = row[d].key /\ x.meta = m
  BY <1>2 DEF Rows
<1>5. d \notin s.shared => m = s.file /\ objects[row[d].key] = s.file
  BY <1>1 DEF Alone, Step
<1> HIDE DEF x, m
<1>6. /\ row' \in [Docs -> Rows \union {None}] /\ row'[d] = x /\ x # None
      /\ \A e \in Docs : e # d => row'[e] = row[e]
  BY <1>1, <1>2, <1>3, <1>4, NoneAssumption DEF TypeOK
<1>7. /\ SharingKnown' /\ req' \in [Requests -> RequestType] /\ req'[r] = t
      /\ \A q \in Requests \ {r} : Carried(q)
  <2>1. t \in RequestType /\ Has(t) = Holds(r) /\ t.shared = s.shared
    BY <1>1 DEF RequestType, Has, Holds
  <2>2. req' = [req EXCEPT ![r] = t]
    BY DEF SetMeta, Go
  <2>3. Has(t) \subseteq Holds(r)
        /\ \A q \in Requests : Holds(q)' \intersect req'[q].shared \intersect met \subseteq met'
    BY <1>1, <2>1
  <2> HIDE DEF t
  <2> QED
    BY <2>1, <2>2, <2>3, GoesOn
<1>8. /\ t.pc = "clear" /\ t.doc = d /\ t.file = s.file /\ t.seen = s.seen /\ t.next = s.next
      /\ t.seeds = s.seeds /\ t.docs = s.docs /\ t.shared = s.shared
  BY <1>1 DEF RequestType
<1>9. TypeOK'
  BY <1>1, <1>6, <1>7 DEF TypeOK
<1> HIDE DEF t
<1>10. Grows
  BY <1>1, <1>6 DEF Grows
<1>11. Shaped(r)' /\ Keyed(r)' /\ Alone(r)'
  <2>1. Shaped(r)'
    BY <1>1, <1>2, <1>7, <1>8 DEF Shaped
  <2>2. \A h \in s.docs : h.id \in Docs /\ h.id # d
    BY <1>1, <1>2 DEF Held, Shaped
  <2>3. Keyed(r)'
    BY <1>1, <1>2, <1>6, <1>7, <1>8, <2>2 DEF Keyed, KeyOf
  <2>4. Alone(r)'
    BY <1>1, <1>2, <1>4, <1>5, <1>6, <1>7, <1>8, <2>2 DEF Alone, Step
  <2> QED
    BY <2>1, <2>3, <2>4
<1>12. Elsewhere(r)
  BY <1>1, <1>6, <1>7, <1>10 DEF Elsewhere, Same
<1>13. ASSUME NEW e \in Docs, e = req[r].doc
       PROVE  Written(e)
  <2>1. AtWork(r, e)'
    BY <1>7, <1>8, <1>13 DEF AtWork
  <2>2. KeyOf(row[e], e)'
    BY <1>1, <1>2, <1>4, <1>6, <1>13 DEF KeyOf
  <2> QED
    BY <1>1, <2>1, <2>2 DEF Written, Sound, TwinsNeedTwoRequests
<1> QED
  BY <1>7, <1>9, <1>11, <1>12, <1>13, StepSound

\* A request is answered, or dies.
LEMMA EndSound ==
  ASSUME Sound, NEW r \in Requests, req' = [req EXCEPT ![r] = Idle],
         UNCHANGED <<objects, row, chunks, count, met>>, faults' \in 0 .. MaxFaults,
         spoiled \subseteq spoiled', spoiled' \subseteq Docs,
         req[r].pc \in {"put", "load"} \/ req[r].doc \in spoiled'
  PROVE  Sound'
<1>1. TypeOK
  BY DEF Sound
<1>2. /\ SharingKnown' /\ req' \in [Requests -> RequestType] /\ req'[r] = Idle
      /\ \A q \in Requests \ {r} : Carried(q)
  <2>1. Idle \in RequestType /\ Has(Idle) = {}
    BY IdleTyped DEF Has, Idle
  <2>2. \A q \in Requests : Holds(q)' \intersect req'[q].shared \intersect met \subseteq met'
    OBVIOUS
  <2> QED
    BY <2>1, <2>2, GoesOn
<1>3. TypeOK'
  BY <1>1, <1>2 DEF TypeOK
<1>4. Shaped(r)' /\ Keyed(r)' /\ Alone(r)'
  BY <1>2 DEF Idle, Shaped, Keyed, Alone, Step
<1>5. Elsewhere(r)
  BY <1>2, NothingWritten DEF Elsewhere
<1>6. ASSUME NEW e \in Docs, e = req[r].doc
      PROVE  Written(e)
  <2>1. ASSUME row'[e] # None, e \notin spoiled', \A q \in Requests : ~ AtWork(q, e)'
        PROVE  Settled(e)'
    <3>1. \A q \in Requests : ~ AtWork(q, e)
      BY <1>2, <1>6, <2>1 DEF AtWork, Carried
    <3>2. Settled(e)
      BY <2>1, <3>1 DEF Sound, SettledElse
    <3> QED
      BY <3>2, NothingWritten
  <2> QED
    BY <2>1, NothingWritten DEF Written
<1> QED
  BY <1>2, <1>3, <1>4, <1>5, <1>6, StepSound

LEMMA InsertTwiceSound ==
  ASSUME Sound, NEW r \in Requests, InsertTwice(r)
  PROVE  Sound'
<1>1. req[r].doc \in Docs
  BY FieldsTyped, NoneAssumption DEF Sound, Shaped, InsertTwice
<1>2. spoiled' = spoiled \union {req[r].doc} /\ spoiled' \subseteq Docs /\ faults' \in 0 .. MaxFaults
  BY <1>1 DEF InsertTwice, Sound, TypeOK
<1> QED
  BY <1>2, EndSound DEF InsertTwice

LEMMA FailSound ==
  ASSUME Sound, NEW r \in Requests, Fail(r)
  PROVE  Sound'
<1>1. req[r].pc \notin {"put", "load"} => req[r].doc \in Docs
  BY FieldsTyped, NoneAssumption DEF Sound, Shaped, Fail
<1>2. /\ spoiled' \subseteq Docs /\ spoiled \subseteq spoiled'
      /\ req[r].pc \in {"put", "load"} \/ req[r].doc \in spoiled'
  BY <1>1 DEF Fail, Sound, TypeOK
<1>3. faults' \in 0 .. MaxFaults
  BY ConstantsAssumption DEF Fail, Sound, TypeOK
<1> QED
  BY <1>2, <1>3, EndSound DEF Fail

\* Chunks that are there of files.
Numbers(c) == \A i \in DOMAIN c : c[i].no \in 1 .. Len(Chunked(c[i].of))

LEMMA NumbersJoin ==
  ASSUME NEW x \in Seq(Numbered), NEW y \in Seq(Numbered), Numbers(x), Numbers(y)
  PROVE  x \o y \in Seq(Numbered) /\ Numbers(x \o y)
<1> DEFINE c == x \o y
<1>1. /\ c \in Seq(Numbered) /\ Len(c) = Len(x) + Len(y)
      /\ \A i \in 1 .. Len(x) + Len(y) : c[i] = IF i <= Len(x) THEN x[i] ELSE y[i - Len(x)]
  BY ConcatProperties
<1> HIDE DEF c
<1>2. /\ Len(x) \in Nat /\ Len(y) \in Nat /\ DOMAIN x = 1 .. Len(x) /\ DOMAIN y = 1 .. Len(y)
      /\ DOMAIN c = 1 .. Len(x) + Len(y)
  BY <1>1
<1>3. ASSUME NEW i \in DOMAIN c
      PROVE  (\E j \in DOMAIN x : c[i] = x[j]) \/ (\E j \in DOMAIN y : c[i] = y[j])
  <2>1. CASE i <= Len(x)
    BY <1>1, <1>2, <2>1
  <2>2. CASE i > Len(x)
    <3>1. i - Len(x) \in DOMAIN y /\ c[i] = y[i - Len(x)]
      BY <1>1, <1>2, <2>2
    <3> QED
      BY <3>1
  <2>3. i <= Len(x) \/ i > Len(x)
    BY <1>2
  <2> QED
    BY <2>1, <2>2, <2>3
<1>4. Numbers(c)
  BY <1>3 DEF Numbers
<1> QED
  BY <1>1, <1>4 DEF c

LEMMA ChunksTyped ==
  ASSUME TypeOK, NEW d \in Docs, NEW c \in Seq(Numbered), Numbers(c), chunks' = [chunks EXCEPT ![d] = c]
  PROVE  /\ chunks' \in [Docs -> Seq([of : Files, no : Nat])]
         /\ \A e \in Docs : \A i \in DOMAIN chunks'[e] :
              chunks'[e][i].no \in 1 .. Len(Chunked(chunks'[e][i].of))
         /\ chunks'[d] = c
         /\ \A e \in Docs : e # d => chunks'[e] = chunks[e]
<1>1. c \in Seq([of : Files, no : Nat])
  BY DEF Numbered
<1>2. /\ chunks' \in [Docs -> Seq([of : Files, no : Nat])] /\ chunks'[d] = c
      /\ \A e \in Docs : e # d => chunks'[e] = chunks[e]
  BY <1>1 DEF TypeOK
<1>3. ASSUME NEW e \in Docs, NEW i \in DOMAIN chunks'[e]
      PROVE  chunks'[e][i].no \in 1 .. Len(Chunked(chunks'[e][i].of))
  <2>1. CASE e = d
    BY <1>2, <2>1 DEF Numbers
  <2>2. CASE e # d
    BY <1>2, <2>2 DEF TypeOK
  <2> QED
    BY <2>1, <2>2
<1> QED
  BY <1>2, <1>3

\* The document is done, with c for its chunks.
LEMMA NextDocSound ==
  ASSUME Sound, NEW r \in Requests, req[r].pc \in {"clear", "insert"}, NextDoc(r),
         UNCHANGED <<objects, row, count, faults>>,
         NEW c \in Seq(Numbered), Numbers(c), chunks' = [chunks EXCEPT ![req[r].doc] = c],
         req[r].doc \notin met => \E f \in Files : IsPrefix(c, Whole(f)),
         req[r].doc \notin req[r].shared => c = Whole(req[r].file)
  PROVE  Sound'
<1> DEFINE s == req[r]
           d == s.doc
           s1 == [s EXCEPT !.doc = None, !.file = None, !.seen = None, !.next = 1]
<1>1. /\ TypeOK /\ SharingKnown /\ Shaped(r) /\ Keyed(r) /\ Alone(r)
      /\ s \in RequestType /\ s.docs \subseteq Held /\ s.seeds \in Seq(Files)
  BY FieldsTyped DEF Sound
<1>2. d \in Docs /\ d # None
  BY <1>1, FieldsTyped DEF Shaped
<1>3. spoiled' = IF d \in s.shared THEN spoiled \union {d} ELSE spoiled \ {d}
  BY DEF NextDoc
<1>4. /\ chunks' \in [Docs -> Seq([of : Files, no : Nat])]
      /\ \A e \in Docs : \A i \in DOMAIN chunks'[e] :
           chunks'[e][i].no \in 1 .. Len(Chunked(chunks'[e][i].of))
      /\ chunks'[d] = c
      /\ \A e \in Docs : e # d => chunks'[e] = chunks[e]
  BY <1>1, <1>2, ChunksTyped
<1>5. /\ s1.doc = None /\ s1.file = None /\ s1.seen = None /\ s1.next = 1 /\ s1.pc = s.pc
      /\ s1.seeds = s.seeds /\ s1.docs = s.docs /\ s1.shared = s.shared /\ s1 \in RequestType
  <2>1. s1 \in RequestType
    <3>1. None \in Docs \union {None} /\ None \in Files \union {None} /\ None \in Rows \union {None}
          /\ 1 \in Nat \ {0}
      OBVIOUS
    <3>2. [s EXCEPT !.doc = None, !.file = None] \in RequestType
      BY <1>1, <3>1 DEF RequestType
    <3>3. \A t \in RequestType : [t EXCEPT !.seen = None, !.next = 1] \in RequestType
      BY <3>1 DEF RequestType
    <3>4. s1 = [[s EXCEPT !.doc = None, !.file = None] EXCEPT !.seen = None, !.next = 1]
      OBVIOUS
    <3> HIDE DEF s1
    <3> QED
      BY <3>2, <3>3, <3>4
  <2>2. /\ s1.doc = None /\ s1.file = None /\ s1.seen = None /\ s1.next = 1 /\ s1.pc = s.pc
        /\ s1.seeds = s.seeds /\ s1.docs = s.docs /\ s1.shared = s.shared
    BY <1>1 DEF RequestType
  <2> QED
    BY <2>1, <2>2
<1>6. \/ /\ s.seeds # <<>>
         /\ Take(r, [s1 EXCEPT !.pc = "put", !.seeds = Tail(@), !.file = Head(s1.seeds),
                               !.doc = DocCode(Head(s1.seeds)),
                               !.shared = @ \ {DocCode(Head(s1.seeds))}])
      \/ /\ s.docs # {} /\ s.seeds = <<>> /\ UNCHANGED met
         /\ req' = [req EXCEPT ![r] = [s1 EXCEPT !.pc = "load"]]
      \/ req' = [req EXCEPT ![r] = Idle] /\ UNCHANGED met
  BY <1>5 DEF NextDoc
<1> HIDE DEF s1
<1>7. Grows
  BY DEF Grows
<1> DEFINE Goes ==
             /\ SharingKnown' /\ req' \in [Requests -> RequestType]
             /\ \A q \in Requests \ {r} : Carried(q)
             /\ met \subseteq met' /\ met' \subseteq Docs
             /\ Shaped(r)' /\ Keyed(r)' /\ Alone(r)'
             /\ req'[r].pc \in {"put", "load", "idle"}
<1>8. ASSUME s.seeds # <<>>,
             Take(r, [s1 EXCEPT !.pc = "put", !.seeds = Tail(@), !.file = Head(s1.seeds),
                                !.doc = DocCode(Head(s1.seeds)),
                                !.shared = @ \ {DocCode(Head(s1.seeds))}])
      PROVE  Goes
  <2> DEFINE f == Head(s1.seeds)
             t == [s1 EXCEPT !.pc = "put", !.seeds = Tail(@), !.file = f, !.doc = DocCode(f),
                             !.shared = @ \ {DocCode(f)}]
  <2>1. f \in Files /\ Tail(s1.seeds) \in Seq(Files)
    BY <1>1, <1>5, <1>8
  <2>2. DocCode(f) \in Docs /\ DocCode(f) # None
    BY <2>1, CodeIs
  <2>3. s.docs = {}
    BY <1>1, <1>8 DEF Shaped
  <2>4. t \in RequestType
    <3> HIDE DEF f
    <3> QED
      BY <1>5, <2>1, <2>2 DEF RequestType
  <2>5. /\ t.pc = "put" /\ t.doc = DocCode(f) /\ t.file = f /\ t.seen = None /\ t.next = 1
        /\ t.docs = {} /\ t.shared = s1.shared \ {DocCode(f)}
    <3> HIDE DEF f
    <3> QED
      BY <1>5, <2>3 DEF RequestType
  <2>6. Take(r, t)
    BY <1>8
  <2> HIDE DEF f, t
  <2>7. Fresh(t)
    BY <2>1, <2>2, <2>5 DEF Fresh
  <2>8. Has(t) \intersect t.shared \subseteq met
    BY <2>5 DEF Has
  <2>9. /\ SharingKnown' /\ req' \in [Requests -> RequestType]
        /\ met \subseteq met' /\ met' \subseteq Docs
        /\ \A q \in Requests \ {r} : Carried(q)
        /\ /\ req'[r].pc = t.pc /\ req'[r].doc = t.doc /\ req'[r].file = t.file
           /\ req'[r].seen = t.seen /\ req'[r].next = t.next /\ req'[r].seeds = t.seeds
           /\ req'[r].docs = t.docs
    BY <1>1, <2>4, <2>6, <2>8, TakeShares
  <2>10. Shaped(r)' /\ Keyed(r)' /\ Alone(r)'
    BY <2>7, <2>9, FreshFits
  <2> QED
    BY <2>5, <2>9, <2>10
<1>9. ASSUME s.docs # {}, s.seeds = <<>>, UNCHANGED met,
             req' = [req EXCEPT ![r] = [s1 EXCEPT !.pc = "load"]]
      PROVE  Goes
  <2> DEFINE t == [s1 EXCEPT !.pc = "load"]
  <2>1. t \in RequestType
    BY <1>5 DEF RequestType
  <2>2. /\ t.pc = "load" /\ t.doc = None /\ t.seen = None /\ t.next = 1 /\ t.seeds = <<>>
        /\ t.docs = s.docs /\ t.shared = s.shared
    BY <1>5, <1>9 DEF RequestType
  <2>3. req' = [req EXCEPT ![r] = t]
    BY <1>9
  <2> HIDE DEF t
  <2>4. /\ Has(t) \subseteq Holds(r) /\ (Has(t) # {} => t.shared = s.shared)
        /\ \A q \in Requests : Holds(q)' \intersect req'[q].shared \intersect met \subseteq met'
    BY <1>9, <2>2 DEF Has, Holds
  <2>5. /\ SharingKnown' /\ req' \in [Requests -> RequestType] /\ req'[r] = t
        /\ \A q \in Requests \ {r} : Carried(q)
    BY <2>1, <2>3, <2>4, GoesOn
  <2>6. Shaped(r)'
    BY <1>1, <2>2, <2>5 DEF Shaped
  <2>7. Keyed(r)'
    BY <1>1, <2>2, <2>5 DEF Keyed, KeyOf
  <2>8. Alone(r)'
    BY <1>1, <2>2, <2>5 DEF Alone, Step
  <2> QED
    BY <1>1, <1>9, <2>2, <2>5, <2>6, <2>7, <2>8 DEF TypeOK
<1>10. ASSUME req' = [req EXCEPT ![r] = Idle], UNCHANGED met
       PROVE  Goes
  <2>1. Idle \in RequestType /\ Has(Idle) = {}
    BY IdleTyped DEF Has, Idle
  <2>2. \A q \in Requests : Holds(q)' \intersect req'[q].shared \intersect met \subseteq met'
    BY <1>10
  <2>3. /\ SharingKnown' /\ req' \in [Requests -> RequestType] /\ req'[r] = Idle
        /\ \A q \in Requests \ {r} : Carried(q)
    BY <1>10, <2>1, <2>2, GoesOn
  <2>4. Shaped(r)' /\ Keyed(r)' /\ Alone(r)' /\ req'[r].pc = "idle"
    BY <2>3 DEF Idle, Shaped, Keyed, Alone, Step
  <2> QED
    BY <1>1, <1>10, <2>3, <2>4 DEF TypeOK
<1>11. Goes
  BY <1>6, <1>8, <1>9, <1>10
<1>12. TypeOK'
  BY <1>1, <1>2, <1>3, <1>4, <1>11 DEF TypeOK
<1>13. Elsewhere(r)
  BY <1>3, <1>4, <1>7, <1>11 DEF Elsewhere, Same
<1>14. ASSUME NEW e \in Docs, e = req[r].doc
       PROVE  Written(e)
  <2>1. row'[e] # None => KeyOf(row[e], e)'
    BY DEF Sound, RowsKeyed, KeyOf
  <2>2. e \notin met' => \E f \in Files : IsPrefix(chunks'[e], Whole(f))
    BY <1>4, <1>11, <1>14
  <2>3. e \notin spoiled' => Settled(e)'
    <3>1. SUFFICES ASSUME e \notin spoiled'
                   PROVE  Settled(e)'
      OBVIOUS
    <3>2. e \notin s.shared
      BY <1>3, <1>14, <3>1
    <3>3. row[e].meta = s.file /\ objects[row[e].key] = s.file /\ chunks'[e] = Whole(s.file)
      BY <1>1, <1>4, <1>14, <3>2 DEF Alone, Step
    <3> QED
      BY <3>3 DEF Settled
  <2> QED
    BY <2>1, <2>2, <2>3 DEF Written
<1> QED
  BY <1>11, <1>12, <1>13, <1>14, StepSound

LEMMA ClearSound ==
  ASSUME Sound, NEW r \in Requests, Clear(r)
  PROVE  Sound'
<1> DEFINE s == req[r]
           d == s.doc
           t == [s EXCEPT !.pc = "insert"]
<1>1. /\ TypeOK /\ SharingKnown /\ Shaped(r) /\ Keyed(r) /\ Alone(r) /\ RowsKeyed
      /\ s.pc = "clear" /\ s.next = 1 /\ s \in RequestType /\ s.docs \subseteq Held
      /\ UNCHANGED <<objects, row, count, faults>> /\ chunks' = [chunks EXCEPT ![d] = <<>>]
  BY FieldsTyped DEF Sound, Clear, Shaped
<1>2. d \in Docs /\ d # None /\ s.file \in Files
  BY <1>1, FieldsTyped DEF Shaped
<1>3. <<>> \in Seq(Numbered) /\ Numbers(<<>>) /\ IsPrefix(<<>>, Whole(s.file))
  BY <1>2, NoneBegin DEF Numbers
<1>4. CASE Chunked(s.file) = <<>>
  <2>1. NextDoc(r)
    BY <1>4 DEF Clear
  <2>2. <<>> = Whole(s.file)
    BY <1>2, <1>4, NoneBegin
  <2> QED
    BY <1>1, <1>2, <1>3, <2>1, <2>2, NextDocSound
<1>5. CASE Chunked(s.file) # <<>>
  <2>1. /\ Go(r, "insert") /\ UNCHANGED spoiled
        /\ met' = IF d \in s.shared THEN met ELSE met \ {d}
    BY <1>5 DEF Clear
  <2>2. /\ chunks' \in [Docs -> Seq([of : Files, no : Nat])]
        /\ \A e \in Docs : \A i \in DOMAIN chunks'[e] :
             chunks'[e][i].no \in 1 .. Len(Chunked(chunks'[e][i].of))
        /\ chunks'[d] = <<>>
        /\ \A e \in Docs : e # d => chunks'[e] = chunks[e]
    BY <1>1, <1>2, <1>3, ChunksTyped
  <2>3. /\ t \in RequestType /\ Has(t) = Holds(r) /\ t.shared = s.shared
        /\ t.pc = "insert" /\ t.doc = d /\ t.file = s.file /\ t.seen = s.seen /\ t.next = 1
        /\ t.seeds = s.seeds /\ t.docs = s.docs
    BY <1>1 DEF RequestType, Has, Holds
  <2>4. req' = [req EXCEPT ![r] = t]
    BY <2>1 DEF Go
  <2> HIDE DEF t
  <2>5. /\ SharingKnown' /\ req' \in [Requests -> RequestType] /\ req'[r] = t
        /\ \A q \in Requests \ {r} : Carried(q)
    <3>1. /\ req'[r] = t
          /\ \A q \in Requests \ {r} : req'[q] = req[q] /\ Holds(q)' = Holds(q)
      BY <1>1, <2>3, <2>4, OneMoves
    <3>2. ASSUME NEW q \in Requests
          PROVE  Holds(q)' \intersect req'[q].shared \intersect met \subseteq met'
      <4>1. CASE d \in s.shared
        BY <2>1, <4>1
      <4>2. CASE d \notin s.shared /\ q = r
        BY <2>1, <2>3, <3>1, <4>2
      <4>3. CASE d \notin s.shared /\ q # r
        <5>1. d \notin Holds(q)
          BY <1>1, <1>2, <4>3, AloneAt
        <5> QED
          BY <2>1, <3>1, <4>3, <5>1
      <4> QED
        BY <4>1, <4>2, <4>3
    <3>3. Has(t) \subseteq Holds(r) /\ (Has(t) # {} => t.shared = s.shared)
      BY <2>3
    <3> QED
      BY <2>3, <2>4, <3>2, <3>3, GoesOn
  <2>6. TypeOK'
    BY <1>1, <2>1, <2>2, <2>5 DEF TypeOK
  <2>7. 1 <= Len(Chunked(s.file))
    <3>1. AreBlocks(s.file.blocks)
      BY <1>2, ConstantsAssumption
    <3>2. Chunked(s.file) \in Seq(ChunkSet(s.file.blocks))
      BY <3>1, ChunkBlocksRight DEF Chunked
    <3> HIDE DEF Chunked
    <3> QED
      BY <1>5, <3>2
  <2>8. Shaped(r)' /\ Keyed(r)' /\ Alone(r)'
    <3>1. Shaped(r)'
      BY <1>1, <1>2, <2>3, <2>5, <2>7 DEF Shaped
    <3>2. Keyed(r)'
      BY <1>1, <2>3, <2>5 DEF Keyed, KeyOf
    <3>3. ChunksOf(s.file, 1, 1 - 1) = <<>>
      BY <1>2, NoneBegin
    <3>4. Alone(r)'
      <4>1. \A h \in req'[r].docs : h.id \notin req'[r].shared => row'[h.id] = h.row
        BY <1>1, <2>3, <2>5 DEF Alone
      <4>2. req'[r].doc \notin req'[r].shared => Step(r)'
        BY <1>1, <2>2, <2>3, <2>5, <3>3 DEF Alone, Step
      <4> QED
        BY <4>1, <4>2 DEF Alone
    <3> QED
      BY <3>1, <3>2, <3>4
  <2>9. Elsewhere(r)
    BY <1>1, <2>1, <2>2, <2>5 DEF Elsewhere, Same, Grows
  <2>10. ASSUME NEW e \in Docs, e = req[r].doc
         PROVE  Written(e)
    <3>1. AtWork(r, e)'
      BY <2>3, <2>5, <2>10 DEF AtWork
    <3>2. row'[e] # None => KeyOf(row[e], e)'
      BY <1>1 DEF RowsKeyed, KeyOf
    <3> QED
      BY <1>2, <1>3, <2>2, <2>10, <3>1, <3>2 DEF Written
  <2> QED
    BY <2>5, <2>6, <2>8, <2>9, <2>10, StepSound
<1> QED
  BY <1>4, <1>5

LEMMA InsertBatchSound ==
  ASSUME Sound, NEW r \in Requests, InsertBatch(r)
  PROVE  Sound'
<1> DEFINE s == req[r]
           d == s.doc
           f == s.file
           n == Len(Chunked(f))
           last == LastOf(r)
           more == ChunksOf(f, s.next, last)
           c == chunks[d] \o more
           t == [s EXCEPT !.next = last + 1]
<1>1. /\ TypeOK /\ SharingKnown /\ Shaped(r) /\ Keyed(r) /\ Alone(r) /\ RowsKeyed
      /\ s.pc = "insert" /\ s.next <= n /\ s \in RequestType /\ s.docs \subseteq Held
      /\ s.next \in Nat \ {0}
      /\ UNCHANGED <<objects, row, count, faults>> /\ chunks' = [chunks EXCEPT ![d] = c]
  BY FieldsTyped DEF Sound, InsertBatch, Shaped
<1>2. d \in Docs /\ d # None /\ f \in Files /\ n \in Nat
  BY <1>1, FieldsTyped, ChunkCount DEF Shaped
<1>3. last \in Nat /\ s.next <= last /\ last <= n
  BY <1>1, <1>2, LastIs
<1>4. \/ last = n /\ NextDoc(r)
      \/ last # n /\ req' = [req EXCEPT ![r].next = last + 1] /\ UNCHANGED <<spoiled, met>>
  BY DEF InsertBatch
<1> HIDE DEF last, n
<1>5. /\ more \in Seq(Numbered) /\ Len(more) = last - s.next + 1
      /\ \A i \in 1 .. (last - s.next + 1) : more[i] = [of |-> f, no |-> s.next + i - 1]
  <2>1. s.next \in Nat /\ s.next >= 1 /\ s.next <= last + 1
    BY <1>1, <1>3
  <2> QED
    BY <1>2, <1>3, <2>1, ChunksAre
<1>6. chunks[d] \in Seq(Numbered) /\ Numbers(chunks[d])
  BY <1>1, <1>2 DEF TypeOK, Numbered, Numbers
<1>7. d \notin s.shared => c = ChunksOf(f, 1, last)
  <2>1. SUFFICES ASSUME d \notin s.shared
                 PROVE  c = ChunksOf(f, 1, last)
    OBVIOUS
  <2>2. chunks[d] = ChunksOf(f, 1, s.next - 1)
    BY <1>1, <2>1 DEF Alone, Step
  <2>3. s.next - 1 \in Nat /\ s.next - 1 <= last /\ (s.next - 1) + 1 = s.next
    BY <1>1, <1>3
  <2>4. ChunksOf(f, 1, s.next - 1) \o ChunksOf(f, (s.next - 1) + 1, last) = ChunksOf(f, 1, last)
    BY <1>2, <1>3, <2>3, ChunksJoin
  <2> QED
    BY <2>2, <2>3, <2>4
<1>8. d \notin met => \E g \in Files : IsPrefix(c, Whole(g))
  <2>1. SUFFICES ASSUME d \notin met
                 PROVE  \E g \in Files : IsPrefix(c, Whole(g))
    OBVIOUS
  <2>2. d \notin s.shared
    BY <1>1, <1>2, <2>1, FieldsTyped DEF SharingKnown
  <2>3. IsPrefix(ChunksOf(f, 1, last), Whole(f))
    BY <1>2, <1>3, ChunksBegin DEF Whole, n
  <2> HIDE DEF c
  <2> QED
    BY <1>2, <1>7, <2>2, <2>3
<1> HIDE DEF more
<1>9. c \in Seq(Numbered) /\ Numbers(c)
  <2>1. ASSUME NEW i \in DOMAIN more
        PROVE  more[i].no \in 1 .. Len(Chunked(more[i].of))
    <3>1. i \in 1 .. (last - s.next + 1)
      BY <1>5
    <3>2. more[i].of = f /\ more[i].no = s.next + i - 1
      <4>1. more[i] = [of |-> f, no |-> s.next + i - 1]
        BY <1>5, <3>1
      <4> HIDE DEF s, f
      <4> QED
        BY <4>1
    <3>3. s.next + i - 1 \in 1 .. n
      <4> DEFINE k == s.next
      <4>1. k \in Nat \ {0} /\ n \in Nat /\ last \in Nat /\ last <= n /\ i \in 1 .. (last - k + 1)
        BY <1>1, <1>2, <1>3, <3>1
      <4> HIDE DEF k
      <4>2. k + i - 1 \in 1 .. n
        BY <4>1
      <4> QED
        BY <4>2 DEF k
    <3> QED
      BY <3>2, <3>3 DEF n
  <2>2. Numbers(more)
    BY <2>1 DEF Numbers
  <2> QED
    BY <1>5, <1>6, <2>2, NumbersJoin
<1> HIDE DEF c
<1>10. CASE last = n /\ NextDoc(r)
  <2>1. d \notin s.shared => c = Whole(f)
    BY <1>7, <1>10 DEF Whole, n
  <2> QED
    BY <1>1, <1>8, <1>9, <1>10, <2>1, NextDocSound
<1>11. CASE last # n /\ req' = [req EXCEPT ![r].next = last + 1] /\ UNCHANGED <<spoiled, met>>
  <2>1. last + 1 \in Nat \ {0} /\ last + 1 <= n /\ (last + 1) - 1 = last
    BY <1>2, <1>3, <1>11
  <2>2. /\ chunks' \in [Docs -> Seq([of : Files, no : Nat])]
        /\ \A e \in Docs : \A i \in DOMAIN chunks'[e] :
             chunks'[e][i].no \in 1 .. Len(Chunked(chunks'[e][i].of))
        /\ chunks'[d] = c
        /\ \A e \in Docs : e # d => chunks'[e] = chunks[e]
    BY <1>1, <1>2, <1>9, ChunksTyped
  <2>3. /\ t \in RequestType /\ Has(t) = Holds(r) /\ t.shared = s.shared
        /\ t.pc = "insert" /\ t.doc = d /\ t.file = f /\ t.seen = s.seen /\ t.next = last + 1
        /\ t.seeds = s.seeds /\ t.docs = s.docs
    BY <1>1, <2>1 DEF RequestType, Has, Holds
  <2>4. req' = [req EXCEPT ![r] = t]
    BY <1>11
  <2> HIDE DEF t
  <2>5. /\ SharingKnown' /\ req' \in [Requests -> RequestType] /\ req'[r] = t
        /\ \A q \in Requests \ {r} : Carried(q)
    <3>1. Has(t) \subseteq Holds(r)
          /\ \A q \in Requests : Holds(q)' \intersect req'[q].shared \intersect met \subseteq met'
      BY <1>11, <2>3
    <3> QED
      BY <2>3, <2>4, <3>1, GoesOn
  <2>6. TypeOK'
    BY <1>1, <1>11, <2>2, <2>5 DEF TypeOK
  <2>7. Shaped(r)' /\ Keyed(r)' /\ Alone(r)'
    <3>1. Shaped(r)'
      BY <1>1, <1>2, <2>1, <2>3, <2>5 DEF Shaped, n
    <3>2. Keyed(r)'
      BY <1>1, <2>3, <2>5 DEF Keyed, KeyOf
    <3>3. \A h \in req'[r].docs : h.id \notin req'[r].shared => row'[h.id] = h.row
      BY <1>1, <2>3, <2>5 DEF Alone
    <3>4. req'[r].doc \notin req'[r].shared => Step(r)'
      BY <1>1, <1>7, <2>1, <2>2, <2>3, <2>5 DEF Alone, Step
    <3> QED
      BY <3>1, <3>2, <3>3, <3>4 DEF Alone
  <2>8. Elsewhere(r)
    BY <1>1, <1>11, <2>2, <2>5 DEF Elsewhere, Same, Grows
  <2>9. ASSUME NEW e \in Docs, e = req[r].doc
        PROVE  Written(e)
    <3>1. AtWork(r, e)'
      BY <2>3, <2>5, <2>9 DEF AtWork
    <3>2. row'[e] # None => KeyOf(row[e], e)'
      BY <1>1 DEF RowsKeyed, KeyOf
    <3> QED
      BY <1>8, <1>11, <2>2, <2>9, <3>1, <3>2 DEF Written
  <2> QED
    BY <2>5, <2>6, <2>7, <2>8, <2>9, StepSound
<1> QED
  BY <1>4, <1>10, <1>11

----------------------------------------------------------------------------
(* Theorems                                                                *)

LEMMA NextSound ==
  ASSUME Sound, Next
  PROVE  Sound'
<1> PICK r \in Requests :
        \/ Upload(r) \/ Seed(r) \/ Reindex(r) \/ Put(r) \/ SelectRow(r) \/ Upsert(r)
        \/ InsertTwice(r) \/ Load(r) \/ SetMeta(r) \/ Clear(r) \/ InsertBatch(r) \/ Fail(r)
  BY DEF Next
<1> QED
  BY UploadSound, SeedSound, ReindexSound, PutSound, SelectRowSound, UpsertSound,
     InsertTwiceSound, LoadSound, SetMetaSound, ClearSound, InsertBatchSound, FailSound

LEMMA StutterSound ==
  ASSUME Sound, UNCHANGED vars
  PROVE  Sound'
<1>1. UNCHANGED <<objects, row, chunks, req, count, spoiled, met, faults>>
  BY DEF vars
<1>2. TypeOK'
  BY <1>1 DEF Sound, TypeOK
<1>3. ASSUME NEW r \in Requests
      PROVE  Shaped(r)' /\ Keyed(r)' /\ Alone(r)'
  BY <1>1 DEF Sound, Shaped, Keyed, KeyOf, Alone, Step
<1>4. RowsKeyed'
  BY <1>1 DEF Sound, RowsKeyed, KeyOf
<1>5. SharingKnown'
  BY <1>1 DEF Sound, SharingKnown, Holds
<1>6. SettledElse'
  BY <1>1 DEF Sound, SettledElse, AtWork, Settled
<1>7. TwinsNeedTwoRequests'
  BY <1>1 DEF Sound, TwinsNeedTwoRequests
<1> QED
  BY <1>2, <1>3, <1>4, <1>5, <1>6, <1>7 DEF Sound

LEMMA SoundParts == Sound => TypeOK /\ IndexedAsStored /\ TwinsNeedTwoRequests
<1> SUFFICES ASSUME Sound
             PROVE  TypeOK /\ IndexedAsStored /\ TwinsNeedTwoRequests
  OBVIOUS
<1>1. ASSUME NEW d \in Docs, row[d] # None, ~ Busy(d), d \notin spoiled
      PROVE  row[d].meta = objects[row[d].key] /\ chunks[d] = Whole(objects[row[d].key])
  <2>1. \A r \in Requests : ~ AtWork(r, d)
    BY <1>1, NoneAssumption DEF Busy, Holds, AtWork
  <2> QED
    BY <1>1, <2>1 DEF Sound, SettledElse, Settled
<1> QED
  BY <1>1 DEF Sound, IndexedAsStored

THEOREM AlwaysSound == Spec => []Sound
BY InitSound, NextSound, StutterSound, PTL DEF Spec

\* A row, an object, the chunks and all that a request has read of them are what
\* they are declared to be, and every chunk is one of the file it is of, however
\* uploads, seeds and reindexings interleave and fail.
THEOREM TypeCorrect == Spec => []TypeOK
BY AlwaysSound, SoundParts, PTL

\* What is indexed of a document nobody is at is what is stored of it, all of it
\* and once, unless the last request at it failed or was not alone there: for any
\* number of requests, files, documents and batches.
THEOREM IndexIsOfTheObject == Spec => []IndexedAsStored
BY AlwaysSound, SoundParts, PTL

\* A failure or a crash alone never leaves a chunk twice, or chunks of two files.
THEOREM NoTwinsAlone == Spec => []TwinsNeedTwoRequests
BY AlwaysSound, SoundParts, PTL
=============================================================================
