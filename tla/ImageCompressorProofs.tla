------------------------ MODULE ImageCompressorProofs ------------------------
(* What holds of the image compressor for all images, thresholds and       *)
(* sequences of commands: the squares and trees; the loop over the queue   *)
(* and the file it writes; the inductive invariant of the files; and that  *)
(* what each command draws is what is promised without trees.              *)
EXTENDS ImageCompressor, LibraryLemmas
-----------------------------------------------------------------------------
(* The squares that the nodes stand for.                                   *)

Boxes == [x : Nat, y : Nat, dist : Nat]
Whole(width) == [x |-> 0, y |-> 0, dist |-> width]
Places == Seq(Quadrants)

LEMMA QuarterTyped ==
  ASSUME NEW b \in Boxes, NEW q
  PROVE  Quarter(b, q) \in Boxes
<1>1. b.x \in Nat /\ b.y \in Nat /\ b.dist \div 2 \in Nat
  BY DEF Boxes
<1>2. PICK h \in Nat : h = b.dist \div 2
  BY <1>1
<1>3. b.x + h \in Nat /\ b.y + h \in Nat
  BY <1>1
<1> QED BY <1>1, <1>2, <1>3 DEF Quarter, Boxes

Descends(at, width, p, n) ==
  /\ at[0] = Whole(width)
  /\ \A k \in 1..n : at[k] = Quarter(at[k - 1], p[k])

LEMMA BlockSteps ==
  ASSUME NEW width \in Nat, NEW p \in Places
  PROVE  \E at \in [0..Len(p) -> Boxes] :
           Descends(at, width, p, Len(p)) /\ Block(width, p) = at[Len(p)]
<1>1. PICK n \in Nat : n = Len(p)
  BY DEF Places
<1> DEFINE F(g) == [k \in 0..n |-> IF k = 0 THEN Whole(width) ELSE Quarter(g[k - 1], p[k])]
           G == CHOOSE g : g = F(g)
           step == [k \in 1..n |-> [b \in Boxes |-> Quarter(b, p[k])]]
<1>2. Block(width, p) = G[n]
  BY <1>1 DEF Block, Whole
<1>3. Whole(width) \in Boxes /\ step \in [1..n -> [Boxes -> Boxes]]
  BY QuarterTyped DEF Whole, Boxes
<1> HIDE DEF step, F, G
<1>4. PICK g \in [0..n -> Boxes] : Recurs(g, Whole(width), step, n)
  BY <1>3, StepsExist
<1>5. \A k \in 1..n : g[k - 1] \in Boxes /\ g[k] = Quarter(g[k - 1], p[k])
  <2>1. \A k \in 1..n : k - 1 \in 0..n
    OBVIOUS
  <2>2. \A k \in 1..n : g[k - 1] \in Boxes
    BY <2>1
  <2>3. \A k \in 1..n : \A b \in Boxes : step[k][b] = Quarter(b, p[k])
    BY DEF step
  <2>4. \A k \in 1..n : g[k] = step[k][g[k - 1]]
    BY <1>4 DEF Recurs
  <2> QED BY <2>2, <2>3, <2>4
<1> USE DEF F, G
<1>6. g[0] = Whole(width)
  BY <1>4 DEF Recurs
<1>7. g = F(g)
  <2>1. \A k \in 0..n : g[k] = F(g)[k]
    BY <1>5, <1>6
  <2> QED BY <2>1
<1>8. G = F(G)
  BY <1>7
<1>9. \A k \in 0..n : G[k] = IF k = 0 THEN Whole(width) ELSE Quarter(G[k - 1], p[k])
  BY <1>8
<1>10. DOMAIN G = 0..n
  BY <1>8
<1> HIDE DEF G, F
<1>11. 0..n \subseteq {k \in 0..n : G[k] = g[k]}
  <2>1. 0 \in {k \in 0..n : G[k] = g[k]}
    BY <1>9, <1>6
  <2>2. ASSUME NEW k \in 1..n, k - 1 \in {j \in 0..n : G[j] = g[j]}
        PROVE  k \in {j \in 0..n : G[j] = g[j]}
    BY <1>5, <1>9, <2>2
  <2> QED BY <2>1, <2>2, CountingUp
<1>12. \A k \in 0..n : G[k] = g[k]
  BY <1>11
<1>13. Descends(g, width, p, n)
  BY <1>5, <1>6 DEF Descends
<1>14. Block(width, p) = g[n]
  BY <1>2, <1>12
<1> QED BY <1>1, <1>13, <1>14

LEMMA BlockRoot ==
  ASSUME NEW width \in Nat
  PROVE  Block(width, <<>>) = Whole(width)
<1>1. <<>> \in Places /\ Len(<<>>) = 0
  BY EmptySeq DEF Places
<1>2. PICK at : Descends(at, width, <<>>, 0) /\ Block(width, <<>>) = at[0]
  BY <1>1, BlockSteps
<1> QED BY <1>2 DEF Descends

LEMMA BlockChild ==
  ASSUME NEW width \in Nat, NEW p \in Places, NEW q \in Quadrants
  PROVE  /\ Block(width, p) \in Boxes
         /\ Append(p, q) \in Places
         /\ Block(width, Append(p, q)) = Quarter(Block(width, p), q)
<1>1. PICK n \in Nat : n = Len(p)
  BY DEF Places
<1>2. PICK r : r = Append(p, q)
  OBVIOUS
<1>3. /\ r \in Places /\ Len(r) = n + 1 /\ r[n + 1] = q
      /\ \A k \in 1..n : r[k] = p[k]
  BY <1>1, <1>2, AppendProperties DEF Places
<1>4. PICK at \in [0..n -> Boxes] : Descends(at, width, p, n) /\ Block(width, p) = at[n]
  BY <1>1, BlockSteps
<1>5. PICK to : Descends(to, width, r, n + 1) /\ Block(width, r) = to[n + 1]
  BY <1>3, BlockSteps
<1>6. 0..n \subseteq {k \in 0..n : to[k] = at[k]}
  <2>1. 0 \in {k \in 0..n : to[k] = at[k]}
    BY <1>4, <1>5 DEF Descends
  <2>2. ASSUME NEW k \in 1..n, k - 1 \in {j \in 0..n : to[j] = at[j]}
        PROVE  k \in {j \in 0..n : to[j] = at[j]}
    <3>1. k \in 1..(n + 1)
      OBVIOUS
    <3>2. at[k] = Quarter(at[k - 1], p[k]) /\ to[k] = Quarter(to[k - 1], r[k])
      BY <1>4, <1>5, <3>1 DEF Descends
    <3> QED BY <1>3, <2>2, <3>2
  <2> QED BY <2>1, <2>2, CountingUp
<1>7. n \in 0..n /\ n + 1 \in 1..(n + 1) /\ (n + 1) - 1 = n
  OBVIOUS
<1>8. to[n] = at[n] /\ to[n + 1] = Quarter(to[n], r[n + 1])
  BY <1>5, <1>6, <1>7 DEF Descends
<1> QED BY <1>2, <1>3, <1>4, <1>5, <1>7, <1>8

(* What holds of the root and is passed on to the children holds of every  *)
(* path.                                                                   *)
LEMMA PathInduction ==
  ASSUME NEW P, <<>> \in P,
         \A p \in Places, q \in Quadrants : p \in P => Append(p, q) \in P
  PROVE  Places \subseteq P
<1> DEFINE Fails == {n \in Nat : \E p \in Places : Len(p) = n /\ p \notin P}
<1>1. Fails = {}
  <2> SUFFICES ASSUME Fails # {} PROVE FALSE
    OBVIOUS
  <2>1. PICK n \in Fails : \A m \in Fails : n <= m
    BY LeastNumber
  <2>2. PICK p \in Places : Len(p) = n /\ p \notin P
    BY <2>1
  <2>3. PICK r \in Places, q \in Quadrants : p = Append(r, q)
    BY <2>2, SequenceEmptyOrAppend DEF Places
  <2>4. Len(p) = Len(r) + 1 /\ Len(r) \in Nat
    BY <2>3, AppendProperties DEF Places
  <2>5. r \notin P
    BY <2>2, <2>3
  <2>6. Len(r) \in Fails
    BY <2>4, <2>5
  <2> QED BY <2>1, <2>2, <2>4, <2>6
<1>2. \A p \in Places : Len(p) \in Nat
  BY DEF Places
<1> QED BY <1>1, <1>2

(* The side of the squares, level by level.                                *)
LEMMA HalvedSteps ==
  ASSUME NEW width \in Nat, NEW n \in Nat
  PROVE  \E h \in [0..n -> Nat] : /\ h[0] = width
                                  /\ \A k \in 1..n : h[k] = h[k - 1] \div 2
                                  /\ Halved(width, n) = h[n]
<1> DEFINE F(g) == [k \in 0..n |-> IF k = 0 THEN width ELSE g[k - 1] \div 2]
           G == CHOOSE g : g = F(g)
           step == [k \in 1..n |-> [v \in Nat |-> v \div 2]]
<1>1. Halved(width, n) = G[n]
  BY DEF Halved
<1>2. step \in [1..n -> [Nat -> Nat]]
  OBVIOUS
<1> HIDE DEF step, F, G
<1>3. PICK g \in [0..n -> Nat] : Recurs(g, width, step, n)
  BY <1>2, StepsExist
<1>4. g[0] = width /\ \A k \in 1..n : g[k] = step[k][g[k - 1]]
  BY <1>3 DEF Recurs
<1>5. \A k \in 1..n : g[k - 1] \in Nat /\ g[k] = g[k - 1] \div 2
  <2>1. \A k \in 1..n : k - 1 \in 0..n
    OBVIOUS
  <2>2. \A k \in 1..n : \A v \in Nat : step[k][v] = v \div 2
    BY DEF step
  <2> QED BY <1>4, <2>1, <2>2
<1>6. g = F(g)
  <2>1. \A k \in 0..n : g[k] = F(g)[k]
    BY <1>4, <1>5 DEF F
  <2> QED BY <2>1 DEF F
<1>7. G = F(G)
  BY <1>6 DEF G
<1>8. \A k \in 0..n : G[k] = IF k = 0 THEN width ELSE G[k - 1] \div 2
  BY <1>7 DEF F
<1>9. 0..n \subseteq {k \in 0..n : G[k] = g[k]}
  <2>1. 0 \in {k \in 0..n : G[k] = g[k]}
    <3>1. 0 \in 0..n
      OBVIOUS
    <3>2. G[0] = width
      BY <1>8, <3>1
    <3> QED BY <1>4, <3>1, <3>2
  <2>2. ASSUME NEW k \in 1..n, k - 1 \in {j \in 0..n : G[j] = g[j]}
        PROVE  k \in {j \in 0..n : G[j] = g[j]}
    BY <1>5, <1>8, <2>2
  <2> QED BY <2>1, <2>2, CountingUp
<1>10. Halved(width, n) = g[n]
  BY <1>1, <1>9
<1> QED BY <1>4, <1>5, <1>10

LEMMA HalvedNext ==
  ASSUME NEW width \in Nat, NEW n \in Nat
  PROVE  /\ Halved(width, n) \in Nat
         /\ Halved(width, 0) = width
         /\ Halved(width, n + 1) = Halved(width, n) \div 2
<1>1. Halved(width, 0) = width
  <2>1. PICK z \in Nat : z = 0
    OBVIOUS
  <2>2. PICK h \in [0..z -> Nat] : /\ h[0] = width
                                   /\ \A k \in 1..z : h[k] = h[k - 1] \div 2
                                   /\ Halved(width, z) = h[z]
    BY HalvedSteps
  <2> QED BY <2>1, <2>2
<1>2. PICK g \in [0..n -> Nat] : /\ g[0] = width
                                 /\ \A k \in 1..n : g[k] = g[k - 1] \div 2
                                 /\ Halved(width, n) = g[n]
  BY HalvedSteps
<1>3. PICK m \in Nat : m = n + 1
  OBVIOUS
<1>4. PICK h \in [0..m -> Nat] : /\ h[0] = width
                                 /\ \A k \in 1..m : h[k] = h[k - 1] \div 2
                                 /\ Halved(width, m) = h[m]
  BY HalvedSteps
<1>5. 0..n \subseteq {k \in 0..n : h[k] = g[k]}
  <2>1. 0 \in {k \in 0..n : h[k] = g[k]}
    BY <1>2, <1>4
  <2>2. ASSUME NEW k \in 1..n, k - 1 \in {j \in 0..n : h[j] = g[j]}
        PROVE  k \in {j \in 0..n : h[j] = g[j]}
    <3>1. k \in 1..m
      BY <1>3
    <3> QED BY <1>2, <1>4, <2>2, <3>1
  <2> QED BY <2>1, <2>2, CountingUp
<1>6. n \in 0..n /\ m \in 1..m /\ m - 1 = n
  BY <1>3
<1>7. h[n] = g[n] /\ h[m] = h[n] \div 2
  BY <1>4, <1>5, <1>6
<1> QED BY <1>1, <1>2, <1>3, <1>4, <1>6, <1>7

LEMMA DepthOfSide ==
  ASSUME NEW width \in Nat, width # 0
  PROVE  Depth(width) \in 0..width /\ Halved(width, Depth(width)) = 1
<1> DEFINE Ends == {k \in Nat : Halved(width, k) <= 1}
<1>1. \A k \in Nat : Halved(width, k) \in Nat
  BY HalvedNext
<1>2. ASSUME NEW n \in Nat, \A k \in Nat : k < n => k \notin Ends
      PROVE  Halved(width, n) + n <= width
  <2> DEFINE P == {k \in 0..n : Halved(width, k) + k <= width}
  <2>1. 0 \in P
    BY HalvedNext
  <2>2. ASSUME NEW k \in 1..n, k - 1 \in P
        PROVE  k \in P
    <3>1. PICK j \in Nat : j = k - 1 /\ j < n /\ k = j + 1
      OBVIOUS
    <3>2. PICK v \in Nat : v = Halved(width, j)
      BY <1>1
    <3>3. v > 1 /\ v + j <= width
      BY <1>2, <2>2, <3>1, <3>2
    <3>4. Halved(width, k) = v \div 2
      BY <3>1, <3>2, HalvedNext
    <3>5. v \div 2 <= v - 1 /\ v \div 2 \in Nat
      BY <3>3
    <3>6. Halved(width, k) + k <= width
      BY <3>1, <3>3, <3>4, <3>5
    <3> QED BY <3>6
  <2> HIDE DEF P
  <2>3. n \in P
    BY <2>1, <2>2, CountingUp
  <2> QED BY <2>3 DEF P
<1>3. Ends # {}
  <2> SUFFICES ASSUME Ends = {} PROVE FALSE
    OBVIOUS
  <2>1. Halved(width, width) + width <= width
    BY <1>2
  <2>2. Halved(width, width) = 0
    BY <1>1, <2>1
  <2>3. width \in Ends
    BY <2>2
  <2> QED BY <2>3
<1>4. PICK d \in Ends : \A k \in Ends : d <= k
  BY <1>3, LeastNumber
<1>5. d \in Nat /\ \A k \in Nat : k < d => k \notin Ends
  BY <1>4
<1> HIDE DEF Ends
<1>6. Halved(width, d) + d <= width /\ Halved(width, d) \in Nat
  BY <1>1, <1>2, <1>5
<1>7. Halved(width, d) = 1
  <2>1. CASE d = 0
    <3>1. Halved(width, d) = width
      BY <2>1, HalvedNext
    <3>2. Halved(width, d) <= 1
      BY <1>4 DEF Ends
    <3> QED BY <3>1, <3>2
  <2>2. CASE d # 0
    <3>1. PICK j \in Nat : d = j + 1 /\ j < d
      <4>1. d - 1 \in Nat /\ d = (d - 1) + 1
        BY <1>5, <2>2
      <4> QED BY <4>1
    <3>2. PICK v \in Nat : v = Halved(width, j)
      BY <1>1
    <3>3. v > 1
      BY <1>5, <3>1, <3>2 DEF Ends
    <3>4. Halved(width, d) = v \div 2
      BY <3>1, <3>2, HalvedNext
    <3>5. Halved(width, d) <= 1
      BY <1>4 DEF Ends
    <3> QED BY <3>3, <3>4, <3>5
  <2> QED BY <2>1, <2>2
<1>8. d \in 0..width
  BY <1>5, <1>6
<1> QED BY <1>7, <1>8 DEF Depth

LEMMA BlockDist ==
  ASSUME NEW width \in Nat, NEW p \in Places
  PROVE  /\ Block(width, p).dist = Halved(width, Len(p))
         /\ Block(width, p).x + Block(width, p).dist <= width
         /\ Block(width, p).y + Block(width, p).dist <= width
<1> DEFINE Good(b, n) == /\ b.dist = Halved(width, n)
                         /\ b.x + b.dist <= width /\ b.y + b.dist <= width
           P == {r \in Places : Good(Block(width, r), Len(r))}
<1>1. <<>> \in P
  <2>1. <<>> \in Places /\ Len(<<>>) = 0
    BY EmptySeq DEF Places
  <2>2. Good(Whole(width), 0)
    BY HalvedNext DEF Whole
  <2> QED BY <2>1, <2>2, BlockRoot
<1>2. ASSUME NEW r \in Places, NEW q \in Quadrants, r \in P
      PROVE  Append(r, q) \in P
  <2>1. PICK b \in Boxes : b = Block(width, r)
    BY BlockChild
  <2>2. PICK n \in Nat : n = Len(r)
    BY DEF Places
  <2>3. /\ Append(r, q) \in Places /\ Len(Append(r, q)) = n + 1
        /\ Block(width, Append(r, q)) = Quarter(b, q)
    BY <2>1, <2>2, BlockChild, AppendProperties DEF Places
  <2>4. Good(b, n)
    BY <1>2, <2>1, <2>2
  <2>5. b.x \in Nat /\ b.y \in Nat /\ b.dist \in Nat
    BY DEF Boxes
  <2>6. PICK h \in Nat : h = b.dist \div 2
    BY <2>5
  <2>7. h + h <= b.dist
    BY <2>5, <2>6
  <2>8. /\ Quarter(b, q).dist = h
        /\ Quarter(b, q).x \in {b.x, b.x + h} /\ Quarter(b, q).y \in {b.y, b.y + h}
    BY <2>6 DEF Quarter
  <2>9. Halved(width, n + 1) = h
    BY <2>4, <2>6, HalvedNext
  <2>10. b.x + h + h <= width /\ b.y + h + h <= width
    BY <2>4, <2>5, <2>7
  <2>11. Good(Quarter(b, q), n + 1)
    BY <2>5, <2>8, <2>9, <2>10
  <2> QED BY <2>3, <2>11
<1> HIDE DEF P
<1>3. Places \subseteq P
  BY <1>1, <1>2, PathInduction
<1>4. p \in P
  BY <1>3
<1> QED BY <1>4 DEF P

-----------------------------------------------------------------------------
(* Prefixes of a path.                                                     *)
LEMMA PrefixOf ==
  ASSUME NEW p \in Places, NEW n \in 0..Len(p)
  PROVE  /\ SubSeq(p, 1, n) \in Places /\ Len(SubSeq(p, 1, n)) = n
         /\ \A k \in 1..n : SubSeq(p, 1, n)[k] = p[k]
<1>1. PICK m \in Nat : m = Len(p)
  BY DEF Places
<1>2. \A k \in 1..n : p[k] \in Quadrants
  BY <1>1, ElementOfSeq DEF Places
<1>3. /\ SubSeq(p, 1, n) \in Seq(Quadrants)
      /\ Len(SubSeq(p, 1, n)) = IF 1 <= n THEN n - 1 + 1 ELSE 0
      /\ \A k \in 1..(n - 1 + 1) : SubSeq(p, 1, n)[k] = p[1 + k - 1]
  BY <1>1, <1>2, SubSeqProperties
<1>4. n \in Nat /\ n - 1 + 1 = n /\ \A k \in 1..n : 1 + k - 1 = k
  BY <1>1
<1>5. Len(SubSeq(p, 1, n)) = n
  BY <1>3, <1>4
<1>6. \A k \in 1..n : SubSeq(p, 1, n)[k] = p[k]
  BY <1>3, <1>4
<1> QED BY <1>3, <1>5, <1>6 DEF Places

LEMMA SamePlace ==
  ASSUME NEW p \in Places, NEW r \in Places, Len(p) = Len(r),
         \A k \in 1..Len(p) : p[k] = r[k]
  PROVE  p = r
BY SeqEqual DEF Places

LEMMA PrefixFull ==
  ASSUME NEW p \in Places
  PROVE  SubSeq(p, 1, Len(p)) = p /\ Len(p) \in Nat /\ SubSeq(p, 1, 0) = <<>>
<1>1. Len(p) \in Nat
  BY DEF Places
<1>2. SubSeq(p, 1, 0) = <<>>
  BY SubSeqEmpty
<1> QED BY <1>1, <1>2, SubSeqFull DEF Places

LEMMA PrefixOfPrefix ==
  ASSUME NEW p \in Places, NEW n \in 0..Len(p), NEW m \in 0..n
  PROVE  SubSeq(SubSeq(p, 1, n), 1, m) = SubSeq(p, 1, m) /\ m \in 0..Len(p)
<1>1. Len(p) \in Nat /\ m \in 0..Len(p)
  BY PrefixFull
<1>2. PICK r \in Places : r = SubSeq(p, 1, n) /\ Len(r) = n /\ \A k \in 1..n : r[k] = p[k]
  BY PrefixOf
<1>3. PICK s \in Places : s = SubSeq(r, 1, m) /\ Len(s) = m /\ \A k \in 1..m : s[k] = r[k]
  BY <1>2, PrefixOf
<1>4. PICK t \in Places : t = SubSeq(p, 1, m) /\ Len(t) = m /\ \A k \in 1..m : t[k] = p[k]
  BY <1>1, PrefixOf
<1>5. \A k \in 1..m : k \in 1..n
  BY <1>1
<1>6. s = t
  BY <1>2, <1>3, <1>4, <1>5, SamePlace
<1> QED BY <1>1, <1>2, <1>3, <1>4, <1>6

LEMMA PrefixOfChild ==
  ASSUME NEW p \in Places, NEW q \in Quadrants
  PROVE  /\ Append(p, q) \in Places /\ Len(Append(p, q)) = Len(p) + 1
         /\ Append(p, q)[Len(p) + 1] = q
         /\ \A k \in 1..Len(p) : Append(p, q)[k] = p[k]
         /\ \A n \in 0..Len(p) : SubSeq(Append(p, q), 1, n) = SubSeq(p, 1, n)
<1>1. PICK m \in Nat : m = Len(p)
  BY PrefixFull
<1>2. PICK r \in Places : /\ r = Append(p, q) /\ Len(r) = m + 1 /\ r[m + 1] = q
                          /\ \A k \in 1..m : r[k] = p[k]
  <2>1. PICK r : r = Append(p, q)
    OBVIOUS
  <2>2. /\ r \in Seq(Quadrants) /\ Len(r) = Len(p) + 1 /\ r[Len(p) + 1] = q
        /\ \A k \in 1..Len(p) : r[k] = p[k]
    BY <2>1, AppendProperties DEF Places
  <2> QED BY <1>1, <2>1, <2>2 DEF Places
<1>3. ASSUME NEW n \in 0..m
      PROVE  SubSeq(r, 1, n) = SubSeq(p, 1, n)
  <2>1. n \in 0..(m + 1) /\ \A k \in 1..n : k \in 1..m
    OBVIOUS
  <2>2. PICK s \in Places : s = SubSeq(r, 1, n) /\ Len(s) = n /\ \A k \in 1..n : s[k] = r[k]
    BY <1>2, <2>1, PrefixOf
  <2>3. PICK t \in Places : t = SubSeq(p, 1, n) /\ Len(t) = n /\ \A k \in 1..n : t[k] = p[k]
    BY <1>1, PrefixOf
  <2>4. s = t
    BY <1>2, <2>1, <2>2, <2>3, SamePlace
  <2> QED BY <2>2, <2>3, <2>4
<1> QED BY <1>1, <1>2, <1>3

LEMMA PrefixNext ==
  ASSUME NEW p \in Places, NEW n \in 1..Len(p)
  PROVE  /\ SubSeq(p, 1, n) = Append(SubSeq(p, 1, n - 1), p[n])
         /\ p[n] \in Quadrants /\ n - 1 \in 0..Len(p)
<1>1. PICK m \in Nat : m = Len(p)
  BY PrefixFull
<1>2. p[n] \in Quadrants /\ n - 1 \in 0..m /\ n \in 0..m
  BY <1>1, ElementOfSeq DEF Places
<1>3. PICK s \in Places : /\ s = SubSeq(p, 1, n - 1) /\ Len(s) = n - 1
                          /\ \A k \in 1..(n - 1) : s[k] = p[k]
  BY <1>1, <1>2, PrefixOf
<1>4. PICK t \in Places : t = SubSeq(p, 1, n) /\ Len(t) = n /\ \A k \in 1..n : t[k] = p[k]
  BY <1>1, <1>2, PrefixOf
<1>5. PICK r \in Places : /\ r = Append(s, p[n]) /\ Len(r) = (n - 1) + 1 /\ r[(n - 1) + 1] = p[n]
                          /\ \A k \in 1..(n - 1) : r[k] = s[k]
  <2>1. PICK r, q : r = Append(s, q) /\ q = p[n] /\ q \in Quadrants
    BY <1>2
  <2>2. /\ r \in Seq(Quadrants) /\ Len(r) = Len(s) + 1 /\ r[Len(s) + 1] = q
        /\ \A k \in 1..Len(s) : r[k] = s[k]
    BY <2>1, AppendProperties DEF Places
  <2> QED BY <1>3, <2>1, <2>2 DEF Places
<1>6. (n - 1) + 1 = n
  OBVIOUS
<1>7. \A k \in 1..n : k = n \/ k \in 1..(n - 1)
  OBVIOUS
<1>8. \A k \in 1..n : r[k] = t[k]
  BY <1>3, <1>4, <1>5, <1>6, <1>7
<1>9. r = t
  BY <1>4, <1>5, <1>6, <1>8, SamePlace
<1> QED BY <1>1, <1>2, <1>3, <1>4, <1>5, <1>9

LEMMA PrefixesOf ==
  ASSUME NEW p \in Places
  PROVE  /\ Prefixes(p) = {SubSeq(p, 1, n) : n \in 0..Len(p)}
         /\ Prefixes(p) \ {p} = {SubSeq(p, 1, n) : n \in 0..(Len(p) - 1)}
<1>1. PICK m \in Nat : m = Len(p)
  BY PrefixFull
<1>2. Prefixes(p) = {SubSeq(p, 1, n) : n \in 0..m}
  BY <1>1 DEF Prefixes
<1>3. SubSeq(p, 1, m) = p
  BY <1>1, PrefixFull
<1>4. \A n \in 0..(m - 1) : n \in 0..m /\ SubSeq(p, 1, n) # p
  <2> SUFFICES ASSUME NEW n \in 0..(m - 1)
               PROVE  n \in 0..m /\ SubSeq(p, 1, n) # p
    OBVIOUS
  <2>1. n \in 0..m /\ n # m
    OBVIOUS
  <2>2. Len(SubSeq(p, 1, n)) = n
    BY <1>1, <2>1, PrefixOf
  <2> QED BY <1>1, <2>1, <2>2
<1>5. \A n \in 0..m : n = m \/ n \in 0..(m - 1)
  OBVIOUS
<1>6. Prefixes(p) \ {p} = {SubSeq(p, 1, n) : n \in 0..(m - 1)}
  BY <1>2, <1>3, <1>4, <1>5, Zenon
<1> QED BY <1>1, <1>2, <1>6

LEMMA PathsAre ==
  ASSUME NEW width \in Nat, width # 0
  PROVE  Paths(width) = {p \in Places : Len(p) <= Depth(width)}
<1>1. PICK d \in Nat : d = Depth(width)
  BY DepthOfSide
<1>2. Paths(width) = UNION {Prefixes(f) : f \in [1..d -> Quadrants]}
  BY <1>1 DEF Paths
<1>3. \A f \in [1..d -> Quadrants] : f \in Places /\ Len(f) = d
  BY DEF Places
<1>4. ASSUME NEW p \in Paths(width)
      PROVE  p \in Places /\ Len(p) <= d
  <2>1. PICK f \in [1..d -> Quadrants] : p \in Prefixes(f)
    BY <1>2
  <2>2. PICK n \in 0..d : p = SubSeq(f, 1, n)
    BY <1>3, <2>1, PrefixesOf
  <2>3. p \in Places /\ Len(p) = n
    BY <1>3, <2>2, PrefixOf
  <2> QED BY <2>3
<1>5. ASSUME NEW p \in Places, Len(p) <= d
      PROVE  p \in Paths(width)
  <2>1. PICK n \in 0..d : n = Len(p)
    BY <1>5, PrefixFull
  <2> DEFINE f == [k \in 1..d |-> IF k <= n THEN p[k] ELSE "top_left"]
  <2>2. \A k \in 1..n : p[k] \in Quadrants
    BY <2>1, ElementOfSeq DEF Places
  <2>3. f \in [1..d -> Quadrants] /\ \A k \in 1..n : f[k] = p[k]
    <3>1. \A k \in 1..d : k <= n => k \in 1..n
      OBVIOUS
    <3>2. \A k \in 1..n : k \in 1..d /\ k <= n
      OBVIOUS
    <3> QED BY <2>2, <3>1, <3>2 DEF Quadrants
  <2> HIDE DEF f
  <2>4. f \in Places /\ Len(f) = d
    BY <1>3, <2>3
  <2>5. PICK s \in Places : s = SubSeq(f, 1, n) /\ Len(s) = n /\ \A k \in 1..n : s[k] = f[k]
    BY <2>4, PrefixOf
  <2>6. s = p
    BY <2>1, <2>3, <2>5, SamePlace
  <2>7. p \in Prefixes(f)
    BY <2>4, <2>5, <2>6, PrefixesOf
  <2> QED BY <1>2, <2>3, <2>7
<1> QED BY <1>1, <1>4, <1>5

-----------------------------------------------------------------------------
(* Pixels and their averages.                                              *)
LEMMA CellsCounted ==
  ASSUME NEW b \in Boxes
  PROVE  /\ IsFiniteSet(Cells(b))
         /\ Cardinality(Cells(b)) = b.dist * b.dist
         /\ Cardinality(Cells(b)) \in Nat
         /\ b.dist # 0 => Cardinality(Cells(b)) # 0
<1>1. PICK x, y, d \in Nat : x = b.x /\ y = b.y /\ d = b.dist
  BY DEF Boxes
<1>2. /\ IsFiniteSet(x..(x + d - 1)) /\ Cardinality(x..(x + d - 1)) = d
      /\ IsFiniteSet(y..(y + d - 1)) /\ Cardinality(y..(y + d - 1)) = d
  <2>1. x + d - 1 \in Int /\ y + d - 1 \in Int
    OBVIOUS
  <2>2. /\ (IF x > x + d - 1 THEN 0 ELSE (x + d - 1) - x + 1) = d
        /\ (IF y > y + d - 1 THEN 0 ELSE (y + d - 1) - y + 1) = d
    OBVIOUS
  <2> QED BY <2>1, <2>2, FS_Interval
<1>3. Cells(b) = (x..(x + d - 1)) \X (y..(y + d - 1))
  BY <1>1 DEF Cells
<1>4. IsFiniteSet(Cells(b)) /\ Cardinality(Cells(b)) = d * d
  <2>1. PICK X, Y : X = x..(x + d - 1) /\ Y = y..(y + d - 1)
    OBVIOUS
  <2>2. IsFiniteSet(X) /\ IsFiniteSet(Y) /\ Cardinality(X) = d /\ Cardinality(Y) = d
    BY <1>2, <2>1
  <2>3. IsFiniteSet(X \X Y) /\ Cardinality(X \X Y) = Cardinality(X) * Cardinality(Y)
    BY <2>2, FS_Product
  <2> QED BY <1>3, <2>1, <2>2, <2>3
<1>5. d * d \in Nat /\ (d # 0 => d * d # 0)
  OBVIOUS
<1> QED BY <1>1, <1>4, <1>5

Grid(n) == (0..n - 1) \X (0..n - 1)

LEMMA SideOfGrid ==
  ASSUME NEW n \in Nat, NEW img, DOMAIN img = Grid(n)
  PROVE  Side(img) = n
<1>1. Whole(n) \in Boxes /\ Whole(n).dist = n /\ Cells(Whole(n)) = Grid(n)
  BY DEF Whole, Boxes, Cells, Grid
<1>2. Cardinality(DOMAIN img) = n * n
  BY <1>1, CellsCounted
<1>3. PICK m \in Nat : m = n * n
  BY RootBelow
<1>4. n \in 0..m /\ n * n = m
  BY <1>3, RootBelow
<1>5. \A k \in 0..m : k * k = m => k = n
  BY <1>3, SquareUnique
<1>6. Side(img) = CHOOSE k \in 0..m : k * k = m
  BY <1>2, <1>3 DEF Side
<1> QED BY <1>4, <1>5, <1>6

(* An image is a grid of colours.                                          *)
LEMMA ImageGrid ==
  ASSUME NEW img, NEW n \in Nat, n # 0
  PROVE  /\ IsImage(img) /\ Side(img) = n => img \in [Grid(n) -> Colours]
         /\ img \in [Grid(n) -> Colours] /\ n <= MaxSide => IsImage(img) /\ Side(img) = n
BY SideOfGrid DEF IsImage, Grid

LEMMA BlockInImage ==
  ASSUME NEW n \in Nat, NEW p \in Places
  PROVE  Cells(Block(n, p)) \subseteq Grid(n)
<1>1. PICK b \in Boxes : b = Block(n, p)
  BY BlockChild DEF Quadrants
<1>2. PICK x, y, d \in Nat : x = b.x /\ y = b.y /\ d = b.dist
  BY DEF Boxes
<1>3. x + d <= n /\ y + d <= n
  BY <1>1, <1>2, BlockDist
<1>4. x..(x + d - 1) \subseteq 0..(n - 1) /\ y..(y + d - 1) \subseteq 0..(n - 1)
  BY <1>3
<1>5. Cells(b) = (x..(x + d - 1)) \X (y..(y + d - 1))
  BY <1>2 DEF Cells
<1> QED BY <1>1, <1>4, <1>5 DEF Grid

(* The mean of a block in each channel.                                    *)
MeanOf(img, b, c) ==
  SumFunction([cell \in Cells(b) |-> img[cell][c]]) \div (b.dist * b.dist)

LEMMA MeanBetween ==
  ASSUME NEW img, NEW b \in Boxes, b.dist # 0, NEW c \in Channels,
         \A cell \in Cells(b) : img[cell] \in Colours
  PROVE  MeanOf(img, b, c) \in 0..255
<1> DEFINE f == [cell \in Cells(b) |-> img[cell][c]]
<1>1. PICK k \in Nat : k = Cardinality(Cells(b)) /\ k = b.dist * b.dist /\ k # 0
  BY CellsCounted
<1>2. \A cell \in Cells(b) : f[cell] \in 0..255
  BY DEF Colours
<1>3. DOMAIN f = Cells(b) /\ IsFiniteSet(Cells(b))
  BY CellsCounted
<1>4. MeanOf(img, b, c) = SumFunction(f) \div k
  BY <1>1 DEF MeanOf
<1> HIDE DEF f
<1>5. PICK z, t \in Nat : z = 0 /\ t = 255
  OBVIOUS
<1>6. \A cell \in Cells(b) : f[cell] \in z..t
  BY <1>2, <1>5
<1>7. SumFunction(f) \in (z * k)..(t * k)
  BY <1>1, <1>3, <1>6, SumBetween
<1>8. SumFunction(f) \in 0..(t * k)
  BY <1>5, <1>7
<1>9. PICK s \in 0..(t * k) : s = SumFunction(f)
  BY <1>8
<1>10. s \div k \in 0..t
  BY <1>1, AverageBetween
<1> QED BY <1>4, <1>5, <1>9, <1>10

LEMMA MeanConstant ==
  ASSUME NEW img, NEW b \in Boxes, b.dist # 0, NEW c \in Channels,
         NEW v \in Colours, \A cell \in Cells(b) : img[cell] = v
  PROVE  MeanOf(img, b, c) = v[c]
<1> DEFINE f == [cell \in Cells(b) |-> img[cell][c]]
<1>1. PICK k \in Nat : k = Cardinality(Cells(b)) /\ k = b.dist * b.dist /\ k # 0
  BY CellsCounted
<1>2. PICK a \in Nat : a = v[c]
  BY DEF Colours
<1>3. \A cell \in Cells(b) : f[cell] \in a..a
  BY <1>2
<1>4. DOMAIN f = Cells(b) /\ IsFiniteSet(Cells(b))
  BY CellsCounted
<1>5. MeanOf(img, b, c) = SumFunction(f) \div k
  BY <1>1 DEF MeanOf
<1> HIDE DEF f
<1>6. SumFunction(f) \in (a * k)..(a * k)
  BY <1>1, <1>3, <1>4, SumBetween
<1>7. SumFunction(f) = a * k
  BY <1>6
<1>8. (a * k) \div k = a
  BY <1>1
<1> QED BY <1>2, <1>5, <1>7, <1>8

LEMMA ColourIs ==
  ASSUME NEW r \in 0..255, NEW g \in 0..255, NEW b \in 0..255
  PROVE  [red |-> r, green |-> g, blue |-> b] \in Colours
<1>1. PICK v : v = [red |-> r, green |-> g, blue |-> b]
  OBVIOUS
<1>2. v = [c \in Channels |-> v[c]] /\ \A c \in Channels : v[c] \in 0..255
  BY <1>1 DEF Channels
<1> QED BY <1>1, <1>2 DEF Colours

LEMMA SameColour ==
  ASSUME NEW v \in Colours, NEW w \in Colours,
         v.red = w.red, v.green = w.green, v.blue = w.blue
  PROVE  v = w
<1>1. \A c \in Channels : v[c] = w[c]
  BY DEF Channels
<1> QED BY <1>1 DEF Colours

LEMMA MeanTyped ==
  ASSUME NEW img, NEW b \in Boxes, b.dist # 0,
         \A cell \in Cells(b) : img[cell] \in Colours
  PROVE  /\ getmed(img, b) \in Colours
         /\ \A c \in Channels : getmed(img, b)[c] = MeanOf(img, b, c)
<1>1. getmed(img, b) = [red |-> MeanOf(img, b, "red"), green |-> MeanOf(img, b, "green"),
                        blue |-> MeanOf(img, b, "blue")]
  BY DEF getmed, MeanOf
<1>2. \A c \in Channels : MeanOf(img, b, c) \in 0..255
  BY MeanBetween
<1>3. /\ MeanOf(img, b, "red") \in 0..255 /\ MeanOf(img, b, "green") \in 0..255
      /\ MeanOf(img, b, "blue") \in 0..255
  BY <1>2 DEF Channels
<1>4. getmed(img, b) \in Colours
  <2>1. PICK r \in 0..255, g \in 0..255, l \in 0..255 :
          /\ r = MeanOf(img, b, "red") /\ g = MeanOf(img, b, "green")
          /\ l = MeanOf(img, b, "blue")
    BY <1>3
  <2>2. [red |-> r, green |-> g, blue |-> l] \in Colours
    BY ColourIs
  <2> QED BY <1>1, <2>1, <2>2
<1>5. \A c \in Channels : getmed(img, b)[c] = MeanOf(img, b, c)
  BY <1>1 DEF Channels
<1> QED BY <1>4, <1>5

(* How far a pixel is from the mean, in all channels and in one.           *)
Widest == 255 * 255
SpreadOf(m, v) ==
  (m.red - v.red) * (m.red - v.red) + (m.green - v.green) * (m.green - v.green)
    + (m.blue - v.blue) * (m.blue - v.blue)

LEMMA DifferenceSquared ==
  ASSUME NEW a \in 0..255, NEW b \in 0..255
  PROVE  (a - b) * (a - b) \in 0..Widest
<1>1. PICK d \in 0..255 : a - b = d \/ b - a = d
  <2>1. CASE a >= b
    <3>1. a - b \in 0..255
      BY <2>1
    <3> QED BY <3>1
  <2>2. CASE ~(a >= b)
    <3>1. b - a \in 0..255
      BY <2>2
    <3> QED BY <3>1
  <2> QED BY <2>1, <2>2
<1>2. (a - b) * (a - b) = d * d
  <2>1. CASE a - b = d
    BY <2>1
  <2>2. CASE b - a = d
    <3>1. (a - b) * (a - b) = (b - a) * (b - a)
      OBVIOUS
    <3> QED BY <2>2, <3>1
  <2> QED BY <1>1, <2>1, <2>2
<1>3. d \in Nat /\ d <= 255 /\ 255 \in Nat
  OBVIOUS
<1>4. d * d <= 255 * 255 /\ d * d \in Nat
  BY <1>3, ProductMonotone
<1>5. PICK e \in Nat, w \in Nat : e = d * d /\ w = Widest /\ e <= w
  BY <1>4 DEF Widest
<1>6. (a - b) * (a - b) = e
  BY <1>2, <1>5
<1> QED BY <1>5, <1>6

LEMMA SpreadBetween ==
  ASSUME NEW m \in Colours, NEW v \in Colours
  PROVE  SpreadOf(m, v) \in 0..3 * Widest
<1>1. \A c \in Channels : m[c] \in 0..255 /\ v[c] \in 0..255
  BY DEF Colours
<1>2. /\ m.red \in 0..255 /\ m.green \in 0..255 /\ m.blue \in 0..255
      /\ v.red \in 0..255 /\ v.green \in 0..255 /\ v.blue \in 0..255
  BY <1>1 DEF Channels
<1>3. PICK r : r = (m.red - v.red) * (m.red - v.red)
  OBVIOUS
<1>4. PICK g : g = (m.green - v.green) * (m.green - v.green)
  OBVIOUS
<1>5. PICK b : b = (m.blue - v.blue) * (m.blue - v.blue)
  OBVIOUS
<1>6. r \in 0..Widest /\ g \in 0..Widest /\ b \in 0..Widest
  BY <1>2, <1>3, <1>4, <1>5, DifferenceSquared
<1>7. SpreadOf(m, v) = r + g + b
  BY <1>3, <1>4, <1>5 DEF SpreadOf
<1>8. PICK w \in Nat : w = Widest
  BY DEF Widest
<1> QED BY <1>6, <1>7, <1>8

LEMMA SpreadNone ==
  ASSUME NEW v \in Colours
  PROVE  SpreadOf(v, v) = 0
<1>1. \A c \in Channels : v[c] \in 0..255
  BY DEF Colours
<1>2. v.red - v.red = 0 /\ v.green - v.green = 0 /\ v.blue - v.blue = 0
  BY <1>1 DEF Channels
<1> QED BY <1>2 DEF SpreadOf

Spreads(img, b) == [cell \in Cells(b) |-> SpreadOf(getmed(img, b), img[cell])]

LEMMA ScoreIs ==
  ASSUME NEW img, NEW b \in Boxes, b.dist # 0,
         \A cell \in Cells(b) : img[cell] \in Colours
  PROVE  /\ score(img, b) = SumFunction(Spreads(img, b)) \div (3 * Cardinality(Cells(b)))
         /\ score(img, b) \in Nat
<1>1. PICK k \in Nat : k = Cardinality(Cells(b)) /\ k = b.dist * b.dist /\ k # 0
  BY CellsCounted
<1>2. 3 * b.dist * b.dist = 3 * k
  <2>1. PICK d \in Nat : d = b.dist
    BY DEF Boxes
  <2>2. 3 * d * d = 3 * (d * d)
    OBVIOUS
  <2> QED BY <1>1, <2>1, <2>2
<1>3. score(img, b) = SumFunction(Spreads(img, b)) \div (3 * b.dist * b.dist)
  BY DEF score, Spreads, SpreadOf
<1>4. PICK f : f = Spreads(img, b)
  OBVIOUS
<1>5. DOMAIN f = Cells(b) /\ IsFiniteSet(Cells(b))
  BY <1>4, CellsCounted DEF Spreads
<1>6. \A cell \in Cells(b) : f[cell] \in 0..3 * Widest
  BY <1>4, MeanTyped, SpreadBetween DEF Spreads
<1>7. PICK z, t \in Nat : z = 0 /\ t = 3 * Widest
  BY DEF Widest
<1>8. \A cell \in Cells(b) : f[cell] \in z..t
  BY <1>6, <1>7
<1>9. SumFunction(f) \in (z * k)..(t * k)
  BY <1>1, <1>5, <1>8, SumBetween
<1>10. PICK s \in Nat : s = SumFunction(f)
  <2>1. t * k \in Nat /\ z * k = 0
    BY <1>7
  <2> QED BY <1>9, <2>1
<1>11. 3 * k \in Nat /\ 3 * k # 0
  BY <1>1
<1>12. s \div (3 * k) \in Nat
  <2>1. PICK n \in Nat : n = 3 * k /\ n # 0
    BY <1>11
  <2>2. s \in 0..(s * n)
    <3>1. s * n = s + s * (n - 1) /\ n - 1 \in Nat
      BY <2>1
    <3>2. s * (n - 1) \in Nat
      BY <3>1
    <3> QED BY <3>1, <3>2
  <2>3. s \div n \in 0..s
    BY <2>1, <2>2, AverageBetween
  <2> QED BY <2>1, <2>3
<1> QED BY <1>1, <1>2, <1>3, <1>4, <1>10, <1>12

(* A block of one colour has that colour for its mean, and no error.       *)
LEMMA ConstantBlock ==
  ASSUME NEW img, NEW b \in Boxes, b.dist # 0,
         NEW v \in Colours, \A cell \in Cells(b) : img[cell] = v
  PROVE  getmed(img, b) = v /\ score(img, b) = 0
<1>1. \A cell \in Cells(b) : img[cell] \in Colours
  OBVIOUS
<1>2. PICK m : m = getmed(img, b)
  OBVIOUS
<1>3. m \in Colours /\ \A c \in Channels : m[c] = v[c]
  BY <1>1, <1>2, MeanTyped, MeanConstant
<1>4. m = v
  BY <1>3, SameColour DEF Channels
<1>5. PICK k \in Nat : k = Cardinality(Cells(b)) /\ k # 0
  BY CellsCounted
<1>6. PICK f : f = Spreads(img, b)
  OBVIOUS
<1>7. DOMAIN f = Cells(b) /\ IsFiniteSet(Cells(b))
  BY <1>6, CellsCounted DEF Spreads
<1>8. PICK z \in Nat : z = 0
  OBVIOUS
<1>9. \A cell \in Cells(b) : f[cell] \in z..z
  <2>1. \A cell \in Cells(b) : f[cell] = SpreadOf(v, v)
    BY <1>2, <1>4, <1>6 DEF Spreads
  <2> QED BY <1>8, <2>1, SpreadNone
<1>10. SumFunction(f) \in (z * k)..(z * k)
  BY <1>5, <1>7, <1>9, SumBetween
<1>11. SumFunction(f) = 0
  BY <1>8, <1>10
<1>12. score(img, b) = 0 \div (3 * k)
  BY <1>1, <1>5, <1>6, <1>11, ScoreIs
<1>13. 3 * k \in Nat /\ 3 * k # 0
  BY <1>5
<1>14. 0 \div (3 * k) = 0
  BY <1>13
<1> QED BY <1>2, <1>4, <1>12, <1>14

LEMMA OnePixel ==
  ASSUME NEW img, NEW b \in Boxes, b.dist = 1,
         \A cell \in Cells(b) : img[cell] \in Colours
  PROVE  score(img, b) = 0
<1>1. PICK x, y \in Nat : x = b.x /\ y = b.y
  BY DEF Boxes
<1>2. x..(x + 1 - 1) = {x} /\ y..(y + 1 - 1) = {y}
  OBVIOUS
<1>3. Cells(b) = {<<x, y>>}
  <2>1. Cells(b) = (x..(x + 1 - 1)) \X (y..(y + 1 - 1))
    BY <1>1 DEF Cells
  <2> QED BY <1>2, <2>1
<1>4. PICK v \in Colours : v = img[<<x, y>>]
  BY <1>3
<1>5. \A cell \in Cells(b) : img[cell] = v
  BY <1>3, <1>4
<1> QED BY <1>5, ConstantBlock

-----------------------------------------------------------------------------
(* The tree of an image.                                                   *)

Nodes == [mean : Colours, area : Nat]

(* A node has all four children or none.                                   *)
FullTree(t) ==
  /\ DOMAIN t \subseteq Places /\ IsFiniteSet(DOMAIN t)
  /\ <<>> \in DOMAIN t
  /\ \A p \in Places, q \in Quadrants : Append(p, q) \in DOMAIN t => p \in DOMAIN t
  /\ \A p \in DOMAIN t : ~IsLeaf(t, p) => \A q \in Quadrants : Append(p, q) \in DOMAIN t
  /\ \A p \in DOMAIN t : IsLeaf(t, p) => \A q \in Quadrants : Append(p, q) \notin DOMAIN t
  /\ \A p \in DOMAIN t : t[p] \in Nodes

LEMMA QuadrantsCounted ==
  IsFiniteSet(Quadrants) /\ Cardinality(Quadrants) = 4
<1>1. Quadrants = (({} \cup {"top_left"}) \cup {"top_right"}) \cup {"bottom_right"} \cup {"bottom_left"}
  BY DEF Quadrants
<1>2. PICK S0, S1, S2, S3 : /\ S0 = {} /\ S1 = S0 \cup {"top_left"} /\ S2 = S1 \cup {"top_right"}
                            /\ S3 = S2 \cup {"bottom_right"}
  OBVIOUS
<1>3. "top_left" \notin S0 /\ "top_right" \notin S1 /\ "bottom_right" \notin S2 /\ "bottom_left" \notin S3
  BY <1>2
<1>4. IsFiniteSet(S0) /\ Cardinality(S0) = 0
  BY <1>2, FS_EmptySet
<1>5. IsFiniteSet(S1) /\ Cardinality(S1) = 1
  BY <1>2, <1>3, <1>4, FS_AddElement
<1>6. IsFiniteSet(S2) /\ Cardinality(S2) = 2
  BY <1>2, <1>3, <1>5, FS_AddElement
<1>7. IsFiniteSet(S3) /\ Cardinality(S3) = 3
  BY <1>2, <1>3, <1>6, FS_AddElement
<1>8. Quadrants = S3 \cup {"bottom_left"}
  BY <1>1, <1>2
<1> QED BY <1>3, <1>7, <1>8, FS_AddElement

Short(n) == {p \in Places : Len(p) <= n}

LEMMA ShortFinite ==
  ASSUME NEW n \in Nat
  PROVE  IsFiniteSet(Short(n))
<1> DEFINE P == {m \in 0..n : IsFiniteSet(Short(m))}
<1>1. 0 \in P
  <2>1. Short(0) = {<<>>}
    <3>1. <<>> \in Places /\ Len(<<>>) = 0
      BY EmptySeq DEF Places
    <3>2. \A p \in Places : Len(p) <= 0 => p = <<>>
      BY EmptySeq DEF Places
    <3> QED BY <3>1, <3>2 DEF Short
  <2>2. IsFiniteSet(Short(0))
    BY <2>1, FS_Singleton
  <2> QED BY <2>2
<1>2. ASSUME NEW k \in 1..n, k - 1 \in P
      PROVE  k \in P
  <2>1. PICK j \in Nat : j = k - 1 /\ k = j + 1
    OBVIOUS
  <2> DEFINE S == Short(j) \X Quadrants
             f == [s \in S |-> Append(s[1], s[2])]
             T == {f[s] : s \in S}
  <2>2. IsFiniteSet(Short(j)) /\ IsFiniteSet(Quadrants)
    BY <1>2, <2>1, QuadrantsCounted
  <2>3. IsFiniteSet(S)
    BY <2>2, FS_Product
  <2>4. f \in Surjection(S, T)
    BY DEF Surjection
  <2> HIDE DEF S, T
  <2>5. IsFiniteSet(T)
    BY <2>3, <2>4, FS_Surjection
  <2>6. IsFiniteSet(Short(j) \cup T)
    BY <2>2, <2>5, FS_Union
  <2>7. Short(k) \subseteq Short(j) \cup T
    <3> SUFFICES ASSUME NEW p \in Places, Len(p) <= k, p \notin Short(j)
                 PROVE  p \in T
      BY DEF Short
    <3>1. Len(p) \in Nat /\ Len(p) # 0
      BY <2>1, PrefixFull DEF Short
    <3>2. p # <<>>
      BY <3>1, EmptySeq
    <3>3. PICK r \in Places, q \in Quadrants : p = Append(r, q)
      BY <3>2, SequenceEmptyOrAppend DEF Places
    <3>4. Len(p) = Len(r) + 1 /\ Len(r) \in Nat
      BY <3>3, PrefixOfChild, PrefixFull
    <3>5. r \in Short(j)
      BY <2>1, <3>4 DEF Short
    <3>6. <<r, q>> \in S /\ f[<<r, q>>] = p
      BY <3>3, <3>5 DEF S
    <3> QED BY <3>6 DEF T
  <2>8. IsFiniteSet(Short(k))
    BY <2>6, <2>7, FS_Subset
  <2> QED BY <2>8
<1> HIDE DEF P
<1>3. n \in P
  BY <1>1, <1>2, CountingUp
<1> QED BY <1>3 DEF P

Splitting(img, prag) ==
  {p \in Paths(Side(img)) : score(img, Block(Side(img), p)) > prag}

(* The nodes are the places above which every node was split.              *)
LEMMA MadeNodes ==
  ASSUME NEW img, IsImage(img), NEW prag \in Nat, NEW t, t = maketree(img, prag)
  PROVE  /\ DOMAIN t = {p \in Paths(Side(img)) :
                          \A n \in 0..(Len(p) - 1) : SubSeq(p, 1, n) \in Splitting(img, prag)}
         /\ \A p \in DOMAIN t :
              t[p] = [mean |-> getmed(img, Block(Side(img), p)),
                      area |-> Block(Side(img), p).dist * Block(Side(img), p).dist]
<1>1. PICK w \in Nat : w = Side(img) /\ w # 0
  BY DEF IsImage
<1>2. PICK S : S = Splitting(img, prag)
  OBVIOUS
<1>3. PICK N : N = {p \in Paths(w) : \A a \in Prefixes(p) \ {p} : a \in S}
  OBVIOUS
<1>4. t = [p \in N |-> [mean |-> getmed(img, Block(w, p)),
                        area |-> Block(w, p).dist * Block(w, p).dist]]
  BY <1>1, <1>2, <1>3, Zenon DEF maketree, Splitting
<1>5. \A p \in Paths(w) : p \in Places
  BY <1>1, PathsAre
<1>6. \A p \in Paths(w) : (\A a \in Prefixes(p) \ {p} : a \in S)
                            <=> \A n \in 0..(Len(p) - 1) : SubSeq(p, 1, n) \in S
  <2> SUFFICES ASSUME NEW p \in Paths(w)
               PROVE  (\A a \in Prefixes(p) \ {p} : a \in S)
                        <=> \A n \in 0..(Len(p) - 1) : SubSeq(p, 1, n) \in S
    OBVIOUS
  <2>1. Prefixes(p) \ {p} = {SubSeq(p, 1, n) : n \in 0..(Len(p) - 1)}
    BY <1>5, PrefixesOf
  <2> QED BY <2>1, Zenon
<1>7. N = {p \in Paths(w) : \A n \in 0..(Len(p) - 1) : SubSeq(p, 1, n) \in S}
  BY <1>3, <1>6
<1> QED BY <1>1, <1>2, <1>4, <1>7

LEMMA PathBlock ==
  ASSUME NEW img, IsImage(img), NEW p \in Paths(Side(img))
  PROVE  /\ p \in Places /\ Len(p) \in 0..Depth(Side(img))
         /\ Block(Side(img), p) \in Boxes /\ Block(Side(img), p).dist # 0
         /\ Len(p) = Depth(Side(img)) => Block(Side(img), p).dist = 1
         /\ \A cell \in Cells(Block(Side(img), p)) : img[cell] \in Colours
<1>1. PICK w \in Nat : w = Side(img) /\ w # 0
  BY DEF IsImage
<1>2. p \in Places /\ Len(p) <= Depth(w) /\ Len(p) \in Nat
  BY <1>1, PathsAre, PrefixFull
<1>3. PICK d \in Nat : d = Depth(w) /\ Halved(w, d) = 1
  BY <1>1, DepthOfSide
<1>4. PICK b \in Boxes : b = Block(w, p)
  BY <1>2, BlockChild DEF Quadrants
<1>5. b.dist = Halved(w, Len(p)) /\ Cells(b) \subseteq Grid(w)
  BY <1>2, <1>4, BlockDist, BlockInImage
<1>6. 0..d \subseteq {k \in 0..d : Halved(w, d - k) # 0}
  <2>1. 0 \in {k \in 0..d : Halved(w, d - k) # 0}
    BY <1>3
  <2>2. ASSUME NEW k \in 1..d, k - 1 \in {j \in 0..d : Halved(w, d - j) # 0}
        PROVE  k \in {j \in 0..d : Halved(w, d - j) # 0}
    <3>1. PICK j \in Nat : j = d - k /\ d - (k - 1) = j + 1
      <4>1. d - k \in Nat /\ d - (k - 1) = (d - k) + 1
        OBVIOUS
      <4> QED BY <4>1
    <3>2. Halved(w, j + 1) = Halved(w, j) \div 2 /\ Halved(w, j) \in Nat
      BY HalvedNext
    <3>3. Halved(w, j + 1) # 0
      BY <2>2, <3>1
    <3>4. Halved(w, j) # 0
      BY <3>2, <3>3
    <3> QED BY <3>1, <3>4
  <2> QED BY <2>1, <2>2, CountingUp
<1>7. d - Len(p) \in 0..d /\ d - (d - Len(p)) = Len(p)
  BY <1>2, <1>3
<1>8. Halved(w, Len(p)) # 0
  BY <1>6, <1>7
<1>9. img \in [Grid(w) -> Colours]
  BY <1>1, ImageGrid
<1> QED BY <1>1, <1>2, <1>3, <1>4, <1>5, <1>8, <1>9

LEMMA SplitAbove ==
  ASSUME NEW img, IsImage(img), NEW prag \in Nat, NEW p \in Splitting(img, prag)
  PROVE  /\ p \in Places /\ Len(p) < Depth(Side(img))
         /\ \A q \in Quadrants : Append(p, q) \in Paths(Side(img))
<1>1. PICK w \in Nat : w = Side(img) /\ w # 0
  BY DEF IsImage
<1>2. PICK d \in Nat : d = Depth(w)
  BY <1>1, DepthOfSide
<1>3. p \in Paths(w) /\ score(img, Block(w, p)) > prag
  BY <1>1 DEF Splitting
<1>4. p \in Places /\ Len(p) \in 0..d
  BY <1>1, <1>2, <1>3, PathBlock
<1>5. Len(p) # d
  <2> SUFFICES ASSUME Len(p) = d PROVE FALSE
    OBVIOUS
  <2>1. score(img, Block(w, p)) = 0
    BY <1>1, <1>2, <1>3, PathBlock, OnePixel
  <2> QED BY <1>3, <2>1
<1>6. \A q \in Quadrants : Append(p, q) \in Places /\ Len(Append(p, q)) <= d
  BY <1>4, <1>5, PrefixOfChild
<1>7. \A q \in Quadrants : Append(p, q) \in Paths(w)
  BY <1>1, <1>2, <1>6, PathsAre
<1> QED BY <1>1, <1>2, <1>4, <1>5, <1>7

LEMMA MadeTree ==
  ASSUME NEW img, IsImage(img), NEW prag \in Nat
  PROVE  FullTree(maketree(img, prag))
<1>1. PICK t : t = maketree(img, prag)
  OBVIOUS
<1>2. PICK w \in Nat : w = Side(img) /\ w # 0
  BY DEF IsImage
<1>3. PICK S : S = Splitting(img, prag)
  OBVIOUS
<1>4. /\ DOMAIN t = {p \in Paths(w) : \A n \in 0..(Len(p) - 1) : SubSeq(p, 1, n) \in S}
      /\ \A p \in DOMAIN t : t[p] = [mean |-> getmed(img, Block(w, p)),
                                     area |-> Block(w, p).dist * Block(w, p).dist]
  <2>1. /\ DOMAIN t = {p \in Paths(Side(img)) :
                         \A n \in 0..(Len(p) - 1) : SubSeq(p, 1, n) \in Splitting(img, prag)}
        /\ \A p \in DOMAIN t :
             t[p] = [mean |-> getmed(img, Block(Side(img), p)),
                     area |-> Block(Side(img), p).dist * Block(Side(img), p).dist]
    BY <1>1, MadeNodes
  <2> QED BY <1>2, <1>3, <2>1
<1>5. PICK d \in Nat : d = Depth(w)
  BY <1>2, DepthOfSide
<1>6. Paths(w) = Short(d)
  BY <1>2, <1>5, PathsAre DEF Short
<1>7. DOMAIN t \subseteq Places /\ IsFiniteSet(DOMAIN t)
  <2>1. DOMAIN t \in SUBSET Short(d)
    BY <1>4, <1>6
  <2> QED BY <2>1, ShortFinite, FS_Subset DEF Short
<1>8. <<>> \in DOMAIN t
  <2>1. <<>> \in Places /\ Len(<<>>) = 0
    BY EmptySeq DEF Places
  <2>2. <<>> \in Paths(w)
    BY <1>5, <2>1, <1>6 DEF Short
  <2>3. 0..(Len(<<>>) - 1) = {}
    BY <2>1
  <2> QED BY <1>4, <2>2, <2>3
<1>9. ASSUME NEW p \in Places, NEW q \in Quadrants
      PROVE  Append(p, q) \in DOMAIN t <=> p \in DOMAIN t /\ p \in S
  <2>1. PICK r, m : r = Append(p, q) /\ m = Len(p)
    OBVIOUS
  <2>2. /\ r \in Places /\ Len(r) = m + 1 /\ m \in Nat /\ SubSeq(p, 1, m) = p
        /\ \A n \in 0..m : SubSeq(r, 1, n) = SubSeq(p, 1, n)
    BY <2>1, PrefixOfChild, PrefixFull
  <2>3. ASSUME r \in DOMAIN t
        PROVE  p \in DOMAIN t /\ p \in S
    <3>1. r \in Short(d) /\ \A n \in 0..m : SubSeq(r, 1, n) \in S
      BY <1>4, <1>6, <2>2, <2>3
    <3>2. \A n \in 0..m : SubSeq(p, 1, n) \in S
      BY <2>2, <3>1
    <3>3. p \in S
      <4>1. m \in 0..m
        BY <2>2
      <4>2. SubSeq(p, 1, m) \in S
        BY <3>2, <4>1
      <4> QED BY <2>2, <4>2
    <3>4. p \in Short(d)
      BY <2>1, <2>2, <3>1 DEF Short
    <3>5. \A n \in 0..(m - 1) : n \in 0..m
      BY <2>2
    <3> QED BY <1>4, <1>6, <2>1, <3>2, <3>3, <3>4, <3>5
  <2>4. ASSUME p \in DOMAIN t, p \in S
        PROVE  r \in DOMAIN t
    <3>1. r \in Paths(w)
      BY <1>2, <1>3, <2>1, <2>4, SplitAbove
    <3>2. ASSUME NEW n \in 0..m
          PROVE  SubSeq(r, 1, n) \in S
      <4>1. CASE n = m
        BY <2>2, <2>4, <4>1
      <4>2. CASE n # m
        <5>1. n \in 0..(m - 1)
          BY <2>2, <4>2
        <5>2. SubSeq(p, 1, n) \in S
          BY <1>4, <2>1, <2>4, <5>1
        <5> QED BY <2>2, <5>2
      <4> QED BY <4>1, <4>2
    <3>3. Len(r) - 1 = m
      BY <2>2
    <3> QED BY <1>4, <3>1, <3>2, <3>3
  <2> QED BY <2>1, <2>3, <2>4
<1>10. \A p \in DOMAIN t : t[p] \in Nodes
  <2> SUFFICES ASSUME NEW p \in DOMAIN t PROVE t[p] \in Nodes
    OBVIOUS
  <2>1. p \in Paths(w)
    BY <1>4
  <2>2. PICK b \in Boxes : b = Block(w, p)
    BY <1>2, <2>1, PathBlock
  <2>3. getmed(img, b) \in Colours
    BY <1>2, <2>1, <2>2, PathBlock, MeanTyped
  <2>4. b.dist * b.dist \in Nat
    BY DEF Boxes
  <2>5. t[p] = [mean |-> getmed(img, b), area |-> b.dist * b.dist]
    BY <1>4, <2>2
  <2> QED BY <2>3, <2>4, <2>5 DEF Nodes
<1>11. "top_right" \in Quadrants
  BY DEF Quadrants
<1>12. \A p \in DOMAIN t : IsLeaf(t, p) <=> p \notin S
  BY <1>7, <1>9, <1>11 DEF IsLeaf
<1>13. \A p \in DOMAIN t, q \in Quadrants : Append(p, q) \in DOMAIN t <=> p \in S
  BY <1>7, <1>9
<1> QED BY <1>1, <1>7, <1>8, <1>9, <1>10, <1>12, <1>13 DEF FullTree

-----------------------------------------------------------------------------
(* The two loops over the queue.                                           *)

Ordering(order) ==
  /\ \A i \in 1..4 : order[i] \in Quadrants
  /\ \A i, j \in 1..4 : order[i] = order[j] => i = j
  /\ \A q \in Quadrants : \E i \in 1..4 : order[i] = q

Enqueued(t, order, queue, p) ==
  LET q1 == enq(t, queue, Append(p, order[1]))
      q2 == enq(t, q1, Append(p, order[2]))
      q3 == enq(t, q2, Append(p, order[3]))
  IN  enq(t, q3, Append(p, order[4]))

(* The children that a node brings, in a sequence.                         *)
Brings(t, order, p) ==
  IF IsLeaf(t, p) THEN <<>> ELSE [i \in 1..4 |-> Append(p, order[i])]

LEMMA OrderingIs == Ordering(IndexOrder) /\ VectorOrder = IndexOrder
<1>1. PICK o : o = IndexOrder
  OBVIOUS
<1>2. o[1] = "top_left" /\ o[2] = "top_right" /\ o[3] = "bottom_right" /\ o[4] = "bottom_left"
  BY <1>1 DEF IndexOrder
<1>3. \A i \in 1..4 : i = 1 \/ i = 2 \/ i = 3 \/ i = 4
  OBVIOUS
<1>4. 1 \in 1..4 /\ 2 \in 1..4 /\ 3 \in 1..4 /\ 4 \in 1..4
  OBVIOUS
<1>5. \A i \in 1..4 : o[i] \in Quadrants
  BY <1>2, <1>3 DEF Quadrants
<1>6. \A i, j \in 1..4 : o[i] = o[j] => i = j
  BY <1>2, <1>3
<1>7. \A q \in Quadrants : \E i \in 1..4 : o[i] = q
  BY <1>2, <1>4 DEF Quadrants
<1> QED BY <1>1, <1>5, <1>6, <1>7 DEF Ordering, IndexOrder, VectorOrder

LEMMA SeqOfFunction ==
  ASSUME NEW n \in Nat, NEW T, NEW f \in [1..n -> T]
  PROVE  f \in Seq(T) /\ Len(f) = n
<1>1. f \in Seq(T)
  OBVIOUS
<1>2. DOMAIN f = 1..n
  OBVIOUS
<1>3. Len(f) \in Nat /\ DOMAIN f = 1..Len(f)
  BY <1>1, LenProperties
<1>4. 1..n = 1..Len(f)
  BY <1>2, <1>3
<1>5. n = Len(f)
  <2>1. n # 0 => n \in 1..n
    OBVIOUS
  <2>2. Len(f) # 0 => Len(f) \in 1..Len(f)
    BY <1>3
  <2>3. n # 0 => n \in 1..Len(f)
    BY <1>4, <2>1
  <2>4. Len(f) # 0 => Len(f) \in 1..n
    BY <1>4, <2>2
  <2> QED BY <1>3, <2>3, <2>4
<1> QED BY <1>1, <1>5

(* c lists the children of p, and nothing else.                            *)
Children(c, t, order, p) ==
  /\ c \in Seq(DOMAIN t)
  /\ \A q \in Quadrants : Append(p, q) \in DOMAIN t =>
       \E i \in 1..Len(c) : c[i] = Append(p, q)
  /\ \A i \in 1..Len(c) : i \in 1..4 /\ c[i] = Append(p, order[i])

LEMMA BringsTyped ==
  ASSUME NEW t, FullTree(t), NEW order, Ordering(order), NEW p \in DOMAIN t
  PROVE  Children(Brings(t, order, p), t, order, p)
<1>1. PICK c : c = Brings(t, order, p)
  OBVIOUS
<1>2. \A i \in 1..4 : order[i] \in Quadrants
  BY DEF Ordering
<1>3. CASE IsLeaf(t, p)
  <2>1. c = <<>> /\ Len(c) = 0 /\ c \in Seq(DOMAIN t)
    BY <1>1, <1>3, EmptySeq DEF Brings
  <2>2. \A q \in Quadrants : Append(p, q) \notin DOMAIN t
    BY <1>3 DEF FullTree
  <2> QED BY <1>1, <2>1, <2>2 DEF Children
<1>4. CASE ~IsLeaf(t, p)
  <2>1. c = [i \in 1..4 |-> Append(p, order[i])]
    BY <1>1, <1>4 DEF Brings
  <2>2. \A q \in Quadrants : Append(p, q) \in DOMAIN t
    BY <1>4 DEF FullTree
  <2>3. c \in [1..4 -> DOMAIN t] /\ \A i \in 1..4 : c[i] = Append(p, order[i])
    BY <1>2, <2>1, <2>2
  <2>4. c \in Seq(DOMAIN t) /\ Len(c) = 4
    <3>1. PICK T, n : T = DOMAIN t /\ n \in Nat /\ n = 4
      OBVIOUS
    <3>2. c \in [1..n -> T]
      BY <2>3, <3>1
    <3> QED BY <3>1, <3>2, SeqOfFunction
  <2>5. \A q \in Quadrants : \E i \in 1..4 : order[i] = q
    BY DEF Ordering
  <2>6. \A q \in Quadrants : \E i \in 1..4 : c[i] = Append(p, q)
    BY <2>3, <2>5
  <2> QED BY <1>1, <2>3, <2>4, <2>6 DEF Children
<1> QED BY <1>3, <1>4

LEMMA EnqueuedIs ==
  ASSUME NEW t, FullTree(t), NEW order, Ordering(order), NEW p \in DOMAIN t,
         NEW queue \in Seq(DOMAIN t)
  PROVE  Enqueued(t, order, queue, p) = queue \o Brings(t, order, p)
<1>1. PICK c : c = Brings(t, order, p)
  OBVIOUS
<1>2. \A i \in 1..4 : order[i] \in Quadrants
  BY DEF Ordering
<1>3. order[1] \in Quadrants /\ order[2] \in Quadrants /\ order[3] \in Quadrants /\ order[4] \in Quadrants
  BY <1>2
<1>4. PICK c1, c2, c3, c4 : /\ c1 = Append(p, order[1]) /\ c2 = Append(p, order[2])
                            /\ c3 = Append(p, order[3]) /\ c4 = Append(p, order[4])
  OBVIOUS
<1>5. Enqueued(t, order, queue, p) = enq(t, enq(t, enq(t, enq(t, queue, c1), c2), c3), c4)
  BY <1>4 DEF Enqueued
<1>6. CASE IsLeaf(t, p)
  <2>1. c = <<>>
    BY <1>1, <1>6 DEF Brings
  <2>2. c1 \notin DOMAIN t /\ c2 \notin DOMAIN t /\ c3 \notin DOMAIN t /\ c4 \notin DOMAIN t
    BY <1>3, <1>4, <1>6 DEF FullTree
  <2>3. Enqueued(t, order, queue, p) = queue
    BY <1>5, <2>2 DEF enq
  <2>4. queue \o <<>> = queue
    BY ConcatEmptySeq
  <2> QED BY <1>1, <2>1, <2>3, <2>4
<1>7. CASE ~IsLeaf(t, p)
  <2>1. c1 \in DOMAIN t /\ c2 \in DOMAIN t /\ c3 \in DOMAIN t /\ c4 \in DOMAIN t
    BY <1>3, <1>4, <1>7 DEF FullTree
  <2>2. PICK T : T = DOMAIN t
    OBVIOUS
  <2>3. Enqueued(t, order, queue, p) = Append(Append(Append(Append(queue, c1), c2), c3), c4)
    BY <1>5, <2>1 DEF enq
  <2>4. c \in Seq(T) /\ Len(c) = 4 /\ c[1] = c1 /\ c[2] = c2 /\ c[3] = c3 /\ c[4] = c4
    <3>1. c = [i \in 1..4 |-> Append(p, order[i])]
      BY <1>1, <1>7 DEF Brings
    <3>2. c[1] = c1 /\ c[2] = c2 /\ c[3] = c3 /\ c[4] = c4
      BY <1>4, <3>1
    <3>3. \A i \in 1..4 : c[i] \in T
      <4>1. \A i \in 1..4 : i = 1 \/ i = 2 \/ i = 3 \/ i = 4
        OBVIOUS
      <4> QED BY <2>1, <2>2, <3>2, <4>1
    <3>4. PICK n \in Nat : n = 4
      OBVIOUS
    <3>5. c \in [1..n -> T]
      BY <3>1, <3>3, <3>4
    <3>6. c \in Seq(T) /\ Len(c) = 4
      BY <3>4, <3>5, SeqOfFunction
    <3> QED BY <3>2, <3>6
  <2>5. c = Append(Append(Append(Append(<<>>, c1), c2), c3), c4)
    <3>1. PICK s0, s1, s2, s3, e : /\ s0 = <<>> /\ s1 = Append(s0, c1) /\ s2 = Append(s1, c2)
                                   /\ s3 = Append(s2, c3) /\ e = Append(s3, c4)
      OBVIOUS
    <3>2. s0 \in Seq(T) /\ Len(s0) = 0
      BY <3>1, EmptySeq
    <3>3. s1 \in Seq(T) /\ Len(s1) = 1 /\ s1[1] = c1
      <4>1. s1 \in Seq(T) /\ Len(s1) = Len(s0) + 1 /\ s1[Len(s0) + 1] = c1
        BY <2>1, <2>2, <3>1, <3>2, AppendProperties
      <4> QED BY <3>2, <4>1
    <3>4. s2 \in Seq(T) /\ Len(s2) = 2 /\ s2[1] = c1 /\ s2[2] = c2
      <4>1. /\ s2 \in Seq(T) /\ Len(s2) = Len(s1) + 1 /\ s2[Len(s1) + 1] = c2
            /\ \A i \in 1..Len(s1) : s2[i] = s1[i]
        BY <2>1, <2>2, <3>1, <3>3, AppendProperties
      <4> QED BY <3>3, <4>1
    <3>5. s3 \in Seq(T) /\ Len(s3) = 3 /\ s3[1] = c1 /\ s3[2] = c2 /\ s3[3] = c3
      <4>1. /\ s3 \in Seq(T) /\ Len(s3) = Len(s2) + 1 /\ s3[Len(s2) + 1] = c3
            /\ \A i \in 1..Len(s2) : s3[i] = s2[i]
        BY <2>1, <2>2, <3>1, <3>4, AppendProperties
      <4> QED BY <3>4, <4>1
    <3>6. e \in Seq(T) /\ Len(e) = 4 /\ e[1] = c1 /\ e[2] = c2 /\ e[3] = c3 /\ e[4] = c4
      <4>1. /\ e \in Seq(T) /\ Len(e) = Len(s3) + 1 /\ e[Len(s3) + 1] = c4
            /\ \A i \in 1..Len(s3) : e[i] = s3[i]
        BY <2>1, <2>2, <3>1, <3>5, AppendProperties
      <4> QED BY <3>5, <4>1
    <3>7. \A i \in 1..4 : c[i] = e[i]
      <4>1. \A i \in 1..4 : i = 1 \/ i = 2 \/ i = 3 \/ i = 4
        OBVIOUS
      <4> QED BY <2>4, <3>6, <4>1
    <3>8. c = e
      BY <2>4, <3>6, <3>7, SeqEqual
    <3> QED BY <3>1, <3>8
  <2>6. queue \o c = Append(Append(Append(Append(queue, c1), c2), c3), c4)
    <3>1. \A s \in Seq(T) : \A r \in Seq(T), x \in T : s \o Append(r, x) = Append(s \o r, x)
      <4> SUFFICES ASSUME NEW s \in Seq(T), NEW r \in Seq(T), NEW x \in T
                   PROVE  s \o Append(r, x) = Append(s \o r, x)
        OBVIOUS
      <4>1. <<x>> \in Seq(T) /\ s \o r \in Seq(T)
        BY ConcatProperties
      <4>2. Append(r, x) = r \o <<x>> /\ Append(s \o r, x) = (s \o r) \o <<x>>
        BY <4>1, AppendIsConcat
      <4> QED BY <4>1, <4>2, ConcatAssociative
    <3>2. PICK s0, s1, s2, s3 : /\ s0 = <<>> /\ s1 = Append(s0, c1) /\ s2 = Append(s1, c2)
                                /\ s3 = Append(s2, c3) /\ c = Append(s3, c4)
      BY <2>5
    <3>3. s0 \in Seq(T) /\ s1 \in Seq(T) /\ s2 \in Seq(T) /\ s3 \in Seq(T)
      BY <2>1, <2>2, <3>2, EmptySeq, AppendProperties
    <3>4. queue \o s0 = queue
      BY <3>2, ConcatEmptySeq
    <3>5. queue \o s1 = Append(queue, c1)
      BY <2>1, <2>2, <3>1, <3>2, <3>3, <3>4
    <3>6. queue \o s2 = Append(Append(queue, c1), c2)
      BY <2>1, <2>2, <3>1, <3>2, <3>3, <3>5
    <3>7. queue \o s3 = Append(Append(Append(queue, c1), c2), c3)
      BY <2>1, <2>2, <3>1, <3>2, <3>3, <3>6
    <3> QED BY <2>1, <2>2, <3>1, <3>2, <3>3, <3>7
  <2> QED BY <1>1, <2>3, <2>6
<1> QED BY <1>6, <1>7

(* What has been enqueued after n nodes were dequeued, in this order.      *)
Listed(t, a, n) ==
  /\ a \in Seq(DOMAIN t) /\ 1 \in 1..Len(a) /\ a[1] = <<>>
  /\ n \in 0..Len(a)
  /\ \A i, j \in 1..Len(a) : a[i] = a[j] => i = j
  /\ \A j \in 2..Len(a) : \E i \in 1..(j - 1), q \in Quadrants :
       i <= n /\ a[j] = Append(a[i], q)
  /\ \A i \in 1..n, q \in Quadrants : Append(a[i], q) \in DOMAIN t =>
       \E j \in 1..Len(a) : a[j] = Append(a[i], q)

LEMMA PlaceAppended ==
  ASSUME NEW p \in Places, NEW q \in Quadrants
  PROVE  /\ Append(p, q) # <<>>
         /\ \A r \in Places, s \in Quadrants : Append(p, q) = Append(r, s) => p = r /\ q = s
<1>1. Append(p, q) # <<>>
  BY AppendProperties DEF Places
<1>2. \A r \in Places, s \in Quadrants : Append(p, q) = Append(r, s) => p = r /\ q = s
  BY AppendInjective DEF Places
<1> QED BY <1>1, <1>2

LEMMA ListedMore ==
  ASSUME NEW t, FullTree(t), NEW order, Ordering(order),
         NEW a, NEW n, Listed(t, a, n), n # Len(a)
  PROVE  Listed(t, a \o Brings(t, order, a[n + 1]), n + 1)
<1>1. PICK m \in Nat : m = Len(a)
  BY DEF Listed
<1>2. n \in 0..m /\ n # m /\ n + 1 \in 1..m /\ n + 1 # 0 /\ n \in Nat
  BY <1>1 DEF Listed
<1>3. a \in Seq(DOMAIN t) /\ a[1] = <<>> /\ DOMAIN t \subseteq Places
  BY DEF Listed, FullTree
<1>4. \A i \in 1..m : a[i] \in DOMAIN t /\ a[i] \in Places
  BY <1>1, <1>3, ElementOfSeq
<1>5. PICK p : p = a[n + 1] /\ p \in DOMAIN t /\ p \in Places
  BY <1>2, <1>4
<1>6. PICK c : c = Brings(t, order, p)
  OBVIOUS
<1>7. /\ c \in Seq(DOMAIN t)
      /\ \A q \in Quadrants : Append(p, q) \in DOMAIN t => \E i \in 1..Len(c) : c[i] = Append(p, q)
      /\ \A i \in 1..Len(c) : i \in 1..4 /\ c[i] = Append(p, order[i])
  <2>1. Children(c, t, order, p)
    BY <1>5, <1>6, BringsTyped
  <2> QED BY <2>1 DEF Children
<1>8. PICK l \in Nat : l = Len(c)
  BY <1>7
<1>9. /\ \A i \in 1..4 : order[i] \in Quadrants
      /\ \A i, j \in 1..4 : order[i] = order[j] => i = j
  BY DEF Ordering
<1>10. PICK b : b = a \o c
  OBVIOUS
<1>11. /\ b \in Seq(DOMAIN t) /\ Len(b) = m + l
       /\ \A i \in 1..m : b[i] = a[i]
       /\ \A i \in 1..l : b[m + i] = c[i]
  <2>1. /\ b \in Seq(DOMAIN t) /\ Len(b) = Len(a) + Len(c)
        /\ \A i \in 1..Len(a) + Len(c) : b[i] = IF i <= Len(a) THEN a[i] ELSE c[i - Len(a)]
    BY <1>3, <1>7, <1>10, ConcatProperties
  <2>2. \A i \in 1..m + l : b[i] = IF i <= m THEN a[i] ELSE c[i - m]
    BY <1>1, <1>8, <2>1
  <2>3. \A i \in 1..m : i \in 1..m + l /\ i <= m
    OBVIOUS
  <2>4. \A i \in 1..l : m + i \in 1..m + l /\ ~(m + i <= m) /\ m + i - m = i
    OBVIOUS
  <2>5. \A i \in 1..m : b[i] = a[i]
    BY <2>2, <2>3
  <2>6. \A i \in 1..l : b[m + i] = c[i]
    BY <2>2, <2>4
  <2> QED BY <1>1, <1>8, <2>1, <2>5, <2>6
<1>12. /\ \A i, j \in 1..m : a[i] = a[j] => i = j
       /\ \A j \in 2..m : \E i \in 1..(j - 1), q \in Quadrants :
            i <= n /\ a[j] = Append(a[i], q)
       /\ \A i \in 1..n, q \in Quadrants : Append(a[i], q) \in DOMAIN t =>
            \E j \in 1..m : a[j] = Append(a[i], q)
  BY <1>1 DEF Listed
<1>13. \A i \in 1..m, q \in Quadrants : a[i] # Append(p, q)
  <2> SUFFICES ASSUME NEW i \in 1..m, NEW q \in Quadrants, a[i] = Append(p, q)
               PROVE  FALSE
    OBVIOUS
  <2>1. CASE i = 1
    BY <1>3, <1>5, <2>1, PlaceAppended
  <2>2. CASE i # 1
    <3>1. i \in 2..m
      BY <2>2
    <3>2. PICK h \in 1..(i - 1), s \in Quadrants : h <= n /\ a[i] = Append(a[h], s)
      BY <1>12, <3>1
    <3>3. h \in 1..m /\ h # n + 1
      BY <1>2, <3>2
    <3>4. a[h] \in Places
      BY <1>4, <3>3
    <3>5. p = a[h]
      <4>1. PICK r \in Places : r = a[h]
        BY <3>4
      <4>2. Append(p, q) = Append(r, s) /\ p \in Places
        BY <1>5, <3>2, <4>1
      <4>3. p = r
        BY <4>2, PlaceAppended
      <4> QED BY <4>1, <4>3
    <3> QED BY <1>2, <1>5, <1>12, <3>3, <3>5
  <2> QED BY <2>1, <2>2
<1>14. \A i \in 1..(m + l) : i \in 1..m \/ \E k \in 1..l : i = m + k
  <2> SUFFICES ASSUME NEW i \in 1..(m + l), i \notin 1..m
               PROVE  \E k \in 1..l : i = m + k
    OBVIOUS
  <2>1. i - m \in 1..l /\ i = m + (i - m)
    OBVIOUS
  <2> QED BY <2>1
<1>15. ASSUME NEW i \in 1..(m + l), NEW j \in 1..(m + l), b[i] = b[j]
       PROVE  i = j
  <2>1. ASSUME NEW u \in 1..m, NEW k \in 1..l, b[u] = b[m + k]
        PROVE  FALSE
    <3>1. a[u] = Append(p, order[k]) /\ order[k] \in Quadrants
      BY <1>7, <1>8, <1>9, <1>11, <2>1
    <3> QED BY <1>13, <3>1
  <2>2. CASE i \in 1..m /\ j \in 1..m
    BY <1>11, <1>12, <1>15, <2>2
  <2>3. CASE i \in 1..m /\ j \notin 1..m
    BY <1>14, <1>15, <2>1, <2>3
  <2>4. CASE i \notin 1..m /\ j \in 1..m
    BY <1>14, <1>15, <2>1, <2>4
  <2>5. CASE i \notin 1..m /\ j \notin 1..m
    <3>1. PICK k \in 1..l, h \in 1..l : i = m + k /\ j = m + h
      BY <1>14, <2>5
    <3>2. /\ c[k] = c[h] /\ k \in 1..4 /\ h \in 1..4
          /\ c[k] = Append(p, order[k]) /\ c[h] = Append(p, order[h])
      BY <1>7, <1>8, <1>11, <1>15, <3>1
    <3>3. order[k] = order[h]
      <4>1. PICK u \in Quadrants, v \in Quadrants : u = order[k] /\ v = order[h]
        BY <1>9, <3>2
      <4>2. Append(p, u) = Append(p, v)
        BY <3>2, <4>1
      <4> QED BY <1>5, <4>1, <4>2, PlaceAppended
    <3>4. k = h
      BY <1>9, <3>2, <3>3
    <3> QED BY <3>1, <3>4
  <2> QED BY <2>2, <2>3, <2>4, <2>5
<1>16. ASSUME NEW j \in 2..(m + l)
       PROVE  \E i \in 1..(j - 1), q \in Quadrants : i <= n + 1 /\ b[j] = Append(b[i], q)
  <2>1. CASE j \in 1..m
    <3>1. j \in 2..m
      BY <2>1
    <3>2. PICK i \in 1..(j - 1), q \in Quadrants : i <= n /\ a[j] = Append(a[i], q)
      BY <1>12, <3>1
    <3>3. i \in 1..m /\ i <= n + 1
      BY <1>2, <3>1, <3>2
    <3>4. b[j] = Append(b[i], q)
      BY <1>11, <2>1, <3>2, <3>3
    <3> QED BY <3>2, <3>3, <3>4
  <2>2. CASE j \notin 1..m
    <3>1. j \in 1..(m + l)
      OBVIOUS
    <3>2. PICK k \in 1..l : j = m + k
      BY <1>14, <2>2, <3>1
    <3>3. b[j] = Append(p, order[k]) /\ order[k] \in Quadrants
      BY <1>7, <1>8, <1>9, <1>11, <3>2
    <3>4. n + 1 \in 1..(j - 1) /\ b[n + 1] = p
      BY <1>2, <1>5, <1>11, <3>2
    <3>5. n + 1 <= n + 1
      BY <1>2
    <3> QED BY <3>3, <3>4, <3>5
  <2> QED BY <2>1, <2>2
<1>17. ASSUME NEW i \in 1..(n + 1), NEW q \in Quadrants, Append(b[i], q) \in DOMAIN t
       PROVE  \E j \in 1..(m + l) : b[j] = Append(b[i], q)
  <2>1. i \in 1..m /\ b[i] = a[i]
    BY <1>2, <1>11
  <2>2. CASE i = n + 1
    <3>1. b[i] = p
      BY <1>5, <2>1, <2>2
    <3>2. PICK k \in 1..l : c[k] = Append(p, q)
      BY <1>7, <1>8, <1>17, <3>1
    <3>3. m + k \in 1..(m + l) /\ b[m + k] = Append(b[i], q)
      BY <1>11, <3>1, <3>2
    <3> QED BY <3>3
  <2>3. CASE i # n + 1
    <3>1. i \in 1..n
      BY <1>2, <2>3
    <3>2. PICK j \in 1..m : a[j] = Append(a[i], q)
      BY <1>12, <1>17, <2>1, <3>1
    <3>3. j \in 1..(m + l) /\ b[j] = Append(b[i], q)
      BY <1>11, <2>1, <3>2
    <3> QED BY <3>3
  <2> QED BY <2>2, <2>3
<1>18. b[1] = <<>> /\ 1 \in 1..(m + l) /\ n + 1 \in 0..(m + l)
  <2>1. 1 \in 1..m
    BY <1>2
  <2> QED BY <1>2, <1>3, <1>11, <2>1
<1>19. Listed(t, b, n + 1)
  <2>1. PICK k, j : k = m + l /\ j = n + 1
    OBVIOUS
  <2>2. Len(b) = k /\ b \in Seq(DOMAIN t) /\ 1 \in 1..k /\ b[1] = <<>> /\ j \in 0..k
    BY <1>11, <1>18, <2>1
  <2>3. /\ \A i, o \in 1..k : b[i] = b[o] => i = o
        /\ \A o \in 2..k : \E i \in 1..(o - 1), q \in Quadrants :
             i <= j /\ b[o] = Append(b[i], q)
        /\ \A i \in 1..j, q \in Quadrants : Append(b[i], q) \in DOMAIN t =>
             \E o \in 1..k : b[o] = Append(b[i], q)
    BY <1>15, <1>16, <1>17, <2>1
  <2>4. Listed(t, b, j)
    BY <2>2, <2>3 DEF Listed
  <2> QED BY <2>1, <2>4
<1> QED BY <1>5, <1>6, <1>10, <1>19

LEMMA ListedAll ==
  ASSUME NEW t, FullTree(t), NEW a, Listed(t, a, Len(a))
  PROVE  \A p \in DOMAIN t : \E i \in 1..Len(a) : a[i] = p
<1>1. PICK m \in Nat : m = Len(a)
  BY DEF Listed
<1> DEFINE P == {p \in Places : p \in DOMAIN t => \E i \in 1..m : a[i] = p}
<1>2. <<>> \in P
  <2>1. <<>> \in Places
    BY EmptySeq DEF Places
  <2>2. 1 \in 1..m /\ a[1] = <<>>
    BY <1>1 DEF Listed
  <2> QED BY <2>1, <2>2
<1>3. ASSUME NEW p \in Places, NEW q \in Quadrants, p \in P
      PROVE  Append(p, q) \in P
  <2>1. Append(p, q) \in Places
    BY PrefixOfChild
  <2>2. ASSUME Append(p, q) \in DOMAIN t
        PROVE  \E i \in 1..m : a[i] = Append(p, q)
    <3>1. p \in DOMAIN t
      BY <2>2 DEF FullTree
    <3>2. PICK i \in 1..m : a[i] = p
      BY <1>3, <3>1
    <3> QED BY <1>1, <2>2, <3>2 DEF Listed
  <2> QED BY <2>1, <2>2
<1> HIDE DEF P
<1>4. Places \subseteq P
  BY <1>2, <1>3, PathInduction
<1>5. DOMAIN t \subseteq Places
  BY DEF FullTree
<1> QED BY <1>1, <1>4, <1>5 DEF P

LEMMA ListedCount ==
  ASSUME NEW t, FullTree(t), NEW a, NEW n, Listed(t, a, n)
  PROVE  /\ Len(a) \in Nat /\ Len(a) <= node_number(t) /\ node_number(t) \in Nat
         /\ (\A p \in DOMAIN t : \E i \in 1..Len(a) : a[i] = p) <=> Len(a) = node_number(t)
<1>1. PICK m \in Nat : m = Len(a)
  BY DEF Listed
<1>2. PICK D : D = DOMAIN t /\ IsFiniteSet(D)
  BY DEF FullTree
<1>3. a \in [1..m -> D] /\ \A i, j \in 1..m : a[i] = a[j] => i = j
  BY <1>1, <1>2, LenProperties DEF Listed
<1>4. a \in Injection(1..m, D)
  BY <1>3 DEF Injection, IsInjective
<1>5. IsFiniteSet(1..m) /\ Cardinality(1..m) = m
  BY FS_Interval
<1>6. m <= Cardinality(D) /\ (m = Cardinality(D) <=> a \in Surjection(1..m, D))
  BY <1>2, <1>4, <1>5, FS_Injection
<1>7. a \in Surjection(1..m, D) <=> \A p \in D : \E i \in 1..m : a[i] = p
  BY <1>3 DEF Surjection
<1>8. Cardinality(D) \in Nat
  BY <1>2, FS_CardinalityType
<1> QED BY <1>1, <1>2, <1>6, <1>7, <1>8 DEF node_number

(* Taking the first of a queue moves it to the end of what was taken.      *)
Requeues(T, d, q, c, h, r) ==
  /\ Append(d, h) \in Seq(T) /\ Len(Append(d, h)) = Len(d) + 1
  /\ r \o c \in Seq(T)
  /\ Append(d, h) \o (r \o c) = (d \o q) \o c
  /\ (d \o q)[Len(d) + 1] = h

LEMMA Dequeued ==
  ASSUME NEW T, NEW d \in Seq(T), NEW q \in Seq(T), q # <<>>, NEW c \in Seq(T)
  PROVE  Requeues(T, d, q, c, Head(q), Tail(q))
<1>1. PICK h, r : h = Head(q) /\ r = Tail(q)
  OBVIOUS
<1>2. h \in T /\ r \in Seq(T)
  BY <1>1, HeadTailProperties
<1>3. q = <<h>> \o r /\ <<h>> \in Seq(T) /\ Len(q) \in Nat \ {0} /\ q[1] = h
  <2>1. /\ Len(r) = Len(q) - 1 /\ \A i \in 1..Len(r) : r[i] = q[i + 1]
        /\ Len(q) \in Nat \ {0} /\ q[1] = h
    BY <1>1, HeadTailProperties, EmptySeq
  <2>2. PICK e, n : e = <<h>> \o r /\ n = Len(q)
    OBVIOUS
  <2>3. <<h>> \in Seq(T) /\ Len(<<h>>) = 1 /\ <<h>>[1] = h
    BY <1>2
  <2>4. PICK o : o = <<h>>
    OBVIOUS
  <2>5. Len(o) = 1 /\ o[1] = h
    BY <2>4
  <2>6. /\ e \in Seq(T) /\ Len(e) = Len(o) + Len(r)
        /\ \A i \in 1..Len(o) + Len(r) : e[i] = IF i <= Len(o) THEN o[i] ELSE r[i - Len(o)]
    BY <1>2, <2>2, <2>3, <2>4, ConcatProperties
  <2>7. n \in Nat \ {0} /\ Len(o) = 1 /\ Len(r) = n - 1 /\ o[1] = h
    BY <2>1, <2>2, <2>5
  <2>8. Len(e) = n /\ \A i \in 1..n : e[i] = IF i <= 1 THEN o[i] ELSE r[i - 1]
    BY <2>6, <2>7
  <2>9. ASSUME NEW i \in 1..n
        PROVE  e[i] = q[i]
    <3>1. CASE i = 1
      BY <2>1, <2>7, <2>8, <3>1
    <3>2. CASE i # 1
      <4>1. i - 1 \in 1..Len(r) /\ ~(i <= 1) /\ i - 1 + 1 = i
        BY <2>7, <3>2
      <4>2. r[i - 1] = q[i - 1 + 1]
        BY <2>1, <4>1
      <4> QED BY <2>8, <4>1, <4>2
    <3> QED BY <3>1, <3>2
  <2>10. e = q
    BY <2>2, <2>6, <2>8, <2>9, SeqEqual
  <2> QED BY <2>1, <2>2, <2>3, <2>10
<1>4. Append(d, h) \in Seq(T) /\ Len(Append(d, h)) = Len(d) + 1 /\ Append(d, h) = d \o <<h>>
  BY <1>2, AppendProperties, AppendIsConcat
<1>5. r \o c \in Seq(T)
  BY <1>2, ConcatProperties
<1>6. (d \o q) \o c = d \o (q \o c)
  BY ConcatAssociative
<1>7. q \o c = <<h>> \o (r \o c)
  BY <1>2, <1>3, ConcatAssociative
<1>8. (d \o <<h>>) \o (r \o c) = d \o (<<h>> \o (r \o c))
  BY <1>3, <1>5, ConcatAssociative
<1>9. (d \o q)[Len(d) + 1] = h
  <2>1. PICK m, n, e : m = Len(d) /\ n = Len(q) /\ e = d \o q
    OBVIOUS
  <2>2. m \in Nat /\ n \in Nat \ {0}
    BY <1>3, <2>1, LenProperties
  <2>3. \A i \in 1..m + n : e[i] = IF i <= m THEN d[i] ELSE q[i - m]
    BY <2>1, ConcatProperties
  <2>4. PICK k : k = m + 1
    OBVIOUS
  <2>5. k \in 1..m + n /\ ~(k <= m) /\ k - m = 1
    BY <2>2, <2>4
  <2>6. e[k] = q[1]
    BY <2>3, <2>5
  <2> QED BY <1>3, <2>1, <2>4, <2>6
<1>10. Append(d, h) \o (r \o c) = (d \o q) \o c
  BY <1>4, <1>6, <1>7, <1>8
<1>11. Requeues(T, d, q, c, h, r)
  BY <1>4, <1>5, <1>9, <1>10 DEF Requeues
<1> QED BY <1>1, <1>11

(* What one turn of such a loop does to its queue.                         *)
Looping(t) == [queue : Seq(DOMAIN t), dequeued : Seq(DOMAIN t)]
Entered == [queue |-> << << >> >>, dequeued |-> << >>]
Turn(t, order, s) ==
  [queue |-> Enqueued(t, order, Tail(s.queue), Head(s.queue)),
   dequeued |-> Append(s.dequeued, Head(s.queue))]

LEMMA TurnTyped ==
  ASSUME NEW t, FullTree(t), NEW order, Ordering(order),
         NEW s \in Looping(t), s.queue # <<>>
  PROVE  /\ Turn(t, order, s) \in Looping(t)
         /\ Len(Turn(t, order, s).dequeued) = Len(s.dequeued) + 1
         /\ Turn(t, order, s).dequeued \o Turn(t, order, s).queue
              = (s.dequeued \o s.queue)
                  \o Brings(t, order, (s.dequeued \o s.queue)[Len(s.dequeued) + 1])
<1>1. PICK d, q : d = s.dequeued /\ q = s.queue
  OBVIOUS
<1>2. d \in Seq(DOMAIN t) /\ q \in Seq(DOMAIN t) /\ q # <<>>
  BY <1>1 DEF Looping
<1>3. PICK h, r : h = Head(q) /\ r = Tail(q)
  OBVIOUS
<1>4. h \in DOMAIN t /\ r \in Seq(DOMAIN t)
  BY <1>2, <1>3, HeadTailProperties
<1>5. PICK c : c = Brings(t, order, h)
  OBVIOUS
<1>6. c \in Seq(DOMAIN t)
  <2>1. Children(c, t, order, h)
    BY <1>4, <1>5, BringsTyped
  <2> QED BY <2>1 DEF Children
<1>7. Enqueued(t, order, r, h) = r \o c
  BY <1>4, <1>5, EnqueuedIs
<1>8. PICK u : u = Turn(t, order, s)
  OBVIOUS
<1>9. u = [queue |-> r \o c, dequeued |-> Append(d, h)]
  BY <1>1, <1>3, <1>7, <1>8 DEF Turn
<1>10. /\ Append(d, h) \in Seq(DOMAIN t) /\ Len(Append(d, h)) = Len(d) + 1
       /\ r \o c \in Seq(DOMAIN t)
       /\ Append(d, h) \o (r \o c) = (d \o q) \o c
       /\ (d \o q)[Len(d) + 1] = h
  <2>1. PICK T : T = DOMAIN t
    OBVIOUS
  <2>2. d \in Seq(T) /\ q \in Seq(T) /\ c \in Seq(T)
    BY <1>2, <1>6, <2>1
  <2>3. Requeues(T, d, q, c, Head(q), Tail(q))
    BY <1>2, <2>2, Dequeued
  <2>4. Requeues(T, d, q, c, h, r)
    BY <1>3, <2>3
  <2> QED BY <2>1, <2>4 DEF Requeues
<1>11. u \in Looping(t) /\ u.dequeued = Append(d, h) /\ u.queue = r \o c
  BY <1>9, <1>10 DEF Looping
<1> QED BY <1>1, <1>5, <1>8, <1>10, <1>11

LEMMA EnteredListed ==
  ASSUME NEW t, FullTree(t)
  PROVE  /\ Entered \in Looping(t)
         /\ Listed(t, Entered.dequeued \o Entered.queue, 0)
         /\ Len(Entered.dequeued) = 0
<1>1. PICK a, r : r = <<>> /\ a = <<r>>
  OBVIOUS
<1>2. r \in DOMAIN t
  BY <1>1 DEF FullTree
<1>3. a \in Seq(DOMAIN t) /\ Len(a) = 1 /\ a[1] = r
  BY <1>1, <1>2
<1>4. <<>> \in Seq(DOMAIN t) /\ Len(<<>>) = 0 /\ <<>> \o a = a
  BY <1>3, EmptySeq, ConcatEmptySeq
<1>5. Entered.queue = a /\ Entered.dequeued = <<>>
  BY <1>1 DEF Entered
<1>6. Entered \in Looping(t)
  BY <1>1, <1>3, <1>4 DEF Entered, Looping
<1>7. Listed(t, a, 0)
  <2>1. a[1] = <<>>
    BY <1>1, <1>3
  <2>2. 1 \in 1..1 /\ 0 \in 0..1
    OBVIOUS
  <2>3. \A i, j \in 1..1 : a[i] = a[j] => i = j
    OBVIOUS
  <2>4. \A j \in 2..1 : FALSE
    OBVIOUS
  <2>5. \A i \in 1..0 : FALSE
    OBVIOUS
  <2> QED BY <1>3, <2>1, <2>2, <2>3, <2>4, <2>5 DEF Listed
<1> QED BY <1>4, <1>5, <1>6, <1>7

(* Such a loop meets every node once, a parent before its children.        *)
LEMMA WalkLists ==
  ASSUME NEW t, FullTree(t), NEW order, Ordering(order)
  PROVE  /\ node_number(t) \in Nat /\ Len(Walk(t, order)) = node_number(t)
         /\ Listed(t, Walk(t, order), node_number(t))
<1>1. PICK N \in Nat : N = node_number(t)
  BY FS_CardinalityType DEF node_number, FullTree
<1> DEFINE F(g) == [k \in 0..N |-> IF k = 0 THEN Entered ELSE Turn(t, order, g[k - 1])]
           G == CHOOSE g : g = F(g)
           step == [k \in 1..N |-> [s \in Looping(t) |->
                      IF s.queue = <<>> THEN s ELSE Turn(t, order, s)]]
<1>2. Walk(t, order) = G[N].dequeued
  BY <1>1 DEF Walk, Enqueued, Turn, Entered
<1>3. step \in [1..N -> [Looping(t) -> Looping(t)]]
  BY TurnTyped
<1>4. Entered \in Looping(t)
  BY EnteredListed
<1> HIDE DEF step, F, G
<1>5. PICK g \in [0..N -> Looping(t)] : Recurs(g, Entered, step, N)
  BY <1>3, <1>4, StepsExist
<1>6. g[0] = Entered /\ \A k \in 1..N : g[k] = step[k][g[k - 1]]
  BY <1>5 DEF Recurs
<1>7. \A k \in 1..N : k - 1 \in 0..N /\ g[k - 1] \in Looping(t)
  <2>1. \A k \in 1..N : k - 1 \in 0..N
    OBVIOUS
  <2> QED BY <2>1
<1>8. \A k \in 1..N : g[k] = IF g[k - 1].queue = <<>> THEN g[k - 1] ELSE Turn(t, order, g[k - 1])
  <2>1. \A k \in 1..N : \A s \in Looping(t) :
           step[k][s] = IF s.queue = <<>> THEN s ELSE Turn(t, order, s)
    BY DEF step
  <2> QED BY <1>6, <1>7, <2>1
<1> DEFINE L(k) == g[k].dequeued \o g[k].queue
           P == {k \in 0..N : Listed(t, L(k), k) /\ Len(g[k].dequeued) = k}
<1>9. ASSUME NEW k \in 1..N, k - 1 \in P
      PROVE  g[k - 1].queue # <<>>
  <2> SUFFICES ASSUME g[k - 1].queue = <<>> PROVE FALSE
    OBVIOUS
  <2>1. PICK n, d : n = k - 1 /\ d = g[n].dequeued
    OBVIOUS
  <2>2. n \in Nat /\ n # N
    BY <2>1
  <2>3. d \in Seq(DOMAIN t)
    BY <1>7, <2>1 DEF Looping
  <2>4. L(n) = d
    BY <2>1, <2>3, ConcatEmptySeq
  <2>5. Listed(t, d, n) /\ Len(d) = n
    BY <1>9, <2>1, <2>4
  <2>6. \A p \in DOMAIN t : \E i \in 1..Len(d) : d[i] = p
    BY <2>5, ListedAll
  <2>7. Len(d) = node_number(t)
    BY <2>5, <2>6, ListedCount
  <2> QED BY <1>1, <2>2, <2>5, <2>7
<1>10. 0 \in P
  BY <1>6, EnteredListed
<1>11. ASSUME NEW k \in 1..N, k - 1 \in P
       PROVE  k \in P
  <2>1. PICK n, s : n = k - 1 /\ s = g[n]
    OBVIOUS
  <2>2. n \in Nat /\ n + 1 = k /\ s \in Looping(t) /\ s.queue # <<>>
    BY <1>7, <1>9, <1>11, <2>1
  <2>3. g[k] = Turn(t, order, s)
    BY <1>8, <2>1, <2>2
  <2>4. PICK a : a = s.dequeued \o s.queue
    OBVIOUS
  <2>5. Listed(t, a, n) /\ Len(s.dequeued) = n
    BY <1>11, <2>1, <2>4
  <2>6. /\ Len(g[k].dequeued) = n + 1
        /\ L(k) = a \o Brings(t, order, a[n + 1])
    <3>1. PICK u : u = Turn(t, order, s)
      OBVIOUS
    <3>2. /\ Len(u.dequeued) = Len(s.dequeued) + 1
          /\ u.dequeued \o u.queue
               = (s.dequeued \o s.queue) \o Brings(t, order, (s.dequeued \o s.queue)[Len(s.dequeued) + 1])
      BY <2>2, <3>1, TurnTyped
    <3>3. /\ Len(u.dequeued) = n + 1
          /\ u.dequeued \o u.queue = a \o Brings(t, order, a[n + 1])
      BY <2>4, <2>5, <3>2
    <3> QED BY <2>3, <3>1, <3>3
  <2>7. Len(a) # n
    <3>1. s.dequeued \in Seq(DOMAIN t) /\ s.queue \in Seq(DOMAIN t)
      BY <2>2 DEF Looping
    <3>2. Len(s.queue) \in Nat \ {0}
      BY <2>2, <3>1, EmptySeq
    <3>3. Len(a) = Len(s.dequeued) + Len(s.queue)
      BY <2>4, <3>1, ConcatProperties
    <3> QED BY <2>2, <2>5, <3>2, <3>3
  <2>8. Listed(t, a \o Brings(t, order, a[n + 1]), n + 1)
    BY <2>5, <2>7, ListedMore
  <2>9. Listed(t, L(k), k) /\ Len(g[k].dequeued) = k
    BY <2>2, <2>6, <2>8
  <2> QED BY <2>9
<1>12. 0..N \subseteq P
  <2> HIDE DEF P
  <2> QED BY <1>10, <1>11, CountingUp
<1>13. \A k \in 1..N : g[k] = Turn(t, order, g[k - 1])
  BY <1>7, <1>8, <1>9, <1>12
<1>14. g = F(g)
  <2>1. \A k \in 0..N : g[k] = F(g)[k]
    BY <1>6, <1>13 DEF F
  <2> QED BY <2>1 DEF F
<1>15. G = F(G)
  BY <1>14 DEF G
<1>16. \A k \in 0..N : G[k] = IF k = 0 THEN Entered ELSE Turn(t, order, G[k - 1])
  BY <1>15 DEF F
<1>17. 0..N \subseteq {k \in 0..N : G[k] = g[k]}
  <2>1. 0 \in {k \in 0..N : G[k] = g[k]}
    <3>1. 0 \in 0..N
      OBVIOUS
    <3>2. G[0] = Entered
      BY <1>16, <3>1
    <3> QED BY <1>6, <3>1, <3>2
  <2>2. ASSUME NEW k \in 1..N, k - 1 \in {j \in 0..N : G[j] = g[j]}
        PROVE  k \in {j \in 0..N : G[j] = g[j]}
    BY <1>13, <1>16, <2>2
  <2> QED BY <2>1, <2>2, CountingUp
<1>18. N \in 0..N /\ G[N] = g[N]
  BY <1>17
<1>19. PICK d, q : d = g[N].dequeued /\ q = g[N].queue
  OBVIOUS
<1>20. d \in Seq(DOMAIN t) /\ q \in Seq(DOMAIN t)
  BY <1>18, <1>19 DEF Looping
<1>21. Listed(t, d \o q, N) /\ Len(d) = N
  BY <1>12, <1>18, <1>19
<1>22. q = <<>>
  <2>1. Len(d \o q) <= N
    BY <1>1, <1>21, ListedCount
  <2>2. Len(d \o q) = Len(d) + Len(q)
    BY <1>20, ConcatProperties
  <2>3. Len(q) \in Nat
    BY <1>20, LenProperties
  <2>4. Len(q) = 0
    BY <1>21, <2>1, <2>2, <2>3
  <2> QED BY <1>20, <2>4, EmptySeq
<1>23. d \o q = d
  BY <1>20, <1>22, ConcatEmptySeq
<1>24. Walk(t, order) = d
  BY <1>2, <1>18, <1>19
<1> QED BY <1>1, <1>21, <1>23, <1>24
-----------------------------------------------------------------------------
(* The rows of a compressed file, and the nodes they stand for.            *)
Numbers(w, t, N) ==
  /\ N \in Nat \ {0} /\ w \in [0..N - 1 -> DOMAIN t]
  /\ w[0] = <<>>
  /\ \A i, j \in 0..N - 1 : w[i] = w[j] => i = j
  /\ \A p \in DOMAIN t : \E i \in 0..N - 1 : w[i] = p
  /\ \A j \in 1..N - 1 : \E i \in 0..j - 1, q \in Quadrants : w[j] = Append(w[i], q)

RowsOf(vector, w, t, N) ==
  /\ vector \in [0..N - 1 -> Rows]
  /\ \A i \in 0..N - 1 : vector[i].node = t[w[i]]
  /\ \A i \in 0..N - 1 : IsLeaf(t, w[i]) => \A q \in Quadrants : vector[i].child[q] = -1
  /\ \A i \in 0..N - 1 : ~IsLeaf(t, w[i]) => \A q \in Quadrants :
       vector[i].child[q] \in 0..N - 1 /\ w[vector[i].child[q]] = Append(w[i], q)

LEMMA Numbered ==
  ASSUME NEW t, FullTree(t)
  PROVE  LET N == node_number(t)
             W == Walk(t, IndexOrder)
         IN  /\ N \in Nat \ {0} /\ Len(W) = N /\ W \in Seq(DOMAIN t) /\ DOMAIN W = 1..N
             /\ Numbers([i \in 0..N - 1 |-> W[i + 1]], t, N)
             /\ \A i \in 0..N - 1 : set_tree_index(t)[W[i + 1]] = i
<1>1. PICK N, W : N = node_number(t) /\ W = Walk(t, IndexOrder)
  OBVIOUS
<1>2. Ordering(IndexOrder)
  BY OrderingIs
<1>3. N \in Nat /\ Len(W) = N /\ Listed(t, W, N)
  BY <1>1, <1>2, WalkLists
<1>4. /\ W \in Seq(DOMAIN t) /\ 1 \in 1..N /\ W[1] = <<>>
      /\ \A i, j \in 1..N : W[i] = W[j] => i = j
      /\ \A j \in 2..N : \E i \in 1..(j - 1), q \in Quadrants : i <= N /\ W[j] = Append(W[i], q)
  BY <1>3 DEF Listed
<1>5. N # 0 /\ DOMAIN W = 1..N /\ W \in [1..N -> DOMAIN t]
  BY <1>3, <1>4, LenProperties
<1>6. \A p \in DOMAIN t : \E i \in 1..N : W[i] = p
  <2>1. Listed(t, W, Len(W))
    BY <1>3
  <2> QED BY <1>3, <2>1, ListedAll
<1>7. \A i \in 0..N - 1 : i + 1 \in 1..N
  BY <1>3
<1> DEFINE w == [i \in 0..N - 1 |-> W[i + 1]]
<1>8. w \in [0..N - 1 -> DOMAIN t] /\ \A i \in 0..N - 1 : w[i] = W[i + 1]
  BY <1>5, <1>7
<1> HIDE DEF w
<1>9. w[0] = <<>>
  <2>1. 0 \in 0..N - 1 /\ 0 + 1 = 1
    BY <1>3, <1>5
  <2> QED BY <1>4, <1>8, <2>1
<1>10. ASSUME NEW i \in 0..N - 1, NEW j \in 0..N - 1, w[i] = w[j]
       PROVE  i = j
  <2>1. i + 1 \in 1..N /\ j + 1 \in 1..N /\ W[i + 1] = W[j + 1]
    BY <1>7, <1>8, <1>10
  <2>2. i + 1 = j + 1
    BY <1>4, <2>1
  <2> QED BY <2>2
<1>11. ASSUME NEW p \in DOMAIN t
       PROVE  \E i \in 0..N - 1 : w[i] = p
  <2>1. PICK i \in 1..N : W[i] = p
    BY <1>6
  <2>2. i - 1 \in 0..N - 1 /\ (i - 1) + 1 = i
    BY <1>3
  <2> QED BY <1>8, <2>1, <2>2
<1>12. ASSUME NEW j \in 1..N - 1
       PROVE  \E i \in 0..j - 1, q \in Quadrants : w[j] = Append(w[i], q)
  <2>1. j + 1 \in 2..N /\ j \in 0..N - 1
    BY <1>3
  <2>2. PICK i \in 1..(j + 1 - 1), q \in Quadrants : W[j + 1] = Append(W[i], q)
    BY <1>4, <2>1
  <2>3. i - 1 \in 0..j - 1 /\ i - 1 \in 0..N - 1 /\ (i - 1) + 1 = i
    BY <1>3
  <2>4. w[j] = Append(w[i - 1], q)
    BY <1>8, <2>1, <2>2, <2>3
  <2> QED BY <2>3, <2>4
<1>13. Numbers(w, t, N)
  BY <1>3, <1>5, <1>8, <1>9, <1>10, <1>11, <1>12 DEF Numbers
<1>14. ASSUME NEW i \in 0..N - 1
       PROVE  set_tree_index(t)[W[i + 1]] = i
  <2>1. PICK k, p : k = i + 1 /\ p = W[k]
    OBVIOUS
  <2>2. k \in 1..N /\ p \in DOMAIN t /\ k - 1 = i
    BY <1>5, <1>7, <2>1
  <2>3. set_tree_index(t)[p] = (CHOOSE h \in DOMAIN W : W[h] = p) - 1
    BY <1>1, <2>2 DEF set_tree_index
  <2>4. PICK h : h = (CHOOSE g \in DOMAIN W : W[g] = p)
    OBVIOUS
  <2>5. h \in DOMAIN W /\ W[h] = p
    BY <1>5, <2>1, <2>2, <2>4
  <2>6. h = k
    BY <1>4, <1>5, <2>1, <2>2, <2>5
  <2> QED BY <2>1, <2>2, <2>3, <2>4, <2>6
<1> QED BY <1>1, <1>3, <1>4, <1>5, <1>13, <1>14 DEF w

LEMMA Packs ==
  ASSUME NEW t, FullTree(t)
  PROVE  /\ Pack(t).nr_noduri = node_number(t) /\ Pack(t).nr_frunze = leaf_number(t)
         /\ \E w : Numbers(w, t, node_number(t)) /\ RowsOf(Pack(t).vector, w, t, node_number(t))
<1>1. PICK N, W : N = node_number(t) /\ W = Walk(t, IndexOrder)
  OBVIOUS
<1>2. W = Walk(t, VectorOrder)
  BY <1>1, OrderingIs
<1>3. PICK w : w = [i \in 0..N - 1 |-> W[i + 1]]
  OBVIOUS
<1>4. PICK index : index = set_tree_index(t)
  OBVIOUS
<1>5. /\ N \in Nat \ {0} /\ Len(W) = N /\ W \in Seq(DOMAIN t) /\ DOMAIN W = 1..N
      /\ Numbers(w, t, N)
      /\ \A i \in 0..N - 1 : index[W[i + 1]] = i
  BY <1>1, <1>3, <1>4, Numbered
<1>6. /\ w \in [0..N - 1 -> DOMAIN t]
      /\ \A p \in DOMAIN t : \E i \in 0..N - 1 : w[i] = p
  BY <1>5 DEF Numbers
<1>7. \A i \in 0..N - 1 : w[i] = W[i + 1] /\ index[w[i]] = i
  BY <1>3, <1>5
<1>8. \A p \in DOMAIN t : index[p] \in 0..N - 1 /\ w[index[p]] = p
  BY <1>6, <1>7
<1>9. PICK v : v = create_vector(t, index)
  OBVIOUS
<1>10. v = [i \in 0..N - 1 |->
             [node |-> t[W[i + 1]],
              child |-> [q \in Quadrants |-> IF IsLeaf(t, W[i + 1]) THEN -1
                                             ELSE index[Append(W[i + 1], q)]]]]
  BY <1>2, <1>5, <1>9 DEF create_vector
<1>11. ASSUME NEW i \in 0..N - 1
       PROVE  /\ v[i].node = t[w[i]]
              /\ v[i] = [node |-> v[i].node, child |-> v[i].child]
              /\ v[i].child = [q \in Quadrants |-> IF IsLeaf(t, w[i]) THEN -1 ELSE index[Append(w[i], q)]]
  <2>1. v[i] = [node |-> t[w[i]],
                child |-> [q \in Quadrants |-> IF IsLeaf(t, w[i]) THEN -1 ELSE index[Append(w[i], q)]]]
    BY <1>7, <1>10
  <2> QED BY <2>1
<1>12. ASSUME NEW i \in 0..N - 1, NEW q \in Quadrants
       PROVE  /\ v[i].child[q] = IF IsLeaf(t, w[i]) THEN -1 ELSE index[Append(w[i], q)]
              /\ ~IsLeaf(t, w[i]) => /\ v[i].child[q] \in 0..N - 1
                                     /\ w[v[i].child[q]] = Append(w[i], q)
              /\ v[i].child[q] \in Nat \cup {-1}
  <2>1. v[i].child[q] = IF IsLeaf(t, w[i]) THEN -1 ELSE index[Append(w[i], q)]
    <3>1. PICK c : c = v[i].child
      OBVIOUS
    <3>2. c = [o \in Quadrants |-> IF IsLeaf(t, w[i]) THEN -1 ELSE index[Append(w[i], o)]]
      BY <1>11, <3>1
    <3> QED BY <3>1, <3>2
  <2>2. ASSUME ~IsLeaf(t, w[i])
        PROVE  v[i].child[q] \in 0..N - 1 /\ w[v[i].child[q]] = Append(w[i], q)
    <3>1. PICK p : p = Append(w[i], q)
      OBVIOUS
    <3>2. w[i] \in DOMAIN t
      BY <1>6
    <3>3. p \in DOMAIN t
      BY <2>2, <3>1, <3>2 DEF FullTree
    <3>4. v[i].child[q] = index[p]
      BY <2>1, <2>2, <3>1
    <3> QED BY <1>8, <3>1, <3>3, <3>4
  <2>3. 0..N - 1 \subseteq Nat
    BY <1>5
  <2> QED BY <2>1, <2>2, <2>3
<1>13. v \in [0..N - 1 -> Rows]
  <2>1. ASSUME NEW i \in 0..N - 1
        PROVE  v[i] \in Rows
    <3>1. w[i] \in DOMAIN t
      BY <1>6
    <3>2. v[i].node \in Nodes
      BY <1>11, <3>1 DEF FullTree
    <3>3. PICK c : c = v[i].child
      OBVIOUS
    <3>4. c = [q \in Quadrants |-> IF IsLeaf(t, w[i]) THEN -1 ELSE index[Append(w[i], q)]]
      BY <1>11, <3>3
    <3>5. \A q \in Quadrants : c[q] \in Nat \cup {-1}
      BY <1>12, <3>3
    <3>6. c \in [Quadrants -> Nat \cup {-1}]
      BY <3>4, <3>5
    <3>7. v[i] = [node |-> v[i].node, child |-> c]
      BY <1>11, <3>3
    <3> QED BY <3>2, <3>6, <3>7 DEF Rows, Nodes
  <2>2. DOMAIN v = 0..N - 1 /\ v = [i \in 0..N - 1 |-> v[i]]
    BY <1>10
  <2> QED BY <2>1, <2>2
<1>14. RowsOf(v, w, t, N)
  BY <1>11, <1>12, <1>13 DEF RowsOf
<1>15. Pack(t) = [nr_frunze |-> leaf_number(t), nr_noduri |-> N, vector |-> v]
  BY <1>1, <1>4, <1>9 DEF Pack
<1>16. Pack(t).nr_noduri = N /\ Pack(t).nr_frunze = leaf_number(t) /\ Pack(t).vector = v
  BY <1>15
<1> QED BY <1>1, <1>5, <1>14, <1>16

(* Every node but the root is a child of exactly one inner node.           *)
LEMMA LeavesCounted ==
  ASSUME NEW t, FullTree(t)
  PROVE  LET I == {p \in DOMAIN t : ~IsLeaf(t, p)}
         IN  /\ IsFiniteSet(I) /\ Cardinality(I) \in Nat
             /\ node_number(t) \in Nat /\ leaf_number(t) \in Nat
             /\ leaf_number(t) = node_number(t) - Cardinality(I)
             /\ 4 * leaf_number(t) = 3 * node_number(t) + 1
<1>1. PICK D : D = DOMAIN t /\ IsFiniteSet(D)
  BY DEF FullTree
<1> DEFINE I == {p \in D : ~IsLeaf(t, p)}
           L == {p \in D : IsLeaf(t, p)}
           R == D \ {<<>>}
           child == [x \in I \X Quadrants |-> Append(x[1], x[2])]
<1>2. PICK N, m, k : N = Cardinality(D) /\ m = Cardinality(I) /\ k = Cardinality(L)
  OBVIOUS
<1>3. IsFiniteSet(I) /\ IsFiniteSet(L) /\ N \in Nat /\ m \in Nat /\ k \in Nat
  <2>1. I \in SUBSET D /\ L \in SUBSET D
    OBVIOUS
  <2>2. IsFiniteSet(I) /\ IsFiniteSet(L)
    BY <1>1, <2>1, FS_Subset
  <2> QED BY <1>1, <1>2, <2>2, FS_CardinalityType
<1>4. N = m + k
  <2>1. I \cup L = D /\ I \cap L = {}
    OBVIOUS
  <2>2. Cardinality(I \cup L) = Cardinality(I) + Cardinality(L) - Cardinality(I \cap L)
    BY <1>3, FS_Union
  <2>3. Cardinality(I \cap L) = 0
    BY <2>1, FS_EmptySet
  <2> HIDE DEF I, L
  <2>4. Cardinality(I \cup L) = N
    BY <1>2, <2>1
  <2>5. N = m + k - 0
    BY <1>2, <2>2, <2>3, <2>4
  <2> QED BY <1>3, <2>5
<1>5. Cardinality(R) = N - 1 /\ IsFiniteSet(R)
  <2>1. <<>> \in D
    BY <1>1 DEF FullTree
  <2> QED BY <1>1, <1>2, <2>1, FS_RemoveElement
<1>6. IsFiniteSet(I \X Quadrants) /\ Cardinality(I \X Quadrants) = 4 * m
  <2>1. IsFiniteSet(I \X Quadrants) /\ Cardinality(I \X Quadrants) = Cardinality(I) * Cardinality(Quadrants)
    BY <1>3, QuadrantsCounted, FS_Product
  <2> HIDE DEF I
  <2>2. Cardinality(I) * Cardinality(Quadrants) = m * 4
    BY <1>2, QuadrantsCounted
  <2>3. m * 4 = 4 * m
    BY <1>3
  <2> QED BY <2>1, <2>2, <2>3
<1>7. child \in [I \X Quadrants -> R]
  <2> SUFFICES ASSUME NEW p \in I, NEW q \in Quadrants
               PROVE  Append(p, q) \in R
    OBVIOUS
  <2>1. p \in Places
    BY <1>1 DEF FullTree
  <2>2. Append(p, q) \in D
    BY <1>1 DEF FullTree
  <2>3. Append(p, q) # <<>>
    BY <2>1, PlaceAppended
  <2> QED BY <2>2, <2>3
<1>8. \A x, y \in I \X Quadrants : child[x] = child[y] => x = y
  <2> SUFFICES ASSUME NEW p \in I, NEW q \in Quadrants, NEW r \in I, NEW s \in Quadrants,
                      Append(p, q) = Append(r, s)
               PROVE  p = r /\ q = s
    OBVIOUS
  <2>1. p \in Places /\ r \in Places
    BY <1>1 DEF FullTree
  <2> QED BY <2>1, PlaceAppended
<1>9. \A o \in R : \E x \in I \X Quadrants : child[x] = o
  <2> SUFFICES ASSUME NEW o \in R
               PROVE  \E x \in I \X Quadrants : child[x] = o
    OBVIOUS
  <2>1. o \in Places /\ o # <<>>
    BY <1>1 DEF FullTree
  <2>2. PICK p \in Places, q \in Quadrants : o = Append(p, q)
    BY <2>1, SequenceEmptyOrAppend DEF Places
  <2>3. p \in D
    BY <1>1, <2>2 DEF FullTree
  <2>4. ~IsLeaf(t, p)
    BY <1>1, <2>2, <2>3 DEF FullTree
  <2>5. p \in I
    BY <2>3, <2>4
  <2>6. <<p, q>> \in I \X Quadrants /\ child[<<p, q>>] = Append(p, q)
    BY <2>5
  <2> QED BY <2>2, <2>6
<1> HIDE DEF child, R
<1>10. Cardinality(R) = 4 * m
  <2>1. child \in Surjection(I \X Quadrants, R) /\ child \in Injection(I \X Quadrants, R)
    BY <1>7, <1>8, <1>9 DEF Surjection, Injection, IsInjective
  <2>2. Cardinality(R) = Cardinality(I \X Quadrants)
    BY <1>6, <2>1, FS_Surjection
  <2> QED BY <1>6, <2>2
<1>11. N - 1 = 4 * m
  BY <1>5, <1>10
<1>12. node_number(t) = N /\ leaf_number(t) = k
  BY <1>1, <1>2 DEF node_number, leaf_number
<1>13. k = N - m /\ 4 * k = 3 * N + 1
  BY <1>3, <1>4, <1>11
<1>14. I = {p \in DOMAIN t : ~IsLeaf(t, p)}
  BY <1>1
<1> HIDE DEF I, L
<1> QED BY <1>2, <1>3, <1>12, <1>13, <1>14

(* The body of PackedIsATree.                                              *)
ReadsBack(packedTree) ==
  LET vector == packedTree.vector
      Inner == {i \in DOMAIN vector : \E q \in Quadrants : vector[i].child[q] # -1}
  IN  /\ 4 * packedTree.nr_frunze = 3 * packedTree.nr_noduri + 1
      /\ packedTree.nr_frunze = packedTree.nr_noduri - Cardinality(Inner)
      /\ \A i \in Inner : IsInjective(vector[i].child)
      /\ \A j \in DOMAIN vector \ {0} :
            \E i \in 0 .. j - 1 :
                {p \in Inner : j \in Range(vector[p].child)} = {i}

LEMMA PackReadsBack ==
  ASSUME NEW t, FullTree(t)
  PROVE  ReadsBack(Pack(t))
<1>1. PICK N, packedTree, vector : /\ N = node_number(t) /\ packedTree = Pack(t)
                                   /\ vector = packedTree.vector
  OBVIOUS
<1>2. PICK w : Numbers(w, t, N) /\ RowsOf(vector, w, t, N)
  BY <1>1, Packs
<1>3. packedTree.nr_noduri = N /\ packedTree.nr_frunze = leaf_number(t)
  BY <1>1, Packs
<1>4. /\ N \in Nat \ {0} /\ w \in [0..N - 1 -> DOMAIN t]
      /\ \A i, j \in 0..N - 1 : w[i] = w[j] => i = j
      /\ \A p \in DOMAIN t : \E i \in 0..N - 1 : w[i] = p
      /\ \A j \in 1..N - 1 : \E i \in 0..j - 1, q \in Quadrants : w[j] = Append(w[i], q)
  BY <1>2 DEF Numbers
<1>5. vector \in [0..N - 1 -> Rows]
  BY <1>2 DEF RowsOf
<1>6. \A i \in 0..N - 1 : w[i] \in DOMAIN t /\ w[i] \in Places
  BY <1>4 DEF FullTree
<1> DEFINE Inner == {i \in DOMAIN vector : \E q \in Quadrants : vector[i].child[q] # -1}
           Sources(j) == {p \in Inner : j \in Range(vector[p].child)}
<1>7. \A i : i \in Inner <=> i \in 0..N - 1 /\ ~IsLeaf(t, w[i])
  <2>1. ASSUME NEW i \in 0..N - 1, IsLeaf(t, w[i])
        PROVE  i \notin Inner
    BY <1>2, <2>1 DEF RowsOf
  <2>2. ASSUME NEW i \in 0..N - 1, ~IsLeaf(t, w[i])
        PROVE  i \in Inner
    <3>1. "top_left" \in Quadrants
      BY DEF Quadrants
    <3>2. PICK o \in Quadrants : TRUE
      BY <3>1
    <3>3. vector[i].child[o] \in 0..N - 1
      BY <1>2, <2>2 DEF RowsOf
    <3>4. vector[i].child[o] # -1
      BY <3>3
    <3>5. i \in DOMAIN vector
      BY <1>5
    <3> QED BY <3>4, <3>5
  <2>3. \A i \in Inner : i \in 0..N - 1
    BY <1>5
  <2> QED BY <2>1, <2>2, <2>3
<1> HIDE DEF Inner
<1>8. \A i \in Inner : i \in 0..N - 1 /\ \A q \in Quadrants :
        vector[i].child[q] \in 0..N - 1 /\ w[vector[i].child[q]] = Append(w[i], q)
  BY <1>2, <1>7 DEF RowsOf
<1>9. \A i \in Inner : DOMAIN vector[i].child = Quadrants
  BY <1>5, <1>8 DEF Rows
<1>10. ASSUME NEW i \in Inner
       PROVE  IsInjective(vector[i].child)
  <2>1. PICK c : c = vector[i].child
    OBVIOUS
  <2>2. ASSUME NEW q \in Quadrants, NEW s \in Quadrants, c[q] = c[s]
        PROVE  q = s
    <3>1. Append(w[i], q) = Append(w[i], s)
      BY <1>8, <2>1, <2>2
    <3>2. w[i] \in Places
      BY <1>6, <1>8
    <3> QED BY <3>1, <3>2, PlaceAppended
  <2>3. DOMAIN c = Quadrants
    BY <1>9, <2>1
  <2>4. IsInjective(c)
    BY <2>2, <2>3 DEF IsInjective
  <2> QED BY <2>1, <2>4
<1>11. ASSUME NEW j \in DOMAIN vector \ {0}
       PROVE  \E i \in 0..j - 1 : Sources(j) = {i}
  <2>1. j \in 1..N - 1 /\ j \in 0..N - 1
    BY <1>4, <1>5
  <2>2. PICK i \in 0..j - 1, q \in Quadrants : w[j] = Append(w[i], q)
    BY <1>4, <2>1
  <2>3. i \in 0..N - 1
    BY <1>4, <2>1
  <2>4. ~IsLeaf(t, w[i])
    <3>1. w[i] \in DOMAIN t /\ w[j] \in DOMAIN t
      BY <1>6, <2>1, <2>3
    <3> QED BY <2>2, <3>1 DEF FullTree
  <2>5. i \in Inner
    BY <1>7, <2>3, <2>4
  <2>6. vector[i].child[q] = j
    <3>1. vector[i].child[q] \in 0..N - 1 /\ w[vector[i].child[q]] = w[j]
      BY <1>8, <2>2, <2>5
    <3> QED BY <1>4, <2>1, <3>1
  <2>7. i \in Sources(j)
    <3>1. q \in DOMAIN vector[i].child
      BY <1>9, <2>5
    <3>2. j \in Range(vector[i].child)
      BY <2>6, <3>1 DEF Range
    <3> QED BY <2>5, <3>2
  <2>8. ASSUME NEW p \in Sources(j)
        PROVE  p = i
    <3>1. p \in Inner /\ j \in Range(vector[p].child)
      OBVIOUS
    <3>2. PICK s \in DOMAIN vector[p].child : vector[p].child[s] = j
      BY <3>1 DEF Range
    <3>3. s \in Quadrants
      BY <1>9, <3>1, <3>2
    <3>4. w[j] = Append(w[p], s)
      BY <1>8, <3>1, <3>2, <3>3
    <3>5. p \in 0..N - 1 /\ w[p] \in Places /\ w[i] \in Places
      BY <1>6, <1>8, <2>3, <3>1
    <3>6. w[p] = w[i]
      BY <2>2, <3>3, <3>4, <3>5, PlaceAppended
    <3> QED BY <1>4, <2>3, <3>5, <3>6
  <2>9. Sources(j) = {i}
    BY <2>7, <2>8
  <2> QED BY <2>9
<1>12. Cardinality(Inner) = Cardinality({p \in DOMAIN t : ~IsLeaf(t, p)})
  <2>1. PICK I : I = {p \in DOMAIN t : ~IsLeaf(t, p)}
    OBVIOUS
  <2>2. PICK f : f = [i \in Inner |-> w[i]]
    OBVIOUS
  <2>3. f \in [Inner -> I]
    BY <1>6, <1>7, <2>1, <2>2
  <2>4. \A i, j \in Inner : f[i] = f[j] => i = j
    BY <1>4, <1>7, <2>2
  <2>5. \A p \in I : \E i \in Inner : f[i] = p
    <3> SUFFICES ASSUME NEW p \in I
                 PROVE  \E i \in Inner : f[i] = p
      OBVIOUS
    <3>1. p \in DOMAIN t /\ ~IsLeaf(t, p)
      BY <2>1
    <3>2. PICK i \in 0..N - 1 : w[i] = p
      BY <1>4, <3>1
    <3>3. i \in Inner
      BY <1>7, <3>1, <3>2
    <3> QED BY <2>2, <3>2, <3>3
  <2>6. f \in Surjection(Inner, I) /\ f \in Injection(Inner, I)
    BY <2>3, <2>4, <2>5 DEF Surjection, Injection, IsInjective
  <2>7. IsFiniteSet(Inner)
    <3>1. Inner \in SUBSET (0..N - 1)
      BY <1>7
    <3>2. IsFiniteSet(0..N - 1)
      BY <1>4, FS_Interval
    <3> QED BY <3>1, <3>2, FS_Subset
  <2>8. Cardinality(I) = Cardinality(Inner)
    BY <2>6, <2>7, FS_Surjection
  <2> QED BY <2>1, <2>8
<1>13. /\ 4 * leaf_number(t) = 3 * N + 1
       /\ leaf_number(t) = N - Cardinality(Inner)
  BY <1>1, <1>12, LeavesCounted
<1>14. ReadsBack(packedTree)
  BY <1>1, <1>3, <1>10, <1>11, <1>13 DEF ReadsBack, Inner
<1> QED BY <1>1, <1>14

(* Following the rows along a path ends in the row of its node.            *)
LEMMA RowIs ==
  ASSUME NEW t, FullTree(t), NEW N, NEW w, NEW vector,
         Numbers(w, t, N), RowsOf(vector, w, t, N), NEW p \in Places
  PROVE  /\ p \in DOMAIN t => Row(vector, p) \in 0..N - 1 /\ w[Row(vector, p)] = p
         /\ p \notin DOMAIN t => Row(vector, p) = -1
<1>1. PICK n \in Nat : n = Len(p)
  BY PrefixFull
<1>2. /\ N \in Nat \ {0} /\ w \in [0..N - 1 -> DOMAIN t] /\ w[0] = <<>>
  BY DEF Numbers
<1>3. \A i \in 0..N - 1 : IsLeaf(t, w[i]) => \A q \in Quadrants : vector[i].child[q] = -1
  BY DEF RowsOf
<1>4. \A i \in 0..N - 1 : ~IsLeaf(t, w[i]) => \A q \in Quadrants :
        vector[i].child[q] \in 0..N - 1 /\ w[vector[i].child[q]] = Append(w[i], q)
  BY DEF RowsOf
<1> DEFINE V == 0..N - 1 \cup {-1}
           F(g) == [k \in 0..n |-> IF k = 0 THEN 0
                                   ELSE IF g[k - 1] = -1 THEN -1 ELSE vector[g[k - 1]].child[p[k]]]
           G == CHOOSE g : g = F(g)
           step == [k \in 1..n |-> [v \in V |-> IF v = -1 THEN -1 ELSE vector[v].child[p[k]]]]
<1>5. Row(vector, p) = G[n]
  BY <1>1 DEF Row
<1>6. \A k \in 1..n : p[k] \in Quadrants
  BY <1>1, PrefixNext
<1>7. \A i \in 0..N - 1, q \in Quadrants : vector[i].child[q] \in V
  BY <1>3, <1>4
<1>8. step \in [1..n -> [V -> V]] /\ 0 \in V
  <2>1. \A k \in 1..n : \A v \in V : (IF v = -1 THEN -1 ELSE vector[v].child[p[k]]) \in V
    BY <1>6, <1>7
  <2>2. 0 \in V
    BY <1>2
  <2> HIDE DEF V
  <2> QED BY <2>1, <2>2
<1>9. \A k \in 1..n : \A v \in V : step[k][v] = IF v = -1 THEN -1 ELSE vector[v].child[p[k]]
  OBVIOUS
<1> HIDE DEF step, F, G, V
<1>10. PICK g \in [0..n -> V] : Recurs(g, 0, step, n)
  BY <1>8, StepsExist
<1>11. g[0] = 0 /\ \A k \in 1..n : g[k] = step[k][g[k - 1]]
  BY <1>10 DEF Recurs
<1>12. \A k \in 1..n : k - 1 \in 0..n /\ g[k - 1] \in V
  <2>1. \A k \in 1..n : k - 1 \in 0..n
    OBVIOUS
  <2> QED BY <2>1
<1>13. \A k \in 1..n : g[k] = IF g[k - 1] = -1 THEN -1 ELSE vector[g[k - 1]].child[p[k]]
  BY <1>9, <1>11, <1>12
<1>14. g = F(g)
  <2>1. \A k \in 0..n : g[k] = F(g)[k]
    BY <1>11, <1>13 DEF F
  <2> QED BY <2>1 DEF F
<1>15. G = F(G)
  BY <1>14 DEF G
<1>16. \A k \in 0..n : G[k] = IF k = 0 THEN 0
                              ELSE IF G[k - 1] = -1 THEN -1 ELSE vector[G[k - 1]].child[p[k]]
  BY <1>15 DEF F
<1>17. G[0] = 0
  BY <1>16
<1>18. \A k \in 1..n : G[k] = IF G[k - 1] = -1 THEN -1 ELSE vector[G[k - 1]].child[p[k]]
  BY <1>16
<1> DEFINE Here(k) == \/ /\ SubSeq(p, 1, k) \in DOMAIN t
                         /\ G[k] \in 0..N - 1 /\ w[G[k]] = SubSeq(p, 1, k)
                      \/ SubSeq(p, 1, k) \notin DOMAIN t /\ G[k] = -1
           P == {k \in 0..n : Here(k)}
<1>19. 0 \in P
  <2>1. 0 \in 0..N - 1 /\ SubSeq(p, 1, 0) = <<>> /\ <<>> \in DOMAIN t
    BY <1>2, PrefixFull DEF FullTree
  <2>2. PICK r, u : r = SubSeq(p, 1, 0) /\ u = G[0]
    OBVIOUS
  <2>3. r \in DOMAIN t /\ u \in 0..N - 1 /\ w[u] = r
    BY <1>2, <1>17, <2>1, <2>2
  <2>4. Here(0)
    BY <2>2, <2>3
  <2>5. 0 \in 0..n
    OBVIOUS
  <2> HIDE DEF Here
  <2> QED BY <2>4, <2>5
<1>20. ASSUME NEW k \in 1..n, k - 1 \in P
       PROVE  k \in P
  <2>1. PICK r, s, q : r = SubSeq(p, 1, k) /\ s = SubSeq(p, 1, k - 1) /\ q = p[k]
    OBVIOUS
  <2>2. r = Append(s, q) /\ q \in Quadrants /\ s \in Places
    <3>1. k - 1 \in 0..Len(p) /\ k \in 1..Len(p)
      BY <1>1
    <3> QED BY <2>1, <3>1, PrefixNext, PrefixOf
  <2>3. PICK u, v : u = G[k - 1] /\ v = G[k]
    OBVIOUS
  <2>4. v = IF u = -1 THEN -1 ELSE vector[u].child[q]
    BY <1>18, <2>1, <2>3
  <2>5. \/ s \in DOMAIN t /\ u \in 0..N - 1 /\ w[u] = s
        \/ s \notin DOMAIN t /\ u = -1
    BY <1>20, <2>1, <2>3
  <2>6. \/ r \in DOMAIN t /\ v \in 0..N - 1 /\ w[v] = r
        \/ r \notin DOMAIN t /\ v = -1
    <3>1. CASE s \notin DOMAIN t
      BY <2>2, <2>4, <2>5, <3>1 DEF FullTree
    <3>2. CASE s \in DOMAIN t /\ IsLeaf(t, s)
      <4>1. r \notin DOMAIN t
        BY <2>2, <3>2 DEF FullTree
      <4>2. u # -1
        BY <2>5, <3>2
      <4> QED BY <1>3, <2>2, <2>4, <2>5, <3>2, <4>1, <4>2
    <3>3. CASE s \in DOMAIN t /\ ~IsLeaf(t, s)
      <4>1. r \in DOMAIN t
        BY <2>2, <3>3 DEF FullTree
      <4>2. u # -1
        BY <2>5, <3>3
      <4> QED BY <1>4, <2>2, <2>4, <2>5, <3>3, <4>1, <4>2
    <3> QED BY <3>1, <3>2, <3>3
  <2>7. Here(k)
    BY <2>1, <2>3, <2>6
  <2> QED BY <2>7
<1>21. 0..n \subseteq P
  <2> HIDE DEF P
  <2> QED BY <1>19, <1>20, CountingUp
<1>22. Here(n)
  BY <1>21
<1>23. SubSeq(p, 1, n) = p
  BY <1>1, PrefixFull
<1> QED BY <1>5, <1>22, <1>23

(***************************************************************************)
(* vector_to_tree undoes create_vector: from the rows of a compressed file *)
(* it builds the tree that was written, node for node, and decompress      *)
(* finds the side of the image in the area of the root.                    *)
(***************************************************************************)
THEOREM RoundTrip ==
  ASSUME NEW img, IsImage(img), NEW prag \in Nat, NEW t, t = maketree(img, prag)
  PROVE  PackedSide(Pack(t)) = Side(img) /\ vector_to_tree(Pack(t)) = t
<1>1. PICK n : n = Side(img)
  OBVIOUS
<1>2. n \in Nat \ {0} /\ FullTree(t)
  BY <1>1, MadeTree DEF IsImage
<1>3. PICK N, packedTree, vector : /\ N = node_number(t) /\ packedTree = Pack(t)
                                   /\ vector = packedTree.vector
  OBVIOUS
<1>4. PICK w : Numbers(w, t, N) /\ RowsOf(vector, w, t, N)
  BY <1>2, <1>3, Packs
<1>5. <<>> \in DOMAIN t /\ DOMAIN t \subseteq Paths(n)
  <2>1. DOMAIN t = {p \in Paths(Side(img)) :
                      \A k \in 0..(Len(p) - 1) : SubSeq(p, 1, k) \in Splitting(img, prag)}
    BY MadeNodes
  <2>2. DOMAIN t \subseteq Paths(Side(img))
    BY <2>1
  <2> QED BY <1>1, <1>2, <2>2 DEF FullTree
<1>6. vector[0].node.area = n * n
  <2>1. 0 \in 0..N - 1 /\ w[0] = <<>>
    BY <1>4 DEF Numbers
  <2>2. vector[0].node = t[<<>>]
    BY <1>4, <2>1 DEF RowsOf
  <2>3. Block(n, <<>>).dist = n
    BY <1>2, BlockRoot DEF Whole
  <2>4. PICK a : a = Block(n, <<>>).dist * Block(n, <<>>).dist
    OBVIOUS
  <2>5. t[<<>>].area = a
    <3>1. t[<<>>] = [mean |-> getmed(img, Block(n, <<>>)), area |-> a]
      BY <1>1, <1>5, <2>4, MadeNodes
    <3> QED BY <3>1
  <2> QED BY <2>2, <2>3, <2>4, <2>5
<1>7. PackedSide(packedTree) = n
  <2>1. PICK a : a = n * n
    OBVIOUS
  <2>2. PackedSide(packedTree) = CHOOSE r \in 0..a : r * r <= a /\ (r + 1) * (r + 1) > a
    BY <1>3, <1>6, <2>1 DEF PackedSide
  <2>3. PICK r : r = CHOOSE c \in 0..a : c * c <= a /\ (c + 1) * (c + 1) > a
    OBVIOUS
  <2>4. n \in 0..a /\ n * n <= a /\ (n + 1) * (n + 1) > a /\ a \in Nat
    <3>1. n <= n * n /\ n * n \in Nat /\ n * n < (n + 1) * (n + 1)
      BY <1>2, RootBelow
    <3> QED BY <1>2, <2>1, <3>1
  <2>5. r \in 0..a /\ r * r <= a /\ (r + 1) * (r + 1) > a
    BY <2>3, <2>4
  <2>6. r * r <= n * n /\ n * n < (r + 1) * (r + 1) /\ r \in Nat
    <3>1. PICK c, d : c = r * r /\ d = (r + 1) * (r + 1)
      OBVIOUS
    <3>2. c <= a /\ d > a /\ r \in Nat
      BY <2>4, <2>5, <3>1
    <3>3. d \in Int
      BY <3>1, <3>2
    <3>4. a < d
      BY <2>4, <3>2, <3>3
    <3> QED BY <2>1, <3>1, <3>2, <3>4
  <2>7. r = n
    BY <1>2, <2>6, RootUnique
  <2> QED BY <2>2, <2>3, <2>7
<1>8. \A p \in Paths(n) : /\ Row(vector, p) # -1 <=> p \in DOMAIN t
                          /\ p \in DOMAIN t => vector[Row(vector, p)].node = t[p]
  <2> SUFFICES ASSUME NEW p \in Paths(n)
               PROVE  /\ Row(vector, p) # -1 <=> p \in DOMAIN t
                      /\ p \in DOMAIN t => vector[Row(vector, p)].node = t[p]
    OBVIOUS
  <2>1. p \in Places
    BY <1>2, PathsAre
  <2>2. PICK i : i = Row(vector, p)
    OBVIOUS
  <2>3. /\ p \in DOMAIN t => i \in 0..N - 1 /\ w[i] = p
        /\ p \notin DOMAIN t => i = -1
    BY <1>2, <1>4, <2>1, <2>2, RowIs
  <2>4. \A j \in 0..N - 1 : j # -1
    OBVIOUS
  <2> QED BY <1>4, <2>2, <2>3, <2>4 DEF RowsOf
<1>9. {p \in Paths(n) : Row(vector, p) # -1} = DOMAIN t
  BY <1>5, <1>8
<1>10. vector_to_tree(packedTree) = [p \in DOMAIN t |-> vector[Row(vector, p)].node]
  BY <1>3, <1>7, <1>9 DEF vector_to_tree
<1>11. t = [p \in DOMAIN t |-> t[p]]
  BY DEF maketree
<1>12. [p \in DOMAIN t |-> vector[Row(vector, p)].node] = [p \in DOMAIN t |-> t[p]]
  BY <1>5, <1>8
<1> QED BY <1>1, <1>3, <1>7, <1>10, <1>11, <1>12
-----------------------------------------------------------------------------
(* What is drawn of a tree.                                                *)
LEMMA RootCells ==
  ASSUME NEW n \in Nat
  PROVE  Cells(Block(n, <<>>)) = Grid(n)
<1>1. PICK b : b = Block(n, <<>>)
  OBVIOUS
<1>2. b.x = 0 /\ b.y = 0 /\ b.dist = n
  BY <1>1, BlockRoot DEF Whole
<1>3. 0 + n - 1 = n - 1
  OBVIOUS
<1> QED BY <1>1, <1>2, <1>3 DEF Cells, Grid

(* Colours where nodes have colours, and junk elsewhere, make an image.    *)
LEMMA DrawnIsImage ==
  ASSUME NEW n \in Nat, n # 0, n <= MaxSide,
         NEW t, \A p \in DOMAIN t : t[p].mean \in Colours,
         NEW before, \A cell \in Undrawn(t, n) : before[cell] \in Colours
  PROVE  IsImage(makeimg(t, n, before)) /\ Side(makeimg(t, n, before)) = n
<1>1. PICK img : img = makeimg(t, n, before)
  OBVIOUS
<1>2. img = [cell \in Grid(n) |->
               IF Painting(t, n, cell) = {} THEN before[cell]
               ELSE t[CHOOSE p \in Painting(t, n, cell) : TRUE].mean]
  BY <1>1, RootCells DEF makeimg
<1>3. ASSUME NEW cell \in Grid(n)
      PROVE  img[cell] \in Colours
  <2>1. CASE Painting(t, n, cell) = {}
    <3>1. cell \in Undrawn(t, n)
      BY <2>1, RootCells DEF Undrawn
    <3> QED BY <1>2, <2>1, <3>1
  <2>2. CASE Painting(t, n, cell) # {}
    <3>1. PICK p : p = CHOOSE o \in Painting(t, n, cell) : TRUE
      OBVIOUS
    <3>2. p \in DOMAIN t
      BY <2>2, <3>1 DEF Painting
    <3> QED BY <1>2, <2>2, <3>1, <3>2
  <2> QED BY <2>1, <2>2
<1>4. img \in [Grid(n) -> Colours]
  BY <1>2, <1>3
<1> QED BY <1>1, <1>4, ImageGrid

(* Renaming a path, as mirroring does.                                     *)
RenamedBy(swap, p) == [i \in DOMAIN p |-> swap[p[i]]]
Swapping(swap) ==
  swap \in [Quadrants -> Quadrants] /\ \A q \in Quadrants : swap[swap[q]] = q

LEMMA SwapsAre == Swapping(SwapH) /\ Swapping(SwapV)
<1>1. \A q : q \in Quadrants <=> \/ q = "top_left" \/ q = "top_right"
                                 \/ q = "bottom_left" \/ q = "bottom_right"
  BY DEF Quadrants
<1>2. Swapping(SwapH)
  <2>1. PICK s : s = SwapH
    OBVIOUS
  <2>2. /\ s["top_left"] = "top_right" /\ s["top_right"] = "top_left"
        /\ s["bottom_left"] = "bottom_right" /\ s["bottom_right"] = "bottom_left"
    BY <2>1 DEF SwapH
  <2>3. s = [q \in Quadrants |-> s[q]]
    BY <2>1 DEF SwapH, Quadrants
  <2>4. \A q \in Quadrants : s[q] \in Quadrants /\ s[s[q]] = q
    BY <1>1, <2>2
  <2>5. s \in [Quadrants -> Quadrants]
    BY <2>3, <2>4
  <2> QED BY <2>1, <2>4, <2>5 DEF Swapping
<1>3. Swapping(SwapV)
  <2>1. PICK s : s = SwapV
    OBVIOUS
  <2>2. /\ s["top_left"] = "bottom_left" /\ s["bottom_left"] = "top_left"
        /\ s["top_right"] = "bottom_right" /\ s["bottom_right"] = "top_right"
    BY <2>1 DEF SwapV
  <2>3. s = [q \in Quadrants |-> s[q]]
    BY <2>1 DEF SwapV, Quadrants
  <2>4. \A q \in Quadrants : s[q] \in Quadrants /\ s[s[q]] = q
    BY <1>1, <2>2
  <2>5. s \in [Quadrants -> Quadrants]
    BY <2>3, <2>4
  <2> QED BY <2>1, <2>4, <2>5 DEF Swapping
<1> QED BY <1>2, <1>3

LEMMA RenamePlace ==
  ASSUME NEW swap, Swapping(swap), NEW p \in Places
  PROVE  /\ RenamedBy(swap, p) \in Places /\ Len(RenamedBy(swap, p)) = Len(p)
         /\ \A i \in 1..Len(p) : RenamedBy(swap, p)[i] = swap[p[i]]
         /\ RenamedBy(swap, RenamedBy(swap, p)) = p
<1>1. PICK n \in Nat : n = Len(p)
  BY PrefixFull
<1>2. p \in [1..n -> Quadrants] /\ DOMAIN p = 1..n
  BY <1>1, LenProperties DEF Places
<1>3. PICK r : r = RenamedBy(swap, p)
  OBVIOUS
<1>4. r \in [1..n -> Quadrants] /\ \A i \in 1..n : r[i] = swap[p[i]]
  BY <1>2, <1>3 DEF RenamedBy, Swapping
<1>5. r \in Places /\ Len(r) = n
  BY <1>4, SeqOfFunction DEF Places
<1>6. RenamedBy(swap, r) = [i \in 1..n |-> swap[r[i]]]
  BY <1>4 DEF RenamedBy
<1>7. [i \in 1..n |-> swap[r[i]]] = [i \in 1..n |-> p[i]]
  BY <1>2, <1>4 DEF Swapping
<1>8. p = [i \in 1..n |-> p[i]]
  BY <1>2
<1> QED BY <1>1, <1>3, <1>4, <1>5, <1>6, <1>7, <1>8

LEMMA RenamedIs ==
  ASSUME NEW swap, Swapping(swap), NEW t, DOMAIN t \subseteq Places
  PROVE  /\ DOMAIN Renamed(t, swap) = {p \in Places : RenamedBy(swap, p) \in DOMAIN t}
         /\ \A p \in DOMAIN Renamed(t, swap) : Renamed(t, swap)[p] = t[RenamedBy(swap, p)]
<1>1. PICK D : D = {RenamedBy(swap, o) : o \in DOMAIN t}
  OBVIOUS
<1>2. Renamed(t, swap) = [p \in D |-> t[RenamedBy(swap, p)]]
  BY <1>1 DEF Renamed, RenamedBy
<1>3. D = {p \in Places : RenamedBy(swap, p) \in DOMAIN t}
  <2>1. ASSUME NEW p \in D
        PROVE  p \in Places /\ RenamedBy(swap, p) \in DOMAIN t
    <3>1. PICK o \in DOMAIN t : p = RenamedBy(swap, o)
      BY <1>1
    <3> QED BY <3>1, RenamePlace
  <2>2. ASSUME NEW p \in Places, RenamedBy(swap, p) \in DOMAIN t
        PROVE  p \in D
    <3>1. PICK o : o = RenamedBy(swap, p)
      OBVIOUS
    <3>2. p = RenamedBy(swap, o) /\ o \in DOMAIN t
      BY <2>2, <3>1, RenamePlace
    <3> QED BY <1>1, <3>2
  <2> QED BY <2>1, <2>2
<1> QED BY <1>2, <1>3

(* The last node of a tree on the way to a place.                          *)
LEMMA LastOnPathIs ==
  ASSUME NEW t, FullTree(t), NEW p \in Places
  PROVE  /\ LastOnPath(t, p) \in Prefixes(p) \cap DOMAIN t
         /\ \A b \in Prefixes(p) \cap DOMAIN t : Len(b) <= Len(LastOnPath(t, p))
<1>1. PICK n \in Nat : n = Len(p)
  BY PrefixFull
<1>2. Prefixes(p) = {SubSeq(p, 1, k) : k \in 0..n}
  BY <1>1, PrefixesOf
<1> DEFINE I == {m \in 0..n : SubSeq(p, 1, n - m) \in DOMAIN t}
<1>3. I \in SUBSET Nat
  OBVIOUS
<1>4. n \in I
  <2>1. SubSeq(p, 1, 0) \in DOMAIN t
    BY PrefixFull DEF FullTree
  <2>2. n \in 0..n /\ n - n = 0
    OBVIOUS
  <2> QED BY <2>1, <2>2
<1>5. PICK m \in I : \A i \in I : m <= i
  <2> HIDE DEF I
  <2> QED BY <1>3, <1>4, LeastNumber
<1>6. PICK k, a : k = n - m /\ a = SubSeq(p, 1, k)
  OBVIOUS
<1>7. k \in 0..n /\ a \in Prefixes(p) \cap DOMAIN t /\ Len(a) = k
  <2>1. k \in 0..n /\ m \in 0..n
    BY <1>6
  <2>2. a \in DOMAIN t
    BY <1>5, <1>6
  <2>3. Len(a) = k
    BY <1>1, <1>6, <2>1, PrefixOf
  <2> QED BY <1>2, <1>6, <2>1, <2>2, <2>3
<1>8. ASSUME NEW b \in Prefixes(p) \cap DOMAIN t
      PROVE  Len(b) <= Len(a)
  <2>1. PICK j \in 0..n : b = SubSeq(p, 1, j)
    BY <1>2
  <2>2. Len(b) = j
    BY <1>1, <2>1, PrefixOf
  <2>3. n - j \in 0..n /\ n - (n - j) = j
    OBVIOUS
  <2>4. n - j \in I
    BY <2>1, <2>3
  <2>5. m <= n - j
    BY <1>5, <2>4
  <2> QED BY <1>6, <1>7, <2>2, <2>5
<1>9. PICK c : c = LastOnPath(t, p)
  OBVIOUS
<1>10. c \in Prefixes(p) \cap DOMAIN t /\ \A b \in Prefixes(p) \cap DOMAIN t : Len(b) <= Len(c)
  BY <1>7, <1>8, <1>9 DEF LastOnPath
<1> QED BY <1>9, <1>10

(* Two colours mixed.                                                      *)
Mixed(v, w) == [red |-> (v.red + w.red) \div 2, green |-> (v.green + w.green) \div 2,
                blue |-> (v.blue + w.blue) \div 2]

LEMMA MixedIs ==
  ASSUME NEW v \in Colours, NEW w \in Colours
  PROVE  /\ Mixed(v, w) \in Colours
         /\ \A c \in Channels : Mixed(v, w)[c] = (v[c] + w[c]) \div 2
<1>1. \A a, b \in 0..255 : (a + b) \div 2 \in 0..255
  OBVIOUS
<1>2. "red" \in Channels /\ "green" \in Channels /\ "blue" \in Channels
  BY DEF Channels
<1>3. /\ v.red \in 0..255 /\ v.green \in 0..255 /\ v.blue \in 0..255
      /\ w.red \in 0..255 /\ w.green \in 0..255 /\ w.blue \in 0..255
  BY <1>2 DEF Colours
<1>4. PICK r, g, b : /\ r = (v.red + w.red) \div 2 /\ g = (v.green + w.green) \div 2
                     /\ b = (v.blue + w.blue) \div 2
  OBVIOUS
<1>5. r \in 0..255 /\ g \in 0..255 /\ b \in 0..255
  <2>1. r \in 0..255
    BY <1>1, <1>3, <1>4
  <2>2. g \in 0..255
    BY <1>1, <1>3, <1>4
  <2>3. b \in 0..255
    BY <1>1, <1>3, <1>4
  <2> QED BY <2>1, <2>2, <2>3
<1>6. PICK m : m = Mixed(v, w)
  OBVIOUS
<1>7. m = [red |-> r, green |-> g, blue |-> b]
  BY <1>4, <1>6 DEF Mixed
<1>8. m \in Colours
  BY <1>5, <1>7, ColourIs
<1>9. m["red"] = r /\ m["green"] = g /\ m["blue"] = b
  BY <1>7
<1>10. \A c \in Channels : m[c] = (v[c] + w[c]) \div 2
  BY <1>4, <1>9 DEF Channels
<1> QED BY <1>6, <1>8, <1>10

LEMMA CombinedIs ==
  ASSUME NEW t, NEW o, FullTree(t), FullTree(o)
  PROVE  /\ DOMAIN combine_trees(t, o) = DOMAIN t \cup DOMAIN o
         /\ \A p \in DOMAIN t \cup DOMAIN o :
              /\ combine_trees(t, o)[p].mean
                   = Mixed(t[LastOnPath(t, p)].mean, o[LastOnPath(o, p)].mean)
              /\ combine_trees(t, o)[p].mean \in Colours
<1>1. DOMAIN t \subseteq Places /\ DOMAIN o \subseteq Places
  BY DEF FullTree
<1>2. ASSUME NEW p \in DOMAIN t \cup DOMAIN o
      PROVE  /\ combine_trees(t, o)[p].mean
                  = Mixed(t[LastOnPath(t, p)].mean, o[LastOnPath(o, p)].mean)
             /\ combine_trees(t, o)[p].mean \in Colours
  <2>1. PICK v, w : v = t[LastOnPath(t, p)].mean /\ w = o[LastOnPath(o, p)].mean
    OBVIOUS
  <2>2. combine_trees(t, o)[p].mean = Mixed(v, w)
    BY <2>1 DEF combine_trees, Mixed
  <2>3. LastOnPath(t, p) \in DOMAIN t /\ LastOnPath(o, p) \in DOMAIN o
    BY <1>1, LastOnPathIs
  <2>4. v \in Colours /\ w \in Colours
    BY <2>1, <2>3 DEF FullTree, Nodes
  <2> QED BY <2>1, <2>2, <2>4, MixedIs
<1>3. DOMAIN combine_trees(t, o) = DOMAIN t \cup DOMAIN o
  BY DEF combine_trees
<1> QED BY <1>2, <1>3
-----------------------------------------------------------------------------
(* The inductive invariant: every file holds what the history says of it.  *)
TreeOf(how) == maketree(how.of, how.factor)
Sourced(how) == IsImage(how.of) /\ how.factor \in Nat

CompressedFile(file, how) ==
  /\ how = [by |-> "compression", factor |-> how.factor, of |-> how.of]
  /\ Sourced(how) /\ file = Pack(TreeOf(how))

Drawing(img, how) ==
  /\ how.by = "decompression" =>
       /\ Sourced(how)
       /\ \E junk \in [Undrawn(TreeOf(how), Side(how.of)) -> Garbage] :
            img = makeimg(TreeOf(how), Side(how.of), junk)
  /\ how.by = "mirror" =>
       /\ Sourced(how) /\ how.way \in {"h", "v"}
       /\ img = makeimg(IF how.way = "h" THEN mirror_h(TreeOf(how)) ELSE mirror_v(TreeOf(how)),
                        Side(how.of), how.of)
  /\ how.by = "overlay" =>
       /\ Sourced(how) /\ IsImage(how.on) /\ Side(how.of) = Side(how.on)
       /\ img = makeimg(combine_trees(TreeOf(how), maketree(how.on, how.factor)),
                        Side(how.on), how.of)

IInv ==
  /\ DOMAIN image = ImageFiles /\ \A f \in ImageFiles : IsImage(image[f])
  /\ DOMAIN made = ImageFiles \cup {Compressed}
  /\ commands \in 0..MaxCommands
  /\ packed # NoFile => CompressedFile(packed, made[Compressed])
  /\ \A f \in ImageFiles : Drawing(image[f], made[f])

LEMMA InitIInv == Init => IInv
<1> SUFFICES ASSUME Init PROVE IInv
  OBVIOUS
<1>1. /\ image \in Pairs /\ packed = NoFile /\ commands = 0
      /\ made = [f \in ImageFiles \cup {Compressed} |-> Given]
  BY DEF Init
<1>2. DOMAIN image = ImageFiles /\ \A f \in ImageFiles : IsImage(image[f])
  BY <1>1, PairsAreImages
<1>3. commands \in 0..MaxCommands
  BY <1>1, MaxCommandsIsNatural
<1>4. ASSUME NEW f \in ImageFiles
      PROVE  Drawing(image[f], made[f])
  <2>1. made[f] = Given
    BY <1>1
  <2>2. made[f].by = "camera"
    BY <2>1 DEF Given
  <2>3. "camera" # "decompression" /\ "camera" # "mirror" /\ "camera" # "overlay"
    OBVIOUS
  <2> QED BY <2>2, <2>3 DEF Drawing
<1> QED BY <1>1, <1>2, <1>3, <1>4 DEF IInv

(* A command that writes an image writes one drawn the way it records.     *)
LEMMA WriteImageKeeps ==
  ASSUME IInv, NEW f \in ImageFiles, NEW img, NEW how,
         IsImage(img), Drawing(img, how), WriteImage(f, img, how),
         commands' \in 0..MaxCommands
  PROVE  IInv'
<1>1. /\ image' = [image EXCEPT ![f] = img] /\ made' = [made EXCEPT ![f] = how]
      /\ packed' = packed
  BY DEF WriteImage
<1>2. /\ DOMAIN image = ImageFiles /\ \A g \in ImageFiles : IsImage(image[g])
      /\ DOMAIN made = ImageFiles \cup {Compressed}
      /\ packed # NoFile => CompressedFile(packed, made[Compressed])
      /\ \A g \in ImageFiles : Drawing(image[g], made[g])
  BY DEF IInv
<1>3. /\ DOMAIN image' = ImageFiles /\ DOMAIN made' = ImageFiles \cup {Compressed}
      /\ \A g \in ImageFiles : image'[g] = IF g = f THEN img ELSE image[g]
      /\ \A g \in ImageFiles : made'[g] = IF g = f THEN how ELSE made[g]
  BY <1>1, <1>2
<1>4. made'[Compressed] = made[Compressed]
  BY <1>1, <1>2 DEF Compressed, ImageFiles
<1>5. \A g \in ImageFiles : IsImage(image'[g]) /\ Drawing(image'[g], made'[g])
  <2> SUFFICES ASSUME NEW g \in ImageFiles
               PROVE  IsImage(image'[g]) /\ Drawing(image'[g], made'[g])
    OBVIOUS
  <2>1. CASE g = f
    <3>1. image'[g] = img /\ made'[g] = how
      BY <1>3, <2>1
    <3> QED BY <3>1
  <2>2. CASE g # f
    <3>1. image'[g] = image[g] /\ made'[g] = made[g]
      BY <1>3, <2>2
    <3> QED BY <1>2, <3>1
  <2> QED BY <2>1, <2>2
<1>6. packed' # NoFile => CompressedFile(packed', made'[Compressed])
  BY <1>1, <1>2, <1>4
<1> QED BY <1>3, <1>5, <1>6 DEF IInv

LEMMA CompressionKeeps ==
  ASSUME IInv, NEW factor \in Factors, NEW in \in ImageFiles, compression(factor, in),
         commands' \in 0..MaxCommands
  PROVE  IInv'
<1>1. PICK how : how = [by |-> "compression", factor |-> factor, of |-> image[in]]
  OBVIOUS
<1>2. /\ packed' = Pack(maketree(image[in], factor)) /\ image' = image
      /\ made' = [made EXCEPT ![Compressed] = how]
  BY <1>1 DEF compression
<1>3. /\ DOMAIN image = ImageFiles /\ \A f \in ImageFiles : IsImage(image[f])
      /\ DOMAIN made = ImageFiles \cup {Compressed}
      /\ \A f \in ImageFiles : Drawing(image[f], made[f])
  BY DEF IInv
<1>4. how.of = image[in] /\ how.factor = factor
  BY <1>1
<1>5. Sourced(how)
  BY <1>3, <1>4, FactorsAreNatural DEF Sourced
<1>6. CompressedFile(packed', how)
  BY <1>1, <1>2, <1>4, <1>5 DEF CompressedFile, TreeOf
<1>7. /\ DOMAIN made' = ImageFiles \cup {Compressed} /\ made'[Compressed] = how
      /\ \A f \in ImageFiles : made'[f] = made[f]
  BY <1>2, <1>3 DEF ImageFiles, Compressed
<1> QED BY <1>2, <1>3, <1>6, <1>7 DEF IInv

LEMMA DecompressKeeps ==
  ASSUME IInv, NEW out \in Outputs, decompress(out), commands' \in 0..MaxCommands
  PROVE  IInv'
<1>1. PICK old : old = made[Compressed]
  OBVIOUS
<1>2. CompressedFile(packed, old)
  BY <1>1 DEF IInv, decompress
<1>3. PICK t, n : t = TreeOf(old) /\ n = Side(old.of)
  OBVIOUS
<1>4. IsImage(old.of) /\ old.factor \in Nat /\ packed = Pack(t)
  BY <1>2, <1>3 DEF CompressedFile, Sourced
<1>5. vector_to_tree(packed) = t /\ PackedSide(packed) = n /\ FullTree(t)
  BY <1>3, <1>4, RoundTrip, MadeTree DEF TreeOf
<1>6. PICK how : how = [old EXCEPT !.by = "decompression"]
  OBVIOUS
<1>7. PICK junk \in [Undrawn(t, n) -> Garbage] : WriteImage(out, makeimg(t, n, junk), how)
  BY <1>1, <1>5, <1>6 DEF decompress
<1>8. how.by = "decompression" /\ how.of = old.of /\ how.factor = old.factor
  <2>1. PICK a, b : a = old.factor /\ b = old.of
    OBVIOUS
  <2>2. old = [by |-> "compression", factor |-> a, of |-> b]
    BY <1>2, <2>1 DEF CompressedFile
  <2> QED BY <1>6, <2>1, <2>2
<1>9. n \in Nat /\ n # 0 /\ n <= MaxSide
  BY <1>3, <1>4 DEF IsImage
<1>10. PICK img : img = makeimg(t, n, junk)
  OBVIOUS
<1>11. IsImage(img)
  <2>1. \A cell \in Undrawn(t, n) : junk[cell] \in Colours
    BY GarbageIsPixels
  <2>2. \A p \in DOMAIN t : t[p].mean \in Colours
    BY <1>5 DEF FullTree, Nodes
  <2> QED BY <1>9, <1>10, <2>1, <2>2, DrawnIsImage
<1>12. Drawing(img, how)
  <2>1. Sourced(how) /\ TreeOf(how) = t /\ Side(how.of) = n
    BY <1>3, <1>4, <1>8 DEF Sourced, TreeOf
  <2>2. how.by # "mirror" /\ how.by # "overlay"
    BY <1>8
  <2> QED BY <1>7, <1>10, <2>1, <2>2 DEF Drawing
<1>13. out \in ImageFiles
  BY OutputsAreImageFiles
<1> QED BY <1>7, <1>10, <1>11, <1>12, <1>13, WriteImageKeeps

LEMMA MirrorKeeps ==
  ASSUME IInv, NEW way \in {"h", "v"}, NEW factor \in Factors, NEW in \in ImageFiles,
         NEW out \in Outputs, mirror(way, factor, in, out), commands' \in 0..MaxCommands
  PROVE  IInv'
<1>1. PICK of : of = image[in]
  OBVIOUS
<1>2. IsImage(of) /\ factor \in Nat
  BY <1>1, FactorsAreNatural DEF IInv
<1>3. PICK t, n : t = maketree(of, factor) /\ n = Side(of)
  OBVIOUS
<1>4. FullTree(t) /\ n \in Nat /\ n # 0 /\ n <= MaxSide
  BY <1>2, <1>3, MadeTree DEF IsImage
<1>5. PICK how : how = [by |-> "mirror", way |-> way, factor |-> factor, of |-> of]
  OBVIOUS
<1>6. how.by = "mirror" /\ how.way = way /\ how.factor = factor /\ how.of = of
  BY <1>5
<1>7. PICK m : m = IF way = "h" THEN mirror_h(t) ELSE mirror_v(t)
  OBVIOUS
<1>8. PICK img : img = makeimg(m, n, of)
  OBVIOUS
<1>9. WriteImage(out, img, how)
  BY <1>1, <1>3, <1>5, <1>7, <1>8 DEF mirror
<1>10. \A p \in DOMAIN m : m[p].mean \in Colours
  <2>1. PICK swap : Swapping(swap) /\ m = Renamed(t, swap)
    BY <1>7, SwapsAre DEF mirror_h, mirror_v
  <2>2. DOMAIN t \subseteq Places /\ \A p \in DOMAIN t : t[p].mean \in Colours
    BY <1>4 DEF FullTree, Nodes
  <2>3. /\ DOMAIN m = {p \in Places : RenamedBy(swap, p) \in DOMAIN t}
        /\ \A p \in DOMAIN m : m[p] = t[RenamedBy(swap, p)]
    BY <2>1, <2>2, RenamedIs
  <2> QED BY <2>2, <2>3
<1>11. \A cell \in Grid(n) : of[cell] \in Colours
  BY <1>2, <1>3, <1>4, ImageGrid
<1>12. IsImage(img)
  <2>1. Undrawn(m, n) \subseteq Grid(n)
    BY <1>4, RootCells DEF Undrawn
  <2> QED BY <1>4, <1>8, <1>10, <1>11, <2>1, DrawnIsImage
<1>13. Drawing(img, how)
  <2>1. Sourced(how) /\ TreeOf(how) = t /\ Side(how.of) = n
    BY <1>2, <1>3, <1>6 DEF Sourced, TreeOf
  <2>2. how.by # "decompression" /\ how.by # "overlay"
    BY <1>6
  <2> QED BY <1>6, <1>7, <1>8, <2>1, <2>2 DEF Drawing
<1>14. out \in ImageFiles
  BY OutputsAreImageFiles
<1> QED BY <1>9, <1>12, <1>13, <1>14, WriteImageKeeps

LEMMA OverlayKeeps ==
  ASSUME IInv, NEW factor \in Factors, NEW in1 \in ImageFiles, NEW in2 \in ImageFiles,
         NEW out \in Outputs, overlay(factor, in1, in2, out), commands' \in 0..MaxCommands
  PROVE  IInv'
<1>1. PICK of, on : of = image[in1] /\ on = image[in2]
  OBVIOUS
<1>2. IsImage(of) /\ IsImage(on) /\ factor \in Nat
  BY <1>1, FactorsAreNatural DEF IInv
<1>3. PICK t, o, n : t = maketree(of, factor) /\ o = maketree(on, factor) /\ n = Side(on)
  OBVIOUS
<1>4. FullTree(t) /\ FullTree(o) /\ n \in Nat /\ n # 0 /\ n <= MaxSide /\ Side(of) = n
  BY <1>1, <1>2, <1>3, MadeTree DEF IsImage, overlay
<1>5. PICK how : how = [by |-> "overlay", factor |-> factor, of |-> of, on |-> on]
  OBVIOUS
<1>6. how.by = "overlay" /\ how.factor = factor /\ how.of = of /\ how.on = on
  BY <1>5
<1>7. PICK m : m = combine_trees(t, o)
  OBVIOUS
<1>8. PICK img : img = makeimg(m, n, of)
  OBVIOUS
<1>9. WriteImage(out, img, how)
  BY <1>1, <1>3, <1>5, <1>7, <1>8 DEF overlay
<1>10. \A p \in DOMAIN m : m[p].mean \in Colours
  BY <1>4, <1>7, CombinedIs
<1>11. \A cell \in Grid(n) : of[cell] \in Colours
  BY <1>2, <1>3, <1>4, ImageGrid
<1>12. IsImage(img)
  <2>1. Undrawn(m, n) \subseteq Grid(n)
    BY <1>4, RootCells DEF Undrawn
  <2> QED BY <1>4, <1>8, <1>10, <1>11, <2>1, DrawnIsImage
<1>13. Drawing(img, how)
  <2>1. /\ Sourced(how) /\ TreeOf(how) = t /\ Side(how.on) = n /\ Side(how.of) = Side(how.on)
        /\ IsImage(how.on) /\ maketree(how.on, how.factor) = o
    BY <1>2, <1>3, <1>4, <1>6 DEF Sourced, TreeOf
  <2>2. how.by # "decompression" /\ how.by # "mirror"
    BY <1>6
  <2> QED BY <1>6, <1>7, <1>8, <2>1, <2>2 DEF Drawing
<1>14. out \in ImageFiles
  BY OutputsAreImageFiles
<1> QED BY <1>9, <1>12, <1>13, <1>14, WriteImageKeeps

LEMMA NextIInv == IInv /\ [Next]_vars => IInv'
<1> SUFFICES ASSUME IInv, [Next]_vars PROVE IInv'
  OBVIOUS
<1>1. CASE Next
  <2>1. commands' \in 0..MaxCommands
    BY <1>1, MaxCommandsIsNatural DEF Next, IInv
  <2>2. CASE \E factor \in Factors, in \in ImageFiles : compression(factor, in)
    BY <2>1, <2>2, CompressionKeeps
  <2>3. CASE \E out \in Outputs : decompress(out)
    BY <2>1, <2>3, DecompressKeeps
  <2>4. CASE \E way \in {"h", "v"}, factor \in Factors, in \in ImageFiles, out \in Outputs :
               mirror(way, factor, in, out)
    BY <2>1, <2>4, MirrorKeeps
  <2>5. CASE \E factor \in Factors, in1, in2 \in ImageFiles, out \in Outputs :
               overlay(factor, in1, in2, out)
    BY <2>1, <2>5, OverlayKeeps
  <2> QED BY <1>1, <2>2, <2>3, <2>4, <2>5 DEF Next, Command
<1>2. CASE UNCHANGED vars
  BY <1>2 DEF vars, IInv
<1> QED BY <1>1, <1>2

LEMMA SpecIInv == Spec => []IInv
BY InitIInv, NextIInv, PTL DEF Spec

(* A compressed file holds rows of nodes, of which no child lies beyond    *)
(* the last.                                                               *)
LEMMA PackTyped ==
  ASSUME NEW t, FullTree(t), NEW file, file = Pack(t)
  PROVE  /\ file.nr_frunze \in Nat /\ file.nr_noduri \in Nat \ {0}
         /\ file.vector \in [0 .. file.nr_noduri - 1 -> Rows]
         /\ \A i \in DOMAIN file.vector : \A q \in Quadrants :
               file.vector[i].child[q] < file.nr_noduri
<1>1. PICK N, vector : N = node_number(t) /\ vector = file.vector
  OBVIOUS
<1>2. PICK w : Numbers(w, t, N) /\ RowsOf(vector, w, t, N)
  BY <1>1, Packs
<1>3. file.nr_noduri = N /\ file.nr_frunze = leaf_number(t) /\ leaf_number(t) \in Nat
  BY <1>1, Packs, LeavesCounted
<1>4. N \in Nat \ {0} /\ vector \in [0..N - 1 -> Rows]
  BY <1>2 DEF Numbers, RowsOf
<1>5. ASSUME NEW i \in 0..N - 1, NEW q \in Quadrants
      PROVE  vector[i].child[q] < N
  <2>1. PICK c : c = vector[i].child[q]
    OBVIOUS
  <2>2. c = -1 \/ c \in 0..N - 1
    BY <1>2, <2>1 DEF RowsOf
  <2>3. c < N
    BY <1>4, <2>2
  <2> QED BY <2>1, <2>3
<1> QED BY <1>1, <1>3, <1>4, <1>5

(* Image files always hold square images of byte-valued channels, and a    *)
(* compressed file as many rows as it says: averaging, mixing and drawing  *)
(* never leave the range of an unsigned char, and reading the rows back    *)
(* never leaves the vector, for images up to MaxSide and any threshold.    *)
THEOREM TypeCorrect == Spec => []TypeOK
<1>1. IInv => TypeOK
  <2> SUFFICES ASSUME IInv PROVE TypeOK
    OBVIOUS
  <2>1. ASSUME packed # NoFile
        PROVE  /\ packed.nr_frunze \in Nat /\ packed.nr_noduri \in Nat \ {0}
               /\ packed.vector \in [0 .. packed.nr_noduri - 1 -> Rows]
               /\ \A i \in DOMAIN packed.vector : \A q \in Quadrants :
                     packed.vector[i].child[q] < packed.nr_noduri
    <3>1. PICK t : t = TreeOf(made[Compressed])
      OBVIOUS
    <3>2. packed = Pack(t) /\ FullTree(t)
      BY <2>1, <3>1, MadeTree DEF IInv, CompressedFile, Sourced, TreeOf
    <3> QED BY <3>2, PackTyped
  <2> QED BY <2>1 DEF IInv, TypeOK
<1> QED BY <1>1, SpecIInv, PTL

(* What compression writes can be read back, whatever the image: the       *)
(* counts fit a tree of inner nodes with four children, and every row but  *)
(* the first is the child of exactly one row, an earlier one.  The reason  *)
(* is that the queues of set_tree_index and create_vector both hold, after *)
(* n nodes, the children of those n that are not among them (Listed).      *)
THEOREM Readable == Spec => []PackedIsATree
<1>1. IInv => PackedIsATree
  <2> SUFFICES ASSUME IInv, packed # NoFile PROVE ReadsBack(packed)
    BY DEF PackedIsATree, ReadsBack
  <2>1. PICK t : t = TreeOf(made[Compressed])
    OBVIOUS
  <2>2. packed = Pack(t) /\ FullTree(t)
    BY <2>1, MadeTree DEF IInv, CompressedFile, Sourced, TreeOf
  <2> QED BY <2>2, PackReadsBack
<1> QED BY <1>1, SpecIInv, PTL
-----------------------------------------------------------------------------
(* Images whose side is a power of two: no pixel is left out.              *)
LEMMA PowerGrows ==
  ASSUME NEW k \in Nat, NEW m \in Nat, k < m
  PROVE  2 ^ k < 2 ^ m
<1> DEFINE P == {j \in 0..m : k < j => 2 ^ k < 2 ^ j}
<1>1. 0 \in P
  OBVIOUS
<1>2. ASSUME NEW j \in 1..m, j - 1 \in P
      PROVE  j \in P
  <2>1. PICK i \in Nat : i = j - 1
    OBVIOUS
  <2>2. PICK a, b, c : a = 2 ^ k /\ b = 2 ^ i /\ c = 2 ^ (i + 1)
    OBVIOUS
  <2>3. a \in Nat \ {0} /\ b \in Nat \ {0} /\ c = 2 * b
    BY <2>2, PowersOfTwo
  <2>4. k < i => a < b
    BY <1>2, <2>1, <2>2
  <2>5. k = i => a = b
    BY <2>2
  <2>6. k < i + 1 => a < c
    BY <2>3, <2>4, <2>5
  <2>7. i + 1 = j /\ 2 ^ j = c
    BY <2>1, <2>2
  <2>8. k < j => 2 ^ k < 2 ^ j
    BY <2>2, <2>6, <2>7
  <2> QED BY <2>8
<1>3. 0..m \subseteq P
  <2> HIDE DEF P
  <2> QED BY <1>1, <1>2, CountingUp
<1> QED BY <1>3

LEMMA HalvedPower ==
  ASSUME NEW K \in Nat, NEW k \in 0..K
  PROVE  Halved(2 ^ K, k) = 2 ^ (K - k)
<1>1. PICK n : n = 2 ^ K
  OBVIOUS
<1>2. n \in Nat
  BY <1>1, PowersOfTwo
<1> DEFINE P == {j \in 0..K : Halved(n, j) = 2 ^ (K - j)}
<1>3. 0 \in P
  <2>1. Halved(n, 0) = n
    BY <1>2, HalvedNext
  <2>2. K - 0 = K
    OBVIOUS
  <2>3. Halved(n, 0) = 2 ^ (K - 0)
    BY <1>1, <2>1, <2>2
  <2> QED BY <2>3
<1>4. ASSUME NEW j \in 1..K, j - 1 \in P
      PROVE  j \in P
  <2>1. PICK i \in Nat : i = j - 1
    OBVIOUS
  <2>2. PICK m \in Nat : m = K - j
    OBVIOUS
  <2>3. PICK a, b : a = 2 ^ m /\ b = 2 ^ (m + 1)
    OBVIOUS
  <2>4. a \in Nat /\ b = 2 * a
    BY <2>2, <2>3, PowersOfTwo
  <2>5. K - i = m + 1 /\ i + 1 = j
    BY <2>1, <2>2
  <2>6. Halved(n, i) = b
    BY <1>4, <2>1, <2>3, <2>5
  <2>7. Halved(n, i + 1) = Halved(n, i) \div 2
    BY <1>2, <2>1, HalvedNext
  <2>8. b \div 2 = a
    BY <2>4
  <2>9. Halved(n, j) = 2 ^ (K - j)
    BY <2>2, <2>3, <2>5, <2>6, <2>7, <2>8
  <2> QED BY <2>9
<1>5. 0..K \subseteq P
  <2> HIDE DEF P
  <2> QED BY <1>3, <1>4, CountingUp
<1> QED BY <1>1, <1>5

LEMMA DepthPower ==
  ASSUME NEW K \in Nat
  PROVE  Depth(2 ^ K) = K /\ 2 ^ K \in Nat \ {0}
<1>1. PICK n : n = 2 ^ K
  OBVIOUS
<1>2. n \in Nat \ {0}
  BY <1>1, PowersOfTwo
<1>3. PICK d : d = Depth(n)
  OBVIOUS
<1>4. d \in Nat /\ Halved(n, d) = 1
  BY <1>2, <1>3, DepthOfSide
<1>5. CASE d < K
  <2>1. PICK m \in Nat : m = K - d
    BY <1>4, <1>5
  <2>2. Halved(n, d) = 2 ^ m
    BY <1>1, <1>4, <1>5, <2>1, HalvedPower
  <2>3. 0 < m /\ 0 \in Nat
    BY <1>4, <1>5, <2>1
  <2>4. 2 ^ 0 < 2 ^ m
    BY <2>3, PowerGrows
  <2>5. 2 ^ 0 = 1
    BY PowersOfTwo
  <2>6. PICK a : a = 2 ^ m
    OBVIOUS
  <2>7. a \in Nat
    BY <2>6, PowersOfTwo
  <2>8. 1 < a /\ a = 1
    BY <1>4, <2>2, <2>4, <2>5, <2>6
  <2> QED BY <2>7, <2>8
<1>6. CASE K < d
  <2> DEFINE P == {j \in 0..d : K < j => Halved(n, j) = 0}
  <2>1. 0 \in P
    BY <1>4
  <2>2. ASSUME NEW j \in 1..d, j - 1 \in P
        PROVE  j \in P
    <3>1. PICK i \in Nat : i = j - 1
      OBVIOUS
    <3>2. Halved(n, i + 1) = Halved(n, i) \div 2 /\ i + 1 = j
      BY <1>2, <3>1, HalvedNext
    <3>3. CASE K < i
      <4>1. Halved(n, i) = 0
        BY <2>2, <3>1, <3>3
      <4>2. Halved(n, j) = 0
        BY <3>2, <4>1
      <4> QED BY <4>2
    <3>4. CASE K = i
      <4>1. PICK m : m = K - K
        OBVIOUS
      <4>2. m = 0 /\ K \in 0..K
        BY <4>1
      <4>3. Halved(n, K) = 2 ^ m
        BY <1>1, <4>1, <4>2, HalvedPower
      <4>4. Halved(n, i) = 1
        BY <3>4, <4>2, <4>3, PowersOfTwo
      <4>5. Halved(n, j) = 0
        BY <3>2, <4>4
      <4> QED BY <4>5
    <3>5. CASE i < K
      BY <3>1, <3>5
    <3> QED BY <3>3, <3>4, <3>5
  <2>3. 0..d \subseteq P
    <3> HIDE DEF P
    <3> QED BY <1>4, <2>1, <2>2, CountingUp
  <2>4. Halved(n, d) = 0
    BY <1>4, <1>6, <2>3
  <2> QED BY <1>4, <2>4
<1> QED BY <1>1, <1>2, <1>3, <1>4, <1>5, <1>6

(* The blocks of such an image halve exactly, and stand at multiples of    *)
(* their side.                                                             *)
LEMMA BlockPower ==
  ASSUME NEW K \in Nat, NEW p \in Places, Len(p) <= K
  PROVE  /\ Block(2 ^ K, p) \in Boxes
         /\ Block(2 ^ K, p).dist = 2 ^ (K - Len(p))
         /\ Block(2 ^ K, p).dist \in Nat \ {0}
         /\ Len(p) < K => \E h \in Nat \ {0} : Block(2 ^ K, p).dist = 2 * h
<1>1. PICK n : n = 2 ^ K
  OBVIOUS
<1>2. n \in Nat
  BY <1>1, PowersOfTwo
<1>3. PICK k \in Nat : k = Len(p)
  BY PrefixFull
<1>4. PICK b : b = Block(n, p)
  OBVIOUS
<1>5. b \in Boxes
  <2>1. "top_left" \in Quadrants
    BY DEF Quadrants
  <2> QED BY <1>2, <1>4, <2>1, BlockChild
<1>6. b.dist = Halved(n, k)
  BY <1>2, <1>3, <1>4, BlockDist
<1>7. PICK m \in Nat : m = K - k
  BY <1>3
<1>8. b.dist = 2 ^ m
  <2>1. k \in 0..K
    BY <1>3
  <2>2. Halved(2 ^ K, k) = 2 ^ (K - k)
    BY <2>1, HalvedPower
  <2> QED BY <1>1, <1>6, <1>7, <2>2
<1>9. b.dist \in Nat \ {0}
  BY <1>8, PowersOfTwo
<1>10. ASSUME k < K
       PROVE  \E h \in Nat \ {0} : b.dist = 2 * h
  <2>1. PICK i \in Nat : m = i + 1
    <3>1. m - 1 \in Nat /\ m = (m - 1) + 1
      BY <1>7, <1>10
    <3> QED BY <3>1
  <2>2. 2 ^ i \in Nat \ {0} /\ 2 ^ (i + 1) = 2 * 2 ^ i
    BY PowersOfTwo
  <2> QED BY <1>8, <2>1, <2>2
<1> QED BY <1>1, <1>3, <1>4, <1>5, <1>7, <1>8, <1>9, <1>10

LEMMA CellIn ==
  ASSUME NEW b, NEW u, NEW v
  PROVE  <<u, v>> \in Cells(b) <=> u \in b.x .. b.x + b.dist - 1 /\ v \in b.y .. b.y + b.dist - 1
BY DEF Cells

LEMMA QuarterParts ==
  ASSUME NEW b \in Boxes, NEW h \in Nat, h = b.dist \div 2, NEW q \in Quadrants
  PROVE  /\ Quarter(b, q).dist = h
         /\ Quarter(b, q).x = IF q \in {"bottom_left", "bottom_right"} THEN b.x + h ELSE b.x
         /\ Quarter(b, q).y = IF q \in {"top_right", "bottom_right"} THEN b.y + h ELSE b.y
BY DEF Quarter

(* The quarters of a block lie in it; where it halves exactly, every pixel *)
(* of it lies in one of them.                                              *)
LEMMA QuarterWithin ==
  ASSUME NEW b \in Boxes, NEW q \in Quadrants
  PROVE  Cells(Quarter(b, q)) \subseteq Cells(b)
<1>1. b.x \in Nat /\ b.y \in Nat /\ b.dist \in Nat
  BY DEF Boxes
<1>2. PICK h \in Nat : h = b.dist \div 2
  BY <1>1
<1>3. 2 * h <= b.dist
  BY <1>1, <1>2
<1>4. PICK c : c = Quarter(b, q)
  OBVIOUS
<1>5. c.dist = h /\ (c.x = b.x \/ c.x = b.x + h) /\ (c.y = b.y \/ c.y = b.y + h)
  BY <1>2, <1>4, QuarterParts
<1>6. c.x .. c.x + c.dist - 1 \subseteq b.x .. b.x + b.dist - 1
  BY <1>1, <1>3, <1>5
<1>7. c.y .. c.y + c.dist - 1 \subseteq b.y .. b.y + b.dist - 1
  BY <1>1, <1>3, <1>5
<1>8. Cells(c) \subseteq Cells(b)
  BY <1>6, <1>7 DEF Cells
<1> QED BY <1>4, <1>8

LEMMA QuarterOne ==
  ASSUME NEW b \in Boxes, NEW h \in Nat, b.dist = 2 * h,
         NEW u \in Nat, NEW v \in Nat, <<u, v>> \in Cells(b)
  PROVE  \E q \in Quadrants : /\ <<u, v>> \in Cells(Quarter(b, q))
                              /\ \A r \in Quadrants : <<u, v>> \in Cells(Quarter(b, r)) => r = q
<1>1. b.x \in Nat /\ b.y \in Nat /\ h = b.dist \div 2
  BY DEF Boxes
<1>2. u \in b.x .. b.x + 2 * h - 1 /\ v \in b.y .. b.y + 2 * h - 1
  BY CellIn
<1> DEFINE Inside(q) == <<u, v>> \in Cells(Quarter(b, q))
<1>3. \A q \in Quadrants :
        Inside(q) <=> /\ IF q \in {"bottom_left", "bottom_right"} THEN u >= b.x + h ELSE u < b.x + h
                      /\ IF q \in {"top_right", "bottom_right"} THEN v >= b.y + h ELSE v < b.y + h
  <2> SUFFICES ASSUME NEW q \in Quadrants
               PROVE  Inside(q) <=>
                        /\ IF q \in {"bottom_left", "bottom_right"} THEN u >= b.x + h ELSE u < b.x + h
                        /\ IF q \in {"top_right", "bottom_right"} THEN v >= b.y + h ELSE v < b.y + h
    OBVIOUS
  <2>1. PICK c : c = Quarter(b, q)
    OBVIOUS
  <2>2. /\ c.dist = h
        /\ c.x = IF q \in {"bottom_left", "bottom_right"} THEN b.x + h ELSE b.x
        /\ c.y = IF q \in {"top_right", "bottom_right"} THEN b.y + h ELSE b.y
    BY <1>1, <2>1, QuarterParts
  <2>3. Inside(q) <=> u \in c.x .. c.x + h - 1 /\ v \in c.y .. c.y + h - 1
    BY <2>1, <2>2, CellIn
  <2>4. u \in c.x .. c.x + h - 1 <=> IF q \in {"bottom_left", "bottom_right"} THEN u >= b.x + h
                                                                            ELSE u < b.x + h
    <3> HIDE DEF Inside
    <3> QED BY <1>1, <1>2, <2>2
  <2>5. v \in c.y .. c.y + h - 1 <=> IF q \in {"top_right", "bottom_right"} THEN v >= b.y + h
                                                                          ELSE v < b.y + h
    <3> HIDE DEF Inside
    <3> QED BY <1>1, <1>2, <2>2
  <2> QED BY <2>3, <2>4, <2>5
<1> HIDE DEF Inside
<1>4. \A q : q \in Quadrants <=> \/ q = "top_left" \/ q = "top_right"
                                 \/ q = "bottom_left" \/ q = "bottom_right"
  BY DEF Quadrants
<1>5. PICK m, k : m = b.x + h /\ k = b.y + h
  OBVIOUS
<1>6. m \in Nat /\ k \in Nat
  BY <1>1, <1>5
<1>7. /\ Inside("top_left") <=> ~(u >= m) /\ ~(v >= k)
      /\ Inside("top_right") <=> ~(u >= m) /\ v >= k
      /\ Inside("bottom_left") <=> u >= m /\ ~(v >= k)
      /\ Inside("bottom_right") <=> u >= m /\ v >= k
  <2>1. (u < m <=> ~(u >= m)) /\ (v < k <=> ~(v >= k))
    BY <1>6
  <2> QED BY <1>3, <1>4, <1>5, <2>1
<1>8. \E q \in Quadrants : Inside(q) /\ \A r \in Quadrants : Inside(r) => r = q
  BY <1>4, <1>7
<1> QED BY <1>8 DEF Inside

(* A block lies in the blocks of the prefixes of its path.                 *)
LEMMA NestedBlocks ==
  ASSUME NEW n \in Nat, NEW p \in Places, NEW k \in 0..Len(p)
  PROVE  Cells(Block(n, p)) \subseteq Cells(Block(n, SubSeq(p, 1, k)))
<1> DEFINE P == {r \in Places : \A j \in 0..Len(r) :
                   Cells(Block(n, r)) \subseteq Cells(Block(n, SubSeq(r, 1, j)))}
<1>1. <<>> \in P
  <2>1. <<>> \in Places /\ Len(<<>>) = 0
    BY EmptySeq DEF Places
  <2>2. ASSUME NEW j \in 0..Len(<<>>)
        PROVE  SubSeq(<<>>, 1, j) = <<>>
    <3>1. j = Len(<<>>)
      BY <2>1
    <3> QED BY <2>1, <3>1, PrefixFull
  <2>3. \A j \in 0..Len(<<>>) : Cells(Block(n, <<>>)) \subseteq Cells(Block(n, SubSeq(<<>>, 1, j)))
    BY <2>2
  <2> QED BY <2>1, <2>3
<1>2. ASSUME NEW r \in Places, NEW q \in Quadrants, r \in P
      PROVE  Append(r, q) \in P
  <2>1. PICK s : s = Append(r, q)
    OBVIOUS
  <2>2. PICK m \in Nat : m = Len(r)
    BY PrefixFull
  <2>3. s \in Places /\ Len(s) = m + 1 /\ \A j \in 0..m : SubSeq(s, 1, j) = SubSeq(r, 1, j)
    BY <2>1, <2>2, PrefixOfChild
  <2>4. Cells(Block(n, s)) \subseteq Cells(Block(n, r))
    <3>1. Block(n, s) = Quarter(Block(n, r), q) /\ Block(n, r) \in Boxes
      BY <2>1, BlockChild
    <3> QED BY <3>1, QuarterWithin
  <2>5. ASSUME NEW j \in 0..Len(s)
        PROVE  Cells(Block(n, s)) \subseteq Cells(Block(n, SubSeq(s, 1, j)))
    <3>1. CASE j = m + 1
      <4>1. SubSeq(s, 1, j) = s
        BY <2>3, <3>1, PrefixFull
      <4> QED BY <4>1
    <3>2. CASE j # m + 1
      <4>1. j \in 0..m
        BY <2>3, <3>2
      <4>2. Cells(Block(n, r)) \subseteq Cells(Block(n, SubSeq(r, 1, j)))
        BY <1>2, <2>2, <4>1
      <4> QED BY <2>3, <2>4, <4>1, <4>2
    <3> QED BY <3>1, <3>2
  <2>6. s \in P
    BY <2>3, <2>5
  <2> QED BY <2>1, <2>6
<1>3. Places \subseteq P
  <2> HIDE DEF P
  <2> QED BY <1>1, <1>2, PathInduction
<1> QED BY <1>3

(* No two blocks of one level share a pixel.                               *)
LEMMA OneBlock ==
  ASSUME NEW K \in Nat, NEW u \in Nat, NEW v \in Nat,
         NEW p \in Places, NEW r \in Places, Len(p) = Len(r), Len(p) <= K,
         <<u, v>> \in Cells(Block(2 ^ K, p)), <<u, v>> \in Cells(Block(2 ^ K, r))
  PROVE  p = r
<1>1. PICK n \in Nat : n = 2 ^ K
  BY PowersOfTwo
<1> DEFINE Here(s) == <<u, v>> \in Cells(Block(n, s))
           P == {s \in Places : Len(s) <= K /\ Here(s) =>
                   \A o \in Places : Len(o) = Len(s) /\ Here(o) => o = s}
<1> HIDE DEF Here
<1>2. <<>> \in P
  <2>1. <<>> \in Places /\ Len(<<>>) = 0
    BY EmptySeq DEF Places
  <2>2. ASSUME NEW o \in Places, Len(o) = Len(<<>>)
        PROVE  o = <<>>
    BY <2>1, <2>2, SamePlace
  <2> QED BY <2>1, <2>2
<1>3. ASSUME NEW s \in Places, NEW q \in Quadrants, s \in P
      PROVE  Append(s, q) \in P
  <2>1. PICK c : c = Append(s, q)
    OBVIOUS
  <2>2. PICK m \in Nat : m = Len(s)
    BY PrefixFull
  <2>3. c \in Places /\ Len(c) = m + 1
    BY <2>1, <2>2, PrefixOfChild
  <2>4. ASSUME Len(c) <= K, Here(c), NEW o \in Places, Len(o) = Len(c), Here(o)
        PROVE  o = c
    <3>1. o # <<>>
      <4>1. Len(<<>>) = 0
        OBVIOUS
      <4> QED BY <2>2, <2>3, <2>4, <4>1
    <3>2. PICK a \in Places, e \in Quadrants : o = Append(a, e)
      BY <3>1, SequenceEmptyOrAppend DEF Places
    <3>3. Len(a) = m /\ m < K
      <4>1. Len(o) = Len(a) + 1 /\ Len(a) \in Nat
        BY <3>2, PrefixOfChild, PrefixFull
      <4> QED BY <2>2, <2>3, <2>4, <4>1
    <3>4. PICK b, d : b = Block(n, s) /\ d = Block(n, a)
      OBVIOUS
    <3>5. b \in Boxes /\ Block(n, c) = Quarter(b, q)
      BY <2>1, <3>4, BlockChild
    <3>6. d \in Boxes /\ Block(n, o) = Quarter(d, e)
      BY <3>2, <3>4, BlockChild
    <3>7. <<u, v>> \in Cells(Quarter(b, q)) /\ <<u, v>> \in Cells(Quarter(d, e))
      BY <2>4, <3>5, <3>6 DEF Here
    <3>8. Here(s) /\ Here(a)
      BY <3>4, <3>5, <3>6, <3>7, QuarterWithin DEF Here
    <3>9. a = s
      BY <1>3, <2>2, <3>3, <3>8
    <3>10. PICK h \in Nat : b.dist = 2 * h
      BY <1>1, <2>2, <3>3, <3>4, BlockPower
    <3>11. PICK x \in Quadrants : \A y \in Quadrants : <<u, v>> \in Cells(Quarter(b, y)) => y = x
      <4>1. <<u, v>> \in Cells(b)
        BY <3>4, <3>8 DEF Here
      <4> QED BY <3>5, <3>10, <4>1, QuarterOne
    <3>12. q = x /\ e = x
      BY <3>4, <3>7, <3>9, <3>11
    <3> QED BY <2>1, <3>2, <3>9, <3>12
  <2>5. c \in P
    BY <2>3, <2>4
  <2> QED BY <2>1, <2>5
<1>4. Places \subseteq P
  <2> HIDE DEF P
  <2> QED BY <1>2, <1>3, PathInduction
<1>5. Here(p) /\ Here(r)
  BY <1>1 DEF Here
<1> QED BY <1>4, <1>5

(* P goes down to a pixel.                                                 *)
Around(K, P, cell) ==
  /\ P \in Places /\ Len(P) = K
  /\ \A p \in Places : Len(p) <= K =>
       (cell \in Cells(Block(2 ^ K, p)) <=> p = SubSeq(P, 1, Len(p)))

LEMMA PathAround ==
  ASSUME NEW K \in Nat, NEW cell \in Grid(2 ^ K)
  PROVE  \E P : Around(K, P, cell)
<1>1. PICK n \in Nat : n = 2 ^ K
  BY PowersOfTwo
<1>2. PICK u \in Nat, v \in Nat : cell = <<u, v>>
  <2>1. PICK a \in 0..n - 1, b \in 0..n - 1 : cell = <<a, b>>
    BY <1>1 DEF Grid
  <2>2. a \in Nat /\ b \in Nat
    OBVIOUS
  <2> QED BY <2>1, <2>2
<1> DEFINE Here(p) == <<u, v>> \in Cells(Block(n, p))
           S == {k \in 0..K : \E p \in Places : Len(p) = k /\ Here(p)}
<1> HIDE DEF Here
<1>3. 0 \in S
  <2>1. <<>> \in Places /\ Len(<<>>) = 0
    BY EmptySeq DEF Places
  <2>2. Here(<<>>)
    BY <1>1, <1>2, RootCells DEF Here
  <2> QED BY <2>1, <2>2
<1>4. ASSUME NEW k \in 1..K, k - 1 \in S
      PROVE  k \in S
  <2>1. PICK p \in Places : Len(p) = k - 1 /\ Here(p)
    BY <1>4
  <2>2. PICK b : b = Block(n, p)
    OBVIOUS
  <2>3. b \in Boxes /\ <<u, v>> \in Cells(b)
    <3>1. "top_left" \in Quadrants
      BY DEF Quadrants
    <3> QED BY <2>1, <2>2, <3>1, BlockChild DEF Here
  <2>4. PICK h \in Nat : b.dist = 2 * h
    <3>1. Len(p) < K /\ Len(p) <= K
      BY <2>1
    <3> QED BY <1>1, <2>2, <3>1, BlockPower
  <2>5. PICK q \in Quadrants : <<u, v>> \in Cells(Quarter(b, q))
    BY <2>3, <2>4, QuarterOne
  <2>6. PICK r : r = Append(p, q)
    OBVIOUS
  <2>7. r \in Places /\ Block(n, r) = Quarter(b, q)
    BY <2>2, <2>6, BlockChild
  <2>8. Len(r) = k
    <3>1. Len(r) = Len(p) + 1
      BY <2>6, PrefixOfChild
    <3> QED BY <2>1, <3>1
  <2>9. Here(r)
    BY <2>5, <2>7 DEF Here
  <2> QED BY <2>7, <2>8, <2>9
<1>5. 0..K \subseteq S
  <2> HIDE DEF S
  <2> QED BY <1>3, <1>4, CountingUp
<1>6. PICK P \in Places : Len(P) = K /\ Here(P)
  <2>1. K \in S
    BY <1>5
  <2> QED BY <2>1
<1>7. ASSUME NEW p \in Places, Len(p) <= K
      PROVE  Here(p) <=> p = SubSeq(P, 1, Len(p))
  <2>1. PICK k \in Nat : k = Len(p)
    BY PrefixFull
  <2>2. PICK r : r = SubSeq(P, 1, k)
    OBVIOUS
  <2>3. k \in 0..Len(P)
    BY <1>6, <1>7, <2>1
  <2>4. r \in Places /\ Len(r) = k
    BY <2>2, <2>3, PrefixOf
  <2>5. Here(r)
    BY <1>6, <2>2, <2>3, NestedBlocks DEF Here
  <2>6. Here(p) => p = r
    BY <1>1, <1>7, <2>1, <2>4, <2>5, OneBlock DEF Here
  <2> QED BY <2>1, <2>2, <2>5, <2>6
<1>8. Around(K, P, cell)
  BY <1>1, <1>2, <1>6, <1>7 DEF Around, Here
<1> QED BY <1>8

(* A tree holds every node on the way to one of its nodes.                 *)
LEMMA PrefixClosed ==
  ASSUME NEW t, FullTree(t), NEW p \in DOMAIN t, NEW k \in 0..Len(p)
  PROVE  SubSeq(p, 1, k) \in DOMAIN t
<1> DEFINE P == {r \in Places : r \in DOMAIN t => \A j \in 0..Len(r) : SubSeq(r, 1, j) \in DOMAIN t}
<1>1. <<>> \in P
  <2>1. <<>> \in Places /\ Len(<<>>) = 0
    BY EmptySeq DEF Places
  <2>2. ASSUME NEW j \in 0..Len(<<>>)
        PROVE  SubSeq(<<>>, 1, j) = <<>>
    <3>1. j = Len(<<>>)
      BY <2>1
    <3> QED BY <2>1, <3>1, PrefixFull
  <2>3. <<>> \in DOMAIN t => \A j \in 0..Len(<<>>) : SubSeq(<<>>, 1, j) \in DOMAIN t
    BY <2>2
  <2> QED BY <2>1, <2>3
<1>2. ASSUME NEW r \in Places, NEW q \in Quadrants, r \in P
      PROVE  Append(r, q) \in P
  <2>1. PICK s : s = Append(r, q)
    OBVIOUS
  <2>2. PICK m \in Nat : m = Len(r)
    BY PrefixFull
  <2>3. s \in Places /\ Len(s) = m + 1 /\ \A j \in 0..m : SubSeq(s, 1, j) = SubSeq(r, 1, j)
    BY <2>1, <2>2, PrefixOfChild
  <2>4. ASSUME s \in DOMAIN t, NEW j \in 0..Len(s)
        PROVE  SubSeq(s, 1, j) \in DOMAIN t
    <3>1. CASE j = m + 1
      <4>1. SubSeq(s, 1, j) = s
        BY <2>3, <3>1, PrefixFull
      <4> QED BY <2>4, <4>1
    <3>2. CASE j # m + 1
      <4>1. j \in 0..m
        BY <2>3, <3>2
      <4>2. r \in DOMAIN t
        BY <2>1, <2>4 DEF FullTree
      <4>3. SubSeq(r, 1, j) \in DOMAIN t
        BY <1>2, <2>2, <4>1, <4>2
      <4> QED BY <2>3, <4>1, <4>3
    <3> QED BY <3>1, <3>2
  <2>5. s \in P
    BY <2>3, <2>4
  <2> QED BY <2>1, <2>5
<1>3. Places \subseteq P
  <2> HIDE DEF P
  <2> QED BY <1>1, <1>2, PathInduction
<1>4. p \in Places
  BY DEF FullTree
<1> QED BY <1>3, <1>4

(* On the way to a place a tree ends in a leaf, and has no other there,    *)
(* unless it goes on beyond.                                               *)
LEMMA LastLeaf ==
  ASSUME NEW t, FullTree(t), NEW P \in Places
  PROVE  \E k \in 0..Len(P) :
           /\ LastOnPath(t, P) = SubSeq(P, 1, k) /\ SubSeq(P, 1, k) \in DOMAIN t
           /\ k # Len(P) => IsLeaf(t, SubSeq(P, 1, k))
           /\ \A j \in 0..Len(P) : SubSeq(P, 1, j) \in DOMAIN t /\ IsLeaf(t, SubSeq(P, 1, j)) => j = k
<1>1. PICK n \in Nat : n = Len(P)
  BY PrefixFull
<1>2. PICK l : l = LastOnPath(t, P)
  OBVIOUS
<1>3. l \in Prefixes(P) /\ l \in DOMAIN t /\ \A b \in Prefixes(P) \cap DOMAIN t : Len(b) <= Len(l)
  BY <1>2, LastOnPathIs
<1>4. Prefixes(P) = {SubSeq(P, 1, j) : j \in 0..n}
  BY <1>1, PrefixesOf
<1>5. PICK k \in 0..n : l = SubSeq(P, 1, k)
  BY <1>3, <1>4
<1>6. \A j \in 0..n : SubSeq(P, 1, j) \in Places /\ Len(SubSeq(P, 1, j)) = j
  BY <1>1, PrefixOf
<1>7. \A j \in 0..n : SubSeq(P, 1, j) \in DOMAIN t => j <= k
  BY <1>3, <1>4, <1>5, <1>6
<1>8. ASSUME NEW j \in 0..n, j < n
      PROVE  \E q \in Quadrants : SubSeq(P, 1, j + 1) = Append(SubSeq(P, 1, j), q)
  <2>1. PICK i : i = j + 1
    OBVIOUS
  <2>2. i \in 1..Len(P) /\ i - 1 = j
    BY <1>1, <1>8, <2>1
  <2>3. SubSeq(P, 1, i) = Append(SubSeq(P, 1, i - 1), P[i]) /\ P[i] \in Quadrants
    BY <2>2, PrefixNext
  <2> QED BY <2>1, <2>2, <2>3
<1>9. ASSUME k # n
      PROVE  IsLeaf(t, l)
  <2> SUFFICES ASSUME ~IsLeaf(t, l) PROVE FALSE
    OBVIOUS
  <2>1. k < n /\ k + 1 \in 0..n
    BY <1>9
  <2>2. PICK q \in Quadrants : SubSeq(P, 1, k + 1) = Append(l, q)
    BY <1>5, <1>8, <2>1
  <2>3. SubSeq(P, 1, k + 1) \in DOMAIN t
    BY <1>3, <2>2 DEF FullTree
  <2>4. k + 1 <= k
    BY <1>7, <2>1, <2>3
  <2> QED BY <2>4
<1>10. ASSUME NEW j \in 0..n, SubSeq(P, 1, j) \in DOMAIN t, IsLeaf(t, SubSeq(P, 1, j))
       PROVE  j = k
  <2> SUFFICES ASSUME j # k PROVE FALSE
    OBVIOUS
  <2>1. j < k /\ j < n
    BY <1>7, <1>10
  <2>2. PICK q \in Quadrants : SubSeq(P, 1, j + 1) = Append(SubSeq(P, 1, j), q)
    BY <1>8, <2>1
  <2>3. SubSeq(l, 1, j + 1) = SubSeq(P, 1, j + 1)
    <3>1. PICK i : i = j + 1
      OBVIOUS
    <3>2. i \in 0..k /\ k \in 0..Len(P)
      BY <1>1, <2>1, <3>1
    <3>3. SubSeq(SubSeq(P, 1, k), 1, i) = SubSeq(P, 1, i)
      BY <3>2, PrefixOfPrefix
    <3> QED BY <1>5, <3>1, <3>3
  <2>4. SubSeq(l, 1, j + 1) \in DOMAIN t
    <3>1. j + 1 \in 0..Len(l)
      BY <1>5, <1>6, <2>1
    <3> QED BY <1>3, <3>1, PrefixClosed
  <2>5. Append(SubSeq(P, 1, j), q) \notin DOMAIN t
    BY <1>10, <2>2 DEF FullTree
  <2> QED BY <2>2, <2>3, <2>4, <2>5
<1> QED BY <1>1, <1>2, <1>3, <1>5, <1>9, <1>10

(* A pixel is drawn once, by the last node on the way to it.               *)
LEMMA Painted ==
  ASSUME NEW K \in Nat, NEW s, FullTree(s), DOMAIN s \subseteq Short(K),
         NEW t, DOMAIN t = DOMAIN s, NEW cell, NEW P, Around(K, P, cell)
  PROVE  /\ Painting(t, 2 ^ K, cell) = {LastOnPath(t, P)}
         /\ LastOnPath(t, P) = LastOnPath(s, P)
<1>1. P \in Places /\ Len(P) = K
  BY DEF Around
<1>2. \A p \in Places : Len(p) <= K =>
        (cell \in Cells(Block(2 ^ K, p)) <=> p = SubSeq(P, 1, Len(p)))
  BY DEF Around
<1>3. PICK k \in 0..K :
        /\ LastOnPath(s, P) = SubSeq(P, 1, k) /\ SubSeq(P, 1, k) \in DOMAIN s
        /\ k # K => IsLeaf(s, SubSeq(P, 1, k))
        /\ \A j \in 0..K : SubSeq(P, 1, j) \in DOMAIN s /\ IsLeaf(s, SubSeq(P, 1, j)) => j = k
  BY <1>1, LastLeaf
<1>4. PICK l : l = SubSeq(P, 1, k)
  OBVIOUS
<1>5. l \in Places /\ Len(l) = k
  BY <1>1, <1>4, PrefixOf
<1>6. \A p : IsLeaf(t, p) <=> IsLeaf(s, p)
  BY DEF IsLeaf
<1>7. IsLeaf(s, l)
  <2>1. CASE k # K
    BY <1>3, <1>4, <2>1
  <2>2. CASE k = K
    <3>1. "top_right" \in Quadrants
      BY DEF Quadrants
    <3>2. PICK c : c = Append(l, "top_right")
      OBVIOUS
    <3>3. Len(c) = k + 1
      BY <1>5, <3>1, <3>2, PrefixOfChild
    <3>4. c \notin Short(K)
      BY <2>2, <3>3 DEF Short
    <3> QED BY <3>2, <3>4 DEF IsLeaf
  <2> QED BY <2>1, <2>2
<1>8. l \in Painting(t, 2 ^ K, cell)
  <2>1. l \in DOMAIN t /\ IsLeaf(t, l)
    BY <1>3, <1>4, <1>6, <1>7
  <2>2. cell \in Cells(Block(2 ^ K, l))
    <3>1. Len(l) <= K /\ l = SubSeq(P, 1, Len(l))
      BY <1>4, <1>5
    <3> QED BY <1>2, <1>5, <3>1
  <2> QED BY <2>1, <2>2 DEF Painting
<1>9. ASSUME NEW p \in Painting(t, 2 ^ K, cell)
      PROVE  p = l
  <2>1. p \in DOMAIN s /\ IsLeaf(s, p) /\ cell \in Cells(Block(2 ^ K, p))
    BY <1>6 DEF Painting
  <2>2. p \in Places /\ Len(p) <= K /\ Len(p) \in 0..K
    <3>1. p \in Places /\ Len(p) <= K
      BY <2>1 DEF Short
    <3> QED BY <3>1, PrefixFull
  <2>3. p = SubSeq(P, 1, Len(p))
    BY <1>2, <2>1, <2>2
  <2>4. PICK j \in 0..K : p = SubSeq(P, 1, j)
    BY <2>2, <2>3
  <2>5. j = k
    BY <1>3, <2>1, <2>4
  <2> QED BY <1>4, <2>4, <2>5
<1>10. Painting(t, 2 ^ K, cell) = {l}
  BY <1>8, <1>9
<1>11. LastOnPath(t, P) = LastOnPath(s, P)
  BY DEF LastOnPath
<1> QED BY <1>3, <1>4, <1>10, <1>11

(* The image shows every pixel in the colour of the last node above it.    *)
Draws(img, t, K) ==
  /\ DOMAIN img = Grid(2 ^ K)
  /\ img = [cell \in Grid(2 ^ K) |-> img[cell]]
  /\ \A cell \in Grid(2 ^ K) : \A P : Around(K, P, cell) =>
       img[cell] = t[LastOnPath(t, P)].mean

LEMMA Drawn ==
  ASSUME NEW K \in Nat, NEW s, FullTree(s), DOMAIN s \subseteq Short(K),
         NEW t, DOMAIN t = DOMAIN s, NEW before
  PROVE  Draws(makeimg(t, 2 ^ K, before), t, K)
<1>1. PICK n \in Nat : n = 2 ^ K
  BY PowersOfTwo
<1>2. PICK img : img = makeimg(t, n, before)
  OBVIOUS
<1>3. img = [cell \in Grid(n) |->
               IF Painting(t, n, cell) = {} THEN before[cell]
               ELSE t[CHOOSE p \in Painting(t, n, cell) : TRUE].mean]
  BY <1>1, <1>2, RootCells DEF makeimg
<1>4. ASSUME NEW cell \in Grid(n), NEW P, Around(K, P, cell)
      PROVE  img[cell] = t[LastOnPath(t, P)].mean
  <2>1. PICK l : l = LastOnPath(t, P)
    OBVIOUS
  <2>2. Painting(t, n, cell) = {l}
    BY <1>1, <1>4, <2>1, Painted
  <2>3. (CHOOSE p \in {l} : TRUE) = l
    OBVIOUS
  <2>4. {l} # {}
    OBVIOUS
  <2> QED BY <1>3, <2>1, <2>2, <2>3, <2>4
<1>5. DOMAIN img = Grid(n) /\ img = [cell \in Grid(n) |-> img[cell]]
  BY <1>3
<1> QED BY <1>1, <1>2, <1>4, <1>5 DEF Draws

UnderSplits(img, prag) ==
  {p \in Paths(Side(img)) :
     \A k \in 0..(Len(p) - 1) : SubSeq(p, 1, k) \in Splitting(img, prag)}

LEMMA MadeDomain ==
  ASSUME NEW img, IsImage(img), NEW prag \in Nat
  PROVE  DOMAIN maketree(img, prag) = UnderSplits(img, prag)
BY MadeNodes DEF UnderSplits

LEMMA MadeShort ==
  ASSUME NEW K \in Nat, NEW img, IsImage(img), Side(img) = 2 ^ K, NEW prag \in Nat
  PROVE  /\ FullTree(maketree(img, prag)) /\ DOMAIN maketree(img, prag) \subseteq Short(K)
         /\ img \in [Grid(2 ^ K) -> Colours]
<1>1. PICK t, n : t = maketree(img, prag) /\ n = 2 ^ K
  OBVIOUS
<1>2. n \in Nat /\ n # 0 /\ Depth(n) = K
  BY <1>1, DepthPower
<1>3. DOMAIN t = {p \in Paths(n) :
                    \A k \in 0..(Len(p) - 1) : SubSeq(p, 1, k) \in Splitting(img, prag)}
  <2>1. DOMAIN t = {p \in Paths(Side(img)) :
                      \A k \in 0..(Len(p) - 1) : SubSeq(p, 1, k) \in Splitting(img, prag)}
    BY <1>1, MadeNodes
  <2> QED BY <1>1, <2>1
<1>4. DOMAIN t \subseteq Short(K)
  BY <1>2, <1>3, PathsAre DEF Short
<1>5. FullTree(t)
  BY <1>1, MadeTree
<1>6. img \in [Grid(n) -> Colours]
  BY <1>1, <1>2, ImageGrid
<1> QED BY <1>1, <1>4, <1>5, <1>6

(* A leaf's block is drawn in one colour.                                  *)
LEMMA LeafBlock ==
  ASSUME NEW K \in Nat, NEW t, FullTree(t), DOMAIN t \subseteq Short(K), NEW before,
         NEW l \in DOMAIN t, IsLeaf(t, l), NEW cell \in Cells(Block(2 ^ K, l))
  PROVE  makeimg(t, 2 ^ K, before)[cell] = t[l].mean
<1>1. PICK n \in Nat : n = 2 ^ K
  BY PowersOfTwo
<1>2. l \in Places /\ Len(l) <= K
  BY DEF Short
<1>3. cell \in Grid(n)
  BY <1>1, <1>2, BlockInImage
<1>4. PICK P : Around(K, P, cell)
  BY <1>1, <1>3, PathAround
<1>5. P \in Places /\ Len(P) = K /\ l = SubSeq(P, 1, Len(l))
  BY <1>2, <1>4 DEF Around
<1>6. PICK m : m = LastOnPath(t, P)
  OBVIOUS
<1>7. m = l
  <2>1. PICK k \in 0..K : /\ m = SubSeq(P, 1, k)
                          /\ \A j \in 0..K : SubSeq(P, 1, j) \in DOMAIN t /\ IsLeaf(t, SubSeq(P, 1, j)) => j = k
    BY <1>5, <1>6, LastLeaf
  <2>2. PICK j : j = Len(l)
    OBVIOUS
  <2>3. j \in 0..K
    BY <1>2, <2>2, PrefixFull
  <2>4. j = k
    BY <1>5, <2>1, <2>2, <2>3
  <2> QED BY <1>5, <2>1, <2>2, <2>4
<1>8. makeimg(t, n, before)[cell] = t[m].mean
  <2>1. PICK img : img = makeimg(t, 2 ^ K, before)
    OBVIOUS
  <2>2. \A c \in Grid(2 ^ K) : \A Q : Around(K, Q, c) => img[c] = t[LastOnPath(t, Q)].mean
    <3>1. Draws(img, t, K)
      BY <2>1, Drawn
    <3> QED BY <3>1 DEF Draws
  <2>3. img[cell] = t[m].mean
    BY <1>1, <1>3, <1>4, <1>6, <2>2
  <2> QED BY <1>1, <2>1, <2>3
<1> QED BY <1>1, <1>7, <1>8

(* Where the first tree ends the drawn image has one colour, and its own   *)
(* tree ends there too.                                                    *)
LEMMA NeverGrows ==
  ASSUME NEW K \in Nat, NEW of, IsImage(of), Side(of) = 2 ^ K, NEW prag \in Nat,
         NEW before, NEW img, img = makeimg(maketree(of, prag), 2 ^ K, before),
         IsImage(img)
  PROVE  DOMAIN maketree(img, prag) \subseteq DOMAIN maketree(of, prag)
<1>1. PICK t, o, n : t = maketree(of, prag) /\ o = maketree(img, prag) /\ n = 2 ^ K
  OBVIOUS
<1>2. FullTree(t) /\ DOMAIN t \subseteq Short(K)
  BY <1>1, MadeShort
<1>3. n \in Nat /\ n # 0
  BY <1>1, DepthPower
<1>4. Side(img) = n
  <2>1. DOMAIN img = Grid(n)
    <3>1. Draws(img, t, K)
      BY <1>1, <1>2, Drawn
    <3> QED BY <1>1, <3>1 DEF Draws
  <2> QED BY <1>3, <2>1, SideOfGrid
<1>5. DOMAIN o = {p \in Paths(n) :
                    \A k \in 0..(Len(p) - 1) : SubSeq(p, 1, k) \in Splitting(img, prag)}
  <2>1. DOMAIN o = {p \in Paths(Side(img)) :
                      \A k \in 0..(Len(p) - 1) : SubSeq(p, 1, k) \in Splitting(img, prag)}
    <3>1. DOMAIN maketree(img, prag) = UnderSplits(img, prag)
      BY MadeDomain
    <3> QED BY <1>1, <3>1 DEF UnderSplits
  <2> QED BY <1>4, <2>1
<1>6. ASSUME NEW p \in DOMAIN o
      PROVE  p \in DOMAIN t
  <2>1. p \in Places
    BY <1>3, <1>5, PathsAre
  <2>2. PICK m \in Nat : m = Len(p)
    BY <2>1, PrefixFull
  <2>3. PICK k \in 0..m : /\ SubSeq(p, 1, k) \in DOMAIN t
                          /\ k # m => IsLeaf(t, SubSeq(p, 1, k))
    BY <1>2, <2>1, <2>2, LastLeaf
  <2>4. CASE k = m
    BY <2>1, <2>2, <2>3, <2>4, PrefixFull
  <2>5. CASE k # m
    <3>1. PICK l, b : l = SubSeq(p, 1, k) /\ b = Block(n, l)
      OBVIOUS
    <3>2. l \in DOMAIN t /\ IsLeaf(t, l) /\ l \in Places /\ Len(l) <= K
      BY <1>2, <2>3, <2>5, <3>1 DEF Short
    <3>3. b \in Boxes /\ b.dist # 0
      BY <1>1, <3>1, <3>2, BlockPower
    <3>4. PICK v : v = t[l].mean
      OBVIOUS
    <3>5. v \in Colours
      BY <1>2, <3>2, <3>4 DEF FullTree, Nodes
    <3>6. \A cell \in Cells(b) : img[cell] = v
      BY <1>1, <1>2, <3>1, <3>2, <3>4, LeafBlock
    <3>7. score(img, b) = 0
      BY <3>3, <3>5, <3>6, ConstantBlock
    <3>8. l \in Splitting(img, prag)
      <4>1. k \in 0..(m - 1)
        BY <2>5
      <4> QED BY <1>5, <2>2, <3>1, <4>1
    <3>9. score(img, b) > prag
      BY <1>4, <3>1, <3>8 DEF Splitting
    <3> QED BY <3>7, <3>9
  <2> QED BY <2>4, <2>5
<1> QED BY <1>1, <1>6

(* What is decompressed has, at each leaf of the tree it was compressed    *)
(* to, a block of one colour; compressing it again with the same factor    *)
(* never needs a node more, for every image whose side is a power of two.  *)
THEOREM NeverMoreNodes == Spec => []RepackingNeverGrows
<1>1. IInv => RepackingNeverGrows
  <2> SUFFICES ASSUME IInv, NEW f \in ImageFiles, made[f].by = "decompression",
                      PowerOfTwo(Side(made[f].of))
               PROVE  DOMAIN maketree(image[f], made[f].factor)
                        \subseteq DOMAIN maketree(made[f].of, made[f].factor)
    BY DEF RepackingNeverGrows
  <2>1. PICK how, img : how = made[f] /\ img = image[f]
    OBVIOUS
  <2>2. IsImage(img) /\ Drawing(img, how) /\ how.by = "decompression"
    BY <2>1 DEF IInv
  <2>3. Sourced(how) /\ \E junk : img = makeimg(TreeOf(how), Side(how.of), junk)
    BY <2>2 DEF Drawing
  <2>4. PICK junk : img = makeimg(TreeOf(how), Side(how.of), junk)
    BY <2>3
  <2>5. PICK K \in Nat : Side(how.of) = 2 ^ K
    BY <2>1 DEF PowerOfTwo
  <2>6. PICK of, prag : of = how.of /\ prag = how.factor
    OBVIOUS
  <2>7. IsImage(of) /\ prag \in Nat /\ Side(of) = 2 ^ K /\ img = makeimg(maketree(of, prag), 2 ^ K, junk)
    BY <2>3, <2>4, <2>5, <2>6 DEF Sourced, TreeOf
  <2>8. DOMAIN maketree(img, prag) \subseteq DOMAIN maketree(of, prag)
    BY <2>2, <2>7, NeverGrows
  <2> QED BY <2>1, <2>6, <2>8
<1> QED BY <1>1, SpecIInv, PTL
-----------------------------------------------------------------------------
(* The squares of the promise are the blocks of the tree.                  *)
LEMMA Multiples ==
  ASSUME NEW a \in Nat, NEW b \in Nat, NEW s \in Nat
  PROVE  /\ a <= b => a * s <= b * s
         /\ (a + 1) * s = a * s + s /\ a * s \in Nat
         /\ s # 0 => a <= a * s
         /\ b * s <= a * s /\ a * s < b * s + s => a = b
<1>1. \A x, y \in Nat : x * y \in Nat /\ (x + 1) * y = x * y + y
  OBVIOUS
<1>2. \A x, y, z \in Nat : (x + z) * y = x * y + z * y
  OBVIOUS
<1>3. ASSUME NEW x \in Nat, NEW y \in Nat, x <= y
      PROVE  x * s <= y * s
  <2>1. PICK d \in Nat : y = x + d
    <3>1. y - x \in Nat /\ y = x + (y - x)
      BY <1>3
    <3> QED BY <3>1
  <2>2. y * s = x * s + d * s
    BY <1>2, <2>1
  <2>3. PICK i, j : i = x * s /\ j = d * s
    OBVIOUS
  <2>4. i \in Nat /\ j \in Nat
    BY <1>1, <2>3
  <2>5. i <= i + j
    BY <2>4
  <2> QED BY <2>2, <2>3, <2>5
<1>4. ASSUME s # 0
      PROVE  a <= a * s
  <2>1. PICK r \in Nat : s = 1 + r
    <3>1. s - 1 \in Nat /\ s = 1 + (s - 1)
      BY <1>4
    <3> QED BY <3>1
  <2>2. a * (1 + r) = a + a * r
    OBVIOUS
  <2>3. PICK i : i = a * r
    OBVIOUS
  <2>4. i \in Nat
    BY <1>1, <2>3
  <2> QED BY <2>1, <2>2, <2>3, <2>4
<1>5. ASSUME b * s <= a * s, a * s < b * s + s
      PROVE  a = b
  <2>1. PICK i, j : i = a * s /\ j = b * s
    OBVIOUS
  <2>2. i \in Nat /\ j \in Nat /\ j <= i /\ i < j + s
    BY <1>1, <1>5, <2>1
  <2>3. ASSUME a < b
        PROVE  FALSE
    <3>1. a + 1 \in Nat /\ a + 1 <= b
      BY <2>3
    <3>2. (a + 1) * s <= b * s
      BY <1>3, <3>1
    <3>3. i + s <= j
      BY <1>1, <2>1, <3>2
    <3>4. s = 0
      BY <2>2, <3>3
    <3> QED BY <2>2, <3>4
  <2>4. ASSUME b < a
        PROVE  FALSE
    <3>1. b + 1 \in Nat /\ b + 1 <= a
      BY <2>4
    <3>2. (b + 1) * s <= a * s
      BY <1>3, <3>1
    <3>3. j + s <= i
      BY <1>1, <2>1, <3>2
    <3> QED BY <2>2, <3>3
  <2> QED BY <2>3, <2>4
<1> QED BY <1>1, <1>3, <1>4, <1>5

LEMMA BlockCorner ==
  ASSUME NEW K \in Nat, NEW p \in Places, Len(p) <= K
  PROVE  \E i, j \in Nat : /\ Block(2 ^ K, p).x = i * Block(2 ^ K, p).dist
                           /\ Block(2 ^ K, p).y = j * Block(2 ^ K, p).dist
<1>1. PICK n \in Nat : n = 2 ^ K
  BY PowersOfTwo
<1> DEFINE At(b) == \E i, j \in Nat : b.x = i * b.dist /\ b.y = j * b.dist
           P == {r \in Places : Len(r) <= K => At(Block(n, r))}
<1> HIDE DEF At
<1>2. <<>> \in P
  <2>1. <<>> \in Places
    BY EmptySeq DEF Places
  <2>2. PICK b : b = Block(n, <<>>)
    OBVIOUS
  <2>3. b.x = 0 /\ b.y = 0 /\ b.dist = n
    BY <1>1, <2>2, BlockRoot DEF Whole
  <2>4. 0 * n = 0
    OBVIOUS
  <2>5. At(b)
    BY <2>3, <2>4 DEF At
  <2> QED BY <2>1, <2>2, <2>5
<1>3. ASSUME NEW r \in Places, NEW q \in Quadrants, r \in P
      PROVE  Append(r, q) \in P
  <2>1. PICK s : s = Append(r, q)
    OBVIOUS
  <2>2. s \in Places /\ Len(s) = Len(r) + 1 /\ Len(r) \in Nat
    BY <2>1, PrefixOfChild, PrefixFull
  <2>3. ASSUME Len(s) <= K
        PROVE  At(Block(n, s))
    <3>1. Len(r) <= K /\ Len(r) < K
      BY <2>2, <2>3
    <3>2. PICK b, c : b = Block(n, r) /\ c = Block(n, s)
      OBVIOUS
    <3>3. b \in Boxes /\ c = Quarter(b, q)
      BY <2>1, <3>2, BlockChild
    <3>4. PICK h \in Nat : b.dist = 2 * h
      BY <1>1, <3>1, <3>2, BlockPower
    <3>5. PICK i \in Nat, j \in Nat : b.x = i * (2 * h) /\ b.y = j * (2 * h)
      BY <1>3, <3>1, <3>2, <3>4 DEF At
    <3>6. /\ c.dist = h /\ (c.x = b.x \/ c.x = b.x + h) /\ (c.y = b.y \/ c.y = b.y + h)
      <4>1. h = b.dist \div 2
        BY <3>4
      <4> QED BY <3>3, <4>1, QuarterParts
    <3>7. \A m \in Nat : m * (2 * h) = (2 * m) * h /\ m * (2 * h) + h = (2 * m + 1) * h
      OBVIOUS
    <3>8. \E m \in Nat : c.x = m * h
      <4>1. c.x = (2 * i) * h \/ c.x = (2 * i + 1) * h
        BY <3>5, <3>6, <3>7
      <4>2. 2 * i \in Nat /\ 2 * i + 1 \in Nat
        OBVIOUS
      <4> QED BY <4>1, <4>2
    <3>9. \E m \in Nat : c.y = m * h
      <4>1. c.y = (2 * j) * h \/ c.y = (2 * j + 1) * h
        BY <3>5, <3>6, <3>7
      <4>2. 2 * j \in Nat /\ 2 * j + 1 \in Nat
        OBVIOUS
      <4> QED BY <4>1, <4>2
    <3>10. At(c)
      BY <3>6, <3>8, <3>9 DEF At
    <3> QED BY <3>2, <3>10
  <2> QED BY <2>1, <2>2, <2>3
<1>4. Places \subseteq P
  <2> HIDE DEF P
  <2> QED BY <1>2, <1>3, PathInduction
<1>5. At(Block(n, p))
  BY <1>4
<1> QED BY <1>1, <1>5 DEF At

LEMMA SquaresAre ==
  ASSUME NEW K \in Nat
  PROVE  Squares(2 ^ K) = {Cells(Block(2 ^ K, p)) : p \in Short(K)}
<1>1. PICK n : n = 2 ^ K
  OBVIOUS
<1>2. n \in Nat \ {0} /\ K <= n
  <2>1. Depth(n) = K /\ n \in Nat \ {0}
    BY <1>1, DepthPower
  <2> QED BY <2>1, DepthOfSide
<1> DEFINE Fits(k) == {i \in 0..n - 1 : (i + 1) * 2 ^ k <= n}
<1>3. Squares(n) = UNION {{Tile(2 ^ k, i, j) : i \in Fits(k), j \in Fits(k)} : k \in 0..n}
  BY DEF Squares
<1>4. ASSUME NEW p \in Short(K)
      PROVE  Cells(Block(n, p)) \in Squares(n)
  <2>1. p \in Places /\ Len(p) \in Nat /\ Len(p) <= K
    BY PrefixFull DEF Short
  <2>2. PICK b, k, s : b = Block(n, p) /\ k = K - Len(p) /\ s = 2 ^ k
    OBVIOUS
  <2>3. k \in 0..n /\ k \in Nat
    BY <1>2, <2>1, <2>2
  <2>4. b.dist = s /\ s \in Nat \ {0}
    BY <1>1, <2>1, <2>2, BlockPower
  <2>5. PICK i \in Nat, j \in Nat : b.x = i * s /\ b.y = j * s
    <3>1. /\ p \in Places /\ Len(p) <= K
          /\ \E c, d \in Nat : /\ Block(2 ^ K, p).x = c * Block(2 ^ K, p).dist
                              /\ Block(2 ^ K, p).y = d * Block(2 ^ K, p).dist
      BY <2>1, BlockCorner
    <3>2. \E c, d \in Nat : b.x = c * b.dist /\ b.y = d * b.dist
      BY <1>1, <2>2, <3>1
    <3> QED BY <2>4, <3>2
  <2>6. i * s + s <= n /\ j * s + s <= n
    <3>1. b.x + b.dist <= n /\ b.y + b.dist <= n
      BY <1>2, <2>1, <2>2, BlockDist
    <3> QED BY <2>4, <2>5, <3>1
  <2>7. i \in Fits(k) /\ j \in Fits(k)
    <3>1. ASSUME NEW m \in Nat, m * s + s <= n
          PROVE  m \in 0..n - 1 /\ (m + 1) * s <= n
      <4>1. (m + 1) * s = m * s + s /\ m + 1 \in Nat
        BY <2>4, Multiples
      <4>2. m + 1 <= (m + 1) * s
        BY <2>4, <4>1, Multiples
      <4>3. PICK a : a = (m + 1) * s
        OBVIOUS
      <4>4. a \in Nat
        BY <2>4, <4>1, <4>3
      <4>5. m + 1 <= a /\ a <= n
        BY <3>1, <4>1, <4>2, <4>3
      <4>6. m + 1 <= n
        BY <1>2, <4>4, <4>5
      <4> QED BY <1>2, <4>3, <4>5, <4>6
    <3> QED BY <2>2, <2>6, <3>1
  <2>8. Cells(b) = Tile(2 ^ k, i, j)
    BY <2>2, <2>4, <2>5 DEF Cells, Tile
  <2> HIDE DEF Fits
  <2> QED BY <1>3, <2>2, <2>3, <2>7, <2>8
<1>5. ASSUME NEW k \in 0..n, NEW i \in Fits(k), NEW j \in Fits(k)
      PROVE  \E p \in Short(K) : Tile(2 ^ k, i, j) = Cells(Block(n, p))
  <2>1. PICK s : s = 2 ^ k
    OBVIOUS
  <2>2. s \in Nat \ {0} /\ k \in Nat /\ i \in Nat /\ j \in Nat
    BY <1>2, <2>1, PowersOfTwo
  <2>3. PICK x, y : x = i * s /\ y = j * s
    OBVIOUS
  <2>4. x \in Nat /\ y \in Nat /\ x + s <= n /\ y + s <= n
    <3>1. (i + 1) * s <= n /\ (j + 1) * s <= n
      BY <2>1
    <3>2. (i + 1) * s = x + s /\ (j + 1) * s = y + s /\ x \in Nat /\ y \in Nat
      BY <2>2, <2>3, Multiples
    <3> QED BY <3>1, <3>2
  <2>5. k <= K
    <3> SUFFICES ASSUME K < k PROVE FALSE
      BY <2>2
    <3>1. n < s
      BY <1>1, <2>1, <2>2, PowerGrows
    <3> QED BY <1>2, <2>2, <2>4, <3>1
  <2>6. PICK cell : cell = <<x, y>>
    OBVIOUS
  <2>7. cell \in Grid(n)
    <3>1. x \in 0..n - 1 /\ y \in 0..n - 1
      BY <1>2, <2>2, <2>4
    <3> QED BY <2>6, <3>1 DEF Grid
  <2>8. PICK P : Around(K, P, cell)
    BY <1>1, <2>7, PathAround
  <2>9. PICK m \in 0..K : m = K - k
    BY <2>2, <2>5
  <2>10. PICK p, b : p = SubSeq(P, 1, m) /\ b = Block(n, p)
    OBVIOUS
  <2>11. p \in Places /\ Len(p) = m
    BY <2>8, <2>10, PrefixOf DEF Around
  <2>12. cell \in Cells(b)
    <3>1. Len(p) <= K /\ p = SubSeq(P, 1, Len(p))
      BY <2>10, <2>11
    <3> QED BY <1>1, <2>8, <2>10, <2>11, <3>1 DEF Around
  <2>13. b.dist = s
    <3>1. p \in Places /\ Len(p) <= K
      BY <2>11
    <3>2. Block(2 ^ K, p).dist = 2 ^ (K - Len(p))
      BY <3>1, BlockPower
    <3>3. K - Len(p) = k
      BY <2>2, <2>9, <2>11
    <3> QED BY <1>1, <2>1, <2>10, <3>2, <3>3
  <2>14. PICK h \in Nat, g \in Nat : b.x = h * s /\ b.y = g * s
    <3>1. Len(p) <= K
      BY <2>11
    <3> QED BY <1>1, <2>10, <2>11, <2>13, <3>1, BlockCorner
  <2>15. x \in b.x .. b.x + s - 1 /\ y \in b.y .. b.y + s - 1
    BY <2>6, <2>12, <2>13, CellIn
  <2>16. h = i /\ g = j
    <3>1. ASSUME NEW c \in Nat, NEW d \in Nat, c * s \in d * s .. d * s + s - 1
          PROVE  d = c
      <4>1. PICK e, f : e = c * s /\ f = d * s
        OBVIOUS
      <4>2. e \in Nat /\ f \in Nat
        BY <2>2, <4>1, Multiples
      <4>3. f <= e /\ e < f + s
        BY <2>2, <3>1, <4>1, <4>2
      <4> QED BY <2>2, <4>1, <4>3, Multiples
    <3> QED BY <2>2, <2>3, <2>14, <2>15, <3>1
  <2>17. Tile(2 ^ k, i, j) = Cells(b)
    BY <2>1, <2>13, <2>14, <2>16 DEF Tile, Cells
  <2>18. p \in Short(K)
    BY <2>11 DEF Short
  <2> QED BY <2>10, <2>17, <2>18
<1> HIDE DEF Fits
<1>6. Squares(n) = {Cells(Block(n, p)) : p \in Short(K)}
  BY <1>3, <1>4, <1>5
<1> QED BY <1>1, <1>6

-----------------------------------------------------------------------------
(* What the promise calls the average and the error of a square are the    *)
(* mean and the score of its block.                                        *)
LEMMA ErrorIs ==
  ASSUME NEW m \in Colours, NEW v \in Colours
  PROVE  SumFunction([c \in Channels |-> (v[c] - m[c]) * (v[c] - m[c])]) = SpreadOf(m, v)
<1>1. PICK f : f = [c \in Channels |-> (v[c] - m[c]) * (v[c] - m[c])]
  OBVIOUS
<1>2. \A c \in Channels : m[c] \in 0..255 /\ v[c] \in 0..255
  BY DEF Colours
<1>3. ASSUME NEW c \in Channels
      PROVE  f[c] = (m[c] - v[c]) * (m[c] - v[c]) /\ f[c] \in Nat
  <2>1. PICK i \in 0..255, j \in 0..255 : i = m[c] /\ j = v[c]
    BY <1>2
  <2>2. (j - i) * (j - i) = (i - j) * (i - j)
    <3>1. PICK d \in Int : d = i - j
      OBVIOUS
    <3>2. j - i = -d
      BY <3>1
    <3>3. (-d) * (-d) = d * d
      OBVIOUS
    <3> QED BY <3>1, <3>2, <3>3
  <2>3. f[c] = (j - i) * (j - i)
    BY <1>1, <2>1
  <2>4. f[c] \in Nat
    <3>1. f[c] \in 0..Widest
      BY <2>3, DifferenceSquared
    <3>2. Widest \in Nat
      BY DEF Widest
    <3> QED BY <3>1, <3>2
  <2> QED BY <2>1, <2>2, <2>3, <2>4
<1>4. DOMAIN f = {"red", "green", "blue"} /\ "red" \in Channels /\ "green" \in Channels /\ "blue" \in Channels
  BY <1>1 DEF Channels
<1>5. f["red"] \in Nat /\ f["green"] \in Nat /\ f["blue"] \in Nat
  BY <1>3, <1>4
<1>6. SumFunction(f) = f["red"] + f["green"] + f["blue"]
  BY <1>4, <1>5, SumThree
<1>7. /\ f["red"] = (m.red - v.red) * (m.red - v.red)
      /\ f["green"] = (m.green - v.green) * (m.green - v.green)
      /\ f["blue"] = (m.blue - v.blue) * (m.blue - v.blue)
  BY <1>3, <1>4
<1> QED BY <1>1, <1>6, <1>7 DEF SpreadOf

LEMMA AverageIs ==
  ASSUME NEW img, NEW b \in Boxes, b.dist # 0,
         \A cell \in Cells(b) : img[cell] \in Colours
  PROVE  /\ Average(img, Cells(b)) = getmed(img, b)
         /\ MeanError(img, Cells(b), getmed(img, b)) = score(img, b)
<1>1. Average(img, Cells(b)) = getmed(img, b)
  BY CellsCounted DEF Average, getmed
<1>2. PICK m : m = getmed(img, b)
  OBVIOUS
<1>3. m \in Colours
  BY <1>2, MeanTyped
<1> DEFINE E == [cell \in Cells(b) |->
                   SumFunction([c \in Channels |-> (img[cell][c] - m[c]) * (img[cell][c] - m[c])])]
<1>4. \A cell \in Cells(b) : E[cell] = SpreadOf(m, img[cell])
  BY <1>3, ErrorIs
<1>5. E = Spreads(img, b)
  BY <1>2, <1>4 DEF Spreads
<1>6. MeanError(img, Cells(b), m) = SumFunction(E) \div (3 * Cardinality(Cells(b)))
  BY DEF MeanError
<1>7. score(img, b) = SumFunction(Spreads(img, b)) \div (3 * Cardinality(Cells(b)))
  BY ScoreIs
<1> QED BY <1>1, <1>2, <1>5, <1>6, <1>7

(* The largest allowed square around a pixel is the block of the leaf that *)
(* paints it: the blocks above were split, this one was not.               *)
LEMMA LeafAllowed ==
  ASSUME NEW K \in Nat, NEW img, IsImage(img), Side(img) = 2 ^ K, NEW prag \in Nat,
         NEW t, t = maketree(img, prag), NEW P \in Places, Len(P) = K,
         NEW k \in 0..K, SubSeq(P, 1, k) \in DOMAIN t, k # K => IsLeaf(t, SubSeq(P, 1, k))
  PROVE  /\ score(img, Block(2 ^ K, SubSeq(P, 1, k))) <= prag
         /\ \A j \in 0..K : score(img, Block(2 ^ K, SubSeq(P, 1, j))) <= prag => k <= j
<1>1. PICK n : n = 2 ^ K
  OBVIOUS
<1>2. n \in Nat \ {0} /\ Depth(n) = K /\ Side(img) = n
  BY <1>1, DepthPower
<1>3. Paths(n) = Short(K)
  BY <1>2, PathsAre DEF Short
<1>4. ASSUME NEW j \in 0..K
      PROVE  /\ SubSeq(P, 1, j) \in Places /\ Len(SubSeq(P, 1, j)) = j
             /\ SubSeq(P, 1, j) \in Paths(n)
             /\ score(img, Block(n, SubSeq(P, 1, j))) \in Nat
  <2>1. SubSeq(P, 1, j) \in Places /\ Len(SubSeq(P, 1, j)) = j
    BY PrefixOf
  <2>2. SubSeq(P, 1, j) \in Paths(n)
    BY <1>3, <2>1 DEF Short
  <2>3. PICK b : b = Block(n, SubSeq(P, 1, j))
    OBVIOUS
  <2>4. b \in Boxes /\ b.dist # 0 /\ \A cell \in Cells(b) : img[cell] \in Colours
    BY <1>2, <2>2, <2>3, PathBlock
  <2>5. score(img, b) \in Nat
    BY <2>4, ScoreIs
  <2> QED BY <2>1, <2>2, <2>3, <2>5
<1>5. PICK l : l = SubSeq(P, 1, k)
  OBVIOUS
<1>6. l \in Places /\ Len(l) = k /\ l \in Paths(n) /\ l \in DOMAIN t
  BY <1>4, <1>5
<1>7. \A p : p \in DOMAIN t <=>
         p \in Paths(n) /\ \A m \in 0..(Len(p) - 1) : SubSeq(p, 1, m) \in Splitting(img, prag)
  <2>1. DOMAIN maketree(img, prag) = UnderSplits(img, prag)
    BY MadeDomain
  <2> QED BY <1>2, <2>1 DEF UnderSplits
<1>8. ASSUME NEW j \in 0..K, j < k
      PROVE  SubSeq(P, 1, j) \in Splitting(img, prag)
  <2>1. j \in 0..(Len(l) - 1)
    BY <1>6, <1>8
  <2>2. SubSeq(l, 1, j) \in Splitting(img, prag)
    BY <1>6, <1>7, <2>1
  <2>3. SubSeq(l, 1, j) = SubSeq(P, 1, j)
    BY <1>5, <1>8, PrefixOfPrefix
  <2> QED BY <2>2, <2>3
<1>9. l \notin Splitting(img, prag)
  <2> SUFFICES ASSUME l \in Splitting(img, prag) PROVE FALSE
    OBVIOUS
  <2>1. Len(l) < K /\ Append(l, "top_right") \in Paths(n)
    <3>1. "top_right" \in Quadrants
      BY DEF Quadrants
    <3> QED BY <1>2, <3>1, SplitAbove
  <2>2. PICK p : p = Append(l, "top_right")
    OBVIOUS
  <2>3. /\ Len(p) = k + 1
        /\ \A m \in 0..k : SubSeq(p, 1, m) = SubSeq(l, 1, m)
    <3>1. "top_right" \in Quadrants
      BY DEF Quadrants
    <3> QED BY <1>6, <2>2, <3>1, PrefixOfChild
  <2>4. ASSUME NEW m \in 0..(Len(p) - 1)
        PROVE  SubSeq(p, 1, m) \in Splitting(img, prag)
    <3>1. m \in 0..k /\ m \in 0..K
      BY <2>3
    <3>2. CASE m = k
      <4>1. SubSeq(l, 1, m) = l
        BY <1>6, <3>2, PrefixFull
      <4> QED BY <2>3, <3>1, <4>1
    <3>3. CASE m # k
      <4>1. SubSeq(P, 1, m) \in Splitting(img, prag)
        BY <1>8, <3>1, <3>3
      <4>2. SubSeq(l, 1, m) = SubSeq(P, 1, m)
        BY <1>5, <3>1, PrefixOfPrefix
      <4> QED BY <2>3, <3>1, <4>1, <4>2
    <3> QED BY <3>2, <3>3
  <2>5. p \in DOMAIN t
    BY <1>7, <2>1, <2>2, <2>4
  <2>6. IsLeaf(t, l)
    BY <1>5, <1>6, <2>1
  <2> QED BY <2>2, <2>5, <2>6 DEF IsLeaf
<1>10. \A j \in 0..K : /\ SubSeq(P, 1, j) \in Splitting(img, prag)
                            <=> score(img, Block(n, SubSeq(P, 1, j))) > prag
  BY <1>2, <1>4 DEF Splitting
<1>11. score(img, Block(n, l)) <= prag
  <2>1. ~(score(img, Block(n, l)) > prag)
    BY <1>5, <1>9, <1>10
  <2> QED BY <1>4, <1>5, <2>1
<1>12. ASSUME NEW j \in 0..K, score(img, Block(n, SubSeq(P, 1, j))) <= prag
       PROVE  k <= j
  <2> SUFFICES ASSUME j < k PROVE FALSE
    OBVIOUS
  <2>1. score(img, Block(n, SubSeq(P, 1, j))) > prag
    BY <1>8, <1>10
  <2> QED BY <1>4, <1>12, <2>1
<1> QED BY <1>1, <1>5, <1>11, <1>12

LEMMA ApproximationIs ==
  ASSUME NEW K \in Nat, NEW img, IsImage(img), Side(img) = 2 ^ K, NEW prag \in Nat,
         NEW t, t = maketree(img, prag), NEW cell \in Grid(2 ^ K), NEW P, Around(K, P, cell)
  PROVE  Approximation(img, prag)[cell] = t[LastOnPath(t, P)].mean
<1>1. PICK n : n = 2 ^ K
  OBVIOUS
<1>2. n \in Nat \ {0} /\ Depth(n) = K /\ Side(img) = n
  BY <1>1, DepthPower
<1>3. Paths(n) = Short(K)
  BY <1>2, PathsAre DEF Short
<1>4. P \in Places /\ Len(P) = K
  BY DEF Around
<1>5. FullTree(t) /\ DOMAIN img = Grid(n)
  BY <1>1, MadeShort
<1>6. PICK k \in 0..K : /\ LastOnPath(t, P) = SubSeq(P, 1, k) /\ SubSeq(P, 1, k) \in DOMAIN t
                        /\ k # K => IsLeaf(t, SubSeq(P, 1, k))
  BY <1>4, <1>5, LastLeaf
<1>7. PICK l, b : l = SubSeq(P, 1, k) /\ b = Block(n, l)
  OBVIOUS
<1>8. /\ score(img, b) <= prag
      /\ \A j \in 0..K : score(img, Block(n, SubSeq(P, 1, j))) <= prag => k <= j
  BY <1>1, <1>4, <1>6, <1>7, LeafAllowed
<1>9. ASSUME NEW p \in Short(K)
      PROVE  /\ MeanError(img, Cells(Block(n, p)), Average(img, Cells(Block(n, p))))
                   = score(img, Block(n, p))
             /\ Average(img, Cells(Block(n, p))) = getmed(img, Block(n, p))
  <2>1. PICK c : c = Block(n, p)
    OBVIOUS
  <2>2. c \in Boxes /\ c.dist # 0 /\ \A i \in Cells(c) : img[i] \in Colours
    BY <1>2, <1>3, <2>1, PathBlock
  <2>3. Average(img, Cells(c)) = getmed(img, c) /\ MeanError(img, Cells(c), getmed(img, c)) = score(img, c)
    BY <2>2, AverageIs
  <2> QED BY <2>1, <2>3
<1>10. l \in Places /\ Len(l) = k /\ l \in Short(K) /\ l \in DOMAIN t
  <2>1. l \in Places /\ Len(l) = k
    BY <1>4, <1>7, PrefixOf
  <2> QED BY <1>6, <1>7, <2>1 DEF Short
<1>11. cell \in Cells(b)
  <2>1. Len(l) <= K /\ l = SubSeq(P, 1, Len(l))
    BY <1>7, <1>10
  <2> QED BY <1>1, <1>7, <1>10, <2>1 DEF Around
<1> DEFINE averaged == {[square |-> s, mean |-> Average(img, s)] : s \in Squares(n)}
           allowed == {a \in averaged : MeanError(img, a.square, a.mean) <= prag}
           A == {a \in allowed : cell \in a.square}
           top == [square |-> Cells(b), mean |-> getmed(img, b)]
<1>12. Squares(n) = {Cells(Block(n, p)) : p \in Short(K)}
  BY <1>1, SquaresAre
<1>13. ASSUME NEW o
       PROVE  o \in A <=> \E p \in Short(K) :
                /\ o = [square |-> Cells(Block(n, p)), mean |-> getmed(img, Block(n, p))]
                /\ score(img, Block(n, p)) <= prag /\ cell \in Cells(Block(n, p))
  <2>1. o \in averaged <=> \E p \in Short(K) :
          o = [square |-> Cells(Block(n, p)), mean |-> Average(img, Cells(Block(n, p)))]
    BY <1>12
  <2>2. o \in averaged <=> \E p \in Short(K) :
          o = [square |-> Cells(Block(n, p)), mean |-> getmed(img, Block(n, p))]
    BY <1>9, <2>1
  <2>3. ASSUME NEW p \in Short(K),
               o = [square |-> Cells(Block(n, p)), mean |-> getmed(img, Block(n, p))]
        PROVE  /\ o.square = Cells(Block(n, p))
               /\ MeanError(img, o.square, o.mean) = score(img, Block(n, p))
    <3>1. o.square = Cells(Block(n, p)) /\ o.mean = getmed(img, Block(n, p))
      BY <2>3
    <3>2. o.mean = Average(img, o.square)
      BY <1>9, <3>1
    <3> QED BY <1>9, <3>1, <3>2
  <2> HIDE DEF averaged
  <2> QED BY <2>2, <2>3
<1> HIDE DEF A, allowed, averaged
<1>14. top \in A
  BY <1>7, <1>8, <1>10, <1>11, <1>13
<1>15. ASSUME NEW o \in A
       PROVE  o.square \subseteq Cells(b)
  <2>1. PICK p \in Short(K) :
          /\ o = [square |-> Cells(Block(n, p)), mean |-> getmed(img, Block(n, p))]
          /\ score(img, Block(n, p)) <= prag /\ cell \in Cells(Block(n, p))
    BY <1>13, <1>15
  <2>2. p \in Places /\ Len(p) \in 0..K
    BY PrefixFull DEF Short
  <2>3. p = SubSeq(P, 1, Len(p))
    BY <1>1, <2>1, <2>2 DEF Around
  <2>4. k <= Len(p)
    BY <1>8, <2>1, <2>2, <2>3
  <2>5. SubSeq(p, 1, k) = l
    BY <1>4, <1>7, <2>2, <2>3, <2>4, PrefixOfPrefix
  <2>6. Cells(Block(n, p)) \subseteq Cells(Block(n, SubSeq(p, 1, k)))
    BY <1>2, <2>2, <2>4, NestedBlocks
  <2>7. o.square = Cells(Block(n, p))
    BY <2>1
  <2> QED BY <1>7, <2>5, <2>6, <2>7
<1>16. ASSUME NEW o \in A, \A e \in A : e.square \subseteq o.square
       PROVE  o.mean = getmed(img, b)
  <2>1. top.square = Cells(b) /\ top.square \subseteq o.square
    BY <1>14, <1>16
  <2>2. o.square = Cells(b)
    BY <1>15, <2>1
  <2>3. PICK p \in Short(K) : o = [square |-> Cells(Block(n, p)), mean |-> getmed(img, Block(n, p))]
    BY <1>13, <1>16
  <2>4. o.mean = getmed(img, Block(n, p)) /\ o.square = Cells(Block(n, p))
    BY <2>3
  <2>5. o.mean = Average(img, o.square)
    BY <1>9, <2>4
  <2>6. Average(img, Cells(b)) = getmed(img, b)
    BY <1>7, <1>9, <1>10
  <2> QED BY <2>2, <2>5, <2>6
<1>17. \E o \in A : \A e \in A : e.square \subseteq o.square
  <2>1. \A e \in A : e.square \subseteq top.square
    BY <1>15
  <2> QED BY <1>14, <2>1
<1>18. (CHOOSE a \in A : \A o \in A : o.square \subseteq a.square).mean = getmed(img, b)
  BY <1>16, <1>17
<1>19. Approximation(img, prag)[cell]
         = (CHOOSE a \in A : \A o \in A : o.square \subseteq a.square).mean
  BY <1>1, <1>2, <1>5 DEF Approximation, A, allowed, averaged
<1>20. t[l].mean = getmed(img, b)
  <2>1. \A p \in DOMAIN t :
          t[p] = [mean |-> getmed(img, Block(Side(img), p)),
                  area |-> Block(Side(img), p).dist * Block(Side(img), p).dist]
    BY MadeNodes
  <2>2. t[l].mean = getmed(img, Block(Side(img), l))
    BY <1>10, <2>1
  <2> QED BY <1>2, <1>7, <2>2
<1> QED BY <1>6, <1>7, <1>18, <1>19, <1>20

-----------------------------------------------------------------------------
(* What is drawn from the tree of an image is its approximation.           *)
LEMMA Approximates ==
  ASSUME NEW K \in Nat, NEW img, IsImage(img), Side(img) = 2 ^ K, NEW prag \in Nat,
         NEW before
  PROVE  makeimg(maketree(img, prag), 2 ^ K, before) = Approximation(img, prag)
<1>1. PICK t, d : t = maketree(img, prag) /\ d = makeimg(t, 2 ^ K, before)
  OBVIOUS
<1>2. FullTree(t) /\ DOMAIN t \subseteq Short(K) /\ DOMAIN img = Grid(2 ^ K)
  BY <1>1, MadeShort
<1>3. Draws(d, t, K)
  BY <1>1, <1>2, Drawn
<1>4. ASSUME NEW cell \in Grid(2 ^ K)
      PROVE  d[cell] = Approximation(img, prag)[cell]
  <2>1. PICK P : Around(K, P, cell)
    BY PathAround
  <2>2. d[cell] = t[LastOnPath(t, P)].mean
    BY <1>3, <2>1 DEF Draws
  <2>3. Approximation(img, prag)[cell] = t[LastOnPath(t, P)].mean
    BY <1>1, <2>1, ApproximationIs
  <2> QED BY <2>2, <2>3
<1>5. d = [cell \in Grid(2 ^ K) |-> d[cell]]
  BY <1>3 DEF Draws
<1>6. Approximation(img, prag) = [cell \in Grid(2 ^ K) |-> Approximation(img, prag)[cell]]
  BY <1>2 DEF Approximation
<1> QED BY <1>1, <1>4, <1>5, <1>6

(***************************************************************************)
(* compress and decompress, one after the other: the tree read back from   *)
(* the file is the one maketree built, whatever commands ran in between,   *)
(* and makeimg draws with it the approximation the factor allows.          *)
(***************************************************************************)
THEOREM Faithful == Spec => []DecompressionApproximates
<1>1. IInv => DecompressionApproximates
  <2> SUFFICES ASSUME IInv, NEW f \in ImageFiles, made[f].by = "decompression",
                      PowerOfTwo(Side(made[f].of))
               PROVE  image[f] = Approximation(made[f].of, made[f].factor)
    BY DEF DecompressionApproximates
  <2>1. PICK how, img : how = made[f] /\ img = image[f]
    OBVIOUS
  <2>2. Drawing(img, how) /\ how.by = "decompression"
    BY <2>1 DEF IInv
  <2>3. Sourced(how) /\ \E junk : img = makeimg(TreeOf(how), Side(how.of), junk)
    BY <2>2 DEF Drawing
  <2>4. PICK junk : img = makeimg(TreeOf(how), Side(how.of), junk)
    BY <2>3
  <2>5. PICK K \in Nat : Side(how.of) = 2 ^ K
    BY <2>1 DEF PowerOfTwo
  <2>6. PICK of, prag : of = how.of /\ prag = how.factor
    OBVIOUS
  <2>7. IsImage(of) /\ prag \in Nat /\ Side(of) = 2 ^ K /\ img = makeimg(maketree(of, prag), 2 ^ K, junk)
    BY <2>3, <2>4, <2>5, <2>6 DEF Sourced, TreeOf
  <2>8. img = Approximation(of, prag)
    BY <2>7, Approximates
  <2> QED BY <2>1, <2>6, <2>8
<1> QED BY <1>1, SpecIInv, PTL

-----------------------------------------------------------------------------
(* The node a path ends in.                                                *)
LEMMA LastIs ==
  ASSUME NEW t, FullTree(t), NEW P \in Places
  PROVE  \E k \in 0..Len(P) :
           /\ LastOnPath(t, P) = SubSeq(P, 1, k) /\ SubSeq(P, 1, k) \in DOMAIN t
           /\ \A j \in 0..Len(P) : SubSeq(P, 1, j) \in DOMAIN t => j <= k
<1>1. /\ LastOnPath(t, P) \in Prefixes(P) /\ LastOnPath(t, P) \in DOMAIN t
      /\ \A b \in Prefixes(P) \cap DOMAIN t : Len(b) <= Len(LastOnPath(t, P))
  BY LastOnPathIs
<1>2. Prefixes(P) = {SubSeq(P, 1, n) : n \in 0..Len(P)}
  BY PrefixesOf
<1>3. PICK k \in 0..Len(P) : LastOnPath(t, P) = SubSeq(P, 1, k)
  BY <1>1, <1>2
<1>4. ASSUME NEW j \in 0..Len(P), SubSeq(P, 1, j) \in DOMAIN t
      PROVE  j <= k
  <2>1. Len(SubSeq(P, 1, j)) = j /\ Len(SubSeq(P, 1, k)) = k
    BY PrefixOf
  <2>2. SubSeq(P, 1, j) \in Prefixes(P) \cap DOMAIN t
    BY <1>2, <1>4
  <2>3. Len(SubSeq(P, 1, j)) <= Len(SubSeq(P, 1, k))
    BY <1>1, <1>3, <2>2
  <2> QED BY <2>1, <2>3
<1> QED BY <1>1, <1>3, <1>4

LEMMA RenamedParts ==
  ASSUME NEW swap, Swapping(swap), NEW p \in Places
  PROVE  /\ \A q \in Quadrants : swap[q] \in Quadrants
         /\ \A q \in Quadrants : RenamedBy(swap, Append(p, q)) = Append(RenamedBy(swap, p), swap[q])
         /\ \A k \in 0..Len(p) : RenamedBy(swap, SubSeq(p, 1, k)) = SubSeq(RenamedBy(swap, p), 1, k)
         /\ RenamedBy(swap, <<>>) = <<>>
<1>1. \A q \in Quadrants : swap[q] \in Quadrants
  BY DEF Swapping
<1>2. PICK r : r = RenamedBy(swap, p)
  OBVIOUS
<1>3. r \in Places /\ Len(r) = Len(p) /\ Len(p) \in Nat /\ \A i \in 1..Len(p) : r[i] = swap[p[i]]
  BY <1>2, RenamePlace, PrefixFull
<1>4. ASSUME NEW q \in Quadrants
      PROVE  RenamedBy(swap, Append(p, q)) = Append(r, swap[q])
  <2>1. PICK a, b, c : a = Append(p, q) /\ b = Append(r, swap[q]) /\ c = RenamedBy(swap, a)
    OBVIOUS
  <2>2. /\ a \in Places /\ Len(a) = Len(p) + 1 /\ a[Len(p) + 1] = q
        /\ \A k \in 1..Len(p) : a[k] = p[k]
    BY <2>1, PrefixOfChild
  <2>3. /\ b \in Places /\ Len(b) = Len(r) + 1 /\ b[Len(r) + 1] = swap[q]
        /\ \A k \in 1..Len(r) : b[k] = r[k]
    BY <1>1, <1>3, <2>1, PrefixOfChild
  <2>4. c \in Places /\ Len(c) = Len(a) /\ \A k \in 1..Len(a) : c[k] = swap[a[k]]
    <3>1. /\ RenamedBy(swap, a) \in Places /\ Len(RenamedBy(swap, a)) = Len(a)
          /\ \A k \in 1..Len(a) : RenamedBy(swap, a)[k] = swap[a[k]]
      BY <2>2, RenamePlace
    <3> QED BY <2>1, <3>1
  <2>5. ASSUME NEW k \in 1..Len(c)
        PROVE  c[k] = b[k]
    <3>1. CASE k = Len(p) + 1
      BY <1>3, <2>2, <2>3, <2>4, <3>1
    <3>2. CASE k # Len(p) + 1
      <4>1. k \in 1..Len(p)
        BY <1>3, <2>2, <2>4, <3>2
      <4> QED BY <1>3, <2>2, <2>3, <2>4, <4>1
    <3> QED BY <3>1, <3>2
  <2>6. Len(c) = Len(b)
    BY <1>3, <2>2, <2>3, <2>4
  <2>7. c = b
    BY <2>3, <2>4, <2>5, <2>6, SamePlace
  <2> QED BY <2>1, <2>7
<1>5. ASSUME NEW k \in 0..Len(p)
      PROVE  RenamedBy(swap, SubSeq(p, 1, k)) = SubSeq(r, 1, k)
  <2>1. PICK a, b, c : a = SubSeq(p, 1, k) /\ b = SubSeq(r, 1, k) /\ c = RenamedBy(swap, a)
    OBVIOUS
  <2>2. a \in Places /\ Len(a) = k /\ \A i \in 1..k : a[i] = p[i]
    BY <2>1, PrefixOf
  <2>3. b \in Places /\ Len(b) = k /\ \A i \in 1..k : b[i] = r[i]
    BY <1>3, <2>1, PrefixOf
  <2>4. c \in Places /\ Len(c) = Len(a) /\ \A i \in 1..Len(a) : c[i] = swap[a[i]]
    <3>1. /\ RenamedBy(swap, a) \in Places /\ Len(RenamedBy(swap, a)) = Len(a)
          /\ \A i \in 1..Len(a) : RenamedBy(swap, a)[i] = swap[a[i]]
      BY <2>2, RenamePlace
    <3> QED BY <2>1, <3>1
  <2>5. \A i \in 1..Len(c) : c[i] = b[i]
    <3>1. 1..k \subseteq 1..Len(p)
      BY <1>3
    <3> QED BY <1>3, <2>2, <2>3, <2>4, <3>1
  <2>6. c = b
    BY <2>2, <2>3, <2>4, <2>5, SamePlace
  <2> QED BY <2>1, <2>6
<1>6. RenamedBy(swap, <<>>) = <<>>
  <2>1. <<>> \in Places /\ Len(<<>>) = 0
    BY EmptySeq DEF Places
  <2>2. RenamedBy(swap, <<>>) \in Places /\ Len(RenamedBy(swap, <<>>)) = 0
    BY <2>1, RenamePlace
  <2> QED BY <2>1, <2>2, SamePlace
<1> QED BY <1>1, <1>2, <1>4, <1>5, <1>6

-----------------------------------------------------------------------------
(* Renaming a path reflects its block: SwapH its columns, SwapV its rows.  *)
Reflects(way, n, b, c) ==
  /\ c.dist = b.dist
  /\ way = "h" => c.x = b.x /\ c.y + b.y + b.dist = n
  /\ way = "v" => c.y = b.y /\ c.x + b.x + b.dist = n

SwapOf(way) == IF way = "h" THEN SwapH ELSE SwapV

LEMMA QuarterReflects ==
  ASSUME NEW n \in Nat, NEW way \in {"h", "v"}, NEW b \in Boxes, NEW c \in Boxes,
         Reflects(way, n, b, c), NEW h \in Nat, b.dist = 2 * h, NEW q \in Quadrants
  PROVE  Reflects(way, n, Quarter(b, q), Quarter(c, SwapOf(way)[q]))
<1>1. PICK r : r = SwapOf(way)[q]
  OBVIOUS
<1>2. PICK d, e : d = Quarter(b, q) /\ e = Quarter(c, r)
  OBVIOUS
<1>3. /\ r \in Quadrants
      /\ way = "h" => /\ q \in {"bottom_left", "bottom_right"} <=> r \in {"bottom_left", "bottom_right"}
                      /\ q \in {"top_right", "bottom_right"} <=> r \notin {"top_right", "bottom_right"}
      /\ way = "v" => /\ q \in {"bottom_left", "bottom_right"} <=> r \notin {"bottom_left", "bottom_right"}
                      /\ q \in {"top_right", "bottom_right"} <=> r \in {"top_right", "bottom_right"}
  <2>1. CASE way = "h"
    BY <1>1, <2>1 DEF SwapOf, SwapH, Quadrants
  <2>2. CASE way = "v"
    BY <1>1, <2>2 DEF SwapOf, SwapV, Quadrants
  <2> QED BY <2>1, <2>2
<1>4. /\ c.dist = b.dist /\ h = b.dist \div 2 /\ h = c.dist \div 2
      /\ b.x \in Nat /\ b.y \in Nat /\ c.x \in Nat /\ c.y \in Nat
  BY DEF Reflects, Boxes
<1>5. /\ d.dist = h
      /\ d.x = IF q \in {"bottom_left", "bottom_right"} THEN b.x + h ELSE b.x
      /\ d.y = IF q \in {"top_right", "bottom_right"} THEN b.y + h ELSE b.y
  BY <1>2, <1>4, QuarterParts
<1>6. /\ e.dist = h
      /\ e.x = IF r \in {"bottom_left", "bottom_right"} THEN c.x + h ELSE c.x
      /\ e.y = IF r \in {"top_right", "bottom_right"} THEN c.y + h ELSE c.y
  BY <1>2, <1>3, <1>4, QuarterParts
<1>7. CASE way = "h"
  <2>1. c.x = b.x /\ c.y + b.y + 2 * h = n
    BY <1>7 DEF Reflects
  <2>2. e.x = d.x
    BY <1>3, <1>5, <1>6, <1>7, <2>1
  <2>3. e.y + d.y + h = n
    <3>1. \/ d.y = b.y + h /\ e.y = c.y
          \/ d.y = b.y /\ e.y = c.y + h
      BY <1>3, <1>5, <1>6, <1>7
    <3> QED BY <1>4, <2>1, <3>1
  <2> QED BY <1>1, <1>2, <1>5, <1>6, <1>7, <2>2, <2>3 DEF Reflects
<1>8. CASE way = "v"
  <2>1. c.y = b.y /\ c.x + b.x + 2 * h = n
    BY <1>8 DEF Reflects
  <2>2. e.y = d.y
    BY <1>3, <1>5, <1>6, <1>8, <2>1
  <2>3. e.x + d.x + h = n
    <3>1. \/ d.x = b.x + h /\ e.x = c.x
          \/ d.x = b.x /\ e.x = c.x + h
      BY <1>3, <1>5, <1>6, <1>8
    <3> QED BY <1>4, <2>1, <3>1
  <2> QED BY <1>1, <1>2, <1>5, <1>6, <1>8, <2>2, <2>3 DEF Reflects
<1> QED BY <1>7, <1>8

LEMMA SwapOfIs ==
  ASSUME NEW way \in {"h", "v"}
  PROVE  Swapping(SwapOf(way))
BY SwapsAre DEF SwapOf

LEMMA BlockReflects ==
  ASSUME NEW K \in Nat, NEW way \in {"h", "v"}, NEW p \in Places, Len(p) <= K
  PROVE  Reflects(way, 2 ^ K, Block(2 ^ K, p), Block(2 ^ K, RenamedBy(SwapOf(way), p)))
<1>1. PICK n \in Nat : n = 2 ^ K
  BY PowersOfTwo
<1>2. PICK swap : swap = SwapOf(way)
  OBVIOUS
<1>3. Swapping(swap)
  BY <1>2, SwapOfIs
<1> DEFINE P == {r \in Places : Len(r) <= K =>
                   Reflects(way, n, Block(n, r), Block(n, RenamedBy(swap, r)))}
<1>4. <<>> \in P
  <2>1. <<>> \in Places
    BY EmptySeq DEF Places
  <2>2. RenamedBy(swap, <<>>) = <<>>
    BY <1>3, <2>1, RenamedParts
  <2>3. Block(n, <<>>) = Whole(n)
    BY BlockRoot
  <2>4. Reflects(way, n, Whole(n), Whole(n))
    BY DEF Reflects, Whole
  <2> QED BY <2>1, <2>2, <2>3, <2>4
<1>5. ASSUME NEW r \in Places, NEW q \in Quadrants, r \in P
      PROVE  Append(r, q) \in P
  <2>1. PICK s : s = Append(r, q)
    OBVIOUS
  <2>2. s \in Places /\ Len(s) = Len(r) + 1 /\ Len(r) \in Nat
    BY <2>1, PrefixOfChild, PrefixFull
  <2>3. ASSUME Len(s) <= K
        PROVE  Reflects(way, n, Block(n, s), Block(n, RenamedBy(swap, s)))
    <3>1. Len(r) <= K /\ Len(r) < K
      BY <2>2, <2>3
    <3>2. PICK b, o, c : b = Block(n, r) /\ o = RenamedBy(swap, r) /\ c = Block(n, o)
      OBVIOUS
    <3>3. o \in Places /\ swap[q] \in Quadrants /\ RenamedBy(swap, s) = Append(o, swap[q])
      BY <1>3, <2>1, <3>2, RenamePlace, RenamedParts
    <3>4. b \in Boxes /\ Block(n, s) = Quarter(b, q)
      BY <2>1, <3>2, BlockChild
    <3>5. c \in Boxes /\ Block(n, Append(o, swap[q])) = Quarter(c, swap[q])
      BY <3>2, <3>3, BlockChild
    <3>6. PICK h \in Nat : b.dist = 2 * h
      BY <1>1, <3>1, <3>2, BlockPower
    <3>7. Reflects(way, n, b, c)
      BY <1>5, <3>1, <3>2
    <3>8. Reflects(way, n, Quarter(b, q), Quarter(c, swap[q]))
      BY <1>2, <3>4, <3>5, <3>6, <3>7, QuarterReflects
    <3> QED BY <3>3, <3>4, <3>5, <3>8
  <2> QED BY <2>1, <2>2, <2>3
<1>6. Places \subseteq P
  <2> HIDE DEF P
  <2> QED BY <1>4, <1>5, PathInduction
<1> QED BY <1>1, <1>2, <1>6

(* The pixel a pixel is reflected to.                                      *)
Reflection(way, n, cell) ==
  IF way = "h" THEN <<cell[1], n - 1 - cell[2]>> ELSE <<n - 1 - cell[1], cell[2]>>

LEMMA ReflectionIn ==
  ASSUME NEW n \in Nat, NEW way \in {"h", "v"}, NEW b \in Boxes, NEW c \in Boxes,
         Reflects(way, n, b, c), NEW cell \in Grid(n)
  PROVE  /\ Reflection(way, n, cell) \in Grid(n)
         /\ Reflection(way, n, cell) \in Cells(c) <=> cell \in Cells(b)
<1>1. PICK u \in 0..n - 1, v \in 0..n - 1 : cell = <<u, v>>
  BY DEF Grid
<1>2. /\ c.dist = b.dist
      /\ b.x \in Nat /\ b.y \in Nat /\ c.x \in Nat /\ c.y \in Nat /\ b.dist \in Nat
  BY DEF Reflects, Boxes
<1>3. cell \in Cells(b) <=> u \in b.x .. b.x + b.dist - 1 /\ v \in b.y .. b.y + b.dist - 1
  BY <1>1, CellIn
<1>4. CASE way = "h"
  <2>1. PICK w : w = n - 1 - v
    OBVIOUS
  <2>2. w \in 0..n - 1 /\ w + v + 1 = n
    BY <2>1
  <2>3. Reflection(way, n, cell) = <<u, w>>
    BY <1>1, <1>4, <2>1 DEF Reflection
  <2>4. <<u, w>> \in Cells(c) <=> u \in c.x .. c.x + c.dist - 1 /\ w \in c.y .. c.y + c.dist - 1
    BY CellIn
  <2>5. c.x = b.x /\ c.y + b.y + b.dist = n
    BY <1>4 DEF Reflects
  <2>6. w \in c.y .. c.y + c.dist - 1 <=> v \in b.y .. b.y + b.dist - 1
    BY <1>2, <2>2, <2>5
  <2>7. <<u, w>> \in Grid(n)
    BY <2>2 DEF Grid
  <2> QED BY <1>2, <1>3, <2>3, <2>4, <2>5, <2>6, <2>7
<1>5. CASE way = "v"
  <2>1. PICK w : w = n - 1 - u
    OBVIOUS
  <2>2. w \in 0..n - 1 /\ w + u + 1 = n
    BY <2>1
  <2>3. Reflection(way, n, cell) = <<w, v>>
    BY <1>1, <1>5, <2>1 DEF Reflection
  <2>4. <<w, v>> \in Cells(c) <=> w \in c.x .. c.x + c.dist - 1 /\ v \in c.y .. c.y + c.dist - 1
    BY CellIn
  <2>5. c.y = b.y /\ c.x + b.x + b.dist = n
    BY <1>5 DEF Reflects
  <2>6. w \in c.x .. c.x + c.dist - 1 <=> u \in b.x .. b.x + b.dist - 1
    BY <1>2, <2>2, <2>5
  <2>7. <<w, v>> \in Grid(n)
    BY <2>2 DEF Grid
  <2> QED BY <1>2, <1>3, <2>3, <2>4, <2>5, <2>6, <2>7
<1> QED BY <1>4, <1>5

LEMMA AroundReflected ==
  ASSUME NEW K \in Nat, NEW way \in {"h", "v"}, NEW cell \in Grid(2 ^ K),
         NEW P, Around(K, P, cell)
  PROVE  /\ Reflection(way, 2 ^ K, cell) \in Grid(2 ^ K)
         /\ Around(K, RenamedBy(SwapOf(way), P), Reflection(way, 2 ^ K, cell))
<1>1. PICK n \in Nat : n = 2 ^ K
  BY PowersOfTwo
<1>2. PICK swap, o, R : swap = SwapOf(way) /\ o = Reflection(way, n, cell) /\ R = RenamedBy(swap, P)
  OBVIOUS
<1>3. Swapping(swap) /\ P \in Places /\ Len(P) = K
  BY <1>2, SwapOfIs DEF Around
<1>4. R \in Places /\ Len(R) = K /\ RenamedBy(swap, R) = P
  BY <1>2, <1>3, RenamePlace
<1>5. ASSUME NEW p \in Places, Len(p) <= K
      PROVE  o \in Grid(n) /\ (o \in Cells(Block(n, RenamedBy(swap, p))) <=> cell \in Cells(Block(n, p)))
  <2>1. PICK r, b, c : r = RenamedBy(swap, p) /\ b = Block(n, p) /\ c = Block(n, r)
    OBVIOUS
  <2>2. r \in Places /\ Len(r) = Len(p)
    BY <1>3, <2>1, RenamePlace
  <2>3. b \in Boxes /\ c \in Boxes
    BY <1>1, <1>5, <2>1, <2>2, BlockPower
  <2>4. Reflects(way, n, b, c)
    BY <1>1, <1>2, <1>5, <2>1, BlockReflects
  <2>5. cell \in Grid(n)
    BY <1>1
  <2> QED BY <1>2, <2>1, <2>3, <2>4, <2>5, ReflectionIn
<1>6. ASSUME NEW p \in Places, Len(p) <= K
      PROVE  o \in Cells(Block(n, p)) <=> p = SubSeq(R, 1, Len(p))
  <2>1. PICK r : r = RenamedBy(swap, p)
    OBVIOUS
  <2>2. r \in Places /\ Len(r) = Len(p) /\ RenamedBy(swap, r) = p /\ Len(r) \in Nat
    BY <1>3, <2>1, RenamePlace, PrefixFull
  <2>3. o \in Cells(Block(n, p)) <=> cell \in Cells(Block(n, r))
    <3>1. Len(r) <= K
      BY <1>6, <2>2
    <3>2. o \in Cells(Block(n, RenamedBy(swap, r))) <=> cell \in Cells(Block(n, r))
      BY <1>5, <2>2, <3>1
    <3> QED BY <2>2, <3>2
  <2>4. cell \in Cells(Block(n, r)) <=> r = SubSeq(P, 1, Len(r))
    BY <1>1, <1>6, <2>2 DEF Around
  <2>5. Len(p) \in 0..Len(P) /\ Len(p) \in 0..Len(R)
    BY <1>3, <1>4, <1>6, <2>2
  <2>6. RenamedBy(swap, SubSeq(P, 1, Len(p))) = SubSeq(R, 1, Len(p))
    BY <1>2, <1>3, <2>5, RenamedParts
  <2>7. RenamedBy(swap, SubSeq(R, 1, Len(p))) = SubSeq(P, 1, Len(p))
    <3>1. RenamedBy(swap, SubSeq(R, 1, Len(p))) = SubSeq(RenamedBy(swap, R), 1, Len(p))
      BY <1>3, <1>4, <2>5, RenamedParts
    <3> QED BY <1>4, <3>1
  <2>8. r = SubSeq(P, 1, Len(p)) <=> p = SubSeq(R, 1, Len(p))
    BY <2>1, <2>2, <2>6, <2>7
  <2> QED BY <2>2, <2>3, <2>4, <2>8
<1>7. o \in Grid(n)
  <2>1. <<>> \in Places /\ Len(<<>>) <= K
    BY EmptySeq DEF Places
  <2> QED BY <1>5, <2>1
<1> QED BY <1>1, <1>2, <1>4, <1>6, <1>7 DEF Around

(* The mirrored tree, and the node a path ends in there.                   *)
LEMMA RenamedTree ==
  ASSUME NEW K \in Nat, NEW swap, Swapping(swap), NEW t, FullTree(t),
         DOMAIN t \subseteq Short(K), NEW s, s = Renamed(t, swap)
  PROVE  FullTree(s) /\ DOMAIN s \subseteq Short(K)
<1>1. DOMAIN t \subseteq Places
  BY DEF FullTree
<1>2. /\ DOMAIN s = {p \in Places : RenamedBy(swap, p) \in DOMAIN t}
      /\ \A p \in DOMAIN s : s[p] = t[RenamedBy(swap, p)]
  BY <1>1, RenamedIs
<1>3. ASSUME NEW p \in Places
      PROVE  /\ RenamedBy(swap, p) \in Places /\ Len(RenamedBy(swap, p)) = Len(p)
             /\ \A q \in Quadrants : /\ Append(p, q) \in Places /\ swap[q] \in Quadrants
                                     /\ RenamedBy(swap, Append(p, q)) = Append(RenamedBy(swap, p), swap[q])
  BY RenamePlace, RenamedParts, PrefixOfChild
<1>4. ASSUME NEW p \in Places, NEW q \in Quadrants
      PROVE  Append(p, q) \in DOMAIN s <=> Append(RenamedBy(swap, p), swap[q]) \in DOMAIN t
  BY <1>2, <1>3
<1>5. DOMAIN s \subseteq Short(K) /\ IsFiniteSet(DOMAIN s)
  <2>1. DOMAIN s \subseteq Short(K)
    BY <1>2, <1>3 DEF Short
  <2> QED BY <2>1, ShortFinite, FS_Subset
<1>6. <<>> \in DOMAIN s
  <2>1. <<>> \in Places
    BY EmptySeq DEF Places
  <2>2. RenamedBy(swap, <<>>) = <<>> /\ <<>> \in DOMAIN t
    BY <2>1, RenamedParts DEF FullTree
  <2> QED BY <1>2, <2>1, <2>2
<1>7. ASSUME NEW p \in Places, NEW q \in Quadrants, Append(p, q) \in DOMAIN s
      PROVE  p \in DOMAIN s
  <2>1. PICK r : r = RenamedBy(swap, p)
    OBVIOUS
  <2>2. r \in Places /\ swap[q] \in Quadrants /\ Append(r, swap[q]) \in DOMAIN t
    BY <1>3, <1>4, <1>7, <2>1
  <2>3. r \in DOMAIN t
    BY <2>2 DEF FullTree
  <2> QED BY <1>2, <2>1, <2>3
<1>8. "top_right" \in Quadrants
  BY DEF Quadrants
<1>9. ASSUME NEW p \in DOMAIN s
      PROVE  /\ ~IsLeaf(s, p) => \A q \in Quadrants : Append(p, q) \in DOMAIN s
             /\ IsLeaf(s, p) => \A q \in Quadrants : Append(p, q) \notin DOMAIN s
             /\ s[p] \in Nodes
  <2>1. PICK r : r = RenamedBy(swap, p)
    OBVIOUS
  <2>2. p \in Places /\ r \in DOMAIN t /\ r \in Places /\ s[p] = t[r]
    BY <1>2, <1>3, <2>1
  <2>3. /\ ~IsLeaf(t, r) => \A q \in Quadrants : Append(r, q) \in DOMAIN t
        /\ IsLeaf(t, r) => \A q \in Quadrants : Append(r, q) \notin DOMAIN t
        /\ t[r] \in Nodes
    BY <2>2 DEF FullTree
  <2>4. \A q \in Quadrants : swap[q] \in Quadrants /\ (Append(p, q) \in DOMAIN s <=> Append(r, swap[q]) \in DOMAIN t)
    BY <1>3, <1>4, <2>1, <2>2
  <2>5. IsLeaf(s, p) <=> IsLeaf(t, r)
    <3>1. IsLeaf(s, p) <=> Append(p, "top_right") \notin DOMAIN s
      BY DEF IsLeaf
    <3> QED BY <1>8, <2>3, <2>4, <3>1
  <2> QED BY <2>2, <2>3, <2>4, <2>5
<1> QED BY <1>2, <1>5, <1>6, <1>7, <1>9 DEF FullTree

LEMMA LastRenamed ==
  ASSUME NEW swap, Swapping(swap), NEW t, FullTree(t), NEW s, s = Renamed(t, swap),
         FullTree(s), NEW P \in Places
  PROVE  s[LastOnPath(s, P)] = t[LastOnPath(t, RenamedBy(swap, P))]
<1>1. PICK R : R = RenamedBy(swap, P)
  OBVIOUS
<1>2. R \in Places /\ Len(R) = Len(P) /\ Len(P) \in Nat
  BY <1>1, RenamePlace, PrefixFull
<1>3. DOMAIN t \subseteq Places
  BY DEF FullTree
<1>4. /\ DOMAIN s = {p \in Places : RenamedBy(swap, p) \in DOMAIN t}
      /\ \A p \in DOMAIN s : s[p] = t[RenamedBy(swap, p)]
  BY <1>3, RenamedIs
<1>5. \A k \in 0..Len(P) : /\ RenamedBy(swap, SubSeq(P, 1, k)) = SubSeq(R, 1, k)
                           /\ SubSeq(P, 1, k) \in Places
  BY <1>1, RenamedParts, PrefixOf
<1>6. \A k \in 0..Len(P) : SubSeq(P, 1, k) \in DOMAIN s <=> SubSeq(R, 1, k) \in DOMAIN t
  BY <1>4, <1>5
<1>7. PICK k \in 0..Len(P) :
        /\ LastOnPath(s, P) = SubSeq(P, 1, k) /\ SubSeq(P, 1, k) \in DOMAIN s
        /\ \A j \in 0..Len(P) : SubSeq(P, 1, j) \in DOMAIN s => j <= k
  BY LastIs
<1>8. PICK m \in 0..Len(R) :
        /\ LastOnPath(t, R) = SubSeq(R, 1, m) /\ SubSeq(R, 1, m) \in DOMAIN t
        /\ \A j \in 0..Len(R) : SubSeq(R, 1, j) \in DOMAIN t => j <= m
  BY <1>2, LastIs
<1>9. m = k
  <2>1. k \in 0..Len(R) /\ m \in 0..Len(P)
    BY <1>2
  <2>2. m <= k /\ k <= m
    BY <1>6, <1>7, <1>8, <2>1
  <2> QED BY <2>1, <2>2
<1> QED BY <1>1, <1>4, <1>5, <1>7, <1>8, <1>9

LEMMA MirrorShows ==
  ASSUME NEW K \in Nat, NEW way \in {"h", "v"}, NEW of, IsImage(of), Side(of) = 2 ^ K,
         NEW prag \in Nat, NEW img,
         img = makeimg(Renamed(maketree(of, prag), SwapOf(way)), 2 ^ K, of)
  PROVE  img = [cell \in Grid(2 ^ K) |-> Approximation(of, prag)[Reflection(way, 2 ^ K, cell)]]
<1>1. PICK t, swap : t = maketree(of, prag) /\ swap = SwapOf(way)
  OBVIOUS
<1>2. PICK s : s = Renamed(t, swap)
  OBVIOUS
<1>3. Swapping(swap) /\ FullTree(t) /\ DOMAIN t \subseteq Short(K)
  BY <1>1, SwapOfIs, MadeShort
<1>4. FullTree(s) /\ DOMAIN s \subseteq Short(K)
  BY <1>2, <1>3, RenamedTree
<1>5. Draws(makeimg(s, 2 ^ K, of), s, K)
  BY <1>4, Drawn
<1>6. Draws(img, s, K)
  BY <1>1, <1>2, <1>5
<1>7. ASSUME NEW cell \in Grid(2 ^ K)
      PROVE  img[cell] = Approximation(of, prag)[Reflection(way, 2 ^ K, cell)]
  <2>1. PICK P : Around(K, P, cell)
    BY PathAround
  <2>2. PICK o, R : o = Reflection(way, 2 ^ K, cell) /\ R = RenamedBy(swap, P)
    OBVIOUS
  <2>3. o \in Grid(2 ^ K) /\ Around(K, R, o)
    BY <1>1, <2>1, <2>2, AroundReflected
  <2>4. img[cell] = s[LastOnPath(s, P)].mean
    BY <1>6, <2>1 DEF Draws
  <2>5. s[LastOnPath(s, P)] = t[LastOnPath(t, R)]
    <3>1. P \in Places
      BY <2>1 DEF Around
    <3> QED BY <1>2, <1>3, <1>4, <2>2, <3>1, LastRenamed
  <2>6. Approximation(of, prag)[o] = t[LastOnPath(t, R)].mean
    BY <1>1, <2>3, ApproximationIs
  <2> QED BY <2>2, <2>4, <2>5, <2>6
<1>8. img = [cell \in Grid(2 ^ K) |-> img[cell]]
  BY <1>6 DEF Draws
<1> QED BY <1>7, <1>8

(***************************************************************************)
(* The mirror commands: swapping two pairs of pointers at every node moves *)
(* every leaf to the other side of the image, so that what makeimg draws   *)
(* is the approximation reflected, and nothing shows of the image that the *)
(* tree is drawn over.                                                     *)
(***************************************************************************)
THEOREM Reflected == Spec => []MirrorReflects
<1>1. IInv => MirrorReflects
  <2> SUFFICES ASSUME IInv, NEW f \in ImageFiles, made[f].by = "mirror",
                      PowerOfTwo(Side(made[f].of))
               PROVE  LET last == Side(made[f].of) - 1
                          plain == Approximation(made[f].of, made[f].factor)
                      IN  image[f] = [cell \in DOMAIN plain |->
                                         IF made[f].way = "h" THEN plain[<<cell[1], last - cell[2]>>]
                                         ELSE plain[<<last - cell[1], cell[2]>>]]
    BY DEF MirrorReflects
  <2>1. PICK how, img : how = made[f] /\ img = image[f]
    OBVIOUS
  <2>2. Drawing(img, how) /\ how.by = "mirror"
    BY <2>1 DEF IInv
  <2>3. /\ Sourced(how) /\ how.way \in {"h", "v"}
        /\ img = makeimg(IF how.way = "h" THEN mirror_h(TreeOf(how)) ELSE mirror_v(TreeOf(how)),
                         Side(how.of), how.of)
    BY <2>2 DEF Drawing
  <2>4. PICK K \in Nat : Side(how.of) = 2 ^ K
    BY <2>1 DEF PowerOfTwo
  <2>5. PICK of, prag, way : of = how.of /\ prag = how.factor /\ way = how.way
    OBVIOUS
  <2>6. IsImage(of) /\ prag \in Nat /\ way \in {"h", "v"} /\ Side(of) = 2 ^ K
    BY <2>3, <2>4, <2>5 DEF Sourced
  <2>7. img = makeimg(Renamed(maketree(of, prag), SwapOf(way)), 2 ^ K, of)
    BY <2>3, <2>4, <2>5 DEF SwapOf, mirror_h, mirror_v, TreeOf
  <2>8. PICK plain : plain = Approximation(of, prag)
    OBVIOUS
  <2>9. img = [cell \in Grid(2 ^ K) |-> plain[Reflection(way, 2 ^ K, cell)]]
    BY <2>6, <2>7, <2>8, MirrorShows
  <2>10. DOMAIN plain = Grid(2 ^ K)
    <3>1. DOMAIN of = Grid(2 ^ K)
      BY <2>6, MadeShort
    <3> QED BY <2>8, <3>1 DEF Approximation
  <2>11. \A cell \in Grid(2 ^ K) :
           plain[Reflection(way, 2 ^ K, cell)]
             = IF way = "h" THEN plain[<<cell[1], 2 ^ K - 1 - cell[2]>>]
               ELSE plain[<<2 ^ K - 1 - cell[1], cell[2]>>]
    BY DEF Reflection
  <2>12. img = [cell \in DOMAIN plain |->
                  IF way = "h" THEN plain[<<cell[1], 2 ^ K - 1 - cell[2]>>]
                  ELSE plain[<<2 ^ K - 1 - cell[1], cell[2]>>]]
    BY <2>9, <2>10, <2>11
  <2> QED BY <2>1, <2>5, <2>6, <2>8, <2>12
<1> QED BY <1>1, SpecIInv, PTL

-----------------------------------------------------------------------------
(* The combined tree has the nodes of both, and its paths end where the    *)
(* longer of the two did.                                                  *)
Both(t, o) == [p \in DOMAIN t \cup DOMAIN o |-> IF p \in DOMAIN t THEN t[p] ELSE o[p]]

LEMMA BothTree ==
  ASSUME NEW K \in Nat, NEW t, FullTree(t), DOMAIN t \subseteq Short(K),
         NEW o, FullTree(o), DOMAIN o \subseteq Short(K), NEW s, s = Both(t, o)
  PROVE  FullTree(s) /\ DOMAIN s \subseteq Short(K)
<1>1. /\ DOMAIN s = DOMAIN t \cup DOMAIN o
      /\ \A p \in DOMAIN s : s[p] = IF p \in DOMAIN t THEN t[p] ELSE o[p]
  BY DEF Both
<1>2. DOMAIN s \subseteq Short(K) /\ IsFiniteSet(DOMAIN s) /\ DOMAIN s \subseteq Places
  <2>1. DOMAIN s \subseteq Short(K) /\ Short(K) \subseteq Places
    BY <1>1 DEF Short
  <2> QED BY <2>1, ShortFinite, FS_Subset
<1>3. <<>> \in DOMAIN s
  BY <1>1 DEF FullTree
<1>4. ASSUME NEW p \in Places, NEW q \in Quadrants, Append(p, q) \in DOMAIN s
      PROVE  p \in DOMAIN s
  <2>1. Append(p, q) \in DOMAIN t => p \in DOMAIN t
    BY DEF FullTree
  <2>2. Append(p, q) \in DOMAIN o => p \in DOMAIN o
    BY DEF FullTree
  <2> QED BY <1>1, <1>4, <2>1, <2>2
<1>5. "top_right" \in Quadrants
  BY DEF Quadrants
<1>6. ASSUME NEW u, FullTree(u), NEW p \in Places
      PROVE  \A q \in Quadrants : Append(p, q) \in DOMAIN u <=> Append(p, "top_right") \in DOMAIN u
  <2>1. CASE p \notin DOMAIN u
    BY <1>5, <1>6, <2>1 DEF FullTree
  <2>2. CASE p \in DOMAIN u /\ IsLeaf(u, p)
    <3>1. \A q \in Quadrants : Append(p, q) \notin DOMAIN u
      BY <1>6, <2>2 DEF FullTree
    <3> QED BY <1>5, <3>1
  <2>3. CASE p \in DOMAIN u /\ ~IsLeaf(u, p)
    <3>1. \A q \in Quadrants : Append(p, q) \in DOMAIN u
      BY <1>6, <2>3 DEF FullTree
    <3> QED BY <1>5, <3>1
  <2> QED BY <2>1, <2>2, <2>3
<1>7. ASSUME NEW p \in DOMAIN s
      PROVE  /\ ~IsLeaf(s, p) => \A q \in Quadrants : Append(p, q) \in DOMAIN s
             /\ IsLeaf(s, p) => \A q \in Quadrants : Append(p, q) \notin DOMAIN s
             /\ s[p] \in Nodes
  <2>1. p \in Places
    BY <1>2
  <2>2. \A q \in Quadrants : Append(p, q) \in DOMAIN s <=> Append(p, "top_right") \in DOMAIN s
    BY <1>1, <1>6, <2>1
  <2>3. IsLeaf(s, p) <=> Append(p, "top_right") \notin DOMAIN s
    BY DEF IsLeaf
  <2>4. s[p] \in Nodes
    BY <1>1 DEF FullTree
  <2> QED BY <2>2, <2>3, <2>4
<1> QED BY <1>2, <1>3, <1>4, <1>7 DEF FullTree

(* Where a path ends in the combined tree, no longer part of it leads on   *)
(* in either tree.                                                         *)
LEMMA LastBoth ==
  ASSUME NEW t, FullTree(t), NEW s, FullTree(s), DOMAIN t \subseteq DOMAIN s,
         NEW P \in Places
  PROVE  LastOnPath(t, LastOnPath(s, P)) = LastOnPath(t, P)
<1>1. PICK k \in 0..Len(P) :
        /\ LastOnPath(s, P) = SubSeq(P, 1, k) /\ SubSeq(P, 1, k) \in DOMAIN s
        /\ \A j \in 0..Len(P) : SubSeq(P, 1, j) \in DOMAIN s => j <= k
  BY LastIs
<1>2. PICK m \in 0..Len(P) :
        /\ LastOnPath(t, P) = SubSeq(P, 1, m) /\ SubSeq(P, 1, m) \in DOMAIN t
        /\ \A j \in 0..Len(P) : SubSeq(P, 1, j) \in DOMAIN t => j <= m
  BY LastIs
<1>3. PICK l : l = SubSeq(P, 1, k)
  OBVIOUS
<1>4. l \in Places /\ Len(l) = k /\ k \in Nat /\ Len(P) \in Nat
  BY <1>3, PrefixOf, PrefixFull
<1>5. PICK i \in 0..Len(l) :
        /\ LastOnPath(t, l) = SubSeq(l, 1, i) /\ SubSeq(l, 1, i) \in DOMAIN t
        /\ \A j \in 0..Len(l) : SubSeq(l, 1, j) \in DOMAIN t => j <= i
  BY <1>4, LastIs
<1>6. \A j \in 0..k : SubSeq(l, 1, j) = SubSeq(P, 1, j) /\ j \in 0..Len(P)
  BY <1>3, PrefixOfPrefix
<1>7. m <= k
  BY <1>1, <1>2
<1>8. m <= i
  <2>1. m \in 0..Len(l) /\ m \in 0..k
    BY <1>4, <1>7
  <2>2. SubSeq(l, 1, m) \in DOMAIN t
    BY <1>2, <1>6, <2>1
  <2> QED BY <1>5, <2>1, <2>2
<1>9. i <= m
  <2>1. i \in 0..k
    BY <1>4
  <2>2. SubSeq(P, 1, i) \in DOMAIN t /\ i \in 0..Len(P)
    BY <1>5, <1>6, <2>1
  <2> QED BY <1>2, <2>2
<1>10. i = m /\ i \in 0..k
  BY <1>4, <1>8, <1>9
<1> QED BY <1>1, <1>2, <1>3, <1>5, <1>6, <1>10

LEMMA OverlayShows ==
  ASSUME NEW K \in Nat, NEW of, IsImage(of), Side(of) = 2 ^ K,
         NEW on, IsImage(on), Side(on) = 2 ^ K, NEW prag \in Nat, NEW img,
         img = makeimg(combine_trees(maketree(of, prag), maketree(on, prag)), 2 ^ K, of)
  PROVE  /\ img = [cell \in Grid(2 ^ K) |-> img[cell]]
         /\ \A cell \in Grid(2 ^ K) :
              /\ Approximation(of, prag)[cell] \in Colours
              /\ Approximation(on, prag)[cell] \in Colours
              /\ img[cell] = Mixed(Approximation(of, prag)[cell], Approximation(on, prag)[cell])
<1>1. PICK t, o : t = maketree(of, prag) /\ o = maketree(on, prag)
  OBVIOUS
<1>2. PICK c, s : c = combine_trees(t, o) /\ s = Both(t, o)
  OBVIOUS
<1>3. FullTree(t) /\ DOMAIN t \subseteq Short(K)
  BY <1>1, MadeShort
<1>4. FullTree(o) /\ DOMAIN o \subseteq Short(K)
  BY <1>1, MadeShort
<1>5. FullTree(s) /\ DOMAIN s \subseteq Short(K)
  BY <1>2, <1>3, <1>4, BothTree
<1>6. DOMAIN s = DOMAIN t \cup DOMAIN o
  BY <1>2 DEF Both
<1>7. /\ DOMAIN c = DOMAIN t \cup DOMAIN o
      /\ \A p \in DOMAIN t \cup DOMAIN o :
           c[p].mean = Mixed(t[LastOnPath(t, p)].mean, o[LastOnPath(o, p)].mean)
  BY <1>2, <1>3, <1>4, CombinedIs
<1>8. Draws(img, c, K)
  <2>1. DOMAIN c = DOMAIN s
    BY <1>6, <1>7
  <2>2. Draws(makeimg(c, 2 ^ K, of), c, K)
    BY <1>5, <2>1, Drawn
  <2> QED BY <1>1, <1>2, <2>2
<1>9. ASSUME NEW cell \in Grid(2 ^ K)
      PROVE  /\ Approximation(of, prag)[cell] \in Colours
             /\ Approximation(on, prag)[cell] \in Colours
             /\ img[cell] = Mixed(Approximation(of, prag)[cell], Approximation(on, prag)[cell])
  <2>1. PICK P : Around(K, P, cell)
    BY PathAround
  <2>2. P \in Places
    BY <2>1 DEF Around
  <2>3. Approximation(of, prag)[cell] = t[LastOnPath(t, P)].mean
    BY <1>1, <2>1, ApproximationIs
  <2>4. Approximation(on, prag)[cell] = o[LastOnPath(o, P)].mean
    BY <1>1, <2>1, ApproximationIs
  <2>5. LastOnPath(t, P) \in DOMAIN t /\ LastOnPath(o, P) \in DOMAIN o
    BY <1>3, <1>4, <2>2, LastOnPathIs
  <2>6. t[LastOnPath(t, P)].mean \in Colours
    BY <1>3, <2>5 DEF FullTree, Nodes
  <2>7. o[LastOnPath(o, P)].mean \in Colours
    BY <1>4, <2>5 DEF FullTree, Nodes
  <2>8. PICK l : l = LastOnPath(s, P)
    OBVIOUS
  <2>9. l \in DOMAIN t \cup DOMAIN o
    BY <1>5, <1>6, <2>2, <2>8, LastOnPathIs
  <2>10. LastOnPath(t, l) = LastOnPath(t, P) /\ LastOnPath(o, l) = LastOnPath(o, P)
    BY <1>3, <1>4, <1>5, <1>6, <2>2, <2>8, LastBoth
  <2>11. LastOnPath(c, P) = l
    BY <1>6, <1>7, <2>8 DEF LastOnPath
  <2>12. img[cell] = c[l].mean
    BY <1>8, <2>1, <2>11 DEF Draws
  <2>13. c[l].mean = Mixed(t[LastOnPath(t, P)].mean, o[LastOnPath(o, P)].mean)
    BY <1>7, <2>9, <2>10
  <2> QED BY <2>3, <2>4, <2>6, <2>7, <2>12, <2>13
<1> QED BY <1>8, <1>9 DEF Draws

LEMMA MixedFunction ==
  ASSUME NEW v \in Colours, NEW w \in Colours
  PROVE  Mixed(v, w) = [c \in Channels |-> (v[c] + w[c]) \div 2]
<1>1. Mixed(v, w) \in Colours /\ \A c \in Channels : Mixed(v, w)[c] = (v[c] + w[c]) \div 2
  BY MixedIs
<1> QED BY <1>1 DEF Colours

(***************************************************************************)
(* overlay: combine_trees gives every node the mean of the two leaves      *)
(* above it or of the node itself, however differently deep the two trees  *)
(* are, so that every pixel is the average of the two approximations.      *)
(***************************************************************************)
THEOREM Averaged == Spec => []OverlayAverages
<1>1. IInv => OverlayAverages
  <2> SUFFICES ASSUME IInv, NEW f \in ImageFiles, made[f].by = "overlay",
                      PowerOfTwo(Side(made[f].of))
               PROVE  LET under == Approximation(made[f].of, made[f].factor)
                          over == Approximation(made[f].on, made[f].factor)
                      IN  image[f] = [cell \in DOMAIN under |->
                                         [c \in Channels |-> (under[cell][c] + over[cell][c]) \div 2]]
    BY DEF OverlayAverages
  <2>1. PICK how, img : how = made[f] /\ img = image[f]
    OBVIOUS
  <2>2. Drawing(img, how) /\ how.by = "overlay"
    BY <2>1 DEF IInv
  <2>3. /\ Sourced(how) /\ IsImage(how.on) /\ Side(how.of) = Side(how.on)
        /\ img = makeimg(combine_trees(TreeOf(how), maketree(how.on, how.factor)),
                         Side(how.on), how.of)
    BY <2>2 DEF Drawing
  <2>4. PICK K \in Nat : Side(how.of) = 2 ^ K
    BY <2>1 DEF PowerOfTwo
  <2>5. PICK of, on, prag : of = how.of /\ on = how.on /\ prag = how.factor
    OBVIOUS
  <2>6. IsImage(of) /\ IsImage(on) /\ prag \in Nat /\ Side(of) = 2 ^ K /\ Side(on) = 2 ^ K
    BY <2>3, <2>4, <2>5 DEF Sourced
  <2>7. img = makeimg(combine_trees(maketree(of, prag), maketree(on, prag)), 2 ^ K, of)
    BY <2>3, <2>4, <2>5 DEF TreeOf
  <2>8. PICK under, over : under = Approximation(of, prag) /\ over = Approximation(on, prag)
    OBVIOUS
  <2>9. /\ img = [cell \in Grid(2 ^ K) |-> img[cell]]
        /\ \A cell \in Grid(2 ^ K) :
             /\ under[cell] \in Colours /\ over[cell] \in Colours
             /\ img[cell] = Mixed(under[cell], over[cell])
    BY <2>6, <2>7, <2>8, OverlayShows
  <2>10. DOMAIN under = Grid(2 ^ K)
    <3>1. DOMAIN of = Grid(2 ^ K)
      BY <2>6, MadeShort
    <3> QED BY <2>8, <3>1 DEF Approximation
  <2>11. \A cell \in Grid(2 ^ K) :
           img[cell] = [c \in Channels |-> (under[cell][c] + over[cell][c]) \div 2]
    BY <2>9, MixedFunction
  <2>12. img = [cell \in DOMAIN under |->
                  [c \in Channels |-> (under[cell][c] + over[cell][c]) \div 2]]
    BY <2>9, <2>10, <2>11
  <2> QED BY <2>1, <2>5, <2>8, <2>12
<1> QED BY <1>1, SpecIInv, PTL
=============================================================================
