----------------------------- MODULE FilesProofs -----------------------------
(***************************************************************************)
(* Proofs about Files, for every image, block size and number of           *)
(* descriptors.                                                            *)
(***************************************************************************)
EXTENDS Files, Induction, SequenceTheorems

-----------------------------------------------------------------------------
(* Pieces of sequences.                                                     *)

LEMMA Piece ==
    ASSUME NEW S, NEW c \in Seq(S), NEW a \in Nat, NEW b \in Nat, a <= b, b <= Len(c)
    PROVE  /\ SubSeq(c, a + 1, b) \in Seq(S)
           /\ Len(SubSeq(c, a + 1, b)) = b - a
           /\ \A i \in 1 .. b - a : SubSeq(c, a + 1, b)[i] = c[a + i]
<1>1. \A i \in 1 .. Len(c) : c[i] \in S
  BY ElementOfSeq
<1>2. Len(c) \in Nat /\ a + 1 \in Int /\ b \in Int /\ a + 1 .. b \subseteq 1 .. Len(c)
  OBVIOUS
<1>3. \A i \in a + 1 .. b : c[i] \in S
  BY <1>1, <1>2
<1>4. /\ SubSeq(c, a + 1, b) \in Seq(S)
      /\ Len(SubSeq(c, a + 1, b)) = IF a + 1 <= b THEN b - (a + 1) + 1 ELSE 0
      /\ \A i \in 1 .. b - (a + 1) + 1 : SubSeq(c, a + 1, b)[i] = c[a + 1 + i - 1]
  BY <1>2, <1>3, SubSeqProperties
<1>5. \A i \in 1 .. b - a : i \in 1 .. b - (a + 1) + 1 /\ a + 1 + i - 1 = a + i
  OBVIOUS
<1> QED BY <1>4, <1>5

\* A piece is taken off the front of what is left.
LEMMA PieceTaken ==
    ASSUME NEW S, NEW c \in Seq(S), NEW a \in Nat, NEW n \in Nat, a + n <= Len(c)
    PROVE  LET d == SubSeq(c, a + 1, Len(c)) IN
           /\ Len(d) = Len(c) - a
           /\ SubSeq(d, 1, n) = SubSeq(c, a + 1, a + n)
           /\ SubSeq(d, n + 1, Len(d)) = SubSeq(c, (a + n) + 1, Len(c))
<1> DEFINE d == SubSeq(c, a + 1, Len(c))
           x == SubSeq(d, 1, n)
           y == SubSeq(c, a + 1, a + n)
           v == SubSeq(d, n + 1, Len(d))
           w == SubSeq(c, (a + n) + 1, Len(c))
<1>0. Len(c) \in Nat /\ a <= Len(c) /\ a + n \in Nat /\ 0 \in Nat /\ 0 + 1 = 1
  OBVIOUS
<1>1. d \in Seq(S) /\ Len(d) = Len(c) - a /\ \A i \in 1 .. Len(c) - a : d[i] = c[a + i]
  BY <1>0, Piece
<1>2. /\ y \in Seq(S) /\ Len(y) = n /\ \A i \in 1 .. n : y[i] = c[a + i]
      /\ w \in Seq(S) /\ Len(w) = Len(c) - (a + n)
      /\ \A i \in 1 .. Len(c) - (a + n) : w[i] = c[(a + n) + i]
  <2>1. a <= a + n /\ (a + n) - a = n
    OBVIOUS
  <2>2. y \in Seq(S) /\ Len(y) = n /\ \A i \in 1 .. n : y[i] = c[a + i]
    <3>1. /\ y \in Seq(S) /\ Len(y) = (a + n) - a
          /\ \A i \in 1 .. (a + n) - a : y[i] = c[a + i]
      BY <1>0, <2>1, Piece
    <3> QED BY <2>1, <3>1
  <2>3. /\ w \in Seq(S) /\ Len(w) = Len(c) - (a + n)
        /\ \A i \in 1 .. Len(c) - (a + n) : w[i] = c[(a + n) + i]
    BY <1>0, Piece
  <2> QED BY <2>2, <2>3
<1> HIDE DEF d
<1>3. x \in Seq(S) /\ Len(x) = n /\ \A i \in 1 .. n : x[i] = d[i]
  <2>1. SubSeq(d, 0 + 1, n) = x
    BY <1>0
  <2>2. 0 <= n /\ n <= Len(d) /\ n - 0 = n /\ \A i \in 1 .. n : 0 + i = i
    BY <1>0, <1>1
  <2>3. /\ SubSeq(d, 0 + 1, n) \in Seq(S) /\ Len(SubSeq(d, 0 + 1, n)) = n - 0
        /\ \A i \in 1 .. n - 0 : SubSeq(d, 0 + 1, n)[i] = d[0 + i]
    BY <1>0, <1>1, <2>2, Piece
  <2> QED BY <2>1, <2>2, <2>3
<1>4. v \in Seq(S) /\ Len(v) = Len(d) - n /\ \A i \in 1 .. Len(d) - n : v[i] = d[n + i]
  <2>1. Len(d) \in Nat /\ n <= Len(d)
    BY <1>0, <1>1
  <2> QED BY <1>1, <2>1, Piece
<1> HIDE DEF x, y, v, w
<1>5. x = y
  <2>1. \A i \in 1 .. n : x[i] = y[i]
    <3> SUFFICES ASSUME NEW i \in 1 .. n PROVE x[i] = y[i]
      OBVIOUS
    <3>1. i \in 1 .. Len(c) - a
      BY <1>0
    <3> QED BY <1>1, <1>2, <1>3, <3>1
  <2> QED BY <1>2, <1>3, <2>1, SeqEqual
<1>6. v = w
  <2>1. Len(v) = Len(w) /\ Len(v) = Len(c) - (a + n)
    BY <1>0, <1>1, <1>2, <1>4
  <2>2. \A i \in 1 .. Len(v) : v[i] = w[i]
    <3> SUFFICES ASSUME NEW i \in 1 .. Len(v) PROVE v[i] = w[i]
      OBVIOUS
    <3>1. /\ i \in 1 .. Len(d) - n /\ n + i \in 1 .. Len(c) - a
          /\ i \in 1 .. Len(c) - (a + n) /\ a + (n + i) = (a + n) + i
      BY <1>0, <1>1, <2>1
    <3>2. v[i] = d[n + i] /\ d[n + i] = c[a + (n + i)] /\ w[i] = c[(a + n) + i]
      BY <1>1, <1>2, <1>4, <3>1
    <3> QED BY <3>1, <3>2
  <2> QED BY <1>2, <1>4, <2>1, <2>2, SeqEqual
<1> QED BY <1>1, <1>5, <1>6 DEF d, x, y, v, w

LEMMA PieceGrows ==
    ASSUME NEW S, NEW c \in Seq(S), NEW a \in Nat, NEW i \in Nat, a + i < Len(c)
    PROVE  Append(SubSeq(c, a + 1, a + i), c[a + i + 1]) = SubSeq(c, a + 1, a + (i + 1))
<1> DEFINE x == SubSeq(c, a + 1, a + i)
           e == c[a + i + 1]
           y == SubSeq(c, a + 1, a + (i + 1))
           z == Append(x, e)
<1>0. Len(c) \in Nat /\ a + i \in Nat /\ a + (i + 1) \in Nat /\ a + i + 1 \in 1 .. Len(c)
  OBVIOUS
<1>1. x \in Seq(S) /\ Len(x) = i /\ \A k \in 1 .. i : x[k] = c[a + k]
  BY <1>0, Piece
<1>2. y \in Seq(S) /\ Len(y) = i + 1 /\ \A k \in 1 .. i + 1 : y[k] = c[a + k]
  BY <1>0, Piece
<1>3. e \in S
  BY <1>0, ElementOfSeq
<1> HIDE DEF x, y, e
<1>4. z \in Seq(S) /\ Len(z) = i + 1 /\ z[i + 1] = e /\ \A k \in 1 .. i : z[k] = x[k]
  BY <1>1, <1>3, AppendProperties
<1> HIDE DEF z
<1>5. \A k \in 1 .. i + 1 : z[k] = y[k]
  <2> SUFFICES ASSUME NEW k \in 1 .. i + 1 PROVE z[k] = y[k]
    OBVIOUS
  <2>1. CASE k = i + 1
    <3>1. a + k = a + i + 1
      BY <2>1
    <3> QED BY <1>2, <1>4, <2>1, <3>1 DEF e
  <2>2. CASE k # i + 1
    <3>1. k \in 1 .. i
      BY <2>2
    <3> QED BY <1>1, <1>2, <1>4, <3>1
  <2> QED BY <2>1, <2>2
<1>6. z = y
  BY <1>2, <1>4, <1>5, SeqEqual
<1> QED BY <1>6 DEF x, y, z, e

-----------------------------------------------------------------------------
(* What a file holds, and what the copy loop delivers of it.                *)

ByteNames == Nat \X Nat

\* A position of a file lies in one of its blocks.
LEMMA BlockExists ==
    ASSUME NEW inode \in DOMAIN Inodes, NEW m \in Nat, m < Inodes[inode].length
    PROVE  /\ m \div BLOCK \in Nat /\ m \div BLOCK < Len(Inodes[inode].blocks)
           /\ m \div BLOCK + 1 \in 1 .. Len(Inodes[inode].blocks)
           /\ Inodes[inode].blocks[m \div BLOCK + 1] \in Nat
           /\ BlockNumber(inode, m \div BLOCK) = Inodes[inode].blocks[m \div BLOCK + 1]
<1> DEFINE l == Inodes[inode].length
           bs == Inodes[inode].blocks
           q == m \div BLOCK
           r == m % BLOCK
<1>1. l \in Nat /\ bs \in Seq(Nat) /\ l <= Len(bs) * BLOCK /\ BLOCK \in Nat \ {0}
  BY ImageAssumption, FilesAssumption
<1>2. q \in Nat /\ r \in 0 .. BLOCK - 1 /\ m = BLOCK * q + r
  BY <1>1, Division
<1>3. Len(bs) \in Nat
  BY <1>1
<1> HIDE DEF l, bs, q, r
<1>4. q < Len(bs)
  <2> SUFFICES ASSUME Len(bs) <= q PROVE FALSE
    BY <1>2, <1>3
  <2>1. Len(bs) * BLOCK <= q * BLOCK
    BY <1>1, <1>2, <1>3, ProductGrows
  <2>2. q * BLOCK = BLOCK * q /\ q * BLOCK \in Nat /\ Len(bs) * BLOCK \in Nat
    BY <1>1, <1>2, <1>3
  <2>3. m < l
    BY DEF l
  <2> DEFINE u == q * BLOCK
             v == Len(bs) * BLOCK
  <2>4. u \in Nat /\ v \in Nat /\ v <= u /\ m = u + r /\ l <= v
    BY <1>1, <1>2, <2>1, <2>2
  <2> HIDE DEF u, v
  <2> QED BY <1>1, <1>2, <2>3, <2>4
<1>5. q + 1 \in 1 .. Len(bs) /\ bs[q + 1] \in Nat
  <2>1. q + 1 \in 1 .. Len(bs)
    BY <1>2, <1>3, <1>4
  <2> QED BY <1>1, <2>1, ElementOfSeq
<1>6. BlockNumber(inode, q) = bs[q + 1]
  BY <1>4 DEF BlockNumber, bs
<1> QED BY <1>2, <1>4, <1>5, <1>6 DEF l, bs, q, r

LEMMA ContentIsSeq ==
    ASSUME NEW inode \in DOMAIN Inodes
    PROVE  /\ Content(inode) \in Seq(ByteNames)
           /\ Len(Content(inode)) = Inodes[inode].length
           /\ Inodes[inode].length \in Nat
           /\ \A m \in Nat : m < Inodes[inode].length =>
                Content(inode)[m + 1] = Byte(BlockNumber(inode, m \div BLOCK), m % BLOCK)
<1> DEFINE l == Inodes[inode].length
           At(i) == Byte(Inodes[inode].blocks[(i - 1) \div BLOCK + 1], (i - 1) % BLOCK)
<1>1. l \in Nat /\ BLOCK \in Nat \ {0}
  BY ImageAssumption, FilesAssumption
<1>2. ASSUME NEW m \in Nat, m < l
      PROVE  /\ At(m + 1) = Byte(BlockNumber(inode, m \div BLOCK), m % BLOCK)
             /\ At(m + 1) \in ByteNames
  <2>1. (m + 1) - 1 = m
    OBVIOUS
  <2>2. /\ BlockNumber(inode, m \div BLOCK) = Inodes[inode].blocks[m \div BLOCK + 1]
        /\ Inodes[inode].blocks[m \div BLOCK + 1] \in Nat
    BY <1>2, BlockExists
  <2>3. m % BLOCK \in Nat
    BY <1>1, Division
  <2>4. At(m + 1) = Byte(Inodes[inode].blocks[m \div BLOCK + 1], m % BLOCK)
    BY <2>1
  <2> QED BY <2>2, <2>3, <2>4 DEF Byte, ByteNames
<1>3. ASSUME NEW i \in 1 .. l PROVE At(i) \in ByteNames
  <2>1. i - 1 \in Nat /\ i - 1 < l /\ (i - 1) + 1 = i
    BY <1>1
  <2>2. At((i - 1) + 1) \in ByteNames
    <3> HIDE DEF At, l
    <3> QED BY <1>2, <2>1
  <2> HIDE DEF At
  <2> QED BY <2>1, <2>2
<1>4. Content(inode) = [i \in 1 .. l |-> At(i)]
  BY DEF Content
<1> HIDE DEF At, l
<1>5. Content(inode) \in [1 .. l -> ByteNames]
  BY <1>3, <1>4
<1>6. Content(inode) \in Seq(ByteNames)
  <2> DEFINE All == {[1 .. n -> ByteNames] : n \in Nat}
  <2>1. [1 .. l -> ByteNames] \in All
    BY <1>1, Zenon
  <2>2. Content(inode) \in UNION All
    BY <1>5, <2>1, Zenon
  <2> QED BY <2>2, SeqDef, Zenon
<1>7. Len(Content(inode)) = l
  BY <1>1, <1>5, <1>6
<1>8. ASSUME NEW m \in Nat, m < l
      PROVE  Content(inode)[m + 1] = Byte(BlockNumber(inode, m \div BLOCK), m % BLOCK)
  <2>1. m + 1 \in 1 .. l
    BY <1>1, <1>8
  <2>2. Content(inode)[m + 1] = At(m + 1)
    BY <1>4, <2>1
  <2> QED BY <1>2, <1>8, <2>2
<1> QED BY <1>1, <1>6, <1>7, <1>8 DEF l

\* The variables of the copy loop after i rounds from offset on.
CopyState(inode, offset, i) ==
    [off |-> (offset + i) % BLOCK,
     k |-> (offset + i) \div BLOCK - offset \div BLOCK + 1,
     out |-> SubSeq(Content(inode), offset + 1, offset + i),
     block |-> BlockNumber(inode, (offset + i) \div BLOCK)]

CopyRound(inode, offset, s) ==
    NextBlock(inode, offset, [s EXCEPT !.out = Append(@, Byte(s.block, s.off)),
                                       !.off = @ + 1])

LEMMA CopyStep ==
    ASSUME NEW inode \in DOMAIN Inodes, NEW offset \in Nat, NEW i \in Nat,
           offset + i < Inodes[inode].length
    PROVE  CopyRound(inode, offset, CopyState(inode, offset, i))
             = CopyState(inode, offset, i + 1)
<1> DEFINE m == offset + i
           s == CopyState(inode, offset, i)
           t == [s EXCEPT !.out = Append(@, Byte(s.block, s.off)), !.off = @ + 1]
           o == SubSeq(Content(inode), offset + 1, offset + i)
           p == SubSeq(Content(inode), offset + 1, offset + (i + 1))
           q0 == offset \div BLOCK
           q == m \div BLOCK
           r == m % BLOCK
<1>1. /\ m \in Nat /\ BLOCK \in Nat \ {0} /\ q0 \in Nat /\ q \in Nat /\ r \in 0 .. BLOCK - 1
      /\ offset + (i + 1) = m + 1 /\ m < Inodes[inode].length
  <2>1. m \in Nat /\ BLOCK \in Nat \ {0} /\ offset + (i + 1) = m + 1
    BY FilesAssumption
  <2>2. q0 \in Nat
    BY <2>1, Division
  <2> HIDE DEF m, q0
  <2>3. q \in Nat /\ r \in 0 .. BLOCK - 1
    BY <2>1, Division
  <2> QED BY <2>1, <2>2, <2>3 DEF m
<1>2. Append(o, Byte(BlockNumber(inode, q), r)) = p
  <2>1. /\ Content(inode) \in Seq(ByteNames) /\ Len(Content(inode)) = Inodes[inode].length
        /\ Content(inode)[m + 1] = Byte(BlockNumber(inode, q), r)
    BY <1>1, ContentIsSeq
  <2>2. Append(o, Content(inode)[offset + i + 1]) = p
    BY <2>1, PieceGrows
  <2> QED BY <2>1, <2>2
<1>3. /\ r + 1 < BLOCK => (m + 1) \div BLOCK = q /\ (m + 1) % BLOCK = r + 1
      /\ ~(r + 1 < BLOCK) => (m + 1) \div BLOCK = q + 1 /\ (m + 1) % BLOCK = 0
  BY <1>1, DivisionNext
<1>4. s = [off |-> r, k |-> q - q0 + 1, out |-> o, block |-> BlockNumber(inode, q)]
  BY DEF CopyState
<1>5. CopyState(inode, offset, i + 1)
        = [off |-> (m + 1) % BLOCK, k |-> (m + 1) \div BLOCK - q0 + 1, out |-> p,
           block |-> BlockNumber(inode, (m + 1) \div BLOCK)]
  BY <1>1 DEF CopyState
<1> HIDE DEF s, m, o, p, q0, q, r
<1>6. t = [off |-> r + 1, k |-> q - q0 + 1, out |-> p, block |-> BlockNumber(inode, q)]
  <2>1. s.out = o /\ s.off = r /\ s.block = BlockNumber(inode, q)
    BY <1>4
  <2> DEFINE u == [s EXCEPT !.out = p]
  <2>2. t = [u EXCEPT !.off = r + 1]
    BY <1>2, <1>4, <2>1
  <2>3. u = [off |-> r, k |-> q - q0 + 1, out |-> p, block |-> BlockNumber(inode, q)]
    BY <1>4
  <2> HIDE DEF t, u
  <2> QED BY <2>2, <2>3
<1>7. CopyRound(inode, offset, s) = NextBlock(inode, offset, t)
  BY DEF CopyRound
<1> HIDE DEF t
<1>8. CASE r + 1 < BLOCK
  <2>1. NextBlock(inode, offset, t) = t
    BY <1>6, <1>8 DEF NextBlock
  <2> QED BY <1>3, <1>5, <1>6, <1>7, <1>8, <2>1 DEF s
<1>9. CASE ~(r + 1 < BLOCK)
  <2>1. NextBlock(inode, offset, t)
          = [t EXCEPT !.k = t.k + 1, !.off = 0, !.block = BlockNumber(inode, q0 + t.k)]
    BY <1>6, <1>9 DEF NextBlock, q0
  <2>2. t.k = q - q0 + 1 /\ q0 + t.k = q + 1 /\ t.k + 1 = (q + 1) - q0 + 1
    BY <1>1, <1>6
  <2>3. [t EXCEPT !.k = t.k + 1, !.off = 0, !.block = BlockNumber(inode, q0 + t.k)]
          = [off |-> 0, k |-> (q + 1) - q0 + 1, out |-> p, block |-> BlockNumber(inode, q + 1)]
    <3> DEFINE u == [t EXCEPT !.k = (q + 1) - q0 + 1]
               v == [u EXCEPT !.off = 0]
               z == [v EXCEPT !.block = BlockNumber(inode, q + 1)]
    <3>1. u = [off |-> r + 1, k |-> (q + 1) - q0 + 1, out |-> p, block |-> BlockNumber(inode, q)]
      BY <1>6
    <3> HIDE DEF u
    <3>2. v = [off |-> 0, k |-> (q + 1) - q0 + 1, out |-> p, block |-> BlockNumber(inode, q)]
      BY <3>1
    <3> HIDE DEF v
    <3>3. z = [off |-> 0, k |-> (q + 1) - q0 + 1, out |-> p, block |-> BlockNumber(inode, q + 1)]
      BY <3>2
    <3>4. [t EXCEPT !.k = t.k + 1, !.off = 0, !.block = BlockNumber(inode, q0 + t.k)] = z
      BY <1>6, <2>2, Zenon DEF u, v
    <3> QED BY <3>3, <3>4
  <2> QED BY <1>3, <1>5, <1>7, <1>9, <2>1, <2>3 DEF s
<1> QED BY <1>8, <1>9

\* read_data's loop delivers the bytes of the file from the offset on, whatever
\* blocks they lie in.
LEMMA CopyLoopReads ==
    ASSUME NEW inode \in DOMAIN Inodes, NEW offset \in Nat, NEW n \in Nat,
           offset + n <= Inodes[inode].length
    PROVE  CopyLoop(inode, offset, n)
             = SubSeq(Content(inode), offset + 1, offset + n)
<1> DEFINE G(i) == CopyState(inode, offset, i)
           g == [i \in 0 .. n |-> G(i)]
           Start == [off |-> offset % BLOCK, k |-> 1, out |-> <<>>,
                     block |-> BlockNumber(inode, offset \div BLOCK)]
           Body(c) == [i \in 0 .. n |-> IF i = 0 THEN Start
                                        ELSE CopyRound(inode, offset, c[i - 1])]
           copy == CHOOSE c : c = Body(c)
<1>1. Inodes[inode].length \in Nat /\ BLOCK \in Nat \ {0} /\ offset \div BLOCK \in Nat
  BY ImageAssumption, FilesAssumption, Division
<1>2. Start = G(0)
  <2>1. offset + 0 = offset /\ offset \div BLOCK - offset \div BLOCK + 1 = 1
    BY <1>1
  <2>2. SubSeq(Content(inode), offset + 1, offset + 0) = <<>>
    <3>1. Content(inode) \in Seq(ByteNames) /\ Len(Content(inode)) = Inodes[inode].length
      BY ContentIsSeq
    <3>2. offset <= Len(Content(inode)) /\ offset - offset = 0
      BY <1>1, <3>1
    <3>3. /\ SubSeq(Content(inode), offset + 1, offset) \in Seq(ByteNames)
          /\ Len(SubSeq(Content(inode), offset + 1, offset)) = offset - offset
      BY <3>1, <3>2, Piece
    <3> QED BY <2>1, <3>2, <3>3, EmptySeq
  <2> QED BY <2>1, <2>2 DEF CopyState
<1>3. ASSUME NEW i \in 1 .. n PROVE CopyRound(inode, offset, G(i - 1)) = G(i)
  <2>1. i - 1 \in Nat /\ offset + (i - 1) < Inodes[inode].length /\ (i - 1) + 1 = i
    BY <1>1
  <2>2. CopyRound(inode, offset, G(i - 1)) = G((i - 1) + 1)
    BY <2>1, CopyStep
  <2> HIDE DEF G
  <2> QED BY <2>1, <2>2
<1> HIDE DEF G, Start
<1>4. g = Body(g)
  <2>1. ASSUME NEW i \in 0 .. n
        PROVE  G(i) = IF i = 0 THEN Start ELSE CopyRound(inode, offset, g[i - 1])
    <3>1. CASE i = 0
      BY <1>2, <3>1
    <3>2. CASE i # 0
      <4>1. i \in 1 .. n /\ i - 1 \in 0 .. n
        BY <3>2
      <4> QED BY <1>3, <3>2, <4>1
    <3> QED BY <3>1, <3>2
  <2> HIDE DEF g
  <2>2. Body(g) = [i \in 0 .. n |-> G(i)]
    BY <2>1
  <2> QED BY <2>2 DEF g
<1>5. copy = Body(copy)
  <2> HIDE DEF Body, g
  <2> QED BY <1>4
<1>6. CopyLoop(inode, offset, n) = copy[n].out
  BY DEF CopyLoop, CopyRound, Start
<1> HIDE DEF copy, g
<1>7. \A i \in 0 .. n : copy[i] = G(i)
  <2> DEFINE T == {i \in 0 .. n : copy[i] = G(i)}
  <2>1. 0 \in T
    BY <1>2, <1>5
  <2>2. ASSUME NEW i \in 0 .. n - 1, i \in T PROVE i + 1 \in T
    <3>1. i + 1 \in 1 .. n /\ i + 1 \in 0 .. n /\ (i + 1) - 1 = i /\ i + 1 # 0
      OBVIOUS
    <3>2. copy[i + 1] = CopyRound(inode, offset, copy[i])
      BY <1>5, <3>1
    <3>3. CopyRound(inode, offset, G((i + 1) - 1)) = G(i + 1)
      BY <1>3, <3>1
    <3> QED BY <2>2, <3>1, <3>2, <3>3
  <2> HIDE DEF T
  <2>3. 0 .. n \subseteq T
    BY <2>1, <2>2, SegmentInduction
  <2> QED BY <2>3 DEF T
<1>8. copy[n] = G(n)
  BY <1>7
<1> QED BY <1>6, <1>8 DEF G, CopyState


-----------------------------------------------------------------------------
(* The inductive invariant: whatever is in a descriptor, used or not, its   *)
(* position lies in its file, and stdin and stdout stay the terminal's.     *)

Descs == [ops : {"none", "terminal", "rtc", "files"}, inode : Int, pos : Nat,
          flags : {0, 1}]

Within(d) ==
    d.ops = "files" =>
      \/ d.inode = -1 /\ d.pos <= num_of_entries
      \/ d.inode \in DOMAIN Inodes /\ d.pos <= Inodes[d.inode].length

Goods == {d \in Descs : Within(d)}

FilesInv ==
    /\ filesys_desc_array \in [Procs -> [Fds -> Goods]]
    /\ \A p \in Procs : \A fd \in {0, 1} : Table(p)[fd].ops = "terminal"
    /\ ret \in [Procs -> Int]
    /\ DOMAIN buf = Procs

LEMMA LeastIs ==
    ASSUME NEW T, T \subseteq Nat, T # {}
    PROVE  Min(T) \in T /\ \A y \in T : Min(T) <= y
<1>1. \E x \in T : \A y \in T : x <= y
  BY LeastNumber
<1> QED BY <1>1 DEF Min

LEMMA FdsFacts ==
    /\ Fds \subseteq Nat /\ 0 \in Fds /\ 1 \in Fds
    /\ \A fd \in Fds : fd < 2 <=> fd \in {0, 1}
BY FilesAssumption DEF Fds

\* strlen on an entry finds the end of its name, or that of the type behind it.
LEMMA EntryStrings ==
    ASSUME NEW i \in 1 .. num_of_entries
    PROVE  LET n == Len(ListedName(i)) IN
           /\ ListedName(i) \in Seq(Nat) /\ n \in 0 .. NAME + 1
           /\ n > NAME <=> Len(Dentries[i].name) = NAME /\ Dentries[i].filetype # 0
           /\ Len(Dentries[i].name) > 0 => n > 0 /\ ListedName(i)[1] = Dentries[i].name[1]
           /\ fn_len(i) = n
           /\ EntryString(i) = Listed(i)
           /\ \A k \in 1 .. n : EntryByte(i, k - 1) = ListedName(i)[k]
<1> DEFINE d == Dentries[i]
           name == d.name
           l == ListedName(i)
           n == Len(l)
<1>1. /\ name \in Seq(Nat) /\ Len(name) \in Nat /\ Len(name) <= NAME
      /\ \A k \in 1 .. Len(name) : name[k] # 0 /\ name[k] \in Nat
      /\ d.filetype \in {0, 1, 2} /\ NAME \in Nat
  <2>1. /\ name \in Seq(Nat) /\ Len(name) <= NAME
        /\ \A k \in 1 .. Len(name) : name[k] # 0
        /\ d.filetype \in {0, 1, 2}
    BY ImageAssumption DEF num_of_entries
  <2> HIDE DEF name
  <2>2. \A k \in 1 .. Len(name) : name[k] \in Nat
    BY <2>1, ElementOfSeq
  <2> QED BY <2>1, <2>2, FilesAssumption
<1>2. ASSUME NEW k \in Nat
      PROVE  EntryByte(i, k) = IF k < Len(name) THEN name[k + 1]
                               ELSE IF k = NAME THEN d.filetype ELSE 0
  BY DEF EntryByte
<1>3. /\ l \in Seq(Nat) /\ n \in 0 .. NAME + 1
      /\ Len(name) > 0 => n > 0 /\ l[1] = name[1]
      /\ n > NAME <=> Len(name) = NAME /\ d.filetype # 0
      /\ EntryByte(i, n) = 0
      /\ \A k \in 1 .. n : EntryByte(i, k - 1) = l[k] /\ l[k] # 0
  <2>1. CASE Len(name) = NAME /\ d.filetype # 0
    <3>1. l = Append(name, d.filetype)
      BY <2>1 DEF ListedName
    <3> HIDE DEF d, name, l
    <3>2. /\ l \in Seq(Nat) /\ n = NAME + 1 /\ l[NAME + 1] = d.filetype
          /\ \A k \in 1 .. NAME : l[k] = name[k]
      BY <1>1, <2>1, <3>1
    <3>3. EntryByte(i, NAME + 1) = 0 /\ EntryByte(i, NAME) = d.filetype
      BY <1>1, <1>2, <2>1
    <3>4. ASSUME NEW k \in 1 .. NAME PROVE EntryByte(i, k - 1) = name[k]
      BY <1>1, <1>2, <2>1
    <3> QED BY <1>1, <2>1, <3>2, <3>3, <3>4
  <2>2. CASE ~(Len(name) = NAME /\ d.filetype # 0)
    <3>1. l = name
      BY <2>2 DEF ListedName
    <3> HIDE DEF d, name, l
    <3>2. EntryByte(i, n) = 0
      BY <1>1, <1>2, <2>2, <3>1
    <3>3. ASSUME NEW k \in 1 .. n PROVE EntryByte(i, k - 1) = name[k]
      BY <1>1, <1>2, <3>1
    <3> QED BY <1>1, <2>2, <3>1, <3>2, <3>3
  <2> QED BY <2>1, <2>2
<1>4. fn_len(i) = n
  <2> DEFINE T == {k \in 0 .. NAME + 1 : EntryByte(i, k) = 0}
  <2> HIDE DEF l
  <2>1. T \subseteq Nat /\ n \in T
    <3>1. 0 .. NAME + 1 \subseteq Nat
      BY <1>1
    <3>2. n \in 0 .. NAME + 1 /\ EntryByte(i, n) = 0
      BY <1>3
    <3> HIDE DEF n
    <3> QED BY <3>1, <3>2, Zenon
  <2>2. Min(T) \in T /\ Min(T) <= n
    <3> HIDE DEF T
    <3> QED BY <2>1, LeastIs
  <2>3. ASSUME NEW k \in 0 .. n - 1 PROVE EntryByte(i, k) # 0
    <3>1. k + 1 \in 1 .. n /\ (k + 1) - 1 = k
      BY <1>3
    <3> QED BY <1>3, <3>1
  <2>4. Min(T) \in 0 .. NAME + 1 /\ EntryByte(i, Min(T)) = 0
    BY <2>2
  <2>5. fn_len(i) = Min(T)
    BY DEF fn_len
  <2> HIDE DEF T
  <2> QED BY <1>1, <1>3, <2>2, <2>3, <2>4, <2>5
<1>5. EntryString(i) = Listed(i)
  BY <1>4 DEF EntryString, Listed
<1> HIDE DEF l
<1> QED BY <1>3, <1>4, <1>5 DEF l

\* What read_data returns: nothing and -1, or a piece of the file that starts at
\* the offset and its length.
LEMMA ReadResult ==
    ASSUME NEW inode \in DOMAIN Inodes, NEW offset \in Nat, NEW length \in Nat,
           offset <= Inodes[inode].length
    PROVE  \/ read_data(inode, offset, length) = Failed
           \/ \E n \in 0 .. Inodes[inode].length - offset :
                /\ n <= length
                /\ n < length => offset + n = Inodes[inode].length
                /\ read_data(inode, offset, length)
                     = [val |-> n, data |-> SubSeq(Content(inode), offset + 1, offset + n)]
<1> DEFINE l == Inodes[inode].length
           n == Rounds(inode, offset, length)
           T == {length, l, l - offset}
<1>1. l \in Nat /\ ~(offset > l) /\ l - offset \in Nat
  BY ImageAssumption
<1>2. n \in 0 .. l - offset /\ n <= length /\ (n < length => offset + n = l)
  <2>1. T \subseteq Nat /\ T # {} /\ l - offset \in T /\ length \in T
    BY <1>1
  <2>2. Min(T) \in T /\ Min(T) <= l - offset /\ Min(T) <= length
    <3> HIDE DEF T
    <3> QED BY <2>1, LeastIs
  <2>3. n = Min(T)
    BY DEF Rounds
  <2>5. n < length => offset + n = l
    <3> HIDE DEF n
    <3>1. n \in T /\ n <= l - offset
      BY <2>2, <2>3, Zenon
    <3> QED BY <1>1, <3>1
  <2> HIDE DEF n, T, l
  <2>4. n \in Nat /\ n <= l - offset /\ n <= length
    BY <2>1, <2>2, <2>3
  <2> QED BY <1>1, <2>4, <2>5
<1>3. CASE BlockNumber(inode, offset \div BLOCK) > num_of_blocks
  BY <1>1, <1>3 DEF read_data
<1>4. CASE ~(BlockNumber(inode, offset \div BLOCK) > num_of_blocks)
  <2>1. read_data(inode, offset, length) = [val |-> n, data |-> CopyLoop(inode, offset, n)]
    BY <1>1, <1>4 DEF read_data
  <2> HIDE DEF n
  <2>2. CopyLoop(inode, offset, n) = SubSeq(Content(inode), offset + 1, offset + n)
    <3>1. n \in Nat /\ offset + n <= Inodes[inode].length
      BY <1>1, <1>2
    <3> QED BY <3>1, CopyLoopReads
  <2> QED BY <1>2, <2>1, <2>2
<1> QED BY <1>3, <1>4

LEMMA GoodDescriptors ==
    /\ StdDesc \in Goods
    /\ Desc("none", 0, 0, 0) \in Goods
    /\ \A d \in Goods, f \in {0, 1} : [d EXCEPT !.flags = f] \in Goods
    /\ \A name : Matches(name) # {} =>
         /\ \E i \in 1 .. num_of_entries : DentryOf(name) = Dentries[i]
         /\ Opened(DentryOf(name)) \in Goods
<1>1. StdDesc \in Goods /\ Desc("none", 0, 0, 0) \in Goods
  BY DEF StdDesc, Desc, Goods, Descs, Within
<1>2. \A d \in Goods, f \in {0, 1} : [d EXCEPT !.flags = f] \in Goods
  BY DEF Goods, Descs, Within
<1>3. ASSUME NEW name, Matches(name) # {}
      PROVE  /\ \E i \in 1 .. num_of_entries : DentryOf(name) = Dentries[i]
             /\ Opened(DentryOf(name)) \in Goods
  <2>1. Matches(name) \subseteq Nat /\ Matches(name) \subseteq 1 .. num_of_entries
    BY ImageAssumption DEF Matches, num_of_entries
  <2>2. Min(Matches(name)) \in 1 .. num_of_entries
    BY <1>3, <2>1, LeastIs
  <2> DEFINE e == DentryOf(name)
  <2>3. /\ e.filetype \in {0, 1, 2}
        /\ e.filetype = 2 => e.inode_num \in DOMAIN Inodes
    BY <2>2, ImageAssumption DEF DentryOf, num_of_entries
  <2>4. num_of_entries \in Nat /\ \A n \in DOMAIN Inodes : n \in Int /\ 0 <= Inodes[n].length
    BY ImageAssumption DEF num_of_entries
  <2>5. Opened(e) \in Goods
    <3> HIDE DEF e
    <3>1. CASE e.filetype = 0
      <4>1. Opened(e) = Desc("rtc", 0, 0, 1)
        BY <3>1 DEF Opened
      <4> QED BY <4>1 DEF Desc, Goods, Descs, Within
    <3>2. CASE e.filetype = 1
      <4>1. Opened(e) = Desc("files", -1, 0, 1)
        BY <3>2 DEF Opened
      <4> QED BY <2>4, <4>1 DEF Desc, Goods, Descs, Within
    <3>3. CASE e.filetype = 2
      <4>1. Opened(e) = Desc("files", e.inode_num, 0, 1)
        BY <3>3 DEF Opened
      <4> QED BY <2>3, <2>4, <3>3, <4>1 DEF Desc, Goods, Descs, Within
    <3> QED BY <2>3, <3>1, <3>2, <3>3
  <2> QED BY <2>2, <2>5 DEF DentryOf
<1> QED BY <1>1, <1>2, <1>3

\* The position a read leaves in a good descriptor is good.
LEMMA ReadStaysWithin ==
    ASSUME NEW d \in Goods, d.ops = "files", d.inode # -1, NEW cnt \in Int
    PROVE  LET r == read_data(d.inode, d.pos, cnt % WORD) IN
           /\ d.inode \in DOMAIN Inodes /\ d.pos \in Nat
           /\ d.pos <= Inodes[d.inode].length
           /\ \/ r = Failed
              \/ \E n \in 0 .. Inodes[d.inode].length - d.pos :
                   /\ n <= cnt % WORD
                   /\ n < cnt % WORD => d.pos + n = Inodes[d.inode].length
                   /\ r = [val |-> n,
                           data |-> SubSeq(Content(d.inode), d.pos + 1, d.pos + n)]
           /\ r.val \in Int
           /\ [d EXCEPT !.pos = Advanced(@, r.val)] \in Goods
<1> DEFINE r == read_data(d.inode, d.pos, cnt % WORD)
<1>1. /\ d \in Descs /\ d.inode \in DOMAIN Inodes /\ d.pos \in Nat
      /\ d.pos <= Inodes[d.inode].length
  BY DEF Goods, Within, Descs
<1>2. cnt % WORD \in Nat
  BY FilesAssumption
<1>3. \/ r = Failed
      \/ \E n \in 0 .. Inodes[d.inode].length - d.pos :
           /\ n <= cnt % WORD
           /\ n < cnt % WORD => d.pos + n = Inodes[d.inode].length
           /\ r = [val |-> n, data |-> SubSeq(Content(d.inode), d.pos + 1, d.pos + n)]
  BY <1>1, <1>2, ReadResult
<1> HIDE DEF r
<1>4. r.val = -1 \/ r.val \in 0 .. Inodes[d.inode].length - d.pos
  BY <1>3 DEF Failed
<1> DEFINE q == Advanced(d.pos, r.val)
<1>5. q \in Nat /\ q <= Inodes[d.inode].length
  <2>1. Inodes[d.inode].length \in Nat
    BY <1>1, ImageAssumption
  <2> QED BY <1>1, <1>4, <2>1 DEF Advanced
<1>6. [d EXCEPT !.pos = Advanced(@, r.val)] \in Goods
  <2>1. [d EXCEPT !.pos = Advanced(@, r.val)] = [d EXCEPT !.pos = q]
    BY <1>1 DEF Descs
  <2> HIDE DEF q
  <2>2. [d EXCEPT !.pos = q] \in Goods
    BY <1>1, <1>5 DEF Goods, Descs, Within
  <2> QED BY <2>1, <2>2
<1>7. r.val \in Int
  BY <1>4
<1> QED BY <1>1, <1>3, <1>6, <1>7, Zenon DEF r


\* A call that changes one descriptor, or none, and returns.
LEMMA Replaces ==
    ASSUME FilesInv, NEW p \in Procs, NEW r, r.val \in Int, Result(p, r),
           \/ UNCHANGED filesys_desc_array
           \/ \E fd \in Fds \ {0, 1}, x \in Goods :
                filesys_desc_array' = [filesys_desc_array EXCEPT ![p][fd] = x]
    PROVE  FilesInv'
<1>1. ret' \in [Procs -> Int] /\ DOMAIN buf' = Procs
  BY DEF Result, FilesInv
<1>2. CASE UNCHANGED filesys_desc_array
  BY <1>1, <1>2 DEF FilesInv, Table
<1>3. ASSUME NEW fd \in Fds \ {0, 1}, NEW x \in Goods,
             filesys_desc_array' = [filesys_desc_array EXCEPT ![p][fd] = x]
      PROVE  FilesInv'
  <2>1. filesys_desc_array' \in [Procs -> [Fds -> Goods]]
    BY <1>3 DEF FilesInv
  <2>2. ASSUME NEW q \in Procs, NEW e \in {0, 1} PROVE Table(q)'[e].ops = "terminal"
    <3>1. filesys_desc_array'[q][e] = filesys_desc_array[q][e]
      BY <1>3, <2>2, FdsFacts DEF FilesInv
    <3> QED BY <2>2, <3>1 DEF FilesInv, Table
  <2> QED BY <1>1, <2>1, <2>2 DEF FilesInv
<1> QED BY <1>2, <1>3

LEMMA DescriptorGood ==
    ASSUME FilesInv, NEW p \in Procs, NEW fd \in Fds
    PROVE  Table(p)[fd] \in Goods /\ Table(p)[fd] \in Descs
BY DEF FilesInv, Table, Goods

LEMMA FilesInitially == Init => FilesInv
<1> SUFFICES ASSUME Init PROVE FilesInv
  OBVIOUS
<1> DEFINE none == Desc("none", 0, 0, 0)
           t == [fd \in Fds |-> none]
<1>1. ASSUME NEW fd \in Fds PROVE [t[fd] EXCEPT !.flags = 0] \in Goods
  <2>1. none \in Goods
    BY GoodDescriptors
  <2> HIDE DEF none
  <2>2. t[fd] = none
    OBVIOUS
  <2> QED BY <2>1, <2>2, GoodDescriptors
<1>2. StdDesc \in Goods /\ StdDesc.ops = "terminal"
  BY GoodDescriptors DEF StdDesc, Desc
<1> HIDE DEF t
<1>3. Fresh(t) \in [Fds -> Goods] /\ \A fd \in {0, 1} : Fresh(t)[fd] = StdDesc
  BY <1>1, <1>2, FdsFacts DEF Fresh
<1>4. filesys_desc_array = [p \in Procs |-> Fresh(t)]
  BY DEF Init, t
<1> QED BY <1>2, <1>3, <1>4 DEF Init, FilesInv, Table

LEMMA FreshIsGood ==
    ASSUME NEW t \in [Fds -> Goods]
    PROVE  /\ Fresh(t) \in [Fds -> Goods]
           /\ \A fd \in {0, 1} : Fresh(t)[fd].ops = "terminal"
           /\ \A fd \in Fds \ {0, 1} : Fresh(t)[fd].flags = 0
<1>1. ASSUME NEW fd \in Fds
      PROVE  [t[fd] EXCEPT !.flags = 0] \in Goods /\ [t[fd] EXCEPT !.flags = 0].flags = 0
  <2>1. t[fd] \in Goods
    OBVIOUS
  <2>2. [t[fd] EXCEPT !.flags = 0] \in Goods
    BY <2>1, GoodDescriptors
  <2>3. [t[fd] EXCEPT !.flags = 0].flags = 0
    BY <2>1 DEF Goods, Descs
  <2> QED BY <2>2, <2>3
<1>2. StdDesc \in Goods /\ StdDesc.ops = "terminal"
  BY GoodDescriptors DEF StdDesc, Desc
<1>3. Fresh(t) = [fd \in Fds |-> IF fd \in {0, 1} THEN StdDesc ELSE [t[fd] EXCEPT !.flags = 0]]
  BY FdsFacts DEF Fresh
<1>4. Fresh(t) \in [Fds -> Goods]
  BY <1>1, <1>2, <1>3
<1>5. \A fd \in {0, 1} : Fresh(t)[fd].ops = "terminal"
  BY <1>2, <1>3, FdsFacts
<1>6. \A fd \in Fds \ {0, 1} : Fresh(t)[fd].flags = 0
  BY <1>1, <1>3
<1> QED BY <1>4, <1>5, <1>6

LEMMA ExecuteKeeps ==
    ASSUME FilesInv, NEW p \in Procs, Execute(p)
    PROVE  FilesInv'
<1>1. ret' \in [Procs -> Int] /\ DOMAIN buf' = Procs
  BY DEF Execute, Result, Nothing, FilesInv
<1>2. /\ filesys_desc_array' = [filesys_desc_array EXCEPT ![p] = Fresh(Table(p))]
      /\ Table(p) \in [Fds -> Goods]
  BY DEF Execute, Table, FilesInv
<1>3. Fresh(Table(p)) \in [Fds -> Goods] /\ \A fd \in {0, 1} : Fresh(Table(p))[fd].ops = "terminal"
  BY <1>2, FreshIsGood
<1> DEFINE t == Fresh(Table(p))
<1>4. filesys_desc_array' = [filesys_desc_array EXCEPT ![p] = t]
  BY <1>2
<1> HIDE DEF t
<1>5. t \in [Fds -> Goods] /\ \A fd \in {0, 1} : t[fd].ops = "terminal"
  BY <1>3 DEF t
<1>6. filesys_desc_array' \in [Procs -> [Fds -> Goods]]
  BY <1>4, <1>5 DEF FilesInv
<1>7. ASSUME NEW q \in Procs, NEW e \in {0, 1} PROVE Table(q)'[e].ops = "terminal"
  <2>1. CASE q = p
    BY <1>4, <1>5, <2>1 DEF FilesInv, Table
  <2>2. CASE q # p
    BY <1>4, <2>2 DEF FilesInv, Table
  <2> QED BY <2>1, <2>2
<1> QED BY <1>1, <1>6, <1>7 DEF FilesInv

LEMMA OpenTakes ==
    ASSUME FilesInv, NEW p \in Procs, Free(p) # {}
    PROVE  LET fd == Min(Free(p)) IN
           /\ fd \in Fds \ {0, 1} /\ fd \in Int /\ Table(p)[fd].flags = 0
           /\ \A e \in Fds \ {0, 1} : e < fd => Table(p)[e].flags # 0
<1> DEFINE fd == Min(Free(p))
<1>1. Free(p) \subseteq Nat
  BY FdsFacts DEF Free
<1>2. fd \in Free(p) /\ \A y \in Free(p) : fd <= y
  BY <1>1, LeastIs
<1> HIDE DEF fd
<1>3. fd \in Fds \ {0, 1} /\ fd \in Int /\ Table(p)[fd].flags = 0
  BY <1>1, <1>2 DEF Free
<1>4. \A e \in Fds \ {0, 1} : e < fd => Table(p)[e].flags # 0
  <2> SUFFICES ASSUME NEW e \in Fds \ {0, 1}, e < fd, Table(p)[e].flags = 0 PROVE FALSE
    OBVIOUS
  <2>1. e \in Free(p) /\ e \in Nat
    BY FdsFacts DEF Free
  <2> QED BY <1>2, <1>3, <2>1
<1> QED BY <1>3, <1>4 DEF fd

\* A read that succeeds is one of stdin or of an opened descriptor.
LEMMA ReadsOpened ==
    ASSUME FilesInv, NEW p \in Procs, NEW fd, Readable(p, fd), Table(p)[fd].ops = "files"
    PROVE  fd \in Fds /\ fd \in Fds \ {0, 1} /\ Table(p)[fd].flags = 1
<1>1. fd \in Fds \ {1} /\ Table(p)[fd].flags = 1
  BY DEF Readable, Usable
<1>2. fd # 0
  BY DEF FilesInv
<1> QED BY <1>1, <1>2

LEMMA ResultValues == Failed.val \in Int /\ Nothing.val \in Int
BY DEF Failed, Nothing

\* What the calls do to the table of the caller, whatever their arguments.
LEMMA QuietKeeps ==
    ASSUME FilesInv, NEW p \in Procs, UNCHANGED filesys_desc_array,
           Result(p, Failed) \/ Result(p, Nothing)
    PROVE  FilesInv'
<1>1. CASE Result(p, Failed)
  BY <1>1, ResultValues, Replaces
<1>2. CASE Result(p, Nothing)
  BY <1>2, ResultValues, Replaces
<1> QED BY <1>1, <1>2

LEMMA OpenKeeps ==
    ASSUME FilesInv, NEW p \in Procs, NEW name, Open(p, name)
    PROVE  /\ FilesInv'
           /\ ret'[p] \in Fds \ {0, 1} /\ Table(p)[ret'[p]].flags = 0
           /\ \A e \in Fds \ {0, 1} : e < ret'[p] => Table(p)[e].flags # 0
           /\ Opened(DentryOf(name)) \in Goods
           /\ Table(p)' = [Table(p) EXCEPT ![ret'[p]] = Opened(DentryOf(name))]
<1> DEFINE fd == Min(Free(p))
           x == Opened(DentryOf(name))
           r == [val |-> fd, data |-> <<>>]
<1>1. /\ Matches(name) # {} /\ Free(p) # {} /\ Result(p, r)
      /\ filesys_desc_array' = [filesys_desc_array EXCEPT ![p][fd] = x]
  BY DEF Open
<1>2. x \in Goods
  BY <1>1, GoodDescriptors
<1>3. /\ fd \in Fds \ {0, 1} /\ fd \in Int /\ Table(p)[fd].flags = 0
      /\ \A e \in Fds \ {0, 1} : e < fd => Table(p)[e].flags # 0
  BY <1>1, OpenTakes
<1>4. ret'[p] = fd
  BY <1>1 DEF Result, FilesInv
<1> HIDE DEF fd, x
<1>5. r.val \in Int
  BY <1>3
<1> HIDE DEF r
<1>6. FilesInv'
  BY <1>1, <1>2, <1>3, <1>5, Replaces
<1>7. Table(p)' = [Table(p) EXCEPT ![fd] = x]
  BY <1>1 DEF FilesInv, Table
<1> QED BY <1>2, <1>3, <1>4, <1>6, <1>7 DEF x

LEMMA CloseKeeps ==
    ASSUME FilesInv, NEW p \in Procs, NEW fd, Close(p, fd)
    PROVE  /\ FilesInv'
           /\ fd \in Fds \ {0, 1} /\ ret'[p] = 0
           /\ Table(p)' = [Table(p) EXCEPT ![fd] = [Table(p)[fd] EXCEPT !.flags = 0]]
<1> DEFINE x == [Table(p)[fd] EXCEPT !.flags = 0]
<1>1. fd \in Fds \ {0, 1} /\ fd \in Fds /\ Result(p, Nothing)
  BY DEF Close, Closable
<1>2. filesys_desc_array' = [filesys_desc_array EXCEPT ![p][fd] = x]
  BY <1>1 DEF Close, FilesInv, Table
<1>3. x \in Goods
  BY <1>1, DescriptorGood, GoodDescriptors
<1>4. ret'[p] = 0
  BY <1>1 DEF Result, FilesInv, Nothing
<1> HIDE DEF x
<1>5. Table(p)' = [Table(p) EXCEPT ![fd] = x]
  BY <1>2 DEF FilesInv, Table
<1>6. FilesInv'
  BY <1>1, <1>2, <1>3, ResultValues, Replaces
<1> QED BY <1>1, <1>4, <1>5, <1>6 DEF x

LEMMA ReadDirectoryKeeps ==
    ASSUME FilesInv, NEW p \in Procs, NEW fd, ReadDirectory(p, fd)
    PROVE  LET d == Table(p)[fd] IN
           /\ FilesInv'
           /\ fd \in Fds \ {0, 1} /\ d \in Goods /\ d.flags = 1
           /\ d.ops = "files" /\ d.inode = -1
           /\ \/ /\ d.pos < num_of_entries
                 /\ Table(p)' = [Table(p) EXCEPT ![fd] = [d EXCEPT !.pos = d.pos + 1]]
                 /\ ret'[p] = fn_len(d.pos + 1) /\ buf'[p] = EntryString(d.pos + 1)
              \/ /\ ~(d.pos < num_of_entries)
                 /\ Table(p)' = [Table(p) EXCEPT ![fd] = [d EXCEPT !.pos = 0]]
                 /\ ret'[p] = 0 /\ buf'[p] = <<>>
<1> DEFINE d == Table(p)[fd]
           one == [val |-> fn_len(d.pos + 1), data |-> EntryString(d.pos + 1)]
<1>1. fd \in Fds /\ fd \in Fds \ {0, 1} /\ d.ops = "files" /\ d.inode = -1 /\ d.flags = 1
  BY ReadsOpened DEF ReadDirectory
<1>2. d \in Goods /\ d \in Descs /\ d.pos \in Nat
  BY <1>1, DescriptorGood DEF Descs
<1>3. num_of_entries \in Nat
  BY ImageAssumption DEF num_of_entries
<1>4. CASE d.pos < num_of_entries
  <2> DEFINE x == [d EXCEPT !.pos = d.pos + 1]
  <2>1. /\ filesys_desc_array' = [filesys_desc_array EXCEPT ![p][fd].pos = d.pos + 1]
        /\ Result(p, one)
        /\ one.val = fn_len(d.pos + 1) /\ one.data = EntryString(d.pos + 1)
    BY <1>4 DEF ReadDirectory
  <2>2. filesys_desc_array' = [filesys_desc_array EXCEPT ![p][fd] = x]
    BY <1>1, <2>1 DEF FilesInv, Table
  <2> HIDE DEF d
  <2>3. x \in Goods
    BY <1>1, <1>2, <1>3, <1>4 DEF Goods, Descs, Within
  <2> HIDE DEF x, one
  <2>4. one.val \in Int
    <3>1. d.pos + 1 \in 1 .. num_of_entries
      BY <1>2, <1>3, <1>4
    <3> QED BY <2>1, <3>1, EntryStrings
  <2>5. FilesInv'
    BY <1>1, <2>1, <2>2, <2>3, <2>4, Replaces
  <2>6. Table(p)' = [Table(p) EXCEPT ![fd] = x]
    BY <2>2 DEF FilesInv, Table
  <2>7. ret'[p] = fn_len(d.pos + 1) /\ buf'[p] = EntryString(d.pos + 1)
    BY <2>1 DEF Result, FilesInv
  <2> QED BY <1>1, <1>2, <1>4, <2>5, <2>6, <2>7 DEF x, d
<1>5. CASE ~(d.pos < num_of_entries)
  <2> DEFINE x == [d EXCEPT !.pos = 0]
  <2>1. /\ filesys_desc_array' = [filesys_desc_array EXCEPT ![p][fd].pos = 0]
        /\ Result(p, Nothing)
    BY <1>5 DEF ReadDirectory
  <2>2. filesys_desc_array' = [filesys_desc_array EXCEPT ![p][fd] = x]
    BY <1>1, <2>1 DEF FilesInv, Table
  <2> HIDE DEF d
  <2>3. x \in Goods
    BY <1>1, <1>2, <1>3 DEF Goods, Descs, Within
  <2> HIDE DEF x
  <2>5. FilesInv'
    BY <1>1, <2>1, <2>2, <2>3, ResultValues, Replaces
  <2>6. Table(p)' = [Table(p) EXCEPT ![fd] = x]
    BY <2>2 DEF FilesInv, Table
  <2>7. ret'[p] = 0 /\ buf'[p] = <<>>
    BY <2>1 DEF Result, FilesInv, Nothing
  <2> QED BY <1>1, <1>2, <1>5, <2>5, <2>6, <2>7 DEF x, d
<1> QED BY <1>4, <1>5

LEMMA ReadFileKeeps ==
    ASSUME FilesInv, NEW p \in Procs, NEW fd, NEW cnt \in Int, ReadFile(p, fd, cnt)
    PROVE  LET d == Table(p)[fd]
               r == read_data(d.inode, d.pos, cnt % WORD) IN
           /\ FilesInv'
           /\ fd \in Fds \ {0, 1} /\ d \in Goods /\ d.flags = 1
           /\ d.ops = "files" /\ d.inode # -1
           /\ Table(p)' = [Table(p) EXCEPT ![fd] = [d EXCEPT !.pos = Advanced(@, r.val)]]
           /\ ret'[p] = r.val /\ buf'[p] = r.data
<1> DEFINE d == Table(p)[fd]
           r == read_data(d.inode, d.pos, cnt % WORD)
           x == [d EXCEPT !.pos = Advanced(@, r.val)]
<1>1. /\ Readable(p, fd) /\ d.ops = "files" /\ d.inode # -1 /\ Result(p, r)
      /\ filesys_desc_array' =
           [filesys_desc_array EXCEPT ![p][fd].pos = Advanced(@, r.val)]
  BY DEF ReadFile
<1>2. fd \in Fds /\ fd \in Fds \ {0, 1} /\ d.flags = 1
  BY <1>1, ReadsOpened
<1>3. filesys_desc_array' = [filesys_desc_array EXCEPT ![p][fd] = x] /\ d \in Goods
  <2> HIDE DEF r
  <2>1. d \in Goods
    BY <1>2, DescriptorGood
  <2> QED BY <1>1, <1>2, <2>1 DEF FilesInv, Table
<1>4. x \in Goods /\ r.val \in Int
  <2> HIDE DEF d
  <2> QED BY <1>1, <1>3, ReadStaysWithin
<1>5. ret'[p] = r.val /\ buf'[p] = r.data
  <2> HIDE DEF r
  <2> QED BY <1>1 DEF Result, FilesInv
<1>6. Table(p)' = [Table(p) EXCEPT ![fd] = x]
  <2> HIDE DEF x
  <2> QED BY <1>3 DEF FilesInv, Table
<1>7. FilesInv'
  <2> HIDE DEF d, r, x
  <2> QED BY <1>1, <1>2, <1>3, <1>4, Replaces
<1> QED BY <1>1, <1>2, <1>3, <1>5, <1>6, <1>7

LEMMA FilesStep == FilesInv /\ [Next]_vars => FilesInv'
<1> SUFFICES ASSUME FilesInv, [Next]_vars PROVE FilesInv'
  OBVIOUS
<1>1. CASE UNCHANGED vars
  BY <1>1 DEF vars, FilesInv, Table
<1>2. CASE Next
  <2>1. PICK p \in Procs :
          \/ Execute(p)
          \/ \E name \in Names : OpenFail(p, name) \/ Open(p, name)
          \/ \E fd \in -1 .. NUM_FD :
               \/ CloseFail(p, fd) \/ Close(p, fd)
               \/ ReadFail(p, fd) \/ ReadDevice(p, fd) \/ ReadDirectory(p, fd)
               \/ \E cnt \in Counts : ReadFile(p, fd, cnt)
               \/ WriteFail(p, fd) \/ WriteDevice(p, fd)
    BY <1>2 DEF Next
  <2>2. CASE Execute(p)
    BY <2>2, ExecuteKeeps
  <2>3. ASSUME NEW name \in Names, OpenFail(p, name) PROVE FilesInv'
    BY <2>3, QuietKeeps DEF OpenFail
  <2>4. ASSUME NEW name \in Names, Open(p, name) PROVE FilesInv'
    BY <2>4, OpenKeeps
  <2>5. ASSUME NEW fd \in -1 .. NUM_FD,
               CloseFail(p, fd) \/ ReadFail(p, fd) \/ ReadDevice(p, fd)
                 \/ WriteFail(p, fd) \/ WriteDevice(p, fd)
        PROVE  FilesInv'
    BY <2>5, QuietKeeps DEF CloseFail, ReadFail, ReadDevice, WriteFail, WriteDevice
  <2>6. ASSUME NEW fd \in -1 .. NUM_FD, Close(p, fd) PROVE FilesInv'
    BY <2>6, CloseKeeps
  <2>7. ASSUME NEW fd \in -1 .. NUM_FD, ReadDirectory(p, fd) PROVE FilesInv'
    BY <2>7, ReadDirectoryKeeps
  <2>8. ASSUME NEW fd \in -1 .. NUM_FD, NEW cnt \in Counts, ReadFile(p, fd, cnt)
        PROVE  FilesInv'
    BY <2>8, ReadFileKeeps, FilesAssumption
  <2> QED BY <2>1, <2>2, <2>3, <2>4, <2>5, <2>6, <2>7, <2>8
<1> QED BY <1>1, <1>2

LEMMA FilesAlways == Spec => []FilesInv
<1> QED BY FilesInitially, FilesStep, PTL DEF Spec

\* Descriptors, return values and buffers keep their types.
THEOREM FilesTypeCorrect == Spec => []TypeOK
<1>1. FilesInv => TypeOK
  BY DEF FilesInv, TypeOK, Goods, Descs
<1> QED BY <1>1, FilesAlways, PTL

\* No sequence of calls, with any counts, takes a position past the end of its
\* file or of the directory: not in a descriptor that is closed and opened again
\* (syscall.c's open resets it) and not after a read cut short by the end.
THEOREM PositionsWithinFile == Spec => []PosWithinFile
<1>1. FilesInv => PosWithinFile
  <2> SUFFICES ASSUME FilesInv, NEW p \in Procs, NEW fd \in Fds \ {0, 1},
                      Table(p)[fd].flags = 1, Table(p)[fd].ops = "files"
               PROVE  Table(p)[fd].pos <= IF Table(p)[fd].inode = -1 THEN num_of_entries
                                          ELSE Inodes[Table(p)[fd].inode].length
    BY DEF PosWithinFile
  <2>1. Within(Table(p)[fd])
    BY DEF FilesInv, Table, Goods
  <2>2. -1 \notin DOMAIN Inodes
    BY ImageAssumption
  <2> QED BY <2>1, <2>2 DEF Within
<1> QED BY <1>1, FilesAlways, PTL


-----------------------------------------------------------------------------
(* The descriptors of a program are what is left of its files.              *)

\* Left, case by case.
LEMMA LeftCases ==
    ASSUME NEW d \in Goods
    PROVE  /\ d.flags = 0 => Left(d) = Reads!Closed
           /\ d.flags # 0 => Left(d) # Reads!Closed
           /\ d.flags = 1 /\ d.ops # "files" => Left(d) = [kind |-> "device", data |-> <<>>]
           /\ d.flags = 1 /\ d.ops = "files" /\ d.inode = -1 =>
                Left(d) = [kind |-> "directory", data |-> From(Listing, d.pos)]
           /\ d.flags = 1 /\ d.ops = "files" /\ d.inode # -1 =>
                Left(d) = [kind |-> "file", data |-> From(Content(d.inode), d.pos)]
<1>1. d.flags \in {0, 1}
  BY DEF Goods, Descs
<1>2. CASE d.flags = 0
  BY <1>2 DEF Left, Reads!Closed
<1>3. CASE d.flags = 1 /\ d.ops # "files"
  <2>1. Left(d) = [kind |-> "device", data |-> <<>>]
    BY <1>3 DEF Left
  <2> QED BY <1>3, <2>1 DEF Reads!Closed
<1>4. CASE d.flags = 1 /\ d.ops = "files" /\ d.inode = -1
  <2>1. Left(d) = [kind |-> "directory", data |-> From(Listing, d.pos)]
    BY <1>4 DEF Left
  <2> QED BY <1>4, <2>1 DEF Reads!Closed
<1>5. CASE d.flags = 1 /\ d.ops = "files" /\ d.inode # -1
  <2>1. Left(d) = [kind |-> "file", data |-> From(Content(d.inode), d.pos)]
    BY <1>5 DEF Left
  <2> QED BY <1>5, <2>1 DEF Reads!Closed
<1> QED BY <1>1, <1>2, <1>3, <1>4, <1>5

LEMMA IsSeqOf ==
    ASSUME NEW S, NEW n \in Nat, NEW s \in [1 .. n -> S]
    PROVE  s \in Seq(S)
<1> DEFINE All == {[1 .. m -> S] : m \in Nat}
<1>1. [1 .. n -> S] \in All
  BY Zenon
<1>2. s \in UNION All
  BY <1>1, Zenon
<1> QED BY <1>2, SeqDef, Zenon

LEMMA ListingIsSeq ==
    /\ num_of_entries \in Nat
    /\ Listing \in Seq(Seq(Int \X Int)) /\ Len(Listing) = num_of_entries
    /\ \A i \in 1 .. num_of_entries : Listing[i] = EntryString(i)
<1>1. num_of_entries \in Nat
  BY ImageAssumption DEF num_of_entries
<1>2. Listing \in [1 .. num_of_entries -> Seq(Int \X Int)]
  <2>1. ASSUME NEW i \in 1 .. num_of_entries PROVE Listed(i) \in Seq(Int \X Int)
    <3> DEFINE n == Len(ListedName(i))
    <3>1. n \in Nat
      BY EntryStrings, FilesAssumption
    <3> HIDE DEF n
    <3>2. \A k \in 1 .. n : Byte(-i, k - 1) \in Int \X Int
      BY <3>1 DEF Byte
    <3>3. Listed(i) \in [1 .. n -> Int \X Int]
      BY <3>2, Zenon DEF Listed, n
    <3> QED BY <3>1, <3>3, IsSeqOf
  <2> QED BY <2>1, Zenon DEF Listing
<1>3. Listing \in Seq(Seq(Int \X Int))
  BY <1>1, <1>2, IsSeqOf
<1>4. Len(Listing) = num_of_entries
  BY <1>1, <1>2, <1>3
<1>5. \A i \in 1 .. num_of_entries : Listing[i] = EntryString(i)
  BY EntryStrings, Zenon DEF Listing
<1> QED BY <1>1, <1>3, <1>4, <1>5

LEMMA LeftAt ==
    ASSUME NEW p \in Procs, NEW fd \in Fds \ {0, 1}
    PROVE  LeftOf[p][fd] = Left(Table(p)[fd])
BY DEF LeftOf

\* A descriptor that is replaced changes what is left there and nowhere else.
LEMMA LeftReplaced ==
    ASSUME FilesInv, NEW p \in Procs, NEW fd \in Fds \ {0, 1}, NEW x,
           filesys_desc_array' = [filesys_desc_array EXCEPT ![p][fd] = x]
    PROVE  LeftOf' = [LeftOf EXCEPT ![p][fd] = Left(x)]
<1>1. ASSUME NEW q \in Procs, NEW e \in Fds \ {0, 1}
      PROVE  Left(filesys_desc_array'[q][e])
               = IF q = p /\ e = fd THEN Left(x) ELSE Left(filesys_desc_array[q][e])
  <2>1. CASE q = p /\ e = fd
    BY <2>1 DEF FilesInv
  <2>2. CASE ~(q = p /\ e = fd)
    <3>1. filesys_desc_array'[q][e] = filesys_desc_array[q][e]
      BY <2>2 DEF FilesInv
    <3> QED BY <2>2, <3>1
  <2> QED BY <2>1, <2>2
<1>2. LeftOf' = [q \in Procs |-> [e \in Fds \ {0, 1} |-> Left(filesys_desc_array'[q][e])]]
  BY DEF LeftOf, Table
<1>3. LeftOf = [q \in Procs |-> [e \in Fds \ {0, 1} |-> Left(filesys_desc_array[q][e])]]
  BY DEF LeftOf, Table
<1> QED BY <1>1, <1>2, <1>3, Zenon

\* A call that leaves the descriptors alone and returns no data.
LEMMA OtherCall ==
    ASSUME NEW p \in Procs, UNCHANGED filesys_desc_array, NEW r, Result(p, r), r.data = <<>>
    PROVE  Reads!Other(p)
BY DEF Reads!Other, Reads!NoData, LeftOf, Table, Result

LEMMA OpenOpens ==
    ASSUME FilesInv, NEW p \in Procs, NEW name, Open(p, name)
    PROVE  Reads!OpenFile(p)
<1> DEFINE fd == Min(Free(p))
           e == DentryOf(name)
           x == Opened(e)
           c == OpenedContent(e)
<1>1. /\ Matches(name) # {} /\ Free(p) # {} /\ Result(p, [val |-> fd, data |-> <<>>])
      /\ filesys_desc_array' = [filesys_desc_array EXCEPT ![p][fd] = x]
  BY DEF Open
<1>2. /\ fd \in Fds \ {0, 1} /\ Table(p)[fd].flags = 0
      /\ \A g \in Fds \ {0, 1} : g < fd => Table(p)[g].flags # 0
  BY <1>1, OpenTakes
<1>3. PICK i \in 1 .. num_of_entries : e = Dentries[i]
  BY <1>1, GoodDescriptors
<1>4. x \in Goods /\ num_of_entries \in Nat
  BY <1>1, GoodDescriptors, ListingIsSeq
<1>5. /\ e.filetype \in {0, 1, 2}
      /\ e.filetype = 2 => e.inode_num \in DOMAIN Inodes
  BY <1>3, ImageAssumption DEF num_of_entries
<1>6. c \in {OpenedContent(Dentries[j]) : j \in 1 .. num_of_entries}
  BY <1>3
<1> HIDE DEF fd, e
<1>7. Left(x) = c
  <2>1. CASE e.filetype = 0
    <3>1. x = Desc("rtc", 0, 0, 1) /\ c = [kind |-> "device", data |-> <<>>]
      BY <2>1 DEF Opened, OpenedContent
    <3> QED BY <3>1 DEF Left, Desc
  <2>2. CASE e.filetype = 1
    <3>1. x = Desc("files", -1, 0, 1) /\ c = [kind |-> "directory", data |-> Listing]
      BY <2>2 DEF Opened, OpenedContent
    <3>2. From(Listing, 0) = Listing
      BY ListingIsSeq, SubSeqFull DEF From
    <3>3. Left(x) = [kind |-> "directory", data |-> From(Listing, 0)]
      BY <3>1 DEF Left, Desc
    <3> QED BY <3>1, <3>2, <3>3
  <2>3. CASE e.filetype = 2
    <3>1. /\ x = Desc("files", e.inode_num, 0, 1)
          /\ c = [kind |-> "file", data |-> Content(e.inode_num)]
      BY <2>3 DEF Opened, OpenedContent
    <3>2. From(Content(e.inode_num), 0) = Content(e.inode_num)
      BY <1>5, <2>3, ContentIsSeq, SubSeqFull DEF From
    <3>3. e.inode_num # -1
      BY <1>5, <2>3, ImageAssumption
    <3>4. Left(x) = [kind |-> "file", data |-> From(Content(e.inode_num), 0)]
      BY <3>1, <3>3 DEF Left, Desc
    <3> QED BY <3>1, <3>2, <3>4
  <2> QED BY <1>5, <2>1, <2>2, <2>3
<1> HIDE DEF x, c
<1>8. LeftOf' = [LeftOf EXCEPT ![p][fd] = c]
  BY <1>1, <1>2, <1>7, LeftReplaced
<1>9. LeftOf[p][fd] = Reads!Closed
  <2>1. Table(p)[fd] \in Goods
    BY <1>2, DescriptorGood
  <2> QED BY <1>2, <2>1, LeftAt, LeftCases
<1>10. \A g \in Fds \ {0, 1} : g < fd => LeftOf[p][g] # Reads!Closed
  <2> SUFFICES ASSUME NEW g \in Fds \ {0, 1}, g < fd PROVE LeftOf[p][g] # Reads!Closed
    OBVIOUS
  <2>1. Table(p)[g] \in Goods /\ Table(p)[g].flags # 0
    BY <1>2, DescriptorGood
  <2>2. Left(Table(p)[g]) # Reads!Closed
    BY <2>1, LeftCases
  <2> QED BY <2>2, LeftAt
<1>11. buf' = [buf EXCEPT ![p] = <<>>]
  BY <1>1 DEF Result
<1> QED BY <1>2, <1>6, <1>8, <1>9, <1>10, <1>11, Zenon DEF Reads!OpenFile, Reads!NoData


LEMMA ExecuteStarts ==
    ASSUME FilesInv, NEW p \in Procs, Execute(p)
    PROVE  Reads!Start(p)
<1> DEFINE t == Fresh(Table(p))
<1>1. Table(p) \in [Fds -> Goods] /\ filesys_desc_array' = [filesys_desc_array EXCEPT ![p] = t]
  BY DEF Execute, Table, FilesInv
<1>2. t \in [Fds -> Goods] /\ \A fd \in Fds \ {0, 1} : t[fd].flags = 0
  BY <1>1, FreshIsGood
<1>3. buf' = [buf EXCEPT ![p] = <<>>]
  BY DEF Execute, Result, Nothing
<1> HIDE DEF t
<1>4. ASSUME NEW fd \in Fds \ {0, 1} PROVE Left(t[fd]) = Reads!Closed
  <2>1. t[fd] \in Goods /\ t[fd].flags = 0
    BY <1>2
  <2> QED BY <2>1, LeftCases
<1>5. [fd \in Fds \ {0, 1} |-> Left(t[fd])] = Reads!Closeds
  BY <1>4, Zenon DEF Reads!Closeds
<1>6. LeftOf' = [LeftOf EXCEPT ![p] = [fd \in Fds \ {0, 1} |-> Left(t[fd])]]
  <2> DEFINE L(g) == [e \in Fds \ {0, 1} |-> Left(g[e])]
  <2>1. /\ LeftOf' = [q \in Procs |-> L(filesys_desc_array'[q])]
        /\ LeftOf = [q \in Procs |-> L(filesys_desc_array[q])]
    BY DEF LeftOf, Table
  <2>2. \A q \in Procs : filesys_desc_array'[q] = IF q = p THEN t ELSE filesys_desc_array[q]
    BY <1>1 DEF FilesInv
  <2> HIDE DEF L
  <2>3. LeftOf' = [LeftOf EXCEPT ![p] = L(t)]
    BY <2>1, <2>2
  <2> QED BY <2>3 DEF L
<1> QED BY <1>3, <1>5, <1>6 DEF Reads!Start, Reads!NoData

LEMMA CloseCloses ==
    ASSUME FilesInv, NEW p \in Procs, NEW fd, Close(p, fd)
    PROVE  Reads!CloseFile(p)
<1> DEFINE d == Table(p)[fd]
           x == [d EXCEPT !.flags = 0]
<1>1. fd \in Fds \ {0, 1} /\ fd \in Fds /\ d.flags = 1
  BY DEF Close, Closable, Usable
<1>2. d \in Goods /\ d \in Descs
  BY <1>1, DescriptorGood
<1>3. filesys_desc_array' = [filesys_desc_array EXCEPT ![p][fd] = x]
  BY <1>1 DEF Close, FilesInv, Table
<1>4. x \in Goods /\ x.flags = 0
  <2> HIDE DEF d
  <2>1. x \in Goods
    BY <1>2, GoodDescriptors
  <2> QED BY <1>2, <2>1 DEF Descs
<1>5. LeftOf[p][fd] # Reads!Closed
  <2>1. LeftOf[p][fd] = Left(d)
    BY <1>1, LeftAt
  <2> HIDE DEF d
  <2> QED BY <1>1, <1>2, <2>1, LeftCases
<1> HIDE DEF x
<1>6. Left(x) = Reads!Closed
  BY <1>4, LeftCases
<1>7. LeftOf' = [LeftOf EXCEPT ![p][fd] = Left(x)]
  BY <1>1, <1>3, LeftReplaced
<1>8. buf' = [buf EXCEPT ![p] = <<>>]
  BY DEF Close, Result, Nothing
<1> QED BY <1>1, <1>5, <1>6, <1>7, <1>8, Zenon DEF Reads!CloseFile, Reads!NoData

\* An open file or directory at position a gives its next n bytes or names.
LEMMA Takes ==
    ASSUME FilesInv, NEW p \in Procs, NEW fd \in Fds \ {0, 1}, NEW S, NEW c \in Seq(S),
           NEW a \in Nat, NEW n \in Nat, a + n <= Len(c), NEW x,
           LeftOf[p][fd] = [kind |-> "file", data |-> From(c, a)],
           Left(x) = [kind |-> "file", data |-> From(c, a + n)],
           filesys_desc_array' = [filesys_desc_array EXCEPT ![p][fd] = x],
           buf' = [buf EXCEPT ![p] = SubSeq(c, a + 1, a + n)]
    PROVE  Reads!Take(p)
<1> DEFINE data == LeftOf[p][fd].data
<1>1. data = From(c, a) /\ LeftOf[p][fd].kind = "file"
  <2> DEFINE l == LeftOf[p][fd]
             f == From(c, a)
  <2>1. l = [kind |-> "file", data |-> f]
    OBVIOUS
  <2> HIDE DEF l, f
  <2>2. l.data = f /\ l.kind = "file"
    BY <2>1
  <2> QED BY <2>2 DEF l, f
<1>2. /\ Len(data) = Len(c) - a
      /\ SubSeq(data, 1, n) = SubSeq(c, a + 1, a + n)
      /\ SubSeq(data, n + 1, Len(data)) = From(c, a + n)
  <2> DEFINE g == SubSeq(c, a + 1, Len(c))
  <2>1. /\ Len(g) = Len(c) - a
        /\ SubSeq(g, 1, n) = SubSeq(c, a + 1, a + n)
        /\ SubSeq(g, n + 1, Len(g)) = SubSeq(c, (a + n) + 1, Len(c))
    BY PieceTaken, Zenon
  <2>2. data = g
    BY <1>1 DEF From
  <2> HIDE DEF g, data
  <2> QED BY <2>1, <2>2 DEF From
<1>3. n \in 0 .. Len(data)
  <2>1. Len(c) \in Nat
    OBVIOUS
  <2> QED BY <1>2, <2>1
<1>4. LeftOf' = [LeftOf EXCEPT ![p][fd] = Left(x)]
  BY LeftReplaced
<1> DEFINE w == SubSeq(data, n + 1, Len(data))
<1>5. Left(x) = [LeftOf[p][fd] EXCEPT !.data = w]
  <2>1. w = From(c, a + n)
    BY <1>2
  <2> HIDE DEF w
  <2> QED BY <2>1
<1>6. LeftOf' = [LeftOf EXCEPT ![p][fd].data = w]
  <2>1. LeftOf[p] \in [Fds \ {0, 1} -> {Left(Table(p)[e]) : e \in Fds \ {0, 1}}]
    BY DEF LeftOf
  <2>2. p \in DOMAIN LeftOf /\ fd \in DOMAIN LeftOf[p]
    BY DEF LeftOf
  <2> HIDE DEF w
  <2> QED BY <1>4, <1>5, <2>2, Zenon
<1>7. buf' = [buf EXCEPT ![p] = SubSeq(data, 1, n)]
  BY <1>2
<1>8. LeftOf[p][fd].kind # "directory"
  BY <1>1
<1> QED BY <1>3, <1>6, <1>7, <1>8, Zenon DEF Reads!Take

LEMMA ReadFileTakes ==
    ASSUME FilesInv, NEW p \in Procs, NEW fd, NEW cnt \in Int, ReadFile(p, fd, cnt)
    PROVE  Reads!Take(p) \/ Reads!Other(p)
<1> DEFINE d == Table(p)[fd]
           r == read_data(d.inode, d.pos, cnt % WORD)
           x == [d EXCEPT !.pos = Advanced(@, r.val)]
<1>1. /\ Readable(p, fd) /\ d.ops = "files" /\ d.inode # -1 /\ Result(p, r)
      /\ filesys_desc_array' =
           [filesys_desc_array EXCEPT ![p][fd].pos = Advanced(@, r.val)]
  BY DEF ReadFile
<1>2. fd \in Fds /\ fd \in Fds \ {0, 1} /\ d.flags = 1
  BY <1>1, ReadsOpened
<1>3. d \in Goods /\ d \in Descs
  BY <1>2, DescriptorGood
<1>4. filesys_desc_array' = [filesys_desc_array EXCEPT ![p][fd] = x]
  <2> HIDE DEF r
  <2> QED BY <1>1, <1>2 DEF FilesInv, Table
<1>5. /\ d.inode \in DOMAIN Inodes /\ d.pos \in Nat /\ d.pos <= Inodes[d.inode].length
      /\ \/ r = Failed
         \/ \E n \in 0 .. Inodes[d.inode].length - d.pos :
              r = [val |-> n, data |-> SubSeq(Content(d.inode), d.pos + 1, d.pos + n)]
  <2> HIDE DEF d
  <2> QED BY <1>1, <1>3, ReadStaysWithin
<1> HIDE DEF r
<1>6. CASE r = Failed
  <2>1. Advanced(d.pos, r.val) = d.pos /\ r.data = <<>>
    BY <1>6 DEF Failed, Advanced
  <2>2. x = d
    <3> HIDE DEF d
    <3> QED BY <1>3, <2>1 DEF Descs
  <2>3. filesys_desc_array' = [filesys_desc_array EXCEPT ![p][fd] = filesys_desc_array[p][fd]]
    BY <1>4, <2>2 DEF Table
  <2>4. UNCHANGED filesys_desc_array
    BY <2>3 DEF FilesInv
  <2> QED BY <1>1, <2>1, <2>4, OtherCall
<1>7. ASSUME NEW n \in 0 .. Inodes[d.inode].length - d.pos,
             r = [val |-> n, data |-> SubSeq(Content(d.inode), d.pos + 1, d.pos + n)]
      PROVE  Reads!Take(p)
  <2> DEFINE c == Content(d.inode)
  <2>1. c \in Seq(ByteNames) /\ Len(c) = Inodes[d.inode].length /\ Len(c) \in Nat
    BY <1>5, ContentIsSeq
  <2>2. n \in Nat /\ d.pos + n <= Len(c) /\ r.val = n /\ Advanced(d.pos, r.val) = d.pos + n
    BY <1>5, <1>7, <2>1 DEF Advanced
  <2>3. LeftOf[p][fd] = [kind |-> "file", data |-> From(c, d.pos)]
    <3>1. LeftOf[p][fd] = Left(d)
      BY <1>2, LeftAt
    <3> HIDE DEF d
    <3> QED BY <1>1, <1>2, <1>3, <3>1, LeftCases
  <2>4. Left(x) = [kind |-> "file", data |-> From(c, d.pos + n)]
    <3> HIDE DEF d
    <3>1. x = [d EXCEPT !.pos = d.pos + n]
      BY <1>3, <2>2 DEF Descs
    <3>2. /\ x.pos = d.pos + n /\ x.ops = "files" /\ x.inode = d.inode /\ x.flags = 1
      BY <1>1, <1>2, <1>3, <3>1 DEF Descs
    <3> HIDE DEF x
    <3> QED BY <1>1, <3>2 DEF Left
  <2>5. buf' = [buf EXCEPT ![p] = SubSeq(c, d.pos + 1, d.pos + n)]
    BY <1>1, <1>7 DEF Result
  <2> DEFINE a == d.pos
  <2>6. a \in Nat
    BY <1>5
  <2> HIDE DEF x, c
  <2> QED
    <3>1. /\ LeftOf[p][fd] = [kind |-> "file", data |-> From(c, a)]
          /\ Left(x) = [kind |-> "file", data |-> From(c, a + n)]
          /\ buf' = [buf EXCEPT ![p] = SubSeq(c, a + 1, a + n)]
          /\ a + n <= Len(c)
      BY <2>2, <2>3, <2>4, <2>5
    <3> HIDE DEF a, d
    <3> QED BY <1>2, <1>4, <2>1, <2>2, <2>6, <3>1, Takes
<1> QED BY <1>5, <1>6, <1>7

\* The first of what is left, and the rest.
LEMMA FirstTaken ==
    ASSUME NEW S, NEW c \in Seq(S), NEW a \in Nat, a < Len(c)
    PROVE  LET d == SubSeq(c, a + 1, Len(c)) IN
           /\ d # <<>> /\ Head(d) = c[a + 1]
           /\ Tail(d) = SubSeq(c, (a + 1) + 1, Len(c))
<1> DEFINE d == SubSeq(c, a + 1, Len(c))
<1>1. Len(c) \in Nat /\ a <= Len(c) /\ a + 1 <= Len(c) /\ 1 \in Nat
  OBVIOUS
<1>2. d \in Seq(S) /\ Len(d) = Len(c) - a /\ \A i \in 1 .. Len(c) - a : d[i] = c[a + i]
  BY <1>1, Piece
<1>3. SubSeq(d, 1 + 1, Len(d)) = SubSeq(c, (a + 1) + 1, Len(c))
  BY <1>1, PieceTaken
<1> HIDE DEF d
<1>4. d # <<>> /\ d[1] = c[a + 1]
  BY <1>1, <1>2
<1>5. Head(d) = d[1] /\ Tail(d) = SubSeq(d, 1 + 1, Len(d))
  <2>1. Tail(d) = SubSeq(d, 2, Len(d))
    BY <1>2, <1>4, TailIsSubSeq
  <2>2. 1 + 1 = 2
    OBVIOUS
  <2> QED BY <1>2, <1>4, <2>1, <2>2
<1> QED BY <1>3, <1>4, <1>5 DEF d

LEMMA ReadDirectoryTakes ==
    ASSUME FilesInv, NEW p \in Procs, NEW fd, ReadDirectory(p, fd)
    PROVE  Reads!TakeName(p) \/ Reads!Rewind(p)
<1> DEFINE d == Table(p)[fd]
           a == d.pos
<1>1. fd \in Fds /\ fd \in Fds \ {0, 1} /\ d.ops = "files" /\ d.inode = -1 /\ d.flags = 1
  BY ReadsOpened DEF ReadDirectory
<1>2. d \in Goods /\ d \in Descs
  BY <1>1, DescriptorGood
<1>3. a \in Nat /\ a <= num_of_entries
  <2>1. -1 \notin DOMAIN Inodes
    BY ImageAssumption
  <2> HIDE DEF d
  <2> QED BY <1>1, <1>2, <2>1 DEF Goods, Descs, Within
<1>4. /\ num_of_entries \in Nat
      /\ Listing \in Seq(Seq(Int \X Int)) /\ Len(Listing) = num_of_entries
      /\ \A i \in 1 .. num_of_entries : Listing[i] = EntryString(i)
  BY ListingIsSeq
<1>5. LeftOf[p][fd] = [kind |-> "directory", data |-> From(Listing, a)]
  <2>1. LeftOf[p][fd] = Left(d)
    BY <1>1, LeftAt
  <2> HIDE DEF d
  <2> QED BY <1>1, <1>2, <2>1, LeftCases
<1>6. ASSUME NEW v
      PROVE  Left([d EXCEPT !.pos = v]) = [kind |-> "directory", data |-> From(Listing, v)]
  <2> DEFINE x == [d EXCEPT !.pos = v]
  <2>1. x.pos = v /\ x.ops = "files" /\ x.inode = -1 /\ x.flags = 1
    <3> HIDE DEF d
    <3> QED BY <1>1, <1>2 DEF Descs
  <2> HIDE DEF x
  <2>2. Left(x) = [kind |-> "directory", data |-> From(Listing, v)]
    BY <2>1 DEF Left
  <2> QED BY <2>2 DEF x
<1>7. CASE a < num_of_entries
  <2> DEFINE x == [d EXCEPT !.pos = a + 1]
  <2>1. /\ filesys_desc_array' = [filesys_desc_array EXCEPT ![p][fd].pos = a + 1]
        /\ buf' = [buf EXCEPT ![p] = EntryString(a + 1)]
    BY <1>7 DEF ReadDirectory, Result
  <2>2. filesys_desc_array' = [filesys_desc_array EXCEPT ![p][fd] = x]
    BY <1>1, <2>1 DEF FilesInv, Table
  <2>3. Left(x) = [kind |-> "directory", data |-> From(Listing, a + 1)]
    BY <1>6
  <2> HIDE DEF x, a, d
  <2> DEFINE data == From(Listing, a)
  <2>4. data # <<>> /\ Head(data) = EntryString(a + 1) /\ Tail(data) = From(Listing, a + 1)
    <3>1. Listing[a + 1] = EntryString(a + 1) /\ a < Len(Listing)
      BY <1>3, <1>4, <1>7
    <3> QED BY <1>3, <1>4, <3>1, FirstTaken DEF From
  <2>5. LeftOf' = [LeftOf EXCEPT ![p][fd] = Left(x)]
    BY <1>1, <2>2, LeftReplaced
  <2> HIDE DEF data
  <2>6. LeftOf[p][fd] = [kind |-> "directory", data |-> data]
    BY <1>5 DEF data
  <2>7. Left(x) = [LeftOf[p][fd] EXCEPT !.data = Tail(data)]
    BY <2>3, <2>4, <2>6
  <2>8. LeftOf' = [LeftOf EXCEPT ![p][fd].data = Tail(data)]
    BY <2>5, <2>7, Zenon
  <2>9. LeftOf[p][fd].kind = "directory" /\ LeftOf[p][fd].data = data
    BY <2>6
  <2>10. buf' = [buf EXCEPT ![p] = Head(data)]
    BY <2>1, <2>4
  <2> QED BY <1>1, <2>4, <2>8, <2>9, <2>10, Zenon DEF Reads!TakeName
<1>8. CASE ~(a < num_of_entries)
  <2> DEFINE x == [d EXCEPT !.pos = 0]
  <2>1. /\ filesys_desc_array' = [filesys_desc_array EXCEPT ![p][fd].pos = 0]
        /\ buf' = [buf EXCEPT ![p] = <<>>]
    BY <1>8 DEF ReadDirectory, Result, Nothing
  <2>2. filesys_desc_array' = [filesys_desc_array EXCEPT ![p][fd] = x]
    BY <1>1, <2>1 DEF FilesInv, Table
  <2>3. Left(x) = [kind |-> "directory", data |-> From(Listing, 0)]
    BY <1>6
  <2> HIDE DEF x, a, d
  <2>4. From(Listing, 0) = Listing
    BY <1>4, SubSeqFull DEF From
  <2>5. From(Listing, a) = <<>>
    <3>1. a = Len(Listing) /\ Len(Listing) - a = 0
      BY <1>3, <1>4, <1>8
    <3>2. /\ From(Listing, a) \in Seq(Seq(Int \X Int))
          /\ Len(From(Listing, a)) = Len(Listing) - a
      BY <1>3, <1>4, <3>1, Piece DEF From
    <3> QED BY <3>1, <3>2, EmptySeq
  <2>6. LeftOf[p][fd] = [kind |-> "directory", data |-> <<>>]
    BY <1>5, <2>5
  <2>7. LeftOf' = [LeftOf EXCEPT ![p][fd] = Left(x)]
    BY <1>1, <2>2, LeftReplaced
  <2>8. Left(x) = [LeftOf[p][fd] EXCEPT !.data = Listing]
    BY <2>3, <2>4, <2>6
  <2>9. LeftOf' = [LeftOf EXCEPT ![p][fd].data = Listing]
    BY <2>7, <2>8, Zenon
  <2> QED BY <1>1, <2>1, <2>6, <2>9, Zenon DEF Reads!Rewind, Reads!NoData
<1> QED BY <1>7, <1>8

LEMMA ReadsStep == FilesInv /\ [Next]_vars => [Reads!ReadsNext]_(Reads!reads)
<1> SUFFICES ASSUME FilesInv, [Next]_vars, ~UNCHANGED Reads!reads
             PROVE  Reads!ReadsNext
  OBVIOUS
<1>1. CASE UNCHANGED vars
  BY <1>1 DEF vars, Reads!reads, LeftOf, Table
<1>2. CASE Next
  <2>1. PICK p \in Procs :
          \/ Execute(p)
          \/ \E name \in Names : OpenFail(p, name) \/ Open(p, name)
          \/ \E fd \in -1 .. NUM_FD :
               \/ CloseFail(p, fd) \/ Close(p, fd)
               \/ ReadFail(p, fd) \/ ReadDevice(p, fd) \/ ReadDirectory(p, fd)
               \/ \E cnt \in Counts : ReadFile(p, fd, cnt)
               \/ WriteFail(p, fd) \/ WriteDevice(p, fd)
    BY <1>2 DEF Next
  <2>2. CASE Execute(p)
    BY <2>2, ExecuteStarts DEF Reads!ReadsNext
  <2>3. ASSUME NEW name, Open(p, name) PROVE Reads!ReadsNext
    BY <2>3, OpenOpens DEF Reads!ReadsNext
  <2>4. ASSUME NEW fd, Close(p, fd) PROVE Reads!ReadsNext
    BY <2>4, CloseCloses DEF Reads!ReadsNext
  <2>5. ASSUME NEW fd, NEW cnt \in Counts, ReadFile(p, fd, cnt) PROVE Reads!ReadsNext
    BY <2>5, ReadFileTakes, FilesAssumption DEF Reads!ReadsNext
  <2>6. ASSUME NEW fd, ReadDirectory(p, fd) PROVE Reads!ReadsNext
    BY <2>6, ReadDirectoryTakes DEF Reads!ReadsNext
  <2>7. ASSUME UNCHANGED filesys_desc_array, Result(p, Failed) \/ Result(p, Nothing)
        PROVE  Reads!ReadsNext
    <3>1. Failed.data = <<>> /\ Nothing.data = <<>>
      BY DEF Failed, Nothing
    <3>2. Reads!Other(p)
      BY <2>7, <3>1, OtherCall
    <3> QED BY <3>2 DEF Reads!ReadsNext
  <2>8. ASSUME NEW name, OpenFail(p, name) PROVE Reads!ReadsNext
    BY <2>7, <2>8 DEF OpenFail
  <2>9. ASSUME NEW fd, CloseFail(p, fd) \/ ReadFail(p, fd) \/ ReadDevice(p, fd)
                         \/ WriteFail(p, fd) \/ WriteDevice(p, fd)
        PROVE  Reads!ReadsNext
    BY <2>7, <2>9 DEF CloseFail, ReadFail, ReadDevice, WriteFail, WriteDevice
  <2> QED BY <2>1, <2>2, <2>3, <2>4, <2>5, <2>6, <2>8, <2>9
<1> QED BY <1>1, <1>2

LEMMA ReadsInitially == Init => Reads!ReadsInit
<1> SUFFICES ASSUME Init PROVE Reads!ReadsInit
  OBVIOUS
<1> DEFINE t == [fd \in Fds |-> Desc("none", 0, 0, 0)]
<1>1. filesys_desc_array = [p \in Procs |-> Fresh(t)]
  BY DEF Init
<1>2. t \in [Fds -> Goods]
  BY GoodDescriptors
<1>3. Fresh(t) \in [Fds -> Goods] /\ \A fd \in Fds \ {0, 1} : Fresh(t)[fd].flags = 0
  BY <1>2, FreshIsGood
<1> DEFINE u == Fresh(t)
<1> HIDE DEF u
<1>4. u \in [Fds -> Goods] /\ \A fd \in Fds \ {0, 1} : u[fd].flags = 0
  BY <1>3 DEF u
<1>5. ASSUME NEW fd \in Fds \ {0, 1} PROVE Left(u[fd]) = Reads!Closed
  <2>1. u[fd] \in Goods /\ u[fd].flags = 0
    BY <1>4
  <2> QED BY <2>1, LeftCases
<1>6. [fd \in Fds \ {0, 1} |-> Left(u[fd])] = Reads!Closeds
  BY <1>5, Zenon DEF Reads!Closeds
<1>7. LeftOf = [p \in Procs |-> [fd \in Fds \ {0, 1} |-> Left(u[fd])]]
  BY <1>1 DEF LeftOf, Table, u
<1>8. buf = [p \in Procs |-> <<>>]
  BY DEF Init
<1> QED BY <1>6, <1>7, <1>8 DEF Reads!ReadsInit, Reads!NoData

\* Files implements FileReads: for every image, successive reads of a descriptor
\* return its file in order and without gaps, whatever the counts, the block size
\* and the order of the blocks; a directory gives every entry's name, one that fills
\* its field with the type byte behind it, and starts over; open takes the lowest free
\* descriptor; no call of one process moves another's.
THEOREM ReadsReturnContents == Spec => ImplementsFileReads
<1>1. Spec => [][Reads!ReadsNext]_(Reads!reads)
  BY FilesAlways, ReadsStep, PTL DEF Spec
<1>2. Spec => Reads!ReadsInit
  BY ReadsInitially DEF Spec
<1> QED BY <1>1, <1>2, PTL DEF ImplementsFileReads, Reads!ReadsSpec


=============================================================================
