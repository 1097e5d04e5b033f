------------------------- MODULE MatrixKernelProofs -------------------------
(***************************************************************************)
(* The matrix statements: on either backend, whatever the matrices, their  *)
(* layout in memory, the machine and the choices of vsetvli, the loops     *)
(* compute the product the language promises and keep the calling          *)
(* convention of RISC-V.                                                   *)
(***************************************************************************)
EXTENDS MatrixKernel, PrefixSums

---------------------------------------------------------------------------
(* Dot products, from the running sums of their terms.                     *)

Depth(p) == IF p.inner < 0 THEN 0 ELSE p.inner

Terms(p, m, r, c) ==
  [j \in 0 .. Depth(p) - 1 |->
     m[p.a + r * p.inner + j] * m[p.b + j * p.cols + c]]

(* The inner dimension as the number of its terms.                         *)
LEMMA DepthFacts ==
  ASSUME NEW p, p.inner \in Int
  PROVE  Depth(p) \in Nat /\ \A j \in 0 .. Depth(p) - 1 : j \in 0 .. p.inner - 1
  BY DEF Depth

(* The operands of a term are in the buffers of the program.               *)
LEMMA TermFacts ==
  ASSUME NEW p, NEW m, ValidInput(p, m),
         NEW r \in 0 .. p.rows - 1, NEW c \in 0 .. p.cols - 1,
         NEW j \in 0 .. Depth(p) - 1
  PROVE  /\ p.a + r * p.inner + j \in Cells(p.a, p.rows, p.inner)
         /\ p.b + j * p.cols + c \in Cells(p.b, p.inner, p.cols)
         /\ m[p.a + r * p.inner + j] \in Val /\ m[p.b + j * p.cols + c] \in Val
         /\ Terms(p, m, r, c)[j] \in Int
<1>1. /\ p.rows \in Int /\ p.cols \in Int /\ p.inner \in Int
      /\ m \in [Addr -> Val]
      /\ Cells(p.a, p.rows, p.inner) \subseteq Addr
      /\ Cells(p.b, p.inner, p.cols) \subseteq Addr
  BY DEF ValidInput
<1>2. j \in 0 .. p.inner - 1
  BY <1>1, DepthFacts
<1>3. /\ p.a + r * p.inner + j \in Cells(p.a, p.rows, p.inner)
      /\ p.b + j * p.cols + c \in Cells(p.b, p.inner, p.cols)
  BY <1>2 DEF Cells
<1>4. m[p.a + r * p.inner + j] \in Val /\ m[p.b + j * p.cols + c] \in Val
  BY <1>1, <1>3
<1>5. \A v, w \in Val : v * w \in Int
  BY ModulusAssumption DEF Val
<1> QED
  BY <1>3, <1>4, <1>5 DEF Terms

(* The recursive dot product is the running sum of its terms.              *)
LEMMA DotIsRunningSum ==
  ASSUME NEW p, NEW m, NEW r \in Int, NEW c \in Int, NEW G,
         ValidInput(p, m), r \in 0 .. p.rows - 1, c \in 0 .. p.cols - 1,
         IsRunningSum(G, Terms(p, m, r, c), Depth(p)), NEW n \in 0 .. Depth(p)
  PROVE  DotOf(p, m, r, c, n) = G[n] /\ G[n] \in Int
<1> DEFINE Body(f) == [j \in 0 .. n |->
                         IF j = 0 THEN 0
                         ELSE f[j - 1] + m[p.a + r * p.inner + (j - 1)]
                                         * m[p.b + (j - 1) * p.cols + c]]
           dot == CHOOSE f : f = Body(f)
           D == [j \in 0 .. n |-> G[j]]
<1>0. Depth(p) \in Nat
  BY DepthFacts DEF ValidInput
<1>1. /\ G[0] = 0 /\ \A j \in 0 .. n : G[j] \in Int
      /\ \A j \in 1 .. n : G[j] = G[j - 1] + m[p.a + r * p.inner + (j - 1)]
                                             * m[p.b + (j - 1) * p.cols + c]
  <2>1. ASSUME NEW j \in 1 .. n
        PROVE  G[j] = G[j - 1] + m[p.a + r * p.inner + (j - 1)]
                                 * m[p.b + (j - 1) * p.cols + c]
    <3>1. j - 1 \in 0 .. Depth(p) - 1 /\ j \in 1 .. Depth(p)
      BY <1>0
    <3>2. G[j] = G[j - 1] + Terms(p, m, r, c)[j - 1]
      BY <3>1 DEF IsRunningSum
    <3> DEFINE i == j - 1
    <3>3. i \in 0 .. Depth(p) - 1
      BY <3>1
    <3> HIDE DEF i
    <3>4. Terms(p, m, r, c)[i]
            = m[p.a + r * p.inner + i] * m[p.b + i * p.cols + c]
      BY <3>3 DEF Terms
    <3> QED
      BY <3>2, <3>4 DEF i
  <2> QED
    BY <1>0, <2>1 DEF IsRunningSum
<1>2. D = Body(D)
  <2>1. ASSUME NEW j \in 0 .. n
        PROVE  G[j] = IF j = 0 THEN 0
                      ELSE D[j - 1] + m[p.a + r * p.inner + (j - 1)]
                                      * m[p.b + (j - 1) * p.cols + c]
    <3>1. CASE j = 0
      BY <1>1, <3>1
    <3>2. CASE j # 0
      <4>1. j \in 1 .. n /\ j - 1 \in 0 .. n
        BY <3>2, <1>0
      <4>2. D[j - 1] = G[j - 1]
        BY <4>1
      <4> QED
        BY <1>1, <3>2, <4>1, <4>2
    <3> QED
      BY <3>1, <3>2
  <2> QED
    BY <2>1
<1>3. dot = Body(dot)
  <2> HIDE DEF Body, D
  <2> QED
    BY <1>2
<1>4. /\ dot[0] = D[0]
      /\ \A j \in 1 .. n : dot[j - 1] = D[j - 1] => dot[j] = D[j]
  <2>1. \A j \in 0 .. n :
          dot[j] = IF j = 0 THEN 0
                   ELSE dot[j - 1] + m[p.a + r * p.inner + (j - 1)]
                                     * m[p.b + (j - 1) * p.cols + c]
    BY <1>3
  <2>2. \A j \in 0 .. n :
          D[j] = IF j = 0 THEN 0
                 ELSE D[j - 1] + m[p.a + r * p.inner + (j - 1)]
                                 * m[p.b + (j - 1) * p.cols + c]
    BY <1>2
  <2>3. 0 \in 0 .. n /\ \A j \in 1 .. n : j \in 0 .. n /\ j # 0
    BY <1>0
  <2> HIDE DEF dot, D
  <2>4. dot[0] = D[0]
    BY <2>1, <2>2, <2>3
  <2>5. ASSUME NEW j \in 1 .. n, dot[j - 1] = D[j - 1] PROVE dot[j] = D[j]
    BY <2>1, <2>2, <2>3, <2>5
  <2> QED
    BY <2>4, <2>5
<1>5. dot[n] = D[n]
  <2>1. n \in Nat
    BY <1>0
  <2>2. dot[0] = D[0]
    BY <1>4
  <2>3. \A j \in 1 .. n : dot[j - 1] = D[j - 1] => dot[j] = D[j]
    BY <1>4
  <2> HIDE DEF dot, D, Body
  <2> QED
    BY <2>1, <2>2, <2>3, AgreeFromZero
<1>6. DotOf(p, m, r, c, n) = dot[n]
  BY DEF DotOf
<1>7. n \in 0 .. n
  BY <1>0
<1> QED
  BY <1>1, <1>5, <1>6, <1>7

(* No terms, no sum.                                                       *)
LEMMA DotOfNothing ==
  ASSUME NEW p, NEW m, NEW r \in Int, NEW c \in Int, ValidInput(p, m),
         r \in 0 .. p.rows - 1, c \in 0 .. p.cols - 1
  PROVE  DotOf(p, m, r, c, 0) = 0
<1> DEFINE t == Terms(p, m, r, c)
<1>1. Depth(p) \in Nat
  BY DepthFacts DEF ValidInput
<1>2. \A j \in 0 .. Depth(p) - 1 : t[j] \in Int
  BY TermFacts
<1>3. PICK n : n = 0
  OBVIOUS
<1>4. n \in 0 .. Depth(p)
  BY <1>1, <1>3
<1>5. PICK G : IsRunningSum(G, t, Depth(p))
  <2> HIDE DEF t
  <2> QED
    BY <1>1, <1>2, RunningSumExists
<1>6. DotOf(p, m, r, c, n) = G[n]
  BY <1>4, <1>5, DotIsRunningSum
<1> QED
  BY <1>3, <1>5, <1>6 DEF IsRunningSum

---------------------------------------------------------------------------
(* The layout of the buffers.                                              *)

ElementsOf(p) == (0 .. p.rows - 1) \X (0 .. p.cols - 1)
OutAt(p, e)   == p.out + e[1] * p.cols + e[2]

(* A pair <<k, c>> is an element of b, and of the packed copy of b.        *)
Pairs(p)      == (0 .. p.inner - 1) \X (0 .. p.cols - 1)
RhsAt(p, w)   == p.b + w[1] * p.cols + w[2]
PackAt(p, w)  == p.pack + w[2] * p.inner + w[1]

ProductOf(p, m, e) == DotOf(p, m, e[1], e[2], Depth(p)) % Modulus

(* Different places of a row-major matrix are different cells.             *)
LEMMA RowMajorInjective ==
  ASSUME NEW base \in Int, NEW width \in Int, NEW i \in Int, NEW h \in Int,
         NEW j \in 0 .. width - 1, NEW l \in 0 .. width - 1,
         base + i * width + j = base + h * width + l
  PROVE  i = h /\ j = l
<1>1. width \in Nat \ {0}
  OBVIOUS
<1>2. i * width \in Int /\ h * width \in Int
  OBVIOUS
<1>3. i * width + j = h * width + l
  BY <1>2
<1> QED
  BY <1>1, <1>3, UniqueDivision

(* The cells of the result are in memory, apart from each other and from   *)
(* whatever the multiplication reads.                                      *)
LEMMA OutLayout ==
  ASSUME NEW p, NEW m, ValidInput(p, m)
  PROVE  \A e \in ElementsOf(p) :
           /\ OutAt(p, e) \in Addr
           /\ \A f \in ElementsOf(p) : OutAt(p, e) = OutAt(p, f) => e = f
           /\ \A r \in 0 .. p.rows - 1, j \in 0 .. p.inner - 1 :
                OutAt(p, e) # p.a + r * p.inner + j
           /\ ~p.packed => \A w \in Pairs(p) : OutAt(p, e) # RhsAt(p, w)
           /\ p.packed => \A w \in Pairs(p) : OutAt(p, e) # PackAt(p, w)
<1> SUFFICES ASSUME NEW e \in ElementsOf(p)
             PROVE  /\ OutAt(p, e) \in Addr
                    /\ \A f \in ElementsOf(p) :
                         OutAt(p, e) = OutAt(p, f) => e = f
                    /\ \A r \in 0 .. p.rows - 1, j \in 0 .. p.inner - 1 :
                         OutAt(p, e) # p.a + r * p.inner + j
                    /\ ~p.packed =>
                         \A w \in Pairs(p) : OutAt(p, e) # RhsAt(p, w)
                    /\ p.packed =>
                         \A w \in Pairs(p) : OutAt(p, e) # PackAt(p, w)
  OBVIOUS
<1>1. /\ p.rows \in Int /\ p.cols \in Int /\ p.inner \in Int /\ p.out \in Int
  BY DEF ValidInput
<1>2. OutAt(p, e) \in Cells(p.out, p.rows, p.cols)
  BY DEF OutAt, ElementsOf, Cells
<1>3. ASSUME NEW f \in ElementsOf(p), OutAt(p, e) = OutAt(p, f) PROVE e = f
  <2>1. /\ e = <<e[1], e[2]>> /\ f = <<f[1], f[2]>>
        /\ e[1] \in Int /\ f[1] \in Int
        /\ e[2] \in 0 .. p.cols - 1 /\ f[2] \in 0 .. p.cols - 1
    BY <1>1 DEF ElementsOf
  <2>2. e[1] = f[1] /\ e[2] = f[2]
    BY <1>1, <1>3, <2>1, RowMajorInjective DEF OutAt
  <2> QED
    BY <2>1, <2>2
<1>4. \A r \in 0 .. p.rows - 1, j \in 0 .. p.inner - 1 :
        p.a + r * p.inner + j \in Cells(p.a, p.rows, p.inner)
  BY DEF Cells
<1>5. \A w \in Pairs(p) : RhsAt(p, w) \in Cells(p.b, p.inner, p.cols)
  BY DEF Pairs, RhsAt, Cells
<1>6. \A w \in Pairs(p) : PackAt(p, w) \in Cells(p.pack, p.cols, p.inner)
  BY DEF Pairs, PackAt, Cells
<1>7. OutAt(p, e) \in Addr
  BY <1>2 DEF ValidInput
<1>8. \A r \in 0 .. p.rows - 1, j \in 0 .. p.inner - 1 :
        OutAt(p, e) # p.a + r * p.inner + j
  BY <1>2, <1>4 DEF ValidInput
<1>9. ~p.packed => \A w \in Pairs(p) : OutAt(p, e) # RhsAt(p, w)
  BY <1>2, <1>5 DEF ValidInput
<1>10. p.packed => \A w \in Pairs(p) : OutAt(p, e) # PackAt(p, w)
  BY <1>2, <1>6 DEF ValidInput
<1> QED
  BY <1>3, <1>7, <1>8, <1>9, <1>10

(* The cells of the packed copy are in memory, apart from each other and from*)
(* both operands.                                                          *)
LEMMA PackLayout ==
  ASSUME NEW p, NEW m, ValidInput(p, m), p.packed
  PROVE  \A w \in Pairs(p) :
           /\ PackAt(p, w) \in Addr
           /\ \A v \in Pairs(p) : PackAt(p, w) = PackAt(p, v) => w = v
           /\ \A v \in Pairs(p) : PackAt(p, w) # RhsAt(p, v)
           /\ \A r \in 0 .. p.rows - 1, j \in 0 .. p.inner - 1 :
                PackAt(p, w) # p.a + r * p.inner + j
<1> SUFFICES ASSUME NEW w \in Pairs(p)
             PROVE  /\ PackAt(p, w) \in Addr
                    /\ \A v \in Pairs(p) : PackAt(p, w) = PackAt(p, v) => w = v
                    /\ \A v \in Pairs(p) : PackAt(p, w) # RhsAt(p, v)
                    /\ \A r \in 0 .. p.rows - 1, j \in 0 .. p.inner - 1 :
                         PackAt(p, w) # p.a + r * p.inner + j
  OBVIOUS
<1>1. /\ p.rows \in Int /\ p.cols \in Int /\ p.inner \in Int /\ p.pack \in Int
  BY DEF ValidInput
<1>2. PackAt(p, w) \in Cells(p.pack, p.cols, p.inner)
  BY DEF Pairs, PackAt, Cells
<1>3. ASSUME NEW v \in Pairs(p), PackAt(p, w) = PackAt(p, v) PROVE w = v
  <2>1. /\ w = <<w[1], w[2]>> /\ v = <<v[1], v[2]>>
        /\ w[2] \in Int /\ v[2] \in Int
        /\ w[1] \in 0 .. p.inner - 1 /\ v[1] \in 0 .. p.inner - 1
    BY <1>1 DEF Pairs
  <2>2. w[1] = v[1] /\ w[2] = v[2]
    BY <1>1, <1>3, <2>1, RowMajorInjective DEF PackAt
  <2> QED
    BY <2>1, <2>2
<1>4. \A r \in 0 .. p.rows - 1, j \in 0 .. p.inner - 1 :
        p.a + r * p.inner + j \in Cells(p.a, p.rows, p.inner)
  BY DEF Cells
<1>5. \A v \in Pairs(p) : RhsAt(p, v) \in Cells(p.b, p.inner, p.cols)
  BY DEF Pairs, RhsAt, Cells
<1>6. PackAt(p, w) \in Addr
  BY <1>2 DEF ValidInput
<1>7. \A v \in Pairs(p) : PackAt(p, w) # RhsAt(p, v)
  BY <1>2, <1>5 DEF ValidInput
<1>8. \A r \in 0 .. p.rows - 1, j \in 0 .. p.inner - 1 :
        PackAt(p, w) # p.a + r * p.inner + j
  BY <1>2, <1>4 DEF ValidInput
<1> QED
  BY <1>3, <1>6, <1>7, <1>8

---------------------------------------------------------------------------
(* What has become of memory m0 once the pairs P have been packed and the  *)
(* elements F finished.                                                    *)
MemoryHolds(p, m0, m, P, F) ==
  /\ m \in [Addr -> Val]
  /\ \A w \in P : m[PackAt(p, w)] = m0[RhsAt(p, w)]
  /\ \A e \in F : m[OutAt(p, e)] = ProductOf(p, m0, e)
  /\ \A x \in Addr : /\ \A w \in P : x # PackAt(p, w)
                     /\ \A e \in F : x # OutAt(p, e)
                     => m[x] = m0[x]

(* Packing one more pair.                                                  *)
LEMMA PackOne ==
  ASSUME NEW p, NEW m0, NEW m, NEW P, NEW w, ValidInput(p, m0), p.packed,
         P \subseteq Pairs(p), w \in Pairs(p), MemoryHolds(p, m0, m, P, {})
  PROVE  MemoryHolds(p, m0, [m EXCEPT ![PackAt(p, w)] = m[RhsAt(p, w)]],
                     P \cup {w}, {})
<1> DEFINE n == [m EXCEPT ![PackAt(p, w)] = m[RhsAt(p, w)]]
<1>1. RhsAt(p, w) \in Addr
  <2>1. RhsAt(p, w) \in Cells(p.b, p.inner, p.cols)
    BY DEF Pairs, RhsAt, Cells
  <2> QED
    BY <2>1 DEF ValidInput
<1>2. m[RhsAt(p, w)] = m0[RhsAt(p, w)] /\ m[RhsAt(p, w)] \in Val
  BY <1>1, PackLayout DEF MemoryHolds
<1>3. PackAt(p, w) \in Addr
  BY PackLayout
<1>4. /\ n \in [Addr -> Val] /\ n[PackAt(p, w)] = m0[RhsAt(p, w)]
      /\ \A x \in Addr : x # PackAt(p, w) => n[x] = m[x]
  BY <1>2, <1>3 DEF MemoryHolds
<1> HIDE DEF n
<1>5. ASSUME NEW v \in P PROVE n[PackAt(p, v)] = m0[RhsAt(p, v)]
  BY <1>4, PackLayout DEF MemoryHolds
<1>6. ASSUME NEW x \in Addr, \A v \in P \cup {w} : x # PackAt(p, v)
      PROVE  n[x] = m0[x]
  BY <1>4, <1>6 DEF MemoryHolds
<1>7. MemoryHolds(p, m0, n, P \cup {w}, {})
  BY <1>4, <1>5, <1>6 DEF MemoryHolds
<1> QED
  BY <1>7 DEF n

(* Finishing one more element.                                             *)
LEMMA StoreOne ==
  ASSUME NEW p, NEW m0, NEW m, NEW P, NEW F, NEW e, ValidInput(p, m0),
         P \subseteq Pairs(p), P # {} => p.packed,
         F \subseteq ElementsOf(p), e \in ElementsOf(p),
         ProductOf(p, m0, e) \in Val, MemoryHolds(p, m0, m, P, F)
  PROVE  MemoryHolds(p, m0, [m EXCEPT ![OutAt(p, e)] = ProductOf(p, m0, e)],
                     P, F \cup {e})
<1> DEFINE n == [m EXCEPT ![OutAt(p, e)] = ProductOf(p, m0, e)]
<1>1. /\ n \in [Addr -> Val] /\ n[OutAt(p, e)] = ProductOf(p, m0, e)
      /\ \A x \in Addr : x # OutAt(p, e) => n[x] = m[x]
  BY OutLayout DEF MemoryHolds
<1> HIDE DEF n
<1>2. ASSUME NEW v \in P PROVE n[PackAt(p, v)] = m0[RhsAt(p, v)]
  BY <1>1, OutLayout, PackLayout DEF MemoryHolds
<1>3. ASSUME NEW f \in F PROVE n[OutAt(p, f)] = ProductOf(p, m0, f)
  BY <1>1, OutLayout DEF MemoryHolds
<1>4. ASSUME NEW x \in Addr, \A v \in P : x # PackAt(p, v),
             \A f \in F \cup {e} : x # OutAt(p, f)
      PROVE  n[x] = m0[x]
  BY <1>1, <1>4 DEF MemoryHolds
<1>5. MemoryHolds(p, m0, n, P, F \cup {e})
  BY <1>1, <1>2, <1>3, <1>4 DEF MemoryHolds
<1> QED
  BY <1>5 DEF n

(* The operands of the product are still there.                            *)
LEMMA Reads ==
  ASSUME NEW p, NEW m0, NEW m, NEW P, NEW F, ValidInput(p, m0),
         P = IF p.packed THEN Pairs(p) ELSE {},
         F \subseteq ElementsOf(p), MemoryHolds(p, m0, m, P, F),
         NEW r \in 0 .. p.rows - 1, NEW c \in 0 .. p.cols - 1,
         NEW j \in 0 .. Depth(p) - 1
  PROVE  /\ m[p.a + r * p.inner + j] = m0[p.a + r * p.inner + j]
         /\ p.packed => m[p.pack + c * p.inner + j] = m0[p.b + j * p.cols + c]
         /\ ~p.packed => m[p.b + j * p.cols + c] = m0[p.b + j * p.cols + c]
<1> DEFINE w == <<j, c>>
<1>1. /\ j \in 0 .. p.inner - 1 /\ w \in Pairs(p)
      /\ PackAt(p, w) = p.pack + c * p.inner + j
      /\ RhsAt(p, w) = p.b + j * p.cols + c
  BY DepthFacts DEF ValidInput, Pairs, PackAt, RhsAt
<1>2. p.a + r * p.inner + j \in Addr /\ p.b + j * p.cols + c \in Addr
  BY TermFacts DEF ValidInput
<1>3. m[p.a + r * p.inner + j] = m0[p.a + r * p.inner + j]
  BY <1>1, <1>2, OutLayout, PackLayout DEF MemoryHolds
<1> HIDE DEF w
<1>4. CASE p.packed
  BY <1>1, <1>3, <1>4 DEF MemoryHolds
<1>5. CASE ~p.packed
  BY <1>1, <1>2, <1>3, <1>5, OutLayout DEF MemoryHolds
<1> QED
  BY <1>4, <1>5

---------------------------------------------------------------------------
(* 32-bit arithmetic.                                                      *)

(* mulw and addw keep the low half and extend its sign.                    *)
LEMMA SignExtendFacts ==
  ASSUME NEW v \in Int
  PROVE  /\ SignExtend(v) \in Int /\ SignExtend(v) % Modulus = v % Modulus
         /\ SignExtend(v % Modulus) = SignExtend(v)
         /\ SignExtend(SignExtend(v)) = SignExtend(v)
  BY ModulusAssumption, TwosComplementFacts, TwosComplementAgain
  DEF SignExtend, TwosComplement

(* Extending the sign of a part of a sum does not change the extended sum. *)
LEMMA SignExtendOfSum ==
  ASSUME NEW a \in Int, NEW b \in Int
  PROVE  /\ SignExtend(SignExtend(a) + b) = SignExtend(a + b)
         /\ SignExtend(SignExtend(a) + SignExtend(b)) = SignExtend(a + b)
<1>1. \A v, w \in Int : SignExtend(SignExtend(v) + w) = SignExtend(v + w)
  BY ModulusAssumption, TwosComplementOfSum DEF SignExtend, TwosComplement
<1> DEFINE sb == SignExtend(b)
<1>2. sb \in Int
  BY SignExtendFacts
<1>3. SignExtend(sb + a) = SignExtend(b + a)
  BY <1>1
<1> HIDE DEF sb
<1>4. SignExtend(SignExtend(a) + sb) = SignExtend(a + sb)
  BY <1>1, <1>2
<1>5. a + sb = sb + a /\ b + a = a + b
  BY <1>2
<1>6. SignExtend(SignExtend(a) + sb) = SignExtend(a + b)
  BY <1>3, <1>4, <1>5
<1> QED
  BY <1>1, <1>6 DEF sb

(* A strip adds its terms, whatever its length.                            *)
LEMMA StripAdds ==
  ASSUME NEW G, NEW vl \in Nat, k \in Nat, accumulator \in Int,
         \A j \in 0 .. vl : G[k + j] \in Int,
         \A j \in 1 .. vl : /\ Term(k + j - 1) \in Int
                            /\ G[k + j] = G[k + (j - 1)] + Term(k + j - 1)
  PROVE  Strip(vl) = SignExtend(accumulator + (G[k + vl] - G[k]))
<1> DEFINE Body(f) == [j \in 0 .. vl |->
                         IF j = 0 THEN accumulator % Modulus
                         ELSE (f[j - 1] + (Term(k + j - 1) % Modulus))
                                % Modulus]
           sum == CHOOSE f : f = Body(f)
           x(j) == accumulator + (G[k + j] - G[k])
           D == [j \in 0 .. vl |-> x(j) % Modulus]
<1>1. \A j \in 0 .. vl : x(j) \in Int
  <2>1. 0 \in 0 .. vl
    OBVIOUS
  <2>2. G[k + 0] \in Int
    BY <2>1
  <2>3. G[k] \in Int
    BY <2>2
  <2>4. ASSUME NEW j \in 0 .. vl PROVE x(j) \in Int
    <3>1. G[k + j] \in Int
      OBVIOUS
    <3> QED
      BY <2>3, <3>1
  <2> QED
    BY <2>4
<1>2. x(0) = accumulator
  <2>1. G[k + 0] \in Int /\ k + 0 = k
    OBVIOUS
  <2> QED
    BY <2>1
<1>3. ASSUME NEW j \in 1 .. vl
      PROVE  x(j) % Modulus = ((x(j - 1) % Modulus)
                               + (Term(k + j - 1) % Modulus)) % Modulus
  <2>1. Term(k + j - 1) \in Int /\ x(j) \in Int /\ x(j - 1) \in Int
    <3>1. j - 1 \in 0 .. vl /\ j \in 0 .. vl
      OBVIOUS
    <3> QED
      BY <1>1, <3>1
  <2>2. x(j) = x(j - 1) + Term(k + j - 1)
    <3>1. /\ G[k + j] \in Int /\ G[k + (j - 1)] \in Int /\ G[k] \in Int
          /\ G[k + j] = G[k + (j - 1)] + Term(k + j - 1)
      <4>1. j - 1 \in 0 .. vl /\ j \in 0 .. vl /\ 0 \in 0 .. vl /\ k + 0 = k
        OBVIOUS
      <4> QED
        BY <4>1
    <3> QED
      BY <2>1, <3>1
  <2> HIDE DEF x
  <2> QED
    BY <2>1, <2>2, ModulusAssumption, RemainderOfSums
<1>4. \A j \in 0 .. vl :
        D[j] = IF j = 0 THEN accumulator % Modulus
               ELSE (D[j - 1] + (Term(k + j - 1) % Modulus)) % Modulus
  <2>1. \A j \in 0 .. vl : j # 0 => j \in 1 .. vl /\ j - 1 \in 0 .. vl
    OBVIOUS
  <2> HIDE DEF x
  <2> QED
    BY <1>2, <1>3, <2>1
<1>5. D = Body(D)
  <2> HIDE DEF x
  <2> QED
    BY <1>4
<1>6. sum = Body(sum)
  <2> HIDE DEF Body, D
  <2> QED
    BY <1>5
<1>7. \A j \in 0 .. vl :
        sum[j] = IF j = 0 THEN accumulator % Modulus
                 ELSE (sum[j - 1] + (Term(k + j - 1) % Modulus)) % Modulus
  BY <1>6
<1> HIDE DEF sum, D, Body
<1>8. sum[0] = D[0]
  <2>1. 0 \in 0 .. vl
    OBVIOUS
  <2> QED
    BY <1>4, <1>7, <2>1
<1>9. \A j \in 1 .. vl : sum[j - 1] = D[j - 1] => sum[j] = D[j]
  <2>1. \A j \in 1 .. vl : j \in 0 .. vl /\ j # 0
    OBVIOUS
  <2> QED
    BY <1>4, <1>7, <2>1
<1>10. sum[vl] = D[vl]
  BY <1>8, <1>9, AgreeFromZero
<1>11. Strip(vl) = SignExtend(sum[vl])
  BY DEF Strip, sum, Body
<1>12. D[vl] = x(vl) % Modulus /\ x(vl) \in Int
  BY <1>1 DEF D
<1> HIDE DEF x
<1>13. SignExtend(x(vl) % Modulus) = SignExtend(x(vl))
  BY <1>12, SignExtendFacts
<1> QED
  BY <1>10, <1>11, <1>12, <1>13 DEF x

---------------------------------------------------------------------------
(* The inductive invariant of the loops.                                   *)

Packing     == {"pack", "pack_col", "pack_inner"}
Multiplying == {"row", "col", "inner", "end"}

(* The part of b that has been packed.                                     *)
PackedPairs ==
  {w \in Pairs(program) :
     /\ program.packed
     /\ \/ pc \notin Packing
        \/ pc # "pack" /\ w[2] < col
        \/ pc = "pack_inner" /\ w[2] = col /\ w[1] < k}

(* The part of the product that has been stored.                           *)
FinishedElements ==
  {e \in ElementsOf(program) :
     /\ pc \in Multiplying
     /\ \/ e[1] < row
        \/ e[1] = row /\ e[2] < col /\ pc \in {"col", "inner"}}

MemoryState ==
  MemoryHolds(program, mem0, mem, PackedPairs, FinishedElements)

(* The counters are inside the matrices where they are used.               *)
Positions ==
  /\ pc \in Packing => program.packed
  /\ pc = "pack_inner" => col < program.cols /\ k <= Depth(program)
  /\ pc \in {"col", "inner"} => row < program.rows
  /\ pc = "inner" => col < program.cols /\ k <= Depth(program)
  /\ pc = "end" => row >= program.rows

Types ==
  /\ [program |-> program, mem |-> mem0] \in Programs
  /\ pc \in Packing \cup {"multiply"} \cup Multiplying
  /\ done = (pc = "end")
  /\ row \in Nat /\ col \in Nat /\ k \in Nat
  /\ SignExtend(accumulator) = accumulator

LoopInv == /\ Types /\ Positions
           /\ MemoryState /\ AccumulatorIsPartialDot

(* The bounds the loops compare with are the counts of the program.        *)
LEMMA ProgramFacts ==
  ASSUME Types
  PROVE  /\ ValidInput(program, mem0)
         /\ program.rows \in Int /\ program.cols \in Int
         /\ program.inner \in Int
         /\ program.packed \in BOOLEAN
         /\ Bound(program.rows) = program.rows
         /\ Bound(program.cols) = program.cols
         /\ Bound(program.inner) = program.inner
         /\ Depth(program) \in Nat
<1> DEFINE input == [program |-> program, mem |-> mem0]
<1>1. input \in Programs /\ input.program = program /\ input.mem = mem0
  BY DEF Types
<1> HIDE DEF input
<1>2. ValidInput(program, mem0)
  BY <1>1, ProgramsAssumption
<1>3. /\ program.rows \in Int /\ program.cols \in Int /\ program.inner \in Int
      /\ program.packed \in BOOLEAN
  BY <1>2 DEF ValidInput
<1>4. OnRVV => /\ program.rows \in 0 .. XMod - 1
               /\ program.cols \in 0 .. XMod - 1
               /\ program.inner \in 0 .. XMod - 1
  BY <1>1, CountsAssumption DEF OnRVV
<1>5. \A n \in 0 .. XMod - 1 : n % XMod = n
  BY XModAssumption
<1>6. /\ Bound(program.rows) = program.rows
      /\ Bound(program.cols) = program.cols
      /\ Bound(program.inner) = program.inner
  BY <1>4, <1>5 DEF Bound
<1>7. Depth(program) \in Nat
  BY <1>3 DEF Depth
<1> QED
  BY <1>2, <1>3, <1>6, <1>7

(* What is packed and stored lies in the buffers, and after matrix_pack_b all*)
(* of b has been packed.                                                   *)
LEMMA PackedFacts ==
  /\ PackedPairs \subseteq Pairs(program)
  /\ FinishedElements \subseteq ElementsOf(program)
  /\ PackedPairs # {} => program.packed
  /\ pc \notin Packing =>
       PackedPairs = IF program.packed THEN Pairs(program) ELSE {}
  BY DEF PackedPairs, FinishedElements

(* In the multiplication an operand is what it was in the beginning.       *)
LEMMA TermIsTerm ==
  ASSUME Types, Positions, MemoryState, pc = "inner",
         NEW j \in 0 .. Depth(program) - 1
  PROVE  /\ Term(j) = Terms(program, mem0, row, col)[j]
         /\ Term(j) \in Int
<1> DEFINE p == program
           P == PackedPairs
           F == FinishedElements
<1>1. /\ ValidInput(p, mem0) /\ p.packed \in BOOLEAN
      /\ row \in 0 .. p.rows - 1 /\ col \in 0 .. p.cols - 1
      /\ j \in 0 .. Depth(p) - 1
  BY ProgramFacts DEF Types, Positions
<1>2. /\ F \subseteq ElementsOf(p)
      /\ P = IF p.packed THEN Pairs(p) ELSE {}
  BY PackedFacts DEF Packing
<1>3. MemoryHolds(p, mem0, mem, P, F)
  BY DEF MemoryState
<1> HIDE DEF p, P, F
<1>4. /\ mem[p.a + row * p.inner + j] = mem0[p.a + row * p.inner + j]
      /\ p.packed =>
           mem[p.pack + col * p.inner + j] = mem0[p.b + j * p.cols + col]
      /\ ~p.packed =>
           mem[p.b + j * p.cols + col] = mem0[p.b + j * p.cols + col]
  BY <1>1, <1>2, <1>3, Reads
<1>5. p.packed => /\ rhsBuffer = p.pack /\ rhsIndex(j) = col * p.inner + j
  BY DEF p, rhsBuffer, rhsIndex
<1>6. ~p.packed => /\ rhsBuffer = p.b /\ rhsIndex(j) = j * p.cols + col
  BY DEF p, rhsBuffer, rhsIndex
<1>7. /\ p.a \in Int /\ p.b \in Int /\ p.rows \in Int /\ p.cols \in Int
      /\ p.inner \in Int /\ p.pack \in Int
  BY <1>1 DEF ValidInput
<1>8. p.a + lhsIndex(j) = p.a + row * p.inner + j
  <2>1. lhsIndex(j) = row * p.inner + j
    BY DEF lhsIndex, p
  <2>2. row * p.inner \in Int
    BY <1>1, <1>7
  <2> QED
    BY <1>7, <2>1, <2>2
<1>9. mem[rhsBuffer + rhsIndex(j)] = mem0[p.b + j * p.cols + col]
  <2>1. col * p.inner \in Int /\ j * p.cols \in Int
    BY <1>1, <1>7
  <2>2. CASE p.packed
    <3>1. rhsBuffer + rhsIndex(j) = p.pack + col * p.inner + j
      BY <1>5, <1>7, <2>1, <2>2
    <3> QED
      BY <1>4, <2>2, <3>1
  <2>3. CASE ~p.packed
    <3>1. rhsBuffer + rhsIndex(j) = p.b + j * p.cols + col
      BY <1>1, <1>6, <1>7, <2>1, <2>3
    <3> QED
      BY <1>4, <2>3, <3>1
  <2> QED
    BY <2>2, <2>3
<1>10. Term(j) = mem0[p.a + row * p.inner + j] * mem0[p.b + j * p.cols + col]
  <2>1. Term(j) = mem[p.a + lhsIndex(j)] * mem[rhsBuffer + rhsIndex(j)]
    BY DEF Term, p
  <2> QED
    BY <1>4, <1>8, <1>9, <2>1
<1>11. Terms(p, mem0, row, col)[j] \in Int
  BY <1>1, TermFacts
<1> QED
  BY <1>1, <1>10, <1>11 DEF p, Terms

(* The running sums behind the dot product of the inner loop.              *)
LEMMA InnerSums ==
  ASSUME Types, Positions, MemoryState, pc = "inner"
  PROVE  \E G : /\ \A n \in 0 .. Depth(program) :
                     Dot(mem0, row, col, n) = G[n] /\ G[n] \in Int
                /\ \A n \in 1 .. Depth(program) :
                     G[n] = G[n - 1] + Term(n - 1) /\ Term(n - 1) \in Int
<1> DEFINE p == program
           t == Terms(p, mem0, row, col)
<1>1. /\ ValidInput(p, mem0) /\ Depth(p) \in Nat
      /\ row \in Int /\ col \in Int
      /\ row \in 0 .. p.rows - 1 /\ col \in 0 .. p.cols - 1
  BY ProgramFacts DEF Types, Positions
<1>2. \A j \in 0 .. Depth(p) - 1 : Term(j) = t[j] /\ Term(j) \in Int
  BY TermIsTerm
<1> HIDE DEF p
<1>3. \A j \in 0 .. Depth(p) - 1 : t[j] \in Int
  BY <1>1, TermFacts
<1>4. PICK G : IsRunningSum(G, t, Depth(p))
  <2> HIDE DEF t
  <2> QED
    BY <1>1, <1>3, RunningSumExists
<1>5. \A n \in 0 .. Depth(p) :
        DotOf(p, mem0, row, col, n) = G[n] /\ G[n] \in Int
  BY <1>1, <1>4, DotIsRunningSum
<1>6. ASSUME NEW n \in 1 .. Depth(p)
      PROVE  G[n] = G[n - 1] + Term(n - 1) /\ Term(n - 1) \in Int
  <2>1. n - 1 \in 0 .. Depth(p) - 1
    BY <1>1
  <2> HIDE DEF t
  <2> QED
    BY <1>2, <1>4, <2>1 DEF IsRunningSum
<1>7. \A n : Dot(mem0, row, col, n) = DotOf(p, mem0, row, col, n)
  BY DEF Dot, p
<1> QED
  BY <1>5, <1>6, <1>7 DEF p

---------------------------------------------------------------------------
(* The steps.                                                              *)

(* The invariant holds when nothing has been written.                      *)
LEMMA InitLoopInv == Init => LoopInv
<1> SUFFICES ASSUME Init PROVE LoopInv
  OBVIOUS
<1>1. PICK input \in Programs : program = input.program /\ mem = input.mem
  BY DEF Init, MInit
<1>2. [program |-> program, mem |-> mem0] \in Programs
  BY <1>1, ProgramsAssumption DEF Init
<1>3. SignExtend(0) = 0
  <2>1. 0 % Modulus = 0
    BY ModulusAssumption
  <2> QED
    BY <2>1, ModulusAssumption DEF SignExtend
<1>4. Types
  BY <1>2, <1>3 DEF Init, MInit, Types, Packing, Multiplying
<1>5. Positions
  BY <1>4, ProgramFacts DEF Init, Positions, Packing
<1>6. PackedPairs = {} /\ FinishedElements = {}
  BY DEF Init, PackedPairs, FinishedElements, Packing, Multiplying
<1>7. mem \in [Addr -> Val]
  BY <1>4, ProgramFacts DEF ValidInput, Init
<1>8. MemoryState
  BY <1>6, <1>7 DEF MemoryState, MemoryHolds, Init
<1>9. AccumulatorIsPartialDot
  BY DEF Init, AccumulatorIsPartialDot
<1> QED
  BY <1>4, <1>5, <1>8, <1>9 DEF LoopInv

(* A step that writes no memory has packed and stored no more.             *)
LEMMA NoWrite ==
  ASSUME MemoryState, UNCHANGED <<program, mem0, mem>>,
         PackedPairs' = PackedPairs, FinishedElements' = FinishedElements
  PROVE  MemoryState'
  BY DEF MemoryState

(* The steps of the control flow of packing.                               *)
LEMMA PackControl ==
  ASSUME LoopInv, PackEnter \/ PackCol \/ PackLeave \/ PackNextCol
  PROVE  LoopInv'
<1> DEFINE p == program
<1>1. /\ p.rows \in Int /\ p.cols \in Int /\ p.inner \in Int
      /\ Bound(p.cols) = p.cols /\ Bound(p.inner) = p.inner
      /\ Depth(p) \in Nat
      /\ row \in Nat /\ col \in Nat /\ k \in Nat
      /\ done = FALSE /\ SignExtend(accumulator) = accumulator
      /\ [program |-> program, mem |-> mem0] \in Programs
  BY ProgramFacts
  DEF LoopInv, Types, PackEnter, PackCol, PackLeave, PackNextCol
<1>2. /\ pc \in Packing /\ p.packed /\ UNCHANGED <<program, mem0, mem, done>>
      /\ pc' \in {"pack_col", "pack_inner", "multiply"}
      /\ UNCHANGED accumulator
  BY DEF LoopInv, Positions, Packing, PackEnter, PackCol, PackLeave,
         PackNextCol, counters
<1>3. \A w \in Pairs(p) : /\ w[1] \in Nat /\ w[1] < p.inner
                          /\ w[2] \in Nat /\ w[2] < p.cols
  BY <1>1 DEF Pairs
<1>4. FinishedElements = {} /\ FinishedElements' = {}
  BY <1>2 DEF FinishedElements, Packing, Multiplying
<1>5. /\ \A w \in Pairs(p) : w \in PackedPairs' <=> w \in PackedPairs
      /\ Positions' /\ row' \in Nat /\ col' \in Nat /\ k' \in Nat
  <2>1. CASE PackEnter
    <3>1. pc = "pack" /\ pc' = "pack_col" /\ col' = 0 /\ UNCHANGED <<row, k>>
      BY <2>1 DEF PackEnter
    <3>2. ASSUME NEW w \in Pairs(p)
          PROVE  w \in PackedPairs' <=> w \in PackedPairs
      BY <1>1, <1>2, <1>3, <3>1 DEF PackedPairs, Packing
    <3>3. Positions'
      BY <1>1, <1>2, <3>1 DEF Positions, Packing
    <3> QED
      BY <1>1, <3>1, <3>2, <3>3
  <2>2. CASE PackCol
    <3>1. /\ pc = "pack_col" /\ pc' = "pack_inner" /\ col < p.cols /\ k' = 0
          /\ UNCHANGED <<row, col>>
      BY <1>1, <2>2 DEF PackCol
    <3>2. ASSUME NEW w \in Pairs(p)
          PROVE  w \in PackedPairs' <=> w \in PackedPairs
      BY <1>1, <1>2, <1>3, <3>1 DEF PackedPairs, Packing
    <3>3. Positions'
      BY <1>1, <1>2, <3>1 DEF Positions, Packing
    <3> QED
      BY <1>1, <3>1, <3>2, <3>3
  <2>3. CASE PackLeave
    <3>1. /\ pc = "pack_col" /\ pc' = "multiply" /\ col >= p.cols
          /\ UNCHANGED <<row, col, k>>
      BY <1>1, <2>3 DEF PackLeave, counters
    <3>2. ASSUME NEW w \in Pairs(p)
          PROVE  w \in PackedPairs' <=> w \in PackedPairs
      BY <1>1, <1>2, <1>3, <3>1 DEF PackedPairs, Packing
    <3>3. Positions'
      BY <1>1, <1>2, <3>1 DEF Positions, Packing
    <3> QED
      BY <1>1, <3>1, <3>2, <3>3
  <2>4. CASE PackNextCol
    <3>1. /\ pc = "pack_inner" /\ pc' = "pack_col" /\ k >= p.inner
          /\ col' = col + 1 /\ UNCHANGED <<row, k>>
      BY <1>1, <2>4 DEF PackNextCol
    <3>2. ASSUME NEW w \in Pairs(p)
          PROVE  w \in PackedPairs' <=> w \in PackedPairs
      BY <1>1, <1>2, <1>3, <3>1 DEF PackedPairs, Packing
    <3>3. Positions'
      BY <1>1, <1>2, <3>1 DEF Positions, Packing
    <3> QED
      BY <1>1, <3>1, <3>2, <3>3
  <2> QED
    BY <2>1, <2>2, <2>3, <2>4
<1>6. PackedPairs' = PackedPairs
  <2>1. PackedPairs \subseteq Pairs(p) /\ PackedPairs' \subseteq Pairs(p)
    BY <1>2 DEF PackedPairs
  <2> QED
    BY <1>5, <2>1
<1>7. MemoryState'
  BY <1>2, <1>4, <1>6, NoWrite DEF LoopInv
<1>8. AccumulatorIsPartialDot'
  <2>1. pc' # "inner"
    BY <1>2
  <2> QED
    BY <2>1 DEF AccumulatorIsPartialDot
<1>9. Types'
  BY <1>1, <1>2, <1>5 DEF Types, Packing, Multiplying
<1> QED
  BY <1>5, <1>7, <1>8, <1>9 DEF LoopInv

(* The step that packs.                                                    *)
LEMMA PackElementStep ==
  ASSUME LoopInv, PackElement
  PROVE  LoopInv'
<1> DEFINE p == program
           w == <<k, col>>
<1>1. /\ ValidInput(p, mem0) /\ p.packed
      /\ p.rows \in Int /\ p.cols \in Int /\ p.inner \in Int
      /\ p.pack \in Int /\ p.b \in Int
      /\ Bound(p.inner) = p.inner
      /\ row \in Nat /\ col \in Nat /\ k \in Nat /\ col < p.cols
  BY ProgramFacts
  DEF LoopInv, Types, Positions, Packing, PackElement, ValidInput
<1>2. /\ pc = "pack_inner" /\ pc' = "pack_inner" /\ k < p.inner /\ k' = k + 1
      /\ UNCHANGED <<program, done, mem0, row, col, accumulator>>
      /\ mem' = [mem EXCEPT ![p.pack + (col * p.inner + k)] =
                               mem[p.b + (k * p.cols + col)]]
  BY <1>1 DEF PackElement
<1>3. w \in Pairs(p) /\ w[1] = k /\ w[2] = col
  BY <1>1, <1>2 DEF Pairs
<1>4. /\ p.pack + (col * p.inner + k) = PackAt(p, w)
      /\ p.b + (k * p.cols + col) = RhsAt(p, w)
  <2>1. col * p.inner \in Int /\ k * p.cols \in Int
    BY <1>1
  <2> QED
    BY <1>1, <2>1 DEF PackAt, RhsAt
<1>5. PackedPairs \subseteq Pairs(p)
  BY PackedFacts
<1>6. FinishedElements = {} /\ FinishedElements' = {}
  BY <1>2 DEF FinishedElements, Multiplying
<1>7. PackedPairs' = PackedPairs \cup {w}
  <2>1. \A v \in Pairs(p) :
          v = <<v[1], v[2]>> /\ v[1] \in Nat /\ v[2] \in Nat
    BY <1>1 DEF Pairs
  <2>2. ASSUME NEW v \in Pairs(p)
        PROVE  (v[2] = col /\ v[1] < k + 1)
                 <=> (v[2] = col /\ v[1] < k) \/ v = w
    BY <1>1, <1>3, <2>1
  <2> HIDE DEF w
  <2>3. ASSUME NEW v PROVE v \in PackedPairs' <=> v \in PackedPairs \/ v = w
    BY <1>1, <1>2, <1>3, <2>2 DEF PackedPairs, Packing
  <2> QED
    BY <2>3
<1> HIDE DEF w
<1>8. MemoryHolds(p, mem0, [mem EXCEPT ![PackAt(p, w)] = mem[RhsAt(p, w)]],
                  PackedPairs \cup {w}, {})
  <2>1. MemoryHolds(p, mem0, mem, PackedPairs, {})
    BY <1>6 DEF LoopInv, MemoryState
  <2> DEFINE P == PackedPairs
  <2>2. P \subseteq Pairs(p) /\ MemoryHolds(p, mem0, mem, P, {})
    BY <1>5, <2>1
  <2> HIDE DEF P, p
  <2>3. MemoryHolds(p, mem0, [mem EXCEPT ![PackAt(p, w)] = mem[RhsAt(p, w)]],
                    P \cup {w}, {})
    BY <1>1, <1>3, <2>2, PackOne
  <2> QED
    BY <2>3 DEF P
<1>9. MemoryState'
  BY <1>2, <1>4, <1>6, <1>7, <1>8 DEF MemoryState
<1>10. Types'
  BY <1>1, <1>2 DEF LoopInv, Types, Packing, Multiplying
<1>11. Positions'
  BY <1>1, <1>2 DEF LoopInv, Positions, Packing, Depth
<1>12. AccumulatorIsPartialDot'
  BY <1>2 DEF AccumulatorIsPartialDot
<1> QED
  BY <1>9, <1>10, <1>11, <1>12 DEF LoopInv

(* The steps of the control flow of the multiplication.                    *)
LEMMA MultiplyControl ==
  ASSUME LoopInv, MultiplyEnter \/ Row \/ MultiplyLeave \/ Col \/ NextRow
  PROVE  LoopInv'
<1> DEFINE p == program
<1>1. /\ ValidInput(p, mem0)
      /\ p.rows \in Int /\ p.cols \in Int /\ p.inner \in Int
      /\ Bound(p.rows) = p.rows /\ Bound(p.cols) = p.cols
      /\ Depth(p) \in Nat
      /\ row \in Nat /\ col \in Nat /\ k \in Nat
      /\ SignExtend(accumulator) = accumulator
      /\ [program |-> program, mem |-> mem0] \in Programs
  BY ProgramFacts DEF LoopInv, Types
<1>2. /\ pc \in {"multiply", "row", "col"} /\ done = FALSE
      /\ UNCHANGED <<program, mem0, mem>>
      /\ pc' \in {"row", "col", "inner", "end"} /\ done' = (pc' = "end")
  BY DEF LoopInv, Types, MultiplyEnter, Row, MultiplyLeave, Col, NextRow
<1>3. \A e \in ElementsOf(p) : /\ e[1] \in Nat /\ e[1] < p.rows
                               /\ e[2] \in Nat /\ e[2] < p.cols
  BY <1>1 DEF ElementsOf
<1>4. PackedPairs' = PackedPairs
  <2>1. pc \notin Packing /\ pc' \notin Packing
    BY <1>2 DEF Packing
  <2> QED
    BY <1>2, <2>1 DEF PackedPairs
<1>5. SignExtend(0) = 0
  <2>1. 0 % Modulus = 0
    BY ModulusAssumption
  <2> QED
    BY <2>1, ModulusAssumption DEF SignExtend
<1>6. /\ \A e \in ElementsOf(p) :
           e \in FinishedElements' <=> e \in FinishedElements
      /\ Positions' /\ row' \in Nat /\ col' \in Nat /\ k' \in Nat
      /\ SignExtend(accumulator') = accumulator' /\ AccumulatorIsPartialDot'
  <2>1. CASE MultiplyEnter
    <3>1. /\ pc = "multiply" /\ pc' = "row" /\ row' = 0
          /\ UNCHANGED <<col, k, accumulator>>
      BY <2>1 DEF MultiplyEnter
    <3>2. ASSUME NEW e \in ElementsOf(p)
          PROVE  e \in FinishedElements' <=> e \in FinishedElements
      BY <1>1, <1>2, <1>3, <3>1 DEF FinishedElements, Multiplying
    <3> QED
      BY <1>1, <3>1, <3>2 DEF Positions, Packing, AccumulatorIsPartialDot
  <2>2. CASE Row
    <3>1. /\ pc = "row" /\ pc' = "col" /\ row < p.rows /\ col' = 0
          /\ UNCHANGED <<row, k, accumulator>>
      BY <1>1, <2>2 DEF Row
    <3>2. ASSUME NEW e \in ElementsOf(p)
          PROVE  e \in FinishedElements' <=> e \in FinishedElements
      BY <1>1, <1>2, <1>3, <3>1 DEF FinishedElements, Multiplying
    <3> QED
      BY <1>1, <1>2, <3>1, <3>2 DEF Positions, Packing, AccumulatorIsPartialDot
  <2>3. CASE MultiplyLeave
    <3>1. /\ pc = "row" /\ pc' = "end" /\ row >= p.rows
          /\ UNCHANGED <<row, col, k, accumulator>>
      BY <1>1, <2>3 DEF MultiplyLeave, counters
    <3>2. ASSUME NEW e \in ElementsOf(p)
          PROVE  e \in FinishedElements' <=> e \in FinishedElements
      BY <1>1, <1>2, <1>3, <3>1 DEF FinishedElements, Multiplying
    <3> QED
      BY <1>1, <1>2, <3>1, <3>2 DEF Positions, Packing, AccumulatorIsPartialDot
  <2>4. CASE Col
    <3>1. /\ pc = "col" /\ pc' = "inner" /\ col < p.cols /\ row < p.rows
          /\ k' = 0 /\ accumulator' = 0 /\ UNCHANGED <<row, col>>
      BY <1>1, <2>4 DEF Col, LoopInv, Positions
    <3>2. ASSUME NEW e \in ElementsOf(p)
          PROVE  e \in FinishedElements' <=> e \in FinishedElements
      BY <1>1, <1>2, <1>3, <3>1 DEF FinishedElements, Multiplying
    <3>3. Positions'
      BY <1>1, <1>2, <3>1 DEF Positions, Packing
    <3>4. AccumulatorIsPartialDot'
      <4>1. /\ row \in Int /\ col \in Int
            /\ row \in 0 .. p.rows - 1 /\ col \in 0 .. p.cols - 1
        BY <1>1, <3>1
      <4>4. DotOf(p, mem0, row, col, 0) = 0
        BY <1>1, <4>1, DotOfNothing
      <4>5. /\ row' = row /\ col' = col /\ k' = 0 /\ accumulator' = 0
            /\ mem0' = mem0 /\ program' = program
        BY <1>2, <3>1
      <4> QED
        BY <1>5, <4>4, <4>5 DEF AccumulatorIsPartialDot, Dot
    <3> QED
      BY <1>1, <1>5, <3>1, <3>2, <3>3, <3>4
  <2>5. CASE NextRow
    <3>1. /\ pc = "col" /\ pc' = "row" /\ col >= p.cols /\ row' = row + 1
          /\ UNCHANGED <<col, k, accumulator>>
      BY <1>1, <2>5 DEF NextRow
    <3>2. ASSUME NEW e \in ElementsOf(p)
          PROVE  e \in FinishedElements' <=> e \in FinishedElements
      <4>1. e[1] < row + 1 <=> e[1] < row \/ e[1] = row
        BY <1>1, <1>3
      <4>2. e[2] < col
        BY <1>1, <1>3, <3>1
      <4>3. e \in FinishedElements <=> e[1] < row \/ e[1] = row
        BY <3>1, <4>2 DEF FinishedElements, Multiplying
      <4>4. e \in FinishedElements' <=> e[1] < row + 1
        BY <1>2, <3>1 DEF FinishedElements, Multiplying
      <4> QED
        BY <4>1, <4>3, <4>4
    <3> QED
      BY <1>1, <1>2, <3>1, <3>2 DEF Positions, Packing, AccumulatorIsPartialDot
  <2> QED
    BY <2>1, <2>2, <2>3, <2>4, <2>5
<1>7. FinishedElements' = FinishedElements
  <2>1. /\ FinishedElements \subseteq ElementsOf(p)
        /\ FinishedElements' \subseteq ElementsOf(p)
    BY <1>2 DEF FinishedElements
  <2> QED
    BY <1>6, <2>1
<1>8. MemoryState'
  BY <1>2, <1>4, <1>7, NoWrite DEF LoopInv
<1>9. Types'
  BY <1>1, <1>2, <1>6 DEF Types, Packing, Multiplying
<1> QED
  BY <1>6, <1>8, <1>9 DEF LoopInv

(* The inner loop, whether in strips or one element at a time.             *)
LEMMA InnerStep ==
  ASSUME LoopInv, InnerStrip \/ InnerElement
  PROVE  LoopInv'
<1> DEFINE p == program
<1>1. /\ p.inner \in Int /\ Bound(p.inner) = p.inner /\ Depth(p) \in Nat
      /\ row \in Nat /\ col \in Nat /\ k \in Nat
      /\ [program |-> program, mem |-> mem0] \in Programs
      /\ p.rows \in Int /\ p.cols \in Int
  BY ProgramFacts DEF LoopInv, Types
<1>2. /\ pc = "inner" /\ pc' = "inner" /\ k < p.inner /\ k \in 0 .. Depth(p)
      /\ p.inner = Depth(p)
      /\ UNCHANGED <<program, mem, done, mem0, row, col>>
  BY <1>1 DEF LoopInv, Positions, Depth, InnerStrip, InnerElement
<1>3. PICK G : /\ \A n \in 0 .. Depth(p) :
                    Dot(mem0, row, col, n) = G[n] /\ G[n] \in Int
               /\ \A n \in 1 .. Depth(p) :
                    G[n] = G[n - 1] + Term(n - 1) /\ Term(n - 1) \in Int
  BY <1>2, InnerSums DEF LoopInv
<1>4. accumulator = SignExtend(G[k]) /\ G[k] \in Int /\ accumulator \in Int
  BY <1>2, <1>3, SignExtendFacts DEF LoopInv, AccumulatorIsPartialDot
<1>5. /\ k' \in Nat /\ k' <= Depth(p)
      /\ accumulator' = SignExtend(G[k'])
  <2>1. CASE InnerStrip
    <3>1. PICK vl \in VLChoices(p.inner - k) :
            accumulator' = Strip(vl) /\ k' = k + vl
      BY <1>1, <2>1 DEF InnerStrip
    <3>2. vl \in Nat /\ k + vl <= Depth(p) /\ k + vl \in 0 .. Depth(p)
      BY <1>1, <1>2, VLMaxAssumption DEF VLChoices
    <3>3. \A j \in 0 .. vl : G[k + j] \in Int
      BY <1>1, <1>3, <3>2
    <3>4. ASSUME NEW j \in 1 .. vl
          PROVE  /\ Term(k + j - 1) \in Int
                 /\ G[k + j] = G[k + (j - 1)] + Term(k + j - 1)
      <4> DEFINE n == k + j
      <4>1. /\ n \in 1 .. Depth(p) /\ n - 1 = k + (j - 1)
            /\ n - 1 = k + j - 1
        BY <1>1, <3>2
      <4> HIDE DEF n
      <4>2. G[n] = G[n - 1] + Term(n - 1) /\ Term(n - 1) \in Int
        BY <1>3, <4>1
      <4>3. n = k + j
        BY DEF n
      <4> QED
        BY <4>1, <4>2, <4>3
    <3>5. Strip(vl) = SignExtend(accumulator + (G[k + vl] - G[k]))
      BY <1>1, <1>4, <3>2, <3>3, <3>4, StripAdds
    <3>6. G[k + vl] \in Int
      BY <1>3, <3>2
    <3> DEFINE a == G[k]
               b == G[k + vl] - G[k]
    <3>7. a \in Int /\ b \in Int /\ a + b = G[k + vl]
      BY <1>4, <3>6
    <3>8. accumulator = SignExtend(a) /\ Strip(vl) = SignExtend(accumulator + b)
      BY <1>4, <3>5
    <3> HIDE DEF a, b
    <3>9. Strip(vl) = SignExtend(a + b)
      BY <3>7, <3>8, SignExtendOfSum
    <3> QED
      BY <3>1, <3>2, <3>7, <3>9
  <2>2. CASE InnerElement
    <3>1. /\ k' = k + 1
          /\ accumulator' = SignExtend(accumulator + SignExtend(Term(k)))
      BY <2>2 DEF InnerElement
    <3>2. k + 1 \in 1 .. Depth(p) /\ (k + 1) - 1 = k
      BY <1>1, <1>2
    <3>3. G[k + 1] = G[k] + Term(k) /\ Term(k) \in Int
      <4>1. /\ G[k + 1] = G[(k + 1) - 1] + Term((k + 1) - 1)
            /\ Term((k + 1) - 1) \in Int
        BY <1>3, <3>2
      <4> QED
        BY <3>2, <4>1
    <3> DEFINE a == G[k]
               b == Term(k)
    <3>4. /\ a \in Int /\ b \in Int /\ G[k + 1] = a + b
          /\ accumulator = SignExtend(a)
          /\ accumulator' = SignExtend(accumulator + SignExtend(b))
      BY <1>4, <3>1, <3>3
    <3> HIDE DEF a, b
    <3>5. accumulator' = SignExtend(a + b)
      BY <3>4, SignExtendOfSum
    <3> QED
      BY <1>1, <3>1, <3>2, <3>4, <3>5
  <2> QED
    BY <2>1, <2>2
<1>6. G[k'] \in Int /\ Dot(mem0, row, col, k') = G[k']
  BY <1>3, <1>5
<1>7. SignExtend(accumulator') = accumulator'
  BY <1>5, <1>6, SignExtendFacts
<1>8. Types'
  BY <1>1, <1>2, <1>5, <1>7 DEF LoopInv, Types
<1>9. Positions'
  BY <1>1, <1>2, <1>5 DEF LoopInv, Positions, Packing
<1>10. PackedPairs' = PackedPairs /\ FinishedElements' = FinishedElements
  BY <1>2 DEF PackedPairs, FinishedElements, Packing
<1>11. MemoryState'
  BY <1>2, <1>10, NoWrite DEF LoopInv
<1>12. AccumulatorIsPartialDot'
  <2>1. Dot(mem0, row, col, k') = DotOf(program, mem0, row, col, k')
    BY DEF Dot
  <2> QED
    BY <1>2, <1>5, <1>6, <2>1 DEF AccumulatorIsPartialDot, Dot
<1> QED
  BY <1>8, <1>9, <1>11, <1>12 DEF LoopInv

(* The sum of the inner loop is the element of the product.                *)
LEMMA StoreStep ==
  ASSUME LoopInv, Store
  PROVE  LoopInv'
<1> DEFINE p == program
           e == <<row, col>>
<1>1. /\ ValidInput(p, mem0) /\ p.out \in Int
      /\ p.rows \in Int /\ p.cols \in Int /\ p.inner \in Int
      /\ Bound(p.inner) = p.inner /\ Depth(p) \in Nat
      /\ row \in Nat /\ col \in Nat /\ k \in Nat
  BY ProgramFacts DEF LoopInv, Types, ValidInput
<1>2. /\ pc = "inner" /\ pc' = "col" /\ k >= p.inner /\ col' = col + 1
      /\ row < p.rows /\ col < p.cols /\ k <= Depth(p)
      /\ UNCHANGED <<program, done, mem0, row, k, accumulator>>
      /\ mem' = [mem EXCEPT ![p.out + row * p.cols + col] =
                               accumulator % Modulus]
  BY <1>1 DEF Store, LoopInv, Positions
<1>3. e \in ElementsOf(p) /\ e[1] = row /\ e[2] = col
  BY <1>1, <1>2 DEF ElementsOf
<1>4. p.out + row * p.cols + col = OutAt(p, e)
  <2> HIDE DEF e, p
  <2>1. e[1] * p.cols = row * p.cols
    BY <1>3
  <2>2. p.out + e[1] * p.cols + e[2] = p.out + row * p.cols + col
    BY <1>1, <1>3, <2>1
  <2> QED
    BY <2>2 DEF OutAt
<1>5. k = Depth(p)
  <2>1. p.inner \in Int /\ k \in Nat /\ k >= p.inner /\ k <= Depth(p)
    BY <1>1, <1>2
  <2> HIDE DEF p
  <2>2. CASE p.inner < 0
    BY <2>1, <2>2 DEF Depth
  <2>3. CASE ~(p.inner < 0)
    BY <2>1, <2>3 DEF Depth
  <2> QED
    BY <2>2, <2>3
<1>6. /\ accumulator % Modulus = ProductOf(p, mem0, e)
      /\ ProductOf(p, mem0, e) \in Val
  <2>1. PICK G : \A n \in 0 .. Depth(p) :
                   Dot(mem0, row, col, n) = G[n] /\ G[n] \in Int
    BY <1>2, InnerSums DEF LoopInv
  <2>2. Dot(mem0, row, col, k) \in Int
    BY <1>1, <1>5, <2>1
  <2>3. accumulator = SignExtend(Dot(mem0, row, col, k))
    BY <1>2 DEF LoopInv, AccumulatorIsPartialDot
  <2>4. accumulator % Modulus = Dot(mem0, row, col, k) % Modulus
    BY <2>2, <2>3, SignExtendFacts
  <2>5. Dot(mem0, row, col, k) % Modulus \in Val
    BY <2>2, ModulusAssumption, Division DEF Val
  <2>6. ProductOf(p, mem0, e) = Dot(mem0, row, col, k) % Modulus
    BY <1>3, <1>5 DEF ProductOf, Dot
  <2> QED
    BY <2>4, <2>5, <2>6
<1>7. /\ PackedPairs \subseteq Pairs(p)
      /\ FinishedElements \subseteq ElementsOf(p)
      /\ PackedPairs # {} => p.packed
  BY PackedFacts
<1>8. PackedPairs' = PackedPairs
  BY <1>2 DEF PackedPairs, Packing
<1>9. FinishedElements' = FinishedElements \cup {e}
  <2>1. \A f \in ElementsOf(p) : /\ f = <<f[1], f[2]>>
                                 /\ f[1] \in Nat /\ f[2] \in Nat
    BY <1>1 DEF ElementsOf
  <2>2. ASSUME NEW f \in ElementsOf(p)
        PROVE  (f[1] = row /\ f[2] < col + 1)
                 <=> (f[1] = row /\ f[2] < col) \/ f = e
    BY <1>1, <1>3, <2>1
  <2> HIDE DEF e
  <2>3. ASSUME NEW f \in ElementsOf(p)
        PROVE  /\ f \in FinishedElements
                    <=> f[1] < row \/ (f[1] = row /\ f[2] < col)
               /\ f \in FinishedElements'
                    <=> f[1] < row \/ (f[1] = row /\ f[2] < col + 1)
    BY <1>2 DEF FinishedElements, Multiplying
  <2>4. FinishedElements' \subseteq ElementsOf(p)
    BY <1>2 DEF FinishedElements
  <2> QED
    BY <1>3, <1>7, <2>2, <2>3, <2>4
<1>10. MemoryHolds(p, mem0,
                   [mem EXCEPT ![OutAt(p, e)] = ProductOf(p, mem0, e)],
                   PackedPairs, FinishedElements \cup {e})
  <2> DEFINE P == PackedPairs
             F == FinishedElements
  <2>1. /\ P \subseteq Pairs(p) /\ F \subseteq ElementsOf(p)
        /\ P # {} => p.packed
        /\ MemoryHolds(p, mem0, mem, P, F)
    BY <1>7 DEF LoopInv, MemoryState
  <2> HIDE DEF P, F, p, e
  <2>2. MemoryHolds(p, mem0,
                    [mem EXCEPT ![OutAt(p, e)] = ProductOf(p, mem0, e)],
                    P, F \cup {e})
    BY <1>1, <1>3, <1>6, <2>1, StoreOne
  <2> QED
    BY <2>2 DEF P, F
<1> HIDE DEF e
<1>11. MemoryState'
  BY <1>2, <1>4, <1>6, <1>8, <1>9, <1>10 DEF MemoryState
<1>12. Types'
  BY <1>1, <1>2 DEF LoopInv, Types, Packing, Multiplying
<1>13. Positions'
  BY <1>1, <1>2 DEF LoopInv, Positions, Packing
<1>14. AccumulatorIsPartialDot'
  BY <1>2 DEF AccumulatorIsPartialDot
<1> QED
  BY <1>11, <1>12, <1>13, <1>14 DEF LoopInv

---------------------------------------------------------------------------
(* Inside a statement the frame holds what the caller had in the registers *)
(* the statement saves, and the others have not been touched.              *)

Saved(saves) ==
  IF OnRVV
    THEN /\ frame = [r \in saves |-> "caller"]
         /\ \A r \in SavedRegister \ saves : sreg[r] = "caller"
    ELSE frame = [r \in {} |-> "caller"]

RegistersKept ==
  /\ pc \in {"pack", "pack_col", "pack_inner",
             "multiply", "row", "col", "inner", "end"}
  /\ sreg \in [SavedRegister -> {"caller", "statement"}]
  /\ pc \in {"pack", "multiply", "end"} \/ ~OnRVV =>
       \A r \in SavedRegister : sreg[r] = "caller"
  /\ pc \in {"pack_col", "pack_inner"} => Saved(emitMatrixPackBSaves)
  /\ pc \in {"row", "col", "inner"} => Saved(emitMatrixMultiplySaves)
  /\ pc \in {"pack", "multiply", "end"} \/ ~OnRVV =>
       frame = [r \in {} |-> "caller"]

(* A statement saves every callee-saved register that its code uses.       *)
LEMMA SavesCoverUses ==
  /\ emitMatrixPackBUses \subseteq emitMatrixPackBSaves
  /\ emitMatrixMultiplyUses \subseteq emitMatrixMultiplySaves
  /\ emitMatrixPackBSaves \subseteq SavedRegister
  /\ emitMatrixMultiplySaves \subseteq SavedRegister
  BY DEF emitMatrixPackBUses, emitMatrixPackBSaves, emitMatrixMultiplyUses,
    emitMatrixMultiplySaves, SavedRegister

(* Saving on entry.                                                        *)
LEMMA EnterFacts ==
  ASSUME NEW saves, NEW uses,
         uses \subseteq saves, saves \subseteq SavedRegister,
         sreg \in [SavedRegister -> {"caller", "statement"}],
         \A r \in SavedRegister : sreg[r] = "caller",
         ~OnRVV => frame = [r \in {} |-> "caller"],
         UNCHANGED program, Enter(saves, uses)
  PROVE  /\ sreg' \in [SavedRegister -> {"caller", "statement"}]
         /\ Saved(saves)'
         /\ ~OnRVV' => \A r \in SavedRegister : sreg'[r] = "caller"
         /\ ~OnRVV' => frame' = [r \in {} |-> "caller"]
<1>1. OnRVV' <=> OnRVV
  BY DEF OnRVV
<1>2. CASE OnRVV
  BY <1>1, <1>2 DEF Enter, Saved
<1>3. CASE ~OnRVV
  BY <1>1, <1>3 DEF Enter, Saved, machine
<1> QED
  BY <1>2, <1>3

(* Restoring on return.                                                    *)
LEMMA LeaveFacts ==
  ASSUME NEW saves, Saved(saves), saves \subseteq SavedRegister,
         sreg \in [SavedRegister -> {"caller", "statement"}],
         ~OnRVV => \A r \in SavedRegister : sreg[r] = "caller",
         Leave
  PROVE  /\ sreg' \in [SavedRegister -> {"caller", "statement"}]
         /\ \A r \in SavedRegister : sreg'[r] = "caller"
         /\ frame' = [r \in {} |-> "caller"]
<1>1. CASE OnRVV
  BY <1>1 DEF Leave, Saved
<1>2. CASE ~OnRVV
  BY <1>2 DEF Leave, Saved
<1> QED
  BY <1>1, <1>2

(* No statement has been entered yet.                                      *)
LEMMA InitRegisters == Init => RegistersKept
  BY DEF Init, RegistersKept

(* No step loses what a caller had in a register.                          *)
LEMMA NextRegisters == RegistersKept /\ [Next]_vars => RegistersKept'
<1> SUFFICES ASSUME RegistersKept, [Next]_vars PROVE RegistersKept'
  OBVIOUS
<1>1. CASE PackEnter
  <2>1. /\ pc = "pack" /\ pc' = "pack_col" /\ UNCHANGED program
        /\ Enter(emitMatrixPackBSaves, emitMatrixPackBUses)
    BY <1>1 DEF PackEnter
  <2> QED
    BY <2>1, EnterFacts, SavesCoverUses DEF RegistersKept
<1>2. CASE MultiplyEnter
  <2>1. /\ pc = "multiply" /\ pc' = "row" /\ UNCHANGED program
        /\ Enter(emitMatrixMultiplySaves, emitMatrixMultiplyUses)
    BY <1>2 DEF MultiplyEnter
  <2> QED
    BY <2>1, EnterFacts, SavesCoverUses DEF RegistersKept
<1>3. CASE PackLeave
  <2>1. pc = "pack_col" /\ pc' = "multiply" /\ Leave
    BY <1>3 DEF PackLeave
  <2> QED
    BY <2>1, LeaveFacts, SavesCoverUses DEF RegistersKept
<1>4. CASE MultiplyLeave
  <2>1. pc = "row" /\ pc' = "end" /\ Leave
    BY <1>4 DEF MultiplyLeave
  <2> QED
    BY <2>1, LeaveFacts, SavesCoverUses DEF RegistersKept
<1>5. CASE \/ PackCol \/ PackElement \/ PackNextCol
  <2>1. /\ pc \in {"pack_col", "pack_inner"}
        /\ pc' \in {"pack_col", "pack_inner"}
        /\ UNCHANGED <<program, sreg, frame>>
    BY <1>5 DEF PackCol, PackElement, PackNextCol, machine
  <2> QED
    BY <2>1 DEF RegistersKept, Saved, OnRVV
<1>6. CASE \/ Row \/ Col \/ NextRow \/ InnerStrip \/ InnerElement \/ Store
  <2>1. /\ pc \in {"row", "col", "inner"} /\ pc' \in {"row", "col", "inner"}
        /\ UNCHANGED <<program, sreg, frame>>
    BY <1>6 DEF Row, Col, NextRow, InnerStrip, InnerElement, Store, machine
  <2> QED
    BY <2>1 DEF RegistersKept, Saved, OnRVV
<1>7. CASE UNCHANGED vars
  <2>1. UNCHANGED <<pc, program, sreg, frame>>
    BY <1>7 DEF vars, machine
  <2> QED
    BY <2>1 DEF RegistersKept, Saved, OnRVV
<1> QED
  BY <1>1, <1>2, <1>3, <1>4, <1>5, <1>6, <1>7 DEF Next

---------------------------------------------------------------------------
(* The invariant of the whole statement.                                   *)

IInv == LoopInv /\ RegistersKept

(* The invariant of the statement holds at its start.                      *)
LEMMA InitIInv == Init => IInv
  BY InitLoopInv, InitRegisters DEF IInv

(* Every step keeps it.                                                    *)
LEMMA NextIInv == IInv /\ [Next]_vars => IInv'
<1> SUFFICES ASSUME IInv, [Next]_vars PROVE IInv'
  OBVIOUS
<1>1. RegistersKept'
  BY NextRegisters DEF IInv
<1>2. LoopInv'
  <2>1. CASE PackEnter \/ PackCol \/ PackLeave \/ PackNextCol
    BY <2>1, PackControl DEF IInv
  <2>2. CASE PackElement
    BY <2>2, PackElementStep DEF IInv
  <2>3. CASE MultiplyEnter \/ Row \/ MultiplyLeave \/ Col \/ NextRow
    BY <2>3, MultiplyControl DEF IInv
  <2>4. CASE InnerStrip \/ InnerElement
    BY <2>4, InnerStep DEF IInv
  <2>5. CASE Store
    BY <2>5, StoreStep DEF IInv
  <2>6. CASE UNCHANGED vars
    <3>1. UNCHANGED <<program, mem, done, pc, mem0, row, col, k, accumulator>>
      BY <2>6 DEF vars, counters
    <3>2. Types' /\ Positions'
      BY <3>1 DEF IInv, LoopInv, Types, Positions
    <3>3. PackedPairs' = PackedPairs /\ FinishedElements' = FinishedElements
      BY <3>1 DEF PackedPairs, FinishedElements
    <3>4. MemoryState'
      BY <3>1, <3>3, NoWrite DEF IInv, LoopInv
    <3>5. AccumulatorIsPartialDot'
      BY <3>1 DEF IInv, LoopInv, AccumulatorIsPartialDot, Dot
    <3> QED
      BY <3>2, <3>4, <3>5 DEF LoopInv
  <2> QED
    BY <2>1, <2>2, <2>3, <2>4, <2>5, <2>6 DEF Next
<1> QED
  BY <1>1, <1>2 DEF IInv

(* The loops of either backend keep their inductive invariant.             *)
THEOREM Invariant == Spec => []IInv
  BY InitIInv, NextIInv, PTL DEF Spec

(* Every variable keeps its type: cells hold bit patterns, the accumulator *)
(* a 32-bit number, and only saved registers are in the frame.             *)
THEOREM TypeCorrect == Spec => []TypeOK
<1>1. IInv => TypeOK
  <2> SUFFICES ASSUME IInv PROVE TypeOK
    OBVIOUS
  <2>1. mem \in [Addr -> Val]
    BY DEF IInv, LoopInv, MemoryState, MemoryHolds
  <2>2. DOMAIN frame \subseteq SavedRegister
    BY SavesCoverUses DEF IInv, RegistersKept, Saved
  <2> QED
    BY <2>1, <2>2
    DEF IInv, LoopInv, Types, RegistersKept, TypeOK, Packing, Multiplying
<1> QED
  BY <1>1, Invariant, PTL

(* Whatever has been written so far, the accumulator of the inner loop is  *)
(* the dot product of the matrices the program was given, up to where the  *)
(* loop has come, on both backends and with b packed or not.               *)
THEOREM AccumulatorIsDot == Spec => []AccumulatorIsPartialDot
<1>1. IInv => AccumulatorIsPartialDot
  BY DEF IInv, LoopInv
<1> QED
  BY <1>1, Invariant, PTL

(* The model's names for the cells and the product are those of the proofs.*)
LEMMA SameCells ==
  /\ Elements = ElementsOf(program)
  /\ \A e : OutCell(e) = OutAt(program, e)
  /\ \A w : PackCell(w[1], w[2]) = PackAt(program, w)
  /\ \A m, e : Product(m, e[1], e[2]) = ProductOf(program, m, e)
  BY DEF Elements, ElementsOf, OutCell, OutAt, PackCell, PackAt, Product,
         ProductOf, Dot, Depth

(* The packed copy, pair by pair.                                          *)
LEMMA PackOfPairs ==
  ASSUME NEW m
  PROVE  PackOf(m) = {<<PackAt(program, w), m[RhsAt(program, w)]>> :
                        w \in Pairs(program)}
<1>1. ASSUME NEW i \in 0 .. program.inner - 1, NEW j \in 0 .. program.cols - 1
      PROVE  \E w \in Pairs(program) :
               <<PackCell(i, j), m[program.b + i * program.cols + j]>>
                 = <<PackAt(program, w), m[RhsAt(program, w)]>>
  <2>1. <<i, j>> \in Pairs(program)
    BY DEF Pairs
  <2>2. <<PackCell(i, j), m[program.b + i * program.cols + j]>>
          = <<PackAt(program, <<i, j>>), m[RhsAt(program, <<i, j>>)]>>
    BY DEF PackCell, PackAt, RhsAt
  <2> QED
    BY <2>1, <2>2
<1>2. ASSUME NEW w \in Pairs(program)
      PROVE  \E i \in 0 .. program.inner - 1, j \in 0 .. program.cols - 1 :
               <<PackAt(program, w), m[RhsAt(program, w)]>>
                 = <<PackCell(i, j), m[program.b + i * program.cols + j]>>
  <2>1. w[1] \in 0 .. program.inner - 1 /\ w[2] \in 0 .. program.cols - 1
    BY DEF Pairs
  <2>2. <<PackAt(program, w), m[RhsAt(program, w)]>>
          = <<PackCell(w[1], w[2]), m[program.b + w[1] * program.cols + w[2]]>>
    BY DEF PackCell, PackAt, RhsAt
  <2> QED
    BY <2>1, <2>2
<1> QED
  BY <1>1, <1>2 DEF PackOf

(* During the multiplication the elements before the one being computed    *)
(* are those of the product and, but for them and the packed copy of b,    *)
(* memory is as it was.                                                    *)
THEOREM ProductIsPrefix == Spec => []ProductPrefix
<1>1. IInv => ProductPrefix
  <2> DEFINE finished ==
               {e \in Elements :
                  \/ e[1] < row
                  \/ e[1] = row /\ e[2] < col /\ pc \in {"col", "inner"}}
             packed ==
               IF program.packed THEN {w[1] : w \in PackOf(mem0)} ELSE {}
  <2> SUFFICES ASSUME IInv, pc \in Multiplying
               PROVE  /\ \A e \in finished :
                           mem[OutCell(e)] = Product(mem0, e[1], e[2])
                      /\ \A x \in Addr \ (packed
                                    \cup {OutCell(e) : e \in finished}) :
                           mem[x] = mem0[x]
    BY DEF ProductPrefix, Multiplying
  <2>1. finished = FinishedElements
    BY SameCells DEF FinishedElements
  <2>2. MemoryHolds(program, mem0, mem, PackedPairs, FinishedElements)
    BY DEF IInv, LoopInv, MemoryState
  <2>3. ASSUME NEW e \in finished
        PROVE  mem[OutCell(e)] = Product(mem0, e[1], e[2])
    BY <2>1, <2>2, SameCells DEF MemoryHolds
  <2>4. ASSUME NEW w \in PackedPairs PROVE PackAt(program, w) \in packed
    <3>1. program.packed /\ w \in Pairs(program)
      BY PackedFacts
    <3>2. <<PackAt(program, w), mem0[RhsAt(program, w)]>> \in PackOf(mem0)
      BY <3>1, PackOfPairs
    <3> QED
      BY <3>1, <3>2
  <2> HIDE DEF finished, packed
  <2>5. ASSUME NEW x \in Addr \ (packed \cup {OutCell(e) : e \in finished})
        PROVE  mem[x] = mem0[x]
    <3>1. /\ \A w \in PackedPairs : x # PackAt(program, w)
          /\ \A e \in FinishedElements : x # OutAt(program, e)
      BY <2>1, <2>4, SameCells
    <3> QED
      BY <2>2, <3>1 DEF MemoryHolds
  <2> QED
    BY <2>3, <2>5
<1> QED
  BY <1>1, Invariant, PTL

(* matrix_pack_b and both products give s0 to s11 back to the caller as    *)
(* they found them, on either backend.                                     *)
THEOREM CalleeSavedKept == Spec => []CalleeSavedRestored
<1>1. IInv => CalleeSavedRestored
  BY DEF IInv, RegistersKept, CalleeSavedRestored
<1> QED
  BY <1>1, Invariant, PTL

---------------------------------------------------------------------------
(* Refinement.                                                             *)

(* The instance's operators are those of MatrixProduct.                    *)
LEMMA InstanceOperators ==
  /\ Abstract!Elements = Elements
  /\ \A e : Abstract!OutCell(e) = OutCell(e)
  /\ \A m, r, c : Abstract!Product(m, r, c) = Product(m, r, c)
  /\ \A m : Abstract!PackOf(m) = PackOf(m)
<1>1. Abstract!Elements = Elements
  BY DEF Abstract!Elements, Elements
<1>2. \A e : Abstract!OutCell(e) = OutCell(e)
  BY DEF Abstract!OutCell, OutCell
<1>3. \A m, r, c : Abstract!Product(m, r, c) = Product(m, r, c)
  BY DEF Abstract!Product, Product, Abstract!Dot, Dot, Abstract!DotOf, DotOf
<1>4. \A m : Abstract!PackOf(m) = PackOf(m)
  BY DEF Abstract!PackOf, PackOf, Abstract!PackCell, PackCell
<1> QED
  BY <1>1, <1>2, <1>3, <1>4

(* What the abstract step writes, and where.                               *)
Written == {<<OutCell(e), Product(mem0, e[1], e[2])>> : e \in Elements}
             \cup (IF program.packed THEN PackOf(mem0) ELSE {})

(* At the end memory holds all that, and is untouched elsewhere.           *)
LEMMA AllWritten ==
  ASSUME IInv, MultiplyLeave
  PROVE  /\ mem \in [Addr -> Val]
         /\ \A w \in Written : mem[w[1]] = w[2]
         /\ \A x \in Addr : x \notin {w[1] : w \in Written} => mem[x] = mem0[x]
<1> DEFINE p == program
<1>1. /\ pc = "row" /\ row >= p.rows /\ row \in Nat /\ p.rows \in Int
      /\ p.packed \in BOOLEAN
  BY ProgramFacts DEF MultiplyLeave, IInv, LoopInv, Types
<1>2. FinishedElements = ElementsOf(p)
  <2>1. \A e \in ElementsOf(p) : e[1] < row
    BY <1>1 DEF ElementsOf
  <2> QED
    BY <1>1, <2>1 DEF FinishedElements, Multiplying
<1>3. PackedPairs = IF p.packed THEN Pairs(p) ELSE {}
  BY <1>1, PackedFacts DEF Packing
<1>4. MemoryHolds(p, mem0, mem, PackedPairs, ElementsOf(p))
  BY <1>2 DEF IInv, LoopInv, MemoryState
<1>5. ASSUME NEW w \in Written PROVE mem[w[1]] = w[2]
  <2>1. CASE w \in {<<OutCell(e), Product(mem0, e[1], e[2])>> : e \in Elements}
    <3>1. PICK e \in ElementsOf(p) :
            w = <<OutAt(p, e), ProductOf(p, mem0, e)>>
      BY <2>1, SameCells
    <3> QED
      BY <1>4, <3>1 DEF MemoryHolds
  <2>2. CASE p.packed /\ w \in PackOf(mem0)
    <3>1. PICK v \in Pairs(p) : w = <<PackAt(p, v), mem0[RhsAt(p, v)]>>
      BY <2>2, PackOfPairs
    <3> QED
      BY <1>3, <1>4, <2>2, <3>1 DEF MemoryHolds
  <2> QED
    BY <2>1, <2>2 DEF Written
<1>6. ASSUME NEW x \in Addr, x \notin {w[1] : w \in Written}
      PROVE  mem[x] = mem0[x]
  <2>1. ASSUME NEW e \in ElementsOf(p) PROVE x # OutAt(p, e)
    <3>1. <<OutAt(p, e), ProductOf(p, mem0, e)>> \in Written
      BY SameCells DEF Written
    <3> QED
      BY <1>6, <3>1
  <2>2. ASSUME NEW v \in PackedPairs PROVE x # PackAt(p, v)
    <3>1. p.packed /\ v \in Pairs(p)
      BY PackedFacts
    <3>2. <<PackAt(p, v), mem0[RhsAt(p, v)]>> \in Written
      BY <3>1, PackOfPairs DEF Written
    <3> QED
      BY <1>6, <3>2
  <2> QED
    BY <1>4, <2>1, <2>2 DEF MemoryHolds
<1>7. mem \in [Addr -> Val]
  BY <1>4 DEF MemoryHolds
<1> QED
  BY <1>5, <1>6, <1>7

(* Packed or not, in strips or one element at a time, compiled by either   *)
(* backend: the loops compute the one product of MatrixProduct.            *)
THEOREM LoopsImplementProduct == Spec => ImplementsProduct
<1>1. Init => Abstract!MInit
  BY DEF Init, MInit, Abstract!MInit
<1>2. IInv /\ [Next]_vars => [Abstract!Multiply]_(Abstract!mvars)
  <2> SUFFICES ASSUME IInv, [Next]_vars
               PROVE  [Abstract!Multiply]_(Abstract!mvars)
    OBVIOUS
  <2>1. CASE MultiplyLeave
    <3> DEFINE product == {<<OutCell(e), Product(mem0, e[1], e[2])>> :
                             e \in Elements}
               written == product \cup (IF program.packed THEN PackOf(mem0)
                                                         ELSE {})
               cells   == {w[1] : w \in written}
    <3>1. /\ done = FALSE /\ done' = TRUE /\ UNCHANGED <<program, mem, mem0>>
      BY <2>1 DEF MultiplyLeave, IInv, LoopInv, Types
    <3>2. written = Written
      BY DEF Written
    <3>3. /\ mem \in [Addr -> Val]
          /\ \A w \in written : mem[w[1]] = w[2]
          /\ \A x \in Addr : x \notin cells => mem[x] = mem0[x]
      BY <2>1, <3>2, AllWritten
    <3> HIDE DEF product, written
    <3>4. ASSUME NEW x \in Addr
          PROVE  mem[x] = IF x \in cells
                          THEN (CHOOSE w \in written : w[1] = x)[2] ELSE mem0[x]
      <4>1. CASE x \in cells
        <5>1. \E w \in written : w[1] = x
          BY <4>1
        <5>2. PICK c : c = CHOOSE w \in written : w[1] = x
          OBVIOUS
        <5>3. c \in written /\ c[1] = x
          BY <5>1, <5>2
        <5>4. mem[x] = c[2]
          BY <3>3, <5>3
        <5> QED
          BY <4>1, <5>2, <5>4
      <4>2. CASE x \notin cells
        BY <3>3, <4>2
      <4> QED
        BY <4>1, <4>2
    <3>5. mem = [x \in Addr |-> IF x \in cells
                               THEN (CHOOSE w \in written : w[1] = x)[2]
                               ELSE mem0[x]]
      BY <3>3, <3>4
    <3> QED
      BY <3>1, <3>5, InstanceOperators DEF Abstract!Multiply, written, product
  <2>2. CASE \/ PackEnter \/ PackCol \/ PackLeave \/ PackElement \/ PackNextCol
             \/ MultiplyEnter \/ Row \/ Col \/ NextRow
             \/ InnerStrip \/ InnerElement \/ Store
    <3>1. pc # "end" /\ UNCHANGED <<program, done, mem0>>
      BY <2>2 DEF PackEnter, PackCol, PackLeave, PackElement, PackNextCol,
                  MultiplyEnter, Row, Col, NextRow, InnerStrip, InnerElement,
                  Store
    <3>2. done = FALSE
      BY <3>1 DEF IInv, LoopInv, Types
    <3> QED
      BY <3>1, <3>2 DEF Abstract!mvars
  <2>3. CASE UNCHANGED vars
    BY <2>3 DEF vars, Abstract!mvars
  <2> QED
    BY <2>1, <2>2, <2>3 DEF Next
<1> QED
  BY <1>1, <1>2, Invariant, PTL
  DEF Spec, ImplementsProduct, Abstract!MSpec
=============================================================================
