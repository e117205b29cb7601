----------------------------- MODULE FishProofs ------------------------------
(***************************************************************************)
(* Proofs about the blink list, for every screen, array and client: the    *)
(* links of the structures are a list without repetitions of exactly the   *)
(* structures in use; and about the demo: it shows the frames of its files.*)
(***************************************************************************)
EXTENDS Fish, Induction, SequenceTheorems, FiniteSetTheorems

-----------------------------------------------------------------------------
(* Chains: the list as the sequence of slots its links run through.         *)

Links(L, n, arr) ==
    /\ \A k \in 1 .. n : arr[L[k]].next = IF k = n THEN NULL ELSE L[k + 1]
    /\ \A s \in Slots : arr[s].location # 0 <=> \E k \in 1 .. n : L[k] = s
    /\ \A s \in Slots : arr[s].location = 0 => arr[s].next = NULL

Distinct(L, n) == \A j, k \in 1 .. n : L[j] = L[k] => j = k

Chain(L, n, arr, head) ==
    /\ n \in Nat
    /\ L \in [1 .. n -> Slots]
    /\ Distinct(L, n)
    /\ head = IF n = 0 THEN NULL ELSE L[1]
    /\ Links(L, n, arr)

LEMMA SlotsFacts ==
    /\ SLOTS \in Nat \ {0} /\ Slots \subseteq Nat \ {0} /\ NULL = 0 /\ NULL \notin Slots
    /\ IsFiniteSet(Slots) /\ Cardinality(Slots) = SLOTS
<1>1. SLOTS \in Nat \ {0} /\ SLOTS \in Int /\ 1 \in Int
  BY BlinkAssumption
<1>2. IsFiniteSet(1 .. SLOTS) /\ Cardinality(1 .. SLOTS) = IF 1 > SLOTS THEN 0 ELSE SLOTS - 1 + 1
  BY <1>1, FS_Interval
<1>3. Cardinality(1 .. SLOTS) = SLOTS
  BY <1>1, <1>2
<1> QED BY <1>1, <1>2, <1>3 DEF Slots, NULL

\* A chain is no longer than the array.
LEMMA ChainFits ==
    ASSUME NEW n \in Nat, NEW L \in [1 .. n -> Slots], Distinct(L, n)
    PROVE  n <= SLOTS
<1>1. L \in Injection(1 .. n, Slots)
  BY DEF Injection, IsInjective, Distinct
<1>2. Cardinality(1 .. n) <= Cardinality(Slots)
  BY <1>1, SlotsFacts, FS_Injection
<1>3. Cardinality(1 .. n) = IF 1 > n THEN 0 ELSE n - 1 + 1
  BY FS_Interval
<1>4. Cardinality(1 .. n) = n
  BY <1>3
<1> QED BY <1>2, <1>4, SlotsFacts

\* Following the links visits the chain and then stays at NULL.
LEMMA NodeIs ==
    ASSUME NEW n, NEW L, Chain(L, n, blink_array, mp1_list_head)
    PROVE  /\ n <= SLOTS
           /\ \A k \in 0 .. SLOTS : Node[k] = IF k < n THEN L[k + 1] ELSE NULL
<1> DEFINE G(k) == IF k < n THEN L[k + 1] ELSE NULL
           g == [k \in 0 .. SLOTS |-> G(k)]
           Body(f) == [k \in 0 .. SLOTS |-> IF k = 0 THEN mp1_list_head ELSE NextOf(f[k - 1])]
           node == CHOOSE f : f = Body(f)
<1>1. n \in Nat /\ L \in [1 .. n -> Slots] /\ Distinct(L, n)
  BY DEF Chain
<1>2. n <= SLOTS /\ SLOTS \in Nat
  BY <1>1, ChainFits, SlotsFacts
<1>3. mp1_list_head = G(0)
  <2>1. CASE n = 0
    BY <2>1 DEF Chain
  <2>2. CASE n # 0
    <3>1. 0 < n /\ 0 + 1 = 1
      BY <1>1, <2>2
    <3> QED BY <2>2, <3>1 DEF Chain
  <2> QED BY <2>1, <2>2
<1>4. ASSUME NEW k \in 1 .. SLOTS PROVE NextOf(G(k - 1)) = G(k)
  <2>1. CASE k - 1 < n
    <3>1. k \in 1 .. n /\ (k - 1) + 1 = k
      BY <1>1, <1>2, <2>1
    <3>2. G(k - 1) = L[k] /\ L[k] \in Slots /\ L[k] # NULL
      BY <1>1, <2>1, <3>1, SlotsFacts
    <3>3. NextOf(L[k]) = IF k = n THEN NULL ELSE L[k + 1]
      BY <3>1, <3>2 DEF NextOf, Chain, Links
    <3>4. k < n <=> ~(k = n)
      BY <1>1, <3>1
    <3> QED BY <3>2, <3>3, <3>4
  <2>2. CASE ~(k - 1 < n)
    <3>1. ~(k < n)
      BY <1>1, <2>2
    <3> QED BY <2>2, <3>1 DEF NextOf
  <2> QED BY <2>1, <2>2
<1> HIDE DEF G
<1>5. g = Body(g)
  <2>1. ASSUME NEW k \in 0 .. SLOTS
        PROVE  G(k) = IF k = 0 THEN mp1_list_head ELSE NextOf(g[k - 1])
    <3>1. CASE k = 0
      BY <1>3, <3>1
    <3>2. CASE k # 0
      <4>1. k \in 1 .. SLOTS /\ k - 1 \in 0 .. SLOTS
        BY <1>2, <3>2
      <4> QED BY <1>4, <3>2, <4>1
    <3> QED BY <3>1, <3>2
  <2> HIDE DEF g
  <2>2. Body(g) = [k \in 0 .. SLOTS |-> G(k)]
    BY <2>1
  <2> QED BY <2>2 DEF g
<1>6. node = Body(node)
  <2> HIDE DEF Body, g
  <2> QED BY <1>5
<1>7. Node = node
  BY DEF Node
<1> HIDE DEF node, g
<1>8. \A k \in 0 .. SLOTS : node[k] = G(k)
  <2> DEFINE T == {k \in 0 .. SLOTS : node[k] = G(k)}
  <2>1. 0 \in T
    BY <1>2, <1>3, <1>6
  <2>2. ASSUME NEW k \in 0 .. SLOTS - 1, k \in T PROVE k + 1 \in T
    <3>1. k + 1 \in 1 .. SLOTS /\ k + 1 \in 0 .. SLOTS /\ (k + 1) - 1 = k /\ k + 1 # 0
      BY <1>2
    <3>2. node[k + 1] = NextOf(node[k])
      BY <1>6, <3>1
    <3>3. NextOf(G((k + 1) - 1)) = G(k + 1)
      BY <1>4, <3>1
    <3> QED BY <2>2, <3>1, <3>2, <3>3
  <2> HIDE DEF T
  <2>3. 0 .. SLOTS \subseteq T
    BY <1>2, <2>1, <2>2, SegmentInduction
  <2> QED BY <2>3 DEF T
<1> QED BY <1>2, <1>7, <1>8 DEF G

LEMMA ListIs ==
    ASSUME NEW n, NEW L, Chain(L, n, blink_array, mp1_list_head)
    PROVE  Ends /\ List = L /\ Len(List) = n
<1>1. n \in Nat /\ L \in [1 .. n -> Slots] /\ SLOTS \in Nat
  BY SlotsFacts DEF Chain
<1>2. n <= SLOTS /\ \A k \in 0 .. SLOTS : Node[k] = IF k < n THEN L[k + 1] ELSE NULL
  BY NodeIs
<1> DEFINE U == {k \in 0 .. SLOTS - 1 : Node[k] # NULL}
<1>3. U = 0 .. n - 1
  <2>1. ASSUME NEW k \in 0 .. SLOTS - 1 PROVE Node[k] # NULL <=> k < n
    <3>1. k \in 0 .. SLOTS
      BY <1>1
    <3>2. CASE k < n
      <4>1. k + 1 \in 1 .. n
        BY <3>2, <1>1
      <4>2. L[k + 1] \in Slots
        BY <1>1, <4>1
      <4> QED BY <1>2, <3>1, <3>2, <4>2, SlotsFacts
    <3>3. CASE ~(k < n)
      BY <1>2, <3>1, <3>3
    <3> QED BY <3>2, <3>3
  <2>2. \A k : k \in 0 .. n - 1 <=> k \in 0 .. SLOTS - 1 /\ k < n
    BY <1>1, <1>2
  <2> QED BY <2>1, <2>2
<1>4. Cardinality(U) = n
  <2>1. 0 \in Int /\ n - 1 \in Int
    BY <1>1
  <2>2. Cardinality(0 .. n - 1) = IF 0 > n - 1 THEN 0 ELSE (n - 1) - 0 + 1
    BY <2>1, FS_Interval
  <2>3. Cardinality(0 .. n - 1) = n
    BY <1>1, <2>2
  <2> HIDE DEF U
  <2> QED BY <1>3, <2>3
<1>5. List = [k \in 1 .. n |-> Node[k - 1]]
  BY <1>4 DEF List
<1>6. ASSUME NEW k \in 1 .. n PROVE Node[k - 1] = L[k]
  <2>1. k - 1 \in 0 .. SLOTS /\ k - 1 < n /\ (k - 1) + 1 = k
    BY <1>1, <1>2
  <2> QED BY <1>2, <2>1
<1>7. List = L
  BY <1>1, <1>5, <1>6
<1>8. L \in Seq(Slots) /\ Len(L) = n
  <2> DEFINE All == {[1 .. m -> Slots] : m \in Nat}
  <2>1. [1 .. n -> Slots] \in All
    BY <1>1, Zenon
  <2>2. L \in UNION All
    BY <1>1, <2>1, Zenon
  <2>3. L \in Seq(Slots)
    BY <2>2, SeqDef, Zenon
  <2> QED BY <1>1, <2>3
<1>9. Node[SLOTS] = NULL
  <2>1. SLOTS \in 0 .. SLOTS /\ ~(SLOTS < n)
    BY <1>1, <1>2
  <2> QED BY <1>2, <2>1
<1> QED BY <1>7, <1>8, <1>9 DEF Ends

-----------------------------------------------------------------------------
(* The inductive invariant.                                                 *)

\* A cell last drawn by structure p shows the shape of its phase.
Shows(cell, arr, char, p, syn) ==
    p # NULL =>
      /\ arr[p].location = cell
      /\ cell # 0
      /\ char = IF Lit(arr[p]) /\ cell \notin syn THEN arr[p].on_char ELSE arr[p].off_char

PaintInv == \A cell \in Cells : Shows(cell, blink_array, video[cell], painter[cell], synced)

BlinkInv ==
    /\ blink_array \in [Slots -> Structures]
    /\ \E n, L : Chain(L, n, blink_array, mp1_list_head)
    /\ video \in [Cells -> Nat]
    /\ result.val \in {0, -1}
    /\ painter \in [Cells -> 0 .. SLOTS]
    /\ synced \subseteq Cells
    /\ PaintInv

\* What a client may fill in: a character at a location other than 0, the value
\* that marks a structure as free.
Inputs == [location : Nat \ {0}, on_char : Nat, off_char : Nat,
           on_length : 0 .. WORD - 1, off_length : 0 .. WORD - 1]

LEMMA SizesFacts ==
    /\ SCREEN \in Nat \ {0} /\ WORD \in Nat \ {0} /\ Cells = 0 .. SCREEN - 1
    /\ Zero \in Structures /\ Zero.location = 0 /\ Zero.next = NULL
<1>1. SCREEN \in Nat \ {0} /\ WORD \in Nat \ {0} /\ SLOTS \in Nat \ {0}
  BY BlinkAssumption
<1>2. 0 \in 0 .. SCREEN - 1 /\ 0 \in 0 .. WORD - 1 /\ 0 \in 0 .. SLOTS /\ 0 \in Nat /\ 0 \in {0, 1}
  BY <1>1
<1> QED BY <1>1, <1>2 DEF Zero, Structures, Cells, NULL

LEMMA HeadTyped ==
    ASSUME NEW n, NEW L, NEW arr, NEW head, Chain(L, n, arr, head)
    PROVE  head \in 0 .. SLOTS /\ \A k \in 1 .. n : L[k] \in Slots
<1>1. n \in Nat /\ L \in [1 .. n -> Slots] /\ SLOTS \in Nat
  BY SlotsFacts DEF Chain
<1>2. CASE n = 0
  BY <1>1, <1>2 DEF Chain, NULL
<1>3. CASE n # 0
  <2>1. 1 \in 1 .. n
    BY <1>1, <1>3
  <2>2. head = L[1] /\ L[1] \in Slots
    BY <1>1, <1>3, <2>1 DEF Chain
  <2> QED BY <1>1, <2>2 DEF Slots
<1> QED BY <1>1, <1>2, <1>3

\* mp1_find_helper finds the first listed structure at the location.
LEMMA FindIs ==
    ASSUME NEW n, NEW L, Chain(L, n, blink_array, mp1_list_head), NEW loc,
           mp1_find_helper(loc) # NULL
    PROVE  LET s == mp1_find_helper(loc) IN
           /\ \E j \in 1 .. n :
                s = L[j] /\ \A k \in 1 .. j - 1 : blink_array[L[k]].location # loc
           /\ s \in Slots /\ blink_array[s].location = loc /\ loc # 0
<1> DEFINE s == mp1_find_helper(loc)
           at == {k \in 1 .. n : blink_array[L[k]].location = loc}
<1>1. n \in Nat /\ L \in [1 .. n -> Slots] /\ List = L /\ Len(List) = n
  BY ListIs DEF Chain
<1>2. s = IF at = {} THEN NULL ELSE L[Min(at)]
  BY <1>1 DEF mp1_find_helper
<1>3. at # {} /\ at \subseteq Nat
  BY <1>1, <1>2
<1>4. \E x \in at : \A y \in at : x <= y
  <2> HIDE DEF at
  <2> QED BY <1>3, LeastNumber
<1>5. Min(at) \in at /\ \A y \in at : Min(at) <= y
  <2> HIDE DEF at
  <2> QED BY <1>4 DEF Min
<1>6. PICK j \in 1 .. n : /\ j = Min(at) /\ blink_array[L[j]].location = loc
                          /\ \A k \in 1 .. j - 1 : blink_array[L[k]].location # loc
  <2>1. Min(at) \in 1 .. n /\ blink_array[L[Min(at)]].location = loc
    BY <1>5
  <2>2. ASSUME NEW k \in 1 .. Min(at) - 1 PROVE blink_array[L[k]].location # loc
    <3>1. k \in 1 .. n /\ ~(Min(at) <= k)
      BY <1>1, <2>1
    <3> QED BY <1>5, <3>1
  <2> QED BY <2>1, <2>2
<1>7. s = L[j] /\ L[j] \in Slots
  BY <1>1, <1>2, <1>3, <1>6
<1>8. blink_array[L[j]].location # 0
  BY <1>7 DEF Chain, Links
<1> HIDE DEF s
<1> QED BY <1>6, <1>7, <1>8 DEF s

\* mp1_malloc hands out a free structure.
LEMMA MallocIs ==
    ASSUME mp1_malloc # NULL
    PROVE  mp1_malloc \in Slots /\ blink_array[mp1_malloc].location = 0
<1>1. FreeSlots # {} /\ FreeSlots \subseteq Nat /\ mp1_malloc = Min(FreeSlots)
  BY SlotsFacts DEF mp1_malloc, FreeSlots
<1>2. \E x \in FreeSlots : \A y \in FreeSlots : x <= y
  BY <1>1, LeastNumber
<1>3. Min(FreeSlots) \in FreeSlots
  BY <1>2 DEF Min
<1> QED BY <1>1, <1>3 DEF FreeSlots

\* Links survive where no structure changes its location or its link.
LEMMA SameLinks ==
    ASSUME NEW n, NEW L, NEW arr, NEW new, NEW head, Chain(L, n, arr, head),
           \A s \in Slots : new[s].location = arr[s].location /\ new[s].next = arr[s].next
    PROVE  Chain(L, n, new, head)
<1>1. \A k \in 1 .. n : L[k] \in Slots
  BY HeadTyped
<1>2. ASSUME NEW k \in 1 .. n PROVE new[L[k]].next = IF k = n THEN NULL ELSE L[k + 1]
  BY <1>1 DEF Chain, Links
<1>3. \A s \in Slots : new[s].location # 0 <=> \E k \in 1 .. n : L[k] = s
  BY DEF Chain, Links
<1>4. \A s \in Slots : new[s].location = 0 => new[s].next = NULL
  BY DEF Chain, Links
<1> QED BY <1>2, <1>3, <1>4 DEF Chain, Links

\* A new structure in front.
Pushed(L, n, s) == [k \in 1 .. n + 1 |-> IF k = 1 THEN s ELSE L[k - 1]]

LEMMA ChainGrows ==
    ASSUME NEW n, NEW L, NEW arr \in [Slots -> Structures], NEW head, Chain(L, n, arr, head),
           NEW s \in Slots, arr[s].location = 0,
           NEW x \in Structures, x.location # 0, x.next = head
    PROVE  Chain(Pushed(L, n, s), n + 1, [arr EXCEPT ![s] = x], s)
<1> DEFINE m == n + 1
           M == [k \in 1 .. m |-> IF k = 1 THEN s ELSE L[k - 1]]
           new == [arr EXCEPT ![s] = x]
<1>1. n \in Nat /\ L \in [1 .. n -> Slots] /\ Distinct(L, n) /\ m \in Nat /\ m # 0
  BY DEF Chain
<1>2. \A k \in 1 .. n : L[k] \in Slots /\ L[k] # s
  BY <1>1 DEF Chain, Links
<1>3. new[s] = x /\ \A t \in Slots : t # s => new[t] = arr[t]
  OBVIOUS
<1>4. ASSUME NEW k \in 1 .. m
      PROVE  (k = 1 /\ M[k] = s) \/ (k - 1 \in 1 .. n /\ M[k] = L[k - 1])
  BY <1>1
<1>5. M \in [1 .. m -> Slots]
  <2> SUFFICES ASSUME NEW k \in 1 .. m PROVE (IF k = 1 THEN s ELSE L[k - 1]) \in Slots
    OBVIOUS
  <2>1. k # 1 => k - 1 \in 1 .. n
    BY <1>1
  <2> QED BY <1>2, <2>1
<1>6. M[1] = s /\ 1 \in 1 .. m
  BY <1>1
<1>7. \A k \in 1 .. n : M[k + 1] = L[k]
  <2> SUFFICES ASSUME NEW k \in 1 .. n PROVE M[k + 1] = L[k]
    OBVIOUS
  <2>1. k + 1 \in 1 .. m /\ k + 1 # 1 /\ (k + 1) - 1 = k
    BY <1>1
  <2> QED BY <2>1
<1> HIDE DEF M, new
<1>8. Distinct(M, m)
  <2> SUFFICES ASSUME NEW j \in 1 .. m, NEW k \in 1 .. m, M[j] = M[k] PROVE j = k
    BY DEF Distinct
  <2>1. CASE j = 1 /\ k = 1
    BY <2>1
  <2>2. CASE j # 1 /\ k # 1
    <3>1. /\ j - 1 \in 1 .. n /\ M[j] = L[j - 1]
          /\ k - 1 \in 1 .. n /\ M[k] = L[k - 1]
      BY <1>4, <2>2
    <3>2. j - 1 = k - 1
      BY <1>1, <3>1 DEF Distinct
    <3> QED BY <1>1, <3>2
  <2>3. CASE j = 1 /\ k # 1
    <3>1. k - 1 \in 1 .. n /\ M[k] = L[k - 1]
      BY <1>4, <2>3
    <3> QED BY <1>2, <1>6, <2>3, <3>1
  <2>4. CASE j # 1 /\ k = 1
    <3>1. j - 1 \in 1 .. n /\ M[j] = L[j - 1]
      BY <1>4, <2>4
    <3> QED BY <1>2, <1>6, <2>4, <3>1
  <2> QED BY <2>1, <2>2, <2>3, <2>4
<1>9. ASSUME NEW k \in 1 .. m PROVE new[M[k]].next = IF k = m THEN NULL ELSE M[k + 1]
  <2>1. CASE k = 1
    <3>1. new[M[k]].next = head
      BY <1>3, <1>6, <2>1
    <3>2. CASE n = 0
      BY <2>1, <3>1, <3>2 DEF Chain
    <3>3. CASE n # 0
      <4>1. 1 \in 1 .. n /\ k # m
        BY <1>1, <2>1, <3>3
      <4> QED BY <1>7, <2>1, <3>1, <3>3, <4>1 DEF Chain
    <3> QED BY <3>2, <3>3
  <2>2. CASE k # 1
    <3>1. k - 1 \in 1 .. n /\ M[k] = L[k - 1] /\ (k - 1) + 1 = k
      BY <1>4, <2>2
    <3>2. new[M[k]].next = IF k - 1 = n THEN NULL ELSE L[k]
      BY <1>2, <1>3, <3>1 DEF Chain, Links
    <3>3. (k - 1 = n) <=> (k = m)
      BY <1>1, <2>2
    <3>4. k # m => k \in 1 .. n
      BY <1>1
    <3> QED BY <1>7, <3>2, <3>3, <3>4
  <2> QED BY <2>1, <2>2
<1>10. ASSUME NEW t \in Slots PROVE new[t].location # 0 <=> \E k \in 1 .. m : M[k] = t
  <2>1. CASE t = s
    BY <1>3, <1>6, <2>1
  <2>2. CASE t # s
    <3>1. new[t].location # 0 <=> \E k \in 1 .. n : L[k] = t
      BY <1>3, <2>2 DEF Chain, Links
    <3>2. ASSUME NEW k \in 1 .. n, L[k] = t PROVE \E j \in 1 .. m : M[j] = t
      <4>1. k + 1 \in 1 .. m /\ M[k + 1] = t
        BY <1>1, <1>7, <3>2
      <4> QED BY <4>1
    <3>3. ASSUME NEW k \in 1 .. m, M[k] = t PROVE \E j \in 1 .. n : L[j] = t
      BY <1>4, <2>2, <3>3
    <3> QED BY <3>1, <3>2, <3>3
  <2> QED BY <2>1, <2>2
<1>11. \A t \in Slots : new[t].location = 0 => new[t].next = NULL
  BY <1>3 DEF Chain, Links
<1>12. Chain(M, m, new, s)
  BY <1>1, <1>5, <1>6, <1>8, <1>9, <1>10, <1>11 DEF Chain, Links
<1> QED BY <1>12 DEF new, M, Pushed

Without(L, n, j) == [k \in 1 .. n - 1 |-> IF k < j THEN L[k] ELSE L[k + 1]]

\* A structure is taken out by making what points to it point past it.
LEMMA ChainShrinks ==
    ASSUME NEW n, NEW L, NEW arr, NEW head, Chain(L, n, arr, head),
           NEW j \in 1 .. n, NEW s, s = L[j], NEW new, NEW newHead,
           newHead = IF head = s THEN arr[s].next ELSE head,
           new[s].location = 0, new[s].next = NULL,
           \A t \in Slots : t # s =>
             /\ new[t].location = arr[t].location
             /\ new[t].next = IF arr[t].next = s THEN arr[s].next ELSE arr[t].next
    PROVE  Chain(Without(L, n, j), n - 1, new, newHead)
<1> DEFINE m == n - 1
           M == [k \in 1 .. m |-> IF k < j THEN L[k] ELSE L[k + 1]]
<1>1. /\ n \in Nat /\ L \in [1 .. n -> Slots] /\ Distinct(L, n) /\ m \in Nat
      /\ j \in Nat /\ j >= 1 /\ j <= n
  BY DEF Chain
<1>2. s \in Slots /\ s # NULL /\ \A k \in 1 .. n : L[k] \in Slots /\ L[k] # NULL
  BY <1>1, SlotsFacts
<1>3. \A k \in 1 .. n : L[k] = s => k = j
  BY <1>1 DEF Distinct
<1>4. \A k \in 1 .. n : arr[L[k]].next = IF k = n THEN NULL ELSE L[k + 1]
  BY DEF Chain, Links
<1>5. ASSUME NEW k \in 1 .. m
      PROVE  /\ k \in 1 .. n /\ k + 1 \in 1 .. n
             /\ k < j => M[k] = L[k]
             /\ ~(k < j) => M[k] = L[k + 1]
             /\ M[k] \in Slots /\ M[k] # s
  <2>1. k \in 1 .. n /\ k + 1 \in 1 .. n
    BY <1>1
  <2>2. (k < j => M[k] = L[k]) /\ (~(k < j) => M[k] = L[k + 1])
    OBVIOUS
  <2>3. (k < j => k # j) /\ (~(k < j) => k + 1 # j)
    BY <1>1
  <2> HIDE DEF M
  <2> QED BY <1>2, <1>3, <2>1, <2>2, <2>3
<1>6. M \in [1 .. m -> Slots]
  <2> SUFFICES ASSUME NEW k \in 1 .. m PROVE (IF k < j THEN L[k] ELSE L[k + 1]) \in Slots
    OBVIOUS
  <2>1. k \in 1 .. n /\ k + 1 \in 1 .. n
    BY <1>1
  <2> QED BY <1>2, <2>1
<1> HIDE DEF M
<1>7. Distinct(M, m)
  <2> SUFFICES ASSUME NEW a \in 1 .. m, NEW b \in 1 .. m, M[a] = M[b] PROVE a = b
    BY DEF Distinct
  <2> DEFINE I(k) == IF k < j THEN k ELSE k + 1
  <2>1. I(a) \in 1 .. n /\ M[a] = L[I(a)]
    BY <1>5
  <2>2. I(b) \in 1 .. n /\ M[b] = L[I(b)]
    BY <1>5
  <2>3. I(a) = I(b)
    <3> HIDE DEF I
    <3> QED BY <1>1, <2>1, <2>2 DEF Distinct
  <2> QED BY <1>1, <2>3
<1>8. arr[s].next = IF j = n THEN NULL ELSE L[j + 1]
  BY <1>4
<1>9. newHead = IF m = 0 THEN NULL ELSE M[1]
  <2>1. n # 0 /\ head = L[1] /\ 1 \in 1 .. n
    BY <1>1 DEF Chain
  <2>2. CASE j = 1
    <3>1. newHead = IF n = 1 THEN NULL ELSE L[2]
      BY <1>8, <2>1, <2>2
    <3>2. n # 1 => 1 \in 1 .. m /\ ~(1 < j)
      BY <1>1, <2>2
    <3>3. n # 1 => M[1] = L[2]
      BY <1>5, <3>2
    <3>4. m = 0 <=> n = 1
      BY <1>1
    <3> QED BY <3>1, <3>3, <3>4
  <2>3. CASE j # 1
    <3>1. head # s
      BY <1>3, <2>1, <2>3
    <3>2. 1 \in 1 .. m /\ 1 < j /\ m # 0
      BY <1>1, <2>3
    <3> QED BY <1>5, <2>1, <3>1, <3>2
  <2> QED BY <2>2, <2>3
<1>10. ASSUME NEW k \in 1 .. m PROVE new[M[k]].next = IF k = m THEN NULL ELSE M[k + 1]
  <2>0. new[M[k]].next = IF arr[M[k]].next = s THEN arr[s].next ELSE arr[M[k]].next
    BY <1>5
  <2>1. k # m => k + 1 \in 1 .. m
    BY <1>1
  <2>2. CASE k = j - 1
    <3>1. k < j /\ k \in 1 .. n /\ k # n /\ k + 1 = j
      BY <1>1, <2>2
    <3>2. M[k] = L[k] /\ arr[L[k]].next = s
      BY <1>4, <1>5, <3>1
    <3>3. new[M[k]].next = IF j = n THEN NULL ELSE L[j + 1]
      BY <1>8, <2>0, <3>2
    <3>4. (k = m <=> j = n) /\ ~(k + 1 < j)
      BY <1>1, <2>2
    <3>5. k # m => M[k + 1] = L[(k + 1) + 1]
      BY <1>5, <2>1, <3>4
    <3> QED BY <3>1, <3>3, <3>4, <3>5
  <2>3. CASE k < j - 1
    <3>1. k < j /\ k \in 1 .. n /\ k # n /\ k + 1 \in 1 .. n /\ k + 1 # j /\ k # m /\ k + 1 < j
      BY <1>1, <2>3
    <3>2. M[k] = L[k] /\ arr[L[k]].next = L[k + 1] /\ L[k + 1] # s
      BY <1>3, <1>4, <1>5, <3>1
    <3>3. M[k + 1] = L[k + 1]
      BY <1>5, <2>1, <3>1
    <3> QED BY <2>0, <3>1, <3>2, <3>3
  <2>4. CASE k >= j
    <3>1. ~(k < j) /\ k + 1 \in 1 .. n /\ (k + 1 = n <=> k = m) /\ ~(k + 1 < j)
      BY <1>1, <2>4
    <3>2. M[k] = L[k + 1] /\ arr[L[k + 1]].next = IF k + 1 = n THEN NULL ELSE L[(k + 1) + 1]
      BY <1>4, <1>5, <3>1
    <3>3. CASE k = m
      <4>1. arr[M[k]].next = NULL
        BY <3>1, <3>2, <3>3
      <4> QED BY <1>2, <2>0, <3>3, <4>1
    <3>4. CASE k # m
      <4>1. (k + 1) + 1 \in 1 .. n /\ (k + 1) + 1 # j
        BY <1>1, <2>4, <3>4
      <4>2. arr[M[k]].next = L[(k + 1) + 1] /\ L[(k + 1) + 1] # s
        BY <1>3, <3>1, <3>2, <3>4, <4>1
      <4>3. M[k + 1] = L[(k + 1) + 1]
        BY <1>5, <2>1, <3>1, <3>4
      <4> QED BY <2>0, <3>4, <4>2, <4>3
    <3> QED BY <3>3, <3>4
  <2> QED BY <1>1, <2>2, <2>3, <2>4
<1>11. ASSUME NEW t \in Slots PROVE new[t].location # 0 <=> \E k \in 1 .. m : M[k] = t
  <2>1. CASE t = s
    BY <1>5, <2>1
  <2>2. CASE t # s
    <3>1. new[t].location # 0 <=> \E k \in 1 .. n : L[k] = t
      BY <2>2 DEF Chain, Links
    <3>2. ASSUME NEW k \in 1 .. n, L[k] = t PROVE \E a \in 1 .. m : M[a] = t
      <4>1. k # j
        BY <2>2, <3>2
      <4>2. CASE k < j
        <5>1. k \in 1 .. m
          BY <1>1, <4>2
        <5> QED BY <1>5, <3>2, <4>2, <5>1
      <4>3. CASE k > j
        <5>1. k - 1 \in 1 .. m /\ ~(k - 1 < j) /\ (k - 1) + 1 = k
          BY <1>1, <4>3
        <5>2. M[k - 1] = L[k]
          BY <1>5, <5>1
        <5> QED BY <3>2, <5>1, <5>2
      <4> QED BY <1>1, <4>1, <4>2, <4>3
    <3>3. ASSUME NEW k \in 1 .. m, M[k] = t PROVE \E a \in 1 .. n : L[a] = t
      BY <1>5, <3>3
    <3> QED BY <3>1, <3>2, <3>3
  <2> QED BY <2>1, <2>2
<1>12. ASSUME NEW t \in Slots, new[t].location = 0 PROVE new[t].next = NULL
  <2>1. CASE t = s
    BY <2>1
  <2>2. CASE t # s
    <3>1. arr[t].location = 0 /\ arr[t].next = NULL
      BY <1>12, <2>2 DEF Chain, Links
    <3> QED BY <1>2, <2>2, <3>1
  <2> QED BY <2>1, <2>2
<1>13. Chain(M, m, new, newHead)
  BY <1>1, <1>6, <1>7, <1>9, <1>10, <1>11, <1>12 DEF Chain, Links
<1> QED BY <1>13 DEF M, Without

-----------------------------------------------------------------------------
(* The calls keep the invariant.                                            *)

LEMMA PainterTyped ==
    ASSUME BlinkInv, NEW cell \in Cells, painter[cell] # NULL
    PROVE  /\ painter[cell] \in Slots /\ blink_array[painter[cell]].location = cell
           /\ cell # 0
           /\ video[cell] = IF Lit(blink_array[painter[cell]]) /\ cell \notin synced
                            THEN blink_array[painter[cell]].on_char
                            ELSE blink_array[painter[cell]].off_char
<1>1. painter[cell] \in Slots
  BY SlotsFacts DEF BlinkInv, Slots
<1> QED BY <1>1 DEF BlinkInv, PaintInv, Shows

LEMMA LookKeeps ==
    ASSUME BlinkInv, UNCHANGED <<blink_array, mp1_list_head, video, painter, synced>>,
           result'.val \in {0, -1}
    PROVE  BlinkInv'
<1>1. (\E n, L : Chain(L, n, blink_array, mp1_list_head))
        => (\E n, L : Chain(L, n, blink_array', mp1_list_head'))
  OBVIOUS
<1>2. PaintInv => PaintInv'
  BY DEF PaintInv, Shows, Lit
<1> QED BY <1>1, <1>2 DEF BlinkInv

LEMMA AddKeeps ==
    ASSUME BlinkInv, NEW b \in Inputs, mp1_ioctl_add(b)
    PROVE  BlinkInv'
<1> DEFINE s == mp1_malloc
           x == [location |-> b.location, on_char |-> b.on_char, off_char |-> b.off_char,
                 on_length |-> b.on_length, off_length |-> b.off_length,
                 countdown |-> b.on_length, status |-> 1, next |-> mp1_list_head]
<1>1. /\ b.location < SCREEN /\ s # NULL
      /\ blink_array' = [blink_array EXCEPT ![s] = x]
      /\ mp1_list_head' = s
      /\ video' = [video EXCEPT ![b.location] = b.on_char]
      /\ painter' = [painter EXCEPT ![b.location] = s]
      /\ synced' = synced \ {b.location}
      /\ result' = [val |-> 0, data |-> Zero]
  BY DEF mp1_ioctl_add, mp1_poke, Returns
<1>2. s \in Slots /\ blink_array[s].location = 0
  BY <1>1, MallocIs
<1>3. PICK n, L : Chain(L, n, blink_array, mp1_list_head)
  BY DEF BlinkInv
<1>4. mp1_list_head \in 0 .. SLOTS
  BY <1>3, HeadTyped
<1>5. b.location \in Cells /\ b.location \in 0 .. SCREEN - 1 /\ b.location # 0 /\ b.on_char \in Nat
  BY <1>1, SizesFacts DEF Inputs
<1>6. x \in Structures
  BY <1>4, <1>5 DEF Inputs, Structures
<1>7. x.location = b.location /\ x.next = mp1_list_head /\ x.on_char = b.on_char /\ Lit(x)
  BY DEF Lit
<1> HIDE DEF x, s
<1>8. blink_array \in [Slots -> Structures] /\ blink_array' \in [Slots -> Structures]
  BY <1>1, <1>2, <1>6 DEF BlinkInv
<1>9. \E m, M : Chain(M, m, blink_array', mp1_list_head')
  BY <1>1, <1>2, <1>3, <1>5, <1>6, <1>7, <1>8, ChainGrows
<1>10. /\ video' \in [Cells -> Nat] /\ synced' \subseteq Cells /\ result'.val \in {0, -1}
       /\ painter' \in [Cells -> 0 .. SLOTS]
  <2>1. s \in 0 .. SLOTS
    BY <1>2, SlotsFacts DEF Slots
  <2> QED BY <1>1, <1>5, <2>1 DEF BlinkInv
<1>11. ASSUME NEW cell \in Cells
       PROVE  Shows(cell, blink_array', video'[cell], painter'[cell], synced')
  <2>1. CASE cell = b.location
    <3>1. painter'[cell] = s /\ video'[cell] = b.on_char /\ blink_array'[s] = x
          /\ cell \notin synced'
      BY <1>1, <1>2, <1>5, <2>1 DEF BlinkInv
    <3> QED BY <1>5, <1>7, <2>1, <3>1 DEF Shows
  <2>2. CASE cell # b.location
    <3>1. /\ painter'[cell] = painter[cell] /\ video'[cell] = video[cell]
          /\ cell \in synced' <=> cell \in synced
      BY <1>1, <1>5, <2>2 DEF BlinkInv
    <3>2. ASSUME painter[cell] # NULL
          PROVE  blink_array'[painter[cell]] = blink_array[painter[cell]]
      <4>1. painter[cell] \in Slots /\ painter[cell] # s
        BY <1>2, <3>2, PainterTyped
      <4> QED BY <1>1, <1>8, <4>1
    <3>3. Shows(cell, blink_array, video[cell], painter[cell], synced)
      BY DEF BlinkInv, PaintInv
    <3> QED BY <3>1, <3>2, <3>3 DEF Shows
  <2> QED BY <2>1, <2>2
<1> QED BY <1>8, <1>9, <1>10, <1>11 DEF BlinkInv, PaintInv

LEMMA RemoveKeeps ==
    ASSUME BlinkInv, NEW loc, mp1_ioctl_remove(loc)
    PROVE  BlinkInv'
<1> DEFINE s == mp1_find_helper(loc)
           At(t) == IF t = s THEN Zero
                    ELSE IF blink_array[t].next = s
                    THEN [blink_array[t] EXCEPT !.next = blink_array[s].next]
                    ELSE blink_array[t]
<1>1. /\ s # NULL
      /\ mp1_list_head' = IF mp1_list_head = s THEN blink_array[s].next ELSE mp1_list_head
      /\ blink_array' = [t \in Slots |-> At(t)]
      /\ painter' = [cell \in Cells |-> IF painter[cell] = s THEN NULL ELSE painter[cell]]
      /\ result'.val = 0
      /\ video' = video /\ synced' = synced
  BY DEF mp1_ioctl_remove, Returns
<1>2. PICK n, L : Chain(L, n, blink_array, mp1_list_head)
  BY DEF BlinkInv
<1>3. s \in Slots /\ \E k \in 1 .. n : s = L[k]
  BY <1>1, <1>2, FindIs
<1>4. PICK j \in 1 .. n : s = L[j]
  BY <1>3
<1>5. blink_array \in [Slots -> Structures]
  BY DEF BlinkInv
<1> HIDE DEF s
<1>6. ASSUME NEW t \in Slots, t # s
      PROVE  /\ blink_array'[t] \in Structures
             /\ blink_array'[t].location = blink_array[t].location
             /\ blink_array'[t].on_char = blink_array[t].on_char
             /\ blink_array'[t].off_char = blink_array[t].off_char
             /\ blink_array'[t].status = blink_array[t].status
             /\ blink_array'[t].next = IF blink_array[t].next = s THEN blink_array[s].next
                                       ELSE blink_array[t].next
  <2>1. blink_array'[t] = At(t) /\ blink_array[t] \in Structures /\ blink_array[s] \in Structures
    BY <1>1, <1>3, <1>5
  <2>2. CASE blink_array[t].next = s
    <3>1. blink_array'[t] = [blink_array[t] EXCEPT !.next = blink_array[s].next]
      BY <1>6, <2>1, <2>2
    <3> QED BY <2>1, <2>2, <3>1 DEF Structures
  <2>3. CASE blink_array[t].next # s
    <3>1. blink_array'[t] = blink_array[t]
      BY <1>6, <2>1, <2>3
    <3> QED BY <2>1, <2>3, <3>1
  <2> QED BY <2>2, <2>3
<1>7. blink_array'[s] = Zero
  BY <1>1, <1>3
<1> HIDE DEF At
<1>8. blink_array' \in [Slots -> Structures]
  <2>1. \A t \in Slots : blink_array'[t] \in Structures
    BY <1>6, <1>7, SizesFacts
  <2> QED BY <1>1, <2>1
<1>9. \E m, M : Chain(M, m, blink_array', mp1_list_head')
  <2>1. blink_array'[s].location = 0 /\ blink_array'[s].next = NULL
    BY <1>7, SizesFacts
  <2> DEFINE new == blink_array'
             newHead == mp1_list_head'
  <2>2. /\ new[s].location = 0 /\ new[s].next = NULL
        /\ newHead = IF mp1_list_head = s THEN blink_array[s].next ELSE mp1_list_head
        /\ \A t \in Slots : t # s =>
             /\ new[t].location = blink_array[t].location
             /\ new[t].next = IF blink_array[t].next = s THEN blink_array[s].next
                              ELSE blink_array[t].next
    BY <1>1, <1>6, <2>1
  <2> HIDE DEF new, newHead
  <2>3. \E m, M : Chain(M, m, new, newHead)
    BY <1>2, <1>4, <2>2, ChainShrinks
  <2> QED BY <2>3 DEF new, newHead
<1>10. /\ video' \in [Cells -> Nat] /\ synced' \subseteq Cells /\ result'.val \in {0, -1}
       /\ painter' \in [Cells -> 0 .. SLOTS]
  <2>1. NULL \in 0 .. SLOTS
    BY SlotsFacts
  <2> QED BY <1>1, <2>1 DEF BlinkInv
<1>11. ASSUME NEW cell \in Cells
       PROVE  Shows(cell, blink_array', video'[cell], painter'[cell], synced')
  <2>1. CASE painter[cell] = s
    BY <1>1, <2>1 DEF Shows
  <2>2. CASE painter[cell] # s /\ painter[cell] # NULL
    <3>1. painter'[cell] = painter[cell] /\ video'[cell] = video[cell] /\ synced' = synced
      BY <1>1, <2>2
    <3> DEFINE p == painter[cell]
    <3>2. p \in Slots /\ p # s
      BY <2>2, PainterTyped
    <3> HIDE DEF p
    <3>3. /\ blink_array'[p].location = blink_array[p].location
          /\ blink_array'[p].on_char = blink_array[p].on_char
          /\ blink_array'[p].off_char = blink_array[p].off_char
          /\ Lit(blink_array'[p]) <=> Lit(blink_array[p])
      BY <1>6, <3>2 DEF Lit
    <3>4. Shows(cell, blink_array, video[cell], p, synced)
      BY DEF BlinkInv, PaintInv, p
    <3> QED BY <3>1, <3>3, <3>4 DEF Shows, p
  <2>3. CASE painter[cell] = NULL
    BY <1>1, <2>3 DEF Shows
  <2> QED BY <2>1, <2>2, <2>3
<1> QED BY <1>8, <1>9, <1>10, <1>11 DEF BlinkInv, PaintInv

LEMMA SyncKeeps ==
    ASSUME BlinkInv, NEW src, NEW dst, mp1_ioctl_sync(src, dst)
    PROVE  BlinkInv'
<1> DEFINE f == mp1_find_helper(src)
           to == mp1_find_helper(dst)
           x == [blink_array[to] EXCEPT !.on_length = blink_array[f].on_length,
                                        !.off_length = blink_array[f].off_length,
                                        !.countdown = blink_array[f].countdown,
                                        !.status = blink_array[f].status]
<1>0. blink_array \in [Slots -> Structures]
  BY DEF BlinkInv
<1>1. PICK n, L : Chain(L, n, blink_array, mp1_list_head)
  BY DEF BlinkInv
<1>2. f # NULL /\ to # NULL
  BY DEF mp1_ioctl_sync
<1>3. f \in Slots
  BY <1>1, <1>2, FindIs
<1>4. to \in Slots /\ blink_array[to].location = dst /\ dst # 0
  BY <1>1, <1>2, FindIs
<1>5. /\ blink_array' = [blink_array EXCEPT ![to] = x]
      /\ video' = [video EXCEPT ![dst] = blink_array[to].off_char]
      /\ painter' = [painter EXCEPT ![dst] = to]
      /\ synced' = synced \cup {dst}
      /\ result'.val = 0
      /\ mp1_list_head' = mp1_list_head
  BY <1>0, <1>4, Zenon DEF mp1_ioctl_sync, mp1_poke, Returns
<1> HIDE DEF f, to
<1>6. blink_array[to] \in Structures /\ blink_array[f] \in Structures
  BY <1>0, <1>3, <1>4
<1>7. /\ x \in Structures /\ x.location = blink_array[to].location
      /\ x.next = blink_array[to].next /\ x.on_char = blink_array[to].on_char
      /\ x.off_char = blink_array[to].off_char
  BY <1>6 DEF Structures
<1> HIDE DEF x
<1>8. dst \in Cells /\ blink_array[to].off_char \in Nat /\ to \in 0 .. SLOTS
  <2>1. dst \in 0 .. SCREEN - 1 /\ blink_array[to].off_char \in Nat
    BY <1>4, <1>6 DEF Structures
  <2>2. to \in 0 .. SLOTS
    BY <1>4, SlotsFacts DEF Slots
  <2> QED BY <2>1, <2>2 DEF Cells
<1>9. blink_array' \in [Slots -> Structures]
  BY <1>0, <1>4, <1>5, <1>7
<1>10. Chain(L, n, blink_array', mp1_list_head')
  <2>1. \A s \in Slots : /\ blink_array'[s].location = blink_array[s].location
                         /\ blink_array'[s].next = blink_array[s].next
    BY <1>0, <1>5, <1>7
  <2> QED BY <1>1, <1>5, <2>1, SameLinks
<1>11. /\ video' \in [Cells -> Nat] /\ synced' \subseteq Cells /\ result'.val \in {0, -1}
       /\ painter' \in [Cells -> 0 .. SLOTS]
  BY <1>5, <1>8 DEF BlinkInv
<1>12. ASSUME NEW cell \in Cells
       PROVE  Shows(cell, blink_array', video'[cell], painter'[cell], synced')
  <2>1. CASE cell = dst
    <3>1. /\ painter'[cell] = to /\ video'[cell] = blink_array[to].off_char
          /\ blink_array'[to] = x /\ cell \in synced'
      BY <1>0, <1>4, <1>5, <1>8, <2>1 DEF BlinkInv
    <3> QED BY <1>4, <1>7, <2>1, <3>1 DEF Shows
  <2>2. CASE cell # dst
    <3>1. /\ painter'[cell] = painter[cell] /\ video'[cell] = video[cell]
          /\ cell \in synced' <=> cell \in synced
      BY <1>5, <1>8, <2>2 DEF BlinkInv
    <3>2. ASSUME painter[cell] # NULL
          PROVE  blink_array'[painter[cell]] = blink_array[painter[cell]]
      <4>1. painter[cell] \in Slots /\ painter[cell] # to
        BY <1>4, <2>2, <3>2, PainterTyped
      <4> QED BY <1>0, <1>5, <4>1
    <3>3. Shows(cell, blink_array, video[cell], painter[cell], synced)
      BY DEF BlinkInv, PaintInv
    <3> QED BY <3>1, <3>2, <3>3 DEF Shows
  <2> QED BY <2>1, <2>2
<1> QED BY <1>9, <1>10, <1>11, <1>12 DEF BlinkInv, PaintInv

LEMMA GreatestIs ==
    ASSUME NEW n \in Nat, NEW W, W \subseteq 1 .. n, W # {}
    PROVE  Max(W) \in W
<1> DEFINE T == {n - k : k \in W}
<1>1. T \subseteq Nat /\ T # {}
  <2>1. \A k \in W : n - k \in Nat
    OBVIOUS
  <2>2. PICK k \in W : TRUE
    OBVIOUS
  <2>3. n - k \in T
    OBVIOUS
  <2> QED BY <2>1, <2>3
<1>2. PICK x \in T : \A y \in T : x <= y
  <2> HIDE DEF T
  <2> QED BY <1>1, LeastNumber
<1>3. PICK g \in W : x = n - g
  OBVIOUS
<1>4. \A k \in W : g >= k
  <2> SUFFICES ASSUME NEW k \in W PROVE g >= k
    OBVIOUS
  <2>1. n - k \in T
    OBVIOUS
  <2>2. n - g <= n - k
    BY <1>2, <1>3, <2>1
  <2>3. g \in Nat /\ k \in Nat
    OBVIOUS
  <2> QED BY <2>2, <2>3
<1> QED BY <1>4 DEF Max

\* A tick changes the countdown, and at its end the phase.
LEMMA TickedIs ==
    ASSUME NEW b \in Structures
    PROVE  /\ Ticked(b) \in Structures
           /\ Ticked(b).location = b.location /\ Ticked(b).next = b.next
           /\ Ticked(b).on_char = b.on_char /\ Ticked(b).off_char = b.off_char
           /\ Expired(b) => (Lit(Ticked(b)) <=> ~Lit(b))
           /\ ~Expired(b) => (Lit(Ticked(b)) <=> Lit(b))
<1>1. WORD \in Nat \ {0} /\ b.countdown \in 0 .. WORD - 1 /\ b.status \in {0, 1}
  BY SizesFacts DEF Structures
<1>2. CASE Expired(b)
  <2> DEFINE l == IF Lit(b) THEN b.off_length ELSE b.on_length
             st == IF Lit(b) THEN b.status - 1 ELSE b.status + 1
             a == [b EXCEPT !.countdown = l]
  <2>1. l \in 0 .. WORD - 1 /\ st \in {0, 1} /\ (st % 2 = 1 <=> ~(b.status % 2 = 1))
    BY <1>1 DEF Structures, Lit
  <2>2. Ticked(b) = [a EXCEPT !.status = st]
    BY <1>2, Zenon DEF Ticked
  <2> HIDE DEF l, st
  <2>3. /\ a \in Structures /\ a.location = b.location /\ a.next = b.next
        /\ a.on_char = b.on_char /\ a.off_char = b.off_char
    BY <2>1 DEF Structures
  <2> HIDE DEF a
  <2>4. /\ Ticked(b) \in Structures /\ Ticked(b).location = b.location
        /\ Ticked(b).next = b.next /\ Ticked(b).status = st
        /\ Ticked(b).on_char = b.on_char /\ Ticked(b).off_char = b.off_char
    BY <2>1, <2>2, <2>3 DEF Structures
  <2> QED BY <1>2, <2>1, <2>4 DEF Lit
<1>3. CASE ~Expired(b)
  <2> DEFINE l == (b.countdown - 1) % WORD
  <2>1. l \in 0 .. WORD - 1
    BY <1>1
  <2>2. Ticked(b) = [b EXCEPT !.countdown = l]
    BY <1>3 DEF Ticked
  <2> HIDE DEF l
  <2>3. /\ Ticked(b) \in Structures /\ Ticked(b).location = b.location
        /\ Ticked(b).next = b.next /\ Ticked(b).status = b.status
        /\ Ticked(b).on_char = b.on_char /\ Ticked(b).off_char = b.off_char
    BY <2>1, <2>2 DEF Structures
  <2> QED BY <1>3, <2>3 DEF Lit
<1> QED BY <1>2, <1>3

LEMMA TickKeeps ==
    ASSUME BlinkInv, mp1_rtc_tasklet
    PROVE  BlinkInv'
<1>0. blink_array \in [Slots -> Structures]
  BY DEF BlinkInv
<1>1. PICK n, L : Chain(L, n, blink_array, mp1_list_head)
  BY DEF BlinkInv
<1>2. n \in Nat /\ L \in [1 .. n -> Slots] /\ List = L /\ Len(L) = n
  BY <1>1, ListIs DEF Chain
<1> DEFINE written == {cell \in Cells : Writers(L, cell) # {}}
           last(cell) == L[Max(Writers(L, cell))]
<1>3. /\ blink_array' = [s \in Slots |-> IF \E k \in 1 .. Len(L) : L[k] = s
                                         THEN Ticked(blink_array[s]) ELSE blink_array[s]]
      /\ video' = [cell \in Cells |-> IF cell \in written THEN Drawn(blink_array[last(cell)])
                                      ELSE video[cell]]
      /\ painter' = [cell \in Cells |-> IF cell \in written THEN last(cell) ELSE painter[cell]]
      /\ synced' = synced \ written
      /\ result'.val = 0
      /\ mp1_list_head' = mp1_list_head
  BY <1>2 DEF mp1_rtc_tasklet, Returns
<1>4. ASSUME NEW s \in Slots, blink_array[s].location # 0
      PROVE  blink_array'[s] = Ticked(blink_array[s])
  <2>1. \E k \in 1 .. Len(L) : L[k] = s
    BY <1>1, <1>2, <1>4 DEF Chain, Links
  <2> QED BY <1>3, <2>1
<1>5. ASSUME NEW s \in Slots
      PROVE  blink_array'[s] = Ticked(blink_array[s]) \/ blink_array'[s] = blink_array[s]
  BY <1>3
<1>6. ASSUME NEW s \in Slots
      PROVE  /\ blink_array'[s] \in Structures
             /\ blink_array'[s].location = blink_array[s].location
             /\ blink_array'[s].next = blink_array[s].next
  <2>1. blink_array[s] \in Structures
    BY <1>0
  <2> QED BY <1>5, <2>1, TickedIs
<1>7. blink_array' \in [Slots -> Structures]
  BY <1>3, <1>6
<1>8. Chain(L, n, blink_array', mp1_list_head')
  BY <1>1, <1>3, <1>6, SameLinks
<1>9. ASSUME NEW cell \in written
      PROVE  /\ last(cell) \in Slots /\ blink_array[last(cell)].location = cell
             /\ Expired(blink_array[last(cell)]) /\ cell # 0
  <2> DEFINE W == Writers(L, cell)
  <2>1. W # {} /\ W \subseteq 1 .. n
    BY <1>2 DEF Writers
  <2>2. Max(W) \in W
    <3> HIDE DEF W
    <3> QED BY <1>2, <2>1, GreatestIs
  <2>3. /\ Max(W) \in 1 .. n /\ blink_array[L[Max(W)]].location = cell
        /\ Expired(blink_array[L[Max(W)]])
    BY <1>2, <2>2 DEF Writers
  <2>4. L[Max(W)] \in Slots
    BY <1>2, <2>3
  <2>5. blink_array[L[Max(W)]].location # 0
    BY <1>1, <2>3, <2>4 DEF Chain, Links
  <2> QED BY <2>3, <2>4, <2>5
<1> HIDE DEF last
<1>10. /\ video' \in [Cells -> Nat] /\ synced' \subseteq Cells /\ result'.val \in {0, -1}
       /\ painter' \in [Cells -> 0 .. SLOTS]
  <2>1. ASSUME NEW cell \in written
        PROVE  last(cell) \in 0 .. SLOTS /\ Drawn(blink_array[last(cell)]) \in Nat
    <3>1. last(cell) \in Slots /\ blink_array[last(cell)] \in Structures
      BY <1>0, <1>9
    <3>2. last(cell) \in 0 .. SLOTS
      BY <3>1, SlotsFacts DEF Slots
    <3> QED BY <3>1, <3>2 DEF Drawn, Structures
  <2> HIDE DEF written
  <2> QED BY <1>3, <2>1 DEF BlinkInv
<1>11. ASSUME NEW cell \in Cells
       PROVE  Shows(cell, blink_array', video'[cell], painter'[cell], synced')
  <2>1. CASE cell \in written
    <3> DEFINE p == last(cell)
               b == blink_array[p]
    <3>1. p \in Slots /\ b.location = cell /\ Expired(b) /\ cell # 0 /\ b \in Structures
      BY <1>0, <1>9, <2>1
    <3>2. painter'[cell] = p /\ video'[cell] = Drawn(b) /\ cell \notin synced'
      BY <1>3, <2>1
    <3>3. blink_array'[p] = Ticked(b)
      BY <1>4, <3>1
    <3> HIDE DEF p, b
    <3>4. /\ Ticked(b).location = b.location /\ Ticked(b).on_char = b.on_char
          /\ Ticked(b).off_char = b.off_char /\ (Lit(Ticked(b)) <=> ~Lit(b))
      BY <3>1, TickedIs
    <3> QED BY <3>1, <3>2, <3>3, <3>4 DEF Shows, Drawn
  <2>2. CASE cell \notin written
    <3>1. /\ painter'[cell] = painter[cell] /\ video'[cell] = video[cell]
          /\ cell \in synced' <=> cell \in synced
      BY <1>3, <2>2
    <3>2. CASE painter[cell] = NULL
      BY <3>1, <3>2 DEF Shows
    <3>3. CASE painter[cell] # NULL
      <4> DEFINE p == painter[cell]
                 b == blink_array[p]
      <4>1. /\ p \in Slots /\ b.location = cell /\ cell # 0 /\ b \in Structures
            /\ video[cell] = IF Lit(b) /\ cell \notin synced THEN b.on_char ELSE b.off_char
        BY <1>0, <3>3, PainterTyped
      <4>2. blink_array'[p] = Ticked(b)
        BY <1>4, <4>1
      <4>3. ~Expired(b)
        <5>1. PICK k \in 1 .. n : L[k] = p
          BY <1>1, <4>1 DEF Chain, Links
        <5>2. Expired(b) => k \in Writers(L, cell)
          BY <1>2, <4>1, <5>1 DEF Writers
        <5> QED BY <2>2, <5>2
      <4> HIDE DEF b
      <4>4. /\ Ticked(b).location = b.location /\ Ticked(b).on_char = b.on_char
            /\ Ticked(b).off_char = b.off_char /\ (Lit(Ticked(b)) <=> Lit(b))
        BY <4>1, <4>3, TickedIs
      <4> HIDE DEF p
      <4>5. Shows(cell, blink_array', video[cell], p, synced')
        BY <3>1, <4>1, <4>2, <4>4 DEF Shows
      <4> QED BY <3>1, <4>5 DEF p
    <3> QED BY <3>2, <3>3
  <2> QED BY <2>1, <2>2
<1> QED BY <1>7, <1>8, <1>10, <1>11 DEF BlinkInv, PaintInv

-----------------------------------------------------------------------------
(* The program and the other client.                                        *)

\* What the clients pass: characters of 16-bit times at locations other than 0,
\* and frame files of characters.
FishInputs ==
    /\ Extra \in Inputs
    /\ Blinkers \subseteq Inputs
    /\ Texts \subseteq Seq(Nat) \cup {NoFile}
    /\ FRAME_LEN \in 0 .. WORD - 1

ReaderInv ==
    /\ frame \in [K -> Seq(Nat) \cup {NoFile}]
    /\ pos \in [K -> Nat]
    /\ \A k \in K : pos[k] <= Len(frame[k])
    /\ row \in Nat
    /\ col \in Nat

FishInv == BlinkInv /\ ReaderInv

LEMMA FishInitially ==
    ASSUME FishInputs, Init
    PROVE  FishInv
<1>1. BlinkInv
  <2>1. blink_array \in [Slots -> Structures] /\ \A s \in Slots : blink_array[s] = Zero
    BY SizesFacts DEF Init, BlinkInit
  <2> DEFINE L == [k \in 1 .. 0 |-> 1]
  <2>2. L \in [1 .. 0 -> Slots] /\ 0 \in Nat /\ \A k : k \notin 1 .. 0
    OBVIOUS
  <2> HIDE DEF L
  <2>3. Distinct(L, 0) /\ Links(L, 0, blink_array)
    BY <2>1, <2>2, SizesFacts DEF Distinct, Links
  <2>4. Chain(L, 0, blink_array, mp1_list_head)
    BY <2>2, <2>3 DEF Chain, Init, BlinkInit
  <2>5. /\ video \in [Cells -> Nat] /\ result.val \in {0, -1} /\ synced \subseteq Cells
        /\ painter \in [Cells -> 0 .. SLOTS] /\ \A cell \in Cells : painter[cell] = NULL
    <3>1. NULL \in 0 .. SLOTS /\ BLANK \in Nat
      BY SlotsFacts DEF BLANK
    <3> QED BY <3>1 DEF Init, BlinkInit
  <2>6. PaintInv
    BY <2>5 DEF PaintInv, Shows
  <2> QED BY <2>1, <2>4, <2>5, <2>6 DEF BlinkInv
<1>2. ReaderInv
  <2>1. <<>> \in Seq(Nat) /\ \A t \in Seq(Nat) \cup {NoFile} : Len(t) \in Nat
    BY DEF NoFile
  <2>2. frame \in [K -> Seq(Nat) \cup {NoFile}]
    <3>1. CASE fpc = "any"
      BY <2>1, <3>1 DEF Init
    <3>2. CASE fpc # "any"
      BY <3>2 DEF Init, FishInputs
    <3> QED BY <3>1, <3>2
  <2>3. pos \in [K -> Nat] /\ (\A k \in K : pos[k] = 0) /\ row \in Nat /\ col \in Nat
    BY DEF Init
  <2>4. \A k \in K : pos[k] <= Len(frame[k])
    BY <2>1, <2>2, <2>3
  <2> QED BY <2>2, <2>3, <2>4 DEF ReaderInv
<1> QED BY <1>1, <1>2 DEF FishInv

\* A round of the reading loop keeps to the files and reads characters.
LEMMA RoundReads ==
    ASSUME ReaderInv, ReadBoth
    PROVE  /\ frame' \in [K -> Seq(Nat) \cup {NoFile}] /\ pos' \in [K -> Nat]
           /\ \A k \in K : pos'[k] <= Len(frame'[k])
           /\ \A k \in K : NewChar(k) \in Nat
<1>1. ASSUME NEW k \in K
      PROVE  /\ (IF Rest(k) /\ ~AtEnd(k) THEN pos[k] + 1 ELSE pos[k]) \in Nat
             /\ (IF Rest(k) /\ ~AtEnd(k) THEN pos[k] + 1 ELSE pos[k]) <= Len(frame[k])
             /\ NewChar(k) \in Nat
  <2>1. frame[k] \in Seq(Nat) /\ pos[k] \in Nat /\ pos[k] <= Len(frame[k])
    BY DEF ReaderInv, ReadBoth, Opened
  <2>2. CASE Rest(k) /\ ~AtEnd(k)
    <3>1. pos[k] # Len(frame[k])
      BY <2>2 DEF AtEnd
    <3>2. pos[k] + 1 \in 1 .. Len(frame[k]) /\ pos[k] + 1 \in Nat
      BY <2>1, <3>1
    <3>3. frame[k][pos[k] + 1] \in Nat
      BY <2>1, <3>2, ElementOfSeq
    <3> QED BY <2>2, <3>2, <3>3 DEF NewChar
  <2>3. CASE ~(Rest(k) /\ ~AtEnd(k))
    BY <2>1, <2>3 DEF NewChar, NL
  <2> QED BY <2>2, <2>3
<1>2. /\ pos' = [k \in K |-> IF Rest(k) /\ ~AtEnd(k) THEN pos[k] + 1 ELSE pos[k]]
      /\ frame' = frame
  BY DEF ReadBoth
<1>3. pos' \in [K -> Nat] /\ \A k \in K : pos'[k] <= Len(frame'[k])
  BY <1>1, <1>2
<1> QED BY <1>1, <1>2, <1>3 DEF ReaderInv

LEMMA FrameBlinkerTyped ==
    ASSUME FishInputs, ReaderInv, ReadBoth
    PROVE  FrameBlinker \in Inputs
<1>1. COLS \in Nat /\ OFFSET \in Nat \ {0} /\ row \in Nat /\ col \in Nat
  BY FishAssumption DEF ReaderInv
<1> DEFINE r == row * COLS
<1>2. r \in Nat
  BY <1>1
<1> HIDE DEF r
<1>3. r + col + OFFSET \in Nat \ {0}
  BY <1>1, <1>2
<1>4. NewChar(0) \in Nat /\ NewChar(1) \in Nat
  BY RoundReads DEF K
<1>5. Shown(NewChar(0)) \in Nat /\ Shown(NewChar(1)) \in Nat
  BY <1>4 DEF Shown, BLANK
<1> QED BY <1>3, <1>5 DEF FrameBlinker, Inputs, FishInputs, r

LEMMA CallsKeep ==
    ASSUME BlinkInv
    PROVE  /\ UNCHANGED blink => BlinkInv'
           /\ Fails => BlinkInv'
           /\ \A b \in Inputs : mp1_ioctl_add(b) \/ AddFail(b) => BlinkInv'
           /\ \A loc : mp1_ioctl_remove(loc) \/ RemoveFail(loc) => BlinkInv'
           /\ \A loc : mp1_ioctl_find(loc) \/ FindFail(loc) => BlinkInv'
           /\ \A src, dst : mp1_ioctl_sync(src, dst) \/ SyncFail(src, dst) => BlinkInv'
           /\ mp1_rtc_tasklet => BlinkInv'
<1>1. UNCHANGED blink => BlinkInv'
  <2> SUFFICES ASSUME UNCHANGED blink PROVE BlinkInv'
    OBVIOUS
  <2>1. result'.val \in {0, -1} /\ UNCHANGED <<blink_array, mp1_list_head, video, painter, synced>>
    BY DEF blink, BlinkInv
  <2> QED BY <2>1, LookKeeps
<1>2. Fails => BlinkInv'
  <2> SUFFICES ASSUME Fails PROVE BlinkInv'
    OBVIOUS
  <2>1. result'.val \in {0, -1} /\ UNCHANGED <<blink_array, mp1_list_head, video, painter, synced>>
    BY DEF Fails, Returns
  <2> QED BY <2>1, LookKeeps
<1>3. \A b \in Inputs : mp1_ioctl_add(b) \/ AddFail(b) => BlinkInv'
  BY <1>2, AddKeeps DEF AddFail
<1>4. \A loc : mp1_ioctl_remove(loc) \/ RemoveFail(loc) => BlinkInv'
  BY <1>2, RemoveKeeps DEF RemoveFail
<1>5. \A loc : mp1_ioctl_find(loc) \/ FindFail(loc) => BlinkInv'
  <2>1. ASSUME NEW loc, mp1_ioctl_find(loc) PROVE BlinkInv'
    <3>1. /\ result'.val \in {0, -1}
          /\ UNCHANGED <<blink_array, mp1_list_head, video, painter, synced>>
      BY <2>1 DEF mp1_ioctl_find
    <3> QED BY <3>1, LookKeeps
  <2> QED BY <1>2, <2>1 DEF FindFail
<1>6. \A src, dst : mp1_ioctl_sync(src, dst) \/ SyncFail(src, dst) => BlinkInv'
  BY <1>2, SyncKeeps DEF SyncFail
<1>7. mp1_rtc_tasklet => BlinkInv'
  BY TickKeeps
<1> QED BY <1>1, <1>2, <1>3, <1>4, <1>5, <1>6, <1>7

LEMMA FishStep ==
    ASSUME FishInputs, FishInv, [Next]_vars
    PROVE  FishInv'
<1> USE DEF FishInv
<1>0. ASSUME UNCHANGED <<frame, reader>> PROVE ReaderInv'
  BY <1>0 DEF ReaderInv, reader
<1>1. CASE UNCHANGED vars
  <2>1. UNCHANGED blink /\ UNCHANGED <<frame, reader>>
    BY <1>1 DEF vars
  <2> QED BY <1>0, <2>1, CallsKeep
<1>2. CASE FramesMissing
  BY <1>0, <1>2, CallsKeep DEF FramesMissing
<1>3. CASE FrameRow
  <2>1. UNCHANGED blink /\ ReadBoth /\ row' \in Nat /\ col' \in Nat
    BY <1>3 DEF FrameRow, ReaderInv
  <2>2. ReaderInv'
    BY <2>1, RoundReads DEF ReaderInv
  <2> QED BY <2>1, <2>2, CallsKeep
<1>4. CASE FrameCell
  <2>1. ReadBoth /\ row' \in Nat /\ col' \in Nat
    BY <1>4 DEF FrameCell, ReaderInv
  <2>2. ReaderInv'
    BY <2>1, RoundReads DEF ReaderInv
  <2>3. FrameBlinker \in Inputs
    BY <2>1, FrameBlinkerTyped
  <2>4. UNCHANGED blink \/ mp1_ioctl_add(FrameBlinker) \/ AddFail(FrameBlinker)
    BY <1>4 DEF FrameCell
  <2>5. BlinkInv'
    BY <2>3, <2>4, CallsKeep
  <2> QED BY <2>2, <2>5
<1>5. CASE Waits
  <2>1. mp1_rtc_tasklet /\ UNCHANGED <<frame, reader>>
    BY <1>5 DEF Waits, Wait
  <2> QED BY <1>0, <2>1, CallsKeep
<1>6. CASE MainAdd
  <2>1. UNCHANGED <<frame, reader>> /\ (mp1_ioctl_add(Extra) \/ AddFail(Extra)) /\ Extra \in Inputs
    BY <1>6 DEF MainAdd, Waited, FishInputs
  <2> QED BY <1>0, <2>1, CallsKeep
<1>7. CASE MainSync
  <2>1. /\ UNCHANGED <<frame, reader>>
        /\ mp1_ioctl_sync(OFFSET, Extra.location) \/ SyncFail(OFFSET, Extra.location)
    BY <1>7 DEF MainSync, Waited
  <2> QED BY <1>0, <2>1, CallsKeep
<1>8. CASE MainRemove
  <2>1. UNCHANGED <<frame, reader>> /\ (mp1_ioctl_remove(i) \/ RemoveFail(i))
    BY <1>8 DEF MainRemove, Waited
  <2> QED BY <1>0, <2>1, CallsKeep
<1>9. CASE MainEnd
  <2>1. UNCHANGED <<frame, reader>> /\ UNCHANGED blink
    BY <1>9 DEF MainEnd, Waited
  <2> QED BY <1>0, <2>1, CallsKeep
<1>10. CASE AnyStep
  <2>1. UNCHANGED <<frame, reader>>
    BY <1>10 DEF AnyStep
  <2>2. BlinkInv'
    <3>1. \A b \in Blinkers : b \in Inputs
      BY DEF FishInputs
    <3> QED BY <1>10, <3>1, CallsKeep DEF AnyStep
  <2> QED BY <1>0, <2>1, <2>2
<1> QED BY <1>1, <1>2, <1>3, <1>4, <1>5, <1>6, <1>7, <1>8, <1>9, <1>10 DEF Next, MainStep

LEMMA FishAlways ==
    ASSUME FishInputs
    PROVE  Spec => []FishInv
<1>1. Init => FishInv
  BY FishInitially
<1>2. FishInv /\ [Next]_vars => FishInv'
  BY FishStep
<1> QED BY <1>1, <1>2, PTL DEF Spec

\* Whatever calls the demo and any other client make, at locations other than 0,
\* the links from mp1_list_head end, visit no structure twice and visit exactly
\* those that mp1_malloc regards as taken: a removal loses none and leaks none,
\* none is handed out while linked, and the tasklet comes to an end.
THEOREM ListAlwaysPool ==
    ASSUME FishInputs
    PROVE  Spec => []ListIsPool
<1>1. BlinkInv => ListIsPool
  <2> SUFFICES ASSUME BlinkInv PROVE ListIsPool
    OBVIOUS
  <2>1. PICK n, L : Chain(L, n, blink_array, mp1_list_head)
    BY DEF BlinkInv
  <2>2. Ends /\ List = L /\ Len(List) = n /\ n \in Nat /\ L \in [1 .. n -> Slots]
    BY <2>1, ListIs DEF Chain
  <2>3. BlinkTypeOK
    <3>1. mp1_list_head \in 0 .. SLOTS
      BY <2>1, HeadTyped
    <3> QED BY <3>1 DEF BlinkInv, BlinkTypeOK
  <2>4. \A j, k \in 1 .. n : L[j] = L[k] => j = k
    BY <2>1 DEF Chain, Distinct
  <2>5. {L[k] : k \in 1 .. n} = Slots \ FreeSlots
    BY <2>1, <2>2 DEF Chain, Links, FreeSlots
  <2> QED BY <2>2, <2>3, <2>4, <2>5 DEF ListIsPool
<1> QED BY <1>1, FishAlways, PTL DEF FishInv

\* A cell last drawn by a structure that is still listed shows the shape of that
\* structure's current phase, however adds, removals, syncs and ticks interleave
\* and whichever structures share the cell; after a sync, the off shape.
THEOREM CellsShowPhase ==
    ASSUME FishInputs
    PROVE  Spec => []CellShowsPhase
<1>1. BlinkInv => CellShowsPhase
  BY PainterTyped DEF CellShowsPhase
<1> QED BY <1>1, FishAlways, PTL DEF FishInv

-----------------------------------------------------------------------------
(* The structures and links implement BlinkList.                            *)

EntriesOf(L, n, arr) == [k \in 1 .. n |-> EntryOf(arr[L[k]])]
AbsEntries == [k \in 1 .. Len(List) |-> EntryOf(blink_array[List[k]])]
AbsAnswer == [val |-> result.val,
              data |-> IF result.data = Zero THEN <<>> ELSE <<EntryOf(result.data)>>]

LEMMA EntryTyped ==
    ASSUME NEW b \in Structures
    PROVE  /\ EntryOf(b) \in Abstract!Entries
           /\ EntryOf(b).location = b.location
           /\ EntryOf(b).shape = <<b.on_char, b.off_char>>
           /\ EntryOf(b).on = Period(b.on_length) /\ EntryOf(b).off = Period(b.off_length)
           /\ EntryOf(b).lit = Lit(b) /\ EntryOf(b).left = Period(b.countdown)
<1>1. WORD \in Nat \ {0} /\ WORD % 2 = 0
  BY BlinkAssumption
<1>2. 1 \in 1 .. WORD \div 2
  BY <1>1
<1>3. \A l : Period(l) \in 1 .. WORD \div 2
  BY <1>2 DEF Period
<1>4. /\ b.location \in Cells /\ <<b.on_char, b.off_char>> \in Nat \X Nat
      /\ Lit(b) \in BOOLEAN
  BY DEF Structures, Cells, Lit
<1> DEFINE lit == Lit(b)
           sh == <<b.on_char, b.off_char>>
           p == Period(b.on_length)
           q == Period(b.off_length)
           r == Period(b.countdown)
<1>5. EntryOf(b) = [location |-> b.location, shape |-> sh, on |-> p, off |-> q,
                    lit |-> lit, left |-> r]
  BY Zenon DEF EntryOf
<1>6. p \in 1 .. WORD \div 2 /\ q \in 1 .. WORD \div 2 /\ r \in 1 .. WORD \div 2
  BY <1>3
<1>7. lit \in BOOLEAN /\ sh \in Nat \X Nat
  BY <1>4
<1> HIDE DEF lit, sh, p, q, r
<1>8. EntryOf(b) \in [location : Cells, shape : Nat \X Nat, on : 1 .. WORD \div 2,
                      off : 1 .. WORD \div 2, lit : BOOLEAN, left : 1 .. WORD \div 2]
  BY <1>4, <1>5, <1>6, <1>7
<1>9. EntryOf(b) \in Abstract!Entries
  BY <1>8 DEF Abstract!Entries
<1>10. /\ EntryOf(b).location = b.location /\ EntryOf(b).shape = sh
       /\ EntryOf(b).on = p /\ EntryOf(b).off = q /\ EntryOf(b).left = r
  BY <1>5
<1>11. EntryOf(b).lit = lit
  <2> DEFINE e == EntryOf(b)
  <2>1. e = [location |-> b.location, shape |-> sh, on |-> p, off |-> q,
             lit |-> lit, left |-> r]
    BY <1>5
  <2> HIDE DEF e
  <2>2. e.lit = lit
    BY <1>7, <2>1
  <2> QED BY <2>2, Zenon DEF e
<1> QED BY <1>9, <1>10, <1>11 DEF lit, sh, p, q, r

\* A tick of the 16-bit countdown is a tick of the time it stands for.
LEMMA TickedEntry ==
    ASSUME NEW b \in Structures
    PROVE  EntryOf(Ticked(b)) = Abstract!After(EntryOf(b))
<1> DEFINE e == EntryOf(b)
           t == Ticked(b)
           H == WORD \div 2
<1>1. WORD \in Nat \ {0} /\ WORD % 2 = 0 /\ b.countdown \in 0 .. WORD - 1
  BY BlinkAssumption DEF Structures
<1>2. H \in Nat /\ 1 <= H /\ WORD = 2 * H
  BY <1>1
<1>3. Expired(b) <=> ~(b.countdown \in 2 .. H)
  <2>1. CASE b.countdown = 0
    <3>1. (b.countdown - 1) % WORD = WORD - 1
      BY <1>1, <2>1
    <3> QED BY <1>1, <1>2, <2>1, <3>1 DEF Expired
  <2>2. CASE b.countdown # 0
    <3>1. (b.countdown - 1) % WORD = b.countdown - 1
      BY <1>1, <2>2
    <3> QED BY <1>1, <1>2, <2>2, <3>1 DEF Expired
  <2> QED BY <2>1, <2>2
<1>4. (e.left > 1) <=> b.countdown \in 2 .. H
  <2>1. e.left = Period(b.countdown)
    BY EntryTyped
  <2> HIDE DEF e
  <2> QED BY <1>1, <1>2, <2>1 DEF Period
<1>5. /\ e = [location |-> b.location, shape |-> <<b.on_char, b.off_char>>,
              on |-> Period(b.on_length), off |-> Period(b.off_length),
              lit |-> Lit(b), left |-> Period(b.countdown)]
      /\ EntryOf(t) = [location |-> t.location, shape |-> <<t.on_char, t.off_char>>,
              on |-> Period(t.on_length), off |-> Period(t.off_length),
              lit |-> Lit(t), left |-> Period(t.countdown)]
  BY Zenon DEF EntryOf
<1>6. t.location = b.location /\ t.on_char = b.on_char /\ t.off_char = b.off_char
  BY TickedIs
<1>7. t.on_length = b.on_length /\ t.off_length = b.off_length
  BY DEF Ticked, Structures
<1> HIDE DEF H
<1>8. CASE Expired(b)
  <2>1. Lit(t) = ~Lit(b)
    BY <1>8, TickedIs DEF Lit
  <2>2. t.countdown = IF Lit(b) THEN b.off_length ELSE b.on_length
    BY <1>8 DEF Ticked, Structures
  <2>3. ~(e.left > 1)
    BY <1>3, <1>4, <1>8
  <2>4. Abstract!After(e) = [e EXCEPT !.lit = ~@, !.left = IF e.lit THEN e.off ELSE e.on]
    BY <2>3 DEF Abstract!After
  <2>5. e.lit = Lit(b) /\ e.on = Period(b.on_length) /\ e.off = Period(b.off_length)
    BY EntryTyped
  <2>6. Period(t.countdown) = IF e.lit THEN e.off ELSE e.on
    BY <2>2, <2>5, Zenon
  <2> DEFINE w == IF e.lit THEN e.off ELSE e.on
             f == ~e.lit
  <2>7. [e EXCEPT !.lit = ~@, !.left = w] = [e EXCEPT !.lit = f, !.left = w]
    BY <1>5, Zenon
  <2>8. EntryOf(t) = [location |-> b.location, shape |-> <<b.on_char, b.off_char>>,
                      on |-> Period(b.on_length), off |-> Period(b.off_length),
                      lit |-> f, left |-> w]
    BY <1>5, <1>6, <1>7, <2>1, <2>5, <2>6, Zenon
  <2>9. [e EXCEPT !.lit = f, !.left = w]
          = [location |-> b.location, shape |-> <<b.on_char, b.off_char>>,
             on |-> Period(b.on_length), off |-> Period(b.off_length),
             lit |-> f, left |-> w]
    <3> DEFINE a == [e EXCEPT !.lit = f]
    <3>1. a = [location |-> b.location, shape |-> <<b.on_char, b.off_char>>,
               on |-> Period(b.on_length), off |-> Period(b.off_length),
               lit |-> f, left |-> Period(b.countdown)]
      <4> HIDE DEF e, f
      <4> QED BY <1>5
    <3>2. [e EXCEPT !.lit = f, !.left = w] = [a EXCEPT !.left = w]
      BY Zenon
    <3> HIDE DEF a, w, f
    <3>3. [a EXCEPT !.left = w]
          = [location |-> b.location, shape |-> <<b.on_char, b.off_char>>,
             on |-> Period(b.on_length), off |-> Period(b.off_length),
             lit |-> f, left |-> w]
      BY <3>1
    <3> QED BY <3>2, <3>3, Zenon
  <2> QED BY <2>4, <2>7, <2>8, <2>9, Zenon
<1>9. CASE ~Expired(b)
  <2>1. b.countdown \in 2 .. H /\ e.left > 1
    BY <1>3, <1>4, <1>9
  <2>2. t.status = b.status /\ t.countdown = (b.countdown - 1) % WORD
    BY <1>9 DEF Ticked, Structures
  <2>3. Lit(t) = Lit(b)
    BY <2>2 DEF Lit
  <2>4. t.countdown = b.countdown - 1
    BY <1>1, <1>2, <2>1, <2>2
  <2>5. Period(b.countdown) = b.countdown /\ Period(t.countdown) = b.countdown - 1
    BY <1>1, <1>2, <2>1, <2>4 DEF Period, H
  <2> DEFINE w == b.countdown - 1
  <2>6. Abstract!After(e) = [e EXCEPT !.left = w]
    <3>1. e.left = b.countdown
      BY <2>5, EntryTyped
    <3>2. Abstract!After(e) = [e EXCEPT !.left = e.left - 1]
      BY <2>1 DEF Abstract!After
    <3> QED BY <3>1, <3>2, Zenon
  <2>7. EntryOf(t) = [location |-> b.location, shape |-> <<b.on_char, b.off_char>>,
                      on |-> Period(b.on_length), off |-> Period(b.off_length),
                      lit |-> Lit(b), left |-> w]
    BY <1>5, <1>6, <1>7, <2>3, <2>5, Zenon
  <2>8. [e EXCEPT !.left = w]
          = [location |-> b.location, shape |-> <<b.on_char, b.off_char>>,
             on |-> Period(b.on_length), off |-> Period(b.off_length),
             lit |-> Lit(b), left |-> w]
    <3> HIDE DEF e, w
    <3> QED BY <1>5
  <2> QED BY <2>6, <2>7, <2>8, Zenon
<1> QED BY <1>8, <1>9

\* The list is read off any chain.
ListFollows ==
    \A n, L : Chain(L, n, blink_array, mp1_list_head) => List = L /\ Len(List) = n

LEMMA AlwaysFollows == ListFollows
BY ListIs DEF ListFollows

LEMMA AbsIs ==
    ASSUME NEW n, NEW L, Chain(L, n, blink_array, mp1_list_head)
    PROVE  AbsEntries = EntriesOf(L, n, blink_array)
BY ListIs DEF AbsEntries, EntriesOf

LEMMA AbsNextIs ==
    ASSUME ListFollows', NEW n, NEW L, Chain(L, n, blink_array', mp1_list_head')
    PROVE  AbsEntries' = EntriesOf(L, n, blink_array')
BY DEF ListFollows, AbsEntries, EntriesOf

LEMMA EntriesTyped ==
    ASSUME NEW arr \in [Slots -> Structures], NEW n \in Nat, NEW L \in [1 .. n -> Slots]
    PROVE  /\ EntriesOf(L, n, arr) \in Seq(Abstract!Entries)
           /\ Len(EntriesOf(L, n, arr)) = n
           /\ EntriesOf(L, n, arr) \in [1 .. n -> Abstract!Entries]
           /\ \A k \in 1 .. n : EntriesOf(L, n, arr)[k] = EntryOf(arr[L[k]])
<1> DEFINE E == EntriesOf(L, n, arr)
<1>1. \A k \in 1 .. n : arr[L[k]] \in Structures
  OBVIOUS
<1>2. \A k \in 1 .. n : EntryOf(arr[L[k]]) \in Abstract!Entries
  BY <1>1, EntryTyped
<1>3. /\ E \in [1 .. n -> Abstract!Entries]
      /\ \A k \in 1 .. n : E[k] = EntryOf(arr[L[k]])
  BY <1>2, Zenon DEF EntriesOf
<1> HIDE DEF E
<1> DEFINE All == {[1 .. m -> Abstract!Entries] : m \in Nat}
<1>4. [1 .. n -> Abstract!Entries] \in All
  BY Zenon
<1>5. E \in UNION All
  BY <1>3, <1>4, Zenon
<1>6. E \in Seq(Abstract!Entries)
  BY <1>5, SeqDef, Zenon
<1> DEFINE Es == Abstract!Entries
<1>7. E \in [1 .. n -> Es] /\ E \in Seq(Es)
  BY <1>3, <1>6
<1> HIDE DEF Es
<1>8. Len(E) = n
  BY <1>7
<1> QED BY <1>3, <1>6, <1>8 DEF E

\* What mp1_find_helper finds is the newest entry at the location.
LEMMA FindsNewest ==
    ASSUME BlinkInv, NEW n, NEW L, Chain(L, n, blink_array, mp1_list_head), NEW loc,
           mp1_find_helper(loc) # NULL
    PROVE  \E j \in 1 .. n : /\ mp1_find_helper(loc) = L[j]
                             /\ Abstract!Newest(EntriesOf(L, n, blink_array), j)
<1> DEFINE E == EntriesOf(L, n, blink_array)
<1>1. n \in Nat /\ L \in [1 .. n -> Slots] /\ blink_array \in [Slots -> Structures]
  BY DEF Chain, BlinkInv
<1>2. PICK j \in 1 .. n :
        /\ mp1_find_helper(loc) = L[j] /\ blink_array[L[j]].location = loc
        /\ \A k \in 1 .. j - 1 : blink_array[L[k]].location # loc
  BY FindIs
<1>3. ASSUME NEW k \in 1 .. n PROVE E[k].location = blink_array[L[k]].location
  <2>1. blink_array[L[k]] \in Structures /\ E[k] = EntryOf(blink_array[L[k]])
    BY <1>1, EntriesTyped
  <2> QED BY <2>1, EntryTyped
<1> HIDE DEF E
<1>4. ASSUME NEW k \in 1 .. j - 1 PROVE E[k].location # E[j].location
  <2>1. k \in 1 .. n
    BY <1>1
  <2> QED BY <1>2, <1>3, <2>1
<1>5. Abstract!Newest(E, j)
  BY <1>4 DEF Abstract!Newest
<1> QED BY <1>2, <1>5 DEF E

\* One step of the abstract list, between values.
AbsNext(old, new, ans) ==
    \/ new = old /\ Abstract!Answered(old, ans)
    \/ /\ ans = Abstract!Ok
       /\ \/ Abstract!Tick(old, new) \/ Abstract!Insert(old, new)
          \/ Abstract!Delete(old, new) \/ Abstract!Join(old, new)

LEMMA ReturnsIs ==
    ASSUME NEW v, Returns(v)
    PROVE  /\ AbsAnswer' = [val |-> v, data |-> <<>>]
           /\ v = 0 => AbsAnswer' = Abstract!Ok
<1>1. result' = [val |-> v, data |-> Zero]
  BY DEF Returns
<1>2. result'.val = v /\ result'.data = Zero
  BY <1>1
<1>3. AbsAnswer' = [val |-> v, data |-> <<>>]
  BY <1>2 DEF AbsAnswer
<1> QED BY <1>3 DEF Abstract!Ok

LEMMA LookSteps ==
    ASSUME BlinkInv, ListFollows'
    PROVE  /\ Fails => AbsNext(AbsEntries, AbsEntries', AbsAnswer')
           /\ \A loc : mp1_ioctl_find(loc) => AbsNext(AbsEntries, AbsEntries', AbsAnswer')
<1>1. PICK n, L : Chain(L, n, blink_array, mp1_list_head)
  BY DEF BlinkInv
<1>2. AbsEntries = EntriesOf(L, n, blink_array)
  BY <1>1, AbsIs
<1>3. ASSUME UNCHANGED <<blink_array, mp1_list_head>> PROVE AbsEntries' = AbsEntries
  <2>1. Chain(L, n, blink_array', mp1_list_head')
    BY <1>1, <1>3
  <2>2. AbsEntries' = EntriesOf(L, n, blink_array')
    BY <2>1, AbsNextIs
  <2> QED BY <1>2, <1>3, <2>2
<1>4. ASSUME Fails PROVE AbsNext(AbsEntries, AbsEntries', AbsAnswer')
  <2>1. Returns(-1) /\ UNCHANGED <<blink_array, mp1_list_head>>
    BY <1>4 DEF Fails
  <2>2. AbsAnswer' = [val |-> -1, data |-> <<>>]
    BY <2>1, ReturnsIs
  <2>3. Abstract!Answered(AbsEntries, AbsAnswer')
    BY <2>2 DEF Abstract!Answered
  <2> QED BY <1>3, <2>1, <2>3 DEF AbsNext
<1>5. ASSUME NEW loc, mp1_ioctl_find(loc) PROVE AbsNext(AbsEntries, AbsEntries', AbsAnswer')
  <2> DEFINE s == mp1_find_helper(loc)
             E == EntriesOf(L, n, blink_array)
  <2>1. /\ s # NULL /\ result' = [val |-> 0, data |-> blink_array[s]]
        /\ UNCHANGED <<blink_array, mp1_list_head>>
    BY <1>5 DEF mp1_ioctl_find
  <2>2. PICK j \in 1 .. n : s = L[j] /\ Abstract!Newest(E, j)
    BY <1>1, <2>1, FindsNewest
  <2>3. n \in Nat /\ L \in [1 .. n -> Slots] /\ blink_array \in [Slots -> Structures]
    BY <1>1 DEF Chain, BlinkInv
  <2>4. Len(E) = n /\ E[j] = EntryOf(blink_array[s])
    BY <2>2, <2>3, EntriesTyped
  <2>5. blink_array[s].location # 0
    BY <1>1, <2>1, FindIs
  <2>6. blink_array[s] # Zero
    BY <2>5, SizesFacts
  <2> HIDE DEF s, E
  <2>7. result'.val = 0 /\ result'.data = blink_array[s]
    BY <2>1
  <2>8. AbsAnswer' = [val |-> 0, data |-> <<EntryOf(blink_array'[s])>>]
    BY <2>1, <2>6, <2>7, Zenon DEF AbsAnswer
  <2>9. Abstract!Answered(E, AbsAnswer')
    BY <2>1, <2>2, <2>4, <2>8 DEF Abstract!Answered
  <2>10. AbsEntries = E /\ AbsEntries' = AbsEntries
    BY <1>2, <1>3, <2>1 DEF E
  <2> QED BY <2>9, <2>10 DEF AbsNext
<1> QED BY <1>4, <1>5

\* The tasklet.
LEMMA TickSteps ==
    ASSUME BlinkInv, ListFollows', mp1_rtc_tasklet
    PROVE  AbsNext(AbsEntries, AbsEntries', AbsAnswer')
<1>0. blink_array \in [Slots -> Structures]
  BY DEF BlinkInv
<1>1. PICK n, L : Chain(L, n, blink_array, mp1_list_head)
  BY DEF BlinkInv
<1>2. n \in Nat /\ L \in [1 .. n -> Slots] /\ List = L /\ Len(L) = n
  BY <1>1, ListIs DEF Chain
<1>3. /\ blink_array' = [s \in Slots |-> IF \E k \in 1 .. Len(L) : L[k] = s
                                         THEN Ticked(blink_array[s]) ELSE blink_array[s]]
      /\ Returns(0)
      /\ mp1_list_head' = mp1_list_head
  BY <1>2 DEF mp1_rtc_tasklet
<1>4. ASSUME NEW k \in 1 .. n PROVE blink_array'[L[k]] = Ticked(blink_array[L[k]])
  BY <1>2, <1>3
<1>5. ASSUME NEW s \in Slots
      PROVE  /\ blink_array'[s] \in Structures
             /\ blink_array'[s].location = blink_array[s].location
             /\ blink_array'[s].next = blink_array[s].next
  <2>1. blink_array[s] \in Structures
    BY <1>0
  <2>2. blink_array'[s] = Ticked(blink_array[s]) \/ blink_array'[s] = blink_array[s]
    BY <1>3
  <2> QED BY <2>1, <2>2, TickedIs
<1>6. Chain(L, n, blink_array', mp1_list_head') /\ blink_array' \in [Slots -> Structures]
  BY <1>1, <1>3, <1>5, SameLinks
<1> DEFINE E == EntriesOf(L, n, blink_array)
           F == EntriesOf(L, n, blink_array')
<1>7. AbsEntries = E /\ AbsEntries' = F
  BY <1>1, <1>6, AbsIs, AbsNextIs
<1>8. Len(E) = n /\ \A k \in 1 .. n : E[k] = EntryOf(blink_array[L[k]])
  BY <1>0, <1>2, EntriesTyped
<1>9. F = [k \in 1 .. n |-> EntryOf(blink_array'[L[k]])]
  BY DEF EntriesOf
<1>10. ASSUME NEW k \in 1 .. n PROVE EntryOf(blink_array'[L[k]]) = Abstract!After(E[k])
  <2>1. blink_array[L[k]] \in Structures
    BY <1>0, <1>2
  <2> QED BY <1>4, <1>8, <2>1, TickedEntry
<1> HIDE DEF E, F
<1>11. F = [k \in 1 .. Len(E) |-> Abstract!After(E[k])]
  BY <1>8, <1>9, <1>10, Zenon
<1>12. Abstract!Tick(E, F)
  BY <1>11 DEF Abstract!Tick
<1> QED BY <1>3, <1>7, <1>12, ReturnsIs DEF AbsNext

\* A call that adds.
LEMMA AddSteps ==
    ASSUME BlinkInv, ListFollows', NEW b \in Inputs, mp1_ioctl_add(b)
    PROVE  AbsNext(AbsEntries, AbsEntries', AbsAnswer')
<1> DEFINE s == mp1_malloc
           x == [location |-> b.location, on_char |-> b.on_char, off_char |-> b.off_char,
                 on_length |-> b.on_length, off_length |-> b.off_length,
                 countdown |-> b.on_length, status |-> 1, next |-> mp1_list_head]
<1>1. /\ b.location < SCREEN /\ s # NULL
      /\ blink_array' = [blink_array EXCEPT ![s] = x]
      /\ mp1_list_head' = s
      /\ Returns(0)
  BY DEF mp1_ioctl_add
<1>2. s \in Slots /\ blink_array[s].location = 0
  BY <1>1, MallocIs
<1>3. PICK n, L : Chain(L, n, blink_array, mp1_list_head)
  BY DEF BlinkInv
<1>4. /\ mp1_list_head \in 0 .. SLOTS /\ blink_array \in [Slots -> Structures]
      /\ n \in Nat /\ L \in [1 .. n -> Slots]
  BY <1>3, HeadTyped DEF Chain, BlinkInv
<1>5. x \in Structures /\ x.location # 0 /\ x.next = mp1_list_head
  <2>1. b.location \in 0 .. SCREEN - 1 /\ b.location # 0
    BY <1>1, SizesFacts DEF Inputs
  <2> QED BY <1>4, <2>1 DEF Inputs, Structures
<1>6. Lit(x) /\ x.countdown = x.on_length
  BY DEF Lit
<1> HIDE DEF s, x
<1> DEFINE M == Pushed(L, n, s)
           m == n + 1
           arr == [blink_array EXCEPT ![s] = x]
           E == EntriesOf(L, n, blink_array)
           F == EntriesOf(M, m, arr)
<1>7. Chain(M, m, arr, s)
  BY <1>2, <1>3, <1>4, <1>5, ChainGrows
<1>8. AbsEntries = E
  BY <1>3, AbsIs
<1>9. AbsEntries' = F
  <2>1. Chain(M, m, blink_array', mp1_list_head')
    BY <1>1, <1>7
  <2>2. AbsEntries' = EntriesOf(M, m, blink_array')
    <3> HIDE DEF M, m
    <3> QED BY <2>1, AbsNextIs
  <2> QED BY <1>1, <2>2
<1>10. /\ m \in Nat /\ M \in [1 .. m -> Slots] /\ arr \in [Slots -> Structures]
       /\ m <= SLOTS
  <2>1. m \in Nat /\ M \in [1 .. m -> Slots] /\ Distinct(M, m)
    BY <1>7 DEF Chain
  <2> HIDE DEF m, M
  <2> QED BY <1>4, <1>5, <2>1, ChainFits
<1>11. M[1] = s /\ \A k \in 1 .. n : M[k + 1] = L[k]
  <2>1. 1 \in 1 .. m /\ \A k \in 1 .. n : k + 1 \in 1 .. m /\ k + 1 # 1 /\ (k + 1) - 1 = k
    BY <1>4
  <2> QED BY <2>1 DEF Pushed
<1>12. \A k \in 1 .. n : arr[L[k]] = blink_array[L[k]]
  <2>1. ASSUME NEW k \in 1 .. n PROVE L[k] # s /\ L[k] \in Slots
    <3>1. L[k] \in Slots
      BY <1>4
    <3>2. blink_array[L[k]].location # 0
      BY <1>3, <3>1 DEF Chain, Links
    <3> QED BY <1>2, <3>1, <3>2
  <2> QED BY <1>4, <2>1
<1>13. arr[s] = x
  BY <1>2, <1>4
<1> DEFINE Es == Abstract!Entries
<1>14. /\ E \in Seq(Es) /\ Len(E) = n /\ E \in [1 .. n -> Es]
       /\ \A k \in 1 .. n : E[k] = EntryOf(blink_array[L[k]])
  BY <1>4, EntriesTyped
<1> HIDE DEF M, m, arr
<1>15. /\ F \in Seq(Es) /\ Len(F) = m /\ F \in [1 .. m -> Es]
       /\ \A k \in 1 .. m : F[k] = EntryOf(arr[M[k]])
  BY <1>10, EntriesTyped
<1> HIDE DEF E, F, Es
<1>16. F # <<>> /\ m = n + 1 /\ 1 \in 1 .. m /\ \A k \in 1 .. n : k + 1 \in 1 .. m
  BY <1>4, <1>15 DEF m
<1>17. /\ Tail(F) \in Seq(Es) /\ Len(Tail(F)) = n
       /\ \A k \in 1 .. n : Tail(F)[k] = F[k + 1]
  <2>1. /\ Tail(F) \in Seq(Es) /\ Len(Tail(F)) = Len(F) - 1
        /\ \A k \in 1 .. Len(Tail(F)) : Tail(F)[k] = F[k + 1]
    BY <1>15, <1>16, HeadTailProperties
  <2>2. Len(Tail(F)) = n
    BY <1>4, <1>15, <1>16, <2>1
  <2> QED BY <2>1, <2>2
<1>18. \A k \in 1 .. n : Tail(F)[k] = E[k]
  <2> SUFFICES ASSUME NEW k \in 1 .. n PROVE Tail(F)[k] = E[k]
    OBVIOUS
  <2>1. F[k + 1] = EntryOf(arr[M[k + 1]]) /\ Tail(F)[k] = F[k + 1]
    BY <1>15, <1>16, <1>17
  <2>2. arr[M[k + 1]] = blink_array[L[k]]
    BY <1>11, <1>12
  <2> QED BY <1>14, <2>1, <2>2
<1>19. Tail(F) = E
  BY <1>14, <1>17, <1>18
<1>20. F[1] = EntryOf(x)
  BY <1>11, <1>13, <1>15, <1>16
<1>21. F[1] \in Abstract!Entries /\ F[1].lit = Lit(x) /\ F[1].left = F[1].on
  BY <1>5, <1>6, <1>20, EntryTyped
<1>22. F[1].lit
  BY <1>6, <1>21
<1>23. Len(F) = Len(E) + 1 /\ Len(F) <= SLOTS
  BY <1>10, <1>14, <1>15, <1>16
<1>24. Abstract!Insert(E, F)
  BY <1>19, <1>21, <1>22, <1>23 DEF Abstract!Insert
<1> QED BY <1>1, <1>8, <1>9, <1>24, ReturnsIs DEF AbsNext

\* A sequence without its j-th element.
LEMMA RemoveAtIs ==
    ASSUME NEW S, NEW seq \in Seq(S), NEW j \in 1 .. Len(seq)
    PROVE  Abstract!RemoveAt(seq, j) =
             [k \in 1 .. Len(seq) - 1 |-> IF k < j THEN seq[k] ELSE seq[k + 1]]
<1> DEFINE n == Len(seq)
           a == SubSeq(seq, 1, j - 1)
           z == SubSeq(seq, j + 1, n)
           r == a \o z
<1>1. n \in Nat /\ j \in Nat /\ 1 <= j /\ j <= n
  OBVIOUS
<1>2. /\ a \in Seq(S) /\ Len(a) = j - 1 /\ \A k \in 1 .. j - 1 : a[k] = seq[k]
  <2>1. /\ a \in Seq(S) /\ Len(a) = IF 1 <= j - 1 THEN (j - 1) - 1 + 1 ELSE 0
        /\ \A k \in 1 .. (j - 1) - 1 + 1 : a[k] = seq[1 + k - 1]
    <3>1. 1 \in 1 .. n + 1 /\ j - 1 \in 1 - 1 .. n
      BY <1>1
    <3> QED BY <3>1, SubSeqProperties
  <2> HIDE DEF a
  <2> QED BY <1>1, <2>1
<1>3. /\ z \in Seq(S) /\ Len(z) = n - j /\ \A k \in 1 .. n - j : z[k] = seq[k + j]
  <2>1. /\ z \in Seq(S) /\ Len(z) = IF j + 1 <= n THEN n - (j + 1) + 1 ELSE 0
        /\ \A k \in 1 .. n - (j + 1) + 1 : z[k] = seq[(j + 1) + k - 1]
    <3>1. j + 1 \in 1 .. n + 1 /\ n \in (j + 1) - 1 .. n
      BY <1>1
    <3> QED BY <3>1, SubSeqProperties
  <2> HIDE DEF z
  <2>2. Len(z) = n - j
    BY <1>1, <2>1
  <2>3. ASSUME NEW k \in 1 .. n - j PROVE z[k] = seq[k + j]
    <3>1. k \in 1 .. n - (j + 1) + 1 /\ (j + 1) + k - 1 = k + j
      BY <1>1
    <3> QED BY <2>1, <3>1
  <2> QED BY <2>1, <2>2, <2>3
<1>4. Abstract!RemoveAt(seq, j) = r
  BY DEF Abstract!RemoveAt
<1> HIDE DEF a, z
<1>5. /\ r \in Seq(S) /\ Len(r) = n - 1
      /\ \A k \in 1 .. n - 1 : r[k] = IF k <= j - 1 THEN a[k] ELSE z[k - (j - 1)]
  <2>1. /\ r \in Seq(S) /\ Len(r) = Len(a) + Len(z)
        /\ \A k \in 1 .. Len(a) + Len(z) :
             r[k] = IF k <= Len(a) THEN a[k] ELSE z[k - Len(a)]
    BY <1>2, <1>3, ConcatProperties
  <2>2. Len(a) = j - 1 /\ Len(a) + Len(z) = n - 1
    BY <1>1, <1>2, <1>3
  <2> HIDE DEF r, n
  <2> QED BY <2>1, <2>2
<1> HIDE DEF r
<1>6. ASSUME NEW k \in 1 .. n - 1
      PROVE  r[k] = IF k < j THEN seq[k] ELSE seq[k + 1]
  <2>1. CASE k < j
    <3>1. k \in 1 .. j - 1 /\ k <= j - 1
      BY <1>1, <2>1
    <3> QED BY <1>2, <1>5, <2>1, <3>1
  <2>2. CASE ~(k < j)
    <3>1. ~(k <= j - 1) /\ k - (j - 1) \in 1 .. n - j /\ (k - (j - 1)) + j = k + 1
      BY <1>1, <2>2
    <3>2. z[k - (j - 1)] = seq[k + 1]
      BY <1>3, <3>1
    <3> QED BY <1>5, <2>2, <3>1, <3>2
  <2> QED BY <2>1, <2>2
<1> HIDE DEF n
<1>7. r = [k \in 1 .. n - 1 |-> IF k < j THEN seq[k] ELSE seq[k + 1]]
  <2>1. r = [k \in 1 .. n - 1 |-> r[k]]
    BY <1>1, <1>5
  <2> QED BY <1>6, <2>1
<1> QED BY <1>4, <1>7 DEF n

\* A call that removes.
LEMMA RemoveSteps ==
    ASSUME BlinkInv, ListFollows', NEW loc, mp1_ioctl_remove(loc)
    PROVE  AbsNext(AbsEntries, AbsEntries', AbsAnswer')
<1> DEFINE s == mp1_find_helper(loc)
           At(t) == IF t = s THEN Zero
                    ELSE IF blink_array[t].next = s
                    THEN [blink_array[t] EXCEPT !.next = blink_array[s].next]
                    ELSE blink_array[t]
           arr == [t \in Slots |-> At(t)]
           head == IF mp1_list_head = s THEN blink_array[s].next ELSE mp1_list_head
<1>1. /\ s # NULL
      /\ mp1_list_head' = head
      /\ blink_array' = arr
      /\ Returns(0)
  BY DEF mp1_ioctl_remove
<1>2. PICK n, L : Chain(L, n, blink_array, mp1_list_head)
  BY DEF BlinkInv
<1> DEFINE E == EntriesOf(L, n, blink_array)
<1>3. PICK j \in 1 .. n : s = L[j] /\ Abstract!Newest(E, j)
  BY <1>1, <1>2, FindsNewest
<1>4. /\ blink_array \in [Slots -> Structures] /\ n \in Nat /\ L \in [1 .. n -> Slots]
      /\ s \in Slots
  BY <1>2, <1>3 DEF BlinkInv, Chain
<1> HIDE DEF s
<1>5. ASSUME NEW t \in Slots, t # s
      PROVE  /\ arr[t] \in Structures
             /\ arr[t].location = blink_array[t].location
             /\ arr[t].next = IF blink_array[t].next = s THEN blink_array[s].next
                              ELSE blink_array[t].next
             /\ EntryOf(arr[t]) = EntryOf(blink_array[t])
  <2>1. arr[t] = At(t) /\ blink_array[t] \in Structures /\ blink_array[s] \in Structures
    BY <1>4
  <2>2. CASE blink_array[t].next = s
    <3> DEFINE old == blink_array[t]
               x == [old EXCEPT !.next = blink_array[s].next]
    <3>1. arr[t] = x
      BY <1>5, <2>1, <2>2
    <3>2. /\ x \in Structures /\ x.location = old.location /\ x.next = blink_array[s].next
          /\ x.on_char = old.on_char /\ x.off_char = old.off_char
          /\ x.on_length = old.on_length /\ x.off_length = old.off_length
          /\ x.countdown = old.countdown /\ x.status = old.status
      BY <2>1 DEF Structures
    <3> HIDE DEF x, old
    <3>3. Lit(x) = Lit(old)
      BY <3>2, Zenon DEF Lit
    <3>4. EntryOf(x) = EntryOf(old)
      BY <3>2, <3>3, Zenon DEF EntryOf
    <3> HIDE DEF arr
    <3> QED BY <2>2, <3>1, <3>2, <3>4 DEF old
  <2>3. CASE blink_array[t].next # s
    <3>1. arr[t] = blink_array[t]
      BY <1>5, <2>1, <2>3
    <3> QED BY <2>1, <2>3, <3>1
  <2> QED BY <2>2, <2>3
<1>6. arr[s] = Zero
  BY <1>4
<1>7. arr \in [Slots -> Structures]
  <2>1. \A t \in Slots : arr[t] \in Structures
    BY <1>5, <1>6, SizesFacts
  <2>2. \A t \in Slots : At(t) \in Structures
    BY <2>1
  <2> HIDE DEF At
  <2> QED BY <2>2
<1> HIDE DEF At, arr, head
<1> DEFINE M == Without(L, n, j)
           m == n - 1
           F == EntriesOf(M, m, arr)
<1>8. Chain(M, m, arr, head)
  <2>1. /\ arr[s].location = 0 /\ arr[s].next = NULL
        /\ head = IF mp1_list_head = s THEN blink_array[s].next ELSE mp1_list_head
        /\ \A t \in Slots : t # s =>
             /\ arr[t].location = blink_array[t].location
             /\ arr[t].next = IF blink_array[t].next = s THEN blink_array[s].next
                              ELSE blink_array[t].next
    BY <1>5, <1>6, SizesFacts DEF head
  <2> QED BY <1>2, <1>3, <2>1, ChainShrinks
<1>9. AbsEntries = E
  BY <1>2, AbsIs
<1>10. AbsEntries' = F
  <2>1. Chain(M, m, blink_array', mp1_list_head')
    BY <1>1, <1>8
  <2>2. AbsEntries' = EntriesOf(M, m, blink_array')
    <3> HIDE DEF M, m
    <3> QED BY <2>1, AbsNextIs
  <2> QED BY <1>1, <2>2
<1> DEFINE Es == Abstract!Entries
<1>11. /\ E \in Seq(Es) /\ Len(E) = n
       /\ \A k \in 1 .. n : E[k] = EntryOf(blink_array[L[k]])
  BY <1>4, EntriesTyped
<1>12. F = [k \in 1 .. m |-> EntryOf(arr[M[k]])]
  BY DEF EntriesOf
<1>13. M = [k \in 1 .. m |-> IF k < j THEN L[k] ELSE L[k + 1]]
  BY DEF Without
<1>14. m = n - 1 /\ n \in Nat /\ j \in 1 .. n
  BY <1>4
<1> HIDE DEF M, m, E, F, Es
<1>15. ASSUME NEW k \in 1 .. m
       PROVE  EntryOf(arr[M[k]]) = IF k < j THEN E[k] ELSE E[k + 1]
  <2>1. k \in 1 .. n /\ k + 1 \in 1 .. n
    BY <1>14
  <2>2. ASSUME NEW q \in 1 .. n, q # j PROVE EntryOf(arr[L[q]]) = E[q]
    <3>1. L[q] \in Slots /\ L[q] # s
      BY <1>2, <1>3, <1>4, <2>2 DEF Chain, Distinct
    <3> QED BY <1>5, <1>11, <3>1
  <2>3. CASE k < j
    <3>1. M[k] = L[k] /\ k # j
      BY <1>13, <1>14, <2>1, <2>3
    <3> QED BY <2>1, <2>2, <2>3, <3>1
  <2>4. CASE ~(k < j)
    <3>1. M[k] = L[k + 1] /\ k + 1 # j
      BY <1>13, <1>14, <2>1, <2>4
    <3> QED BY <2>1, <2>2, <2>4, <3>1
  <2> QED BY <2>3, <2>4
<1>16. F = [k \in 1 .. Len(E) - 1 |-> IF k < j THEN E[k] ELSE E[k + 1]]
  <2>1. Len(E) - 1 = m
    BY <1>11, <1>14
  <2> QED BY <1>12, <1>15, <2>1, Zenon
<1>17. j \in 1 .. Len(E)
  BY <1>11
<1>18. F = Abstract!RemoveAt(E, j)
  BY <1>11, <1>16, <1>17, RemoveAtIs
<1>19. Abstract!Delete(E, F)
  BY <1>3, <1>17, <1>18 DEF Abstract!Delete, E
<1> QED BY <1>1, <1>9, <1>10, <1>19, ReturnsIs DEF AbsNext

\* A call that synchronises: the newest at dst takes the times and the phase of the
\* newest at src, and keeps its place and its shape.
LEMMA SyncSteps ==
    ASSUME BlinkInv, ListFollows', NEW src, NEW dst, mp1_ioctl_sync(src, dst)
    PROVE  AbsNext(AbsEntries, AbsEntries', AbsAnswer')
<1> DEFINE f == mp1_find_helper(src)
           to == mp1_find_helper(dst)
           x == [blink_array[to] EXCEPT !.on_length = blink_array[f].on_length,
                                        !.off_length = blink_array[f].off_length,
                                        !.countdown = blink_array[f].countdown,
                                        !.status = blink_array[f].status]
<1>1. PICK n, L : Chain(L, n, blink_array, mp1_list_head)
  BY DEF BlinkInv
<1> DEFINE E == EntriesOf(L, n, blink_array)
<1>2. f # NULL /\ to # NULL
  BY DEF mp1_ioctl_sync
<1>3. PICK p \in 1 .. n : f = L[p] /\ Abstract!Newest(E, p)
  BY <1>1, <1>2, FindsNewest
<1>4. PICK q \in 1 .. n : to = L[q] /\ Abstract!Newest(E, q)
  BY <1>1, <1>2, FindsNewest
<1>5. /\ blink_array \in [Slots -> Structures] /\ n \in Nat /\ L \in [1 .. n -> Slots]
      /\ f \in Slots /\ to \in Slots
  BY <1>1, <1>3, <1>4 DEF BlinkInv, Chain
<1>6. /\ blink_array' = [blink_array EXCEPT ![to] = x]
      /\ mp1_list_head' = mp1_list_head
      /\ Returns(0)
  BY <1>5, Zenon DEF mp1_ioctl_sync
<1> HIDE DEF f, to
<1>7. blink_array[to] \in Structures /\ blink_array[f] \in Structures
  BY <1>5
<1>8. /\ x \in Structures /\ x.location = blink_array[to].location
      /\ x.next = blink_array[to].next /\ x.on_char = blink_array[to].on_char
      /\ x.off_char = blink_array[to].off_char
      /\ x.on_length = blink_array[f].on_length /\ x.off_length = blink_array[f].off_length
      /\ x.countdown = blink_array[f].countdown /\ x.status = blink_array[f].status
  BY <1>7 DEF Structures
<1> HIDE DEF x
<1> DEFINE arr == [blink_array EXCEPT ![to] = x]
           F == EntriesOf(L, n, arr)
<1>9. /\ arr \in [Slots -> Structures] /\ arr[to] = x
      /\ \A s \in Slots : s # to => arr[s] = blink_array[s]
  BY <1>5, <1>8
<1>10. Chain(L, n, blink_array', mp1_list_head')
  <2>1. \A s \in Slots : /\ arr[s].location = blink_array[s].location
                         /\ arr[s].next = blink_array[s].next
    BY <1>8, <1>9
  <2> HIDE DEF arr
  <2>2. Chain(L, n, arr, mp1_list_head)
    BY <1>1, <2>1, SameLinks
  <2> QED BY <1>6, <2>2 DEF arr
<1>11. AbsEntries = E /\ AbsEntries' = F
  BY <1>1, <1>6, <1>10, AbsIs, AbsNextIs
<1> DEFINE Es == Abstract!Entries
<1>12. /\ E \in [1 .. n -> Es] /\ Len(E) = n
       /\ \A k \in 1 .. n : E[k] = EntryOf(blink_array[L[k]])
  BY <1>5, EntriesTyped
<1> HIDE DEF arr
<1>13. F = [k \in 1 .. n |-> EntryOf(arr[L[k]])]
  BY DEF EntriesOf
<1>14. ASSUME NEW k \in 1 .. n, k # q PROVE EntryOf(arr[L[k]]) = E[k]
  <2>1. L[k] \in Slots /\ L[k] # to
    BY <1>1, <1>4, <1>5, <1>14 DEF Chain, Distinct
  <2> QED BY <1>9, <1>12, <2>1
<1>15. E[p] = EntryOf(blink_array[f]) /\ E[q] = EntryOf(blink_array[to])
  BY <1>3, <1>4, <1>12
<1>16. EntryOf(arr[L[q]]) = EntryOf(x)
  BY <1>4, <1>9
<1> DEFINE g == E[p]
           h == E[q]
<1>17. /\ g = [location |-> blink_array[f].location,
               shape |-> <<blink_array[f].on_char, blink_array[f].off_char>>,
               on |-> Period(x.on_length), off |-> Period(x.off_length),
               lit |-> Lit(x), left |-> Period(x.countdown)]
       /\ EntryOf(x) = [location |-> h.location, shape |-> h.shape,
               on |-> Period(x.on_length), off |-> Period(x.off_length),
               lit |-> Lit(x), left |-> Period(x.countdown)]
  <2>1. Lit(x) = Lit(blink_array[f])
    BY <1>8, Zenon DEF Lit
  <2>2. h.location = x.location /\ h.shape = <<x.on_char, x.off_char>>
    BY <1>7, <1>8, <1>15, EntryTyped
  <2> HIDE DEF g, h
  <2>3. EntryOf(x) = [location |-> h.location, shape |-> h.shape,
               on |-> Period(x.on_length), off |-> Period(x.off_length),
               lit |-> Lit(x), left |-> Period(x.countdown)]
    BY <2>2, Zenon DEF EntryOf
  <2>4. g = [location |-> blink_array[f].location,
               shape |-> <<blink_array[f].on_char, blink_array[f].off_char>>,
               on |-> Period(x.on_length), off |-> Period(x.off_length),
               lit |-> Lit(x), left |-> Period(x.countdown)]
    BY <1>8, <1>15, <2>1, Zenon DEF EntryOf, g
  <2> QED BY <2>3, <2>4
<1>18. [g EXCEPT !.location = h.location, !.shape = h.shape] = EntryOf(x)
  <2> DEFINE lit == Lit(x)
             loc == h.location
             sh == h.shape
             a == [g EXCEPT !.location = loc]
             on == Period(x.on_length)
             off == Period(x.off_length)
             left == Period(x.countdown)
             l0 == blink_array[f].location
             s0 == <<blink_array[f].on_char, blink_array[f].off_char>>
  <2>1. /\ g = [location |-> l0, shape |-> s0, on |-> on, off |-> off, lit |-> lit, left |-> left]
        /\ EntryOf(x) = [location |-> loc, shape |-> sh, on |-> on, off |-> off,
                         lit |-> lit, left |-> left]
    BY <1>17
  <2>2. [g EXCEPT !.location = h.location, !.shape = h.shape] = [a EXCEPT !.shape = sh]
    BY Zenon
  <2> HIDE DEF lit, loc, sh, on, off, left, l0, s0, g, h
  <2>3. a = [location |-> loc, shape |-> s0, on |-> on, off |-> off, lit |-> lit, left |-> left]
    BY <2>1
  <2> HIDE DEF a
  <2>4. [a EXCEPT !.shape = sh] = [location |-> loc, shape |-> sh, on |-> on, off |-> off,
                                   lit |-> lit, left |-> left]
    BY <2>3
  <2> QED BY <2>1, <2>2, <2>4, Zenon
<1> DEFINE v == [E[p] EXCEPT !.location = E[q].location, !.shape = E[q].shape]
<1>19. v = EntryOf(x)
  BY <1>18
<1> HIDE DEF E, F, v, g, h, Es
<1>20. F = [E EXCEPT ![q] = v]
  BY <1>12, <1>13, <1>14, <1>16, <1>19
<1>21. Abstract!Join(E, F)
  <2>1. p \in 1 .. Len(E) /\ q \in 1 .. Len(E)
    BY <1>12
  <2>2. Abstract!Newest(E, p) /\ Abstract!Newest(E, q)
    BY <1>3, <1>4 DEF E
  <2>3. F = [E EXCEPT ![q] = [E[p] EXCEPT !.location = E[q].location, !.shape = E[q].shape]]
    BY <1>20 DEF v
  <2> QED BY <2>1, <2>2, <2>3, Zenon DEF Abstract!Join
<1> QED BY <1>6, <1>11, <1>21, ReturnsIs DEF AbsNext

LEMMA CallsStep ==
    ASSUME BlinkInv, ListFollows'
    PROVE  LET step == AbsNext(AbsEntries, AbsEntries', AbsAnswer') IN
           /\ Fails => step
           /\ \A b \in Inputs : mp1_ioctl_add(b) \/ AddFail(b) => step
           /\ \A loc : mp1_ioctl_remove(loc) \/ RemoveFail(loc) => step
           /\ \A loc : mp1_ioctl_find(loc) \/ FindFail(loc) => step
           /\ \A src, dst : mp1_ioctl_sync(src, dst) \/ SyncFail(src, dst) => step
           /\ mp1_rtc_tasklet => step
<1> DEFINE step == AbsNext(AbsEntries, AbsEntries', AbsAnswer')
<1>1. (Fails => step) /\ \A loc : mp1_ioctl_find(loc) => step
  BY LookSteps
<1>2. \A b \in Inputs : mp1_ioctl_add(b) => step
  BY AddSteps
<1>3. \A loc : mp1_ioctl_remove(loc) => step
  BY RemoveSteps
<1>4. \A src, dst : mp1_ioctl_sync(src, dst) => step
  BY SyncSteps
<1>5. mp1_rtc_tasklet => step
  BY TickSteps
<1> HIDE DEF step
<1>6. /\ \A b : AddFail(b) => step
      /\ \A loc : (RemoveFail(loc) => step) /\ (FindFail(loc) => step)
      /\ \A src, dst : SyncFail(src, dst) => step
  BY <1>1 DEF AddFail, RemoveFail, FindFail, SyncFail
<1>7. /\ \A b \in Inputs : mp1_ioctl_add(b) \/ AddFail(b) => step
      /\ \A loc : mp1_ioctl_remove(loc) \/ RemoveFail(loc) => step
      /\ \A loc : mp1_ioctl_find(loc) \/ FindFail(loc) => step
      /\ \A src, dst : mp1_ioctl_sync(src, dst) \/ SyncFail(src, dst) => step
  BY <1>1, <1>2, <1>3, <1>4, <1>6
<1> QED BY <1>1, <1>5, <1>7 DEF step

LEMMA FishStepsList ==
    ASSUME FishInputs, FishInv, ListFollows', [Next]_vars
    PROVE  \/ AbsNext(AbsEntries, AbsEntries', AbsAnswer')
           \/ AbsEntries' = AbsEntries /\ AbsAnswer' = AbsAnswer
<1> DEFINE step == AbsNext(AbsEntries, AbsEntries', AbsAnswer')
           same == AbsEntries' = AbsEntries /\ AbsAnswer' = AbsAnswer
<1>1. BlinkInv /\ ReaderInv
  BY DEF FishInv
<1>2. UNCHANGED blink => same
  <2> SUFFICES ASSUME UNCHANGED blink PROVE same
    OBVIOUS
  <2>1. UNCHANGED <<blink_array, mp1_list_head, result>>
    BY DEF blink
  <2>2. PICK n, L : Chain(L, n, blink_array, mp1_list_head)
    BY <1>1 DEF BlinkInv
  <2>3. Chain(L, n, blink_array', mp1_list_head')
    BY <2>1, <2>2
  <2>4. AbsEntries = EntriesOf(L, n, blink_array) /\ AbsEntries' = EntriesOf(L, n, blink_array')
    BY <2>2, <2>3, AbsIs, AbsNextIs
  <2>5. AbsAnswer' = AbsAnswer
    BY <2>1 DEF AbsAnswer
  <2> QED BY <2>1, <2>4, <2>5
<1>3. /\ \A b \in Inputs : mp1_ioctl_add(b) \/ AddFail(b) => step
      /\ \A loc : mp1_ioctl_remove(loc) \/ RemoveFail(loc) => step
      /\ \A loc : mp1_ioctl_find(loc) \/ FindFail(loc) => step
      /\ \A src, dst : mp1_ioctl_sync(src, dst) \/ SyncFail(src, dst) => step
      /\ mp1_rtc_tasklet => step
  BY <1>1, CallsStep
<1> HIDE DEF step, same
<1>4. CASE UNCHANGED vars
  BY <1>2, <1>4 DEF vars, step, same
<1>5. CASE FramesMissing \/ FrameRow \/ MainEnd
  BY <1>2, <1>5 DEF FramesMissing, FrameRow, MainEnd, step, same
<1>6. CASE FrameCell
  <2>1. ReadBoth
    BY <1>6 DEF FrameCell
  <2>2. FrameBlinker \in Inputs
    BY <1>1, <2>1, FrameBlinkerTyped
  <2>3. UNCHANGED blink \/ mp1_ioctl_add(FrameBlinker) \/ AddFail(FrameBlinker)
    BY <1>6 DEF FrameCell
  <2> QED BY <1>2, <1>3, <2>2, <2>3 DEF step, same
<1>7. CASE Waits
  <2>1. mp1_rtc_tasklet
    BY <1>7 DEF Waits, Wait
  <2> QED BY <1>3, <2>1 DEF step
<1>8. CASE MainAdd
  <2>1. Extra \in Inputs /\ (mp1_ioctl_add(Extra) \/ AddFail(Extra))
    BY <1>8 DEF MainAdd, FishInputs
  <2> QED BY <1>3, <2>1 DEF step
<1>9. CASE MainSync
  <2>1. mp1_ioctl_sync(OFFSET, Extra.location) \/ SyncFail(OFFSET, Extra.location)
    BY <1>9 DEF MainSync
  <2> QED BY <1>3, <2>1 DEF step
<1>10. CASE MainRemove
  <2>1. mp1_ioctl_remove(i) \/ RemoveFail(i)
    BY <1>10 DEF MainRemove
  <2> QED BY <1>3, <2>1 DEF step
<1>11. CASE AnyStep
  <2>1. \A b \in Blinkers : b \in Inputs
    BY DEF FishInputs
  <2>2. step
    BY <1>3, <1>11, <2>1 DEF AnyStep
  <2> QED BY <2>2 DEF step
<1> QED BY <1>4, <1>5, <1>6, <1>7, <1>8, <1>9, <1>10, <1>11 DEF Next, MainStep

\* The array of structures, the links and the 16-bit countdowns behave as a list
\* of blinking characters, newest first, each shown for the times it was given:
\* whatever the demo and any other client call, at locations other than 0, a find
\* returns the newest character at the location, a removal takes out that one and
\* no other, a sync joins two phases, and a tick ages every character by one.
THEOREM ImplementsList ==
    ASSUME FishInputs
    PROVE  Spec => ImplementsBlinkList
<1>1. Init => Abstract!ListInit
  <2> SUFFICES ASSUME Init PROVE Abstract!ListInit
    OBVIOUS
  <2>1. /\ \A s \in Slots : blink_array[s] = Zero
        /\ mp1_list_head = NULL /\ result = [val |-> 0, data |-> Zero]
    BY DEF Init, BlinkInit
  <2> DEFINE L == [k \in 1 .. 0 |-> 1]
  <2>2. L \in [1 .. 0 -> Slots] /\ 0 \in Nat /\ (\A k : k \notin 1 .. 0) /\ L = <<>>
    OBVIOUS
  <2> HIDE DEF L
  <2>3. Distinct(L, 0) /\ Links(L, 0, blink_array)
    BY <2>1, <2>2, SizesFacts DEF Distinct, Links
  <2>4. Chain(L, 0, blink_array, mp1_list_head)
    BY <2>1, <2>2, <2>3 DEF Chain
  <2>5. AbsEntries = [k \in 1 .. 0 |-> EntryOf(blink_array[L[k]])]
    BY <2>4, AbsIs DEF EntriesOf
  <2>6. AbsEntries = <<>>
    BY <2>5
  <2>7. AbsAnswer = [val |-> 0, data |-> <<>>]
    BY <2>1 DEF AbsAnswer
  <2> QED BY <2>6, <2>7, Zenon DEF Abstract!ListInit, Abstract!Ok, AbsEntries, AbsAnswer
<1>2. FishInv /\ ListFollows' /\ [Next]_vars => [Abstract!ListNext]_(Abstract!list)
  <2> SUFFICES ASSUME FishInv, ListFollows', [Next]_vars
               PROVE  [Abstract!ListNext]_(Abstract!list)
    OBVIOUS
  <2>1. \/ AbsNext(AbsEntries, AbsEntries', AbsAnswer')
        \/ AbsEntries' = AbsEntries /\ AbsAnswer' = AbsAnswer
    BY FishStepsList
  <2>2. CASE AbsNext(AbsEntries, AbsEntries', AbsAnswer')
    <3>1. Abstract!ListNext
      BY <2>2, Zenon DEF AbsNext, Abstract!ListNext, AbsEntries, AbsAnswer
    <3> QED BY <3>1
  <2>3. CASE AbsEntries' = AbsEntries /\ AbsAnswer' = AbsAnswer
    BY <2>3, Zenon DEF Abstract!list, AbsEntries, AbsAnswer
  <2> QED BY <2>1, <2>2, <2>3
<1>3. ListFollows
  BY AlwaysFollows
<1> QED BY <1>1, <1>2, <1>3, FishAlways, PTL DEF Spec, ImplementsBlinkList, Abstract!ListSpec

-----------------------------------------------------------------------------
(* Where the characters of a frame belong.                                  *)

\* The row of the n-th character and its place in the row, from 0.
RowOf(text, n) == Cardinality(Breaks(text, n))
InRow(text, n) == n - 1 - Max({0} \cup Breaks(text, n))

\* What a frame needs to fit: no row is longer than a row of the screen; the
\* 16-bit length of its characters has no sign bit.
Narrow(text) == \A n \in 1 .. Len(text) + 1 : InRow(text, n) <= COLS
FramesFit ==
    /\ \A text \in Texts \ {NoFile} : Narrow(text)
    /\ FRAME_LEN <= WORD \div 2

\* The greatest element, when it is known.
LEMMA GreatestOf ==
    ASSUME NEW n \in Nat, NEW W, W \subseteq 0 .. n, NEW g \in W, \A k \in W : g >= k
    PROVE  Max(W) = g
<1>1. \E x \in W : \A y \in W : x >= y
  OBVIOUS
<1>2. Max(W) \in W /\ \A y \in W : Max(W) >= y
  BY <1>1 DEF Max
<1> DEFINE m == Max(W)
<1>3. m \in W /\ m >= g
  BY <1>2
<1> HIDE DEF m
<1>4. g >= m /\ m \in Nat /\ g \in Nat
  BY <1>3
<1>5. m = g
  BY <1>3, <1>4
<1> QED BY <1>5 DEF m

\* The last line break before the n-th character.
LEMMA BreakBefore ==
    ASSUME NEW n \in Nat, NEW text
    PROVE  LET W == {0} \cup Breaks(text, n + 1) IN
           /\ IsFiniteSet(Breaks(text, n + 1)) /\ RowOf(text, n + 1) \in Nat
           /\ Max(W) \in W /\ W \subseteq 0 .. n /\ \A k \in W : Max(W) >= k
<1> DEFINE B == Breaks(text, n + 1)
           W == {0} \cup B
           U == {k + 1 : k \in W}
<1>1. B \subseteq 1 .. n /\ W \subseteq 0 .. n
  BY DEF Breaks
<1>2. IsFiniteSet(B) /\ Cardinality(B) \in Nat
  <2>1. 1 \in Int /\ n \in Int
    OBVIOUS
  <2>2. IsFiniteSet(1 .. n)
    BY <2>1, FS_Interval
  <2>3. IsFiniteSet(B)
    BY <1>1, <2>2, FS_Subset
  <2> QED BY <2>3, FS_CardinalityType
<1>3. U \subseteq 1 .. n + 1 /\ U # {} /\ n + 1 \in Nat
  BY <1>1
<1>4. \E g \in W : \A k \in W : g >= k
  <2> DEFINE T == {n - k : k \in W}
  <2>1. T \subseteq Nat /\ T # {}
    BY <1>1
  <2>2. PICK x \in T : \A y \in T : x <= y
    <3> HIDE DEF T
    <3> QED BY <2>1, LeastNumber
  <2>3. PICK g \in W : x = n - g
    OBVIOUS
  <2>4. ASSUME NEW k \in W PROVE g >= k
    <3>1. n - k \in T
      OBVIOUS
    <3>2. n - g <= n - k
      BY <2>2, <2>3, <3>1
    <3>3. g \in Nat /\ k \in Nat
      BY <1>1
    <3> QED BY <3>2, <3>3
  <2> QED BY <2>4
<1>5. Max(W) \in W /\ \A k \in W : Max(W) >= k
  <2> HIDE DEF W
  <2> QED BY <1>4 DEF Max
<1> QED BY <1>1, <1>2, <1>5 DEF RowOf

\* The first character starts the first row.
LEMMA RowStarts ==
    ASSUME NEW text
    PROVE  RowOf(text, 1) = 0 /\ InRow(text, 1) = 0
<1>1. Breaks(text, 1) = {}
  BY DEF Breaks
<1>2. Cardinality({}) = 0
  BY FS_EmptySet
<1>3. {0} \subseteq 0 .. 0 /\ 0 \in {0} /\ 0 \in Nat /\ \A k \in {0} : 0 >= k
  OBVIOUS
<1>4. Max({0}) = 0
  BY <1>3, GreatestOf
<1>5. {0} \cup Breaks(text, 1) = {0}
  BY <1>1
<1> QED BY <1>1, <1>2, <1>4, <1>5 DEF RowOf, InRow

\* A line break ends its row, another character moves on in it.
LEMMA RowStep ==
    ASSUME NEW text, NEW n \in Nat \ {0}
    PROVE  /\ RowOf(text, n) \in Nat /\ InRow(text, n) \in Nat
           /\ text[n] = NL => RowOf(text, n + 1) = RowOf(text, n) + 1 /\ InRow(text, n + 1) = 0
           /\ text[n] # NL =>
                RowOf(text, n + 1) = RowOf(text, n) /\ InRow(text, n + 1) = InRow(text, n) + 1
<1> DEFINE B == Breaks(text, n)
           C == Breaks(text, n + 1)
           W == {0} \cup B
           V == {0} \cup C
<1>1. n - 1 \in Nat /\ (n - 1) + 1 = n
  OBVIOUS
<1>2. /\ IsFiniteSet(B) /\ RowOf(text, n) \in Nat
      /\ Max(W) \in W /\ W \subseteq 0 .. n - 1 /\ \A k \in W : Max(W) >= k
  BY <1>1, BreakBefore
<1>3. InRow(text, n) = n - 1 - Max(W) /\ Max(W) \in 0 .. n - 1
  BY <1>2 DEF InRow
<1>4. InRow(text, n) \in Nat
  BY <1>3
<1>5. ASSUME text[n] = NL
      PROVE  RowOf(text, n + 1) = RowOf(text, n) + 1 /\ InRow(text, n + 1) = 0
  <2>1. C = B \cup {n}
    BY <1>5 DEF Breaks
  <2>2. n \notin B
    BY DEF Breaks
  <2>3. Cardinality(B \cup {n}) = Cardinality(B) + 1
    BY <1>2, <2>2, FS_AddElement
  <2>4. Max(V) = n
    <3>1. V \subseteq 0 .. n /\ n \in V /\ \A k \in V : n >= k
      BY <1>2, <2>1
    <3> QED BY <3>1, GreatestOf
  <2> QED BY <2>1, <2>3, <2>4 DEF RowOf, InRow
<1>6. ASSUME text[n] # NL
      PROVE  RowOf(text, n + 1) = RowOf(text, n) /\ InRow(text, n + 1) = InRow(text, n) + 1
  <2>1. C = B
    BY <1>6 DEF Breaks
  <2>2. InRow(text, n + 1) = (n + 1) - 1 - Max(W)
    BY <2>1 DEF InRow
  <2> QED BY <1>3, <2>1, <2>2 DEF RowOf
<1> QED BY <1>2, <1>4, <1>5, <1>6

\* The cell is the one at that place of that row.
LEMMA CellIs ==
    ASSUME NEW text, NEW n \in Nat \ {0}
    PROVE  /\ CellOf(text, n) = COLS * RowOf(text, n) + OFFSET + InRow(text, n)
           /\ CellOf(text, n) \in Nat /\ CellOf(text, n) >= OFFSET
<1> DEFINE r == COLS * RowOf(text, n)
           m == Max({0} \cup Breaks(text, n))
<1>1. RowOf(text, n) \in Nat /\ InRow(text, n) \in Nat /\ COLS \in Nat /\ OFFSET \in Nat
  BY RowStep, FishAssumption
<1>2. r \in Nat
  BY <1>1
<1>3. n - 1 \in Nat /\ (n - 1) + 1 = n
  OBVIOUS
<1>4. m \in Nat
  <2> DEFINE W == {0} \cup Breaks(text, n)
  <2>1. Max(W) \in W /\ W \subseteq 0 .. n - 1
    BY <1>3, BreakBefore
  <2> QED BY <2>1
<1>5. CellOf(text, n) = r + OFFSET + n - 1 - m /\ InRow(text, n) = n - 1 - m
  BY DEF CellOf, InRow, RowOf
<1> HIDE DEF r, m
<1>6. CellOf(text, n) = r + OFFSET + InRow(text, n)
  BY <1>1, <1>2, <1>4, <1>5
<1> QED BY <1>1, <1>2, <1>6 DEF r

\* In a narrow text every character has a cell behind those of the ones before.
LEMMA CellsGrow ==
    ASSUME NEW text \in Seq(Nat), Narrow(text), NEW n \in 1 .. Len(text) + 1,
           NEW m \in n .. Len(text) + 1
    PROVE  /\ CellOf(text, n) <= CellOf(text, m)
           /\ n < m /\ text[n] # NL => CellOf(text, n) < CellOf(text, m)
<1>0. Len(text) \in Nat /\ COLS \in Nat /\ OFFSET \in Nat
  BY FishAssumption
<1>1. ASSUME NEW k \in 1 .. Len(text)
      PROVE  /\ CellOf(text, k) <= CellOf(text, k + 1)
             /\ text[k] # NL => CellOf(text, k) < CellOf(text, k + 1)
             /\ CellOf(text, k) \in Nat /\ CellOf(text, k + 1) \in Nat
  <2> DEFINE a == RowOf(text, k)
             x == InRow(text, k)
  <2>1. k \in Nat \ {0} /\ k + 1 \in Nat \ {0} /\ k \in 1 .. Len(text) + 1
    BY <1>0
  <2>2. /\ a \in Nat /\ x \in Nat
        /\ text[k] = NL => RowOf(text, k + 1) = a + 1 /\ InRow(text, k + 1) = 0
        /\ text[k] # NL => RowOf(text, k + 1) = a /\ InRow(text, k + 1) = x + 1
    BY <2>1, RowStep
  <2>3. /\ CellOf(text, k) = COLS * a + OFFSET + x
        /\ CellOf(text, k + 1) = COLS * RowOf(text, k + 1) + OFFSET + InRow(text, k + 1)
        /\ CellOf(text, k) \in Nat /\ CellOf(text, k + 1) \in Nat
    BY <2>1, CellIs
  <2>4. x <= COLS
    BY <2>1 DEF Narrow
  <2> HIDE DEF a, x
  <2>5. COLS * a \in Nat /\ COLS * (a + 1) = COLS * a + COLS
    BY <1>0, <2>2
  <2>6. CASE text[k] = NL
    BY <1>0, <2>2, <2>3, <2>4, <2>5, <2>6
  <2>7. CASE text[k] # NL
    <3>1. CellOf(text, k + 1) = COLS * a + OFFSET + (x + 1)
      BY <2>2, <2>3, <2>7
    <3> DEFINE z == COLS * a
    <3>2. z \in Nat /\ CellOf(text, k) = z + OFFSET + x /\ CellOf(text, k + 1) = z + OFFSET + (x + 1)
      BY <2>3, <2>5, <3>1
    <3> HIDE DEF z
    <3>3. CellOf(text, k) < CellOf(text, k + 1)
      BY <1>0, <2>2, <3>2
    <3> QED BY <2>3, <2>7, <3>3
  <2> QED BY <2>3, <2>6, <2>7
<1> DEFINE l == Len(text) + 1 - n
           S == {d \in 0 .. l : /\ CellOf(text, n) <= CellOf(text, n + d)
                                /\ d > 0 /\ text[n] # NL => CellOf(text, n) < CellOf(text, n + d)}
<1>2. l \in Nat /\ n \in Nat \ {0}
  BY <1>0
<1>3. 0 \in S
  <2>1. CellOf(text, n) \in Nat /\ n + 0 = n
    BY <1>2, CellIs
  <2>2. CellOf(text, n) <= CellOf(text, n + 0)
    BY <2>1
  <2> QED BY <1>2, <2>2
<1>4. ASSUME NEW d \in 0 .. l - 1, d \in S PROVE d + 1 \in S
  <2>1. n + d \in 1 .. Len(text) /\ n + (d + 1) = (n + d) + 1 /\ d + 1 \in 0 .. l /\ d \in 0 .. l
    BY <1>0, <1>2
  <2>2. /\ CellOf(text, n + d) <= CellOf(text, n + (d + 1))
        /\ text[n + d] # NL => CellOf(text, n + d) < CellOf(text, n + (d + 1))
        /\ CellOf(text, n + d) \in Nat /\ CellOf(text, n + (d + 1)) \in Nat
    BY <1>1, <2>1
  <2>3. CellOf(text, n) \in Nat
    BY <1>2, CellIs
  <2>4. /\ CellOf(text, n) <= CellOf(text, n + d)
        /\ d > 0 /\ text[n] # NL => CellOf(text, n) < CellOf(text, n + d)
    BY <1>4
  <2>5. d = 0 => n + d = n
    BY <1>2
  <2>6. CellOf(text, n) <= CellOf(text, n + (d + 1))
    BY <2>2, <2>3, <2>4
  <2>7. text[n] # NL => CellOf(text, n) < CellOf(text, n + (d + 1))
    BY <2>1, <2>2, <2>3, <2>4, <2>5
  <2> QED BY <2>1, <2>6, <2>7
<1>5. 0 .. l \subseteq S
  <2> HIDE DEF S, l
  <2> QED BY <1>2, <1>3, <1>4, SegmentInduction
<1>6. m - n \in 0 .. l /\ n + (m - n) = m /\ (n < m => m - n > 0)
  BY <1>0, <1>2
<1>7. m - n \in S
  BY <1>5, <1>6
<1> QED BY <1>6, <1>7

-----------------------------------------------------------------------------
(* How far the files are read.                                              *)

CellAt(r, q) == r * COLS + q + OFFSET

\* The next character of a text that goes on is the one of this cell; a row that
\* has ended waits for the other frame's.  What has been read lies before this cell.
PlaceIn(text, p, char, end, r, q) ==
    /\ p \in 0 .. Len(text)
    /\ char # NL => ~end /\ RowOf(text, p + 1) = r /\ InRow(text, p + 1) = q
    /\ char = NL /\ ~end => RowOf(text, p + 1) = r + 1 /\ InRow(text, p + 1) = 0
    /\ end => char = NL /\ p = Len(text)
    /\ \A n \in 1 .. p : text[n] # NL => CellOf(text, n) < CellAt(r, q)

Placed(k) ==
    /\ frame[k] \in Seq(Nat) /\ Narrow(frame[k])
    /\ PlaceIn(frame[k], pos[k], c[k], eof[k], row, col)

\* The cell at a place of a row.
LEMMA CellAtIs ==
    ASSUME NEW r \in Nat, NEW q \in Nat
    PROVE  /\ CellAt(r, q) \in Nat /\ CellAt(r, q + 1) = CellAt(r, q) + 1
           /\ CellAt(r, q) = COLS * r + OFFSET + q
           /\ CellAt(r + 1, 0) = CellAt(r, 0) + COLS /\ CellAt(r, q) = CellAt(r, 0) + q
<1> DEFINE z == r * COLS
<1>1. COLS \in Nat /\ OFFSET \in Nat
  BY FishAssumption
<1>2. z \in Nat /\ COLS * r = z /\ (r + 1) * COLS = z + COLS
  BY <1>1
<1> HIDE DEF z
<1>3. CellAt(r, q) = z + q + OFFSET /\ CellAt(r, q + 1) = z + (q + 1) + OFFSET
      /\ CellAt(r + 1, 0) = (z + COLS) + 0 + OFFSET /\ CellAt(r, 0) = z + 0 + OFFSET
  BY <1>2 DEF CellAt, z
<1> QED BY <1>1, <1>2, <1>3

\* A round of the reading loop.
LEMMA ReadsOn ==
    ASSUME NEW k \in K, Placed(k), row \in Nat, col \in Nat, ReadBoth
    PROVE  LET text == frame[k]
               p == pos[k] + 1
               q == pos'[k] IN
           /\ q \in 0 .. Len(text)
           /\ NewChar(k) # NL => /\ ~eof'[k] /\ q = p /\ p \in 1 .. Len(text)
                                 /\ text[p] = NewChar(k) /\ CellOf(text, p) = CellAt(row, col)
                                 /\ RowOf(text, q + 1) = row /\ InRow(text, q + 1) = col + 1
           /\ NewChar(k) = NL /\ ~eof'[k] =>
                RowOf(text, q + 1) = row + 1 /\ InRow(text, q + 1) = 0
           /\ eof'[k] => NewChar(k) = NL /\ q = Len(text)
           /\ \A n \in 1 .. q : text[n] # NL =>
                CellOf(text, n) < CellAt(row, col) \/ (NewChar(k) # NL /\ n = p)
<1> DEFINE text == frame[k]
           p == pos[k] + 1
           q == pos'[k]
<1>1. /\ text \in Seq(Nat) /\ Len(text) \in Nat /\ pos[k] \in 0 .. Len(text)
      /\ PlaceIn(text, pos[k], c[k], eof[k], row, col)
  BY DEF Placed, PlaceIn
<1>2. /\ q = IF Rest(k) /\ ~AtEnd(k) THEN p ELSE pos[k]
      /\ eof'[k] = (eof[k] \/ AtEnd(k))
      /\ NewChar(k) = IF Rest(k) /\ ~AtEnd(k) THEN text[p] ELSE NL
  BY DEF ReadBoth, NewChar
<1>3. AtEnd(k) <=> Rest(k) /\ pos[k] = Len(text)
  BY DEF AtEnd
<1>4. Rest(k) <=> c[k] # NL
  BY DEF Rest
<1> HIDE DEF q, text
<1>5. CASE Rest(k) /\ ~AtEnd(k)
  <2>1. /\ q = p /\ NewChar(k) = text[p] /\ ~eof[k] /\ p \in 1 .. Len(text) /\ p \in Nat \ {0}
        /\ RowOf(text, p) = row /\ InRow(text, p) = col
    BY <1>1, <1>2, <1>3, <1>4, <1>5 DEF PlaceIn
  <2>2. ~eof'[k]
    BY <1>2, <1>5, <2>1
  <2>3. CellOf(text, p) = CellAt(row, col)
    <3>1. CellOf(text, p) = COLS * RowOf(text, p) + OFFSET + InRow(text, p)
      BY <2>1, CellIs
    <3>2. CellAt(row, col) = COLS * row + OFFSET + col
      BY CellAtIs
    <3> QED BY <2>1, <3>1, <3>2
  <2>4. /\ text[p] = NL => RowOf(text, p + 1) = row + 1 /\ InRow(text, p + 1) = 0
        /\ text[p] # NL => RowOf(text, p + 1) = row /\ InRow(text, p + 1) = col + 1
    BY <2>1, RowStep
  <2>5. ASSUME NEW n \in 1 .. q, text[n] # NL
        PROVE  CellOf(text, n) < CellAt(row, col) \/ (NewChar(k) # NL /\ n = p)
    <3>1. CASE n = p
      BY <2>1, <2>5, <3>1
    <3>2. CASE n # p
      <4>1. n \in 1 .. pos[k]
        BY <1>1, <2>1, <3>2
      <4> QED BY <1>1, <2>5, <4>1 DEF PlaceIn
    <3> QED BY <3>1, <3>2
  <2>6. q \in 0 .. Len(text)
    BY <1>1, <2>1
  <2> HIDE DEF p
  <2> QED BY <2>1, <2>2, <2>3, <2>4, <2>5, <2>6 DEF text, p, q
<1>6. CASE ~(Rest(k) /\ ~AtEnd(k))
  <2>1. NewChar(k) = NL /\ q = pos[k] /\ q \in 0 .. Len(text)
    BY <1>1, <1>2, <1>6
  <2>2. eof'[k] => q = Len(text)
    BY <1>1, <1>2, <1>3, <2>1 DEF PlaceIn
  <2>3. ~eof'[k] => RowOf(text, q + 1) = row + 1 /\ InRow(text, q + 1) = 0
    BY <1>1, <1>2, <1>4, <1>6, <2>1 DEF PlaceIn
  <2>4. \A n \in 1 .. q : text[n] # NL => CellOf(text, n) < CellAt(row, col)
    BY <1>1, <2>1 DEF PlaceIn
  <2> QED BY <2>1, <2>2, <2>3, <2>4 DEF text, q
<1> QED BY <1>5, <1>6

\* The character that is read is the picture's.
LEMMA ReadsPicture ==
    ASSUME NEW k \in K, Placed(k), row \in Nat, col \in Nat, ReadBoth, NewChar(k) # NL
    PROVE  Picture(k, CellAt(row, col)) = NewChar(k) /\ col < COLS
<1> DEFINE text == frame[k]
           p == pos[k] + 1
           x == CellAt(row, col)
           at == {n \in 1 .. Len(text) : text[n] # NL /\ CellOf(text, n) = x}
<1>1. /\ p \in 1 .. Len(text) /\ text[p] = NewChar(k) /\ CellOf(text, p) = x
      /\ InRow(text, p + 1) = col + 1
  BY ReadsOn
<1>2. text \in Seq(Nat) /\ Narrow(text) /\ Len(text) \in Nat
  BY DEF Placed
<1> HIDE DEF text, p, x
<1>3. ASSUME NEW n \in 1 .. Len(text), text[n] # NL, CellOf(text, n) = x PROVE n = p
  <2>1. n \in 1 .. Len(text) + 1 /\ p \in 1 .. Len(text) + 1 /\ CellOf(text, p) \in Nat
    BY <1>1, <1>2, CellIs
  <2>2. CASE n < p
    <3>1. p \in n .. Len(text) + 1
      BY <1>1, <1>2, <2>2
    <3>2. CellOf(text, n) < CellOf(text, p)
      BY <1>2, <1>3, <2>1, <2>2, <3>1, CellsGrow
    <3> QED BY <1>1, <1>3, <2>1, <3>2
  <2>3. CASE p < n
    <3>1. n \in p .. Len(text) + 1
      BY <1>1, <1>2, <2>3
    <3>2. CellOf(text, p) < CellOf(text, n)
      BY <1>1, <1>2, <2>1, <2>3, <3>1, CellsGrow
    <3> QED BY <1>1, <1>3, <2>1, <3>2
  <2> QED BY <1>1, <1>2, <2>2, <2>3
<1>4. at = {p}
  BY <1>1, <1>3
<1>5. Min(at) = p
  <2>1. p \in Nat /\ \A y \in {p} : p <= y
    BY <1>1
  <2>2. \E g \in {p} : \A y \in {p} : g <= y
    BY <2>1
  <2>3. Min({p}) \in {p}
    BY <2>2 DEF Min
  <2> QED BY <1>4, <2>3
<1>6. Picture(k, x) = text[p]
  <2>1. Picture(k, x) = IF at = {} THEN BLANK ELSE text[Min(at)]
    BY DEF Picture, text
  <2> HIDE DEF at
  <2> QED BY <1>4, <1>5, <2>1
<1>7. col + 1 <= COLS
  <2>1. p + 1 \in 1 .. Len(text) + 1
    BY <1>1, <1>2
  <2> QED BY <1>1, <1>2, <2>1 DEF Narrow
<1> QED BY <1>1, <1>6, <1>7, FishAssumption DEF x

\* Behind the end of its row a picture is blank.
LEMMA BlankBehind ==
    ASSUME NEW k \in K, Placed(k), row \in Nat, col \in Nat, ReadBoth, NewChar(k) = NL,
           NEW x \in Nat, x >= CellAt(row, col), x < CellAt(row + 1, 0)
    PROVE  Picture(k, x) = BLANK
<1> DEFINE text == frame[k]
           q == pos'[k]
           at == {n \in 1 .. Len(text) : text[n] # NL /\ CellOf(text, n) = x}
<1>1. /\ q \in 0 .. Len(text)
      /\ ~eof'[k] => RowOf(text, q + 1) = row + 1 /\ InRow(text, q + 1) = 0
      /\ eof'[k] => q = Len(text)
      /\ \A n \in 1 .. q : text[n] # NL => CellOf(text, n) < CellAt(row, col)
  BY ReadsOn
<1>2. text \in Seq(Nat) /\ Narrow(text) /\ Len(text) \in Nat
  BY DEF Placed
<1>3. CellAt(row, col) \in Nat /\ CellAt(row + 1, 0) \in Nat
  <2>1. row + 1 \in Nat /\ 0 \in Nat
    OBVIOUS
  <2> QED BY <2>1, CellAtIs
<1> HIDE DEF text, q
<1>4. ASSUME NEW n \in 1 .. Len(text), text[n] # NL PROVE CellOf(text, n) # x
  <2>1. CellOf(text, n) \in Nat
    BY <1>2, CellIs
  <2>2. CASE n <= q
    <3>1. CellOf(text, n) < CellAt(row, col)
      BY <1>1, <1>2, <1>4, <2>2
    <3> QED BY <1>3, <2>1, <3>1
  <2>3. CASE ~(n <= q)
    <3>1. /\ ~eof'[k] /\ q + 1 \in Nat \ {0} /\ q + 1 \in 1 .. Len(text) + 1
          /\ n \in q + 1 .. Len(text) + 1
      BY <1>1, <1>2, <2>3
    <3>2. CellOf(text, q + 1) <= CellOf(text, n)
      BY <1>2, <3>1, CellsGrow
    <3>3. CellOf(text, q + 1) = CellAt(row + 1, 0)
      <4>1. row + 1 \in Nat /\ 0 \in Nat
        OBVIOUS
      <4>2. CellAt(row + 1, 0) = COLS * (row + 1) + OFFSET + 0
        BY <4>1, CellAtIs
      <4> QED BY <1>1, <3>1, <4>2, CellIs
    <3> QED BY <1>3, <2>1, <3>2, <3>3
  <2> QED BY <2>2, <2>3
<1>5. at = {}
  BY <1>4
<1> HIDE DEF at
<1>6. Picture(k, x) = IF at = {} THEN BLANK ELSE text[Min(at)]
  BY DEF Picture, at, text
<1> QED BY <1>5, <1>6

\* After a round that finds a character both texts stand at the next cell.
LEMMA PlacedOn ==
    ASSUME NEW k \in K, Placed(k), row \in Nat, col \in Nat, ReadBoth,
           c'[k] = NewChar(k), row' = row, col' = col + 1
    PROVE  Placed(k)'
<1> DEFINE text == frame[k]
           q == pos'[k]
<1>1. /\ q \in 0 .. Len(text)
      /\ NewChar(k) # NL => /\ ~eof'[k] /\ q = pos[k] + 1
                            /\ CellOf(text, q) = CellAt(row, col)
                            /\ RowOf(text, q + 1) = row /\ InRow(text, q + 1) = col + 1
      /\ NewChar(k) = NL /\ ~eof'[k] => RowOf(text, q + 1) = row + 1 /\ InRow(text, q + 1) = 0
      /\ eof'[k] => NewChar(k) = NL /\ q = Len(text)
      /\ \A n \in 1 .. q : text[n] # NL =>
           CellOf(text, n) < CellAt(row, col) \/ (NewChar(k) # NL /\ n = pos[k] + 1)
  BY ReadsOn
<1>2. frame'[k] = text /\ text \in Seq(Nat) /\ Narrow(text)
  BY DEF Placed, ReadBoth
<1>3. CellAt(row, col) \in Nat /\ CellAt(row, col + 1) = CellAt(row, col) + 1
  BY CellAtIs
<1> HIDE DEF text, q
<1>4. ASSUME NEW n \in 1 .. q, text[n] # NL PROVE CellOf(text, n) < CellAt(row, col + 1)
  <2>1. n \in Nat \ {0}
    BY <1>1
  <2>2. CellOf(text, n) \in Nat
    BY <2>1, CellIs
  <2>3. CellOf(text, n) <= CellAt(row, col)
    BY <1>1, <1>3, <1>4, <2>2
  <2> QED BY <1>3, <2>2, <2>3
<1>5. PlaceIn(text, q, c'[k], eof'[k], row', col')
  BY <1>1, <1>4 DEF PlaceIn
<1> QED BY <1>2, <1>5 DEF Placed, q

\* After the round that ends the row they stand at the next row, or are at their end.
LEMMA PlacedRow ==
    ASSUME NEW k \in K, Placed(k), row \in Nat, col \in Nat, ReadBoth, NewChar(k) = NL,
           c'[k] = IF eof'[k] THEN NL ELSE 48, row' = row + 1, col' = 0,
           CellAt(row, col) <= CellAt(row + 1, 0)
    PROVE  Placed(k)'
<1> DEFINE text == frame[k]
           q == pos'[k]
<1>1. /\ q \in 0 .. Len(text)
      /\ ~eof'[k] => RowOf(text, q + 1) = row + 1 /\ InRow(text, q + 1) = 0
      /\ eof'[k] => q = Len(text)
      /\ \A n \in 1 .. q : text[n] # NL => CellOf(text, n) < CellAt(row, col)
  BY ReadsOn
<1>2. frame'[k] = text /\ text \in Seq(Nat) /\ Narrow(text)
  BY DEF Placed, ReadBoth
<1>3. CellAt(row, col) \in Nat /\ CellAt(row + 1, 0) \in Nat
  <2>1. row + 1 \in Nat /\ 0 \in Nat
    OBVIOUS
  <2> QED BY <2>1, CellAtIs
<1> HIDE DEF text, q
<1>4. ASSUME NEW n \in 1 .. q, text[n] # NL PROVE CellOf(text, n) < CellAt(row + 1, 0)
  <2>1. n \in Nat \ {0}
    BY <1>1
  <2>2. CellOf(text, n) \in Nat /\ CellOf(text, n) < CellAt(row, col)
    BY <1>1, <1>4, <2>1, CellIs
  <2> QED BY <1>3, <2>2
<1>5. PlaceIn(text, q, c'[k], eof'[k], row', col')
  BY <1>1, <1>4 DEF PlaceIn, NL
<1> QED BY <1>2, <1>5 DEF Placed, q

-----------------------------------------------------------------------------
(* What is drawn.                                                           *)

\* A structure blinks with the frames: it holds the two pictures of its cell, and
\* after so many ticks of the waiting loop it shows this one for so long.
InPhase(b, ticks) ==
    /\ b.on_length = FRAME_LEN /\ b.off_length = FRAME_LEN
    /\ b.countdown = FRAME_LEN - (ticks % FRAME_LEN)
    /\ Lit(b) <=> (ticks \div FRAME_LEN) % 2 = 0
ShowsFrames(b, here, ticks) ==
    /\ b.location \in DrawnCells /\ b.location < here
    /\ b.on_char = Picture(0, b.location) /\ b.off_char = Picture(1, b.location)
    /\ InPhase(b, ticks)

\* The cells before this one are drawn, each by a structure of its own.
Drawing(arr, p, v, syn, here, ticks) ==
    /\ \A s \in Slots : arr[s].location # 0 =>
         ShowsFrames(arr[s], here, ticks) /\ p[arr[s].location] = s
    /\ syn = {}
    /\ \A cell \in Cells :
         IF cell \in DrawnCells /\ cell < here THEN p[cell] # NULL
         ELSE p[cell] = NULL /\ v[cell] = BLANK

HasRoom == Cardinality(DrawnCells) <= SLOTS

\* The screen is finite.
LEMMA DrawnCellsFinite ==
    IsFiniteSet(DrawnCells) /\ Cardinality(DrawnCells) \in Nat
<1>1. SCREEN - 1 \in Int /\ 0 \in Int
  BY SizesFacts
<1>2. IsFiniteSet(Cells)
  BY <1>1, FS_Interval DEF Cells
<1>3. DrawnCells \in SUBSET Cells
  BY DEF DrawnCells
<1>4. IsFiniteSet(DrawnCells)
  BY <1>2, <1>3, FS_Subset
<1> QED BY <1>4, FS_CardinalityType

\* There is a structure left for the next cell.
LEMMA RoomLeft ==
    ASSUME BlinkInv, HasRoom, NEW here \in DrawnCells, NEW ticks,
           Drawing(blink_array, painter, video, synced, here, ticks)
    PROVE  mp1_malloc # NULL
<1> DEFINE rest == DrawnCells \ {here}
           at == [s \in Slots |-> blink_array[s].location]
<1>0. here \in Nat /\ DrawnCells \subseteq Nat
  BY SizesFacts DEF DrawnCells
<1>1. ASSUME FreeSlots = {} PROVE FALSE
  <2>1. \A s \in Slots : blink_array[s].location # 0
    BY <1>1 DEF FreeSlots
  <2>2. ASSUME NEW s \in Slots PROVE at[s] \in rest /\ painter[at[s]] = s
    BY <1>0, <2>1 DEF Drawing, ShowsFrames
  <2>3. at \in Injection(Slots, rest)
    <3>1. \A s, t \in Slots : at[s] = at[t] => s = t
      BY <2>2
    <3>2. at \in [Slots -> rest]
      BY <2>2
    <3> QED BY <3>1, <3>2 DEF Injection, IsInjective
  <2>4. IsFiniteSet(rest) /\ Cardinality(rest) = Cardinality(DrawnCells) - 1
    BY DrawnCellsFinite, FS_RemoveElement
  <2>5. Cardinality(Slots) <= Cardinality(rest)
    <3> HIDE DEF rest, at
    <3> QED BY <2>3, <2>4, FS_Injection
  <2> QED BY <2>4, <2>5, SlotsFacts, DrawnCellsFinite DEF HasRoom
<1>2. FreeSlots \subseteq Nat \ {0}
  BY SlotsFacts DEF FreeSlots
<1>3. \E x \in FreeSlots : \A y \in FreeSlots : x <= y
  <2>1. FreeSlots \subseteq Nat
    BY <1>2
  <2> QED BY <1>1, <2>1, LeastNumber
<1>4. Min(FreeSlots) \in FreeSlots
  BY <1>3 DEF Min
<1> QED BY <1>1, <1>2, <1>4 DEF mp1_malloc, NULL

-----------------------------------------------------------------------------
(* Drawing a cell and waiting for a tick.                                   *)

\* A tick brings the phase on.
LEMMA PhaseTicks ==
    ASSUME FramesFit, NEW b \in Structures, NEW ticks \in Nat, InPhase(b, ticks)
    PROVE  InPhase(Ticked(b), ticks + 1)
<1> DEFINE len == FRAME_LEN
           m == ticks % len
           q == ticks \div len
           d == b.countdown
<1>1. /\ len \in Nat \ {0} /\ len <= WORD \div 2 /\ WORD \in Nat \ {0} /\ WORD % 2 = 0
  BY FishAssumption, BlinkAssumption DEF FramesFit
<1>2. q \in Nat /\ m \in 0 .. len - 1
  BY <1>1, Division
<1>3. /\ b.on_length = len /\ b.off_length = len /\ d = len - m /\ (Lit(b) <=> q % 2 = 0)
  BY DEF InPhase
<1>4. /\ m + 1 < len => (ticks + 1) \div len = q /\ (ticks + 1) % len = m + 1
      /\ ~(m + 1 < len) => (ticks + 1) \div len = q + 1 /\ (ticks + 1) % len = 0
  BY <1>1, DivisionNext
<1> HIDE DEF len, m, q, d
<1>5. d - 1 \in 0 .. WORD \div 2 - 1 /\ WORD \div 2 \in Nat /\ WORD \div 2 < WORD /\ d - 1 \in Nat
  BY <1>1, <1>2, <1>3
<1>6. (d - 1) % WORD = d - 1
  <2> DEFINE e == d - 1
             u == e \div WORD
             v == e % WORD
  <2>1. e \in Nat /\ e \in 0 .. WORD - 1
    BY <1>1, <1>5
  <2>2. u \in Nat /\ v \in 0 .. WORD - 1 /\ e = WORD * u + v
    BY <1>1, <2>1, Division
  <2> HIDE DEF e, u, v
  <2>3. WORD * 0 + e = WORD * u + v /\ 0 \in Nat
    BY <1>1, <2>1, <2>2
  <2>4. e = v
    BY <1>1, <2>1, <2>2, <2>3, DivisionUnique
  <2> QED BY <2>4 DEF e, v
<1>7. Expired(b) <=> ~(m + 1 < len)
  <2>1. Expired(b) <=> d - 1 \notin 1 .. WORD \div 2 - 1
    BY <1>6 DEF Expired, d
  <2>2. Expired(b) <=> d - 1 = 0
    <3> DEFINE half == WORD \div 2
               e == d - 1
    <3>1. (Expired(b) <=> e \notin 1 .. half - 1) /\ e \in 0 .. half - 1 /\ half \in Nat
      BY <1>5, <2>1, Zenon
    <3> HIDE DEF half, e
    <3>2. e \in 1 .. half - 1 <=> e # 0
      BY <3>1
    <3>3. Expired(b) <=> e = 0
      BY <3>1, <3>2, Zenon
    <3> QED BY <3>3 DEF e
  <2> QED BY <1>1, <1>2, <1>3, <2>2
<1>8. /\ Ticked(b) \in Structures
      /\ Expired(b) => (Lit(Ticked(b)) <=> ~Lit(b))
      /\ ~Expired(b) => (Lit(Ticked(b)) <=> Lit(b))
  BY TickedIs
<1>9. /\ Ticked(b).on_length = len /\ Ticked(b).off_length = len
      /\ Ticked(b).countdown = IF Expired(b) THEN len ELSE d - 1
  <2>1. CASE Expired(b)
    <3> DEFINE x == IF Lit(b) THEN b.off_length ELSE b.on_length
               y == IF Lit(b) THEN b.status - 1 ELSE b.status + 1
    <3>1. Ticked(b) = [b EXCEPT !.countdown = x, !.status = y]
      BY <2>1, Zenon DEF Ticked
    <3>2. x = len
      BY <1>3
    <3> HIDE DEF x, y
    <3> QED BY <1>3, <2>1, <3>1, <3>2 DEF Structures
  <2>2. CASE ~Expired(b)
    <3> DEFINE x == (b.countdown - 1) % WORD
    <3>1. Ticked(b) = [b EXCEPT !.countdown = x]
      BY <2>2 DEF Ticked
    <3>2. x = d - 1
      BY <1>6 DEF d
    <3> HIDE DEF x
    <3> QED BY <1>3, <2>2, <3>1, <3>2 DEF Structures
  <2> QED BY <2>1, <2>2
<1>10. CASE m + 1 < len
  <2>1. Ticked(b).countdown = len - (m + 1) /\ (Lit(Ticked(b)) <=> q % 2 = 0)
    BY <1>1, <1>2, <1>3, <1>7, <1>8, <1>9, <1>10
  <2> QED BY <1>4, <1>9, <1>10, <2>1 DEF InPhase, len
<1>11. CASE ~(m + 1 < len)
  <2>1. Ticked(b).countdown = len - 0
    BY <1>1, <1>7, <1>9, <1>11
  <2>2. Lit(Ticked(b)) <=> (q + 1) % 2 = 0
    <3>1. (q + 1) % 2 = 0 <=> ~(q % 2 = 0)
      BY <1>2
    <3> QED BY <1>3, <1>7, <1>8, <1>11, <3>1
  <2> QED BY <1>4, <1>9, <1>11, <2>1, <2>2 DEF InPhase, len
<1> QED BY <1>10, <1>11

\* A tick goes through the structures in use, and draws where one expires.
LEMMA TickDoes ==
    ASSUME BlinkInv, mp1_rtc_tasklet
    PROVE  /\ \A s \in Slots : blink_array'[s] = IF blink_array[s].location # 0
                                                 THEN Ticked(blink_array[s]) ELSE blink_array[s]
           /\ synced' \subseteq synced
           /\ \A cell \in Cells :
                \/ painter'[cell] = painter[cell] /\ video'[cell] = video[cell]
                \/ /\ painter'[cell] \in Slots /\ cell # 0
                   /\ blink_array[painter'[cell]].location = cell
<1>1. PICK n, L : Chain(L, n, blink_array, mp1_list_head)
  BY DEF BlinkInv
<1>2. n \in Nat /\ L \in [1 .. n -> Slots] /\ List = L /\ Len(L) = n
  BY <1>1, ListIs DEF Chain
<1> DEFINE written == {cell \in Cells : Writers(L, cell) # {}}
           last(cell) == L[Max(Writers(L, cell))]
<1>3. /\ blink_array' = [s \in Slots |-> IF \E k \in 1 .. Len(L) : L[k] = s
                                         THEN Ticked(blink_array[s]) ELSE blink_array[s]]
      /\ video' = [cell \in Cells |-> IF cell \in written THEN Drawn(blink_array[last(cell)])
                                      ELSE video[cell]]
      /\ painter' = [cell \in Cells |-> IF cell \in written THEN last(cell) ELSE painter[cell]]
      /\ synced' = synced \ written
  BY <1>2 DEF mp1_rtc_tasklet
<1>4. \A s \in Slots : blink_array[s].location # 0 <=> \E k \in 1 .. Len(L) : L[k] = s
  BY <1>1, <1>2 DEF Chain, Links
<1>5. ASSUME NEW cell \in written
      PROVE  last(cell) \in Slots /\ blink_array[last(cell)].location = cell /\ cell # 0
  <2> DEFINE W == Writers(L, cell)
  <2>1. W # {} /\ W \subseteq 1 .. n
    BY <1>2 DEF Writers
  <2>2. Max(W) \in W
    <3> HIDE DEF W
    <3> QED BY <1>2, <2>1, GreatestIs
  <2>3. Max(W) \in 1 .. n /\ blink_array[L[Max(W)]].location = cell
    BY <1>2, <2>2 DEF Writers
  <2>4. L[Max(W)] \in Slots
    BY <1>2, <2>3
  <2>5. blink_array[L[Max(W)]].location # 0
    BY <1>2, <1>4, <2>3, <2>4
  <2> QED BY <2>3, <2>4, <2>5
<1> HIDE DEF written, last
<1>6. ASSUME NEW cell \in Cells
      PROVE  \/ painter'[cell] = painter[cell] /\ video'[cell] = video[cell]
             \/ /\ painter'[cell] \in Slots /\ cell # 0
                /\ blink_array[painter'[cell]].location = cell
  BY <1>3, <1>5
<1> QED BY <1>3, <1>4, <1>6

\* A tick keeps the drawing, in its next phase.
LEMMA TickDraws ==
    ASSUME FramesFit, BlinkInv, NEW here, NEW ticks \in Nat,
           Drawing(blink_array, painter, video, synced, here, ticks), mp1_rtc_tasklet
    PROVE  Drawing(blink_array', painter', video', synced', here, ticks + 1)
<1>1. /\ \A s \in Slots : blink_array'[s] = IF blink_array[s].location # 0
                                            THEN Ticked(blink_array[s]) ELSE blink_array[s]
      /\ synced' \subseteq synced
      /\ \A cell \in Cells :
           \/ painter'[cell] = painter[cell] /\ video'[cell] = video[cell]
           \/ /\ painter'[cell] \in Slots /\ cell # 0
              /\ blink_array[painter'[cell]].location = cell
  BY TickDoes
<1>2. /\ \A s \in Slots : blink_array[s] \in Structures
      /\ \A s \in Slots : blink_array[s].location # 0 =>
           ShowsFrames(blink_array[s], here, ticks) /\ painter[blink_array[s].location] = s
  BY DEF BlinkInv, Drawing
<1>3. ASSUME NEW cell \in Cells
      PROVE  /\ painter'[cell] = painter[cell]
             /\ painter[cell] = NULL => video'[cell] = video[cell]
  <2>1. CASE painter'[cell] = painter[cell] /\ video'[cell] = video[cell]
    BY <2>1
  <2>2. CASE /\ painter'[cell] \in Slots /\ cell # 0
             /\ blink_array[painter'[cell]].location = cell
    <3>1. painter[cell] = painter'[cell]
      BY <1>2, <2>2
    <3> QED BY <2>2, <3>1, SlotsFacts
  <2> QED BY <1>1, <2>1, <2>2
<1>4. ASSUME NEW s \in Slots, blink_array'[s].location # 0
      PROVE  ShowsFrames(blink_array'[s], here, ticks + 1) /\ painter'[blink_array'[s].location] = s
  <2> DEFINE b == blink_array[s]
  <2>1. b.location # 0
    BY <1>1, <1>4
  <2>2. blink_array'[s] = Ticked(b) /\ b \in Structures /\ ShowsFrames(b, here, ticks)
        /\ painter[b.location] = s
    BY <1>1, <1>2, <2>1
  <2>3. b.location \in Cells
    BY <2>2 DEF ShowsFrames, DrawnCells
  <2> HIDE DEF b
  <2>4. /\ Ticked(b).location = b.location
        /\ Ticked(b).on_char = b.on_char /\ Ticked(b).off_char = b.off_char
    BY <2>2, TickedIs
  <2>5. InPhase(Ticked(b), ticks + 1)
    BY <2>2, PhaseTicks DEF ShowsFrames
  <2> QED BY <1>3, <2>2, <2>3, <2>4, <2>5 DEF ShowsFrames
<1>5. synced' = {}
  BY <1>1 DEF Drawing
<1>6. ASSUME NEW cell \in Cells
      PROVE  IF cell \in DrawnCells /\ cell < here THEN painter'[cell] # NULL
             ELSE painter'[cell] = NULL /\ video'[cell] = BLANK
  BY <1>3 DEF Drawing
<1> QED BY <1>4, <1>5, <1>6 DEF Drawing

\* The cell is drawn by a new structure, in its first phase.
LEMMA AddDraws ==
    ASSUME BlinkInv, NEW b \in Inputs, b.location \in DrawnCells,
           b.on_char = Picture(0, b.location), b.off_char = Picture(1, b.location),
           b.on_length = FRAME_LEN, b.off_length = FRAME_LEN,
           Drawing(blink_array, painter, video, synced, b.location, 0), mp1_ioctl_add(b)
    PROVE  Drawing(blink_array', painter', video', synced', b.location + 1, 0)
<1> DEFINE s == mp1_malloc
           here == b.location
           x == [location |-> b.location, on_char |-> b.on_char, off_char |-> b.off_char,
                 on_length |-> b.on_length, off_length |-> b.off_length,
                 countdown |-> b.on_length, status |-> 1, next |-> mp1_list_head]
<1>1. /\ s # NULL /\ blink_array' = [blink_array EXCEPT ![s] = x]
      /\ video' = [video EXCEPT ![here] = b.on_char]
      /\ painter' = [painter EXCEPT ![here] = s]
      /\ synced' = synced \ {here}
  BY DEF mp1_ioctl_add, mp1_poke
<1>2. s \in Slots /\ blink_array[s].location = 0
  BY <1>1, MallocIs
<1>3. here \in Cells /\ here \in Nat /\ DrawnCells \subseteq Cells /\ Cells \subseteq Nat
  BY SizesFacts DEF DrawnCells
<1>4. ShowsFrames(x, here + 1, 0) /\ x.location = here
  <2>1. FRAME_LEN \in Nat \ {0}
    BY FishAssumption
  <2>2. 0 % FRAME_LEN = 0 /\ 0 \div FRAME_LEN = 0
    <3>1. /\ 0 \div FRAME_LEN \in Nat /\ 0 % FRAME_LEN \in 0 .. FRAME_LEN - 1
          /\ 0 = FRAME_LEN * (0 \div FRAME_LEN) + (0 % FRAME_LEN)
      BY <2>1, Division
    <3>2. FRAME_LEN * 0 + 0 = FRAME_LEN * (0 \div FRAME_LEN) + (0 % FRAME_LEN)
          /\ 0 \in 0 .. FRAME_LEN - 1 /\ 0 \in Nat
      BY <2>1, <3>1
    <3> QED BY <2>1, <3>1, <3>2, DivisionUnique
  <2>3. (0 \div FRAME_LEN) % 2 = 0 /\ FRAME_LEN - (0 % FRAME_LEN) = FRAME_LEN
    BY <2>1, <2>2
  <2>4. x.status = 1 /\ x.countdown = FRAME_LEN /\ x.on_length = FRAME_LEN /\ x.off_length = FRAME_LEN
        /\ x.location = here /\ x.on_char = b.on_char /\ x.off_char = b.off_char
    OBVIOUS
  <2> HIDE DEF x
  <2>5. InPhase(x, 0)
    BY <2>3, <2>4 DEF InPhase, Lit
  <2>6. here < here + 1
    BY <1>3
  <2> QED BY <2>4, <2>5, <2>6 DEF ShowsFrames
<1> HIDE DEF x, s
<1>5. /\ \A t \in Slots : blink_array'[t] = IF t = s THEN x ELSE blink_array[t]
      /\ \A cell \in Cells : /\ painter'[cell] = IF cell = here THEN s ELSE painter[cell]
                             /\ video'[cell] = IF cell = here THEN b.on_char ELSE video[cell]
  BY <1>1, <1>2, <1>3 DEF BlinkInv
<1>6. ASSUME NEW t \in Slots, blink_array'[t].location # 0
      PROVE  ShowsFrames(blink_array'[t], here + 1, 0) /\ painter'[blink_array'[t].location] = t
  <2>1. CASE t = s
    BY <1>3, <1>4, <1>5, <2>1
  <2>2. CASE t # s
    <3> DEFINE y == blink_array[t]
    <3>1. y = blink_array'[t] /\ ShowsFrames(y, here, 0) /\ painter[y.location] = t
      BY <1>5, <1>6, <2>2 DEF Drawing
    <3> HIDE DEF y
    <3>2. y.location \in DrawnCells /\ y.location < here
      BY <3>1 DEF ShowsFrames
    <3>3. y.location \in Cells /\ y.location # here /\ y.location < here + 1
      <4> DEFINE z == y.location
                 w == here
      <4>1. z \in Cells /\ z \in Nat /\ w \in Nat /\ z < w
        BY <1>3, <3>2
      <4> HIDE DEF z, w
      <4>2. z # w /\ z < w + 1
        BY <4>1
      <4> QED BY <4>1, <4>2 DEF z, w
    <3> QED BY <1>5, <3>1, <3>3 DEF ShowsFrames
  <2> QED BY <2>1, <2>2
<1>7. synced' = {}
  BY <1>1 DEF Drawing
<1>8. ASSUME NEW cell \in Cells
      PROVE  IF cell \in DrawnCells /\ cell < here + 1 THEN painter'[cell] # NULL
             ELSE painter'[cell] = NULL /\ video'[cell] = BLANK
  <2>1. CASE cell = here
    BY <1>1, <1>3, <1>5, <2>1
  <2>2. CASE cell # here
    <3>1. cell < here + 1 <=> cell < here
      BY <1>3, <2>2
    <3> QED BY <1>5, <2>2, <3>1 DEF Drawing
  <2> QED BY <2>1, <2>2
<1> QED BY <1>6, <1>7, <1>8 DEF Drawing

\* No cell is drawn between this place and that one, so nothing changes.
LEMMA SkipDraws ==
    ASSUME NEW arr, NEW p, NEW v, NEW syn, NEW ticks, NEW here \in Nat, NEW there \in Nat,
           here <= there, \A cell \in DrawnCells : cell < there => cell < here,
           Drawing(arr, p, v, syn, here, ticks)
    PROVE  Drawing(arr, p, v, syn, there, ticks)
<1>0. DrawnCells \subseteq Cells /\ Cells \subseteq Nat
  BY SizesFacts DEF DrawnCells
<1>1. ASSUME NEW s \in Slots, arr[s].location # 0
      PROVE  ShowsFrames(arr[s], there, ticks) /\ p[arr[s].location] = s
  <2>1. ShowsFrames(arr[s], here, ticks) /\ p[arr[s].location] = s
    BY <1>1 DEF Drawing
  <2>2. arr[s].location < there
    <3> DEFINE z == arr[s].location
    <3>1. z \in Nat /\ z < here
      BY <1>0, <2>1 DEF ShowsFrames
    <3> HIDE DEF z
    <3>2. z < there
      BY <3>1
    <3> QED BY <3>2 DEF z
  <2> QED BY <2>1, <2>2 DEF ShowsFrames
<1>2. ASSUME NEW cell \in Cells
      PROVE  IF cell \in DrawnCells /\ cell < there THEN p[cell] # NULL
             ELSE p[cell] = NULL /\ v[cell] = BLANK
  <2>1. cell \in DrawnCells => (cell < there <=> cell < here)
    BY <1>0
  <2> QED BY <2>1 DEF Drawing
<1> QED BY <1>1, <1>2 DEF Drawing

-----------------------------------------------------------------------------
(* The demo until main adds its own character.                              *)

Here == CellAt(row, col)
DrawInv ==
    /\ i \in Nat
    /\ fpc = "wait1" => Opened /\ \A k \in K : eof[k]
    /\ fpc = "frames" => i = 0
    /\ fpc \in {"frames", "wait1"} /\ Opened =>
         /\ \A k \in K : Placed(k)
         /\ fpc = "frames" => \E k \in K : Rest(k)
         /\ HasRoom => Drawing(blink_array, painter, video, synced, Here, i)

\* Nothing is read or drawn at first.
LEMMA DrawsInitially ==
    ASSUME FishInputs, FramesFit, Init
    PROVE  DrawInv
<1> SUFFICES ASSUME fpc = "frames", Opened
             PROVE  /\ \A k \in K : Placed(k)
                    /\ \E k \in K : Rest(k)
                    /\ Drawing(blink_array, painter, video, synced, Here, i)
  BY DEF Init, DrawInv
<1>1. ASSUME NEW k \in K PROVE Placed(k) /\ Rest(k)
  <2>1. frame[k] \in Texts \ {NoFile}
    BY DEF Init, Opened
  <2>2. frame[k] \in Seq(Nat) /\ Narrow(frame[k])
    BY <2>1 DEF FishInputs, FramesFit
  <2>3. pos[k] = 0 /\ c[k] = 48 /\ ~eof[k] /\ row = 0 /\ col = 0
    BY DEF Init
  <2>4. RowOf(frame[k], 0 + 1) = 0 /\ InRow(frame[k], 0 + 1) = 0
    BY RowStarts
  <2>5. 0 \in 0 .. Len(frame[k]) /\ \A n : n \notin 1 .. 0
    BY <2>2
  <2> QED BY <2>2, <2>3, <2>4, <2>5 DEF Placed, PlaceIn, Rest, NL
<1>2. 0 \in K
  BY DEF K
<1>3. Here \in Nat /\ Here = OFFSET
  <2>1. row \in Nat /\ col \in Nat /\ row = 0 /\ col = 0 /\ COLS \in Nat /\ OFFSET \in Nat
    BY FishAssumption DEF Init
  <2>2. 0 * COLS + 0 + OFFSET = OFFSET
    BY <2>1
  <2> QED BY <2>1, <2>2 DEF Here, CellAt
<1>4. ASSUME NEW cell \in DrawnCells PROVE ~(cell < Here)
  <2>1. PICK k \in K : Picture(k, cell) # BLANK
    BY DEF DrawnCells
  <2> DEFINE at == {n \in 1 .. Len(frame[k]) : frame[k][n] # NL /\ CellOf(frame[k], n) = cell}
  <2>2. at # {}
    <3>1. Picture(k, cell) = IF at = {} THEN BLANK ELSE frame[k][Min(at)]
      BY DEF Picture
    <3> HIDE DEF at
    <3> QED BY <2>1, <3>1
  <2>3. PICK n \in 1 .. Len(frame[k]) : CellOf(frame[k], n) = cell
    BY <2>2
  <2>4. CellOf(frame[k], n) >= OFFSET /\ CellOf(frame[k], n) \in Nat
    <3>1. n \in Nat \ {0}
      BY <1>1 DEF Placed
    <3> QED BY <3>1, CellIs
  <2> QED BY <1>3, <2>3, <2>4
<1>5. /\ \A s \in Slots : blink_array[s].location = 0
      /\ \A cell \in Cells : painter[cell] = NULL /\ video[cell] = BLANK
      /\ synced = {}
  BY SizesFacts DEF Init, BlinkInit
<1>6. Drawing(blink_array, painter, video, synced, Here, i)
  BY <1>4, <1>5 DEF Drawing
<1> QED BY <1>1, <1>2, <1>6

\* The pictures stay as long as the files.
LEMMA PicturesStay ==
    ASSUME frame' = frame
    PROVE  /\ HasRoom' = HasRoom /\ Opened' = Opened
           /\ Drawing(blink_array', painter', video', synced', Here', i')
                => Drawing(blink_array, painter, video, synced, Here, i)'
<1>1. DrawnCells' = DrawnCells
  BY DEF DrawnCells, Picture
<1>2. ASSUME NEW b, NEW here, NEW ticks, ShowsFrames(b, here, ticks)
      PROVE  /\ b.location \in DrawnCells' /\ b.location < here /\ InPhase(b, ticks)
             /\ b.on_char = Picture(0, b.location)' /\ b.off_char = Picture(1, b.location)'
  BY <1>1, <1>2 DEF ShowsFrames, Picture
<1>3. Drawing(blink_array', painter', video', synced', Here', i')
        => Drawing(blink_array, painter, video, synced, Here, i)'
  BY <1>1, <1>2 DEF Drawing, ShowsFrames, InPhase, Lit
<1> QED BY <1>1, <1>3 DEF HasRoom, Opened

\* A round that draws a cell, or leaves one blank.
LEMMA CellDrawn ==
    ASSUME FishInputs, FishInv, FrameCell, \A k \in K : Placed(k), HasRoom,
           Drawing(blink_array, painter, video, synced, Here, 0)
    PROVE  Drawing(blink_array', painter', video', synced', Here + 1, 0)
<1> DEFINE b == FrameBlinker
           here == Here
<1>1. row \in Nat /\ col \in Nat /\ BlinkInv /\ ReaderInv /\ ReadBoth
  BY DEF FishInv, ReaderInv, FrameCell
<1>2. here \in Nat /\ here < CellAt(row + 1, 0)
  <2>1. PICK k \in K : NewChar(k) # NL
    BY DEF FrameCell
  <2>2. col < COLS
    BY <1>1, <2>1, ReadsPicture
  <2>3. CellAt(row + 1, 0) = CellAt(row, 0) + COLS /\ CellAt(row, col) = CellAt(row, 0) + col
        /\ CellAt(row, col) \in Nat
    BY <1>1, CellAtIs
  <2>4. CellAt(row, 0) \in Nat /\ COLS \in Nat
    BY <1>1, CellAtIs, FishAssumption
  <2> QED BY <1>1, <2>2, <2>3, <2>4 DEF Here
<1>3. ASSUME NEW k \in K PROVE Picture(k, here) = Shown(NewChar(k))
  <2>1. CASE NewChar(k) # NL
    BY <1>1, <2>1, ReadsPicture DEF Here, Shown
  <2>2. CASE NewChar(k) = NL
    <3>1. here >= CellAt(row, col)
      BY <1>2 DEF Here
    <3> HIDE DEF here
    <3>2. Picture(k, here) = BLANK
      BY <1>1, <1>2, <2>2, <3>1, BlankBehind
    <3> QED BY <2>2, <3>2 DEF Shown
  <2> QED BY <2>1, <2>2
<1>4. /\ b.location = here /\ b.on_length = FRAME_LEN /\ b.off_length = FRAME_LEN
      /\ b.on_char = Picture(0, here) /\ b.off_char = Picture(1, here)
  BY <1>3 DEF FrameBlinker, Here, CellAt, K
<1>5. b \in Inputs
  BY <1>1, FrameBlinkerTyped
<1> HIDE DEF b
<1>6. CASE \E k \in K : NewChar(k) \notin {BLANK, NL}
  <2>1. mp1_ioctl_add(b) \/ AddFail(b)
    BY <1>6 DEF FrameCell, b
  <2>2. here \in Cells => here \in DrawnCells
    BY <1>3, <1>6 DEF DrawnCells, Shown
  <2>3. CASE here \in Cells
    <3>1. mp1_malloc # NULL /\ here < SCREEN
      <4>1. here < SCREEN
        BY <1>2, <2>3, SizesFacts
      <4>2. here \in DrawnCells
        BY <2>2, <2>3
      <4>3. Drawing(blink_array, painter, video, synced, here, 0)
        OBVIOUS
      <4> HIDE DEF here
      <4> QED BY <1>1, <4>1, <4>2, <4>3, RoomLeft
    <3>2. mp1_ioctl_add(b)
      <4>1. ~(b.location >= SCREEN)
        BY <1>2, <1>4, <3>1, SizesFacts
      <4> QED BY <2>1, <3>1, <4>1 DEF AddFail
    <3>3. b.location \in DrawnCells /\ Drawing(blink_array, painter, video, synced, b.location, 0)
      BY <1>4, <2>2, <2>3
    <3>4. Drawing(blink_array', painter', video', synced', b.location + 1, 0)
      BY <1>1, <1>4, <1>5, <3>2, <3>3, AddDraws
    <3> QED BY <1>4, <3>4
  <2>4. CASE here \notin Cells
    <3>1. here >= SCREEN
      BY <1>2, <2>4, SizesFacts
    <3>2. UNCHANGED <<blink_array, painter, video, synced>>
      <4>1. ~mp1_ioctl_add(b)
        BY <1>2, <1>4, <3>1, SizesFacts DEF mp1_ioctl_add
      <4> QED BY <2>1, <4>1 DEF AddFail, Fails
    <3>3. here + 1 \in Nat /\ here <= here + 1
          /\ \A cell \in DrawnCells : cell < here + 1 => cell < here
      BY <1>2, <3>1, SizesFacts DEF DrawnCells
    <3> HIDE DEF here
    <3>4. Drawing(blink_array, painter, video, synced, here + 1, 0)
      BY <1>2, <3>3, SkipDraws DEF here
    <3> QED BY <3>2, <3>4 DEF here
  <2> QED BY <2>3, <2>4
<1>7. CASE ~\E k \in K : NewChar(k) \notin {BLANK, NL}
  <2>1. UNCHANGED <<blink_array, painter, video, synced>>
    BY <1>7 DEF FrameCell, blink
  <2>2. here \notin DrawnCells
    BY <1>3, <1>7 DEF DrawnCells, Shown
  <2>3. here + 1 \in Nat /\ here <= here + 1
        /\ \A cell \in DrawnCells : cell < here + 1 => cell < here
    <3>1. \A cell \in DrawnCells : cell \in Nat /\ cell # here
      BY <2>2, SizesFacts DEF DrawnCells
    <3> HIDE DEF here
    <3> QED BY <1>2, <3>1
  <2> HIDE DEF here
  <2>4. Drawing(blink_array, painter, video, synced, here + 1, 0)
    BY <1>2, <2>3, SkipDraws DEF here
  <2> QED BY <2>1, <2>4 DEF here
<1> QED BY <1>6, <1>7

\* The cells up to the next row are blank.
LEMMA RowDrawn ==
    ASSUME FishInv, FrameRow, \A k \in K : Placed(k), CellAt(row, col) <= CellAt(row + 1, 0),
           Drawing(blink_array, painter, video, synced, Here, 0)
    PROVE  Drawing(blink_array', painter', video', synced', CellAt(row + 1, 0), 0)
<1> DEFINE here == CellAt(row, col)
           there == CellAt(row + 1, 0)
<1>1. row \in Nat /\ col \in Nat /\ ReadBoth /\ \A k \in K : NewChar(k) = NL
  BY DEF FishInv, ReaderInv, FrameRow
<1>2. here \in Nat /\ there \in Nat
  <2>1. row + 1 \in Nat /\ 0 \in Nat
    BY <1>1
  <2> QED BY <1>1, <2>1, CellAtIs
<1>3. ASSUME NEW cell \in DrawnCells, cell < there PROVE cell < here
  <2>1. cell \in Nat
    BY SizesFacts DEF DrawnCells
  <2>2. PICK k \in K : Picture(k, cell) # BLANK
    BY DEF DrawnCells
  <2>3. ~(cell >= here)
    BY <1>1, <1>3, <2>1, <2>2, BlankBehind
  <2> HIDE DEF here
  <2> QED BY <1>2, <2>1, <2>3
<1>4. UNCHANGED <<blink_array, painter, video, synced>>
  BY DEF FrameRow, blink
<1>5. Drawing(blink_array, painter, video, synced, here, 0) /\ here <= there
  BY DEF Here
<1> HIDE DEF here, there
<1>6. Drawing(blink_array, painter, video, synced, there, 0)
  BY <1>2, <1>3, <1>5, SkipDraws
<1> QED BY <1>4, <1>6 DEF there

\* Every step of the demo keeps what is drawn.
LEMMA DrawsOn ==
    ASSUME FishInputs, FramesFit, FishInv, DrawInv, [Next]_vars
    PROVE  DrawInv'
<1>0. /\ BlinkInv /\ row \in Nat /\ col \in Nat /\ i \in Nat
  BY DEF FishInv, ReaderInv, DrawInv
<1>1. ASSUME fpc' \notin {"frames", "wait1"}, i' \in Nat PROVE DrawInv'
  BY <1>1 DEF DrawInv
<1>2. CASE UNCHANGED vars
  <2>1. UNCHANGED <<blink_array, painter, video, synced, fpc, frame, pos, c, eof, row, col, i>>
    BY <1>2 DEF vars, blink, reader
  <2>2. \A k \in K : (Placed(k)' <=> Placed(k)) /\ (Rest(k)' <=> Rest(k))
    BY <2>1 DEF Placed, Rest
  <2>3. Here' = Here
    BY <2>1 DEF Here
  <2> QED BY <2>1, <2>2, <2>3, PicturesStay DEF DrawInv
<1>3. CASE FramesMissing
  <2>1. fpc' = "done" /\ i' = i
    BY <1>3 DEF FramesMissing
  <2> QED BY <1>0, <1>1, <2>1
<1>4. CASE FrameRow
  <2>1. /\ fpc = "frames" /\ Opened /\ ReadBoth /\ frame' = frame /\ i' = i /\ i = 0
        /\ \A k \in K : NewChar(k) = NL /\ c'[k] = IF eof'[k] THEN NL ELSE 48
        /\ row' = row + 1 /\ col' = 0
        /\ fpc' = IF \A k \in K : eof'[k] THEN "wait1" ELSE "frames"
    BY <1>4 DEF FrameRow, ReadBoth, DrawInv
  <2>2. (\A k \in K : Placed(k)) /\ \E k \in K : Rest(k)
    BY <2>1 DEF DrawInv
  <2>3. CellAt(row, col) <= CellAt(row + 1, 0)
    <3>1. PICK k \in K : Rest(k)
      BY <2>2
    <3>2. InRow(frame[k], pos[k] + 1) = col /\ pos[k] + 1 \in 1 .. Len(frame[k]) + 1
      BY <2>2, <3>1 DEF Placed, PlaceIn, Rest
    <3>3. col <= COLS
      BY <2>2, <3>2 DEF Placed, Narrow
    <3>4. /\ CellAt(row + 1, 0) = CellAt(row, 0) + COLS /\ CellAt(row, col) = CellAt(row, 0) + col
          /\ CellAt(row, 0) \in Nat /\ COLS \in Nat
      BY <1>0, CellAtIs, FishAssumption
    <3> QED BY <1>0, <3>3, <3>4
  <2>4. ASSUME NEW k \in K PROVE Placed(k)'
    BY <1>0, <2>1, <2>2, <2>3, PlacedRow
  <2>5. fpc' = "frames" => \E k \in K : Rest(k)'
    BY <2>1 DEF Rest, NL
  <2>6. ASSUME HasRoom PROVE Drawing(blink_array', painter', video', synced', Here', i')
    <3>1. Drawing(blink_array, painter, video, synced, Here, 0)
      BY <2>1, <2>6 DEF DrawInv
    <3>2. Drawing(blink_array', painter', video', synced', CellAt(row + 1, 0), 0)
      BY <1>4, <2>2, <2>3, <3>1, RowDrawn
    <3> QED BY <2>1, <3>2 DEF Here
  <2>7. Opened'
    BY <2>1, PicturesStay
  <2> QED BY <1>0, <2>1, <2>4, <2>5, <2>6, <2>7, PicturesStay DEF DrawInv
<1>5. CASE FrameCell
  <2>1. /\ fpc = "frames" /\ Opened /\ ReadBoth /\ frame' = frame /\ i' = i /\ i = 0
        /\ \A k \in K : c'[k] = NewChar(k)
        /\ \E k \in K : NewChar(k) # NL
        /\ row' = row /\ col' = col + 1 /\ fpc' = "frames"
    BY <1>5 DEF FrameCell, ReadBoth, DrawInv
  <2>2. \A k \in K : Placed(k)
    BY <2>1 DEF DrawInv
  <2>3. ASSUME NEW k \in K PROVE Placed(k)'
    BY <1>0, <2>1, <2>2, PlacedOn
  <2>4. \E k \in K : Rest(k)'
    BY <2>1 DEF Rest
  <2>5. ASSUME HasRoom PROVE Drawing(blink_array', painter', video', synced', Here', i')
    <3>1. Drawing(blink_array, painter, video, synced, Here, 0)
      BY <2>1, <2>5 DEF DrawInv
    <3>2. Drawing(blink_array', painter', video', synced', Here + 1, 0)
      BY <1>5, <2>2, <2>5, <3>1, CellDrawn
    <3>3. Here' = Here + 1
      <4>1. Here' = CellAt(row, col + 1)
        BY <2>1 DEF Here
      <4> QED BY <1>0, <4>1, CellAtIs DEF Here
    <3> QED BY <2>1, <3>2, <3>3
  <2> QED BY <1>0, <2>1, <2>3, <2>4, <2>5, PicturesStay DEF DrawInv
<1>6. CASE Waits
  <2>1. /\ fpc' = fpc /\ i' = i + 1 /\ mp1_rtc_tasklet
        /\ UNCHANGED <<frame, pos, c, eof, row, col>>
        /\ fpc \in {"wait1", "wait2", "wait3", "wait4"}
    BY <1>6 DEF Waits, Wait, reader
  <2>2. i' \in Nat
    BY <1>0, <2>1
  <2>3. CASE fpc # "wait1"
    BY <1>1, <2>1, <2>2, <2>3
  <2>4. CASE fpc = "wait1"
    <3>1. /\ Opened /\ Opened' /\ \A k \in K : Placed(k) /\ eof'[k]
      BY <2>1, <2>4, PicturesStay DEF DrawInv
    <3>2. \A k \in K : Placed(k)'
      BY <2>1, <3>1 DEF Placed
    <3>3. Here' = Here
      BY <2>1 DEF Here
    <3>4. ASSUME HasRoom PROVE Drawing(blink_array', painter', video', synced', Here', i')
      <4>1. Drawing(blink_array, painter, video, synced, Here, i)
        BY <2>4, <3>1, <3>4 DEF DrawInv
      <4> QED BY <1>0, <2>1, <3>3, <4>1, TickDraws
    <3> QED BY <2>1, <2>2, <2>4, <3>1, <3>2, <3>4, PicturesStay DEF DrawInv
  <2> QED BY <2>3, <2>4
<1>7. CASE MainAdd \/ MainSync \/ MainRemove \/ MainEnd
  <2>1. fpc' \in {"wait2", "wait3", "wait4", "done"} /\ i' = 0
    BY <1>7 DEF MainAdd, MainSync, MainRemove, MainEnd, Waited
  <2> QED BY <1>1, <2>1
<1>8. CASE AnyStep
  <2>1. fpc' = "any" /\ i' = i
    BY <1>8 DEF AnyStep
  <2> QED BY <1>0, <1>1, <2>1
<1> QED BY <1>2, <1>3, <1>4, <1>5, <1>6, <1>7, <1>8 DEF Next, MainStep

\* From the first tick until main adds its own character the screen shows one
\* frame, whole, and the other after every FRAME_LEN ticks: whatever the lengths
\* of rows and files, add_frames puts each character of both into its cell and
\* nothing else, and all structures stay in step.  Rows are no longer than the screen's.
THEOREM ScreenCorrect ==
    ASSUME FishInputs, FramesFit
    PROVE  Spec => []ScreenRight
<1>1. Init => DrawInv
  BY DrawsInitially
<1>2. FishInv /\ DrawInv /\ [Next]_vars => DrawInv'
  BY DrawsOn
<1>3. FishInv /\ DrawInv => FramesShown
  <2> SUFFICES ASSUME FishInv, DrawInv, fpc = "wait1", HasRoom, NEW cell \in Cells
               PROVE  video[cell] = Picture((i \div FRAME_LEN) % 2, cell)
    BY DEF FramesShown, HasRoom
  <2>1. /\ BlinkInv /\ row \in Nat /\ col \in Nat /\ i \in Nat
        /\ \A k \in K : Placed(k) /\ eof[k]
        /\ Drawing(blink_array, painter, video, synced, Here, i)
    BY DEF FishInv, ReaderInv, DrawInv
  <2> DEFINE q == i \div FRAME_LEN
  <2>2. q % 2 \in K /\ (q % 2 = 0 \/ q % 2 = 1)
    <3>1. q \in Nat
      BY <2>1, FishAssumption, Division
    <3> HIDE DEF q
    <3> QED BY <3>1 DEF K
  <2>3. cell \in DrawnCells => cell < Here
    <3> SUFFICES ASSUME cell \in DrawnCells PROVE cell < Here
      OBVIOUS
    <3>1. PICK k \in K : Picture(k, cell) # BLANK
      BY DEF DrawnCells
    <3> DEFINE text == frame[k]
               at == {n \in 1 .. Len(text) : text[n] # NL /\ CellOf(text, n) = cell}
    <3>2. at # {}
      <4>1. Picture(k, cell) = IF at = {} THEN BLANK ELSE text[Min(at)]
        BY DEF Picture
      <4> HIDE DEF at
      <4> QED BY <3>1, <4>1
    <3>3. PICK n \in 1 .. Len(text) : text[n] # NL /\ CellOf(text, n) = cell
      BY <3>2
    <3>4. pos[k] = Len(text)
      BY <2>1 DEF Placed, PlaceIn
    <3> QED BY <2>1, <3>3, <3>4 DEF Placed, PlaceIn, Here
  <2>4. CASE cell \in DrawnCells
    <3> DEFINE p == painter[cell]
               b == blink_array[p]
    <3>1. p # NULL
      BY <2>1, <2>3, <2>4 DEF Drawing
    <3>2. /\ p \in Slots /\ b.location = cell /\ cell # 0
          /\ video[cell] = IF Lit(b) /\ cell \notin synced THEN b.on_char ELSE b.off_char
      BY <2>1, <3>1, PainterTyped
    <3>3. ShowsFrames(b, Here, i) /\ synced = {}
      BY <2>1, <3>2 DEF Drawing
    <3> HIDE DEF b, p
    <3>4. /\ Lit(b) <=> q % 2 = 0
          /\ b.on_char = Picture(0, cell) /\ b.off_char = Picture(1, cell)
      BY <3>2, <3>3 DEF ShowsFrames, InPhase
    <3>5. CASE q % 2 = 0
      BY <3>2, <3>3, <3>4, <3>5
    <3>6. CASE q % 2 = 1
      <4>1. ~Lit(b)
        BY <3>4, <3>6
      <4>2. video[cell] = b.off_char
        BY <3>2, <4>1
      <4> QED BY <3>4, <3>6, <4>2
    <3> QED BY <2>2, <3>5, <3>6
  <2>5. CASE cell \notin DrawnCells
    <3>1. video[cell] = BLANK
      BY <2>1, <2>5 DEF Drawing
    <3>2. \A k \in K : Picture(k, cell) = BLANK
      BY <2>5 DEF DrawnCells
    <3> HIDE DEF q
    <3>3. video[cell] = Picture(q % 2, cell)
      BY <2>2, <3>1, <3>2
    <3> QED BY <3>3 DEF q
  <2> QED BY <2>4, <2>5
<1>4. FishInv => CellShowsPhase
  BY PainterTyped DEF CellShowsPhase, FishInv
<1>5. FishInv /\ DrawInv => ScreenRight
  BY <1>3, <1>4 DEF ScreenRight
<1> QED BY <1>1, <1>2, <1>5, FishAlways, PTL DEF Spec

=============================================================================
