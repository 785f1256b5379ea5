--------------------------- MODULE ServiceTaskProofs ---------------------------
(***************************************************************************)
(* Proofs about a task that makes, asks and calls a composed service, for  *)
(* every tree of services the constructors can put together: what was said *)
(* of readiness, who holds the waker, which futures are polled, and what   *)
(* is answered.                                                            *)
(*                                                                         *)
(* First the tree, which is a sequence in postfix order: what is below a   *)
(* node and above it, as facts about an order, with no number left.  Then  *)
(* the terms, the invariant, and its parts one after the other; each is    *)
(* stated of a position, an answer and the variables it reads, so that a   *)
(* lemma about a move of the walk serves every combinator that makes it.   *)
(***************************************************************************)
EXTENDS ServiceTask, SequenceTheorems, WellFoundedInduction, TLAPS

-----------------------------------------------------------------------------
(* The tree.                                                                *)

(* A set of naturals that is not empty has a least element.                 *)
LEMMA LeastElement ==
    ASSUME NEW S, S \subseteq Nat, S # {}
    PROVE  \E m \in S : \A n \in S : m <= n
<1> DEFINE R == OpToRel(<, Nat)
<1>1. IsWellFoundedOn(R, Nat)
  BY NatLessThanWellFounded
<1>2. PICK m \in S : \A n \in S : <<n, m>> \notin R
  <2> HIDE DEF R
  <2>1. QED
    BY <1>1, WFMin
<1>3. ASSUME NEW n \in S PROVE ~(n < m)
  <2>1. <<n, m>> \in Nat \X Nat
    OBVIOUS
  <2>2. <<n, m>> \notin {ss \in Nat \X Nat : ss[1] < ss[2]}
    BY <1>2 DEF OpToRel
  <2>3. QED
    BY <2>1, <2>2
<1>4. QED
  BY <1>3

(* Where the term that ends at n begins. *)
Start(n) == n - Width(n) + 1

(* Every node is a leaf, a wrapper or a pair, and its operands end before it. *)
Shape(n) ==
    \/ Is(n, Leaf) /\ Width(n) = 1
    \/ Is(n, Wrapper) /\ n - 1 \in Node /\ Width(n) = Width(n - 1) + 1
    \/ /\ Is(n, Pair) /\ n - 1 \in Node /\ n - 1 - Width(n - 1) \in Node
       /\ Width(n) = Width(n - 1) + Width(n - 1 - Width(n - 1)) + 1

(* What it means for a tree that it is a term, in the words of the tree.    *)
LEMMA TermShape ==
    ASSUME tree \in Trees
    PROVE  /\ Root \in Nat \ {0} /\ Node = 1 .. Root
           /\ \A n \in Node : Width(n) \in Nat \ {0} /\ Shape(n)
           /\ Width(Root) = Root
<1>1. Term(tree)
  BY ConstantsAssumption
<1>2. /\ tree \in Seq([kind : Leaf \cup Wrapper \cup Pair, size : Nat \ {0}])
      /\ tree # <<>> /\ tree[Len(tree)].size = Len(tree)
  BY <1>1 DEF Term, NodeKind
<1>3. /\ Len(tree) \in Nat /\ Len(tree) # 0 /\ DOMAIN tree = 1 .. Len(tree)
      /\ \A n \in DOMAIN tree : tree[n] \in [kind : Leaf \cup Wrapper \cup Pair, size : Nat \ {0}]
  <2>1. ASSUME NEW K, NEW s \in Seq(K), s # <<>>
        PROVE  Len(s) \in Nat /\ Len(s) # 0 /\ DOMAIN s = 1 .. Len(s) /\ \A n \in DOMAIN s : s[n] \in K
    BY <2>1
  <2>2. QED
    BY <1>2, <2>1
<1>4. Root \in Nat \ {0} /\ Node = 1 .. Root /\ Width(Root) = Root
  BY <1>2, <1>3 DEF Root, Node, Width
<1>5. ASSUME NEW n \in Node PROVE Width(n) \in Nat \ {0} /\ Shape(n)
  <2>1. Width(n) \in Nat \ {0}
    BY <1>3 DEF Node, Width
  <2>2. CASE tree[n].kind \in Leaf /\ tree[n].size = 1
    BY <2>2 DEF Shape, Is, Width
  <2>3. CASE tree[n].kind \in Wrapper /\ n > 1 /\ tree[n].size = tree[n - 1].size + 1
    <3>1. n - 1 \in Node
      BY <1>4, <2>3
    <3>2. Is(n, Wrapper) /\ Width(n) = Width(n - 1) + 1
      BY <2>3 DEF Is, Width
    <3>3. QED
      BY <2>1, <3>1, <3>2 DEF Shape
  <2>4. CASE /\ tree[n].kind \in Pair /\ n > 1
             /\ \E first \in 1 .. n - 2 :
                   /\ first = n - 1 - tree[n - 1].size
                   /\ tree[n].size = tree[n - 1].size + tree[first].size + 1
    <3>1. n - 1 \in Node
      BY <1>4, <2>4
    <3>2. PICK first \in 1 .. n - 2 :
              /\ first = n - 1 - tree[n - 1].size
              /\ tree[n].size = tree[n - 1].size + tree[first].size + 1
      BY <2>4
    <3>3. first \in Node
      BY <1>4, <3>2
    <3>4. Is(n, Pair) /\ n - 1 - Width(n - 1) = first
      BY <2>4, <3>2 DEF Is, Width
    <3>5. Width(n) = Width(n - 1) + Width(first) + 1
      BY <3>2 DEF Width
    <3>6. QED
      BY <2>1, <3>1, <3>3, <3>4, <3>5 DEF Shape
  <2>5. QED
    BY <1>1, <2>1, <2>2, <2>3, <2>4 DEF Term, Fits, Node
<1>6. QED
  BY <1>4, <1>5

(* The terms of two nodes are nested or apart. *)
LEMMA Nested ==
    ASSUME tree \in Trees
    PROVE  \A n \in Node : Start(n) \in 1 .. n /\ \A m \in Start(n) .. n : Start(m) >= Start(n)
<1> DEFINE P(n) == Start(n) \in 1 .. n /\ \A m \in Start(n) .. n : Start(m) >= Start(n)
           S == {n \in Node : ~P(n)}
<1>1. /\ Root \in Nat \ {0} /\ Node = 1 .. Root
      /\ \A n \in Node : Width(n) \in Nat \ {0} /\ Shape(n)
  BY TermShape
<1> SUFFICES ASSUME S # {} PROVE FALSE
  OBVIOUS
<1>2. PICK n \in S : \A m \in S : n <= m
  <2>1. S \subseteq Nat
    BY <1>1
  <2>2. QED
    BY <2>1, LeastElement
<1>3. n \in Node /\ n \in Nat /\ ~P(n) /\ \A m \in Node : m < n => P(m)
  BY <1>1, <1>2
<1>4. Width(n) \in Nat \ {0} /\ Shape(n)
  BY <1>1, <1>3
<1>5. CASE Width(n) = 1
  <2>1. Start(n) = n
    BY <1>3, <1>5 DEF Start
  <2>2. QED
    BY <1>1, <1>3, <2>1
<1>6. CASE n - 1 \in Node /\ Width(n) = Width(n - 1) + 1
  <2>1. P(n - 1) /\ Width(n - 1) \in Nat \ {0}
    BY <1>1, <1>3, <1>6
  <2>2. Start(n) = Start(n - 1)
    BY <1>3, <1>6, <2>1 DEF Start
  <2>3. ASSUME NEW m \in Start(n) .. n PROVE Start(m) >= Start(n)
    <3>1. Start(n) \in Int /\ n \in Int /\ m \in Start(n) .. n
      BY <1>3, <1>4 DEF Start
    <3>2. m = n \/ m \in Start(n - 1) .. n - 1
      BY <3>1, <2>2
    <3>3. QED
      BY <2>1, <2>2, <3>1, <3>2
  <2>4. QED
    BY <1>3, <2>1, <2>2, <2>3
<1>7. CASE /\ n - 1 \in Node /\ n - 1 - Width(n - 1) \in Node
           /\ Width(n) = Width(n - 1) + Width(n - 1 - Width(n - 1)) + 1
  <2>1. PICK f \in Node : f = n - 1 - Width(n - 1)
    BY <1>7
  <2>2. /\ Width(n - 1) \in Nat \ {0} /\ Width(f) \in Nat \ {0} /\ f \in Nat /\ f < n
        /\ Width(n) = Width(n - 1) + Width(f) + 1
    <3>1. Width(n - 1) \in Nat \ {0} /\ Width(f) \in Nat \ {0}
      BY <1>1, <1>7
    <3>2. Width(n) = Width(n - 1) + Width(f) + 1
      BY <1>7, <2>1
    <3>3. f \in Nat
      BY <1>1
    <3>4. f < n
      <4>1. n \in Nat /\ f = n - 1 - Width(n - 1)
        BY <1>3, <2>1
      <4>2. PICK w \in Nat : w = Width(n - 1)
        BY <3>1
      <4>3. n \in Nat /\ w \in Nat /\ f = n - 1 - w
        BY <4>1, <4>2
      <4>4. QED
        BY ONLY <4>3
    <3>5. QED
      BY <3>1, <3>2, <3>3, <3>4
  <2>3. P(n - 1) /\ P(f)
    BY <1>3, <1>7, <2>2
  <2>4. Start(n) = Start(f) /\ Start(n - 1) = f + 1
    BY <1>3, <2>1, <2>2 DEF Start
  <2>5. ASSUME NEW m \in Start(n) .. n PROVE Start(m) >= Start(n)
    <3>1. Start(n) \in Int /\ n \in Int /\ m \in Start(n) .. n /\ Start(f) \in Int
      BY <1>3, <1>4, <2>2 DEF Start
    <3>2. m = n \/ m \in f + 1 .. n - 1 \/ m \in Start(f) .. f
      BY <2>2, <2>4, <3>1
    <3>3. CASE m = n
      BY <3>1, <3>3
    <3>4. CASE m \in f + 1 .. n - 1
      <4>1. Start(m) >= f + 1
        BY <2>3, <2>4, <3>4
      <4>2. Start(f) <= f /\ Start(m) \in Int
        <5>1. m \in Node
          BY <1>1, <1>3, <2>2, <3>4
        <5>2. QED
          BY <1>1, <5>1, <2>3 DEF Start
      <4>3. QED
        BY <2>2, <2>4, <3>1, <4>1, <4>2
    <3>5. CASE m \in Start(f) .. f
      BY <2>3, <2>4, <3>5
    <3>6. QED
      BY <3>2, <3>3, <3>4, <3>5
  <2>6. QED
    BY <1>3, <2>2, <2>3, <2>4, <2>5
<1>8. QED
  BY <1>4, <1>5, <1>6, <1>7 DEF Shape

(* Within and Above, as numbers. *)
LEMMA Bounds ==
    ASSUME tree \in Trees
    PROVE  /\ \A n \in Node : n \in Int /\ Start(n) \in Int /\ Width(n) \in Int /\ 1 <= Start(n)
                           /\ Start(n) <= n /\ 1 <= n /\ n <= Root
           /\ \A n, m \in Node : m \in Within(n) <=> Start(n) <= m /\ m <= n
           /\ \A n \in Node : Within(n) \subseteq Node /\ Above(n) \subseteq Node
           /\ \A n, m \in Node : m \in Above(n) <=> n < m /\ Start(m) <= n
           /\ \A n, m \in Node : Start(n) <= m /\ m <= n => Start(n) <= Start(m)
           /\ Start(Root) = 1
<1>1. /\ Root \in Nat \ {0} /\ Node = 1 .. Root
      /\ \A n \in Node : Width(n) \in Nat \ {0}
      /\ Width(Root) = Root
  BY TermShape
<1>2. \A n \in Node : Start(n) \in 1 .. n /\ \A m \in Start(n) .. n : Start(m) >= Start(n)
  BY Nested
<1>3. \A n \in Node : n \in Int /\ Start(n) \in Int /\ Width(n) \in Int /\ 1 <= Start(n)
                           /\ Start(n) <= n /\ 1 <= n /\ n <= Root
  BY <1>1, <1>2
<1>4. ASSUME NEW n \in Node PROVE Within(n) = Start(n) .. n
  BY DEF Within, Start
<1>5. ASSUME NEW n \in Node, NEW m \in Node
      PROVE  m \in Within(n) <=> Start(n) <= m /\ m <= n
  BY <1>3, <1>4
<1>6. ASSUME NEW n \in Node PROVE Within(n) \subseteq Node /\ Above(n) \subseteq Node
  BY <1>1, <1>3, <1>4 DEF Above
<1>7. ASSUME NEW n \in Node, NEW m \in Node
      PROVE  m \in Above(n) <=> n < m /\ Start(m) <= n
  <2>1. m - Width(m) < n <=> Start(m) <= n
    <3>1. m \in Int /\ Width(m) \in Int /\ n \in Int
      BY <1>3
    <3>2. QED
      BY <3>1 DEF Start
  <2>2. n < m <=> m > n
    BY <1>3
  <2>3. QED
    BY <2>1, <2>2 DEF Above
<1>8. ASSUME NEW n \in Node, NEW m \in Node, Start(n) <= m, m <= n
      PROVE  Start(n) <= Start(m)
  <2>1. m \in Start(n) .. n
    BY <1>3, <1>8
  <2>2. Start(m) >= Start(n)
    BY <1>2, <2>1
  <2>3. QED
    BY <1>3, <2>2
<1>9. Start(Root) = 1
  BY <1>1 DEF Start
<1>10. QED
  BY <1>3, <1>5, <1>6, <1>7, <1>8, <1>9

(* The nodes are ordered as a tree is. *)
LEMMA TreeOrder ==
    ASSUME tree \in Trees
    PROVE  /\ Root \in Node
           /\ \A n \in Node : Within(n) \subseteq Node /\ Above(n) \subseteq Node
           /\ \A n \in Node : n \in Within(n) /\ n \notin Above(n) /\ n \in Within(Root)
           /\ Above(Root) = {}
           /\ \A n, m \in Node : m \in Within(n) <=> m = n \/ n \in Above(m)
           /\ \A l, m, n \in Node : l \in Within(m) /\ m \in Within(n) => l \in Within(n)
           /\ \A m, n \in Node : m \in Within(n) /\ n \in Within(m) => m = n
           /\ \A l, m, n \in Node : l \in Within(m) /\ l \in Within(n) => m \in Within(n) \/ n \in Within(m)
<1>1. /\ Root \in Nat \ {0} /\ Node = 1 .. Root
  BY TermShape
<1>2. /\ \A n \in Node : n \in Int /\ Start(n) \in Int /\ 1 <= Start(n)
                           /\ Start(n) <= n /\ 1 <= n /\ n <= Root
      /\ \A n, m \in Node : m \in Within(n) <=> Start(n) <= m /\ m <= n
      /\ \A n \in Node : Within(n) \subseteq Node /\ Above(n) \subseteq Node
      /\ \A n, m \in Node : m \in Above(n) <=> n < m /\ Start(m) <= n
      /\ \A n, m \in Node : Start(n) <= m /\ m <= n => Start(n) <= Start(m)
      /\ Start(Root) = 1
  BY Bounds
<1>3. Root \in Node
  BY <1>1
<1>4. ASSUME NEW n \in Node PROVE n \in Within(n) /\ n \notin Above(n) /\ n \in Within(Root) /\ n \notin Above(Root)
  BY <1>2, <1>3
<1>5. Above(Root) = {}
  BY <1>2, <1>3, <1>4
<1>6. ASSUME NEW n \in Node, NEW m \in Node PROVE m \in Within(n) <=> m = n \/ n \in Above(m)
  BY <1>2
<1>7. ASSUME NEW l \in Node, NEW m \in Node, NEW n \in Node, l \in Within(m), m \in Within(n)
      PROVE  l \in Within(n)
  BY <1>2, <1>7
<1>8. ASSUME NEW m \in Node, NEW n \in Node, m \in Within(n), n \in Within(m) PROVE m = n
  BY <1>2, <1>8
<1>9. ASSUME NEW l \in Node, NEW m \in Node, NEW n \in Node, l \in Within(m), l \in Within(n)
      PROVE  m \in Within(n) \/ n \in Within(m)
  BY <1>2, <1>9
<1>10. QED
  BY <1>2, <1>3, <1>4, <1>5, <1>6, <1>7, <1>8, <1>9

(* The kinds of nodes exclude one another, but for the special wrappers.    *)
LEMMA Kinds ==
    ASSUME NEW n
    PROVE  /\ Is(n, Leaf) => ~Is(n, Wrapper) /\ ~Is(n, Pair) /\ ~Is(n, {"apply_cfg"}) /\ ~Is(n, Transforms)
           /\ Is(n, Pair) => ~Is(n, Wrapper) /\ ~Is(n, {"apply_cfg"}) /\ ~Is(n, Transforms)
           /\ Is(n, Transforms) => Is(n, Wrapper) /\ ~Is(n, {"apply_cfg"})
           /\ Is(n, {"apply_cfg"}) => Is(n, Wrapper)
           /\ IsService(n) <=> Is(n, Leaf) \/ Is(n, {"apply_cfg"})
           /\ Is(n, Pair) <=> Is(n, {"and_then"}) \/ Is(n, {"then"})
BY DEF Is, Leaf, Wrapper, Pair, Transforms, IsService

(* The operands of a combinator, and what is below it. *)
LEMMA Operands ==
    ASSUME tree \in Trees
    PROVE  \A n \in Node :
             /\ Is(n, Leaf) \/ Is(n, Wrapper) \/ Is(n, Pair)
             /\ Is(n, Leaf) => Within(n) = {n}
             /\ ~Is(n, Leaf) =>
                  /\ Second(n) \in Node /\ First(n) \in Node
                  /\ Second(n) # n /\ First(n) # n
                  /\ n \in Above(Second(n)) /\ n \in Above(First(n))
                  /\ n \notin Within(First(n)) /\ n \notin Within(Second(n))
                  /\ Within(n) = {n} \cup Within(First(n)) \cup Within(Second(n))
             /\ Is(n, Wrapper) => First(n) = Second(n)
             /\ Is(n, Pair) => First(n) # Second(n) /\ Within(First(n)) \cap Within(Second(n)) = {}
<1>1. /\ Root \in Nat \ {0} /\ Node = 1 .. Root
      /\ \A n \in Node : Width(n) \in Nat \ {0} /\ Shape(n)
  BY TermShape
<1>2. /\ \A n \in Node : n \in Int /\ Start(n) \in Int /\ 1 <= Start(n)
                           /\ Start(n) <= n /\ 1 <= n /\ n <= Root
      /\ \A n, m \in Node : m \in Within(n) <=> Start(n) <= m /\ m <= n
      /\ \A n \in Node : Within(n) \subseteq Node /\ Above(n) \subseteq Node
      /\ \A n, m \in Node : m \in Above(n) <=> n < m /\ Start(m) <= n
  BY Bounds
<1> SUFFICES ASSUME NEW n \in Node
             PROVE  /\ Is(n, Leaf) \/ Is(n, Wrapper) \/ Is(n, Pair)
                    /\ Is(n, Leaf) => Within(n) = {n}
                    /\ ~Is(n, Leaf) =>
                         /\ Second(n) \in Node /\ First(n) \in Node
                         /\ Second(n) # n /\ First(n) # n
                         /\ n \in Above(Second(n)) /\ n \in Above(First(n))
                         /\ n \notin Within(First(n)) /\ n \notin Within(Second(n))
                         /\ Within(n) = {n} \cup Within(First(n)) \cup Within(Second(n))
                    /\ Is(n, Wrapper) => First(n) = Second(n)
                    /\ Is(n, Pair) => First(n) # Second(n) /\ Within(First(n)) \cap Within(Second(n)) = {}
  OBVIOUS
<1>3. Shape(n) /\ Width(n) \in Nat \ {0}
  BY <1>1
<1>4. CASE Is(n, Leaf)
  <2>1. ~Is(n, Wrapper) /\ ~Is(n, Pair)
    BY <1>4, Kinds
  <2>2. Width(n) = 1
    BY <1>3, <2>1 DEF Shape
  <2>3. Within(n) = {n}
    <3>1. n \in Int
      BY <1>2
    <3>2. QED
      BY <2>2, <3>1 DEF Within
  <2>4. QED
    BY <1>4, <2>1, <2>3
<1>5. CASE Is(n, Wrapper)
  <2>1. ~Is(n, Leaf) /\ ~Is(n, Pair)
    BY <1>5, Kinds
  <2>2. n - 1 \in Node /\ Width(n) = Width(n - 1) + 1
    BY <1>3, <1>5, <2>1 DEF Shape
  <2>3. PICK c \in Node : c = n - 1
    BY <2>2
  <2>4. First(n) = c /\ Second(n) = c
    BY <2>1, <2>3 DEF First, Second
  <2>5. n \in Int /\ c \in Int /\ Width(c) \in Int /\ Width(n) \in Int
    BY <1>1, <1>2
  <2>6. Start(n) = Start(c)
    BY <2>2, <2>3, <2>5 DEF Start
  <2>7. c # n /\ n \in Above(c) /\ n \notin Within(c)
    BY <1>2, <2>3, <2>6
  <2>8. Within(n) = {n} \cup Within(c)
    <3>1. ASSUME NEW l \in Node PROVE l \in Within(n) <=> l = n \/ l \in Within(c)
      BY <1>2, <2>3, <2>6
    <3>2. QED
      BY <1>2, <3>1
  <2>9. QED
    BY <1>5, <2>1, <2>4, <2>7, <2>8
<1>6. CASE Is(n, Pair)
  <2>1. ~Is(n, Leaf) /\ ~Is(n, Wrapper)
    BY <1>6, Kinds
  <2>2. /\ n - 1 \in Node /\ n - 1 - Width(n - 1) \in Node
        /\ Width(n) = Width(n - 1) + Width(n - 1 - Width(n - 1)) + 1
    BY <1>3, <1>6, <2>1 DEF Shape
  <2>3. PICK c \in Node : c = n - 1
    BY <2>2
  <2>4. PICK f \in Node : f = n - 1 - Width(c)
    BY <2>2, <2>3
  <2>5. First(n) = f /\ Second(n) = c
    BY <1>6, <2>3, <2>4 DEF First, Second
  <2>6. /\ n \in Int /\ c \in Int /\ f \in Int /\ Width(c) \in Int /\ Width(n) \in Int /\ Width(f) \in Int
        /\ Width(c) > 0 /\ Width(f) > 0
    BY <1>1, <1>2
  <2>7. Width(n) = Width(c) + Width(f) + 1
    BY <2>2, <2>3, <2>4
  <2>8. Start(n) = Start(f) /\ Start(c) = f + 1 /\ f < c /\ c < n
    BY <2>3, <2>4, <2>6, <2>7 DEF Start
  <2>9. Start(f) <= f
    BY <1>2
  <2>10. /\ c # n /\ f # n /\ f # c /\ n \in Above(c) /\ n \in Above(f) /\ n \notin Within(c) /\ n \notin Within(f)
    BY <1>2, <2>6, <2>8, <2>9
  <2>11. Within(n) = {n} \cup Within(f) \cup Within(c)
    <3>1. ASSUME NEW l \in Node PROVE l \in Within(n) <=> l = n \/ l \in Within(f) \/ l \in Within(c)
      <4>1. l \in Int /\ (Start(n) <= l /\ l <= n <=> l = n \/ (Start(n) <= l /\ l <= f) \/ (f + 1 <= l /\ l <= c))
        <5>1. l \in Int /\ Start(n) \in Int /\ Start(n) <= f
          BY <1>2, <2>8, <2>9
        <5>2. QED
          BY <5>1, <2>3, <2>6, <2>8
      <4>2. QED
        BY <1>2, <2>8, <4>1
    <3>2. QED
      BY <1>2, <3>1
  <2>12. Within(f) \cap Within(c) = {}
    <3>1. ASSUME NEW l \in Node PROVE ~(l \in Within(f) /\ l \in Within(c))
      BY <1>2, <2>6, <2>8
    <3>2. QED
      BY <1>2, <3>1
  <2>13. QED
    BY <1>6, <2>1, <2>5, <2>10, <2>11, <2>12
<1>7. QED
  BY <1>3, <1>4, <1>5, <1>6 DEF Shape

(* A node's parent is what it is an operand of; what is above it is the    *)
(* parent and what is above that.                                          *)
LEMMA Parents ==
    ASSUME tree \in Trees
    PROVE  /\ \A c \in Node : c # Root =>
                /\ Parent(c) \in Node /\ ~Is(Parent(c), Leaf) /\ Parent(c) # c
                /\ c = First(Parent(c)) \/ c = Second(Parent(c))
                /\ Above(c) = {Parent(c)} \cup Above(Parent(c))
           /\ \A n \in Node : ~Is(n, Leaf) =>
                /\ First(n) # Root /\ Parent(First(n)) = n
                /\ Second(n) # Root /\ Parent(Second(n)) = n
<1>1. /\ Root \in Node
      /\ \A n \in Node : Within(n) \subseteq Node /\ Above(n) \subseteq Node
      /\ \A n \in Node : n \in Within(n) /\ n \notin Above(n) /\ n \in Within(Root)
      /\ Above(Root) = {}
      /\ \A n, m \in Node : m \in Within(n) <=> m = n \/ n \in Above(m)
      /\ \A l, m, n \in Node : l \in Within(m) /\ m \in Within(n) => l \in Within(n)
      /\ \A m, n \in Node : m \in Within(n) /\ n \in Within(m) => m = n
      /\ \A l, m, n \in Node : l \in Within(m) /\ l \in Within(n) => m \in Within(n) \/ n \in Within(m)
  BY TreeOrder
<1>2. /\ \A n \in Node : n \in Int
      /\ \A n, m \in Node : m \in Above(n) => n < m
      /\ Node \subseteq Nat
  BY Bounds, TermShape
<1>3. ASSUME NEW c \in Node, c # Root
      PROVE  /\ Parent(c) \in Above(c) /\ \A m \in Above(c) : Parent(c) <= m
  <2>1. Root \in Above(c)
    BY <1>1, <1>3
  <2>2. Above(c) \subseteq Nat
    BY <1>1, <1>2
  <2>3. \E p \in Above(c) : \A m \in Above(c) : p <= m
    BY <2>1, <2>2, LeastElement
  <2>4. QED
    BY <2>3 DEF Parent, Min
<1>4. ASSUME NEW c \in Node, c # Root
      PROVE  Above(c) = {Parent(c)} \cup Above(Parent(c))
  <2>1. PICK p \in Node : p = Parent(c)
    BY <1>1, <1>3, <1>4
  <2>2. p \in Above(c) /\ \A m \in Above(c) : p <= m
    BY <1>3, <1>4, <2>1
  <2>3. c \in Within(p)
    BY <1>1, <2>2
  <2>4. ASSUME NEW m \in Node, m \in Above(c) PROVE m = p \/ m \in Above(p)
    <3>1. c \in Within(m)
      BY <1>1, <2>4
    <3>2. m \in Within(p) \/ p \in Within(m)
      BY <1>1, <2>3, <3>1
    <3>3. ASSUME p \in Above(m) PROVE FALSE
      BY <1>2, <2>2, <2>4, <3>3
    <3>4. QED
      BY <1>1, <3>2, <3>3
  <2>5. ASSUME NEW m \in Node, m \in Above(p) PROVE m \in Above(c)
    <3>1. c \in Within(m) /\ c # m
      BY <1>1, <1>2, <2>2, <2>3, <2>5
    <3>2. QED
      BY <1>1, <3>1
  <2>6. QED
    BY <1>1, <2>1, <2>2, <2>4, <2>5
<1>5. ASSUME NEW c \in Node, c # Root
      PROVE  /\ Parent(c) \in Node /\ ~Is(Parent(c), Leaf) /\ Parent(c) # c
             /\ c = First(Parent(c)) \/ c = Second(Parent(c))
  <2>1. PICK p \in Node : p = Parent(c)
    BY <1>1, <1>3, <1>5
  <2>2. p \in Above(c) /\ \A m \in Above(c) : p <= m
    BY <1>3, <1>5, <2>1
  <2>3. c \in Within(p) /\ c # p
    BY <1>1, <2>2
  <2>4. ~Is(p, Leaf)
    BY <2>3, Operands
  <2>5. /\ First(p) \in Node /\ Second(p) \in Node /\ p \in Above(First(p)) /\ p \in Above(Second(p))
        /\ Within(p) = {p} \cup Within(First(p)) \cup Within(Second(p))
    BY <2>4, Operands
  <2>6. ASSUME NEW d \in Node, p \in Above(d), c \in Within(d) PROVE c = d
    <3>1. ASSUME d \in Above(c) PROVE FALSE
      BY <1>2, <2>2, <2>6, <3>1
    <3>2. QED
      BY <1>1, <2>6, <3>1
  <2>7. QED
    BY <2>1, <2>3, <2>4, <2>5, <2>6
<1>6. ASSUME NEW n \in Node, ~Is(n, Leaf), NEW c \in {First(n), Second(n)}
      PROVE  c # Root /\ Parent(c) = n
  <2>1. /\ First(n) \in Node /\ Second(n) \in Node /\ n \in Above(First(n)) /\ n \in Above(Second(n))
        /\ n \notin Within(First(n)) /\ n \notin Within(Second(n))
        /\ Within(n) = {n} \cup Within(First(n)) \cup Within(Second(n))
        /\ Is(n, Wrapper) \/ Is(n, Pair)
        /\ Is(n, Wrapper) => First(n) = Second(n)
        /\ Is(n, Pair) => Within(First(n)) \cap Within(Second(n)) = {}
    BY <1>6, Operands
  <2>2. c \in Node /\ n \in Above(c) /\ n \notin Within(c) /\ c # Root
    BY <1>1, <1>6, <2>1
  <2>3. PICK p \in Node : p = Parent(c)
    BY <2>2, <1>5
  <2>4. p \in Above(c) /\ p <= n
    BY <1>3, <2>2, <2>3
  <2>5. ASSUME p # n PROVE FALSE
    <3>1. p \in Within(n)
      <4>1. c \in Within(p) /\ c \in Within(n)
        BY <1>1, <2>2, <2>4
      <4>2. ASSUME p \in Above(n) PROVE FALSE
        BY <1>2, <2>4, <4>2
      <4>3. QED
        BY <1>1, <4>1, <4>2
    <3>2. PICK d \in {First(n), Second(n)} : p \in Within(d)
      BY <2>1, <2>5, <3>1
    <3>3. d \in Node /\ c \in Within(p) /\ c \in Within(d) /\ c \in Within(c)
      BY <1>1, <2>1, <2>2, <2>4, <3>2
    <3>4. d = c
      BY <1>6, <2>1, <3>2, <3>3
    <3>5. p = c
      BY <1>1, <2>2, <3>2, <3>3, <3>4
    <3>6. QED
      BY <1>1, <2>2, <2>4, <3>5
  <2>6. QED
    BY <2>2, <2>3, <2>5
<1>7. QED
  BY <1>4, <1>5, <1>6

(* The services of a combinator are those of its operands; apply_cfg's is  *)
(* its own.                                                                *)
LEMMA ServicesOf ==
    ASSUME tree \in Trees
    PROVE  \A n \in Node :
             /\ Services(n) \subseteq Within(n)
             /\ IsService(n) => Services(n) = {n}
             /\ ~IsService(n) => Services(n) = Services(First(n)) \cup Services(Second(n))
<1>1. /\ Root \in Node
      /\ \A n \in Node : Within(n) \subseteq Node /\ Above(n) \subseteq Node
      /\ \A n \in Node : n \in Within(n) /\ n \notin Above(n) /\ n \in Within(Root)
      /\ \A n, m \in Node : m \in Within(n) <=> m = n \/ n \in Above(m)
      /\ \A l, m, n \in Node : l \in Within(m) /\ m \in Within(n) => l \in Within(n)
      /\ \A m, n \in Node : m \in Within(n) /\ n \in Within(m) => m = n
      /\ \A l, m, n \in Node : l \in Within(m) /\ l \in Within(n) => m \in Within(n) \/ n \in Within(m)
  BY TreeOrder
<1>2. /\ \A n \in Node : n \in Int
      /\ \A n, m \in Node : m \in Above(n) => n < m
  BY Bounds
(* Services(n), in the order of the tree.                                  *)
<1>3. ASSUME NEW n \in Node, NEW l \in Node, l \in Within(n), NEW m \in Node, m \in Above(l)
      PROVE  m <= n <=> m \in Within(n)
  <2>1. l \in Within(m) /\ l # m
    BY <1>1, <1>3
  <2>2. m \in Within(n) \/ n \in Within(m)
    BY <1>1, <1>3, <2>1
  <2>3. m \in Within(n) => m <= n
    BY <1>1, <1>2
  <2>4. n \in Above(m) \/ n = m \/ m \in Above(n)
    BY <1>1, <2>2
  <2>5. m \in Above(n) => ~(m <= n)
    BY <1>2
  <2>6. QED
    BY <1>1, <2>3, <2>4, <2>5
<1>4. ASSUME NEW n \in Node, NEW l
      PROVE  l \in Services(n) <=>
                /\ l \in Within(n) /\ IsService(l)
                /\ \A m \in Above(l) : m \in Within(n) => ~IsService(m)
  BY <1>1, <1>3 DEF Services
<1>5. ASSUME NEW n \in Node, IsService(n) PROVE Services(n) = {n}
  <2>1. ASSUME NEW l \in Services(n) PROVE l = n
    <3>1. l \in Within(n) /\ l \in Node /\ \A m \in Above(l) : m \in Within(n) => ~IsService(m)
      BY <1>1, <1>4, <2>1
    <3>2. n \notin Above(l)
      BY <1>1, <1>5, <3>1
    <3>3. QED
      BY <1>1, <3>1, <3>2
  <2>2. n \in Services(n)
    <3>1. ASSUME NEW m \in Above(n), m \in Within(n) PROVE FALSE
      BY <1>1, <3>1
    <3>2. QED
      BY <1>1, <1>4, <1>5, <3>1
  <2>3. QED
    BY <2>1, <2>2
<1>6. ASSUME NEW n \in Node, ~IsService(n)
      PROVE  Services(n) = Services(First(n)) \cup Services(Second(n))
  <2>1. PICK f \in Node, s \in Node :
            /\ f = First(n) /\ s = Second(n)
            /\ n \in Above(f) /\ n \in Above(s) /\ n # f /\ n # s
            /\ n \notin Within(f) /\ n \notin Within(s)
            /\ Within(n) = {n} \cup Within(f) \cup Within(s)
            /\ f = s \/ Within(f) \cap Within(s) = {}
    <3>1. ~Is(n, Leaf)
      BY <1>6, Kinds
    <3>2. QED
      BY <1>6, <3>1, Operands
  <2>2. ASSUME NEW c \in {f, s} PROVE Services(c) \subseteq Services(n)
    <3>1. ASSUME NEW l \in Services(c) PROVE l \in Services(n)
      <4>1. l \in Within(c) /\ IsService(l) /\ \A m \in Above(l) : m \in Within(c) => ~IsService(m)
        BY <1>4, <2>1, <3>1
      <4>2. l \in Within(n) /\ l \in Node
        BY <1>1, <2>1, <4>1
      <4>3. ASSUME NEW m \in Above(l), m \in Within(n) PROVE ~IsService(m)
        <5>1. m \in Node /\ l \in Within(m)
          BY <1>1, <4>2, <4>3
        <5>2. m = n \/ m \in Within(c) \/ c \in Within(m)
          BY <1>1, <2>1, <4>1, <5>1
        <5>3. ASSUME m # n, m \notin Within(c), c \in Within(m) PROVE FALSE
          <6>1. PICK d \in {f, s} : m \in Within(d)
            BY <2>1, <4>3, <5>3
          <6>2. c \in Within(d) /\ c \in Within(c)
            BY <1>1, <2>1, <5>1, <5>3, <6>1
          <6>3. c = d
            BY <2>1, <6>2
          <6>4. QED
            BY <5>3, <6>1, <6>3
        <5>4. QED
          BY <1>6, <4>1, <5>2, <5>3
      <4>4. QED
        BY <1>4, <4>1, <4>2, <4>3
    <3>2. QED
      BY <3>1
  <2>3. ASSUME NEW l \in Services(n) PROVE l \in Services(f) \cup Services(s)
    <3>1. l \in Within(n) /\ IsService(l) /\ \A m \in Above(l) : m \in Within(n) => ~IsService(m)
      BY <1>4, <2>3
    <3>2. l # n
      BY <1>6, <3>1
    <3>3. PICK c \in {f, s} : l \in Within(c)
      BY <2>1, <3>1, <3>2
    <3>4. \A m \in Above(l) : m \in Within(c) => ~IsService(m)
      BY <2>1, <3>1
    <3>5. QED
      BY <1>4, <2>1, <3>1, <3>3, <3>4
  <2>4. QED
    BY <2>1, <2>2, <2>3
<1>7. ASSUME NEW n \in Node PROVE Services(n) \subseteq Within(n)
  BY DEF Services
<1>8. QED
  BY <1>5, <1>6, <1>7

(* The constructors make terms of terms.                                   *)
LEMMA OneIsTerm == \A kind \in Leaf : Term(One(kind))
<1> SUFFICES ASSUME NEW kind \in Leaf PROVE Term(One(kind))
  OBVIOUS
<1> DEFINE node == [kind |-> kind, size |-> 1]
<1>1. node \in NodeKind /\ node.kind \in Leaf /\ node.size = 1
  BY DEF NodeKind
<1> HIDE DEF node
<1>2. <<node>> \in Seq(NodeKind) /\ Len(<<node>>) = 1 /\ <<node>>[1] = node /\ DOMAIN <<node>> = {1} /\ <<node>> # <<>>
  BY <1>1
<1>3. One(kind) = <<node>>
  BY DEF One, node
<1>4. QED
  BY <1>1, <1>2, <1>3 DEF Term, Fits

-----------------------------------------------------------------------------
(* The terms.                                                               *)

(* What is added at the end of t, by its parts.                            *)
LEMMA OverIsAppended ==
    ASSUME NEW t \in Seq(NodeKind), NEW kind \in Leaf \cup Wrapper \cup Pair
    PROVE  /\ Over(t, kind) \in Seq(NodeKind) /\ Over(t, kind) # <<>>
           /\ Len(Over(t, kind)) = Len(t) + 1 /\ Len(t) \in Nat
           /\ \A n \in 1 .. Len(t) : Over(t, kind)[n] = t[n]
           /\ Over(t, kind)[Len(t) + 1].kind = kind
           /\ Over(t, kind)[Len(t) + 1].size = Len(t) + 1
           /\ DOMAIN Over(t, kind) = 1 .. Len(t) + 1
<1> DEFINE node == [kind |-> kind, size |-> Len(t) + 1]
<1>1. Len(t) \in Nat
  OBVIOUS
<1>2. node \in NodeKind /\ node.kind = kind /\ node.size = Len(t) + 1
  BY <1>1 DEF NodeKind
<1>3. Over(t, kind) = Append(t, node)
  BY DEF Over
<1> HIDE DEF node
<1>4. /\ Append(t, node) \in Seq(NodeKind) /\ Len(Append(t, node)) = Len(t) + 1
      /\ \A n \in 1 .. Len(t) : Append(t, node)[n] = t[n]
      /\ Append(t, node)[Len(t) + 1] = node
      /\ DOMAIN Append(t, node) = 1 .. Len(t) + 1
      /\ Append(t, node) # <<>>
  BY <1>2
<1>5. QED
  BY <1>1, <1>2, <1>3, <1>4

(* A term is not empty, and its last node is over all of it.                *)
LEMMA TermParts ==
    ASSUME NEW t, Term(t)
    PROVE  /\ t \in Seq(NodeKind) /\ t # <<>> /\ Len(t) \in Nat \ {0} /\ DOMAIN t = 1 .. Len(t)
           /\ t[Len(t)].size = Len(t)
<1>1. t \in Seq(NodeKind) /\ t # <<>> /\ t[Len(t)].size = Len(t)
  BY DEF Term
<1>2. QED
  BY <1>1

(* A combinator with one operand, over a term, makes a term.                *)
LEMMA WrapIsTerm ==
    ASSUME NEW t, Term(t), NEW kind \in Wrapper
    PROVE  Term(Over(t, kind))
<1>1. /\ t \in Seq(NodeKind) /\ t # <<>> /\ Len(t) \in Nat \ {0} /\ DOMAIN t = 1 .. Len(t)
      /\ t[Len(t)].size = Len(t)
  BY TermParts
<1>2. PICK o, a : o = Over(t, kind) /\ a = Len(t)
  OBVIOUS
<1>3. /\ o \in Seq(NodeKind) /\ o # <<>> /\ Len(o) = a + 1
      /\ \A n \in 1 .. a : o[n] = t[n]
      /\ o[a + 1].kind = kind /\ o[a + 1].size = a + 1
      /\ DOMAIN o = 1 .. a + 1 /\ a \in Nat \ {0} /\ t[a].size = a
  <2>1. kind \in Leaf \cup Wrapper \cup Pair
    OBVIOUS
  <2>2. /\ Over(t, kind) \in Seq(NodeKind) /\ Over(t, kind) # <<>>
        /\ Len(Over(t, kind)) = Len(t) + 1
        /\ \A n \in 1 .. Len(t) : Over(t, kind)[n] = t[n]
        /\ Over(t, kind)[Len(t) + 1].kind = kind
        /\ Over(t, kind)[Len(t) + 1].size = Len(t) + 1
        /\ DOMAIN Over(t, kind) = 1 .. Len(t) + 1
    BY <1>1, <2>1, OverIsAppended
  <2>3. QED
    BY <1>1, <1>2, <2>2
<1>4. ASSUME NEW n \in 1 .. a PROVE Fits(o, n)
  <2>1. o[n] = t[n] /\ (n > 1 => o[n - 1] = t[n - 1]) /\ \A first \in 1 .. n - 2 : o[first] = t[first]
    BY <1>3
  <2>2. Fits(t, n)
    BY <1>1, <1>2 DEF Term
  <2>3. QED
    BY <2>1, <2>2 DEF Fits
<1>5. Fits(o, a + 1)
  BY <1>3 DEF Fits
<1>6. \A n \in DOMAIN o : Fits(o, n)
  BY <1>3, <1>4, <1>5
<1>7. QED
  BY <1>2, <1>3, <1>6 DEF Term

(* Two sequences one after the other and what is put over both.            *)
LEMMA JoinFits ==
    ASSUME NEW t, NEW u, NEW o, NEW a \in Nat \ {0}, NEW b \in Nat \ {0},
           \A n \in 1 .. a : o[n] = t[n] /\ Fits(t, n),
           \A n \in 1 .. b : o[a + n] = u[n] /\ Fits(u, n) /\ u[n].size \in Nat,
           t[a].size = a, u[b].size = b,
           o[a + b + 1].kind \in Pair, o[a + b + 1].size = a + b + 1
    PROVE  \A n \in 1 .. a + b + 1 : Fits(o, n)
<1>1. ASSUME NEW n \in 1 .. a PROVE Fits(o, n)
  <2>1. Fits(t, n) /\ o[n] = t[n] /\ (n > 1 => o[n - 1] = t[n - 1]) /\ \A first \in 1 .. n - 2 : o[first] = t[first]
    OBVIOUS
  <2>2. QED
    BY <2>1 DEF Fits
<1>2. ASSUME NEW m \in 1 .. b PROVE Fits(o, a + m)
  <2>1. /\ o[a + m] = u[m] /\ Fits(u, m) /\ a + m > 1
        /\ m > 1 => o[a + m - 1] = u[m - 1] /\ u[m - 1].size \in Nat
        /\ \A first \in 1 .. m - 2 : o[a + first] = u[first]
    <3>1. m > 1 => m - 1 \in 1 .. b /\ a + (m - 1) = a + m - 1
      OBVIOUS
    <3>2. 1 .. m - 2 \subseteq 1 .. b
      OBVIOUS
    <3>3. QED
      BY <3>1, <3>2
  <2>2. CASE u[m].kind \in Pair /\ m > 1
             /\ \E first \in 1 .. m - 2 :
                   /\ first = m - 1 - u[m - 1].size
                   /\ u[m].size = u[m - 1].size + u[first].size + 1
    <3>1. PICK first \in 1 .. m - 2 :
              /\ first = m - 1 - u[m - 1].size
              /\ u[m].size = u[m - 1].size + u[first].size + 1
      BY <2>2
    <3>2. PICK x \in 1 .. a + m - 2 : x = a + first
      OBVIOUS
    <3>3. x = a + m - 1 - u[m - 1].size
      BY <2>1, <2>2, <3>1, <3>2
    <3>4. /\ x = a + m - 1 - o[a + m - 1].size /\ o[a + m].size = o[a + m - 1].size + o[x].size + 1
          /\ o[a + m].kind \in Pair
      BY <2>1, <2>2, <3>1, <3>2, <3>3
    <3>5. QED
      BY <2>1, <3>4 DEF Fits
  <2>3. CASE \/ u[m].kind \in Leaf /\ u[m].size = 1
             \/ u[m].kind \in Wrapper /\ m > 1 /\ u[m].size = u[m - 1].size + 1
    BY <2>1, <2>3 DEF Fits
  <2>4. QED
    BY <2>1, <2>2, <2>3 DEF Fits
<1>3. Fits(o, a + b + 1)
  <2>1. PICK n \in Nat : n = a + b + 1
    OBVIOUS
  <2>2. n - 1 = a + b /\ n > 1 /\ a \in 1 .. n - 2 /\ a = n - 1 - b /\ b \in 1 .. b /\ a \in 1 .. a
    BY <2>1
  <2>3. o[n - 1].size = b /\ o[a].size = a
    BY <2>2
  <2>4. Fits(o, n)
    BY <2>1, <2>2, <2>3 DEF Fits
  <2>5. QED
    BY <2>1, <2>4
<1>4. ASSUME NEW n \in 1 .. a + b + 1 PROVE Fits(o, n)
  <2>1. n \in 1 .. a \/ n = a + b + 1 \/ n - a \in 1 .. b
    OBVIOUS
  <2>2. CASE n - a \in 1 .. b
    <3>1. PICK m \in 1 .. b : m = n - a
      BY <2>2
    <3>2. n = a + m
      BY <3>1
    <3>3. QED
      BY <1>2, <3>2
  <2>3. QED
    BY <1>1, <1>3, <2>1, <2>2
<1>5. QED
  BY <1>4

(* A combinator with two operands, over two terms, makes a term.            *)
LEMMA JoinIsTerm ==
    ASSUME NEW t, Term(t), NEW u, Term(u), NEW kind \in Pair
    PROVE  Term(Over(t \o u, kind))
<1>1. /\ t \in Seq(NodeKind) /\ Len(t) \in Nat \ {0} /\ DOMAIN t = 1 .. Len(t) /\ t[Len(t)].size = Len(t)
      /\ u \in Seq(NodeKind) /\ Len(u) \in Nat \ {0} /\ DOMAIN u = 1 .. Len(u) /\ u[Len(u)].size = Len(u)
  BY TermParts
<1>2. /\ t \o u \in Seq(NodeKind) /\ Len(t \o u) = Len(t) + Len(u)
      /\ \A n \in 1 .. Len(t) : (t \o u)[n] = t[n]
      /\ \A n \in 1 .. Len(u) : (t \o u)[Len(t) + n] = u[n]
  BY <1>1
<1>3. PICK j, o, a, b : j = t \o u /\ o = Over(j, kind) /\ a = Len(t) /\ b = Len(u)
  OBVIOUS
<1>4. /\ j \in Seq(NodeKind) /\ Len(j) = a + b /\ a \in Nat \ {0} /\ b \in Nat \ {0}
      /\ \A n \in 1 .. a : j[n] = t[n]
      /\ \A n \in 1 .. b : j[a + n] = u[n]
      /\ t[a].size = a /\ u[b].size = b
      /\ DOMAIN t = 1 .. a /\ DOMAIN u = 1 .. b
  BY <1>1, <1>2, <1>3
<1>5. /\ o \in Seq(NodeKind) /\ o # <<>> /\ Len(o) = a + b + 1
      /\ \A n \in 1 .. a + b : o[n] = j[n]
      /\ o[a + b + 1].kind = kind /\ o[a + b + 1].size = a + b + 1
      /\ DOMAIN o = 1 .. a + b + 1
  <2>1. kind \in Leaf \cup Wrapper \cup Pair
    OBVIOUS
  <2>2. /\ Over(j, kind) \in Seq(NodeKind) /\ Over(j, kind) # <<>>
        /\ Len(Over(j, kind)) = Len(j) + 1
        /\ \A n \in 1 .. Len(j) : Over(j, kind)[n] = j[n]
        /\ Over(j, kind)[Len(j) + 1].kind = kind
        /\ Over(j, kind)[Len(j) + 1].size = Len(j) + 1
        /\ DOMAIN Over(j, kind) = 1 .. Len(j) + 1
    BY <1>4, <2>1, OverIsAppended
  <2>3. QED
    BY <1>3, <1>4, <2>2
<1>6. \A n \in 1 .. a : o[n] = t[n] /\ Fits(t, n)
  <2>1. \A n \in 1 .. a : Fits(t, n)
    BY <1>4 DEF Term
  <2>2. QED
    BY <1>4, <1>5, <2>1
<1>7. \A n \in 1 .. b : o[a + n] = u[n] /\ Fits(u, n) /\ u[n].size \in Nat
  <2>1. \A n \in 1 .. b : Fits(u, n)
    BY <1>4 DEF Term
  <2>2. \A n \in 1 .. b : a + n \in 1 .. a + b
    BY <1>4
  <2>3. \A n \in 1 .. b : u[n] \in NodeKind
    BY <1>1, <1>3
  <2>4. QED
    BY <1>4, <1>5, <2>1, <2>2, <2>3 DEF NodeKind
<1>8. \A n \in DOMAIN o : Fits(o, n)
  BY <1>4, <1>5, <1>6, <1>7, JoinFits
<1>9. QED
  BY <1>3, <1>5, <1>8 DEF Term

(* A pipeline is taken apart into the term it holds.                       *)
LEMMA FrontOfOver ==
    ASSUME NEW t, Term(t), NEW kind \in Wrapper
    PROVE  Front(Over(t, kind)) = t
<1>1. t \in Seq(NodeKind) /\ Len(t) \in Nat
  BY TermParts
<1>2. PICK node : Over(t, kind) = Append(t, node) /\ node \in NodeKind
  <2>1. [kind |-> kind, size |-> Len(t) + 1] \in NodeKind
    BY <1>1 DEF NodeKind
  <2>2. QED
    BY <2>1 DEF Over
<1>3. /\ Append(t, node) \in Seq(NodeKind) /\ Len(Append(t, node)) = Len(t) + 1
      /\ \A n \in 1 .. Len(t) : Append(t, node)[n] = t[n]
  BY <1>1, <1>2
<1>4. PICK o : o = Append(t, node)
  OBVIOUS
<1>5. /\ o \in Seq(NodeKind) /\ Len(o) - 1 = Len(t) /\ \A n \in 1 .. Len(t) : o[n] = t[n]
  BY <1>1, <1>3, <1>4
<1>6. SubSeq(o, 1, Len(t)) = t
  BY <1>1, <1>5
<1>7. QED
  BY <1>2, <1>4, <1>5, <1>6 DEF Front

(* Whatever the constructors of the crate are applied to, in whatever       *)
(* order, the service they compose is a term, so that every tree of         *)
(* services a program can put together is one that the theorems below are   *)
(* about.                                                                   *)
THEOREM ComposedIsTerm ==
    ASSUME NEW t, Term(t), NEW u, Term(u)
    PROVE  /\ Term(fn_factory) /\ Term(fn_factory_with_config) /\ Term(apply_cfg) /\ Term(fn_service)
           /\ Term(and_then(t, u)) /\ Term(then(t, u))
           /\ Term(map(t)) /\ Term(map_err(t)) /\ Term(map_init_err(t))
           /\ Term(map_config(t)) /\ Term(unit_config(t))
           /\ Term(apply_fn_factory(t)) /\ Term(apply_cfg_factory(t)) /\ Term(trace(t))
           /\ Term(apply(t)) /\ Term(apply_mapped(t))
           /\ Term(boxed_factory(t)) /\ Term(shared(t)) /\ Term(pipeline_factory(t))
           /\ Term(pipeline_and_then(pipeline_factory(t), u))
           /\ Term(pipeline_then(pipeline_factory(t), u))
           /\ \A kind \in Wrapper : Term(pipeline_map(pipeline_factory(t), kind))
<1>1. Term(fn_factory) /\ Term(fn_factory_with_config) /\ Term(apply_cfg) /\ Term(fn_service)
  BY OneIsTerm DEF Leaf, fn_factory, fn_factory_with_config, apply_cfg, fn_service
<1>2. Term(and_then(t, u)) /\ Term(then(t, u))
  BY JoinIsTerm DEF Pair, and_then, then
<1>3. \A kind \in Wrapper : Term(Over(t, kind))
  BY WrapIsTerm
<1>4. /\ Term(map(t)) /\ Term(map_err(t)) /\ Term(map_init_err(t))
      /\ Term(map_config(t)) /\ Term(unit_config(t))
      /\ Term(apply_fn_factory(t)) /\ Term(apply_cfg_factory(t)) /\ Term(trace(t))
      /\ Term(apply(t)) /\ Term(apply_mapped(t))
      /\ Term(boxed_factory(t)) /\ Term(shared(t)) /\ Term(pipeline_factory(t))
  BY <1>3 DEF Wrapper, Transforms, map, map_err, map_init_err, map_config, unit_config, apply_fn_factory,
     apply_cfg_factory, trace, apply, apply_mapped, boxed_factory, shared, pipeline_factory
<1>5. Front(pipeline_factory(t)) = t
  BY FrontOfOver DEF Wrapper, pipeline_factory
<1>6. \A s : Term(s) => Term(pipeline_factory(s))
  BY WrapIsTerm DEF Wrapper, pipeline_factory
<1>7. /\ Term(pipeline_and_then(pipeline_factory(t), u)) /\ Term(pipeline_then(pipeline_factory(t), u))
  BY <1>2, <1>5, <1>6 DEF pipeline_and_then, pipeline_then
<1>8. \A kind \in Wrapper : Term(pipeline_map(pipeline_factory(t), kind))
  BY <1>3, <1>5, <1>6 DEF pipeline_map
<1>9. QED
  BY <1>1, <1>2, <1>4, <1>7, <1>8

-----------------------------------------------------------------------------
(* The invariant.                                                           *)

(* What polls what it was applied to: everything but a leaf.                *)
Combinator(n) == ~Is(n, Leaf)

(* While a service is made: the future at n is a user's, by the states s.  *)
Turn(n, s) ==
    \/ Is(n, Leaf)
    \/ Is(n, Transforms) /\ s[n] = "B"
    \/ Is(n, {"apply_cfg"}) /\ s[n] = "C"

(* apply_cfg waits for the service it has made.                            *)
Waits(n, s) == Is(n, {"apply_cfg"}) /\ s[n] = "B"

(* p has the service that its operand c made, and polls c no more.         *)
Made(p, c, s, h) ==
    /\ Combinator(p) /\ c \in {First(p), Second(p)}
    /\ \/ Is(p, Pair) /\ c \in h
       \/ Is(p, Transforms) /\ s[p] = "B"
       \/ Is(p, {"apply_cfg"}) /\ s[p] \in {"B", "C"}

(* What may not be polled again ...                                        *)
Finished(n, s, f, h) ==
    \/ Turn(n, s) /\ f[n] # "live"
    \/ Is(n, Pair) /\ {First(n), Second(n)} \subseteq h

(* ... is in a part that has been made or has just answered.               *)
Covered(n, c, tag, m, s, h) ==
    \/ \E p, d \in Node : Made(p, d, s, h) /\ n \in Within(d)
    \/ tag = "ok" /\ m = "create" /\ n \in Within(c)

(* Nothing in S will need the task again; and what does holds its waker.   *)
Settled(S, s, f) == \A n \in S : f[n] # "live" /\ ~Waits(n, s)
Quiet(S, s, f, said, waits) ==
    \A n \in S :
        /\ f[n] = "live" => n \in waits
        /\ Waits(n, s) => Services(Second(n)) \subseteq said \cup waits

(* No combinator that consists of services stands between n and p. *)
Direct(n, p) == \A k \in Above(n) : k \in Within(p) => ~IsService(k)

(* Where the task is, and the values its variables can have then.           *)
ControlInv ==
    /\ tree \in Trees
    /\ job \in {"start", "create", "made", "ready", "callable", "call", "end"}
    /\ mode \in {"create", "ready", "call"}
    /\ cur \in Node \cup {0}
    /\ ans.tag \in {"none", "req"} \cup Returned
    /\ st \in [Node -> {"A", "B", "C"}]
    /\ fut \in [Node -> {"none", "live", "done"}]
    /\ job \notin {"create", "ready", "call"} => cur = 0 /\ ~woken /\ regs = {}
    /\ job \notin {"create", "call"} => \A n \in Node : fut[n] = "none"
    /\ job = "start" => have = {} /\ \A n \in Node : st[n] = "A"
    /\ cur = 0 => ans = None
    /\ cur # 0 => mode = job \/ (job = "create" /\ mode = "ready")
    /\ ans.tag = "req" => job = "call"

(* A readiness check does not go below a service. *)
Shallow == job = "ready" /\ cur # 0 => \A k \in Above(cur) : ~IsService(k)

(* What a walk that asks for readiness has heard when it is at c and has   *)
(* been answered tag: the first halves of the pairs it is below the second *)
(* of have been asked.                                                     *)
Heard(c, tag, said, waits, not) ==
    /\ \A p \in Above(c) :
          Is(p, Pair) /\ c \in Within(Second(p)) /\ Direct(c, p) =>
              /\ Services(First(p)) \subseteq said \cup waits
              /\ p \notin not => Services(First(p)) \subseteq said
    /\ tag = "ok" => Services(c) \subseteq said
    /\ tag = "pending" => Services(c) \subseteq said \cup waits

(* The above, of a walk that asks for readiness.                            *)
AskInv == cur # 0 /\ mode = "ready" => Heard(cur, ans.tag, asked, regs, unready)

(* A task that sleeps for want of readiness has asked every service, and    *)
(* what is ready has been answered so by every service.                     *)
ReadyInv ==
    /\ job = "ready" /\ cur = 0 /\ ~woken => Services(Root) \subseteq asked \cup regs
    /\ job \in {"callable", "call"} => Services(Root) \subseteq asked

(* The parts of a service that is being made.                              *)
Parts(s, f, h, said) ==
    /\ \A n \in Node : f[n] = "live" => Turn(n, s)
    /\ \A n \in Node : Is(n, {"apply_cfg"}) /\ s[n] = "C" => Services(Second(n)) \subseteq said
    /\ \A p, d \in Node : Made(p, d, s, h) => Settled(Within(d), s, f)

(* The walk asks, below h, the service that h has.                         *)
Host(n, c, s, h) ==
    /\ n \in Above(c) /\ Waits(n, s)
    /\ \A k \in Above(c) : k \in Within(n) /\ k # n => ~IsService(k)
    /\ \A p, d \in Node : Made(p, d, s, h) => n \notin Within(d)

(* The walk does not come to what has been made.                           *)
Place(c, tag, m, s, f, h) ==
    /\ c # 0 /\ m = "create" => \A p, d \in Node : Made(p, d, s, h) => c \notin Within(d)
    /\ c # 0 /\ m = "ready" => \E n \in Node : Host(n, c, s, h)
    /\ tag # "err" => \A n \in Node : Finished(n, s, f, h) => Covered(n, c, tag, m, s, h)

(* What the walk has left behind holds the waker.                          *)
LeftBehind(c, tag, m, s, f, said, waits, woke) ==
    /\ c # 0 => \A p \in Above(c) : Is(p, Pair) /\ c \in Within(Second(p)) =>
                    Quiet(Within(First(p)), s, f, said, waits)
    /\ m = "create" /\ tag = "ok" => Settled(Within(c), s, f)
    /\ m = "create" /\ tag = "pending" => Quiet(Within(c), s, f, said, waits)
    /\ c = 0 /\ ~woke => Quiet(Node, s, f, said, waits)

(* The above, of a service that is being made.                              *)
MakeInv ==
    job = "create" =>
        /\ Parts(st, fut, have, asked)
        /\ Place(cur, ans.tag, mode, st, fut, have)
        /\ LeftBehind(cur, ans.tag, mode, st, fut, asked, regs, woken)

(* The nodes a call can be in: in the first or second half of the pairs    *)
(* above, as the states s of their futures say, and not below a service.   *)
OnPath(n, s) ==
    \A p \in Above(n) :
        /\ ~IsService(p)
        /\ Is(p, Pair) => n \in Within(IF s[p] = "A" THEN First(p) ELSE Second(p))

(* The pairs in S have not begun their second half.                         *)
Unstarted(S, s) == \A p \in S : Is(p, Pair) => s[p] = "A"

(* One user's future is live, below the walk, or the call is on its way    *)
(* from one to the next.                                                   *)
InCall(c, tag, s, f, waits, woke) ==
    /\ \A n \in Node : f[n] = "live" => IsService(n) /\ OnPath(n, s)
    /\ c # 0 => OnPath(c, s)
    /\ \A p \in Node : Is(p, Pair) /\ s[p] = "A" => Unstarted(Within(Second(p)), s)
    /\ tag \in {"none", "pending"} => \E n \in Node : f[n] = "live"
    /\ tag \in {"ok", "err", "req"} => \A n \in Node : f[n] # "live"
    /\ c # 0 /\ tag = "none" => \A n \in Node : f[n] = "live" => n \in Within(c)
    /\ tag = "req" => Unstarted(Within(c), s)
    /\ tag = "pending" \/ (c = 0 /\ ~woke) => \A n \in Node : f[n] = "live" => n \in waits

(* The above, of a call.                                                    *)
CallInv == job = "call" => InCall(cur, ans.tag, st, fut, regs, woken)

(* What is above an operand is its combinator and what is above that.       *)
LEMMA AboveOperands ==
    ASSUME tree \in Trees
    PROVE  \A n \in Node : Combinator(n) => /\ Above(First(n)) = {n} \cup Above(n)
                                             /\ Above(Second(n)) = {n} \cup Above(n)
<1> SUFFICES ASSUME NEW n \in Node, Combinator(n), NEW c \in {First(n), Second(n)}
             PROVE  Above(c) = {n} \cup Above(n)
  OBVIOUS
<1>1. c \in Node /\ c # Root /\ Parent(c) = n
  BY Operands, Parents DEF Combinator
<1>2. QED
  BY <1>1, Parents

(* Once assembled a service keeps its shape: no step changes the tree.      *)
LEMMA TreeStays == [Next]_vars => tree' = tree
BY DEF Next, vars, NewService, Assemble, StartReady, StartCall, Walk, StartPoll, Return, Wake, Descend,
       CallOperand, CallService, UserPending, UserEnds, Forward, NewTransform, ConfigFactory, ConfigReady,
       AndThenCall, AndThenReady, AndThenCreate, ThenCall, ThenReady, ThenCreate, PairCreate, PairReady, PairCall

(* What is defined from the tree alone stays as it is with it.              *)
LEMMA SameTree ==
    ASSUME tree' = tree
    PROVE  /\ Node' = Node /\ Root' = Root
           /\ \A n : /\ Within(n)' = Within(n) /\ Above(n)' = Above(n)
                     /\ First(n)' = First(n) /\ Second(n)' = Second(n) /\ Parent(n)' = Parent(n)
                     /\ Services(n)' = Services(n) /\ IsService(n)' = IsService(n)
                     /\ Is(n, Leaf)' = Is(n, Leaf) /\ Is(n, Pair)' = Is(n, Pair)
                     /\ Is(n, Wrapper)' = Is(n, Wrapper)
                     /\ Is(n, Transforms)' = Is(n, Transforms)
                     /\ Is(n, {"apply_cfg"})' = Is(n, {"apply_cfg"})
BY DEF Node, Root, Within, Above, First, Second, Parent, Services, IsService, Is, Width

-----------------------------------------------------------------------------
(* The order of polls.                                                      *)

(* A combinator polls its operand, from the walk down: which one it is and  *)
(* what stays as it was.                                                    *)
LEMMA Descends ==
    ASSUME ControlInv, NEW n \in Node, Descend(n)
    PROVE  /\ cur = n /\ ans = None /\ ~OwnTurn(n) /\ Combinator(n)
           /\ cur' = Operand(n) /\ ans' = None /\ Operand(n) \in Node
           /\ Operand(n) \in {First(n), Second(n)}
           /\ Is(n, Pair) /\ mode = "create" => Operand(n) = IF First(n) \in have THEN Second(n) ELSE First(n)
           /\ Is(n, Pair) /\ mode = "ready" => Operand(n) = First(n)
           /\ Is(n, Pair) /\ mode = "call" => Operand(n) = IF st[n] = "A" THEN First(n) ELSE Second(n)
           /\ mode' = IF Waits(n, st) THEN "ready" ELSE mode
           /\ Waits(n, st) => mode = "create"
           /\ mode # "create" => ~IsService(n)
           /\ Above(Operand(n)) = {n} \cup Above(n)
           /\ unready' = unready \ {n}
           /\ UNCHANGED <<tree, job, st, have, fut, arg, regs, asked, got, pends, woken, requests>>
<1>1. /\ cur = n /\ ans = None /\ ~OwnTurn(n)
      /\ cur' = Operand(n) /\ ans' = None
      /\ mode' = IF Waits(n, st) THEN "ready" ELSE mode
      /\ unready' = unready \ {n}
      /\ UNCHANGED <<tree, job, st, have, fut, arg, regs, asked, got, pends, woken, requests>>
  BY DEF Descend, Poll, user, Waits
<1>2. Combinator(n)
  BY <1>1 DEF OwnTurn, Combinator
<1>3. tree \in Trees /\ mode \in {"create", "ready", "call"}
  BY DEF ControlInv
<1>4. /\ First(n) \in Node /\ Second(n) \in Node
      /\ ~Is(n, Pair) => First(n) = Second(n)
  BY <1>2, <1>3, Operands DEF Combinator
<1>5. ~Is(n, Pair) => Operand(n) = Second(n)
  BY DEF Operand, Inner, Second
<1>6. Is(n, Pair) /\ mode = "create" => Operand(n) = IF First(n) \in have THEN Second(n) ELSE First(n)
  BY DEF Operand, PollPairFactory
<1>7. Is(n, Pair) /\ mode = "ready" => Operand(n) = First(n)
  BY DEF Operand
<1>8. Is(n, Pair) /\ mode = "call" => Operand(n) = IF st[n] = "A" THEN First(n) ELSE Second(n)
  BY DEF Operand
<1>9. Operand(n) \in {First(n), Second(n)}
  BY <1>3, <1>5, <1>6, <1>7, <1>8
<1>10. (Waits(n, st) => mode = "create") /\ (mode # "create" => ~IsService(n))
  BY <1>1, Kinds DEF OwnTurn, Configuring, Waits
<1>11. Above(Operand(n)) = {n} \cup Above(n)
  BY <1>2, <1>3, <1>4, <1>9, Parents DEF Combinator
<1>12. QED
  BY <1>1, <1>2, <1>4, <1>6, <1>7, <1>8, <1>9, <1>10, <1>11

(* The walk comes up from an operand with an answer.                        *)
LEMMA Returns ==
    ASSUME ControlInv, NEW p \in Node, Up(p)
    PROVE  /\ cur \in Node /\ cur # Root /\ p = Parent(cur) /\ ans.tag \in Returned
           /\ Combinator(p) /\ cur \in {First(p), Second(p)}
           /\ First(p) \in Node /\ Second(p) \in Node
           /\ Above(cur) = {p} \cup Above(p) /\ p # cur
           /\ Within(p) = {p} \cup Within(First(p)) \cup Within(Second(p))
           /\ Is(p, Wrapper) => First(p) = cur /\ Second(p) = cur
           /\ Is(p, Wrapper) \/ Is(p, Pair)
<1>1. cur \in Node /\ cur # Root /\ p = Parent(cur) /\ ans.tag \in Returned /\ tree \in Trees
  BY DEF Up, ControlInv
<1>2. /\ ~Is(p, Leaf) /\ p # cur /\ cur \in {First(p), Second(p)}
      /\ Above(cur) = {p} \cup Above(p)
  BY <1>1, Parents
<1>3. QED
  BY <1>1, <1>2, Operands DEF Combinator

(* A task begins in a state of control.                                     *)
LEMMA ControlInit == Init => ControlInv
<1> SUFFICES ASSUME Init PROVE ControlInv
  OBVIOUS
<1>1. ans = None /\ ans.tag = "none"
  BY DEF Init, None, Answer
<1>2. tree \in Trees /\ Root \in Node
  BY TreeOrder DEF Init
<1>3. QED
  BY <1>1, <1>2 DEF Init, ControlInv

(* What a combinator makes of an answer has its tag, but for a pair whose  *)
(* halves disagree.                                                        *)
LEMMA Tags ==
    ASSUME NEW p
    PROVE  /\ None.tag = "none" /\ Pending.tag = "pending"
           /\ \A v : Ok(v).tag = "ok" /\ Err(v).tag = "err" /\ Req(v).tag = "req"
           /\ \A t, v : Answer(t, v).tag = t
           /\ Mapped(p).tag = ans.tag
BY DEF None, Pending, Ok, Err, Req, Answer, Mapped

(* Every step of the task keeps to the order of polls.                      *)
LEMMA ControlStep == ControlInv /\ Shallow /\ [Next]_vars => ControlInv'
<1> SUFFICES ASSUME ControlInv, Shallow, [Next]_vars PROVE ControlInv'
  OBVIOUS
<1>1. /\ tree \in Trees /\ Root \in Node /\ 0 \notin Node
      /\ \A n : /\ None.tag = "none" /\ Pending.tag = "pending"
                /\ \A v : Ok(v).tag = "ok" /\ Err(v).tag = "err" /\ Req(v).tag = "req"
                /\ \A t, v : Answer(t, v).tag = t
                /\ Mapped(n).tag = ans.tag
  BY Tags, TreeOrder, TermShape DEF ControlInv
<1>2. tree' = tree
  BY TreeStays
<1>3. Node' = Node
  BY <1>2, SameTree
<1>4. CASE UNCHANGED vars
  BY <1>3, <1>4 DEF ControlInv, vars, walk, user
<1>5. CASE NewService
  BY <1>1, <1>2, <1>3, <1>5 DEF ControlInv, NewService
<1>6. CASE Assemble
  BY <1>1, <1>2, <1>3, <1>6 DEF ControlInv, Assemble, walk, user
<1>7. CASE StartReady
  BY <1>1, <1>2, <1>3, <1>7 DEF ControlInv, StartReady, walk
<1>8. CASE StartCall
  BY <1>1, <1>2, <1>3, <1>8 DEF ControlInv, StartCall, Give
<1>9. CASE StartPoll
  BY <1>1, <1>2, <1>3, <1>9 DEF ControlInv, StartPoll, Poll
<1>10. CASE Return
  BY <1>1, <1>2, <1>3, <1>10 DEF ControlInv, Return, Poll, Returned
<1>11. CASE \E n \in Node : Wake(n)
  BY <1>1, <1>2, <1>3, <1>11 DEF ControlInv, Wake, walk
<1>12. ASSUME NEW n \in Node, Descend(n) PROVE ControlInv'
  BY <1>1, <1>2, <1>3, <1>12, Descends DEF ControlInv
<1>13. ASSUME NEW n \in Node, CallOperand(n) PROVE ControlInv'
  <2>1. First(n) \in Node
    BY <1>1, <1>13, Operands, Kinds DEF CallOperand
  <2>2. QED
    BY <1>1, <1>2, <1>3, <1>13, <2>1 DEF ControlInv, CallOperand, Give, user
<1>14. ASSUME NEW n \in Node, CallService(n) PROVE ControlInv'
  BY <1>1, <1>2, <1>3, <1>14 DEF ControlInv, CallService, Poll
<1>15. ASSUME NEW n \in Node, UserPending(n) PROVE ControlInv'
  BY <1>1, <1>2, <1>3, <1>15 DEF ControlInv, UserPending, Give, Returned
<1>16. ASSUME NEW n \in Node, NEW tag \in {"ok", "err"}, UserEnds(n, tag) PROVE ControlInv'
  BY <1>1, <1>2, <1>3, <1>16 DEF ControlInv, UserEnds, Give, Returned
<1>17. ASSUME NEW p \in Node, Forward(p) PROVE ControlInv'
  BY <1>1, <1>2, <1>3, <1>17, Returns DEF ControlInv, Forward, Give, Returned, user
<1>18. ASSUME NEW p \in Node, NewTransform(p) PROVE ControlInv'
  BY <1>1, <1>2, <1>3, <1>18, Returns DEF ControlInv, NewTransform, Give, Loop, Poll, Returned
<1>19. ASSUME NEW p \in Node, ConfigFactory(p) PROVE ControlInv'
  BY <1>1, <1>2, <1>3, <1>19, Returns DEF ControlInv, ConfigFactory, Give, Loop, Poll, Returned, user
(* In a readiness check no walk comes up to apply_cfg.                     *)
<1>20. ASSUME NEW p \in Node, ConfigReady(p) PROVE ControlInv'
  <2>1. job # "ready"
    <3>1. Up(p) /\ IsService(p)
      BY <1>20, Kinds DEF ConfigReady
    <3>2. p \in Above(cur) /\ cur \in Node
      BY <1>20, <3>1, Returns
    <3>3. QED
      BY <1>1, <3>1, <3>2 DEF Shallow
  <2>2. QED
    BY <1>1, <1>2, <1>3, <1>20, <2>1, Returns DEF ControlInv, ConfigReady, Give, Loop, Poll, Returned
<1>21. ASSUME NEW p \in Node, PairCreate(p) PROVE ControlInv'
  BY <1>1, <1>2, <1>3, <1>21, Returns DEF ControlInv, PairCreate, Give, Poll, Returned, user
<1>22. ASSUME NEW p \in Node, PairReady(p), Is(p, Pair) PROVE ControlInv'
  BY <1>1, <1>2, <1>3, <1>22, Returns DEF ControlInv, PairReady, Give, Poll, Returned, user
<1>23. ASSUME NEW p \in Node, NEW goes, PairCall(p, goes) PROVE ControlInv'
  BY <1>1, <1>2, <1>3, <1>23, Returns DEF ControlInv, PairCall, Give, Poll, Returned, user
<1>24. QED
  BY <1>4, <1>5, <1>6, <1>7, <1>8, <1>9, <1>10, <1>11, <1>12, <1>13, <1>14, <1>15, <1>16, <1>17, <1>18,
     <1>19, <1>20, <1>21, <1>22, <1>23, Kinds
  DEF Next, Walk, AndThenCall, AndThenReady, AndThenCreate, ThenCall, ThenReady, ThenCreate

(* A readiness check stops at the services: they are the user's.            *)
LEMMA ShallowStep == ControlInv /\ Shallow /\ [Next]_vars => Shallow'
<1> SUFFICES ASSUME ControlInv, Shallow, [Next]_vars, job' = "ready", cur' # 0
             PROVE  \A k \in Above(cur)' : ~IsService(k)'
  BY DEF Shallow
<1>1. tree \in Trees /\ Root \in Node /\ 0 \notin Node /\ cur \in Node \cup {0}
  BY TreeOrder, TermShape DEF ControlInv
<1>2. tree' = tree
  BY TreeStays
<1>3. \A k : Above(k)' = Above(k) /\ IsService(k)' = IsService(k)
  BY <1>2, SameTree
<1>4. Above(cur)' = Above(cur')
  BY <1>2 DEF Above, Node, Width
<1> SUFFICES \A k \in Above(cur') : ~IsService(k)
  BY <1>3, <1>4
<1>5. Above(Root) = {}
  BY <1>1, TreeOrder
<1>6. CASE cur' = Root
  BY <1>5, <1>6
<1>7. CASE cur' = cur /\ job = "ready"
  BY <1>7 DEF Shallow
<1>8. ASSUME NEW n \in Node, Descend(n) PROVE \A k \in Above(cur') : ~IsService(k)
  <2>1. /\ cur = n /\ cur' = Operand(n) /\ job = "ready" /\ mode = "ready"
        /\ Above(Operand(n)) = {n} \cup Above(n) /\ (mode # "create" => ~IsService(n))
    BY <1>1, <1>8, Descends DEF ControlInv
  <2>2. QED
    BY <1>1, <1>8, <2>1 DEF Shallow
<1>9. ASSUME NEW p \in Node, Up(p), job = "ready", cur' \in {p, Second(p)} PROVE \A k \in Above(cur') : ~IsService(k)
  <2>1. cur # 0 /\ p \in Above(cur) /\ Above(p) \subseteq Above(cur) /\ Combinator(p)
    BY <1>1, <1>9, Returns
  <2>2. Above(Second(p)) = {p} \cup Above(p)
    BY <1>1, <2>1, AboveOperands
  <2>3. QED
    BY <1>9, <2>1, <2>2 DEF Shallow
<1>10. CASE UNCHANGED vars
  BY <1>7, <1>10 DEF vars, walk
<1>11. CASE NewService \/ Assemble \/ StartReady \/ StartCall
  BY <1>7, <1>11 DEF NewService, Assemble, StartReady, StartCall, walk, ControlInv
<1>12. CASE StartPoll \/ Return
  BY <1>6, <1>12 DEF StartPoll, Return, Poll
<1>13. CASE \E n \in Node : CallOperand(n) \/ CallService(n)
  BY <1>1, <1>13 DEF CallOperand, CallService, ControlInv
<1>14. CASE \E n \in Node : UserPending(n) \/ UserEnds(n, "ok") \/ UserEnds(n, "err") \/ Wake(n)
  BY <1>7, <1>14 DEF UserPending, UserEnds, Wake, Give, walk
<1>15. ASSUME NEW p \in Node, Forward(p) \/ NewTransform(p) \/ ConfigFactory(p) \/ ConfigReady(p)
       PROVE  \A k \in Above(cur') : ~IsService(k)
  BY <1>9, <1>15 DEF Forward, NewTransform, ConfigFactory, ConfigReady, Give, Loop, Poll
<1>16. ASSUME NEW p \in Node, NEW goes, PairCreate(p) \/ PairReady(p) \/ PairCall(p, goes)
       PROVE  \A k \in Above(cur') : ~IsService(k)
  BY <1>9, <1>16 DEF PairCreate, PairReady, PairCall, Give, Poll
<1>17. QED
  BY <1>8, <1>10, <1>11, <1>12, <1>13, <1>14, <1>15, <1>16
  DEF Next, Walk, AndThenCall, AndThenReady, AndThenCreate, ThenCall, ThenReady, ThenCreate

-----------------------------------------------------------------------------
(* Readiness.                                                               *)

(* What AskInv says of the next state, over a tree that stays.              *)
LEMMA HeardNext ==
    ASSUME tree' = tree, cur' # 0 /\ mode' = "ready" => Heard(cur', ans'.tag, asked', regs', unready')
    PROVE  AskInv'
<1>1. /\ \A n : /\ Within(n)' = Within(n) /\ Services(n)' = Services(n) /\ IsService(n)' = IsService(n)
                /\ First(n)' = First(n) /\ Second(n)' = Second(n) /\ Is(n, Pair)' = Is(n, Pair)
                /\ Above(n)' = Above(n)
  BY SameTree
<1>2. /\ Above(cur)' = Above(cur') /\ Services(cur)' = Services(cur')
  BY DEF Above, Services, Within, Node, Width, IsService, Is
<1>3. \A p : Direct(cur, p)' <=> Direct(cur', p)
  BY <1>1, <1>2 DEF Direct
<1>4. \A p : Within(Second(p))' = Within(Second(p)) /\ Services(First(p))' = Services(First(p))
  BY DEF Services, Within, Node, Width, IsService, Is, First, Second, Above
<1>5. QED
  BY <1>1, <1>2, <1>3, <1>4 DEF AskInv, Heard

(* A user's answer to a question about readiness: no service of a first    *)
(* half is asked again.                                                    *)
LEMMA UserIsHeard ==
    ASSUME tree \in Trees, NEW n \in Node, NEW tag, NEW said, NEW waits, NEW not, NEW said2, NEW waits2,
           IsService(n), Heard(n, "none", said, waits, not),
           said \ {n} \subseteq said2, waits \ {n} \subseteq waits2,
           tag = "ok" => n \in said2, tag = "pending" => n \in waits2
    PROVE  Heard(n, tag, said2, waits2, not)
<1>1. Services(n) = {n}
  BY ServicesOf
<1>2. ASSUME NEW p \in Above(n), Is(p, Pair), n \in Within(Second(p)) PROVE n \notin Services(First(p))
  <2>1. p \in Node /\ Within(First(p)) \cap Within(Second(p)) = {} /\ First(p) \in Node
    BY <1>2, TreeOrder, Operands, Kinds
  <2>2. Services(First(p)) \subseteq Within(First(p))
    BY <2>1, ServicesOf
  <2>3. QED
    BY <1>2, <2>1, <2>2
<1>3. QED
  BY <1>1, <1>2 DEF Heard

(* Down to an operand of a pair, or of what hands on the question.         *)
LEMMA DownIsHeard ==
    ASSUME tree \in Trees, NEW n \in Node, Combinator(n), NEW tag, NEW said, NEW waits, NEW not,
           Heard(n, tag, said, waits, not)
    PROVE  Heard(First(n), "none", said, waits, not \ {n})
<1>1. /\ First(n) \in Node /\ Above(First(n)) = {n} \cup Above(n)
      /\ Is(n, Pair) => First(n) \notin Within(Second(n))
  <2>1. First(n) \in Node /\ (Is(n, Pair) => Within(First(n)) \cap Within(Second(n)) = {})
    BY Operands DEF Combinator
  <2>2. First(n) \in Within(First(n))
    BY <2>1, TreeOrder
  <2>3. QED
    BY <2>1, <2>2, AboveOperands
<1> SUFFICES ASSUME NEW p \in Above(n), Is(p, Pair), First(n) \in Within(Second(p)), Direct(First(n), p)
             PROVE  /\ Services(First(p)) \subseteq said \cup waits
                    /\ p \notin not \ {n} => Services(First(p)) \subseteq said
  BY <1>1 DEF Heard
<1>2. p \in Node /\ p # n /\ n \in Within(p) /\ Second(p) \in Node
  BY TreeOrder, Operands, Kinds
<1>3. n \in Within(Second(p))
  <2>1. /\ Second(p) \in Above(First(n)) \/ Second(p) = First(n)
        /\ Above(Second(p)) = {p} \cup Above(p)
    BY <1>1, <1>2, TreeOrder, AboveOperands, Kinds DEF Combinator
  <2>2. Second(p) # First(n)
    <3>1. ASSUME Second(p) = First(n) PROVE FALSE
      <4>1. Parent(Second(p)) = p /\ Parent(First(n)) = n
        BY <1>2, Parents, Kinds DEF Combinator
      <4>2. QED
        BY <1>2, <3>1, <4>1
    <3>2. QED
      BY <3>1
  <2>3. QED
    BY <1>1, <1>2, <2>1, <2>2, TreeOrder
<1>4. Direct(n, p)
  BY <1>1 DEF Direct
<1>5. QED
  BY <1>2, <1>3, <1>4 DEF Heard

(* Up to a combinator: the first halves above it were asked as well.       *)
LEMMA UpIsHeard ==
    ASSUME tree \in Trees, NEW p \in Node, Combinator(p), ~IsService(p), NEW c \in {First(p), Second(p)},
           NEW tag, NEW tag2, NEW said, NEW waits, NEW not,
           Heard(c, tag, said, waits, not),
           tag2 = "ok" => Services(p) \subseteq said,
           tag2 = "pending" => Services(p) \subseteq said \cup waits
    PROVE  Heard(p, tag2, said, waits, not)
<1>1. c \in Node /\ Above(c) = {p} \cup Above(p) /\ c \in Within(p)
  BY Operands, AboveOperands, TreeOrder DEF Combinator
<1> SUFFICES ASSUME NEW q \in Above(p), Is(q, Pair), p \in Within(Second(q)), Direct(p, q)
             PROVE  /\ Services(First(q)) \subseteq said \cup waits
                    /\ q \notin not => Services(First(q)) \subseteq said
  BY DEF Heard
<1>2. q \in Node /\ Second(q) \in Node
  BY TreeOrder, Operands, Kinds
<1>3. c \in Within(Second(q))
  BY <1>1, <1>2, TreeOrder
<1>4. Direct(c, q)
  BY <1>1 DEF Direct
<1>5. QED
  BY <1>1, <1>3, <1>4 DEF Heard

(* Across to the second half, when the first has answered.                 *)
LEMMA AcrossIsHeard ==
    ASSUME tree \in Trees, NEW p \in Node, Is(p, Pair), NEW tag \in {"ok", "pending"}, NEW said, NEW waits, NEW not,
           Heard(First(p), tag, said, waits, not)
    PROVE  Heard(Second(p), "none", said, waits, IF tag = "pending" THEN not \cup {p} ELSE not)
<1> DEFINE not2 == IF tag = "pending" THEN not \cup {p} ELSE not
<1>1. /\ First(p) \in Node /\ Second(p) \in Node /\ Combinator(p)
      /\ Above(First(p)) = {p} \cup Above(p) /\ Above(Second(p)) = {p} \cup Above(p)
      /\ First(p) \in Within(p)
  <2>1. Combinator(p)
    BY Kinds DEF Combinator
  <2>2. QED
    BY <2>1, Operands, AboveOperands, TreeOrder DEF Combinator
<1> SUFFICES ASSUME NEW q \in Above(Second(p)), Is(q, Pair), Second(p) \in Within(Second(q)), Direct(Second(p), q)
             PROVE  /\ Services(First(q)) \subseteq said \cup waits
                    /\ q \notin not2 => Services(First(q)) \subseteq said
  BY DEF Heard
<1>2. CASE q = p
  BY <1>2 DEF Heard
<1>3. CASE q # p
  <2>1. q \in Node /\ q \in Above(p) /\ Second(q) \in Node /\ Combinator(q)
    BY <1>1, <1>3, TreeOrder, Operands, Kinds DEF Combinator
  <2>2. Second(q) # Second(p)
    BY <1>3, <1>1, <2>1, Parents DEF Combinator
  <2>3. Second(q) \in Above(Second(p))
    BY <1>1, <2>1, <2>2, TreeOrder
  <2>4. p \in Within(Second(q))
    BY <1>1, <2>1, <2>3, TreeOrder
  <2>5. First(p) \in Within(Second(q))
    BY <1>1, <2>1, <2>4, TreeOrder
  <2>6. Direct(First(p), q)
    BY <1>1 DEF Direct
  <2>7. QED
    BY <1>1, <2>1, <2>5, <2>6 DEF Heard
<1>4. QED
  BY <1>2, <1>3

(* A walk that asks for readiness leaves no first half of a pair unasked,   *)
(* whatever its second half answers (AndThenService::poll_ready).           *)
LEMMA AskStep == ControlInv /\ Shallow /\ AskInv /\ [Next]_vars => AskInv'
<1> SUFFICES ASSUME ControlInv, Shallow, AskInv, [Next]_vars PROVE AskInv'
  OBVIOUS
<1> SUFFICES ASSUME cur' # 0, mode' = "ready" PROVE Heard(cur', ans'.tag, asked', regs', unready')
  BY TreeStays, HeardNext
<1> DEFINE Goal == Heard(cur', ans'.tag, asked', regs', unready')
<1>1. /\ tree \in Trees /\ Root \in Node /\ 0 \notin Node /\ cur \in Node \cup {0}
      /\ None.tag = "none" /\ Pending.tag = "pending" /\ \A p : Mapped(p).tag = ans.tag
      /\ \A t, v : Answer(t, v).tag = t
  BY Tags, TreeOrder, TermShape DEF ControlInv
<1>2. cur # 0 /\ mode = "ready" => Heard(cur, ans.tag, asked, regs, unready)
  BY DEF AskInv, Heard
<1>3. CASE UNCHANGED vars
  BY <1>2, <1>3 DEF vars, walk, user
<1>4. CASE NewService \/ Assemble \/ StartReady \/ StartCall \/ Return \/ \E n \in Node : Wake(n)
  BY <1>1, <1>4 DEF NewService, Assemble, StartReady, StartCall, Return, Wake, walk, Poll, ControlInv
<1>5. CASE StartPoll
  <2>1. cur' = Root /\ ans' = None /\ Above(Root) = {}
    BY <1>1, <1>5, TreeOrder DEF StartPoll, Poll
  <2>2. QED
    BY <1>1, <2>1 DEF Heard
<1>6. ASSUME NEW n \in Node, Descend(n) PROVE Goal
  <2>1. /\ cur = n /\ Combinator(n) /\ cur' = Operand(n) /\ ans' = None
        /\ Operand(n) \in {First(n), Second(n)}
        /\ Is(n, Pair) /\ mode = "ready" => Operand(n) = First(n)
        /\ mode' = IF Waits(n, st) THEN "ready" ELSE mode
        /\ Waits(n, st) => mode = "create"
        /\ mode # "create" => ~IsService(n)
        /\ unready' = unready \ {n} /\ asked' = asked /\ regs' = regs /\ ans.tag = "none"
    BY <1>1, <1>6, Descends
  <2>2. ~Is(n, Pair) => First(n) = Second(n)
    BY <1>1, <2>1, Operands DEF Combinator
  <2>3. CASE mode = "ready"
    <3>1. Heard(n, "none", asked, regs, unready)
      BY <1>1, <1>2, <2>1, <2>3
    <3>2. Heard(First(n), "none", asked, regs, unready \ {n})
      BY <1>1, <2>1, <3>1, DownIsHeard
    <3>3. cur' = First(n) /\ ans'.tag = "none"
      BY <1>1, <2>1, <2>2, <2>3
    <3>4. QED
      BY <2>1, <3>2, <3>3
  (* apply_cfg asks the service it has made: nothing else is concerned.    *)
  <2>4. CASE Waits(n, st)
    <3>1. IsService(n) /\ ~Is(n, Pair)
      BY <2>4, Kinds DEF Waits
    <3>2. /\ Operand(n) \in Node /\ Above(Operand(n)) = {n} \cup Above(n)
      BY <1>6, Descends
    <3>3. ASSUME NEW p \in Above(n) PROVE n \in Within(p)
      BY <1>1, <3>3, TreeOrder
    <3>4. ASSUME NEW p \in Above(Operand(n)), Is(p, Pair) PROVE ~Direct(Operand(n), p)
      BY <3>1, <3>2, <3>3, <3>4 DEF Direct
    <3>5. QED
      BY <1>1, <2>1, <3>4 DEF Heard
  <2>5. QED
    BY <2>1, <2>3, <2>4
<1>7. ASSUME NEW n \in Node, CallOperand(n) \/ CallService(n) PROVE Goal
  <2>1. mode = "call" /\ mode' = mode
    BY <1>1, <1>7 DEF CallOperand, CallService, ControlInv
  <2>2. QED
    BY <2>1
<1>8. ASSUME NEW n \in Node, OwnTurn(n), cur = n, mode' = mode PROVE IsService(n) /\ cur # 0
  BY <1>1, <1>8, Kinds DEF OwnTurn, Transforming, Configuring
<1>9. ASSUME NEW n \in Node, UserPending(n) PROVE Goal
  <2>1. /\ cur = n /\ cur' = n /\ ans.tag = "none" /\ ans'.tag = "pending" /\ mode = "ready"
        /\ regs' = regs \cup {n} /\ asked' = asked \ {n} /\ unready' = unready /\ IsService(n)
    BY <1>1, <1>8, <1>9 DEF UserPending, Give
  <2>2. Heard(n, "none", asked, regs, unready)
    BY <1>1, <1>2, <2>1
  <2>3. Heard(n, "pending", asked \ {n}, regs \cup {n}, unready)
    BY <1>1, <2>1, <2>2, UserIsHeard
  <2>4. QED
    BY <2>1, <2>3
<1>10. ASSUME NEW n \in Node, NEW tag \in {"ok", "err"}, UserEnds(n, tag) PROVE Goal
  <2>1. /\ cur = n /\ cur' = n /\ ans.tag = "none" /\ ans'.tag = tag /\ mode = "ready"
        /\ regs' = regs \ {n} /\ asked' = IF tag = "ok" THEN asked \cup {n} ELSE asked \ {n}
        /\ unready' = unready /\ IsService(n)
    BY <1>1, <1>8, <1>10 DEF UserEnds, Give
  <2>2. Heard(n, "none", asked, regs, unready)
    BY <1>1, <1>2, <2>1
  <2>3. Heard(n, tag, IF tag = "ok" THEN asked \cup {n} ELSE asked \ {n}, regs \ {n}, unready)
    BY <1>1, <2>1, <2>2, UserIsHeard
  <2>4. QED
    BY <2>1, <2>3
<1>11. ASSUME NEW p \in Node, Forward(p) PROVE Goal
  <2>1. /\ Up(p) /\ Is(p, Wrapper) /\ ~Is(p, {"apply_cfg"}) /\ mode = "ready" /\ cur' = p /\ ans'.tag = ans.tag
        /\ asked' = asked /\ regs' = regs /\ unready' = unready
    BY <1>1, <1>11 DEF Forward, Give, user
  <2>2. /\ cur \in {First(p), Second(p)} /\ cur # 0 /\ Combinator(p) /\ First(p) = cur /\ Second(p) = cur
    BY <1>1, <2>1, Returns
  <2>3. ~IsService(p)
    BY <2>1, Kinds
  <2>4. Services(p) = Services(cur)
    BY <1>1, <2>2, <2>3, ServicesOf
  <2>5. PICK c \in {First(p), Second(p)} : c = cur
    BY <2>2
  <2>6. PICK t : t = ans.tag
    OBVIOUS
  <2>7. /\ Heard(c, t, asked, regs, unready)
        /\ t = "ok" => Services(p) \subseteq asked
        /\ t = "pending" => Services(p) \subseteq asked \cup regs
    BY <1>2, <2>1, <2>2, <2>4, <2>5, <2>6 DEF Heard
  <2>8. Heard(p, t, asked, regs, unready)
    BY <1>1, <2>2, <2>3, <2>7, UpIsHeard
  <2>9. QED
    BY <2>1, <2>6, <2>8
<1>12. ASSUME NEW p \in Node, NEW goes,
              NewTransform(p) \/ ConfigFactory(p) \/ ConfigReady(p) \/ PairCreate(p) \/ PairCall(p, goes)
       PROVE  Goal
  BY <1>12 DEF NewTransform, ConfigFactory, ConfigReady, PairCreate, PairCall
<1>13. ASSUME NEW p \in Node, Is(p, Pair), PairReady(p) PROVE Goal
  <2>1. /\ Up(p) /\ mode = "ready" /\ asked' = asked /\ regs' = regs
        /\ unready' = IF cur = First(p) /\ ans.tag = "pending" THEN unready \cup {p} ELSE unready
        /\ IF ans.tag # "err" /\ cur = First(p) THEN cur' = Second(p) /\ ans' = None
           ELSE cur' = p /\ ans' = IF ans.tag = "ok" /\ p \in unready' THEN Pending ELSE ans
    BY <1>13 DEF PairReady, AskSecond, BothReady, Poll, Give, user
  <2>2. /\ cur \in {First(p), Second(p)} /\ cur # 0 /\ Combinator(p) /\ ans.tag \in Returned
        /\ cur \in Node /\ Above(cur) = {p} \cup Above(p) /\ First(p) # Second(p)
    BY <1>1, <1>13, <2>1, Returns, Operands
  <2>3. Heard(cur, ans.tag, asked, regs, unready)
    BY <1>2, <2>1, <2>2
  <2>4. ~IsService(p)
    BY <1>13, Kinds
  <2>5. CASE ans.tag # "err" /\ cur = First(p)
    <3>1. PICK t \in {"ok", "pending"} : t = ans.tag
      BY <2>2, <2>5 DEF Returned
    <3>2. Heard(First(p), t, asked, regs, unready)
      BY <2>3, <2>5, <3>1
    <3>3. Heard(Second(p), "none", asked, regs, IF t = "pending" THEN unready \cup {p} ELSE unready)
      BY <1>1, <1>13, <3>2, AcrossIsHeard
    <3>4. QED
      BY <1>1, <2>1, <2>5, <3>1, <3>3
  <2>6. CASE ~(ans.tag # "err" /\ cur = First(p))
    <3>1. cur' = p /\ unready' = unready
          /\ ans'.tag = IF ans.tag = "ok" /\ p \in unready THEN "pending" ELSE ans.tag
      BY <1>1, <2>1, <2>6
    <3>2. Services(p) = Services(First(p)) \cup Services(Second(p))
      BY <1>1, <2>4, ServicesOf
    <3>3. ASSUME cur = Second(p)
          PROVE  /\ Services(First(p)) \subseteq asked \cup regs
                 /\ p \notin unready => Services(First(p)) \subseteq asked
      <4>1. cur \in Within(Second(p))
        BY <2>2, <3>3, <1>1, TreeOrder
      <4>2. ASSUME NEW k \in Above(cur), k \in Within(p) PROVE k = p
        BY <1>1, <2>2, <4>2, TreeOrder
      <4>3. Direct(cur, p)
        BY <2>4, <4>2 DEF Direct
      <4>4. QED
        BY <1>13, <2>2, <2>3, <4>1, <4>3 DEF Heard
    <3>4. PICK t2 : t2 = ans'.tag
      OBVIOUS
    <3>5. /\ t2 = "ok" => Services(p) \subseteq asked
          /\ t2 = "pending" => Services(p) \subseteq asked \cup regs
      BY <2>2, <2>3, <2>6, <3>1, <3>2, <3>3, <3>4 DEF Heard, Returned
    <3>6. PICK c, t : c \in {First(p), Second(p)} /\ c = cur /\ t = ans.tag
      BY <2>2
    <3>7. Heard(p, t2, asked, regs, unready)
      BY <1>1, <2>2, <2>3, <2>4, <3>5, <3>6, UpIsHeard
    <3>8. QED
      BY <2>1, <3>1, <3>4, <3>7
  <2>7. QED
    BY <2>5, <2>6
<1>14. QED
  BY <1>3, <1>4, <1>5, <1>6, <1>7, <1>9, <1>10, <1>11, <1>12, <1>13, Kinds
  DEF Next, Walk, AndThenCall, AndThenReady, AndThenCreate, ThenCall, ThenReady, ThenCreate

(* The root's answer to poll_ready speaks for all its services.             *)
LEMMA ReadyStep == ControlInv /\ AskInv /\ ReadyInv /\ [Next]_vars => ReadyInv'
<1> SUFFICES ASSUME ControlInv, AskInv, ReadyInv, [Next]_vars PROVE ReadyInv'
  OBVIOUS
<1>1. /\ tree \in Trees /\ Root \in Node /\ 0 \notin Node /\ cur \in Node \cup {0}
      /\ cur # 0 => mode = job \/ (job = "create" /\ mode = "ready")
      /\ job \notin {"create", "ready", "call"} => cur = 0 /\ ~woken
      /\ ans.tag = "req" => job = "call"
      /\ cur = 0 => ans.tag = "none"
  BY Tags, TreeOrder, TermShape DEF ControlInv
<1>2. /\ job = "ready" /\ cur = 0 /\ ~woken => Services(Root) \subseteq asked \cup regs
      /\ job \in {"callable", "call"} => Services(Root) \subseteq asked
  BY DEF ReadyInv
<1> SUFFICES /\ job' = "ready" /\ cur' = 0 /\ ~woken' => Services(Root) \subseteq asked' \cup regs'
             /\ job' \in {"callable", "call"} => Services(Root) \subseteq asked'
  <2>1. tree' = tree
    BY TreeStays
  <2>2. Services(Root)' = Services(Root)
    BY <2>1 DEF Above, Services, Within, Node, Width, IsService, Is, Root
  <2>3. QED
    BY <2>2 DEF ReadyInv
<1> DEFINE Goal == /\ job' = "ready" /\ cur' = 0 /\ ~woken' => Services(Root) \subseteq asked' \cup regs'
                   /\ job' \in {"callable", "call"} => Services(Root) \subseteq asked'
<1>3. CASE UNCHANGED vars
  BY <1>2, <1>3 DEF vars, walk, user
<1>4. CASE NewService \/ Assemble \/ StartReady \/ StartCall \/ \E n \in Node : Wake(n)
  BY <1>1, <1>2, <1>4 DEF NewService, Assemble, StartReady, StartCall, Wake, walk, user, Give
<1>5. CASE StartPoll
  BY <1>1, <1>2, <1>5 DEF StartPoll, Poll
(* The root's answer is what the walk has heard.                           *)
<1>6. CASE Return
  <2>1. /\ cur = Root /\ ans.tag \in Returned /\ cur # 0 /\ cur' = 0 /\ asked' = asked
        /\ ans.tag = "pending" => job' = job /\ regs' = regs /\ woken' = woken
        /\ ans.tag # "pending" /\ job' \in {"ready", "callable", "call"} =>
             job' = "callable" /\ job = "ready" /\ ans.tag = "ok"
    <3>1. job \in {"create", "ready", "call"}
      BY <1>1, <1>6, TreeOrder DEF Return, ControlInv
    <3>2. QED
      BY <1>1, <1>6, <3>1, TreeOrder DEF Return, Poll, Returned
  <2>2. job = "ready" /\ ans.tag = "ok" => Services(Root) \subseteq asked
    BY <1>1, <2>1 DEF AskInv, Heard
  <2>3. job = "ready" /\ ans.tag = "pending" => Services(Root) \subseteq asked \cup regs
    BY <1>1, <2>1 DEF AskInv, Heard
  <2>4. QED
    BY <1>2, <2>1, <2>2, <2>3 DEF Returned
<1>7. ASSUME job' = job, job = "call" => asked' = asked, cur # 0, cur' # 0 PROVE Goal
  BY <1>1, <1>2, <1>7
<1>8. ASSUME NEW n \in Node, Descend(n) \/ CallOperand(n) PROVE Goal
  <2>1. n # 0 /\ (~Is(n, Leaf) => First(n) \in Node)
    BY <1>1, Operands
  <2>2. CASE Descend(n)
    BY <1>1, <1>7, <2>1, <2>2, Descends
  <2>3. CASE CallOperand(n)
    BY <1>1, <1>7, <2>1, <2>3, Kinds DEF CallOperand, Give, user
  <2>4. QED
    BY <1>8, <2>2, <2>3
<1>9. ASSUME NEW n \in Node, CallService(n) PROVE Goal
  BY <1>1, <1>2, <1>9 DEF CallService, Poll
<1>10. ASSUME NEW n \in Node, UserPending(n) \/ UserEnds(n, "ok") \/ UserEnds(n, "err") PROVE Goal
  BY <1>1, <1>7, <1>10 DEF UserPending, UserEnds, Give
<1>11. ASSUME NEW p \in Node, NEW goes,
              Forward(p) \/ NewTransform(p) \/ ConfigFactory(p) \/ ConfigReady(p)
              \/ PairCreate(p) \/ PairReady(p) \/ PairCall(p, goes)
       PROVE  Goal
  <2>1. Up(p) /\ job' = job /\ asked' = asked /\ cur' \in {p, Second(p)}
    BY <1>11 DEF Forward, NewTransform, ConfigFactory, ConfigReady, PairCreate, PairReady, PairCall,
       Poll, Give, Loop, user
  <2>2. cur # 0 /\ cur' \in Node
    BY <1>1, <2>1, Returns
  <2>3. QED
    BY <1>1, <1>7, <2>1, <2>2
<1>12. QED
  BY <1>3, <1>4, <1>5, <1>6, <1>8, <1>9, <1>10, <1>11
  DEF Next, Walk, AndThenCall, AndThenReady, AndThenCreate, ThenCall, ThenReady, ThenCreate

-----------------------------------------------------------------------------
(* Calls.                                                                   *)

(* What is on the path below an operand, above it, and beside it.          *)
LEMMA UpPath ==
    ASSUME tree \in Trees, NEW p \in Node, Combinator(p), NEW c \in {First(p), Second(p)}, NEW s, OnPath(c, s)
    PROVE  /\ OnPath(p, s) /\ ~IsService(p)
           /\ Is(p, Pair) => (s[p] = "A" <=> c = First(p))
<1>1. /\ c \in Node /\ Above(c) = {p} \cup Above(p) /\ c \in Within(p) /\ c \in Within(c)
      /\ First(p) \in Node /\ Second(p) \in Node
      /\ Is(p, Pair) => First(p) # Second(p) /\ Within(First(p)) \cap Within(Second(p)) = {}
  BY Operands, AboveOperands, TreeOrder DEF Combinator
<1>2. ASSUME NEW q \in Above(p), Is(q, Pair) PROVE p \in Within(IF s[q] = "A" THEN First(q) ELSE Second(q))
  <2>1. q \in Node /\ Combinator(q) /\ q # p
    BY <1>2, TreeOrder, Kinds DEF Combinator
  <2>2. PICK x \in {First(q), Second(q)} : x = IF s[q] = "A" THEN First(q) ELSE Second(q)
    OBVIOUS
  <2>3. c \in Within(x)
    BY <1>1, <1>2, <2>2 DEF OnPath
  <2>4. x \in Node /\ Parent(x) = q /\ Parent(c) = p
    BY <2>1, Operands, Parents DEF Combinator
  <2>5. x \in Above(c)
    BY <1>1, <2>1, <2>3, <2>4, TreeOrder
  <2>6. p \in Within(x)
    BY <1>1, <2>4, <2>5, TreeOrder
  <2>7. QED
    BY <2>2, <2>6
<1>3. ~IsService(p) /\ \A q \in Above(p) : ~IsService(q)
  BY <1>1 DEF OnPath
<1>4. Is(p, Pair) => c \in Within(IF s[p] = "A" THEN First(p) ELSE Second(p))
  BY <1>1 DEF OnPath
<1>5. Is(p, Pair) => (s[p] = "A" <=> c = First(p))
  BY <1>1, <1>4
<1>6. QED
  BY <1>2, <1>3, <1>5 DEF OnPath

(* A call that goes down to an operand is in the half that is its turn.     *)
LEMMA DownPath ==
    ASSUME tree \in Trees, NEW p \in Node, Combinator(p), ~IsService(p), NEW c \in {First(p), Second(p)}, NEW s,
           OnPath(p, s), Is(p, Pair) => c = IF s[p] = "A" THEN First(p) ELSE Second(p)
    PROVE  OnPath(c, s)
<1>1. /\ c \in Node /\ Above(c) = {p} \cup Above(p) /\ c \in Within(p) /\ c \in Within(c)
  BY Operands, AboveOperands, TreeOrder DEF Combinator
<1>2. ASSUME NEW q \in Above(p), Is(q, Pair) PROVE c \in Within(IF s[q] = "A" THEN First(q) ELSE Second(q))
  <2>1. q \in Node /\ Combinator(q)
    BY <1>2, TreeOrder, Kinds DEF Combinator
  <2>2. PICK x \in {First(q), Second(q)} : x = IF s[q] = "A" THEN First(q) ELSE Second(q)
    OBVIOUS
  <2>3. x \in Node /\ p \in Within(x)
    BY <1>2, <2>1, <2>2, Operands DEF OnPath, Combinator
  <2>4. QED
    BY <1>1, <2>2, <2>3, TreeOrder
<1>3. QED
  BY <1>1, <1>2 DEF OnPath

(* A live future below a node that is polled is below the operand polled.  *)
LEMMA LiveBelow ==
    ASSUME tree \in Trees, NEW p \in Node, NEW l \in Within(p), NEW s, OnPath(l, s), IsService(l)
    PROVE  /\ IsService(p) => l = p
           /\ ~IsService(p) => l \in Within(IF Is(p, Pair) /\ s[p] # "A" THEN Second(p) ELSE First(p))
<1>1. l \in Node /\ (l = p \/ p \in Above(l))
  BY TreeOrder
<1>2. IsService(p) => l = p
  BY <1>1 DEF OnPath
<1>3. ASSUME ~IsService(p)
      PROVE  l \in Within(IF Is(p, Pair) /\ s[p] # "A" THEN Second(p) ELSE First(p))
  <2>1. p \in Above(l)
    BY <1>1, <1>3
  <2>2. Is(p, Pair) => l \in Within(IF s[p] = "A" THEN First(p) ELSE Second(p))
    BY <2>1 DEF OnPath
  <2>3. ~Is(p, Pair) => l \in Within(First(p))
    <3>1. ~Is(p, Leaf)
      BY <1>3, Kinds
    <3>2. QED
      BY <2>1, <3>1, TreeOrder, Operands
  <2>4. QED
    BY <2>2, <2>3
<1>4. QED
  BY <1>2, <1>3

(* What CallInv says of the next state, over a tree that stays.             *)
LEMMA CallNext ==
    ASSUME tree' = tree, job' = "call" => InCall(cur', ans'.tag, st', fut', regs', woken')
    PROVE  CallInv'
<1>1. /\ Node' = Node
      /\ \A n : /\ Within(n)' = Within(n) /\ Above(n)' = Above(n) /\ IsService(n)' = IsService(n)
                /\ First(n)' = First(n) /\ Second(n)' = Second(n) /\ Is(n, Pair)' = Is(n, Pair)
  BY SameTree
<1>2. /\ Above(cur)' = Above(cur') /\ Within(cur)' = Within(cur')
      /\ \A p : Within(Second(p))' = Within(Second(p))
      /\ \A p : Within(IF st[p] = "A" THEN First(p) ELSE Second(p))'
                       = Within(IF st'[p] = "A" THEN First(p) ELSE Second(p))
  BY DEF Above, Within, Node, Width, First, Second, Is
<1>3. /\ OnPath(cur, st)' <=> OnPath(cur', st')
      /\ \A n : OnPath(n, st)' <=> OnPath(n, st')
  BY <1>1, <1>2 DEF OnPath
<1>4. /\ \A p : Unstarted(Within(Second(p)), st)' <=> Unstarted(Within(Second(p)), st')
      /\ Unstarted(Within(cur), st)' <=> Unstarted(Within(cur'), st')
  BY <1>1, <1>2 DEF Unstarted
<1>5. QED
  BY <1>1, <1>2, <1>3, <1>4 DEF CallInv, InCall

(* In a call, one user's future at most is live, and the walk leads to it.  *)
LEMMA CallStep == ControlInv /\ CallInv /\ [Next]_vars => CallInv'
<1> SUFFICES ASSUME ControlInv, CallInv, [Next]_vars PROVE CallInv'
  OBVIOUS
<1> SUFFICES ASSUME job' = "call" PROVE InCall(cur', ans'.tag, st', fut', regs', woken')
  BY TreeStays, CallNext
<1> DEFINE Goal == InCall(cur', ans'.tag, st', fut', regs', woken')
<1>1. /\ tree \in Trees /\ Root \in Node /\ 0 \notin Node /\ cur \in Node \cup {0}
      /\ Above(Root) = {} /\ \A n \in Node : n \in Within(Root) /\ n \in Within(n) /\ Within(n) \subseteq Node
      /\ st \in [Node -> {"A", "B", "C"}] /\ fut \in [Node -> {"none", "live", "done"}]
      /\ cur # 0 => mode = job \/ (job = "create" /\ mode = "ready")
      /\ job \notin {"create", "ready", "call"} => cur = 0 /\ ~woken
      /\ job \notin {"create", "call"} => \A n \in Node : fut[n] = "none"
      /\ cur = 0 => ans.tag = "none"
      /\ None.tag = "none" /\ Pending.tag = "pending" /\ \A p : Mapped(p).tag = ans.tag
      /\ \A v : Req(v).tag = "req"
      /\ \A t, v : Answer(t, v).tag = t
  BY Tags, TreeOrder, TermShape DEF ControlInv
<1>2. job = "call" => InCall(cur, ans.tag, st, fut, regs, woken)
  BY DEF CallInv
<1>3. CASE UNCHANGED vars
  BY <1>2, <1>3 DEF vars, walk, user
<1>4. CASE NewService \/ Assemble \/ StartReady
  BY <1>4 DEF NewService, Assemble, StartReady
<1>5. CASE StartCall
  <2>1. /\ cur' = Root /\ ans'.tag = "req" /\ st' = [n \in Node |-> "A"] /\ fut' = fut /\ job = "callable"
    BY <1>1, <1>5 DEF StartCall, Give
  <2>2. \A n \in Node : fut'[n] # "live"
    BY <1>1, <2>1
  <2>3. OnPath(Root, st')
    BY <1>1 DEF OnPath
  <2>4. \A n \in Node : Unstarted(Within(n), st')
    BY <1>1, <2>1 DEF Unstarted
  <2>5. \A p \in Node : Is(p, Pair) => Second(p) \in Node
    BY <1>1, Operands, Kinds
  <2>6. QED
    BY <1>1, <2>1, <2>2, <2>3, <2>4, <2>5 DEF InCall
<1>6. CASE StartPoll
  <2>1. /\ cur' = Root /\ ans'.tag = "none" /\ st' = st /\ fut' = fut /\ job = "call" /\ cur = 0
    BY <1>1, <1>6 DEF StartPoll, Poll
  <2>2. OnPath(Root, st')
    BY <1>1 DEF OnPath
  <2>3. QED
    BY <1>1, <1>2, <2>1, <2>2 DEF InCall
<1>7. CASE Return
  <2>1. /\ ans.tag = "pending" /\ job = "call" /\ cur' = 0 /\ ans'.tag = "none"
        /\ st' = st /\ fut' = fut /\ regs' = regs
    BY <1>1, <1>7 DEF Return, Poll, Returned
  <2>2. QED
    BY <1>1, <1>2, <2>1 DEF InCall
<1>8. CASE \E n \in Node : Wake(n)
  <2>1. job = "call" /\ cur = 0 /\ cur' = 0 /\ ans' = ans /\ st' = st /\ fut' = fut /\ woken' = TRUE
    BY <1>8 DEF Wake, walk
  <2>2. QED
    BY <1>1, <1>2, <2>1 DEF InCall
<1>9. ASSUME NEW n \in Node, Descend(n) PROVE Goal
  <2>1. /\ cur = n /\ cur # 0 /\ job = "call" /\ mode = "call" /\ ans.tag = "none" /\ ans'.tag = "none"
        /\ cur' = Operand(n) /\ Operand(n) \in {First(n), Second(n)} /\ Operand(n) \in Node
        /\ Is(n, Pair) => Operand(n) = IF st[n] = "A" THEN First(n) ELSE Second(n)
        /\ ~IsService(n) /\ Combinator(n) /\ st' = st /\ fut' = fut /\ regs' = regs /\ woken' = woken
    BY <1>1, <1>9, Descends
  <2>2. InCall(n, "none", st, fut, regs, woken)
    BY <1>2, <2>1
  <2>3. OnPath(Operand(n), st)
    <3>1. OnPath(n, st)
      BY <1>1, <2>1, <2>2 DEF InCall
    <3>2. QED
      BY <1>1, <2>1, <3>1, DownPath
  <2>4. ASSUME NEW l \in Node, fut[l] = "live" PROVE l \in Within(Operand(n))
    <3>1. l \in Within(n) /\ OnPath(l, st) /\ IsService(l)
      BY <1>1, <2>1, <2>2, <2>4 DEF InCall
    <3>2. l \in Within(IF Is(n, Pair) /\ st[n] # "A" THEN Second(n) ELSE First(n))
      BY <1>1, <2>1, <3>1, LiveBelow
    <3>3. ~Is(n, Pair) => First(n) = Second(n)
      BY <1>1, <2>1, Operands DEF Combinator
    <3>4. QED
      BY <2>1, <3>2, <3>3
  <2>5. InCall(Operand(n), "none", st, fut, regs, woken)
    BY <1>1, <2>1, <2>2, <2>3, <2>4 DEF InCall
  <2>6. QED
    BY <2>1, <2>5
<1>10. ASSUME NEW n \in Node, CallOperand(n) PROVE Goal
  <2>1. /\ cur = n /\ cur # 0 /\ job = "call" /\ ans.tag = "req" /\ ans'.tag = "req" /\ cur' = First(n)
        /\ ~IsService(n) /\ st' = st /\ fut' = fut /\ regs' = regs /\ woken' = woken
    BY <1>1, <1>10 DEF CallOperand, Give, user
  <2>2. InCall(n, "req", st, fut, regs, woken)
    BY <1>2, <2>1
  <2>3. OnPath(n, st) /\ Unstarted(Within(n), st)
    BY <1>1, <2>1, <2>2 DEF InCall
  <2>4. Combinator(n) /\ First(n) \in Node /\ Within(First(n)) \subseteq Within(n)
    <3>1. Combinator(n)
      BY <2>1, Kinds DEF Combinator
    <3>2. QED
      BY <1>1, <3>1, Operands DEF Combinator
  <2>5. Is(n, Pair) => st[n] = "A"
    BY <1>1, <2>3 DEF Unstarted
  <2>6. OnPath(First(n), st)
    BY <1>1, <2>1, <2>3, <2>4, <2>5, DownPath
  <2>7. Unstarted(Within(First(n)), st)
    BY <2>3, <2>4 DEF Unstarted
  <2>8. InCall(First(n), "req", st, fut, regs, woken)
    BY <1>1, <2>1, <2>2, <2>4, <2>6, <2>7 DEF InCall
  <2>9. QED
    BY <2>1, <2>8
<1>11. ASSUME NEW n \in Node, CallService(n) PROVE Goal
  <2>1. /\ cur = n /\ cur # 0 /\ job = "call" /\ ans.tag = "req" /\ ans'.tag = "none" /\ IsService(n)
        /\ st' = st /\ fut' = [fut EXCEPT ![n] = "live"] /\ regs' = regs
        /\ cur' = n \/ (cur' = 0 /\ woken' = TRUE)
    BY <1>1, <1>11 DEF CallService, Poll
  <2>2. InCall(n, "req", st, fut, regs, woken)
    BY <1>2, <2>1
  <2>3. OnPath(n, st) /\ \A l \in Node : fut'[l] = "live" <=> l = n
    BY <1>1, <2>1, <2>2 DEF InCall
  <2>4. QED
    BY <1>1, <2>1, <2>2, <2>3 DEF InCall
<1>12. ASSUME NEW n \in Node, cur = n, ans.tag = "none", OwnTurn(n), job = "call"
       PROVE  /\ IsService(n) /\ OnPath(n, st)
              /\ \A l \in Node : fut[l] = "live" => l = n
              /\ \E l \in Node : fut[l] = "live"
  <2>1. IsService(n) /\ cur # 0
    BY <1>1, <1>12, Kinds DEF OwnTurn, Transforming, Configuring
  <2>2. InCall(n, "none", st, fut, regs, woken)
    BY <1>2, <1>12
  <2>3. ASSUME NEW l \in Node, fut[l] = "live" PROVE l = n
    <3>1. l \in Within(n) /\ OnPath(l, st) /\ IsService(l)
      BY <1>12, <2>1, <2>2, <2>3 DEF InCall
    <3>2. QED
      BY <1>1, <2>1, <3>1, LiveBelow
  <2>4. QED
    BY <1>12, <2>1, <2>2, <2>3 DEF InCall
<1>13. ASSUME NEW n \in Node, UserPending(n) PROVE Goal
  <2>1. /\ cur = n /\ cur # 0 /\ cur' = n /\ ans.tag = "none" /\ ans'.tag = "pending" /\ OwnTurn(n) /\ job = "call"
        /\ regs' = regs \cup {n} /\ st' = st /\ fut' = fut /\ woken' = woken
    BY <1>1, <1>13 DEF UserPending, Give
  <2>2. InCall(n, "none", st, fut, regs, woken)
    BY <1>2, <2>1
  <2>3. QED
    BY <1>1, <1>12, <2>1, <2>2 DEF InCall
<1>14. ASSUME NEW n \in Node, NEW tag \in {"ok", "err"}, UserEnds(n, tag) PROVE Goal
  <2>1. /\ cur = n /\ cur # 0 /\ cur' = n /\ ans.tag = "none" /\ ans'.tag = tag /\ OwnTurn(n) /\ job = "call"
        /\ mode = "call" /\ st' = st /\ fut' = [fut EXCEPT ![n] = "done"] /\ woken' = woken
    BY <1>1, <1>14 DEF UserEnds, Give
  <2>2. InCall(n, "none", st, fut, regs, woken)
    BY <1>2, <2>1
  <2>3. \A l \in Node : fut'[l] # "live"
    BY <1>1, <1>12, <2>1
  <2>4. QED
    BY <1>1, <1>12, <2>1, <2>2, <2>3 DEF InCall
(* Up, with the answer as it is.                                           *)
<1>15. ASSUME NEW p \in Node, Up(p), job = "call", cur' = p, ans'.tag = ans.tag,
              UNCHANGED <<st, fut, regs, woken>>
       PROVE  Goal
  <2>1. cur # 0 /\ cur \in {First(p), Second(p)} /\ Combinator(p) /\ ans.tag \in Returned
    BY <1>1, <1>15, Returns
  <2>2. PICK c \in {First(p), Second(p)}, t \in Returned : c = cur /\ t = ans.tag
    BY <2>1
  <2>3. InCall(c, t, st, fut, regs, woken) /\ c # 0
    BY <1>2, <1>15, <2>1, <2>2
  <2>4. OnPath(p, st)
    <3>1. OnPath(c, st)
      BY <2>3 DEF InCall
    <3>2. QED
      BY <1>1, <2>1, <3>1, UpPath
  <2>5. InCall(p, t, st, fut, regs, woken)
    BY <1>1, <2>3, <2>4 DEF InCall, Returned
  <2>6. QED
    BY <1>15, <2>2, <2>5
<1>16. ASSUME NEW p \in Node, Forward(p) PROVE Goal
  BY <1>1, <1>15, <1>16 DEF Forward, Give, user
<1>17. ASSUME NEW p \in Node, NewTransform(p) \/ ConfigFactory(p) \/ ConfigReady(p) \/ PairCreate(p) \/ PairReady(p)
       PROVE  Goal
  <2>1. job = "call" /\ mode # "call" /\ cur # 0
    BY <1>17 DEF NewTransform, ConfigFactory, ConfigReady, PairCreate, PairReady, Up
  <2>2. QED
    BY <1>1, <2>1
<1>18. ASSUME NEW p \in Node, Is(p, Pair), NEW goes \in SUBSET {"ok", "err"}, PairCall(p, goes) PROVE Goal
  <2>1. /\ Up(p) /\ mode = "call" /\ job = "call" /\ cur # 0 /\ UNCHANGED <<fut, regs, woken>>
    BY <1>1, <1>18 DEF PairCall, Up, user
  <2>2. CASE cur = First(p) /\ ans.tag \in goes
    <3>1. cur' = Second(p) /\ ans'.tag = "req" /\ st' = [st EXCEPT ![p] = "B"]
      BY <1>1, <1>18, <2>2 DEF PairCall, Give
    <3>2. PICK t \in {"ok", "err"} : t = ans.tag
      BY <2>2
    <3>3. InCall(First(p), t, st, fut, regs, woken) /\ First(p) # 0
      BY <1>2, <2>1, <2>2, <3>2
    <3>4. /\ Combinator(p) /\ First(p) \in Node /\ Second(p) \in Node /\ ~IsService(p)
          /\ Within(Second(p)) \subseteq Within(p) /\ p \notin Within(Second(p))
      <4>1. Combinator(p) /\ ~IsService(p)
        BY <1>18, Kinds DEF Combinator
      <4>2. QED
        BY <1>1, <4>1, Operands DEF Combinator
    <3>5. OnPath(p, st) /\ st[p] = "A"
      <4>1. OnPath(First(p), st)
        BY <3>3 DEF InCall
      <4>2. QED
        BY <1>1, <1>18, <3>4, <4>1, UpPath
    <3>6. OnPath(p, st')
      <4>1. \A q \in Above(p) : q \in Node /\ q # p /\ st'[q] = st[q]
        BY <1>1, <3>1, TreeOrder
      <4>2. QED
        BY <3>5, <4>1 DEF OnPath
    <3>7. OnPath(Second(p), st')
      <4>1. st'[p] # "A"
        BY <1>1, <3>1
      <4>2. PICK s : s = st'
        OBVIOUS
      <4>3. OnPath(Second(p), s)
        BY <1>1, <3>4, <3>6, <4>1, <4>2, DownPath
      <4>4. QED
        BY <4>2, <4>3
    <3>8. \A l \in Node : fut'[l] # "live"
      BY <2>1, <3>3 DEF InCall
    <3>9. Unstarted(Within(Second(p)), st')
      <4>1. Unstarted(Within(Second(p)), st)
        BY <1>18, <3>3, <3>5 DEF InCall
      <4>2. \A q \in Within(Second(p)) : st'[q] = st[q]
        BY <1>1, <3>1, <3>4
      <4>3. QED
        BY <4>1, <4>2 DEF Unstarted
    <3>10. ASSUME NEW q \in Node, Is(q, Pair), st'[q] = "A" PROVE Unstarted(Within(Second(q)), st')
      <4>1. q # p /\ st[q] = "A"
        BY <1>1, <3>1, <3>10
      <4>2. Unstarted(Within(Second(q)), st)
        BY <3>3, <3>10, <4>1 DEF InCall
      <4>3. /\ Within(First(q)) \cap Within(Second(q)) = {} /\ Second(q) \in Node
            /\ Within(Second(q)) \subseteq Within(q)
        BY <1>1, <3>10, Operands, Kinds
      <4>4. ASSUME p \in Within(Second(q)) PROVE FALSE
        <5>1. q \in Above(p)
          BY <1>1, <4>1, <4>3, <4>4, TreeOrder
        <5>2. p \in Within(First(q))
          BY <3>5, <3>10, <4>1, <5>1 DEF OnPath
        <5>3. QED
          BY <4>3, <4>4, <5>2
      <4>5. \A r \in Within(Second(q)) : st'[r] = st[r]
        BY <1>1, <3>1, <4>3, <4>4
      <4>6. QED
        BY <4>2, <4>5 DEF Unstarted
    <3>11. QED
      BY <1>1, <3>1, <3>7, <3>8, <3>9, <3>10 DEF InCall
  <2>3. CASE ~(cur = First(p) /\ ans.tag \in goes)
    <3>1. cur' = p /\ ans' = ans /\ st' = st
      BY <1>18, <2>3 DEF PairCall, Give
    <3>2. QED
      BY <1>15, <2>1, <3>1
  <2>4. QED
    BY <2>2, <2>3
<1>19. QED
  <2>1. {"ok"} \in SUBSET {"ok", "err"} /\ {"ok", "err"} \in SUBSET {"ok", "err"}
    OBVIOUS
  <2>2. QED
    BY <1>3, <1>4, <1>5, <1>6, <1>7, <1>8, <1>9, <1>10, <1>11, <1>13, <1>14, <1>16, <1>17, <1>18, <2>1, Kinds
    DEF Next, Walk, AndThenCall, AndThenReady, AndThenCreate, ThenCall, ThenReady, ThenCreate

-----------------------------------------------------------------------------
(* The creation of a service.                                               *)

(* What MakeInv says of the next state, over a tree that stays.             *)
LEMMA MakeNext ==
    ASSUME tree' = tree,
           job' = "create" =>
              /\ Parts(st', fut', have', asked')
              /\ Place(cur', ans'.tag, mode', st', fut', have')
              /\ LeftBehind(cur', ans'.tag, mode', st', fut', asked', regs', woken')
    PROVE  MakeInv'
<1>1. /\ Node' = Node
      /\ \A n : /\ Within(n)' = Within(n) /\ Above(n)' = Above(n) /\ IsService(n)' = IsService(n)
                /\ First(n)' = First(n) /\ Second(n)' = Second(n) /\ Is(n, Pair)' = Is(n, Pair)
                /\ Is(n, Leaf)' = Is(n, Leaf) /\ Is(n, Transforms)' = Is(n, Transforms)
                /\ Is(n, {"apply_cfg"})' = Is(n, {"apply_cfg"}) /\ Services(n)' = Services(n)
  BY SameTree
<1>2. /\ Above(cur)' = Above(cur') /\ Within(cur)' = Within(cur')
      /\ \A p : Within(Second(p))' = Within(Second(p)) /\ Within(First(p))' = Within(First(p))
                /\ Services(Second(p))' = Services(Second(p))
  BY DEF Services, Above, Within, Node, Width, First, Second, Is, IsService
<1>3. /\ \A n : Turn(n, st)' <=> Turn(n, st')
      /\ \A n : Waits(n, st)' <=> Waits(n, st')
      /\ \A p, d : Made(p, d, st, have)' <=> Made(p, d, st', have')
  BY <1>1 DEF Turn, Waits, Made, Combinator
<1>4. /\ \A d : Settled(Within(d), st, fut)' <=> Settled(Within(d), st', fut')
      /\ Settled(Within(cur), st, fut)' <=> Settled(Within(cur'), st', fut')
  BY <1>1, <1>2, <1>3 DEF Settled
<1>5. /\ \A p : Quiet(Within(First(p)), st, fut, asked, regs)' <=> Quiet(Within(First(p)), st', fut', asked', regs')
      /\ Quiet(Within(cur), st, fut, asked, regs)' <=> Quiet(Within(cur'), st', fut', asked', regs')
      /\ Quiet(Node, st, fut, asked, regs)' <=> Quiet(Node, st', fut', asked', regs')
  BY <1>1, <1>2, <1>3 DEF Quiet
<1>6. Parts(st, fut, have, asked)' <=> Parts(st', fut', have', asked')
  BY <1>1, <1>2, <1>3, <1>4 DEF Parts
<1>7. Place(cur, ans.tag, mode, st, fut, have)' <=> Place(cur', ans'.tag, mode', st', fut', have')
  <2>1. \A n : Finished(n, st, fut, have)' <=> Finished(n, st', fut', have')
    BY <1>1, <1>3 DEF Finished
  <2>2. \A n : Covered(n, cur, ans.tag, mode, st, have)' <=> Covered(n, cur', ans'.tag, mode', st', have')
    BY <1>1, <1>2, <1>3 DEF Covered
  <2>3. \A n : Host(n, cur, st, have)' <=> Host(n, cur', st', have')
    BY <1>1, <1>2, <1>3 DEF Host
  <2>4. \A d : cur' \in Within(d)' <=> cur' \in Within(d)
    BY <1>1
  <2>5. QED
    BY <1>1, <1>3, <2>1, <2>2, <2>3, <2>4 DEF Place
<1>8. LeftBehind(cur, ans.tag, mode, st, fut, asked, regs, woken)'
         <=> LeftBehind(cur', ans'.tag, mode', st', fut', asked', regs', woken')
  BY <1>1, <1>2, <1>4, <1>5 DEF LeftBehind
<1>9. QED
  BY <1>6, <1>7, <1>8 DEF MakeInv

(* A node and its operand are on the same side of every pair above.        *)
LEMMA SameSide ==
    ASSUME tree \in Trees, NEW p \in Node, Combinator(p), NEW c \in {First(p), Second(p)},
           NEW q \in Above(p), NEW x \in {First(q), Second(q)}
    PROVE  c \in Within(x) <=> p \in Within(x)
<1>1. /\ c \in Node /\ Above(c) = {p} \cup Above(p) /\ c \in Within(p) /\ Parent(c) = p
      /\ q \in Node /\ Combinator(q) /\ q # p /\ p \in Within(q)
  BY Operands, AboveOperands, Parents, TreeOrder DEF Combinator
<1>2. x \in Node /\ Parent(x) = q
  BY <1>1, Operands, Parents DEF Combinator
<1>3. p \in Within(x) => c \in Within(x)
  BY <1>1, <1>2, TreeOrder
<1>4. c \in Within(x) => p \in Within(x)
  BY <1>1, <1>2, TreeOrder
<1>5. QED
  BY <1>3, <1>4

(* What is quiet stays so when a user's future outside it changes.          *)
LEMMA QuietElsewhere ==
    ASSUME tree \in Trees, NEW n \in Node, NEW m \in Node, n \notin Within(m),
           NEW s, NEW f, NEW said, NEW waits, NEW s2, NEW f2, NEW said2, NEW waits2,
           Quiet(Within(m), s, f, said, waits),
           said \ {n} \subseteq said2, waits \ {n} \subseteq waits2,
           \A k \in Node \ {n} : s2[k] = s[k] /\ f2[k] = f[k]
    PROVE  Quiet(Within(m), s2, f2, said2, waits2)
<1> SUFFICES ASSUME NEW k \in Within(m)
             PROVE  /\ f2[k] = "live" => k \in waits2
                    /\ Waits(k, s2) => Services(Second(k)) \subseteq said2 \cup waits2
  BY DEF Quiet
<1>1. k \in Node /\ k # n /\ Within(k) \subseteq Within(m)
  BY TreeOrder
<1>2. f2[k] = "live" => k \in waits2
  BY <1>1 DEF Quiet
<1>3. ASSUME Waits(k, s2) PROVE Services(Second(k)) \subseteq said2 \cup waits2
  <2>1. Waits(k, s) /\ ~Is(k, Leaf)
    BY <1>1, <1>3, Kinds DEF Waits
  <2>2. Services(Second(k)) \subseteq said \cup waits
    BY <2>1 DEF Quiet
  <2>3. Second(k) \in Node /\ Within(Second(k)) \subseteq Within(k)
    BY <1>1, <2>1, Operands
  <2>4. Services(Second(k)) \subseteq Within(Second(k))
    BY <2>3, ServicesOf
  <2>5. n \notin Services(Second(k))
    BY <1>1, <2>3, <2>4
  <2>6. QED
    BY <2>2, <2>5
<1>4. QED
  BY <1>2, <1>3

(* What has been made will not need the task: it is quiet.                  *)
LEMMA SettledIsQuiet ==
    ASSUME NEW S, NEW s, NEW f, NEW said, NEW waits, Settled(S, s, f)
    PROVE  Quiet(S, s, f, said, waits)
BY DEF Settled, Quiet

(* apply_cfg's host stays where it is while the walk is below it.          *)
LEMMA HostMoves ==
    ASSUME tree \in Trees, NEW p \in Node, Combinator(p), ~IsService(p), NEW c \in {First(p), Second(p)},
           NEW n \in Node, NEW s, NEW h
    PROVE  Host(n, p, s, h) <=> Host(n, c, s, h)
<1>1. /\ c \in Node /\ Above(c) = {p} \cup Above(p)
  BY Operands, AboveOperands DEF Combinator
<1>2. Waits(n, s) => n # p
  BY Kinds DEF Waits
<1>3. QED
  BY <1>1, <1>2 DEF Host

(* Steps of a walk that asks, below h, a service that is made.             *)
LEMMA AskingStep ==
    ASSUME tree \in Trees, NEW c \in Node, NEW c2 \in Node, NEW tag, NEW tag2,
           NEW s, NEW f, NEW h, NEW said, NEW waits, NEW said2, NEW waits2, NEW woke, NEW woke2, NEW n \in Node,
           0 \notin Node,
           Host(n, c, s, h), Host(n, c2, s, h), c2 # c => said2 = said /\ waits2 = waits,
           said \ {c} \subseteq said2, waits \ {c} \subseteq waits2, tag2 # "err" => tag # "err",
           Parts(s, f, h, said), Place(c, tag, "ready", s, f, h),
           LeftBehind(c, tag, "ready", s, f, said, waits, woke)
    PROVE  /\ Parts(s, f, h, said2) /\ Place(c2, tag2, "ready", s, f, h)
           /\ LeftBehind(c2, tag2, "ready", s, f, said2, waits2, woke2)
<1>1. /\ n \in Above(c) /\ n \in Above(c2) /\ Waits(n, s) /\ Combinator(n)
      /\ Second(n) \in Node /\ First(n) = Second(n) /\ Within(n) = {n} \cup Within(Second(n))
      /\ c # n /\ c2 # n /\ c \in Within(n) /\ c2 \in Within(n)
  <2>1. Is(n, Wrapper) /\ Combinator(n)
    BY Kinds DEF Host, Waits, Combinator
  <2>2. QED
    BY <2>1, Operands, TreeOrder DEF Host, Combinator
<1>2. Settled(Within(Second(n)), s, f)
  <2>1. Made(n, Second(n), s, h)
    BY <1>1 DEF Made, Waits
  <2>2. QED
    BY <1>1, <2>1 DEF Parts
<1>3. Parts(s, f, h, said2)
  <2> SUFFICES ASSUME NEW k \in Node, Is(k, {"apply_cfg"}), s[k] = "C" PROVE c \notin Services(Second(k))
    <3>1. \A k \in Node : Is(k, {"apply_cfg"}) /\ s[k] = "C" => Services(Second(k)) \subseteq said
      BY DEF Parts
    <3>2. QED
      BY <3>1 DEF Parts
  <2>1. /\ Made(k, Second(k), s, h) /\ Second(k) \in Node /\ Within(k) = {k} \cup Within(Second(k))
        /\ IsService(k) /\ k # n /\ Services(Second(k)) \subseteq Within(Second(k))
    <3>1. Is(k, Wrapper) /\ Combinator(k) /\ IsService(k)
      BY Kinds DEF Combinator
    <3>2. Second(k) \in Node /\ First(k) = Second(k) /\ Within(k) = {k} \cup Within(Second(k))
      BY <3>1, Operands DEF Combinator
    <3>3. k # n
      BY <1>1 DEF Waits
    <3>4. QED
      BY <3>1, <3>2, <3>3, ServicesOf DEF Made
  <2>2. ASSUME c \in Within(Second(k)) PROVE FALSE
    <3>1. n \notin Within(Second(k))
      BY <2>1 DEF Host
    <3>2. c \in Within(k) /\ k # c
      BY <2>1, <2>2, TreeOrder, Operands, Kinds
    <3>3. k \in Above(c)
      BY <3>2, TreeOrder
    <3>4. k \notin Within(n)
      BY <2>1, <3>3 DEF Host
    <3>5. n \in Within(k)
      BY <1>1, <3>2, <3>4, TreeOrder
    <3>6. QED
      BY <2>1, <3>1, <3>5
  <2>3. QED
    BY <2>1, <2>2
<1>4. Place(c2, tag2, "ready", s, f, h)
  BY DEF Place, Covered
<1>5. ASSUME NEW p \in Above(c2), Is(p, Pair), c2 \in Within(Second(p))
      PROVE  Quiet(Within(First(p)), s, f, said2, waits2)
  <2>1. /\ p \in Node /\ p # n /\ First(p) \in Node /\ Second(p) \in Node
        /\ Within(First(p)) \subseteq Within(p) /\ Within(First(p)) \cap Within(Second(p)) = {}
        /\ c2 \in Within(p) /\ Combinator(p)
    <3>1. p \in Node /\ ~Is(p, Leaf) /\ p # n
      BY <1>1, <1>5, TreeOrder, Kinds DEF Waits
    <3>2. QED
      BY <1>5, <3>1, TreeOrder, Operands DEF Combinator
  <2>2. CASE p \in Within(n)
    <3>1. Within(First(p)) \subseteq Within(Second(n))
      BY <1>1, <2>1, <2>2, TreeOrder
    <3>2. Settled(Within(First(p)), s, f)
      BY <1>2, <3>1 DEF Settled
    <3>3. QED
      BY <3>2, SettledIsQuiet
  <2>3. CASE p \notin Within(n)
    <3>1. p \in Above(n)
      BY <1>1, <2>1, <2>3, TreeOrder
    <3>2. /\ c2 \in Within(Second(p)) => n \in Within(Second(p))
          /\ n \in Within(Second(p)) => c \in Within(Second(p))
      <4>1. n \in Within(Second(p)) => c \in Within(Second(p))
        BY <1>1, <2>1, TreeOrder
      <4>2. c2 \in Within(Second(p)) /\ n \notin Within(Second(p)) => Second(p) \in Within(n)
        BY <1>1, <2>1, TreeOrder
      <4>3. Second(p) \in Within(n) => Second(p) = n
        BY <2>1, <3>1, AboveOperands, TreeOrder
      <4>4. n \in Within(n)
        BY TreeOrder
      <4>5. QED
        BY <4>1, <4>2, <4>3, <4>4
    <3>3. Quiet(Within(First(p)), s, f, said, waits) /\ c \in Within(Second(p))
      <4>1. p \in Above(c) /\ c \in Within(Second(p))
        BY <1>1, <1>5, <2>1, <3>1, <3>2, TreeOrder
      <4>2. QED
        BY <1>5, <4>1 DEF LeftBehind
    <3>4. c \notin Within(First(p))
      BY <2>1, <3>3
    <3>5. QED
      BY <2>1, <3>3, <3>4, QuietElsewhere
  <2>4. QED
    BY <2>2, <2>3
<1>6. LeftBehind(c2, tag2, "ready", s, f, said2, waits2, woke2)
  BY <1>5 DEF LeftBehind
<1>7. QED
  BY <1>3, <1>4, <1>6

(* What is made is an operand; the walk goes up past none of it.           *)
LEMMA MadeIs ==
    ASSUME tree \in Trees, NEW p \in Node, NEW d \in Node, NEW s, NEW h, Made(p, d, s, h)
    PROVE  /\ d # Root /\ Parent(d) = p /\ Root \notin Within(d)
           /\ \A n \in Node : \A c \in {First(n), Second(n)} :
                Combinator(n) /\ c \notin Within(d) => n \notin Within(d)
<1>1. Combinator(p) /\ d \in {First(p), Second(p)}
  BY DEF Made
<1>2. d # Root /\ Parent(d) = p
  BY <1>1, Parents DEF Combinator
<1>3. Root \notin Within(d)
  BY <1>2, TreeOrder
<1>4. ASSUME NEW n \in Node, NEW c \in {First(n), Second(n)}, Combinator(n), n \in Within(d)
      PROVE  c \in Within(d)
  BY <1>4, Operands, TreeOrder DEF Combinator
<1>5. QED
  BY <1>2, <1>3, <1>4

(* While a service is made, down from n to an operand that is not made.    *)
LEMMA MakeDown ==
    ASSUME tree \in Trees, 0 \notin Node, NEW n \in Node, Combinator(n), NEW c \in {First(n), Second(n)},
           NEW s, NEW f, NEW h, NEW said, NEW waits, NEW woke, NEW m2,
           Place(n, "none", "create", s, f, h), Parts(s, f, h, said),
           LeftBehind(n, "none", "create", s, f, said, waits, woke),
           m2 = IF Waits(n, s) THEN "ready" ELSE "create",
           Is(n, Transforms) => s[n] # "B",
           Is(n, {"apply_cfg"}) => s[n] # "C",
           Is(n, Pair) => c = IF First(n) \in h THEN Second(n) ELSE First(n)
    PROVE  Place(c, "none", m2, s, f, h) /\ LeftBehind(c, "none", m2, s, f, said, waits, woke)
<1>1. /\ c \in Node /\ Above(c) = {n} \cup Above(n) /\ Parent(c) = n /\ c # 0 /\ n # 0
      /\ First(n) \in Node /\ Second(n) \in Node
  BY Operands, AboveOperands, Parents DEF Combinator
<1>2. \A p, d \in Node : Made(p, d, s, h) => n \notin Within(d)
  BY <1>1 DEF Place
<1>3. \A k \in Node : Finished(k, s, f, h) => \E p, d \in Node : Made(p, d, s, h) /\ k \in Within(d)
  BY DEF Place, Covered
<1>4. ASSUME ~Waits(n, s) PROVE ~Made(n, c, s, h)
  <2>1. CASE Is(n, Pair)
    <3>1. ~({First(n), Second(n)} \subseteq h)
      BY <1>2, <1>3, <2>1 DEF Finished
    <3>2. c \notin h
      BY <2>1, <3>1
    <3>3. QED
      BY <2>1, <3>2, Kinds DEF Made
  <2>2. CASE ~Is(n, Pair)
    BY <1>4, <2>2 DEF Made, Waits
  <2>3. QED
    BY <2>1, <2>2
<1>5. ASSUME ~Waits(n, s), NEW p \in Node, NEW d \in Node, Made(p, d, s, h) PROVE c \notin Within(d)
  <2>1. Parent(d) = p
    BY <1>5, MadeIs
  <2>2. d # c
    BY <1>1, <1>4, <1>5, <2>1
  <2>3. n \notin Within(d)
    BY <1>2, <1>5
  <2>4. QED
    BY <1>1, <2>2, <2>3, TreeOrder
<1>6. ASSUME Waits(n, s) PROVE Host(n, c, s, h)
  <2>1. ASSUME NEW k \in Above(c), k \in Within(n), k # n PROVE FALSE
    BY <1>1, <2>1, TreeOrder
  <2>2. QED
    BY <1>1, <1>2, <1>6, <2>1 DEF Host
<1>7. Place(c, "none", m2, s, f, h)
  BY <1>3, <1>5, <1>6 DEF Place, Covered
<1>8. ASSUME NEW q \in Above(c), Is(q, Pair), c \in Within(Second(q)) PROVE Quiet(Within(First(q)), s, f, said, waits)
  <2>1. CASE q = n
    <3>1. c # First(n)
      <4>1. c \in Within(c) /\ (Within(First(n)) \cap Within(Second(n)) = {})
        BY <1>1, <1>8, <2>1, TreeOrder, Operands
      <4>2. QED
        BY <1>8, <2>1, <4>1
    <3>2. Made(n, First(n), s, h)
      BY <1>8, <2>1, <3>1 DEF Made
    <3>3. Settled(Within(First(n)), s, f)
      BY <1>1, <3>2 DEF Parts
    <3>4. QED
      BY <2>1, <3>3, SettledIsQuiet
  <2>2. CASE q # n
    <3>1. q \in Above(n)
      BY <1>1, <1>8, <2>2
    <3>2. n \in Within(Second(q))
      BY <1>8, <3>1, SameSide
    <3>3. QED
      BY <1>1, <1>8, <3>1, <3>2 DEF LeftBehind
  <2>3. QED
    BY <2>1, <2>2
<1>9. LeftBehind(c, "none", m2, s, f, said, waits, woke)
  BY <1>1, <1>8 DEF LeftBehind
<1>10. QED
  BY <1>7, <1>9

(* A user's future answers.                                                *)
LEMMA MakeUser ==
    ASSUME tree \in Trees, 0 \notin Node, NEW n \in Node, NEW tag \in {"pending", "ok", "err"},
           NEW s, NEW f \in [Node -> {"none", "live", "done"}], NEW h, NEW said, NEW waits, NEW woke,
           NEW f2, NEW waits2,
           Turn(n, s), Parts(s, f, h, said), Place(n, "none", "create", s, f, h),
           LeftBehind(n, "none", "create", s, f, said, waits, woke),
           waits2 = IF tag = "pending" THEN waits \cup {n} ELSE waits \ {n},
           f2 = IF tag = "pending" THEN f ELSE [f EXCEPT ![n] = "done"]
    PROVE  Parts(s, f2, h, said) /\ Place(n, tag, "create", s, f2, h)
           /\ LeftBehind(n, tag, "create", s, f2, said, waits2, woke)
<1>1. /\ \A k \in Node : f2[k] = "live" => f[k] = "live"
      /\ \A k \in Node \ {n} : f2[k] = f[k]
      /\ tag # "pending" => f2[n] = "done"
      /\ n # 0 /\ n \in Within(n) /\ \A k \in Node : Within(k) \subseteq Node
  BY TreeOrder
<1>2. \A d \in Node : Settled(Within(d), s, f) => Settled(Within(d), s, f2)
  BY <1>1 DEF Settled
<1>3. Parts(s, f2, h, said)
  BY <1>1, <1>2 DEF Parts
<1>4. Place(n, tag, "create", s, f2, h)
  <2>1. \A k \in Node \ {n} : Finished(k, s, f2, h) <=> Finished(k, s, f, h)
    BY <1>1 DEF Finished
  <2>2. tag = "pending" => f2 = f
    OBVIOUS
  <2>3. \A k \in Node : Finished(k, s, f, h) => \E p, d \in Node : Made(p, d, s, h) /\ k \in Within(d)
    BY DEF Place, Covered
  <2>4. QED
    BY <1>1, <2>1, <2>2, <2>3 DEF Place, Covered
(* Below a transform and apply_cfg everything is made by now.              *)
<1>5. ~Waits(n, s) /\ \A k \in Within(n) : k # n => f[k] # "live" /\ ~Waits(k, s)
  <2>1. CASE Is(n, Leaf)
    BY <2>1, Operands, Kinds DEF Waits
  <2>2. CASE ~Is(n, Leaf)
    <3>1. Is(n, Wrapper) /\ ~Is(n, Pair) /\ Combinator(n)
      BY <2>2, Kinds DEF Turn, Combinator
    <3>2. /\ Second(n) \in Node /\ Within(n) = {n} \cup Within(Second(n))
      BY <2>2, <3>1, Operands
    <3>3. Made(n, Second(n), s, h)
      BY <2>2, <3>1 DEF Made, Turn
    <3>4. Settled(Within(Second(n)), s, f)
      BY <3>2, <3>3 DEF Parts
    <3>5. ~Waits(n, s)
      BY <2>2, Kinds DEF Turn, Waits
    <3>6. QED
      BY <3>2, <3>4, <3>5 DEF Settled
  <2>3. QED
    BY <2>1, <2>2
<1>6. ASSUME NEW q \in Above(n), Is(q, Pair), n \in Within(Second(q)) PROVE Quiet(Within(First(q)), s, f2, said, waits2)
  <2>1. Quiet(Within(First(q)), s, f, said, waits)
    BY <1>1, <1>6 DEF LeftBehind
  <2>2. First(q) \in Node /\ n \notin Within(First(q))
    BY <1>6, TreeOrder, Operands, Kinds
  <2>3. /\ waits \ {n} \subseteq waits2 /\ said \ {n} \subseteq said
        /\ \A k \in Node \ {n} : s[k] = s[k] /\ f2[k] = f[k]
    BY <1>1
  <2>4. PICK m \in Node : m = First(q)
    BY <2>2
  <2>5. Quiet(Within(m), s, f2, said, waits2)
    <3>1. n \notin Within(m) /\ Quiet(Within(m), s, f, said, waits)
      BY <2>1, <2>2, <2>4
    <3>2. QED
      BY ONLY <2>3, <3>1, QuietElsewhere, tree \in Trees, n \in Node, m \in Node
  <2>6. QED
    BY <2>4, <2>5
<1>7. tag = "ok" => Settled(Within(n), s, f2)
  BY <1>1, <1>5 DEF Settled
<1>8. tag = "pending" => Quiet(Within(n), s, f2, said, waits2)
  BY <1>1, <1>5 DEF Quiet
<1>9. QED
  BY <1>1, <1>3, <1>4, <1>6, <1>7, <1>8 DEF LeftBehind

(* An operand's answer goes up, past nothing that is made.                 *)
LEMMA UpPastNone ==
    ASSUME tree \in Trees, 0 \notin Node, NEW p \in Node, Combinator(p), NEW c \in {First(p), Second(p)},
           NEW tag, NEW m, NEW s, NEW f, NEW h, NEW said, NEW waits, NEW woke,
           LeftBehind(c, tag, m, s, f, said, waits, woke)
    PROVE  /\ c \in Node /\ c # 0 /\ p # 0 /\ p \notin Within(c) /\ c \in Within(c)
           /\ Within(c) \subseteq Within(p) /\ Parent(c) = p
           /\ m = "create" /\ Place(c, tag, m, s, f, h) =>
                \A q, d \in Node : Made(q, d, s, h) => p \notin Within(d) /\ c \notin Within(d)
           /\ \A q \in Above(p) : Is(q, Pair) /\ p \in Within(Second(q)) =>
                Quiet(Within(First(q)), s, f, said, waits)
<1>1. /\ c \in Node /\ c # 0 /\ p # 0 /\ p \notin Within(c) /\ c \in Within(c) /\ Within(c) \subseteq Within(p)
      /\ Parent(c) = p /\ Above(c) = {p} \cup Above(p)
  BY Operands, TreeOrder, Parents, AboveOperands DEF Combinator
<1>2. ASSUME m = "create", Place(c, tag, m, s, f, h), NEW q \in Node, NEW d \in Node, Made(q, d, s, h)
      PROVE  p \notin Within(d) /\ c \notin Within(d)
  <2>1. c \notin Within(d)
    BY <1>1, <1>2 DEF Place
  <2>2. QED
    BY <1>2, <2>1, MadeIs
<1>3. ASSUME NEW q \in Above(p), Is(q, Pair), p \in Within(Second(q))
      PROVE  Quiet(Within(First(q)), s, f, said, waits)
  <2>1. c \in Within(Second(q))
    BY <1>3, SameSide
  <2>2. QED
    BY <1>1, <1>3, <2>1 DEF LeftBehind
<1>4. QED
  BY <1>1, <1>2, <1>3

(* While a service is made, an answer goes up unchanged.                    *)
LEMMA MakeUp ==
    ASSUME tree \in Trees, 0 \notin Node, NEW p \in Node, Combinator(p), NEW c \in {First(p), Second(p)},
           NEW tag, NEW s, NEW f, NEW h, NEW said, NEW waits, NEW woke, tag # "none",
           Parts(s, f, h, said), Place(c, tag, "create", s, f, h),
           LeftBehind(c, tag, "create", s, f, said, waits, woke),
           tag # "err" => Is(p, Wrapper) /\ ~Turn(p, s) /\ ~Waits(p, s)
    PROVE  Place(p, tag, "create", s, f, h) /\ LeftBehind(p, tag, "create", s, f, said, waits, woke)
<1>1. /\ c \in Node /\ c # 0 /\ p # 0 /\ Within(c) \subseteq Within(p)
      /\ \A q, d \in Node : Made(q, d, s, h) => p \notin Within(d)
      /\ \A q \in Above(p) : Is(q, Pair) /\ p \in Within(Second(q)) => Quiet(Within(First(q)), s, f, said, waits)
  BY UpPastNone
<1>2. Place(p, tag, "create", s, f, h)
  <2>1. \A n \in Node : Covered(n, c, tag, "create", s, h) => Covered(n, p, tag, "create", s, h)
    BY <1>1 DEF Covered
  <2>2. QED
    BY <1>1, <2>1 DEF Place
<1>3. tag # "err" => Within(p) = {p} \cup Within(c) /\ f[p] # "live" /\ ~Waits(p, s)
  <2>1. tag # "err" => f[p] # "live"
    BY DEF Parts
  <2>2. QED
    BY <2>1, Operands DEF Combinator
<1>4. tag = "ok" => Settled(Within(p), s, f)
  BY <1>3 DEF Settled, LeftBehind
<1>5. tag = "pending" => Quiet(Within(p), s, f, said, waits)
  BY <1>3 DEF Quiet, LeftBehind
<1>6. QED
  BY <1>1, <1>2, <1>4, <1>5 DEF LeftBehind

(* The service below is made, and p's own future begins or the service is  *)
(* waited for.                                                             *)
LEMMA MakeOwn ==
    ASSUME tree \in Trees, 0 \notin Node, NEW p \in Node, Combinator(p), NEW c \in {First(p), Second(p)},
           NEW s \in [Node -> {"A", "B", "C"}], NEW f \in [Node -> {"none", "live", "done"}],
           NEW s2, NEW f2, NEW h, NEW said, NEW waits, NEW woke,
           Is(p, Transforms) \/ Is(p, {"apply_cfg"}),
           Parts(s, f, h, said), Place(c, "ok", "create", s, f, h),
           LeftBehind(c, "ok", "create", s, f, said, waits, woke),
           s2 = [s EXCEPT ![p] = "B"], f2 = IF Is(p, Transforms) THEN [f EXCEPT ![p] = "live"] ELSE f
    PROVE  /\ Parts(s2, f2, h, said) /\ Place(p, "none", "create", s2, f2, h)
           /\ LeftBehind(p, "none", "create", s2, f2, said, waits, woke)
<1>1. /\ c \in Node /\ c # 0 /\ p # 0 /\ p \notin Within(c) /\ Parent(c) = p /\ c \in Within(c)
      /\ \A q, d \in Node : Made(q, d, s, h) => p \notin Within(d) /\ c \notin Within(d)
      /\ \A q \in Above(p) : Is(q, Pair) /\ p \in Within(Second(q)) => Quiet(Within(First(q)), s, f, said, waits)
  BY UpPastNone
<1>2. /\ s2[p] = "B" /\ \A k \in Node \ {p} : s2[k] = s[k] /\ f2[k] = f[k]
      /\ Is(p, Transforms) => f2[p] = "live"
      /\ Is(p, {"apply_cfg"}) => f2 = f /\ ~Is(p, Transforms)
      /\ Is(p, Wrapper) /\ ~Is(p, Pair) /\ ~Is(p, Leaf) /\ First(p) = c /\ Second(p) = c
      /\ Settled(Within(c), s, f)
  <2>1. Is(p, Wrapper) /\ ~Is(p, Pair) /\ ~Is(p, Leaf)
    BY Kinds
  <2>2. First(p) = c /\ Second(p) = c
    BY <2>1, Operands
  <2>3. Settled(Within(c), s, f)
    BY DEF LeftBehind
  <2>4. Is(p, {"apply_cfg"}) => f2 = f /\ ~Is(p, Transforms)
    BY Kinds
  <2>5. QED
    BY <2>1, <2>2, <2>3, <2>4
<1>3. /\ \A q, d \in Node : Made(q, d, s2, h) => Made(q, d, s, h) \/ d = c
      /\ \A q, d \in Node : Made(q, d, s, h) => Made(q, d, s2, h)
      /\ Made(p, c, s2, h)
  <2>1. ASSUME NEW q \in Node, NEW d \in Node, q # p PROVE Made(q, d, s2, h) <=> Made(q, d, s, h)
    BY <1>2, <2>1 DEF Made
  <2>2. ASSUME NEW d \in Node, Made(p, d, s2, h) PROVE d = c
    BY <1>2, <2>2 DEF Made
  <2>3. Made(p, c, s2, h)
    BY <1>2 DEF Made
  <2>4. ASSUME NEW d \in Node, Made(p, d, s, h) PROVE FALSE
    <3>1. d = c
      BY <1>2, <2>4 DEF Made
    <3>2. QED
      BY <1>1, <2>4, <3>1
  <2>5. QED
    BY <2>1, <2>2, <2>3, <2>4
<1>4. ASSUME NEW d \in Node, p \notin Within(d), Settled(Within(d), s, f) PROVE Settled(Within(d), s2, f2)
  <2>1. \A k \in Within(d) : k \in Node /\ k # p
    BY <1>4, TreeOrder
  <2>2. QED
    BY <1>2, <1>4, <2>1 DEF Settled, Waits
<1>5. Parts(s2, f2, h, said)
  <2>1. ASSUME NEW n \in Node, f2[n] = "live" PROVE Turn(n, s2)
    <3>1. CASE n = p
      <4>1. Is(p, {"apply_cfg"}) => ~Turn(p, s)  \/ s[p] = "C"
        BY <1>2 DEF Turn
      <4>2. Is(p, {"apply_cfg"}) => f[p] # "live"
        <5>1. Is(p, {"apply_cfg"}) /\ s[p] = "C" => Made(p, c, s, h)
          BY <1>2 DEF Made
        <5>2. ~Made(p, c, s, h)
          BY <1>1
        <5>3. QED
          BY <1>1, <4>1, <5>1, <5>2 DEF Parts
      <4>3. QED
        BY <1>2, <2>1, <3>1, <4>2 DEF Turn
    <3>2. CASE n # p
      <4>1. Turn(n, s)
        BY <1>2, <2>1, <3>2 DEF Parts
      <4>2. QED
        BY <1>2, <3>2, <4>1 DEF Turn
    <3>3. QED
      BY <3>1, <3>2
  <2>2. ASSUME NEW n \in Node, Is(n, {"apply_cfg"}), s2[n] = "C" PROVE Services(Second(n)) \subseteq said
    BY <1>2, <2>2 DEF Parts
  <2>3. ASSUME NEW q \in Node, NEW d \in Node, Made(q, d, s2, h) PROVE Settled(Within(d), s2, f2)
    <3>1. p \notin Within(d) /\ Settled(Within(d), s, f)
      BY <1>1, <1>2, <1>3, <2>3 DEF Parts
    <3>2. QED
      BY <1>4, <3>1
  <2>4. QED
    BY <2>1, <2>2, <2>3 DEF Parts
<1>6. Place(p, "none", "create", s2, f2, h)
  <2>1. \A q, d \in Node : Made(q, d, s2, h) => p \notin Within(d)
    BY <1>1, <1>3
  <2>2. ASSUME NEW n \in Node, Finished(n, s2, f2, h) PROVE Covered(n, p, "none", "create", s2, h)
    <3>1. n # p
      BY <1>2, <2>2 DEF Finished, Turn
    <3>2. Finished(n, s, f, h)
      BY <1>2, <2>2, <3>1 DEF Finished, Turn
    <3>3. Covered(n, c, "ok", "create", s, h)
      BY <3>2 DEF Place
    <3>4. QED
      BY <1>1, <1>3, <3>3 DEF Covered
  <2>3. QED
    BY <1>1, <2>1, <2>2 DEF Place
<1>7. ASSUME NEW q \in Above(p), Is(q, Pair), p \in Within(Second(q))
      PROVE  Quiet(Within(First(q)), s2, f2, said, waits)
  <2>1. Quiet(Within(First(q)), s, f, said, waits)
    BY <1>1, <1>7
  <2>2. First(q) \in Node /\ p \notin Within(First(q))
    BY <1>7, TreeOrder, Operands, Kinds
  <2>3. said \ {p} \subseteq said /\ waits \ {p} \subseteq waits
    OBVIOUS
  <2>4. PICK x \in Node : x = First(q)
    BY <2>2
  <2>5. p \notin Within(x) /\ Quiet(Within(x), s, f, said, waits)
    BY <2>1, <2>2, <2>4
  <2>6. Quiet(Within(x), s2, f2, said, waits)
    <3>1. \A k \in Node \ {p} : s2[k] = s[k] /\ f2[k] = f[k]
      BY <1>2
    <3>2. QED
      BY ONLY <2>3, <2>5, <3>1, QuietElsewhere, tree \in Trees, p \in Node, x \in Node
  <2>7. QED
    BY <2>4, <2>6
<1>8. QED
  BY <1>1, <1>5, <1>6, <1>7 DEF LeftBehind

(* The host of a walk that has come up to apply_cfg is that node.          *)
LEMMA HostIsHere ==
    ASSUME tree \in Trees, NEW p \in Node, Combinator(p), IsService(p), NEW c \in {First(p), Second(p)},
           NEW n \in Node, NEW s, NEW h, Host(n, c, s, h)
    PROVE  n = p
<1>1. /\ c \in Node /\ Above(c) = {p} \cup Above(p)
  BY Operands, AboveOperands DEF Combinator
<1>2. n = p \/ n \in Above(p)
  BY <1>1 DEF Host
<1>3. n \in Above(p) => p \in Within(n) /\ p # n
  BY TreeOrder
<1>4. QED
  BY <1>1, <1>2, <1>3 DEF Host

(* The service that apply_cfg has made has answered: ready, it goes into   *)
(* the user's function, which is polled at once.                           *)
After(tag) == IF tag = "ok" THEN "none" ELSE tag

(* The service below apply_cfg answers the walk that asks it.               *)
LEMMA MakeAsked ==
    ASSUME tree \in Trees, 0 \notin Node, NEW p \in Node, Is(p, {"apply_cfg"}), NEW c \in {First(p), Second(p)},
           NEW tag \in Returned,
           NEW s \in [Node -> {"A", "B", "C"}], NEW f \in [Node -> {"none", "live", "done"}],
           NEW s2, NEW f2, NEW h, NEW said, NEW waits, NEW not, NEW woke,
           Parts(s, f, h, said), Place(c, tag, "ready", s, f, h), Heard(c, tag, said, waits, not),
           LeftBehind(c, tag, "ready", s, f, said, waits, woke),
           s2 = IF tag = "ok" THEN [s EXCEPT ![p] = "C"] ELSE s,
           f2 = IF tag = "ok" THEN [f EXCEPT ![p] = "live"] ELSE f
    PROVE  /\ Parts(s2, f2, h, said) /\ Place(p, After(tag), "create", s2, f2, h)
           /\ LeftBehind(p, After(tag), "create", s2, f2, said, waits, woke)
<1>1. /\ Combinator(p) /\ IsService(p) /\ Is(p, Wrapper) /\ ~Is(p, Pair) /\ ~Is(p, Leaf) /\ ~Is(p, Transforms)
  BY Kinds DEF Combinator
<1>2. /\ First(p) = c /\ Second(p) = c /\ c \in Node /\ c # 0 /\ p # 0 /\ p \notin Within(c) /\ c \in Within(c)
      /\ Within(p) = {p} \cup Within(c)
      /\ \A q \in Above(p) : Is(q, Pair) /\ p \in Within(Second(q)) => Quiet(Within(First(q)), s, f, said, waits)
  <2>1. First(p) = Second(p) /\ Within(p) = {p} \cup Within(First(p)) \cup Within(Second(p))
    BY <1>1, Operands
  <2>2. QED
    BY <1>1, <2>1, UpPastNone
<1>3. /\ Waits(p, s) /\ s[p] = "B"
      /\ \A q, d \in Node : Made(q, d, s, h) => p \notin Within(d)
  <2>1. PICK n \in Node : Host(n, c, s, h)
    BY <1>2 DEF Place
  <2>2. n = p
    BY <1>1, <2>1, HostIsHere
  <2>3. QED
    BY <2>1, <2>2 DEF Host, Waits
<1>4. /\ tag = "ok" => s2[p] = "C" /\ f2[p] = "live"
      /\ tag # "ok" => s2 = s /\ f2 = f
      /\ \A k \in Node \ {p} : s2[k] = s[k] /\ f2[k] = f[k]
  OBVIOUS
<1>5. /\ tag = "ok" => Services(Second(p)) \subseteq said
      /\ tag = "pending" => Services(Second(p)) \subseteq said \cup waits
  BY <1>2 DEF Heard
<1>6. \A q, d \in Node : Made(q, d, s2, h) <=> Made(q, d, s, h)
  <2>1. ASSUME NEW q \in Node, NEW d \in Node, q # p PROVE Made(q, d, s2, h) <=> Made(q, d, s, h)
    BY <1>4, <2>1 DEF Made
  <2>2. ASSUME NEW d \in Node PROVE Made(p, d, s2, h) <=> Made(p, d, s, h)
    BY <1>1, <1>3, <1>4 DEF Made
  <2>3. QED
    BY <2>1, <2>2
<1>7. Parts(s2, f2, h, said)
  <2>1. ASSUME NEW n \in Node, f2[n] = "live" PROVE Turn(n, s2)
    <3>1. CASE n = p
      <4>1. tag = "ok"
        <5>1. tag # "ok" => Turn(p, s)
          BY <1>4, <2>1, <3>1 DEF Parts
        <5>2. ~Turn(p, s)
          BY <1>1, <1>3 DEF Turn
        <5>3. QED
          BY <5>1, <5>2
      <4>2. QED
        BY <1>4, <3>1, <4>1 DEF Turn
    <3>2. CASE n # p
      <4>1. Turn(n, s)
        BY <1>4, <2>1, <3>2 DEF Parts
      <4>2. QED
        BY <1>4, <3>2, <4>1 DEF Turn
    <3>3. QED
      BY <3>1, <3>2
  <2>2. ASSUME NEW n \in Node, Is(n, {"apply_cfg"}), s2[n] = "C" PROVE Services(Second(n)) \subseteq said
    <3>1. n = p => tag = "ok"
      BY <1>3, <1>4, <2>2
    <3>2. QED
      BY <1>4, <1>5, <2>2, <3>1 DEF Parts
  <2>3. ASSUME NEW q \in Node, NEW d \in Node, Made(q, d, s2, h) PROVE Settled(Within(d), s2, f2)
    <3>1. p \notin Within(d) /\ Settled(Within(d), s, f)
      BY <1>3, <1>6, <2>3 DEF Parts
    <3>2. \A k \in Within(d) : k \in Node /\ k # p
      BY <3>1, TreeOrder
    <3>3. QED
      BY <1>4, <3>1, <3>2 DEF Settled, Waits
  <2>4. QED
    BY <2>1, <2>2, <2>3 DEF Parts
<1>8. Place(p, After(tag), "create", s2, f2, h)
  <2>1. \A q, d \in Node : Made(q, d, s2, h) => p \notin Within(d)
    BY <1>3, <1>6
  <2>2. ASSUME tag # "err", NEW n \in Node, Finished(n, s2, f2, h) PROVE Covered(n, p, After(tag), "create", s2, h)
    <3>1. n # p
      <4>1. tag = "ok" => ~Finished(p, s2, f2, h)
        BY <1>1, <1>4 DEF Finished
      <4>2. tag # "ok" => ~Finished(p, s2, f2, h)
        BY <1>1, <1>3, <1>4 DEF Finished, Turn
      <4>3. QED
        BY <2>2, <4>1, <4>2
    <3>2. Finished(n, s, f, h)
      BY <1>4, <2>2, <3>1 DEF Finished, Turn
    <3>3. Covered(n, c, tag, "ready", s, h)
      BY <2>2, <3>2 DEF Place
    <3>4. \E q, d \in Node : Made(q, d, s, h) /\ n \in Within(d)
      BY <3>3 DEF Covered
    <3>5. QED
      BY <1>6, <3>4 DEF Covered
  <2>3. QED
    BY <1>2, <2>1, <2>2 DEF Place, After
<1>9. ASSUME NEW q \in Above(p), Is(q, Pair), p \in Within(Second(q))
      PROVE  Quiet(Within(First(q)), s2, f2, said, waits)
  <2>1. Quiet(Within(First(q)), s, f, said, waits)
    BY <1>2, <1>9
  <2>2. First(q) \in Node /\ p \notin Within(First(q))
    BY <1>9, TreeOrder, Operands, Kinds
  <2>3. said \ {p} \subseteq said /\ waits \ {p} \subseteq waits
    OBVIOUS
  <2>4. PICK x \in Node : x = First(q)
    BY <2>2
  <2>5. p \notin Within(x) /\ Quiet(Within(x), s, f, said, waits)
    BY <2>1, <2>2, <2>4
  <2>6. Quiet(Within(x), s2, f2, said, waits)
    BY ONLY <1>4, <2>3, <2>5, QuietElsewhere, tree \in Trees, p \in Node, x \in Node
  <2>7. QED
    BY <2>4, <2>6
<1>10. tag = "pending" => Quiet(Within(p), s2, f2, said, waits)
  <2>1. Made(p, c, s, h)
    BY <1>1, <1>2, <1>3 DEF Made
  <2>2. Settled(Within(c), s, f)
    BY <1>2, <2>1 DEF Parts
  <2>3. f[p] # "live"
    BY <1>1, <1>3 DEF Parts, Turn
  <2>4. QED
    BY <1>2, <1>4, <1>5, <2>2, <2>3 DEF Quiet, Settled
<1>11. After(tag) # "ok"
  BY DEF After
<1>12. After(tag) = "pending" => tag = "pending"
  BY DEF After
<1>13. LeftBehind(p, After(tag), "create", s2, f2, said, waits, woke)
  BY <1>2, <1>9, <1>10, <1>11, <1>12 DEF LeftBehind
<1>14. QED
  BY <1>7, <1>8, <1>13

(* A pair remembers the half that is made.                                  *)
Having(h, tag, c) == IF tag = "ok" THEN h \cup {c} ELSE h

(* One of a pair's halves has answered; h2 are the factories that are made *)
(* with it.                                                                *)
LEMMA PairMade ==
    ASSUME tree \in Trees, 0 \notin Node, NEW p \in Node, Is(p, Pair), NEW c \in {First(p), Second(p)},
           NEW tag \in {"ok", "pending"}, NEW s, NEW f, NEW h, NEW h2, NEW said, NEW waits, NEW woke,
           Parts(s, f, h, said), Place(c, tag, "create", s, f, h),
           LeftBehind(c, tag, "create", s, f, said, waits, woke),
           h2 = Having(h, tag, c)
    PROVE  /\ Parts(s, f, h2, said)
           /\ \A q, d \in Node : Made(q, d, s, h2) => p \notin Within(d)
           /\ \A q, d \in Node : Made(q, d, s, h2) => d \in h2 \/ q # p
           /\ \A n \in Node : Finished(n, s, f, h2) =>
                 n = p \/ \E q, d \in Node : Made(q, d, s, h2) /\ n \in Within(d)
           /\ Quiet(Within(c), s, f, said, waits)
           /\ f[p] # "live" /\ ~Waits(p, s) /\ ~Turn(p, s)
<1> USE DEF Having
<1>1. Combinator(p) /\ ~Is(p, Leaf) /\ ~Is(p, Transforms) /\ ~Is(p, {"apply_cfg"})
  BY Kinds DEF Combinator
<1>2. /\ c \in Node /\ c # 0 /\ p # 0 /\ p \notin Within(c) /\ c \in Within(c) /\ Parent(c) = p
      /\ \A q, d \in Node : Made(q, d, s, h) => p \notin Within(d) /\ c \notin Within(d)
  BY <1>1, UpPastNone
<1>3. f[p] # "live" /\ ~Waits(p, s) /\ ~Turn(p, s)
  BY <1>1 DEF Parts, Turn, Waits
<1>4. /\ \A q, d \in Node : Made(q, d, s, h2) => Made(q, d, s, h) \/ (q = p /\ d = c /\ tag = "ok")
      /\ \A q, d \in Node : Made(q, d, s, h) => Made(q, d, s, h2)
      /\ tag = "ok" => Made(p, c, s, h2)
  <2>1. ASSUME NEW q \in Node, NEW d \in Node, Made(q, d, s, h2), ~Made(q, d, s, h)
        PROVE  q = p /\ d = c /\ tag = "ok"
    <3>1. d = c /\ tag = "ok" /\ Combinator(q) /\ d \in {First(q), Second(q)}
      BY <2>1 DEF Made
    <3>2. Parent(d) = q
      BY <3>1, Parents DEF Combinator
    <3>3. QED
      BY <1>2, <3>1, <3>2
  <2>2. QED
    BY <1>1, <2>1 DEF Made
<1>5. tag = "ok" => Settled(Within(c), s, f)
  BY DEF LeftBehind
<1>6. Quiet(Within(c), s, f, said, waits)
  BY <1>5, SettledIsQuiet DEF LeftBehind
<1>7. Parts(s, f, h2, said)
  BY <1>4, <1>5 DEF Parts
<1>8. \A q, d \in Node : Made(q, d, s, h2) => p \notin Within(d)
  BY <1>2, <1>4
<1>9. \A q, d \in Node : Made(q, d, s, h2) => d \in h2 \/ q # p
  BY <1>1 DEF Made
<1>10. ASSUME NEW n \in Node, Finished(n, s, f, h2), n # p
       PROVE  \E q, d \in Node : Made(q, d, s, h2) /\ n \in Within(d)
  <2>1. Finished(n, s, f, h)
    <3>1. ASSUME Is(n, Pair), {First(n), Second(n)} \subseteq h2 PROVE c \notin {First(n), Second(n)}
      BY <1>2, <1>10, <3>1, Parents, Kinds
    <3>2. QED
      BY <1>10, <3>1 DEF Finished
  <2>2. Covered(n, c, tag, "create", s, h)
    BY <2>1 DEF Place
  <2>3. QED
    BY <1>2, <1>4, <2>2 DEF Covered
<1>11. QED
  BY <1>3, <1>6, <1>7, <1>8, <1>9, <1>10

(* The second half is polled at once.                                      *)
LEMMA MakeAcross ==
    ASSUME tree \in Trees, 0 \notin Node, NEW p \in Node, Is(p, Pair), NEW c, c = First(p),
           NEW tag \in {"ok", "pending"}, NEW s, NEW f, NEW h, NEW h2, NEW said, NEW waits, NEW woke,
           Parts(s, f, h, said), Place(c, tag, "create", s, f, h),
           LeftBehind(c, tag, "create", s, f, said, waits, woke),
           h2 = Having(h, tag, c), Second(p) \notin h
    PROVE  /\ Parts(s, f, h2, said) /\ Place(Second(p), "none", "create", s, f, h2)
           /\ LeftBehind(Second(p), "none", "create", s, f, said, waits, woke)
<1>1. Combinator(p) /\ ~Is(p, Leaf)
  BY Kinds DEF Combinator
<1>2. PICK e \in Node : e = Second(p)
  BY <1>1, Operands
<1>3. /\ Above(e) = {p} \cup Above(p) /\ Parent(e) = p /\ e # c /\ e # 0 /\ c \in {First(p), Second(p)}
      /\ c \in Node /\ e \in Within(e)
  BY <1>1, <1>2, AboveOperands, Parents, Operands, TreeOrder
<1>4. /\ Parts(s, f, h2, said)
      /\ \A q, d \in Node : Made(q, d, s, h2) => p \notin Within(d)
      /\ \A q, d \in Node : Made(q, d, s, h2) => d \in h2 \/ q # p
      /\ \A n \in Node : Finished(n, s, f, h2) =>
            n = p \/ \E q, d \in Node : Made(q, d, s, h2) /\ n \in Within(d)
      /\ Quiet(Within(c), s, f, said, waits)
      /\ ~Turn(p, s)
  BY ONLY <1>3, PairMade, tree \in Trees, 0 \notin Node, p \in Node, Is(p, Pair),
          tag \in {"ok", "pending"}, Parts(s, f, h, said), Place(c, tag, "create", s, f, h),
          LeftBehind(c, tag, "create", s, f, said, waits, woke),
          h2 = Having(h, tag, c), c \in {First(p), Second(p)}
<1>5. \A q \in Above(p) : Is(q, Pair) /\ p \in Within(Second(q)) => Quiet(Within(First(q)), s, f, said, waits)
  BY <1>1, <1>3, UpPastNone
<1>6. e \notin h2
  BY <1>2, <1>3 DEF Having
<1>7. ASSUME NEW q \in Node, NEW d \in Node, Made(q, d, s, h2), e \in Within(d) PROVE FALSE
  <2>1. Parent(d) = q
    BY <1>7, MadeIs
  <2>2. d # e
    BY <1>3, <1>4, <1>6, <1>7, <2>1
  <2>3. p \notin Within(d)
    BY <1>4, <1>7
  <2>4. d \in Above(e)
    BY <1>7, <2>2, TreeOrder
  <2>5. QED
    BY <1>3, <2>3, <2>4, TreeOrder
<1>8. Place(e, "none", "create", s, f, h2)
  <2>1. ~Finished(p, s, f, h2)
    BY <1>2, <1>4, <1>6 DEF Finished
  <2>2. \A n \in Node : Finished(n, s, f, h2) => Covered(n, e, "none", "create", s, h2)
    BY <1>4, <2>1 DEF Covered
  <2>3. QED
    BY <1>7, <2>2 DEF Place
<1>9. ASSUME NEW q \in Above(e), Is(q, Pair), e \in Within(Second(q)) PROVE Quiet(Within(First(q)), s, f, said, waits)
  <2>1. CASE q = p
    BY <1>4, <2>1
  <2>2. CASE q # p
    <3>1. q \in Above(p)
      BY <1>3, <1>9, <2>2
    <3>2. p \in Within(Second(q))
      BY <1>1, <1>2, <1>9, <3>1, SameSide
    <3>3. QED
      BY <1>5, <1>9, <3>1, <3>2
  <2>3. QED
    BY <2>1, <2>2
<1>10. LeftBehind(e, "none", "create", s, f, said, waits, woke)
  BY <1>3, <1>9 DEF LeftBehind
<1>11. QED
  BY <1>2, <1>4, <1>8, <1>10

(* The pair answers.                                                       *)
LEMMA MakeJoined ==
    ASSUME tree \in Trees, 0 \notin Node, NEW p \in Node, Is(p, Pair), NEW c \in {First(p), Second(p)},
           NEW tag \in {"ok", "pending"}, NEW tag2,
           NEW s, NEW f, NEW h, NEW h2, NEW said, NEW waits, NEW woke,
           Parts(s, f, h, said), Place(c, tag, "create", s, f, h),
           LeftBehind(c, tag, "create", s, f, said, waits, woke),
           h2 = Having(h, tag, c), c = First(p) => Second(p) \in h,
           tag2 = IF {First(p), Second(p)} \subseteq h2 THEN "ok" ELSE "pending"
    PROVE  /\ Parts(s, f, h2, said) /\ Place(p, tag2, "create", s, f, h2)
           /\ LeftBehind(p, tag2, "create", s, f, said, waits, woke)
<1>1. Combinator(p) /\ ~Is(p, Leaf) /\ p # 0
  BY Kinds DEF Combinator
<1>2. /\ First(p) \in Node /\ Second(p) \in Node /\ First(p) # Second(p)
      /\ Within(p) = {p} \cup Within(First(p)) \cup Within(Second(p))
      /\ Above(c) = {p} \cup Above(p) /\ c \in Within(c) /\ c # 0 /\ p \in Within(p)
  BY <1>1, Operands, AboveOperands, TreeOrder
<1>3. /\ Parts(s, f, h2, said)
      /\ \A q, d \in Node : Made(q, d, s, h2) => p \notin Within(d)
      /\ \A q, d \in Node : Made(q, d, s, h2) => d \in h2 \/ q # p
      /\ \A n \in Node : Finished(n, s, f, h2) =>
            n = p \/ \E q, d \in Node : Made(q, d, s, h2) /\ n \in Within(d)
      /\ Quiet(Within(c), s, f, said, waits)
      /\ f[p] # "live" /\ ~Waits(p, s) /\ ~Turn(p, s)
  BY ONLY PairMade, tree \in Trees, 0 \notin Node, p \in Node, Is(p, Pair),
          tag \in {"ok", "pending"}, Parts(s, f, h, said), Place(c, tag, "create", s, f, h),
          LeftBehind(c, tag, "create", s, f, said, waits, woke),
          h2 = Having(h, tag, c), c \in {First(p), Second(p)}
<1>4. \A q \in Above(p) : Is(q, Pair) /\ p \in Within(Second(q)) => Quiet(Within(First(q)), s, f, said, waits)
  BY <1>1, UpPastNone
<1>5. \A d \in {First(p), Second(p)} : d \in h2 => Settled(Within(d), s, f)
  <2>1. \A d \in {First(p), Second(p)} : d \in h2 => Made(p, d, s, h2)
    BY <1>1 DEF Made
  <2>2. QED
    BY <1>2, <1>3, <2>1 DEF Parts
<1>6. Place(p, tag2, "create", s, f, h2)
  <2>1. Finished(p, s, f, h2) => tag2 = "ok"
    BY <1>3 DEF Finished
  <2>2. ASSUME NEW n \in Node, Finished(n, s, f, h2) PROVE Covered(n, p, tag2, "create", s, h2)
    BY <1>2, <1>3, <2>1, <2>2 DEF Covered
  <2>3. QED
    BY <1>1, <1>3, <2>2 DEF Place
<1>7. tag2 = "ok" => Settled(Within(p), s, f)
  <2>1. tag2 = "ok" => Settled(Within(First(p)), s, f) /\ Settled(Within(Second(p)), s, f)
    BY <1>5
  <2>2. QED
    BY <1>2, <1>3, <2>1 DEF Settled
<1>8. Quiet(Within(p), s, f, said, waits)
  <2>1. Quiet(Within(First(p)), s, f, said, waits)
    <3>1. CASE c = First(p)
      BY <1>3, <3>1
    <3>2. CASE c = Second(p)
      BY <1>2, <3>2 DEF LeftBehind
    <3>3. QED
      BY <3>1, <3>2
  <2>2. Quiet(Within(Second(p)), s, f, said, waits)
    <3>1. CASE c = First(p)
      <4>1. Settled(Within(Second(p)), s, f)
        BY <1>5, <3>1 DEF Having
      <4>2. QED
        BY <4>1, SettledIsQuiet
    <3>2. CASE c = Second(p)
      BY <1>3, <3>2
    <3>3. QED
      BY <3>1, <3>2
  <2>3. QED
    BY <1>2, <1>3, <2>1, <2>2 DEF Quiet
<1>9. QED
  BY <1>1, <1>3, <1>4, <1>6, <1>7, <1>8 DEF LeftBehind

(* Every step of the creation of a service keeps what was made apart from   *)
(* what is still to be polled, and leaves the waker with the rest.          *)
LEMMA MakeStep == ControlInv /\ AskInv /\ MakeInv /\ [Next]_vars => MakeInv'
<1> SUFFICES ASSUME ControlInv, AskInv, MakeInv, [Next]_vars PROVE MakeInv'
  OBVIOUS
<1> DEFINE Goal == /\ Parts(st', fut', have', asked')
                   /\ Place(cur', ans'.tag, mode', st', fut', have')
                   /\ LeftBehind(cur', ans'.tag, mode', st', fut', asked', regs', woken')
<1> SUFFICES ASSUME job' = "create" PROVE Goal
  <2>1. tree' = tree
    BY TreeStays
  <2>2. QED
    BY <2>1, MakeNext
<1>1. /\ tree \in Trees /\ Root \in Node /\ 0 \notin Node /\ cur \in Node \cup {0}
      /\ Above(Root) = {} /\ \A n \in Node : n \in Within(Root) /\ n \in Within(n) /\ Within(n) \subseteq Node
      /\ st \in [Node -> {"A", "B", "C"}] /\ fut \in [Node -> {"none", "live", "done"}]
      /\ cur # 0 => mode = job \/ (job = "create" /\ mode = "ready")
      /\ job \notin {"create", "ready", "call"} => cur = 0 /\ ~woken
      /\ cur = 0 => ans.tag = "none"
      /\ ans.tag = "req" => job = "call"
      /\ None.tag = "none" /\ Pending.tag = "pending" /\ \A p : Mapped(p).tag = ans.tag
      /\ \A v : Req(v).tag = "req" /\ Ok(v).tag = "ok"
      /\ \A t, v : Answer(t, v).tag = t
  BY Tags, TreeOrder, TermShape DEF ControlInv
<1>2. job = "create" => /\ Parts(st, fut, have, asked)
                        /\ Place(cur, ans.tag, mode, st, fut, have)
                        /\ LeftBehind(cur, ans.tag, mode, st, fut, asked, regs, woken)
  BY DEF MakeInv
<1>3. CASE UNCHANGED vars
  BY <1>2, <1>3 DEF vars, walk, user
<1>4. CASE Assemble \/ StartReady \/ StartCall
  BY <1>4 DEF Assemble, StartReady, StartCall
<1>5. CASE NewService
  <2>1. /\ cur' = 0 /\ ans'.tag = "none" /\ mode' = "create" /\ st' = st /\ have' = {} /\ asked' = asked
        /\ regs' = regs /\ woken' = TRUE /\ \A n \in Node : st[n] = "A"
        /\ \A n \in Node : fut'[n] = "live" <=> Is(n, Leaf)
    BY <1>1, <1>5 DEF NewService, ControlInv
  <2>2. \A p, d \in Node : ~Made(p, d, st, {})
    BY <2>1 DEF Made
  <2>3. \A n \in Node : Turn(n, st) <=> Is(n, Leaf)
    BY <2>1 DEF Turn
  <2>4. \A n \in Node : ~Finished(n, st, fut', {})
    BY <2>1, <2>3 DEF Finished
  <2>5. Parts(st, fut', {}, asked)
    BY <2>1, <2>2, <2>3 DEF Parts
  <2>6. Place(0, "none", "create", st, fut', {})
    BY <2>4 DEF Place
  <2>7. LeftBehind(0, "none", "create", st, fut', asked, regs, TRUE)
    BY DEF LeftBehind
  <2>8. QED
    BY <2>1, <2>5, <2>6, <2>7
<1>6. CASE StartPoll
  <2>1. /\ cur' = Root /\ cur = 0 /\ ans.tag = "none" /\ ans'.tag = "none" /\ job = "create" /\ mode' = "create"
        /\ UNCHANGED <<st, fut, have, asked, regs>>
    BY <1>1, <1>6 DEF StartPoll, Poll
  <2>2. \A p, d \in Node : Made(p, d, st, have) => Root \notin Within(d)
    BY <1>1, MadeIs
  <2>3. Place(Root, "none", "create", st, fut, have)
    BY <1>2, <2>1, <2>2 DEF Place, Covered
  <2>4. LeftBehind(Root, "none", "create", st, fut, asked, regs, woken')
    BY <1>1 DEF LeftBehind
  <2>5. QED
    BY <1>2, <2>1, <2>3, <2>4
<1>7. CASE Return
  <2>1. /\ cur = Root /\ cur # 0 /\ ans.tag = "pending" /\ job = "create" /\ cur' = 0 /\ ans'.tag = "none"
        /\ mode' = mode /\ UNCHANGED <<st, fut, have, asked, regs, woken>>
    BY <1>1, <1>7 DEF Return, Poll, Returned
  <2>2. mode = "create"
    <3>1. ASSUME mode = "ready" PROVE FALSE
      <4>1. \E n \in Node : Host(n, Root, st, have)
        BY <1>2, <2>1, <3>1 DEF Place
      <4>2. QED
        BY <1>1, <4>1 DEF Host
    <3>2. QED
      BY <1>1, <2>1, <3>1
  <2>3. Place(0, "none", "create", st, fut, have)
    <3>1. Place(Root, "pending", "create", st, fut, have)
      BY <1>2, <2>1, <2>2
    <3>2. QED
      BY <3>1 DEF Place, Covered
  <2>4. Quiet(Node, st, fut, asked, regs)
    <3>1. LeftBehind(Root, "pending", "create", st, fut, asked, regs, woken)
      BY <1>2, <2>1, <2>2
    <3>2. Quiet(Within(Root), st, fut, asked, regs)
      BY <3>1 DEF LeftBehind
    <3>3. QED
      BY <1>1, <3>2 DEF Quiet
  <2>5. LeftBehind(0, "none", "create", st, fut, asked, regs, woken)
    BY <2>4 DEF LeftBehind
  <2>6. QED
    BY <1>2, <2>1, <2>2, <2>3, <2>5
<1>8. CASE \E n \in Node : Wake(n)
  <2>1. /\ job = "create" /\ cur = 0 /\ cur' = 0 /\ ans' = ans /\ ans.tag = "none" /\ woken' = TRUE
        /\ UNCHANGED <<mode, st, fut, have, asked>>
    BY <1>1, <1>8 DEF Wake, walk
  <2>2. LeftBehind(0, "none", mode, st, fut, asked, regs', TRUE)
    BY DEF LeftBehind
  <2>3. QED
    BY <1>2, <2>1, <2>2
(* A walk that asks a made service, from where it is to a next node.       *)
<1>9. ASSUME NEW c, c = cur, c \in Node, NEW c2 \in Node, NEW tag, tag = ans.tag, NEW tag2, tag2 = ans'.tag,
             job = "create", mode = "ready", mode' = "ready", c2 = cur',
             NEW n \in Node, Host(n, c, st, have), Host(n, c2, st, have),
             NEW said2, said2 = asked', NEW waits2, waits2 = regs', NEW woke2, woke2 = woken',
             c2 # c => said2 = asked /\ waits2 = regs,
             asked \ {c} \subseteq said2, regs \ {c} \subseteq waits2, tag2 # "err" => tag # "err",
             UNCHANGED <<st, fut, have>>
      PROVE  Goal
  <2>1. c # 0
    BY <1>1, <1>9
  <2>2. /\ Parts(st, fut, have, asked) /\ Place(c, tag, "ready", st, fut, have)
        /\ LeftBehind(c, tag, "ready", st, fut, asked, regs, woken)
    BY <1>2, <1>9
  <2>3. /\ Parts(st, fut, have, said2) /\ Place(c2, tag2, "ready", st, fut, have)
        /\ LeftBehind(c2, tag2, "ready", st, fut, said2, waits2, woke2)
    <3>1. /\ c \in Node /\ c2 \in Node /\ n \in Node /\ Host(n, c, st, have) /\ Host(n, c2, st, have)
          /\ c2 # c => said2 = asked /\ waits2 = regs
          /\ asked \ {c} \subseteq said2 /\ regs \ {c} \subseteq waits2 /\ (tag2 # "err" => tag # "err")
      BY <1>9
    <3>2. QED
      BY <1>1, <2>2, <3>1, AskingStep
  <2>4. QED
    BY <1>9, <2>3
<1>10. ASSUME NEW p \in Node, Up(p), job = "create", mode = "create", cur' = p, ans'.tag = ans.tag,
              ans.tag # "err" => Is(p, Wrapper) /\ ~Turn(p, st) /\ ~Waits(p, st),
              UNCHANGED <<mode, st, fut, have, asked, regs, woken>>
       PROVE  Goal
  <2>1. PICK c \in {First(p), Second(p)}, t \in Returned : c = cur /\ t = ans.tag
    BY <1>10, Returns
  <2>2. /\ Parts(st, fut, have, asked) /\ Place(c, t, "create", st, fut, have)
        /\ LeftBehind(c, t, "create", st, fut, asked, regs, woken)
    BY <1>2, <1>10, <2>1
  <2>3. Combinator(p) /\ t # "none"
    BY <1>10, Returns DEF Returned
  <2>4. t # "err" => Is(p, Wrapper) /\ ~Turn(p, st) /\ ~Waits(p, st)
    BY <1>10, <2>1
  <2>5. Place(p, t, "create", st, fut, have) /\ LeftBehind(p, t, "create", st, fut, asked, regs, woken)
    BY <1>1, <2>2, <2>3, <2>4, MakeUp
  <2>6. /\ st' = st /\ fut' = fut /\ have' = have /\ asked' = asked /\ regs' = regs /\ woken' = woken
        /\ cur' = p /\ ans'.tag = t /\ mode' = "create" /\ Parts(st, fut, have, asked)
    BY <1>10, <2>1, <2>2
  <2>7. QED
    BY <2>5, <2>6
<1>11. ASSUME NEW n \in Node, Descend(n) PROVE Goal
  <2>1. /\ cur = n /\ cur # 0 /\ job = "create" /\ ans.tag = "none" /\ ans'.tag = "none" /\ cur' = Operand(n)
        /\ Operand(n) \in Node /\ Operand(n) \in {First(n), Second(n)} /\ Combinator(n) /\ ~OwnTurn(n)
        /\ Is(n, Pair) /\ mode = "create" => Operand(n) = IF First(n) \in have THEN Second(n) ELSE First(n)
        /\ mode' = IF Waits(n, st) THEN "ready" ELSE mode
        /\ Waits(n, st) => mode = "create"
        /\ mode # "create" => ~IsService(n)
        /\ UNCHANGED <<st, fut, have, asked, regs, woken>>
    BY <1>1, <1>11, Descends
  <2>2. PICK c \in {First(n), Second(n)} : c = Operand(n)
    BY <2>1
  <2>3. CASE mode = "create"
    <3>1. PICK m2 : m2 = mode'
      OBVIOUS
    <3>2. /\ Place(n, "none", "create", st, fut, have) /\ Parts(st, fut, have, asked)
          /\ LeftBehind(n, "none", "create", st, fut, asked, regs, woken)
      BY <1>2, <2>1, <2>3
    <3>3. /\ m2 = IF Waits(n, st) THEN "ready" ELSE "create"
          /\ Is(n, Transforms) => st[n] # "B"
          /\ Is(n, {"apply_cfg"}) => st[n] # "C"
          /\ Is(n, Pair) => c = IF First(n) \in have THEN Second(n) ELSE First(n)
      BY <2>1, <2>2, <2>3, <3>1 DEF OwnTurn, Transforming, Configuring
    <3>4. /\ Place(c, "none", m2, st, fut, have)
          /\ LeftBehind(c, "none", m2, st, fut, asked, regs, woken)
      BY <1>1, <2>1, <3>2, <3>3, MakeDown
    <3>5. /\ c = cur' /\ m2 = mode' /\ st = st' /\ fut = fut' /\ have = have' /\ asked = asked'
          /\ regs = regs' /\ woken = woken' /\ ans'.tag = "none"
      BY <2>1, <2>2, <3>1
    <3>6. QED
      BY <3>2, <3>4, <3>5
  <2>4. CASE mode = "ready"
    <3>1. PICK k \in Node : Host(k, n, st, have)
      BY <1>2, <2>1, <2>4 DEF Place
    <3>2. Host(k, c, st, have)
      BY <1>1, <2>1, <2>4, <3>1, HostMoves
    <3>3. mode' = "ready" /\ c \in Node
      BY <2>1, <2>2, <2>4
    <3>4. QED
      BY <1>9, <2>1, <2>2, <2>4, <3>1, <3>2, <3>3
  <2>5. QED
    BY <1>1, <2>1, <2>3, <2>4
<1>12. ASSUME NEW n \in Node, NEW tag \in {"pending", "ok", "err"},
              cur = n, cur' = n, ans.tag = "none", ans'.tag = tag, OwnTurn(n), job = "create",
              regs' = IF tag = "pending" THEN regs \cup {n} ELSE regs \ {n},
              fut' = IF mode = "ready" \/ tag = "pending" THEN fut ELSE [fut EXCEPT ![n] = "done"],
              asked \ {n} \subseteq asked', mode # "ready" => asked' = asked,
              UNCHANGED <<mode, st, have, woken>>
       PROVE  Goal
  <2>1. CASE mode = "create"
    <3>1. PICK f2, waits2 : f2 = fut' /\ waits2 = regs'
      OBVIOUS
    <3>2. Turn(n, st)
      BY <1>12, <2>1 DEF OwnTurn, Transforming, Configuring, Turn
    <3>3. /\ Place(n, "none", "create", st, fut, have) /\ Parts(st, fut, have, asked)
          /\ LeftBehind(n, "none", "create", st, fut, asked, regs, woken)
      BY <1>2, <1>12, <2>1
    <3>4. /\ waits2 = IF tag = "pending" THEN regs \cup {n} ELSE regs \ {n}
          /\ f2 = IF tag = "pending" THEN fut ELSE [fut EXCEPT ![n] = "done"]
      BY <1>12, <2>1, <3>1
    <3>5. /\ Parts(st, f2, have, asked) /\ Place(n, tag, "create", st, f2, have)
          /\ LeftBehind(n, tag, "create", st, f2, asked, waits2, woken)
      BY <1>1, <3>2, <3>3, <3>4, MakeUser
    <3>6. /\ st' = st /\ have' = have /\ asked' = asked /\ woken' = woken /\ mode' = "create"
          /\ f2 = fut' /\ waits2 = regs'
      BY <1>12, <2>1, <3>1
    <3>7. QED
      BY <1>12, <3>5, <3>6
  <2>2. CASE mode = "ready"
    <3>1. PICK k \in Node : Host(k, n, st, have)
      BY <1>1, <1>2, <1>12, <2>2 DEF Place
    <3>2. PICK said2, waits2, woke2 : said2 = asked' /\ waits2 = regs' /\ woke2 = woken'
      OBVIOUS
    <3>3. /\ asked \ {n} \subseteq said2 /\ regs \ {n} \subseteq waits2 /\ fut' = fut /\ mode' = "ready"
      BY <1>12, <2>2, <3>2
    <3>4. QED
      BY <1>9, <1>12, <2>2, <3>1, <3>2, <3>3
  <2>3. QED
    BY <1>1, <1>12, <2>1, <2>2
<1>13. ASSUME NEW n \in Node, UserPending(n) PROVE Goal
  <2>1. /\ cur = n /\ cur' = n /\ ans.tag = "none" /\ ans'.tag = "pending" /\ OwnTurn(n) /\ job = "create"
        /\ regs' = regs \cup {n} /\ fut' = fut /\ asked \ {n} \subseteq asked' /\ (mode # "ready" => asked' = asked)
        /\ UNCHANGED <<mode, st, have, woken>>
    BY <1>1, <1>13 DEF UserPending, Give
  <2>2. PICK tag \in {"pending", "ok", "err"} : tag = "pending"
    OBVIOUS
  <2>3. /\ ans'.tag = tag
        /\ regs' = IF tag = "pending" THEN regs \cup {n} ELSE regs \ {n}
        /\ fut' = IF mode = "ready" \/ tag = "pending" THEN fut ELSE [fut EXCEPT ![n] = "done"]
    BY <2>1, <2>2
  <2>4. QED
    BY <1>12, <2>1, <2>3
<1>14. ASSUME NEW n \in Node, NEW tag \in {"ok", "err"}, UserEnds(n, tag) PROVE Goal
  <2>1. /\ cur = n /\ cur' = n /\ ans.tag = "none" /\ ans'.tag = tag /\ OwnTurn(n) /\ job = "create"
        /\ regs' = regs \ {n} /\ asked \ {n} \subseteq asked' /\ (mode # "ready" => asked' = asked)
        /\ fut' = IF mode = "ready" THEN fut ELSE [fut EXCEPT ![n] = "done"]
        /\ UNCHANGED <<mode, st, have, woken>>
    BY <1>1, <1>14 DEF UserEnds, Give
  <2>2. /\ regs' = IF tag = "pending" THEN regs \cup {n} ELSE regs \ {n}
        /\ fut' = IF mode = "ready" \/ tag = "pending" THEN fut ELSE [fut EXCEPT ![n] = "done"]
    BY <2>1
  <2>3. QED
    BY <1>12, <2>1, <2>2
<1>15. ASSUME NEW p \in Node, Up(p), job = "create", mode = "ready", mode' = "ready", ~IsService(p),
              cur' = p \/ cur' = Second(p), ans'.tag # "err" => ans.tag # "err",
              UNCHANGED <<st, fut, have, asked, regs, woken>>
       PROVE  Goal
  <2>1. PICK c \in {First(p), Second(p)}, t \in Returned : c = cur /\ t = ans.tag
    BY <1>15, Returns
  <2>2. Combinator(p) /\ First(p) \in Node /\ Second(p) \in Node /\ c \in Node /\ c # 0
    BY <1>1, <1>15, <2>1, Returns
  <2>3. PICK k \in Node : Host(k, c, st, have)
    BY <1>2, <1>15, <2>1, <2>2 DEF Place
  <2>4. Host(k, p, st, have)
    BY <1>1, <1>15, <2>2, <2>3, HostMoves
  <2>5. Host(k, Second(p), st, have)
    BY <1>1, <1>15, <2>2, <2>4, HostMoves
  <2>6. PICK c2 \in Node : c2 = cur'
    BY <1>15, <2>2
  <2>7. Host(k, c2, st, have)
    BY <1>15, <2>4, <2>5, <2>6
  <2>8. QED
    BY <1>9, <1>15, <2>1, <2>2, <2>3, <2>6, <2>7
<1>16. ASSUME NEW p \in Node, Forward(p) PROVE Goal
  <2>1. /\ Up(p) /\ Is(p, Wrapper) /\ (Is(p, Transforms) => mode # "create") /\ ~Is(p, {"apply_cfg"})
        /\ cur' = p /\ ans'.tag = ans.tag /\ job = "create" /\ cur # 0
        /\ UNCHANGED <<mode, st, fut, have, asked, regs, woken>>
    BY <1>1, <1>16 DEF Forward, Give, user, Up
  <2>2. CASE mode = "create"
    <3>1. ~Turn(p, st) /\ ~Waits(p, st)
      BY <2>1, <2>2, Kinds DEF Turn, Waits
    <3>2. QED
      BY <1>10, <2>1, <2>2, <3>1
  <2>3. CASE mode = "ready"
    <3>1. ~IsService(p)
      BY <2>1, Kinds
    <3>2. QED
      BY <1>15, <2>1, <2>3, <3>1
  <2>4. QED
    BY <1>1, <2>1, <2>2, <2>3
(* What an operand gives its combinator has not been made before.          *)
<1>17. ASSUME NEW p \in Node, Up(p), job = "create", mode = "create" PROVE ~Made(p, cur, st, have)
  <2>1. cur \in Node /\ cur # 0
    BY <1>1, <1>17, Returns
  <2>2. QED
    BY <1>1, <1>2, <1>17, <2>1 DEF Place
<1>18. ASSUME NEW p \in Node, Up(p), job = "create", mode = "create", cur' = p, ans.tag = "ok", ans'.tag = "none",
              Is(p, Transforms) \/ Is(p, {"apply_cfg"}),
              st' = [st EXCEPT ![p] = "B"], fut' = IF Is(p, Transforms) THEN [fut EXCEPT ![p] = "live"] ELSE fut,
              UNCHANGED <<mode, have, asked, regs, woken>>
       PROVE  Goal
  <2>1. PICK c \in {First(p), Second(p)}, s2 \in {st'}, f2 \in {fut'} : c = cur /\ s2 = st' /\ f2 = fut'
    BY <1>18, Returns
  <2>2. /\ Parts(st, fut, have, asked) /\ Place(c, "ok", "create", st, fut, have)
        /\ LeftBehind(c, "ok", "create", st, fut, asked, regs, woken)
    BY <1>2, <1>18, <2>1
  <2>3. Combinator(p) /\ s2 = [st EXCEPT ![p] = "B"]
       /\ f2 = IF Is(p, Transforms) THEN [fut EXCEPT ![p] = "live"] ELSE fut
    BY <1>18, <2>1, Returns
  <2>4. /\ Parts(s2, f2, have, asked) /\ Place(p, "none", "create", s2, f2, have)
        /\ LeftBehind(p, "none", "create", s2, f2, asked, regs, woken)
    BY <1>1, <1>18, <2>2, <2>3, MakeOwn
  <2>5. /\ s2 = st' /\ f2 = fut' /\ have' = have /\ asked' = asked /\ regs' = regs /\ woken' = woken
        /\ cur' = p /\ ans'.tag = "none" /\ mode' = "create"
    BY <1>18, <2>1
  <2>6. QED
    BY <2>4, <2>5
<1>19. ASSUME NEW p \in Node, NewTransform(p) PROVE Goal
  <2>1. /\ Up(p) /\ mode = "create" /\ Is(p, Transforms) /\ job = "create" /\ cur # 0
        /\ UNCHANGED <<mode, have, asked, regs, woken>> /\ cur' = p
    BY <1>1, <1>19 DEF NewTransform, Give, Loop, Poll, Up
  <2>2. CASE ans.tag = "ok"
    <3>1. ans'.tag = "none" /\ st' = [st EXCEPT ![p] = "B"] /\ fut' = [fut EXCEPT ![p] = "live"]
      BY <1>1, <1>19, <2>2 DEF NewTransform, Loop, Poll
    <3>2. QED
      BY <1>18, <2>1, <2>2, <3>1
  <2>3. CASE ans.tag # "ok"
    <3>1. ans' = ans /\ st' = st /\ fut' = fut
      BY <1>19, <2>3 DEF NewTransform, Give
    <3>2. st[p] # "B"
      <4>1. ~Made(p, cur, st, have)
        BY <1>17, <2>1
      <4>2. QED
        BY <2>1, <4>1, Returns DEF Made
    <3>3. Is(p, Wrapper) /\ ~Turn(p, st) /\ ~Waits(p, st)
      BY <2>1, <3>2, Kinds DEF Turn, Waits
    <3>4. QED
      BY <1>10, <2>1, <3>1, <3>3
  <2>4. QED
    BY <2>2, <2>3
<1>20. ASSUME NEW p \in Node, ConfigFactory(p) PROVE Goal
  <2>1. /\ Up(p) /\ mode = "create" /\ Is(p, {"apply_cfg"}) /\ job = "create" /\ cur # 0
        /\ UNCHANGED <<mode, fut, have, asked, regs, woken>> /\ cur' = p
    BY <1>1, <1>20 DEF ConfigFactory, Give, Loop, Poll, Up, user
  <2>2. CASE ans.tag = "ok"
    <3>1. ans'.tag = "none" /\ st' = [st EXCEPT ![p] = "B"] /\ ~Is(p, Transforms)
      BY <1>1, <1>20, <2>1, <2>2, Kinds DEF ConfigFactory, Loop, Poll
    <3>2. QED
      BY <1>18, <2>1, <2>2, <3>1
  <2>3. CASE ans.tag # "ok"
    <3>1. ans' = ans /\ st' = st
      BY <1>20, <2>3 DEF ConfigFactory, Give
    <3>2. st[p] \notin {"B", "C"}
      <4>1. ~Made(p, cur, st, have)
        BY <1>17, <2>1
      <4>2. QED
        BY <2>1, <4>1, Returns DEF Made
    <3>3. Is(p, Wrapper) /\ ~Turn(p, st) /\ ~Waits(p, st)
      BY <2>1, <3>2, Kinds DEF Turn, Waits
    <3>4. QED
      BY <1>10, <2>1, <3>1, <3>3
  <2>4. QED
    BY <2>2, <2>3
<1>21. ASSUME NEW p \in Node, ConfigReady(p) PROVE Goal
  <2>1. /\ Up(p) /\ mode = "ready" /\ Is(p, {"apply_cfg"}) /\ job = "create" /\ cur # 0 /\ mode' = "create"
        /\ UNCHANGED <<have, asked, regs, woken>> /\ cur' = p
        /\ ans'.tag = IF ans.tag = "ok" THEN "none" ELSE ans.tag
        /\ st' = IF ans.tag = "ok" THEN [st EXCEPT ![p] = "C"] ELSE st
        /\ fut' = IF ans.tag = "ok" THEN [fut EXCEPT ![p] = "live"] ELSE fut
    BY <1>1, <1>21 DEF ConfigReady, Give, Loop, Poll, Up
  <2>2. PICK c \in {First(p), Second(p)}, t \in Returned : c = cur /\ t = ans.tag
    BY <2>1, Returns
  <2>3. PICK s2, f2 : s2 = st' /\ f2 = fut'
    OBVIOUS
  <2>4. /\ Parts(st, fut, have, asked) /\ Place(c, t, "ready", st, fut, have)
        /\ LeftBehind(c, t, "ready", st, fut, asked, regs, woken)
    BY <1>2, <2>1, <2>2
  <2>5. Heard(c, t, asked, regs, unready)
    BY <2>1, <2>2 DEF AskInv
  <2>6. /\ s2 = IF t = "ok" THEN [st EXCEPT ![p] = "C"] ELSE st
        /\ f2 = IF t = "ok" THEN [fut EXCEPT ![p] = "live"] ELSE fut
    BY <2>1, <2>2, <2>3
  <2>7. ans'.tag = After(t)
    BY <2>1, <2>2 DEF After
  <2>8. /\ Parts(s2, f2, have, asked) /\ Place(p, After(t), "create", s2, f2, have)
        /\ LeftBehind(p, After(t), "create", s2, f2, asked, regs, woken)
    BY <1>1, <2>1, <2>4, <2>5, <2>6, MakeAsked
  <2>9. /\ s2 = st' /\ f2 = fut' /\ have' = have /\ asked' = asked /\ regs' = regs /\ woken' = woken
        /\ cur' = p /\ ans'.tag = After(t) /\ mode' = "create"
    BY <2>1, <2>2, <2>3, <2>7
  <2>10. QED
    BY <2>8, <2>9
<1>22. ASSUME NEW p \in Node, Is(p, Pair), PairCreate(p) PROVE Goal
  <2>1. /\ Up(p) /\ mode = "create" /\ job = "create" /\ cur # 0
        /\ UNCHANGED <<mode, st, fut, asked, regs, woken>>
    BY <1>1, <1>22 DEF PairCreate, Up, user
  <2>2. PICK c \in {First(p), Second(p)}, t \in Returned, h2 \in {have'} : c = cur /\ t = ans.tag /\ h2 = have'
    BY <2>1, Returns
  <2>3. /\ Parts(st, fut, have, asked) /\ Place(c, t, "create", st, fut, have)
        /\ LeftBehind(c, t, "create", st, fut, asked, regs, woken)
    BY <1>2, <2>1, <2>2
  <2>4. h2 = Having(have, t, c)
    BY <1>22, <2>2 DEF PairCreate, Having
  <2>5. CASE t = "err"
    <3>1. cur' = p /\ ans' = ans /\ have' = have
      BY <1>22, <2>2, <2>5 DEF PairCreate, Give
    <3>2. QED
      BY <1>10, <2>1, <2>2, <2>5, <3>1
  <2>6. CASE t # "err" /\ c = First(p) /\ Second(p) \notin have
    <3>1. cur' = Second(p) /\ ans'.tag = "none"
      BY <1>1, <1>22, <2>2, <2>6 DEF PairCreate, Poll
    <3>2. t \in {"ok", "pending"}
      BY <2>6 DEF Returned
    <3>3. /\ Parts(st, fut, h2, asked) /\ Place(Second(p), "none", "create", st, fut, h2)
          /\ LeftBehind(Second(p), "none", "create", st, fut, asked, regs, woken)
      BY <1>1, <1>22, <2>3, <2>4, <2>6, <3>2, MakeAcross
    <3>4. /\ st' = st /\ fut' = fut /\ have' = h2 /\ asked' = asked /\ regs' = regs /\ woken' = woken
          /\ mode' = "create"
      BY <2>1, <2>2
    <3>5. QED
      BY <3>1, <3>3, <3>4
  <2>7. CASE t # "err" /\ ~(c = First(p) /\ Second(p) \notin have)
    <3>1. PICK t2 : t2 = IF {First(p), Second(p)} \subseteq h2 THEN "ok" ELSE "pending"
      OBVIOUS
    <3>2. cur' = p /\ ans'.tag = t2
      BY <1>1, <1>22, <2>2, <2>7, <3>1 DEF PairCreate, Give
    <3>3. t \in {"ok", "pending"}
      BY <2>7 DEF Returned
    <3>4. /\ Parts(st, fut, h2, asked) /\ Place(p, t2, "create", st, fut, h2)
          /\ LeftBehind(p, t2, "create", st, fut, asked, regs, woken)
      BY <1>1, <1>22, <2>3, <2>4, <2>7, <3>1, <3>3, MakeJoined
    <3>5. /\ st' = st /\ fut' = fut /\ have' = h2 /\ asked' = asked /\ regs' = regs /\ woken' = woken
          /\ mode' = "create"
      BY <2>1, <2>2
    <3>6. QED
      BY <3>2, <3>4, <3>5
  <2>8. QED
    BY <2>5, <2>6, <2>7
<1>23. ASSUME NEW p \in Node, Is(p, Pair), PairReady(p) PROVE Goal
  <2>1. /\ Up(p) /\ mode = "ready" /\ job = "create" /\ cur # 0 /\ mode' = "ready"
        /\ UNCHANGED <<st, fut, have, asked, regs, woken>>
        /\ cur' = p \/ cur' = Second(p)
        /\ ans'.tag # "err" => ans.tag # "err"
    BY <1>1, <1>23 DEF PairReady, Up, user, Give, Poll, AskSecond
  <2>2. ~IsService(p)
    BY <1>23, Kinds
  <2>3. QED
    BY <1>15, <2>1, <2>2
<1>24. ASSUME NEW n \in Node, CallOperand(n) \/ CallService(n) PROVE Goal
  BY <1>1, <1>24 DEF CallOperand, CallService
<1>25. ASSUME NEW p \in Node, NEW goes, PairCall(p, goes) PROVE Goal
  BY <1>1, <1>25 DEF PairCall, Up
<1>26. QED
  BY <1>3, <1>4, <1>5, <1>6, <1>7, <1>8, <1>11, <1>13, <1>14, <1>16, <1>19, <1>20, <1>21, <1>22, <1>23, <1>24,
     <1>25, Kinds
  DEF Next, Walk, AndThenCall, AndThenReady, AndThenCreate, ThenCall, ThenReady, ThenCreate

-----------------------------------------------------------------------------
(* What a call answers: the effect of every part.                           *)

(* An effect at n, from the effects f of the nodes before it, when the      *)
(* users' services have answered g.                                         *)
EffectAt(n, f, g) ==
    IF IsService(n) THEN [ok |-> g[n] = "ok", val |-> <<n>>]
    ELSE IF Is(n, Wrapper) THEN Around(n, f[Second(n)])
    ELSE InTurn(n, f[First(n)], f[Second(n)])

(* The functions that are effects as far as node k.                         *)
Effects(f, k, g) == f = [n \in 1 .. k |-> EffectAt(n, f, g)]

(* An effect is found from those of the nodes before it.                    *)
LEMMA EffectLocal ==
    ASSUME tree \in Trees, NEW f, NEW h, NEW g, NEW n \in Node, NEW k \in Nat, n <= k + 1,
           \A m \in 1 .. k : f[m] = h[m]
    PROVE  EffectAt(n, f, g) = EffectAt(n, h, g)
<1>1. CASE IsService(n)
  BY <1>1 DEF EffectAt
<1>2. CASE ~IsService(n)
  <2>1. First(n) \in Node /\ Second(n) \in Node /\ n \in Above(First(n)) /\ n \in Above(Second(n))
    BY <1>2, Operands, Kinds
  <2>2. First(n) \in 1 .. k /\ Second(n) \in 1 .. k
    <3>1. ASSUME NEW c \in Node, n \in Above(c) PROVE c \in 1 .. k
      BY <3>1, Bounds, TermShape
    <3>2. QED
      BY <2>1, <3>1
  <2>3. f[First(n)] = h[First(n)] /\ f[Second(n)] = h[Second(n)]
    BY <2>2
  <2>4. QED
    BY <2>3 DEF EffectAt
<1>3. QED
  BY <1>1, <1>2

(* Effects as far as a node are effects one node further ...                *)
LEMMA EffectsGrow ==
    ASSUME tree \in Trees, NEW g, NEW k \in Nat, k + 1 \in Node, NEW f, Effects(f, k, g)
    PROVE  \E h : Effects(h, k + 1, g)
<1> DEFINE h == [n \in 1 .. k + 1 |-> EffectAt(n, f, g)]
<1>1. \A m \in 1 .. k : f[m] = h[m]
  BY DEF Effects
<1>2. ASSUME NEW n \in 1 .. k + 1 PROVE EffectAt(n, f, g) = EffectAt(n, h, g)
  <2>1. n \in Node
    BY <1>2, TermShape
  <2> HIDE DEF h
  <2>2. QED
    BY <1>1, <2>1, EffectLocal
<1>3. h = [n \in 1 .. k + 1 |-> EffectAt(n, h, g)]
  <2>1. h = [n \in 1 .. k + 1 |-> EffectAt(n, f, g)]
    OBVIOUS
  <2> HIDE DEF h
  <2>2. QED
    BY <1>2, <2>1
<1>4. Effects(h, k + 1, g)
  BY <1>3 DEF Effects
<1>5. QED
  BY <1>4

(* ... and so there are effects of the whole tree.                          *)
LEMMA EffectsExist ==
    ASSUME tree \in Trees, NEW g
    PROVE  \E f : Effects(f, Root, g)
<1> DEFINE E(k) == \E f : Effects(f, k, g)
           S == {k \in 0 .. Root : ~E(k)}
<1>1. Root \in Nat \ {0} /\ Node = 1 .. Root
  BY TermShape
<1> SUFFICES ASSUME ~E(Root) PROVE FALSE
  OBVIOUS
<1>2. PICK k \in S : \A m \in S : k <= m
  <2>1. S \subseteq Nat /\ S # {}
    <3> HIDE DEF E
    <3>1. Root \in S
      BY <1>1
    <3>2. QED
      BY <1>1, <3>1
  <2> HIDE DEF S
  <2>2. QED
    BY <2>1, LeastElement
<1>3. CASE k = 0
  <2>1. Effects([n \in 1 .. 0 |-> n], 0, g)
    BY DEF Effects
  <2>2. QED
    BY <1>3, <2>1
<1>4. CASE k # 0
  <2>1. PICK j \in 0 .. Root : k = j + 1 /\ j \in Nat /\ j + 1 \in Node
    BY <1>1, <1>4
  <2>2. E(j)
    BY <1>1, <1>2, <2>1
  <2>3. E(j + 1)
    BY <2>1, <2>2, EffectsGrow
  <2>4. QED
    BY <2>1, <2>3
<1>5. QED
  BY <1>3, <1>4

(* The same, as a formula that has a name in the next state.               *)
EffectSolved == tree \in Trees => \A n \in Node : Effect[n] = EffectAt(n, Effect, got)

(* Effect is defined by recursion over the nodes: it is as its definition   *)
(* says at every one of them, in this state ...                             *)
LEMMA EffectIs == tree \in Trees => \A n \in Node : Effect[n] = EffectAt(n, Effect, got)
<1> SUFFICES ASSUME tree \in Trees PROVE \A n \in Node : Effect[n] = EffectAt(n, Effect, got)
  OBVIOUS
<1>1. Effect = CHOOSE f : f = [n \in Node |-> EffectAt(n, f, got)]
  BY DEF Effect, EffectAt
<1>2. \E f : f = [n \in Node |-> EffectAt(n, f, got)]
  BY EffectsExist, TermShape DEF Effects
<1>3. Effect = [n \in Node |-> EffectAt(n, Effect, got)]
  BY <1>1, <1>2
<1>4. QED
  BY <1>3

(* And in the next state.                                                  *)
LEMMA EffectSolvedNext == EffectSolved'
<1>1. EffectSolved
  BY EffectIs DEF EffectSolved
<1>2. QED
  BY <1>1, PTL

(* ... with the next answers.                                               *)
LEMMA EffectIsNext ==
    tree \in Trees /\ tree' = tree => \A n \in Node : Effect'[n] = EffectAt(n, Effect', got')
<1> SUFFICES ASSUME tree \in Trees, tree' = tree, NEW n \in Node
             PROVE  Effect'[n] = EffectAt(n, Effect', got')
  OBVIOUS
<1>1. (tree \in Trees => \A m \in Node : Effect[m] = EffectAt(m, Effect, got))'
  BY EffectSolvedNext DEF EffectSolved
<1>2. Node' = Node
  BY SameTree
<1>3. Effect'[n] = EffectAt(n, Effect, got)'
  BY <1>1, <1>2
<1>4. EffectAt(n, Effect, got)' = EffectAt(n, Effect', got')
  BY DEF EffectAt, Around, InTurn, Goes, IsService, Is, First, Second, Width
<1>5. QED
  BY <1>3, <1>4

(* What a part answers depends on the users' answers in it alone.           *)
LEMMA EffectInside ==
    ASSUME tree \in Trees, NEW e, NEW f, NEW g, NEW h,
           \A n \in Node : e[n] = EffectAt(n, e, g),
           \A n \in Node : f[n] = EffectAt(n, f, h)
    PROVE  \A n \in Node : (\A m \in Within(n) : g[m] = h[m]) => e[n] = f[n]
<1> DEFINE P(n) == (\A m \in Within(n) : g[m] = h[m]) => e[n] = f[n]
           S == {n \in Node : ~P(n)}
<1>1. Node \subseteq Nat
  BY TermShape
<1> SUFFICES ASSUME S # {} PROVE FALSE
  OBVIOUS
<1>2. PICK n \in S : \A m \in S : n <= m
  <2>1. S \subseteq Nat
    BY <1>1
  <2> HIDE DEF S
  <2>2. QED
    BY <2>1, LeastElement
<1>3. n \in Node /\ (\A m \in Within(n) : g[m] = h[m]) /\ e[n] # f[n]
  BY <1>2
<1>4. CASE IsService(n)
  <2>1. n \in Within(n)
    BY <1>3, TreeOrder
  <2>2. EffectAt(n, e, g) = EffectAt(n, f, h)
    BY <1>3, <1>4, <2>1 DEF EffectAt
  <2>3. QED
    BY <1>3, <2>2
<1>5. CASE ~IsService(n)
  <2>1. /\ First(n) \in Node /\ Second(n) \in Node /\ n \in Above(First(n)) /\ n \in Above(Second(n))
        /\ Within(First(n)) \subseteq Within(n) /\ Within(Second(n)) \subseteq Within(n)
    BY <1>3, <1>5, Operands, Kinds
  <2>2. ASSUME NEW c \in Node, n \in Above(c), Within(c) \subseteq Within(n) PROVE e[c] = f[c]
    <3>1. c < n /\ c \in Int /\ n \in Int
      BY <1>3, <2>2, Bounds
    <3>2. c \notin S
      BY <1>2, <3>1
    <3>3. P(c)
      BY <3>2
    <3>4. QED
      BY <1>3, <2>2, <3>3
  <2>3. e[First(n)] = f[First(n)] /\ e[Second(n)] = f[Second(n)]
    BY <2>1, <2>2
  <2>4. EffectAt(n, e, g) = EffectAt(n, f, h)
    BY <1>5, <2>3 DEF EffectAt
  <2>5. QED
    BY <1>3, <2>4
<1>6. QED
  BY <1>4, <1>5

(* A part whose nodes answer as before has the effect it had.              *)
LEMMA EffectStays ==
    tree \in Trees /\ tree' = tree =>
        \A n \in Node : (\A m \in Within(n) : got'[m] = got[m]) => Effect'[n] = Effect[n]
BY EffectInside, EffectIs, EffectIsNext

(* An effect is a result, and the nodes that a value went through.          *)
Outcome == [ok : BOOLEAN, val : Seq(Node)]

(* Every part answers, with a value that went through nodes.                *)
LEMMA EffectType == tree \in Trees => \A n \in Node : Effect[n] \in Outcome
<1> SUFFICES ASSUME tree \in Trees PROVE \A n \in Node : Effect[n] \in Outcome
  OBVIOUS
<1> DEFINE S == {n \in Node : Effect[n] \notin Outcome}
<1>1. Node \subseteq Nat
  BY TermShape
<1> SUFFICES ASSUME S # {} PROVE FALSE
  OBVIOUS
<1>2. PICK n \in S : \A m \in S : n <= m
  <2>1. S \subseteq Nat
    BY <1>1
  <2> HIDE DEF S
  <2>2. QED
    BY <2>1, LeastElement
<1>3. n \in Node /\ Effect[n] \notin Outcome /\ Effect[n] = EffectAt(n, Effect, got)
  BY <1>2, EffectIs
<1>4. CASE IsService(n)
  <2>1. EffectAt(n, Effect, got) = [ok |-> got[n] = "ok", val |-> <<n>>]
    BY <1>4 DEF EffectAt
  <2>2. <<n>> \in Seq(Node) /\ (got[n] = "ok") \in BOOLEAN
    BY <1>3
  <2>3. QED
    BY <1>3, <2>1, <2>2 DEF Outcome
<1>5. CASE ~IsService(n)
  <2>1. /\ First(n) \in Node /\ Second(n) \in Node /\ n \in Above(First(n)) /\ n \in Above(Second(n))
    BY <1>3, <1>5, Operands, Kinds
  <2>2. ASSUME NEW c \in Node, n \in Above(c) PROVE Effect[c] \in Outcome
    <3>1. c < n /\ c \in Int /\ n \in Int
      BY <1>3, <2>2, Bounds
    <3>2. QED
      BY <1>2, <3>1
  <2>3. Effect[First(n)] \in Outcome /\ Effect[Second(n)] \in Outcome
    BY <2>1, <2>2
  <2>4. ASSUME NEW a \in Outcome, NEW b \in Outcome PROVE Around(n, b) \in Outcome /\ InTurn(n, a, b) \in Outcome
    <3>1. /\ <<n>> \o b.val \in Seq(Node) /\ Append(b.val, n) \in Seq(Node) /\ a.val \o b.val \in Seq(Node)
          /\ b.val \in Seq(Node) /\ b.ok \in BOOLEAN
      BY <1>3 DEF Outcome
    <3>2. InTurn(n, a, b) \in Outcome
      BY <3>1 DEF Outcome, InTurn
    <3>3. QED
      BY <3>1, <3>2 DEF Outcome, Around
  <2>5. EffectAt(n, Effect, got) \in Outcome
    BY <1>5, <2>3, <2>4 DEF EffectAt
  <2>6. QED
    BY <1>3, <2>5
<1>6. QED
  BY <1>4, <1>5

-----------------------------------------------------------------------------
(* What a factory is configured with.                                       *)

(* The configuration of a factory, from those of the factories above it.    *)
ConfigAt(n, f) ==
    IF n = Root THEN <<>> ELSE UnitConfig(Parent(n), MapConfig(Parent(n), f[Parent(n)]))

(* What is above a node comes after it in the sequence.                     *)
LEMMA ParentIsLater ==
    ASSUME tree \in Trees, NEW n \in Node, n # Root
    PROVE  Parent(n) \in Node /\ n < Parent(n) /\ Above(n) = {Parent(n)} \cup Above(Parent(n))
<1>1. Parent(n) \in Node /\ Above(n) = {Parent(n)} \cup Above(Parent(n))
  BY Parents
<1>2. Parent(n) \in Above(n)
  BY <1>1
<1>3. QED
  BY <1>1, <1>2, Bounds

(* The functions that are configurations from the root down to node k.      *)
Configs(f, k) == f = [n \in k .. Root |-> ConfigAt(n, f)]

(* Configurations from the root down to a node go on one node further ...   *)
LEMMA ConfigsGrow ==
    ASSUME tree \in Trees, NEW k \in Node, NEW f, Configs(f, k + 1)
    PROVE  \E h : Configs(h, k)
<1> DEFINE h == [n \in k .. Root |-> ConfigAt(n, f)]
<1>1. Root \in Nat \ {0} /\ Node = 1 .. Root
  BY TermShape
<1>2. \A m \in k + 1 .. Root : f[m] = h[m]
  BY <1>1 DEF Configs
<1>3. ASSUME NEW n \in k .. Root PROVE ConfigAt(n, f) = ConfigAt(n, h)
  <2>1. n \in Node
    BY <1>1
  <2> HIDE DEF h
  <2>2. CASE n # Root
    <3>1. Parent(n) \in k + 1 .. Root
      BY <1>1, <2>1, <2>2, ParentIsLater
    <3>2. QED
      BY <1>2, <3>1 DEF ConfigAt
  <2>3. CASE n = Root
    BY <2>3 DEF ConfigAt
  <2>4. QED
    BY <2>2, <2>3
<1>4. h = [n \in k .. Root |-> ConfigAt(n, h)]
  <2>1. h = [n \in k .. Root |-> ConfigAt(n, f)]
    OBVIOUS
  <2> HIDE DEF h
  <2>2. QED
    BY <1>3, <2>1
<1>5. QED
  BY <1>4 DEF Configs

(* ... and so every factory is configured.                                  *)
LEMMA ConfigsExist == tree \in Trees => \E f : Configs(f, 1)
<1> SUFFICES ASSUME tree \in Trees PROVE \E f : Configs(f, 1)
  OBVIOUS
<1> DEFINE E(j) == \E f : Configs(f, Root + 1 - j)
           S == {j \in 0 .. Root : ~E(j)}
<1>1. Root \in Nat \ {0} /\ Node = 1 .. Root
  BY TermShape
<1> SUFFICES ASSUME ~E(Root) PROVE FALSE
  BY <1>1
<1>2. PICK j \in S : \A i \in S : j <= i
  <2>1. S \subseteq Nat /\ S # {}
    <3> HIDE DEF E
    <3>1. Root \in S
      BY <1>1
    <3>2. QED
      BY <1>1, <3>1
  <2> HIDE DEF S
  <2>2. QED
    BY <2>1, LeastElement
<1>3. CASE j = 0
  <2>1. Configs([n \in Root + 1 .. Root |-> n], Root + 1)
    BY <1>1 DEF Configs
  <2>2. Root + 1 - 0 = Root + 1
    BY <1>1
  <2>3. E(0)
    BY <2>1, <2>2
  <2>4. QED
    BY <1>3, <2>3
<1>4. CASE j # 0
  <2>1. PICK i \in 0 .. Root : j = i + 1 /\ i \in Nat
    BY <1>1, <1>4
  <2>2. PICK k \in Node : k = Root + 1 - j /\ k + 1 = Root + 1 - i
    BY <1>1, <1>4, <2>1
  <2>3. E(i)
    BY <1>1, <1>2, <2>1
  <2>4. \E f : Configs(f, k)
    BY <2>2, <2>3, ConfigsGrow
  <2>5. QED
    BY <1>2, <2>2, <2>4
<1>5. QED
  BY <1>3, <1>4

(* Config is as its recursive definition says at every node.                *)
LEMMA ConfigIs == tree \in Trees => \A n \in Node : Config[n] = ConfigAt(n, Config)
<1> SUFFICES ASSUME tree \in Trees PROVE \A n \in Node : Config[n] = ConfigAt(n, Config)
  OBVIOUS
<1>1. Config = CHOOSE f : f = [n \in Node |-> ConfigAt(n, f)]
  BY DEF Config, ConfigAt
<1>2. \E f : f = [n \in Node |-> ConfigAt(n, f)]
  BY ConfigsExist, TermShape DEF Configs
<1>3. Config = [n \in Node |-> ConfigAt(n, Config)]
  BY <1>1, <1>2
<1>4. QED
  BY <1>3

(* A factory's configuration has gone through the mappers above it, from    *)
(* the last that drops what it is given.                                    *)
Configured(v, n) == v \in Seq(Node) /\ Downwards(v, ConfigMappers(n))

(* A factory's configuration is its combinator's, mapped or dropped by that.*)
LEMMA ConfigOfParent ==
    ASSUME tree \in Trees, NEW n \in Node, n # Root, NEW v, Configured(v, Parent(n))
    PROVE  Configured(UnitConfig(Parent(n), MapConfig(Parent(n), v)), n)
<1>1. PICK p \in Node : p = Parent(n)
  BY ParentIsLater
<1>2. n < p /\ Above(n) = {p} \cup Above(p) /\ p \notin Above(p) /\ n \in Int /\ p \in Int
      /\ \A m \in Above(p) : p < m /\ m \in Int
  <2>1. Above(p) \subseteq Node
    BY TreeOrder
  <2>2. QED
    BY <1>1, <2>1, ParentIsLater, TreeOrder, Bounds
<1>3. CASE Is(p, {"unit_config", "apply_cfg"})
  <2>1. ConfigMappers(n) = {}
    BY <1>2, <1>3 DEF ConfigMappers
  <2>2. UnitConfig(p, MapConfig(p, v)) = <<>>
    BY <1>3 DEF UnitConfig
  <2>3. <<>> \in Seq(Node) /\ Downwards(<<>>, {})
    BY DEF Downwards, Range
  <2>4. QED
    BY <1>1, <2>1, <2>2, <2>3 DEF Configured
<1>4. CASE ~Is(p, {"unit_config", "apply_cfg"}) /\ ~Is(p, {"map_config"})
  <2>1. ConfigMappers(n) = ConfigMappers(p)
    BY <1>2, <1>4 DEF ConfigMappers
  <2>2. UnitConfig(p, MapConfig(p, v)) = v
    BY <1>4 DEF UnitConfig, MapConfig
  <2>3. QED
    BY <1>1, <2>1, <2>2 DEF Configured
<1>5. CASE Is(p, {"map_config"})
  <2>1. ~Is(p, {"unit_config", "apply_cfg"})
    BY <1>5 DEF Is
  <2>2. ConfigMappers(n) = {p} \cup ConfigMappers(p)
    BY <1>2, <1>5, <2>1 DEF ConfigMappers
  <2>3. UnitConfig(p, MapConfig(p, v)) = Append(v, p)
    BY <1>5, <2>1 DEF UnitConfig, MapConfig
  <2>4. v \in Seq(Node) /\ Downwards(v, ConfigMappers(p))
    BY <1>1 DEF Configured
  <2>5. \A m \in ConfigMappers(p) : p < m
    BY <1>2 DEF ConfigMappers
  <2>6. Append(v, p) \in Seq(Node) /\ Downwards(Append(v, p), {p} \cup ConfigMappers(p))
    <3>1. PICK S, w : S = ConfigMappers(p) /\ w = Append(v, p)
      OBVIOUS
    <3>2. /\ w \in Seq(Node) /\ Len(w) = Len(v) + 1 /\ Len(v) \in Nat
          /\ \A i \in 1 .. Len(v) : w[i] = v[i]
          /\ w[Len(v) + 1] = p
          /\ DOMAIN w = 1 .. Len(v) + 1 /\ DOMAIN v = 1 .. Len(v)
      BY <2>4, <3>1
    <3>3. S = {v[i] : i \in 1 .. Len(v)} /\ \A i, j \in 1 .. Len(v) : i < j => v[i] > v[j]
      BY <2>4, <3>1, <3>2 DEF Downwards, Range
    <3>4. \A i \in 1 .. Len(v) : v[i] > p
      <4>1. \A i \in 1 .. Len(v) : v[i] \in S /\ v[i] \in Node
        BY <2>4, <3>3
      <4>2. QED
        BY <1>2, <2>5, <3>1, <4>1, Bounds
    <3>5. \A i, j \in DOMAIN w : i < j => w[i] > w[j]
      BY <3>2, <3>3, <3>4
    <3>6. {w[i] : i \in DOMAIN w} = {p} \cup S
      <4>1. \A i \in DOMAIN w : w[i] \in {p} \cup S
        BY <3>2, <3>3
      <4>2. \A x \in S : \E i \in DOMAIN w : w[i] = x
        BY <3>2, <3>3
      <4>3. \E i \in DOMAIN w : w[i] = p
        BY <3>2
      <4>4. QED
        BY <4>1, <4>2, <4>3
    <3>7. QED
      BY <3>1, <3>2, <3>5, <3>6 DEF Downwards, Range
  <2>7. QED
    BY <1>1, <2>2, <2>3, <2>6 DEF Configured
<1>6. QED
  BY <1>3, <1>4, <1>5

(* What NewService gives to the leaves has gone through their mappers.      *)
LEMMA ConfigIsConfigured == tree \in Trees => \A n \in Node : Configured(Config[n], n)
<1> SUFFICES ASSUME tree \in Trees PROVE \A n \in Node : Configured(Config[n], n)
  OBVIOUS
<1> DEFINE S == {n \in Node : ~Configured(Config[n], n)}
           T == {Root - n : n \in S}
<1>1. Root \in Nat \ {0} /\ Node = 1 .. Root
  BY TermShape
<1> SUFFICES ASSUME S # {} PROVE FALSE
  OBVIOUS
(* The greatest counterexample.                                             *)
<1>2. PICK n \in S : \A m \in S : m <= n
  <2> HIDE DEF S
  <2>1. S \subseteq Node
    BY DEF S
  <2>2. T \subseteq Nat /\ T # {}
    <3>1. \A m \in S : Root - m \in Nat
      BY <1>1, <2>1
    <3>2. PICK m \in S : TRUE
      OBVIOUS
    <3>3. Root - m \in T
      BY <3>2
    <3>4. QED
      BY <3>1, <3>3
  <2>3. PICK t \in T : \A u \in T : t <= u
    <3> HIDE DEF T
    <3>1. QED
      BY <2>2, LeastElement
  <2>4. PICK n \in S : t = Root - n
    BY <2>3
  <2>5. ASSUME NEW m \in S PROVE m <= n
    <3>1. Root - m \in T
      BY <2>5
    <3>2. t <= Root - m /\ m \in Node /\ n \in Node
      BY <2>1, <2>3, <2>5, <3>1
    <3>3. QED
      BY <1>1, <2>4, <3>2
  <2>6. QED
    BY <2>5
<1>3. n \in Node /\ ~Configured(Config[n], n) /\ Config[n] = ConfigAt(n, Config)
  BY <1>2, ConfigIs
<1>4. CASE n = Root
  <2>1. Above(Root) = {}
    BY TreeOrder
  <2>2. ConfigMappers(n) = {} /\ Config[n] = <<>>
    BY <1>3, <1>4, <2>1 DEF ConfigMappers, ConfigAt
  <2>3. <<>> \in Seq(Node) /\ Downwards(<<>>, {})
    BY DEF Downwards, Range
  <2>4. QED
    BY <1>3, <2>2, <2>3 DEF Configured
<1>5. CASE n # Root
  <2>1. Parent(n) \in Node /\ n < Parent(n)
    BY <1>3, <1>5, ParentIsLater
  <2>2. Configured(Config[Parent(n)], Parent(n))
    BY <1>1, <1>2, <1>3, <2>1
  <2>3. Configured(UnitConfig(Parent(n), MapConfig(Parent(n), Config[Parent(n)])), n)
    BY <1>3, <1>5, <2>2, ConfigOfParent
  <2>4. QED
    BY <1>3, <1>5, <2>3 DEF ConfigAt
<1>6. QED
  BY <1>4, <1>5

-----------------------------------------------------------------------------
(* The values of the variables.                                             *)

(* The values the other variables have.                                     *)
DataInv ==
    /\ ans \in [tag : {"none", "req"} \cup Returned, val : Seq(Node)]
    /\ have \subseteq Node /\ unready \subseteq Node
    /\ arg \in [Node -> Seq(Node)]
    /\ regs \subseteq Node /\ asked \subseteq Node
    /\ woken \in BOOLEAN
    /\ got \in [Node -> {"none", "ok", "err"}]
    /\ pends \in 0 .. MaxPending /\ requests \in 0 .. MaxRequests
    /\ job \in {"ready", "callable"} => requests < MaxRequests

(* Answers are made of nodes. *)
Answers == [tag : {"none", "req"} \cup Returned, val : Seq(Node)]

(* All that a walk is answered is an answer.                                *)
LEMMA AnswersAre ==
    /\ \A tag \in {"none", "req"} \cup Returned : \A v \in Seq(Node) : Answer(tag, v) \in Answers
    /\ None \in Answers /\ Pending \in Answers /\ Ok(<<>>) \in Answers /\ Req(<<>>) \in Answers
    /\ \A v \in Seq(Node) : Req(v) \in Answers
    /\ ans \in Answers => \A n \in Node : Mapped(n) \in Answers /\ Req(Apply(n, ans.val)) \in Answers
    /\ ans \in Answers => Req(ans.val) \in Answers
<1>1. <<>> \in Seq(Node)
  OBVIOUS
<1>2. /\ {"none", "req", "pending", "ok"} \subseteq {"none", "req"} \cup Returned
  BY DEF Returned
<1>3. \A tag \in {"none", "req"} \cup Returned : \A v \in Seq(Node) : Answer(tag, v) \in Answers
  BY DEF Answer, Answers
<1>4. ASSUME ans \in Answers, NEW n \in Node
      PROVE  Mapped(n) \in Answers /\ Req(Apply(n, ans.val)) \in Answers
  <2>1. ans.tag \in {"none", "req"} \cup Returned /\ ans.val \in Seq(Node)
    BY <1>4 DEF Answers
  <2>2. Append(ans.val, n) \in Seq(Node)
    BY <2>1
  <2>3. QED
    BY <1>2, <1>3, <2>1, <2>2 DEF Mapped, Req, Apply
<1>5. ans \in Answers => Req(ans.val) \in Answers
  BY <1>2, <1>3 DEF Answers, Req
<1>6. QED
  BY <1>1, <1>2, <1>3, <1>4, <1>5 DEF None, Pending, Ok, Req

(* A configuration is a sequence of nodes.                                  *)
LEMMA ConfigType == tree \in Trees => Config \in [Node -> Seq(Node)]
<1> SUFFICES ASSUME tree \in Trees PROVE Config \in [Node -> Seq(Node)]
  OBVIOUS
<1>1. Config = CHOOSE f : f = [n \in Node |-> ConfigAt(n, f)]
  BY DEF Config, ConfigAt
<1>2. \E f : f = [n \in Node |-> ConfigAt(n, f)]
  BY ConfigsExist, TermShape DEF Configs
<1>3. Config = [n \in Node |-> ConfigAt(n, Config)]
  BY <1>1, <1>2
<1>4. \A n \in Node : Config[n] \in Seq(Node)
  BY ConfigIsConfigured DEF Configured
<1>5. \A n \in Node : ConfigAt(n, Config) \in Seq(Node)
  BY <1>3, <1>4
<1>6. QED
  BY <1>3, <1>5

(* The variables of a task that has not begun.                              *)
LEMMA DataInit == Init => DataInv
<1> SUFFICES ASSUME Init PROVE DataInv
  OBVIOUS
<1>1. None \in Answers /\ <<>> \in Seq(Node)
  BY AnswersAre
<1>2. MaxPending \in Nat /\ MaxRequests \in Nat
  BY ConstantsAssumption
<1>3. ans \in Answers
  BY <1>1 DEF Init
<1>4. arg \in [Node -> Seq(Node)]
  BY <1>1 DEF Init
<1>5. got \in [Node -> {"none", "ok", "err"}]
  BY DEF Init
<1>6. pends \in 0 .. MaxPending /\ requests \in 0 .. MaxRequests
  BY <1>2 DEF Init
<1>7. have \subseteq Node /\ unready \subseteq Node /\ regs \subseteq Node /\ asked \subseteq Node /\ woken \in BOOLEAN
  BY DEF Init
<1>8. job = "start"
  BY DEF Init
<1>9. QED
  BY <1>3, <1>4, <1>5, <1>6, <1>7, <1>8 DEF DataInv, Answers

(* No step gives a variable another value than of its type.                 *)
LEMMA DataStep == ControlInv /\ DataInv /\ [Next]_vars => DataInv'
<1> SUFFICES ASSUME ControlInv, DataInv, [Next]_vars PROVE DataInv'
  OBVIOUS
<1>1. /\ tree \in Trees /\ Root \in Node
      /\ MaxPending \in Nat /\ MaxRequests \in Nat /\ pends \in Nat /\ requests \in Nat
  BY TreeOrder, ConstantsAssumption DEF ControlInv, DataInv
<1>2. Node' = Node
  BY TreeStays, SameTree
<1>3. ans \in Answers
  BY DEF DataInv, Answers
<1>4. ASSUME UNCHANGED <<woken, have, unready, arg, regs, asked, got, pends, requests>>,
             job' = job \/ job' \notin {"ready", "callable"}, ans' \in Answers
      PROVE  DataInv'
  BY <1>2, <1>4 DEF DataInv, Answers, Returned
<1>5. CASE UNCHANGED vars
  BY <1>2, <1>5 DEF DataInv, vars, walk, user, Returned
<1>6. CASE NewService
  BY <1>1, <1>2, <1>6, ConfigType DEF DataInv, NewService, Returned
<1>7. CASE Assemble
  BY <1>2, <1>7 DEF DataInv, Assemble, walk, user, Returned
<1>8. CASE StartReady
  BY <1>2, <1>8 DEF DataInv, StartReady, walk, Returned
<1>9. CASE StartCall
  <2>1. requests < MaxRequests
    BY <1>9 DEF DataInv, StartCall
  <2>2. ans' \in Answers
    BY <1>9, AnswersAre DEF StartCall, Give
  <2>3. QED
    BY <1>1, <1>2, <1>9, <2>1, <2>2 DEF DataInv, StartCall, Answers, Returned
<1>10. CASE StartPoll
  <2>1. ans' \in Answers
    BY <1>10, AnswersAre DEF StartPoll, Poll
  <2>2. QED
    BY <1>2, <1>10, <2>1 DEF DataInv, StartPoll, Answers, Returned
<1>11. CASE Return
  <2>1. ans' \in Answers
    BY <1>11, AnswersAre DEF Return, Poll
  <2>2. job \in {"create", "ready", "call"} /\ ans.tag \in {"pending", "ok", "err"}
    <3>1. cur # 0
      BY <1>1, <1>11, TermShape DEF Return
    <3>2. QED
      BY <1>11, <3>1 DEF ControlInv, Return, Returned
  <2>3. job' \in {"ready", "callable"} => job = "ready"
    BY <1>11, <2>2 DEF Return
  <2>4. QED
    BY <1>2, <1>11, <2>1, <2>3 DEF DataInv, Return, Answers, Returned
<1>12. CASE \E n \in Node : Wake(n)
  BY <1>2, <1>12 DEF DataInv, Wake, walk, Returned
<1>13. ASSUME NEW n \in Node, Descend(n) PROVE DataInv'
  <2>1. ans' \in Answers
    BY <1>13, Descends, AnswersAre
  <2>2. QED
    BY <1>2, <1>13, <2>1, Descends DEF DataInv, Answers, Returned
<1>14. ASSUME NEW n \in Node, CallOperand(n) PROVE DataInv'
  <2>1. ans' \in Answers
    BY <1>3, <1>14, AnswersAre DEF CallOperand, Give
  <2>2. QED
    BY <1>4, <1>14, <2>1 DEF CallOperand, user
<1>15. ASSUME NEW n \in Node, CallService(n) PROVE DataInv'
  <2>1. ans' \in Answers
    BY <1>15, AnswersAre DEF CallService, Poll
  <2>2. ans.val \in Seq(Node)
    BY <1>3 DEF Answers
  <2>3. QED
    BY <1>2, <1>15, <2>1, <2>2 DEF DataInv, CallService, Answers, Returned
<1>16. ASSUME NEW n \in Node, UserPending(n) PROVE DataInv'
  <2>1. ans' \in Answers
    BY <1>16, AnswersAre DEF UserPending, Give
  <2>2. pends + 1 \in 0 .. MaxPending
    BY <1>1, <1>16 DEF UserPending
  <2>3. QED
    BY <1>2, <1>16, <2>1, <2>2 DEF DataInv, UserPending, Answers, Returned
<1>17. ASSUME NEW n \in Node, NEW tag \in {"ok", "err"}, UserEnds(n, tag) PROVE DataInv'
  <2>1. arg[n] \in Seq(Node) /\ <<n>> \in Seq(Node) /\ <<n, n>> \in Seq(Node) /\ <<>> \in Seq(Node)
    BY DEF DataInv
  <2>2. Carried(n) \o OwnErr(n) \in Seq(Node)
    <3>1. PICK c \in Seq(Node), o \in Seq(Node) : c = Carried(n) /\ o = OwnErr(n)
      BY <2>1 DEF Carried, OwnErr
    <3>2. c \o o \in Seq(Node)
      BY ConcatProperties
    <3>3. QED
      BY <3>1, <3>2
  <2>3. Append(arg[n], n) \in Seq(Node)
    BY <2>1
  <2>4. ans' \in Answers
    BY <1>17, <2>1, <2>2, <2>3, AnswersAre DEF UserEnds, Give, Returned
  <2>5. QED
    BY <1>2, <1>17, <2>4 DEF DataInv, UserEnds, Answers, Returned
<1>18. ASSUME NEW p \in Node, Forward(p) PROVE DataInv'
  BY <1>3, <1>4, <1>18, AnswersAre DEF Forward, Give, user
<1>19. ASSUME NEW p \in Node, NewTransform(p) \/ ConfigFactory(p) \/ ConfigReady(p) PROVE DataInv'
  BY <1>3, <1>4, <1>19, AnswersAre DEF NewTransform, ConfigFactory, ConfigReady, Give, Loop, Poll, user
<1>20. ASSUME NEW p \in Node, PairCreate(p) PROVE DataInv'
  <2>1. ans' \in Answers
    BY <1>3, <1>20, AnswersAre DEF PairCreate, Give, Poll
  <2>2. have' \subseteq Node
    BY <1>20, Returns DEF DataInv, PairCreate
  <2>3. QED
    BY <1>2, <1>20, <2>1, <2>2 DEF DataInv, PairCreate, user, Answers, Returned
<1>21. ASSUME NEW p \in Node, PairReady(p) PROVE DataInv'
  <2>1. ans' \in Answers
    BY <1>3, <1>21, AnswersAre DEF PairReady, Give, Poll
  <2>2. unready' \subseteq Node
    BY <1>21 DEF DataInv, PairReady
  <2>3. QED
    BY <1>2, <1>21, <2>1, <2>2 DEF DataInv, PairReady, user, Answers, Returned
<1>22. ASSUME NEW p \in Node, NEW goes, PairCall(p, goes) PROVE DataInv'
  BY <1>3, <1>4, <1>22, AnswersAre DEF PairCall, Give, user
<1>23. QED
  BY <1>5, <1>6, <1>7, <1>8, <1>9, <1>10, <1>11, <1>12, <1>13, <1>14, <1>15, <1>16, <1>17, <1>18, <1>19, <1>20,
     <1>21, <1>22
  DEF Next, Walk, AndThenCall, AndThenReady, AndThenCreate, ThenCall, ThenReady, ThenCreate

-----------------------------------------------------------------------------
(* The values a call carries.                                               *)

(* What an operand is called with, from what its combinator is.             *)
Passed(p, c, v, e) ==
    IF Is(p, Pair) /\ c = Second(p) THEN v \o e[First(p)].val ELSE Apply(p, v)

Along(p, c, in, e) ==
    /\ in[c] = Passed(p, c, in[p], e)
    /\ Is(p, Pair) /\ c = Second(p) => Goes(p, e[First(p)])

(* What a request has become in each node from the root down to n, when the *)
(* parts have the effects e.                                                *)
Carries(in, n, e) ==
    /\ in \in [Node -> Seq(Node)]
    /\ in[Root] = <<>>
    /\ \A c \in {n} \cup Above(n) : c # Root => Along(Parent(c), c, in, e)

(* v reaches n.                                                             *)
Reached(n, v, e) == \E in : Carries(in, n, e) /\ in[n] = v

(* The answer of n to v, when its effect is that.                           *)
Result(v, effect) == Answer(IF effect.ok THEN "ok" ELSE "err", v \o effect.val)

(* Where a call has come to with which value.                               *)
Carrying(c, a, f, given, e) ==
    /\ \A l \in Node : f[l] = "live" => Reached(l, given[l], e)
    /\ a.tag = "req" => Reached(c, a.val, e)
    /\ a.tag \in {"ok", "err"} => \E v : Reached(c, v, e) /\ a = Result(v, e[c])

(* The above, of a call.                                                    *)
CarryInv == job = "call" => Carrying(cur, ans, fut, arg, Effect)

(* What reaches a node is a sequence of nodes.                              *)
LEMMA ReachedType ==
    ASSUME NEW n \in Node, NEW v, NEW e, Reached(n, v, e)
    PROVE  v \in Seq(Node)
BY DEF Reached, Carries

(* The root gets what the task sends.                                       *)
LEMMA ReachedRoot ==
    ASSUME tree \in Trees, NEW e
    PROVE  /\ Reached(Root, <<>>, e)
           /\ \A v : Reached(Root, v, e) => v = <<>>
<1> DEFINE in == [n \in Node |-> <<>>]
<1>1. Root \in Node /\ Above(Root) = {}
  BY TreeOrder
<1>2. in \in [Node -> Seq(Node)] /\ in[Root] = <<>>
  BY <1>1
<1>3. Carries(in, Root, e)
  <2> HIDE DEF in
  <2>1. QED
    BY <1>1, <1>2 DEF Carries
<1>4. Reached(Root, <<>>, e)
  BY <1>2, <1>3 DEF Reached
<1>5. QED
  BY <1>4 DEF Reached, Carries

(* Down to an operand, and across to the second half of a pair.             *)
LEMMA ReachedDown ==
    ASSUME tree \in Trees, NEW p \in Node, Combinator(p), NEW c \in {First(p), Second(p)},
           NEW v, NEW e, Reached(p, v, e), \A n \in Node : e[n] \in Outcome,
           Is(p, Pair) /\ c = Second(p) => Goes(p, e[First(p)])
    PROVE  Reached(c, Passed(p, c, v, e), e)
<1>1. /\ c \in Node /\ c # Root /\ Parent(c) = p /\ c # p /\ Above(c) = {p} \cup Above(p)
      /\ First(p) \in Node /\ c \notin Above(p) /\ Above(p) \subseteq Node
  <2>1. /\ c \in Node /\ c # Root /\ Parent(c) = p /\ Above(c) = {p} \cup Above(p) /\ First(p) \in Node
    BY Operands, Parents, AboveOperands DEF Combinator
  <2>2. c \notin Above(c) /\ Above(p) \subseteq Node
    BY <2>1, TreeOrder
  <2>3. QED
    BY <2>1, <2>2
<1>2. PICK in : Carries(in, p, e) /\ in[p] = v
  BY DEF Reached
<1>3. PICK w : w = Passed(p, c, v, e)
  OBVIOUS
<1>4. v \in Seq(Node) /\ w \in Seq(Node)
  <2>1. v \in Seq(Node)
    BY <1>2 DEF Carries
  <2>2. e[First(p)].val \in Seq(Node)
    BY <1>1 DEF Outcome
  <2>3. v \o e[First(p)].val \in Seq(Node)
    BY <2>1, <2>2, ConcatProperties
  <2>4. Apply(p, v) \in Seq(Node)
    BY <2>1 DEF Apply
  <2>5. QED
    BY <1>3, <2>3, <2>4 DEF Passed
<1>5. PICK in2 : in2 = [in EXCEPT ![c] = w]
  OBVIOUS
<1>6. in2 \in [Node -> Seq(Node)] /\ in2[c] = w /\ \A n \in Node \ {c} : in2[n] = in[n]
  BY <1>1, <1>2, <1>4, <1>5 DEF Carries
<1>7. in2[Root] = <<>>
  BY <1>1, <1>2, <1>6, TreeOrder DEF Carries
<1>8. ASSUME NEW d \in {c} \cup Above(c), d # Root PROVE Along(Parent(d), d, in2, e)
  <2>1. CASE d = c
    BY <1>1, <1>2, <1>3, <1>6, <2>1 DEF Passed, Along
  <2>2. CASE d # c
    <3>1. d \in {p} \cup Above(p) /\ d \in Node
      BY <1>1, <1>8, <2>2
    <3>2. Parent(d) \in Node /\ Parent(d) \in Above(p)
      <4>1. Parent(d) \in Node /\ Parent(d) \in Above(d)
        BY <1>8, <3>1, Parents
      <4>2. p \in Within(d)
        BY <3>1, TreeOrder
      <4>3. d \in Within(Parent(d)) /\ p \in Within(Parent(d)) /\ Parent(d) # d /\ d \notin Above(d)
        BY <3>1, <4>1, <4>2, TreeOrder
      <4>4. Parent(d) # p
        BY <3>1, <4>1, <4>2, <4>3, TreeOrder
      <4>5. QED
        BY <4>1, <4>3, <4>4, TreeOrder
    <3>3. Parent(d) # c
      BY <1>1, <3>2
    <3>4. in2[d] = in[d] /\ in2[Parent(d)] = in[Parent(d)]
      BY <1>6, <2>2, <3>1, <3>2, <3>3
    <3>5. QED
      BY <1>2, <1>8, <3>1, <3>4 DEF Carries, Along, Passed
  <2>3. QED
    BY <2>1, <2>2
<1>9. Carries(in2, c, e)
  BY <1>6, <1>7, <1>8 DEF Carries
<1>10. QED
  BY <1>3, <1>6, <1>9 DEF Reached

(* Back up.                                                                 *)
LEMMA ReachedUp ==
    ASSUME tree \in Trees, NEW p \in Node, Combinator(p), NEW c \in {First(p), Second(p)},
           NEW w, NEW e, Reached(c, w, e)
    PROVE  /\ \E v : Reached(p, v, e) /\ w = Passed(p, c, v, e)
           /\ Is(p, Pair) /\ c = Second(p) => Goes(p, e[First(p)])
<1>1. c \in Node /\ c # Root /\ Parent(c) = p /\ Above(c) = {p} \cup Above(p)
  BY Operands, Parents, AboveOperands DEF Combinator
<1>2. PICK in : Carries(in, c, e) /\ in[c] = w
  BY DEF Reached
<1>3. Carries(in, p, e)
  BY <1>1, <1>2 DEF Carries
<1>4. w = Passed(p, c, in[p], e) /\ (Is(p, Pair) /\ c = Second(p) => Goes(p, e[First(p)]))
  BY <1>1, <1>2 DEF Carries, Along, Passed
<1>5. QED
  BY <1>3, <1>4 DEF Reached

(* What reaches n does not depend on what is not beside its path.           *)
LEMMA ReachedStays ==
    ASSUME tree \in Trees, NEW n \in Node, NEW v, NEW e, NEW e2, Reached(n, v, e),
           \A m \in Node : n \notin Within(m) => e2[m] = e[m]
    PROVE  Reached(n, v, e2)
<1>1. PICK in : Carries(in, n, e) /\ in[n] = v
  BY DEF Reached
<1>2. ASSUME NEW c \in {n} \cup Above(n), c # Root, Is(Parent(c), Pair), c = Second(Parent(c))
      PROVE  e2[First(Parent(c))] = e[First(Parent(c))]
  <2>1. c \in Node /\ n \in Within(c)
    BY TreeOrder
  <2>2. PICK p \in Node : p = Parent(c)
    BY <1>2, <2>1, Parents
  <2>3. First(p) \in Node /\ Within(First(p)) \cap Within(Second(p)) = {}
    BY <1>2, <2>2, Operands, Kinds
  <2>4. n \notin Within(First(p))
    BY <1>2, <2>1, <2>2, <2>3
  <2>5. QED
    BY <2>2, <2>3, <2>4
<1>3. Carries(in, n, e2)
  BY <1>1, <1>2 DEF Carries, Along, Passed
<1>4. QED
  BY <1>1, <1>3 DEF Reached

(* Values are put together in any order.                                    *)
LEMMA ConcatNodes == \A s, t, u \in Seq(Node) : (s \o t) \o u = s \o (t \o u)
BY ConcatAssociative

(* A mapper's part in an answer, or none, is what its effect says.          *)
LEMMA ResultAround ==
    ASSUME NEW p \in Node, NEW v \in Seq(Node), NEW x \in Outcome
    PROVE  LET a == Result(Apply(p, v), x) IN
           Result(v, Around(p, x)) =
               IF (Is(p, {"map"}) /\ a.tag = "ok") \/ (Is(p, {"map_err"}) /\ a.tag = "err")
               THEN Answer(a.tag, Append(a.val, p)) ELSE a
<1> DEFINE a == Result(Apply(p, v), x)
<1>1. a.val = Apply(p, v) \o x.val /\ a.tag = (IF x.ok THEN "ok" ELSE "err") /\ a = Answer(a.tag, a.val)
  BY DEF Result, Answer
<1>2. x.val \in Seq(Node) /\ <<p>> \in Seq(Node) /\ x.ok \in BOOLEAN
  BY DEF Outcome
<1>3. Result(v, Around(p, x)) = Answer(a.tag, v \o Around(p, x).val)
  BY <1>1 DEF Result, Around
<1>4. CASE Is(p, {"apply_fn"})
  <2>1. ~Is(p, {"map"}) /\ ~Is(p, {"map_err"})
    BY <1>4 DEF Is
  <2>2. Append(v, p) \o x.val = v \o (<<p>> \o x.val)
    <3>1. PICK y \in Seq(Node) : y = <<p>>
      BY <1>2
    <3>2. Append(v, p) = v \o y
      BY <3>1, AppendIsConcat
    <3>3. (v \o y) \o x.val = v \o (y \o x.val)
      BY <1>2, ConcatNodes
    <3>4. QED
      BY <3>1, <3>2, <3>3
  <2>3. a.val = v \o Around(p, x).val
    BY <1>1, <1>4, <2>2 DEF Apply, Around
  <2>4. QED
    BY <1>1, <1>3, <2>1, <2>3
<1>5. CASE ~Is(p, {"apply_fn"})
  <2>1. a.val = v \o x.val
    BY <1>1, <1>5 DEF Apply
  <2>2. Append(a.val, p) = v \o Append(x.val, p)
    <3>1. PICK y \in Seq(Node) : y = <<p>>
      BY <1>2
    <3>2. Append(x.val, p) = x.val \o y
      BY <1>2, <3>1, AppendIsConcat
    <3>3. v \o x.val \in Seq(Node)
      BY <1>2, ConcatProperties
    <3>4. Append(a.val, p) = (v \o x.val) \o y
      BY <2>1, <3>1, <3>3, AppendIsConcat
    <3>5. (v \o x.val) \o y = v \o (x.val \o y)
      BY <1>2, ConcatNodes
    <3>6. QED
      BY <3>2, <3>4, <3>5
  <2>3. CASE Is(p, {IF x.ok THEN "map" ELSE "map_err"})
    <3>1. Around(p, x).val = Append(x.val, p)
      BY <1>5, <2>3 DEF Around
    <3>2. (Is(p, {"map"}) /\ a.tag = "ok") \/ (Is(p, {"map_err"}) /\ a.tag = "err")
      BY <1>1, <1>2, <2>3 DEF Is
    <3>3. QED
      BY <1>3, <2>2, <3>1, <3>2
  <2>4. CASE ~Is(p, {IF x.ok THEN "map" ELSE "map_err"})
    <3>1. Around(p, x).val = x.val
      BY <1>5, <2>4 DEF Around
    <3>2. ~((Is(p, {"map"}) /\ a.tag = "ok") \/ (Is(p, {"map_err"}) /\ a.tag = "err"))
      BY <1>1, <1>2, <2>4 DEF Is
    <3>3. QED
      BY <1>1, <1>3, <2>1, <3>1, <3>2
  <2>5. QED
    BY <2>3, <2>4
<1>6. QED
  BY <1>4, <1>5

(* What CarryInv says of the next state, over a tree that stays.            *)
LEMMA CarryNext ==
    ASSUME tree' = tree, job' = "call" => Carrying(cur', ans', fut', arg', Effect')
    PROVE  CarryInv'
<1>1. /\ Node' = Node /\ Root' = Root
      /\ \A n : Parent(n)' = Parent(n) /\ Above(n)' = Above(n)
  BY SameTree
<1>2. /\ Above(cur)' = Above(cur')
  BY DEF Above, Width, Node
<1>3. \A c, in : Along(Parent(c), c, in, Effect)' <=> Along(Parent(c), c, in, Effect')
  <2>1. \A c : /\ First(Parent(c))' = First(Parent(c)) /\ Second(Parent(c))' = Second(Parent(c))
              /\ Is(Parent(c), Pair)' = Is(Parent(c), Pair)
              /\ Is(Parent(c), {"then"})' = Is(Parent(c), {"then"})
              /\ Is(Parent(c), {"apply_fn"})' = Is(Parent(c), {"apply_fn"})
    BY DEF Parent, Above, First, Second, Is, Width, Node
  <2>2. QED
    BY <1>1, <2>1 DEF Along, Passed, Goes, Apply
<1>4. /\ \A in, n : Carries(in, n, Effect)' <=> Carries(in, n, Effect')
      /\ \A in : Carries(in, cur, Effect)' <=> Carries(in, cur', Effect')
  BY <1>1, <1>2, <1>3 DEF Carries
<1>5. \A l : Reached(l, arg[l], Effect)' <=> Reached(l, arg'[l], Effect')
  BY <1>4 DEF Reached
<1>6. /\ Reached(cur, ans.val, Effect)' <=> Reached(cur', ans'.val, Effect')
      /\ \A v : Reached(cur, v, Effect)' <=> Reached(cur', v, Effect')
  BY <1>4 DEF Reached
<1>7. QED
  BY <1>1, <1>5, <1>6 DEF CarryInv, Carrying, Result, Answer

(* Every step of a call hands on a value that has gone through the right    *)
(* nodes, down, across and up.                                              *)
LEMMA CarryStep == ControlInv /\ DataInv /\ CallInv /\ CarryInv /\ [Next]_vars => CarryInv'
<1> SUFFICES ASSUME ControlInv, DataInv, CallInv, CarryInv, [Next]_vars PROVE CarryInv'
  OBVIOUS
<1> SUFFICES ASSUME job' = "call" PROVE Carrying(cur', ans', fut', arg', Effect')
  BY TreeStays, CarryNext
<1> DEFINE Goal == Carrying(cur', ans', fut', arg', Effect')
<1>1. /\ tree \in Trees /\ tree' = tree /\ Root \in Node /\ 0 \notin Node /\ cur \in Node \cup {0}
      /\ st \in [Node -> {"A", "B", "C"}] /\ fut \in [Node -> {"none", "live", "done"}]
      /\ cur # 0 => mode = job \/ (job = "create" /\ mode = "ready")
      /\ job \notin {"create", "ready", "call"} => cur = 0 /\ ~woken
      /\ job \notin {"create", "call"} => \A n \in Node : fut[n] = "none"
      /\ cur = 0 => ans.tag = "none"
      /\ ans.tag = "req" => job = "call"
      /\ arg \in [Node -> Seq(Node)] /\ got \in [Node -> {"none", "ok", "err"}]
      /\ None.tag = "none" /\ Pending.tag = "pending" /\ \A p : Mapped(p).tag = ans.tag
      /\ \A v : Req(v).tag = "req" /\ Req(v).val = v
      /\ \A t, v : Answer(t, v).tag = t /\ Answer(t, v).val = v
  <2>1. /\ \A v : Req(v).val = v
        /\ \A t, v : Answer(t, v).val = v
    BY DEF Req, Answer
  <2>2. arg \in [Node -> Seq(Node)] /\ got \in [Node -> {"none", "ok", "err"}]
    BY DEF DataInv
  <2>3. /\ tree \in Trees /\ cur \in Node \cup {0}
        /\ st \in [Node -> {"A", "B", "C"}] /\ fut \in [Node -> {"none", "live", "done"}]
        /\ cur # 0 => mode = job \/ (job = "create" /\ mode = "ready")
        /\ job \notin {"create", "ready", "call"} => cur = 0 /\ ~woken
        /\ job \notin {"create", "call"} => \A n \in Node : fut[n] = "none"
        /\ cur = 0 => ans.tag = "none"
        /\ ans.tag = "req" => job = "call"
    BY Tags DEF ControlInv
  <2>4. Root \in Node /\ 0 \notin Node
    BY <2>3, TreeOrder, TermShape
  <2>5. /\ None.tag = "none" /\ Pending.tag = "pending" /\ \A p : Mapped(p).tag = ans.tag
        /\ \A v : Req(v).tag = "req"
        /\ \A t, v : Answer(t, v).tag = t
    BY Tags
  <2>6. QED
    BY <2>1, <2>2, <2>3, <2>4, <2>5, TreeStays
<1>2. job = "call" => /\ InCall(cur, ans.tag, st, fut, regs, woken)
                      /\ Carrying(cur, ans, fut, arg, Effect)
  BY DEF CallInv, CarryInv
<1>3. PICK e : e = Effect
  OBVIOUS
<1>4. PICK f : f = Effect'
  OBVIOUS
<1>5. \A n \in Node : e[n] \in Outcome
  BY <1>1, <1>3, EffectType
<1>6. \A n \in Node : (\A m \in Within(n) : got'[m] = got[m]) => f[n] = e[n]
  BY <1>1, <1>3, <1>4, EffectStays
<1>7. ASSUME got' = got PROVE \A n \in Node : f[n] = e[n] /\ \A v : Reached(n, v, e) => Reached(n, v, f)
  <2>1. \A n \in Node : f[n] = e[n]
    BY <1>6, <1>7
  <2>2. QED
    BY <1>1, <2>1, ReachedStays
(* Nothing changes hands.                                                   *)
<1>8. ASSUME job = "call", UNCHANGED <<got, fut, arg>>, ans'.tag \in {"none", "pending"} PROVE Goal
  BY <1>2, <1>3, <1>4, <1>7, <1>8 DEF Carrying
<1>9. CASE UNCHANGED vars
  <2>1. got' = got /\ cur' = cur /\ ans' = ans /\ fut' = fut /\ arg' = arg /\ job = "call"
    BY <1>9 DEF vars, walk, user
  <2>2. Carrying(cur, ans, fut, arg, e)
    BY <1>2, <1>3, <2>1
  <2>3. ans.tag # "none" => cur \in Node
    BY <1>1
  <2>4. Carrying(cur, ans, fut, arg, f)
    BY <1>7, <2>1, <2>2, <2>3 DEF Carrying
  <2>5. QED
    BY <1>4, <2>1, <2>4
<1>10. CASE NewService \/ Assemble \/ StartReady
  BY <1>10 DEF NewService, Assemble, StartReady
<1>11. CASE StartCall
  <2>1. /\ cur' = Root /\ ans' = Req(<<>>) /\ fut' = fut /\ job = "callable"
    BY <1>1, <1>11 DEF StartCall, Give
  <2>2. \A n \in Node : fut'[n] # "live"
    BY <1>1, <2>1
  <2>3. Reached(Root, <<>>, f)
    BY <1>1, ReachedRoot
  <2>4. QED
    BY <1>1, <1>4, <2>1, <2>2, <2>3 DEF Carrying
<1>12. CASE StartPoll
  BY <1>1, <1>8, <1>12 DEF StartPoll, Poll
<1>13. CASE Return
  <2>1. job = "call" /\ UNCHANGED <<got, fut, arg>> /\ ans'.tag = "none"
    BY <1>1, <1>13 DEF Return, Poll, Returned
  <2>2. QED
    BY <1>8, <2>1
<1>14. CASE \E n \in Node : Wake(n)
  BY <1>1, <1>8, <1>14 DEF Wake, walk
<1>15. ASSUME NEW n \in Node, Descend(n) PROVE Goal
  BY <1>1, <1>8, <1>15, Descends
<1>16. ASSUME NEW n \in Node, CallOperand(n) PROVE Goal
  <2>1. /\ cur = n /\ job = "call" /\ ans.tag = "req" /\ ans' = Req(Apply(n, ans.val)) /\ cur' = First(n)
        /\ ~IsService(n) /\ UNCHANGED <<fut, arg, got>>
    BY <1>1, <1>16 DEF CallOperand, Give, user
  <2>2. Reached(n, ans.val, e) /\ \A l \in Node : fut[l] # "live"
    BY <1>2, <1>3, <2>1 DEF Carrying, InCall
  <2>3. Combinator(n) /\ First(n) \in Node /\ ~(Is(n, Pair) /\ First(n) = Second(n))
    <3>1. Combinator(n)
      BY <2>1, Kinds DEF Combinator
    <3>2. QED
      BY <1>1, <3>1, Operands DEF Combinator
  <2>4. PICK v : v = ans.val
    OBVIOUS
  <2>5. Reached(First(n), Apply(n, v), e)
    <3>1. Passed(n, First(n), v, e) = Apply(n, v)
      BY <2>3 DEF Passed
    <3>2. Reached(n, v, e)
      BY <2>2, <2>4
    <3>3. QED
      BY <1>1, <1>5, <2>3, <3>1, <3>2, ReachedDown
  <2>6. Reached(First(n), Apply(n, v), f)
    BY <1>7, <2>1, <2>3, <2>5
  <2>7. QED
    BY <1>1, <1>4, <2>1, <2>2, <2>4, <2>6 DEF Carrying
<1>17. ASSUME NEW n \in Node, CallService(n) PROVE Goal
  <2>1. /\ cur = n /\ job = "call" /\ ans.tag = "req" /\ ans'.tag = "none" /\ got' = got
        /\ fut' = [fut EXCEPT ![n] = "live"] /\ arg' = [arg EXCEPT ![n] = ans.val]
    BY <1>1, <1>17 DEF CallService, Poll
  <2>2. Reached(n, ans.val, e) /\ \A l \in Node : fut[l] # "live"
    BY <1>2, <1>3, <2>1 DEF Carrying, InCall
  <2>3. \A l \in Node : fut'[l] = "live" => l = n
    BY <1>1, <2>1, <2>2
  <2>4. arg'[n] = ans.val
    BY <1>1, <2>1
  <2>5. Reached(n, ans.val, f)
    BY <1>7, <2>1, <2>2
  <2>6. QED
    BY <1>4, <2>1, <2>3, <2>4, <2>5 DEF Carrying
<1>18. ASSUME NEW n \in Node, UserPending(n) PROVE Goal
  <2>1. job = "call" /\ UNCHANGED <<fut, arg, got>> /\ ans'.tag = "pending"
    BY <1>1, <1>18 DEF UserPending, Give
  <2>2. QED
    BY <1>8, <2>1
<1>19. ASSUME NEW n \in Node, NEW tag \in {"ok", "err"}, UserEnds(n, tag) PROVE Goal
  <2>1. /\ cur = n /\ cur # 0 /\ cur' = n /\ ans.tag = "none" /\ OwnTurn(n) /\ job = "call" /\ mode = "call"
        /\ fut' = [fut EXCEPT ![n] = "done"] /\ got' = [got EXCEPT ![n] = tag] /\ arg' = arg
        /\ ans' = Answer(tag, IF tag = "err" THEN Carried(n) \o OwnErr(n) ELSE Append(arg[n], n))
    BY <1>1, <1>19 DEF UserEnds, Give, None, Answer
  <2>2. IsService(n)
    BY <2>1, Kinds DEF OwnTurn, Transforming, Configuring
  <2>3. InCall(n, "none", st, fut, regs, woken) /\ Carrying(cur, ans, fut, arg, e)
    BY <1>2, <1>3, <2>1
  <2>4. OnPath(n, st)
    BY <2>1, <2>3 DEF InCall
  <2>5. ASSUME NEW l \in Node, fut[l] = "live" PROVE l = n
    <3>1. l \in Within(n) /\ OnPath(l, st) /\ IsService(l)
      BY <1>1, <2>1, <2>3, <2>5 DEF InCall
    <3>2. QED
      BY <1>1, <2>2, <3>1, LiveBelow
  <2>6. fut[n] = "live"
    BY <2>1, <2>3, <2>5 DEF InCall
  <2>7. Reached(n, arg[n], e)
    BY <2>3, <2>6 DEF Carrying
  <2>8. Reached(n, arg[n], f)
    <3>1. \A m \in Node : n \notin Within(m) => f[m] = e[m]
      <4>1. \A k \in Node : k # n => got'[k] = got[k]
        BY <1>1, <2>1
      <4>2. \A m \in Node : Within(m) \subseteq Node
        BY <1>1, TreeOrder
      <4>3. QED
        BY <1>6, <4>1, <4>2
    <3>2. QED
      BY <1>1, <2>7, <3>1, ReachedStays
  <2>9. f[n] = [ok |-> tag = "ok", val |-> <<n>>]
    <3>1. f[n] = EffectAt(n, f, got')
      BY <1>1, <1>4, EffectIsNext
    <3>2. got'[n] = tag
      BY <1>1, <2>1
    <3>3. QED
      BY <2>2, <3>1, <3>2 DEF EffectAt
  <2>10. ans' = Result(arg[n], f[n])
    <3>1. Carried(n) = arg[n]
      BY <2>1 DEF Carried
    <3>2. OwnErr(n) = <<n>>
      BY <2>1 DEF OwnErr, Transforming
    <3>3. Append(arg[n], n) = arg[n] \o <<n>>
      BY <1>1, AppendIsConcat
    <3>4. ans' = Answer(tag, arg[n] \o <<n>>)
      BY <2>1, <3>1, <3>2, <3>3
    <3>5. tag = IF f[n].ok THEN "ok" ELSE "err"
      <4>1. f[n].ok <=> tag = "ok"
        <5>1. CASE tag = "ok"
          <6>1. f[n] = [ok |-> TRUE, val |-> <<n>>]
            BY <2>9, <5>1
          <6>2. QED
            BY <5>1, <6>1
        <5>2. CASE tag # "ok"
          <6>1. f[n] = [ok |-> FALSE, val |-> <<n>>]
            BY <2>9, <5>2
          <6>2. QED
            BY <5>2, <6>1
        <5>3. QED
          BY <5>1, <5>2
      <4>2. QED
        BY <1>19, <4>1
    <3>6. f[n].val = <<n>>
      BY <2>9
    <3>7. QED
      BY <3>4, <3>5, <3>6 DEF Result
  <2>11. \A l \in Node : fut'[l] # "live"
    BY <1>1, <2>1, <2>5
  <2>12. ans'.tag = tag
    BY <1>1, <2>1
  <2>13. Carrying(n, ans', fut', arg, f)
    BY <2>8, <2>10, <2>11, <2>12 DEF Carrying
  <2>14. QED
    BY <1>4, <2>1, <2>13
(* Up: what p is called with, what its operand has answered to that.        *)
<1>20. ASSUME NEW p \in Node, Up(p), job = "call", ans.tag \in {"ok", "err"}
       PROVE  /\ cur \in {First(p), Second(p)} /\ Combinator(p) /\ cur \in Node
              /\ Is(p, Pair) /\ cur = Second(p) => Goes(p, e[First(p)])
              /\ \A l \in Node : fut[l] # "live"
              /\ \E v \in Seq(Node) : Reached(p, v, e) /\ ans = Result(Passed(p, cur, v, e), e[cur])
              /\ ~IsService(p)
  <2>1. cur \in {First(p), Second(p)} /\ Combinator(p) /\ cur \in Node /\ cur # 0
    BY <1>1, <1>20, Returns
  <2>2. InCall(cur, ans.tag, st, fut, regs, woken) /\ Carrying(cur, ans, fut, arg, e)
    BY <1>2, <1>3, <1>20
  <2>3. \A l \in Node : fut[l] # "live"
    BY <1>20, <2>2 DEF InCall
  <2>4. PICK w, c : c = cur /\ Reached(c, w, e) /\ ans = Result(w, e[c])
    BY <1>20, <2>2 DEF Carrying
  <2>5. /\ \E v : Reached(p, v, e) /\ w = Passed(p, c, v, e)
        /\ Is(p, Pair) /\ c = Second(p) => Goes(p, e[First(p)])
    BY <1>1, <2>1, <2>4, ReachedUp
  <2>6. ~IsService(p)
    <3>1. OnPath(c, st) /\ c \in {First(p), Second(p)}
      BY <2>1, <2>2, <2>4 DEF InCall
    <3>2. QED
      BY <1>1, <2>1, <3>1, UpPath
  <2>7. PICK v : Reached(p, v, e) /\ w = Passed(p, c, v, e)
    BY <2>5
  <2>8. v \in Seq(Node)
    BY <2>7, ReachedType
  <2>9. QED
    BY <2>1, <2>3, <2>4, <2>5, <2>6, <2>7, <2>8
<1>21. ASSUME NEW p \in Node, cur' = p, UNCHANGED <<fut, arg, got>>,
              \A l \in Node : fut[l] # "live", NEW v, Reached(p, v, e), ans' = Result(v, e[p])
       PROVE  Goal
  <2>1. Reached(p, v, f) /\ f[p] = e[p]
    BY <1>7, <1>21
  <2>2. ans'.tag \in {"ok", "err"}
    BY <1>1, <1>21 DEF Result
  <2>3. QED
    BY <1>4, <1>21, <2>1, <2>2 DEF Carrying
<1>22. ASSUME NEW p \in Node, Forward(p) PROVE Goal
  <2>1. /\ Up(p) /\ job = "call" /\ cur # 0 /\ mode = "call" /\ Is(p, Wrapper) /\ cur' = p
        /\ ans' = (IF MapOk(p) \/ MapErr(p) \/ MapInitErr(p) THEN Mapped(p) ELSE ans)
        /\ UNCHANGED <<fut, arg, got>>
    BY <1>1, <1>22 DEF Forward, Give, Up, user
  <2>2. CASE ans.tag = "pending"
    BY <1>1, <1>8, <2>1, <2>2
  <2>3. CASE ans.tag \in {"ok", "err"}
    <3>1. /\ cur = Second(p) /\ cur = First(p) /\ ~Is(p, Pair) /\ cur \in Node /\ ~IsService(p)
          /\ \A l \in Node : fut[l] # "live"
      BY <1>20, <2>1, <2>3, Returns, Kinds
    <3>2. PICK v \in Seq(Node) : Reached(p, v, e) /\ ans = Result(Passed(p, cur, v, e), e[cur])
      BY <1>20, <2>1, <2>3
    <3>3. ans = Result(Apply(p, v), e[cur])
      BY <3>1, <3>2 DEF Passed
    <3>4. e[p] = Around(p, e[cur])
      BY <1>1, <1>3, <2>1, <3>1, EffectIs DEF EffectAt
    <3>5. PICK x \in Outcome : x = e[cur]
      BY <1>5, <3>1
    <3>6. PICK a : a = ans
      OBVIOUS
    <3>7. Result(v, Around(p, x)) =
             IF (Is(p, {"map"}) /\ a.tag = "ok") \/ (Is(p, {"map_err"}) /\ a.tag = "err")
             THEN Answer(a.tag, Append(a.val, p)) ELSE a
      BY <3>3, <3>5, <3>6, ResultAround
    <3>8. ans' = Result(v, e[p])
      <4>1. (MapOk(p) \/ MapErr(p) \/ MapInitErr(p)) <=>
               (Is(p, {"map"}) /\ a.tag = "ok") \/ (Is(p, {"map_err"}) /\ a.tag = "err")
        BY <2>1, <3>6 DEF MapOk, MapErr, MapInitErr
      <4>2. Mapped(p) = Answer(a.tag, Append(a.val, p))
        BY <3>6 DEF Mapped
      <4>3. QED
        BY <2>1, <3>4, <3>5, <3>6, <3>7, <4>1, <4>2
    <3>9. QED
      BY <1>21, <2>1, <3>1, <3>2, <3>8
  <2>4. QED
    BY <2>1, <2>2, <2>3 DEF Up, Returned
<1>23. ASSUME NEW p \in Node, Is(p, Pair), NEW goes, PairCall(p, goes),
              goes = IF Is(p, {"then"}) THEN {"ok", "err"} ELSE {"ok"}
       PROVE  Goal
  <2>1. /\ Up(p) /\ mode = "call" /\ job = "call" /\ cur # 0 /\ UNCHANGED <<fut, arg, got>>
    BY <1>1, <1>23 DEF PairCall, Up, user
  <2>2. CASE ans.tag = "pending"
    <3>1. ans' = ans
      BY <1>23, <2>2 DEF PairCall, Give
    <3>2. QED
      BY <1>8, <2>1, <2>2, <3>1
  <2>3. CASE ans.tag \in {"ok", "err"}
    <3>1. /\ cur \in {First(p), Second(p)} /\ Combinator(p) /\ cur \in Node
          /\ cur = Second(p) => Goes(p, e[First(p)])
          /\ \A l \in Node : fut[l] # "live"
          /\ First(p) \in Node /\ Second(p) \in Node /\ First(p) # Second(p)
          /\ ~IsService(p) /\ ~Is(p, Wrapper) /\ Is(p, Pair)
      BY <1>1, <1>20, <1>23, <2>1, <2>3, Operands, Returns, Kinds
    <3>2. PICK v \in Seq(Node) : Reached(p, v, e) /\ ans = Result(Passed(p, cur, v, e), e[cur])
      BY <1>20, <2>1, <2>3
    <3>3. PICK a \in Outcome, b \in Outcome : a = e[First(p)] /\ b = e[Second(p)]
      BY <1>5, <3>1
    <3>4. e[p] = InTurn(p, a, b)
      BY <1>1, <1>3, <3>1, <3>3, EffectIs DEF EffectAt
    <3>5. cur = First(p) => ans = Result(v, a)
      <4>1. ~Is(p, {"apply_fn"})
        BY <1>23 DEF Is, Pair
      <4>2. QED
        BY <3>1, <3>2, <3>3, <4>1 DEF Passed, Apply
    <3>6. cur = First(p) => (ans.tag \in goes <=> Goes(p, a))
      BY <1>1, <1>23, <3>5 DEF Goes, Result
    <3>7. CASE cur = First(p) /\ ans.tag \in goes
      <4>1. cur' = Second(p) /\ ans' = Req(ans.val)
        BY <1>23, <3>7 DEF PairCall, Give
      <4>2. ans.val = Passed(p, Second(p), v, e)
        BY <3>1, <3>3, <3>5, <3>7 DEF Result, Answer, Passed
      <4>3. Goes(p, e[First(p)])
        BY <3>3, <3>6, <3>7
      <4>4. PICK w : w = ans.val
        OBVIOUS
      <4>5. Reached(Second(p), w, e)
        BY <1>1, <1>5, <3>1, <3>2, <4>2, <4>3, <4>4, ReachedDown
      <4>6. Reached(Second(p), w, f)
        BY <1>7, <2>1, <3>1, <4>5
      <4>7. QED
        BY <1>1, <1>4, <2>1, <3>1, <4>1, <4>4, <4>6 DEF Carrying
    <3>8. CASE cur = First(p) /\ ans.tag \notin goes
      <4>1. cur' = p /\ ans' = ans
        BY <1>23, <3>8 DEF PairCall, Give
      <4>2. e[p] = a
        BY <3>4, <3>6, <3>8 DEF InTurn
      <4>3. QED
        BY <1>21, <2>1, <3>1, <3>2, <3>5, <3>8, <4>1, <4>2
    <3>9. CASE cur = Second(p)
      <4>1. cur' = p /\ ans' = ans
        BY <1>23, <3>1, <3>9 DEF PairCall, Give
      <4>2. e[p] = [ok |-> b.ok, val |-> a.val \o b.val]
        BY <3>1, <3>3, <3>4, <3>9 DEF InTurn
      <4>3. ans = Result(v \o a.val, b)
        BY <3>1, <3>2, <3>3, <3>9 DEF Passed
      <4>4. (v \o a.val) \o b.val = v \o (a.val \o b.val)
        BY <3>3, ConcatNodes DEF Outcome
      <4>5. ans = Result(v, e[p])
        BY <4>2, <4>3, <4>4 DEF Result
      <4>6. QED
        BY <1>21, <2>1, <3>1, <3>2, <4>1, <4>5
    <3>10. QED
      BY <3>1, <3>7, <3>8, <3>9
  <2>4. QED
    BY <2>1, <2>2, <2>3 DEF Up, Returned
<1>24. ASSUME NEW p \in Node, NewTransform(p) \/ ConfigFactory(p) \/ ConfigReady(p) \/ PairCreate(p) \/ PairReady(p)
       PROVE  Goal
  <2>1. job = "call" /\ mode # "call" /\ cur # 0
    BY <1>1, <1>24 DEF NewTransform, ConfigFactory, ConfigReady, PairCreate, PairReady, Up
  <2>2. QED
    BY <1>1, <2>1
<1>25. ASSUME NEW p \in Node, AndThenCall(p) \/ ThenCall(p) PROVE Goal
  <2>1. /\ Is(p, Pair)
        /\ Is(p, {"then"}) => PairCall(p, {"ok", "err"})
        /\ ~Is(p, {"then"}) => PairCall(p, {"ok"})
    BY <1>25, Kinds DEF AndThenCall, ThenCall, Is
  <2>2. QED
    BY <1>23, <2>1
<1>26. QED
  BY <1>9, <1>10, <1>11, <1>12, <1>13, <1>14, <1>15, <1>16, <1>17, <1>18, <1>19, <1>22, <1>24, <1>25
  DEF Next, Walk, AndThenReady, AndThenCreate, ThenReady, ThenCreate

-----------------------------------------------------------------------------
(* What is made, and the errors on their way up.                            *)

(* Which nodes map an error of l's while a service is made, by the states   *)
(* s: asked by a walk below apply_cfg, or not.                              *)
Asking(l, s) == {m \in Above(l) : Waits(m, s)}
InitMappersIn(l, s) ==
    LET inner == IF Asking(l, s) = {} THEN l ELSE Min(Asking(l, s))
    IN  {m \in Above(inner) : Is(m, {"map_init_err"})} \cup
        IF Asking(l, s) = {} THEN {m \in {l} : Is(m, {"transform_err"})}
        ELSE {inner} \cup {m \in Above(l) : m < inner /\ Is(m, {"map_err"})}

(* The nodes of S that fail, and S without one that has not given its part. *)
Bad(g) == {n \in Node : g[n] = "err"}
Gotten(S, g) == \A n \in S : n \in Required => g[n] = "ok"

(* The error a walk has come up to c with.                                  *)
AskedError(l, c, v) ==
    /\ IsService(l) /\ \A k \in Above(l) : k \in Within(c) => ~IsService(k)
    /\ ErrorOf(l, v, ReadyMappers(l) \cap Within(c))
MadeError(l, c, v, s) == ErrorOf(l, v, InitMappersIn(l, s) \cap Within(c))

(* One user's answer at most was an error; if so it is what goes up.        *)
Failing(c, a, m, s, g) ==
    IF a.tag = "err"
    THEN \E l \in Within(c) : /\ Bad(g) = {l}
                              /\ IF m = "ready" THEN AskedError(l, c, a.val) ELSE MadeError(l, c, a.val, s)
    ELSE Bad(g) = {}

(* What is made has all its parts.                                          *)
Giving(c, tag, m, s, h, g) ==
    /\ tag # "err" => \A p, d \in Node : Made(p, d, s, h) => Gotten(Within(d), g)
    /\ m = "create" /\ tag = "ok" => Gotten(Within(c), g)

(* The above, of creations and readiness checks.                            *)
FailInv ==
    /\ job = "start" => \A n \in Node : got[n] = "none"
    /\ job = "create" => arg = Config
    /\ job \in {"create", "ready"} => Failing(cur, ans, mode, st, got)
    /\ job = "create" => Giving(cur, ans.tag, mode, st, have, got)

(* One more mapper, above all there were.                                   *)
LEMMA ErrorGrows ==
    ASSUME tree \in Trees, NEW l, NEW v \in Seq(Node), NEW S, NEW p \in Node, ErrorOf(l, v, S),
           \A k \in S : k < p
    PROVE  ErrorOf(l, Append(v, p), S \cup {p})
<1>1. PICK w : w = Append(v, p)
  OBVIOUS
<1>2. /\ Len(v) \in Nat /\ Len(v) # 0
  BY DEF ErrorOf
<1>3. /\ w \in Seq(Node) /\ Len(w) = Len(v) + 1 /\ w # <<>>
      /\ \A i \in 1 .. Len(v) : w[i] = v[i]
      /\ w[Len(v) + 1] = p
  BY <1>1, AppendProperties
<1>4. w[1] = l
  BY <1>2, <1>3 DEF ErrorOf
<1>5. {w[i] : i \in 2 .. Len(w)} = S \cup {p}
  <2>1. \A i \in 2 .. Len(w) : w[i] \in S \cup {p}
    BY <1>2, <1>3 DEF ErrorOf
  <2>2. \A x \in S : \E i \in 2 .. Len(w) : w[i] = x
    <3>1. \A x \in S : \E i \in 2 .. Len(v) : v[i] = x
      BY DEF ErrorOf
    <3>2. QED
      BY <1>2, <1>3, <3>1
  <2>3. \E i \in 2 .. Len(w) : w[i] = p
    BY <1>2, <1>3
  <2>4. QED
    BY <2>1, <2>2, <2>3
<1>6. \A i, j \in 2 .. Len(w) : i < j => w[i] < w[j]
  <2>1. \A i \in 2 .. Len(v) : v[i] < p
    BY DEF ErrorOf
  <2>2. \A i, j \in 2 .. Len(v) : i < j => v[i] < v[j]
    BY DEF ErrorOf
  <2>3. QED
    BY <1>2, <1>3, <2>1, <2>2
<1>7. QED
  BY <1>1, <1>3, <1>4, <1>5, <1>6 DEF ErrorOf

(* A user's own error, and TransformMapInitErr's.                           *)
LEMMA ErrorBegins ==
    ASSUME NEW n \in Node
    PROVE  ErrorOf(n, <<n>>, {}) /\ ErrorOf(n, <<n, n>>, {n})
<1>1. ErrorOf(n, <<n>>, {})
  BY DEF ErrorOf
<1>2. ErrorOf(n, <<n, n>>, {n})
  <2>1. PICK v : v = <<n, n>>
    OBVIOUS
  <2>2. v # <<>> /\ v[1] = n /\ v[2] = n /\ Len(v) = 2
    BY <2>1
  <2>3. 2 .. Len(v) = {2}
    BY <2>2
  <2>4. QED
    BY <2>1, <2>2, <2>3 DEF ErrorOf
<1>3. QED
  BY <1>1, <1>2

(* The path from l up to p is that up to p's operand and p.                 *)
LEMMA PathGrows ==
    ASSUME tree \in Trees, NEW p \in Node, Combinator(p), NEW c \in {First(p), Second(p)},
           NEW l \in Within(c)
    PROVE  /\ c \in Node /\ l \in Node /\ l \in Within(p) /\ p \in Above(l) /\ p # l
           /\ Above(l) \cap Within(p) = (Above(l) \cap Within(c)) \cup {p}
           /\ \A k \in Above(l) : k \in Within(c) <=> k < p
           /\ \A k \in Within(c) : k < p
<1>1. /\ c \in Node /\ Within(c) \subseteq Within(p) /\ p \notin Within(c) /\ Above(c) = {p} \cup Above(p)
      /\ p \in Above(c)
  BY Operands, AboveOperands DEF Combinator
<1>2. l \in Node /\ l \in Within(p) /\ l # p
  BY <1>1, TreeOrder
<1>3. p \in Above(l)
  BY <1>2, TreeOrder
<1>4. ASSUME NEW m \in Above(l) PROVE m \in Within(c) \/ m \in {p} \cup Above(p)
  <2>1. m \in Node /\ l \in Within(m)
    BY <1>2, TreeOrder
  <2>2. m \in Within(c) \/ c \in Within(m)
    BY <1>1, <2>1, TreeOrder
  <2>3. QED
    BY <1>1, <2>1, <2>2, TreeOrder
<1>5. \A m \in Above(p) : m \notin Within(p) /\ m \notin Within(c)
  BY <1>1, TreeOrder
<1>6. Above(l) \cap Within(p) = (Above(l) \cap Within(c)) \cup {p}
  BY <1>1, <1>3, <1>4, <1>5, TreeOrder
<1>7. \A k \in Within(c) : k < p
  BY <1>1, TreeOrder, Bounds
<1>8. \A k \in {p} \cup Above(p) : ~(k < p)
  BY TreeOrder, Bounds
<1>9. QED
  BY <1>1, <1>2, <1>3, <1>4, <1>6, <1>7, <1>8

(* The walk has come to nothing that is asked.                              *)
LEMMA NoneAsked ==
    ASSUME tree \in Trees, NEW c \in Node, NEW s, NEW h,
           \A p, d \in Node : Made(p, d, s, h) => c \notin Within(d)
    PROVE  \A k \in Above(c) : ~Waits(k, s)
<1> SUFFICES ASSUME NEW k \in Above(c), Waits(k, s) PROVE FALSE
  OBVIOUS
<1>1. k \in Node /\ c \in Within(k) /\ c # k
  BY TreeOrder
<1>2. Combinator(k) /\ First(k) \in Node /\ First(k) = Second(k) /\ c \in Within(First(k))
  <2>1. Combinator(k) /\ Is(k, Wrapper)
    BY Kinds DEF Waits, Combinator
  <2>2. QED
    BY <1>1, <2>1, Operands DEF Combinator
<1>3. Made(k, First(k), s, h)
  BY <1>2 DEF Made, Waits
<1>4. QED
  BY <1>1, <1>2, <1>3

(* Which of those that ask is nearest.                                      *)
LEMMA LeastAsking ==
    ASSUME tree \in Trees, NEW l \in Node, NEW s, Asking(l, s) # {}
    PROVE  Min(Asking(l, s)) \in Asking(l, s) /\ \A k \in Asking(l, s) : Min(Asking(l, s)) <= k
<1>1. Asking(l, s) \subseteq Nat
  BY TreeOrder, TermShape DEF Asking
<1>2. \E m \in Asking(l, s) : \A n \in Asking(l, s) : m <= n
  <2> HIDE DEF Asking
  <2>1. QED
    BY <1>1, LeastElement
<1>3. QED
  BY <1>2 DEF Min

(* A creation's error at the node it comes from.                            *)
LEMMA MappersHere ==
    ASSUME tree \in Trees, NEW n \in Node, NEW s, \A k \in Above(n) : ~Waits(k, s)
    PROVE  InitMappersIn(n, s) \cap Within(n) = {k \in {n} : Is(k, {"transform_err"})}
<1>1. Asking(n, s) = {}
  BY DEF Asking
<1>2. \A k \in Above(n) : k \notin Within(n)
  BY TreeOrder
<1>3. n \in Within(n)
  BY TreeOrder
<1>4. QED
  BY <1>1, <1>2, <1>3 DEF InitMappersIn

(* On its way up, past p.                                                   *)
LEMMA MappersUp ==
    ASSUME tree \in Trees, NEW p \in Node, Combinator(p), NEW c \in {First(p), Second(p)},
           NEW l \in Within(c), NEW s, \A k \in Above(c) : ~Waits(k, s)
    PROVE  InitMappersIn(l, s) \cap Within(p) =
               (InitMappersIn(l, s) \cap Within(c)) \cup {k \in {p} : Is(k, {"map_init_err"})}
<1>1. /\ c \in Node /\ l \in Node /\ l \in Within(p) /\ p \in Above(l) /\ p # l
      /\ Above(l) \cap Within(p) = (Above(l) \cap Within(c)) \cup {p}
      /\ p \notin Within(c) /\ Within(c) \subseteq Within(p) /\ p \in Above(c)
  <2>1. /\ c \in Node /\ l \in Node /\ l \in Within(p) /\ p \in Above(l) /\ p # l
        /\ Above(l) \cap Within(p) = (Above(l) \cap Within(c)) \cup {p}
    BY PathGrows
  <2>2. p \notin Within(c) /\ Within(c) \subseteq Within(p) /\ p \in Above(c)
    BY Operands DEF Combinator
  <2>3. QED
    BY <2>1, <2>2
<1>2. CASE Asking(l, s) = {}
  <2>1. InitMappersIn(l, s) = {m \in Above(l) : Is(m, {"map_init_err"})} \cup {m \in {l} : Is(m, {"transform_err"})}
    BY <1>2 DEF InitMappersIn
  <2>2. QED
    BY <1>1, <2>1
<1>3. CASE Asking(l, s) # {}
  <2>1. PICK i : i = Min(Asking(l, s))
    OBVIOUS
  <2>2. i \in Above(l) /\ Waits(i, s) /\ i \in Node
    BY <1>1, <1>3, <2>1, LeastAsking, TreeOrder DEF Asking
  <2>3. i \in Within(c)
    <3>1. i \notin Above(c)
      BY <2>2
    <3>2. l \in Within(i) /\ l \in Within(c)
      BY <1>1, <2>2, TreeOrder
    <3>3. i \in Within(c) \/ c \in Within(i)
      BY <1>1, <2>2, <3>2, TreeOrder
    <3>4. QED
      BY <1>1, <2>2, <3>1, <3>3, TreeOrder
  <2>4. InitMappersIn(l, s) = {m \in Above(i) : Is(m, {"map_init_err"})} \cup {i} \cup
                              {m \in Above(l) : m < i /\ Is(m, {"map_err"})}
    BY <1>3, <2>1 DEF InitMappersIn
  <2>5. p \in Above(i) /\ Above(i) \cap Within(p) = (Above(i) \cap Within(c)) \cup {p} /\ i < p
    BY <2>3, PathGrows
  <2>6. p # i /\ ~(p < i)
    BY <1>1, <2>2, <2>5, Bounds
  <2>7. QED
    BY <1>1, <2>3, <2>4, <2>5, <2>6
<1>4. QED
  BY <1>2, <1>3

(* From the walk that asked below p for readiness.                          *)
LEMMA MappersAsked ==
    ASSUME tree \in Trees, NEW p \in Node, NEW s, Waits(p, s), NEW c \in {First(p), Second(p)},
           NEW l \in Within(c), \A k \in Above(l) : k \in Within(c) => ~IsService(k)
    PROVE  InitMappersIn(l, s) \cap Within(p) = (ReadyMappers(l) \cap Within(c)) \cup {p}
<1>1. Combinator(p) /\ IsService(p)
  BY Kinds DEF Waits, Combinator
<1>2. /\ c \in Node /\ l \in Node /\ p \in Above(l) /\ p # l
      /\ Above(l) \cap Within(p) = (Above(l) \cap Within(c)) \cup {p}
      /\ \A k \in Above(l) : k \in Within(c) <=> k < p
  BY <1>1, PathGrows
<1>3. p \in Asking(l, s)
  BY <1>2 DEF Asking
<1>4. PICK i : i = Min(Asking(l, s))
  OBVIOUS
<1>5. i \in Above(l) /\ Waits(i, s) /\ i \in Node /\ i <= p
  BY <1>2, <1>3, <1>4, LeastAsking, TreeOrder DEF Asking
<1>6. i = p
  <2>1. IsService(i)
    BY <1>5, Kinds DEF Waits
  <2>2. ~(i < p)
    BY <1>2, <1>5, <2>1
  <2>3. QED
    BY <1>5, <2>2, Bounds
<1>7. InitMappersIn(l, s) = {m \in Above(p) : Is(m, {"map_init_err"})} \cup {p} \cup
                            {m \in Above(l) : m < p /\ Is(m, {"map_err"})}
  BY <1>3, <1>4, <1>6 DEF InitMappersIn
<1>8. p \in Within(p) /\ \A k \in Above(p) : k \notin Within(p)
  BY TreeOrder
<1>9. Within(c) \subseteq Within(p)
  BY <1>1, Operands DEF Combinator
<1>10. QED
  BY <1>2, <1>7, <1>8, <1>9 DEF ReadyMappers

(* What FailInv says of the next state, over a tree that stays.             *)
LEMMA FailNext ==
    ASSUME tree' = tree,
           job' = "start" => \A n \in Node : got'[n] = "none",
           job' = "create" => arg' = Config,
           job' \in {"create", "ready"} => Failing(cur', ans', mode', st', got'),
           job' = "create" => Giving(cur', ans'.tag, mode', st', have', got')
    PROVE  FailInv'
<1>1. /\ Node' = Node
      /\ \A n : /\ Within(n)' = Within(n) /\ Above(n)' = Above(n) /\ IsService(n)' = IsService(n)
                /\ First(n)' = First(n) /\ Second(n)' = Second(n) /\ Is(n, Pair)' = Is(n, Pair)
                /\ Is(n, Leaf)' = Is(n, Leaf) /\ Is(n, Transforms)' = Is(n, Transforms)
                /\ Is(n, {"apply_cfg"})' = Is(n, {"apply_cfg"})
  BY SameTree
<1>2. /\ Within(cur)' = Within(cur') /\ Required' = Required /\ Config' = Config
      /\ \A l : ReadyMappers(l)' = ReadyMappers(l)
  BY DEF Within, Width, Required, Config, ReadyMappers, Above, Is, Node, Root, Parent, MapConfig, UnitConfig
<1>3. \A l : InitMappersIn(l, st)' = InitMappersIn(l, st')
  BY DEF InitMappersIn, Asking, Waits, Above, Is, Node, Width
<1>4. \A l : /\ AskedError(l, cur, ans.val)' <=> AskedError(l, cur', ans'.val)
             /\ MadeError(l, cur, ans.val, st)' <=> MadeError(l, cur', ans'.val, st')
  <2>1. /\ \A l : (ReadyMappers(l) \cap Within(cur))' = ReadyMappers(l) \cap Within(cur')
        /\ \A l : (InitMappersIn(l, st) \cap Within(cur))' = InitMappersIn(l, st') \cap Within(cur')
    BY <1>2, <1>3
  <2>2. \A l : MadeError(l, cur, ans.val, st)' <=> MadeError(l, cur', ans'.val, st')
    BY <2>1 DEF MadeError, ErrorOf
  <2>3. \A l : AskedError(l, cur, ans.val)' <=> AskedError(l, cur', ans'.val)
    BY <1>1, <1>2, <2>1 DEF AskedError, ErrorOf
  <2>4. QED
    BY <2>2, <2>3
<1>5. Failing(cur, ans, mode, st, got)' <=> Failing(cur', ans', mode', st', got')
  BY <1>1, <1>2, <1>4 DEF Failing, Bad
<1>6. /\ \A p, d : Made(p, d, st, have)' <=> Made(p, d, st', have')
      /\ \A d : Gotten(Within(d), got)' <=> Gotten(Within(d), got')
      /\ Gotten(Within(cur), got)' <=> Gotten(Within(cur'), got')
  BY <1>1, <1>2 DEF Made, Combinator, Gotten
<1>7. Giving(cur, ans.tag, mode, st, have, got)' <=> Giving(cur', ans'.tag, mode', st', have', got')
  BY <1>1, <1>6 DEF Giving
<1>8. QED
  BY <1>1, <1>2, <1>5, <1>7 DEF FailInv

(* An error goes up from c to p, which may map it.                          *)
LEMMA AskedUp ==
    ASSUME tree \in Trees, NEW p \in Node, Combinator(p), ~IsService(p), NEW c \in {First(p), Second(p)},
           NEW l \in Within(c), NEW v \in Seq(Node), AskedError(l, c, v)
    PROVE  l \in Within(p) /\ AskedError(l, p, IF Is(p, {"map_err"}) THEN Append(v, p) ELSE v)
<1>1. /\ c \in Node /\ l \in Node /\ l \in Within(p) /\ p \in Above(l) /\ p # l
      /\ Above(l) \cap Within(p) = (Above(l) \cap Within(c)) \cup {p}
      /\ \A k \in Within(c) : k < p
  BY PathGrows
<1>2. PICK S : S = ReadyMappers(l) \cap Within(c)
  OBVIOUS
<1>3. ReadyMappers(l) \cap Within(p) = S \cup {k \in {p} : Is(k, {"map_err"})}
  BY <1>1, <1>2 DEF ReadyMappers
<1>4. ErrorOf(l, v, S) /\ \A k \in S : k < p
  BY <1>1, <1>2 DEF AskedError
<1>5. IsService(l) /\ \A k \in Above(l) : k \in Within(p) => ~IsService(k)
  BY <1>1 DEF AskedError
<1>6. CASE Is(p, {"map_err"})
  <2>1. ErrorOf(l, Append(v, p), S \cup {p})
    BY <1>4, ErrorGrows
  <2>2. ReadyMappers(l) \cap Within(p) = S \cup {p}
    BY <1>3, <1>6
  <2>3. QED
    BY <1>1, <1>5, <1>6, <2>1, <2>2 DEF AskedError
<1>7. CASE ~Is(p, {"map_err"})
  <2>1. ReadyMappers(l) \cap Within(p) = S
    BY <1>3, <1>7
  <2>2. QED
    BY <1>1, <1>4, <1>5, <1>7, <2>1 DEF AskedError
<1>8. QED
  BY <1>6, <1>7

(* The same of an error of a creation.                                      *)
LEMMA MadeUp ==
    ASSUME tree \in Trees, NEW p \in Node, Combinator(p), NEW c \in {First(p), Second(p)},
           NEW l \in Within(c), NEW v \in Seq(Node), NEW s, MadeError(l, c, v, s),
           \A k \in Above(c) : ~Waits(k, s)
    PROVE  l \in Within(p) /\ MadeError(l, p, IF Is(p, {"map_init_err"}) THEN Append(v, p) ELSE v, s)
<1>1. l \in Within(p) /\ \A k \in Within(c) : k < p
  BY PathGrows
<1>2. PICK S : S = InitMappersIn(l, s) \cap Within(c)
  OBVIOUS
<1>3. InitMappersIn(l, s) \cap Within(p) = S \cup {k \in {p} : Is(k, {"map_init_err"})}
  BY <1>2, MappersUp
<1>4. ErrorOf(l, v, S) /\ \A k \in S : k < p
  BY <1>1, <1>2 DEF MadeError
<1>5. CASE Is(p, {"map_init_err"})
  <2>1. ErrorOf(l, Append(v, p), S \cup {p})
    BY <1>4, ErrorGrows
  <2>2. InitMappersIn(l, s) \cap Within(p) = S \cup {p}
    BY <1>3, <1>5
  <2>3. QED
    BY <1>1, <1>5, <2>1, <2>2 DEF MadeError
<1>6. CASE ~Is(p, {"map_init_err"})
  <2>1. InitMappersIn(l, s) \cap Within(p) = S
    BY <1>3, <1>6
  <2>2. QED
    BY <1>1, <1>4, <1>6, <2>1 DEF MadeError
<1>7. QED
  BY <1>5, <1>6

(* apply_cfg converts the error of the service it has made.                 *)
LEMMA AskedIsMade ==
    ASSUME tree \in Trees, NEW p \in Node, NEW s, Waits(p, s), NEW c \in {First(p), Second(p)},
           NEW l \in Within(c), NEW v \in Seq(Node), AskedError(l, c, v)
    PROVE  l \in Within(p) /\ MadeError(l, p, Append(v, p), s)
<1>1. Combinator(p)
  BY Kinds DEF Waits, Combinator
<1>2. l \in Within(p) /\ \A k \in Within(c) : k < p
  BY <1>1, PathGrows
<1>3. PICK S : S = ReadyMappers(l) \cap Within(c)
  OBVIOUS
<1>4. ErrorOf(l, v, S) /\ \A k \in S : k < p
  BY <1>2, <1>3 DEF AskedError
<1>5. ErrorOf(l, Append(v, p), S \cup {p})
  BY <1>4, ErrorGrows
<1>6. InitMappersIn(l, s) \cap Within(p) = S \cup {p}
  BY <1>3, MappersAsked DEF AskedError
<1>7. QED
  BY <1>2, <1>5, <1>6 DEF MadeError

(* A user answers.                                                          *)
LEMMA BadIs ==
    ASSUME NEW g \in [Node -> {"none", "ok", "err"}], NEW n \in Node, NEW tag \in {"ok", "err"}, Bad(g) = {}
    PROVE  Bad([g EXCEPT ![n] = tag]) = IF tag = "err" THEN {n} ELSE {}
BY DEF Bad

(* Every step keeps count of what has been made and takes an error, of      *)
(* which there is one, up through the mappers above.                        *)
LEMMA FailStep == ControlInv /\ Shallow /\ DataInv /\ MakeInv /\ FailInv /\ [Next]_vars => FailInv'
<1> SUFFICES ASSUME ControlInv, Shallow, DataInv, MakeInv, FailInv, [Next]_vars PROVE FailInv'
  OBVIOUS
<1> DEFINE Goal == /\ Failing(cur', ans', mode', st', got')
                   /\ job = "create" => Giving(cur', ans'.tag, mode', st', have', got')
<1>1. /\ tree \in Trees /\ tree' = tree /\ Root \in Node /\ 0 \notin Node /\ cur \in Node \cup {0}
      /\ st \in [Node -> {"A", "B", "C"}]
      /\ job \in {"start", "create", "made", "ready", "callable", "call", "end"}
      /\ cur # 0 => mode = job \/ (job = "create" /\ mode = "ready")
      /\ job \notin {"create", "ready", "call"} => cur = 0 /\ ~woken /\ regs = {}
      /\ job = "start" => have = {} /\ \A n \in Node : st[n] = "A"
      /\ cur = 0 => ans = None
      /\ ans.tag = "req" => job = "call"
      /\ got \in [Node -> {"none", "ok", "err"}] /\ ans \in Answers
  <2>1. got \in [Node -> {"none", "ok", "err"}] /\ ans \in Answers
    BY DEF DataInv, Answers
  <2>2. QED
    BY <2>1, TreeStays, TreeOrder, TermShape DEF ControlInv
<1>2. /\ None.tag = "none" /\ Pending.tag = "pending"
      /\ \A v : Ok(v).tag = "ok"
      /\ \A t, v : Answer(t, v).tag = t /\ Answer(t, v).val = v
      /\ \A p : Mapped(p).tag = ans.tag /\ Mapped(p).val = Append(ans.val, p)
  BY DEF None, Pending, Ok, Answer, Mapped
<1>3. /\ job \in {"create", "ready"} => Failing(cur, ans, mode, st, got)
      /\ job = "create" => /\ Giving(cur, ans.tag, mode, st, have, got)
                           /\ Place(cur, ans.tag, mode, st, fut, have)
                           /\ arg = Config
  BY DEF FailInv, MakeInv
<1>4. ASSUME job \in {"create", "ready"}, job' = job, arg' = arg, Goal PROVE FailInv'
  BY <1>1, <1>3, <1>4, FailNext
<1>5. ASSUME job' \notin {"start", "create", "ready"} PROVE FailInv'
  BY <1>1, <1>5, FailNext
(* Nothing is learnt.                                                       *)
<1>6. ASSUME job \in {"create", "ready"}, ans.tag # "err", ans'.tag # "err", UNCHANGED <<st, have, got>>,
             ans'.tag = "ok" => mode' # "create"
      PROVE  Goal
  BY <1>3, <1>6 DEF Failing, Giving
<1>7. CASE UNCHANGED vars
  <2>1. UNCHANGED <<job, mode, cur, ans, st, have, arg, got>>
    BY <1>7 DEF vars, walk, user
  <2>2. QED
    BY <1>1, <1>3, <2>1, FailNext DEF FailInv
<1>8. CASE NewService
  <2>1. /\ job = "start" /\ job' = "create" /\ arg' = Config /\ cur' = 0
        /\ ans'.tag = "none" /\ UNCHANGED <<st, have, got>>
    BY <1>1, <1>2, <1>8 DEF NewService
  <2>2. \A n \in Node : got[n] = "none"
    BY <2>1 DEF FailInv
  <2>3. Failing(cur', ans', mode', st', got')
    BY <2>1, <2>2 DEF Failing, Bad
  <2>4. \A p, d \in Node : ~Made(p, d, st, have)
    BY <1>1, <2>1 DEF Made
  <2>5. Giving(cur', ans'.tag, mode', st', have', got')
    BY <2>1, <2>4 DEF Giving
  <2>6. QED
    BY <1>1, <2>1, <2>3, <2>5, FailNext
<1>9. CASE Assemble \/ StartCall
  BY <1>5, <1>9 DEF Assemble, StartCall
<1>10. CASE StartReady
  <2>1. job' = "ready" /\ ans'.tag = "none" /\ got' = [n \in Node |-> "none"]
    BY <1>1, <1>2, <1>10 DEF StartReady, walk
  <2>2. Failing(cur', ans', mode', st', got')
    BY <2>1 DEF Failing, Bad
  <2>3. QED
    BY <1>1, <2>1, <2>2, FailNext
<1>11. CASE StartPoll
  <2>1. /\ job' = job /\ arg' = arg /\ ans.tag = "none" /\ ans'.tag = "none" /\ UNCHANGED <<st, have, got>>
    BY <1>1, <1>2, <1>11 DEF StartPoll, Poll
  <2>2. CASE job \in {"create", "ready"}
    BY <1>4, <1>6, <2>1, <2>2
  <2>3. CASE job = "start"
    BY <1>1, <1>11, <2>3 DEF StartPoll
  <2>4. QED
    BY <1>1, <1>5, <2>1, <2>2, <2>3
<1>12. CASE Return
  <2>1. job \in {"create", "ready", "call"} /\ ans'.tag = "none" /\ arg' = arg /\ UNCHANGED <<st, have, got>>
        /\ ans.tag \in {"pending", "ok", "err"}
    BY <1>1, <1>2, <1>12 DEF Return, Poll, Returned
  <2>2. CASE ans.tag = "pending"
    <3>1. job' = job
      BY <1>12, <2>2 DEF Return
    <3>2. QED
      BY <1>4, <1>5, <1>6, <2>1, <2>2, <3>1
  <2>3. CASE ans.tag # "pending"
    <3>1. job' \in {"made", "callable", "end"}
      BY <1>12, <2>1, <2>3 DEF Return
    <3>2. QED
      BY <1>5, <3>1
  <2>4. QED
    BY <2>2, <2>3
<1>13. CASE \E n \in Node : Wake(n)
  <2>1. /\ job' = job /\ arg' = arg /\ ans.tag = "none" /\ ans'.tag = "none" /\ UNCHANGED <<st, have, got>>
        /\ job \in {"create", "ready", "call"}
    BY <1>1, <1>2, <1>13 DEF Wake, walk
  <2>2. QED
    BY <1>4, <1>5, <1>6, <2>1
<1>14. ASSUME NEW n \in Node, Descend(n) PROVE FailInv'
  <2>1. /\ job' = job /\ arg' = arg /\ ans.tag = "none" /\ ans'.tag = "none" /\ UNCHANGED <<st, have, got>>
        /\ job \in {"create", "ready", "call"}
    BY <1>1, <1>2, <1>14, Descends
  <2>2. QED
    BY <1>4, <1>5, <1>6, <2>1
<1>15. ASSUME NEW n \in Node, CallOperand(n) \/ CallService(n) PROVE FailInv'
  <2>1. job' = "call"
    BY <1>1, <1>15 DEF CallOperand, CallService
  <2>2. QED
    BY <1>5, <2>1
<1>16. ASSUME NEW n \in Node, UserPending(n) PROVE FailInv'
  <2>1. /\ job' = job /\ arg' = arg /\ ans.tag = "none" /\ ans'.tag = "pending" /\ UNCHANGED <<st, have, got>>
        /\ job \in {"create", "ready", "call"}
    BY <1>1, <1>2, <1>16 DEF UserPending, Give
  <2>2. QED
    BY <1>4, <1>5, <1>6, <2>1
<1>17. ASSUME NEW n \in Node, NEW tag \in {"ok", "err"}, UserEnds(n, tag) PROVE FailInv'
  <2>1. /\ job' = job /\ arg' = arg /\ cur = n /\ cur # 0 /\ cur' = n /\ ans.tag = "none" /\ OwnTurn(n)
        /\ mode' = mode /\ st' = st /\ have' = have /\ got' = [got EXCEPT ![n] = tag] /\ ans'.tag = tag
    BY <1>1, <1>2, <1>17 DEF UserEnds, Give
  <2>2. CASE job = "call"
    BY <1>5, <2>1, <2>2
  <2>3. CASE job \in {"create", "ready"}
    <3>1. mode \in {"create", "ready"} /\ (mode = "create" => job = "create")
      BY <1>1, <2>1, <2>3
    <3>2. Bad(got) = {} /\ Bad(got') = IF tag = "err" THEN {n} ELSE {}
      <4>1. Bad(got) = {}
        BY <1>3, <2>1, <2>3 DEF Failing
      <4>2. QED
        BY <1>1, <2>1, <4>1, BadIs
    <3>3. n \in Within(n) /\ Above(n) \cap Within(n) = {}
      BY <1>1, TreeOrder
    <3>4. CASE tag = "err"
      <4>1. ans'.val = OwnErr(n)
        <5>1. ans'.val = Carried(n) \o OwnErr(n)
          BY <1>2, <1>17, <3>4 DEF UserEnds, Give
        <5>2. Carried(n) = <<>>
          BY <3>1 DEF Carried
        <5>3. PICK o \in Seq(Node) : o = OwnErr(n)
          <6>1. <<n>> \in Seq(Node) /\ <<n, n>> \in Seq(Node)
            OBVIOUS
          <6>2. QED
            BY <6>1 DEF OwnErr
        <5>4. <<>> \o o = o
          BY ConcatEmptySeq
        <5>5. QED
          BY <5>1, <5>2, <5>3, <5>4
      <4>2. ASSUME mode = "ready" PROVE AskedError(n, n, ans'.val)
        <5>1. IsService(n)
          BY <2>1, <4>2, Kinds DEF OwnTurn, Transforming, Configuring
        <5>2. ans'.val = <<n>>
          BY <4>1, <4>2 DEF OwnErr, Transforming
        <5>3. ReadyMappers(n) \cap Within(n) = {}
          BY <3>3 DEF ReadyMappers
        <5>4. QED
          BY <3>3, <5>1, <5>2, <5>3, ErrorBegins DEF AskedError
      <4>3. ASSUME mode = "create" PROVE MadeError(n, n, ans'.val, st)
        <5>1. \A p, d \in Node : Made(p, d, st, have) => n \notin Within(d)
          BY <1>3, <2>1, <3>1, <4>3 DEF Place
        <5>2. InitMappersIn(n, st) \cap Within(n) = {k \in {n} : Is(k, {"transform_err"})}
          BY <1>1, <5>1, NoneAsked, MappersHere
        <5>3. CASE Is(n, {"transform_err"})
          <6>1. ans'.val = <<n, n>>
            <7>1. Transforming(n)
              BY <2>1, <4>3, <5>3 DEF OwnTurn, Configuring, Transforming, Is, Leaf
            <7>2. QED
              BY <4>1, <5>3, <7>1 DEF OwnErr
          <6>2. InitMappersIn(n, st) \cap Within(n) = {n}
            BY <5>2, <5>3
          <6>3. QED
            BY <6>1, <6>2, ErrorBegins DEF MadeError
        <5>4. CASE ~Is(n, {"transform_err"})
          <6>1. ans'.val = <<n>>
            BY <4>1, <5>4 DEF OwnErr
          <6>2. InitMappersIn(n, st) \cap Within(n) = {}
            BY <5>2, <5>4
          <6>3. QED
            BY <6>1, <6>2, ErrorBegins DEF MadeError
        <5>5. QED
          BY <5>3, <5>4
      <4>4. Failing(cur', ans', mode', st', got')
        BY <2>1, <3>1, <3>2, <3>3, <3>4, <4>2, <4>3 DEF Failing
      <4>5. Giving(cur', ans'.tag, mode', st', have', got')
        BY <2>1, <3>4 DEF Giving
      <4>6. QED
        BY <1>4, <2>1, <2>3, <4>4, <4>5
    <3>5. CASE tag = "ok"
      <4>1. Failing(cur', ans', mode', st', got')
        BY <2>1, <3>2, <3>5 DEF Failing
      <4>2. ASSUME job = "create" PROVE Giving(cur', ans'.tag, mode', st', have', got')
        <5>1. \A p, d \in Node : Made(p, d, st, have) => Gotten(Within(d), got)
          BY <1>3, <2>1, <4>2 DEF Giving
        <5>2. \A S : S \subseteq Node /\ Gotten(S \ {n}, got) => Gotten(S, got')
          BY <1>1, <2>1, <3>5 DEF Gotten
        <5>3. \A p, d \in Node : Made(p, d, st, have) => Gotten(Within(d), got')
          <6>1. \A d \in Node : Within(d) \subseteq Node
            BY <1>1, TreeOrder
          <6>2. QED
            BY <5>1, <5>2, <6>1 DEF Gotten
        <5>4. ASSUME mode = "create" PROVE Gotten(Within(n), got')
          <6>1. CASE Is(n, Leaf)
            <7>1. Within(n) = {n}
              BY <1>1, <6>1, Operands
            <7>2. QED
              BY <5>2, <7>1 DEF Gotten
          <6>2. CASE ~Is(n, Leaf)
            <7>1. /\ Combinator(n) /\ Is(n, Wrapper)
                  /\ (Is(n, Transforms) /\ st[n] = "B") \/ (Is(n, {"apply_cfg"}) /\ st[n] = "C")
              BY <2>1, <5>4, <6>2, Kinds DEF OwnTurn, Transforming, Configuring, Combinator
            <7>2. First(n) \in Node /\ First(n) = Second(n) /\ Within(n) = {n} \cup Within(First(n))
              BY <1>1, <7>1, Operands DEF Combinator
            <7>3. Made(n, First(n), st, have)
              BY <7>1, <7>2 DEF Made
            <7>4. Gotten(Within(First(n)), got')
              BY <5>3, <7>2, <7>3
            <7>5. got'[n] = "ok"
              BY <1>1, <2>1, <3>5
            <7>6. QED
              BY <7>2, <7>4, <7>5 DEF Gotten
          <6>3. QED
            BY <6>1, <6>2
        <5>5. QED
          BY <2>1, <5>3, <5>4 DEF Giving
      <4>3. QED
        BY <1>4, <2>1, <2>3, <4>1, <4>2
    <3>6. QED
      BY <3>4, <3>5
  <2>4. QED
    BY <1>1, <2>1, <2>2, <2>3
(* An error goes up.                                                        *)
<1>18. ASSUME NEW p \in Node, Up(p), job \in {"create", "ready"}, ans.tag = "err", cur' = p, ans'.tag = "err",
              ans'.val = IF Is(p, IF mode = "ready" THEN {"map_err"} ELSE {"map_init_err"})
                         THEN Append(ans.val, p) ELSE ans.val,
              mode = "ready" => ~IsService(p),
              UNCHANGED <<mode, st, got>>
       PROVE  Goal
  <2>1. cur \in {First(p), Second(p)} /\ Combinator(p) /\ cur \in Node /\ cur # 0 /\ ans.val \in Seq(Node)
    BY <1>1, <1>18, Returns DEF Answers
  <2>2. PICK c, v : c = cur /\ v = ans.val
    OBVIOUS
  <2>3. PICK l \in Within(c) : /\ Bad(got) = {l}
                               /\ IF mode = "ready" THEN AskedError(l, c, v) ELSE MadeError(l, c, v, st)
    BY <1>3, <1>18, <2>2 DEF Failing
  <2>4. CASE mode = "ready"
    <3>1. l \in Within(p) /\ AskedError(l, p, IF Is(p, {"map_err"}) THEN Append(v, p) ELSE v)
      BY <1>1, <1>18, <2>1, <2>2, <2>3, <2>4, AskedUp
    <3>2. AskedError(l, p, ans'.val)
      BY <1>18, <2>2, <2>4, <3>1
    <3>3. QED
      BY <1>18, <2>3, <2>4, <3>1, <3>2 DEF Failing, Giving
  <2>5. CASE mode # "ready"
    <3>1. mode = "create" /\ job = "create"
      BY <1>1, <1>18, <2>1, <2>5
    <3>2. \A k \in Above(c) : ~Waits(k, st)
      <4>1. \A q, d \in Node : Made(q, d, st, have) => c \notin Within(d)
        BY <1>3, <2>1, <2>2, <3>1 DEF Place
      <4>2. QED
        BY <1>1, <2>1, <2>2, <4>1, NoneAsked
    <3>3. l \in Within(p) /\ MadeError(l, p, IF Is(p, {"map_init_err"}) THEN Append(v, p) ELSE v, st)
      BY <1>1, <2>1, <2>2, <2>3, <2>5, <3>2, MadeUp
    <3>4. MadeError(l, p, ans'.val, st)
      BY <1>18, <2>2, <2>5, <3>3
    <3>5. QED
      BY <1>18, <2>3, <2>5, <3>3, <3>4 DEF Failing, Giving
  <2>6. QED
    BY <2>4, <2>5
<1>19. ASSUME NEW p \in Node, Forward(p) PROVE FailInv'
  <2>1. /\ Up(p) /\ cur # 0 /\ Is(p, Wrapper) /\ cur' = p /\ job' = job /\ arg' = arg
        /\ (Is(p, Transforms) => mode # "create") /\ ~Is(p, {"apply_cfg"})
        /\ ans' = (IF MapOk(p) \/ MapErr(p) \/ MapInitErr(p) THEN Mapped(p) ELSE ans)
        /\ ans'.tag = ans.tag /\ ans.tag \in {"pending", "ok", "err"}
        /\ UNCHANGED <<mode, st, have, got>>
    BY <1>1, <1>2, <1>19 DEF Forward, Give, Up, user, Returned
  <2>2. CASE job \notin {"create", "ready"}
    BY <1>1, <1>5, <2>1, <2>2
  <2>3. CASE job \in {"create", "ready"} /\ ans.tag = "err"
    <3>1. mode \in {"create", "ready"} /\ ~IsService(p)
      BY <1>1, <2>1, <2>3, Kinds
    <3>2. (MapOk(p) \/ MapErr(p) \/ MapInitErr(p)) <=>
             Is(p, IF mode = "ready" THEN {"map_err"} ELSE {"map_init_err"})
      BY <2>3, <3>1 DEF MapOk, MapErr, MapInitErr
    <3>3. ans'.val = IF Is(p, IF mode = "ready" THEN {"map_err"} ELSE {"map_init_err"})
                     THEN Append(ans.val, p) ELSE ans.val
      BY <1>2, <2>1, <3>2
    <3>4. ans'.tag = "err"
      BY <2>1, <2>3
    <3>5. Goal
      BY <1>18, <2>1, <2>3, <3>1, <3>3, <3>4
    <3>6. QED
      BY <1>4, <2>1, <2>3, <3>5
  <2>4. CASE job \in {"create", "ready"} /\ ans.tag # "err"
    <3>1. Failing(cur', ans', mode', st', got')
      BY <1>3, <2>1, <2>4 DEF Failing
    <3>2. ASSUME job = "create" PROVE Giving(cur', ans'.tag, mode', st', have', got')
      <4>1. Giving(cur, ans.tag, mode, st, have, got)
        BY <1>3, <3>2
      <4>2. Within(p) = {p} \cup Within(cur)
        BY <2>1, Returns
      <4>3. mode = "create" => p \notin Required
        BY <2>1, Kinds DEF Required, Is
      <4>4. QED
        BY <2>1, <2>4, <4>1, <4>2, <4>3 DEF Giving, Gotten
    <3>3. QED
      BY <1>4, <2>1, <2>4, <3>1, <3>2
  <2>5. QED
    BY <2>2, <2>3, <2>4
<1>20. ASSUME NEW p \in Node, Up(p), job = "create", job' = job, arg' = arg, mode = "create", mode' = "create",
              cur' = p, ans' = ans, ans.tag = "err", UNCHANGED <<st, have, got>>, ~Is(p, {"map_init_err"})
       PROVE  FailInv'
  <2>1. ans'.val = IF Is(p, IF mode = "ready" THEN {"map_err"} ELSE {"map_init_err"})
                   THEN Append(ans.val, p) ELSE ans.val
    BY <1>20
  <2>2. Goal
    BY <1>18, <1>20, <2>1
  <2>3. QED
    BY <1>4, <1>20, <2>2
(* The service below a transform or apply_cfg is made.                      *)
<1>21. ASSUME NEW p \in Node, NewTransform(p) \/ ConfigFactory(p) PROVE FailInv'
  <2>1. /\ Up(p) /\ cur # 0 /\ mode = "create" /\ job = "create" /\ job' = job /\ arg' = arg /\ mode' = mode
        /\ (Is(p, Transforms) \/ Is(p, {"apply_cfg"})) /\ cur' = p /\ UNCHANGED <<have, got>>
        /\ ~Is(p, {"map_init_err"})
    BY <1>1, <1>21 DEF NewTransform, ConfigFactory, Up, Give, Loop, Poll, user, Is, Transforms
  <2>2. CASE ans.tag = "ok"
    <3>1. st' = [st EXCEPT ![p] = "B"] /\ ans'.tag = "none"
      BY <1>2, <1>21, <2>2 DEF NewTransform, ConfigFactory, Loop, Poll
    <3>2. Failing(cur', ans', mode', st', got')
      BY <1>3, <2>1, <2>2, <3>1 DEF Failing
    <3>3. ASSUME NEW q \in Node, NEW d \in Node, Made(q, d, st', have) PROVE Gotten(Within(d), got)
      <4>1. Giving(cur, "ok", "create", st, have, got)
        BY <1>3, <2>1, <2>2
      <4>2. CASE q = p
        <5>1. d = cur
          BY <2>1, <3>3, <4>2, Returns, Kinds DEF Made
        <5>2. QED
          BY <4>1, <5>1 DEF Giving
      <4>3. CASE q # p
        <5>1. Made(q, d, st, have)
          BY <1>1, <3>1, <3>3, <4>3 DEF Made
        <5>2. QED
          BY <4>1, <5>1 DEF Giving
      <4>4. QED
        BY <4>2, <4>3
    <3>4. PICK s : s = st'
      OBVIOUS
    <3>5. \A q, d \in Node : Made(q, d, s, have) => Gotten(Within(d), got)
      BY <3>3, <3>4
    <3>6. Giving(p, "none", "create", s, have, got)
      BY <3>5 DEF Giving
    <3>7. Giving(cur', ans'.tag, mode', st', have', got')
      BY <2>1, <3>1, <3>4, <3>6
    <3>8. QED
      BY <1>4, <2>1, <3>2, <3>7
  <2>3. CASE ans.tag # "ok"
    <3>1. ans' = ans /\ st' = st
      BY <1>21, <2>3 DEF NewTransform, ConfigFactory, Give
    <3>2. CASE ans.tag = "err"
      BY <1>20, <2>1, <3>1, <3>2
    <3>3. CASE ans.tag # "err"
      BY <1>4, <1>6, <2>1, <2>3, <3>1, <3>3
    <3>4. QED
      BY <3>2, <3>3
  <2>4. QED
    BY <2>2, <2>3
<1>22. ASSUME NEW p \in Node, ConfigReady(p) PROVE FailInv'
  <2>1. /\ Up(p) /\ cur # 0 /\ mode = "ready" /\ Is(p, {"apply_cfg"}) /\ mode' = "create" /\ job' = job
        /\ arg' = arg /\ cur' = p /\ UNCHANGED <<have, got>>
        /\ cur \in {First(p), Second(p)} /\ Combinator(p) /\ cur \in Node /\ IsService(p)
        /\ ans.tag \in {"pending", "ok", "err"}
    BY <1>22, Returns, Kinds DEF ConfigReady, Up, Give, Loop, Poll, Returned
  <2>2. job # "ready"
    BY <1>1, <2>1, Returns DEF Shallow
  <2>3. job = "create"
    BY <1>1, <2>1, <2>2
  <2>4. PICK c, t : c = cur /\ t = ans.tag
    OBVIOUS
  <2>5. Place(c, t, "ready", st, fut, have) /\ Giving(c, t, "ready", st, have, got) /\ Failing(c, ans, "ready", st, got)
    BY <1>3, <2>1, <2>3, <2>4
  <2>6. Waits(p, st)
    <3>1. PICK n \in Node : Host(n, c, st, have)
      BY <2>1, <2>4, <2>5 DEF Place
    <3>2. n = p
      BY <1>1, <2>1, <2>4, <3>1, HostIsHere
    <3>3. QED
      BY <3>1, <3>2 DEF Host
  <2>7. CASE t = "ok"
    <3>1. st' = [st EXCEPT ![p] = "C"] /\ ans'.tag = "none"
      BY <1>2, <1>22, <2>4, <2>7 DEF ConfigReady, Loop, Poll
    <3>2. Failing(cur', ans', mode', st', got')
      BY <2>1, <2>4, <2>5, <2>7, <3>1 DEF Failing
    <3>3. PICK s : s = st'
      OBVIOUS
    <3>4. ASSUME NEW q \in Node, NEW d \in Node, Made(q, d, s, have) PROVE Gotten(Within(d), got)
      <4>1. Made(q, d, st, have)
        <5>1. CASE q = p
          BY <2>1, <2>6, <3>4, <5>1, Kinds DEF Made, Waits
        <5>2. CASE q # p
          BY <1>1, <3>1, <3>3, <3>4, <5>2 DEF Made
        <5>3. QED
          BY <5>1, <5>2
      <4>2. QED
        BY <2>5, <2>7, <4>1 DEF Giving
    <3>5. Giving(p, "none", "create", s, have, got)
      BY <3>4 DEF Giving
    <3>6. Giving(cur', ans'.tag, mode', st', have', got')
      BY <2>1, <3>1, <3>3, <3>5
    <3>7. QED
      BY <1>4, <2>1, <2>3, <3>2, <3>6
  <2>8. CASE t = "pending"
    <3>1. ans' = ans /\ st' = st
      BY <1>22, <2>4, <2>8 DEF ConfigReady, Give
    <3>2. QED
      BY <1>4, <1>6, <2>1, <2>3, <2>4, <2>8, <3>1
  <2>9. CASE t = "err"
    <3>1. st' = st /\ ans'.tag = "err" /\ ans'.val = Append(ans.val, p)
      BY <1>2, <1>22, <2>4, <2>9 DEF ConfigReady, Give
    <3>2. PICK v \in Seq(Node) : v = ans.val
      BY <1>1 DEF Answers
    <3>3. PICK l \in Within(c) : Bad(got) = {l} /\ AskedError(l, c, v)
      BY <2>4, <2>5, <2>9, <3>2 DEF Failing
    <3>4. l \in Within(p) /\ MadeError(l, p, Append(v, p), st)
      BY <1>1, <2>1, <2>4, <2>6, <3>3, AskedIsMade
    <3>5. Failing(cur', ans', mode', st', got')
      BY <2>1, <3>1, <3>2, <3>3, <3>4 DEF Failing
    <3>6. Giving(cur', ans'.tag, mode', st', have', got')
      BY <3>1 DEF Giving
    <3>7. QED
      BY <1>4, <2>1, <2>3, <3>5, <3>6
  <2>10. QED
    BY <2>1, <2>4, <2>7, <2>8, <2>9
<1>23. ASSUME NEW p \in Node, Is(p, Pair), PairCreate(p) PROVE FailInv'
  <2>1. /\ Up(p) /\ cur # 0 /\ mode = "create" /\ job = "create" /\ job' = job /\ arg' = arg /\ mode' = mode
        /\ UNCHANGED <<st, got>>
        /\ cur \in {First(p), Second(p)} /\ Combinator(p) /\ cur \in Node
        /\ have' = (IF ans.tag = "ok" THEN have \cup {cur} ELSE have)
    BY <1>1, <1>23, Returns DEF PairCreate, Up, user
  <2>2. CASE ans.tag = "err"
    <3>1. cur' = p /\ ans' = ans /\ have' = have
      BY <1>23, <2>1, <2>2 DEF PairCreate, Give
    <3>2. ~Is(p, {"map_init_err"})
      BY <1>23 DEF Is, Pair
    <3>3. QED
      BY <1>20, <2>1, <2>2, <3>1, <3>2
  <2>3. CASE ans.tag # "err"
    <3>1. /\ ans'.tag \in {"none", "ok", "pending"}
          /\ ans'.tag = "ok" => cur' = p /\ {First(p), Second(p)} \subseteq have'
      BY <1>2, <1>23, <2>1, <2>3 DEF PairCreate, Give, Poll
    <3>2. Failing(cur', ans', mode', st', got')
      BY <1>3, <2>1, <2>3, <3>1 DEF Failing
    <3>3. PICK h : h = have'
      OBVIOUS
    <3>4. ASSUME NEW q \in Node, NEW d \in Node, Made(q, d, st, h) PROVE Gotten(Within(d), got)
      <4>1. Giving(cur, ans.tag, "create", st, have, got)
        BY <1>3, <2>1
      <4>2. CASE Made(q, d, st, have)
        BY <2>3, <4>1, <4>2 DEF Giving
      <4>3. CASE ~Made(q, d, st, have)
        <5>1. d = cur /\ ans.tag = "ok"
          BY <2>1, <3>3, <3>4, <4>3 DEF Made
        <5>2. QED
          BY <4>1, <5>1 DEF Giving
      <4>4. QED
        BY <4>2, <4>3
    <3>5. {First(p), Second(p)} \subseteq h => Gotten(Within(p), got)
      <4>1. First(p) \in Node /\ Second(p) \in Node /\ Within(p) = {p} \cup Within(First(p)) \cup Within(Second(p))
        BY <2>1, Returns
      <4>2. p \notin Required
        BY <1>23, Kinds DEF Required, Is, Leaf, Pair, Transforms
      <4>3. ASSUME {First(p), Second(p)} \subseteq h PROVE Made(p, First(p), st, h) /\ Made(p, Second(p), st, h)
        BY <1>23, <2>1, <4>3 DEF Made
      <4>4. QED
        BY <3>4, <4>1, <4>2, <4>3 DEF Gotten
    <3>6. PICK t : t = ans'.tag
      OBVIOUS
    <3>7. PICK c : c = cur'
      OBVIOUS
    <3>8. Giving(c, t, "create", st, h, got)
      BY <3>1, <3>3, <3>4, <3>5, <3>6, <3>7 DEF Giving
    <3>9. Giving(cur', ans'.tag, mode', st', have', got')
      BY <2>1, <3>3, <3>6, <3>7, <3>8
    <3>10. QED
      BY <1>4, <2>1, <3>2, <3>9
  <2>4. QED
    BY <2>2, <2>3
<1>24. ASSUME NEW p \in Node, Is(p, Pair), PairReady(p) PROVE FailInv'
  <2>1. /\ Up(p) /\ cur # 0 /\ mode = "ready" /\ mode' = mode /\ job \in {"create", "ready"} /\ job' = job /\ arg' = arg
        /\ UNCHANGED <<st, got, have>> /\ ~IsService(p)
    BY <1>1, <1>24, Kinds DEF PairReady, Up, user
  <2>2. CASE ans.tag = "err"
    <3>1. cur' = p /\ ans' = ans
      BY <1>24, <2>2 DEF PairReady, Give, AskSecond
    <3>2. ~Is(p, {"map_err"})
      BY <1>24 DEF Is, Pair
    <3>3. ans'.val = IF Is(p, IF mode = "ready" THEN {"map_err"} ELSE {"map_init_err"})
                     THEN Append(ans.val, p) ELSE ans.val
      BY <2>1, <3>1, <3>2
    <3>4. Goal
      BY <1>18, <2>1, <2>2, <3>1, <3>3
    <3>5. QED
      BY <1>4, <2>1, <3>4
  <2>3. CASE ans.tag # "err"
    <3>1. ans'.tag # "err"
      BY <1>2, <1>24, <2>3 DEF PairReady, Give, Poll
    <3>2. QED
      BY <1>4, <1>6, <2>1, <2>3, <3>1
  <2>4. QED
    BY <2>2, <2>3
<1>25. ASSUME NEW p \in Node, NEW goes, PairCall(p, goes) PROVE FailInv'
  <2>1. job' = "call"
    BY <1>1, <1>25 DEF PairCall, Up
  <2>2. QED
    BY <1>5, <2>1
<1>26. QED
  BY <1>7, <1>8, <1>9, <1>10, <1>11, <1>12, <1>13, <1>14, <1>15, <1>16, <1>17, <1>19, <1>21, <1>22, <1>23, <1>24,
     <1>25, Kinds
  DEF Next, Walk, AndThenCall, AndThenReady, AndThenCreate, ThenCall, ThenReady, ThenCreate

-----------------------------------------------------------------------------
(* The theorems.                                                            *)

(* The inductive invariant of the task.                                     *)
IInv ==
    /\ ControlInv /\ DataInv /\ Shallow
    /\ AskInv /\ ReadyInv /\ MakeInv /\ FailInv
    /\ CallInv /\ CarryInv

(* The invariant holds of a task that has not begun.                        *)
LEMMA TaskInit == Init => IInv
<1> SUFFICES ASSUME Init PROVE IInv
  OBVIOUS
<1>1. ControlInv
  BY ControlInit
<1>2. job = "start" /\ cur = 0
  BY DEF Init
<1>3. FailInv
  BY <1>2 DEF FailInv, Init
<1>4. QED
  BY <1>1, <1>2, <1>3, DataInit DEF IInv, Shallow, AskInv, ReadyInv, MakeInv, CallInv, CarryInv

(* Every step of the task keeps the invariant.                              *)
LEMMA TaskStep == IInv /\ [Next]_vars => IInv'
BY ControlStep, DataStep, ShallowStep, AskStep, ReadyStep, MakeStep, FailStep, CallStep, CarryStep DEF IInv

(* The invariant holds throughout, of every tree of services.               *)
THEOREM TaskInvariant == Spec => []IInv
BY TaskInit, TaskStep, PTL DEF Spec

(* Every variable keeps to its type.                                        *)
THEOREM TypeCorrect == Spec => []TypeOK
<1>1. IInv => TypeOK
  BY DEF IInv, ControlInv, DataInv, TypeOK
<1>2. QED
  BY <1>1, TaskInvariant, PTL

(* No combinator polls a user's future that has ended or that it has not    *)
(* begun, in creations and calls of services of any shape: PairFactory      *)
(* keeps what it has, AndThenServiceResponse moves on, ApplyTransform and   *)
(* ApplyConfig leave what they have made alone.                             *)
THEOREM UsersFuturesEndOnce == Spec => []NoPollAfterEnd
<1>1. IInv => NoPollAfterEnd
  <2> SUFFICES ASSUME IInv, NEW n \in Node, cur = n, ans = None, OwnTurn(n), mode # "ready"
               PROVE  fut[n] = "live"
    BY DEF NoPollAfterEnd
  <2>1. /\ tree \in Trees /\ cur # 0 /\ ans.tag = "none" /\ n \in Within(n)
        /\ mode = job /\ job \in {"create", "call"}
    <3>1. tree \in Trees /\ 0 \notin Node /\ ans.tag = "none" /\ n \in Within(n)
      BY TermShape, TreeOrder, Tags DEF IInv, ControlInv
    <3>2. QED
      BY <3>1 DEF IInv, ControlInv
  <2>2. CASE job = "create"
    <3>1. Turn(n, st)
      BY <2>1, <2>2 DEF OwnTurn, Transforming, Configuring, Turn
    <3>2. Place(n, "none", "create", st, fut, have)
      BY <2>1, <2>2 DEF IInv, MakeInv
    <3>3. ~Covered(n, n, "none", "create", st, have)
      BY <2>1, <3>2 DEF Place, Covered
    <3>4. ~Finished(n, st, fut, have)
      BY <3>2, <3>3 DEF Place
    <3>5. QED
      BY <3>1, <3>4 DEF Finished
  <2>3. CASE job = "call"
    <3>1. IsService(n)
      BY <2>1, <2>3, Kinds DEF OwnTurn, Transforming, Configuring
    <3>2. InCall(n, "none", st, fut, regs, woken)
      BY <2>1, <2>3 DEF IInv, CallInv
    <3>3. PICK l \in Node : fut[l] = "live"
      BY <3>2 DEF InCall
    <3>4. l \in Within(n) /\ OnPath(l, st) /\ IsService(l)
      BY <2>1, <3>2, <3>3 DEF InCall
    <3>5. l = n
      BY <2>1, <3>1, <3>4, LiveBelow
    <3>6. QED
      BY <3>3, <3>5
  <2>4. QED
    BY <2>1, <2>2, <2>3
<1>2. QED
  BY <1>1, TaskInvariant, PTL

(* A task of any composed service that sleeps has its waker with everything *)
(* that may make it go on: each live future of a creation or call, and each *)
(* service not yet ready.                                                   *)
THEOREM SleepingTaskIsWoken == Spec => []SleepsWithWakers
<1>1. IInv => SleepsWithWakers
  <2> SUFFICES ASSUME IInv, cur = 0, ~woken
               PROVE  /\ job = "ready" => Services(Root) \subseteq asked \cup regs
                      /\ job \in {"create", "call"} => \A n \in Node : fut[n] = "live" => n \in regs
                      /\ job = "create" => \A p \in Node : Is(p, {"apply_cfg"}) /\ st[p] = "B" =>
                            Services(Second(p)) \subseteq asked \cup regs
    BY DEF SleepsWithWakers
  <2>1. job = "ready" => Services(Root) \subseteq asked \cup regs
    BY DEF IInv, ReadyInv
  <2>2. job = "create" => Quiet(Node, st, fut, asked, regs)
    BY DEF IInv, MakeInv, LeftBehind
  <2>3. job = "call" => \A n \in Node : fut[n] = "live" => n \in regs
    BY DEF IInv, CallInv, InCall
  <2>4. QED
    BY <2>1, <2>2, <2>3 DEF Quiet, Waits
<1>2. QED
  BY <1>1, TaskInvariant, PTL

(* No service of a composed one is called unless it has answered that it is *)
(* ready since its last call, the one that apply_cfg has made included.     *)
THEOREM CalledWhenReadyHolds == Spec => []CalledWhenReady
<1>1. IInv => CalledWhenReady
  <2> SUFFICES ASSUME IInv PROVE CalledWhenReady
    OBVIOUS
  <2>1. ASSUME NEW n \in Node, ans.tag = "req", cur = n, IsService(n) PROVE n \in asked
    <3>1. /\ tree \in Trees /\ cur # 0 /\ job = "call" /\ n \in Within(Root)
      BY <2>1, TermShape, TreeOrder DEF IInv, ControlInv
    <3>2. InCall(n, "req", st, fut, regs, woken)
      BY <2>1, <3>1 DEF IInv, CallInv
    <3>3. OnPath(n, st)
      BY <2>1, <3>1, <3>2 DEF InCall
    <3>4. n \in Services(Root)
      BY <2>1, <3>1, <3>3 DEF Services, OnPath
    <3>5. QED
      BY <3>1, <3>4 DEF IInv, ReadyInv
  <2>2. job = "create" => \A p \in Node : Is(p, {"apply_cfg"}) /\ st[p] = "C" => Services(Second(p)) \subseteq asked
    BY DEF IInv, MakeInv, Parts
  <2>3. QED
    BY <2>1, <2>2 DEF CalledWhenReady
<1>2. QED
  BY <1>1, TaskInvariant, PTL

(* However its futures are cut into polls, a composed service answers what  *)
(* its parts answer, put together as its combinators say: configurations,   *)
(* requests, responses and errors have gone through the right mappers, each *)
(* once and in order; a service is made when all its parts are and the one  *)
(* error of a creation or a readiness check is its answer; and_then stops   *)
(* at an error and then goes on.  For every tree the constructors compose.  *)
THEOREM AnswersAreComposed == Spec => []AnswersAsComposed
<1>1. IInv => AnswersAsComposed
  <2> SUFFICES ASSUME IInv, cur = Root, ans.tag \in {"ok", "err"} PROVE AnswersAsComposed
    BY DEF AnswersAsComposed
  <2>1. /\ tree \in Trees /\ cur # 0 /\ Root \in Node /\ Above(Root) = {}
        /\ \A n \in Node : n \in Within(Root)
        /\ job \in {"create", "ready", "call"}
        /\ job = "ready" => mode = "ready"
        /\ job = "create" => mode \in {"create", "ready"}
    <3>1. tree \in Trees /\ 0 \notin Node /\ Root \in Node /\ Above(Root) = {} /\ \A n \in Node : n \in Within(Root)
      BY TermShape, TreeOrder DEF IInv, ControlInv
    <3>2. QED
      BY <3>1 DEF IInv, ControlInv
  <2>2. Failed = Bad(got)
    BY DEF Failed, Bad
  <2>3. \A S : S \subseteq Node => S \cap Within(Root) = S
    BY <2>1
  <2>4. CASE job = "create"
    <3>1. mode = "create"
      <4>1. ASSUME mode = "ready" PROVE FALSE
        <5>1. \E n \in Node : Host(n, Root, st, have)
          BY <2>1, <2>4, <4>1 DEF IInv, MakeInv, Place
        <5>2. QED
          BY <2>1, <5>1 DEF Host
      <4>2. QED
        BY <2>1, <2>4, <4>1
    <3>2. \A l \in Node : Is(l, Leaf) => Downwards(arg[l], ConfigMappers(l))
      BY <2>1, <2>4, ConfigIsConfigured DEF IInv, FailInv, Configured
    <3>3. ans.tag = "ok" => \A n \in Required : got[n] = "ok"
      <4>1. ans.tag = "ok" => Gotten(Within(Root), got)
        BY <2>4, <3>1 DEF IInv, FailInv, Giving
      <4>2. QED
        BY <2>1, <4>1 DEF Gotten, Required
    <3>4. ASSUME ans.tag = "err" PROVE \E l \in Failed : Failed = {l} /\ ErrorOf(l, ans.val, InitMappers(l))
      <4>1. PICK l \in Within(Root) : Bad(got) = {l} /\ MadeError(l, Root, ans.val, st)
        BY <2>4, <3>1, <3>4 DEF IInv, FailInv, Failing
      <4>2. l \in Node
        BY <2>1, <4>1, TreeOrder
      <4>3. InitMappersIn(l, st) = InitMappers(l)
        BY DEF InitMappersIn, InitMappers, Asking, Waits
      <4>4. InitMappersIn(l, st) \subseteq Node
        <5>1. CASE Asking(l, st) = {}
          BY <2>1, <4>2, <5>1, TreeOrder DEF InitMappersIn
        <5>2. CASE Asking(l, st) # {}
          <6>1. PICK i : i = Min(Asking(l, st))
            OBVIOUS
          <6>2. i \in Node
            BY <2>1, <4>2, <5>2, <6>1, LeastAsking, TreeOrder DEF Asking
          <6>3. QED
            BY <2>1, <4>2, <5>2, <6>1, <6>2, TreeOrder DEF InitMappersIn
        <5>3. QED
          BY <5>1, <5>2
      <4>5. QED
        BY <2>2, <2>3, <4>1, <4>3, <4>4 DEF MadeError
    <3>5. QED
      BY <2>4, <3>2, <3>3, <3>4 DEF AnswersAsComposed
  <2>5. CASE job = "ready"
    <3>1. ans.tag = "ok" => Services(Root) \subseteq asked
      BY <2>1, <2>5 DEF IInv, AskInv, Heard
    <3>2. ASSUME ans.tag = "err" PROVE \E l \in Failed : Failed = {l} /\ ErrorOf(l, ans.val, ReadyMappers(l))
      <4>1. PICK l \in Within(Root) : Bad(got) = {l} /\ AskedError(l, Root, ans.val)
        BY <2>1, <2>5, <3>2 DEF IInv, FailInv, Failing
      <4>2. ReadyMappers(l) \subseteq Node
        BY <2>1, <4>1, TreeOrder DEF ReadyMappers
      <4>3. QED
        BY <2>2, <2>3, <4>1, <4>2 DEF AskedError
    <3>3. QED
      BY <2>5, <3>1, <3>2 DEF AnswersAsComposed
  <2>6. CASE job = "call"
    <3>1. PICK v : Reached(Root, v, Effect) /\ ans = Result(v, Effect[Root])
      BY <2>6 DEF IInv, CarryInv, Carrying
    <3>2. v = <<>>
      BY <2>1, <3>1, ReachedRoot
    <3>3. PICK w \in Seq(Node) : w = Effect[Root].val
      BY <2>1, EffectType DEF Outcome
    <3>4. <<>> \o w = w
      BY ConcatEmptySeq
    <3>5. ans = Answer(IF Effect[Root].ok THEN "ok" ELSE "err", Effect[Root].val)
      BY <3>1, <3>2, <3>3, <3>4 DEF Result
    <3>6. QED
      BY <2>6, <3>5 DEF AnswersAsComposed
  <2>7. QED
    BY <2>1, <2>4, <2>5, <2>6
<1>2. QED
  BY <1>1, TaskInvariant, PTL
=============================================================================
