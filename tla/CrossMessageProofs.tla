------------------------- MODULE CrossMessageProofs -------------------------
(***************************************************************************)
(* Proofs about subnet identifiers and the direction of cross-net          *)
(* messages, for hierarchies of any depth.                                 *)
(***************************************************************************)
EXTENDS CrossMessage, SequenceTheorems, WellFoundedInduction, FiniteSetTheorems, TLAPS

\* The ancestor of a subnet at a depth.
Ancestor(s, k) == Subnet(s.root, SubSeq(s.children, 1, k))

\* n is the length of the common part of the paths of a and b.
IsCommon(a, b, n) ==
  /\ n \in 0..Len(a.children) /\ n <= Len(b.children)
  /\ \A i \in 1..n : a.children[i] = b.children[i]
  /\ n < Len(a.children) /\ n < Len(b.children) => a.children[n + 1] # b.children[n + 1]

\* The inductive invariant: a message that came up is in an ancestor of its
\* source, not above the common parent; one that came down is in an ancestor of
\* its destination, below the common parent.
Inv ==
  /\ from \in Subnets /\ to \in Subnets
  /\ came \in {"start", "up", "down"}
  /\ came = "start" => curr = from
  /\ came # "start" => from.root = to.root
  /\ came = "up" => \E k \in Common(from, to)..(Len(from.children) - 1) : curr = Ancestor(from, k)
  /\ came = "down" => \E k \in (Common(from, to) + 1)..Len(to.children) : curr = Ancestor(to, k)

-----------------------------------------------------------------------------
(* Paths. *)

\* Subnets have a root and a path of actors.
LEMMA SubnetType ==
  ASSUME NEW s \in Subnets
  PROVE  /\ s.children \in Seq(Actors) /\ Len(s.children) \in Nat
         /\ s = Subnet(s.root, s.children) /\ s = Ancestor(s, Len(s.children))
<1>1. PICK r \in Roots, p \in Paths : s = Subnet(r, p)
  BY DEF Subnets
<1>2. PICK n \in 0..MaxDepth : p \in [1..n -> Actors]
  BY DEF Paths
<1>3. p \in Seq(Actors)
  <2>1. n \in Nat
    BY HierarchyAssumption
  <2> QED
    BY <1>2, <2>1, SeqDef
<1>4. s.children = p /\ s.root = r
  BY <1>1 DEF Subnet
<1> QED
  BY <1>1, <1>3, <1>4, LenProperties, SubSeqFull DEF Ancestor

\* An ancestor has the beginning of the path.
LEMMA AncestorType ==
  ASSUME NEW s, s.children \in Seq(Actors), NEW k \in 0..Len(s.children)
  PROVE  /\ Ancestor(s, k).children \in Seq(Actors) /\ Len(Ancestor(s, k).children) = k
         /\ \A i \in 1..k : Ancestor(s, k).children[i] = s.children[i]
         /\ Ancestor(s, k).root = s.root
<1>1. Ancestor(s, k).children = SubSeq(s.children, 1, k) /\ Ancestor(s, k).root = s.root
  BY DEF Ancestor, Subnet
<1>2. \A i \in 1..k : s.children[i] \in Actors
  BY ElementOfSeq
<1>3. k \in Int /\ 1 \in Int
  OBVIOUS
<1>4. /\ SubSeq(s.children, 1, k) \in Seq(Actors)
      /\ Len(SubSeq(s.children, 1, k)) = IF 1 <= k THEN k - 1 + 1 ELSE 0
      /\ \A i \in 1..(k - 1 + 1) : SubSeq(s.children, 1, k)[i] = s.children[1 + i - 1]
  BY <1>2, <1>3, SubSeqProperties
<1> QED
  BY <1>1, <1>4

\* Equal roots, depths and paths are equal subnets.
LEMMA SameSubnet ==
  ASSUME NEW s, NEW t, s.children \in Seq(Actors), t.children \in Seq(Actors),
         s = Subnet(s.root, s.children), t = Subnet(t.root, t.children), s.root = t.root,
         Len(s.children) = Len(t.children),
         \A i \in 1..Len(s.children) : s.children[i] = t.children[i]
  PROVE  s = t
<1>1. s.children = t.children
  BY SeqEqual
<1> QED
  BY <1>1

\* Being an ancestor is transitive.
LEMMA AncestorOfAncestor ==
  ASSUME NEW s, s.children \in Seq(Actors), NEW k \in 0..Len(s.children), NEW m \in 0..k
  PROVE  Ancestor(Ancestor(s, k), m) = Ancestor(s, m)
<1> DEFINE a == Ancestor(s, k)
           b == Ancestor(a, m)
           c == Ancestor(s, m)
<1>1. /\ a.children \in Seq(Actors) /\ Len(a.children) = k /\ a.root = s.root
      /\ \A i \in 1..k : a.children[i] = s.children[i]
  BY AncestorType
<1>2. m \in 0..Len(s.children) /\ m \in 0..Len(a.children)
  BY <1>1, LenProperties
<1>3. b = Subnet(b.root, b.children) /\ c = Subnet(c.root, c.children)
  BY DEF Ancestor, Subnet
<1> HIDE DEF a
<1>4. /\ b.children \in Seq(Actors) /\ Len(b.children) = m /\ b.root = a.root
      /\ \A i \in 1..m : b.children[i] = a.children[i]
  BY <1>1, <1>2, AncestorType
<1>5. /\ c.children \in Seq(Actors) /\ Len(c.children) = m /\ c.root = s.root
      /\ \A i \in 1..m : c.children[i] = s.children[i]
  BY <1>2, AncestorType
<1> HIDE DEF b, c
<1>6. \A i \in 1..m : b.children[i] = c.children[i]
  BY <1>1, <1>4, <1>5
<1>7. b = c
  BY <1>1, <1>3, <1>4, <1>5, <1>6, SameSubnet
<1> QED
  BY <1>7 DEF a, b, c

\* A subnet is above another when its path is a prefix of the other's.
LEMMA AboveIsPrefix ==
  ASSUME NEW a, NEW b, a.children \in Seq(Actors), b.children \in Seq(Actors)
  PROVE  Above(a, b) <=> /\ a.root = b.root /\ Len(a.children) <= Len(b.children)
                         /\ \A i \in 1..Len(a.children) : a.children[i] = b.children[i]
<1> DEFINE s == a.children
           t == b.children
<1>1. Len(s) \in Nat /\ Len(t) \in Nat
  BY LenProperties
<1>2. SubSeq(s, 1, Len(s)) = s
  BY SubSeqFull
<1>3. ASSUME Len(s) <= Len(t)
      PROVE  /\ SubSeq(t, 1, Len(s)) \in Seq(Actors) /\ Len(SubSeq(t, 1, Len(s))) = Len(s)
             /\ \A i \in 1..Len(s) : SubSeq(t, 1, Len(s))[i] = t[i]
  <2>1. \A i \in 1..Len(s) : t[i] \in Actors
    BY <1>1, <1>3, ElementOfSeq
  <2> HIDE DEF s, t
  <2>2. Len(s) \in Int /\ 1 \in Int
    BY <1>1
  <2>3. /\ SubSeq(t, 1, Len(s)) \in Seq(Actors)
        /\ Len(SubSeq(t, 1, Len(s))) = IF 1 <= Len(s) THEN Len(s) - 1 + 1 ELSE 0
        /\ \A i \in 1..(Len(s) - 1 + 1) : SubSeq(t, 1, Len(s))[i] = t[1 + i - 1]
    BY <2>1, <2>2, SubSeqProperties
  <2> QED
    BY <1>1, <2>3
<1>4. Len(s) <= Len(t) =>
        (s = SubSeq(t, 1, Len(s)) <=> \A i \in 1..Len(s) : s[i] = t[i])
  BY <1>3, SeqEqual
<1> QED
  BY <1>2, <1>4 DEF Above, IsPrefix

-----------------------------------------------------------------------------
(* The common part of two paths. *)

\* A set of positions has a least one.
LEMMA LeastPosition ==
  ASSUME NEW T, T \subseteq Nat, T # {}
  PROVE  \E x \in T : \A y \in T : x <= y
<1> DEFINE Upto(x) == {y \in T : y <= x}
           F == {Upto(x) : x \in T}
<1>1. \A x \in T : IsFiniteSet(Upto(x)) /\ Upto(x) \in SUBSET Nat
  <2> SUFFICES ASSUME NEW x \in T PROVE IsFiniteSet(Upto(x)) /\ Upto(x) \in SUBSET Nat
    OBVIOUS
  <2>1. x \in Nat /\ Upto(x) \in SUBSET Nat /\ \A s \in Upto(x) : s <= x
    OBVIOUS
  <2> HIDE DEF Upto
  <2> QED
    BY <2>1, FS_BoundedSetOfNaturals
<1>2. F \subseteq FiniteSubsetsOf(Nat) /\ F # {}
  BY <1>1 DEF FiniteSubsetsOf
<1>3. PICK W \in F : \A V \in F : ~(<<V, W>> \in StrictSubsetOrdering(Nat))
  <2> HIDE DEF F
  <2> QED
    BY <1>2, FS_StrictSubsetOrderingWellFounded, WFMin
<1>4. PICK x \in T : W = Upto(x)
  OBVIOUS
<1>5. ASSUME NEW y \in T, y < x PROVE FALSE
  <2>1. x \in Nat /\ y \in Nat /\ \A z \in T : z \in Nat
    OBVIOUS
  <2>2. (\A z \in T : z <= y => z <= x) /\ x <= x /\ ~(x <= y)
    BY <1>5, <2>1
  <2>3. Upto(y) \subseteq Upto(x) /\ x \in Upto(x) /\ x \notin Upto(y)
    BY <2>2
  <2>4. Upto(y) \in F /\ Upto(x) \in SUBSET Nat /\ Upto(y) \in SUBSET Nat
    OBVIOUS
  <2> HIDE DEF Upto, F
  <2>5. <<Upto(y), Upto(x)>> \in StrictSubsetOrdering(Nat)
    BY <2>3, <2>4 DEF StrictSubsetOrdering
  <2> QED
    BY <1>3, <1>4, <2>4, <2>5
<1> QED
  BY <1>5

\* Two paths have a longest common part: up to the first position where they differ.
LEMMA CommonIs ==
  ASSUME NEW a, NEW b, a.children \in Seq(Actors), b.children \in Seq(Actors)
  PROVE  IsCommon(a, b, Common(a, b))
<1>1. Len(a.children) \in Nat /\ Len(b.children) \in Nat
  BY LenProperties
<1> DEFINE least == IF Len(a.children) <= Len(b.children) THEN Len(a.children) ELSE Len(b.children)
           differ == {i \in 1..least : a.children[i] # b.children[i]}
<1>2. \E n : IsCommon(a, b, n)
  <2>1. CASE differ = {}
    <3>1. IsCommon(a, b, least)
      BY <1>1, <2>1 DEF IsCommon
    <3> QED
      BY <3>1
  <2>2. CASE differ # {}
    <3>1. differ \subseteq Nat
      BY <1>1
    <3>2. PICK d \in differ : \A i \in differ : d <= i
      BY <2>2, <3>1, LeastPosition
    <3>3. d \in 1..least /\ a.children[d] # b.children[d]
      OBVIOUS
    <3>4. \A i \in 1..(d - 1) : a.children[i] = b.children[i]
      BY <1>1, <3>2, <3>3
    <3>5. IsCommon(a, b, d - 1)
      BY <1>1, <3>3, <3>4 DEF IsCommon
    <3> QED
      BY <3>5
  <2> QED
    BY <2>1, <2>2
<1> QED
  BY <1>2 DEF IsCommon, Common

\* There is only one such length.
LEMMA CommonIsUnique ==
  ASSUME NEW a, NEW b, a.children \in Seq(Actors), b.children \in Seq(Actors),
         NEW n, IsCommon(a, b, n)
  PROVE  Common(a, b) = n
<1>1. Len(a.children) \in Nat /\ Len(b.children) \in Nat
  BY LenProperties
<1>2. IsCommon(a, b, Common(a, b))
  BY CommonIs
<1>3. ASSUME NEW m, NEW k, IsCommon(a, b, m), IsCommon(a, b, k), m < k
      PROVE  FALSE
  <2>1. m + 1 \in 1..k /\ m < Len(a.children) /\ m < Len(b.children)
    BY <1>1, <1>3 DEF IsCommon
  <2> QED
    BY <1>3, <2>1 DEF IsCommon
<1>4. n \in Nat /\ Common(a, b) \in Nat
  BY <1>1, <1>2 DEF IsCommon
<1>5. ~(n < Common(a, b)) /\ ~(Common(a, b) < n)
  BY <1>2, <1>3
<1> QED
  BY <1>4, <1>5

\* The common part of a subnet, or of an ancestor that has all of it, with another.
LEMMA CommonOfAncestor ==
  ASSUME NEW a, NEW b, a.children \in Seq(Actors), b.children \in Seq(Actors),
         NEW k \in Common(a, b)..Len(a.children)
  PROVE  Common(Ancestor(a, k), b) = Common(a, b)
<1>1. IsCommon(a, b, Common(a, b))
  BY CommonIs
<1>2. Len(a.children) \in Nat /\ Len(b.children) \in Nat
  BY LenProperties
<1>3. k \in 0..Len(a.children) /\ Common(a, b) \in 0..k
  BY <1>1, <1>2 DEF IsCommon
<1>4. /\ Ancestor(a, k).children \in Seq(Actors) /\ Len(Ancestor(a, k).children) = k
      /\ \A i \in 1..k : Ancestor(a, k).children[i] = a.children[i]
  BY <1>3, AncestorType
<1>5. IsCommon(Ancestor(a, k), b, Common(a, b))
  BY <1>1, <1>2, <1>3, <1>4 DEF IsCommon
<1> QED
  BY <1>4, <1>5, CommonIsUnique

\* A subnet and its ancestor have the path of the ancestor in common.
LEMMA CommonWithAncestor ==
  ASSUME NEW a, a.children \in Seq(Actors), NEW k \in 0..Len(a.children)
  PROVE  Common(Ancestor(a, k), a) = k /\ Common(a, Ancestor(a, k)) = k
<1>1. /\ Ancestor(a, k).children \in Seq(Actors) /\ Len(Ancestor(a, k).children) = k
      /\ \A i \in 1..k : Ancestor(a, k).children[i] = a.children[i]
  BY AncestorType
<1>2. Len(a.children) \in Nat
  BY LenProperties
<1>3. IsCommon(Ancestor(a, k), a, k) /\ IsCommon(a, Ancestor(a, k), k)
  BY <1>1, <1>2 DEF IsCommon
<1> QED
  BY <1>1, <1>3, CommonIsUnique

\* A subnet that is above another is one of its ancestors.
LEMMA AboveIsAncestor ==
  ASSUME NEW s, NEW t, s.children \in Seq(Actors), t.children \in Seq(Actors),
         s = Subnet(s.root, s.children), Above(s, t)
  PROVE  Len(s.children) \in 0..Len(t.children) /\ s = Ancestor(t, Len(s.children))
<1> DEFINE k == Len(s.children)
           a == Ancestor(t, k)
<1>1. /\ s.root = t.root /\ k <= Len(t.children)
      /\ \A i \in 1..k : s.children[i] = t.children[i]
  BY AboveIsPrefix
<1>2. k \in 0..Len(t.children)
  BY <1>1, LenProperties
<1>3. /\ a.children \in Seq(Actors) /\ Len(a.children) = k /\ a.root = t.root
      /\ \A i \in 1..k : a.children[i] = t.children[i]
  BY <1>2, AncestorType
<1>4. a = Subnet(a.root, a.children)
  BY DEF Ancestor, Subnet
<1> HIDE DEF a
<1>5. s = a
  BY <1>1, <1>3, <1>4, SameSubnet
<1> QED
  BY <1>2, <1>5 DEF a

-----------------------------------------------------------------------------
(* The hops. *)

\* Where a message is that has to go up: in an ancestor of its source, below the
\* common parent.
LEMMA GoesUp ==
  ASSUME Inv, HopUp
  PROVE  \E k \in (Common(from, to) + 1)..Len(from.children) :
           curr = Ancestor(from, k) /\ curr' = Ancestor(from, k - 1)
<1>1. /\ from.children \in Seq(Actors) /\ Len(from.children) \in Nat /\ from.root = to.root
      /\ from = Ancestor(from, Len(from.children))
      /\ to.children \in Seq(Actors) /\ Len(to.children) \in Nat
  BY SubnetType DEF Inv, HopUp
<1>2. IsCommon(from, to, Common(from, to))
  BY <1>1, CommonIs
<1>3. came # "down"
  <2> SUFFICES ASSUME came = "down" PROVE FALSE
    OBVIOUS
  <2>1. PICK k \in (Common(from, to) + 1)..Len(to.children) : curr = Ancestor(to, k)
    BY DEF Inv
  <2>2. k \in 0..Len(to.children)
    BY <1>2, <1>1 DEF IsCommon
  <2>3. Above(curr, to)
    BY <1>1, <2>1, <2>2, AncestorType, AboveIsPrefix
  <2> QED
    BY <2>3 DEF HopUp
<1>4. PICK k \in Common(from, to)..Len(from.children) : curr = Ancestor(from, k)
  <2>1. CASE came = "start"
    BY <1>1, <1>2, <2>1 DEF Inv, IsCommon
  <2>2. CASE came = "up"
    BY <1>1, <1>2, <2>2 DEF Inv, IsCommon
  <2> QED
    BY <1>3, <2>1, <2>2 DEF Inv
<1>5. k \in 0..Len(from.children) /\ Common(from, to) \in Nat
  BY <1>1, <1>2 DEF IsCommon
<1>6. /\ curr.children \in Seq(Actors) /\ Len(curr.children) = k /\ curr.root = from.root
      /\ \A i \in 1..k : curr.children[i] = from.children[i]
  BY <1>1, <1>4, <1>5, AncestorType
<1>7. k # Common(from, to)
  <2> SUFFICES ASSUME k = Common(from, to) PROVE FALSE
    OBVIOUS
  <2>1. Above(curr, to)
    BY <1>1, <1>2, <1>6, AboveIsPrefix DEF IsCommon
  <2> QED
    BY <2>1 DEF HopUp
<1>8. k \in (Common(from, to) + 1)..Len(from.children) /\ k - 1 \in 0..k
  BY <1>5, <1>7
<1>9. curr' = Ancestor(curr, k - 1)
  BY <1>6 DEF HopUp, Ancestor
<1>10. curr' = Ancestor(from, k - 1)
  BY <1>1, <1>4, <1>5, <1>8, <1>9, AncestorOfAncestor
<1> QED
  BY <1>4, <1>8, <1>10

\* Where a message is that has to go down: in an ancestor of its destination, not
\* above the common parent.
LEMMA GoesDown ==
  ASSUME Inv, HopDown
  PROVE  /\ from.root = to.root
         /\ \E k \in Common(from, to)..(Len(to.children) - 1) :
              curr = Ancestor(to, k) /\ curr' = Ancestor(to, k + 1)
<1>1. /\ from.children \in Seq(Actors) /\ Len(from.children) \in Nat
      /\ from = Ancestor(from, Len(from.children)) /\ from = Subnet(from.root, from.children)
      /\ to.children \in Seq(Actors) /\ Len(to.children) \in Nat
      /\ to = Ancestor(to, Len(to.children))
  BY SubnetType DEF Inv
<1>2. IsCommon(from, to, Common(from, to))
  BY <1>1, CommonIs
<1>3. Common(from, to) \in Nat /\ Common(from, to) <= Len(from.children)
      /\ Common(from, to) <= Len(to.children)
  BY <1>1, <1>2 DEF IsCommon
<1>4. Above(curr, to) /\ curr # to
  BY DEF HopDown
<1>5. from.root = to.root
  BY <1>4 DEF Inv, Above
<1>6. \E n \in Nat : /\ Common(from, to) <= n
                     /\ \/ n <= Len(from.children) /\ curr = Ancestor(from, n)
                        \/ n <= Len(to.children) /\ curr = Ancestor(to, n)
  <2>1. CASE came = "start"
    BY <1>1, <1>3, <2>1 DEF Inv
  <2>2. CASE came = "up"
    <3>1. PICK n \in Common(from, to)..(Len(from.children) - 1) : curr = Ancestor(from, n)
      BY <2>2 DEF Inv
    <3> QED
      BY <1>1, <1>3, <3>1
  <2>3. CASE came = "down"
    <3>1. PICK n \in (Common(from, to) + 1)..Len(to.children) : curr = Ancestor(to, n)
      BY <2>3 DEF Inv
    <3> QED
      BY <1>1, <1>3, <3>1
  <2> QED
    BY <2>1, <2>2, <2>3 DEF Inv
<1>7. PICK n \in Nat : /\ Common(from, to) <= n
                       /\ \/ n <= Len(from.children) /\ curr = Ancestor(from, n)
                          \/ n <= Len(to.children) /\ curr = Ancestor(to, n)
  BY <1>6
<1>8. curr.children \in Seq(Actors) /\ Len(curr.children) = n
  BY <1>1, <1>7, AncestorType
<1>9. curr = Subnet(curr.root, curr.children)
  BY <1>7 DEF Ancestor, Subnet
<1>10. n \in 0..Len(to.children) /\ curr = Ancestor(to, n)
  BY <1>1, <1>4, <1>8, <1>9, AboveIsAncestor
<1>11. n \in Common(from, to)..(Len(to.children) - 1) /\ n + 1 \in 0..Len(to.children)
  BY <1>1, <1>3, <1>4, <1>7, <1>10
<1>12. curr' = Ancestor(to, n + 1)
  <2>1. n + 1 \in 1..Len(to.children)
    BY <1>11, <1>1
  <2>2. SubSeq(to.children, 1, n + 1) = SubSeq(to.children, 1, n) \o <<to.children[n + 1]>>
    <3>1. 1 \in 1..Len(to.children) /\ n + 1 - 1 = n
      BY <1>1, <2>1
    <3> QED
      BY <1>1, <2>1, <3>1, SubSeqRecursiveSecond
  <2>3. curr.children = SubSeq(to.children, 1, n) /\ curr.root = to.root
    BY <1>10 DEF Ancestor, Subnet
  <2>4. Append(curr.children, to.children[n + 1]) = SubSeq(to.children, 1, n) \o <<to.children[n + 1]>>
    BY <1>1, <1>8, <2>1, <2>3, ElementOfSeq, AppendIsConcat
  <2> QED
    BY <1>8, <2>2, <2>3, <2>4 DEF HopDown, Ancestor
<1> QED
  BY <1>5, <1>10, <1>11, <1>12

\* The invariant is one of the specification.
LEMMA Invariance == Spec => []Inv
<1>1. Init => Inv
  BY DEF Init, Inv
<1>2. ASSUME Inv, [Next]_vars
      PROVE  Inv'
  <2>1. /\ from.children \in Seq(Actors) /\ Len(from.children) \in Nat
        /\ to.children \in Seq(Actors) /\ Len(to.children) \in Nat
    BY <1>2, SubnetType DEF Inv
  <2>2. IsCommon(from, to, Common(from, to))
    BY <2>1, CommonIs
  <2>3. Common(from, to) \in Nat
    BY <2>1, <2>2 DEF IsCommon
  <2>4. CASE HopUp
    <3>1. PICK k \in (Common(from, to) + 1)..Len(from.children) : curr' = Ancestor(from, k - 1)
      BY <1>2, <2>4, GoesUp
    <3>2. k - 1 \in Common(from, to)..(Len(from.children) - 1)
      BY <2>1, <2>3
    <3>3. UNCHANGED <<from, to>> /\ came' = "up" /\ from.root = to.root
      BY <2>4 DEF HopUp
    <3> QED
      BY <1>2, <3>1, <3>2, <3>3 DEF Inv, Common, Ancestor
  <2>5. CASE HopDown
    <3>1. PICK k \in Common(from, to)..(Len(to.children) - 1) : curr' = Ancestor(to, k + 1)
      BY <1>2, <2>5, GoesDown
    <3>2. k + 1 \in (Common(from, to) + 1)..Len(to.children)
      BY <2>1, <2>3
    <3>3. UNCHANGED <<from, to>> /\ came' = "down" /\ from.root = to.root
      BY <1>2, <2>5, GoesDown DEF HopDown
    <3> QED
      BY <1>2, <3>1, <3>2, <3>3 DEF Inv, Common, Ancestor
  <2>6. CASE UNCHANGED vars
    BY <1>2, <2>6 DEF Inv, vars, Common, Ancestor
  <2> QED
    BY <1>2, <2>4, <2>5, <2>6 DEF Next
<1> QED
  BY <1>1, <1>2, PTL DEF Spec

-----------------------------------------------------------------------------
(* The theorems. *)

\* StorableMsg::apply_type classifies a message in every subnet on its way by
\* where it came from, for every source, destination and depth.
THEOREM AppliedTheRightWay == Spec => []AppliedAsTravelled
<1>1. ASSUME Inv
      PROVE  AppliedAsTravelled
  <2>1. /\ from.children \in Seq(Actors) /\ Len(from.children) \in Nat
        /\ to.children \in Seq(Actors) /\ Len(to.children) \in Nat
    BY <1>1, SubnetType DEF Inv
  <2>2. IsCommon(from, to, Common(from, to))
    BY <2>1, CommonIs
  <2>3. Common(from, to) \in Nat /\ Common(from, to) <= Len(from.children)
    BY <2>1, <2>2 DEF IsCommon
  <2>4. ASSUME came = "up" PROVE ApplyType(from, to, curr) = "BottomUp"
    <3>1. PICK k \in Common(from, to)..(Len(from.children) - 1) : curr = Ancestor(from, k)
      BY <1>1, <2>4 DEF Inv
    <3>2. k \in Common(from, to)..Len(from.children) /\ k \in 0..Len(from.children)
          /\ Common(from, to) < Len(from.children) /\ Common(from, to) \in 0..k
      BY <2>1, <2>3
    <3>3. Common(curr, to) = Common(from, to)
      BY <2>1, <3>1, <3>2, CommonOfAncestor
    <3>4. Len(curr.children) = k /\ curr.root = from.root
      BY <2>1, <3>1, <3>2, AncestorType
    <3>5. Slice(curr, Common(from, to)) = Slice(from, Common(from, to))
      <4>1. Slice(curr, Common(from, to)) = Ancestor(curr, Common(from, to))
        BY <3>2, <3>4 DEF Slice, Ancestor
      <4>2. Slice(from, Common(from, to)) = Ancestor(from, Common(from, to))
        BY <2>3, <2>1 DEF Slice, Ancestor
      <4> QED
        BY <2>1, <3>1, <3>2, <4>1, <4>2, AncestorOfAncestor
    <3>6. CommonParent(curr, to) = CommonParent(from, to)
      BY <3>3, <3>4, <3>5 DEF CommonParent
    <3>7. from.root = to.root
      BY <1>1, <2>4 DEF Inv
    <3> QED
      BY <3>2, <3>6, <3>7 DEF ApplyType, IsBottomUp
  <2>5. ASSUME came = "down" PROVE ApplyType(from, to, curr) = "TopDown"
    <3>1. PICK k \in (Common(from, to) + 1)..Len(to.children) : curr = Ancestor(to, k)
      BY <1>1, <2>5 DEF Inv
    <3>2. k \in 0..Len(to.children) /\ k # Common(from, to)
      BY <2>1, <2>3
    <3>3. Common(curr, to) = k /\ curr.root = to.root
      BY <2>1, <3>1, <3>2, CommonWithAncestor, AncestorType
    <3>4. from.root = to.root
      BY <1>1, <2>5 DEF Inv
    <3>5. CommonParent(curr, to).count = k /\ CommonParent(from, to).count = Common(from, to)
      BY <3>3, <3>4 DEF CommonParent
    <3> QED
      BY <3>2, <3>5 DEF ApplyType
  <2> QED
    BY <2>4, <2>5 DEF AppliedAsTravelled
<1> QED
  BY <1>1, Invariance, PTL

\* SubnetID::common_parent is an ancestor of both subnets, and the lowest one.
THEOREM CommonParentsAreLowest == Spec => []CommonParentIsLowest
<1>1. ASSUME Inv
      PROVE  CommonParentIsLowest
  <2> SUFFICES ASSUME from.root = to.root
               PROVE  /\ Above(CommonParent(from, to).subnet, from)
                      /\ Above(CommonParent(from, to).subnet, to)
                      /\ \A s \in Subnets : Above(s, from) /\ Above(s, to) =>
                           Above(s, CommonParent(from, to).subnet)
    BY DEF CommonParentIsLowest
  <2> DEFINE n == Common(from, to)
             common == Ancestor(from, n)
  <2>1. /\ from.children \in Seq(Actors) /\ Len(from.children) \in Nat
        /\ to.children \in Seq(Actors) /\ Len(to.children) \in Nat
    BY <1>1, SubnetType DEF Inv
  <2>2. IsCommon(from, to, n)
    BY <2>1, CommonIs
  <2>3. n \in 0..Len(from.children)
    BY <2>2 DEF IsCommon
  <2>4. CommonParent(from, to).subnet = common
    BY <2>3 DEF CommonParent, Slice, Ancestor
  <2>5. /\ common.children \in Seq(Actors) /\ Len(common.children) = n /\ common.root = from.root
        /\ \A i \in 1..n : common.children[i] = from.children[i]
    BY <2>1, <2>3, AncestorType
  <2> HIDE DEF n, common
  <2>6. Above(common, from)
    BY <2>1, <2>3, <2>5, AboveIsPrefix
  <2>7. Above(common, to)
    BY <2>1, <2>2, <2>5, AboveIsPrefix DEF IsCommon
  <2>8. ASSUME NEW s \in Subnets, Above(s, from), Above(s, to)
        PROVE  Above(s, common)
    <3>1. s.children \in Seq(Actors) /\ Len(s.children) \in Nat
      BY SubnetType
    <3>2. /\ s.root = from.root /\ Len(s.children) <= Len(from.children)
          /\ Len(s.children) <= Len(to.children)
          /\ \A i \in 1..Len(s.children) : s.children[i] = from.children[i]
          /\ \A i \in 1..Len(s.children) : s.children[i] = to.children[i]
      BY <2>1, <2>8, <3>1, AboveIsPrefix
    <3>3. Len(s.children) <= n
      <4> SUFFICES ASSUME n < Len(s.children) PROVE FALSE
        BY <2>3, <3>1
      <4>1. n + 1 \in 1..Len(s.children) /\ n < Len(from.children) /\ n < Len(to.children)
        BY <2>1, <2>3, <3>1, <3>2
      <4>2. from.children[n + 1] = to.children[n + 1]
        BY <3>2, <4>1
      <4> QED
        BY <2>2, <4>1, <4>2 DEF IsCommon
    <3>4. \A i \in 1..Len(s.children) : s.children[i] = common.children[i]
      BY <2>3, <2>5, <3>1, <3>2, <3>3
    <3> QED
      BY <2>5, <3>1, <3>2, <3>3, <3>4, AboveIsPrefix
  <2> QED
    BY <2>4, <2>6, <2>7, <2>8
<1> QED
  BY <1>1, Invariance, PTL

\* SubnetID::up and down return the next subnet on the way of a message: neither
\* skips a level, nor leaves the way, nor panics.
THEOREM HopsAreUpAndDown == Spec => UpAndDownAreHops
<1> DEFINE Hops == /\ HopUp => (curr' = Up(from, curr) /\ curr' = Parent(curr))
                   /\ HopDown => (curr' = Down(to, curr) /\ Parent(curr') = curr)
<1>1. ASSUME Inv PROVE Hops
  <2>1. /\ from.children \in Seq(Actors) /\ Len(from.children) \in Nat
        /\ to.children \in Seq(Actors) /\ Len(to.children) \in Nat
    BY <1>1, SubnetType DEF Inv
  <2>2. IsCommon(from, to, Common(from, to))
    BY <2>1, CommonIs
  <2>3. Common(from, to) \in Nat
    BY <2>1, <2>2 DEF IsCommon
  <2>4. ASSUME HopUp PROVE curr' = Up(from, curr) /\ curr' = Parent(curr)
    <3>1. PICK k \in (Common(from, to) + 1)..Len(from.children) :
            curr = Ancestor(from, k) /\ curr' = Ancestor(from, k - 1)
      BY <1>1, <2>4, GoesUp
    <3>2. k \in 1..Len(from.children) /\ k \in 0..Len(from.children)
      BY <2>1, <2>3
    <3>3. /\ curr.children \in Seq(Actors) /\ Len(curr.children) = k /\ curr.root = from.root
          /\ Common(from, curr) = k
      BY <2>1, <3>1, <3>2, AncestorType, CommonWithAncestor
    <3>4. Up(from, curr) = Ancestor(from, k - 1)
      BY <2>1, <3>2, <3>3 DEF Up, Slice, Ancestor
    <3>5. curr.children # <<>>
      BY <3>2, <3>3, EmptySeq
    <3>6. Parent(curr) = Ancestor(curr, k - 1)
      BY <3>2, <3>3, <3>5 DEF Parent, Slice, Ancestor
    <3>7. Ancestor(curr, k - 1) = Ancestor(from, k - 1)
      BY <2>1, <3>1, <3>2, AncestorOfAncestor
    <3> QED
      BY <3>1, <3>4, <3>6, <3>7
  <2>5. ASSUME HopDown PROVE curr' = Down(to, curr) /\ Parent(curr') = curr
    <3>1. PICK k \in Common(from, to)..(Len(to.children) - 1) :
            curr = Ancestor(to, k) /\ curr' = Ancestor(to, k + 1)
      BY <1>1, <2>5, GoesDown
    <3>2. k \in 0..Len(to.children) /\ k + 1 \in 1..Len(to.children) /\ k + 1 \in 0..Len(to.children)
          /\ k \in 0..(k + 1) /\ (k + 1) - 1 = k /\ k < Len(to.children)
      BY <2>1, <2>3
    <3>3. /\ Len(curr.children) = k /\ curr.root = to.root
          /\ Common(to, curr) = k
      BY <2>1, <3>1, <3>2, AncestorType, CommonWithAncestor
    <3>4. Down(to, curr) = Ancestor(to, k + 1)
      BY <2>1, <3>2, <3>3 DEF Down, Slice, Ancestor
    <3> DEFINE next == Ancestor(to, k + 1)
    <3>5. next.children \in Seq(Actors) /\ Len(next.children) = k + 1
      BY <2>1, <3>2, AncestorType
    <3>6. Parent(next) = Ancestor(next, k)
      <4>1. next.children # <<>>
        BY <3>2, <3>5, EmptySeq
      <4> QED
        BY <3>2, <3>5, <4>1 DEF Parent, Slice, Ancestor
    <3>7. Ancestor(next, k) = Ancestor(to, k)
      BY <2>1, <3>2, AncestorOfAncestor
    <3> QED
      BY <3>1, <3>4, <3>6, <3>7
  <2> QED
    BY <2>4, <2>5
<1>2. Inv /\ [Next]_vars => [Hops]_vars
  BY <1>1
<1> QED
  BY <1>2, Invariance, PTL DEF Spec, UpAndDownAreHops
=============================================================================
