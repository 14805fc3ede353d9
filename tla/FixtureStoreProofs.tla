-------------------------- MODULE FixtureStoreProofs --------------------------
(* A theorem about FixtureStore: what a test shows of a listing with the        *)
(* fixture holds of a phone with the same tree.  The walk of the fixture is a   *)
(* recursion over the tree; a bounded one is shown to be the sum of what visit  *)
(* adds for each entry behind the root, and those are the entries AdbWalkProofs *)
(* has the phone's walk account for.                                            *)
EXTENDS FixtureStore, AdbWalkProofs, WellFoundedInduction

\* Numbers have a least one among them.
LEMMA LeastOne ==
    ASSUME NEW S, S \subseteq Nat, S # {}
    PROVE  \E n \in S : \A m \in S : n <= m
<1>1. \A x, y \in Nat : x < y => <<x, y>> \in OpToRel(<, Nat)
  BY DEF OpToRel
<1>2. IsWellFoundedOn(OpToRel(<, Nat), Nat)
  BY NatLessThanWellFounded
<1>3. PICK R, N : N = Nat /\ IsWellFoundedOn(R, N) /\ \A x, y \in Nat : x < y => <<x, y>> \in R
  BY <1>1, <1>2
<1>4. S \subseteq N
  BY <1>3
<1>5. PICK n \in S : \A m \in S : ~(<<m, n>> \in R)
  <2>1. IsWellFoundedOn(R, N)
    BY <1>3
  <2>2. \E n \in S : \A m \in S : ~(<<m, n>> \in R)
    BY <1>4, <2>1, WFMin, Zenon
  <2>3. QED
    BY <2>2
<1>6. ASSUME NEW m \in S
      PROVE  n <= m
  <2>1. m \in Nat /\ n \in Nat
    OBVIOUS
  <2>2. ~(m < n)
    BY <1>3, <1>5, <2>1
  <2>3. QED
    BY <2>1, <2>2
<1>7. QED
  BY <1>6

-----------------------------------------------------------------------------
(* What is behind a directory.                                              *)

\* What a listing has lists of.
Fields == {"files", "refused", "errors"}

\* What visit adds to a listing for an entry, but for what is below it.
Alone(e) == Visit(DirOf(e), e, Listing({}, {}, {}))

\* The entries a walk of the directory at p comes to.
Behind(p) ==
    {e \in Seq(Node) :
        /\ Len(e) > Len(p) /\ \A i \in 1..Len(p) : e[i] = p[i]
        /\ \A i \in Len(p)..Len(e) - 1 : e[i + 1] \in Contents[e[i]]
        /\ \A i \in Len(p) + 1..Len(e) - 1 : Lists(e[i]) /\ (maxDepth = 0 \/ i <= maxDepth)}

\* walkDir, of one directory, when f is what it lists of those below.
Walked(f, dir) == Whole({Visit(dir, Append(dir, c), f[Append(dir, c)]) : c \in Contents[LastOf(dir)]})

Summed(p) == Whole({Alone(e) : e \in Behind(p)})

\* An entry of a directory is one of those behind it, and those behind the
\* directories it descends into are the others.
LEMMA BehindIs ==
    ASSUME NEW p \in Seq(Node), p # <<>>, maxDepth \in Nat, NEW e
    PROVE  e \in Behind(p) <=>
             \E c \in Contents[LastOf(p)] :
                \/ e = Append(p, c)
                \/ Lists(c) /\ Descends(p) /\ e \in Behind(Append(p, c))
<1>1. PICK k : k = Len(p) /\ k \in Nat /\ k > 0 /\ k \in 1..k
  BY EmptySeq, LenProperties
<1>2. p[k] \in Node /\ Contents[p[k]] \subseteq Node /\ LastOf(p) = p[k]
  <2>1. p[k] \in Node
    BY <1>1, ElementOfSeq
  <2>2. QED
    BY <1>1, <2>1, TreeTypes DEF LastOf
<1>3. Descends(p) <=> maxDepth = 0 \/ k < maxDepth
  BY <1>1 DEF Descends
<1>4. ASSUME e \in Behind(p)
      PROVE  \E c \in Contents[p[k]] : \/ e = Append(p, c)
                                       \/ Lists(c) /\ Descends(p) /\ e \in Behind(Append(p, c))
  <2>1. PICK m : /\ m = Len(e) /\ m \in Nat /\ m > k /\ e \in Seq(Node) /\ \A i \in 1..k : e[i] = p[i]
                 /\ \A i \in k..m - 1 : e[i + 1] \in Contents[e[i]]
                 /\ \A i \in k + 1..m - 1 : Lists(e[i]) /\ (maxDepth = 0 \/ i <= maxDepth)
    BY <1>1, <1>4, LenProperties DEF Behind
  <2>2. PICK c : c = e[k + 1] /\ c \in Contents[p[k]]
    <3>1. k \in k..m - 1
      BY <1>1, <2>1
    <3>2. QED
      BY <1>1, <2>1, <3>1
  <2>3. PICK q : q = Append(p, c)
    OBVIOUS
  <2>4. q \in Seq(Node) /\ Len(q) = k + 1 /\ q[k + 1] = c /\ \A i \in 1..k : q[i] = p[i]
    <3>1. c \in Node
      BY <1>2, <2>2
    <3>2. QED
      BY <1>1, <3>1, <2>3, PathAppend
  <2>5. \A i \in 1..k + 1 : e[i] = q[i]
    <3>1. \A i \in 1..k + 1 : i \in 1..k \/ i = k + 1
      BY <1>1
    <3>2. QED
      BY <2>1, <2>2, <2>4, <3>1
  <2>6. CASE m = k + 1
    <3>1. e = q
      BY <2>1, <2>4, <2>5, <2>6, SeqEqual
    <3>2. QED
      BY <2>2, <2>3, <3>1
  <2>7. CASE m > k + 1
    <3>1. Lists(c) /\ (maxDepth = 0 \/ k + 1 <= maxDepth)
      <4>1. k + 1 \in k + 1..m - 1
        BY <1>1, <2>1, <2>7
      <4>2. QED
        BY <2>1, <2>2, <4>1
    <3>2. \A i \in k + 1..m - 1 : e[i + 1] \in Contents[e[i]]
      <4>1. \A i \in k + 1..m - 1 : i \in k..m - 1
        BY <1>1, <2>1
      <4>2. QED
        BY <2>1, <4>1
    <3>3. \A i \in k + 1 + 1..m - 1 : Lists(e[i]) /\ (maxDepth = 0 \/ i <= maxDepth)
      <4>1. \A i \in k + 1 + 1..m - 1 : i \in k + 1..m - 1
        BY <1>1, <2>1
      <4>2. QED
        BY <2>1, <4>1
    <3>4. e \in Behind(q)
      BY <2>1, <2>4, <2>5, <2>7, <3>2, <3>3 DEF Behind
    <3>5. Descends(p)
      <4>1. PICK d \in Nat : d = maxDepth
        OBVIOUS
      <4>2. k + 1 <= d => k < d
        BY <1>1
      <4>3. QED
        BY <1>3, <3>1, <4>1, <4>2
    <3>6. e \in Behind(Append(p, c))
      BY <2>3, <3>4
    <3>7. QED
      BY <2>2, <3>1, <3>5, <3>6
  <2>8. QED
    BY <1>1, <2>1, <2>6, <2>7
<1>5. ASSUME NEW c \in Contents[p[k]], e = Append(p, c)
      PROVE  e \in Behind(p)
  <2>1. e \in Seq(Node) /\ Len(e) = k + 1 /\ e[k + 1] = c /\ \A i \in 1..k : e[i] = p[i]
    <3>1. c \in Node
      BY <1>2, <1>5
    <3>2. QED
      BY <1>1, <3>1, <1>5, PathAppend
  <2>2. \A i \in k..Len(e) - 1 : i = k
    BY <1>1, <2>1
  <2>3. \A i \in k + 1..Len(e) - 1 : FALSE
    BY <1>1, <2>1
  <2>4. e[k + 1] \in Contents[e[k]]
    BY <1>1, <2>1
  <2>5. QED
    BY <1>1, <2>1, <2>2, <2>3, <2>4 DEF Behind
<1>6. ASSUME NEW c \in Contents[p[k]], Lists(c), Descends(p), e \in Behind(Append(p, c))
      PROVE  e \in Behind(p)
  <2>1. PICK q : q = Append(p, c)
    OBVIOUS
  <2>2. q \in Seq(Node) /\ Len(q) = k + 1 /\ q[k + 1] = c /\ \A i \in 1..k : q[i] = p[i]
    <3>1. c \in Node
      BY <1>2, <1>6
    <3>2. QED
      BY <1>1, <3>1, <2>1, PathAppend
  <2>3. PICK m : /\ m = Len(e) /\ m \in Nat /\ m > k + 1 /\ e \in Seq(Node) /\ \A i \in 1..k + 1 : e[i] = q[i]
                 /\ \A i \in k + 1..m - 1 : e[i + 1] \in Contents[e[i]]
                 /\ \A i \in k + 1 + 1..m - 1 : Lists(e[i]) /\ (maxDepth = 0 \/ i <= maxDepth)
    BY <1>6, <2>1, <2>2, LenProperties DEF Behind
  <2>4. e[k + 1] = c /\ \A i \in 1..k : e[i] = p[i]
    <3>1. k + 1 \in 1..k + 1 /\ \A i \in 1..k : i \in 1..k + 1
      BY <1>1
    <3>2. QED
      BY <2>2, <2>3, <3>1
  <2>5. \A i \in k..m - 1 : e[i + 1] \in Contents[e[i]]
    <3>1. \A i \in k..m - 1 : i = k \/ i \in k + 1..m - 1
      BY <1>1, <2>3
    <3>2. QED
      BY <1>1, <2>3, <2>4, <3>1
  <2>6. \A i \in k + 1..m - 1 : Lists(e[i]) /\ (maxDepth = 0 \/ i <= maxDepth)
    <3>1. \A i \in k + 1..m - 1 : i = k + 1 \/ i \in k + 1 + 1..m - 1
      BY <1>1, <2>3
    <3>2. maxDepth = 0 \/ k + 1 <= maxDepth
      <4>1. maxDepth = 0 \/ k < maxDepth
        BY <1>3, <1>6
      <4>2. PICK d \in Nat : d = maxDepth
        OBVIOUS
      <4>3. k < d => k + 1 <= d
        BY <1>1
      <4>4. QED
        BY <4>1, <4>2, <4>3
    <3>3. QED
      BY <1>6, <2>3, <2>4, <3>1, <3>2
  <2>7. m > k
    BY <1>1, <2>3
  <2>8. QED
    BY <1>1, <2>3, <2>4, <2>5, <2>6, <2>7 DEF Behind
<1>7. QED
  BY <1>2, <1>4, <1>5, <1>6

-----------------------------------------------------------------------------
(* walkDir, as a sum.                                                       *)

\* walkDir is what its recursion says, if anything is.
LEMMA Chosen ==
    ASSUME NEW g, g = [dir \in FixturePaths |-> Whole({Visit(dir, Append(dir, c), g[Append(dir, c)]) : c \in Contents[LastOf(dir)]})]
    PROVE  FixtureDir = [dir \in FixturePaths |-> Whole({Visit(dir, Append(dir, c), FixtureDir[Append(dir, c)]) : c \in Contents[LastOf(dir)]})]
<1> DEFINE Listed1(f) == f = [dir \in FixturePaths |-> Whole({Visit(dir, Append(dir, c), f[Append(dir, c)]) : c \in Contents[LastOf(dir)]})]
<1>1. Listed1(g)
  OBVIOUS
<1>2. FixtureDir = CHOOSE f : Listed1(f)
  BY Zenon DEF FixtureDir
<1> HIDE DEF Listed1
<1>3. Listed1(FixtureDir)
  BY <1>1, <1>2, Zenon
<1>4. QED
  BY <1>3, Zenon DEF Listed1

\* visit depends on what is below an entry for a directory it descends into, and
\* adds nothing else for one.
LEMMA VisitIs ==
    ASSUME NEW dir, NEW e, NEW below
    PROVE  /\ Lists(LastOf(e)) /\ Descends(dir) => /\ Visit(dir, e, below) = below
                                                   /\ Visit(dir, e, Listing({}, {}, {})) = Listing({}, {}, {})
           /\ ~(Lists(LastOf(e)) /\ Descends(dir)) => Visit(dir, e, below) = Visit(dir, e, Listing({}, {}, {}))
<1>1. CASE Lists(LastOf(e)) /\ Descends(dir)
  <2>1. LastOf(e) \notin Unnameable /\ Readable(LastOf(e)) /\ OnPin(LastOf(e)) /\ status[LastOf(e)] = "dir"
    BY <1>1 DEF Lists, Readable, Kinds
  <2>2. QED
    BY <1>1, <2>1 DEF Visit
<1>2. CASE ~Lists(LastOf(e))
  BY <1>2 DEF Visit, Lists
<1>3. CASE ~Descends(dir)
  BY <1>3 DEF Visit
<1>4. QED
  BY <1>1, <1>2, <1>3

\* Listings of the same files, refused entries and problems are the same.
LEMMA WholeSame ==
    ASSUME NEW A, NEW B,
           \A F \in Fields : \A x : (\E a \in A : x \in a[F]) <=> (\E b \in B : x \in b[F])
    PROVE  Whole(A) = Whole(B)
<1>1. UNION {a.files : a \in A} = UNION {b.files : b \in B}
  BY DEF Fields
<1>2. UNION {a.refused : a \in A} = UNION {b.refused : b \in B}
  BY DEF Fields
<1>3. UNION {a.errors : a \in A} = UNION {b.errors : b \in B}
  BY DEF Fields
<1>4. QED
  BY <1>1, <1>2, <1>3 DEF Whole, Listing

\* What a listing has is in one of its parts.
LEMMA WholeIs ==
    ASSUME NEW A, NEW F \in Fields, NEW x
    PROVE  x \in Whole(A)[F] <=> \E a \in A : x \in a[F]
  BY DEF Whole, Listing, Fields

\* A walk that has the listings of the directories below has the listing of its own.
LEMMA WalkedIs ==
    ASSUME NEW f, NEW p \in Seq(Node), p # <<>>, maxDepth \in Nat,
           \A c \in Contents[LastOf(p)] :
              Lists(c) /\ Descends(p) => f[Append(p, c)] = Summed(Append(p, c))
    PROVE  Walked(f, p) = Summed(p)
<1> DEFINE V(c) == Visit(p, Append(p, c), f[Append(p, c)])
           A == {V(c) : c \in Contents[LastOf(p)]}
           B == {Alone(e) : e \in Behind(p)}
<1>1. ASSUME NEW c \in Contents[LastOf(p)]
      PROVE  /\ LastOf(Append(p, c)) = c /\ DirOf(Append(p, c)) = p
             /\ Append(p, c) \in Behind(p)
  <2>1. c \in Node
    <3>1. PICK k : k = Len(p) /\ k \in Nat /\ k > 0 /\ k \in 1..k
      BY EmptySeq, LenProperties
    <3>2. p[k] \in Node
      BY <3>1, ElementOfSeq
    <3>3. QED
      BY <3>1, <3>2, TreeTypes DEF LastOf
  <2>2. PICK e : e = Append(p, c)
    OBVIOUS
  <2>3. e[Len(e)] = c /\ SubSeq(e, 1, Len(e) - 1) = p
    BY <2>1, <2>2, AppendProperties
  <2>4. QED
    BY <2>2, <2>3, BehindIs DEF LastOf, DirOf
<1>2. ASSUME NEW F \in Fields, NEW x, NEW c \in Contents[LastOf(p)], x \in V(c)[F]
      PROVE  \E b \in B : x \in b[F]
  <2>1. CASE Lists(c) /\ Descends(p)
    <3>1. V(c) = Summed(Append(p, c))
      BY <1>1, <2>1, VisitIs
    <3>2. PICK e \in Behind(Append(p, c)) : x \in Alone(e)[F]
      BY <1>2, <3>1, WholeIs DEF Summed
    <3>3. e \in Behind(p)
      BY <2>1, <3>2, BehindIs
    <3>4. QED
      BY <3>2, <3>3
  <2>2. CASE ~(Lists(c) /\ Descends(p))
    <3>1. V(c) = Alone(Append(p, c))
      BY <1>1, <2>2, VisitIs DEF Alone
    <3>2. QED
      BY <1>1, <1>2, <3>1
  <2>3. QED
    BY <2>1, <2>2
<1>3. ASSUME NEW F \in Fields, NEW x, NEW e \in Behind(p), x \in Alone(e)[F]
      PROVE  \E a \in A : x \in a[F]
  <2>1. PICK c \in Contents[LastOf(p)] : \/ e = Append(p, c)
                                         \/ Lists(c) /\ Descends(p) /\ e \in Behind(Append(p, c))
    BY BehindIs
  <2>2. x \in V(c)[F]
    <3>1. CASE Lists(c) /\ Descends(p) /\ e \in Behind(Append(p, c))
      <4>1. V(c) = Summed(Append(p, c))
        BY <1>1, <3>1, VisitIs
      <4>2. QED
        BY <1>3, <3>1, <4>1, WholeIs DEF Summed
    <3>2. CASE e = Append(p, c) /\ ~(Lists(c) /\ Descends(p))
      <4>1. V(c) = Alone(e)
        BY <1>1, <3>2, VisitIs DEF Alone
      <4>2. QED
        BY <1>3, <4>1
    <3>3. CASE e = Append(p, c) /\ Lists(c) /\ Descends(p)
      <4>1. Alone(e) = Listing({}, {}, {})
        BY <1>1, <3>3, VisitIs DEF Alone
      <4>2. x \in Listing({}, {}, {})[F]
        BY <1>3, <4>1
      <4>3. QED
        BY <4>2 DEF Listing, Fields
    <3>4. QED
      BY <2>1, <3>1, <3>2, <3>3
  <2>3. QED
    BY <2>2
<1>4. \A F \in Fields : \A x : (\E a \in A : x \in a[F]) <=> (\E b \in B : x \in b[F])
  BY <1>2, <1>3
<1>5. Whole(A) = Whole(B)
  <2> HIDE DEF A, B
  <2>1. QED
    BY <1>4, WholeSame
<1>6. QED
  BY <1>5 DEF Walked, Summed

\* The paths the fixture's walk may come to.
LEMMA FixturePathIs ==
    ASSUME NEW p
    PROVE  p \in FixturePaths <=> \E k \in 1..MaxWalkDepth + 2 :
                                     /\ p \in Seq(Node) /\ Len(p) = k /\ p[1] = Root
                                     /\ \A i \in 1..k - 1 : p[i + 1] \in Contents[p[i]]
<1>1. DOMAIN Paths = 1..MaxWalkDepth + 2
  BY DEF Paths
<1>2. p \in FixturePaths <=> \E k \in 1..MaxWalkDepth + 2 : p \in Paths[k]
  BY <1>1 DEF FixturePaths
<1>3. QED
  BY <1>2, PathIs

\* An entry of such a directory is one more.
LEMMA FixturePathAppend ==
    ASSUME NEW p \in FixturePaths, NEW c \in Contents[LastOf(p)], Len(p) <= MaxWalkDepth + 1
    PROVE  Append(p, c) \in FixturePaths /\ Len(Append(p, c)) = Len(p) + 1
<1>1. PICK k \in 1..MaxWalkDepth + 2 : /\ p \in Seq(Node) /\ Len(p) = k /\ p[1] = Root
                                       /\ \A i \in 1..k - 1 : p[i + 1] \in Contents[p[i]]
  BY FixturePathIs
<1>2. k \in Nat /\ k > 0 /\ k + 1 \in 1..MaxWalkDepth + 2 /\ k \in 1..k /\ 1 \in 1..k
  BY <1>1, DepthsAreNat
<1>3. p[k] \in Node /\ c \in Contents[p[k]] /\ c \in Node
  <2>1. p[k] \in Node
    BY <1>1, <1>2, ElementOfSeq
  <2>2. QED
    BY <1>1, <2>1, TreeTypes DEF LastOf
<1>4. PICK e : e = Append(p, c)
  OBVIOUS
<1>5. e \in Seq(Node) /\ Len(e) = k + 1 /\ e[k + 1] = c /\ \A i \in 1..k : e[i] = p[i]
  BY <1>1, <1>3, <1>4, PathAppend
<1>6. ASSUME NEW i \in 1..k
      PROVE  e[i + 1] \in Contents[e[i]]
  <2>1. CASE i = k
    BY <1>3, <1>5, <2>1
  <2>2. CASE i # k
    <3>1. i \in 1..k - 1 /\ i + 1 \in 1..k
      BY <1>2, <2>2
    <3>2. QED
      BY <1>1, <1>5, <3>1
  <2>3. QED
    BY <2>1, <2>2
<1>7. e[1] = Root /\ \A i \in 1..k + 1 - 1 : e[i + 1] \in Contents[e[i]]
  BY <1>1, <1>2, <1>5, <1>6
<1>8. PICK j \in 1..MaxWalkDepth + 2 : j = k + 1
  BY <1>2
<1>9. e \in FixturePaths
  <2>1. Len(e) = j /\ \A i \in 1..j - 1 : e[i + 1] \in Contents[e[i]]
    BY <1>5, <1>7, <1>8
  <2>2. QED
    BY <1>5, <1>7, <1>8, <2>1, FixturePathIs
<1>10. QED
  BY <1>1, <1>4, <1>5, <1>9

\* A walk whose depth is bounded lists every directory it comes to as the sum of
\* what it finds behind it.
LEMMA FixtureDirIs ==
    ASSUME maxDepth \in 1..MaxWalkDepth, NEW p \in FixturePaths
    PROVE  FixtureDir[p] = Summed(p)
<1> DEFINE g == [q \in FixturePaths |-> Summed(q)]
<1>1. maxDepth \in Nat /\ MaxWalkDepth \in Nat /\ maxDepth # 0 /\ maxDepth <= MaxWalkDepth
  BY DepthsAreNat
<1>2. ASSUME NEW q \in FixturePaths
      PROVE  /\ q \in Seq(Node) /\ q # <<>> /\ Len(q) \in Nat /\ Len(q) <= MaxWalkDepth + 2
             /\ Descends(q) => Len(q) <= MaxWalkDepth + 1
             /\ \A c \in Contents[LastOf(q)] : 
                  Descends(q) => Append(q, c) \in FixturePaths /\ Len(Append(q, c)) = Len(q) + 1
  <2>1. q \in Seq(Node) /\ q # <<>> /\ Len(q) \in Nat /\ Len(q) <= MaxWalkDepth + 2
    BY <1>1, FixturePathIs
  <2>2. Descends(q) => Len(q) <= MaxWalkDepth + 1
    BY <1>1, <2>1 DEF Descends
  <2>3. QED
    BY <2>1, <2>2, FixturePathAppend
<1>3. ASSUME NEW q \in FixturePaths
      PROVE  Walked(g, q) = Summed(q)
  <2>1. \A c \in Contents[LastOf(q)] : Lists(c) /\ Descends(q) => g[Append(q, c)] = Summed(Append(q, c))
    BY <1>2
  <2> HIDE DEF g
  <2>2. QED
    BY <1>1, <1>2, <2>1, WalkedIs
<1>4. g = [q \in FixturePaths |-> Walked(g, q)]
  BY <1>3
<1>5. \A q \in FixturePaths : FixtureDir[q] = Walked(FixtureDir, q)
  <2>1. FixtureDir = [q \in FixturePaths |-> Walked(FixtureDir, q)]
    <3> HIDE DEF g
    <3>1. g = [dir \in FixturePaths |-> Whole({Visit(dir, Append(dir, c), g[Append(dir, c)]) : c \in Contents[LastOf(dir)]})]
      BY <1>4, Zenon DEF Walked
    <3>2. FixtureDir = [dir \in FixturePaths |-> Whole({Visit(dir, Append(dir, c), FixtureDir[Append(dir, c)]) : c \in Contents[LastOf(dir)]})]
      BY <3>1, Chosen
    <3>3. QED
      BY <3>2, Zenon DEF Walked
  <2>2. QED
    BY <2>1
<1>6. SUFFICES ASSUME FixtureDir[p] # Summed(p)
               PROVE  FALSE
  OBVIOUS
<1> DEFINE Off(q) == MaxWalkDepth + 2 - Len(q)
           S == {Off(q) : q \in {r \in FixturePaths : FixtureDir[r] # Summed(r)}}
<1>7. S \subseteq Nat
  BY <1>1, <1>2
<1>8. Off(p) \in S
  BY <1>6
<1>9. PICK n \in S : \A m \in S : n <= m
  <2> HIDE DEF S
  <2>1. QED
    BY <1>7, <1>8, LeastOne
<1>10. PICK q \in FixturePaths : FixtureDir[q] # Summed(q) /\ n = Off(q)
  BY <1>9
<1>11. ASSUME NEW c \in Contents[LastOf(q)], Lists(c), Descends(q)
       PROVE  FixtureDir[Append(q, c)] = Summed(Append(q, c))
  <2>1. PICK r \in FixturePaths : r = Append(q, c) /\ Len(r) = Len(q) + 1
    BY <1>2, <1>10, <1>11
  <2>2. ~(Off(q) <= Off(r))
    BY <1>1, <1>2, <1>10, <2>1
  <2>3. Off(r) \notin S
    <3> HIDE DEF S, Off
    <3>1. QED
      BY <1>9, <1>10, <2>2
  <2>4. QED
    BY <2>1, <2>3
<1>12. Walked(FixtureDir, q) = Summed(q)
  BY <1>1, <1>2, <1>10, <1>11, WalkedIs
<1>13. QED
  BY <1>5, <1>10, <1>12

-----------------------------------------------------------------------------
(* The sum, and what the phone's walk accounts for.                         *)

\* The directories of a bounded walk are all listed.
LEMMA AllListed ==
    ASSUME maxDepth \in 1..MaxWalkDepth
    PROVE  Asked \ Listed = {}
<1>1. ASSUME NEW p \in Asked
      PROVE  p \in Listed
  <2>1. PICK k, d : k = Len(p) /\ d = maxDepth /\ k \in 1..MaxWalkDepth + 1 /\ (d = 0 \/ k <= d)
    BY AskedIs
  <2>2. k <= MaxWalkDepth
    BY <2>1, DepthsAreNat
  <2>3. QED
    BY <2>1, <2>2 DEF Listed
<1>2. QED
  BY <1>1

\* What is behind the root are the entries of the tree.
LEMMA BehindRoot ==
    ASSUME maxDepth \in 1..MaxWalkDepth, Lists(Root)
    PROVE  Behind(<<Root>>) = Entries
<1>1. PICK d : d = maxDepth /\ d \in Nat /\ d > 0 /\ d <= MaxWalkDepth /\ MaxWalkDepth \in Nat
  BY DepthsAreNat
<1>2. \A e : e \in Behind(<<Root>>) <=>
         /\ e \in Seq(Node) /\ Len(e) > 1 /\ e[1] = Root
         /\ \A i \in 1..Len(e) - 1 : e[i + 1] \in Contents[e[i]]
         /\ \A i \in 2..Len(e) - 1 : Lists(e[i]) /\ (d = 0 \/ i <= d)
  <2>1. Len(<<Root>>) = 1 /\ <<Root>>[1] = Root
    OBVIOUS
  <2>2. PICK p : p = <<Root>> /\ Len(p) = 1 /\ p[1] = Root
    BY <2>1
  <2>3. \A e : e \in Behind(p) <=>
           /\ e \in Seq(Node) /\ Len(e) > 1 /\ \A i \in 1..1 : e[i] = p[i]
           /\ \A i \in 1..Len(e) - 1 : e[i + 1] \in Contents[e[i]]
           /\ \A i \in 1 + 1..Len(e) - 1 : Lists(e[i]) /\ (d = 0 \/ i <= d)
    BY <1>1, <2>2 DEF Behind
  <2>4. 1 + 1 = 2 /\ \A e : (\A i \in 1..1 : e[i] = p[i]) <=> e[1] = Root
    BY <2>2
  <2>5. QED
    BY <2>2, <2>3, <2>4
<1>3. ASSUME NEW e \in Behind(<<Root>>)
      PROVE  e \in Entries
  <2>1. PICK m : /\ m = Len(e) /\ m \in Nat /\ m > 1 /\ e \in Seq(Node) /\ e[1] = Root
                 /\ \A i \in 1..m - 1 : e[i + 1] \in Contents[e[i]]
                 /\ \A i \in 2..m - 1 : Lists(e[i]) /\ (d = 0 \/ i <= d)
    BY <1>2, <1>3, LenProperties
  <2>2. PICK k : k = m - 1 /\ k \in Nat /\ k > 0 /\ k + 1 = m /\ k + 1 - 1 = k /\ k \in 1..k
    BY <2>1
  <2>3. k <= d
    <3>1. CASE k = 1
      BY <1>1, <3>1
    <3>2. CASE k # 1
      <4>1. k \in 2..m - 1
        BY <2>1, <2>2, <3>2
      <4>2. d = 0 \/ k <= d
        BY <2>1, <4>1
      <4>3. QED
        BY <1>1, <4>2
    <3>3. QED
      BY <3>1, <3>2
  <2>4. PICK p : p = SubSeq(e, 1, k)
    OBVIOUS
  <2>5. p \in Seq(Node) /\ Len(p) = k /\ \A i \in 1..k : p[i] = e[i]
    BY <2>1, <2>2, <2>4, SubSeqProperties
  <2>6. PICK n \in Node : n = e[k + 1] /\ n \in Contents[p[k]]
    <3>1. k + 1 \in 1..m /\ k \in 1..m - 1
      BY <2>1, <2>2
    <3>2. QED
      BY <2>1, <2>2, <2>5, <3>1, ElementOfSeq
  <2>7. e = Append(p, n)
    <3>1. PICK q : q = Append(p, n)
      OBVIOUS
    <3>2. q \in Seq(Node) /\ Len(q) = k + 1 /\ q[k + 1] = n /\ \A i \in 1..k : q[i] = p[i]
      BY <2>5, <2>6, <3>1, PathAppend
    <3>3. \A i \in 1..m : i \in 1..k \/ i = k + 1
      BY <2>1, <2>2
    <3>4. \A i \in 1..m : e[i] = q[i]
      BY <2>5, <2>6, <3>2, <3>3
    <3>5. Len(q) = m
      BY <2>2, <3>2
    <3>6. QED
      BY <2>1, <3>1, <3>2, <3>4, <3>5, SeqEqual
  <2>8. \A i \in 1..k : Lists(p[i])
    <3>1. \A i \in 1..k : i = 1 \/ i \in 2..m - 1
      BY <2>1, <2>2
    <3>2. QED
      BY <2>1, <2>5, <3>1
  <2>9. \A i \in 1..k - 1 : p[i + 1] \in Contents[p[i]]
    <3>1. \A i \in 1..k - 1 : i \in 1..k /\ i + 1 \in 1..k /\ i \in 1..m - 1
      BY <2>1, <2>2
    <3>2. QED
      BY <2>1, <2>5, <3>1
  <2>10. p[1] = Root /\ k \in 1..MaxWalkDepth + 1 /\ k <= MaxWalkDepth
    <3>1. 1 \in 1..k
      BY <2>2
    <3>2. QED
      BY <1>1, <2>1, <2>2, <2>3, <2>5, <3>1
  <2>11. p \in Asked
    BY <1>1, <2>3, <2>5, <2>8, <2>9, <2>10, AskedIs
  <2>12. p \in Listed /\ n \in Contents[LastOf(p)]
    BY <2>5, <2>6, <2>10, <2>11 DEF Listed, LastOf
  <2>13. QED
    BY <2>7, <2>12 DEF Entries
<1>4. ASSUME NEW e \in Entries
      PROVE  e \in Behind(<<Root>>)
  <2>1. PICK m : /\ m = Len(e) /\ m \in 2..MaxWalkDepth + 1 /\ (d = 0 \/ m - 1 <= d) /\ e \in Seq(Node) /\ e[1] = Root
                 /\ \A i \in 1..m - 1 : e[i + 1] \in Contents[e[i]] /\ Lists(e[i])
    BY <1>1, EntryIs
  <2>2. \A i \in 2..m - 1 : i \in 1..m - 1 /\ i <= d
    BY <1>1, <2>1
  <2>3. m > 1
    BY <1>1, <2>1
  <2>4. QED
    BY <1>2, <2>1, <2>2, <2>3
<1>5. QED
  BY <1>3, <1>4

\* What visit adds for an entry alone.
LEMMA AloneIs ==
    ASSUME NEW e, NEW n, n = LastOf(e)
    PROVE  /\ Alone(e).files = {x \in {e} : Emits(n)}
           /\ Alone(e).refused = {x \in {e} : n \notin Unnameable /\ Readable(n) /\ (~OnPin(n) \/ status[n] = "special")}
           /\ Alone(e).errors = {x \in {Problem(e, "path_not_found")} : n \notin Unnameable /\ ~Readable(n)}
                                \cup {x \in {Problem(DirOf(e), "path_denied")} : n \in Unnameable}
<1>1. CASE n \in Unnameable
  BY <1>1 DEF Alone, Visit, Listing, Emits
<1>2. CASE n \notin Unnameable /\ ~Readable(n)
  BY <1>2 DEF Alone, Visit, Listing, Emits, Readable, Kinds
<1>3. CASE n \notin Unnameable /\ Readable(n) /\ ~OnPin(n)
  BY <1>3 DEF Alone, Visit, Listing, Emits
<1>4. CASE n \notin Unnameable /\ Readable(n) /\ OnPin(n)
  <2>1. CASE status[n] = "file"
    BY <1>4, <2>1 DEF Alone, Visit, Listing, Emits
  <2>2. CASE status[n] = "dir"
    BY <1>4, <2>2 DEF Alone, Visit, Listing, Emits
  <2>3. CASE status[n] = "special"
    BY <1>4, <2>3 DEF Alone, Visit, Listing, Emits
  <2>4. QED
    BY <1>4, <2>1, <2>2, <2>3 DEF Readable, Kinds
<1>5. QED
  BY <1>1, <1>2, <1>3, <1>4

\* The sum of what visit adds for the entries of the tree is what a phone's walk
\* accounts for, but for the names it has no use for.
LEMMA SummedIs ==
    ASSUME maxDepth \in 1..MaxWalkDepth, Lists(Root), NEW there, there = Summed(<<Root>>)
    PROVE  /\ there.files = FilesIn(Entries)
           /\ there.refused \cup OmittedIn(NamedForNothing) = OmittedIn(Entries)
           /\ {p.path : p \in there.errors} =
                {p.path : p \in ProblemsIn(Entries)} \cup {DirOf(e) : e \in NamedForNothing}
<1>1. /\ there.files = UNION {a.files : a \in {Alone(e) : e \in Entries}}
      /\ there.refused = UNION {a.refused : a \in {Alone(e) : e \in Entries}}
      /\ there.errors = UNION {a.errors : a \in {Alone(e) : e \in Entries}}
  BY BehindRoot DEF Summed, Whole, Listing
<1>2. there.files = FilesIn(Entries)
  <2>1. \A x : x \in there.files <=> \E e \in Entries : x \in Alone(e).files
    BY <1>1
  <2>2. \A e : Alone(e).files = {x \in {e} : Emits(LastOf(e))}
    BY AloneIs
  <2>3. QED
    BY <2>1, <2>2 DEF FilesIn
<1>3. there.refused \cup OmittedIn(NamedForNothing) = OmittedIn(Entries)
  <2>1. \A x : x \in there.refused <=> \E e \in Entries : x \in Alone(e).refused
    BY <1>1
  <2>2. \A e : Alone(e).refused =
           {x \in {e} : /\ LastOf(e) \notin Unnameable /\ Readable(LastOf(e))
                        /\ ~OnPin(LastOf(e)) \/ status[LastOf(e)] = "special"}
    BY AloneIs
  <2>3. \A e : e \in there.refused <=> /\ e \in Entries /\ LastOf(e) \notin Unnameable /\ Readable(LastOf(e))
                                       /\ ~OnPin(LastOf(e)) \/ status[LastOf(e)] = "special"
    BY <2>1, <2>2
  <2>4. \A e : e \in OmittedIn(Entries) <=> /\ e \in Entries /\ Readable(LastOf(e))
                                            /\ ~OnPin(LastOf(e)) \/ status[LastOf(e)] = "special"
    BY DEF OmittedIn
  <2>5. \A e : e \in OmittedIn(NamedForNothing) <=> e \in OmittedIn(Entries) /\ LastOf(e) \in Unnameable
    BY DEF OmittedIn, NamedForNothing, NeedsName
  <2>6. QED
    BY <2>3, <2>4, <2>5
<1>4. {p.path : p \in there.errors} =
        {p.path : p \in ProblemsIn(Entries)} \cup {DirOf(e) : e \in NamedForNothing}
  <2>1. \A x : x \in {p.path : p \in there.errors} <=> \E e \in Entries : \E p \in Alone(e).errors : x = p.path
    BY <1>1
  <2>2. \A x : x \in {p.path : p \in ProblemsIn(Entries)} <=> \E e \in Entries : \E p \in ProblemsOf(e) : x = p.path
    BY DEF ProblemsIn
  <2>3. \A e, x : (\E p \in Alone(e).errors : x = p.path) <=>
                     \/ x = e /\ LastOf(e) \notin Unnameable /\ ~Readable(LastOf(e))
                     \/ x = DirOf(e) /\ LastOf(e) \in Unnameable
    <3>1. TAKE e, x
    <3>2. \A y, z : Problem(y, z).path = y
      BY DEF Problem
    <3>3. PICK a : a = Problem(e, "path_not_found")
      OBVIOUS
    <3>4. PICK b : b = Problem(DirOf(e), "path_denied")
      OBVIOUS
    <3>5. a.path = e /\ b.path = DirOf(e)
      BY <3>2, <3>3, <3>4
    <3>6. Alone(e).errors = {p \in {a} : LastOf(e) \notin Unnameable /\ ~Readable(LastOf(e))}
                            \cup {p \in {b} : LastOf(e) \in Unnameable}
      BY <3>3, <3>4, AloneIs
    <3>7. QED
      BY <3>5, <3>6
  <2>4. \A e, x : (\E p \in ProblemsOf(e) : x = p.path) <=>
                     \/ x = e /\ LastOf(e) \notin Unnameable /\ ~Readable(LastOf(e))
                     \/ x = DirOf(e) /\ LastOf(e) \in Unnameable /\ NeedsName(e)
    <3>1. TAKE e, x
    <3>2. \A y, z : Problem(y, z).path = y
      BY DEF Problem
    <3>3. PICK a : a = Problem(e, CodeOf(status[LastOf(e)]))
      OBVIOUS
    <3>4. PICK b : b = Problem(DirOf(e), "path_denied")
      OBVIOUS
    <3>5. a.path = e /\ b.path = DirOf(e)
      BY <3>2, <3>3, <3>4
    <3>6. ProblemsOf(e) = {p \in {a} : LastOf(e) \notin Unnameable /\ ~Readable(LastOf(e))}
                          \cup {p \in {b} : LastOf(e) \in Unnameable /\ NeedsName(e)}
      BY <3>3, <3>4 DEF ProblemsOf
    <3>7. QED
      BY <3>5, <3>6
  <2>5. \A x : x \in {DirOf(e) : e \in NamedForNothing} <=>
                  \E e \in Entries : x = DirOf(e) /\ LastOf(e) \in Unnameable /\ ~NeedsName(e)
    BY DEF NamedForNothing
  <2>6. ASSUME NEW x, x \in {p.path : p \in there.errors}
        PROVE  x \in {p.path : p \in ProblemsIn(Entries)} \cup {DirOf(e) : e \in NamedForNothing}
    <3>1. PICK e \in Entries : \E p \in Alone(e).errors : x = p.path
      BY <2>1, <2>6
    <3>2. \/ \E p \in ProblemsOf(e) : x = p.path
          \/ x = DirOf(e) /\ LastOf(e) \in Unnameable /\ ~NeedsName(e)
      <4>1. \/ x = e /\ LastOf(e) \notin Unnameable /\ ~Readable(LastOf(e))
            \/ x = DirOf(e) /\ LastOf(e) \in Unnameable
        BY ONLY <2>3, <3>1
      <4>2. QED
        BY ONLY <2>4, <4>1
    <3>3. QED
      BY <2>2, <2>5, <3>1, <3>2
  <2>7. ASSUME NEW x, x \in {p.path : p \in ProblemsIn(Entries)} \cup {DirOf(e) : e \in NamedForNothing}
        PROVE  x \in {p.path : p \in there.errors}
    <3>1. PICK e \in Entries : \/ \E p \in ProblemsOf(e) : x = p.path
                               \/ x = DirOf(e) /\ LastOf(e) \in Unnameable /\ ~NeedsName(e)
      BY <2>2, <2>5, <2>7
    <3>2. \E p \in Alone(e).errors : x = p.path
      <4>1. \/ x = e /\ LastOf(e) \notin Unnameable /\ ~Readable(LastOf(e))
            \/ x = DirOf(e) /\ LastOf(e) \in Unnameable
        BY ONLY <2>4, <3>1
      <4>2. QED
        BY ONLY <2>3, <4>1
    <3>3. QED
      BY <2>1, <3>1, <3>2
  <2>8. QED
    BY <2>6, <2>7
<1>5. QED
  BY <1>2, <1>3, <1>4

-----------------------------------------------------------------------------
(* The root, and the theorem.                                               *)

\* A listing that is under way has found its root to be one, and one that ended
\* at its root ended for what the fixture would have found.
RootInv ==
    /\ step # "root" /\ result \in {"none", "ok"} /\ touched = {} => FixtureRootFailure = "none"
    /\ result \in {"permission_denied", "root_not_found", "not_a_directory"} => FixtureRootFailure = result
    /\ result = "volume_unresolved" /\ frames = <<>> => FixtureRootFailure = "path_denied"

\* The fixture finds what the phone's walk finds.
LEMMA RootAnswers ==
    /\ RootFailure = "none" => FixtureRootFailure = "none"
    /\ RootFailure \in {"permission_denied", "root_not_found", "not_a_directory"} => FixtureRootFailure = RootFailure
    /\ RootFailure = "volume_unresolved" => FixtureRootFailure = "path_denied"
    /\ RootFailure # "ok"
  BY DEF RootFailure, FixtureRootFailure, Errnos

\* What the root answers is the tree's to say.
LEMMA RootKept ==
    ASSUME UNCHANGED <<status, elsewhere, mounted>>
    PROVE  FixtureRootFailure' = FixtureRootFailure
  BY DEF FixtureRootFailure, OnPin

\* Every step keeps it.
LEMMA RootStep == TypesInv /\ FreshInv /\ RootInv /\ [Next]_vars => RootInv'
<1> SUFFICES ASSUME TypesInv, FreshInv, RootInv, [Next]_vars
             PROVE  RootInv'
  OBVIOUS
<1>1. /\ step \in {"open", "entries", "recheck", "next"} => frames # <<>>
      /\ result = "none" <=> step # "done"
  <2>1. Len(<<>>) = 0
    OBVIOUS
  <2>2. QED
    BY <2>1 DEF TypesInv, StackInv, WalkTypes, Depth
<1>2. CASE WalkRoot
  <2>1. /\ UNCHANGED phone
        /\ \/ RootFailure # "none" /\ result' = RootFailure
           \/ RootFailure = "none" /\ result' = "none"
    BY <1>1, <1>2 DEF WalkRoot, Aborts, told, phone
  <2>2. FixtureRootFailure' = FixtureRootFailure
    BY <2>1, RootKept DEF phone
  <2>3. QED
    BY <2>1, <2>2, RootAnswers DEF RootInv
<1>3. CASE WalkFails \/ RecheckRoot
  <2>1. /\ UNCHANGED phone /\ UNCHANGED frames
        /\ \/ result' \in {"device_disconnected", "internal", "caller"}
           \/ result' = "volume_unresolved" /\ step = "recheck"
           \/ result' = result /\ step = "recheck"
    BY <1>1, <1>3 DEF WalkFails, RecheckRoot, Aborts, told, phone
  <2>2. FixtureRootFailure' = FixtureRootFailure
    BY <2>1, RootKept DEF phone
  <2>3. QED
    BY <1>1, <2>1, <2>2 DEF RootInv, phone
<1>4. CASE Walk /\ ~WalkRoot /\ ~RecheckRoot
  <2>1. UNCHANGED phone /\ step \notin {"root", "done"} /\ result' \in {result, "ok"}
    BY <1>4 DEF Walk, StopAtDepth, OpenDir, ListingEnds, Return,
                EntryBadName, EntryUnreadable, EntryGone, EntryOffPin, EntryDir, EntryFile, EntrySpecial, Entry,
                ChildUnreadable, ChildOffPin, ChildNoDirectory, Descend, Skip, Child, told
  <2>2. FixtureRootFailure' = FixtureRootFailure
    BY <2>1, RootKept DEF phone
  <2>3. QED
    BY <1>1, <2>1, <2>2 DEF RootInv, phone
<1>5. CASE Remount \/ \E n \in Node : NodeChanges(n) \/ NodeMounted(n)
  <2>1. UNCHANGED <<walk, told>> /\ step # "done" /\ (step # "root" => touched' # {})
    BY <1>5, RootIsNode DEF Remount, NodeChanges, NodeMounted, Change
  <2>2. QED
    BY <1>1, <2>1 DEF RootInv, walk, told
<1>6. CASE UNCHANGED vars
  <2>1. UNCHANGED <<phone, told, frames, step>>
    BY <1>6 DEF vars, walk
  <2>2. FixtureRootFailure' = FixtureRootFailure
    BY <2>1, RootKept DEF phone
  <2>3. QED
    BY <2>1, <2>2 DEF RootInv, phone, told
<1>7. QED
  BY <1>2, <1>3, <1>4, <1>5, <1>6 DEF Next

\* A listing with the fixture is the listing of a phone with the same tree: the same
\* files, the refused entries and the paths of the problems alike, and a root refused
\* for the same reason, for every tree and every depth (fixturedb's walkRoot,
\* walkDir and visit beside adbsyncdb's).
THEOREM FixtureStandsIn == Spec => []FixtureListsTheSame
<1> DEFINE Inv == TypesInv /\ TreeInv /\ StillInv /\ RootInv
<1>1. Init => Inv
  <2>1. Init => TypesInv /\ TreeInv /\ step = "root" /\ result = "none"
    BY ListingInit DEF Init, ListingInv
  <2>2. QED
    BY <2>1, NothingHad DEF StillInv, RootInv
<1>2. Inv /\ [Next]_vars => Inv'
  BY TypesStep, TreeStep, StillStep, RootStep DEF TreeInv
<1>3. Inv => FixtureListsTheSame
  <2> SUFFICES ASSUME Inv
               PROVE  FixtureListsTheSame
    OBVIOUS
  <2>1. ASSUME Comparable, result = "ok", NEW there, there = FixtureDir[<<Root>>]
        PROVE  /\ FixtureRootFailure = "none"
               /\ there.files = emitted
               /\ summary.refused = Cardinality(there.refused \cup OmittedIn(NamedForNothing))
               /\ {p.path : p \in there.errors} =
                    {p.path : p \in summary.errors} \cup {DirOf(e) : e \in NamedForNothing}
    <3>1. Still /\ maxDepth \in 1..MaxWalkDepth
      BY <2>1 DEF Comparable, Still
    <3>2. FixtureRootFailure = "none"
      BY <2>1, <3>1 DEF RootInv, Still, TypesInv, WalkTypes
    <3>3. Lists(Root)
      BY <3>2, TreeTypes DEF FixtureRootFailure, Lists
    <3>4. /\ emitted = FilesIn(Entries)
          /\ summary.refused = Cardinality(OmittedIn(Entries))
          /\ summary.errors = ProblemsIn(Entries) \cup NotListed(Asked \ Listed)
      <4>1. \A e : ~ToCome(e)
        BY <2>1, NothingLeft
      <4>2. Had = Entries /\ Past = Asked \ Listed
        BY <4>1 DEF Had, Past
      <4>3. Accounted(Had, Past)
        BY <2>1, <3>1 DEF StillInv
      <4>4. Accounted(Entries, Asked \ Listed)
        BY <4>2, <4>3
      <4>5. QED
        BY <4>4 DEF Accounted
    <3>5. summary.errors = ProblemsIn(Entries)
      <4>1. NotListed(Asked \ Listed) = {}
        BY <3>1, AllListed DEF NotListed
      <4>2. QED
        BY <3>4, <4>1
    <3>6. <<Root>> \in FixturePaths
      <4>1. <<Root>> \in Seq(Node) /\ Len(<<Root>>) = 1 /\ <<Root>>[1] = Root
        BY RootIsNode
      <4>2. 1 \in 1..MaxWalkDepth + 2 /\ \A i \in 1..1 - 1 : FALSE
        BY DepthsAreNat
      <4>3. QED
        BY <4>1, <4>2, FixturePathIs
    <3>7. there = Summed(<<Root>>)
      BY <2>1, <3>1, <3>6, FixtureDirIs
    <3>8. QED
      BY <3>1, <3>2, <3>3, <3>4, <3>5, <3>7, SummedIs
  <2>2. QED
    BY <2>1 DEF FixtureListsTheSame, RootInv
<1>4. QED
  BY <1>1, <1>2, <1>3, PTL DEF Spec
=============================================================================
