------------------------- MODULE JournalReaderProofs -------------------------
(***************************************************************************)
(* Theorems about JournalReader, for whatever entries there are and        *)
(* whatever the system's file holds: what journald's own files are like    *)
(* between any two of its steps, the types, and the trust filter.          *)
(***************************************************************************)
EXTENDS JournalReader, FiniteSetTheorems, SequenceTheorems, WellFoundedInduction, TLAPS

-----------------------------------------------------------------------------
(* Numbers and sequences.                                                   *)

\* A bounded set of offsets has a least one: of its initial parts one is empty.
LEMMA LeastThereIs ==
    ASSUME NEW S \in SUBSET Nat, NEW n \in Nat, \A s \in S : s <= n, S # {}
    PROVE  \E m \in S : \A q \in S : m <= q
<1> DEFINE Below(i) == {j \in S : j < i}
           Sets     == {Below(i) : i \in S}
<1>1. IsFiniteSet(S)
  BY FS_BoundedSetOfNaturals
<1>2. Sets \subseteq FiniteSubsetsOf(S) /\ Sets # {}
  <2>1. ASSUME NEW i \in S
        PROVE  Below(i) \in FiniteSubsetsOf(S)
    <3>1. Below(i) \in SUBSET S
      OBVIOUS
    <3>2. IsFiniteSet(Below(i))
      BY <1>1, <3>1, FS_Subset
    <3>3. QED
      BY <3>1, <3>2 DEF FiniteSubsetsOf
  <2>2. QED
    BY <2>1
<1>3. PICK least \in Sets : \A y \in Sets : ~(<<y, least>> \in StrictSubsetOrdering(S))
  <2> HIDE DEF Sets
  <2>1. IsWellFoundedOn(StrictSubsetOrdering(S), FiniteSubsetsOf(S))
    BY <1>1, FS_StrictSubsetOrderingWellFounded
  <2>2. QED
    BY <1>2, <2>1, WFMin
<1>4. PICK m \in S : least = Below(m)
  BY <1>3
<1>5. Below(m) = {}
  <2> SUFFICES ASSUME NEW j \in Below(m)
               PROVE  FALSE
    OBVIOUS
  <2>1. j \in S /\ j < m /\ j \in Nat /\ m \in Nat
    OBVIOUS
  <2>2. j \notin Below(j) /\ Below(j) \in Sets
    BY <2>1
  <2>3. Below(m) \subseteq S
    OBVIOUS
  <2>4. ASSUME NEW x \in Below(j)
        PROVE  x \in Below(m)
    <3>1. x \in S /\ x < j /\ x \in Nat
      OBVIOUS
    <3>2. x < m
      BY <2>1, <3>1
    <3>3. QED
      BY <3>1, <3>2
  <2> HIDE DEF Sets, Below
  <2>5. <<Below(j), Below(m)>> \in StrictSubsetOrdering(S)
    BY <2>2, <2>3, <2>4 DEF StrictSubsetOrdering
  <2>6. QED
    BY <1>3, <1>4, <2>2, <2>5
<1>6. QED
  BY <1>5

\* And a greatest: the least of their distances from the bound.
LEMMA GreatestThereIs ==
    ASSUME NEW S \in SUBSET Nat, NEW n \in Nat, \A s \in S : s <= n, S # {}
    PROVE  \E m \in S : \A q \in S : q <= m
<1> DEFINE T == {n - s : s \in S}
<1>1. T \in SUBSET Nat /\ T # {} /\ \A t \in T : t <= n
  OBVIOUS
<1>2. PICK d \in T : \A t \in T : d <= t
  BY <1>1, LeastThereIs
<1>3. PICK m \in S : d = n - m
  BY <1>2
<1>4. ASSUME NEW q \in S
      PROVE  q <= m
  <2>1. n - q \in T
    OBVIOUS
  <2>2. n - m <= n - q
    BY <1>2, <1>3, <2>1
  <2>3. QED
    BY <2>2
<1>5. QED
  BY <1>4

\* journald's choice of an array is the last one.
LEMMA LatestIs ==
    ASSUME NEW S \in SUBSET Nat, NEW n \in Nat, \A s \in S : s <= n, S # {}
    PROVE  Latest(S) \in S /\ \A q \in S : q <= Latest(S)
BY GreatestThereIs DEF Latest

\* The items of an array as far as they are filled.
LEMMA UpToZeroIs ==
    ASSUME NEW items \in Seq(Nat)
    PROVE  /\ UpToZero(items) \in Seq(Nat)
           /\ Len(UpToZero(items)) <= Len(items)
           /\ Filled(items) = 1..Len(UpToZero(items))
           /\ \A i \in 1..Len(UpToZero(items)) : UpToZero(items)[i] = items[i] /\ items[i] # 0
<1> DEFINE zeroes == {i \in 1..Len(items) : items[i] = 0}
           least  == CHOOSE i \in zeroes : \A j \in zeroes : i <= j
           n      == IF zeroes = {} THEN Len(items) ELSE least - 1
<1>1. Len(items) \in Nat /\ \A i \in 1..Len(items) : items[i] \in Nat
  BY LenProperties, ElementOfSeq
<1>2. zeroes # {} => least \in zeroes /\ \A j \in zeroes : least <= j
  <2> SUFFICES ASSUME zeroes # {}
               PROVE  \E i \in zeroes : \A j \in zeroes : i <= j
    OBVIOUS
  <2>1. zeroes \in SUBSET Nat /\ \A j \in zeroes : j <= Len(items)
    BY <1>1
  <2> HIDE DEF zeroes
  <2>2. QED
    BY <1>1, <2>1, LeastThereIs
<1>3. PICK k \in 0..Len(items) : k = n /\ (\A i \in 1..k : items[i] # 0) /\ (k < Len(items) => items[k + 1] = 0)
  <2> HIDE DEF least
  <2>1. CASE zeroes = {}
    BY <1>1, <2>1
  <2>2. CASE zeroes # {}
    <3>1. least \in 1..Len(items) /\ items[least] = 0 /\ \A i \in 1..Len(items) : items[i] = 0 => least <= i
      BY <1>2, <2>2
    <3>2. least - 1 \in 0..Len(items) /\ least - 1 + 1 = least /\ \A i \in 1..least - 1 : items[i] # 0
      BY <1>1, <3>1
    <3>3. QED
      BY <2>2, <3>1, <3>2
  <2>3. QED
    BY <2>1, <2>2
<1>4. UpToZero(items) = SubSeq(items, 1, n)
  BY DEF UpToZero
<1> HIDE DEF n, zeroes, least
<1>5. k \in Nat /\ UpToZero(items) = SubSeq(items, 1, k)
  BY <1>1, <1>3, <1>4
<1>6. /\ SubSeq(items, 1, k) \in Seq(Nat)
      /\ Len(SubSeq(items, 1, k)) = k
      /\ \A i \in 1..k : SubSeq(items, 1, k)[i] = items[i]
  <2>1. \A i \in 1..k : items[i] \in Nat
    BY <1>1, <1>3
  <2>2. k \in Int /\ 1 \in Int /\ (1 <= k => k - 1 + 1 = k) /\ (~(1 <= k) => k = 0) /\ k - 1 + 1 = k /\ \A i \in 1..k : 1 + i - 1 = i
    BY <1>1, <1>3
  <2>3. /\ SubSeq(items, 1, k) \in Seq(Nat)
        /\ Len(SubSeq(items, 1, k)) = IF 1 <= k THEN k - 1 + 1 ELSE 0
        /\ \A i \in 1..k - 1 + 1 : SubSeq(items, 1, k)[i] = items[1 + i - 1]
    BY <2>1, <2>2, SubSeqProperties
  <2>4. QED
    BY <2>2, <2>3
<1>7. Filled(items) = 1..k
  BY <1>1, <1>3 DEF Filled
<1>8. QED
  BY <1>1, <1>3, <1>5, <1>6, <1>7

\* A step of the walk appends some of the filled items to the offsets, as many as
\* there are or as the header leaves room for.
LEMMA ListedIs ==
    ASSUME NEW items \in Seq(Nat), This.limit \in Nat, offsets \in Seq(Nat \ {0}), Len(offsets) <= This.limit
    PROVE  \E m \in 0..Len(items) :
              /\ Listed(items) \in Seq(Nat \ {0}) /\ Len(Listed(items)) = m
              /\ 1..m \subseteq Filled(items)
              /\ \A i \in 1..m : Listed(items)[i] = items[i]
              /\ Len(offsets \o Listed(items)) = Len(offsets) + m
              /\ Len(offsets) + m <= This.limit
              /\ Filled(items) = 1..m \/ Len(offsets) + m = This.limit
<1> DEFINE filled == UpToZero(items)
           m      == Smaller(Len(filled), This.limit - Len(offsets))
<1>1. /\ filled \in Seq(Nat) /\ Len(filled) \in Nat /\ Len(items) \in Nat /\ Len(offsets) \in Nat
      /\ Len(filled) <= Len(items)
      /\ Filled(items) = 1..Len(filled)
      /\ \A i \in 1..Len(filled) : filled[i] = items[i] /\ filled[i] \in Nat \ {0}
  BY UpToZeroIs, LenProperties, ElementOfSeq
<1>2. m \in 0..Len(filled) /\ Len(offsets) + m <= This.limit /\ (m = Len(filled) \/ Len(offsets) + m = This.limit)
  BY <1>1 DEF Smaller
<1>3. Listed(items) = SubSeq(filled, 1, m)
  BY DEF Listed
<1> HIDE DEF m, filled
<1>4. /\ SubSeq(filled, 1, m) \in Seq(Nat \ {0})
      /\ Len(SubSeq(filled, 1, m)) = m
      /\ \A i \in 1..m : SubSeq(filled, 1, m)[i] = filled[i]
  <2>1. \A i \in 1..m : filled[i] \in Nat \ {0}
    BY <1>1, <1>2
  <2>2. m \in Int /\ 1 \in Int /\ (~(1 <= m) => m = 0) /\ m - 1 + 1 = m /\ \A i \in 1..m : 1 + i - 1 = i
    BY <1>1, <1>2
  <2>3. /\ SubSeq(filled, 1, m) \in Seq(Nat \ {0})
        /\ Len(SubSeq(filled, 1, m)) = IF 1 <= m THEN m - 1 + 1 ELSE 0
        /\ \A i \in 1..m - 1 + 1 : SubSeq(filled, 1, m)[i] = filled[1 + i - 1]
    BY <2>1, <2>2, SubSeqProperties
  <2>4. QED
    BY <2>2, <2>3
<1>5. Len(offsets \o Listed(items)) = Len(offsets) + m
  BY <1>3, <1>4, ConcatProperties
<1>6. m \in 0..Len(items) /\ 1..m \subseteq Filled(items) /\ (Filled(items) = 1..m \/ Len(offsets) + m = This.limit)
  BY <1>1, <1>2
<1>7. \A i \in 1..m : filled[i] = items[i]
  BY <1>1, <1>2
<1>8. QED
  BY <1>2, <1>3, <1>4, <1>5, <1>6, <1>7

-----------------------------------------------------------------------------
(* What journald's files are like.                                          *)

EntriesOf(file) == OffsetsOf(file.objs, "entry")
ArraysOf(file)  == OffsetsOf(file.objs, "array")
Items(file, q)  == file.objs[q].items

\* The entry at o has a place in the chain.
IsListed(file, o) == \E q \in Linked(file) : \E i \in Filled(Items(file, q)) : Items(file, q)[i] = o

\* A file of journald's leads nowhere past its end, and an array is filled from the
\* front.
Kept(file) ==
    /\ Intact(file) /\ Accounted(file)
    /\ file.first <= Len(file.objs)
    /\ \A q \in ArraysOf(file) :
          /\ Len(Items(file, q)) = Slots
          /\ file.objs[q].next <= Len(file.objs)
          /\ \A i \in 1..Slots : Items(file, q)[i] <= Len(file.objs)
          /\ \A i \in 1..Slots : Items(file, q)[i] # 0 => i \in Filled(Items(file, q))

\* Nothing hangs loose: before an entry is written, and after it is linked.
Settled(file) ==
    /\ ArraysOf(file) = Linked(file)
    /\ \A o \in EntriesOf(file) : IsListed(file, o)

\* In between: the last object is an entry the last array has room for,
EntryHangs(file) ==
    LET n == Len(file.objs)
    IN  /\ n \in EntriesOf(file)
        /\ ArraysOf(file) = Linked(file) /\ ArraysOf(file) # {}
        /\ \A o \in EntriesOf(file) : IsListed(file, o) <=> o # n
        /\ Items(file, Latest(ArraysOf(file)))[Slots] = 0

\* or the last two are an entry and an array of its own, for all others are full.
ArrayHangs(file) ==
    LET n == Len(file.objs)
    IN  /\ n \in ArraysOf(file) /\ n - 1 \in EntriesOf(file)
        /\ Linked(file) = ArraysOf(file) \ {n}
        /\ \A o \in EntriesOf(file) : IsListed(file, o) <=> o # n - 1
        /\ \A q \in Linked(file) : Items(file, q)[Slots] # 0
        /\ Items(file, n)[1] = n - 1 /\ \A i \in 2..Slots : Items(file, n)[i] = 0
        /\ file.objs[n].next = 0

Loose(f) == f = Live /\ journald = "written"
Lag(f)      == IF f = Live /\ journald \in {"written", "linked"} THEN 1 ELSE 0

FileInv(f) ==
    /\ Kept(files[f])
    /\ files[f].count + Lag(f) = Cardinality(EntriesOf(files[f]))
    /\ IF Loose(f) THEN EntryHangs(files[f]) \/ ArrayHangs(files[f]) ELSE Settled(files[f])

\* Which file is where, and which have a header.
PlaceInv ==
    /\ files["s"] \in SystemFile
    /\ access["a"] = "readable" /\ files["a"].extent > 0
    /\ access["s"] \in {"readable", "denied", "foreign", "absent"}
    /\ dir["system"] = IF access["s"] = "absent" THEN None ELSE "s"
    /\ \/ /\ journald \in {"idle", "written", "linked"}
          /\ dir["live"] = "a" /\ dir["archive"] = None /\ access["b"] = "newborn"
       \/ /\ journald \in {"idle", "written", "linked"}
          /\ dir["live"] = "b" /\ dir["archive"] = "a" /\ access["b"] = "readable"
       \/ journald = "renamed" /\ dir["live"] = None /\ dir["archive"] = "a" /\ access["b"] = "newborn"
       \/ journald = "created" /\ dir["live"] = "b" /\ dir["archive"] = "a" /\ access["b"] = "newborn"
    /\ access["b"] = "newborn" => files["b"] = [EmptyFile EXCEPT !.extent = 0]

JournalInv == PlaceInv /\ FileInv("a") /\ FileInv("b")


-----------------------------------------------------------------------------
(* Objects and their types.                                                 *)

\* An object is data, an entry or an array, with the fields of one.
LEMMA ObjectParts ==
    ASSUME NEW o \in ObjectType
    PROVE  /\ o.type \in {"data", "entry", "array"}
           /\ o.type = "data" => o \in [type : {"data"}, kind : KindType]
           /\ o.type = "entry" => o \in [type : {"entry"}, data : Nat, id : Nat]
           /\ o.type = "array" => o \in [type : {"array"}, items : Seq(Nat), next : Nat]
BY DEF ObjectType

\* The parts of a file, and where its arrays and their places are.
LEMMA FileParts ==
    ASSUME NEW file \in FileType
    PROVE  /\ file.objs \in Seq(ObjectType) /\ Len(file.objs) \in Nat
           /\ file.extent \in Nat /\ file.count \in Nat /\ file.first \in Nat
           /\ \A o \in 1..Len(file.objs) : file.objs[o] \in ObjectType
           /\ \A type : OffsetsOf(file.objs, type) \subseteq 1..Len(file.objs)
           /\ \A q \in ArraysOf(file) : Items(file, q) \in Seq(Nat) /\ file.objs[q].next \in Nat
           /\ \A q \in ArraysOf(file) : Filled(Items(file, q)) \subseteq 1..Len(Items(file, q))
           /\ Linked(file) \subseteq ArraysOf(file)
<1>1. /\ file.objs \in Seq(ObjectType)
      /\ file.extent \in Nat /\ file.count \in Nat /\ file.first \in Nat
  BY DEF FileType
<1>2. Len(file.objs) \in Nat /\ \A o \in 1..Len(file.objs) : file.objs[o] \in ObjectType
  BY <1>1, LenProperties, ElementOfSeq
<1>3. \A type : OffsetsOf(file.objs, type) \subseteq 1..Len(file.objs)
  BY DEF OffsetsOf
<1>4. \A q \in ArraysOf(file) : file.objs[q] \in [type : {"array"}, items : Seq(Nat), next : Nat]
  BY <1>2, ObjectParts DEF ArraysOf, OffsetsOf
<1>5. \A q \in ArraysOf(file) : Items(file, q) \in Seq(Nat) /\ file.objs[q].next \in Nat
  BY <1>4 DEF Items
<1>6. \A q \in ArraysOf(file) : Filled(Items(file, q)) \subseteq 1..Len(Items(file, q))
  BY DEF Filled
<1>7. Linked(file) \subseteq ArraysOf(file)
  BY DEF Linked, ArraysOf
<1>8. QED
  BY <1>1, <1>2, <1>3, <1>5, <1>6, <1>7

\* The objects of an entry behind those of a file: at most one of data, the entry,
\* and an array if there is none or the last is full.
Appended(file, new) ==
    LET n    == Len(file.objs)
        objs == new.objs
    IN  /\ new \in FileType
        /\ new.extent = file.extent /\ new.count = file.count /\ new.first = file.first
        /\ \A i \in 1..n : objs[i] = file.objs[i]
        /\ \E e \in {n + 1, n + 2} :
              /\ \A i \in n + 1..e - 1 : objs[i].type = "data"
              /\ objs[e].type = "entry" /\ objs[e].data \in 1..e - 1 /\ objs[objs[e].data].type = "data"
              /\ \/ /\ Len(objs) = e
                    /\ ArraysOf(file) # {} /\ Items(file, Latest(ArraysOf(file)))[Slots] = 0
                 \/ /\ Len(objs) = e + 1
                    /\ objs[e + 1].type = "array" /\ objs[e + 1].next = 0
                    /\ objs[e + 1].items = [i \in 1..Slots |-> IF i = 1 THEN e ELSE 0]
                    /\ ArraysOf(file) = {} \/ Items(file, Latest(ArraysOf(file)))[Slots] # 0

\* Objects appended in three parts.
LEMMA ThreeParts ==
    ASSUME NEW S, NEW s \in Seq(S), NEW t \in Seq(S), NEW v \in Seq(S), NEW x \in S,
           NEW c, c = s \o (t \o <<x>> \o v)
    PROVE  /\ c \in Seq(S)
           /\ Len(c) = Len(s) + Len(t) + 1 + Len(v)
           /\ \A i \in 1..Len(s) : c[i] = s[i]
           /\ \A i \in 1..Len(t) : c[Len(s) + i] = t[i]
           /\ c[Len(s) + Len(t) + 1] = x
           /\ \A i \in 1..Len(v) : c[Len(s) + Len(t) + 1 + i] = v[i]
<1>1. Len(s) \in Nat /\ Len(t) \in Nat /\ Len(v) \in Nat
  BY LenProperties
<1>2. <<x>> \in Seq(S) /\ Len(<<x>>) = 1 /\ <<x>>[1] = x
  OBVIOUS
<1>3. PICK tx, txv : tx = t \o <<x>> /\ txv = tx \o v /\ c = s \o txv
  OBVIOUS
<1>4. /\ tx \in Seq(S) /\ Len(tx) = Len(t) + 1
      /\ \A i \in 1..Len(t) + 1 : tx[i] = IF i <= Len(t) THEN t[i] ELSE <<x>>[i - Len(t)]
  BY <1>2, <1>3, ConcatProperties
<1>5. /\ txv \in Seq(S) /\ Len(txv) = Len(tx) + Len(v)
      /\ \A i \in 1..Len(tx) + Len(v) : txv[i] = IF i <= Len(tx) THEN tx[i] ELSE v[i - Len(tx)]
  BY <1>3, <1>4, ConcatProperties
<1>6. /\ c \in Seq(S) /\ Len(c) = Len(s) + Len(txv)
      /\ \A i \in 1..Len(s) + Len(txv) : c[i] = IF i <= Len(s) THEN s[i] ELSE txv[i - Len(s)]
  BY <1>3, <1>5, ConcatProperties
<1>7. ASSUME NEW i \in 1..Len(s)
      PROVE  c[i] = s[i]
  <2>1. i \in 1..Len(s) + Len(txv) /\ i <= Len(s)
    BY <1>1, <1>4, <1>5, SMTT(30)
  <2>2. QED
    BY <1>6, <2>1
<1>8. ASSUME NEW i \in 1..Len(t)
      PROVE  c[Len(s) + i] = t[i]
  <2>1. Len(s) + i \in 1..Len(s) + Len(txv) /\ ~(Len(s) + i <= Len(s)) /\ Len(s) + i - Len(s) = i
    BY <1>1, <1>4, <1>5, SMTT(30)
  <2>2. i \in 1..Len(tx) + Len(v) /\ i <= Len(tx) /\ i \in 1..Len(t) + 1 /\ i <= Len(t)
    BY <1>1, <1>4
  <2>3. c[Len(s) + i] = txv[Len(s) + i - Len(s)]
    <3>1. PICK k : k = Len(s) + i
      OBVIOUS
    <3>2. k \in 1..Len(s) + Len(txv) /\ ~(k <= Len(s))
      BY <2>1, <3>1
    <3>3. c[k] = txv[k - Len(s)]
      BY <1>6, <3>2
    <3>4. QED
      BY <3>1, <3>3
  <2>4. txv[i] = tx[i]
    BY <1>5, <2>2
  <2>5. tx[i] = t[i]
    BY <1>4, <2>2
  <2>6. QED
    BY <2>1, <2>3, <2>4, <2>5
<1>9. c[Len(s) + Len(t) + 1] = txv[Len(t) + 1] /\ txv[Len(t) + 1] = tx[Len(t) + 1] /\ tx[Len(t) + 1] = x
  <2>1. c[Len(s) + Len(t) + 1] = txv[Len(t) + 1]
    <3>1. /\ Len(s) + Len(t) + 1 \in 1..Len(s) + Len(txv) /\ ~(Len(s) + Len(t) + 1 <= Len(s))
          /\ Len(s) + Len(t) + 1 - Len(s) = Len(t) + 1
      BY <1>1, <1>4, <1>5, SMTT(30)
    <3>2. QED
      BY <1>6, <3>1
  <2>2. txv[Len(t) + 1] = tx[Len(t) + 1]
    <3>1. Len(t) + 1 \in 1..Len(tx) + Len(v) /\ Len(t) + 1 <= Len(tx)
      BY <1>1, <1>4
    <3>2. QED
      BY <1>5, <3>1
  <2>3. tx[Len(t) + 1] = <<x>>[1]
    <3>1. Len(t) + 1 \in 1..Len(t) + 1 /\ ~(Len(t) + 1 <= Len(t)) /\ Len(t) + 1 - Len(t) = 1
      BY <1>1
    <3>2. QED
      BY <1>4, <3>1
  <2>4. QED
    BY <1>2, <2>1, <2>2, <2>3
<1>10. \A i \in 1..Len(v) : c[Len(s) + Len(t) + 1 + i] = v[i]
  <2> SUFFICES ASSUME NEW i \in 1..Len(v)
               PROVE  c[Len(s) + Len(t) + 1 + i] = v[i]
    OBVIOUS
  <2>1. c[Len(s) + Len(t) + 1 + i] = txv[Len(t) + 1 + i]
    <3>1. /\ Len(s) + Len(t) + 1 + i \in 1..Len(s) + Len(txv) /\ ~(Len(s) + Len(t) + 1 + i <= Len(s))
          /\ Len(s) + Len(t) + 1 + i - Len(s) = Len(t) + 1 + i
      BY <1>1, <1>4, <1>5, SMTT(30)
    <3>2. QED
      BY <1>6, <3>1
  <2>2. txv[Len(t) + 1 + i] = v[i]
    <3>1. Len(t) + 1 + i \in 1..Len(tx) + Len(v) /\ ~(Len(t) + 1 + i <= Len(tx)) /\ Len(t) + 1 + i - Len(tx) = i
      BY <1>1, <1>4
    <3>2. QED
      BY <1>5, <3>1
  <2>3. QED
    BY <2>1, <2>2
<1>11. Len(c) = Len(s) + Len(t) + 1 + Len(v)
  BY <1>1, <1>3, <1>4, <1>5, <1>6
<1>12. QED
  BY <1>6, <1>7, <1>8, <1>9, <1>10, <1>11, Zenon

\* What journald writes for an entry is appended so (Write).
LEMMA NewObjectsAre ==
    ASSUME NEW k \in Kind, files[Live] \in FileType, published \in Nat
    PROVE  Appended(files[Live], [files[Live] EXCEPT !.objs = @ \o NewObjects(k)])
<1>0. PICK new : new = [files[Live] EXCEPT !.objs = @ \o NewObjects(k)]
  OBVIOUS
<1>1. PICK file, n : file = files[Live] /\ n = Len(Objs) /\ Objs = file.objs
  BY DEF Objs
<1>2. /\ Objs \in Seq(ObjectType) /\ n \in Nat /\ \A o \in 1..n : Objs[o] \in ObjectType
      /\ OffsetsOf(Objs, "array") \subseteq 1..n /\ OffsetsOf(Objs, "data") \subseteq 1..n
  BY <1>1, FileParts
<1>3. k \in KindType /\ Slots \in Nat \ {0}
  BY KindsAreKinds, SizesAreNat
<1>4. PICK stored : stored = {o \in OffsetsOf(Objs, "data") : Objs[o].kind = k}
  OBVIOUS
<1>5. stored # {} => Latest(stored) \in OffsetsOf(Objs, "data")
  <2>1. stored \in SUBSET Nat /\ \A s \in stored : s <= n
    BY <1>2, <1>4
  <2>2. stored # {} => Latest(stored) \in stored
    BY <1>2, <2>1, LatestIs
  <2>3. QED
    BY <1>4, <2>2
<1>6. PICK data, d : /\ data = IF stored = {} THEN <<Data(k)>> ELSE <<>>
                     /\ d = IF stored = {} THEN Len(Objs) + 1 ELSE Latest(stored)
  OBVIOUS
<1>7. PICK e : e = n + Len(data) + 1
  OBVIOUS
<1>8. PICK a : a = EntryArray([i \in 1..Slots |-> IF i = 1 THEN e ELSE 0])
  OBVIOUS
<1>9. PICK tail : tail = IF ArrayFull THEN <<a>> ELSE <<>>
  OBVIOUS
<1>10. NewObjects(k) = data \o <<EntryObject(d, published + 1)>> \o tail
  BY <1>1, <1>4, <1>6, <1>7, <1>8, <1>9 DEF NewObjects
<1>11. Data(k) \in ObjectType /\ Data(k).type = "data"
  BY <1>3 DEF Data, ObjectType
<1>12. /\ data \in Seq(ObjectType) /\ Len(data) \in {0, 1} /\ e \in {n + 1, n + 2} /\ d \in 1..e - 1
       /\ Len(data) = 1 => d = n + 1 /\ data[1].type = "data"
       /\ Len(data) = 0 => d \in OffsetsOf(Objs, "data")
  <2>1. CASE stored = {}
    <3>1. data = <<Data(k)>> /\ d = n + 1
      BY <1>1, <1>6, <2>1
    <3>2. data \in Seq(ObjectType) /\ Len(data) = 1 /\ data[1] = Data(k)
      BY <1>11, <3>1
    <3>3. QED
      BY <1>2, <1>7, <1>11, <3>1, <3>2
  <2>2. CASE stored # {}
    <3>1. data = <<>> /\ d \in OffsetsOf(Objs, "data")
      BY <1>5, <1>6, <2>2
    <3>2. data \in Seq(ObjectType) /\ Len(data) = 0
      BY <3>1
    <3>3. QED
      BY <1>2, <1>7, <3>1, <3>2
  <2>3. QED
    BY <2>1, <2>2
<1>13. ArrayFull <=> ArraysOf(file) = {} \/ Items(file, Latest(ArraysOf(file)))[Slots] # 0
  <2>1. ArraysOf(file) = OffsetsOf(Objs, "array")
    BY <1>1 DEF ArraysOf
  <2>2. ArraysOf(file) # {} => LastArray \in 1..n
    <3>1. PICK S : S = OffsetsOf(Objs, "array")
      OBVIOUS
    <3>2. S \in SUBSET Nat /\ \A s \in S : s <= n
      BY <1>2, <3>1
    <3>3. S # {} => Latest(S) \in S
      BY <1>2, <3>2, LatestIs
    <3>4. QED
      BY <1>2, <2>1, <3>1, <3>3 DEF LastArray
  <2>3. ArraysOf(file) = {} => LastArray = 0
    BY <2>1 DEF LastArray, Latest
  <2>4. QED
    BY <1>1, <1>2, <2>1, <2>2, <2>3 DEF ArrayFull, LastArray, Items
<1>14. PICK entry : entry = EntryObject(d, published + 1)
  OBVIOUS
<1>15. entry \in ObjectType /\ entry.type = "entry" /\ entry.data = d
  BY <1>2, <1>12, <1>14 DEF EntryObject, ObjectType
<1>16. a \in ObjectType /\ a.type = "array" /\ a.next = 0 /\ a.items = [i \in 1..Slots |-> IF i = 1 THEN e ELSE 0]
  <2>1. [i \in 1..Slots |-> IF i = 1 THEN e ELSE 0] \in Seq(Nat)
    <3>1. [i \in 1..Slots |-> IF i = 1 THEN e ELSE 0] \in [1..Slots -> Nat]
      BY <1>2, <1>12
    <3>2. QED
      BY <1>3, <3>1, SeqDef
  <2>2. QED
    BY <1>8, <2>1 DEF EntryArray, ObjectType
<1>17. tail \in Seq(ObjectType) /\ Len(tail) \in {0, 1} /\ (ArrayFull <=> Len(tail) = 1) /\ (ArrayFull => tail[1] = a)
  <2>1. CASE ArrayFull
    BY <1>9, <1>16, <2>1
  <2>2. CASE ~ArrayFull
    BY <1>9, <2>2
  <2>3. QED
    BY <2>1, <2>2
<1>18. PICK objs : objs = new.objs /\ objs = Objs \o (data \o <<entry>> \o tail)
  BY <1>0, <1>1, <1>10, <1>14 DEF FileType
<1>19. /\ objs \in Seq(ObjectType)
       /\ Len(objs) = n + Len(data) + 1 + Len(tail)
       /\ \A i \in 1..n : objs[i] = Objs[i]
       /\ \A i \in 1..Len(data) : objs[n + i] = data[i]
       /\ objs[n + Len(data) + 1] = entry
       /\ \A i \in 1..Len(tail) : objs[n + Len(data) + 1 + i] = tail[i]
  <2>1. PICK old : old = Objs
    OBVIOUS
  <2>2. old \in Seq(ObjectType) /\ entry \in ObjectType /\ tail \in Seq(ObjectType) /\ data \in Seq(ObjectType) /\ n = Len(old)
    BY <1>1, <1>2, <1>12, <1>15, <1>17, <2>1
  <2>3. objs = old \o (data \o <<entry>> \o tail)
    BY <1>18, <2>1
  <2>4. /\ objs \in Seq(ObjectType)
        /\ Len(objs) = Len(old) + Len(data) + 1 + Len(tail)
        /\ \A i \in 1..Len(old) : objs[i] = old[i]
        /\ \A i \in 1..Len(data) : objs[Len(old) + i] = data[i]
        /\ objs[Len(old) + Len(data) + 1] = entry
        /\ \A i \in 1..Len(tail) : objs[Len(old) + Len(data) + 1 + i] = tail[i]
    BY <2>2, <2>3, ThreeParts
  <2>5. QED
    BY <2>1, <2>2, <2>4
<1>20. /\ new \in FileType /\ new.extent = file.extent /\ new.count = file.count /\ new.first = file.first
  BY <1>0, <1>1, <1>10, <1>14, <1>18, <1>19 DEF FileType
<1>21. \A i \in n + 1..e - 1 : objs[i].type = "data"
  <2>1. CASE Len(data) = 1
    <3>1. e = n + 2 /\ objs[n + 1] = data[1]
      BY <1>2, <1>7, <1>19, <2>1
    <3>2. QED
      BY <1>2, <1>12, <2>1, <3>1
  <2>2. CASE Len(data) = 0
    BY <1>2, <1>7, <2>2
  <2>3. QED
    BY <1>12, <2>1, <2>2
<1>22. objs[e] = entry /\ (ArrayFull => Len(objs) = e + 1 /\ objs[e + 1] = a) /\ (~ArrayFull => Len(objs) = e)
  <2>1. objs[e] = entry
    BY <1>7, <1>19
  <2>2. CASE ArrayFull
    <3>1. Len(tail) = 1 /\ tail[1] = a
      BY <1>17, <2>2
    <3>2. Len(objs) = e + 1 /\ objs[e + 1] = a
      BY <1>7, <1>19, <3>1
    <3>3. QED
      BY <2>1, <2>2, <3>2
  <2>3. CASE ~ArrayFull
    <3>1. Len(tail) = 0
      BY <1>17, <2>3
    <3>2. QED
      BY <1>2, <1>7, <1>12, <1>19, <2>1, <2>3, <3>1
  <2>4. QED
    BY <2>2, <2>3
<1>23. objs[d].type = "data"
  <2>1. CASE Len(data) = 1
    <3>1. d = n + 1 /\ d \in n + 1..e - 1
      BY <1>2, <1>7, <1>12, <2>1
    <3>2. QED
      BY <1>21, <3>1
  <2>2. CASE Len(data) = 0
    BY <1>2, <1>12, <1>19, <2>2 DEF OffsetsOf
  <2>3. QED
    BY <1>12, <2>1, <2>2
<1>24. objs[e].type = "entry" /\ objs[e].data \in 1..e - 1 /\ objs[objs[e].data].type = "data"
  BY <1>12, <1>15, <1>22, <1>23
<1>25. \/ /\ Len(objs) = e
          /\ ArraysOf(file) # {} /\ Items(file, Latest(ArraysOf(file)))[Slots] = 0
       \/ /\ Len(objs) = e + 1
          /\ objs[e + 1].type = "array" /\ objs[e + 1].next = 0
          /\ objs[e + 1].items = [i \in 1..Slots |-> IF i = 1 THEN e ELSE 0]
          /\ ArraysOf(file) = {} \/ Items(file, Latest(ArraysOf(file)))[Slots] # 0
  BY <1>13, <1>16, <1>22
<1>26. e \in {n + 1, n + 2} /\ n = Len(file.objs) /\ objs = new.objs /\ \A i \in 1..n : objs[i] = file.objs[i]
  BY <1>1, <1>12, <1>18, <1>19
<1>27. Appended(file, new)
  <2> SUFFICES /\ new \in FileType
               /\ new.extent = file.extent /\ new.count = file.count /\ new.first = file.first
               /\ \A i \in 1..n : objs[i] = file.objs[i]
               /\ /\ \A i \in n + 1..e - 1 : objs[i].type = "data"
                  /\ objs[e].type = "entry" /\ objs[e].data \in 1..e - 1 /\ objs[objs[e].data].type = "data"
                  /\ \/ /\ Len(objs) = e
                        /\ ArraysOf(file) # {} /\ Items(file, Latest(ArraysOf(file)))[Slots] = 0
                     \/ /\ Len(objs) = e + 1
                        /\ objs[e + 1].type = "array" /\ objs[e + 1].next = 0
                        /\ objs[e + 1].items = [i \in 1..Slots |-> IF i = 1 THEN e ELSE 0]
                        /\ ArraysOf(file) = {} \/ Items(file, Latest(ArraysOf(file)))[Slots] # 0
    BY <1>26, Zenon DEF Appended
  <2>1. QED
    BY <1>20, <1>21, <1>24, <1>25, <1>26
<1>28. QED
  BY <1>0, <1>1, <1>27

-----------------------------------------------------------------------------
(* journald's steps, one file at a time.                                    *)

\* The last array of a file.
LEMMA LatestArray ==
    ASSUME NEW file \in FileType, ArraysOf(file) # {}
    PROVE  Latest(ArraysOf(file)) \in ArraysOf(file) /\ \A q \in ArraysOf(file) : q <= Latest(ArraysOf(file))
<1>1. PICK S, n : S = ArraysOf(file) /\ n = Len(file.objs)
  OBVIOUS
<1>2. S \in SUBSET Nat /\ n \in Nat /\ S # {} /\ \A s \in S : s <= n
  <2>1. n \in Nat /\ S \subseteq 1..n
    BY <1>1, FileParts DEF ArraysOf
  <2>2. QED
    BY <1>1, <2>1
<1>3. QED
  BY <1>1, <1>2, LatestIs

\* An array journald has just written has one place taken.
LEMMA OnePlace ==
    ASSUME NEW items, Len(items) = Slots, items[1] # 0, \A i \in 2..Slots : items[i] = 0
    PROVE  Filled(items) = {1}
BY SizesAreNat DEF Filled

\* The chain is of arrays, and what is in it stays in it if no link of it is changed.
LEMMA AppendedParts ==
    ASSUME NEW file \in FileType, NEW new, Kept(file), Appended(file, new)
    PROVE  \E e \in {Len(file.objs) + 1, Len(file.objs) + 2} :
              /\ Len(new.objs) \in {e, e + 1}
              /\ EntriesOf(new) = EntriesOf(file) \cup {e}
              /\ new.objs[e].data \in 1..e - 1 /\ new.objs[new.objs[e].data].type = "data"
              /\ ArraysOf(new) = ArraysOf(file) \cup ({e + 1} \cap {Len(new.objs)})
              /\ \A o \in EntriesOf(file) \cup ArraysOf(file) : o \in 1..Len(file.objs) /\ new.objs[o] = file.objs[o]
              /\ Linked(new) = Linked(file)
              /\ Len(new.objs) = e + 1 =>
                    /\ new.objs[e + 1].next = 0 /\ Len(Items(new, e + 1)) = Slots
                    /\ \A i \in 1..Slots : Items(new, e + 1)[i] = IF i = 1 THEN e ELSE 0
              /\ IF Len(new.objs) = e THEN ArraysOf(file) # {} /\ Items(file, Latest(ArraysOf(file)))[Slots] = 0
                 ELSE ArraysOf(file) = {} \/ Items(file, Latest(ArraysOf(file)))[Slots] # 0
<1>1. PICK n, objs, old : n = Len(file.objs) /\ objs = new.objs /\ old = file.objs
  OBVIOUS
<1>2. /\ n \in Nat /\ Slots \in Nat \ {0} /\ new.first = file.first
      /\ \A i \in 1..n : objs[i] = old[i]
      /\ EntriesOf(file) \subseteq 1..n /\ ArraysOf(file) \subseteq 1..n
  BY <1>1, FileParts, SizesAreNat DEF Appended, EntriesOf, ArraysOf
<1>3. PICK e \in {n + 1, n + 2} :
        /\ \A i \in n + 1..e - 1 : objs[i].type = "data"
        /\ objs[e].type = "entry" /\ objs[e].data \in 1..e - 1 /\ objs[objs[e].data].type = "data"
        /\ \/ /\ Len(objs) = e
              /\ ArraysOf(file) # {} /\ Items(file, Latest(ArraysOf(file)))[Slots] = 0
           \/ /\ Len(objs) = e + 1
              /\ objs[e + 1].type = "array" /\ objs[e + 1].next = 0
              /\ objs[e + 1].items = [i \in 1..Slots |-> IF i = 1 THEN e ELSE 0]
              /\ ArraysOf(file) = {} \/ Items(file, Latest(ArraysOf(file)))[Slots] # 0
  BY <1>1 DEF Appended
<1>4. Len(objs) \in {e, e + 1} /\ \A i \in 1..Len(objs) : i \in 1..n \/ i \in n + 1..e - 1 \/ i = e \/ (i = e + 1 /\ Len(objs) = e + 1)
  BY <1>2, <1>3
<1>5. /\ e \in Nat /\ e \in 1..Len(objs) /\ 1..n \subseteq 1..Len(objs)
      /\ e \notin 1..n /\ e + 1 # e /\ (Len(objs) = e + 1 => e + 1 \in 1..Len(objs))
  BY <1>2, <1>4
<1>6. ASSUME NEW i \in 1..Len(objs)
      PROVE  /\ objs[i].type = "entry" <=> i \in EntriesOf(file) \cup {e}
             /\ objs[i].type = "array" <=> i \in ArraysOf(file) \cup ({e + 1} \cap {Len(objs)})
  <2>1. CASE i \in 1..n
    <3>1. objs[i] = old[i] /\ i # e /\ i # e + 1
      BY <1>2, <2>1
    <3>2. /\ i \in EntriesOf(file) <=> old[i].type = "entry"
          /\ i \in ArraysOf(file) <=> old[i].type = "array"
      BY <1>1, <2>1 DEF EntriesOf, ArraysOf, OffsetsOf
    <3>3. QED
      BY <3>1, <3>2
  <2>2. CASE i \in n + 1..e - 1
    <3>1. objs[i].type = "data" /\ i # e /\ i # e + 1 /\ i \notin EntriesOf(file) /\ i \notin ArraysOf(file)
      BY <1>2, <1>3, <2>2
    <3>2. QED
      BY <3>1
  <2>3. CASE i = e
    <3>1. i \notin ArraysOf(file) /\ i # e + 1
      BY <1>2, <1>5, <2>3
    <3>2. QED
      BY <1>3, <2>3, <3>1
  <2>4. CASE i = e + 1 /\ Len(objs) = e + 1
    <3>1. i \notin EntriesOf(file) /\ i # e /\ objs[i].type = "array"
      BY <1>2, <1>3, <1>5, <2>4
    <3>2. QED
      BY <2>4, <3>1
  <2>5. QED
    BY <1>4, <2>1, <2>2, <2>3, <2>4
<1>7. EntriesOf(new) = EntriesOf(file) \cup {e}
  BY <1>1, <1>2, <1>5, <1>6 DEF EntriesOf, OffsetsOf
<1>8. ArraysOf(new) = ArraysOf(file) \cup ({e + 1} \cap {Len(objs)})
  BY <1>1, <1>2, <1>5, <1>6 DEF ArraysOf, OffsetsOf
<1>9. \A o \in EntriesOf(file) \cup ArraysOf(file) : o \in 1..n /\ objs[o] = old[o]
  BY <1>2
<1>10. Len(objs) = e + 1 => /\ objs[e + 1].next = 0 /\ Len(objs[e + 1].items) = Slots
                            /\ \A i \in 1..Slots : objs[e + 1].items[i] = IF i = 1 THEN e ELSE 0
  BY <1>2, <1>3
<1>11. Linked(new) = Linked(file)
  <2>1. /\ file.first <= n /\ \A q \in ArraysOf(file) : old[q].next <= n /\ old[q].next \in Nat
        /\ file.first \in Nat
    BY <1>1, FileParts DEF Kept
  <2>2. ASSUME NEW q \in Linked(new)
        PROVE  q \in Linked(file)
    <3>1. q \in ArraysOf(new) /\ (q = file.first \/ \E p \in ArraysOf(new) : objs[p].next = q)
      BY <1>1, <1>2 DEF Linked, ArraysOf
    <3>2. q # 0 /\ (q \in ArraysOf(file) \/ q = e + 1)
      BY <1>2, <1>5, <1>8, <3>1
    <3>3. q # e + 1 /\ (q = file.first \/ \E p \in ArraysOf(file) : old[p].next = q)
      <4>1. CASE q = file.first
        BY <1>3, <1>2, <2>1, <4>1
      <4>2. CASE q # file.first
        <5>1. PICK p \in ArraysOf(new) : objs[p].next = q
          BY <3>1, <4>2
        <5>2. p \in ArraysOf(file)
          BY <1>8, <1>10, <3>2, <5>1
        <5>3. old[p].next = q /\ q <= n
          BY <1>9, <2>1, <5>1, <5>2
        <5>4. QED
          BY <1>2, <1>3, <5>2, <5>3
      <4>3. QED
        BY <4>1, <4>2
    <3>4. QED
      BY <1>1, <3>2, <3>3 DEF Linked, ArraysOf
  <2>3. ASSUME NEW q \in Linked(file)
        PROVE  q \in Linked(new)
    <3>1. q \in ArraysOf(file) /\ (q = file.first \/ \E p \in ArraysOf(file) : old[p].next = q)
      BY <1>1 DEF Linked, ArraysOf
    <3>2. q \in ArraysOf(new) /\ (q = new.first \/ \E p \in ArraysOf(new) : objs[p].next = q)
      <4>1. CASE q = file.first
        BY <1>2, <1>8, <3>1, <4>1
      <4>2. CASE q # file.first
        <5>1. PICK p \in ArraysOf(file) : old[p].next = q
          BY <3>1, <4>2
        <5>2. p \in ArraysOf(new) /\ objs[p] = old[p]
          BY <1>8, <1>9
        <5>3. QED
          BY <1>8, <3>1, <5>1, <5>2
      <4>3. QED
        BY <4>1, <4>2
    <3>3. QED
      BY <1>1, <3>2 DEF Linked, ArraysOf
  <2>4. QED
    BY <2>2, <2>3
<1>12. QED
  <2>1. SUFFICES /\ Len(objs) \in {e, e + 1}
                 /\ EntriesOf(new) = EntriesOf(file) \cup {e}
                 /\ objs[e].data \in 1..e - 1 /\ objs[objs[e].data].type = "data"
                 /\ ArraysOf(new) = ArraysOf(file) \cup ({e + 1} \cap {Len(objs)})
                 /\ \A o \in EntriesOf(file) \cup ArraysOf(file) : o \in 1..n /\ objs[o] = old[o]
                 /\ Linked(new) = Linked(file)
                 /\ Len(objs) = e + 1 =>
                       /\ objs[e + 1].next = 0 /\ Len(objs[e + 1].items) = Slots
                       /\ \A i \in 1..Slots : objs[e + 1].items[i] = IF i = 1 THEN e ELSE 0
                 /\ IF Len(objs) = e THEN ArraysOf(file) # {} /\ Items(file, Latest(ArraysOf(file)))[Slots] = 0
                    ELSE ArraysOf(file) = {} \/ Items(file, Latest(ArraysOf(file)))[Slots] # 0
    BY <1>1, Zenon DEF Items
  <2>2. IF Len(objs) = e THEN ArraysOf(file) # {} /\ Items(file, Latest(ArraysOf(file)))[Slots] = 0
        ELSE ArraysOf(file) = {} \/ Items(file, Latest(ArraysOf(file)))[Slots] # 0
    BY <1>3, <1>5
  <2>3. QED
    BY <1>3, <1>4, <1>7, <1>8, <1>9, <1>10, <1>11, <2>2, Zenon

\* What journald keeps to, with nothing past an end in it.
Sound(file) ==
    LET arrays == ArraysOf(file)
    IN  /\ Len(file.objs) <= file.extent
        /\ \A o \in EntriesOf(file) :
              file.objs[o].data \in 1..o - 1 /\ file.objs[file.objs[o].data].type = "data"
        /\ file.first \in arrays \cup {0}
        /\ \A q \in arrays :
              /\ Len(Items(file, q)) = Slots
              /\ file.objs[q].next \in (arrays \ 1..q) \cup {0}
              /\ \A i \in Filled(Items(file, q)) : Items(file, q)[i] \in EntriesOf(file)
              /\ \A i \in 1..Slots : Items(file, q)[i] # 0 => i \in Filled(Items(file, q))

\* Kept is that, and Accounted.
LEMMA KeptIs ==
    ASSUME NEW file \in FileType
    PROVE  Kept(file) <=> Sound(file) /\ Accounted(file)
<1>1. PICK n : n = Len(file.objs)
  OBVIOUS
<1>2. /\ n \in Nat /\ Slots \in Nat \ {0} /\ file.first \in Nat
      /\ EntriesOf(file) \subseteq 1..n /\ ArraysOf(file) \subseteq 1..n
      /\ \A q \in ArraysOf(file) : file.objs[q].next \in Nat /\ Filled(Items(file, q)) \subseteq 1..Len(Items(file, q))
  BY <1>1, FileParts, SizesAreNat DEF EntriesOf, ArraysOf
<1>3. ASSUME Kept(file)
      PROVE  Sound(file)
  <2>1. /\ n <= file.extent
        /\ file.first \in ArraysOf(file) \cup {0} \/ file.first > n
        /\ file.first <= n
    BY <1>1, <1>3 DEF Kept, Intact, ArraysOf
  <2>2. \A o \in EntriesOf(file) : file.objs[o].data \in 1..o - 1 /\ file.objs[file.objs[o].data].type = "data"
    BY <1>3 DEF Kept, Intact, EntriesOf
  <2>3. ASSUME NEW q \in ArraysOf(file)
        PROVE  /\ Len(Items(file, q)) = Slots
               /\ file.objs[q].next \in (ArraysOf(file) \ 1..q) \cup {0}
               /\ \A i \in Filled(Items(file, q)) : Items(file, q)[i] \in EntriesOf(file)
               /\ \A i \in 1..Slots : Items(file, q)[i] # 0 => i \in Filled(Items(file, q))
    <3>1. /\ Len(Items(file, q)) = Slots
          /\ file.objs[q].next <= n
          /\ \A i \in 1..Slots : Items(file, q)[i] <= n
          /\ \A i \in 1..Slots : Items(file, q)[i] # 0 => i \in Filled(Items(file, q))
      BY <1>1, <1>3 DEF Kept
    <3>2. /\ file.objs[q].next \in (ArraysOf(file) \ 1..q) \cup {0} \/ file.objs[q].next > n
          /\ \A i \in Filled(Items(file, q)) : Items(file, q)[i] \in EntriesOf(file) \/ Items(file, q)[i] > n
      BY <1>1, <1>3 DEF Kept, Intact, ArraysOf, EntriesOf, Items
    <3>3. ASSUME NEW i \in Filled(Items(file, q))
          PROVE  Items(file, q)[i] \in EntriesOf(file)
      <4>1. i \in 1..Slots
        BY <1>2, <3>1
      <4>2. Items(file, q)[i] <= n /\ Items(file, q)[i] \in Nat
        <5>1. Items(file, q) \in Seq(Nat)
          BY FileParts
        <5>2. QED
          BY <3>1, <4>1, <5>1, ElementOfSeq
      <4>3. QED
        BY <1>2, <3>2, <4>2
    <3>4. QED
      BY <1>2, <3>1, <3>2, <3>3
  <2>4. file.first \in ArraysOf(file) \cup {0}
    BY <1>2, <2>1
  <2>5. QED
    BY <1>1, <2>1, <2>2, <2>3, <2>4 DEF Sound
<1>4. ASSUME Sound(file), Accounted(file)
      PROVE  Kept(file)
  <2>1. /\ n <= file.extent
        /\ \A o \in EntriesOf(file) : file.objs[o].data \in 1..o - 1 /\ file.objs[file.objs[o].data].type = "data"
        /\ file.first \in ArraysOf(file) \cup {0}
    BY <1>1, <1>4 DEF Sound
  <2>2. ASSUME NEW q \in ArraysOf(file)
        PROVE  /\ Len(Items(file, q)) = Slots
               /\ file.objs[q].next \in (ArraysOf(file) \ 1..q) \cup {0}
               /\ \A i \in Filled(Items(file, q)) : Items(file, q)[i] \in EntriesOf(file)
               /\ \A i \in 1..Slots : Items(file, q)[i] # 0 => i \in Filled(Items(file, q))
    BY <1>4 DEF Sound
  <2>3. Intact(file)
    BY <1>1, <2>1, <2>2 DEF Intact, ArraysOf, EntriesOf, Items
  <2>4. file.first <= n
    BY <1>2, <2>1
  <2>5. ASSUME NEW q \in ArraysOf(file)
        PROVE  /\ file.objs[q].next <= n
               /\ \A i \in 1..Slots : Items(file, q)[i] <= n
    <3>1. \A i \in 1..Slots : Items(file, q)[i] = 0 \/ Items(file, q)[i] \in EntriesOf(file)
      BY <2>2
    <3>2. QED
      BY <1>2, <2>2, <3>1
  <2>6. QED
    BY <1>1, <1>4, <2>2, <2>3, <2>4, <2>5 DEF Kept
<1>5. Kept(file) => Accounted(file)
  BY DEF Kept
<1>6. QED
  BY <1>3, <1>4, <1>5

\* The newest entry is above the count until the header counts it.
LEMMA NewestNotCounted ==
    ASSUME NEW file \in FileType, NEW new \in FileType, NEW e \in Nat,
           EntriesOf(new) = EntriesOf(file) \cup {e}, e \notin EntriesOf(file),
           \A o \in EntriesOf(file) : o <= e,
           file.count = Cardinality(EntriesOf(file)), new.count = file.count
    PROVE  CountedIn(new) \subseteq EntriesOf(file) /\ Cardinality(EntriesOf(new)) = file.count + 1
<1>1. IsFiniteSet(EntriesOf(file)) /\ file.count \in Nat
  <2>1. EntriesOf(file) \subseteq 1..Len(file.objs) /\ Len(file.objs) \in Nat
    BY FileParts DEF EntriesOf
  <2>2. IsFiniteSet(1..Len(file.objs))
    BY <2>1, FS_Interval
  <2>3. QED
    BY <2>1, <2>2, FS_Subset, FileParts
<1>2. Cardinality(EntriesOf(new)) = file.count + 1
  <2>1. PICK E : E = EntriesOf(file)
    OBVIOUS
  <2>2. IsFiniteSet(E) /\ e \notin E /\ EntriesOf(new) = E \cup {e} /\ Cardinality(E) = file.count
    BY <1>1, <2>1
  <2>3. Cardinality(E \cup {e}) = Cardinality(E) + 1
    BY <2>2, FS_AddElement
  <2>4. QED
    BY <2>2, <2>3
<1>3. Rank(new, e) = Cardinality(EntriesOf(new))
  <2>1. {r \in EntriesOf(new) : r <= e} = EntriesOf(new)
    <3>1. e <= e
      OBVIOUS
    <3>2. QED
      BY <3>1
  <2>2. QED
    BY <2>1 DEF Rank, EntriesOf
<1>4. e \notin CountedIn(new)
  BY <1>1, <1>2, <1>3 DEF CountedIn
<1>5. CountedIn(new) \subseteq EntriesOf(new)
  BY DEF CountedIn, EntriesOf
<1>6. QED
  BY <1>2, <1>4, <1>5

\* The parts of Accounted, for the operators of this module.
LEMMA AccountedIs ==
    ASSUME NEW file
    PROVE  Accounted(file) <=>
             /\ \A q \in Linked(file) : file.first \in 1..q
             /\ \A p, q \in Linked(file) : p < q =>
                   /\ file.objs[p].next \in p + 1..q
                   /\ Filled(Items(file, p)) = 1..Len(Items(file, p))
                   /\ \A i \in Filled(Items(file, p)), j \in Filled(Items(file, q)) : Items(file, p)[i] < Items(file, q)[j]
             /\ \A q \in Linked(file) : \A i, j \in Filled(Items(file, q)) : i < j => Items(file, q)[i] < Items(file, q)[j]
             /\ \A o \in CountedIn(file) : IsListed(file, o)
BY Zenon DEF Accounted, Items, IsListed

\* Write leaves the chain alone, with what is to be linked at the end of the file.
LEMMA WriteKeeps ==
    ASSUME NEW file \in FileType, NEW new, Kept(file), Settled(file), Appended(file, new),
           file.extent >= Len(file.objs) + 3, file.count = Cardinality(EntriesOf(file))
    PROVE  /\ Kept(new) /\ (EntryHangs(new) \/ ArrayHangs(new))
           /\ new.count + 1 = Cardinality(EntriesOf(new))
<1>1. PICK n, objs, old, E, A : /\ n = Len(file.objs) /\ objs = new.objs /\ old = file.objs
                               /\ E = EntriesOf(file) /\ A = ArraysOf(file)
  OBVIOUS
<1>2. /\ n \in Nat /\ Slots \in Nat \ {0} /\ E \subseteq 1..n /\ A \subseteq 1..n
      /\ new \in FileType /\ new.extent = file.extent /\ new.count = file.count /\ new.first = file.first
      /\ file.extent \in Nat /\ file.count \in Nat /\ Linked(file) = A
  BY <1>1, FileParts, SizesAreNat DEF Appended, EntriesOf, ArraysOf, Settled
<1>3. PICK e \in {n + 1, n + 2} :
              /\ Len(objs) \in {e, e + 1}
              /\ EntriesOf(new) = E \cup {e}
              /\ objs[e].data \in 1..e - 1 /\ objs[objs[e].data].type = "data"
              /\ ArraysOf(new) = A \cup ({e + 1} \cap {Len(objs)})
              /\ \A o \in E \cup A : o \in 1..n /\ objs[o] = old[o]
              /\ Linked(new) = A
              /\ Len(objs) = e + 1 =>
                    /\ objs[e + 1].next = 0 /\ Len(Items(new, e + 1)) = Slots
                    /\ \A i \in 1..Slots : Items(new, e + 1)[i] = IF i = 1 THEN e ELSE 0
              /\ IF Len(objs) = e THEN A # {} /\ Items(file, Latest(A))[Slots] = 0
                 ELSE A = {} \/ Items(file, Latest(A))[Slots] # 0
  BY <1>1, <1>2, AppendedParts
<1>4. Sound(file) /\ Accounted(file)
  BY KeptIs
<1>5. \A q \in A : Items(new, q) = Items(file, q) /\ objs[q].next = old[q].next
  BY <1>1, <1>3 DEF Items
<1>6. ASSUME Len(objs) = e + 1
      PROVE  Filled(Items(new, e + 1)) = {1} /\ Items(new, e + 1)[1] = e
  <2>1. /\ Len(Items(new, e + 1)) = Slots
        /\ Items(new, e + 1)[1] = e /\ e # 0
        /\ \A i \in 2..Slots : Items(new, e + 1)[i] = 0
    <3>1. PICK s : s = Items(new, e + 1)
      OBVIOUS
    <3>2. Len(s) = Slots /\ \A i \in 1..Slots : s[i] = IF i = 1 THEN e ELSE 0
      BY <1>3, <1>6, <3>1
    <3>3. e # 0
      BY <1>2, <1>3
    <3>4. 1 \in 1..Slots /\ \A i \in 2..Slots : i \in 1..Slots /\ i # 1
      BY <1>2
    <3>5. s[1] = e /\ \A i \in 2..Slots : s[i] = 0
      BY <3>2, <3>4
    <3>6. QED
      BY <3>1, <3>2, <3>3, <3>5
  <2>2. QED
    BY <2>1, OnePlace
<1>7. \A o \in E : old[o].data \in 1..o - 1 /\ old[old[o].data].type = "data"
  BY <1>1, <1>4 DEF Sound
<1>8. ASSUME NEW q \in A
      PROVE  /\ Len(Items(file, q)) = Slots
             /\ old[q].next \in (A \ 1..q) \cup {0}
             /\ \A i \in Filled(Items(file, q)) : Items(file, q)[i] \in E
             /\ \A i \in 1..Slots : Items(file, q)[i] # 0 => i \in Filled(Items(file, q))
  BY <1>1, <1>4, SMTT(30) DEF Sound
<1>9. Sound(new)
  <2>1. Len(objs) <= new.extent
    <3>1. PICK m, x : m = Len(objs) /\ x = new.extent
      OBVIOUS
    <3>2. m \in {e, e + 1} /\ x \in Nat /\ n + 3 <= x
      BY <1>1, <1>2, <1>3, <3>1
    <3>3. m <= x
      BY <1>2, <3>2
    <3>4. QED
      BY <3>1, <3>3
  <2>2. ASSUME NEW o \in EntriesOf(new)
        PROVE  objs[o].data \in 1..o - 1 /\ objs[objs[o].data].type = "data"
    <3>1. CASE o = e
      BY <1>3, <3>1
    <3>2. CASE o \in E
      <4>1. objs[o] = old[o] /\ old[o].data \in 1..o - 1 /\ old[old[o].data].type = "data" /\ o \in 1..n
        BY <1>3, <1>7, <3>2
      <4>2. old[o].data \in 1..n
        BY <1>2, <4>1
      <4>3. objs[old[o].data] = old[old[o].data]
        BY <1>1, <4>2 DEF Appended
      <4>4. QED
        BY <4>1, <4>3
    <3>3. QED
      BY <1>3, <3>1, <3>2
  <2>3. new.first \in ArraysOf(new) \cup {0}
    BY <1>1, <1>2, <1>3, <1>4 DEF Sound
  <2>4. ASSUME NEW q \in ArraysOf(new)
        PROVE  /\ Len(Items(new, q)) = Slots
               /\ objs[q].next \in (ArraysOf(new) \ 1..q) \cup {0}
               /\ \A i \in Filled(Items(new, q)) : Items(new, q)[i] \in EntriesOf(new)
               /\ \A i \in 1..Slots : Items(new, q)[i] # 0 => i \in Filled(Items(new, q))
    <3>1. CASE q \in A
      <4>1. Items(new, q) = Items(file, q) /\ objs[q].next = old[q].next
        BY <1>5, <3>1
      <4>2. A \subseteq ArraysOf(new) /\ E \subseteq EntriesOf(new)
        BY <1>3
      <4>3. QED
        BY <1>8, <3>1, <4>1, <4>2
    <3>2. CASE Len(objs) = e + 1 /\ q = e + 1
      BY <1>3, <1>6, <3>2
    <3>3. QED
      BY <1>3, <3>1, <3>2
  <2>5. QED
    BY <1>1, <2>1, <2>2, <2>3, <2>4 DEF Sound
<1>10. \A o : IsListed(new, o) <=> IsListed(file, o)
  <2> SUFFICES ASSUME NEW o
               PROVE  IsListed(new, o) <=> IsListed(file, o)
    OBVIOUS
  <2>1. IsListed(new, o) <=> \E q \in A : \E i \in Filled(Items(new, q)) : Items(new, q)[i] = o
    BY <1>3, Zenon DEF IsListed
  <2>2. IsListed(file, o) <=> \E q \in A : \E i \in Filled(Items(file, q)) : Items(file, q)[i] = o
    BY <1>2, Zenon DEF IsListed
  <2>3. \A q \in A : Items(new, q) = Items(file, q)
    BY <1>5
  <2>4. QED
    BY <2>1, <2>2, <2>3, Zenon
<1>11. CountedIn(new) \subseteq E /\ Cardinality(EntriesOf(new)) = file.count + 1
  <2>1. e \in Nat /\ e \notin E /\ \A o \in E : o <= e
    BY <1>2, <1>3
  <2>2. QED
    BY <1>1, <1>2, <1>3, <2>1, NewestNotCounted
<1>12. Accounted(new)
  <2>1. \A q \in A : file.first \in 1..q
    BY <1>2, <1>4, AccountedIs
  <2>2. \A p, q \in A : p < q =>
                   /\ old[p].next \in p + 1..q
                   /\ Filled(Items(file, p)) = 1..Len(Items(file, p))
                   /\ \A i \in Filled(Items(file, p)), j \in Filled(Items(file, q)) : Items(file, p)[i] < Items(file, q)[j]
    BY <1>1, <1>2, <1>4, AccountedIs
  <2>3. \A q \in A : \A i, j \in Filled(Items(file, q)) : i < j => Items(file, q)[i] < Items(file, q)[j]
    BY <1>2, <1>4, AccountedIs
  <2>4. \A o \in CountedIn(new) : IsListed(new, o)
    BY <1>1, <1>10, <1>11 DEF Settled
  <2>5. \A q \in A : new.first \in 1..q
    BY <1>2, <2>1
  <2>6. \A p, q \in A : p < q =>
                   /\ objs[p].next \in p + 1..q
                   /\ Filled(Items(new, p)) = 1..Len(Items(new, p))
                   /\ \A i \in Filled(Items(new, p)), j \in Filled(Items(new, q)) : Items(new, p)[i] < Items(new, q)[j]
    BY <1>5, <2>2
  <2>7. \A q \in A : \A i, j \in Filled(Items(new, q)) : i < j => Items(new, q)[i] < Items(new, q)[j]
    BY <1>5, <2>3
  <2>8. QED
    BY <1>1, <1>3, <2>4, <2>5, <2>6, <2>7, AccountedIs
<1>13. Kept(new)
  BY <1>2, <1>9, <1>12, KeptIs
<1>14. ASSUME NEW q \in A, NEW i \in Filled(Items(file, q))
       PROVE  Items(file, q)[i] # e
  BY <1>2, <1>3, <1>8
<1>15. \A o \in E \cup {e} : IsListed(new, o) <=> o # e
  <2>1. ~IsListed(file, e)
    BY <1>2, <1>14 DEF IsListed
  <2>2. \A o \in E : IsListed(file, o) /\ o # e
    BY <1>1, <1>2, <1>3 DEF Settled
  <2>3. QED
    BY <1>10, <2>1, <2>2
<1>16. A # {} => Latest(A) \in A /\ \A q \in A : q <= Latest(A)
  BY <1>1, LatestArray
<1>17. CASE Len(objs) = e
  <2>1. ArraysOf(new) = A /\ A # {} /\ Items(new, Latest(A))[Slots] = 0
    <3>1. A # {} /\ Items(file, Latest(A))[Slots] = 0
      BY <1>3, <1>17, Zenon
    <3>2. Items(new, Latest(A)) = Items(file, Latest(A))
      BY <1>5, <1>16, <3>1
    <3>3. ArraysOf(new) = A
      BY <1>2, <1>3, <1>17
    <3>4. QED
      BY <3>1, <3>2, <3>3
  <2>2. EntryHangs(new)
    BY <1>1, <1>3, <1>15, <1>17, <2>1 DEF EntryHangs
  <2>3. QED
    BY <1>2, <1>11, <1>13, <2>2
<1>18. CASE Len(objs) = e + 1
  <2>1. ASSUME NEW q \in A
        PROVE  Items(file, q)[Slots] # 0
    <3>1. Items(file, Latest(A))[Slots] # 0 /\ Latest(A) \in A /\ q <= Latest(A)
      <4>1. Len(objs) # e
        BY <1>2, <1>18
      <4>2. A = {} \/ Items(file, Latest(A))[Slots] # 0
        BY <1>3, <4>1, Zenon
      <4>3. QED
        BY <1>16, <4>2
    <3>2. CASE q # Latest(A)
      <4>1. q < Latest(A)
        <5>1. PICK last : last = Latest(A)
          OBVIOUS
        <5>2. last \in A /\ q <= last /\ q # last
          BY <3>1, <3>2, <5>1
        <5>3. q \in 1..n /\ last \in 1..n
          BY <1>2, <5>2
        <5>4. q < last
          BY <1>2, <5>2, <5>3
        <5>5. QED
          BY <5>1, <5>4
      <4>2. Filled(Items(file, q)) = 1..Slots
        BY <1>1, <1>2, <1>4, <1>8, <3>1, <4>1, AccountedIs
      <4>3. Slots \in Filled(Items(file, q)) /\ Slots \in 1..Slots
        BY <1>2, <4>2
      <4>4. QED
        BY <4>3 DEF Filled
    <3>3. QED
      BY <3>1, <3>2
  <2>2. /\ e + 1 \in ArraysOf(new) /\ e + 1 - 1 = e /\ A = ArraysOf(new) \ {e + 1}
        /\ Items(new, e + 1)[1] = e /\ \A i \in 2..Slots : Items(new, e + 1)[i] = 0
        /\ \A q \in A : Items(new, q)[Slots] # 0
    <3>1. /\ e + 1 \in ArraysOf(new) /\ A = ArraysOf(new) \ {e + 1} /\ e + 1 - 1 = e
      BY <1>2, <1>3, <1>18
    <3>2. \A i \in 2..Slots : Items(new, e + 1)[i] = 0
      <4>1. \A i \in 1..Slots : Items(new, e + 1)[i] = IF i = 1 THEN e ELSE 0
        BY <1>3, <1>18
      <4>2. \A i \in 2..Slots : i \in 1..Slots /\ i # 1
        BY <1>2
      <4>3. QED
        BY <4>1, <4>2
    <3>3. QED
      BY <1>5, <1>6, <1>18, <2>1, <3>1, <3>2
  <2>3. ArrayHangs(new)
    BY <1>1, <1>3, <1>15, <1>18, <2>2 DEF ArrayHangs
  <2>4. QED
    BY <1>2, <1>11, <1>13, <2>3
<1>19. QED
  BY <1>3, <1>17, <1>18

\* Link changes one array, at p, or the header only (p is 0).
Relinked(file, new, p) ==
    /\ new \in FileType
    /\ Len(new.objs) = Len(file.objs)
    /\ new.extent = file.extent /\ new.count = file.count
    /\ p \in ArraysOf(file) \cup {0}
    /\ \A i \in 1..Len(file.objs) : i # p => new.objs[i] = file.objs[i]
    /\ p # 0 => new.objs[p].type = "array"

\* Entries, data and arrays are where they were.
LEMMA RelinkedParts ==
    ASSUME NEW file \in FileType, NEW new, NEW p, Relinked(file, new, p), Sound(file)
    PROVE  /\ EntriesOf(new) = EntriesOf(file) /\ ArraysOf(new) = ArraysOf(file)
           /\ CountedIn(new) = CountedIn(file)
           /\ Len(new.objs) <= new.extent
           /\ \A o \in EntriesOf(file) :
                 new.objs[o].data \in 1..o - 1 /\ new.objs[new.objs[o].data].type = "data"
           /\ \A q \in ArraysOf(file) : q # p => Items(new, q) = Items(file, q) /\ new.objs[q].next = file.objs[q].next
<1>1. PICK n, objs, old : n = Len(file.objs) /\ objs = new.objs /\ old = file.objs
  OBVIOUS
<1>2. /\ n \in Nat /\ Len(objs) = n
      /\ \A i \in 1..n : i # p => objs[i] = old[i]
      /\ p # 0 => p \in 1..n /\ old[p].type = "array" /\ objs[p].type = "array"
      /\ ArraysOf(file) \subseteq 1..n /\ EntriesOf(file) \subseteq 1..n
      /\ \A o \in EntriesOf(file) : old[o].type = "entry"
  BY <1>1, FileParts DEF Relinked, ArraysOf, EntriesOf, OffsetsOf
<1>3. \A i \in 1..n : objs[i].type = old[i].type
  BY <1>2
<1>4. EntriesOf(new) = EntriesOf(file) /\ ArraysOf(new) = ArraysOf(file)
  BY <1>1, <1>2, <1>3 DEF EntriesOf, ArraysOf, OffsetsOf
<1>5. CountedIn(new) = CountedIn(file)
  BY <1>4 DEF CountedIn, Rank, EntriesOf, Relinked
<1>6. ASSUME NEW o \in EntriesOf(file)
      PROVE  objs[o].data \in 1..o - 1 /\ objs[objs[o].data].type = "data"
  <2>1. old[o].data \in 1..o - 1 /\ old[old[o].data].type = "data"
    BY <1>1 DEF Sound
  <2>2. o \in 1..n /\ o # p
    <3>1. p = 0 \/ old[p].type = "array"
      BY <1>2
    <3>2. old[o].type = "entry" /\ o \in 1..n
      BY <1>2
    <3>3. QED
      BY <3>1, <3>2
  <2>3. objs[o] = old[o] /\ old[o].data \in 1..n
    BY <1>2, <2>1, <2>2
  <2>4. QED
    BY <1>3, <2>1, <2>3
<1>7. \A q \in ArraysOf(file) : q # p => Items(new, q) = Items(file, q) /\ objs[q].next = old[q].next
  BY <1>1, <1>2 DEF Items
<1>8. Len(objs) <= new.extent
  BY <1>1, <1>2 DEF Sound, Relinked
<1>9. QED
  BY <1>1, <1>4, <1>5, <1>6, <1>7, <1>8

\* An entry is hung from the last array.
LEMMA PlaceKeeps ==
    ASSUME NEW file \in FileType, Kept(file), EntryHangs(file),
           NEW new, NEW last, last = Latest(ArraysOf(file)), Relinked(file, new, last),
           new.first = file.first, new.objs[last].next = file.objs[last].next,
           NEW slot \in 1..Slots, Items(file, last)[slot] = 0, \A j \in 1..slot - 1 : Items(file, last)[j] # 0,
           Len(Items(new, last)) = Slots, Items(new, last)[slot] = Len(file.objs),
           \A i \in 1..Slots : i # slot => Items(new, last)[i] = Items(file, last)[i]
    PROVE  Kept(new) /\ Settled(new) /\ EntriesOf(new) = EntriesOf(file)
<1>1. PICK n, objs, old, E, A : /\ n = Len(file.objs) /\ objs = new.objs /\ old = file.objs
                               /\ E = EntriesOf(file) /\ A = ArraysOf(file)
  OBVIOUS
<1>2. /\ n \in Nat /\ Slots \in Nat \ {0} /\ E \subseteq 1..n /\ A \subseteq 1..n
      /\ new \in FileType /\ Linked(file) = A /\ n \in E
      /\ last \in A /\ \A q \in A : q <= last
      /\ \A o \in E : IsListed(file, o) <=> o # n
  BY <1>1, FileParts, SizesAreNat, LatestArray DEF Relinked, EntriesOf, ArraysOf, EntryHangs
<1>3. Sound(file) /\ Accounted(file)
  BY KeptIs
<1>4. /\ EntriesOf(new) = E /\ ArraysOf(new) = A
      /\ CountedIn(new) = CountedIn(file)
      /\ Len(objs) <= new.extent
      /\ \A o \in E : objs[o].data \in 1..o - 1 /\ objs[objs[o].data].type = "data"
      /\ \A q \in A : q # last => Items(new, q) = Items(file, q)
      /\ \A q \in A : objs[q].next = old[q].next
  BY <1>1, <1>3, RelinkedParts
<1>5. Linked(new) = A
  <2>1. \A q \in A : new.objs[q].next = file.objs[q].next
    BY <1>1, <1>4
  <2>2. new.first = file.first /\ OffsetsOf(new.objs, "array") = A /\ OffsetsOf(file.objs, "array") = A
    BY <1>1, <1>4 DEF ArraysOf
  <2>3. Linked(new) = Linked(file)
    BY <2>1, <2>2, SMTT(30) DEF Linked
  <2>4. QED
    BY <1>2, <2>3
<1>6. ASSUME NEW q \in A
      PROVE  /\ Len(Items(file, q)) = Slots
             /\ old[q].next \in (A \ 1..q) \cup {0}
             /\ \A i \in Filled(Items(file, q)) : Items(file, q)[i] \in E
             /\ \A i \in 1..Slots : Items(file, q)[i] # 0 => i \in Filled(Items(file, q))
  BY <1>1, <1>3 DEF Sound
<1>7. Filled(Items(file, last)) = 1..slot - 1 /\ Filled(Items(new, last)) = 1..slot
  <2>1. Filled(Items(file, last)) = 1..slot - 1
    <3>1. \A i \in 1..Slots : i >= slot => ~(\A j \in 1..i : Items(file, last)[j] # 0)
      BY <1>2
    <3>2. QED
      BY <1>2, <1>6, <3>1 DEF Filled
  <2>2. \A i \in 1..Slots : i > slot => Items(new, last)[i] = 0
    <3>1. \A i \in 1..Slots : i > slot => Items(file, last)[i] = 0
      BY <1>2, <1>6, <2>1
    <3>2. QED
      BY <1>2, <3>1
  <2>3. \A i \in 1..slot : Items(new, last)[i] # 0
    BY <1>1, <1>2
  <2>4. QED
    BY <1>2, <2>1, <2>2, <2>3 DEF Filled
<1>8. \A i \in 1..slot - 1 : Items(new, last)[i] = Items(file, last)[i]
  BY <1>2
<1>9. ASSUME NEW q \in A, NEW i \in Filled(Items(file, q))
      PROVE  Items(file, q)[i] < n
  <2>1. Items(file, q)[i] \in E
    BY <1>6
  <2>2. IsListed(file, Items(file, q)[i])
    BY <1>2 DEF IsListed
  <2>3. Items(file, q)[i] # n
    BY <1>2, <2>1, <2>2
  <2>4. PICK v : v = Items(file, q)[i]
    OBVIOUS
  <2>5. v \in 1..n /\ v # n
    BY <1>2, <2>1, <2>3, <2>4
  <2>6. QED
    BY <1>2, <2>4, <2>5
<1>10. Sound(new)
  <2>1. ASSUME NEW q \in A
        PROVE  /\ Len(Items(new, q)) = Slots
               /\ objs[q].next \in (A \ 1..q) \cup {0}
               /\ \A i \in Filled(Items(new, q)) : Items(new, q)[i] \in E
               /\ \A i \in 1..Slots : Items(new, q)[i] # 0 => i \in Filled(Items(new, q))
    <3>1. CASE q # last
      BY <1>4, <1>6, <3>1
    <3>2. CASE q = last
      <4>1. \A i \in Filled(Items(new, q)) : Items(new, q)[i] \in E
        <5>1. \A i \in 1..slot - 1 : Items(new, last)[i] \in E
          BY <1>2, <1>6, <1>7, <1>8
        <5>2. Items(new, last)[slot] \in E
          BY <1>1, <1>2
        <5>3. \A i \in 1..slot : i = slot \/ i \in 1..slot - 1
          OBVIOUS
        <5>4. QED
          BY <1>7, <3>2, <5>1, <5>2, <5>3
      <4>2. \A i \in 1..Slots : Items(new, q)[i] # 0 => i \in Filled(Items(new, q))
        <5>1. \A i \in 1..Slots : Items(file, last)[i] # 0 => i \in 1..slot - 1
          BY <1>2, <1>6, <1>7
        <5>2. QED
          BY <1>7, <3>2, <5>1
      <4>3. QED
        BY <1>4, <1>6, <3>2, <4>1, <4>2
    <3>3. QED
      BY <3>1, <3>2
  <2>2. new.first \in A \cup {0}
    BY <1>1, <1>3 DEF Sound
  <2>3. QED
    BY <1>1, <1>4, <2>1, <2>2 DEF Sound
<1>11. \A o \in E : IsListed(new, o)
  <2> SUFFICES ASSUME NEW o \in E
               PROVE  \E q \in A : \E i \in Filled(Items(new, q)) : Items(new, q)[i] = o
    BY <1>5, Zenon DEF IsListed
  <2>1. CASE o = n
    <3>1. slot \in Filled(Items(new, last)) /\ Items(new, last)[slot] = o
      BY <1>1, <1>7, <2>1
    <3>2. QED
      BY <1>2, <3>1
  <2>2. CASE o # n
    <3>1. \E q \in A : \E i \in Filled(Items(file, q)) : Items(file, q)[i] = o
      BY <1>2, <2>2, Zenon DEF IsListed
    <3>2. PICK q \in A : \E i \in Filled(Items(file, q)) : Items(file, q)[i] = o
      BY <3>1
    <3>0. PICK i \in Filled(Items(file, q)) : Items(file, q)[i] = o
      BY <3>2
    <3>3. i \in Filled(Items(new, q)) /\ Items(new, q)[i] = o
      <4>1. CASE q # last
        BY <1>4, <3>0, <4>1
      <4>2. CASE q = last
        BY <1>7, <1>8, <3>0, <4>2
      <4>3. QED
        BY <4>1, <4>2
    <3>4. QED
      BY <3>3
  <2>3. QED
    BY <2>1, <2>2
<1>12. Accounted(new)
  <2>1. \A q \in A : new.first \in 1..q
    BY <1>2, <1>3, AccountedIs
  <2>2. ASSUME NEW p \in A, NEW q \in A, p < q
        PROVE  /\ objs[p].next \in p + 1..q
               /\ Filled(Items(new, p)) = 1..Len(Items(new, p))
               /\ \A i \in Filled(Items(new, p)), j \in Filled(Items(new, q)) : Items(new, p)[i] < Items(new, q)[j]
    <3>1. /\ old[p].next \in p + 1..q
          /\ Filled(Items(file, p)) = 1..Len(Items(file, p))
          /\ \A i \in Filled(Items(file, p)), j \in Filled(Items(file, q)) : Items(file, p)[i] < Items(file, q)[j]
      BY <1>1, <1>2, <1>3, <2>2, AccountedIs
    <3>2. p # last
      BY <1>2, <2>2
    <3>3. ASSUME NEW i \in Filled(Items(new, p)), NEW j \in Filled(Items(new, q))
          PROVE  Items(new, p)[i] < Items(new, q)[j]
      <4>1. i \in Filled(Items(file, p)) /\ Items(new, p)[i] = Items(file, p)[i]
        BY <1>4, <3>2
      <4>2. CASE q # last
        BY <1>4, <3>1, <4>1, <4>2
      <4>3. CASE q = last /\ j = slot
        BY <1>1, <1>9, <4>1, <4>3
      <4>4. CASE q = last /\ j # slot
        <5>1. j \in 1..slot - 1
          BY <1>7, <4>4
        <5>2. j \in Filled(Items(file, q)) /\ Items(new, q)[j] = Items(file, q)[j]
          BY <1>7, <1>8, <4>4, <5>1
        <5>3. QED
          BY <3>1, <4>1, <5>2
      <4>5. QED
        BY <4>2, <4>3, <4>4
    <3>4. QED
      BY <1>4, <3>1, <3>2, <3>3
  <2>3. ASSUME NEW q \in A, NEW i \in Filled(Items(new, q)), NEW j \in Filled(Items(new, q)), i < j
        PROVE  Items(new, q)[i] < Items(new, q)[j]
    <3>1. \A k, l \in Filled(Items(file, q)) : k < l => Items(file, q)[k] < Items(file, q)[l]
      BY <1>2, <1>3, AccountedIs
    <3>2. CASE q # last
      BY <1>4, <2>3, <3>1, <3>2
    <3>3. CASE q = last
      <4>1. i \in 1..slot - 1 /\ j \in 1..slot
        BY <1>7, <2>3, <3>3
      <4>2. i \in Filled(Items(file, q)) /\ Items(new, q)[i] = Items(file, q)[i]
        BY <1>7, <1>8, <3>3, <4>1
      <4>3. CASE j = slot
        BY <1>1, <1>9, <3>3, <4>2, <4>3
      <4>4. CASE j # slot
        <5>1. j \in 1..slot - 1
          BY <4>1, <4>4
        <5>2. j \in Filled(Items(file, q)) /\ Items(new, q)[j] = Items(file, q)[j]
          BY <1>7, <1>8, <3>3, <5>1
        <5>3. QED
          BY <2>3, <3>1, <4>2, <5>2
      <4>5. QED
        BY <4>3, <4>4
    <3>4. QED
      BY <3>2, <3>3
  <2>4. \A o \in CountedIn(new) : IsListed(new, o)
    BY <1>4, <1>11 DEF CountedIn, EntriesOf
  <2>5. QED
    BY <1>1, <1>5, <2>1, <2>2, <2>3, <2>4, AccountedIs
<1>13. QED
  BY <1>1, <1>2, <1>4, <1>5, <1>10, <1>11, <1>12, KeptIs DEF Settled

\* An array is hung from the chain: from the last array in it, or from the header.
LEMMA ChainKeeps ==
    ASSUME NEW file \in FileType, Kept(file), ArrayHangs(file),
           NEW new, NEW p, p = Latest(ArraysOf(file) \ {Len(file.objs)}), Relinked(file, new, p),
           \A q \in ArraysOf(file) : Items(new, q) = Items(file, q),
           IF p = 0 THEN new.first = Len(file.objs)
           ELSE new.first = file.first /\ new.objs[p].next = Len(file.objs)
    PROVE  Kept(new) /\ Settled(new) /\ EntriesOf(new) = EntriesOf(file)
<1>1. PICK n, objs, old, E, A, C : /\ n = Len(file.objs) /\ objs = new.objs /\ old = file.objs
                                  /\ E = EntriesOf(file) /\ A = ArraysOf(file) /\ C = ArraysOf(file) \ {n}
  OBVIOUS
<1>2. /\ n \in Nat /\ Slots \in Nat \ {0} /\ E \subseteq 1..n /\ A \subseteq 1..n
      /\ C = A \ {n} /\ new \in FileType /\ Linked(file) = C /\ n \in A /\ n - 1 \in E
      /\ \A o \in E : IsListed(file, o) <=> o # n - 1
      /\ \A q \in C : Items(file, q)[Slots] # 0
      /\ Items(file, n)[1] = n - 1 /\ \A i \in 2..Slots : Items(file, n)[i] = 0
      /\ old[n].next = 0
      /\ p = Latest(C)
  BY <1>1, FileParts, SizesAreNat DEF Relinked, EntriesOf, ArraysOf, ArrayHangs
<1>3. Sound(file) /\ Accounted(file)
  BY KeptIs
<1>4. /\ EntriesOf(new) = E /\ ArraysOf(new) = A
      /\ CountedIn(new) = CountedIn(file)
      /\ Len(objs) <= new.extent
      /\ \A o \in E : objs[o].data \in 1..o - 1 /\ objs[objs[o].data].type = "data"
      /\ \A q \in A : Items(new, q) = Items(file, q)
      /\ \A q \in A : q # p => objs[q].next = old[q].next
  BY <1>1, <1>3, RelinkedParts
<1>5. IF C = {} THEN p = 0 ELSE p \in C /\ \A q \in C : q <= p
  <2>1. CASE C = {}
    BY <1>2, <2>1 DEF Latest
  <2>2. CASE C # {}
    <3>1. C \in SUBSET Nat /\ \A q \in C : q <= n
      BY <1>2
    <3>2. QED
      BY <1>2, <2>2, <3>1, LatestIs
  <2>3. QED
    BY <2>1, <2>2
<1>15. ASSUME NEW q \in C
       PROVE  p # 0 /\ p \in C /\ q <= p /\ p \in 1..n - 1 /\ q \in 1..n - 1
  <2>1. C # {}
    OBVIOUS
  <2>2. p \in C /\ q <= p
    BY <1>5, <2>1, Zenon
  <2>3. p \in 1..n /\ q \in 1..n /\ p # n /\ q # n
    BY <1>2, <2>2
  <2>4. QED
    BY <1>2, <2>2, <2>3
<1>6. ASSUME NEW q \in A
      PROVE  /\ Len(Items(file, q)) = Slots
             /\ old[q].next \in (A \ 1..q) \cup {0}
             /\ \A i \in Filled(Items(file, q)) : Items(file, q)[i] \in E
             /\ \A i \in 1..Slots : Items(file, q)[i] # 0 => i \in Filled(Items(file, q))
  BY <1>1, <1>3 DEF Sound
<1>7. Filled(Items(file, n)) = {1} /\ E \subseteq 1..n - 1 /\ n - 1 # 0
  <2>1. n - 1 # 0 /\ n \notin E
    BY <1>1, <1>2 DEF EntriesOf, ArraysOf, OffsetsOf
  <2>2. Len(Items(file, n)) = Slots /\ Items(file, n)[1] # 0
    BY <1>2, <1>6, <2>1
  <2>3. Filled(Items(file, n)) = {1}
    BY <1>2, <2>2, OnePlace
  <2>4. QED
    BY <1>2, <2>1, <2>3
\* The chain ended in p: its next array would be in the chain, and after the last.
<1>8. p # 0 => old[p].next = 0
  <2> SUFFICES ASSUME p # 0, old[p].next # 0
               PROVE  FALSE
    OBVIOUS
  <2>1. p \in C /\ p \in A /\ \A q \in C : q <= p
    BY <1>2, <1>5
  <2>2. PICK q : q = old[p].next /\ q \in A \ 1..p
    BY <1>6, <2>1
  <2>3. q \in Linked(file)
    BY <1>1, <2>1, <2>2 DEF Linked, ArraysOf
  <2>4. q \in C
    BY <1>2, <2>3
  <2>5. q \in 1..n - 1 /\ p \in 1..n - 1 /\ q \notin 1..p /\ q <= p
    BY <1>15, <2>2, <2>4
  <2>6. QED
    BY <1>2, <2>5
<1>9. Linked(new) = A
  <2> SUFFICES ASSUME NEW q \in A
               PROVE  q = new.first \/ \E r \in A : objs[r].next = q
    BY <1>1, <1>4 DEF Linked, ArraysOf
  <2>1. CASE q = n
    BY <1>1, <1>2, <1>5, <2>1
  <2>2. CASE q # n
    <3>1. q \in C /\ q \in Linked(file) /\ q # 0 /\ p # 0
      BY <1>2, <1>5, <2>2
    <3>2. q = file.first \/ \E r \in A : old[r].next = q
      BY <1>1, <3>1 DEF Linked, ArraysOf
    <3>3. CASE q = file.first
      BY <3>1, <3>3
    <3>4. CASE q # file.first
      <4>1. PICK r \in A : old[r].next = q
        BY <3>2, <3>4
      <4>2. objs[r].next = q
        BY <1>4, <1>8, <3>1, <4>1
      <4>3. QED
        BY <4>2
    <3>5. QED
      BY <3>3, <3>4
  <2>3. QED
    BY <2>1, <2>2
<1>10. Sound(new)
  <2>1. ASSUME NEW q \in A
        PROVE  objs[q].next \in (A \ 1..q) \cup {0}
    <3>1. CASE q # p
      BY <1>4, <1>6, <3>1
    <3>2. CASE q = p
      <4>1. p # 0 /\ p \in C
        BY <1>2, <1>5, <3>2
      <4>2. objs[q].next = n /\ p < n /\ n \in A /\ p \in 1..n
        BY <1>1, <1>2, <3>2, <4>1
      <4>3. QED
        BY <1>2, <3>2, <4>2
    <3>3. QED
      BY <3>1, <3>2
  <2>2. new.first \in A \cup {0}
    <3>1. file.first \in A \cup {0}
      BY <1>1, <1>3 DEF Sound
    <3>2. QED
      BY <1>1, <1>2, <3>1
  <2>3. QED
    BY <1>1, <1>4, <1>6, <2>1, <2>2 DEF Sound
<1>11. \A o \in E : IsListed(new, o)
  <2> SUFFICES ASSUME NEW o \in E
               PROVE  \E q \in A : \E i \in Filled(Items(new, q)) : Items(new, q)[i] = o
    BY <1>9, Zenon DEF IsListed
  <2>1. CASE o = n - 1
    <3>1. 1 \in Filled(Items(new, n)) /\ Items(new, n)[1] = o
      BY <1>2, <1>4, <1>7, <2>1
    <3>2. QED
      BY <1>2, <3>1
  <2>2. CASE o # n - 1
    <3>1. \E q \in C : \E i \in Filled(Items(file, q)) : Items(file, q)[i] = o
      BY <1>2, <2>2, Zenon DEF IsListed
    <3>2. QED
      BY <1>2, <1>4, <3>1
  <2>3. QED
    BY <2>1, <2>2
<1>12. ASSUME NEW q \in C, NEW i \in Filled(Items(file, q))
       PROVE  Items(file, q)[i] < n - 1
  <2>1. Items(file, q)[i] \in E
    BY <1>2, <1>6
  <2>2. IsListed(file, Items(file, q)[i])
    BY <1>2 DEF IsListed
  <2>3. PICK v : v = Items(file, q)[i]
    OBVIOUS
  <2>4. v \in 1..n - 1 /\ v # n - 1
    BY <1>2, <1>7, <2>1, <2>2, <2>3
  <2>5. QED
    BY <1>2, <2>3, <2>4
<1>13. Accounted(new)
  <2>1. /\ \A q \in C : file.first \in 1..q
        /\ \A r, q \in C : r < q =>
              /\ old[r].next \in r + 1..q
              /\ Filled(Items(file, r)) = 1..Len(Items(file, r))
              /\ \A i \in Filled(Items(file, r)), j \in Filled(Items(file, q)) : Items(file, r)[i] < Items(file, q)[j]
        /\ \A q \in C : \A i, j \in Filled(Items(file, q)) : i < j => Items(file, q)[i] < Items(file, q)[j]
    BY <1>1, <1>2, <1>3, AccountedIs
  <2>2. ASSUME NEW q \in A
        PROVE  new.first \in 1..q
    <3>1. CASE p = 0
      <4>1. new.first = n /\ q = n /\ n \in 1..n
        BY <1>1, <1>2, <1>5, <3>1
      <4>2. QED
        BY <4>1
    <3>2. CASE p # 0
      <4>1. new.first = file.first /\ p \in C /\ file.first \in 1..p /\ p \in 1..n
        BY <1>2, <1>5, <2>1, <3>2
      <4>2. CASE q = n
        BY <1>2, <4>1, <4>2
      <4>3. CASE q # n
        BY <1>2, <2>1, <4>1, <4>3
      <4>4. QED
        BY <4>2, <4>3
    <3>3. QED
      BY <3>1, <3>2
  <2>3. ASSUME NEW r \in A, NEW q \in A, r < q
        PROVE  /\ objs[r].next \in r + 1..q
               /\ Filled(Items(new, r)) = 1..Len(Items(new, r))
               /\ \A i \in Filled(Items(new, r)), j \in Filled(Items(new, q)) : Items(new, r)[i] < Items(new, q)[j]
    <3>1. r \in C /\ r \in 1..n /\ q \in 1..n /\ r # n
      BY <1>2, <2>3
    <3>2. p # 0 /\ p \in C /\ r <= p /\ p \in 1..n /\ p < n
      <4>1. p # 0 /\ p \in C /\ r <= p /\ p \in 1..n - 1
        BY <1>15, <3>1
      <4>2. QED
        BY <1>2, <4>1
    <3>3. CASE q # n
      <4>1. q \in C /\ q <= p /\ r # p
        <5>1. q \in C
          BY <1>2, <3>3
        <5>2. q <= p
          BY <1>15, <5>1
        <5>3. QED
          BY <2>3, <3>1, <3>2, <5>1, <5>2
      <4>2. QED
        BY <1>2, <1>4, <2>1, <2>3, <3>1, <4>1
    <3>4. CASE q = n
      <4>1. objs[r].next \in r + 1..q
        <5>1. CASE r = p
          BY <1>1, <1>2, <3>1, <3>2, <3>4, <5>1
        <5>2. CASE r # p
          <6>1. r < p
            BY <3>1, <3>2, <5>2
          <6>2. old[r].next \in r + 1..p
            BY <2>1, <3>1, <3>2, <6>1
          <6>3. objs[r].next = old[r].next
            BY <1>4, <5>2
          <6>4. QED
            BY <1>2, <3>1, <3>2, <3>4, <6>2, <6>3
        <5>3. QED
          BY <5>1, <5>2
      <4>2. Filled(Items(new, r)) = 1..Len(Items(new, r))
        <5>1. Slots \in 1..Slots /\ Items(file, r)[Slots] # 0
          BY <1>2, <3>1
        <5>2. Slots \in Filled(Items(file, r)) /\ Len(Items(file, r)) = Slots
          BY <1>6, <5>1
        <5>3. \A i \in 1..Slots : Items(file, r)[i] # 0
          BY <5>2 DEF Filled
        <5>4. Filled(Items(file, r)) = 1..Slots
          BY <1>6, <5>2, <5>3 DEF Filled
        <5>5. QED
          BY <1>4, <5>2, <5>4
      <4>3. \A i \in Filled(Items(new, r)), j \in Filled(Items(new, q)) : Items(new, r)[i] < Items(new, q)[j]
        BY <1>2, <1>4, <1>7, <1>12, <3>1, <3>4
      <4>4. QED
        BY <4>1, <4>2, <4>3
    <3>5. QED
      BY <3>3, <3>4
  <2>4. ASSUME NEW q \in A, NEW i \in Filled(Items(new, q)), NEW j \in Filled(Items(new, q)), i < j
        PROVE  Items(new, q)[i] < Items(new, q)[j]
    <3>1. CASE q = n
      BY <1>4, <1>7, <2>4, <3>1
    <3>2. CASE q # n
      BY <1>2, <1>4, <2>1, <2>4, <3>2
    <3>3. QED
      BY <3>1, <3>2
  <2>5. \A o \in CountedIn(new) : IsListed(new, o)
    BY <1>4, <1>11 DEF CountedIn, EntriesOf
  <2>6. QED
    BY <1>1, <1>9, <2>2, <2>3, <2>4, <2>5, AccountedIs
<1>14. QED
  BY <1>1, <1>2, <1>4, <1>9, <1>10, <1>11, <1>13, KeptIs DEF Settled

\* Extend and Count change numbers of the header only.
LEMMA HeaderKeeps ==
    ASSUME NEW file \in FileType, Kept(file), Settled(file),
           NEW new \in FileType, new.objs = file.objs, new.first = file.first, file.extent <= new.extent
    PROVE  Kept(new) /\ Settled(new) /\ EntriesOf(new) = EntriesOf(file)
<1>1. /\ EntriesOf(new) = EntriesOf(file) /\ ArraysOf(new) = ArraysOf(file) /\ Linked(new) = Linked(file)
      /\ \A q : Items(new, q) = Items(file, q)
  BY DEF EntriesOf, ArraysOf, Linked, Items
<1>2. \A o : IsListed(new, o) <=> IsListed(file, o)
  BY <1>1 DEF IsListed
<1>3. Settled(new)
  BY <1>1, <1>2 DEF Settled
<1>4. Sound(file) /\ Accounted(file)
  BY KeptIs
<1>5. Sound(new)
  <2>1. Len(file.objs) <= new.extent
    <3>1. Len(file.objs) <= file.extent /\ Len(file.objs) \in Nat /\ file.extent \in Nat /\ new.extent \in Nat
      BY <1>4, FileParts DEF Sound
    <3>2. QED
      BY <3>1
  <2>2. QED
    BY <1>1, <1>4, <2>1 DEF Sound
<1>6. \A o \in CountedIn(new) : IsListed(new, o)
  BY <1>3 DEF CountedIn, EntriesOf, Settled
<1>7. Accounted(new)
  <2>1. /\ \A q \in Linked(file) : file.first \in 1..q
        /\ \A p, q \in Linked(file) : p < q =>
              /\ file.objs[p].next \in p + 1..q
              /\ Filled(Items(file, p)) = 1..Len(Items(file, p))
              /\ \A i \in Filled(Items(file, p)), j \in Filled(Items(file, q)) : Items(file, p)[i] < Items(file, q)[j]
        /\ \A q \in Linked(file) : \A i, j \in Filled(Items(file, q)) : i < j => Items(file, q)[i] < Items(file, q)[j]
    BY <1>4, AccountedIs, Zenon
  <2>2. QED
    BY <1>1, <1>6, <2>1, AccountedIs
<1>8. QED
  BY <1>1, <1>3, <1>5, <1>7, KeptIs

\* What never changes in a file: data and entries, the places that are taken, and
\* the links of the chain.
Grows(file, new) ==
    /\ file.extent <= new.extent /\ file.count <= new.count
    /\ Len(file.objs) <= Len(new.objs)
    /\ file.first # 0 => new.first = file.first
    /\ \A o \in 1..Len(file.objs) :
          /\ new.objs[o].type = file.objs[o].type
          /\ file.objs[o].type # "array" => new.objs[o] = file.objs[o]
    /\ \A q \in ArraysOf(file) :
          /\ file.objs[q].next # 0 => new.objs[q].next = file.objs[q].next
          /\ Len(Items(new, q)) = Len(Items(file, q))
          /\ \A i \in Filled(Items(file, q)) : i \in Filled(Items(new, q)) /\ Items(new, q)[i] = Items(file, q)[i]

\* Write changes nothing that is there.
LEMMA AppendedGrows ==
    ASSUME NEW file \in FileType, NEW new, Appended(file, new)
    PROVE  Grows(file, new)
<1>1. /\ Len(file.objs) \in Nat /\ file.extent \in Nat /\ file.count \in Nat
      /\ ArraysOf(file) \subseteq 1..Len(file.objs)
  BY FileParts DEF ArraysOf
<1>2. /\ new.extent = file.extent /\ new.count = file.count /\ new.first = file.first
      /\ \A i \in 1..Len(file.objs) : new.objs[i] = file.objs[i]
      /\ \E e \in {Len(file.objs) + 1, Len(file.objs) + 2} : Len(new.objs) \in {e, e + 1}
  BY DEF Appended
<1>3. Len(file.objs) <= Len(new.objs)
  BY <1>1, <1>2
<1>4. \A q \in ArraysOf(file) : new.objs[q] = file.objs[q] /\ Items(new, q) = Items(file, q)
  BY <1>1, <1>2 DEF Items
<1>5. QED
  BY <1>1, <1>2, <1>3, <1>4 DEF Grows

\* The item or the link that is set was empty.
LEMMA RelinkedGrows ==
    ASSUME NEW file \in FileType, NEW new, NEW p, Relinked(file, new, p),
           file.first # 0 => new.first = file.first,
           p # 0 => /\ file.objs[p].next # 0 => new.objs[p].next = file.objs[p].next
                    /\ Len(Items(new, p)) = Len(Items(file, p))
                    /\ \A i \in 1..Len(Items(file, p)) : Items(file, p)[i] # 0 => Items(new, p)[i] = Items(file, p)[i]
    PROVE  Grows(file, new)
<1>1. /\ Len(file.objs) \in Nat /\ file.extent \in Nat /\ file.count \in Nat
      /\ ArraysOf(file) \subseteq 1..Len(file.objs)
      /\ \A q \in ArraysOf(file) : file.objs[q].type = "array"
  BY FileParts DEF ArraysOf, OffsetsOf
<1>2. /\ new.extent = file.extent /\ new.count = file.count /\ Len(new.objs) = Len(file.objs)
      /\ p \in ArraysOf(file) \cup {0}
      /\ \A i \in 1..Len(file.objs) : i # p => new.objs[i] = file.objs[i]
      /\ p # 0 => new.objs[p].type = "array"
  BY DEF Relinked
<1>3. \A o \in 1..Len(file.objs) :
          /\ new.objs[o].type = file.objs[o].type
          /\ file.objs[o].type # "array" => new.objs[o] = file.objs[o]
  BY <1>1, <1>2
<1>4. ASSUME NEW q \in ArraysOf(file)
      PROVE  /\ file.objs[q].next # 0 => new.objs[q].next = file.objs[q].next
             /\ Len(Items(new, q)) = Len(Items(file, q))
             /\ \A i \in Filled(Items(file, q)) : i \in Filled(Items(new, q)) /\ Items(new, q)[i] = Items(file, q)[i]
  <2>1. CASE q # p
    <3>1. new.objs[q] = file.objs[q] /\ Items(new, q) = Items(file, q)
      BY <1>1, <1>2, <2>1 DEF Items
    <3>2. QED
      BY <3>1
  <2>2. CASE q = p
    <3>1. q # 0
      BY <1>1
    <3>2. \A i \in Filled(Items(file, q)) : \A j \in 1..i : Items(file, q)[j] # 0 /\ j \in 1..Len(Items(file, q))
      BY DEF Filled
    <3>3. \A i \in Filled(Items(file, q)) : \A j \in 1..i : Items(new, q)[j] # 0
      BY <2>2, <3>1, <3>2
    <3>4. \A i \in Filled(Items(file, q)) : i \in 1..i /\ i \in 1..Len(Items(file, q))
      BY DEF Filled
    <3>5. QED
      BY <2>2, <3>1, <3>2, <3>3, <3>4 DEF Filled
  <2>3. QED
    BY <2>1, <2>2
<1>5. QED
  BY <1>1, <1>2, <1>3, <1>4 DEF Grows

\* Link sets one of three.
LEMMA LinkShape ==
    ASSUME files[Live] \in FileType, Kept(files[Live]), EntryHangs(files[Live]) \/ ArrayHangs(files[Live]), Link,
           files \in [File -> FileType], Live \in File
    PROVE  \E new \in FileType :
              /\ files' = [files EXCEPT ![Live] = new]
              /\ Kept(new) /\ Settled(new) /\ EntriesOf(new) = EntriesOf(files[Live])
              /\ new.count = files[Live].count
              /\ Grows(files[Live], new)
<1>1. PICK file, n, objs, A, last : /\ file = files[Live] /\ objs = file.objs /\ objs = Objs /\ n = Len(objs)
                                   /\ A = ArraysOf(file) /\ A = OffsetsOf(Objs, "array") /\ last = LastArray
  BY DEF Objs, ArraysOf
<1>2. /\ file \in FileType /\ n \in Nat /\ A \subseteq 1..n /\ Slots \in Nat \ {0}
      /\ objs \in Seq(ObjectType) /\ \A o \in 1..n : objs[o] \in ObjectType
      /\ \A q \in A : Items(file, q) \in Seq(Nat) /\ objs[q].type = "array" /\ Len(Items(file, q)) = Slots
      /\ \A q \in A : objs[q] \in [type : {"array"}, items : Seq(Nat), next : Nat]
  <2>1. /\ file \in FileType /\ n \in Nat /\ A \subseteq 1..n /\ Slots \in Nat \ {0}
        /\ objs \in Seq(ObjectType) /\ \A o \in 1..n : objs[o] \in ObjectType
        /\ \A q \in A : Items(file, q) \in Seq(Nat) /\ objs[q].type = "array" /\ Len(Items(file, q)) = Slots
    BY <1>1, FileParts, SizesAreNat DEF ArraysOf, OffsetsOf, Kept
  <2>2. QED
    BY <2>1, ObjectParts
\* What changing one array, or the header, makes of the file.
<1>3. ASSUME NEW p \in A, NEW x \in [type : {"array"}, items : Seq(Nat), next : Nat]
      PROVE  \E new : /\ new = [file EXCEPT !.objs = [objs EXCEPT ![p] = x]]
                      /\ Relinked(file, new, p) /\ new.first = file.first /\ new.count = file.count /\ new.objs[p] = x
  <2>0. PICK new : new = [file EXCEPT !.objs = [objs EXCEPT ![p] = x]]
    OBVIOUS
  <2>1. x \in ObjectType
    BY <1>3 DEF ObjectType
  <2>2. p \in 1..Len(objs)
    BY <1>1, <1>2
  <2>3. PICK s : s = [objs EXCEPT ![p] = x]
    OBVIOUS
  <2>4. s \in Seq(ObjectType) /\ Len(s) = n /\ \A j \in 1..n : s[j] = IF j = p THEN x ELSE objs[j]
    BY <1>1, <1>2, <2>1, <2>2, <2>3, ExceptSeq
  <2>5. /\ new \in FileType /\ new.objs = s
        /\ new.extent = file.extent /\ new.count = file.count /\ new.first = file.first
    BY <1>2, <2>0, <2>3, <2>4 DEF FileType
  <2>6. Relinked(file, new, p)
    BY <1>1, <1>2, <2>2, <2>4, <2>5 DEF Relinked
  <2>7. QED
    BY <1>1, <1>2, <2>0, <2>2, <2>4, <2>5, <2>6
<1>4. A # {} => last \in A /\ last = Latest(A)
  BY <1>1, <1>2, LatestArray DEF LastArray
<1>5. CASE objs[n].type # "array"
  <2>1. EntryHangs(file)
    BY <1>1, <1>5 DEF ArrayHangs, ArraysOf, OffsetsOf
  <2>2. A # {} /\ last \in A /\ last = Latest(A) /\ Items(file, last)[Slots] = 0
    BY <1>1, <1>4, <2>1 DEF EntryHangs
  <2>3. PICK items : items = Items(file, last)
    OBVIOUS
  <2>4. items \in Seq(Nat) /\ Len(items) = Slots /\ items = objs[last].items
    BY <1>1, <1>2, <2>2, <2>3 DEF Items
  <2>5. PICK slot : slot = CHOOSE i \in 1..Slots : items[i] = 0 /\ \A j \in 1..i - 1 : items[j] # 0
    OBVIOUS
  <2>6. slot \in 1..Slots /\ items[slot] = 0 /\ \A j \in 1..slot - 1 : items[j] # 0
    <3>1. PICK Z : Z = {i \in 1..Slots : items[i] = 0}
      OBVIOUS
    <3>2. Z \in SUBSET Nat /\ (\A z \in Z : z <= Slots) /\ Z # {}
      BY <1>2, <2>2, <2>3, <3>1
    <3>3. PICK m \in Z : \A z \in Z : m <= z
      BY <1>2, <3>2, LeastThereIs
    <3>4. m \in 1..Slots /\ items[m] = 0 /\ \A j \in 1..m - 1 : items[j] # 0
      BY <1>2, <3>1, <3>3
    <3>5. QED
      BY <2>5, <3>4
  <2>7. PICK x : x = [objs[last] EXCEPT !.items = [items EXCEPT ![slot] = n]]
    OBVIOUS
  <2>8. PICK i2 : i2 = [items EXCEPT ![slot] = n]
    OBVIOUS
  <2>9. i2 \in Seq(Nat) /\ Len(i2) = Slots /\ \A j \in 1..Slots : i2[j] = IF j = slot THEN n ELSE items[j]
    BY <1>2, <2>4, <2>6, <2>8, ExceptSeq
  <2>10. x \in [type : {"array"}, items : Seq(Nat), next : Nat] /\ x.items = i2 /\ x.next = objs[last].next
    BY <1>2, <2>2, <2>7, <2>8, <2>9
  <2>11. PICK new : /\ new = [file EXCEPT !.objs = [objs EXCEPT ![last] = x]]
                    /\ Relinked(file, new, last) /\ new.first = file.first /\ new.count = file.count /\ new.objs[last] = x
    BY <1>3, <2>2, <2>10
  <2>12. Relinked(file, new, last) /\ new.first = file.first /\ new.count = file.count /\ new.objs[last] = x
    BY <2>11
  <2>13. Len(Items(new, last)) = Slots /\ Items(new, last) = i2 /\ new.objs[last].next = file.objs[last].next
    BY <1>1, <2>9, <2>10, <2>12 DEF Items
  <2>14. Items(new, last)[slot] = Len(file.objs) /\ \A i \in 1..Slots : i # slot => Items(new, last)[i] = Items(file, last)[i]
    BY <1>1, <2>3, <2>6, <2>9, <2>13
  <2>15. Kept(new) /\ Settled(new) /\ EntriesOf(new) = EntriesOf(file)
    <3>1. /\ file \in FileType /\ Kept(file) /\ last = Latest(ArraysOf(file))
          /\ Items(file, last)[slot] = 0 /\ \A j \in 1..slot - 1 : Items(file, last)[j] # 0
      BY <1>1, <1>2, <2>2, <2>3, <2>6
    <3>2. QED
      BY <2>1, <2>6, <2>12, <2>13, <2>14, <3>1, PlaceKeeps
  <2>16. Grows(file, new)
    BY <1>2, <2>2, <2>3, <2>4, <2>6, <2>12, <2>13, <2>14, RelinkedGrows
  <2>17. files' = [files EXCEPT ![Live] = new]
    <3>1. files' = [files EXCEPT ![Live].objs[last].items[slot] = n]
      BY <1>1, <1>5, <2>4, <2>5 DEF Link
    <3>2. QED
      BY <1>1, <2>4, <2>7, <2>11, <3>1
  <2>18. new \in FileType
    BY <2>12 DEF Relinked
  <2>19. QED
    BY <1>1, <2>12, <2>15, <2>16, <2>17, <2>18
<1>6. CASE objs[n].type = "array"
  <2>1. ArrayHangs(file) /\ n \in A
    BY <1>1, <1>6 DEF EntryHangs, ArrayHangs, EntriesOf, OffsetsOf
  <2>2. PICK p : p = Latest(A \ {n})
    OBVIOUS
  <2>3. CASE A = {n}
    <3>1. p = 0
      BY <2>2, <2>3 DEF Latest
    <3>2. PICK new : new = [file EXCEPT !.first = n]
      OBVIOUS
    <3>3. /\ new \in FileType /\ new.objs = objs /\ new.first = n
          /\ new.extent = file.extent /\ new.count = file.count
      BY <1>1, <1>2, <3>2 DEF FileType
    <3>4. Relinked(file, new, p)
      BY <1>1, <3>1, <3>3 DEF Relinked
    <3>5. \A q \in A : Items(new, q) = Items(file, q)
      BY <1>1, <3>3 DEF Items
    <3>6. Kept(new) /\ Settled(new) /\ EntriesOf(new) = EntriesOf(file)
      BY <1>1, <1>2, <2>1, <2>2, <3>1, <3>3, <3>4, <3>5, ChainKeeps
    <3>7. file.first = 0
      <4>1. Linked(file) = {}
        BY <1>1, <2>1, <2>3 DEF ArrayHangs
      <4>2. file.first \in A \cup {0}
        BY <1>1, <1>2, KeptIs DEF Sound
      <4>3. QED
        BY <1>1, <4>1, <4>2 DEF Linked, ArraysOf
    <3>8. Grows(file, new)
      BY <1>2, <3>1, <3>4, <3>7, RelinkedGrows
    <3>9. files' = [files EXCEPT ![Live] = new]
      BY <1>1, <1>6, <2>3, <3>2 DEF Link
    <3>10. QED
      BY <1>1, <3>3, <3>6, <3>8, <3>9
  <2>4. CASE A # {n}
    <3>1. p \in A \ {n} /\ p # 0 /\ \A q \in A \ {n} : q <= p
      <4>1. PICK C : C = A \ {n}
        OBVIOUS
      <4>2. C \in SUBSET Nat /\ C # {} /\ \A c \in C : c <= n
        BY <1>2, <2>1, <2>4, <4>1
      <4>3. Latest(C) \in C /\ \A q \in C : q <= Latest(C)
        BY <1>2, <4>2, LatestIs
      <4>4. QED
        <5>1. p = Latest(C)
          BY <2>2, <4>1
        <5>2. p \in C /\ \A q \in C : q <= p
          BY <4>3, <5>1
        <5>3. QED
          BY <1>2, <4>1, <5>2
    <3>2. PICK x : x = [objs[p] EXCEPT !.next = n]
      OBVIOUS
    <3>3. x \in [type : {"array"}, items : Seq(Nat), next : Nat] /\ x.items = objs[p].items /\ x.next = n
      BY <1>2, <3>1, <3>2
    <3>4. PICK new : /\ new = [file EXCEPT !.objs = [objs EXCEPT ![p] = x]]
                     /\ Relinked(file, new, p) /\ new.first = file.first /\ new.count = file.count /\ new.objs[p] = x
      BY <1>3, <3>1, <3>3
    <3>5. Relinked(file, new, p) /\ new.first = file.first /\ new.count = file.count /\ new.objs[p] = x
      BY <3>4
    <3>6. \A q \in A : Items(new, q) = Items(file, q)
      <4>1. \A q \in A : q # p => new.objs[q] = objs[q]
        BY <1>1, <1>2, <3>5 DEF Relinked
      <4>2. QED
        BY <1>1, <3>3, <3>5, <4>1 DEF Items
    <3>7. new.objs[p].next = n
      BY <3>3, <3>5
    <3>8. Kept(new) /\ Settled(new) /\ EntriesOf(new) = EntriesOf(file)
      BY <1>1, <1>2, <2>1, <2>2, <3>1, <3>5, <3>6, <3>7, ChainKeeps
    <3>9. objs[p].next = 0
      <4>1. Linked(file) = A \ {n} /\ objs[p].next \in (A \ 1..p) \cup {0} /\ objs[n].next = 0
        BY <1>1, <1>2, <2>1, <3>1, KeptIs DEF ArrayHangs, Sound
      <4>2. ASSUME objs[p].next # 0
            PROVE  FALSE
        <5>1. PICK q : q = objs[p].next /\ q \in A /\ q \notin 1..p
          BY <4>1, <4>2
        <5>2. q \in Linked(file)
          BY <1>1, <3>1, <5>1 DEF Linked, ArraysOf
        <5>3. q \in 1..n /\ p \in 1..n /\ q <= p
          BY <1>2, <3>1, <4>1, <5>1, <5>2
        <5>4. QED
          BY <5>1, <5>3
      <4>3. QED
        BY <4>2
    <3>10. Grows(file, new)
      BY <1>1, <1>2, <3>1, <3>5, <3>6, <3>9, RelinkedGrows
    <3>11. files' = [files EXCEPT ![Live] = new]
      <4>1. files' = [files EXCEPT ![Live].objs[p].next = n]
        BY <1>1, <1>6, <2>2, <2>4 DEF Link
      <4>2. QED
        BY <1>1, <3>2, <3>4, <4>1
    <3>12. new \in FileType
      BY <3>5 DEF Relinked
    <3>13. QED
      BY <1>1, <3>5, <3>8, <3>10, <3>11, <3>12
  <2>5. QED
    BY <2>3, <2>4
<1>7. QED
  BY <1>5, <1>6

-----------------------------------------------------------------------------
(* journald's steps, and what they leave to a reader.                       *)

\* What a reader may count on whatever journald does.
Moves ==
    /\ \A f \in File : Grows(files[f], files'[f])
    /\ files'["s"] = files["s"] /\ access'["s"] = access["s"] /\ dir'["system"] = dir["system"]
    /\ \A f \in File : access[f] = "readable" => access'[f] = "readable"
    /\ dir["archive"] = "a" => dir'["archive"] = "a"
    /\ dir'["archive"] # "a" => dir' = dir
    /\ ~disturbed' => ~disturbed /\ (phase \in {"stat", "header"} => dir' = dir /\ access' = access)
    /\ reader' = reader /\ promised' = promised

\* A file that stays as it is, and the first header of one.
LEMMA GrowsToo ==
    ASSUME NEW file \in FileType
    PROVE  /\ Grows(file, file)
           /\ \A new \in FileType : /\ new.objs = file.objs /\ new.first = file.first
                                    /\ file.extent <= new.extent /\ file.count <= new.count
                                    => Grows(file, new)
<1>1. Len(file.objs) \in Nat /\ file.extent \in Nat /\ file.count \in Nat
  BY FileParts
<1>2. ASSUME NEW new \in FileType, new.objs = file.objs, new.first = file.first,
             file.extent <= new.extent, file.count <= new.count
      PROVE  Grows(file, new)
  BY <1>1, <1>2 DEF Grows, Items
<1>3. QED
  BY <1>1, <1>2

\* A file with nothing in it.
LEMMA EmptyKept ==
    ASSUME NEW file \in FileType, file.objs = <<>>, file.first = 0, file.count = 0
    PROVE  Kept(file) /\ Settled(file) /\ file.count = Cardinality(EntriesOf(file))
<1>1. Len(file.objs) = 0 /\ file.extent \in Nat
  BY FileParts
<1>2. EntriesOf(file) = {} /\ ArraysOf(file) = {}
  BY <1>1 DEF EntriesOf, ArraysOf, OffsetsOf
<1>3. Linked(file) = {}
  BY <1>2 DEF Linked, ArraysOf
<1>4. CountedIn(file) = {}
  BY <1>2 DEF CountedIn, EntriesOf
<1>5. Sound(file)
  BY <1>1, <1>2 DEF Sound
<1>6. Accounted(file)
  BY <1>3, <1>4, AccountedIs
<1>7. QED
  BY <1>2, <1>3, <1>5, <1>6, KeptIs, FS_EmptySet DEF Settled

\* A file that has just been made.
LEMMA EmptyFileIs == EmptyFile \in FileType /\ [EmptyFile EXCEPT !.extent = 0] \in FileType
<1>1. <<>> \in Seq(ObjectType) /\ Chunk \in Nat
  BY SizesAreNat
<1>2. QED
  BY <1>1 DEF EmptyFile, FileType

\* What one step of an append does to the file it appends to.
LEMMA LiveStep ==
    ASSUME TypeOK, JournalInv, Extend \/ Link \/ Count \/ \E k \in Kind : Write(k)
    PROVE  /\ \E new \in FileType :
                 /\ files' = [files EXCEPT ![Live] = new]
                 /\ Kept(new) /\ Grows(files[Live], new)
                 /\ new.count + (IF journald' \in {"written", "linked"} THEN 1 ELSE 0) = Cardinality(EntriesOf(new))
                 /\ IF journald' = "written" THEN EntryHangs(new) \/ ArrayHangs(new) ELSE Settled(new)
           /\ Live \in {"a", "b"} /\ access[Live] = "readable"
           /\ journald \in {"idle", "written", "linked"} /\ journald' \in {"idle", "written", "linked"}
           /\ published' \in 0..MaxEntries
           /\ UNCHANGED <<dir, access, reader, promised, disturbed>>
<1>1. /\ journald \in {"idle", "written", "linked"} /\ journald' \in {"idle", "written", "linked"}
      /\ published' \in 0..MaxEntries
      /\ UNCHANGED <<dir, access, reader, promised, disturbed>>
  BY SizesAreNat DEF Extend, Link, Count, Write, TypeOK
<1>2. Live \in {"a", "b"} /\ access[Live] = "readable"
  BY <1>1 DEF JournalInv, PlaceInv, Live
<1>3. /\ files \in [File -> FileType] /\ Live \in File /\ files[Live] \in FileType /\ published \in Nat
      /\ files[Live].extent \in Nat /\ files[Live].count \in Nat /\ Chunk \in Nat
  BY <1>2, FileParts, SizesAreNat DEF TypeOK, File
<1>4. /\ Kept(files[Live])
      /\ files[Live].count + Lag(Live) = Cardinality(EntriesOf(files[Live]))
      /\ IF Loose(Live) THEN EntryHangs(files[Live]) \/ ArrayHangs(files[Live]) ELSE Settled(files[Live])
  BY <1>2 DEF JournalInv, FileInv
<1>5. ASSUME Extend
      PROVE  \E new \in FileType :
                 /\ files' = [files EXCEPT ![Live] = new]
                 /\ Kept(new) /\ Grows(files[Live], new)
                 /\ new.count + (IF journald' \in {"written", "linked"} THEN 1 ELSE 0) = Cardinality(EntriesOf(new))
                 /\ IF journald' = "written" THEN EntryHangs(new) \/ ArrayHangs(new) ELSE Settled(new)
  <2>1. PICK file : file = files[Live] /\ journald = "idle" /\ journald' = "idle"
    BY <1>5 DEF Extend
  <2>2. PICK new : new = [file EXCEPT !.extent = @ + Chunk]
    OBVIOUS
  <2>3. /\ new \in FileType /\ new.objs = file.objs /\ new.first = file.first /\ new.count = file.count
        /\ file.extent <= new.extent /\ file.count <= new.count /\ file \in FileType
    BY <1>3, <2>1, <2>2 DEF FileType
  <2>4. files' = [files EXCEPT ![Live] = new]
    BY <1>3, <1>5, <2>1, <2>2 DEF Extend
  <2>5. Kept(file) /\ Settled(file) /\ file.count + 0 = Cardinality(EntriesOf(file))
    BY <1>4, <2>1 DEF Loose, Lag
  <2>6. Kept(new) /\ Settled(new) /\ EntriesOf(new) = EntriesOf(file)
    BY <2>3, <2>5, HeaderKeeps
  <2>7. Grows(file, new)
    BY <2>3, GrowsToo
  <2>8. QED
    BY <2>1, <2>3, <2>4, <2>5, <2>6, <2>7
<1>6. ASSUME NEW k \in Kind, Write(k)
      PROVE  \E new \in FileType :
                 /\ files' = [files EXCEPT ![Live] = new]
                 /\ Kept(new) /\ Grows(files[Live], new)
                 /\ new.count + (IF journald' \in {"written", "linked"} THEN 1 ELSE 0) = Cardinality(EntriesOf(new))
                 /\ IF journald' = "written" THEN EntryHangs(new) \/ ArrayHangs(new) ELSE Settled(new)
  <2>1. PICK file : /\ file = files[Live] /\ journald = "idle" /\ journald' = "written"
                    /\ file.extent >= Len(file.objs) + 3
    BY <1>6 DEF Write, Objs
  <2>2. PICK new : new = [files[Live] EXCEPT !.objs = @ \o NewObjects(k)]
    OBVIOUS
  <2>3. Appended(file, new)
    BY <1>3, <2>1, <2>2, NewObjectsAre
  <2>4. files' = [files EXCEPT ![Live] = new]
    BY <1>3, <1>6, <2>1, <2>2 DEF Write
  <2>5. Kept(file) /\ Settled(file) /\ file.count = Cardinality(EntriesOf(file)) /\ file \in FileType
    BY <1>3, <1>4, <2>1 DEF Loose, Lag
  <2>6. /\ Kept(new) /\ (EntryHangs(new) \/ ArrayHangs(new))
        /\ new.count + 1 = Cardinality(EntriesOf(new))
    BY <2>1, <2>3, <2>5, WriteKeeps
  <2>7. Grows(file, new) /\ new \in FileType
    BY <2>3, <2>5, AppendedGrows DEF Appended
  <2>8. QED
    BY <2>1, <2>4, <2>6, <2>7
<1>7. ASSUME Link
      PROVE  \E new \in FileType :
                 /\ files' = [files EXCEPT ![Live] = new]
                 /\ Kept(new) /\ Grows(files[Live], new)
                 /\ new.count + (IF journald' \in {"written", "linked"} THEN 1 ELSE 0) = Cardinality(EntriesOf(new))
                 /\ IF journald' = "written" THEN EntryHangs(new) \/ ArrayHangs(new) ELSE Settled(new)
  <2>1. journald = "written" /\ journald' = "linked"
    BY <1>7 DEF Link
  <2>2. EntryHangs(files[Live]) \/ ArrayHangs(files[Live])
    BY <1>4, <2>1 DEF Loose
  <2>3. files[Live].count + 1 = Cardinality(EntriesOf(files[Live]))
    BY <1>4, <2>1 DEF Lag
  <2>4. \E new \in FileType :
              /\ files' = [files EXCEPT ![Live] = new]
              /\ Kept(new) /\ Settled(new) /\ EntriesOf(new) = EntriesOf(files[Live])
              /\ new.count = files[Live].count
              /\ Grows(files[Live], new)
    BY <1>3, <1>4, <1>7, <2>2, LinkShape
  <2>5. QED
    BY <2>1, <2>3, <2>4
<1>8. ASSUME Count
      PROVE  \E new \in FileType :
                 /\ files' = [files EXCEPT ![Live] = new]
                 /\ Kept(new) /\ Grows(files[Live], new)
                 /\ new.count + (IF journald' \in {"written", "linked"} THEN 1 ELSE 0) = Cardinality(EntriesOf(new))
                 /\ IF journald' = "written" THEN EntryHangs(new) \/ ArrayHangs(new) ELSE Settled(new)
  <2>1. PICK file : file = files[Live] /\ journald = "linked" /\ journald' = "idle"
    BY <1>8 DEF Count
  <2>2. PICK new : new = [file EXCEPT !.count = @ + 1]
    OBVIOUS
  <2>3. /\ new \in FileType /\ new.objs = file.objs /\ new.first = file.first /\ new.count = file.count + 1
        /\ file.extent <= new.extent /\ file.count <= new.count /\ file \in FileType
    <3>1. /\ file \in [objs : Seq(ObjectType), extent : Nat, count : Nat, first : Nat]
          /\ file.count + 1 \in Nat /\ file.count <= file.count + 1 /\ file.extent <= file.extent
      BY <1>3, <2>1 DEF FileType
    <3>2. QED
      BY <2>2, <3>1 DEF FileType
  <2>4. files' = [files EXCEPT ![Live] = new]
    BY <1>3, <1>8, <2>1, <2>2 DEF Count
  <2>5. Kept(file) /\ Settled(file) /\ file.count + 1 = Cardinality(EntriesOf(file))
    BY <1>4, <2>1 DEF Loose, Lag
  <2>6. Kept(new) /\ Settled(new) /\ EntriesOf(new) = EntriesOf(file)
    BY <2>3, <2>5, HeaderKeeps
  <2>7. Grows(file, new)
    BY <2>3, GrowsToo
  <2>8. new.count + 0 = Cardinality(EntriesOf(new))
    BY <1>3, <2>1, <2>3, <2>5, <2>6
  <2>9. QED
    BY <2>1, <2>3, <2>4, <2>6, <2>7, <2>8
<1>9. \E new \in FileType :
                 /\ files' = [files EXCEPT ![Live] = new]
                 /\ Kept(new) /\ Grows(files[Live], new)
                 /\ new.count + (IF journald' \in {"written", "linked"} THEN 1 ELSE 0) = Cardinality(EntriesOf(new))
                 /\ IF journald' = "written" THEN EntryHangs(new) \/ ArrayHangs(new) ELSE Settled(new)
  BY <1>5, <1>6, <1>7, <1>8
<1>10. QED
  BY <1>1, <1>2, <1>9, Zenon

\* journald keeps its files as JournalInv says, and a reader may count on Moves.
LEMMA JournaldKeeps ==
    ASSUME TypeOK, JournalInv, Journald
    PROVE  /\ JournalInv' /\ Moves
           /\ files' \in [File -> FileType] /\ published' \in 0..MaxEntries
           /\ dir' \in [{"system", "live", "archive"} -> File \cup {None}]
           /\ access' \in [File -> {"readable", "denied", "foreign", "newborn", "absent"}]
           /\ journald' \in {"idle", "written", "linked", "renamed", "created"}
           /\ disturbed' \in BOOLEAN
<1>1. /\ files \in [File -> FileType] /\ published \in 0..MaxEntries
      /\ dir \in [{"system", "live", "archive"} -> File \cup {None}]
      /\ access \in [File -> {"readable", "denied", "foreign", "newborn", "absent"}]
      /\ disturbed \in BOOLEAN
      /\ \A f \in File : files[f] \in FileType /\ Grows(files[f], files[f])
  BY GrowsToo DEF TypeOK
<1>2. PlaceInv /\ FileInv("a") /\ FileInv("b")
  BY DEF JournalInv
<1>3. CASE Extend \/ Link \/ Count \/ \E k \in Kind : Write(k)
  <2>1. /\ \E new \in FileType :
                 /\ files' = [files EXCEPT ![Live] = new]
                 /\ Kept(new) /\ Grows(files[Live], new)
                 /\ new.count + (IF journald' \in {"written", "linked"} THEN 1 ELSE 0) = Cardinality(EntriesOf(new))
                 /\ IF journald' = "written" THEN EntryHangs(new) \/ ArrayHangs(new) ELSE Settled(new)
        /\ Live \in {"a", "b"} /\ access[Live] = "readable"
        /\ journald \in {"idle", "written", "linked"} /\ journald' \in {"idle", "written", "linked"}
        /\ published' \in 0..MaxEntries
        /\ UNCHANGED <<dir, access, reader, promised, disturbed>>
    BY <1>3, LiveStep
  <2>2. PICK new \in FileType :
                 /\ files' = [files EXCEPT ![Live] = new]
                 /\ Kept(new) /\ Grows(files[Live], new)
                 /\ new.count + (IF journald' \in {"written", "linked"} THEN 1 ELSE 0) = Cardinality(EntriesOf(new))
                 /\ IF journald' = "written" THEN EntryHangs(new) \/ ArrayHangs(new) ELSE Settled(new)
    BY <2>1
  <2>3. PICK l : l = Live /\ l = Live' /\ l \in {"a", "b"} /\ access[l] = "readable" /\ dir' = dir /\ access' = access
    BY <2>1 DEF Live
  <2>4. /\ files' \in [File -> FileType] /\ files'[l] = new /\ files'["s"] = files["s"]
        /\ \A f \in File : f # l => files'[f] = files[f]
    BY <1>1, <2>2, <2>3 DEF File
  <2>5. ASSUME NEW f \in {"a", "b"}
        PROVE  FileInv(f)'
    <3>1. CASE f = l
      <4>1. Kept(files'[f]) /\ files'[f] = new
        BY <2>2, <2>4, <3>1
      <4>2. Lag(f)' = IF journald' \in {"written", "linked"} THEN 1 ELSE 0
        BY <2>3, <3>1 DEF Lag
      <4>3. Loose(f)' <=> journald' = "written"
        BY <2>3, <3>1 DEF Loose
      <4>4. QED
        BY <2>2, <4>1, <4>2, <4>3 DEF FileInv
    <3>2. CASE f # l
      <4>1. files'[f] = files[f] /\ FileInv(f)
        BY <1>2, <2>4, <3>2 DEF File
      <4>2. Lag(f)' = 0 /\ Lag(f) = 0 /\ ~Loose(f)' /\ ~Loose(f)
        BY <2>3, <3>2 DEF Lag, Loose
      <4>3. QED
        BY <4>1, <4>2 DEF FileInv
    <3>3. QED
      BY <3>1, <3>2
  <2>6. files["a"].extent <= files'["a"].extent
    <3>1. Grows(files["a"], files'["a"])
      BY <1>1, <2>2, <2>3, <2>4 DEF File
    <3>2. QED
      BY <3>1 DEF Grows
  <2>7. PlaceInv'
    <3>1. files'["a"].extent > 0
      <4>1. files["a"] \in FileType /\ files'["a"] \in FileType /\ files["a"].extent > 0
        BY <1>1, <1>2, <2>4 DEF File, PlaceInv
      <4>2. files["a"].extent \in Nat /\ files'["a"].extent \in Nat
        BY <4>1, FileParts
      <4>3. QED
        BY <2>6, <4>1, <4>2
    <3>2. access["b"] = "newborn" => files'["b"] = files["b"]
      BY <2>3, <2>4 DEF File
    <3>3. QED
      BY <1>2, <2>1, <2>3, <2>4, <3>1, <3>2 DEF PlaceInv
  <2>8. Moves
    <3>1. \A f \in File : Grows(files[f], files'[f])
      BY <1>1, <2>2, <2>3, <2>4
    <3>2. QED
      BY <2>1, <2>3, <2>4, <3>1 DEF Moves
  <2>9. QED
    BY <1>1, <2>1, <2>3, <2>4, <2>5, <2>7, <2>8 DEF JournalInv
<1>4. CASE Rename \/ CreateNew
  <2>1. /\ files' = files /\ access' = access /\ reader' = reader /\ promised' = promised /\ published' = published
        /\ disturbed' = (disturbed \/ phase \in {"stat", "header"})
    BY <1>4 DEF Rename, CreateNew, Rotation
  <2>2. /\ journald = "idle" /\ journald' = "renamed" /\ dir["live"] = "a" /\ dir["archive"] = None
        /\ dir' = [dir EXCEPT !["live"] = None, !["archive"] = "a"] /\ access["b"] = "newborn"
        \/ /\ journald = "renamed" /\ journald' = "created" /\ dir["live"] = None /\ dir["archive"] = "a"
           /\ dir' = [dir EXCEPT !["live"] = "b"] /\ access["b"] = "newborn"
    BY <1>2, <1>4 DEF Rename, CreateNew, PlaceInv, Live, None
  <2>3. /\ dir' \in [{"system", "live", "archive"} -> File \cup {None}] /\ dir'["system"] = dir["system"]
        /\ dir'["archive"] = "a"
        /\ \/ journald' = "renamed" /\ dir'["live"] = None
           \/ journald' = "created" /\ dir'["live"] = "b"
    BY <1>1, <2>2 DEF File, None
  <2>4. PlaceInv'
    BY <1>2, <2>1, <2>2, <2>3 DEF PlaceInv, None
  <2>5. ASSUME NEW f \in {"a", "b"}
        PROVE  FileInv(f)'
    <3>1. Lag(f)' = 0 /\ Lag(f) = 0 /\ ~Loose(f)' /\ ~Loose(f)
      BY <2>2, <2>3 DEF Lag, Loose
    <3>2. QED
      BY <1>2, <2>1, <3>1 DEF FileInv
  <2>6. Moves
    BY <1>1, <2>1, <2>3 DEF Moves
  <2>7. QED
    BY <1>1, <2>1, <2>3, <2>4, <2>5, <2>6 DEF JournalInv
<1>5. CASE InitHeader
  <2>1. /\ journald = "created" /\ journald' = "idle" /\ dir' = dir /\ published' = published
        /\ files' = [files EXCEPT !["b"] = EmptyFile]
        /\ access' = [access EXCEPT !["b"] = "readable"]
        /\ disturbed' = (disturbed \/ phase \in {"stat", "header"})
        /\ reader' = reader /\ promised' = promised
    BY <1>5 DEF InitHeader, Rotation
  <2>2. dir["live"] = "b" /\ dir["archive"] = "a" /\ access["b"] = "newborn" /\ files["b"] = [EmptyFile EXCEPT !.extent = 0]
    BY <1>2, <2>1 DEF PlaceInv
  <2>3. /\ files'["b"] = EmptyFile /\ files'["a"] = files["a"] /\ files'["s"] = files["s"]
        /\ files' \in [File -> FileType]
        /\ access'["b"] = "readable" /\ access'["a"] = access["a"] /\ access'["s"] = access["s"]
        /\ access' \in [File -> {"readable", "denied", "foreign", "newborn", "absent"}]
    BY <1>1, <2>1, EmptyFileIs DEF File
  <2>4. PlaceInv'
    BY <1>2, <2>1, <2>2, <2>3 DEF PlaceInv
  <2>5. FileInv("a")'
    <3>1. Lag("a")' = 0 /\ Lag("a") = 0 /\ ~Loose("a")' /\ ~Loose("a")
      BY <2>1 DEF Lag, Loose
    <3>2. QED
      BY <1>2, <2>3, <3>1 DEF FileInv
  <2>6. FileInv("b")'
    <3>1. Lag("b")' = 0 /\ ~Loose("b")'
      BY <2>1 DEF Lag, Loose
    <3>2. EmptyFile \in FileType /\ EmptyFile.objs = <<>> /\ EmptyFile.first = 0 /\ EmptyFile.count = 0
      BY EmptyFileIs DEF EmptyFile
    <3>3. Kept(EmptyFile) /\ Settled(EmptyFile) /\ EmptyFile.count = Cardinality(EntriesOf(EmptyFile))
      BY <3>2, EmptyKept
    <3>4. EmptyFile.count + 0 = EmptyFile.count
      BY <3>2
    <3>5. QED
      BY <2>3, <3>1, <3>3, <3>4 DEF FileInv
  <2>7. Moves
    <3>1. Grows(files["b"], EmptyFile)
      <4>1. /\ files["b"] \in FileType /\ EmptyFile \in FileType /\ EmptyFile.objs = files["b"].objs
            /\ EmptyFile.first = files["b"].first /\ files["b"].extent <= EmptyFile.extent
            /\ files["b"].count <= EmptyFile.count
        BY <1>1, <2>2, EmptyFileIs, SizesAreNat DEF EmptyFile, File
      <4>2. QED
        BY <4>1, GrowsToo
    <3>2. \A f \in File : Grows(files[f], files'[f]) /\ (access[f] = "readable" => access'[f] = "readable")
      BY <1>1, <2>2, <2>3, <3>1 DEF File
    <3>3. QED
      BY <2>1, <2>3, <3>2 DEF Moves
  <2>8. QED
    BY <1>1, <2>1, <2>3, <2>4, <2>5, <2>6, <2>7 DEF JournalInv
<1>6. QED
  BY <1>3, <1>4, <1>5 DEF Journald

\* The steps of a reader leave the files alone.
LEMMA ReaderLeaves ==
    ASSUME Glob \/ Reader
    PROVE  UNCHANGED journal /\ UNCHANGED disturbed /\ (~Glob => UNCHANGED promised)
BY DEF Glob, Reader, Stat, HeaderRefused, HeaderRead, NothingOpened, BeginWalk, ChainEnds, ChainCorrupt, ReadArray,
       EntrySkipped, EntryMatches, EntryFails, FileEnds, Take, Walking, Matching, NextEntry, Ends, BeginFile

-----------------------------------------------------------------------------
(* Types.                                                                   *)

\* The types of the reader's own variables.
ReaderTypes ==
    /\ phase \in {"idle", "stat", "header", "walk", "match", "take", "done"}
    /\ todo \in Seq({"system", "live", "archive"})
    /\ opening \in [file : File, size : Nat]
    /\ opened \in Seq([file : File, end : Nat, limit : Nat, first : Nat])
    /\ phase \in {"walk", "match"} => opened # <<>> /\ Len(offsets) <= This.limit
    /\ denied \in BOOLEAN
    /\ array \in Nat /\ visited \subseteq Nat /\ offsets \in Seq(Nat \ {0})
    /\ found \subseteq EntryType /\ taken \subseteq found
    /\ result \in Outcomes /\ (result = "none" <=> phase # "done")

\* The head of a sequence is its first element.
LEMMA HeadIs ==
    ASSUME NEW S, NEW s \in Seq(S), s # <<>>
    PROVE  Head(s) \in S /\ Head(s) = s[1] /\ 1 \in 1..Len(s) /\ Len(s) \in Nat
OBVIOUS

\* The file being read, and an object in it.
LEMMA ThisIs ==
    ASSUME TypeOK, phase \in {"walk", "match"}
    PROVE  /\ This \in [file : File, end : Nat, limit : Nat, first : Nat]
           /\ This = opened[1] /\ 1 \in 1..Len(opened)
           /\ files[This.file] \in FileType
<1>1. opened \in Seq([file : File, end : Nat, limit : Nat, first : Nat]) /\ opened # <<>>
  BY DEF TypeOK
<1>2. Head(opened) \in [file : File, end : Nat, limit : Nat, first : Nat] /\ Head(opened) = opened[1] /\ 1 \in 1..Len(opened)
  BY <1>1, HeadIs
<1>3. QED
  BY <1>2 DEF This, TypeOK

\* The object a reader holds has the type it was asked for.
LEMMA HoldsIs ==
    ASSUME TypeOK, phase \in {"walk", "match"}, NEW o \in Nat, NEW type, Holds(o, type)
    PROVE  /\ o \in 1..Len(files[This.file].objs) /\ o <= This.end /\ o \in OffsetsOf(files[This.file].objs, type)
           /\ ObjectAt(o) = files[This.file].objs[o] /\ ObjectAt(o) \in ObjectType /\ ObjectAt(o).type = type
<1>1. PICK file : file = files[This.file]
  OBVIOUS
<1>2. /\ file \in FileType /\ Len(file.objs) \in Nat
      /\ \A i \in 1..Len(file.objs) : file.objs[i] \in ObjectType
  BY <1>1, ThisIs, FileParts
<1>3. o # 0 /\ o <= This.end /\ o <= Len(file.objs) /\ file.objs[o].type = type
  BY <1>1 DEF Holds, Written, ObjectAt
<1>4. QED
  BY <1>1, <1>2, <1>3 DEF ObjectAt, OffsetsOf

\* What the entry says whose verdict is none of an error.
LEMMA EntryIs ==
    ASSUME TypeOK, phase = "match", offsets # <<>>, NEW o, o = Head(offsets),
           EntryVerdict(o) \notin {"skip", "corrupt"}
    PROVE  /\ o \in 1..Len(files[This.file].objs)
           /\ ObjectAt(o) \in [type : {"entry"}, data : Nat, id : Nat]
           /\ ObjectAt(ObjectAt(o).data) \in [type : {"data"}, kind : KindType]
           /\ EntryVerdict(o) = Verdict(ObjectAt(ObjectAt(o).data).kind)
<1>1. offsets \in Seq(Nat \ {0}) /\ o \in Nat \ {0}
  <2>1. offsets \in Seq(Nat \ {0})
    BY DEF TypeOK
  <2>2. QED
    BY <2>1, HeadIs
<1>2. /\ Written(o) /\ ObjectAt(o).type = "entry" /\ Holds(ObjectAt(o).data, "data")
      /\ EntryVerdict(o) = Verdict(ObjectAt(ObjectAt(o).data).kind)
  BY DEF EntryVerdict
<1>3. Holds(o, "entry")
  BY <1>1, <1>2 DEF Holds
<1>4. /\ o \in 1..Len(files[This.file].objs) /\ ObjectAt(o) \in ObjectType
      /\ ObjectAt(o) \in [type : {"entry"}, data : Nat, id : Nat]
  BY <1>1, <1>2, <1>3, HoldsIs, ObjectParts
<1>5. ObjectAt(o).data \in Nat
  BY <1>4
<1>6. ObjectAt(ObjectAt(o).data) \in [type : {"data"}, kind : KindType]
  BY <1>2, <1>5, HoldsIs, ObjectParts
<1>7. QED
  BY <1>2, <1>4, <1>6

\* The steps that open the files, and take what was found.
LEMMA OpeningKeepsTypes ==
    ASSUME TypeOK, Stat \/ HeaderRefused \/ HeaderRead \/ NothingOpened \/ BeginWalk \/ Take
    PROVE  ReaderTypes'
<1> DEFINE OpenType == [file : File, end : Nat, limit : Nat, first : Nat]
<1>1. ReaderTypes /\ opened \in Seq(OpenType) /\ todo \in Seq({"system", "live", "archive"})
  BY DEF TypeOK, ReaderTypes
<1>2. CASE Stat
  <2>1. /\ phase = "stat" /\ todo # <<>> /\ todo' = Tail(todo)
        /\ phase' \in {"stat", "header"} /\ denied' \in BOOLEAN
        /\ UNCHANGED <<journal, opened, reading, answer>>
    BY <1>1, <1>2 DEF Stat, ReaderTypes
  <2>2. opening' \in [file : File, size : Nat]
    <3>1. Head(todo) \in {"system", "live", "archive"}
      BY <1>1, <2>1, HeadIs
    <3>2. PICK f : f = dir[Head(todo)] /\ f \in File \cup {None}
      BY <3>1 DEF TypeOK
    <3>3. f # None => f \in File /\ files[f] \in FileType /\ files[f].extent \in Nat
      BY <3>2, FileParts DEF TypeOK
    <3>4. QED
      BY <1>1, <1>2, <3>2, <3>3 DEF Stat, ReaderTypes
  <2>3. todo' \in Seq({"system", "live", "archive"})
    BY <1>1, <2>1, HeadTailProperties
  <2>4. QED
    BY <1>1, <2>1, <2>2, <2>3 DEF ReaderTypes, reading, answer
<1>3. CASE HeaderRefused
  <2>1. /\ phase' = "done" /\ result' = "unsupported" /\ opened' = <<>>
        /\ UNCHANGED <<todo, opening, denied, reading, found, taken>>
    BY <1>3 DEF HeaderRefused, Ends
  <2>2. <<>> \in Seq(OpenType)
    OBVIOUS
  <2>3. QED
    BY <1>1, <2>1, <2>2 DEF ReaderTypes, reading, Outcomes
<1>4. CASE HeaderRead
  <2>1. /\ phase = "header" /\ phase' = "stat"
        /\ UNCHANGED <<todo, opening, denied, reading, answer>>
    BY <1>4 DEF HeaderRead
  <2>2. PICK f : f = files[opening.file] /\ opening.file \in File /\ opening.size \in Nat /\ f \in FileType
    BY DEF TypeOK
  <2>3. PICK h : h = [file |-> opening.file, end |-> Smaller(f.extent, opening.size), limit |-> f.count, first |-> f.first]
    OBVIOUS
  <2>4. h \in OpenType
    BY <2>2, <2>3, FileParts DEF Smaller
  <2>5. opened' = Append(opened, h)
    BY <1>4, <2>2, <2>3 DEF HeaderRead
  <2>6. opened' \in Seq(OpenType)
    BY <1>1, <2>4, <2>5, AppendProperties
  <2>7. QED
    BY <1>1, <2>1, <2>6 DEF ReaderTypes, reading, answer
<1>5. CASE NothingOpened
  <2>1. /\ phase' = "done" /\ result' \in {"permission", "unreadable"}
        /\ UNCHANGED <<todo, opening, opened, denied, reading, found, taken>>
    BY <1>5 DEF NothingOpened, Ends
  <2>2. QED
    BY <1>1, <2>1 DEF ReaderTypes, reading, Outcomes
<1>6. CASE BeginWalk
  <2>1. /\ phase = "stat" /\ opened # <<>> /\ phase' = "walk"
        /\ array' = Head(opened).first /\ visited' = {} /\ offsets' = <<>>
        /\ UNCHANGED <<todo, opening, opened, denied, answer>>
    BY <1>6 DEF BeginWalk, BeginFile
  <2>2. Head(opened) \in OpenType
    BY <1>1, <2>1, HeadIs
  <2>3. <<>> \in Seq(Nat \ {0}) /\ Len(<<>>) = 0
    OBVIOUS
  <2>4. Len(offsets') <= This.limit'
    BY <2>1, <2>2, <2>3 DEF This
  <2>5. QED
    BY <1>1, <2>1, <2>2, <2>3, <2>4 DEF ReaderTypes, answer
<1>7. CASE Take
  <2>1. /\ phase = "take" /\ phase' = "done" /\ result' \in {"malformed", "ok"}
        /\ found' = found /\ taken' \subseteq found
        /\ UNCHANGED <<todo, opening, opened, denied, reading>>
    BY <1>1, <1>7 DEF Take, Ends, ReaderTypes
  <2>2. QED
    BY <1>1, <2>1 DEF ReaderTypes, reading, Outcomes
<1>8. QED
  BY <1>2, <1>3, <1>4, <1>5, <1>6, <1>7

\* And those that walk the arrays and match the entries.
LEMMA WalkingKeepsTypes ==
    ASSUME TypeOK, ChainEnds \/ ChainCorrupt \/ ReadArray \/ EntrySkipped \/ EntryMatches \/ EntryFails \/ FileEnds
    PROVE  ReaderTypes'
<1> DEFINE OpenType == [file : File, end : Nat, limit : Nat, first : Nat]
<1>1. /\ ReaderTypes /\ opened \in Seq(OpenType) /\ offsets \in Seq(Nat \ {0}) /\ Len(offsets) \in Nat
      /\ phase \in {"walk", "match"} /\ opened # <<>> /\ Len(offsets) <= This.limit
      /\ This.limit \in Nat
  <2>1. ReaderTypes /\ opened \in Seq(OpenType) /\ offsets \in Seq(Nat \ {0})
    BY DEF TypeOK, ReaderTypes
  <2>2. phase \in {"walk", "match"}
    BY DEF ChainEnds, ChainCorrupt, ReadArray, EntrySkipped, EntryMatches, EntryFails, FileEnds, Walking, Matching
  <2>3. QED
    BY <2>1, <2>2, ThisIs, LenProperties DEF ReaderTypes
<1>2. CASE ChainEnds \/ ChainCorrupt
  <2>1. /\ (phase = "walk" /\ phase' = "match" /\ result' = result) \/ (phase' = "done" /\ result' = "corrupt")
        /\ UNCHANGED <<todo, opening, opened, denied, array, visited, offsets, found, taken>>
    <3>1. CASE ChainEnds
      BY <3>1 DEF ChainEnds, Walking, answer, reading
    <3>2. CASE ChainCorrupt
      BY <3>2 DEF ChainCorrupt, Walking, Ends, reading
    <3>3. QED
      BY <1>2, <3>1, <3>2
  <2>2. QED
    BY <1>1, <2>1 DEF ReaderTypes, Outcomes, This
<1>3. CASE ReadArray
  <2>1. /\ phase = "walk" /\ Holds(array, "array") /\ array \in Nat
        /\ UNCHANGED <<todo, opening, opened, denied, answer>>
    BY <1>3 DEF ReadArray, Walking, TypeOK
  <2>2. PICK x : x = ObjectAt(array)
    OBVIOUS
  <2>3. x \in [type : {"array"}, items : Seq(Nat), next : Nat]
    BY <1>1, <2>1, <2>2, HoldsIs, ObjectParts
  <2>4. PICK items, new : items = x.items /\ new = Listed(items)
    OBVIOUS
  <2>5. items \in Seq(Nat) /\ x.next \in Nat
    BY <2>3, <2>4
  <2>6. new \in Seq(Nat \ {0}) /\ Len(offsets \o new) <= This.limit
    BY <1>1, <2>4, <2>5, ListedIs
  <2>7. offsets' = offsets \o new /\ phase' \in {"walk", "match"} /\ array' \in {array, x.next} /\ visited' = visited \cup {array}
    BY <1>3, <2>1, <2>2, <2>4 DEF ReadArray
  <2>8. offsets \o new \in Seq(Nat \ {0})
    BY <1>1, <2>6, ConcatProperties
  <2>9. Len(offsets') <= This.limit'
    BY <2>1, <2>6, <2>7 DEF This
  <2>10. QED
    BY <1>1, <2>1, <2>5, <2>7, <2>8, <2>9 DEF ReaderTypes, answer
<1>4. CASE EntrySkipped \/ EntryMatches
  <2>1. /\ phase = "match" /\ phase' = phase /\ offsets # <<>> /\ offsets' = Tail(offsets)
        /\ UNCHANGED <<todo, opening, opened, denied, array, visited, taken, result>>
    BY <1>4 DEF EntrySkipped, EntryMatches, Matching, NextEntry
  <2>2. Tail(offsets) \in Seq(Nat \ {0}) /\ Len(Tail(offsets)) = Len(offsets) - 1
    BY <1>1, <2>1, HeadTailProperties
  <2>3. found \subseteq found' /\ found' \subseteq EntryType
    <3>1. CASE EntrySkipped
      BY <1>1, <3>1 DEF EntrySkipped, ReaderTypes
    <3>2. CASE EntryMatches
      <4>1. PICK o, e : o = Head(offsets) /\ e = ObjectAt(o) /\ EntryVerdict(o) = "match"
        BY <3>2 DEF EntryMatches
      <4>2. e.id \in Nat /\ ObjectAt(e.data).kind \in KindType
        BY <2>1, <4>1, EntryIs
      <4>3. found' = found \cup {[id |-> e.id, kind |-> ObjectAt(e.data).kind]}
        BY <3>2, <4>1 DEF EntryMatches
      <4>4. QED
        BY <1>1, <4>2, <4>3 DEF ReaderTypes, EntryType
    <3>3. QED
      BY <1>4, <3>1, <3>2
  <2>4. Len(offsets') <= This.limit'
    BY <1>1, <2>1, <2>2 DEF This
  <2>5. QED
    BY <1>1, <2>1, <2>2, <2>3, <2>4 DEF ReaderTypes
<1>5. CASE EntryFails
  <2>1. /\ phase' = "done" /\ result' = EntryVerdict(Head(offsets)) /\ result' \notin {"skip", "match"}
        /\ UNCHANGED <<todo, opening, opened, denied, reading, found, taken>>
    BY <1>5 DEF EntryFails, Matching, Ends
  <2>2. result' \in {"corrupt", "ambiguous", "compressed"}
    BY <2>1 DEF EntryVerdict, Verdict
  <2>3. QED
    BY <1>1, <2>1, <2>2 DEF ReaderTypes, reading, Outcomes
<1>6. CASE FileEnds
  <2>1. /\ phase = "match" /\ opened' = Tail(opened) /\ visited' = {} /\ offsets' = <<>>
        /\ phase' = (IF Tail(opened) = <<>> THEN "take" ELSE "walk")
        /\ array' = (IF Tail(opened) = <<>> THEN 0 ELSE Head(Tail(opened)).first)
        /\ UNCHANGED <<todo, opening, denied, answer>>
    BY <1>6 DEF FileEnds, Matching, BeginFile
  <2>2. Tail(opened) \in Seq(OpenType)
    BY <1>1, HeadTailProperties
  <2>3. Tail(opened) # <<>> => Head(Tail(opened)) \in OpenType
    BY <2>2, HeadIs
  <2>4. <<>> \in Seq(Nat \ {0}) /\ Len(<<>>) = 0
    OBVIOUS
  <2>5. Tail(opened) # <<>> => Len(offsets') <= This.limit'
    BY <2>1, <2>3, <2>4 DEF This
  <2>6. array' \in Nat
    BY <2>1, <2>3
  <2>7. QED
    BY <1>1, <2>1, <2>2, <2>4, <2>5, <2>6 DEF ReaderTypes, answer
<1>7. QED
  BY <1>2, <1>3, <1>4, <1>5, <1>6

\* What is promised are entries of files that are as they should be.
LEMMA PromisedAreEntries ==
    ASSUME TypeOK, NEW f \in Honest, NEW o \in CountedIn(files[f])
    PROVE  RecordAt(files[f], o) \in EntryType
<1>1. PICK file : file = files[f] /\ file \in FileType /\ Intact(file) /\ o \in CountedIn(file)
  BY DEF Honest, TypeOK
<1>2. /\ o \in EntriesOf(file) /\ \A i \in 1..Len(file.objs) : file.objs[i] \in ObjectType
      /\ Len(file.objs) \in Nat
  BY <1>1, FileParts DEF CountedIn, EntriesOf
<1>3. /\ o \in 1..Len(file.objs) /\ file.objs[o].type = "entry"
      /\ file.objs[o].data \in 1..o - 1 /\ file.objs[file.objs[o].data].type = "data"
  BY <1>1, <1>2 DEF Intact, EntriesOf, OffsetsOf
<1>4. file.objs[o].id \in Nat
  <2>1. file.objs[o] \in [type : {"entry"}, data : Nat, id : Nat]
    BY <1>2, <1>3, ObjectParts
  <2>2. QED
    BY <2>1
<1>5. file.objs[file.objs[o].data].kind \in KindType
  <2>1. file.objs[o].data \in 1..Len(file.objs)
    BY <1>2, <1>3
  <2>2. file.objs[file.objs[o].data] \in [type : {"data"}, kind : KindType]
    BY <1>2, <1>3, <2>1, ObjectParts
  <2>3. QED
    BY <2>2
<1>6. QED
  BY <1>1, <1>4, <1>5 DEF RecordAt, EntryType

\* At first nothing has been written or read.
LEMMA InitiallyTyped == Init => TypeOK /\ JournalInv
<1> SUFFICES ASSUME Init
             PROVE  TypeOK /\ JournalInv
  OBVIOUS
<1>1. PICK s \in SystemFile, how \in {"readable", "denied", "foreign", "absent"} :
          /\ files = [a |-> EmptyFile, b |-> [EmptyFile EXCEPT !.extent = 0], s |-> s]
          /\ access = [a |-> "readable", b |-> "newborn", s |-> how]
          /\ dir = [system |-> IF how = "absent" THEN None ELSE "s", live |-> "a", archive |-> None]
  BY DEF Init
<1>2. s \in FileType /\ EmptyFile \in FileType /\ [EmptyFile EXCEPT !.extent = 0] \in FileType
  BY SystemFilesAreFiles, EmptyFileIs
<1>3. files \in [File -> FileType] /\ files["a"] = EmptyFile /\ files["b"] = [EmptyFile EXCEPT !.extent = 0] /\ files["s"] = s
  BY <1>1, <1>2 DEF File
<1>4. /\ dir \in [{"system", "live", "archive"} -> File \cup {None}]
      /\ dir["system"] = (IF how = "absent" THEN None ELSE "s") /\ dir["live"] = "a" /\ dir["archive"] = None
  BY <1>1 DEF File
<1>5. /\ access \in [File -> {"readable", "denied", "foreign", "newborn", "absent"}]
      /\ access["a"] = "readable" /\ access["b"] = "newborn" /\ access["s"] = how
  BY <1>1 DEF File
<1>6. ASSUME NEW f \in {"a", "b"}
      PROVE  FileInv(f)
  <2>1. files[f] \in FileType /\ files[f].objs = <<>> /\ files[f].first = 0 /\ files[f].count = 0
    BY <1>2, <1>3 DEF EmptyFile
  <2>2. Kept(files[f]) /\ Settled(files[f]) /\ files[f].count = Cardinality(EntriesOf(files[f]))
    BY <2>1, EmptyKept
  <2>3. Lag(f) = 0 /\ ~Loose(f) /\ files[f].count + 0 = files[f].count
    BY <2>1 DEF Init, Lag, Loose
  <2>4. QED
    BY <2>2, <2>3 DEF FileInv
<1>7. PlaceInv
  <2>1. journald = "idle" /\ EmptyFile.extent > 0
    BY SizesAreNat DEF Init, EmptyFile
  <2>2. QED
    BY <1>1, <1>3, <1>4, <1>5, <2>1 DEF PlaceInv
<1>8. TypeOK
  <2>1. <<>> \in Seq({"system", "live", "archive"}) /\ <<>> \in Seq([file : File, end : Nat, limit : Nat, first : Nat]) /\ <<>> \in Seq(Nat \ {0})
    OBVIOUS
  <2>2. NoFile \in [file : File, size : Nat] /\ "none" \in Outcomes /\ 0 \in 0..MaxEntries
    BY SizesAreNat DEF NoFile, File, Outcomes
  <2>3. /\ journald = "idle" /\ published = 0
        /\ phase = "idle"
        /\ todo = <<>> /\ opening = NoFile /\ opened = <<>> /\ denied = FALSE
        /\ array = 0 /\ visited = {} /\ offsets = <<>>
        /\ found = {} /\ taken = {} /\ result = "none"
        /\ promised = {} /\ disturbed = FALSE
    BY DEF Init
  <2>4. QED
    BY <1>3, <1>4, <1>5, <2>1, <2>2, <2>3 DEF TypeOK
<1>9. QED
  BY <1>6, <1>7, <1>8 DEF JournalInv

\* Every step keeps the types and the files.
LEMMA TypesStep == TypeOK /\ JournalInv /\ [Next]_vars => TypeOK' /\ JournalInv'
<1> SUFFICES ASSUME TypeOK, JournalInv, [Next]_vars
             PROVE  TypeOK' /\ JournalInv'
  OBVIOUS
<1> DEFINE JournalTypes ==
             /\ files \in [File -> FileType]
             /\ dir \in [{"system", "live", "archive"} -> File \cup {None}]
             /\ access \in [File -> {"readable", "denied", "foreign", "newborn", "absent"}]
             /\ journald \in {"idle", "written", "linked", "renamed", "created"}
             /\ published \in 0..MaxEntries
             /\ disturbed \in BOOLEAN
<1>1. JournalTypes /\ ReaderTypes /\ promised \subseteq EntryType
  BY DEF TypeOK, ReaderTypes
<1>2. ASSUME JournalTypes', ReaderTypes', promised' \subseteq EntryType
      PROVE  TypeOK'
  BY <1>2 DEF TypeOK, ReaderTypes
<1>3. UNCHANGED journal => (JournalInv' <=> JournalInv)
  BY DEF journal, JournalInv, PlaceInv, FileInv, Kept, Settled, Lag, Loose, Live
<1>4. CASE Glob
  <2>1. /\ phase = "idle" /\ phase' = "stat"
        /\ todo' = Present("system") \o Present("live") \o Present("archive")
        /\ promised' = UNION {{RecordAt(files[f], o) : o \in CountedIn(files[f])} : f \in Honest}
        /\ UNCHANGED journal /\ UNCHANGED <<opening, opened, denied, reading, answer, disturbed>>
    BY <1>4 DEF Glob
  <2>2. todo' \in Seq({"system", "live", "archive"})
    <3>1. \A p \in {"system", "live", "archive"} : Present(p) \in Seq({"system", "live", "archive"})
      BY DEF Present
    <3>2. PICK p1, p2, p3 : p1 = Present("system") /\ p2 = Present("live") /\ p3 = Present("archive")
      OBVIOUS
    <3>3. /\ p1 \in Seq({"system", "live", "archive"}) /\ p2 \in Seq({"system", "live", "archive"})
          /\ p3 \in Seq({"system", "live", "archive"})
      BY <3>1, <3>2
    <3>4. p1 \o p2 \o p3 \in Seq({"system", "live", "archive"})
      BY <3>3
    <3>5. QED
      BY <2>1, <3>2, <3>4
  <2>3. promised' \subseteq EntryType
    BY <2>1, PromisedAreEntries
  <2>4. JournalTypes'
    BY <1>1, <2>1 DEF journal
  <2>5. ReaderTypes'
    BY <1>1, <2>1, <2>2 DEF ReaderTypes, reading, answer
  <2>6. QED
    BY <1>2, <1>3, <2>1, <2>3, <2>4, <2>5
<1>5. CASE Reader /\ ~Glob
  <2>1. UNCHANGED journal /\ disturbed' = disturbed /\ promised' = promised
    BY <1>5, ReaderLeaves
  <2>2. ReaderTypes'
    BY <1>5, OpeningKeepsTypes, WalkingKeepsTypes DEF Reader
  <2>3. JournalTypes'
    BY <1>1, <2>1 DEF journal
  <2>4. QED
    BY <1>1, <1>2, <1>3, <2>1, <2>2, <2>3
<1>6. CASE Journald
  <2>1. JournalInv' /\ Moves /\ JournalTypes'
    BY <1>6, JournaldKeeps
  <2>2. reader' = reader /\ promised' = promised
    BY <2>1 DEF Moves
  <2>3. ReaderTypes'
    BY <1>1, <2>2 DEF reader, reading, answer, ReaderTypes, This
  <2>4. QED
    BY <1>1, <1>2, <2>1, <2>2, <2>3
<1>7. CASE UNCHANGED vars
  <2>1. UNCHANGED journal /\ reader' = reader /\ promised' = promised /\ disturbed' = disturbed
    BY <1>7 DEF vars
  <2>2. ReaderTypes'
    BY <1>1, <2>1 DEF reader, reading, answer, ReaderTypes, This
  <2>3. JournalTypes'
    BY <1>1, <2>1 DEF journal
  <2>4. QED
    BY <1>1, <1>2, <1>3, <2>1, <2>2, <2>3
<1>8. QED
  BY <1>4, <1>5, <1>6, <1>7 DEF Next

\* The types, whatever the system's file holds (as a run checks for a few), and with
\* them what journald's files are like between any two of its steps.
THEOREM TypesAreKept == Spec => [](TypeOK /\ JournalInv)
<1>1. Init => TypeOK /\ JournalInv
  BY InitiallyTyped
<1>2. TypeOK /\ JournalInv /\ [Next]_vars => (TypeOK /\ JournalInv)'
  BY TypesStep
<1>3. QED
  BY <1>1, <1>2, PTL DEF Spec

-----------------------------------------------------------------------------
(* The trust filter.                                                        *)

\* Not inductive alone: Take picks from what EntryMatches has found before.
FilterInv ==
    /\ \A e \in found : Verdict(e.kind) = "match"
    /\ \A e \in taken : Verdict(e.kind) = "match" /\ Parses(e.kind) /\ Says(e.kind, "ADB_BROKER_LOG")

\* What an entry says is the same on a pipe, and there all of it is readable.
LEMMA PrintedIs ==
    ASSUME NEW k \in KindType, NEW f \in Field
    PROVE  /\ Len(k.values[f]) \in Nat /\ Len(Unpacked(k).values[f]) = Len(k.values[f])
           /\ ReadableAt(Unpacked(k), f) = 1..Len(k.values[f])
           /\ ReadableAt(k, f) \subseteq 1..Len(k.values[f])
           /\ \A i \in 1..Len(k.values[f]) : Unpacked(k).values[f][i].says = k.values[f][i].says
<1>1. k.values \in [Field -> Seq(Value)] /\ k.values[f] \in Seq(Value)
  BY DEF KindType
<1>2. PICK vals, n : vals = k.values[f] /\ vals \in Seq(Value) /\ n = Len(vals) /\ n \in Nat
  BY <1>1
<1>3. Unpacked(k).values = [g \in Field |-> [i \in 1..Len(k.values[g]) |-> [says |-> k.values[g][i].says, packed |-> FALSE]]]
  BY DEF Unpacked, KindType
<1>4. Unpacked(k).values[f] = [i \in 1..n |-> [says |-> vals[i].says, packed |-> FALSE]]
  BY <1>2, <1>3
<1>5. ASSUME NEW i \in 1..n
      PROVE  Unpacked(k).values[f][i].says = vals[i].says /\ ~Unpacked(k).values[f][i].packed
  <2>1. Unpacked(k).values[f][i] = [says |-> vals[i].says, packed |-> FALSE]
    BY <1>4
  <2>2. QED
    BY <2>1
<1>6. Len(Unpacked(k).values[f]) = n
  BY <1>2, <1>4
<1>7. QED
  BY <1>2, <1>5, <1>6 DEF ReadableAt

\* What stands in the file stands on the pipe, where a field has one value.
LEMMA StandsThere ==
    ASSUME NEW k \in KindType, NEW f \in Field, NEW word,
           Stands(k, f, word), ~TwoValues(Unpacked(k), {f})
    PROVE  Stands(Unpacked(k), f, word)
<1>1. PICK u, n : u = Unpacked(k) /\ n = Len(k.values[f]) /\ n \in Nat
  BY PrintedIs
<1>2. /\ ReadableAt(u, f) = 1..n /\ ReadableAt(k, f) \subseteq 1..n
      /\ \A i \in 1..n : u.values[f][i].says = k.values[f][i].says
  BY <1>1, PrintedIs
<1>3. PICK i \in 1..n : k.values[f][i].says = word
  BY <1>2 DEF Stands
<1>4. 1 \in 1..n /\ \A j \in 1..n : 1 <= j
  BY <1>1, <1>3
<1>5. \A p, q \in 1..n : u.values[f][p].says = u.values[f][q].says
  BY <1>1, <1>2 DEF TwoValues
<1>6. u.values[f][1].says = word
  BY <1>2, <1>3, <1>4, <1>5
<1>7. QED
  BY <1>1, <1>2, <1>4, <1>6 DEF Stands

\* An anchor taken is one that a pipe takes, or one that it refuses.
LEMMA TakenIsPrinted ==
    ASSUME NEW k \in KindType, Verdict(k) = "match", Parses(k), Says(k, "ADB_BROKER_LOG"),
           ~k.long, ~TwoValues(Unpacked(k), Payload),
           \A f \in Deciding : ~(TwoValues(Unpacked(k), {f}) /\ SomePacked(k, {f}))
    PROVE  PipeTakes(k)
<1>1. Deciding \subseteq Field /\ Payload \subseteq Field
  BY DEF Field
<1>2. ~TwoValues(k, Deciding) /\ \A f \in Deciding : Says(k, f)
  BY DEF Verdict, Deciding
<1>3. ASSUME NEW f \in Deciding
      PROVE  ~TwoValues(Unpacked(k), {f})
  <2>1. CASE SomePacked(k, {f})
    BY <2>1
  <2>2. CASE ~SomePacked(k, {f})
    <3>1. ReadableAt(k, f) = 1..Len(k.values[f])
      BY <2>2 DEF SomePacked, ReadableAt
    <3>2. \A i, j \in 1..Len(k.values[f]) : k.values[f][i].says = k.values[f][j].says
      BY <1>2, <3>1 DEF TwoValues
    <3>3. /\ ReadableAt(Unpacked(k), f) = 1..Len(k.values[f])
          /\ \A i \in 1..Len(k.values[f]) : Unpacked(k).values[f][i].says = k.values[f][i].says
      BY <1>1, PrintedIs
    <3>4. QED
      BY <3>2, <3>3 DEF TwoValues
  <2>3. QED
    BY <2>1, <2>2
<1>4. ASSUME NEW f \in Payload
      PROVE  ~TwoValues(Unpacked(k), {f})
  BY DEF TwoValues
<1>5. ~TwoValues(Unpacked(k), Deciding \cup Payload)
  BY <1>3, <1>4 DEF TwoValues
<1>6. \A f \in Deciding : Says(Unpacked(k), f)
  BY <1>1, <1>2, <1>3, StandsThere DEF Says
<1>7. PipeVerdict(k) = "match"
  BY <1>5, <1>6 DEF PipeVerdict
<1>8. "ADB_BROKER_LOG" \in Payload /\ "ADB_BROKER_SEQ" \in Payload /\ "ADB_BROKER_HASH" \in Payload
  BY DEF Payload
<1>9. Says(Unpacked(k), "ADB_BROKER_LOG")
  BY <1>1, <1>4, <1>8, StandsThere DEF Says
<1>10. Parses(Unpacked(k))
  <2> SUFFICES ASSUME NEW f \in {"ADB_BROKER_SEQ", "ADB_BROKER_HASH"}
               PROVE  \E word \in {Ours, "theirs"} : Stands(Unpacked(k), f, word)
    BY DEF Parses
  <2>1. PICK word \in {Ours, "theirs"} : Stands(k, f, word)
    BY DEF Parses
  <2>2. Stands(Unpacked(k), f, word)
    BY <1>1, <1>4, <1>8, <2>1, StandsThere
  <2>3. QED
    BY <2>2
<1>11. QED
  BY <1>7, <1>9, <1>10 DEF PipeTakes

\* Every step keeps what was found and what is to be compared filtered.
LEMMA FilterInvStep == FilterInv /\ [Next]_vars => FilterInv'
<1> SUFFICES ASSUME FilterInv, [Next]_vars
             PROVE  FilterInv'
  OBVIOUS
<1> USE DEF FilterInv
<1>1. CASE EntryMatches
  <2>1. PICK e : /\ EntryVerdict(Head(offsets)) = "match"
                 /\ e = ObjectAt(Head(offsets))
                 /\ found' = found \cup {[id |-> e.id, kind |-> ObjectAt(e.data).kind]}
                 /\ taken' = taken
    BY <1>1 DEF EntryMatches, NextEntry
  <2>2. Verdict(ObjectAt(e.data).kind) = "match"
    BY <2>1 DEF EntryVerdict
  <2>3. QED
    BY <2>1, <2>2
<1>2. CASE Take
  BY <1>2 DEF Take, Ends
<1>3. CASE Journald
  BY <1>3 DEF Journald, Extend, Write, Link, Count, Rename, CreateNew, InitHeader, Rotation, reader, answer
<1>4. CASE Glob
  BY <1>4 DEF Glob, answer
<1>5. CASE Stat \/ HeaderRefused \/ HeaderRead \/ NothingOpened \/ BeginWalk
  BY <1>5 DEF Stat, HeaderRefused, HeaderRead, NothingOpened, BeginWalk, BeginFile, Ends, answer
<1>6. CASE ChainEnds \/ ChainCorrupt \/ ReadArray
  BY <1>6 DEF ChainEnds, ChainCorrupt, ReadArray, Ends, answer
<1>7. CASE EntrySkipped \/ EntryFails \/ FileEnds
  BY <1>7 DEF EntrySkipped, EntryFails, FileEnds, NextEntry, Ends, answer
<1>8. CASE UNCHANGED vars
  BY <1>8 DEF vars, reader, answer
<1>9. QED
  BY <1>1, <1>2, <1>3, <1>4, <1>5, <1>6, <1>7, <1>8 DEF Next, Reader

\* No anchor read out of the files would have been passed over on a pipe, whatever is
\* in the files: it is taken there too, or the pipe fails on it, for one of the three
\* reasons that do not reach the files.
THEOREM FilterNeverRelaxed == Spec => []NoRelaxation
<1>1. Init => FilterInv
  BY DEF Init, FilterInv
<1>2. ASSUME TypeOK, FilterInv
      PROVE  NoRelaxation
  <2> SUFFICES ASSUME NEW e \in taken,
                      ~e.kind.long, ~TwoValues(Unpacked(e.kind), Payload),
                      \A f \in Deciding : ~(TwoValues(Unpacked(e.kind), {f}) /\ SomePacked(e.kind, {f}))
               PROVE  PipeTakes(e.kind)
    BY DEF NoRelaxation
  <2>1. e.kind \in KindType
    BY <1>2 DEF TypeOK, EntryType
  <2>2. QED
    BY <1>2, <2>1, TakenIsPrinted DEF FilterInv
<1>3. Spec => [](TypeOK /\ JournalInv)
  BY TypesAreKept
<1>4. QED
  BY <1>1, <1>2, <1>3, FilterInvStep, PTL DEF Spec
=============================================================================
