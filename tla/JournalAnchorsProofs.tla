------------------------ MODULE JournalAnchorsProofs ------------------------
(***************************************************************************)
(* What a reader of journald's files finds in them: an error has another   *)
(* cause than journald, and what a header counted before reading began is  *)
(* taken, or the reader says so.  That journald's files are in order at    *)
(* every moment is shown in JournalReaderProofs.                           *)
(***************************************************************************)
EXTENDS JournalReaderProofs

-----------------------------------------------------------------------------
(* What the reader holds on to.                                             *)

\* An offset the reader holds leads to such an object still, or past the end of the
\* system's file, to which nothing is appended.
Leads(f, o, type) ==
    o \in OffsetsOf(files[f].objs, type) \/ (f = "s" /\ o > Len(files[f].objs))

\* A file whose header comes next is there to be opened, and one without a byte is
\* the system's or was made by a rotation.
HeaderInv ==
    phase = "header" =>
        /\ opening.file = "s" => access["s"] \in {"readable", "foreign"}
        /\ opening.size = 0 => (opening.file = "s" /\ files["s"].extent = 0) \/ dir["archive"] = "a"
        /\ opening.size # 0 => access[opening.file] \in {"readable", "foreign"}

\* What is open was readable, and its chain begins where the header said.
HandleInv ==
    \A i \in 1..Len(opened) :
        /\ access[opened[i].file] = "readable"
        /\ opened[i].first # 0 => opened[i].first = files[opened[i].file].first

\* The live file is not missed unless it is renamed, nor the system's if foreign.
LiveInv ==
    phase \in {"stat", "header"} /\ dir["archive"] = None =>
        \/ \E i \in 1..Len(todo) : todo[i] = "live"
        \/ phase = "header" /\ opening.file = "a"
        \/ opened # <<>>

ForeignInv ==
    phase # "idle" /\ access["s"] = "foreign" =>
        \/ phase \in {"stat", "header"} /\ \E i \in 1..Len(todo) : todo[i] = "system"
        \/ phase = "header" /\ opening.file = "s"
        \/ phase = "done" /\ result # "ok"

OpenedInv ==
    /\ HeaderInv /\ HandleInv /\ LiveInv /\ ForeignInv
    /\ denied => access["s"] = "denied"

\* The walk goes forward in a file that is intact, from array to array, and lists
\* entries.
WalkInv ==
    /\ phase = "walk" /\ Intact(files[This.file]) =>
          /\ array = 0 \/ Leads(This.file, array, "array")
          /\ array # 0 => \A v \in visited : v < array
    /\ phase \in {"walk", "match"} /\ Intact(files[This.file]) =>
          \A i \in 1..Len(offsets) : Leads(This.file, offsets[i], "entry")

-----------------------------------------------------------------------------
(* What the journal's invariant says to a reader.                           *)

\* Where the files are, and that journald's own are in order.
LEMMA Places ==
    ASSUME TypeOK, JournalInv
    PROVE  /\ dir["live"] \in {"a", "b", None} /\ dir["archive"] \in {"a", None}
           /\ dir["archive"] = None => dir["live"] = "a"
           /\ dir["live"] = "b" => dir["archive"] = "a"
           /\ dir["system"] = IF access["s"] = "absent" THEN None ELSE "s"
           /\ access["s"] \in {"readable", "denied", "foreign", "absent"}
           /\ access["a"] = "readable" /\ access["b"] \in {"readable", "newborn"}
           /\ access["b"] = "newborn" => files["b"].extent = 0
           /\ access["b"] = "readable" => dir["live"] = "b"
           /\ "a" \in {dir["live"], dir["archive"]}
           /\ files["a"].extent # 0
           /\ \A f \in {"a", "b"} : Kept(files[f]) /\ Intact(files[f]) /\ Accounted(files[f]) /\ Sound(files[f])
           /\ \A f \in File : f \in {"a", "b"} \/ f = "s"
<1>1. PlaceInv /\ FileInv("a") /\ FileInv("b")
  BY DEF JournalInv
<1>2. \A f \in {"a", "b"} : Kept(files[f]) /\ Intact(files[f]) /\ Accounted(files[f]) /\ Sound(files[f])
  <2>1. ASSUME NEW f \in {"a", "b"}
        PROVE  Kept(files[f]) /\ Intact(files[f]) /\ Accounted(files[f]) /\ Sound(files[f])
    <3>1. files[f] \in FileType /\ Kept(files[f])
      BY <1>1 DEF FileInv, TypeOK, File
    <3>2. QED
      BY <3>1, KeptIs DEF Kept
  <2>2. QED
    BY <2>1
<1>3. files["a"].extent # 0
  <2>1. files["a"].extent \in Nat /\ files["a"].extent > 0
    <3>1. files["a"] \in FileType
      BY DEF TypeOK, File
    <3>2. QED
      BY <1>1, <3>1, FileParts DEF PlaceInv
  <2>2. QED
    BY <2>1
<1>4. access["b"] = "newborn" => files["b"].extent = 0
  <2>1. [EmptyFile EXCEPT !.extent = 0].extent = 0
    BY DEF EmptyFile
  <2>2. QED
    BY <1>1, <2>1 DEF PlaceInv
<1>5. \A f \in File : f \in {"a", "b"} \/ f = "s"
  BY DEF File
<1>6. QED
  BY <1>1, <1>2, <1>3, <1>4, <1>5 DEF PlaceInv, None

\* A file's places and links are there still when it has grown.
LEMMA GrownParts ==
    ASSUME NEW file \in FileType, NEW new \in FileType, Grows(file, new)
    PROVE  /\ \A type : OffsetsOf(file.objs, type) \subseteq OffsetsOf(new.objs, type)
           /\ \A o \in 1..Len(file.objs) : o \in EntriesOf(new) <=> o \in EntriesOf(file)
           /\ Linked(file) \subseteq Linked(new)
           /\ \A o \in 1..Len(file.objs) : Rank(new, o) = Rank(file, o)
           /\ CountedIn(file) \subseteq CountedIn(new)
           /\ \A q \in ArraysOf(file) : \A i \in Filled(Items(file, q)) :
                 i \in Filled(Items(new, q)) /\ Items(new, q)[i] = Items(file, q)[i]
<1>1. PICK n, old, objs : n = Len(file.objs) /\ old = file.objs /\ objs = new.objs
  OBVIOUS
<1>2. /\ n \in Nat /\ n <= Len(objs) /\ Len(objs) \in Nat /\ file.first \in Nat
      /\ \A q \in ArraysOf(file) : old[q].next \in Nat
      /\ ArraysOf(file) \subseteq 1..n
      /\ file.first # 0 => new.first = file.first
      /\ \A o \in 1..n : objs[o].type = old[o].type
      /\ \A q \in ArraysOf(file) : old[q].next # 0 => objs[q].next = old[q].next
      /\ file.count \in Nat /\ new.count \in Nat /\ file.count <= new.count
  BY <1>1, FileParts DEF Grows, ArraysOf
<1>3. \A type : OffsetsOf(old, type) \subseteq OffsetsOf(objs, type)
  BY <1>1, <1>2 DEF OffsetsOf
<1>4. \A o \in 1..n : o \in EntriesOf(new) <=> o \in EntriesOf(file)
  BY <1>1, <1>2 DEF EntriesOf, OffsetsOf
<1>5. Linked(file) \subseteq Linked(new)
  <2> SUFFICES ASSUME NEW q \in Linked(file)
               PROVE  q \in Linked(new)
    OBVIOUS
  <2>1. q \in ArraysOf(file) /\ (q = file.first \/ \E p \in ArraysOf(file) : old[p].next = q)
    BY <1>1 DEF Linked, ArraysOf
  <2>2. q \in ArraysOf(new) /\ q # 0 /\ ArraysOf(file) \subseteq ArraysOf(new)
    BY <1>1, <1>2, <1>3, <2>1 DEF ArraysOf
  <2>3. q = new.first \/ \E p \in ArraysOf(new) : objs[p].next = q
    BY <1>2, <2>1, <2>2
  <2>4. QED
    BY <1>1, <2>2, <2>3 DEF Linked, ArraysOf
<1>6. ASSUME NEW o \in 1..n
      PROVE  Rank(new, o) = Rank(file, o)
  <2>1. \A r \in EntriesOf(new) : r <= o => r \in 1..n
    <3>1. EntriesOf(new) \subseteq 1..Len(objs)
      BY <1>1, FileParts DEF EntriesOf
    <3>2. QED
      BY <1>2, <3>1
  <2>2. EntriesOf(file) \subseteq 1..n
    BY <1>1, FileParts DEF EntriesOf
  <2>3. {r \in EntriesOf(new) : r <= o} = {r \in EntriesOf(file) : r <= o}
    BY <1>4, <2>1, <2>2
  <2>4. QED
    BY <2>3 DEF Rank, EntriesOf
<1>7. CountedIn(file) \subseteq CountedIn(new)
  <2> SUFFICES ASSUME NEW o \in CountedIn(file)
               PROVE  o \in CountedIn(new)
    OBVIOUS
  <2>1. o \in EntriesOf(file) /\ Rank(file, o) <= file.count
    BY DEF CountedIn, EntriesOf
  <2>2. o \in 1..n
    BY <1>1, <2>1, FileParts DEF EntriesOf
  <2>3. Rank(new, o) <= file.count /\ Rank(file, o) \in Nat
    <3>1. Rank(file, o) \in Nat
      <4>1. {r \in EntriesOf(file) : r <= o} \subseteq 1..n
        BY <1>1, FileParts DEF EntriesOf
      <4>2. IsFiniteSet({r \in EntriesOf(file) : r <= o})
        <5>1. IsFiniteSet(1..n)
          BY <1>2, FS_Interval
        <5>2. QED
          BY <4>1, <5>1, FS_Subset
      <4>3. QED
        BY <4>2, FS_CardinalityType DEF Rank, EntriesOf
    <3>2. QED
      BY <1>6, <2>1, <2>2, <3>1
  <2>4. Rank(new, o) <= new.count
    BY <1>2, <1>6, <2>2, <2>3
  <2>5. QED
    BY <1>4, <2>1, <2>2, <2>4 DEF CountedIn, EntriesOf
<1>8. QED
  BY <1>1, <1>3, <1>4, <1>5, <1>6, <1>7 DEF Grows

-----------------------------------------------------------------------------
(* Opening.                                                                 *)

\* An element of a sequence is its head or in its tail.
LEMMA HeadOrTail ==
    ASSUME NEW S, NEW s \in Seq(S), s # <<>>, NEW i \in 1..Len(s)
    PROVE  /\ s[i] = Head(s) \/ (i # 1 /\ i - 1 \in 1..Len(Tail(s)) /\ Tail(s)[i - 1] = s[i])
           /\ i = 1 => s[i] = Head(s)
<1>1. Tail(s) \in Seq(S) /\ Len(Tail(s)) = Len(s) - 1 /\ \A j \in 1..Len(Tail(s)) : Tail(s)[j] = s[j + 1]
  BY HeadTailProperties
<1>2. Head(s) = s[1] /\ Len(s) \in Nat
  BY HeadIs
<1>3. CASE i = 1
  BY <1>2, <1>3
<1>4. CASE i # 1
  <2>1. i - 1 \in 1..Len(Tail(s)) /\ i - 1 + 1 = i
    BY <1>1, <1>2, <1>4
  <2>2. QED
    BY <1>1, <1>4, <2>1
<1>5. QED
  BY <1>3, <1>4

\* A pattern is one path or none.
LEMMA PresentIs ==
    \A p \in {"system", "live", "archive"} : Present(p) \in Seq({"system", "live", "archive"})
<1> SUFFICES ASSUME NEW p \in {"system", "live", "archive"}
             PROVE  Present(p) \in Seq({"system", "live", "archive"})
  OBVIOUS
<1>1. <<>> \in Seq({"system", "live", "archive"}) /\ <<p>> \in Seq({"system", "live", "archive"})
  OBVIOUS
<1>2. Present(p) = <<>> \/ Present(p) = <<p>>
  BY Zenon DEF Present
<1>3. QED
  BY <1>1, <1>2

\* A reader's steps keep what it knows of the files it opens.
LEMMA OpenedReader ==
    ASSUME TypeOK, JournalInv, OpenedInv, Glob \/ Reader
    PROVE  OpenedInv'
<1> DEFINE OpenType == [file : File, end : Nat, limit : Nat, first : Nat]
           PathType == {"system", "live", "archive"}
<1>1. UNCHANGED <<files, access, dir>>
  BY ReaderLeaves DEF journal
<1>2. HeaderInv /\ HandleInv /\ LiveInv /\ ForeignInv /\ (denied => access["s"] = "denied")
  BY DEF OpenedInv
<1>3. /\ opened \in Seq(OpenType) /\ todo \in Seq(PathType) /\ Len(todo) \in Nat /\ Len(opened) \in Nat
      /\ (result = "none" <=> phase # "done")
  BY DEF TypeOK
<1>4. CASE Glob
  <2>1. /\ phase = "idle" /\ phase' = "stat" /\ UNCHANGED <<opening, opened, denied>>
        /\ todo' = Present("system") \o Present("live") \o Present("archive")
    BY <1>4 DEF Glob
  <2>2. dir["archive"] = None => \E i \in 1..Len(todo') : todo'[i] = "live"
    <3>0. PICK p1, p3 : p1 = Present("system") /\ p3 = Present("archive")
      OBVIOUS
    <3>1. p1 = Present("system") /\ p3 = Present("archive") /\ p1 \in Seq(PathType) /\ p3 \in Seq(PathType)
      <4>1. \A p \in PathType : Present(p) \in Seq(PathType)
        BY PresentIs
      <4>2. QED
        BY <3>0, <4>1
    <3>2. ASSUME dir["archive"] = None
          PROVE  Present("live") = <<"live">>
      BY <3>2, Places DEF Present, None
    <3>3. ASSUME dir["archive"] = None
          PROVE  \E i \in 1..Len(todo') : todo'[i] = "live"
      <4>1. todo' = p1 \o <<"live">> \o p3
        BY <2>1, <3>1, <3>2, <3>3
      <4>2. Len(p1) + 1 \in 1..Len(p1 \o <<"live">> \o p3) /\ (p1 \o <<"live">> \o p3)[Len(p1) + 1] = "live"
        BY <3>1
      <4>3. QED
        BY <4>1, <4>2
    <3>4. QED
      BY <3>3
  <2>3. access["s"] = "foreign" => \E i \in 1..Len(todo') : todo'[i] = "system"
    <3>0. PICK p2, p3 : p2 = Present("live") /\ p3 = Present("archive")
      OBVIOUS
    <3>1. p2 = Present("live") /\ p3 = Present("archive") /\ p2 \in Seq(PathType) /\ p3 \in Seq(PathType)
      <4>1. \A p \in PathType : Present(p) \in Seq(PathType)
        BY PresentIs
      <4>2. QED
        BY <3>0, <4>1
    <3>2. ASSUME access["s"] = "foreign"
          PROVE  Present("system") = <<"system">>
      BY <3>2, Places DEF Present, None
    <3>3. ASSUME access["s"] = "foreign"
          PROVE  \E i \in 1..Len(todo') : todo'[i] = "system"
      <4>1. todo' = <<"system">> \o p2 \o p3
        BY <2>1, <3>1, <3>2, <3>3
      <4>2. 1 \in 1..Len(<<"system">> \o p2 \o p3) /\ (<<"system">> \o p2 \o p3)[1] = "system"
        BY <3>1
      <4>3. QED
        BY <4>1, <4>2
    <3>4. QED
      BY <3>3
  <2>4. QED
    BY <1>1, <1>2, <2>1, <2>2, <2>3 DEF OpenedInv, HeaderInv, HandleInv, LiveInv, ForeignInv
<1>5. CASE Stat
  <2>1. /\ phase = "stat" /\ todo # <<>> /\ todo' = Tail(todo) /\ UNCHANGED <<opened, result>>
    BY <1>5 DEF Stat, answer
  <2>2. PICK f : f = dir[Head(todo)]
    OBVIOUS
  <2>3. Head(todo) \in PathType
    BY <1>3, <2>1, HeadIs
  <2>4. f \in {"a", "b", "s", None} /\ (f = "s" => access["s"] # "absent") /\ (f = "b" => dir["archive"] = "a")
    BY <2>2, <2>3, Places DEF None
  <2>5. \/ /\ f = None \/ access[f] = "denied"
           /\ phase' = "stat" /\ UNCHANGED opening
           /\ denied' = (denied \/ f # None)
        \/ /\ f # None /\ access[f] # "denied"
           /\ opening' = [file |-> f, size |-> files[f].extent]
           /\ phase' = "header" /\ UNCHANGED denied
    BY <1>5, <2>1, <2>2 DEF Stat, TypeOK
  <2>6. denied' => access["s"] = "denied"
    BY <1>2, <2>4, <2>5, Places
  <2>7. ASSUME f # None, access[f] # "denied"
        PROVE  opening'.file = f /\ opening'.size = files[f].extent /\ phase' = "header"
    BY <2>5, <2>7
  <2>8. HeaderInv'
    <3>1. CASE f = None \/ access[f] = "denied"
      BY <2>5, <3>1 DEF HeaderInv
    <3>2. CASE f # None /\ access[f] # "denied"
      BY <1>1, <2>4, <2>7, <3>2, Places DEF HeaderInv
    <3>3. QED
      BY <3>1, <3>2
  <2>9. LiveInv'
    <3> SUFFICES ASSUME dir["archive"] = None, NEW i \in 1..Len(todo), todo[i] = "live"
                 PROVE  \/ \E j \in 1..Len(todo') : todo'[j] = "live"
                        \/ phase' = "header" /\ opening'.file = "a"
      BY <1>1, <1>2, <2>1 DEF LiveInv
    <3>1. todo[i] = Head(todo) \/ (i - 1 \in 1..Len(Tail(todo)) /\ Tail(todo)[i - 1] = todo[i])
      BY <1>3, <2>1, HeadOrTail
    <3>2. CASE todo[i] = Head(todo)
      BY <2>2, <2>7, <3>2, Places DEF None
    <3>3. QED
      BY <2>1, <3>1, <3>2
  <2>10. ForeignInv'
    <3> SUFFICES ASSUME access["s"] = "foreign", NEW i \in 1..Len(todo), todo[i] = "system"
                 PROVE  \/ phase' \in {"stat", "header"} /\ \E j \in 1..Len(todo') : todo'[j] = "system"
                        \/ phase' = "header" /\ opening'.file = "s"
      BY <1>1, <1>2, <2>1 DEF ForeignInv
    <3>1. todo[i] = Head(todo) \/ (i - 1 \in 1..Len(Tail(todo)) /\ Tail(todo)[i - 1] = todo[i])
      BY <1>3, <2>1, HeadOrTail
    <3>2. CASE todo[i] = Head(todo)
      BY <2>2, <2>7, <3>2, Places DEF None
    <3>3. phase' \in {"stat", "header"}
      BY <2>5
    <3>4. QED
      BY <2>1, <3>1, <3>2, <3>3
  <2>11. HandleInv'
    BY <1>1, <1>2, <2>1 DEF HandleInv
  <2>12. QED
    BY <1>1, <2>6, <2>8, <2>9, <2>10, <2>11 DEF OpenedInv
<1>6. CASE HeaderRefused \/ NothingOpened
  <2>1. /\ phase' = "done" /\ result' # "ok" /\ UNCHANGED denied /\ opened' \in {opened, <<>>}
    BY <1>6 DEF HeaderRefused, NothingOpened, Ends
  <2>2. HandleInv'
    BY <1>1, <1>2, <2>1 DEF HandleInv
  <2>3. QED
    BY <1>1, <1>2, <2>1, <2>2 DEF OpenedInv, HeaderInv, LiveInv, ForeignInv
<1>7. CASE HeaderRead
  <2>1. /\ phase = "header" /\ phase' = "stat" /\ ~Foreign(opening.file)
        /\ UNCHANGED <<todo, opening, denied, result>>
    BY <1>7 DEF HeaderRead, answer
  <2>2. PICK f : f = files[opening.file] /\ opening.file \in File /\ opening.size \in Nat /\ f \in FileType
    BY DEF TypeOK
  <2>3. PICK h : h = [file |-> opening.file, end |-> Smaller(f.extent, opening.size), limit |-> f.count, first |-> f.first]
    OBVIOUS
  <2>4. h \in OpenType /\ h.file = opening.file /\ h.first = f.first
    BY <2>2, <2>3, FileParts DEF Smaller
  <2>5. opened' = Append(opened, h)
    BY <1>7, <2>2, <2>3 DEF HeaderRead
  <2>6. /\ opened' # <<>> /\ Len(opened') = Len(opened) + 1 /\ opened'[Len(opened) + 1] = h
        /\ \A i \in 1..Len(opened) : opened'[i] = opened[i]
    BY <1>3, <2>4, <2>5, AppendProperties
  <2>7. access[h.file] = "readable"
    BY <1>2, <2>1, <2>4 DEF Foreign, HeaderInv
  <2>8. HandleInv'
    <3>1. ASSUME NEW i \in 1..Len(opened')
          PROVE  /\ access[opened'[i].file] = "readable"
                 /\ opened'[i].first # 0 => opened'[i].first = files[opened'[i].file].first
      <4>1. i \in 1..Len(opened) \/ i = Len(opened) + 1
        BY <1>3, <2>6
      <4>2. QED
        BY <1>2, <2>2, <2>4, <2>6, <2>7, <4>1 DEF HandleInv
    <3>2. QED
      BY <1>1, <3>1 DEF HandleInv
  <2>9. ForeignInv'
    <3>1. access["s"] = "foreign" => opening.file # "s"
      BY <2>4, <2>7
    <3>2. QED
      BY <1>1, <1>2, <2>1, <3>1 DEF ForeignInv
  <2>10. QED
    BY <1>1, <1>2, <2>1, <2>6, <2>8, <2>9 DEF OpenedInv, HeaderInv, LiveInv
<1>8. CASE BeginWalk
  <2>1. /\ phase = "stat" /\ todo = <<>> /\ phase' = "walk" /\ UNCHANGED <<todo, opening, opened, denied, result>>
    BY <1>8 DEF BeginWalk, BeginFile, answer
  <2>2. access["s"] # "foreign"
    <3>1. Len(todo) = 0
      BY <2>1
    <3>2. QED
      BY <1>2, <1>3, <2>1, <3>1 DEF ForeignInv
  <2>3. QED
    BY <1>1, <1>2, <2>1, <2>2 DEF OpenedInv, HeaderInv, HandleInv, LiveInv, ForeignInv
<1>9. CASE ChainEnds \/ ChainCorrupt \/ ReadArray \/ EntrySkipped \/ EntryMatches \/ EntryFails \/ Take
  <2>1. /\ phase \in {"walk", "match", "take"} /\ phase' \in {"walk", "match", "take", "done"}
        /\ UNCHANGED <<todo, opening, opened, denied>>
    BY <1>9 DEF ChainEnds, ChainCorrupt, ReadArray, EntrySkipped, EntryMatches, EntryFails, Take, Walking, Matching, Ends, NextEntry
  <2>2. access["s"] # "foreign"
    BY <1>2, <2>1 DEF ForeignInv
  <2>3. QED
    BY <1>1, <1>2, <2>1, <2>2 DEF OpenedInv, HeaderInv, HandleInv, LiveInv, ForeignInv
<1>10. CASE FileEnds
  <2>1. /\ phase = "match" /\ phase' \in {"walk", "take"} /\ opened' = Tail(opened)
        /\ UNCHANGED <<todo, opening, denied>>
    BY <1>10 DEF FileEnds, Matching, BeginFile
  <2>2. access["s"] # "foreign"
    BY <1>2, <2>1 DEF ForeignInv
  <2>3. HandleInv'
    <3>1. opened # <<>>
      BY <2>1 DEF TypeOK
    <3>2. Len(Tail(opened)) = Len(opened) - 1 /\ \A j \in 1..Len(Tail(opened)) : Tail(opened)[j] = opened[j + 1]
      BY <1>3, <3>1, HeadTailProperties
    <3>3. ASSUME NEW j \in 1..Len(Tail(opened))
          PROVE  j + 1 \in 1..Len(opened)
      <4>1. PICK m : m = Len(opened)
        OBVIOUS
      <4>2. m \in Nat
        BY <1>3, <4>1, LenProperties
      <4>3. j \in 1..m - 1
        BY <3>2, <4>1
      <4>4. j + 1 \in 1..m
        BY <4>2, <4>3
      <4>5. QED
        BY <4>1, <4>4
    <3>4. QED
      BY <1>1, <1>2, <2>1, <3>2, <3>3 DEF HandleInv
  <2>4. QED
    BY <1>1, <1>2, <2>1, <2>2, <2>3 DEF OpenedInv, HeaderInv, LiveInv, ForeignInv
<1>11. QED
  BY <1>4, <1>5, <1>6, <1>7, <1>8, <1>9, <1>10 DEF Reader

\* And so do journald's.
LEMMA OpenedJournald ==
    ASSUME TypeOK, JournalInv, OpenedInv, Moves
    PROVE  OpenedInv'
<1>1. /\ HeaderInv /\ HandleInv /\ LiveInv /\ ForeignInv /\ (denied => access["s"] = "denied")
      /\ access'["s"] = access["s"] /\ files'["s"] = files["s"]
      /\ dir["archive"] = "a" => dir'["archive"] = "a"
      /\ dir'["archive"] # "a" => dir' = dir
      /\ \A f \in File : access[f] = "readable" => access'[f] = "readable"
      /\ UNCHANGED <<phase, todo, opening, opened, denied, result>>
      /\ opening.file \in File
      /\ opened \in Seq([file : File, end : Nat, limit : Nat, first : Nat])
  BY DEF OpenedInv, Moves, reader, answer, TypeOK
<1>2. HeaderInv'
  <2>1. access[opening.file] \in {"readable", "foreign"} => access'[opening.file] \in {"readable", "foreign"}
    BY <1>1, Places
  <2>2. QED
    BY <1>1, <2>1 DEF HeaderInv
<1>3. HandleInv'
  <2> SUFFICES ASSUME NEW i \in 1..Len(opened')
               PROVE  /\ access'[opened'[i].file] = "readable"
                      /\ opened'[i].first # 0 => opened'[i].first = files'[opened'[i].file].first
    BY DEF HandleInv
  <2>0. opened' = opened
    BY <1>1
  <2>1. i \in 1..Len(opened) /\ opened[i].file \in File
    <3>1. PICK s, S : s = opened /\ S = [file : File, end : Nat, limit : Nat, first : Nat]
      OBVIOUS
    <3>2. s \in Seq(S) /\ i \in 1..Len(s)
      BY <1>1, <2>0, <3>1
    <3>3. s[i] \in S
      BY <3>2, ElementOfSeq
    <3>4. QED
      BY <3>1, <3>2, <3>3
  <2>2. Grows(files[opened[i].file], files'[opened[i].file])
    BY <2>1 DEF Moves
  <2>3. /\ access[opened[i].file] = "readable"
        /\ opened[i].first # 0 => opened[i].first = files[opened[i].file].first
    BY <1>1, <2>1 DEF HandleInv
  <2>4. access'[opened[i].file] = "readable"
    BY <1>1, <2>1, <2>3
  <2>5. opened[i].first # 0 => opened[i].first = files'[opened[i].file].first
    BY <2>2, <2>3 DEF Grows
  <2>6. QED
    BY <2>0, <2>4, <2>5
<1>4. LiveInv'
  BY <1>1 DEF LiveInv, None
<1>5. ForeignInv'
  BY <1>1 DEF ForeignInv
<1>6. QED
  BY <1>1, <1>2, <1>3, <1>4, <1>5 DEF OpenedInv

-----------------------------------------------------------------------------
(* The walk, and the causes of an error.                                    *)

\* In a file that is intact offsets lead where they should, and the chain onwards.
LEMMA LeadsOn ==
    ASSUME TypeOK, JournalInv, NEW f \in File, Intact(files[f])
    PROVE  /\ files[f].first = 0 \/ Leads(f, files[f].first, "array")
           /\ \A q \in ArraysOf(files[f]) :
                 /\ files[f].objs[q].next = 0 \/ (Leads(f, files[f].objs[q].next, "array") /\ q < files[f].objs[q].next)
                 /\ \A i \in Filled(Items(files[f], q)) : Leads(f, Items(files[f], q)[i], "entry")
<1>1. PICK file, n : file = files[f] /\ n = Len(file.objs) /\ file \in FileType
  BY DEF TypeOK
<1>2. /\ n \in Nat /\ file.first \in Nat /\ ArraysOf(file) \subseteq 1..n
      /\ \A q \in ArraysOf(file) : file.objs[q].next \in Nat
  BY <1>1, FileParts DEF ArraysOf
<1>3. \A o, type : Leads(f, o, type) <=> o \in OffsetsOf(file.objs, type) \/ (f = "s" /\ o > n)
  BY <1>1 DEF Leads
<1>4. CASE f = "s"
  <2>1. /\ file.first \in ArraysOf(file) \cup {0} \/ file.first > n
        /\ \A q \in ArraysOf(file) :
              /\ file.objs[q].next \in (ArraysOf(file) \ 1..q) \cup {0} \/ file.objs[q].next > n
              /\ \A i \in Filled(Items(file, q)) : Items(file, q)[i] \in EntriesOf(file) \/ Items(file, q)[i] > n
    BY <1>1 DEF Intact, ArraysOf, EntriesOf, Items
  <2>2. file.first = 0 \/ Leads(f, file.first, "array")
    BY <1>3, <1>4, <2>1 DEF ArraysOf
  <2>3. ASSUME NEW q \in ArraysOf(file)
        PROVE  /\ file.objs[q].next = 0 \/ (Leads(f, file.objs[q].next, "array") /\ q < file.objs[q].next)
               /\ \A i \in Filled(Items(file, q)) : Leads(f, Items(file, q)[i], "entry")
    <3>1. \A i \in Filled(Items(file, q)) : Leads(f, Items(file, q)[i], "entry")
      BY <1>3, <1>4, <2>1 DEF EntriesOf
    <3>2. PICK x : x = file.objs[q].next /\ x \in Nat
      BY <1>2
    <3>3. q \in 1..n /\ (x \in (ArraysOf(file) \ 1..q) \cup {0} \/ x > n)
      BY <1>2, <2>1, <3>2
    <3>4. x = 0 \/ q < x
      BY <1>2, <3>2, <3>3
    <3>5. x = 0 \/ Leads(f, x, "array")
      BY <1>3, <1>4, <3>3 DEF ArraysOf
    <3>6. QED
      BY <3>1, <3>2, <3>4, <3>5
  <2>4. QED
    BY <1>1, <2>2, <2>3
<1>5. CASE f # "s"
  <2>1. Sound(file)
    BY <1>1, <1>5, Places
  <2>2. file.first \in ArraysOf(file) \cup {0}
    BY <2>1 DEF Sound
  <2>3. ASSUME NEW q \in ArraysOf(file)
        PROVE  /\ file.objs[q].next = 0 \/ (Leads(f, file.objs[q].next, "array") /\ q < file.objs[q].next)
               /\ \A i \in Filled(Items(file, q)) : Leads(f, Items(file, q)[i], "entry")
    <3>1. PICK x : x = file.objs[q].next /\ x \in (ArraysOf(file) \ 1..q) \cup {0}
      BY <2>1 DEF Sound
    <3>2. q \in 1..n /\ (x # 0 => x \in 1..n /\ x \notin 1..q)
      BY <1>2, <3>1
    <3>3. x = 0 \/ q < x
      BY <1>2, <3>2
    <3>4. x = 0 \/ Leads(f, x, "array")
      BY <1>3, <3>1 DEF ArraysOf
    <3>5. \A i \in Filled(Items(file, q)) : Items(file, q)[i] \in EntriesOf(file)
      BY <2>1 DEF Sound
    <3>6. \A i \in Filled(Items(file, q)) : Leads(f, Items(file, q)[i], "entry")
      BY <1>3, <3>5 DEF EntriesOf
    <3>7. QED
      BY <3>1, <3>3, <3>4, <3>6
  <2>4. file.first = 0 \/ Leads(f, file.first, "array")
    BY <1>3, <2>2 DEF ArraysOf
  <2>5. QED
    BY <1>1, <2>3, <2>4
<1>6. QED
  BY <1>4, <1>5

\* A walk begins in a file that is open, or there is none.
LEMMA BeginIs ==
    ASSUME TypeOK, JournalInv, OpenedInv, NEW rest \in Seq([file : File, end : Nat, limit : Nat, first : Nat]),
           BeginFile(rest), opened' = rest, UNCHANGED files,
           \A i \in 1..Len(rest) : \E j \in 1..Len(opened) : rest[i] = opened[j]
    PROVE  WalkInv'
<1>1. CASE rest = <<>>
  BY <1>1 DEF BeginFile, WalkInv
<1>2. CASE rest # <<>>
  <2>1. PICK h : h = Head(rest) /\ h = rest[1] /\ 1 \in 1..Len(rest) /\ h \in [file : File, end : Nat, limit : Nat, first : Nat]
    BY <1>2, HeadIs
  <2>2. h.first # 0 => h.first = files[h.file].first
    BY <2>1 DEF OpenedInv, HandleInv
  <2>3. /\ phase' = "walk" /\ array' = h.first /\ visited' = {} /\ offsets' = <<>> /\ This' = h
    BY <1>2, <2>1 DEF BeginFile, This
  <2>4. Intact(files[h.file]) => h.first = 0 \/ Leads(h.file, h.first, "array")
    BY <2>1, <2>2, LeadsOn
  <2>5. Leads(h.file, h.first, "array")' <=> Leads(h.file, h.first, "array")
    BY DEF Leads
  <2>6. Len(offsets') = 0
    BY <2>3
  <2>7. QED
    BY <2>3, <2>4, <2>5, <2>6 DEF WalkInv, Leads
<1>3. QED
  BY <1>1, <1>2

\* The reader's steps keep to the chain.
LEMMA WalkReader ==
    ASSUME TypeOK, JournalInv, OpenedInv, WalkInv, Glob \/ Reader
    PROVE  WalkInv'
<1> DEFINE OpenType == [file : File, end : Nat, limit : Nat, first : Nat]
<1>1. UNCHANGED files
  BY ReaderLeaves DEF journal
<1>2. /\ opened \in Seq(OpenType) /\ offsets \in Seq(Nat \ {0}) /\ Len(offsets) \in Nat /\ array \in Nat
      /\ (phase \in {"walk", "match"} => opened # <<>> /\ Len(offsets) <= This.limit)
      /\ visited \subseteq Nat
  BY DEF TypeOK
<1>3. CASE Glob \/ Stat \/ HeaderRefused \/ HeaderRead \/ NothingOpened \/ ChainCorrupt \/ EntryFails \/ Take
  <2>1. phase' \notin {"walk", "match"}
    BY <1>3 DEF Glob, Stat, HeaderRefused, HeaderRead, NothingOpened, ChainCorrupt, EntryFails, Take, Ends
  <2>2. QED
    BY <2>1 DEF WalkInv
<1>4. CASE BeginWalk
  <2>1. BeginFile(opened) /\ opened' = opened
    BY <1>4 DEF BeginWalk
  <2>2. QED
    BY <1>1, <1>2, <2>1, BeginIs
<1>5. CASE FileEnds
  <2>1. BeginFile(Tail(opened)) /\ opened' = Tail(opened) /\ opened # <<>>
    BY <1>2, <1>5 DEF FileEnds, Matching
  <2>2. /\ Tail(opened) \in Seq(OpenType) /\ Len(Tail(opened)) = Len(opened) - 1 /\ Len(opened) \in Nat
        /\ \A i \in 1..Len(Tail(opened)) : Tail(opened)[i] = opened[i + 1]
    BY <1>2, <2>1, HeadTailProperties, LenProperties
  <2>3. \A i \in 1..Len(Tail(opened)) : i + 1 \in 1..Len(opened)
    BY <2>2
  <2>4. \A i \in 1..Len(Tail(opened)) : \E j \in 1..Len(opened) : Tail(opened)[i] = opened[j]
    BY <2>2, <2>3
  <2>5. QED
    BY <1>1, <2>1, <2>2, <2>4, BeginIs
<1>6. CASE ChainEnds
  <2>1. phase = "walk" /\ phase' = "match" /\ offsets' = offsets /\ opened' = opened
    BY <1>6 DEF ChainEnds, Walking, reading
  <2>2. QED
    BY <1>1, <2>1 DEF WalkInv, Leads, This
<1>7. CASE EntrySkipped \/ EntryMatches
  <2>1. phase = "match" /\ phase' = "match" /\ offsets # <<>> /\ offsets' = Tail(offsets) /\ opened' = opened
    BY <1>7 DEF EntrySkipped, EntryMatches, Matching, NextEntry
  <2>2. Len(Tail(offsets)) = Len(offsets) - 1 /\ \A i \in 1..Len(Tail(offsets)) : Tail(offsets)[i] = offsets[i + 1]
    BY <1>2, <2>1, HeadTailProperties
  <2>3. \A i \in 1..Len(Tail(offsets)) : i + 1 \in 1..Len(offsets)
    BY <1>2, <2>2
  <2>4. This' = This
    BY <2>1 DEF This
  <2>5. QED
    BY <1>1, <2>1, <2>2, <2>3, <2>4 DEF WalkInv, Leads
<1>8. CASE ReadArray
  <2>1. /\ phase = "walk" /\ opened' = opened /\ array # 0 /\ ~Revisited /\ Holds(array, "array")
        /\ visited' = visited \cup {array}
    BY <1>8 DEF ReadArray, Walking
  <2>2. PICK f, x : f = This.file /\ x = ObjectAt(array) /\ f \in File
    BY <2>1, ThisIs
  <2>3. /\ x \in [type : {"array"}, items : Seq(Nat), next : Nat] /\ x = files[f].objs[array]
        /\ array \in ArraysOf(files[f])
    BY <1>2, <2>1, <2>2, HoldsIs, ObjectParts DEF ArraysOf
  <2>4. PICK items, new : items = x.items /\ new = Listed(items) /\ items = Items(files[f], array) /\ items \in Seq(Nat)
    BY <2>3 DEF Items
  <2>5. PICK m \in 0..Len(items) :
              /\ new \in Seq(Nat \ {0}) /\ Len(new) = m
              /\ 1..m \subseteq Filled(items)
              /\ \A i \in 1..m : new[i] = items[i]
              /\ Len(offsets \o new) = Len(offsets) + m
    <3>1. This.limit \in Nat /\ Len(offsets) <= This.limit
      BY <1>2, <2>1, ThisIs
    <3>2. QED
      BY <1>2, <2>4, <3>1, ListedIs
  <2>6. PICK all : all = offsets \o new /\ offsets' = all
    BY <1>8, <2>2, <2>4 DEF ReadArray
  <2>7. \A i \in 1..Len(all) : IF i <= Len(offsets) THEN all[i] = offsets[i] /\ i \in 1..Len(offsets)
                               ELSE i - Len(offsets) \in 1..m /\ all[i] = new[i - Len(offsets)]
    <3>1. \A i \in 1..Len(offsets) + m : all[i] = IF i <= Len(offsets) THEN offsets[i] ELSE new[i - Len(offsets)]
      BY <1>2, <2>5, <2>6, ConcatProperties
    <3>2. m \in Nat /\ Len(all) = Len(offsets) + m
      BY <2>5, <2>6, LenProperties, <2>4
    <3>3. QED
      BY <1>2, <3>1, <3>2
  <2>8. phase' \in {"walk", "match"} /\ (phase' = "walk" => array' = x.next)
    BY <1>8, <2>1, <2>2 DEF ReadArray
  <2>9. This' = This
    BY <2>1 DEF This
  <2>10. ASSUME Intact(files[f])
         PROVE  /\ x.next = 0 \/ (Leads(f, x.next, "array") /\ array < x.next)
                /\ \A i \in Filled(items) : Leads(f, items[i], "entry")
    BY <2>2, <2>3, <2>4, <2>10, LeadsOn
  <2>11. ASSUME Intact(files[f]), phase' = "walk"
         PROVE  /\ array' = 0 \/ Leads(f, array', "array")
                /\ array' # 0 => \A v \in visited' : v < array'
    <3>1. \A v \in visited : v < array
      BY <2>1, <2>2, <2>11 DEF WalkInv
    <3>2. x.next \in Nat /\ \A v \in visited \cup {array} : v \in Nat /\ (v < array \/ v = array)
      BY <1>2, <2>3, <3>1
    <3>3. QED
      BY <1>2, <2>1, <2>8, <2>10, <2>11, <3>2
  <2>12. ASSUME Intact(files[f]), NEW i \in 1..Len(all)
         PROVE  Leads(f, all[i], "entry")
    <3>1. CASE i <= Len(offsets)
      BY <2>1, <2>2, <2>7, <2>12, <3>1 DEF WalkInv
    <3>2. CASE ~(i <= Len(offsets))
      <4>1. PICK k : k = i - Len(offsets) /\ k \in 1..m /\ all[i] = new[k]
        BY <2>7, <3>2
      <4>2. QED
        BY <2>5, <2>10, <2>12, <4>1
    <3>3. QED
      BY <3>1, <3>2
  <2>13. \A o, type : Leads(f, o, type)' <=> Leads(f, o, type)
    BY <1>1 DEF Leads
  <2>14. QED
    BY <1>1, <2>2, <2>6, <2>9, <2>11, <2>12, <2>13 DEF WalkInv, Leads
<1>9. QED
  BY <1>3, <1>4, <1>5, <1>6, <1>7, <1>8 DEF Reader

\* Nor do journald's steps lead it astray.
LEMMA WalkJournald ==
    ASSUME TypeOK, JournalInv, WalkInv, Moves, files' \in [File -> FileType]
    PROVE  WalkInv'
<1>1. UNCHANGED <<phase, opened, array, visited, offsets>> /\ This' = This /\ files'["s"] = files["s"]
  BY DEF Moves, reader, reading, This
<1>2. CASE phase \in {"walk", "match"}
  <2>1. PICK f : f = This.file /\ f \in File
    BY <1>2, ThisIs
  <2>2. Intact(files'[f]) => Intact(files[f])
    BY <1>1, <2>1, Places
  <2>3. ASSUME NEW o, NEW type, Leads(f, o, type)
        PROVE  Leads(f, o, type)'
    <3>1. CASE f = "s"
      BY <1>1, <2>3, <3>1 DEF Leads
    <3>2. CASE f # "s"
      <4>1. files[f] \in FileType /\ files'[f] \in FileType /\ Grows(files[f], files'[f])
        BY <2>1 DEF Moves, TypeOK
      <4>2. OffsetsOf(files[f].objs, type) \subseteq OffsetsOf(files'[f].objs, type)
        BY <4>1, GrownParts
      <4>3. QED
        BY <2>3, <3>2, <4>2 DEF Leads
    <3>3. QED
      BY <3>1, <3>2
  <2>4. ASSUME Intact(files'[f])
        PROVE  /\ phase = "walk" => /\ array = 0 \/ Leads(f, array, "array")'
                                    /\ array # 0 => \A v \in visited : v < array
               /\ \A i \in 1..Len(offsets) : Leads(f, offsets[i], "entry")'
    <3>1. /\ phase = "walk" => /\ array = 0 \/ Leads(f, array, "array")
                               /\ array # 0 => \A v \in visited : v < array
          /\ \A i \in 1..Len(offsets) : Leads(f, offsets[i], "entry")
      BY <1>2, <2>1, <2>2, <2>4, Zenon DEF WalkInv
    <3>3. \A i \in 1..Len(offsets) : Leads(f, offsets[i], "entry")'
      <4>1. ASSUME NEW i \in 1..Len(offsets)
            PROVE  Leads(f, offsets[i], "entry")'
        <5>1. PICK o : o = offsets[i] /\ o = offsets'[i]
          BY <1>1
        <5>2. Leads(f, o, "entry")'
          BY <2>3, <3>1, <5>1
        <5>3. QED
          BY <5>1, <5>2
      <4>2. QED
        BY <1>1, <4>1
    <3>4. Leads(f, array, "array")' \/ ~Leads(f, array, "array")
      <4>1. PICK o : o = array /\ o = array'
        BY <1>1
      <4>2. Leads(f, o, "array") => Leads(f, o, "array")'
        BY <2>3
      <4>3. QED
        BY <4>1, <4>2
    <3>5. QED
      BY <3>1, <3>3, <3>4
  <2>5. QED
    BY <1>1, <2>1, <2>4 DEF WalkInv, Leads
<1>3. CASE phase \notin {"walk", "match"}
  BY <1>1, <1>3 DEF WalkInv
<1>4. QED
  BY <1>2, <1>3

\* What else than journald makes corruption.
Excuse ==
    \/ access["s"] = "readable" /\ ~Intact(files["s"])
    \/ \E f \in File : \E o \in OffsetsOf(files[f].objs, "data") : files[f].objs[o].kind.huge

\* It is found in the system's file alone, and only if that is not intact.
LEMMA CorruptChain ==
    ASSUME TypeOK, JournalInv, OpenedInv, WalkInv, ChainCorrupt
    PROVE  Excuse
<1>1. phase = "walk" /\ array # 0 /\ (Revisited \/ (~PastEnd(array) /\ ~Holds(array, "array"))) /\ array \in Nat
  BY DEF ChainCorrupt, Walking, TypeOK
<1>2. PICK f : f = This.file /\ f \in File /\ access[f] = "readable"
  <2>1. This.file \in File /\ This = opened[1] /\ 1 \in 1..Len(opened)
    BY <1>1, ThisIs
  <2>2. access[This.file] = "readable"
    BY <2>1 DEF OpenedInv, HandleInv
  <2>3. QED
    BY <2>1, <2>2
<1>3. ~Intact(files[f])
  <2> SUFFICES ASSUME Intact(files[f])
               PROVE  FALSE
    OBVIOUS
  <2>1. Leads(f, array, "array") /\ \A v \in visited : v < array
    BY <1>1, <1>2 DEF WalkInv
  <2>2. ~Revisited
    BY <1>1, <2>1 DEF Revisited
  <2>3. Written(array) /\ ~Holds(array, "array")
    BY <1>1, <2>2 DEF PastEnd
  <2>4. array <= Len(files[f].objs) /\ Len(files[f].objs) \in Nat
    <3>1. files[f] \in FileType
      BY <1>2 DEF TypeOK
    <3>2. QED
      BY <1>2, <2>3, <3>1, FileParts DEF Written
  <2>5. array \in OffsetsOf(files[f].objs, "array")
    BY <1>1, <2>1, <2>4 DEF Leads
  <2>6. QED
    BY <1>1, <1>2, <2>3, <2>5 DEF Holds, ObjectAt, OffsetsOf
<1>4. QED
  BY <1>2, <1>3, Places DEF Excuse

\* An entry that is there has its data, in a file that is intact.
LEMMA EntryHasData ==
    ASSUME TypeOK, phase \in {"walk", "match"}, NEW o, o \in EntriesOf(files[This.file]), o <= This.end,
           Intact(files[This.file])
    PROVE  /\ EntryVerdict(o) = Verdict(RecordAt(files[This.file], o).kind)
           /\ ObjectAt(o).data \in OffsetsOf(files[This.file].objs, "data")
           /\ RecordAt(files[This.file], o) = [id |-> ObjectAt(o).id, kind |-> ObjectAt(ObjectAt(o).data).kind]
<1>1. PICK file, n : file = files[This.file] /\ file \in FileType /\ n = Len(file.objs) /\ n \in Nat
  BY ThisIs, FileParts
<1>2. o \in 1..n /\ file.objs[o].type = "entry" /\ file.objs[o].data \in 1..o - 1 /\ file.objs[file.objs[o].data].type = "data"
  BY <1>1 DEF Intact, EntriesOf, OffsetsOf
<1>3. PICK d : d = file.objs[o].data /\ d \in 1..n /\ d < o
  BY <1>1, <1>2
<1>4. This.end \in Nat
  BY ThisIs
<1>5. /\ Written(o) /\ ObjectAt(o) = file.objs[o]
      /\ Written(d) /\ ObjectAt(d) = file.objs[d]
  BY <1>1, <1>2, <1>3, <1>4 DEF Written, ObjectAt
<1>6. Holds(d, "data")
  BY <1>2, <1>3, <1>5 DEF Holds
<1>7. EntryVerdict(o) = Verdict(ObjectAt(d).kind)
  BY <1>2, <1>3, <1>5, <1>6 DEF EntryVerdict
<1>8. d \in OffsetsOf(file.objs, "data")
  BY <1>1, <1>2, <1>3 DEF OffsetsOf
<1>9. RecordAt(file, o) = [id |-> file.objs[o].id, kind |-> file.objs[d].kind]
  BY <1>3 DEF RecordAt
<1>10. ObjectAt(o).data = d /\ ObjectAt(o).id = file.objs[o].id /\ ObjectAt(d).kind = file.objs[d].kind
  BY <1>3, <1>5
<1>11. RecordAt(file, o).kind = file.objs[d].kind
  BY <1>9
<1>12. QED
  BY <1>1, <1>7, <1>8, <1>9, <1>10, <1>11

\* And so is an entry, or one of its objects is too large.
LEMMA CorruptEntry ==
    ASSUME TypeOK, JournalInv, OpenedInv, WalkInv, EntryFails, EntryVerdict(Head(offsets)) = "corrupt"
    PROVE  Excuse
<1>1. phase = "match" /\ offsets # <<>> /\ offsets \in Seq(Nat \ {0})
  BY DEF EntryFails, Matching, TypeOK
<1>2. PICK f : f = This.file /\ f \in File /\ access[f] = "readable"
  <2>1. This.file \in File /\ This = opened[1] /\ 1 \in 1..Len(opened)
    BY <1>1, ThisIs
  <2>2. access[This.file] = "readable"
    BY <2>1 DEF OpenedInv, HandleInv
  <2>3. QED
    BY <2>1, <2>2
<1>3. CASE ~Intact(files[f])
  BY <1>2, <1>3, Places DEF Excuse
<1>4. CASE Intact(files[f])
  <2>1. PICK o : o = Head(offsets) /\ o = offsets[1] /\ 1 \in 1..Len(offsets) /\ o \in Nat \ {0}
    BY <1>1, HeadIs
  <2>2. Leads(f, o, "entry")
    BY <1>1, <1>2, <1>4, <2>1 DEF WalkInv
  <2>3. Written(o)
    BY <2>1 DEF EntryVerdict
  <2>4. o \in EntriesOf(files[f]) /\ o <= This.end
    <3>1. o <= This.end /\ o <= Len(files[f].objs)
      BY <1>2, <2>3 DEF Written
    <3>2. Len(files[f].objs) \in Nat
      <4>1. files[f] \in FileType
        BY <1>2 DEF TypeOK
      <4>2. QED
        BY <4>1, FileParts
    <3>3. QED
      BY <2>1, <2>2, <3>1, <3>2 DEF Leads, EntriesOf
  <2>5. /\ Verdict(RecordAt(files[f], o).kind) = "corrupt"
        /\ ObjectAt(o).data \in OffsetsOf(files[f].objs, "data")
        /\ RecordAt(files[f], o) = [id |-> ObjectAt(o).id, kind |-> ObjectAt(ObjectAt(o).data).kind]
    BY <1>1, <1>2, <1>4, <2>1, <2>4, EntryHasData
  <2>6. ObjectAt(ObjectAt(o).data).kind.huge
    BY <2>5 DEF Verdict
  <2>7. QED
    BY <1>2, <2>5, <2>6 DEF Excuse, ObjectAt
<1>5. QED
  BY <1>3, <1>4

\* Nothing is opened only if the live file was renamed under the reader.
LEMMA NothingThere ==
    ASSUME TypeOK, JournalInv, OpenedInv, NothingOpened
    PROVE  dir["archive"] = "a"
<1>1. phase = "stat" /\ todo = <<>> /\ opened = <<>>
  BY DEF NothingOpened
<1>2. Len(todo) = 0
  BY <1>1
<1>3. dir["archive"] # None
  BY <1>1, <1>2 DEF OpenedInv, LiveInv
<1>4. QED
  BY <1>3, Places

\* A reader's error is excused when it is made,
LEMMA CauseReader ==
    ASSUME TypeOK, JournalInv, OpenedInv, WalkInv, ErrorsHaveACause, Glob \/ Reader
    PROVE  ErrorsHaveACause'
<1>1. UNCHANGED <<files, access, dir>>
  BY ReaderLeaves DEF journal
<1>2. /\ result = "corrupt" => Excuse
      /\ result = "unsupported" => access["s"] = "foreign" \/ files["s"].extent = 0 \/ dir["archive"] = "a"
      /\ result = "unreadable" => dir["archive"] = "a"
      /\ result = "permission" => dir["archive"] = "a" /\ access["s"] = "denied"
  BY Zenon DEF ErrorsHaveACause, Excuse
<1>3. SUFFICES /\ result' = "corrupt" => Excuse
               /\ result' = "unsupported" => access["s"] = "foreign" \/ files["s"].extent = 0 \/ dir["archive"] = "a"
               /\ result' = "unreadable" => dir["archive"] = "a"
               /\ result' = "permission" => dir["archive"] = "a" /\ access["s"] = "denied"
  <2>1. Excuse' <=> Excuse
    BY <1>1 DEF Excuse
  <2>2. ErrorsHaveACause' <=>
           /\ result' = "corrupt" => Excuse'
           /\ result' = "unsupported" => access'["s"] = "foreign" \/ files'["s"].extent = 0 \/ dir'["archive"] = "a"
           /\ result' = "unreadable" => dir'["archive"] = "a"
           /\ result' = "permission" => dir'["archive"] = "a" /\ access'["s"] = "denied"
    BY Zenon DEF ErrorsHaveACause, Excuse
  <2>3. QED
    BY <1>1, <2>1, <2>2
<1>4. CASE HeaderRefused
  <2>1. phase = "header" /\ result' = "unsupported" /\ Foreign(opening.file) /\ opening.file \in File
    BY <1>4 DEF HeaderRefused, Ends, TypeOK
  <2>2. access[opening.file] = "foreign" => opening.file = "s"
    BY <2>1, Places
  <2>3. QED
    BY <2>1, <2>2 DEF Foreign, OpenedInv, HeaderInv
<1>5. CASE NothingOpened
  <2>1. result' = (IF denied THEN "permission" ELSE "unreadable")
    BY <1>5 DEF NothingOpened, Ends
  <2>2. QED
    BY <1>5, <2>1, NothingThere DEF OpenedInv
<1>6. CASE ChainCorrupt
  <2>1. result' = "corrupt"
    BY <1>6 DEF ChainCorrupt, Ends
  <2>2. QED
    BY <1>6, <2>1, CorruptChain
<1>7. CASE EntryFails
  <2>1. result' = EntryVerdict(Head(offsets)) /\ result' \in {"corrupt", "ambiguous", "compressed"}
    BY <1>7 DEF EntryFails, Ends, EntryVerdict, Verdict
  <2>2. QED
    BY <1>7, <2>1, CorruptEntry
<1>8. CASE Take
  <2>1. result' \in {"ok", "malformed"}
    BY <1>8 DEF Take, Ends
  <2>2. QED
    BY <2>1
<1>9. CASE Glob \/ Stat \/ HeaderRead \/ BeginWalk \/ ChainEnds \/ ReadArray \/ EntrySkipped \/ EntryMatches \/ FileEnds
  <2>1. result' = result
    BY <1>9 DEF Glob, Stat, HeaderRead, BeginWalk, ChainEnds, ReadArray, EntrySkipped, EntryMatches, FileEnds, answer, NextEntry
  <2>2. QED
    BY <1>2, <2>1
<1>10. QED
  BY <1>4, <1>5, <1>6, <1>7, <1>8, <1>9 DEF Reader

\* and remains so.
LEMMA CauseJournald ==
    ASSUME TypeOK, ErrorsHaveACause, Moves, files' \in [File -> FileType]
    PROVE  ErrorsHaveACause'
<1>1. /\ result' = result /\ files'["s"] = files["s"] /\ access'["s"] = access["s"]
      /\ dir["archive"] = "a" => dir'["archive"] = "a"
  BY DEF Moves, reader, answer
<1>2. Excuse => Excuse'
  <2>1. CASE access["s"] = "readable" /\ ~Intact(files["s"])
    BY <1>1, <2>1 DEF Excuse
  <2>2. ASSUME NEW f \in File, NEW o \in OffsetsOf(files[f].objs, "data"), files[f].objs[o].kind.huge
        PROVE  Excuse'
    <3>1. files[f] \in FileType /\ files'[f] \in FileType /\ Grows(files[f], files'[f])
      BY DEF Moves, TypeOK
    <3>2. o \in OffsetsOf(files'[f].objs, "data")
      BY <3>1, GrownParts
    <3>3. o \in 1..Len(files[f].objs) /\ files[f].objs[o].type # "array"
      BY DEF OffsetsOf
    <3>4. files'[f].objs[o] = files[f].objs[o]
      BY <3>1, <3>3 DEF Grows
    <3>5. QED
      BY <2>2, <3>2, <3>4 DEF Excuse
  <2>3. QED
    BY <2>1, <2>2 DEF Excuse
<1>3. /\ result = "corrupt" => Excuse
      /\ result = "unsupported" => access["s"] = "foreign" \/ files["s"].extent = 0 \/ dir["archive"] = "a"
      /\ result = "unreadable" => dir["archive"] = "a"
      /\ result = "permission" => dir["archive"] = "a" /\ access["s"] = "denied"
  BY Zenon DEF ErrorsHaveACause, Excuse
<1>4. /\ result' = "corrupt" => Excuse'
      /\ result' = "unsupported" => access'["s"] = "foreign" \/ files'["s"].extent = 0 \/ dir'["archive"] = "a"
      /\ result' = "unreadable" => dir'["archive"] = "a"
      /\ result' = "permission" => dir'["archive"] = "a" /\ access'["s"] = "denied"
  BY <1>1, <1>2, <1>3
<1>5. QED
  BY <1>4, Zenon DEF ErrorsHaveACause, Excuse

-----------------------------------------------------------------------------
HoldInv == OpenedInv /\ WalkInv /\ ErrorsHaveACause

\* Every step keeps it.
LEMMA HoldStep == TypeOK /\ JournalInv /\ HoldInv /\ [Next]_vars => HoldInv'
<1> SUFFICES ASSUME TypeOK, JournalInv, HoldInv, [Next]_vars
             PROVE  HoldInv'
  OBVIOUS
<1>1. OpenedInv /\ WalkInv /\ ErrorsHaveACause
  BY DEF HoldInv
<1>2. CASE Glob \/ Reader
  BY <1>1, <1>2, OpenedReader, WalkReader, CauseReader DEF HoldInv
<1>3. CASE Journald
  <2>1. Moves /\ files' \in [File -> FileType]
    BY <1>3, JournaldKeeps
  <2>2. QED
    BY <1>1, <2>1, OpenedJournald, WalkJournald, CauseJournald DEF HoldInv
<1>4. CASE UNCHANGED vars
  BY <1>1, <1>4 DEF vars, journal, reader, reading, answer, HoldInv, OpenedInv, HeaderInv, HandleInv, LiveInv, ForeignInv,
       WalkInv, Leads, This, ErrorsHaveACause
<1>5. QED
  BY <1>2, <1>3, <1>4 DEF Next

\* At first nothing is held and nothing has failed.
LEMMA HoldInit == Init => HoldInv
<1> SUFFICES ASSUME Init
             PROVE  HoldInv
  OBVIOUS
<1>1. phase = "idle" /\ opened = <<>> /\ denied = FALSE /\ result = "none" /\ Len(<<>>) = 0
  BY DEF Init
<1>2. OpenedInv
  BY <1>1 DEF OpenedInv, HeaderInv, HandleInv, LiveInv, ForeignInv
<1>3. QED
  BY <1>1, <1>2 DEF HoldInv, WalkInv, ErrorsHaveACause

\* An error of the reader is not of journald's making: for whatever the system's file
\* holds, corruption is found there or in an object that is too large.
THEOREM ErrorsAreNotJournalds == Spec => []ErrorsHaveACause
<1>1. Init => HoldInv
  BY HoldInit
<1>2. HoldInv => ErrorsHaveACause
  BY DEF HoldInv
<1>3. QED
  BY <1>1, <1>2, HoldStep, TypesAreKept, PTL DEF Spec

-----------------------------------------------------------------------------
(* What the reader still has to take.                                       *)

\* An entry and its place in the chain.
HasPlace(file, o, q) == q \in Linked(file) /\ \E i \in Filled(Items(file, q)) : Items(file, q)[i] = o

InOrder(file) == Intact(file) /\ Accounted(file)

\* Entries come in the order of their offsets.
Ascending(s) == \A j, k \in 1..Len(s) : j < k => s[j] < s[k]

\* What has been listed so far are places in the chain before the array to come, in
\* their order.
OrderInv ==
    phase = "walk" /\ InOrder(files[This.file]) =>
        LET file == files[This.file]
        IN  /\ \/ array = 0 \/ array \in Linked(file)
               \/ This.file = "s" /\ array > Len(file.objs)
            /\ Ascending(offsets)
            /\ array # 0 => \A j \in 1..Len(offsets) : \E q \in Linked(file) : q < array /\ HasPlace(file, offsets[j], q)

\* An entry of a file that is as it should be.
Waits(f, o, q) ==
    /\ f \in File /\ access[f] = "readable" /\ InOrder(files[f])
    /\ o \in EntriesOf(files[f]) /\ HasPlace(files[f], o, q)

\* The reader comes to it: its file is still to be opened, or being opened and large
\* enough, or open with a header that counts it, and the walk not past it.
ToOpen(f, o) ==
    /\ phase \in {"stat", "header"}
    /\ \E i \in 1..Len(todo) : dir[todo[i]] = f
    /\ o \in CountedIn(files[f])

BeingOpened(f, o, q) ==
    /\ phase = "header" /\ opening.file = f
    /\ o \in CountedIn(files[f]) /\ o <= opening.size /\ q <= opening.size

Admits(h, f, o, q) ==
    /\ h.file = f
    /\ Rank(files[f], o) <= h.limit
    /\ o <= h.end /\ q <= h.end
    /\ h.first # 0

AtHand(o, q) ==
    \/ \E j \in 1..Len(offsets) : offsets[j] = o
    \/ phase = "walk" /\ array # 0 /\ array <= q

ToRead(f, o, q) ==
    /\ phase \in {"stat", "header", "walk", "match"}
    /\ \E i \in 1..Len(opened) :
          /\ Admits(opened[i], f, o, q)
          /\ i = 1 /\ phase \in {"walk", "match"} => AtHand(o, q)

Ahead(f, o, q) == ToOpen(f, o) \/ BeingOpened(f, o, q) \/ ToRead(f, o, q)

Awaited(e) == \E f, o, q : Waits(f, o, q) /\ Ahead(f, o, q) /\ e = RecordAt(files[f], o)
Handled(e) == Verdict(e.kind) = "skip" \/ (Verdict(e.kind) = "match" /\ e \in found)

\* Nothing promised is lost: it has been dealt with, or the reader will come to it.
PromiseInv ==
    phase # "idle" /\ ~disturbed /\ result \in {"none", "ok"} =>
        \A e \in promised : Handled(e) \/ Awaited(e)

TakenInv == result = "ok" => phase = "done" /\ taken = {e \in found : Says(e.kind, "ADB_BROKER_LOG")}

-----------------------------------------------------------------------------
(* Places and ranks.                                                        *)

\* An entry is of higher rank than there are entries in order before it.
LEMMA RankIs ==
    ASSUME NEW file \in FileType, NEW o \in EntriesOf(file),
           NEW s \in Seq(Nat), Ascending(s), \A j \in 1..Len(s) : s[j] \in EntriesOf(file) /\ s[j] < o
    PROVE  Rank(file, o) \in Nat /\ Len(s) + 1 <= Rank(file, o)
<1>1. PICK n, S, m : n = Len(file.objs) /\ S = {r \in EntriesOf(file) : r <= o} /\ m = Len(s)
  OBVIOUS
<1>2. n \in Nat /\ m \in Nat /\ EntriesOf(file) \subseteq 1..n /\ o \in 1..n
  <2>1. EntriesOf(file) \subseteq 1..n /\ n \in Nat
    BY <1>1, FileParts DEF EntriesOf
  <2>2. m \in Nat
    BY <1>1, LenProperties
  <2>3. QED
    BY <2>1, <2>2
<1>3. IsFiniteSet(S) /\ Rank(file, o) = Cardinality(S)
  <2>1. IsFiniteSet(1..n)
    BY <1>2, FS_Interval
  <2>2. S \in SUBSET (1..n)
    BY <1>1, <1>2
  <2>3. QED
    BY <1>1, <2>1, <2>2, FS_Subset DEF Rank, EntriesOf
<1>4. \A j \in 1..m : s[j] \in S /\ s[j] < o
  BY <1>1, <1>2
<1>5. o \in S
  BY <1>1, <1>2
<1>6. PICK g : g = [i \in 1..m + 1 |-> IF i \in 1..m THEN s[i] ELSE o]
  OBVIOUS
<1>7. g \in Injection(1..m + 1, S)
  <2>1. g \in [1..m + 1 -> S]
    BY <1>4, <1>5, <1>6
  <2>2. ASSUME NEW i \in 1..m + 1, NEW j \in 1..m + 1, i < j
        PROVE  g[i] # g[j]
    <3>1. i \in 1..m /\ g[i] = s[i] /\ s[i] < o /\ s[i] \in Nat
      BY <1>2, <1>4, <1>6, <2>2, <1>1
    <3>2. CASE j \in 1..m
      <4>1. g[j] = s[j] /\ s[j] \in Nat /\ s[i] < s[j]
        BY <1>1, <1>2, <1>4, <1>6, <2>2, <3>1, <3>2 DEF Ascending
      <4>2. QED
        BY <3>1, <4>1
    <3>3. CASE j \notin 1..m
      <4>1. g[j] = o /\ o \in Nat
        BY <1>2, <1>6, <3>3
      <4>2. QED
        BY <3>1, <4>1
    <3>4. QED
      BY <3>2, <3>3
  <2>3. \A i, j \in 1..m + 1 : g[i] = g[j] => i = j
    <3> SUFFICES ASSUME NEW i \in 1..m + 1, NEW j \in 1..m + 1, g[i] = g[j]
                 PROVE  i = j
      OBVIOUS
    <3>1. ~(i < j) /\ ~(j < i)
      BY <2>2
    <3>2. QED
      BY <1>2, <3>1
  <2>4. QED
    BY <2>1, <2>3 DEF Injection, IsInjective
<1>8. Cardinality(1..m + 1) <= Cardinality(S)
  BY <1>3, <1>7, FS_Injection
<1>9. Cardinality(1..m + 1) = m + 1
  BY <1>2, FS_Interval
<1>10. Cardinality(S) \in Nat
  BY <1>3, FS_CardinalityType
<1>11. QED
  BY <1>1, <1>3, <1>8, <1>9, <1>10

\* Where an entry that waits is.
LEMMA WaitsIs ==
    ASSUME TypeOK, NEW f, NEW o, NEW q, Waits(f, o, q)
    PROVE  /\ f \in File /\ files[f] \in FileType /\ Len(files[f].objs) \in Nat
           /\ Len(files[f].objs) <= files[f].extent
           /\ o \in 1..Len(files[f].objs) /\ q \in 1..Len(files[f].objs) /\ q \in ArraysOf(files[f])
           /\ Rank(files[f], o) \in Nat /\ Rank(files[f], o) >= 1
           /\ files[f].first \in 1..q
<1>1. PICK file : file = files[f] /\ file \in FileType /\ f \in File
  BY DEF TypeOK, Waits
<1>2. q \in Linked(file) /\ o \in EntriesOf(file) /\ InOrder(file)
  BY <1>1 DEF Waits, HasPlace
<1>3. Len(file.objs) \in Nat /\ o \in 1..Len(file.objs) /\ q \in ArraysOf(file) /\ q \in 1..Len(file.objs)
  BY <1>1, <1>2, FileParts DEF EntriesOf, ArraysOf
<1>4. Len(file.objs) <= file.extent
  BY <1>2 DEF InOrder, Intact
<1>5. Rank(file, o) \in Nat /\ Rank(file, o) >= 1
  <2>1. <<>> \in Seq(Nat) /\ Len(<<>>) = 0
    OBVIOUS
  <2>2. PICK s : s \in Seq(Nat) /\ Len(s) = 0
    BY <2>1
  <2>3. Ascending(s) /\ \A j \in 1..Len(s) : s[j] \in EntriesOf(file) /\ s[j] < o
    BY <2>2 DEF Ascending
  <2>4. Rank(file, o) \in Nat /\ Len(s) + 1 <= Rank(file, o)
    BY <1>1, <1>2, <2>2, <2>3, RankIs
  <2>5. QED
    BY <2>2, <2>4
<1>6. file.first \in 1..q
  BY <1>2, AccountedIs DEF InOrder
<1>7. QED
  BY <1>1, <1>3, <1>4, <1>5, <1>6

-----------------------------------------------------------------------------
(* The order of the walk.                                                   *)

\* What reading an array does to the offsets.
LEMMA ReadIs ==
    ASSUME TypeOK, ReadArray
    PROVE  /\ array \in ArraysOf(files[This.file]) /\ Written(array)
           /\ \E m \in Nat :
                 /\ Len(offsets') = Len(offsets) + m
                 /\ \A j \in 1..Len(offsets) : offsets'[j] = offsets[j]
                 /\ \A i \in 1..m : /\ i \in Filled(Items(files[This.file], array))
                                    /\ offsets'[Len(offsets) + i] = Items(files[This.file], array)[i]
                 /\ Filled(Items(files[This.file], array)) = 1..m \/ Len(offsets') = This.limit
                 /\ phase' = "walk" => array' = files[This.file].objs[array].next
                 /\ phase' = "walk" \/ Len(offsets') = This.limit \/ m < Len(Items(files[This.file], array))
           /\ phase' \in {"walk", "match"}
<1>1. phase = "walk" /\ Holds(array, "array") /\ array \in Nat /\ offsets \in Seq(Nat \ {0}) /\ Len(offsets) \in Nat
  BY DEF ReadArray, Walking, TypeOK
<1>2. PICK f, x : f = This.file /\ x = ObjectAt(array) /\ f \in File
  BY <1>1, ThisIs
<1>3. /\ x \in [type : {"array"}, items : Seq(Nat), next : Nat] /\ x = files[f].objs[array]
      /\ array \in ArraysOf(files[f]) /\ Written(array)
  BY <1>1, <1>2, HoldsIs, ObjectParts DEF ArraysOf, Holds
<1>4. PICK items, new : items = x.items /\ new = Listed(items) /\ items = Items(files[f], array) /\ items \in Seq(Nat)
  BY <1>3 DEF Items
<1>5. PICK m \in 0..Len(items) :
            /\ new \in Seq(Nat \ {0}) /\ Len(new) = m
            /\ 1..m \subseteq Filled(items)
            /\ \A i \in 1..m : new[i] = items[i]
            /\ Len(offsets \o new) = Len(offsets) + m
            /\ Filled(items) = 1..m \/ Len(offsets) + m = This.limit
  <2>1. This.limit \in Nat /\ Len(offsets) <= This.limit
    BY <1>1, ThisIs DEF TypeOK
  <2>2. QED
    BY <1>1, <1>4, <2>1, ListedIs
<1>6. PICK all : all = offsets \o new /\ offsets' = all
  BY <1>2, <1>4 DEF ReadArray
<1>7. m \in Nat
  BY <1>4, <1>5, LenProperties
<1>8. \A i \in 1..Len(offsets) + m : all[i] = IF i <= Len(offsets) THEN offsets[i] ELSE new[i - Len(offsets)]
  BY <1>1, <1>5, <1>6, ConcatProperties
<1>9. \A j \in 1..Len(offsets) : all[j] = offsets[j]
  BY <1>1, <1>7, <1>8
<1>10. ASSUME NEW i \in 1..m
       PROVE  all[Len(offsets) + i] = items[i]
  <2>1. PICK k : k = Len(offsets) + i
    OBVIOUS
  <2>2. k \in 1..Len(offsets) + m /\ ~(k <= Len(offsets)) /\ k - Len(offsets) = i
    BY <1>1, <1>7, <2>1
  <2>3. all[k] = new[i]
    BY <1>8, <2>2
  <2>4. QED
    BY <1>5, <2>1, <2>3
<1>11. /\ phase' \in {"walk", "match"} /\ (phase' = "walk" => array' = x.next)
       /\ phase' = "walk" \/ Len(offsets \o new) = This.limit \/ Len(new) < Len(items)
  BY <1>1, <1>2, <1>4 DEF ReadArray
<1>12. /\ Len(offsets') = Len(offsets) + m
       /\ \A j \in 1..Len(offsets) : offsets'[j] = offsets[j]
       /\ \A i \in 1..m : i \in Filled(items) /\ offsets'[Len(offsets) + i] = items[i]
       /\ Filled(items) = 1..m \/ Len(offsets') = This.limit
       /\ phase' = "walk" \/ Len(offsets') = This.limit \/ m < Len(items)
  BY <1>5, <1>6, <1>9, <1>10, <1>11
<1>13. QED
  BY <1>2, <1>3, <1>4, <1>7, <1>11, <1>12

\* Reading an array keeps the order, and an entry of it is listed unless the header
\* counts only such as come before.
LEMMA ReadOrder ==
    ASSUME TypeOK, JournalInv, OrderInv, ReadArray, InOrder(files[This.file])
    PROVE  /\ array \in Linked(files[This.file])
           /\ Ascending(offsets')
           /\ \A k \in 1..Len(offsets') : \E p \in Linked(files[This.file]) :
                 p <= array /\ HasPlace(files[This.file], offsets'[k], p)
           /\ \A o : HasPlace(files[This.file], o, array) =>
                 \/ \E k \in 1..Len(offsets') : offsets'[k] = o
                 \/ Len(offsets') = This.limit /\ \A k \in 1..Len(offsets') : offsets'[k] < o
<1>1. PICK f, file, items, n : /\ f = This.file /\ file = files[f] /\ items = Items(file, array) /\ n = Len(file.objs)
                               /\ f \in File /\ file \in FileType
  <2>1. phase = "walk"
    BY DEF ReadArray, Walking
  <2>2. QED
    BY <2>1, ThisIs
<1>2. /\ phase = "walk" /\ array # 0 /\ array \in Nat /\ Len(offsets) \in Nat /\ InOrder(file)
      /\ offsets \in Seq(Nat \ {0})
  BY <1>1 DEF ReadArray, Walking, TypeOK
<1>3. PICK m \in Nat :
         /\ Len(offsets') = Len(offsets) + m
         /\ \A j \in 1..Len(offsets) : offsets'[j] = offsets[j]
         /\ \A i \in 1..m : i \in Filled(items) /\ offsets'[Len(offsets) + i] = items[i]
         /\ Filled(items) = 1..m \/ Len(offsets') = This.limit
  BY <1>1, ReadIs
<1>4. array \in ArraysOf(file) /\ n \in Nat /\ ArraysOf(file) \subseteq 1..n /\ items \in Seq(Nat) /\ Filled(items) \subseteq 1..Len(items)
  <2>1. array \in ArraysOf(file)
    BY <1>1, ReadIs
  <2>2. QED
    BY <1>1, <2>1, FileParts DEF ArraysOf
<1>5. array \in Linked(file)
  <2>1. array \in Linked(file) \/ array > n
    BY <1>1, <1>2, Zenon DEF OrderInv
  <2>2. QED
    BY <1>2, <1>4, <2>1
<1>6. \A j \in 1..Len(offsets) : \E q \in Linked(file) : q < array /\ HasPlace(file, offsets[j], q)
  BY <1>1, <1>2 DEF OrderInv
<1>7. Ascending(offsets)
  BY <1>1, <1>2 DEF OrderInv
<1>8. /\ \A p, q \in Linked(file) : p < q =>
            \A i \in Filled(Items(file, p)), j \in Filled(Items(file, q)) : Items(file, p)[i] < Items(file, q)[j]
      /\ \A i, j \in Filled(items) : i < j => items[i] < items[j]
  BY <1>1, <1>2, <1>5, AccountedIs DEF InOrder
<1>9. ASSUME NEW j \in 1..Len(offsets), NEW i \in Filled(items)
      PROVE  offsets[j] < items[i]
  <2>1. PICK q \in Linked(file) : q < array /\ HasPlace(file, offsets[j], q)
    BY <1>6
  <2>2. PICK k \in Filled(Items(file, q)) : Items(file, q)[k] = offsets[j]
    BY <2>1 DEF HasPlace
  <2>3. QED
    BY <1>1, <1>5, <1>8, <2>1, <2>2
<1>10. \A k \in 1..Len(offsets') : \/ k \in 1..Len(offsets) /\ offsets'[k] = offsets[k]
                                   \/ \E i \in 1..m : k = Len(offsets) + i /\ i \in Filled(items) /\ offsets'[k] = items[i]
  <2> SUFFICES ASSUME NEW k \in 1..Len(offsets'), k \notin 1..Len(offsets)
               PROVE  \E i \in 1..m : k = Len(offsets) + i
    BY <1>3
  <2>1. k - Len(offsets) \in 1..m /\ k = Len(offsets) + (k - Len(offsets))
    BY <1>2, <1>3
  <2>2. QED
    BY <2>1
<1>11. Ascending(offsets')
  <2> SUFFICES ASSUME NEW j \in 1..Len(offsets'), NEW k \in 1..Len(offsets'), j < k
               PROVE  offsets'[j] < offsets'[k]
    BY DEF Ascending
  <2>1. CASE j \in 1..Len(offsets) /\ k \in 1..Len(offsets)
    BY <1>3, <1>7, <2>1 DEF Ascending
  <2>2. CASE j \in 1..Len(offsets) /\ k \notin 1..Len(offsets)
    <3>1. PICK i \in Filled(items) : offsets'[k] = items[i]
      BY <1>10, <2>2
    <3>2. offsets'[j] = offsets[j] /\ offsets[j] < items[i]
      BY <1>3, <1>9, <2>2
    <3>3. QED
      BY <3>1, <3>2
  <2>3. CASE j \notin 1..Len(offsets)
    <3>1. PICK i \in 1..m : j = Len(offsets) + i /\ i \in Filled(items) /\ offsets'[j] = items[i]
      BY <1>10, <2>3
    <3>2. k \notin 1..Len(offsets)
      BY <1>2, <3>1
    <3>3. PICK l \in 1..m : k = Len(offsets) + l /\ l \in Filled(items) /\ offsets'[k] = items[l]
      BY <1>10, <3>2
    <3>4. i < l
      BY <1>2, <3>1, <3>3
    <3>5. QED
      BY <1>8, <3>1, <3>3, <3>4
  <2>4. QED
    BY <2>1, <2>2, <2>3
<1>12. ASSUME NEW k \in 1..Len(offsets')
       PROVE  \E p \in Linked(file) : p <= array /\ HasPlace(file, offsets'[k], p)
  <2>1. CASE k \in 1..Len(offsets)
    <3>1. PICK q \in Linked(file) : q < array /\ HasPlace(file, offsets[k], q)
      BY <1>6, <2>1
    <3>2. q \in Nat
      BY <1>1, <1>4, FileParts
    <3>3. QED
      BY <1>2, <1>3, <2>1, <3>1, <3>2
  <2>2. CASE k \notin 1..Len(offsets)
    <3>1. PICK i \in Filled(items) : offsets'[k] = items[i]
      BY <1>10, <2>2
    <3>2. HasPlace(file, offsets'[k], array) /\ array <= array
      BY <1>1, <1>2, <1>5, <3>1 DEF HasPlace
    <3>3. QED
      BY <1>5, <3>2
  <2>3. QED
    BY <2>1, <2>2
<1>13. ASSUME NEW o, HasPlace(file, o, array)
       PROVE  \/ \E k \in 1..Len(offsets') : offsets'[k] = o
              \/ Len(offsets') = This.limit /\ \A k \in 1..Len(offsets') : offsets'[k] < o
  <2>1. PICK i \in Filled(items) : items[i] = o
    BY <1>1, <1>13 DEF HasPlace
  <2>2. CASE i \in 1..m
    <3>1. Len(offsets) + i \in 1..Len(offsets')
      BY <1>2, <1>3, <2>2
    <3>2. QED
      BY <1>3, <2>1, <2>2, <3>1
  <2>3. CASE i \notin 1..m
    <3>1. Len(offsets') = This.limit
      BY <1>3, <2>1, <2>3
    <3>2. ASSUME NEW k \in 1..Len(offsets')
          PROVE  offsets'[k] < o
      <4>1. CASE k \in 1..Len(offsets)
        BY <1>3, <1>9, <2>1, <4>1
      <4>2. CASE k \notin 1..Len(offsets)
        <5>1. PICK j \in 1..m : j \in Filled(items) /\ offsets'[k] = items[j]
          BY <1>10, <4>2
        <5>2. j < i
          BY <1>4, <2>1, <2>3, <5>1
        <5>3. QED
          BY <1>8, <2>1, <5>1, <5>2
      <4>3. QED
        BY <4>1, <4>2
    <3>3. QED
      BY <3>1, <3>2
  <2>4. QED
    BY <2>2, <2>3
<1>14. QED
  BY <1>1, <1>5, <1>11, <1>12, <1>13

\* A walk begins with nothing listed, at the head of the chain.
LEMMA BeginOrder ==
    ASSUME TypeOK, JournalInv, OpenedInv, NEW rest \in Seq([file : File, end : Nat, limit : Nat, first : Nat]),
           BeginFile(rest), opened' = rest, UNCHANGED files,
           \A i \in 1..Len(rest) : \E j \in 1..Len(opened) : rest[i] = opened[j]
    PROVE  OrderInv'
<1>1. CASE rest = <<>>
  BY <1>1 DEF BeginFile, OrderInv
<1>2. CASE rest # <<>>
  <2>1. PICK h : h = Head(rest) /\ h = rest[1] /\ 1 \in 1..Len(rest) /\ h \in [file : File, end : Nat, limit : Nat, first : Nat]
    BY <1>2, HeadIs
  <2>2. h.first # 0 => h.first = files[h.file].first
    BY <2>1 DEF OpenedInv, HandleInv
  <2>3. phase' = "walk" /\ array' = h.first /\ offsets' = <<>> /\ This' = h
    BY <1>2, <2>1 DEF BeginFile, This
  <2>4. Len(offsets') = 0
    BY <2>3
  <2>5. InOrder(files[h.file]) =>
          \/ h.first = 0 \/ h.first \in Linked(files[h.file])
          \/ h.file = "s" /\ h.first > Len(files[h.file].objs)
    <3> SUFFICES ASSUME InOrder(files[h.file]), h.first # 0
                 PROVE  \/ h.first \in Linked(files[h.file])
                        \/ h.file = "s" /\ h.first > Len(files[h.file].objs)
      OBVIOUS
    <3>1. Leads(h.file, h.first, "array")
      BY <2>1, <2>2, LeadsOn DEF InOrder
    <3>2. QED
      BY <2>2, <3>1 DEF Leads, Linked
  <2>6. Ascending(offsets') /\ \A j \in 1..Len(offsets') : FALSE
    BY <2>4 DEF Ascending
  <2>7. QED
    BY <2>1, <2>3, <2>5, <2>6 DEF OrderInv
<1>3. QED
  BY <1>1, <1>2

\* The reader keeps to the order.
LEMMA OrderReader ==
    ASSUME TypeOK, JournalInv, OpenedInv, OrderInv, Glob \/ Reader
    PROVE  OrderInv'
<1> DEFINE OpenType == [file : File, end : Nat, limit : Nat, first : Nat]
<1>1. UNCHANGED files
  BY ReaderLeaves DEF journal
<1>2. opened \in Seq(OpenType) /\ array \in Nat
  BY DEF TypeOK
<1>3. CASE Glob \/ Stat \/ HeaderRefused \/ HeaderRead \/ NothingOpened \/ ChainEnds \/ ChainCorrupt \/ EntrySkipped
           \/ EntryMatches \/ EntryFails \/ Take
  <2>1. phase' # "walk"
    BY <1>3 DEF Glob, Stat, HeaderRefused, HeaderRead, NothingOpened, ChainEnds, ChainCorrupt, EntrySkipped,
         EntryMatches, EntryFails, Take, Ends, Matching, NextEntry
  <2>2. QED
    BY <2>1 DEF OrderInv
<1>4. CASE BeginWalk
  <2>1. BeginFile(opened) /\ opened' = opened
    BY <1>4 DEF BeginWalk
  <2>2. QED
    BY <1>1, <1>2, <2>1, BeginOrder
<1>5. CASE FileEnds
  <2>1. BeginFile(Tail(opened)) /\ opened' = Tail(opened) /\ opened # <<>>
    BY <1>2, <1>5 DEF FileEnds, Matching, TypeOK
  <2>2. /\ Tail(opened) \in Seq(OpenType) /\ Len(Tail(opened)) = Len(opened) - 1 /\ Len(opened) \in Nat
        /\ \A i \in 1..Len(Tail(opened)) : Tail(opened)[i] = opened[i + 1]
    BY <1>2, <2>1, HeadTailProperties, LenProperties
  <2>3. \A i \in 1..Len(Tail(opened)) : i + 1 \in 1..Len(opened)
    BY <2>2
  <2>4. \A i \in 1..Len(Tail(opened)) : \E j \in 1..Len(opened) : Tail(opened)[i] = opened[j]
    BY <2>2, <2>3
  <2>5. QED
    BY <1>1, <2>1, <2>2, <2>4, BeginOrder
<1>6. CASE ReadArray
  <2>1. PICK f, file : f = This.file /\ file = files[f] /\ f \in File /\ file \in FileType
    BY <1>6, ThisIs DEF ReadArray, Walking
  <2>2. This' = This
    BY <1>6 DEF ReadArray, Walking, This
  <2>3. ASSUME InOrder(file), phase' = "walk"
        PROVE  /\ array' = 0 \/ array' \in Linked(file) \/ (f = "s" /\ array' > Len(file.objs))
               /\ Ascending(offsets')
               /\ array' # 0 => \A j \in 1..Len(offsets') : \E q \in Linked(file) : q < array' /\ HasPlace(file, offsets'[j], q)
    <3>1. PICK x : x = file.objs[array].next
      OBVIOUS
    <3>2. array \in ArraysOf(file) /\ array' = x /\ x \in Nat
      BY <1>6, <2>1, <2>3, <3>1, ReadIs, FileParts
    <3>3. x = 0 \/ (Leads(f, x, "array") /\ array < x)
      BY <2>1, <2>3, <3>1, <3>2, LeadsOn DEF InOrder
    <3>4. x = 0 \/ x \in Linked(file) \/ (f = "s" /\ x > Len(file.objs))
      BY <2>1, <3>1, <3>2, <3>3 DEF Leads, Linked, ArraysOf
    <3>5. /\ Ascending(offsets')
          /\ \A k \in 1..Len(offsets') : \E p \in Linked(file) : p <= array /\ HasPlace(file, offsets'[k], p)
      BY <1>6, <2>1, <2>3, ReadOrder
    <3>6. \A p \in Linked(file) : p \in Nat
      <4>1. Linked(file) \subseteq ArraysOf(file) /\ ArraysOf(file) \subseteq 1..Len(file.objs)
        BY <2>1, FileParts DEF ArraysOf
      <4>2. QED
        BY <4>1
    <3>7. ASSUME x # 0, NEW k \in 1..Len(offsets')
          PROVE  \E q \in Linked(file) : q < x /\ HasPlace(file, offsets'[k], q)
      <4>1. PICK p \in Linked(file) : p <= array /\ HasPlace(file, offsets'[k], p)
        BY <3>5
      <4>2. p < x
        BY <1>2, <3>2, <3>3, <3>6, <3>7, <4>1
      <4>3. QED
        BY <4>1, <4>2
    <3>8. QED
      BY <3>2, <3>4, <3>5, <3>7
  <2>4. QED
    BY <1>1, <2>1, <2>2, <2>3 DEF OrderInv
<1>7. QED
  BY <1>3, <1>4, <1>5, <1>6 DEF Reader

\* A file that is in order was so before journald's step.
LEMMA InOrderStays ==
    ASSUME TypeOK, JournalInv, TypeOK', JournalInv', Moves, NEW f \in File
    PROVE  InOrder(files'[f]) <=> InOrder(files[f])
<1>1. CASE f = "s"
  BY <1>1 DEF Moves
<1>2. CASE f # "s"
  <2>1. InOrder(files[f])
    BY <1>2, Places DEF InOrder
  <2>2. JournalInv' => InOrder(files'[f])
    <3>1. \A g \in {"a", "b"} : files'[g] \in FileType /\ (JournalInv' => Kept(files'[g]))
      BY DEF TypeOK, JournalInv, FileInv, File
    <3>2. f \in {"a", "b"}
      BY <1>2 DEF File
    <3>3. QED
      BY <3>1, <3>2 DEF Kept, InOrder
  <2>3. QED
    BY <2>1, <2>2
<1>3. QED
  BY <1>1, <1>2

\* Places stay.
LEMMA PlaceStays ==
    ASSUME NEW file \in FileType, NEW new \in FileType, Grows(file, new), NEW o, NEW q, HasPlace(file, o, q)
    PROVE  HasPlace(new, o, q)
<1>1. q \in ArraysOf(file) /\ q \in Linked(new)
  BY GrownParts, FileParts DEF HasPlace
<1>2. PICK i \in Filled(Items(file, q)) : Items(file, q)[i] = o
  BY DEF HasPlace
<1>3. i \in Filled(Items(new, q)) /\ Items(new, q)[i] = o
  BY <1>1, <1>2, GrownParts
<1>4. QED
  BY <1>1, <1>3 DEF HasPlace

\* journald does not upset the order.
LEMMA OrderJournald ==
    ASSUME TypeOK, JournalInv, TypeOK', JournalInv', OrderInv, Moves
    PROVE  OrderInv'
<1>1. UNCHANGED <<phase, opened, array, offsets>> /\ This' = This /\ files'["s"] = files["s"]
  BY DEF Moves, reader, reading, This
<1>2. CASE phase # "walk"
  BY <1>1, <1>2 DEF OrderInv
<1>3. CASE phase = "walk"
  <2>1. PICK f, old, new : f = This.file /\ old = files[f] /\ new = files'[f] /\ f \in File
                           /\ old \in FileType /\ new \in FileType
    BY <1>3, ThisIs DEF TypeOK
  <2>2. Grows(old, new) /\ (f = "s" => new = old)
    BY <1>1, <2>1 DEF Moves
  <2>3. ASSUME InOrder(new)
        PROVE  /\ array = 0 \/ array \in Linked(new) \/ (f = "s" /\ array > Len(new.objs))
               /\ Ascending(offsets)
               /\ array # 0 => \A j \in 1..Len(offsets) : \E q \in Linked(new) : q < array /\ HasPlace(new, offsets[j], q)
    <3>1. InOrder(old)
      BY <2>1, <2>3, InOrderStays
    <3>2. Linked(old) \subseteq Linked(new)
      BY <2>1, <2>2, GrownParts
    <3>3. /\ array = 0 \/ array \in Linked(old) \/ (f = "s" /\ array > Len(old.objs))
          /\ Ascending(offsets)
          /\ array # 0 => \A j \in 1..Len(offsets) : \E q \in Linked(old) : q < array /\ HasPlace(old, offsets[j], q)
      BY <1>3, <2>1, <3>1 DEF OrderInv
    <3>4. \A o, q : HasPlace(old, o, q) => HasPlace(new, o, q)
      BY <2>1, <2>2, PlaceStays
    <3>5. QED
      BY <2>2, <3>2, <3>3, <3>4
  <2>4. QED
    BY <1>1, <2>1, <2>3 DEF OrderInv, Ascending
<1>4. QED
  BY <1>2, <1>3

-----------------------------------------------------------------------------
(* What is promised.                                                        *)

\* What is listed in the paths of a pattern is opened.
LEMMA GlobAwaits ==
    ASSUME TypeOK, JournalInv, Glob, NEW e \in promised'
    PROVE  Awaited(e)'
<1> DEFINE PathType == {"system", "live", "archive"}
<1>1. UNCHANGED <<files, access, dir>> /\ phase' = "stat"
  BY DEF Glob, journal
<1>2. PICK f \in Honest : \E o \in CountedIn(files[f]) : e = RecordAt(files[f], o)
  BY DEF Glob
<1>3. PICK o \in CountedIn(files[f]) : e = RecordAt(files[f], o)
  BY <1>2
<1>4. f \in File /\ access[f] = "readable" /\ InOrder(files[f])
  BY DEF Honest, InOrder
<1>5. PICK q : HasPlace(files[f], o, q)
  <2>1. IsListed(files[f], o)
    BY <1>4, AccountedIs DEF InOrder
  <2>2. QED
    BY <2>1 DEF IsListed, HasPlace
<1>6. o \in EntriesOf(files[f])
  BY DEF CountedIn, EntriesOf
<1>7. PICK p \in PathType : dir[p] = f
  <2>1. f = "s" => dir["system"] = f
    BY <1>4, Places
  <2>2. f = "a" => dir["live"] = f \/ dir["archive"] = f
    BY Places
  <2>3. f = "b" => dir["live"] = f
    BY <1>4, Places
  <2>4. QED
    BY <1>4, <2>1, <2>2, <2>3 DEF File
<1>8. \E i \in 1..Len(todo') : todo'[i] = p
  <2>1. PICK p1, p2, p3 : p1 = Present("system") /\ p2 = Present("live") /\ p3 = Present("archive")
    OBVIOUS
  <2>2. p1 \in Seq(PathType) /\ p2 \in Seq(PathType) /\ p3 \in Seq(PathType)
    <3>1. \A path \in PathType : Present(path) \in Seq(PathType)
      BY PresentIs
    <3>2. QED
      BY <2>1, <3>1
  <2>3. Present(p) = <<p>>
    BY <1>4, <1>7 DEF Present, File, None
  <2>4. todo' = p1 \o p2 \o p3
    BY <2>1 DEF Glob
  <2>5. CASE p = "system"
    <3>1. todo' = <<p>> \o p2 \o p3
      BY <2>1, <2>3, <2>4, <2>5
    <3>2. 1 \in 1..Len(<<p>> \o p2 \o p3) /\ (<<p>> \o p2 \o p3)[1] = p
      BY <2>2
    <3>3. QED
      BY <3>1, <3>2
  <2>6. CASE p = "live"
    <3>1. todo' = p1 \o <<p>> \o p3
      BY <2>1, <2>3, <2>4, <2>6
    <3>2. Len(p1) + 1 \in 1..Len(p1 \o <<p>> \o p3) /\ (p1 \o <<p>> \o p3)[Len(p1) + 1] = p
      BY <2>2
    <3>3. QED
      BY <3>1, <3>2
  <2>7. CASE p = "archive"
    <3>1. todo' = p1 \o p2 \o <<p>>
      BY <2>1, <2>3, <2>4, <2>7
    <3>2. /\ Len(p1) + Len(p2) + 1 \in 1..Len(p1 \o p2 \o <<p>>)
          /\ (p1 \o p2 \o <<p>>)[Len(p1) + Len(p2) + 1] = p
      BY <2>2
    <3>3. QED
      BY <3>1, <3>2
  <2>8. QED
    BY <2>5, <2>6, <2>7
<1>9. \E i \in 1..Len(todo') : dir'[todo'[i]] = f
  BY <1>1, <1>7, <1>8
<1>10. Waits(f, o, q)' /\ ToOpen(f, o)'
  BY <1>1, <1>3, <1>4, <1>5, <1>6, <1>9 DEF Waits, ToOpen
<1>11. e = RecordAt(files'[f], o)
  BY <1>1, <1>3
<1>12. QED
  BY <1>10, <1>11 DEF Awaited, Ahead

\* A file whose turn it is to be opened is measured, and what it counts is within.
LEMMA StatAhead ==
    ASSUME TypeOK, JournalInv, Stat, NEW f, NEW o, NEW q, Waits(f, o, q), Ahead(f, o, q)
    PROVE  Ahead(f, o, q)'
<1>1. UNCHANGED <<files, access, dir, opened, offsets, array>>
  BY DEF Stat, journal, reading
<1>2. phase = "stat" /\ phase' \in {"stat", "header"} /\ todo # <<>> /\ todo' = Tail(todo)
  BY DEF Stat
<1>3. todo \in Seq({"system", "live", "archive"})
  BY DEF TypeOK
<1>4. CASE ToRead(f, o, q)
  <2>1. ToRead(f, o, q)'
    BY <1>1, <1>2, <1>4 DEF ToRead, Admits
  <2>2. QED
    BY <2>1 DEF Ahead
<1>5. CASE ToOpen(f, o)
  <2>1. PICK i \in 1..Len(todo) : dir[todo[i]] = f
    BY <1>5 DEF ToOpen
  <2>2. o \in CountedIn(files[f])
    BY <1>5 DEF ToOpen
  <2>3. CASE i - 1 \in 1..Len(Tail(todo)) /\ Tail(todo)[i - 1] = todo[i]
    <3>1. ToOpen(f, o)'
      BY <1>1, <1>2, <2>1, <2>2, <2>3 DEF ToOpen
    <3>2. QED
      BY <3>1 DEF Ahead
  <2>4. CASE todo[i] = Head(todo)
    <3>1. f = dir[Head(todo)] /\ f # None /\ access[f] # "denied"
      BY <2>1, <2>4 DEF Waits, File, None
    <3>2. opening' = [file |-> f, size |-> files[f].extent] /\ phase' = "header"
      BY <3>1 DEF Stat
    <3>3. opening'.file = f /\ opening'.size = files[f].extent
      BY <3>2
    <3>4. o <= files[f].extent /\ q <= files[f].extent
      <4>1. PICK n : n = Len(files[f].objs) /\ n \in Nat /\ o \in 1..n /\ q \in 1..n /\ n <= files[f].extent
        BY WaitsIs
      <4>2. files[f].extent \in Nat
        BY WaitsIs, FileParts
      <4>3. QED
        BY <4>1, <4>2
    <3>5. BeingOpened(f, o, q)'
      BY <1>1, <2>2, <3>2, <3>3, <3>4 DEF BeingOpened
    <3>6. QED
      BY <3>5 DEF Ahead
  <2>5. QED
    BY <1>2, <1>3, <2>3, <2>4, HeadOrTail
<1>6. ~BeingOpened(f, o, q)
  BY <1>2 DEF BeingOpened
<1>7. QED
  BY <1>4, <1>5, <1>6 DEF Ahead

\* A header that is read admits what it counts.
LEMMA HeaderAhead ==
    ASSUME TypeOK, JournalInv, HeaderRead, NEW f, NEW o, NEW q, Waits(f, o, q), Ahead(f, o, q)
    PROVE  Ahead(f, o, q)'
<1> DEFINE OpenType == [file : File, end : Nat, limit : Nat, first : Nat]
<1>1. UNCHANGED <<files, access, dir, todo>> /\ phase = "header" /\ phase' = "stat"
  BY DEF HeaderRead, journal
<1>2. PICK g : g = files[opening.file] /\ opening.file \in File /\ opening.size \in Nat /\ g \in FileType
  BY DEF TypeOK
<1>3. PICK h : h = [file |-> opening.file, end |-> Smaller(g.extent, opening.size), limit |-> g.count, first |-> g.first]
  OBVIOUS
<1>4. h \in OpenType /\ h.file = opening.file /\ h.first = g.first /\ h.limit = g.count /\ h.end = Smaller(g.extent, opening.size)
  BY <1>2, <1>3, FileParts DEF Smaller
<1>5. opened' = Append(opened, h) /\ opened \in Seq(OpenType) /\ Len(opened) \in Nat
  BY <1>2, <1>3 DEF HeaderRead, TypeOK
<1>6. /\ Len(opened') = Len(opened) + 1 /\ opened'[Len(opened) + 1] = h
      /\ \A i \in 1..Len(opened) : opened'[i] = opened[i]
  BY <1>4, <1>5, AppendProperties
<1>7. CASE ToOpen(f, o)
  <2>1. ToOpen(f, o)'
    BY <1>1, <1>7 DEF ToOpen
  <2>2. QED
    BY <2>1 DEF Ahead
<1>8. CASE ToRead(f, o, q)
  <2>1. PICK i \in 1..Len(opened) : Admits(opened[i], f, o, q)
    BY <1>8 DEF ToRead
  <2>2. i \in 1..Len(opened') /\ opened'[i] = opened[i]
    BY <1>5, <1>6
  <2>3. Admits(opened[i], f, o, q)'
    BY <1>1, <2>1, <2>2 DEF Admits
  <2>4. ToRead(f, o, q)'
    BY <1>1, <2>2, <2>3 DEF ToRead
  <2>5. QED
    BY <2>4 DEF Ahead
<1>9. CASE BeingOpened(f, o, q)
  <2>1. f = opening.file /\ o \in CountedIn(files[f]) /\ o <= opening.size /\ q <= opening.size
    BY <1>9 DEF BeingOpened
  <2>2. Rank(files[f], o) <= h.limit
    BY <1>2, <1>4, <2>1 DEF CountedIn
  <2>3. o <= h.end /\ q <= h.end
    <3>1. PICK n : n = Len(files[f].objs) /\ n \in Nat /\ o \in 1..n /\ q \in 1..n /\ n <= files[f].extent
      BY WaitsIs
    <3>2. g.extent \in Nat /\ n <= g.extent
      BY <1>2, <2>1, <3>1, FileParts
    <3>3. QED
      BY <1>2, <1>4, <2>1, <3>1, <3>2 DEF Smaller
  <2>4. h.first # 0
    <3>1. files[f].first \in 1..q /\ q \in Nat
      BY WaitsIs
    <3>2. QED
      BY <1>2, <1>4, <2>1, <3>1
  <2>5. PICK i \in 1..Len(opened') : opened'[i] = h
    BY <1>5, <1>6
  <2>6. Admits(opened[i], f, o, q)'
    BY <1>1, <1>4, <2>1, <2>2, <2>3, <2>4, <2>5 DEF Admits
  <2>7. ToRead(f, o, q)'
    BY <1>1, <2>5, <2>6 DEF ToRead
  <2>8. QED
    BY <2>7 DEF Ahead
<1>10. QED
  BY <1>7, <1>8, <1>9 DEF Ahead

\* A walk begins at an array that is no later than the entry's.
LEMMA BeginAhead ==
    ASSUME TypeOK, OpenedInv, NEW rest, BeginFile(rest), opened' = rest, UNCHANGED files, rest # <<>>,
           rest \in Seq([file : File, end : Nat, limit : Nat, first : Nat]),
           \A i \in 1..Len(rest) : \E j \in 1..Len(opened) : rest[i] = opened[j],
           NEW f, NEW o, NEW q, Waits(f, o, q), NEW i \in 1..Len(rest), Admits(rest[i], f, o, q)
    PROVE  Ahead(f, o, q)'
<1>1. phase' = "walk" /\ array' = Head(rest).first /\ Head(rest) = rest[1]
  <2>1. Head(rest) = rest[1]
    BY HeadIs
  <2>2. QED
    BY <2>1 DEF BeginFile
<1>2. i = 1 => AtHand(o, q)'
  <2> SUFFICES ASSUME i = 1
               PROVE  AtHand(o, q)'
    OBVIOUS
  <2>1. PICK j \in 1..Len(opened) : rest[i] = opened[j]
    OBVIOUS
  <2>2. rest[i].first # 0 /\ rest[i].file = f
    BY DEF Admits
  <2>3. rest[i].first = files[f].first
    BY <2>1, <2>2 DEF OpenedInv, HandleInv
  <2>4. files[f].first \in 1..q /\ q \in Nat
    BY WaitsIs
  <2>5. array' # 0 /\ array' <= q
    BY <1>1, <2>3, <2>4
  <2>6. QED
    BY <1>1, <2>5 DEF AtHand
<1>3. Admits(opened[i], f, o, q)'
  BY DEF Admits
<1>4. ToRead(f, o, q)'
  BY <1>1, <1>2, <1>3 DEF ToRead
<1>5. QED
  BY <1>4 DEF Ahead

\* During the walk of a file the entries of others stay ahead.
LEMMA WalkAhead ==
    ASSUME TypeOK, phase \in {"walk", "match"}, phase' \in {"walk", "match"}, UNCHANGED <<files, opened>>,
           NEW f, NEW o, NEW q, Ahead(f, o, q)
    PROVE  Ahead(f, o, q)' \/ (Admits(This, f, o, q) /\ AtHand(o, q) /\ ~AtHand(o, q)')
<1>1. PICK i \in 1..Len(opened) : Admits(opened[i], f, o, q) /\ (i = 1 => AtHand(o, q))
  BY DEF Ahead, ToOpen, BeingOpened, ToRead
<1>2. This = opened[1]
  BY ThisIs
<1>3. Admits(opened[i], f, o, q)'
  BY <1>1 DEF Admits
<1>4. CASE i = 1 => AtHand(o, q)'
  <2>1. ToRead(f, o, q)'
    BY <1>1, <1>3, <1>4 DEF ToRead
  <2>2. QED
    BY <2>1 DEF Ahead
<1>5. CASE i = 1 /\ ~AtHand(o, q)'
  BY <1>1, <1>2, <1>5
<1>6. QED
  BY <1>4, <1>5

\* The chain does not end before an array that is within the file.
LEMMA ChainAhead ==
    ASSUME TypeOK, ChainEnds, NEW f, NEW o, NEW q, Waits(f, o, q), Ahead(f, o, q)
    PROVE  Ahead(f, o, q)'
<1>1. phase = "walk" /\ phase' = "match" /\ UNCHANGED <<files, opened, offsets>> /\ array \in Nat
  BY DEF ChainEnds, Walking, journal, reading, TypeOK
<1> SUFFICES ASSUME Admits(This, f, o, q), AtHand(o, q), ~AtHand(o, q)'
             PROVE  FALSE
  BY <1>1, WalkAhead
<1>2. array # 0 /\ array <= q
  BY <1>1 DEF AtHand
<1>3. This.limit \in Nat /\ This.end \in Nat
  BY <1>1, ThisIs
<1>4. This.limit # 0
  <2>1. Rank(files[f], o) \in Nat /\ Rank(files[f], o) >= 1
    BY WaitsIs
  <2>2. QED
    BY <1>3, <2>1 DEF Admits
<1>5. Written(array)
  <2>1. PICK n : n = Len(files[f].objs) /\ n \in Nat /\ q \in 1..n
    BY WaitsIs
  <2>2. array <= n /\ array <= This.end
    BY <1>1, <1>2, <1>3, <2>1 DEF Admits
  <2>3. QED
    BY <2>1, <2>2 DEF Written, Admits
<1>6. QED
  BY <1>2, <1>4, <1>5 DEF ChainEnds, PastEnd

\* Nor is an array left behind that lists an entry the header counts.
LEMMA ReadAhead ==
    ASSUME TypeOK, JournalInv, OrderInv, ReadArray, NEW f, NEW o, NEW q, Waits(f, o, q), Ahead(f, o, q)
    PROVE  Ahead(f, o, q)'
<1>1. phase = "walk" /\ phase' \in {"walk", "match"} /\ UNCHANGED <<files, opened>> /\ array \in Nat /\ array # 0
  BY ReadIs DEF ReadArray, Walking, journal, TypeOK
<1> SUFFICES ASSUME Admits(This, f, o, q), AtHand(o, q), ~AtHand(o, q)'
             PROVE  FALSE
  BY <1>1, WalkAhead
<1>2. PICK file : file = files[f] /\ f = This.file /\ file \in FileType /\ InOrder(file) /\ o \in EntriesOf(file)
                  /\ HasPlace(file, o, q)
  BY WaitsIs DEF Waits, Admits
<1>3. q \in Nat /\ o \in Nat /\ Rank(file, o) \in Nat /\ q \in Linked(file) /\ o \in 1..Len(file.objs) /\ Len(file.objs) \in Nat
  BY <1>2, WaitsIs DEF HasPlace
<1>4. PICK m \in Nat :
         /\ Len(offsets') = Len(offsets) + m
         /\ \A j \in 1..Len(offsets) : offsets'[j] = offsets[j]
         /\ \A i \in 1..m : i \in Filled(Items(file, array)) /\ offsets'[Len(offsets) + i] = Items(file, array)[i]
         /\ Filled(Items(file, array)) = 1..m \/ Len(offsets') = This.limit
         /\ phase' = "walk" => array' = file.objs[array].next
         /\ phase' = "walk" \/ Len(offsets') = This.limit \/ m < Len(Items(file, array))
  BY <1>2, ReadIs
<1>5. /\ array \in Linked(file)
      /\ Ascending(offsets')
      /\ \A k \in 1..Len(offsets') : \E p \in Linked(file) : p <= array /\ HasPlace(file, offsets'[k], p)
      /\ HasPlace(file, o, array) =>
            \/ \E k \in 1..Len(offsets') : offsets'[k] = o
            \/ Len(offsets') = This.limit /\ \A k \in 1..Len(offsets') : offsets'[k] < o
  BY <1>2, ReadOrder
<1>6. offsets \in Seq(Nat \ {0}) /\ offsets' \in Seq(Nat \ {0}) /\ Len(offsets) \in Nat
  <2>1. ReaderTypes'
    BY WalkingKeepsTypes
  <2>2. QED
    BY <2>1 DEF ReaderTypes, TypeOK
<1>7. ~\E k \in 1..Len(offsets') : offsets'[k] = o
  BY DEF AtHand
<1>8. array <= q
  <2>1. ~\E j \in 1..Len(offsets) : offsets[j] = o
    <3>1. \A j \in 1..Len(offsets) : j \in 1..Len(offsets')
      BY <1>4, <1>6
    <3>2. QED
      BY <1>4, <1>7, <3>1
  <2>2. QED
    BY <2>1 DEF AtHand
\* The header counts only what comes before o: then it does not count o.
<1>9. ASSUME Len(offsets') = This.limit, \A k \in 1..Len(offsets') : offsets'[k] < o
      PROVE  FALSE
  <2>1. ASSUME NEW k \in 1..Len(offsets')
        PROVE  offsets'[k] \in EntriesOf(file) /\ offsets'[k] < o
    <3>1. PICK p : p \in Linked(file) /\ HasPlace(file, offsets'[k], p)
      BY <1>5
    <3>2. PICK i \in Filled(Items(file, p)) : Items(file, p)[i] = offsets'[k]
      BY <3>1 DEF HasPlace
    <3>3. p \in ArraysOf(file)
      BY <1>2, <3>1, FileParts
    <3>4. Items(file, p)[i] \in EntriesOf(file) \/ Items(file, p)[i] > Len(file.objs)
      BY <1>2, <3>2, <3>3 DEF InOrder, Intact, EntriesOf, ArraysOf, Items
    <3>5. offsets'[k] \in Nat
      BY <1>6, ElementOfSeq
    <3>6. offsets'[k] < o
      BY <1>9
    <3>7. QED
      BY <1>3, <3>2, <3>4, <3>5, <3>6
  <2>2. PICK s : s = offsets' /\ s \in Seq(Nat \ {0})
    BY <1>6
  <2>3. s \in Seq(Nat) /\ Len(s) \in Nat
    <3>1. \A k \in 1..Len(s) : s[k] \in Nat
      BY <2>2, ElementOfSeq
    <3>2. QED
      BY <2>2, <3>1
  <2>4. Ascending(s) /\ \A k \in 1..Len(s) : s[k] \in EntriesOf(file) /\ s[k] < o
    BY <1>5, <2>1, <2>2 DEF Ascending
  <2>5. Len(s) + 1 <= Rank(file, o)
    BY <1>2, <2>3, <2>4, RankIs
  <2>6. Rank(file, o) <= Len(s)
    BY <1>2, <1>9, <2>2 DEF Admits
  <2>7. QED
    BY <1>3, <2>3, <2>5, <2>6
<1>10. CASE array = q
  BY <1>2, <1>5, <1>7, <1>9, <1>10
<1>11. CASE array # q
  <2>1. array < q
    BY <1>1, <1>3, <1>8, <1>11
  <2>2. /\ \A p \in Linked(file) : p < q =>
              \A i \in Filled(Items(file, p)), j \in Filled(Items(file, q)) : Items(file, p)[i] < Items(file, q)[j]
        /\ file.objs[array].next \in array + 1..q
        /\ Filled(Items(file, array)) = 1..Len(Items(file, array))
    <3>1. q \in Linked(file) /\ array \in Linked(file) /\ file \in FileType
      BY <1>2, <1>3, <1>5
    <3>2. Accounted(file)
      BY <1>2 DEF InOrder
    <3>3. \A p, r \in Linked(file) : p < r =>
             /\ file.objs[p].next \in p + 1..r
             /\ Filled(Items(file, p)) = 1..Len(Items(file, p))
             /\ \A i \in Filled(Items(file, p)), j \in Filled(Items(file, r)) : Items(file, p)[i] < Items(file, r)[j]
      BY <3>2, AccountedIs
    <3>4. \A p \in Linked(file) : p < q =>
             \A i \in Filled(Items(file, p)), j \in Filled(Items(file, q)) : Items(file, p)[i] < Items(file, q)[j]
      BY <3>1, <3>3
    <3>5. QED
      BY <2>1, <3>1, <3>3, <3>4
  <2>3. ASSUME NEW k \in 1..Len(offsets')
        PROVE  offsets'[k] < o
    <3>1. PICK p \in Linked(file) : p <= array /\ HasPlace(file, offsets'[k], p)
      BY <1>5
    <3>2. PICK i \in Filled(Items(file, p)) : Items(file, p)[i] = offsets'[k]
      BY <3>1 DEF HasPlace
    <3>3. PICK j \in Filled(Items(file, q)) : Items(file, q)[j] = o
      BY <1>2 DEF HasPlace
    <3>4. p < q
      <4>1. Linked(file) \subseteq ArraysOf(file) /\ ArraysOf(file) \subseteq 1..Len(file.objs)
        BY <1>2, FileParts DEF ArraysOf
      <4>2. p \in Nat
        BY <4>1
      <4>3. QED
        BY <1>1, <1>3, <2>1, <3>1, <4>2
    <3>5. QED
      BY <2>2, <3>2, <3>3, <3>4
  <2>4. Len(offsets') # This.limit
    BY <1>9, <2>3
  <2>5. m = Len(Items(file, array))
    <3>1. 1..m = 1..Len(Items(file, array))
      BY <1>4, <2>2, <2>4
    <3>2. Len(Items(file, array)) \in Nat
      <4>1. array \in ArraysOf(file)
        BY <1>2, <1>5, FileParts
      <4>2. Items(file, array) \in Seq(Nat)
        BY <1>2, <4>1, FileParts
      <4>3. QED
        BY <4>2, LenProperties
    <3>3. QED
      BY <3>1, <3>2
  <2>6. phase' = "walk" /\ array' = file.objs[array].next
    BY <1>4, <2>4, <2>5
  <2>7. array' # 0 /\ array' <= q
    BY <1>1, <1>3, <2>2, <2>6
  <2>8. QED
    BY <2>6, <2>7 DEF AtHand
<1>12. QED
  BY <1>10, <1>11

\* An entry that is looked at is dealt with.
LEMMA EntryAhead ==
    ASSUME TypeOK, EntrySkipped \/ EntryMatches, NEW f, NEW o, NEW q, Waits(f, o, q), Ahead(f, o, q)
    PROVE  Ahead(f, o, q)' \/ Handled(RecordAt(files[f], o))'
<1>1. /\ phase = "match" /\ phase' = "match" /\ UNCHANGED <<files, opened>>
      /\ offsets # <<>> /\ offsets' = Tail(offsets) /\ offsets \in Seq(Nat \ {0})
  BY DEF EntrySkipped, EntryMatches, Matching, NextEntry, journal, TypeOK
<1> SUFFICES ASSUME Admits(This, f, o, q), AtHand(o, q), ~AtHand(o, q)'
             PROVE  Handled(RecordAt(files[f], o))'
  BY <1>1, WalkAhead
<1>2. PICK j \in 1..Len(offsets) : offsets[j] = o
  BY <1>1 DEF AtHand
<1>3. ~\E k \in 1..Len(Tail(offsets)) : Tail(offsets)[k] = o
  BY <1>1 DEF AtHand
<1>4. o = Head(offsets)
  BY <1>1, <1>2, <1>3, HeadOrTail
<1>5. f = This.file /\ o \in EntriesOf(files[f]) /\ o <= This.end /\ Intact(files[f])
  BY DEF Admits, Waits, InOrder
<1>6. /\ EntryVerdict(o) = Verdict(RecordAt(files[f], o).kind)
      /\ RecordAt(files[f], o) = [id |-> ObjectAt(o).id, kind |-> ObjectAt(ObjectAt(o).data).kind]
  BY <1>1, <1>5, EntryHasData
<1>7. PICK e : e = RecordAt(files[f], o)
  OBVIOUS
<1>8. Verdict(e.kind) = "skip" \/ (Verdict(e.kind) = "match" /\ e \in found')
  <2>1. CASE EntrySkipped
    BY <1>4, <1>6, <1>7, <2>1 DEF EntrySkipped
  <2>2. CASE EntryMatches
    BY <1>4, <1>6, <1>7, <2>2 DEF EntryMatches
  <2>3. QED
    BY <2>1, <2>2
<1>9. e = RecordAt(files'[f], o)
  BY <1>1, <1>7
<1>10. QED
  BY <1>8, <1>9, <1>7 DEF Handled

\* A file that ends has nothing left to be listed, and the next one's turn comes.
LEMMA EndAhead ==
    ASSUME TypeOK, OpenedInv, FileEnds, NEW f, NEW o, NEW q, Waits(f, o, q), Ahead(f, o, q)
    PROVE  Ahead(f, o, q)'
<1> DEFINE OpenType == [file : File, end : Nat, limit : Nat, first : Nat]
<1>1. /\ phase = "match" /\ UNCHANGED files /\ offsets = <<>> /\ opened # <<>> /\ opened \in Seq(OpenType)
      /\ opened' = Tail(opened) /\ BeginFile(Tail(opened))
  BY DEF FileEnds, Matching, journal, TypeOK
<1>2. PICK i \in 1..Len(opened) : Admits(opened[i], f, o, q) /\ (i = 1 => AtHand(o, q))
  BY <1>1 DEF Ahead, ToOpen, BeingOpened, ToRead
<1>3. i # 1
  <2>1. Len(offsets) = 0
    BY <1>1
  <2>2. QED
    BY <1>1, <1>2, <2>1 DEF AtHand
<1>4. /\ Tail(opened) \in Seq(OpenType) /\ Len(Tail(opened)) = Len(opened) - 1 /\ Len(opened) \in Nat
      /\ \A j \in 1..Len(Tail(opened)) : Tail(opened)[j] = opened[j + 1]
  BY <1>1, HeadTailProperties, LenProperties
<1>5. PICK k : k = i - 1 /\ k \in 1..Len(Tail(opened)) /\ k + 1 = i
  BY <1>3, <1>4
<1>6. Tail(opened)[k] = opened[i] /\ Admits(Tail(opened)[k], f, o, q)
  BY <1>2, <1>4, <1>5
<1>7. \A j \in 1..Len(Tail(opened)) : j + 1 \in 1..Len(opened)
  BY <1>4
<1>8. \A j \in 1..Len(Tail(opened)) : \E l \in 1..Len(opened) : Tail(opened)[j] = opened[l]
  BY <1>4, <1>7
<1>9. Tail(opened) # <<>>
  <2>1. PICK t : t = Tail(opened) /\ t \in Seq(OpenType) /\ k \in 1..Len(t)
    BY <1>4, <1>5
  <2>2. \A n \in 1..0 : FALSE
    OBVIOUS
  <2>3. t # <<>>
    BY <2>1, <2>2, EmptySeq
  <2>4. QED
    BY <2>1, <2>3
<1>10. QED
  BY <1>1, <1>4, <1>5, <1>6, <1>8, <1>9, BeginAhead

\* The first walk begins when all files are open.
LEMMA BeginWalkAhead ==
    ASSUME TypeOK, OpenedInv, BeginWalk, NEW f, NEW o, NEW q, Waits(f, o, q), Ahead(f, o, q)
    PROVE  Ahead(f, o, q)'
<1> DEFINE OpenType == [file : File, end : Nat, limit : Nat, first : Nat]
<1>1. /\ phase = "stat" /\ UNCHANGED files /\ todo = <<>> /\ opened # <<>> /\ opened \in Seq(OpenType)
      /\ opened' = opened /\ BeginFile(opened)
  BY DEF BeginWalk, journal, TypeOK
<1>2. Len(todo) = 0
  BY <1>1
<1>3. PICK i \in 1..Len(opened) : Admits(opened[i], f, o, q)
  BY <1>1, <1>2 DEF Ahead, ToOpen, BeingOpened, ToRead
<1>4. QED
  BY <1>1, <1>3, BeginAhead

\* A reader's step deals with what is promised, or comes nearer to it.
LEMMA PromiseReader ==
    ASSUME TypeOK, JournalInv, OpenedInv, OrderInv, PromiseInv, Glob \/ Reader
    PROVE  PromiseInv'
<1>1. UNCHANGED <<files, access, disturbed>> /\ (~Glob => UNCHANGED promised) /\ (result = "none" <=> phase # "done")
  BY ReaderLeaves DEF journal, TypeOK
<1>2. CASE Glob
  BY <1>2, GlobAwaits DEF PromiseInv
<1>3. CASE HeaderRefused \/ NothingOpened \/ ChainCorrupt \/ EntryFails
  <2>1. result' \notin {"none", "ok"}
    BY <1>3 DEF HeaderRefused, NothingOpened, ChainCorrupt, EntryFails, Ends, EntryVerdict, Verdict
  <2>2. QED
    BY <2>1 DEF PromiseInv
<1>4. CASE Take
  <2>1. phase = "take" /\ found' = found /\ ~Glob
    BY <1>4 DEF Take, Ends, Glob
  <2>2. ASSUME NEW e
        PROVE  ~Awaited(e)
    BY <2>1 DEF Awaited, Ahead, ToOpen, BeingOpened, ToRead
  <2>3. ~disturbed => \A e \in promised : Handled(e)
    BY <1>1, <2>1, <2>2 DEF PromiseInv
  <2>4. QED
    BY <1>1, <2>1, <2>3 DEF PromiseInv, Handled
<1>5. CASE Stat \/ HeaderRead \/ BeginWalk \/ ChainEnds \/ ReadArray \/ EntrySkipped \/ EntryMatches \/ FileEnds
  <2>1. phase \notin {"idle", "done"} /\ ~Glob /\ found \subseteq found'
    BY <1>5 DEF Stat, HeaderRead, BeginWalk, ChainEnds, ReadArray, EntrySkipped, EntryMatches, FileEnds, Walking, Matching,
         answer, Glob
  <2>2. ASSUME ~disturbed, NEW e \in promised
        PROVE  Handled(e)' \/ Awaited(e)'
    <3>1. CASE Handled(e)
      <4>1. Handled(e)'
        BY <2>1, <3>1 DEF Handled
      <4>2. QED
        BY <4>1
    <3>2. CASE Awaited(e)
      <4>1. PICK f, o, q : Waits(f, o, q) /\ Ahead(f, o, q) /\ e = RecordAt(files[f], o)
        BY <3>2 DEF Awaited
      <4>2. Waits(f, o, q)' /\ e = RecordAt(files'[f], o)
        BY <1>1, <4>1 DEF Waits
      <4>3. Ahead(f, o, q)' \/ Handled(RecordAt(files[f], o))'
        BY <1>5, <4>1, StatAhead, HeaderAhead, BeginWalkAhead, ChainAhead, ReadAhead, EntryAhead, EndAhead
      <4>4. Handled(RecordAt(files[f], o))' => Handled(e)'
        BY <4>2 DEF Handled
      <4>5. Ahead(f, o, q)' => Awaited(e)'
        BY <4>2 DEF Awaited
      <4>6. QED
        BY <4>3, <4>4, <4>5
    <3>3. QED
      BY <1>1, <2>1, <2>2, <3>1, <3>2 DEF PromiseInv
  <2>3. QED
    BY <1>1, <2>1, <2>2 DEF PromiseInv
<1>6. QED
  BY <1>2, <1>3, <1>4, <1>5 DEF Reader

\* journald takes nothing away from the reader, but by a rotation.
LEMMA PromiseJournald ==
    ASSUME TypeOK, JournalInv, TypeOK', JournalInv', PromiseInv, Moves
    PROVE  PromiseInv'
<1>1. /\ UNCHANGED <<phase, todo, opening, opened, array, offsets, found, result, promised>>
      /\ ~disturbed' => ~disturbed /\ (phase \in {"stat", "header"} => dir' = dir)
  BY DEF Moves, reader, reading, answer
<1>2. ASSUME ~disturbed', NEW f, NEW o, NEW q, Waits(f, o, q), Ahead(f, o, q)
      PROVE  Waits(f, o, q)' /\ Ahead(f, o, q)' /\ RecordAt(files'[f], o) = RecordAt(files[f], o)
  <2>1. PICK old, new : old = files[f] /\ new = files'[f] /\ old \in FileType /\ new \in FileType /\ f \in File
                        /\ Grows(old, new)
    BY <1>2, WaitsIs DEF Moves, TypeOK
  <2>2. o \in 1..Len(old.objs) /\ o \in EntriesOf(old) /\ HasPlace(old, o, q) /\ InOrder(old)
    BY <1>2, <2>1, WaitsIs DEF Waits
  <2>3. Waits(f, o, q)'
    <3>1. InOrder(files'[f])
      BY <2>1, <2>2, InOrderStays
    <3>2. access'[f] = "readable"
      BY <1>2, <2>1 DEF Waits, Moves
    <3>3. HasPlace(new, o, q)
      BY <2>1, <2>2, PlaceStays
    <3>4. o \in EntriesOf(new)
      BY <2>1, <2>2, GrownParts
    <3>5. QED
      BY <2>1, <3>1, <3>2, <3>3, <3>4 DEF Waits
  <2>4. /\ Rank(new, o) = Rank(old, o)
        /\ o \in CountedIn(old) => o \in CountedIn(new)
    BY <2>1, <2>2, GrownParts
  <2>5. RecordAt(new, o) = RecordAt(old, o)
    <3>1. /\ old.objs[o].type = "entry" /\ old.objs[o].data \in 1..o - 1 /\ old.objs[old.objs[o].data].type = "data"
      BY <2>2 DEF InOrder, Intact, EntriesOf, OffsetsOf
    <3>2. PICK d : d = old.objs[o].data /\ d \in 1..Len(old.objs)
      <4>1. Len(old.objs) \in Nat
        BY <2>1, FileParts
      <4>2. QED
        BY <2>2, <3>1, <4>1
    <3>3. new.objs[o] = old.objs[o] /\ new.objs[d] = old.objs[d]
      BY <2>1, <2>2, <3>1, <3>2 DEF Grows
    <3>4. QED
      BY <3>2, <3>3 DEF RecordAt
  <2>6. ToOpen(f, o) => ToOpen(f, o)'
    BY <1>1, <1>2, <2>1, <2>4 DEF ToOpen
  <2>7. BeingOpened(f, o, q) => BeingOpened(f, o, q)'
    BY <1>1, <2>1, <2>4 DEF BeingOpened
  <2>8. ToRead(f, o, q) => ToRead(f, o, q)'
    BY <1>1, <2>1, <2>4 DEF ToRead, Admits, AtHand
  <2>9. QED
    BY <1>2, <2>1, <2>3, <2>5, <2>6, <2>7, <2>8 DEF Ahead
<1>3. ASSUME ~disturbed', NEW e
      PROVE  Awaited(e) => Awaited(e)'
  BY <1>2, <1>3 DEF Awaited
<1>4. ASSUME NEW e
      PROVE  Handled(e) => Handled(e)'
  BY <1>1 DEF Handled
<1>5. SUFFICES ASSUME phase' # "idle", ~disturbed', result' \in {"none", "ok"}, NEW e \in promised'
               PROVE  Handled(e)' \/ Awaited(e)'
  BY DEF PromiseInv
<1>6. Handled(e) \/ Awaited(e)
  BY <1>1, <1>5 DEF PromiseInv
<1>7. QED
  BY <1>3, <1>4, <1>5, <1>6

-----------------------------------------------------------------------------
LedgerInv == OpenedInv /\ OrderInv /\ PromiseInv /\ TakenInv

\* Every step keeps it.
LEMMA LedgerStep == TypeOK /\ JournalInv /\ TypeOK' /\ JournalInv' /\ LedgerInv /\ [Next]_vars => LedgerInv'
<1> SUFFICES ASSUME TypeOK, JournalInv, TypeOK', JournalInv', LedgerInv, [Next]_vars
             PROVE  LedgerInv'
  OBVIOUS
<1>1. OpenedInv /\ OrderInv /\ PromiseInv /\ TakenInv
  BY DEF LedgerInv
<1>2. CASE Glob \/ Reader
  <2>1. TakenInv'
    <3>1. CASE Take
      BY <3>1 DEF Take, Ends, TakenInv
    <3>2. CASE ~Take
      <4>1. phase # "done"
        BY <1>2 DEF Glob, Reader, Stat, HeaderRefused, HeaderRead, NothingOpened, BeginWalk, ChainEnds, ChainCorrupt,
             ReadArray, EntrySkipped, EntryMatches, EntryFails, FileEnds, Take, Walking, Matching
      <4>2. result' = result \/ result' # "ok"
        BY <1>2, <3>2 DEF Glob, Reader, Stat, HeaderRefused, HeaderRead, NothingOpened, BeginWalk, ChainEnds, ChainCorrupt,
             ReadArray, EntrySkipped, EntryMatches, EntryFails, FileEnds, Ends, answer, NextEntry, EntryVerdict, Verdict
      <4>3. QED
        BY <1>1, <4>1, <4>2 DEF TakenInv
    <3>3. QED
      BY <3>1, <3>2
  <2>2. QED
    BY <1>1, <1>2, <2>1, OpenedReader, OrderReader, PromiseReader DEF LedgerInv
<1>3. CASE Journald
  <2>1. Moves
    BY <1>3, JournaldKeeps
  <2>2. TakenInv'
    BY <1>1, <2>1 DEF Moves, reader, answer, TakenInv
  <2>3. QED
    BY <1>1, <2>1, <2>2, OpenedJournald, OrderJournald, PromiseJournald DEF LedgerInv
<1>4. CASE UNCHANGED vars
  <2>1. UNCHANGED <<files, dir, access, phase, todo, opening, opened, denied, array, offsets, found, taken, result, promised, disturbed>>
    BY <1>4 DEF vars, journal, reader, reading, answer
  <2>2. OpenedInv'
    BY <1>1, <2>1 DEF OpenedInv, HeaderInv, HandleInv, LiveInv, ForeignInv
  <2>3. OrderInv'
    BY <1>1, <2>1 DEF OrderInv, This, Ascending
  <2>4. PromiseInv'
    <3>1. ASSUME NEW f, NEW o, NEW q
          PROVE  /\ Waits(f, o, q)' <=> Waits(f, o, q)
                 /\ ToOpen(f, o)' <=> ToOpen(f, o)
                 /\ BeingOpened(f, o, q)' <=> BeingOpened(f, o, q)
      BY <2>1 DEF Waits, ToOpen, BeingOpened
    <3>2. ASSUME NEW f, NEW o, NEW q
          PROVE  ToRead(f, o, q)' <=> ToRead(f, o, q)
      BY <2>1 DEF ToRead, Admits, AtHand
    <3>3. ASSUME NEW e
          PROVE  (Awaited(e)' <=> Awaited(e)) /\ (Handled(e)' <=> Handled(e))
      BY <2>1, <3>1, <3>2 DEF Awaited, Ahead, Handled
    <3>4. QED
      BY <1>1, <2>1, <3>3 DEF PromiseInv
  <2>5. TakenInv'
    BY <1>1, <2>1 DEF TakenInv
  <2>6. QED
    BY <2>2, <2>3, <2>4, <2>5 DEF LedgerInv
<1>5. QED
  BY <1>2, <1>3, <1>4 DEF Next

\* At first nothing is promised.
LEMMA LedgerInit == Init => LedgerInv
<1> SUFFICES ASSUME Init
             PROVE  LedgerInv
  OBVIOUS
<1>1. phase = "idle" /\ result = "none"
  BY DEF Init
<1>2. OpenedInv
  BY HoldInit DEF HoldInv
<1>3. QED
  BY <1>1, <1>2 DEF LedgerInv, OrderInv, PromiseInv, TakenInv

\* What verify asks for is skipped by no reader.
LEMMA OwnIsNotSkipped ==
    ASSUME NEW k \in KindType, OwnAnchor(k)
    PROVE  /\ Verdict(k) # "skip"
           /\ ReadableAt(k, "_EXE") = {} => Verdict(k) # "match"
<1>1. ASSUME NEW f \in Deciding
      PROVE  \A i \in 1..Len(k.values[f]) : k.values[f][i].says = Ours
  <2>1. f \in Field
    BY DEF Field
  <2>2. PICK n : /\ n = Len(k.values[f]) /\ ReadableAt(Unpacked(k), f) = 1..n
                 /\ \A i \in 1..n : Unpacked(k).values[f][i].says = k.values[f][i].says
    BY <2>1, PrintedIs
  <2>3. PICK i \in 1..n : Unpacked(k).values[f][i].says = Ours
    BY <2>2 DEF OwnAnchor, Says, Stands
  <2>4. \A p, q \in 1..n : Unpacked(k).values[f][p].says = Unpacked(k).values[f][q].says
    BY <2>2 DEF OwnAnchor, TwoValues
  <2>5. QED
    BY <2>2, <2>3, <2>4
<1>2. ASSUME NEW f \in Deciding
      PROVE  Len(k.values[f]) \in Nat /\ 1 \in 1..Len(k.values[f]) /\ ReadableAt(k, f) \subseteq 1..Len(k.values[f])
  <2>1. f \in Field
    BY DEF Field
  <2>2. PICK n : /\ n = Len(k.values[f]) /\ n \in Nat /\ ReadableAt(Unpacked(k), f) = 1..n
                 /\ ReadableAt(k, f) \subseteq 1..n
    BY <2>1, PrintedIs
  <2>3. PICK i : i \in 1..n
    BY <2>2 DEF OwnAnchor, Says, Stands
  <2>4. QED
    BY <2>2, <2>3
<1>3. ASSUME NEW f \in Deciding, ReadableAt(k, f) # {}
      PROVE  Says(k, f)
  <2>1. PICK n : n = Len(k.values[f]) /\ n \in Nat /\ ReadableAt(k, f) \subseteq 1..n
    BY <1>2
  <2>2. PICK least \in ReadableAt(k, f) : \A j \in ReadableAt(k, f) : least <= j
    <3>1. ReadableAt(k, f) \in SUBSET Nat /\ \A j \in ReadableAt(k, f) : j <= n
      BY <2>1
    <3>2. QED
      BY <1>3, <2>1, <3>1, LeastThereIs
  <2>3. k.values[f][least].says = Ours
    BY <1>1, <2>1, <2>2
  <2>4. QED
    BY <2>2, <2>3 DEF Says, Stands
<1>4. ~TwoValues(k, Deciding)
  <2>1. \A f \in Deciding : \A i, j \in ReadableAt(k, f) : k.values[f][i].says = k.values[f][j].says
    BY <1>1, <1>2
  <2>2. QED
    BY <2>1 DEF TwoValues
<1>5. ASSUME NEW f \in {"MESSAGE_ID", "_UID"}
      PROVE  Says(k, f)
  <2>1. f \in Deciding
    BY DEF Deciding
  <2>2. 1 \in 1..Len(k.values[f]) /\ k.values[f][1].says = Ours
    BY <1>1, <1>2, <2>1
  <2>3. ~k.values[f][1].packed
    BY <2>2 DEF KindType
  <2>4. 1 \in ReadableAt(k, f)
    BY <2>2, <2>3 DEF ReadableAt
  <2>5. QED
    BY <1>3, <2>1, <2>4
<1>6. "_EXE" \in Deciding /\ "_EXE" \in Field
  BY DEF Field, Deciding
<1>7. ReadableAt(k, "_EXE") = {} => SomePacked(k, Field)
  <2>1. 1 \in 1..Len(k.values["_EXE"])
    BY <1>2, <1>6
  <2>2. QED
    BY <1>6, <2>1 DEF ReadableAt, SomePacked
<1>8. ReadableAt(k, "_EXE") # {} => Says(k, "_EXE")
  BY <1>3, <1>6
<1>9. QED
  BY <1>4, <1>5, <1>7, <1>8 DEF Verdict

\* What follows of an answer.
LEMMA LedgerShows == TypeOK /\ LedgerInv => CountedAnchorsTaken /\ UnreadableIsLoud
<1> SUFFICES ASSUME TypeOK, LedgerInv
             PROVE  CountedAnchorsTaken /\ UnreadableIsLoud
  OBVIOUS
<1>1. PromiseInv /\ TakenInv /\ ForeignInv /\ promised \subseteq EntryType
  BY DEF LedgerInv, OpenedInv, TypeOK
<1>2. ASSUME result = "ok", ~disturbed, NEW e \in promised, OwnAnchor(e.kind)
      PROVE  e \in found /\ Verdict(e.kind) = "match"
  <2>1. phase = "done"
    BY <1>1, <1>2 DEF TakenInv
  <2>2. ~Awaited(e)
    BY <2>1 DEF Awaited, Ahead, ToOpen, BeingOpened, ToRead
  <2>3. Handled(e)
    BY <1>1, <1>2, <2>1, <2>2 DEF PromiseInv
  <2>4. e.kind \in KindType
    BY <1>1, <1>2 DEF EntryType
  <2>5. QED
    BY <1>2, <2>3, <2>4, OwnIsNotSkipped DEF Handled
<1>3. \A e \in promised : e.kind \in KindType
  BY <1>1 DEF EntryType
<1>4. CountedAnchorsTaken
  <2> SUFFICES ASSUME result = "ok", ~disturbed, NEW e \in promised, OwnAnchor(e.kind), Says(e.kind, "ADB_BROKER_LOG")
               PROVE  e \in taken
    BY DEF CountedAnchorsTaken
  <2>1. e \in found
    BY <1>2
  <2>2. QED
    BY <1>1, <2>1 DEF TakenInv
<1>5. UnreadableIsLoud
  <2> SUFFICES ASSUME result = "ok"
               PROVE  /\ access["s"] # "foreign"
                      /\ ~disturbed => ~\E e \in promised : OwnAnchor(e.kind) /\ ReadableAt(e.kind, "_EXE") = {}
    BY DEF UnreadableIsLoud
  <2>1. access["s"] # "foreign"
    BY <1>1 DEF ForeignInv, TakenInv
  <2>2. ASSUME ~disturbed, NEW e \in promised, OwnAnchor(e.kind), ReadableAt(e.kind, "_EXE") = {}
        PROVE  FALSE
    BY <1>2, <1>3, <2>2, OwnIsNotSkipped
  <2>3. QED
    BY <2>1, <2>2
<1>6. QED
  BY <1>4, <1>5

\* Nothing is lost while journald appends, in an answer that is no error: whatever a
\* header counted of this log's anchors is among those taken, for arrays of any size,
\* any number of entries and any system file; and
THEOREM AnchorsAreTaken == Spec => []CountedAnchorsTaken
<1>1. Init => LedgerInv
  BY LedgerInit
<1>2. TypeOK /\ JournalInv /\ TypeOK' /\ JournalInv' /\ LedgerInv /\ [Next]_vars => LedgerInv'
  BY LedgerStep
<1>3. TypeOK /\ LedgerInv => CountedAnchorsTaken
  BY LedgerShows
<1>4. Spec => [](TypeOK /\ JournalInv)
  BY TypesAreKept
<1>5. QED
  BY <1>1, <1>2, <1>3, <1>4, PTL DEF Spec

\* what cannot be read is not passed over for nothing there.
THEOREM NothingUnreadablePasses == Spec => []UnreadableIsLoud
<1>1. Init => LedgerInv
  BY LedgerInit
<1>2. TypeOK /\ JournalInv /\ TypeOK' /\ JournalInv' /\ LedgerInv /\ [Next]_vars => LedgerInv'
  BY LedgerStep
<1>3. TypeOK /\ LedgerInv => UnreadableIsLoud
  BY LedgerShows
<1>4. Spec => [](TypeOK /\ JournalInv)
  BY TypesAreKept
<1>5. QED
  BY <1>1, <1>2, <1>3, <1>4, PTL DEF Spec
=============================================================================
