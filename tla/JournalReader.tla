---------------------------- MODULE JournalReader ----------------------------
(***************************************************************************)
(* Reading the anchors back (foundation/journal, and readAnchors of        *)
(* app/broker/verify.go) out of the journal's own files, while journald    *)
(* appends to them and rotates them.                                       *)
(*                                                                         *)
(* A file is a sequence of objects and an offset is an index in it.  The   *)
(* entries of a file hang from a chain of entry arrays, and the header     *)
(* counts them.  The DATA objects of an entry are one object here, shared  *)
(* by all entries that say the same; a field is the values the entry has   *)
(* for it, in order.  Entries and data never change once they are linked,  *)
(* arrays and the header do, so a step of the reader is one read of one of *)
(* these, and journald moves between any two.                              *)
(***************************************************************************)
EXTENDS Naturals, Sequences, FiniteSets

CONSTANTS
    Kind,       \* what an entry may say
    SystemFile, \* what the system's file may hold; nothing is appended to it
    Slots,      \* entries an array has room for
    Chunk,      \* objects by which a file is extended
    MaxEntries  \* bound: entries journald writes

Deciding == {"MESSAGE_ID", "_UID", "_EXE"}
Payload  == {"ADB_BROKER_SEQ", "ADB_BROKER_HASH", "ADB_BROKER_LOG"}
Field    == Deciding \cup Payload \cup {"MESSAGE"}
Ours     == "ours"     \* the value the filter asks for, or the log being verified
Junk     == "junk"     \* what is no sequence number, or no hash

\* One DATA object of an entry: what it says, and whether journald compressed it.
Value == [says : {Ours, "theirs", Junk}, packed : BOOLEAN]

\* The values an entry has for each field, in the order of its items.  "huge" is one
\* with an object above maxDataBytes, "long" one whose line of JSON is above
\* maxAnchorLineBytes.  What is compressed is longer than any message id or uid the
\* filter asks for (matchEntry).
KindType ==
    {k \in [values : [Field -> Seq(Value)], huge : BOOLEAN, long : BOOLEAN] :
        \A f \in {"MESSAGE_ID", "_UID"} : \A i \in 1..Len(k.values[f]) :
            k.values[f][i].packed => k.values[f][i].says # Ours}

ASSUME KindsAreKinds == Kind \subseteq KindType
ASSUME SizesAreNat ==
    /\ Slots \in Nat \ {0} /\ MaxEntries \in Nat
    /\ Chunk \in Nat /\ Chunk >= 3

\* Files: a is the user's, b the one that takes its place, s the system's.
File  == {"a", "b", "s"}
None  == "none"

Outcomes == {"none", "ok", "unsupported", "permission", "unreadable", "corrupt",
             "ambiguous", "compressed", "malformed"}

VARIABLES
    files,      \* per file: its objects, how far it extends, and two fields of its header
    dir,        \* the file at each path
    access,     \* per file: "readable", "denied", "foreign" (its header), "newborn" (it has none) or "absent"
    journald,   \* "idle", or what it has done of an append or a rotation
    published,  \* entries written so far
    phase,      \* of the reader: "idle", "stat", "header", "walk", "match", "take" or "done"
    todo,       \* paths not opened yet
    opening,    \* the file whose header is read next, and what Stat said of its size
    opened,     \* files open and not read yet: two header fields and usedEnd, as they were
    denied,     \* a file was skipped for want of permission
    array,      \* of the file being read: the next entry array
    visited,    \* and those walked
    offsets,    \* entries the arrays have listed, not matched yet
    found,      \* entries that match
    taken,      \* those that are anchors of the log being verified
    result,
    promised,   \* entries counted in readable files when reading began
    disturbed   \* a rotation came between the expansion of the pattern and the last open

journal  == <<files, dir, access, journald, published>>
reading  == <<array, visited, offsets>>
answer   == <<found, taken, result>>
reader   == <<phase, todo, opening, opened, denied, reading, answer>>
vars     == <<journal, reader, promised, disturbed>>

-----------------------------------------------------------------------------
(* Objects.                                                                 *)

Data(k)            == [type |-> "data", kind |-> k]
EntryObject(d, n)  == [type |-> "entry", data |-> d, id |-> n]
EntryArray(items)  == [type |-> "array", items |-> items, next |-> 0]

OffsetsOf(objs, type) == {o \in 1..Len(objs) : objs[o].type = type}
Latest(S) == IF S = {} THEN 0 ELSE CHOOSE o \in S : \A q \in S : q <= o

EmptyFile == [objs |-> <<>>, extent |-> Chunk, count |-> 0, first |-> 0]
NoFile    == [file |-> "a", size |-> 0]

EntryType  == [id : Nat, kind : KindType]
ObjectType ==
    [type : {"data"}, kind : KindType]
      \cup [type : {"entry"}, data : Nat, id : Nat]
      \cup [type : {"array"}, items : Seq(Nat), next : Nat]
FileType   == [objs : Seq(ObjectType), extent : Nat, count : Nat, first : Nat]

ASSUME SystemFilesAreFiles == SystemFile \subseteq FileType

\* The places of an array that are taken: offset 0 names no object.
Filled(items) == {i \in 1..Len(items) : \A j \in 1..i : items[j] # 0}

\* Offsets in a file lead to what they should, or past an end that was cut off: an
\* entry to data before it, an array to entries, and the chain of arrays onwards.
Intact(file) ==
    LET objs       == file.objs
        arrays     == OffsetsOf(objs, "array")
        Past(o)    == o > Len(objs)
    IN  /\ Len(objs) <= file.extent
        /\ \A o \in OffsetsOf(objs, "entry") : objs[o].data \in 1..o - 1 /\ objs[objs[o].data].type = "data"
        /\ file.first \in arrays \cup {0} \/ Past(file.first)
        /\ \A q \in arrays :
              /\ objs[q].next \in (arrays \ 1..q) \cup {0} \/ Past(objs[q].next)
              /\ \A i \in Filled(objs[q].items) :
                    objs[q].items[i] \in OffsetsOf(objs, "entry") \/ Past(objs[q].items[i])

\* The arrays of the chain.
Linked(file) ==
    LET arrays == OffsetsOf(file.objs, "array")
    IN  {q \in arrays : q = file.first \/ \E p \in arrays : file.objs[p].next = q}

\* The entries a header counts: the first so many.
Rank(file, o)     == Cardinality({r \in OffsetsOf(file.objs, "entry") : r <= o})
CountedIn(file)   == {o \in OffsetsOf(file.objs, "entry") : Rank(file, o) <= file.count}
RecordAt(file, o) == [id |-> file.objs[o].id, kind |-> file.objs[file.objs[o].data].kind]

\* The chain misses none of its arrays, it lists entries in their order and fills an
\* array before the next, and what the header counts is listed.
Accounted(file) ==
    LET objs      == file.objs
        chain     == Linked(file)
        Places(q) == Filled(objs[q].items)
    IN  /\ \A q \in chain : file.first \in 1..q
        /\ \A p, q \in chain : p < q =>
              /\ objs[p].next \in p + 1..q
              /\ Places(p) = 1..Len(objs[p].items)
              /\ \A i \in Places(p), j \in Places(q) : objs[p].items[i] < objs[q].items[j]
        /\ \A q \in chain : \A i, j \in Places(q) : i < j => objs[q].items[i] < objs[q].items[j]
        /\ \A o \in CountedIn(file) : \E q \in chain : \E i \in Places(q) : objs[q].items[i] = o

-----------------------------------------------------------------------------
Init ==
    /\ \E s \in SystemFile, how \in {"readable", "denied", "foreign", "absent"} :
          /\ how # "readable" => s = CHOOSE any \in SystemFile : TRUE
          /\ files = [a |-> EmptyFile, b |-> [EmptyFile EXCEPT !.extent = 0], s |-> s]
          /\ access = [a |-> "readable", b |-> "newborn", s |-> how]
          /\ dir = [system |-> IF how = "absent" THEN None ELSE "s", live |-> "a", archive |-> None]
    /\ journald = "idle" /\ published = 0
    /\ phase = "idle"
    /\ todo = <<>> /\ opening = NoFile /\ opened = <<>> /\ denied = FALSE
    /\ array = 0 /\ visited = {} /\ offsets = <<>>
    /\ found = {} /\ taken = {} /\ result = "none"
    /\ promised = {} /\ disturbed = FALSE

-----------------------------------------------------------------------------
(* journald.                                                                *)

Live == dir["live"]
Objs == files[Live].objs

\* It extends the file before it needs the room: past the objects come zeroes.
Extend ==
    /\ journald = "idle" /\ Live # None /\ published < MaxEntries
    /\ access[Live] = "readable"
    /\ files[Live].extent < Len(Objs) + 3
    /\ files' = [files EXCEPT ![Live].extent = @ + Chunk]
    /\ UNCHANGED <<dir, access, journald, published, reader, promised, disturbed>>

LastArray == Latest(OffsetsOf(Objs, "array"))
ArrayFull == LastArray = 0 \/ Objs[LastArray].items[Slots] # 0

\* The objects of an entry: its data unless they are there, the entry, and an array
\* if the last one is full.
NewObjects(k) ==
    LET stored == {o \in OffsetsOf(Objs, "data") : Objs[o].kind = k}
        data   == IF stored = {} THEN <<Data(k)>> ELSE <<>>
        d      == IF stored = {} THEN Len(Objs) + 1 ELSE Latest(stored)
        entry  == Len(Objs) + Len(data) + 1
    IN  data \o <<EntryObject(d, published + 1)>>
        \o IF ArrayFull THEN <<EntryArray([i \in 1..Slots |-> IF i = 1 THEN entry ELSE 0])>> ELSE <<>>

Write(k) ==
    /\ journald = "idle" /\ Live # None /\ published < MaxEntries
    /\ access[Live] = "readable"
    /\ files[Live].extent >= Len(Objs) + 3
    /\ files' = [files EXCEPT ![Live].objs = @ \o NewObjects(k)]
    /\ published' = published + 1
    /\ journald' = "written"
    /\ UNCHANGED <<dir, access, reader, promised, disturbed>>

\* The entry is hung from its array, or its array from the chain.
Link ==
    /\ journald = "written"
    /\ LET objs   == Objs
            arrays == OffsetsOf(objs, "array")
            new    == Len(objs)
        IN  files' =
              CASE objs[new].type # "array" ->
                     LET items == objs[LastArray].items
                         slot  == CHOOSE i \in 1..Slots : items[i] = 0 /\ \A j \in 1..i - 1 : items[j] # 0
                     IN  [files EXCEPT ![Live].objs[LastArray].items[slot] = new]
                [] objs[new].type = "array" /\ arrays = {new} -> [files EXCEPT ![Live].first = new]
                [] OTHER -> [files EXCEPT ![Live].objs[Latest(arrays \ {new})].next = new]
    /\ journald' = "linked"
    /\ UNCHANGED <<dir, access, published, reader, promised, disturbed>>

\* Last, the header counts it.
Count ==
    /\ journald = "linked"
    /\ files' = [files EXCEPT ![Live].count = @ + 1]
    /\ journald' = "idle"
    /\ UNCHANGED <<dir, access, published, reader, promised, disturbed>>

\* A rotation: the file gets another name, another takes its place, and a header.
Rotation ==
    /\ disturbed' = (disturbed \/ phase \in {"stat", "header"})
    /\ UNCHANGED <<published, reader, promised>>

Rename ==
    /\ journald = "idle" /\ Live = "a"
    /\ dir' = [dir EXCEPT !["live"] = None, !["archive"] = "a"]
    /\ journald' = "renamed"
    /\ UNCHANGED <<files, access>>
    /\ Rotation

CreateNew ==
    /\ journald = "renamed"
    /\ dir' = [dir EXCEPT !["live"] = "b"]
    /\ journald' = "created"
    /\ UNCHANGED <<files, access>>
    /\ Rotation

InitHeader ==
    /\ journald = "created"
    /\ files' = [files EXCEPT !["b"] = EmptyFile]
    /\ access' = [access EXCEPT !["b"] = "readable"]
    /\ journald' = "idle"
    /\ UNCHANGED dir
    /\ Rotation

-----------------------------------------------------------------------------
(* Open.                                                                    *)

Present(path) == IF dir[path] = None THEN <<>> ELSE <<path>>

\* What a reader may be held to: the entries counted in files it may read, that say
\* of themselves what is so.
Honest ==
    {f \in File : access[f] = "readable" /\ Intact(files[f]) /\ Accounted(files[f])}

\* expand: the pattern becomes paths, once, in the order of slices.Sort.
Glob ==
    /\ phase = "idle"
    /\ phase' = "stat"
    /\ todo' = Present("system") \o Present("live") \o Present("archive")
    /\ promised' = UNION {{RecordAt(files[f], o) : o \in CountedIn(files[f])} : f \in Honest}
    /\ UNCHANGED <<journal, opening, opened, denied, reading, answer, disturbed>>

Ends(how) ==
    /\ result' = how
    /\ phase' = "done"
    /\ UNCHANGED <<found, taken>>

\* openFile: a path that is gone, or denied, is stepped over; one that opens is
\* measured before its header is read.
Stat ==
    /\ phase = "stat"
    /\ todo # <<>>
    /\ todo' = Tail(todo)
    /\ LET f == dir[Head(todo)]
       IN  \/ /\ f = None
              /\ UNCHANGED <<phase, opening, denied>>
           \/ /\ f # None /\ access[f] = "denied"
              /\ denied' = TRUE
              /\ UNCHANGED <<phase, opening>>
           \/ /\ f # None /\ access[f] # "denied"
              /\ opening' = [file |-> f, size |-> files[f].extent]
              /\ phase' = "header"
              /\ UNCHANGED denied
    /\ UNCHANGED <<journal, opened, reading, answer, promised, disturbed>>

\* parseFileHeader: an empty file has no signature.
Foreign(f) == access[f] = "foreign" \/ opening.size = 0

Smaller(a, b) == IF a < b THEN a ELSE b

\* Mutant: a file that is not understood is stepped over.
HeaderPassedOver ==
    /\ phase = "header"
    /\ Foreign(opening.file)
    /\ phase' = "stat"
    /\ UNCHANGED <<journal, todo, opening, opened, denied, reading, answer, promised, disturbed>>

\* A file that is not understood fails the call, and closes the others.
HeaderRefused ==
    /\ phase = "header"
    /\ Foreign(opening.file)
    /\ opened' = <<>>
    /\ Ends("unsupported")
    /\ UNCHANGED <<journal, todo, opening, denied, reading, promised, disturbed>>

\* usedEnd is the smaller of what the header and what Stat said.
HeaderRead ==
    /\ phase = "header"
    /\ ~Foreign(opening.file)
    /\ LET f == files[opening.file]
       IN  opened' = Append(opened, [file  |-> opening.file,
                                     end   |-> Smaller(f.extent, opening.size),
                                     limit |-> f.count,
                                     first |-> f.first])
    /\ phase' = "stat"
    /\ UNCHANGED <<journal, todo, opening, denied, reading, answer, promised, disturbed>>

\* No file of those matched could be read.
NothingOpened ==
    /\ phase = "stat"
    /\ todo = <<>> /\ opened = <<>>
    /\ Ends(IF denied THEN "permission" ELSE "unreadable")
    /\ UNCHANGED <<journal, todo, opening, opened, denied, reading, promised, disturbed>>

-----------------------------------------------------------------------------
(* entryOffsets.                                                            *)

This == Head(opened)

\* readObject: a place where an object may have been written, and has been.
Written(o) == o <= This.end /\ o <= Len(files[This.file].objs)
ObjectAt(o) == files[This.file].objs[o]

\* Offset 0 is no offset inside the arena.
Holds(o, type) == o # 0 /\ Written(o) /\ ObjectAt(o).type = type

Walking == phase = "walk" /\ UNCHANGED <<journal, todo, opening, opened, denied, promised, disturbed>>

\* The files opened are walked one after the other.
BeginFile(rest) ==
    /\ phase' = IF rest = <<>> THEN "take" ELSE "walk"
    /\ array' = IF rest = <<>> THEN 0 ELSE Head(rest).first
    /\ visited' = {} /\ offsets' = <<>>

BeginWalk ==
    /\ phase = "stat"
    /\ todo = <<>> /\ opened # <<>>
    /\ BeginFile(opened)
    /\ UNCHANGED <<journal, todo, opening, opened, denied, answer, promised, disturbed>>

\* Mutants: an array that runs past the written region is an error, and arrays
\* are not remembered.
NothingPastEnd(o) == FALSE
NeverRevisited    == FALSE

\* An array that runs past the written region ends the chain.
PastEnd(o) == ~Written(o)
Revisited  == array \in visited

\* The chain is at its end, or all the header counts has been listed.
ChainEnds ==
    /\ Walking
    /\ \/ This.limit = 0
       \/ array = 0
       \/ ~Revisited /\ PastEnd(array)
    /\ phase' = "match"
    /\ UNCHANGED <<reading, answer>>

ChainCorrupt ==
    /\ Walking
    /\ This.limit # 0 /\ array # 0
    /\ Revisited \/ (~PastEnd(array) /\ ~Holds(array, "array"))
    /\ Ends("corrupt")
    /\ UNCHANGED reading

\* What is filled of an array.
UpToZero(items) ==
    LET zeroes == {i \in 1..Len(items) : items[i] = 0}
    IN  SubSeq(items, 1, IF zeroes = {} THEN Len(items) ELSE (CHOOSE i \in zeroes : \A j \in zeroes : i <= j) - 1)

\* Mutants: the header's count is not looked at, or is reached one early.
ListedAll(items) == UpToZero(items)
ListedOneLess(items) ==
    LET filled == UpToZero(items)
    IN  SubSeq(filled, 1, Smaller(Len(filled), This.limit - 1 - Len(offsets)))

\* Of an array's items those before the first zero, as far as the header counts.
Listed(items) ==
    LET filled == UpToZero(items)
    IN  SubSeq(filled, 1, Smaller(Len(filled), This.limit - Len(offsets)))

ReadArray ==
    /\ Walking
    /\ This.limit # 0 /\ array # 0
    /\ ~Revisited /\ Holds(array, "array")
    /\ LET items == ObjectAt(array).items
           new   == Listed(items)
       IN  /\ offsets' = offsets \o new
           /\ IF Len(offsets \o new) = This.limit \/ Len(new) < Len(items)
              THEN phase' = "match" /\ UNCHANGED array
              ELSE array' = ObjectAt(array).next /\ UNCHANGED phase
    /\ visited' = visited \cup {array}
    /\ UNCHANGED answer

-----------------------------------------------------------------------------
(* matchEntry and readFields.                                               *)

\* A compressed value is there for nobody.
ReadableAt(k, f)      == {i \in 1..Len(k.values[f]) : ~k.values[f][i].packed}
SomePacked(k, fields) == \E f \in fields : \E i \in 1..Len(k.values[f]) : k.values[f][i].packed

\* Of the others the first stands.
Stands(k, f, word) ==
    \E i \in ReadableAt(k, f) : k.values[f][i].says = word /\ \A j \in ReadableAt(k, f) : i <= j
Says(k, f) == Stands(k, f, Ours)

TwoValues(k, fields) ==
    \E f \in fields : \E i, j \in ReadableAt(k, f) : k.values[f][i].says # k.values[f][j].says

\* Mutant: the uid is not asked for.
VerdictAnyUser(k) ==
    IF k.huge THEN "corrupt"
    ELSE IF TwoValues(k, Deciding) THEN "ambiguous"
    ELSE IF ~Says(k, "MESSAGE_ID") THEN "skip"
    ELSE IF ReadableAt(k, "_EXE") = {} /\ SomePacked(k, Field) THEN "compressed"
    ELSE IF ~Says(k, "_EXE") THEN "skip"
    ELSE "match"

\* What becomes of an entry whose objects are all there, in the order of the code.
Verdict(k) ==
    IF k.huge THEN "corrupt"
    ELSE IF TwoValues(k, Deciding) THEN "ambiguous"
    ELSE IF ~Says(k, "MESSAGE_ID") \/ ~Says(k, "_UID") THEN "skip"
    ELSE IF ReadableAt(k, "_EXE") = {} /\ SomePacked(k, Field) THEN "compressed"
    ELSE IF ~Says(k, "_EXE") THEN "skip"
    ELSE "match"

\* toAnchor: the sequence number and the hash that stand parse.
Parses(k) == \A f \in {"ADB_BROKER_SEQ", "ADB_BROKER_HASH"} : \E word \in {Ours, "theirs"} : Stands(k, f, word)

\* An entry that runs past the written region is passed over, its data are not.
EntryVerdict(o) ==
    IF ~Written(o) THEN "skip"
    ELSE IF ObjectAt(o).type # "entry" \/ ~Holds(ObjectAt(o).data, "data") THEN "corrupt"
    ELSE Verdict(ObjectAt(ObjectAt(o).data).kind)

Matching ==
    /\ phase = "match"
    /\ UNCHANGED <<journal, todo, opening, denied, promised, disturbed>>

NextEntry == offsets' = Tail(offsets) /\ UNCHANGED <<phase, opened, array, visited, taken, result>>

EntrySkipped ==
    /\ Matching
    /\ offsets # <<>> /\ EntryVerdict(Head(offsets)) = "skip"
    /\ NextEntry
    /\ UNCHANGED found

EntryMatches ==
    /\ Matching
    /\ offsets # <<>> /\ EntryVerdict(Head(offsets)) = "match"
    /\ LET e == ObjectAt(Head(offsets))
       IN  found' = found \cup {[id |-> e.id, kind |-> ObjectAt(e.data).kind]}
    /\ NextEntry

EntryFails ==
    /\ Matching
    /\ offsets # <<>> /\ EntryVerdict(Head(offsets)) \notin {"skip", "match"}
    /\ Ends(EntryVerdict(Head(offsets)))
    /\ UNCHANGED <<opened, reading>>

FileEnds ==
    /\ Matching
    /\ offsets = <<>>
    /\ opened' = Tail(opened)
    /\ BeginFile(Tail(opened))
    /\ UNCHANGED answer

\* readAnchors: one unsound payload fails the call; an anchor of another log is
\* no evidence about this one.
Take ==
    /\ phase = "take"
    /\ IF \E e \in found : ~Parses(e.kind)
       THEN Ends("malformed")
       ELSE /\ taken' = {e \in found : Says(e.kind, "ADB_BROKER_LOG")}
            /\ result' = "ok" /\ phase' = "done"
            /\ UNCHANGED found
    /\ UNCHANGED <<journal, todo, opening, opened, denied, reading, promised, disturbed>>

-----------------------------------------------------------------------------
Journald ==
    \/ Extend \/ Link \/ Count \/ Rename \/ CreateNew \/ InitHeader
    \/ \E k \in Kind : Write(k)

Reader ==
    \/ Stat \/ HeaderRefused \/ HeaderRead \/ NothingOpened \/ BeginWalk
    \/ ChainEnds \/ ChainCorrupt \/ ReadArray
    \/ EntrySkipped \/ EntryMatches \/ EntryFails \/ FileEnds \/ Take

Next == Glob \/ Reader \/ Journald

Spec == Init /\ [][Next]_vars

\* The reader is a command that is run to its end; journald owes it nothing.
FairSpec == Spec /\ WF_vars(Reader)

-----------------------------------------------------------------------------
(* The same entries on a pipe: journalctl -o json decompresses what it      *)
(* prints, and verify applies the filter itself.                            *)

\* An entry as it is printed.
Unpacked(k) ==
    [k EXCEPT !.values = [f \in Field |-> [i \in 1..Len(k.values[f]) |-> [says |-> k.values[f][i].says, packed |-> FALSE]]]]

\* The scanner, decodeAnchorLine and matchesAnchorFilter.  None of the six fields may
\* have two values, whether the match is decided on it or not.
PipeVerdict(k) ==
    IF k.long THEN "too_long"
    ELSE IF TwoValues(Unpacked(k), Deciding \cup Payload) THEN "ambiguous"
    ELSE IF \E f \in Deciding : ~Says(Unpacked(k), f) THEN "skip"
    ELSE "match"

\* What becomes evidence about this log.
PipeTakes(k) == PipeVerdict(k) = "match" /\ Parses(Unpacked(k)) /\ Says(Unpacked(k), "ADB_BROKER_LOG")

\* An anchor of this log, in whatever form journald stored it.
OwnAnchor(k) ==
    /\ ~TwoValues(Unpacked(k), Deciding)
    /\ \A f \in Deciding \cup {"ADB_BROKER_LOG"} : Says(Unpacked(k), f)

-----------------------------------------------------------------------------
TypeOK ==
    /\ files \in [File -> FileType]
    /\ dir \in [{"system", "live", "archive"} -> File \cup {None}]
    /\ access \in [File -> {"readable", "denied", "foreign", "newborn", "absent"}]
    /\ journald \in {"idle", "written", "linked", "renamed", "created"}
    /\ published \in 0..MaxEntries
    /\ phase \in {"idle", "stat", "header", "walk", "match", "take", "done"}
    /\ todo \in Seq({"system", "live", "archive"})
    /\ opening \in [file : File, size : Nat]
    /\ opened \in Seq([file : File, end : Nat, limit : Nat, first : Nat])
    /\ phase \in {"walk", "match"} => opened # <<>> /\ Len(offsets) <= This.limit
    /\ denied \in BOOLEAN /\ disturbed \in BOOLEAN
    /\ array \in Nat /\ visited \subseteq Nat /\ offsets \in Seq(Nat \ {0})
    /\ found \subseteq EntryType /\ taken \subseteq found /\ promised \subseteq EntryType
    /\ result \in Outcomes /\ (result = "none" <=> phase # "done")

\* Reading the files is no relaxation of the trust filter: what is taken a pipe takes
\* too, or refuses as loudly as it can, and never passes over.  It refuses a line that
\* is too long, a second value in a field of the payload, where the files keep the
\* first, and one in a field of the filter, where the files do not see what is
\* compressed (readFields and decidesMatch, against decodeAnchorLine).
NoRelaxation ==
    \A e \in taken :
        \/ PipeTakes(e.kind)
        \/ e.kind.long
        \/ TwoValues(Unpacked(e.kind), Payload)
        \/ \E f \in Deciding : TwoValues(Unpacked(e.kind), {f}) /\ SomePacked(e.kind, {f})

\* Nothing is lost while journald appends: every anchor of this log that a header
\* counted when reading began is taken (entryOffsets, readObject's bounds), unless
\* its log path cannot be read or the files were rotated while they were opened.
CountedAnchorsTaken ==
    result = "ok" /\ ~disturbed =>
        \A e \in promised : OwnAnchor(e.kind) /\ Says(e.kind, "ADB_BROKER_LOG") => e \in taken

\* journald's own doings are no error: a file it appends to, links into and
\* extends reads without one (readObject's errTruncated).  Corruption is an odd
\* file or an object no reader takes; a format not understood, one that is foreign
\* or has no header yet; and only a rotation leaves nothing to open.
ErrorsHaveACause ==
    /\ result = "corrupt" =>
          \/ access["s"] = "readable" /\ ~Intact(files["s"])
          \/ \E f \in File : \E o \in OffsetsOf(files[f].objs, "data") : files[f].objs[o].kind.huge
    /\ result = "unsupported" => access["s"] = "foreign" \/ files["s"].extent = 0 \/ dir["archive"] = "a"
    /\ result = "unreadable" => dir["archive"] = "a"
    /\ result = "permission" => dir["archive"] = "a" /\ access["s"] = "denied"

\* What cannot be read is never passed over for nothing there: no file in a
\* foreign format, and no anchor whose path of the executable is compressed
\* (Open, matchEntry).
UnreadableIsLoud ==
    result = "ok" =>
        /\ access["s"] # "foreign"
        /\ ~disturbed => ~\E e \in promised : OwnAnchor(e.kind) /\ ReadableAt(e.kind, "_EXE") = {}

\* The reader comes to an end in a file of any shape, one whose chain bites its
\* tail included (entryOffsets: visited), and however fast journald appends.
ReaderEnds == phase # "idle" ~> phase = "done"
=============================================================================
