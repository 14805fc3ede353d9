------------------------------- MODULE AdbWalk -------------------------------
(***************************************************************************)
(* The walk of a listing (stores/adbsyncdb/walk.go): one LIS2 exchange per *)
(* directory, one LST2 before each descent, and one second look at the     *)
(* volume root, over a tree that changes while it is walked.                *)
(*                                                                         *)
(* A file is a node and a path is the sequence of nodes that leads to it:  *)
(* a directory that holds one of its own ancestors (a bind mount does) has *)
(* paths without end, and only the depth bound ends a walk of it.  A step  *)
(* of the walk is one exchange, or one entry of a listing; the phone moves *)
(* between any two.                                                         *)
(***************************************************************************)
EXTENDS Naturals, Sequences, FiniteSets

CONSTANTS
    Node,           \* files and directories of the phone
    Root,           \* the listing root
    Contents,       \* what each node holds while it is a directory
    FirstKind,      \* what each node is to begin with
    Unnameable,     \* nodes whose names AuthorizedPath.Child refuses
    MaxWalkDepth,   \* maxWalkDepth
    RequestDepth,   \* the values of --max-depth; 0 is no limit
    MaxChanges      \* bound: changes of the phone's files

\* "special" is a symlink, a socket, a FIFO or a device.
Kinds    == {"dir", "file", "special"}
Errnos   == {"ENOENT", "EACCES", "EIO"}
Statuses == Kinds \cup Errnos
Results  == {"none", "ok", "permission_denied", "root_not_found", "not_a_directory",
             "volume_unresolved", "device_disconnected", "internal", "caller"}

ASSUME RootIsNode == Root \in Node
ASSUME TreeTypes ==
    /\ Contents \in [Node -> SUBSET Node]
    /\ FirstKind \in [Node -> Statuses]
    /\ Unnameable \subseteq Node \ {Root}
ASSUME DepthsAreNat == MaxWalkDepth \in Nat \ {0} /\ RequestDepth \subseteq Nat /\ MaxChanges \in Nat

VARIABLES
    maxDepth,       \* the depth asked for
    frames,         \* the calls of walkDir: the path of each, and the children still to descend
    unread,         \* the entries of the last one that LIS2 has not sent yet
    step,           \* "root", "open", "entries", "recheck", "next" or "done"
    sawOffPin,      \* an entry of the listing being read was off the pin
    rootRechecked,  \* the volume root has been looked at again
    emitted,        \* paths of the records the consumer has
    summary,        \* files and refused entries counted, errors recorded
    result,         \* how the listing ended
    status,         \* of each node: its kind, or the errno its stat answers
    elsewhere,      \* nodes on another file system than the storage volume
    mounted,        \* the storage volume is still the one that was pinned
    changes,        \* how often something changed
    touched,        \* nodes that changed since the root was looked at
    strayed         \* a node of a moved volume was met: "no", "unasked" or "asked" before

walk  == <<maxDepth, frames, unread, step, sawOffPin, rootRechecked>>
told  == <<emitted, summary, result>>
phone == <<status, elsewhere, mounted, changes, touched>>
vars  == <<walk, told, phone, strayed>>

-----------------------------------------------------------------------------
\* Volume.Contains of what a stat of the node answers.
OnPin(n) == mounted /\ n \notin elsewhere

Readable(n) == status[n] \in Kinds

Depth == Len(frames)
Top   == frames[Depth]

\* Mutants: one level too many, and no bound at all.
MayDescendOneMore == maxDepth = 0 \/ Depth <= maxDepth
NeverTooDeep      == FALSE

MayDescend == maxDepth = 0 \/ Depth < maxDepth
TooDeep    == Depth > MaxWalkDepth

\* codeForErrno of an entry or a child.
CodeOf(errno) ==
    CASE errno = "ENOENT" -> "path_not_found"
      [] errno = "EACCES" -> "permission_denied"
      [] OTHER            -> "transfer_failed"

Problem(path, code) == [path |-> path, code |-> code]

Recorded(p) == summary' = [summary EXCEPT !.errors = @ \cup {p}]
Refused     == summary' = [summary EXCEPT !.refused = @ + 1]

\* Mutant: the problem is filed under the directory's own parent.
BadNameOfParent == Problem(SubSeq(Top.path, 1, Depth - 1), "path_denied")

\* childOf: a name that cannot be joined is a problem of its directory.
BadName == Problem(Top.path, "path_denied")

-----------------------------------------------------------------------------
Init ==
    /\ maxDepth \in RequestDepth
    /\ frames = <<>>
    /\ unread = {}
    /\ step = "root"
    /\ sawOffPin = FALSE /\ rootRechecked = FALSE
    /\ emitted = {}
    /\ summary = [files |-> 0, refused |-> 0, errors |-> {}]
    /\ result = "none"
    /\ status = FirstKind
    /\ elsewhere = {} /\ mounted = TRUE
    /\ changes = 0 /\ touched = {}
    /\ strayed = "no"

\* The listing is over, with an error object.
Aborts(code) ==
    /\ result' = code
    /\ step' = "done"
    /\ UNCHANGED <<maxDepth, frames, unread, sawOffPin, emitted, summary, phone>>

\* A node is found off the pin for no other reason than that the volume moved.
Strays(n) ==
    strayed' = IF strayed = "no" /\ n \notin elsewhere
               THEN IF rootRechecked THEN "asked" ELSE "unasked"
               ELSE strayed

-----------------------------------------------------------------------------
(* walkRoot.                                                                *)

RootFailure ==
    IF status[Root] = "EACCES" THEN "permission_denied"
    ELSE IF status[Root] \in Errnos THEN "root_not_found"
    ELSE IF status[Root] # "dir" THEN "not_a_directory"
    ELSE IF ~OnPin(Root) THEN "volume_unresolved"
    ELSE "none"

Call(path) == [path |-> path, children |-> <<>>]

WalkRoot ==
    /\ step = "root"
    /\ IF RootFailure # "none"
       THEN Aborts(RootFailure)
       ELSE /\ frames' = <<Call(<<Root>>)>>
            /\ step' = "open"
            /\ UNCHANGED <<maxDepth, unread, sawOffPin, told, phone>>
    /\ UNCHANGED <<rootRechecked, strayed>>

-----------------------------------------------------------------------------
(* walkDir.                                                                 *)

\* Too deep: the directory is recorded, and the walk is back in its parent.
StopAtDepth ==
    /\ step = "open"
    /\ TooDeep
    /\ Recorded(Problem(Top.path, "path_denied"))
    /\ frames' = SubSeq(frames, 1, Depth - 1)
    /\ step' = "next"
    /\ UNCHANGED <<maxDepth, unread, sawOffPin, rootRechecked, emitted, result, phone, strayed>>

\* LIS2 is sent.  adbd lists what the directory holds now, and nothing if it has
\* become something else since its LST2.
OpenDir ==
    /\ step = "open"
    /\ ~TooDeep
    /\ LET n == Top.path[Depth]
       IN  unread' = IF status[n] = "dir" THEN Contents[n] ELSE {}
    /\ sawOffPin' = FALSE
    /\ step' = "entries"
    /\ UNCHANGED <<maxDepth, frames, rootRechecked, told, phone, strayed>>

\* classify, for the entry n that adbd sends next.
Entry(n) ==
    /\ step = "entries"
    /\ n \in unread
    /\ unread' = unread \ {n}
    /\ UNCHANGED <<maxDepth, step, rootRechecked, result, phone>>

\* childOf refuses the name of an entry that needs one.
EntryBadName(n) ==
    /\ Entry(n)
    /\ n \in Unnameable
    /\ ~Readable(n) \/ (OnPin(n) /\ (status[n] = "file" \/ (status[n] = "dir" /\ MayDescend)))
    /\ Recorded(BadName)
    /\ UNCHANGED <<frames, sawOffPin, emitted, strayed>>

\* It carries an errno, and nothing else.
EntryUnreadable(n) ==
    /\ Entry(n)
    /\ ~Readable(n) /\ n \notin Unnameable
    /\ Recorded(Problem(Append(Top.path, n), CodeOf(status[n])))
    /\ UNCHANGED <<frames, sawOffPin, emitted, strayed>>

\* adbd never saw the name: the file was gone before its directory was read.
EntryGone(n) ==
    /\ Entry(n)
    /\ status[n] = "ENOENT"
    /\ UNCHANGED <<frames, sawOffPin, emitted, summary, strayed>>

EntryOffPin(n) ==
    /\ Entry(n)
    /\ Readable(n)
    /\ ~OnPin(n)
    /\ Refused
    /\ sawOffPin' = TRUE
    /\ Strays(n)
    /\ UNCHANGED <<frames, emitted>>

\* A directory is one more child to descend into, if the walk goes deeper.
EntryDir(n) ==
    /\ Entry(n)
    /\ status[n] = "dir" /\ OnPin(n)
    /\ MayDescend => n \notin Unnameable
    /\ frames' = IF MayDescend THEN [frames EXCEPT ![Depth].children = Append(@, n)] ELSE frames
    /\ UNCHANGED <<sawOffPin, emitted, summary, strayed>>

Emits(n) == status[n] = "file" /\ n \notin Unnameable /\ OnPin(n)

\* emit: a regular file goes to the consumer at once.
EntryFile(n) ==
    /\ Entry(n)
    /\ Emits(n)
    /\ emitted' = emitted \cup {Append(Top.path, n)}
    /\ summary' = [summary EXCEPT !.files = @ + 1]
    /\ UNCHANGED <<frames, sawOffPin, strayed>>

EntrySpecial(n) ==
    /\ Entry(n)
    /\ status[n] = "special" /\ OnPin(n)
    /\ Refused
    /\ UNCHANGED <<frames, sawOffPin, emitted, strayed>>

\* LIS2 is at its end; the volume is asked about if an entry was off the pin.
ListingEnds ==
    /\ step = "entries"
    /\ unread = {}
    /\ step' = IF sawOffPin THEN "recheck" ELSE "next"
    /\ UNCHANGED <<maxDepth, frames, unread, sawOffPin, rootRechecked, told, phone, strayed>>

\* Mutant: a volume that has moved is looked at and passed over.
PinHoldsAlways == TRUE

\* recheckRoot has nothing against the walk going on: it has asked before, or the
\* volume root is where it was.
PinHolds == rootRechecked \/ mounted

\* recheckRoot: the volume is asked once in a walk.
RecheckRoot ==
    /\ step = "recheck"
    /\ rootRechecked' = TRUE
    /\ IF PinHolds
       THEN step' = "next" /\ UNCHANGED <<maxDepth, frames, unread, sawOffPin, told, phone>>
       ELSE Aborts("volume_unresolved")
    /\ UNCHANGED strayed

-----------------------------------------------------------------------------
(* descend, and the return from walkDir.                                    *)

\* Mutant: a child that cannot be read is waited for.
ChildAwaited(n) ==
    /\ step = "next"
    /\ Top.children # <<>>
    /\ n = Head(Top.children) /\ Readable(n)

\* The LST2 of the next child.
Child(n) ==
    /\ step = "next"
    /\ Top.children # <<>>
    /\ n = Head(Top.children)

\* Mutant: what is wrong with a child ends the walk of its siblings.
NoOthers == [frames EXCEPT ![Depth].children = <<>>]

\* The calls once this child is out of the way.
Others == [frames EXCEPT ![Depth].children = Tail(@)]

\* It is not descended into.
Skip(n) ==
    /\ Child(n)
    /\ frames' = Others
    /\ UNCHANGED <<maxDepth, unread, sawOffPin, rootRechecked, emitted, result, phone>>

\* A child that cannot be read now is recorded and stepped over.
ChildUnreadable(n) ==
    /\ Skip(n)
    /\ ~Readable(n)
    /\ Recorded(Problem(Append(Top.path, n), CodeOf(status[n])))
    /\ UNCHANGED <<step, strayed>>

ChildOffPin(n) ==
    /\ Skip(n)
    /\ Readable(n) /\ ~OnPin(n)
    /\ Refused
    /\ Strays(n)
    /\ step' = "recheck"

ChildNoDirectory(n) ==
    /\ Skip(n)
    /\ Readable(n) /\ status[n] # "dir" /\ OnPin(n)
    /\ Refused
    /\ UNCHANGED <<step, strayed>>

Descend(n) ==
    /\ Child(n)
    /\ status[n] = "dir" /\ OnPin(n)
    /\ frames' = Append(Others, Call(Append(Top.path, n)))
    /\ step' = "open"
    /\ UNCHANGED <<maxDepth, unread, sawOffPin, rootRechecked, told, phone, strayed>>

\* The directory is done; with the root, the listing is.
Return ==
    /\ step = "next"
    /\ Top.children = <<>>
    /\ frames' = SubSeq(frames, 1, Depth - 1)
    /\ IF Depth = 1 THEN step' = "done" /\ result' = "ok" ELSE UNCHANGED <<step, result>>
    /\ UNCHANGED <<maxDepth, unread, sawOffPin, rootRechecked, emitted, summary, phone, strayed>>

\* An exchange fails, walkDir is cancelled before one, or the consumer's callback
\* returns an error; the error's own code stands for itself or for a dead channel.
WalkFails ==
    /\ \/ step \in {"root", "entries"} /\ Aborts("device_disconnected")
       \/ step = "next" /\ Top.children # <<>> /\ Aborts("device_disconnected")
       \/ step = "open" /\ Aborts("internal")
       \/ step = "entries" /\ (\E n \in unread : Emits(n)) /\ Aborts("caller")
       \/ step = "recheck" /\ ~rootRechecked /\ Aborts("volume_unresolved")
    /\ rootRechecked' = (rootRechecked \/ step = "recheck")
    /\ UNCHANGED strayed

-----------------------------------------------------------------------------
(* The phone.                                                               *)

Change(nodes) ==
    /\ step # "done"
    /\ changes < MaxChanges
    /\ changes' = changes + 1
    /\ touched' = IF step = "root" THEN {} ELSE touched \cup nodes
    /\ UNCHANGED <<walk, told, strayed>>

\* A file is made something else, or unreadable, or readable again.
NodeChanges(n) ==
    /\ Change({n})
    /\ \E s \in Statuses \ {status[n]} : status' = [status EXCEPT ![n] = s]
    /\ UNCHANGED <<elsewhere, mounted>>

\* Another file system is mounted over it.
NodeMounted(n) ==
    /\ Change({n})
    /\ elsewhere' = elsewhere \cup {n}
    /\ UNCHANGED <<status, mounted>>

\* The storage volume is mounted anew, under another number.
Remount ==
    /\ Change(Node)
    /\ mounted /\ mounted' = FALSE
    /\ UNCHANGED <<status, elsewhere>>

-----------------------------------------------------------------------------
Walk ==
    \/ WalkRoot \/ StopAtDepth \/ OpenDir \/ ListingEnds \/ RecheckRoot \/ Return
    \/ \E n \in Node :
         \/ EntryBadName(n) \/ EntryUnreadable(n) \/ EntryGone(n) \/ EntryOffPin(n)
         \/ EntryDir(n) \/ EntryFile(n) \/ EntrySpecial(n)
         \/ ChildUnreadable(n) \/ ChildOffPin(n) \/ ChildNoDirectory(n) \/ Descend(n)

Next ==
    \/ Walk
    \/ WalkFails
    \/ \E n \in Node : NodeChanges(n) \/ NodeMounted(n)
    \/ Remount

Spec == Init /\ [][Next]_vars

\* Every exchange has a deadline; the phone and its files owe nothing.
FairSpec == Spec /\ WF_vars(Walk)

-----------------------------------------------------------------------------
(* What the walk is for, said of the tree and not of the way through it.    *)

\* The paths of the tree with k nodes.
Paths ==
    [k \in 1..MaxWalkDepth + 2 |->
        {p \in [1..k -> Node] : p[1] = Root /\ \A i \in 1..k - 1 : p[i + 1] \in Contents[p[i]]}]

\* The directories a listing asked for.
Asked ==
    UNION {{p \in Paths[k] : \A i \in 1..k : status[p[i]] = "dir" /\ p[i] \notin Unnameable /\ OnPin(p[i])}
             : k \in {j \in 1..MaxWalkDepth + 1 : maxDepth = 0 \/ j <= maxDepth}}

Listed == {p \in Asked : Len(p) <= MaxWalkDepth}

\* What they hold, and what becomes of it.
LastOf(e) == e[Len(e)]
DirOf(e)  == SubSeq(e, 1, Len(e) - 1)
Entries   == UNION {{Append(p, n) : n \in Contents[LastOf(p)]} : p \in Listed}

FilesIn(E) == {e \in E : Emits(LastOf(e))}

OmittedIn(E) ==
    {e \in E : LET n == LastOf(e) IN Readable(n) /\ (~OnPin(n) \/ status[n] = "special")}

\* A directory behind the depth asked for needs no name.
NeedsName(e) ==
    LET n == LastOf(e)
    IN  \/ ~Readable(n)
        \/ OnPin(n) /\ status[n] = "file"
        \/ OnPin(n) /\ status[n] = "dir" /\ (maxDepth = 0 \/ Len(e) <= maxDepth)

ProblemsOf(e) ==
    LET n == LastOf(e)
    IN  {p \in {Problem(e, CodeOf(status[n]))} : n \notin Unnameable /\ ~Readable(n)}
        \cup {p \in {Problem(DirOf(e), "path_denied")} : n \in Unnameable /\ NeedsName(e)}

ProblemsIn(E) == UNION {ProblemsOf(e) : e \in E}

\* A directory that was not listed.
NotListed(P) == {Problem(p, "path_denied") : p \in P}

-----------------------------------------------------------------------------
TypeOK ==
    /\ maxDepth \in RequestDepth
    /\ \A k \in 1..Depth :
         /\ Len(frames[k].path) = k
         /\ frames[k].path \in Seq(Node) /\ frames[k].children \in Seq(Node)
    /\ unread \subseteq Node
    /\ step \in {"root", "open", "entries", "recheck", "next", "done"}
    /\ step \in {"open", "entries", "recheck", "next"} => frames # <<>>
    /\ sawOffPin \in BOOLEAN /\ rootRechecked \in BOOLEAN
    /\ \A p \in emitted : p \in Seq(Node)
    /\ \A p \in summary.errors : p.path \in Seq(Node) \ {<<>>}
    /\ summary.files \in Nat /\ summary.refused \in Nat
    /\ result \in Results /\ (result = "none" <=> step # "done")
    /\ status \in [Node -> Statuses]
    /\ elsewhere \subseteq Node /\ mounted \in BOOLEAN
    /\ changes \in 0..MaxChanges /\ touched \subseteq Node
    /\ strayed \in {"no", "unasked", "asked"}

\* A listing of a tree that kept still is that tree: its files are the records,
\* what it must not serve is counted, and everything else that is missing is in
\* the errors, under the path a consumer can act on (walkDir, classify, emit,
\* childOf).  A name adbd has no answer for may be missing altogether.
ListingIsTheTree ==
    result = "ok" /\ touched = {} /\ (\A n \in Node : status[n] # "ENOENT") =>
        /\ emitted = FilesIn(Entries)
        /\ summary.refused = Cardinality(OmittedIn(Entries))
        /\ summary.errors = ProblemsIn(Entries) \cup NotListed(Asked \ Listed)

\* Whatever else changes under the walk, a file that nothing happened to, in
\* directories that nothing happened to, is in a listing that ended well: no
\* failure on the way costs a sibling.  And no record is sent twice.
UntouchedFilesListed ==
    /\ result = "ok" => \A e \in FilesIn(Entries) :
                            (\A i \in 1..Len(e) : e[i] \notin touched) => e \in emitted
    /\ summary.files = Cardinality(emitted)

\* The first entry that is off the pin because the volume moved ends the listing,
\* unless the volume was asked about before it: recheckRoot asks once, and a
\* remount after that is no longer told from entries that really are elsewhere.
FirstMismatchAsks == result = "ok" => strayed # "unasked"

\* A tree without end is walked to maxWalkDepth and no further: no LIS2 is sent
\* below it and the stack of walkDir calls is bounded.
DepthBounded ==
    /\ Depth <= MaxWalkDepth + 1
    /\ step \in {"entries", "recheck"} => Depth <= MaxWalkDepth

\* Every listing ends, whatever the phone does to its files meanwhile.
WalkEnds == <>(step = "done")
=============================================================================
