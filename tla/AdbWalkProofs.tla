---------------------------- MODULE AdbWalkProofs -----------------------------
(* Theorems about AdbWalk, for every tree, every depth and any number of       *)
(* changes: the bound on the stack, the one question to the volume, and what a  *)
(* listing that ended well has to do with the tree.                             *)
EXTENDS AdbWalk, SequenceTheorems, FiniteSetTheorems, TLAPS

-----------------------------------------------------------------------------
(* The stack of walkDir calls.                                              *)

Frame == [path : Seq(Node), children : Seq(Node)]

FramesType == frames \in Seq(Frame)

\* A call that lists, asks or descends is above the bound, and one that has only
\* been made may be one below it.
StackInv ==
    /\ FramesType
    /\ Depth <= MaxWalkDepth + 1
    /\ step \in {"entries", "recheck", "next"} => Depth <= MaxWalkDepth
    /\ step \in {"open", "entries", "recheck", "next"} => Depth > 0

\* Replacing the children of the last call changes nothing else.
LEMMA ChildrenReplaced ==
    ASSUME FramesType, Depth > 0, NEW s \in Seq(Node)
    PROVE  LET new == [frames EXCEPT ![Depth].children = s]
           IN  new \in Seq(Frame) /\ Len(new) = Depth
<1> USE DEF FramesType, Depth
<1>1. Len(frames) \in 1..Len(frames) /\ frames[Len(frames)] \in Frame
  OBVIOUS
<1>2. [frames[Len(frames)] EXCEPT !.children = s] \in Frame
  BY <1>1 DEF Frame
<1>3. QED
  BY <1>1, <1>2

\* The last call returned.
LEMMA FrameDropped ==
    ASSUME FramesType, Depth > 0
    PROVE  /\ SubSeq(frames, 1, Depth - 1) \in Seq(Frame)
           /\ Len(SubSeq(frames, 1, Depth - 1)) = Depth - 1
<1>1. /\ Depth \in Nat /\ Depth - 1 \in Int /\ 1 \in Int
      /\ \A i \in 1 .. Depth - 1 : frames[i] \in Frame
  BY DEF FramesType, Depth
<1>2. /\ SubSeq(frames, 1, Depth - 1) \in Seq(Frame)
      /\ Len(SubSeq(frames, 1, Depth - 1)) = IF 1 <= Depth - 1 THEN Depth - 1 - 1 + 1 ELSE 0
  BY <1>1, SubSeqProperties
<1>3. QED
  BY <1>1, <1>2

\* The directory being read is a frame of the stack.
LEMMA TopFrame ==
    ASSUME FramesType, Depth > 0
    PROVE  Top \in Frame /\ Top.path \in Seq(Node) /\ Top.children \in Seq(Node)
<1>1. Top \in Frame
  BY DEF FramesType, Depth, Top
<1>2. QED
  BY <1>1 DEF Frame

\* A child out of the way, by whatever action.
LEMMA OthersKeepDepth ==
    ASSUME FramesType, Depth > 0, NEW n \in Node, Child(n)
    PROVE  Others \in Seq(Frame) /\ Len(Others) = Depth
<1>1. Tail(Top.children) \in Seq(Node)
  BY TopFrame DEF Child
<1>2. Others = [frames EXCEPT ![Depth].children = Tail(Top.children)]
  BY DEF Others, Top
<1>3. QED
  BY <1>1, <1>2, ChildrenReplaced

\* An entry goes to the children of the last call, or nowhere.
LEMMA EntryKeepsStack ==
    ASSUME StackInv, NEW n \in Node,
           EntryBadName(n) \/ EntryUnreadable(n) \/ EntryGone(n) \/ EntryOffPin(n)
             \/ EntryDir(n) \/ EntryFile(n) \/ EntrySpecial(n)
    PROVE  StackInv'
<1>1. step = "entries" /\ step' = step
  BY DEF EntryBadName, EntryUnreadable, EntryGone, EntryOffPin, EntryDir, EntryFile, EntrySpecial, Entry
<1>2. CASE UNCHANGED frames
  BY <1>1, <1>2 DEF StackInv, FramesType, Depth
<1>3. CASE frames' = [frames EXCEPT ![Depth].children = Append(@, n)]
  <2>1. Append(Top.children, n) \in Seq(Node)
    BY <1>1, TopFrame DEF StackInv
  <2>2. frames' = [frames EXCEPT ![Depth].children = Append(Top.children, n)]
    BY <1>3 DEF Top
  <2>3. frames' \in Seq(Frame) /\ Len(frames') = Depth
    BY <1>1, <2>1, <2>2, ChildrenReplaced DEF StackInv
  <2>4. QED
    BY <1>1, <2>3 DEF StackInv, FramesType, Depth
<1>4. QED
  BY <1>2, <1>3 DEF EntryBadName, EntryUnreadable, EntryGone, EntryOffPin, EntryDir, EntryFile, EntrySpecial

\* A child is skipped, or entered below the limit only.
LEMMA ChildKeepsStack ==
    ASSUME StackInv, NEW n \in Node,
           ChildUnreadable(n) \/ ChildOffPin(n) \/ ChildNoDirectory(n) \/ Descend(n)
    PROVE  StackInv'
<1>1. Child(n) /\ step = "next"
  BY DEF ChildUnreadable, ChildOffPin, ChildNoDirectory, Descend, Skip, Child
<1>2. Others \in Seq(Frame) /\ Len(Others) = Depth
  BY <1>1, OthersKeepDepth DEF StackInv
<1>3. CASE ChildUnreadable(n) \/ ChildOffPin(n) \/ ChildNoDirectory(n)
  <2>1. frames' = Others /\ step' \in {"next", "recheck"}
    BY <1>1, <1>3 DEF ChildUnreadable, ChildOffPin, ChildNoDirectory, Skip
  <2>2. QED
    BY <1>1, <1>2, <2>1 DEF StackInv, FramesType, Depth
<1>4. CASE Descend(n)
  <2>1. Call(Append(Top.path, n)) \in Frame
    <3>1. Append(Top.path, n) \in Seq(Node)
      BY <1>1, TopFrame DEF StackInv
    <3>2. QED
      BY <3>1 DEF Call, Frame
  <2>2. frames' = Append(Others, Call(Append(Top.path, n))) /\ step' = "open"
    BY <1>4 DEF Descend
  <2>3. frames' \in Seq(Frame) /\ Len(frames') = Depth + 1
    BY <1>2, <2>1, <2>2
  <2>4. QED
    BY <1>1, <2>2, <2>3, DepthsAreNat DEF StackInv, FramesType, Depth
<1>5. QED
  BY <1>3, <1>4

\* Every step of the walk keeps the stack below the limit.
LEMMA StackInvStep == StackInv /\ [Next]_vars => StackInv'
<1> SUFFICES ASSUME StackInv, [Next]_vars
             PROVE  StackInv'
  OBVIOUS
<1>1. CASE WalkRoot
  <2>1. CASE RootFailure # "none"
    BY <1>1, <2>1 DEF WalkRoot, Aborts, StackInv, FramesType, Depth
  <2>2. CASE RootFailure = "none"
    <3>1. <<Root>> \in Seq(Node) /\ Call(<<Root>>) \in Frame
      BY RootIsNode DEF Call, Frame
    <3>2. frames' = <<Call(<<Root>>)>> /\ step' = "open"
      BY <1>1, <2>2 DEF WalkRoot
    <3>3. frames' \in Seq(Frame) /\ Len(frames') = 1
      BY <3>1, <3>2
    <3>4. QED
      BY <3>2, <3>3, DepthsAreNat DEF StackInv, FramesType, Depth
  <2>3. QED
    BY <2>1, <2>2
<1>2. CASE StopAtDepth
  <2>1. Depth > 0 /\ frames' = SubSeq(frames, 1, Depth - 1) /\ step' = "next"
    BY <1>2 DEF StopAtDepth, StackInv
  <2>2. frames' \in Seq(Frame) /\ Len(frames') = Depth - 1 /\ Depth > MaxWalkDepth
    BY <1>2, <2>1, FrameDropped DEF StackInv, StopAtDepth, TooDeep
  <2>3. QED
    BY <2>1, <2>2, DepthsAreNat DEF StackInv, FramesType, Depth
<1>3. CASE OpenDir
  BY <1>3, DepthsAreNat DEF OpenDir, TooDeep, StackInv, FramesType, Depth
<1>4. CASE ListingEnds \/ RecheckRoot
  BY <1>4 DEF ListingEnds, RecheckRoot, Aborts, StackInv, FramesType, Depth
<1>5. CASE Return
  <2>1. Depth > 0 /\ frames' = SubSeq(frames, 1, Depth - 1)
    BY <1>5 DEF Return, StackInv
  <2>2. frames' \in Seq(Frame) /\ Len(frames') = Depth - 1
    BY <2>1, FrameDropped DEF StackInv
  <2>3. (step' = "done" /\ Depth = 1) \/ (step' = "next" /\ Depth # 1)
    BY <1>5 DEF Return
  <2>4. QED
    BY <1>5, <2>1, <2>2, <2>3, DepthsAreNat DEF Return, StackInv, FramesType, Depth
<1>6. CASE WalkFails
  BY <1>6 DEF WalkFails, Aborts, StackInv, FramesType, Depth
<1>7. CASE Remount \/ \E n \in Node : NodeChanges(n) \/ NodeMounted(n)
  BY <1>7 DEF Remount, NodeChanges, NodeMounted, Change, walk, StackInv, FramesType, Depth
<1>8. CASE UNCHANGED vars
  BY <1>8 DEF vars, walk, StackInv, FramesType, Depth
<1>9. QED
  BY <1>1, <1>2, <1>3, <1>4, <1>5, <1>6, <1>7, <1>8, EntryKeepsStack, ChildKeepsStack DEF Next, Walk

\* However deep the tree is, or if it has no end, no LIS2 is sent below
\* maxWalkDepth (walkDir).
THEOREM StackIsBounded == Spec => []DepthBounded
<1>1. Init => StackInv
  BY DepthsAreNat DEF Init, StackInv, FramesType, Depth
<1>2. StackInv => DepthBounded
  BY DEF StackInv, DepthBounded
<1>3. QED
  BY <1>1, <1>2, StackInvStep, PTL DEF Spec

-----------------------------------------------------------------------------
(* The question to the volume.                                              *)

\* Once a node of a moved volume was met, and nobody had asked: the listing has
\* been aborted, or nothing comes between here and the question.
QuestionInv ==
    /\ result = "ok" => step = "done"
    /\ strayed = "unasked" =>
        /\ ~mounted
        /\ \/ step = "done" /\ result # "ok"
           \/ step = "recheck" /\ ~rootRechecked
           \/ step = "entries" /\ sawOffPin /\ ~rootRechecked

\* Every step keeps the account of what the volume's root was asked.
LEMMA QuestionInvStep == QuestionInv /\ [Next]_vars => QuestionInv'
<1> SUFFICES ASSUME QuestionInv, [Next]_vars
             PROVE  QuestionInv'
  OBVIOUS
<1> USE DEF QuestionInv
<1>1. ASSUME NEW n \in Node, EntryOffPin(n)
      PROVE  QuestionInv'
  BY <1>1 DEF EntryOffPin, Entry, Strays, OnPin, phone
<1>2. ASSUME NEW n \in Node, ChildOffPin(n)
      PROVE  QuestionInv'
  BY <1>2 DEF ChildOffPin, Skip, Child, Strays, OnPin, phone
<1>3. ASSUME NEW n \in Node,
             EntryBadName(n) \/ EntryUnreadable(n) \/ EntryGone(n)
               \/ EntryDir(n) \/ EntryFile(n) \/ EntrySpecial(n)
      PROVE  QuestionInv'
  BY <1>3 DEF EntryBadName, EntryUnreadable, EntryGone, EntryDir, EntryFile, EntrySpecial, Entry, phone
<1>4. ASSUME NEW n \in Node, ChildUnreadable(n) \/ ChildNoDirectory(n) \/ Descend(n)
      PROVE  QuestionInv'
  BY <1>4 DEF ChildUnreadable, ChildNoDirectory, Descend, Skip, Child, phone, told
<1>5. CASE WalkRoot \/ StopAtDepth \/ OpenDir \/ ListingEnds \/ Return
  BY <1>5 DEF WalkRoot, StopAtDepth, OpenDir, ListingEnds, Return, Aborts, phone, told
<1>6. CASE RecheckRoot
  BY <1>6 DEF RecheckRoot, PinHolds, Aborts, phone, told
<1>7. CASE WalkFails
  BY <1>7 DEF WalkFails, Aborts, phone
<1>8. CASE Remount \/ \E n \in Node : NodeChanges(n) \/ NodeMounted(n)
  BY <1>8 DEF Remount, NodeChanges, NodeMounted, Change, walk, told
<1>9. CASE UNCHANGED vars
  BY <1>9 DEF vars, walk, told, phone
<1>10. QED
  BY <1>1, <1>2, <1>3, <1>4, <1>5, <1>6, <1>7, <1>8, <1>9 DEF Next, Walk

\* The first node found off the pin because the volume moved makes the walk ask,
\* and the answer ends it (recheckRoot).
THEOREM MovedVolumeIsNoticed == Spec => []FirstMismatchAsks
<1>1. Init => QuestionInv
  BY DEF Init, QuestionInv
<1>2. QuestionInv => FirstMismatchAsks
  BY DEF QuestionInv, FirstMismatchAsks
<1>3. QED
  BY <1>1, <1>2, QuestionInvStep, PTL DEF Spec

-----------------------------------------------------------------------------
(* The types.                                                                   *)

ProblemType == [path : Seq(Node) \ {<<>>}, code : {"path_denied", "path_not_found", "permission_denied", "transfer_failed"}]
SummaryType == [files : Nat, refused : Nat, errors : SUBSET ProblemType]

\* The k-th call is for a directory k names deep.
PathsFit(stack) == \A k \in 1..Len(stack) : Len(stack[k].path) = k

WalkTypes ==
    /\ maxDepth \in RequestDepth /\ unread \subseteq Node
    /\ step \in {"root", "open", "entries", "recheck", "next", "done"}
    /\ sawOffPin \in BOOLEAN /\ rootRechecked \in BOOLEAN
    /\ emitted \subseteq Seq(Node) /\ summary \in SummaryType
    /\ result \in Results /\ (result = "none" <=> step # "done")

PhoneTypes ==
    /\ status \in [Node -> Statuses]
    /\ elsewhere \subseteq Node /\ mounted \in BOOLEAN
    /\ changes \in 0..MaxChanges /\ touched \subseteq Node
    /\ strayed \in {"no", "unasked", "asked"}

TypesInv == StackInv /\ PathsFit(frames) /\ WalkTypes /\ PhoneTypes

\* The path of the directory being read is as long as the stack is deep.
LEMMA TopPath ==
    ASSUME FramesType, PathsFit(frames), Depth > 0
    PROVE  /\ Top.path \in Seq(Node) \ {<<>>} /\ Len(Top.path) = Depth
           /\ \A n \in Node : /\ Append(Top.path, n) \in Seq(Node) \ {<<>>}
                              /\ Len(Append(Top.path, n)) = Depth + 1
<1>1. PICK path \in Seq(Node) : path = Top.path
  BY TopFrame
<1>2. Depth \in 1..Len(frames)
  BY DEF FramesType, Depth
<1>3. Len(path) = Depth
  BY <1>1, <1>2 DEF PathsFit, Top
<1>4. path # <<>>
  BY <1>2, <1>3
<1>5. \A n \in Node : Append(path, n) \in Seq(Node) /\ Len(Append(path, n)) = Len(path) + 1
  BY AppendProperties
<1>6. \A n \in Node : Append(path, n) # <<>>
  BY <1>3, <1>2, <1>5
<1>7. QED
  BY <1>1, <1>3, <1>4, <1>5, <1>6

\* A stack of which only the children of the last call change.
LEMMA ChildrenKeepPaths ==
    ASSUME FramesType, PathsFit(frames), Depth > 0, NEW s
    PROVE  PathsFit([frames EXCEPT ![Depth].children = s])
<1> DEFINE new == [frames EXCEPT ![Depth].children = s]
<1>1. Len(new) = Len(frames) /\ \A k \in 1..Len(frames) : new[k].path = frames[k].path
  BY DEF FramesType, Depth, Frame
<1>2. QED
  BY <1>1 DEF PathsFit

\* A problem, recorded.
LEMMA RecordedKeeps ==
    ASSUME summary \in SummaryType, NEW p \in ProblemType, Recorded(p)
    PROVE  summary' \in SummaryType
  BY DEF Recorded, SummaryType

\* An entry refused, counted.
LEMMA RefusedKeeps ==
    ASSUME summary \in SummaryType, Refused
    PROVE  summary' \in SummaryType
  BY DEF Refused, SummaryType

\* Every step keeps the paths of the stack.
LEMMA PathsStep == TypesInv /\ [Next]_vars => PathsFit(frames')
<1> SUFFICES ASSUME TypesInv, [Next]_vars
             PROVE  PathsFit(frames')
  OBVIOUS
<1>0. StackInv /\ FramesType /\ PathsFit(frames)
  BY DEF TypesInv, StackInv
<1>1. CASE frames' = frames
  BY <1>0, <1>1
<1>2. CASE WalkRoot /\ frames' # frames
  <2>1. frames' = <<Call(<<Root>>)>>
    BY <1>2 DEF WalkRoot, Aborts
  <2>2. Len(frames') = 1 /\ frames'[1].path = <<Root>>
    BY <2>1 DEF Call
  <2>3. Len(<<Root>>) = 1
    OBVIOUS
  <2>4. QED
    BY <2>2, <2>3 DEF PathsFit
<1>3. CASE StopAtDepth \/ Return
  <2>1. Depth > 0 /\ frames' = SubSeq(frames, 1, Depth - 1)
    BY <1>0, <1>3 DEF StopAtDepth, Return, StackInv
  <2>2. PICK stack \in Seq(Frame) : stack = frames
    BY <1>0 DEF FramesType
  <2>3. PICK k \in Nat : k = Depth - 1 /\ Len(stack) = k + 1
    BY <2>1, <2>2 DEF Depth
  <2>4. Len(SubSeq(stack, 1, k)) = k /\ \A i \in 1..k : SubSeq(stack, 1, k)[i] = stack[i]
    BY <2>3
  <2>5. \A i \in 1..k : Len(stack[i].path) = i
    BY <1>0, <2>2, <2>3 DEF PathsFit
  <2>6. PathsFit(SubSeq(stack, 1, k))
    BY <2>4, <2>5 DEF PathsFit
  <2>7. QED
    BY <2>1, <2>2, <2>3, <2>6
<1>4. ASSUME NEW n \in Node, EntryDir(n), frames' # frames
      PROVE  PathsFit(frames')
  <2>1. Depth > 0 /\ frames' = [frames EXCEPT ![Depth].children = Append(@, n)]
    BY <1>0, <1>4 DEF EntryDir, Entry, StackInv
  <2>2. frames' = [frames EXCEPT ![Depth].children = Append(Top.children, n)]
    BY <2>1 DEF Top
  <2>3. QED
    BY <1>0, <2>1, <2>2, ChildrenKeepPaths
<1>5. ASSUME NEW n \in Node, Child(n)
      PROVE  PathsFit(Others)
  <2>1. Depth > 0
    BY <1>0, <1>5 DEF Child, StackInv
  <2>2. Others = [frames EXCEPT ![Depth].children = Tail(Top.children)]
    BY DEF Others, Top
  <2>3. QED
    BY <1>0, <2>1, <2>2, ChildrenKeepPaths
<1>6. ASSUME NEW n \in Node, ChildUnreadable(n) \/ ChildOffPin(n) \/ ChildNoDirectory(n)
      PROVE  PathsFit(frames')
  BY <1>5, <1>6 DEF ChildUnreadable, ChildOffPin, ChildNoDirectory, Skip
<1>7. ASSUME NEW n \in Node, Descend(n)
      PROVE  PathsFit(frames')
  <2>1. Child(n) /\ Depth > 0 /\ frames' = Append(Others, Call(Append(Top.path, n)))
    BY <1>0, <1>7 DEF Descend, Child, StackInv
  <2>2. PICK rest \in Seq(Frame) : rest = Others /\ Len(rest) = Depth
    BY <1>0, <2>1, OthersKeepDepth
  <2>3. PICK new : new = Call(Append(Top.path, n))
    OBVIOUS
  <2>4. Len(new.path) = Depth + 1
    BY <1>0, <2>1, <2>3, TopPath DEF Call
  <2>5. new \in Frame
    BY <1>0, <2>1, <2>3, TopPath DEF Call, Frame
  <2>6. Len(Append(rest, new)) = Depth + 1 /\ \A k \in 1..Depth + 1 : Append(rest, new)[k] = IF k = Depth + 1 THEN new ELSE rest[k]
    BY <2>2, <2>5, AppendProperties DEF Depth
  <2>7. PathsFit(rest)
    BY <1>5, <2>1, <2>2
  <2>8. PathsFit(Append(rest, new))
    BY <2>2, <2>4, <2>6, <2>7 DEF PathsFit
  <2>9. QED
    BY <2>1, <2>2, <2>3, <2>8
<1>8. CASE OpenDir \/ ListingEnds \/ RecheckRoot \/ WalkFails \/ Remount \/ UNCHANGED vars
  BY <1>1, <1>8 DEF OpenDir, ListingEnds, RecheckRoot, WalkFails, Aborts, Remount, Change, vars, walk
<1>9. ASSUME NEW n \in Node,
             EntryBadName(n) \/ EntryUnreadable(n) \/ EntryGone(n) \/ EntryOffPin(n)
               \/ EntryFile(n) \/ EntrySpecial(n) \/ NodeChanges(n) \/ NodeMounted(n)
      PROVE  PathsFit(frames')
  BY <1>1, <1>9 DEF EntryBadName, EntryUnreadable, EntryGone, EntryOffPin, EntryFile, EntrySpecial,
                    NodeChanges, NodeMounted, Change, walk
<1>10. QED
  BY <1>1, <1>2, <1>3, <1>4, <1>6, <1>7, <1>8, <1>9 DEF Next, Walk

\* Every step of the walk keeps the types of what it holds and has told.
LEMMA WalkTypesStep == TypesInv /\ [Next]_vars => WalkTypes'
<1> SUFFICES ASSUME TypesInv, [Next]_vars
             PROVE  WalkTypes'
  OBVIOUS
<1>0. /\ StackInv /\ FramesType /\ PathsFit(frames) /\ WalkTypes /\ PhoneTypes
      /\ summary \in SummaryType
  BY DEF TypesInv, StackInv, WalkTypes
<1>1. ASSUME Depth > 0
      PROVE  /\ Problem(Top.path, "path_denied") \in ProblemType /\ BadName \in ProblemType
             /\ \A n \in Node : /\ Append(Top.path, n) \in Seq(Node)
                                /\ Problem(Append(Top.path, n), CodeOf(status[n])) \in ProblemType
  BY <1>0, <1>1, TopPath DEF Problem, ProblemType, BadName, CodeOf
<1> USE DEF WalkTypes
<1>2. ASSUME NEW code \in Results \ {"none"}, Aborts(code), rootRechecked' \in BOOLEAN
      PROVE  WalkTypes'
  BY <1>0, <1>2 DEF Aborts
<1>3. CASE WalkRoot
  <2>1. RootFailure \in Results
    BY DEF RootFailure, Results
  <2>2. QED
    BY <1>0, <1>2, <1>3, <2>1 DEF WalkRoot, told
<1>4. CASE StopAtDepth
  <2>1. Depth > 0
    BY <1>0, <1>4 DEF StopAtDepth, StackInv
  <2>2. summary' \in SummaryType
    BY <1>0, <1>1, <1>4, <2>1, RecordedKeeps DEF StopAtDepth
  <2>3. QED
    BY <1>0, <1>4, <2>2 DEF StopAtDepth
<1>5. CASE OpenDir
  <2>1. Depth \in 1..Len(frames) /\ Top \in Frame /\ Len(Top.path) = Depth
    BY <1>0, <1>5, TopFrame, TopPath DEF OpenDir, StackInv, FramesType, Depth
  <2>2. Top.path[Depth] \in Node
    BY <2>1 DEF Frame
  <2>3. unread' \subseteq Node
    BY <1>5, <2>2, TreeTypes DEF OpenDir
  <2>4. QED
    BY <1>0, <1>5, <2>3 DEF OpenDir, told
<1>6. CASE ListingEnds \/ Return
  BY <1>0, <1>6 DEF ListingEnds, Return, Results, told
<1>7. CASE RecheckRoot
  <2>1. CASE PinHolds
    BY <1>0, <1>7, <2>1 DEF RecheckRoot, told
  <2>2. CASE ~PinHolds
    BY <1>0, <1>2, <1>7, <2>2 DEF RecheckRoot, Results
  <2>3. QED
    BY <2>1, <2>2
<1>8. CASE WalkFails
  <2>1. rootRechecked' \in BOOLEAN
    BY <1>0, <1>8 DEF WalkFails
  <2>2. \E code \in Results \ {"none"} : Aborts(code)
    BY <1>8 DEF WalkFails, Results
  <2>3. QED
    BY <1>2, <2>1, <2>2
<1>9. ASSUME NEW n \in Node,
             EntryBadName(n) \/ EntryUnreadable(n) \/ EntryGone(n) \/ EntryOffPin(n)
               \/ EntryDir(n) \/ EntryFile(n) \/ EntrySpecial(n)
      PROVE  WalkTypes'
  <2>1. Entry(n) /\ Depth > 0
    BY <1>0, <1>9 DEF EntryBadName, EntryUnreadable, EntryGone, EntryOffPin, EntryDir, EntryFile,
                      EntrySpecial, Entry, StackInv
  <2>2. unread' \subseteq Node /\ UNCHANGED <<maxDepth, step, rootRechecked, result>>
    BY <1>0, <2>1 DEF Entry
  <2>3. sawOffPin' \in BOOLEAN
    BY <1>0, <1>9 DEF EntryBadName, EntryUnreadable, EntryGone, EntryOffPin, EntryDir, EntryFile, EntrySpecial
  <2>4. emitted' \subseteq Seq(Node)
    <3>1. emitted' = emitted \/ emitted' = emitted \cup {Append(Top.path, n)}
      BY <1>9 DEF EntryBadName, EntryUnreadable, EntryGone, EntryOffPin, EntryDir, EntryFile, EntrySpecial
    <3>2. Append(Top.path, n) \in Seq(Node)
      BY <1>1, <2>1
    <3>3. QED
      BY <1>0, <3>1, <3>2
  <2>5. summary' \in SummaryType
    <3>1. CASE EntryBadName(n)
      BY <1>0, <1>1, <2>1, <3>1, RecordedKeeps DEF EntryBadName
    <3>2. CASE EntryUnreadable(n)
      BY <1>0, <1>1, <2>1, <3>2, RecordedKeeps DEF EntryUnreadable
    <3>3. CASE EntryOffPin(n) \/ EntrySpecial(n)
      BY <1>0, <3>3, RefusedKeeps DEF EntryOffPin, EntrySpecial
    <3>4. CASE EntryGone(n) \/ EntryDir(n)
      BY <1>0, <3>4 DEF EntryGone, EntryDir
    <3>5. CASE EntryFile(n)
      BY <1>0, <3>5 DEF EntryFile, SummaryType
    <3>6. QED
      BY <1>9, <3>1, <3>2, <3>3, <3>4, <3>5
  <2>6. QED
    BY <1>0, <2>2, <2>3, <2>4, <2>5
<1>10. ASSUME NEW n \in Node,
              ChildUnreadable(n) \/ ChildOffPin(n) \/ ChildNoDirectory(n) \/ Descend(n)
       PROVE  WalkTypes'
  <2>1. Depth > 0 /\ step = "next"
    BY <1>0, <1>10 DEF ChildUnreadable, ChildOffPin, ChildNoDirectory, Descend, Skip, Child, StackInv
  <2>2. summary' \in SummaryType
    <3>1. CASE ChildUnreadable(n)
      BY <1>0, <1>1, <2>1, <3>1, RecordedKeeps DEF ChildUnreadable
    <3>2. CASE ChildOffPin(n) \/ ChildNoDirectory(n)
      BY <1>0, <3>2, RefusedKeeps DEF ChildOffPin, ChildNoDirectory
    <3>3. CASE Descend(n)
      BY <1>0, <3>3 DEF Descend, told
    <3>4. QED
      BY <1>10, <3>1, <3>2, <3>3
  <2>3. QED
    BY <1>0, <1>10, <2>1, <2>2 DEF ChildUnreadable, ChildOffPin, ChildNoDirectory, Descend, Skip, told
<1>11. CASE Remount \/ UNCHANGED vars \/ \E n \in Node : NodeChanges(n) \/ NodeMounted(n)
  BY <1>0, <1>11 DEF Remount, NodeChanges, NodeMounted, Change, vars, walk, told
<1>12. QED
  BY <1>3, <1>4, <1>5, <1>6, <1>7, <1>8, <1>9, <1>10, <1>11 DEF Next, Walk

\* And every step, of the phone too, keeps the types of the phone.
LEMMA PhoneTypesStep == TypesInv /\ [Next]_vars => PhoneTypes'
<1> SUFFICES ASSUME TypesInv, [Next]_vars
             PROVE  PhoneTypes'
  OBVIOUS
<1> USE DEF TypesInv, PhoneTypes, phone
<1>1. CASE WalkRoot \/ StopAtDepth \/ OpenDir \/ ListingEnds \/ RecheckRoot \/ Return \/ WalkFails
  BY <1>1 DEF WalkRoot, StopAtDepth, OpenDir, ListingEnds, RecheckRoot, Return, WalkFails, Aborts
<1>2. ASSUME NEW n \in Node,
             EntryBadName(n) \/ EntryUnreadable(n) \/ EntryGone(n) \/ EntryOffPin(n)
               \/ EntryDir(n) \/ EntryFile(n) \/ EntrySpecial(n)
      PROVE  PhoneTypes'
  BY <1>2 DEF EntryBadName, EntryUnreadable, EntryGone, EntryOffPin, EntryDir, EntryFile, EntrySpecial,
              Entry, Strays
<1>3. ASSUME NEW n \in Node,
             ChildUnreadable(n) \/ ChildOffPin(n) \/ ChildNoDirectory(n) \/ Descend(n)
      PROVE  PhoneTypes'
  BY <1>3 DEF ChildUnreadable, ChildOffPin, ChildNoDirectory, Descend, Skip, Strays
<1>4. ASSUME NEW n \in Node, NodeChanges(n) \/ NodeMounted(n)
      PROVE  PhoneTypes'
  <2>1. changes' = changes + 1 /\ changes < MaxChanges /\ (touched' = {} \/ touched' = touched \cup {n})
        /\ UNCHANGED strayed
    BY <1>4 DEF NodeChanges, NodeMounted, Change
  <2>2. changes' \in 0..MaxChanges /\ touched' \subseteq Node
    BY <2>1, DepthsAreNat
  <2>3. CASE NodeChanges(n)
    BY <2>1, <2>2, <2>3 DEF NodeChanges
  <2>4. CASE NodeMounted(n)
    BY <2>1, <2>2, <2>4 DEF NodeMounted
  <2>5. QED
    BY <1>4, <2>3, <2>4
<1>5. CASE Remount
  <2>1. /\ changes' = changes + 1 /\ changes < MaxChanges
        /\ touched' = {} \/ touched' = touched \cup Node
        /\ mounted' = FALSE /\ UNCHANGED <<status, elsewhere, strayed>>
    BY <1>5 DEF Remount, Change
  <2>2. changes' \in 0..MaxChanges /\ touched' \subseteq Node
    BY <2>1, DepthsAreNat
  <2>3. QED
    BY <2>1, <2>2
<1>6. CASE UNCHANGED vars
  BY <1>6 DEF vars
<1>7. QED
  BY <1>1, <1>2, <1>3, <1>4, <1>5, <1>6 DEF Next, Walk

\* A walk that has not begun has the types of one.
LEMMA TypesInit == Init => TypesInv
<1>1. Init => StackInv /\ PathsFit(frames) /\ emitted = {} /\ summary \in SummaryType
  BY DepthsAreNat DEF Init, StackInv, FramesType, Depth, PathsFit, SummaryType
<1>2. Init => WalkTypes
  BY <1>1 DEF Init, WalkTypes, Results
<1>3. Init => PhoneTypes
  BY DepthsAreNat, TreeTypes DEF Init, PhoneTypes
<1>4. QED
  BY <1>1, <1>2, <1>3 DEF TypesInv

\* And every step keeps them.
LEMMA TypesStep == TypesInv /\ [Next]_vars => TypesInv'
<1>1. TypesInv /\ [Next]_vars => StackInv'
  BY StackInvStep DEF TypesInv
<1>2. QED
  BY <1>1, PathsStep, WalkTypesStep, PhoneTypesStep DEF TypesInv

\* Every variable of a walk keeps its type, and a directory on the stack is one
\* level below the one it was found in, in every tree (walkDir, descend).
THEOREM TypesAreKept == Spec => []TypeOK
<1>1. ASSUME TypesInv
      PROVE  TypeOK
  <2>1. /\ \A k \in 1..Depth : /\ Len(frames[k].path) = k
                               /\ frames[k].path \in Seq(Node) /\ frames[k].children \in Seq(Node)
        /\ step \in {"open", "entries", "recheck", "next"} => frames # <<>>
    <3>1. PICK stack \in Seq(Frame) : stack = frames
      BY <1>1 DEF TypesInv, StackInv, FramesType
    <3>2. \A k \in 1..Len(stack) : stack[k] \in Frame /\ Len(stack[k].path) = k
      BY <1>1, <3>1 DEF TypesInv, PathsFit
    <3>3. \A k \in 1..Len(stack) : stack[k].path \in Seq(Node) /\ stack[k].children \in Seq(Node)
      BY <3>2 DEF Frame
    <3>4. step \in {"open", "entries", "recheck", "next"} => Len(stack) > 0
      BY <1>1, <3>1 DEF TypesInv, StackInv, Depth
    <3>5. QED
      BY <3>1, <3>2, <3>3, <3>4, EmptySeq DEF Depth
  <2>2. /\ \A p \in emitted : p \in Seq(Node)
        /\ \A p \in summary.errors : p.path \in Seq(Node) \ {<<>>}
        /\ summary.files \in Nat /\ summary.refused \in Nat
    BY <1>1 DEF TypesInv, WalkTypes, SummaryType, ProblemType
  <2>3. QED
    BY <1>1, <2>1, <2>2 DEF TypesInv, WalkTypes, PhoneTypes, TypeOK
<1>2. QED
  BY <1>1, TypesInit, TypesStep, PTL DEF Spec

-----------------------------------------------------------------------------
(* What a walk has still to come to.                                            *)

Members(s)  == {s[i] : i \in 1..Len(s)}
Distinct(s) == \A i, j \in 1..Len(s) : s[i] = s[j] => i = j

\* The children the k-th call has still to descend into.
Kids(k) == Members(frames[k].children)

\* e lies behind the directory of the k-th call, in a member of S.
Passes(k, S, e) == Len(e) > k /\ (\A i \in 1..k : e[i] = frames[k].path[i]) /\ e[k + 1] \in S

\* One of the first d calls has still to descend to e.
Later(e, d) == \E k \in 1..d : Len(e) > k + 1 /\ Passes(k, Kids(k), e)

ToCome(e) ==
    \/ step = "root"
    \/ step = "open" /\ Passes(Depth, Node, e)
    \/ step = "entries" /\ Passes(Depth, unread, e)
    \/ Later(e, Depth)

FreshInv ==
    /\ step = "root" => frames = <<>> /\ emitted = {} /\ summary = [files |-> 0, refused |-> 0, errors |-> {}]
    /\ result = "ok" => frames = <<>>

\* A directory is called once, by the call above it, and no more a child of it.
NestedInv ==
    \A k \in 1..Depth : \A j \in 1..k :
        /\ \A i \in 1..j : frames[k].path[i] = frames[j].path[i]
        /\ j < k => frames[k].path[j + 1] \notin Kids(j)

ChildrenInv ==
    /\ \A k \in 1..Depth : Distinct(frames[k].children)
    /\ step = "open" => Top.children = <<>>
    /\ step = "entries" => Kids(Depth) \cap unread = {}

TreeInv == FreshInv /\ NestedInv /\ ChildrenInv

\* One more member.
LEMMA MembersAppend ==
    ASSUME NEW s \in Seq(Node), NEW n \in Node
    PROVE  /\ Members(Append(s, n)) = Members(s) \cup {n}
           /\ Distinct(s) /\ n \notin Members(s) => Distinct(Append(s, n))
<1>1. PICK m : m = Len(s) /\ m \in Nat
  BY LenProperties
<1>2. PICK t : t = Append(s, n)
  OBVIOUS
<1>3. Len(t) = m + 1 /\ \A i \in 1..m + 1 : t[i] = IF i = m + 1 THEN n ELSE s[i]
  BY <1>1, <1>2, AppendProperties
<1>4. Members(t) = Members(s) \cup {n}
  BY <1>1, <1>3 DEF Members
<1>5. Distinct(s) /\ n \notin Members(s) => Distinct(t)
  BY <1>1, <1>3 DEF Members, Distinct
<1>6. QED
  BY <1>2, <1>4, <1>5

\* One less.
LEMMA MembersTail ==
    ASSUME NEW s \in Seq(Node), s # <<>>
    PROVE  /\ Members(s) = {Head(s)} \cup Members(Tail(s))
           /\ Distinct(s) => Distinct(Tail(s)) /\ Head(s) \notin Members(Tail(s))
<1>1. PICK m : m = Len(s) /\ m \in Nat
  BY LenProperties
<1>2. PICK t, n : t = Tail(s) /\ n = Head(s)
  OBVIOUS
<1>3. m > 0 /\ n = s[1] /\ Len(t) = m - 1 /\ \A i \in 1..m - 1 : t[i] = s[i + 1]
  BY <1>1, <1>2, HeadTailProperties, EmptySeq
<1>4. Members(s) = {n} \cup Members(t)
  <2>1. ASSUME NEW i \in 1..m, i # 1
        PROVE  s[i] \in Members(t)
    <3>1. i - 1 \in 1..m - 1 /\ (i - 1) + 1 = i
      BY <1>1, <2>1
    <3>2. s[i] = t[i - 1]
      BY <1>3, <3>1
    <3>3. QED
      BY <1>3, <3>1, <3>2 DEF Members
  <2>2. ASSUME NEW i \in 1..m - 1
        PROVE  t[i] \in Members(s)
    BY <1>1, <1>3 DEF Members
  <2>3. n \in Members(s)
    BY <1>1, <1>3 DEF Members
  <2>4. QED
    BY <1>1, <1>3, <2>1, <2>2, <2>3 DEF Members
<1>5. Distinct(s) => Distinct(t) /\ n \notin Members(t)
  BY <1>1, <1>3 DEF Distinct, Members
<1>6. QED
  BY <1>2, <1>4, <1>5

\* Directories above that stay as they are have the same before them.
LEMMA LaterSame ==
    ASSUME NEW d \in Nat, \A k \in 1..d : frames'[k] = frames[k]
    PROVE  /\ \A e : Later(e, d)' <=> Later(e, d)
           /\ \A k \in 1..d : Kids(k)' = Kids(k)
BY DEF Later, Passes, Kids, Members

\* What the last of d calls has before it, and the others.
LEMMA LaterSplit ==
    ASSUME NEW d \in Nat, d > 0, NEW e
    PROVE  Later(e, d) <=> Later(e, d - 1) \/ (Len(e) > d + 1 /\ Passes(d, Kids(d), e))
<1>1. 1..d = (1..d - 1) \cup {d}
  OBVIOUS
<1>2. QED
  BY <1>1 DEF Later

\* Behind the directory being read there is nothing the calls above have left.
LEMMA NotLater ==
    ASSUME NestedInv, PathsFit(frames), FramesType, Depth > 0, NEW S, NEW e, Passes(Depth, S, e)
    PROVE  ~Later(e, Depth - 1)
<1>1. PICK d : d = Depth /\ d \in Nat /\ d > 0 /\ d = Len(frames)
  BY LenProperties DEF Depth, FramesType
<1>2. SUFFICES ASSUME NEW k \in 1..d - 1, Passes(k, Kids(k), e)
               PROVE  FALSE
  BY <1>1 DEF Later
<1>3. d \in 1..d /\ k \in 1..d /\ k < d /\ k + 1 \in 1..d
  BY <1>1
<1>4. frames[d].path[k + 1] \notin Kids(k)
  BY <1>1, <1>3 DEF NestedInv
<1>5. e[k + 1] = frames[d].path[k + 1]
  BY <1>1, <1>3 DEF Passes
<1>6. QED
  BY <1>2, <1>4, <1>5 DEF Passes

\* The last call with other children.
With(s) == [frames EXCEPT ![Depth].children = s]

\* It is the only one that changes, and its path does not.
LEMMA TopReplaced ==
    ASSUME FramesType, Depth > 0, NEW s \in Seq(Node), NEW new, new = With(s)
    PROVE  /\ new \in Seq(Frame) /\ Len(new) = Depth
           /\ \A k \in 1..Depth - 1 : new[k] = frames[k]
           /\ new[Depth].path = Top.path /\ new[Depth].children = s
<1>1. PICK stack, d : stack = frames /\ d = Depth /\ stack \in Seq(Frame) /\ d = Len(stack) /\ d \in Nat /\ d > 0
  BY LenProperties DEF FramesType, Depth
<1>2. d \in 1..Len(stack) /\ stack[d] \in Frame
  BY <1>1, ElementOfSeq
<1>3. Top = stack[d]
  BY <1>1 DEF Top
<1>4. PICK call : call = [stack[d] EXCEPT !.children = s]
  OBVIOUS
<1>5. call \in Frame /\ call.path = stack[d].path /\ call.children = s
  BY <1>2, <1>4 DEF Frame
<1>6. new = [stack EXCEPT ![d] = call]
  BY <1>1, <1>4 DEF With
<1>7. new \in Seq(Frame) /\ Len(new) = d /\ \A k \in 1..d : new[k] = IF k = d THEN call ELSE stack[k]
  BY <1>1, <1>2, <1>5, <1>6, ExceptSeq
<1>8. new[d] = call /\ \A k \in 1..d - 1 : new[k] = stack[k]
  BY <1>1, <1>7
<1>9. QED
  BY <1>1, <1>3, <1>5, <1>7, <1>8

\* An entry to descend into is one more child of the last call.
LEMMA EntryFrames ==
    ASSUME FramesType, Depth > 0, NEW n \in Node, EntryDir(n), MayDescend
    PROVE  /\ Depth' = Depth
           /\ \A k \in 1..Depth - 1 : frames'[k] = frames[k] /\ Kids(k)' = Kids(k)
           /\ \A k \in 1..Depth : frames'[k].path = frames[k].path
           /\ frames'[Depth].children = Append(Top.children, n)
           /\ Kids(Depth)' = Kids(Depth) \cup {n}
<1>1. PICK d : d = Depth /\ d \in Nat /\ d > 0
  BY LenProperties DEF Depth, FramesType
<1>2. PICK s : s = Append(Top.children, n) /\ s \in Seq(Node) /\ Members(s) = Members(Top.children) \cup {n}
  BY TopFrame, AppendProperties, MembersAppend
<1>3. PICK new : new = frames'
  OBVIOUS
<1>4. new = With(s)
  BY <1>2, <1>3 DEF EntryDir, Top, With
<1>5. /\ Len(new) = Depth
      /\ \A k \in 1..Depth - 1 : new[k] = frames[k]
      /\ new[Depth].path = Top.path /\ new[Depth].children = s
  <2>1. s \in Seq(Node)
    BY <1>2
  <2>2. QED
    BY <1>4, <2>1, TopReplaced
<1>6. \A k \in 1..d : new[k].path = frames[k].path
  <2>1. \A k \in 1..d : k = d \/ k \in 1..d - 1
    BY <1>1
  <2>2. new[d].path = frames[d].path /\ \A k \in 1..d - 1 : new[k].path = frames[k].path
    BY <1>1, <1>5 DEF Top
  <2>3. QED
    BY <2>1, <2>2
<1>7. Kids(Depth) = Members(Top.children)
  BY DEF Kids, Top
<1>8. Depth' = d
  BY <1>1, <1>3, <1>5 DEF Depth
<1>9. Kids(d)' = Members(s)
  BY <1>1, <1>3, <1>5 DEF Kids
<1>10. \A k \in 1..d - 1 : Kids(k)' = Kids(k)
  BY <1>1, <1>3, <1>5 DEF Kids
<1>11. Kids(Depth)' = Kids(d)'
  BY <1>1, <1>8
<1>12. QED
  BY <1>1, <1>2, <1>3, <1>5, <1>6, <1>7, <1>8, <1>9, <1>10, <1>11

\* A child that is looked at is a child no more.
LEMMA OthersFrames ==
    ASSUME FramesType, Depth > 0, NEW n \in Node, Child(n), NEW new, new = Others
    PROVE  /\ new \in Seq(Frame) /\ Len(new) = Depth
           /\ \A k \in 1..Depth - 1 : new[k] = frames[k]
           /\ \A k \in 1..Depth : new[k].path = frames[k].path
           /\ new[Depth].children = Tail(Top.children)
           /\ Kids(Depth) = {n} \cup Members(new[Depth].children)
           /\ Distinct(Top.children) => Distinct(new[Depth].children) /\ n \notin Members(new[Depth].children)
<1>1. PICK d : d = Depth /\ d \in Nat /\ d > 0
  BY LenProperties DEF Depth, FramesType
<1>2. Top.children \in Seq(Node) /\ Top.children # <<>> /\ n = Head(Top.children) /\ Tail(Top.children) \in Seq(Node)
  BY TopFrame, HeadTailProperties DEF Child
<1>3. new = With(Tail(Top.children))
  BY DEF Others, Top, With
<1>4. /\ new \in Seq(Frame) /\ Len(new) = Depth
      /\ \A k \in 1..Depth - 1 : new[k] = frames[k]
      /\ new[Depth].path = Top.path /\ new[Depth].children = Tail(Top.children)
  BY <1>2, <1>3, TopReplaced
<1>5. \A k \in 1..d : new[k].path = frames[k].path
  BY <1>1, <1>4 DEF Top
<1>6. Kids(Depth) = Members(Top.children)
  BY DEF Kids, Top
<1>7. QED
  BY <1>1, <1>2, <1>4, <1>5, <1>6, MembersTail

\* The child is on the stack now, without children.
LEMMA DescendFrames ==
    ASSUME FramesType, PathsFit(frames), Depth > 0, NEW n \in Node, Descend(n)
    PROVE  /\ Depth' = Depth + 1
           /\ \A k \in 1..Depth - 1 : frames'[k] = frames[k]
           /\ \A k \in 1..Depth : frames'[k].path = frames[k].path
           /\ \A k \in 1..Depth - 1 : Kids(k)' = Kids(k)
           /\ frames'[Depth].children = Tail(Top.children)
           /\ frames'[Depth + 1].path = Append(Top.path, n) /\ frames'[Depth + 1].children = <<>>
<1>1. PICK d : d = Depth /\ d \in Nat /\ d > 0
  BY LenProperties DEF Depth, FramesType
<1>2. PICK rest, new : rest = Others /\ new = frames'
  OBVIOUS
<1>3. Child(n)
  BY DEF Descend, Child
<1>4. /\ rest \in Seq(Frame) /\ Len(rest) = d
      /\ \A k \in 1..d - 1 : rest[k] = frames[k]
      /\ \A k \in 1..d : rest[k].path = frames[k].path
      /\ rest[d].children = Tail(Top.children)
  BY <1>1, <1>2, <1>3, OthersFrames
<1>5. PICK call : /\ call \in Frame /\ call = Call(Append(Top.path, n))
                  /\ call.path = Append(Top.path, n) /\ call.children = <<>>
  <2>1. PICK path \in Seq(Node) : path = Append(Top.path, n)
    BY TopPath
  <2>2. Call(path) \in Frame /\ Call(path).path = path /\ Call(path).children = <<>>
    BY DEF Call, Frame
  <2>3. QED
    BY <2>1, <2>2
<1>6. new = Append(rest, call)
  BY <1>2, <1>5 DEF Descend
<1>7. Len(new) = d + 1 /\ \A k \in 1..d + 1 : new[k] = IF k = d + 1 THEN call ELSE rest[k]
  BY <1>4, <1>6, AppendProperties
<1>8. /\ \A k \in 1..d : new[k] = rest[k]
      /\ new[d + 1] = call /\ new[d].children = Tail(Top.children)
  <2>1. d \in 1..d /\ d + 1 \in 1..d + 1 /\ \A k \in 1..d : k \in 1..d + 1 /\ k # d + 1
    BY <1>1
  <2>2. QED
    BY <1>4, <1>7, <2>1
<1>9. \A k \in 1..d - 1 : new[k] = frames[k] /\ Kids(k)' = Kids(k)
  <2>1. ASSUME NEW k \in 1..d - 1
        PROVE  new[k] = frames[k]
    BY <1>1, <1>4, <1>8
  <2>2. QED
    BY <1>2, <2>1 DEF Kids
<1>10. Depth' = d + 1
  BY <1>2, <1>7 DEF Depth
<1>11. QED
  BY <1>1, <1>2, <1>4, <1>5, <1>8, <1>9, <1>10

\* A call that returns leaves the others.
LEMMA DropFrames ==
    ASSUME FramesType, Depth > 0, frames' = SubSeq(frames, 1, Depth - 1)
    PROVE  /\ Depth' = Depth - 1
           /\ \A k \in 1..Depth - 1 : frames'[k] = frames[k] /\ Kids(k)' = Kids(k)
           /\ Depth = 1 => frames' = <<>>
<1>1. PICK stack, d : stack \in Seq(Frame) /\ stack = frames /\ d = Len(stack) /\ d = Depth /\ d \in Nat /\ d > 0
  BY LenProperties DEF FramesType, Depth
<1>2. PICK new : new = frames' /\ new = SubSeq(stack, 1, d - 1)
  BY <1>1
<1>3. new \in Seq(Frame) /\ Len(new) = d - 1
  BY <1>1, <1>2, FrameDropped
<1>4. \A k \in 1..d - 1 : new[k] = stack[k]
  BY <1>1, <1>2
<1>5. \A k \in 1..d - 1 : Kids(k)' = Kids(k)
  BY <1>1, <1>2, <1>4 DEF Kids
<1>6. d = 1 => new = <<>>
  BY <1>3, EmptySeq
<1>7. Depth' = d - 1
  BY <1>2, <1>3 DEF Depth
<1>8. QED
  BY <1>1, <1>2, <1>4, <1>5, <1>6, <1>7

\* Calls that return, and children that come and go at the top, leave the paths
\* as they were.
LEMMA NestedSame ==
    ASSUME FramesType, NestedInv, NEW d \in Nat, d <= Depth, Depth' = d,
           \A k \in 1..d : frames'[k].path = frames[k].path,
           \A k \in 1..d - 1 : Kids(k)' = Kids(k)
    PROVE  NestedInv'
<1>1. PICK new : new = frames'
  OBVIOUS
<1>2. SUFFICES ASSUME NEW k \in 1..d, NEW j \in 1..k
               PROVE  /\ \A i \in 1..j : new[k].path[i] = new[j].path[i]
                      /\ j < k => new[k].path[j + 1] \notin Kids(j)'
  BY <1>1 DEF NestedInv
<1>3. j \in 1..d /\ k \in 1..Depth /\ (j < k => j \in 1..d - 1)
  BY LenProperties DEF FramesType, Depth
<1>4. new[k].path = frames[k].path /\ new[j].path = frames[j].path
  BY <1>1, <1>3
<1>5. /\ \A i \in 1..j : frames[k].path[i] = frames[j].path[i]
      /\ j < k => frames[k].path[j + 1] \notin Kids(j)
  BY <1>3 DEF NestedInv
<1>6. j < k => Kids(j)' = Kids(j)
  BY <1>3
<1>7. QED
  BY <1>4, <1>5, <1>6

\* A step that leaves the stack alone leaves the tree alone.
LEMMA TreeSame ==
    ASSUME TypesInv, TreeInv, frames' = frames,
           step' = "root" => step = "root" /\ UNCHANGED told,
           result' = "ok" => result = "ok",
           step' = "open" => step = "open",
           step' = "entries" => (step = "entries" /\ unread' \subseteq unread) \/ step = "open"
    PROVE  TreeInv'
<1>1. FramesType /\ NestedInv /\ ChildrenInv /\ FreshInv
  BY DEF TypesInv, StackInv, TreeInv
<1>2. PICK d : d = Depth /\ d \in Nat /\ d = Depth'
  BY <1>1, LenProperties DEF Depth, FramesType
<1>3. \A k \in 1..d : frames'[k].path = frames[k].path /\ Kids(k)' = Kids(k)
  BY DEF Kids
<1>4. NestedInv'
  <2>1. d \in Nat
    BY <1>2
  <2>2. \A k \in 1..d - 1 : k \in 1..d
    BY <2>1
  <2>3. QED
    BY <1>1, <1>2, <1>3, <2>2, NestedSame
<1>5. FreshInv'
  BY <1>1 DEF FreshInv, told
<1>6. ChildrenInv'
  <2>1. \A k \in 1..Depth' : Distinct(frames[k].children)
    BY <1>1, <1>2 DEF ChildrenInv
  <2>2. Top' = Top
    BY <1>2 DEF Top
  <2>3. step' = "open" => Top'.children = <<>>
    BY <1>1, <2>2 DEF ChildrenInv
  <2>4. Kids(Depth)' = Kids(Depth)
    BY <1>2 DEF Kids
  <2>5. step = "open" => Kids(Depth) = {}
    BY <1>1 DEF ChildrenInv, Kids, Top, Members
  <2>6. step' = "entries" => Kids(Depth) \cap unread' = {}
    BY <1>1, <2>5 DEF ChildrenInv
  <2>7. QED
    BY <2>1, <2>3, <2>4, <2>6 DEF ChildrenInv
<1>7. QED
  BY <1>4, <1>5, <1>6 DEF TreeInv

\* The entries of a listing.
LEMMA TreeEntry ==
    ASSUME TypesInv, TreeInv, NEW n \in Node,
           EntryBadName(n) \/ EntryUnreadable(n) \/ EntryGone(n) \/ EntryOffPin(n)
             \/ EntryDir(n) \/ EntryFile(n) \/ EntrySpecial(n)
    PROVE  TreeInv'
<1>1. step = "entries" /\ step' = "entries" /\ n \in unread /\ unread' = unread \ {n} /\ result' = result
  BY DEF EntryBadName, EntryUnreadable, EntryGone, EntryOffPin, EntryDir, EntryFile, EntrySpecial, Entry
<1>2. CASE frames' = frames
  BY <1>1, <1>2, TreeSame
<1>3. CASE EntryDir(n) /\ MayDescend
  <2>1. FramesType /\ NestedInv /\ ChildrenInv /\ FreshInv /\ Depth > 0
    BY <1>1 DEF TypesInv, StackInv, TreeInv
  <2>2. PICK d : d = Depth /\ d \in Nat /\ d > 0
    BY <2>1, LenProperties DEF Depth, FramesType
  <2>3. /\ Depth' = d
        /\ \A k \in 1..d - 1 : frames'[k] = frames[k] /\ Kids(k)' = Kids(k)
        /\ \A k \in 1..d : frames'[k].path = frames[k].path
        /\ frames'[d].children = Append(Top.children, n)
        /\ Kids(Depth)' = Kids(Depth) \cup {n}
    BY <1>3, <2>1, <2>2, EntryFrames
  <2>4. NestedInv'
    BY <2>1, <2>2, <2>3, NestedSame
  <2>5. FreshInv'
    BY <1>1, <2>1 DEF FreshInv, TypesInv, WalkTypes
  <2>6. Kids(Depth) \cap unread = {}
    BY <1>1, <2>1 DEF ChildrenInv
  <2>7. Distinct(Append(Top.children, n))
    <3>1. Top.children \in Seq(Node)
      BY <2>1, TopFrame
    <3>2. Distinct(Top.children)
      BY <2>1, <2>2 DEF ChildrenInv, Top
    <3>3. n \notin Members(Top.children)
      BY <1>1, <2>6 DEF Kids, Top
    <3>4. QED
      BY <3>1, <3>2, <3>3, MembersAppend
  <2>8. \A k \in 1..Depth' : Distinct(frames'[k].children)
    <3>1. ASSUME NEW k \in 1..d
          PROVE  Distinct(frames'[k].children)
      <4>1. CASE k = d
        BY <2>3, <2>7, <4>1
      <4>2. CASE k # d
        <5>1. k \in 1..d - 1 /\ k \in 1..Depth
          BY <2>2, <4>2
        <5>2. frames'[k] = frames[k]
          BY <2>3, <5>1
        <5>3. QED
          BY <2>1, <5>1, <5>2 DEF ChildrenInv
      <4>3. QED
        BY <4>1, <4>2
    <3>2. QED
      BY <2>3, <3>1
  <2>9. Kids(Depth)' \cap unread' = {}
    BY <1>1, <2>3, <2>6
  <2>10. QED
    BY <1>1, <2>4, <2>5, <2>8, <2>9 DEF TreeInv, ChildrenInv
<1>4. QED
  BY <1>2, <1>3 DEF EntryBadName, EntryUnreadable, EntryGone, EntryOffPin, EntryDir, EntryFile, EntrySpecial

\* The children of a directory.
LEMMA TreeChild ==
    ASSUME TypesInv, TreeInv, NEW n \in Node,
           ChildUnreadable(n) \/ ChildOffPin(n) \/ ChildNoDirectory(n) \/ Descend(n)
    PROVE  TreeInv'
<1>1. step = "next" /\ Child(n) /\ step' \in {"next", "recheck", "open"} /\ result' = result
  BY DEF ChildUnreadable, ChildOffPin, ChildNoDirectory, Descend, Skip, Child, told
<1>2. FramesType /\ PathsFit(frames) /\ NestedInv /\ ChildrenInv /\ FreshInv /\ Depth > 0
  BY <1>1 DEF TypesInv, StackInv, TreeInv
<1>3. PICK d : d = Depth /\ d \in Nat /\ d > 0
  BY <1>2, LenProperties DEF Depth, FramesType
<1>4. PICK rest : rest = Others
  OBVIOUS
<1>5. /\ Len(rest) = d
      /\ \A k \in 1..d - 1 : rest[k] = frames[k]
      /\ \A k \in 1..d : rest[k].path = frames[k].path
      /\ rest[d].children = Tail(Top.children)
      /\ Kids(Depth) = {n} \cup Members(rest[d].children)
      /\ Distinct(Top.children) => Distinct(rest[d].children) /\ n \notin Members(rest[d].children)
  BY <1>1, <1>2, <1>3, <1>4, OthersFrames
<1>6. Distinct(Top.children)
  BY <1>2, <1>3 DEF ChildrenInv, Top
<1>7. \A k \in 1..d : Distinct(rest[k].children)
  <2>1. ASSUME NEW k \in 1..d, k # d
        PROVE  Distinct(rest[k].children)
    <3>1. k \in 1..d - 1 /\ k \in 1..Depth
      BY <1>3, <2>1
    <3>2. rest[k] = frames[k]
      BY <1>5, <3>1
    <3>3. QED
      BY <1>2, <3>1, <3>2 DEF ChildrenInv
  <2>2. QED
    BY <1>5, <1>6, <2>1
<1>8. FreshInv'
  BY <1>1, <1>2 DEF FreshInv, TypesInv, WalkTypes
<1>9. CASE frames' = Others
  <2>1. Depth' = d /\ \A k \in 1..d : frames'[k] = rest[k]
    BY <1>4, <1>5, <1>9 DEF Depth
  <2>2. \A k \in 1..d - 1 : Kids(k)' = Kids(k)
    BY <1>4, <1>5, <1>9 DEF Kids
  <2>3. \A k \in 1..d : frames'[k].path = frames[k].path
    BY <1>5, <2>1
  <2>4. NestedInv'
    BY <1>2, <1>3, <2>1, <2>2, <2>3, NestedSame
  <2>5. \A k \in 1..Depth' : Distinct(frames'[k].children)
    BY <1>7, <2>1
  <2>6. step' \in {"next", "recheck"}
    BY <1>1, <1>9, <1>5, <1>4 DEF ChildUnreadable, ChildOffPin, ChildNoDirectory, Descend, Skip, Child
  <2>7. QED
    BY <1>8, <2>4, <2>5, <2>6 DEF TreeInv, ChildrenInv
<1>10. CASE Descend(n)
  <2>1. /\ Depth' = d + 1
        /\ \A k \in 1..d - 1 : frames'[k] = frames[k]
        /\ \A k \in 1..d : frames'[k].path = frames[k].path
        /\ \A k \in 1..d - 1 : Kids(k)' = Kids(k)
        /\ frames'[d].children = Tail(Top.children)
        /\ frames'[d + 1].path = Append(Top.path, n) /\ frames'[d + 1].children = <<>>
    BY <1>2, <1>3, <1>10, DescendFrames
  <2>2. PICK new, path : new = frames' /\ path = Top.path /\ path = frames[d].path
    BY <1>3 DEF Top
  <2>3. path \in Seq(Node) /\ Len(path) = d
    BY <1>2, <1>3, <2>2, TopPath
  <2>4. \A i \in 1..d + 1 : Append(path, n)[i] = IF i = d + 1 THEN n ELSE path[i]
    BY <2>3, AppendProperties
  <2>5. n \notin Kids(d)'
    <3>1. Kids(d)' = Members(new[d].children)
      BY <2>2 DEF Kids
    <3>2. new[d].children = rest[d].children
      BY <1>5, <2>1, <2>2
    <3>3. QED
      BY <1>5, <1>6, <3>1, <3>2
  <2>6. NestedInv'
    <3>1. SUFFICES ASSUME NEW k \in 1..d + 1, NEW j \in 1..k
                   PROVE  /\ \A i \in 1..j : new[k].path[i] = new[j].path[i]
                          /\ j < k => new[k].path[j + 1] \notin Kids(j)'
      BY <2>1, <2>2 DEF NestedInv
    <3>2. CASE k \in 1..d
      <4>1. j \in 1..d /\ k \in 1..Depth /\ (j < k => j \in 1..d - 1)
        BY <1>3, <3>2
      <4>2. new[k].path = frames[k].path /\ new[j].path = frames[j].path
        BY <2>1, <2>2, <3>2, <4>1
      <4>3. /\ \A i \in 1..j : frames[k].path[i] = frames[j].path[i]
            /\ j < k => frames[k].path[j + 1] \notin Kids(j)
        BY <1>2, <4>1 DEF NestedInv
      <4>4. j < k => Kids(j)' = Kids(j)
        BY <2>1, <4>1
      <4>5. QED
        BY <4>2, <4>3, <4>4
    <3>3. CASE k = d + 1
      <4>1. new[k].path = Append(path, n)
        BY <2>1, <2>2, <3>3
      <4>2. CASE j = k
        BY <4>2
      <4>3. CASE j = d
        <5>1. new[j].path = path
          BY <1>3, <2>1, <2>2, <4>3
        <5>2. \A i \in 1..d : i \in 1..d + 1 /\ i # d + 1
          BY <1>3
        <5>3. new[k].path[j + 1] = n
          <6>1. d + 1 \in 1..d + 1 /\ j + 1 = d + 1
            BY <1>3, <4>3
          <6>2. QED
            BY <2>4, <4>1, <6>1
        <5>4. Kids(j)' = Kids(d)'
          BY <4>3
        <5>5. QED
          BY <2>4, <2>5, <4>1, <4>3, <5>1, <5>2, <5>3, <5>4
      <4>4. CASE j \in 1..d - 1
        <5>1. new[j].path = frames[j].path
          BY <1>3, <2>1, <2>2, <4>4
        <5>2. j < d /\ d \in 1..Depth /\ j \in 1..d
          BY <1>3, <4>4
        <5>3. /\ \A i \in 1..j : path[i] = frames[j].path[i]
              /\ path[j + 1] \notin Kids(j)
          BY <1>2, <2>2, <5>2 DEF NestedInv
        <5>4. \A i \in 1..j + 1 : i \in 1..d + 1 /\ i # d + 1
          BY <1>3, <4>4
        <5>5. \A i \in 1..j + 1 : new[k].path[i] = path[i]
          BY <2>4, <4>1, <5>4
        <5>6. j + 1 \in 1..j + 1 /\ \A i \in 1..j : i \in 1..j + 1
          BY <4>4
        <5>7. Kids(j)' = Kids(j)
          BY <2>1, <4>4
        <5>8. QED
          BY <5>1, <5>3, <5>5, <5>6, <5>7
      <4>5. QED
        BY <1>3, <3>3, <4>2, <4>3, <4>4
    <3>4. QED
      BY <1>3, <3>2, <3>3
  <2>7. \A k \in 1..Depth' : Distinct(frames'[k].children)
    <3>1. ASSUME NEW k \in 1..d + 1
          PROVE  Distinct(frames'[k].children)
      <4>1. CASE k = d + 1
        BY <2>1, <4>1 DEF Distinct
      <4>2. CASE k = d
        BY <1>5, <1>6, <2>1, <4>2
      <4>3. CASE k \in 1..d - 1
        <5>1. frames'[k] = rest[k] /\ k \in 1..d
          BY <1>3, <1>5, <2>1, <4>3
        <5>2. QED
          BY <1>7, <5>1
      <4>4. QED
        BY <1>3, <4>1, <4>2, <4>3
    <3>2. QED
      BY <2>1, <3>1
  <2>8. step' = "open" /\ Top'.children = <<>>
    <3>1. Top' = new[d + 1]
      BY <2>1, <2>2 DEF Top
    <3>2. QED
      BY <1>10, <2>1, <2>2, <3>1 DEF Descend
  <2>9. QED
    BY <1>8, <2>6, <2>7, <2>8 DEF TreeInv, ChildrenInv
<1>11. QED
  BY <1>9, <1>10 DEF ChildUnreadable, ChildOffPin, ChildNoDirectory, Skip

\* Every step keeps the directories on the stack apart.
LEMMA TreeStep == TypesInv /\ TreeInv /\ [Next]_vars => TreeInv'
<1> SUFFICES ASSUME TypesInv, TreeInv, [Next]_vars
             PROVE  TreeInv'
  OBVIOUS
<1>0. /\ StackInv /\ FramesType /\ PathsFit(frames) /\ NestedInv /\ ChildrenInv /\ FreshInv
      /\ (result = "none" <=> step # "done")
  BY DEF TypesInv, StackInv, TreeInv, WalkTypes
<1>1. CASE WalkRoot
  <2>1. CASE RootFailure # "none"
    BY <1>1, <2>1, TreeSame DEF WalkRoot, Aborts, RootFailure
  <2>2. CASE RootFailure = "none"
    <3>1. frames' = <<Call(<<Root>>)>> /\ step' = "open" /\ result' = result /\ step = "root"
      BY <1>1, <2>2 DEF WalkRoot, told
    <3>2. Depth' = 1 /\ frames'[1].children = <<>> /\ Top'.children = <<>>
      BY <3>1 DEF Depth, Top, Call
    <3>3. NestedInv'
      BY <3>2 DEF NestedInv
    <3>4. \A k \in 1..Depth' : Distinct(frames'[k].children)
      BY <3>2 DEF Distinct
    <3>5. QED
      BY <1>0, <3>1, <3>2, <3>3, <3>4 DEF TreeInv, ChildrenInv, FreshInv
  <2>3. QED
    BY <2>1, <2>2
<1>2. CASE StopAtDepth \/ Return
  <2>1. Depth > 0 /\ frames' = SubSeq(frames, 1, Depth - 1)
    BY <1>0, <1>2 DEF StopAtDepth, Return, StackInv
  <2>2. PICK d : d = Depth /\ d \in Nat /\ d > 0
    BY <1>0, <2>1, LenProperties DEF Depth, FramesType
  <2>3. PICK c : c = d - 1 /\ c \in Nat /\ c <= d
    BY <2>2
  <2>4. Depth' = c /\ (\A k \in 1..c : frames'[k] = frames[k] /\ Kids(k)' = Kids(k)) /\ (d = 1 => frames' = <<>>)
    BY <1>0, <2>1, <2>2, <2>3, DropFrames
  <2>5. NestedInv'
    <3>1. \A k \in 1..c - 1 : k \in 1..c
      BY <2>3
    <3>2. QED
      BY <1>0, <2>2, <2>3, <2>4, <3>1, NestedSame
  <2>6. \A k \in 1..Depth' : Distinct(frames'[k].children)
    <3>1. \A k \in 1..c : k \in 1..Depth
      BY <2>2, <2>3
    <3>2. QED
      BY <1>0, <2>4, <3>1 DEF ChildrenInv
  <2>7. step' \in {"next", "done"} /\ (result' = "ok" => frames' = <<>> \/ frames = <<>>)
    BY <1>0, <1>2, <2>2, <2>4 DEF StopAtDepth, Return, FreshInv
  <2>8. frames # <<>>
    BY <2>1, <1>0, EmptySeq DEF Depth, FramesType
  <2>9. QED
    BY <2>5, <2>6, <2>7, <2>8 DEF TreeInv, ChildrenInv, FreshInv
<1>3. CASE OpenDir \/ ListingEnds \/ RecheckRoot \/ WalkFails
  BY <1>3, TreeSame DEF OpenDir, ListingEnds, RecheckRoot, WalkFails, Aborts, told
<1>4. CASE Remount \/ UNCHANGED vars \/ \E n \in Node : NodeChanges(n) \/ NodeMounted(n)
  BY <1>4, TreeSame DEF Remount, NodeChanges, NodeMounted, Change, vars, walk, told
<1>5. QED
  BY <1>1, <1>2, <1>3, <1>4, TreeEntry, TreeChild DEF Next, Walk

-----------------------------------------------------------------------------
\* What is to come, step by step.
LEMMA ToComeIs ==
    ASSUME NEW e
    PROVE  /\ step = "open" => (ToCome(e) <=> Passes(Depth, Node, e) \/ Later(e, Depth))
           /\ step = "entries" => (ToCome(e) <=> Passes(Depth, unread, e) \/ Later(e, Depth))
           /\ step \in {"recheck", "next", "done"} => (ToCome(e) <=> Later(e, Depth))
BY DEF ToCome

\* A stack to walk with.
LEMMA Ground ==
    ASSUME TypesInv, TreeInv, step \in {"open", "entries", "recheck", "next"}
    PROVE  /\ FramesType /\ PathsFit(frames) /\ NestedInv /\ ChildrenInv
           /\ Depth \in Nat /\ Depth > 0
BY LenProperties DEF TypesInv, TreeInv, StackInv, FramesType, Depth

\* A call without children has nothing left but what is open.
LEMMA NoChildren ==
    ASSUME Depth \in Nat, Depth > 0, Top.children = <<>>, NEW e
    PROVE  Later(e, Depth) <=> Later(e, Depth - 1)
<1>1. Kids(Depth) = {}
  BY DEF Kids, Top, Members
<1>2. ~Passes(Depth, Kids(Depth), e)
  BY <1>1 DEF Passes
<1>3. QED
  BY <1>2, LaterSplit

\* The walk begins: everything below the root is to come.
LEMMA RootComes ==
    ASSUME WalkRoot, RootFailure = "none", NEW e
    PROVE  ToCome(e)' <=> Len(e) > 1 /\ e[1] = Root /\ e[2] \in Node
<1>1. frames' = <<Call(<<Root>>)>> /\ step' = "open"
  BY DEF WalkRoot
<1>2. Depth' = 1 /\ frames'[1].children = <<>> /\ frames'[1].path = <<Root>>
  BY <1>1 DEF Depth, Call
<1>3. Passes(Depth, Node, e)' <=> Len(e) > 1 /\ e[1] = Root /\ e[2] \in Node
  BY <1>2 DEF Passes
<1>4. ~Later(e, Depth)'
  BY <1>2 DEF Later, Passes, Kids, Members
<1>5. QED
  BY <1>1, <1>3, <1>4 DEF ToCome

\* Steps that leave the stack alone leave what is before the calls.
LEMMA StackSame ==
    ASSUME frames' = frames
    PROVE  Depth' = Depth /\ \A e : /\ Later(e, Depth)' <=> Later(e, Depth)
                                    /\ \A S : Passes(Depth, S, e)' <=> Passes(Depth, S, e)
<1>1. Depth' = Depth
  BY DEF Depth
<1>2. \A k : Kids(k)' = Kids(k)
  BY DEF Kids
<1>3. \A k, S, e : Passes(k, S, e)' <=> Passes(k, S, e)
  BY DEF Passes
<1>4. QED
  BY <1>1, <1>2, <1>3 DEF Later

\* Steps that leave the stack and what is unread alone.
LEMMA SameComes ==
    ASSUME UNCHANGED <<frames, unread, step>>, NEW e
    PROVE  ToCome(e)' <=> ToCome(e)
<1>1. PICK U : U = unread
  OBVIOUS
<1>2. Passes(Depth, unread, e)' <=> Passes(Depth, unread, e)
  BY <1>1, StackSame DEF Passes
<1>3. QED
  BY <1>2, StackSame DEF ToCome

\* The end of a listing, or of the question to the volume.
LEMMA OnComes ==
    ASSUME UNCHANGED <<frames, unread>>, step' \in {"recheck", "next"}, NEW e,
           step \in {"recheck", "next"} \/ (step = "entries" /\ unread = {})
    PROVE  ToCome(e)' <=> ToCome(e)
<1>1. unread = {} => ~Passes(Depth, unread, e)
  BY DEF Passes
<1>2. QED
  BY <1>1, StackSame DEF ToCome

\* A listing that is given up.
LEMMA OverComes ==
    ASSUME UNCHANGED frames, step' = "done", NEW e, ToCome(e)'
    PROVE  ToCome(e)
BY StackSame DEF ToCome

\* Too deep, and everything behind with it.
LEMMA StopComes ==
    ASSUME TypesInv, TreeInv, StopAtDepth, NEW e
    PROVE  ToCome(e)' <=> ToCome(e) /\ ~Passes(Depth, Node, e)
<1>1. step = "open" /\ step' = "next" /\ frames' = SubSeq(frames, 1, Depth - 1)
  BY DEF StopAtDepth
<1>2. FramesType /\ PathsFit(frames) /\ NestedInv /\ Depth \in Nat /\ Depth > 0 /\ Top.children = <<>>
  BY <1>1, Ground DEF ChildrenInv
<1>3. PICK c : c = Depth - 1 /\ c \in Nat
  BY <1>2
<1>4. Depth' = c /\ \A k \in 1..c : frames'[k] = frames[k]
  BY <1>1, <1>2, <1>3, DropFrames
<1>5. ToCome(e)' <=> Later(e, c)
  <2>1. Later(e, c)' <=> Later(e, c)
    BY <1>3, <1>4, LaterSame
  <2>2. ToCome(e)' <=> Later(e, c)'
    BY <1>1, <1>4 DEF ToCome
  <2>3. QED
    BY <2>1, <2>2
<1>6. ToCome(e) <=> Passes(Depth, Node, e) \/ Later(e, c)
  BY <1>1, <1>2, <1>3, ToComeIs, NoChildren
<1>7. Passes(Depth, Node, e) => ~Later(e, c)
  BY <1>2, <1>3, NotLater
<1>8. QED
  BY <1>5, <1>6, <1>7

\* The directory is done, and nothing was left of it.
LEMMA ReturnComes ==
    ASSUME TypesInv, TreeInv, Return, NEW e
    PROVE  ToCome(e)' <=> ToCome(e)
<1>1. step = "next" /\ step' \in {"next", "done"} /\ frames' = SubSeq(frames, 1, Depth - 1) /\ Top.children = <<>>
  BY DEF Return
<1>2. FramesType /\ Depth \in Nat /\ Depth > 0
  BY <1>1, Ground
<1>3. PICK c : c = Depth - 1 /\ c \in Nat
  BY <1>2
<1>4. Depth' = c /\ \A k \in 1..c : frames'[k] = frames[k]
  BY <1>1, <1>2, <1>3, DropFrames
<1>5. Later(e, c)' <=> Later(e, c)
  BY <1>3, <1>4, LaterSame
<1>6. ToCome(e)' <=> Later(e, c)'
  BY <1>1, <1>4 DEF ToCome
<1>7. ToCome(e) <=> Later(e, c)
  BY <1>1, <1>2, <1>3, ToComeIs, NoChildren
<1>8. QED
  BY <1>5, <1>6, <1>7

\* A directory is opened: what it holds now is to come, and no more.
LEMMA OpenComes ==
    ASSUME TypesInv, TreeInv, OpenDir, NEW e
    PROVE  /\ ToCome(e)' => ToCome(e)
           /\ ToCome(e) /\ (Passes(Depth, Node, e) => e[Depth + 1] \in unread') => ToCome(e)'
<1>1. step = "open" /\ step' = "entries" /\ frames' = frames
  BY DEF OpenDir
<1>2. PICK d, S : d = Depth /\ d \in Nat /\ d > 0 /\ S = unread' /\ S \subseteq Node
  <2>1. Depth \in Nat /\ Depth > 0
    BY <1>1, Ground
  <2>2. WalkTypes'
    BY WalkTypesStep DEF Next, Walk
  <2>3. QED
    BY <2>1, <2>2 DEF WalkTypes
<1>3. Depth' = d /\ (Later(e, d)' <=> Later(e, d))
  BY <1>1, <1>2 DEF Depth, Later, Passes, Kids, Members
<1>4. ToCome(e)' <=> Passes(d, S, e) \/ Later(e, d)
  <2>1. Passes(Depth, unread, e)' <=> Passes(d, S, e)
    BY <1>1, <1>2, <1>3 DEF Passes
  <2>2. ToCome(e)' <=> Passes(Depth, unread, e)' \/ Later(e, d)'
    BY <1>1, <1>3 DEF ToCome
  <2>3. QED
    BY <1>3, <2>1, <2>2
<1>5. ToCome(e) <=> Passes(d, Node, e) \/ Later(e, d)
  BY <1>1, <1>2, ToComeIs
<1>6. Passes(d, S, e) <=> Passes(d, Node, e) /\ e[d + 1] \in S
  BY <1>2 DEF Passes
<1>7. QED
  BY <1>2, <1>4, <1>5, <1>6

\* One step of the chain of directories the calls are in: what is behind the last
\* one is behind no child left above it.
LEMMA OnlyBehindTop ==
    ASSUME TypesInv, TreeInv, step \in {"open", "entries", "recheck", "next"}, NEW S, NEW e, Passes(Depth, S, e)
    PROVE  Later(e, Depth) <=> Len(e) > Depth + 1 /\ Passes(Depth, Kids(Depth), e)
<1>1. /\ FramesType /\ PathsFit(frames) /\ NestedInv /\ Depth \in Nat /\ Depth > 0
  BY Ground
<1>2. ~Later(e, Depth - 1)
  BY <1>1, NotLater
<1>3. QED
  BY <1>1, <1>2, LaterSplit

\* An entry that is no directory to descend into has been dealt with.
LEMMA EntryComes ==
    ASSUME TypesInv, TreeInv, NEW n, Entry(n), frames' = frames, NEW e
    PROVE  ToCome(e)' <=> ToCome(e) /\ ~Passes(Depth, {n}, e)
<1>1. step = "entries" /\ step' = "entries" /\ n \in unread /\ unread' = unread \ {n}
  BY DEF Entry
<1>2. PICK d, S, T : d = Depth /\ d \in Nat /\ d > 0 /\ S = unread /\ T = unread'
  BY <1>1, Ground
<1>3. Depth' = d /\ (Later(e, d)' <=> Later(e, d))
  BY <1>2 DEF Depth, Later, Passes, Kids, Members
<1>4. ToCome(e)' <=> Passes(d, T, e) \/ Later(e, d)
  <2>1. Passes(Depth, unread, e)' <=> Passes(d, T, e)
    BY <1>1, <1>2, <1>3 DEF Passes
  <2>2. ToCome(e)' <=> Passes(Depth, unread, e)' \/ Later(e, d)'
    BY <1>1, <1>3 DEF ToCome
  <2>3. QED
    BY <1>3, <2>1, <2>2
<1>5. ToCome(e) <=> Passes(d, S, e) \/ Later(e, d)
  BY <1>1, <1>2, ToComeIs
<1>6. Passes(d, T, e) <=> Passes(d, S, e) /\ ~Passes(d, {n}, e)
  BY <1>1, <1>2 DEF Passes
<1>7. Passes(d, {n}, e) => ~Later(e, d)
  <2>1. SUFFICES ASSUME Passes(d, {n}, e)
                 PROVE  ~Later(e, d)
    OBVIOUS
  <2>2. Later(e, d) => Passes(d, Kids(Depth), e)
    BY <1>1, <1>2, <2>1, OnlyBehindTop
  <2>3. n \notin Kids(Depth)
    BY <1>1 DEF TreeInv, ChildrenInv
  <2>4. e[d + 1] = n
    BY <2>1 DEF Passes
  <2>5. QED
    BY <2>2, <2>3, <2>4 DEF Passes
<1>8. QED
  BY <1>2, <1>4, <1>5, <1>6, <1>7

\* A directory to descend into has been dealt with itself, and what it holds has
\* not.
LEMMA DirComes ==
    ASSUME TypesInv, TreeInv, NEW n \in Node, EntryDir(n), MayDescend, NEW e \in Seq(Node)
    PROVE  ToCome(e)' <=> ToCome(e) /\ ~(Passes(Depth, {n}, e) /\ Len(e) = Depth + 1)
<1>1. step = "entries" /\ step' = "entries" /\ n \in unread /\ unread' = unread \ {n}
  BY DEF EntryDir, Entry
<1>2. FramesType /\ PathsFit(frames) /\ NestedInv /\ ChildrenInv /\ Depth \in Nat /\ Depth > 0
  BY <1>1, Ground
<1>3. PICK d, S, T, K : d = Depth /\ d \in Nat /\ d > 0 /\ S = unread /\ T = unread' /\ K = Kids(Depth)
  BY <1>2
<1>4. /\ Depth' = d
      /\ \A k \in 1..d - 1 : frames'[k] = frames[k] /\ Kids(k)' = Kids(k)
      /\ \A k \in 1..d : frames'[k].path = frames[k].path
      /\ Kids(Depth)' = K \cup {n}
  BY <1>2, <1>3, EntryFrames
<1>5. PICK m : m = Len(e) /\ m \in Nat
  BY LenProperties
<1>6. \A X : Passes(d, X, e)' <=> Passes(d, X, e)
  <2>1. d \in 1..d
    BY <1>3
  <2>2. frames'[d].path = frames[d].path
    BY <1>4, <2>1
  <2>3. QED
    BY <2>2 DEF Passes
<1>7. Later(e, d - 1)' <=> Later(e, d - 1)
  <2>1. d - 1 \in Nat /\ \A k \in 1..d - 1 : frames'[k] = frames[k]
    BY <1>3, <1>4
  <2>2. QED
    BY <2>1, LaterSame
<1>8. Later(e, d)' <=> Later(e, d - 1) \/ (m > d + 1 /\ Passes(d, K \cup {n}, e))
  <2>1. 1..d = (1..d - 1) \cup {d}
    BY <1>3
  <2>2. Later(e, d)' <=> Later(e, d - 1)' \/ (m > d + 1 /\ Passes(d, Kids(d), e)')
    BY <1>5, <2>1 DEF Later
  <2>3. Passes(d, Kids(d), e)' <=> Passes(d, K \cup {n}, e)
    <3>1. Kids(d)' = K \cup {n}
      BY <1>4
    <3>2. d \in 1..d
      BY <1>3
    <3>3. frames'[d].path = frames[d].path
      BY <1>4, <3>2
    <3>4. QED
      BY <3>1, <3>3 DEF Passes
  <2>4. QED
    BY <1>7, <2>2, <2>3
<1>9. ToCome(e)' <=> Passes(d, T, e) \/ Later(e, d - 1) \/ (m > d + 1 /\ Passes(d, K \cup {n}, e))
  <2>1. Passes(Depth, unread, e)' <=> Passes(d, T, e)
    <3>1. Passes(Depth, unread, e)' <=> Passes(d, T, e)'
      BY <1>3, <1>4 DEF Passes
    <3>2. QED
      BY <1>6, <3>1
  <2>2. ToCome(e)' <=> Passes(Depth, unread, e)' \/ Later(e, d)'
    BY <1>1, <1>4 DEF ToCome
  <2>3. QED
    BY <1>8, <2>1, <2>2
<1>10. ToCome(e) <=> Passes(d, S, e) \/ Later(e, d - 1) \/ (m > d + 1 /\ Passes(d, K, e))
  BY <1>1, <1>3, <1>5, ToComeIs, LaterSplit
<1>11. Passes(d, {n}, e) => ~Later(e, d - 1)
  BY <1>2, <1>3, NotLater
<1>12. n \notin K
  BY <1>1, <1>2, <1>3 DEF ChildrenInv
<1>13. CASE e[d + 1] = n
  <2>1. /\ ~Passes(d, T, e) /\ ~Passes(d, K, e)
        /\ Passes(d, K \cup {n}, e) <=> Passes(d, {n}, e)
        /\ Passes(d, S, e) <=> Passes(d, {n}, e)
        /\ Passes(d, {n}, e) => m > d
    BY <1>1, <1>3, <1>5, <1>12, <1>13 DEF Passes
  <2>2. m = d + 1 \/ m > d + 1 \/ ~(m > d)
    BY <1>3, <1>5
  <2>3. ~(m = d + 1 /\ m > d + 1)
    BY <1>3, <1>5
  <2>4. QED
    BY <1>3, <1>5, <1>9, <1>10, <1>11, <2>1, <2>2, <2>3
<1>14. CASE e[d + 1] # n
  <2>1. /\ ~Passes(d, {n}, e)
        /\ Passes(d, T, e) <=> Passes(d, S, e)
        /\ Passes(d, K \cup {n}, e) <=> Passes(d, K, e)
    BY <1>1, <1>3, <1>14 DEF Passes
  <2>2. QED
    BY <1>3, <1>9, <1>10, <2>1
<1>15. QED
  BY <1>13, <1>14

\* A child passed over takes with it what it holds.
LEMMA SkipComes ==
    ASSUME TypesInv, TreeInv, NEW n \in Node, Skip(n), step' \in {"next", "recheck"}, NEW e
    PROVE  ToCome(e)' <=> ToCome(e) /\ ~Passes(Depth, {n}, e)
<1>1. step = "next" /\ Child(n) /\ frames' = Others
  BY DEF Skip, Child
<1>2. FramesType /\ PathsFit(frames) /\ NestedInv /\ ChildrenInv /\ Depth \in Nat /\ Depth > 0
  BY <1>1, Ground
<1>3. PICK d, K, new : d = Depth /\ d \in Nat /\ d > 0 /\ K = Kids(Depth) /\ new = Others
  BY <1>2
<1>4. PICK R : R = Members(new[d].children)
  OBVIOUS
<1>5. Distinct(Top.children)
  BY <1>2, <1>3 DEF ChildrenInv, Top
<1>6. /\ Len(new) = d
      /\ \A k \in 1..d - 1 : new[k] = frames[k]
      /\ \A k \in 1..d : new[k].path = frames[k].path
      /\ K = {n} \cup R /\ n \notin R
  BY <1>1, <1>2, <1>3, <1>4, <1>5, OthersFrames
<1>7. Depth' = d /\ new = frames'
  BY <1>1, <1>3, <1>6 DEF Depth
<1>8. Later(e, d - 1)' <=> Later(e, d - 1)
  <2>1. d - 1 \in Nat /\ \A k \in 1..d - 1 : frames'[k] = frames[k]
    BY <1>3, <1>6, <1>7
  <2>2. QED
    BY <2>1, LaterSame
<1>9. Later(e, d)' <=> Later(e, d - 1) \/ (Len(e) > d + 1 /\ Passes(d, R, e))
  <2>1. 1..d = (1..d - 1) \cup {d}
    BY <1>3
  <2>2. Later(e, d)' <=> Later(e, d - 1)' \/ (Len(e) > d + 1 /\ Passes(d, Kids(d), e)')
    BY <2>1 DEF Later
  <2>3. Passes(d, Kids(d), e)' <=> Passes(d, R, e)
    <3>1. Kids(d)' = R
      BY <1>4, <1>7 DEF Kids
    <3>2. d \in 1..d
      BY <1>3
    <3>3. frames'[d].path = frames[d].path
      BY <1>6, <1>7, <3>2
    <3>4. QED
      BY <3>1, <3>3 DEF Passes
  <2>4. QED
    BY <1>8, <2>2, <2>3
<1>10. ToCome(e)' <=> Later(e, d - 1) \/ (Len(e) > d + 1 /\ Passes(d, R, e))
  <2>1. ToCome(e)' <=> Later(e, d)'
    BY <1>7 DEF ToCome
  <2>2. QED
    BY <1>9, <2>1
<1>11. ToCome(e) <=> Later(e, d - 1) \/ (Len(e) > d + 1 /\ Passes(d, K, e))
  BY <1>1, <1>3, ToComeIs, LaterSplit
<1>12. Passes(d, {n}, e) => ~Later(e, d - 1)
  BY <1>2, <1>3, NotLater
<1>13. Passes(d, R, e) <=> Passes(d, K, e) /\ ~Passes(d, {n}, e)
  BY <1>6 DEF Passes
<1>14. QED
  BY <1>3, <1>10, <1>11, <1>12, <1>13

\* A child descended into: what it holds is still to come.
LEMMA DescendComes ==
    ASSUME TypesInv, TreeInv, NEW n \in Node, Descend(n), NEW e \in Seq(Node)
    PROVE  ToCome(e)' <=> ToCome(e)
<1>1. step = "next" /\ step' = "open" /\ Child(n)
  BY DEF Descend, Child
<1>2. FramesType /\ PathsFit(frames) /\ NestedInv /\ ChildrenInv /\ Depth \in Nat /\ Depth > 0
  BY <1>1, Ground
<1>3. PICK d, K, rest : d = Depth /\ d \in Nat /\ d > 0 /\ K = Kids(Depth) /\ rest = Others
  BY <1>2
<1>4. PICK R, path, m : R = Members(Tail(Top.children)) /\ path = Top.path /\ m = Len(e) /\ m \in Nat
  BY LenProperties
<1>5. rest[d].children = Tail(Top.children) /\ K = {n} \cup Members(rest[d].children)
  BY <1>1, <1>2, <1>3, OthersFrames
<1>6. K = {n} \cup R
  BY <1>4, <1>5
<1>7. /\ Depth' = d + 1
      /\ \A k \in 1..d - 1 : frames'[k] = frames[k]
      /\ \A k \in 1..d : frames'[k].path = frames[k].path
      /\ frames'[d].children = Tail(Top.children)
      /\ frames'[d + 1].path = Append(path, n) /\ frames'[d + 1].children = <<>>
  BY <1>2, <1>3, <1>4, DescendFrames
<1>8. d \in 1..d /\ path = frames[d].path /\ path \in Seq(Node) /\ Len(path) = d
  BY <1>2, <1>3, <1>4, TopPath DEF Top
<1>9. Later(e, d - 1)' <=> Later(e, d - 1)
  <2>1. d - 1 \in Nat
    BY <1>3
  <2>2. QED
    BY <1>7, <2>1, LaterSame
<1>10. Passes(d, Kids(d), e)' <=> Passes(d, R, e)
  <2>1. Kids(d)' = R
    BY <1>4, <1>7 DEF Kids
  <2>2. frames'[d].path = frames[d].path
    BY <1>7, <1>8
  <2>3. QED
    BY <2>1, <2>2 DEF Passes
<1>11. ~Passes(d + 1, Kids(d + 1), e)'
  <2>1. Kids(d + 1)' = {}
    BY <1>7 DEF Kids, Members
  <2>2. QED
    BY <2>1 DEF Passes
<1>12. Later(e, d + 1)' <=> Later(e, d - 1) \/ (m > d + 1 /\ Passes(d, R, e))
  <2>1. 1..d + 1 = (1..d - 1) \cup {d, d + 1}
    BY <1>3
  <2>2. Later(e, d + 1)' <=> \/ Later(e, d - 1)'
                             \/ m > d + 1 /\ Passes(d, Kids(d), e)'
                             \/ m > d + 1 + 1 /\ Passes(d + 1, Kids(d + 1), e)'
    BY <1>4, <2>1 DEF Later
  <2>3. QED
    BY <1>9, <1>10, <1>11, <2>2
<1>13. Passes(d + 1, Node, e)' <=> m > d + 1 /\ Passes(d, {n}, e)
  <2>1. \A i \in 1..d + 1 : Append(path, n)[i] = IF i = d + 1 THEN n ELSE path[i]
    BY <1>8, AppendProperties
  <2>2. (\A i \in 1..d + 1 : e[i] = Append(path, n)[i]) <=> (\A i \in 1..d : e[i] = path[i]) /\ e[d + 1] = n
    <3>1. d + 1 \in 1..d + 1 /\ \A i \in 1..d : i \in 1..d + 1 /\ i # d + 1
      BY <1>3
    <3>2. \A i \in 1..d + 1 : i = d + 1 \/ i \in 1..d
      BY <1>3
    <3>3. QED
      BY <2>1, <3>1, <3>2
  <2>3. m > d + 1 => e[d + 1 + 1] \in Node /\ m > d
    <3>1. m > d + 1 => d + 1 + 1 \in 1..m /\ m > d
      BY <1>3, <1>4
    <3>2. QED
      BY <1>4, <3>1, ElementOfSeq
  <2>4. Passes(d + 1, Node, e)' <=> m > d + 1 /\ (\A i \in 1..d + 1 : e[i] = Append(path, n)[i]) /\ e[d + 1 + 1] \in Node
    BY <1>4, <1>7 DEF Passes
  <2>5. Passes(d, {n}, e) <=> m > d /\ (\A i \in 1..d : e[i] = path[i]) /\ e[d + 1] = n
    BY <1>4, <1>8 DEF Passes
  <2>6. QED
    BY <2>2, <2>3, <2>4, <2>5
<1>14. ToCome(e)' <=> Passes(d + 1, Node, e)' \/ Later(e, d + 1)'
  <2>1. Passes(Depth, Node, e)' <=> Passes(d + 1, Node, e)'
    BY <1>7 DEF Passes
  <2>2. ToCome(e)' <=> Passes(Depth, Node, e)' \/ Later(e, d + 1)'
    BY <1>1, <1>7 DEF ToCome
  <2>3. QED
    BY <2>1, <2>2
<1>15. ToCome(e) <=> Later(e, d - 1) \/ (m > d + 1 /\ Passes(d, K, e))
  BY <1>1, <1>3, <1>4, ToComeIs, LaterSplit
<1>16. Passes(d, K, e) <=> Passes(d, {n}, e) \/ Passes(d, R, e)
  BY <1>6 DEF Passes
<1>17. QED
  BY <1>12, <1>13, <1>14, <1>15, <1>16

\* Nothing that was dealt with is to come again.
LEMMA NothingReturns ==
    ASSUME TypesInv, TreeInv, [Next]_vars, step # "root", NEW e \in Seq(Node), ToCome(e)'
    PROVE  ToCome(e)
<1>1. CASE StopAtDepth
  BY <1>1, StopComes
<1>2. CASE OpenDir
  BY <1>2, OpenComes
<1>3. CASE Return
  BY <1>3, ReturnComes
<1>4. CASE ListingEnds
  BY <1>4, OnComes DEF ListingEnds
<1>5. CASE RecheckRoot
  BY <1>5, OnComes, OverComes DEF RecheckRoot, Aborts
<1>6. CASE WalkFails
  BY <1>6, OverComes DEF WalkFails, Aborts
<1>7. ASSUME NEW n \in Node, EntryBadName(n) \/ EntryUnreadable(n) \/ EntryGone(n) \/ EntryOffPin(n)
                               \/ EntryDir(n) \/ EntryFile(n) \/ EntrySpecial(n)
      PROVE  ToCome(e)
  <2>1. Entry(n)
    BY <1>7 DEF EntryBadName, EntryUnreadable, EntryGone, EntryOffPin, EntryDir, EntryFile, EntrySpecial
  <2>2. CASE frames' = frames
    BY <2>1, <2>2, EntryComes
  <2>3. CASE EntryDir(n) /\ MayDescend
    BY <2>3, DirComes
  <2>4. QED
    BY <1>7, <2>2, <2>3 DEF EntryBadName, EntryUnreadable, EntryGone, EntryOffPin, EntryDir, EntryFile, EntrySpecial
<1>8. ASSUME NEW n \in Node, ChildUnreadable(n) \/ ChildOffPin(n) \/ ChildNoDirectory(n)
      PROVE  ToCome(e)
  <2>1. Skip(n) /\ step' \in {"next", "recheck"}
    BY <1>8 DEF ChildUnreadable, ChildOffPin, ChildNoDirectory, Skip, Child
  <2>2. QED
    BY <2>1, SkipComes
<1>9. ASSUME NEW n \in Node, Descend(n)
      PROVE  ToCome(e)
  BY <1>9, DescendComes
<1>10. CASE Remount \/ UNCHANGED vars \/ \E n \in Node : NodeChanges(n) \/ NodeMounted(n)
  BY <1>10, SameComes DEF Remount, NodeChanges, NodeMounted, Change, vars, walk
<1>11. QED
  BY <1>1, <1>2, <1>3, <1>4, <1>5, <1>6, <1>7, <1>8, <1>9, <1>10 DEF Next, Walk, WalkRoot

\* The path of an entry of the directory being read.
LEMMA EntryPath ==
    ASSUME FramesType, PathsFit(frames), Depth > 0, NEW n \in Node
    PROVE  /\ Append(Top.path, n) \in Seq(Node) /\ Len(Append(Top.path, n)) = Depth + 1
           /\ \A S : Passes(Depth, S, Append(Top.path, n)) <=> n \in S
           /\ \A e \in Seq(Node) : Passes(Depth, {n}, e) /\ Len(e) = Depth + 1 => e = Append(Top.path, n)
<1>1. PICK d, path : d = Depth /\ path = Top.path /\ d \in Nat /\ d > 0 /\ path \in Seq(Node) /\ Len(path) = d
  BY TopPath, LenProperties DEF FramesType, Depth
<1> DEFINE x == Append(path, n)
<1>2. /\ x \in Seq(Node) /\ Len(x) = d + 1
      /\ \A i \in 1..d + 1 : x[i] = IF i = d + 1 THEN n ELSE path[i]
  <2>1. Append(path, n) \in Seq(Node) /\ Len(Append(path, n)) = Len(path) + 1
    BY <1>1, AppendProperties
  <2>2. \A i \in 1..Len(path) + 1 : Append(path, n)[i] = IF i = Len(path) + 1 THEN n ELSE path[i]
    BY <1>1, AppendProperties
  <2>3. QED
    BY <1>1, <2>1, <2>2
<1>3. x = Append(Top.path, n)
  BY <1>1
<1> HIDE DEF x
<1>4. x[d + 1] = n /\ \A i \in 1..d : x[i] = path[i]
  <2>1. d + 1 \in 1..d + 1 /\ \A i \in 1..d : i \in 1..d + 1 /\ i # d + 1
    BY <1>1
  <2>2. QED
    BY <1>2, <2>1
<1>5. \A S : Passes(d, S, x) <=> n \in S
  <2>1. path = frames[d].path /\ d + 1 > d
    BY <1>1 DEF Top
  <2>2. QED
    BY <1>2, <1>4, <2>1 DEF Passes
<1>6. ASSUME NEW e \in Seq(Node), Passes(d, {n}, e), Len(e) = d + 1
      PROVE  e = x
  <2>1. \A i \in 1..d : e[i] = path[i]
    BY <1>1, <1>6 DEF Passes, Top
  <2>2. e[d + 1] = n
    BY <1>6 DEF Passes
  <2>3. \A i \in 1..d + 1 : i = d + 1 \/ i \in 1..d
    BY <1>1
  <2>4. \A i \in 1..Len(e) : e[i] = x[i]
    BY <1>4, <1>6, <2>1, <2>2, <2>3
  <2>5. QED
    BY <1>2, <1>6, <2>4, SeqEqual
<1>7. QED
  BY <1>1, <1>2, <1>3, <1>5, <1>6

\* No record is sent twice: what the consumer has is not to come.
OnceInv ==
    /\ IsFiniteSet(emitted) /\ summary.files = Cardinality(emitted)
    /\ \A e \in emitted : ~ToCome(e)

\* Only a file is sent, and counted when it is.
LEMMA OnlyFilesCount ==
    ASSUME TypesInv, [Next]_vars
    PROVE  \/ emitted' = emitted /\ summary'.files = summary.files
           \/ \E n \in Node : EntryFile(n)
<1>0. summary \in SummaryType
  BY DEF TypesInv, WalkTypes
<1>1. CASE WalkRoot \/ OpenDir \/ ListingEnds \/ RecheckRoot \/ Return \/ WalkFails
  BY <1>1 DEF WalkRoot, OpenDir, ListingEnds, RecheckRoot, Return, WalkFails, Aborts, told
<1>2. CASE StopAtDepth
  BY <1>0, <1>2 DEF StopAtDepth, Recorded, SummaryType
<1>3. ASSUME NEW n \in Node, EntryBadName(n) \/ EntryUnreadable(n) \/ EntryGone(n) \/ EntryOffPin(n)
                               \/ EntryDir(n) \/ EntrySpecial(n)
      PROVE  emitted' = emitted /\ summary'.files = summary.files
  BY <1>0, <1>3 DEF EntryBadName, EntryUnreadable, EntryGone, EntryOffPin, EntryDir, EntrySpecial,
                    Recorded, Refused, SummaryType
<1>4. ASSUME NEW n \in Node, ChildUnreadable(n) \/ ChildOffPin(n) \/ ChildNoDirectory(n) \/ Descend(n)
      PROVE  emitted' = emitted /\ summary'.files = summary.files
  BY <1>0, <1>4 DEF ChildUnreadable, ChildOffPin, ChildNoDirectory, Descend, Skip, Recorded, Refused,
                    SummaryType, told
<1>5. CASE Remount \/ UNCHANGED vars \/ \E n \in Node : NodeChanges(n) \/ NodeMounted(n)
  BY <1>5 DEF Remount, NodeChanges, NodeMounted, Change, vars, told
<1>6. QED
  BY <1>1, <1>2, <1>3, <1>4, <1>5 DEF Next, Walk

\* A file that is sent was to come, and is not any more.
LEMMA FileIsNew ==
    ASSUME TypesInv, TreeInv, NEW n \in Node, EntryFile(n), NEW e, e = Append(Top.path, n)
    PROVE  ToCome(e) /\ ~ToCome(e)'
<1>1. step = "entries" /\ n \in unread /\ Entry(n) /\ frames' = frames
  BY DEF EntryFile, Entry
<1>2. FramesType /\ PathsFit(frames) /\ Depth > 0
  BY <1>1, Ground
<1>3. Passes(Depth, unread, e) /\ Passes(Depth, {n}, e)
  BY <1>1, <1>2, EntryPath
<1>4. ToCome(e)
  BY <1>1, <1>3, ToComeIs
<1>5. QED
  BY <1>1, <1>3, <1>4, EntryComes

\* Every step keeps the count of the records.
LEMMA OnceStep == TypesInv /\ TreeInv /\ OnceInv /\ [Next]_vars => OnceInv'
<1> SUFFICES ASSUME TypesInv, TreeInv, OnceInv, [Next]_vars
             PROVE  OnceInv'
  OBVIOUS
<1>1. CASE \E n \in Node : EntryFile(n)
  <2>1. PICK n \in Node : EntryFile(n)
    BY <1>1
  <2>2. PICK e : e = Append(Top.path, n)
    OBVIOUS
  <2>3. emitted' = emitted \cup {e} /\ step = "entries"
    BY <2>1, <2>2 DEF EntryFile, Entry
  <2>4. ToCome(e) /\ ~ToCome(e)'
    BY <2>1, <2>2, FileIsNew
  <2>5. e \notin emitted
    BY <2>4 DEF OnceInv
  <2>6. IsFiniteSet(emitted') /\ Cardinality(emitted') = Cardinality(emitted) + 1
    <3>1. IsFiniteSet(emitted)
      BY DEF OnceInv
    <3>2. IsFiniteSet(emitted \cup {e}) /\ Cardinality(emitted \cup {e}) = Cardinality(emitted) + 1
      BY <2>5, <3>1, FS_AddElement
    <3>3. QED
      BY <2>3, <3>2
  <2>7. summary'.files = summary.files + 1
    BY <2>1 DEF EntryFile, TypesInv, WalkTypes, SummaryType
  <2>8. ASSUME NEW x \in emitted
        PROVE  ~ToCome(x)'
    <3>1. x \in Seq(Node) /\ ~ToCome(x)
      BY DEF OnceInv, TypesInv, WalkTypes
    <3>2. QED
      BY <2>3, <3>1, NothingReturns
  <2>9. QED
    BY <2>3, <2>4, <2>6, <2>7, <2>8 DEF OnceInv
<1>2. CASE emitted' = emitted /\ summary'.files = summary.files
  <2>1. ASSUME NEW x \in emitted
        PROVE  ~ToCome(x)'
    <3>1. x \in Seq(Node) /\ ~ToCome(x)
      BY DEF OnceInv, TypesInv, WalkTypes
    <3>2. step # "root"
      BY DEF TreeInv, FreshInv
    <3>3. QED
      BY <3>1, <3>2, NothingReturns
  <2>2. QED
    BY <1>2, <2>1 DEF OnceInv
<1>3. QED
  BY <1>1, <1>2, OnlyFilesCount

-----------------------------------------------------------------------------
(* The entries of the tree.                                                     *)

\* What a listing asks for a listing of.
Lists(n) == status[n] = "dir" /\ n \notin Unnameable /\ OnPin(n)

\* A path of k nodes through the tree.
LEMMA PathIs ==
    ASSUME NEW p, NEW k \in 1..MaxWalkDepth + 2
    PROVE  p \in Paths[k] <=> /\ p \in Seq(Node) /\ Len(p) = k /\ p[1] = Root
                              /\ \A i \in 1..k - 1 : p[i + 1] \in Contents[p[i]]
<1>1. k \in Nat
  BY DepthsAreNat
<1>2. p \in [1..k -> Node] <=> p \in Seq(Node) /\ Len(p) = k
  <2>1. ASSUME p \in [1..k -> Node]
        PROVE  p \in Seq(Node) /\ Len(p) = k
    BY <1>1, <2>1
  <2>2. ASSUME p \in Seq(Node), Len(p) = k
        PROVE  p \in [1..k -> Node]
    BY <2>2, LenProperties
  <2>3. QED
    BY <2>1, <2>2
<1>3. p \in Paths[k] <=> p \in [1..k -> Node] /\ p[1] = Root /\ \A i \in 1..k - 1 : p[i + 1] \in Contents[p[i]]
  BY DEF Paths
<1>4. QED
  BY <1>2, <1>3

\* A directory asked for is one at the end of directories that could be asked for.
LEMMA AskedIs ==
    ASSUME NEW p
    PROVE  p \in Asked <=> /\ p \in Seq(Node) /\ Len(p) \in 1..MaxWalkDepth + 1
                           /\ maxDepth = 0 \/ Len(p) <= maxDepth
                           /\ p[1] = Root
                           /\ \A i \in 1..Len(p) - 1 : p[i + 1] \in Contents[p[i]]
                           /\ \A i \in 1..Len(p) : Lists(p[i])
<1>1. p \in Asked <=> \E k \in 1..MaxWalkDepth + 1 :
                         /\ maxDepth = 0 \/ k <= maxDepth
                         /\ p \in Paths[k] /\ \A i \in 1..k : Lists(p[i])
  BY DEF Asked, Lists
<1>2. 1..MaxWalkDepth + 1 \subseteq 1..MaxWalkDepth + 2
  BY DepthsAreNat
<1>3. ASSUME NEW k \in 1..MaxWalkDepth + 1
      PROVE  p \in Paths[k] <=> /\ p \in Seq(Node) /\ Len(p) = k /\ p[1] = Root
                                /\ \A i \in 1..k - 1 : p[i + 1] \in Contents[p[i]]
  BY <1>2, PathIs
<1>4. QED
  BY <1>1, <1>3

\* And an entry is what such a directory holds, if it is listed.
LEMMA EntryIs ==
    ASSUME NEW e \in Entries
    PROVE  /\ e \in Seq(Node) /\ Len(e) \in 2..MaxWalkDepth + 1
           /\ maxDepth = 0 \/ Len(e) - 1 <= maxDepth
           /\ e[1] = Root
           /\ \A i \in 1..Len(e) - 1 : e[i + 1] \in Contents[e[i]] /\ Lists(e[i])
<1>1. PICK p, n : p \in Listed /\ n \in Contents[LastOf(p)] /\ e = Append(p, n)
  BY DEF Entries
<1>2. p \in Asked /\ Len(p) <= MaxWalkDepth
  BY <1>1 DEF Listed
<1>3. PICK k : /\ k = Len(p) /\ k \in 1..MaxWalkDepth + 1 /\ k <= MaxWalkDepth /\ p \in Seq(Node) /\ p[1] = Root
               /\ maxDepth = 0 \/ k <= maxDepth
               /\ \A i \in 1..k - 1 : p[i + 1] \in Contents[p[i]]
               /\ \A i \in 1..k : Lists(p[i])
  BY <1>2, AskedIs
<1>4. k \in Nat /\ k > 0 /\ MaxWalkDepth \in Nat
  BY <1>3, DepthsAreNat
<1>5. n \in Contents[p[k]] /\ n \in Node
  <2>1. p[k] \in Node
    BY <1>3, <1>4, ElementOfSeq
  <2>2. QED
    BY <1>1, <1>3, <2>1, TreeTypes DEF LastOf
<1>6. /\ e \in Seq(Node) /\ Len(e) = k + 1
      /\ \A i \in 1..k + 1 : e[i] = IF i = k + 1 THEN n ELSE p[i]
  BY <1>1, <1>3, <1>5, AppendProperties
<1>7. e[k + 1] = n /\ \A i \in 1..k : e[i] = p[i]
  <2>1. k + 1 \in 1..k + 1 /\ \A i \in 1..k : i \in 1..k + 1 /\ i # k + 1
    BY <1>4
  <2>2. QED
    BY <1>6, <2>1
<1>8. ASSUME NEW i \in 1..k
      PROVE  e[i + 1] \in Contents[e[i]] /\ Lists(e[i])
  <2>1. CASE i = k
    BY <1>3, <1>5, <1>7, <2>1
  <2>2. CASE i # k
    <3>1. i \in 1..k - 1 /\ i + 1 \in 1..k
      BY <1>4, <2>2
    <3>2. QED
      BY <1>3, <1>7, <3>1
  <2>3. QED
    BY <2>1, <2>2
<1>9. e[1] = Root /\ Len(e) - 1 = k /\ Len(e) \in 2..MaxWalkDepth + 1
  BY <1>3, <1>4, <1>6, <1>7
<1>10. maxDepth = 0 \/ Len(e) - 1 <= maxDepth
  BY <1>3, <1>9
<1>11. \A i \in 1..Len(e) - 1 : e[i + 1] \in Contents[e[i]] /\ Lists(e[i])
  BY <1>8, <1>9
<1>12. QED
  BY <1>6, <1>9, <1>10, <1>11

\* A file of the tree that is what it was, in directories that are what they were,
\* was a file of the tree.
LEMMA UntouchedWas ==
    ASSUME maxDepth' = maxDepth, NEW e \in FilesIn(Entries)',
           \A i \in 1..Len(e) : status'[e[i]] = status[e[i]] /\ (OnPin(e[i])' => OnPin(e[i]))
    PROVE  e \in FilesIn(Entries)
<1>1. e \in Entries' /\ Emits(LastOf(e))'
  BY DEF FilesIn
<1>2. PICK p, n : p \in Listed' /\ n \in Contents[LastOf(p)] /\ e = Append(p, n)
  BY <1>1 DEF Entries
<1>3. PICK k \in 1..MaxWalkDepth + 1 :
         /\ maxDepth = 0 \/ k <= maxDepth
         /\ p \in Paths[k] /\ Len(p) <= MaxWalkDepth
         /\ \A i \in 1..k : status'[p[i]] = "dir" /\ p[i] \notin Unnameable /\ OnPin(p[i])'
  BY <1>2 DEF Listed, Asked
<1>4. k \in Nat /\ k > 0 /\ k \in 1..MaxWalkDepth + 2
  BY DepthsAreNat
<1>5. p \in Seq(Node) /\ Len(p) = k
  BY <1>3, <1>4, PathIs
<1>6. n \in Contents[p[k]] /\ n \in Node
  <2>1. p[k] \in Node
    BY <1>4, <1>5, ElementOfSeq
  <2>2. QED
    BY <1>2, <1>5, <2>1, TreeTypes DEF LastOf
<1>7. Len(e) = k + 1 /\ \A i \in 1..k + 1 : e[i] = IF i = k + 1 THEN n ELSE p[i]
  BY <1>2, <1>5, <1>6, AppendProperties
<1>8. e[k + 1] = n /\ \A i \in 1..k : e[i] = p[i]
  <2>1. k + 1 \in 1..k + 1 /\ \A i \in 1..k : i \in 1..k + 1 /\ i # k + 1
    BY <1>4
  <2>2. QED
    BY <1>7, <2>1
<1>9. k + 1 \in 1..Len(e) /\ \A i \in 1..k : i \in 1..Len(e)
  BY <1>4, <1>7
<1>10. \A i \in 1..k : status[p[i]] = "dir" /\ p[i] \notin Unnameable /\ OnPin(p[i])
  <2>1. ASSUME NEW i \in 1..k
        PROVE  status[p[i]] = "dir" /\ OnPin(p[i])
    <3>1. i \in 1..Len(e) /\ e[i] = p[i] /\ status'[p[i]] = "dir" /\ OnPin(p[i])'
      BY <1>3, <1>8, <1>9
    <3>2. status'[e[i]] = status[e[i]] /\ (OnPin(e[i])' => OnPin(e[i]))
      BY <3>1
    <3>3. OnPin(e[i])'
      BY <3>1 DEF OnPin
    <3>4. OnPin(p[i])
      BY <3>1, <3>2, <3>3 DEF OnPin
    <3>5. QED
      BY <3>1, <3>2, <3>4
  <2>2. QED
    BY <1>3, <2>1
<1>11. p \in Listed
  BY <1>3, <1>10 DEF Listed, Asked
<1>12. Emits(LastOf(e))
  <2>1. LastOf(e) = e[k + 1]
    BY <1>7 DEF LastOf
  <2>2. status'[e[k + 1]] = "file" /\ e[k + 1] \notin Unnameable /\ OnPin(e[k + 1])'
    BY <1>1, <2>1 DEF Emits, OnPin
  <2>3. status'[e[k + 1]] = status[e[k + 1]] /\ (OnPin(e[k + 1])' => OnPin(e[k + 1]))
    BY <1>9
  <2>4. QED
    BY <2>1, <2>2, <2>3 DEF Emits
<1>13. e \in Entries
  BY <1>2, <1>11 DEF Entries
<1>14. QED
  BY <1>12, <1>13 DEF FilesIn

\* A walk that goes on, or that ended well, has every file that nothing happened
\* to, or has it before it.
FoundInv ==
    result \in {"none", "ok"} =>
        \A e \in FilesIn(Entries) : (\A i \in 1..Len(e) : e[i] \notin touched) => e \in emitted \/ ToCome(e)

\* What the walk does with a file of the tree when its turn comes.
LEMMA FileTaken ==
    ASSUME TypesInv, TreeInv, Walk, result' \in {"none", "ok"},
           NEW e \in FilesIn(Entries), ToCome(e)
    PROVE  e \in emitted' \/ ToCome(e)'
<1>0. /\ e \in Entries /\ Emits(LastOf(e))
  BY DEF FilesIn
<1>1. PICK m : /\ m = Len(e) /\ m \in Nat /\ e \in Seq(Node) /\ m \in 2..MaxWalkDepth + 1
               /\ maxDepth = 0 \/ m - 1 <= maxDepth
               /\ e[1] = Root
               /\ \A i \in 1..m - 1 : e[i + 1] \in Contents[e[i]] /\ Lists(e[i])
  BY <1>0, EntryIs, LenProperties
<1>2. MaxWalkDepth \in Nat /\ maxDepth \in Nat /\ \A i \in 1..m : e[i] \in Node
  BY <1>1, DepthsAreNat, ElementOfSeq DEF TypesInv, WalkTypes
<1>3. e[m] = LastOf(e)
  BY <1>1 DEF LastOf
<1>4. CASE WalkRoot
  <2>1. RootFailure = "none"
    BY <1>4 DEF WalkRoot, Aborts, RootFailure
  <2>2. m > 1 /\ e[2] \in Node
    BY <1>1, <1>2
  <2>3. QED
    BY <1>1, <1>4, <2>1, <2>2, RootComes
<1>5. CASE StopAtDepth
  <2>1. ~Passes(Depth, Node, e)
    <3>1. Depth > MaxWalkDepth /\ Depth \in Nat
      BY <1>5, Ground DEF StopAtDepth, TooDeep
    <3>2. ~(m > Depth)
      BY <1>1, <1>2, <3>1
    <3>3. QED
      BY <1>1, <3>2 DEF Passes
  <2>2. QED
    BY <1>5, <2>1, StopComes
<1>6. CASE OpenDir
  <2>1. PICK d : d = Depth /\ d \in Nat /\ d > 0
    BY <1>6, Ground DEF OpenDir
  <2>2. ASSUME Passes(Depth, Node, e)
        PROVE  e[Depth + 1] \in unread'
    <3>1. d \in 1..m - 1 /\ d \in 1..d /\ e[d] = frames[d].path[d]
      BY <1>1, <2>1, <2>2 DEF Passes
    <3>2. e[d + 1] \in Contents[e[d]] /\ status[e[d]] = "dir"
      BY <1>1, <3>1 DEF Lists
    <3>3. unread' = Contents[e[d]]
      BY <1>6, <2>1, <3>1, <3>2 DEF OpenDir, Top
    <3>4. QED
      BY <2>1, <3>2, <3>3
  <2>3. QED
    BY <1>6, <2>2, OpenComes
<1>7. CASE ListingEnds
  BY <1>7, OnComes DEF ListingEnds
<1>8. CASE RecheckRoot
  <2>1. PinHolds
    BY <1>8 DEF RecheckRoot, Aborts
  <2>2. QED
    BY <1>8, <2>1, OnComes DEF RecheckRoot
<1>9. CASE Return
  BY <1>9, ReturnComes
<1>10. ASSUME NEW n \in Node, Entry(n),
              EntryBadName(n) \/ EntryUnreadable(n) \/ EntryGone(n) \/ EntryOffPin(n)
                \/ EntryDir(n) \/ EntryFile(n) \/ EntrySpecial(n)
       PROVE  e \in emitted' \/ ToCome(e)'
  <2>1. PICK d : d = Depth /\ d \in Nat /\ d > 0 /\ FramesType /\ PathsFit(frames)
    BY <1>10, Ground DEF Entry
  <2>2. CASE ~Passes(Depth, {n}, e)
    <3>1. CASE EntryDir(n) /\ MayDescend
      BY <1>1, <2>2, <3>1, DirComes
    <3>2. CASE frames' = frames
      BY <1>10, <2>2, <3>2, EntryComes
    <3>3. QED
      BY <1>10, <3>1, <3>2 DEF EntryBadName, EntryUnreadable, EntryGone, EntryOffPin, EntryDir, EntryFile, EntrySpecial
  <2>3. CASE Passes(Depth, {n}, e) /\ m = d + 1
    <3>1. e = Append(Top.path, n)
      BY <1>1, <2>1, <2>3, EntryPath
    <3>2. e[m] = n
      BY <2>1, <2>3 DEF Passes
    <3>3. Emits(n)
      BY <1>0, <1>3, <3>2
    <3>4. EntryFile(n)
      BY <1>10, <3>3 DEF EntryBadName, EntryUnreadable, EntryGone, EntryOffPin, EntryDir, EntrySpecial,
                         Emits, Readable, Kinds
    <3>5. QED
      BY <3>1, <3>4 DEF EntryFile
  <2>4. CASE Passes(Depth, {n}, e) /\ m # d + 1
    <3>1. d + 1 \in 1..m - 1 /\ e[d + 1] = n /\ d < m - 1
      BY <1>1, <2>1, <2>4 DEF Passes
    <3>2. Lists(n)
      BY <1>1, <3>1
    <3>3. MayDescend
      BY <1>1, <1>2, <2>1, <3>1 DEF MayDescend
    <3>4. EntryDir(n)
      BY <1>10, <3>2, <3>3 DEF EntryBadName, EntryUnreadable, EntryGone, EntryOffPin, EntryFile, EntrySpecial,
                               Emits, Readable, Kinds, Lists
    <3>5. QED
      BY <1>1, <2>1, <2>4, <3>3, <3>4, DirComes
  <2>5. QED
    BY <2>2, <2>3, <2>4
<1>11. ASSUME NEW n \in Node, ChildUnreadable(n) \/ ChildOffPin(n) \/ ChildNoDirectory(n)
       PROVE  ToCome(e)'
  <2>1. Skip(n) /\ step' \in {"next", "recheck"} /\ step = "next" /\ Child(n) /\ ~Lists(n)
    BY <1>11 DEF ChildUnreadable, ChildOffPin, ChildNoDirectory, Skip, Child, Lists, Readable, Kinds
  <2>2. PICK d : d = Depth /\ d \in Nat /\ d > 0
    BY <2>1, Ground
  <2>3. ASSUME Passes(Depth, {n}, e)
        PROVE  FALSE
    <3>1. m > d /\ e[d + 1] = n
      BY <1>1, <2>2, <2>3 DEF Passes
    <3>2. ~(d + 1 \in 1..m - 1)
      BY <1>1, <2>1, <3>1
    <3>3. ~(m > d + 1)
      BY <1>1, <2>2, <3>2
    <3>4. Later(e, Depth) => m > d + 1
      BY <1>1, <2>1, <2>2, <2>3, OnlyBehindTop
    <3>5. QED
      BY <2>1, <3>3, <3>4, ToComeIs
  <2>4. QED
    BY <2>1, <2>3, SkipComes
<1>12. ASSUME NEW n \in Node, Descend(n)
       PROVE  ToCome(e)'
  BY <1>1, <1>12, DescendComes
<1>13. QED
  BY <1>4, <1>5, <1>6, <1>7, <1>8, <1>9, <1>10, <1>11, <1>12
     DEF Walk, EntryBadName, EntryUnreadable, EntryGone, EntryOffPin, EntryDir, EntryFile, EntrySpecial

\* Every step keeps what is found together with what is to be found.
LEMMA FoundStep == TypesInv /\ TreeInv /\ FoundInv /\ [Next]_vars => FoundInv'
<1> SUFFICES ASSUME TypesInv, TreeInv, FoundInv, [Next]_vars, result' \in {"none", "ok"},
                    NEW e \in FilesIn(Entries)', \A i \in 1..Len(e) : e[i] \notin touched'
             PROVE  e \in emitted' \/ ToCome(e)'
  BY DEF FoundInv
<1>1. CASE Walk
  <2>1. UNCHANGED <<maxDepth, status, elsewhere, mounted, touched>>
    BY <1>1 DEF Walk, WalkRoot, StopAtDepth, OpenDir, ListingEnds, RecheckRoot, Return, Aborts,
                EntryBadName, EntryUnreadable, EntryGone, EntryOffPin, EntryDir, EntryFile, EntrySpecial, Entry,
                ChildUnreadable, ChildOffPin, ChildNoDirectory, Descend, Skip, phone
  <2>2. e \in FilesIn(Entries)
    BY <2>1, UntouchedWas DEF OnPin
  <2>3. result = "none"
    <3>1. step # "done"
      BY <1>1 DEF Walk, WalkRoot, StopAtDepth, OpenDir, ListingEnds, RecheckRoot, Return,
                  EntryBadName, EntryUnreadable, EntryGone, EntryOffPin, EntryDir, EntryFile, EntrySpecial, Entry,
                  ChildUnreadable, ChildOffPin, ChildNoDirectory, Descend, Skip, Child
    <3>2. QED
      BY <3>1 DEF TypesInv, WalkTypes
  <2>4. e \in emitted \/ ToCome(e)
    BY <2>1, <2>2, <2>3 DEF FoundInv
  <2>5. emitted \subseteq emitted'
    <3>1. ASSUME NEW n \in Node, EntryFile(n)
          PROVE  emitted \subseteq emitted'
      BY <3>1 DEF EntryFile
    <3>2. QED
      BY <3>1, OnlyFilesCount
  <2>6. QED
    BY <1>1, <2>2, <2>4, <2>5, FileTaken
<1>2. CASE WalkFails
  BY <1>2 DEF WalkFails, Aborts
<1>3. CASE Remount \/ \E n \in Node : NodeChanges(n) \/ NodeMounted(n)
  <2>1. /\ UNCHANGED <<maxDepth, frames, unread, step, emitted, result>>
        /\ touched' = IF step = "root" THEN {} ELSE touched' \cup touched
    BY <1>3 DEF Remount, NodeChanges, NodeMounted, Change, walk, told
  <2>2. CASE step = "root"
    BY <2>1, <2>2 DEF ToCome
  <2>3. CASE step # "root"
    <3>1. ASSUME NEW i \in 1..Len(e)
          PROVE  /\ e[i] \notin touched
                 /\ status'[e[i]] = status[e[i]] /\ (OnPin(e[i])' => OnPin(e[i]))
      <4>1. e[i] \notin touched' /\ e[i] \notin touched
        BY <2>1, <2>3
      <4>2. CASE Remount
        BY <4>1, <4>2 DEF Remount, OnPin
      <4>3. ASSUME NEW n \in Node, NodeChanges(n)
            PROVE  status'[e[i]] = status[e[i]] /\ (OnPin(e[i])' => OnPin(e[i]))
        <5>1. n # e[i]
          BY <2>3, <4>1, <4>3 DEF NodeChanges, Change
        <5>2. PICK s : status' = [status EXCEPT ![n] = s]
          BY <4>3 DEF NodeChanges
        <5>3. status \in [Node -> Statuses]
          BY DEF TypesInv, PhoneTypes
        <5>4. status'[e[i]] = status[e[i]]
          BY <5>1, <5>2, <5>3
        <5>5. QED
          BY <4>3, <5>4 DEF NodeChanges, OnPin
      <4>4. ASSUME NEW n \in Node, NodeMounted(n)
            PROVE  status'[e[i]] = status[e[i]] /\ (OnPin(e[i])' => OnPin(e[i]))
        BY <4>4 DEF NodeMounted, OnPin
      <4>5. QED
        BY <1>3, <4>1, <4>2, <4>3, <4>4
    <3>2. e \in FilesIn(Entries)
      BY <2>1, <3>1, UntouchedWas
    <3>3. e \in emitted \/ ToCome(e)
      BY <2>1, <3>1, <3>2 DEF FoundInv
    <3>4. QED
      BY <2>1, <3>3, SameComes
  <2>4. QED
    BY <2>2, <2>3
<1>4. CASE UNCHANGED vars
  <2>1. UNCHANGED <<maxDepth, status, elsewhere, mounted, touched, frames, unread, step, emitted, result>>
    BY <1>4 DEF vars, walk, told, phone
  <2>2. e \in FilesIn(Entries)
    BY <2>1, UntouchedWas DEF OnPin
  <2>3. QED
    BY <2>1, <2>2, SameComes DEF FoundInv
<1>5. QED
  BY <1>1, <1>2, <1>3, <1>4 DEF Next

\* All of it.
ListingInv == TypesInv /\ TreeInv /\ OnceInv /\ FoundInv

\* A walk that has not begun has everything before it.
LEMMA ListingInit == Init => ListingInv
<1> SUFFICES ASSUME Init
             PROVE  ListingInv
  OBVIOUS
<1>1. TypesInv
  BY TypesInit
<1>2. step = "root" /\ frames = <<>> /\ emitted = {} /\ result = "none" /\ Depth = 0
      /\ summary = [files |-> 0, refused |-> 0, errors |-> {}]
  BY DEF Init, Depth
<1>3. TreeInv
  BY <1>2 DEF TreeInv, FreshInv, NestedInv, ChildrenInv
<1>4. OnceInv
  BY <1>2, FS_EmptySet DEF OnceInv
<1>5. FoundInv
  BY <1>2 DEF FoundInv, ToCome
<1>6. QED
  BY <1>1, <1>3, <1>4, <1>5 DEF ListingInv

\* Every step keeps the account of what the consumer has and what is to come.
LEMMA ListingStep == ListingInv /\ [Next]_vars => ListingInv'
BY TypesStep, TreeStep, OnceStep, FoundStep DEF ListingInv

\* A listing that ended well has nothing before it.
LEMMA NothingLeft ==
    ASSUME TypesInv, TreeInv, result = "ok", NEW e
    PROVE  ~ToCome(e)
<1>1. step = "done" /\ frames = <<>>
  BY DEF TypesInv, WalkTypes, TreeInv, FreshInv
<1>2. Depth = 0
  BY <1>1 DEF Depth
<1>3. QED
  BY <1>1, <1>2 DEF ToCome, Later

\* Whatever changes under a walk, and whatever a walk meets, a file that nothing
\* happened to on the way to it is sent, and no file is sent twice (walkDir,
\* descend, emit).
THEOREM UntouchedAreListed == Spec => []UntouchedFilesListed
<1>1. ListingInv => UntouchedFilesListed
  <2>1. ASSUME ListingInv, result = "ok", NEW e \in FilesIn(Entries), \A i \in 1..Len(e) : e[i] \notin touched
        PROVE  e \in emitted
    <3>1. e \in emitted \/ ToCome(e)
      BY <2>1 DEF ListingInv, FoundInv
    <3>2. QED
      BY <2>1, <3>1, NothingLeft DEF ListingInv
  <2>2. QED
    BY <2>1 DEF ListingInv, OnceInv, UntouchedFilesListed
<1>2. QED
  BY <1>1, ListingInit, ListingStep, PTL DEF Spec

-----------------------------------------------------------------------------
(* A tree that keeps still.                                                     *)

Still == touched = {} /\ \A n \in Node : status[n] # "ENOENT"

\* The entries the walk has dealt with, and the directories it did not list.  It
\* does not know what those hold: the root stands for it.
Had  == {e \in Entries : ~ToCome(e)}
Past == {p \in Asked \ Listed : ~ToCome(Append(p, Root))}

\* All that a walk comes to.
Traced == Entries \cup {Append(p, Root) : p \in Asked \ Listed}

\* The stack is in the tree, and so is what it has still to descend into.
OnTree ==
    /\ \A k \in 1..Depth : /\ frames[k].path \in Asked
                           /\ \A n \in Kids(k) : Append(frames[k].path, n) \in Asked
    /\ step = "entries" => unread \subseteq Contents[Top.path[Depth]]

\* What the consumer has and the summary counts, of the entries E and the
\* directories P.
Accounted(E, P) ==
    /\ emitted = FilesIn(E)
    /\ IsFiniteSet(OmittedIn(E)) /\ summary.refused = Cardinality(OmittedIn(E))
    /\ summary.errors = ProblemsIn(E) \cup NotListed(P)

StillInv == result \in {"none", "ok"} /\ Still => OnTree /\ Accounted(Had, Past)

\* A tree that keeps still is the tree it was.
LEMMA TreeKept ==
    ASSUME UNCHANGED <<maxDepth, status, elsewhere, mounted>>
    PROVE  /\ Asked' = Asked /\ Listed' = Listed /\ Entries' = Entries
           /\ \A E : FilesIn(E)' = FilesIn(E) /\ OmittedIn(E)' = OmittedIn(E)
           /\ \A E : ProblemsIn(E)' = ProblemsIn(E)
<1>1. \A n : (OnPin(n)' <=> OnPin(n)) /\ (Readable(n)' <=> Readable(n)) /\ (Emits(n)' <=> Emits(n))
  BY DEF OnPin, Readable, Emits
<1>2. Asked' = Asked
  BY DEF Asked, OnPin
<1>3. Listed' = Listed
  BY <1>2 DEF Listed
<1>4. Entries' = Entries
  BY <1>3 DEF Entries
<1>5. \A E : FilesIn(E)' = FilesIn(E)
  BY <1>1 DEF FilesIn
<1>6. \A E : OmittedIn(E)' = OmittedIn(E)
  BY DEF OmittedIn, Readable, OnPin
<1>7. \A e : ProblemsOf(e)' = ProblemsOf(e)
  BY DEF ProblemsOf, NeedsName, Readable, OnPin
<1>8. \A E : ProblemsIn(E)' = ProblemsIn(E)
  BY <1>7 DEF ProblemsIn
<1>9. QED
  BY <1>2, <1>3, <1>4, <1>5, <1>6, <1>8

\* A path and what comes after it.
LEMMA PathAppend ==
    ASSUME NEW p \in Seq(Node), NEW n \in Node, NEW k, k = Len(p), NEW e, e = Append(p, n)
    PROVE  e \in Seq(Node) /\ Len(e) = k + 1 /\ e[k + 1] = n /\ \A i \in 1..k : e[i] = p[i]
<1>1. k \in Nat
  BY LenProperties
<1>2. e \in Seq(Node) /\ Len(e) = k + 1 /\ \A i \in 1..k + 1 : e[i] = IF i = k + 1 THEN n ELSE p[i]
  BY AppendProperties
<1>3. k + 1 \in 1..k + 1 /\ \A i \in 1..k : i \in 1..k + 1 /\ i # k + 1
  BY <1>1
<1>4. QED
  BY <1>2, <1>3

\* The listing of a directory that is asked for asks for a directory it holds.
LEMMA AskedAppend ==
    ASSUME NEW p \in Asked, NEW n \in Contents[LastOf(p)], Lists(n),
           Len(p) <= MaxWalkDepth, maxDepth = 0 \/ Len(p) + 1 <= maxDepth
    PROVE  Append(p, n) \in Asked
<1>1. PICK k : /\ k = Len(p) /\ k \in 1..MaxWalkDepth + 1 /\ p \in Seq(Node) /\ p[1] = Root
               /\ \A i \in 1..k - 1 : p[i + 1] \in Contents[p[i]]
               /\ \A i \in 1..k : Lists(p[i])
  BY AskedIs
<1>2. k \in Nat /\ k > 0 /\ k <= MaxWalkDepth /\ MaxWalkDepth \in Nat
  BY <1>1, DepthsAreNat
<1>3. n \in Contents[p[k]] /\ n \in Node
  <2>1. p[k] \in Node
    BY <1>1, <1>2, ElementOfSeq
  <2>2. QED
    BY <1>1, <2>1, TreeTypes DEF LastOf
<1>4. PICK e : e = Append(p, n)
  OBVIOUS
<1>5. e \in Seq(Node) /\ Len(e) = k + 1 /\ e[k + 1] = n /\ \A i \in 1..k : e[i] = p[i]
  BY <1>1, <1>3, <1>4, PathAppend
<1>7. ASSUME NEW i \in 1..k
      PROVE  e[i + 1] \in Contents[e[i]] /\ Lists(e[i])
  <2>1. CASE i = k
    BY <1>1, <1>3, <1>5, <2>1
  <2>2. CASE i # k
    <3>1. i \in 1..k - 1 /\ i + 1 \in 1..k
      BY <1>2, <2>2
    <3>2. QED
      BY <1>1, <1>5, <3>1
  <2>3. QED
    BY <2>1, <2>2
<1>8. \A i \in 1..Len(e) - 1 : e[i + 1] \in Contents[e[i]]
  BY <1>2, <1>5, <1>7
<1>9. \A i \in 1..Len(e) : Lists(e[i])
  <2>1. \A i \in 1..k + 1 : i \in 1..k \/ i = k + 1
    BY <1>2
  <2>2. QED
    BY <1>5, <1>7, <2>1
<1>10. e[1] = Root /\ Len(e) \in 1..MaxWalkDepth + 1 /\ (maxDepth = 0 \/ Len(e) <= maxDepth)
  BY <1>1, <1>2, <1>5
<1>11. QED
  BY <1>4, <1>5, <1>8, <1>9, <1>10, AskedIs

\* And asks for nothing but directories.
LEMMA AskedLast ==
    ASSUME NEW p \in Seq(Node), NEW n \in Node, Append(p, n) \in Asked
    PROVE  Lists(n)
<1>1. PICK k, e : k = Len(p) /\ k \in Nat /\ e = Append(p, n)
  BY LenProperties
<1>2. Len(e) = k + 1 /\ e[k + 1] = n
  BY <1>1, PathAppend
<1>3. k + 1 \in 1..Len(e)
  BY <1>1, <1>2
<1>4. QED
  BY <1>1, <1>2, <1>3, AskedIs

\* What a walk comes to lies in directories that are listed, but for what is in
\* one that is too deep.
LEMMA TracedIs ==
    ASSUME NEW e \in Traced
    PROVE  /\ e \in Seq(Node) /\ Len(e) \in 2..MaxWalkDepth + 2
           /\ maxDepth = 0 \/ Len(e) - 1 <= maxDepth
           /\ e[1] = Root
           /\ \A i \in 1..Len(e) - 1 : Lists(e[i]) /\ (i <= MaxWalkDepth => e[i + 1] \in Contents[e[i]])
<1>1. CASE e \in Entries
  <2>1. Len(e) \in 2..MaxWalkDepth + 2
    BY <1>1, EntryIs, DepthsAreNat
  <2>2. QED
    BY <1>1, <2>1, EntryIs
<1>2. ASSUME NEW p \in Asked \ Listed, e = Append(p, Root)
      PROVE  /\ e \in Seq(Node) /\ Len(e) \in 2..MaxWalkDepth + 2
             /\ maxDepth = 0 \/ Len(e) - 1 <= maxDepth
             /\ e[1] = Root
             /\ \A i \in 1..Len(e) - 1 : Lists(e[i]) /\ (i <= MaxWalkDepth => e[i + 1] \in Contents[e[i]])
  <2>1. PICK k : /\ k = Len(p) /\ k \in 1..MaxWalkDepth + 1 /\ ~(k <= MaxWalkDepth) /\ p \in Seq(Node) /\ p[1] = Root
                 /\ maxDepth = 0 \/ k <= maxDepth
                 /\ \A i \in 1..k - 1 : p[i + 1] \in Contents[p[i]]
                 /\ \A i \in 1..k : Lists(p[i])
    BY <1>2, AskedIs DEF Listed
  <2>2. k = MaxWalkDepth + 1 /\ MaxWalkDepth \in Nat /\ k \in Nat
    BY <2>1, DepthsAreNat
  <2>3. e \in Seq(Node) /\ Len(e) = k + 1 /\ \A i \in 1..k : e[i] = p[i]
    BY <1>2, <2>1, PathAppend, RootIsNode
  <2>4. Len(e) - 1 = k /\ Len(e) \in 2..MaxWalkDepth + 2 /\ e[1] = Root
    BY <2>1, <2>2, <2>3, DepthsAreNat
  <2>5. ASSUME NEW i \in 1..k
        PROVE  Lists(e[i]) /\ (i <= MaxWalkDepth => e[i + 1] \in Contents[e[i]])
    <3>1. i <= MaxWalkDepth => i \in 1..k - 1 /\ i + 1 \in 1..k
      BY <2>2
    <3>2. QED
      BY <2>1, <2>3, <3>1
  <2>6. \A i \in 1..Len(e) - 1 : Lists(e[i]) /\ (i <= MaxWalkDepth => e[i + 1] \in Contents[e[i]])
    BY <2>4, <2>5
  <2>7. maxDepth = 0 \/ Len(e) - 1 <= maxDepth
    BY <2>1, <2>4
  <2>8. QED
    BY <2>3, <2>4, <2>6, <2>7
<1>3. QED
  BY <1>1, <1>2 DEF Traced

\* Nothing but directories of the tree is on the stack, or left to descend into.
LEMMA OnTreeStep ==
    ASSUME TypesInv, TreeInv, Still, OnTree, Walk, result' \in {"none", "ok"}
    PROVE  OnTree'
<1>0. /\ StackInv /\ FramesType /\ Depth \in Nat /\ MaxWalkDepth \in Nat /\ maxDepth \in Nat
  BY LenProperties, DepthsAreNat DEF TypesInv, StackInv, WalkTypes, FramesType, Depth
<1>1. UNCHANGED <<maxDepth, status, elsewhere, mounted>>
  BY DEF Walk, WalkRoot, StopAtDepth, OpenDir, ListingEnds, RecheckRoot, Return, Aborts,
         EntryBadName, EntryUnreadable, EntryGone, EntryOffPin, EntryDir, EntryFile, EntrySpecial, Entry,
         ChildUnreadable, ChildOffPin, ChildNoDirectory, Descend, Skip, phone
<1>2. Asked' = Asked
  BY <1>1, TreeKept
<1>3. ASSUME frames' = frames, step' = "entries" => unread' \subseteq Contents[Top.path[Depth]]
      PROVE  OnTree'
  <2>1. Depth' = Depth /\ Top' = Top /\ \A k \in 1..Depth : frames'[k].path = frames[k].path /\ Kids(k)' = Kids(k)
    BY <1>3 DEF Depth, Top, Kids
  <2>2. QED
    BY <1>2, <1>3, <2>1 DEF OnTree
<1>4. CASE WalkRoot
  <2>1. RootFailure = "none"
    BY <1>4 DEF WalkRoot, Aborts, RootFailure
  <2>2. frames' = <<Call(<<Root>>)>> /\ step' = "open"
    BY <1>4, <2>1 DEF WalkRoot
  <2>3. Depth' = 1 /\ frames'[1].path = <<Root>> /\ Kids(1)' = {}
    BY <2>2 DEF Depth, Call, Kids, Members
  <2>4. Lists(Root)
    <3>1. status[Root] = "dir" /\ OnPin(Root)
      BY <2>1 DEF RootFailure
    <3>2. Root \notin Unnameable
      BY TreeTypes
    <3>3. QED
      BY <3>1, <3>2 DEF Lists
  <2>5. PICK p : p = <<Root>> /\ p \in Seq(Node) /\ Len(p) = 1 /\ p[1] = Root
    <3>1. <<Root>> \in Seq(Node) /\ Len(<<Root>>) = 1 /\ <<Root>>[1] = Root
      BY RootIsNode
    <3>2. QED
      BY <3>1
  <2>6. p \in Asked
    <3>1. Len(p) \in 1..MaxWalkDepth + 1 /\ (maxDepth = 0 \/ Len(p) <= maxDepth)
      BY <1>0, <2>5
    <3>2. \A i \in 1..Len(p) - 1 : p[i + 1] \in Contents[p[i]]
      BY <2>5
    <3>3. \A i \in 1..Len(p) : Lists(p[i])
      BY <2>4, <2>5
    <3>4. QED
      BY <2>5, <3>1, <3>2, <3>3, AskedIs
  <2>7. QED
    BY <1>2, <2>2, <2>3, <2>5, <2>6 DEF OnTree
<1>5. CASE StopAtDepth \/ Return
  <2>1. Depth > 0 /\ frames' = SubSeq(frames, 1, Depth - 1) /\ step' # "entries"
    BY <1>0, <1>5 DEF StopAtDepth, Return, StackInv
  <2>2. PICK c : c = Depth - 1 /\ c \in Nat
    BY <1>0, <2>1
  <2>3. Depth' = c /\ \A k \in 1..c : frames'[k] = frames[k] /\ Kids(k)' = Kids(k)
    BY <1>0, <2>1, <2>2, DropFrames
  <2>4. \A k \in 1..c : k \in 1..Depth
    BY <1>0, <2>2
  <2>5. QED
    BY <1>2, <2>1, <2>3, <2>4 DEF OnTree
<1>6. CASE OpenDir
  BY <1>3, <1>6 DEF OpenDir
<1>7. CASE ListingEnds \/ RecheckRoot
  BY <1>3, <1>7 DEF ListingEnds, RecheckRoot, Aborts
<1>8. ASSUME NEW n \in Node, EntryBadName(n) \/ EntryUnreadable(n) \/ EntryGone(n) \/ EntryOffPin(n)
                               \/ EntryDir(n) \/ EntryFile(n) \/ EntrySpecial(n)
      PROVE  OnTree'
  <2>1. step = "entries" /\ step' = "entries" /\ n \in unread /\ unread' = unread \ {n}
    BY <1>8 DEF EntryBadName, EntryUnreadable, EntryGone, EntryOffPin, EntryDir, EntryFile, EntrySpecial, Entry
  <2>2. CASE frames' = frames
    BY <1>3, <2>1, <2>2 DEF OnTree
  <2>3. CASE EntryDir(n) /\ MayDescend
    <3>1. PICK d : d = Depth /\ d \in Nat /\ d > 0 /\ d <= MaxWalkDepth
      BY <1>0, <2>1 DEF StackInv
    <3>2. /\ Depth' = d
          /\ \A k \in 1..d - 1 : Kids(k)' = Kids(k)
          /\ \A k \in 1..d : frames'[k].path = frames[k].path
          /\ Kids(Depth)' = Kids(Depth) \cup {n}
      BY <1>0, <2>3, <3>1, EntryFrames
    <3>3. Kids(d)' = Kids(d) \cup {n}
      <4>1. Kids(Depth)' = Kids(d)'
        BY <3>2
      <4>2. QED
        BY <3>1, <3>2, <4>1
    <3>4. d \in 1..d /\ frames[d].path \in Asked /\ unread \subseteq Contents[frames[d].path[d]]
      BY <2>1, <3>1 DEF OnTree, Top
    <3>5. Len(frames[d].path) = d
      BY <3>1, <3>4 DEF TypesInv, PathsFit, Depth
    <3>6. Lists(n)
      BY <2>3 DEF EntryDir, MayDescend, Lists
    <3>7. Append(frames[d].path, n) \in Asked
      <4>1. n \in Contents[LastOf(frames[d].path)]
        BY <2>1, <3>4, <3>5 DEF LastOf
      <4>2. Len(frames[d].path) <= MaxWalkDepth /\ (maxDepth = 0 \/ Len(frames[d].path) + 1 <= maxDepth)
        BY <1>0, <2>3, <3>1, <3>5 DEF MayDescend
      <4>3. QED
        BY <3>4, <3>6, <4>1, <4>2, AskedAppend
    <3>8. ASSUME NEW k \in 1..d, NEW x \in Kids(k)'
          PROVE  frames'[k].path \in Asked /\ Append(frames'[k].path, x) \in Asked
      <4>1. frames'[k].path = frames[k].path /\ (x \in Kids(k) \/ (k = d /\ x = n))
        <5>1. CASE k = d
          BY <3>2, <3>3, <3>8, <5>1
        <5>2. CASE k # d
          <6>1. k \in 1..d - 1
            BY <3>1, <5>2
          <6>2. QED
            BY <3>2, <3>8, <6>1
        <5>3. QED
          BY <5>1, <5>2
      <4>2. QED
        BY <3>1, <3>7, <4>1 DEF OnTree
    <3>9. \A k \in 1..d : frames'[k].path \in Asked
      BY <3>1, <3>2 DEF OnTree
    <3>10. unread' \subseteq Contents[frames'[d].path[d]]
      BY <2>1, <3>2, <3>4
    <3>11. Top' = frames'[d]
      BY <3>2 DEF Top
    <3>12. QED
      BY <1>2, <3>2, <3>8, <3>9, <3>10, <3>11 DEF OnTree
  <2>4. QED
    BY <1>8, <2>2, <2>3 DEF EntryBadName, EntryUnreadable, EntryGone, EntryOffPin, EntryDir, EntryFile, EntrySpecial
<1>9. ASSUME NEW n \in Node, ChildUnreadable(n) \/ ChildOffPin(n) \/ ChildNoDirectory(n) \/ Descend(n)
      PROVE  OnTree'
  <2>1. Child(n) /\ step = "next" /\ step' # "entries" /\ (Descend(n) \/ frames' = Others)
    BY <1>9 DEF ChildUnreadable, ChildOffPin, ChildNoDirectory, Descend, Skip, Child
  <2>2. PICK d, rest : d = Depth /\ d \in Nat /\ d > 0 /\ rest = Others
    BY <1>0, <2>1 DEF StackInv
  <2>3. /\ Len(rest) = d
        /\ \A k \in 1..d - 1 : rest[k] = frames[k]
        /\ \A k \in 1..d : rest[k].path = frames[k].path
        /\ rest[d].children = Tail(Top.children)
        /\ Kids(Depth) = {n} \cup Members(rest[d].children)
    BY <1>0, <2>1, <2>2, OthersFrames
  <2>4. ASSUME NEW k \in 1..d, NEW x \in Members(rest[k].children)
        PROVE  x \in Kids(k)
    <3>1. CASE k = d
      BY <2>2, <2>3, <2>4, <3>1
    <3>2. CASE k # d
      <4>1. k \in 1..d - 1
        BY <2>2, <3>2
      <4>2. QED
        BY <2>3, <2>4, <4>1 DEF Kids
    <3>3. QED
      BY <3>1, <3>2
  <2>5. \A k \in 1..d : frames[k].path \in Asked /\ \A x \in Kids(k) : Append(frames[k].path, x) \in Asked
    BY <2>2 DEF OnTree
  <2>6. CASE frames' = Others
    <3>1. Depth' = d /\ \A k \in 1..d : Kids(k)' = Members(rest[k].children)
      BY <2>2, <2>3, <2>6 DEF Depth, Kids
    <3>2. \A k \in 1..d : frames'[k].path = frames[k].path
      BY <2>2, <2>3, <2>6
    <3>3. QED
      BY <1>2, <2>1, <2>4, <2>5, <3>1, <3>2 DEF OnTree
  <2>7. CASE Descend(n)
    <3>1. /\ Depth' = d + 1
          /\ \A k \in 1..d : frames'[k].path = frames[k].path
          /\ \A k \in 1..d - 1 : Kids(k)' = Kids(k)
          /\ frames'[d].children = Tail(Top.children)
          /\ frames'[d + 1].path = Append(Top.path, n) /\ frames'[d + 1].children = <<>>
      BY <1>0, <2>2, <2>7, DescendFrames DEF TypesInv
    <3>2. Kids(d)' = Members(rest[d].children) /\ Kids(d + 1)' = {}
      BY <2>3, <3>1 DEF Kids, Members
    <3>3. ASSUME NEW k \in 1..d
          PROVE  frames'[k].path \in Asked /\ \A x \in Kids(k)' : Append(frames'[k].path, x) \in Asked
      <4>1. Kids(k)' \subseteq Kids(k)
        <5>1. CASE k = d
          BY <2>4, <3>2, <5>1
        <5>2. CASE k # d
          <6>1. k \in 1..d - 1
            BY <2>2, <5>2
          <6>2. QED
            BY <3>1, <6>1
        <5>3. QED
          BY <5>1, <5>2
      <4>2. QED
        BY <2>5, <3>1, <4>1
    <3>4. frames'[d + 1].path \in Asked
      <4>1. d \in 1..d /\ Top.path = frames[d].path /\ n \in Kids(d)
        BY <2>2, <2>3 DEF Top
      <4>2. QED
        BY <2>5, <3>1, <4>1
    <3>5. \A k \in 1..d + 1 : k \in 1..d \/ k = d + 1
      BY <2>2
    <3>6. QED
      BY <1>2, <2>1, <3>1, <3>2, <3>3, <3>4, <3>5 DEF OnTree
  <2>8. QED
    BY <2>1, <2>6, <2>7
<1>10. QED
  BY <1>4, <1>5, <1>6, <1>7, <1>8, <1>9 DEF Walk

\* Steps after which a walk of a still tree has before it what it had.
LEMMA TraceOn ==
    ASSUME TypesInv, TreeInv, NEW e \in Traced, result' \in {"none", "ok"},
           WalkRoot \/ OpenDir \/ ListingEnds \/ RecheckRoot \/ Return \/ \E n \in Node : Descend(n)
    PROVE  ToCome(e)' <=> ToCome(e)
<1>1. PICK m : /\ m = Len(e) /\ m \in Nat /\ m > 1 /\ e \in Seq(Node) /\ e[1] = Root
               /\ \A i \in 1..m - 1 : Lists(e[i]) /\ (i <= MaxWalkDepth => e[i + 1] \in Contents[e[i]])
  BY TracedIs, LenProperties
<1>2. CASE WalkRoot
  <2>1. RootFailure = "none"
    BY <1>2 DEF WalkRoot, Aborts, RootFailure
  <2>2. 2 \in 1..m
    BY <1>1
  <2>3. e[2] \in Node
    BY <1>1, <2>2, ElementOfSeq
  <2>4. step = "root"
    BY <1>2 DEF WalkRoot
  <2>5. QED
    BY <1>1, <1>2, <2>1, <2>3, <2>4, RootComes DEF ToCome
<1>3. CASE OpenDir
  <2>1. PICK d : d = Depth /\ d \in Nat /\ d > 0 /\ d <= MaxWalkDepth
    BY <1>3, Ground, DepthsAreNat DEF OpenDir, TooDeep
  <2>2. ASSUME Passes(Depth, Node, e)
        PROVE  e[Depth + 1] \in unread'
    <3>1. d \in 1..m - 1 /\ d \in 1..d /\ e[d] = frames[d].path[d]
      BY <1>1, <2>1, <2>2 DEF Passes
    <3>2. e[d + 1] \in Contents[e[d]] /\ status[e[d]] = "dir"
      BY <1>1, <2>1, <3>1 DEF Lists
    <3>3. unread' = Contents[e[d]]
      BY <1>3, <2>1, <3>1, <3>2 DEF OpenDir, Top
    <3>4. QED
      BY <2>1, <3>2, <3>3
  <2>3. QED
    BY <1>3, <2>2, OpenComes
<1>4. CASE ListingEnds
  BY <1>4, OnComes DEF ListingEnds
<1>5. CASE RecheckRoot
  <2>1. PinHolds
    BY <1>5 DEF RecheckRoot, Aborts
  <2>2. QED
    BY <1>5, <2>1, OnComes DEF RecheckRoot
<1>6. CASE Return
  BY <1>6, ReturnComes
<1>7. ASSUME NEW n \in Node, Descend(n)
      PROVE  ToCome(e)' <=> ToCome(e)
  BY <1>1, <1>7, DescendComes
<1>8. QED
  BY <1>2, <1>3, <1>4, <1>5, <1>6, <1>7

\* The entry adbd sends is one of the tree, was to come, and is all that is not to
\* come any more.
LEMMA TraceEntry ==
    ASSUME TypesInv, TreeInv, OnTree, NEW n \in Node, NEW x, x = Append(Top.path, n),
           EntryBadName(n) \/ EntryUnreadable(n) \/ EntryGone(n) \/ EntryOffPin(n)
             \/ EntryDir(n) \/ EntryFile(n) \/ EntrySpecial(n)
    PROVE  /\ x \in Entries /\ ToCome(x)
           /\ \A e \in Traced : ToCome(e)' <=> ToCome(e) /\ e # x
<1>1. Entry(n) /\ step = "entries" /\ n \in unread
  BY DEF EntryBadName, EntryUnreadable, EntryGone, EntryOffPin, EntryDir, EntryFile, EntrySpecial, Entry
<1>2. PICK d : d = Depth /\ d \in Nat /\ d > 0 /\ d <= MaxWalkDepth
  BY <1>1, Ground DEF TypesInv, StackInv
<1>3. FramesType /\ PathsFit(frames) /\ maxDepth \in Nat
  BY <1>1, Ground, DepthsAreNat DEF TypesInv, WalkTypes
<1>4. /\ x \in Seq(Node) /\ Len(x) = d + 1
      /\ Passes(Depth, unread, x) /\ Passes(Depth, {n}, x)
      /\ \A e \in Seq(Node) : Passes(Depth, {n}, e) /\ Len(e) = d + 1 => e = x
  BY <1>1, <1>2, <1>3, EntryPath
<1>5. x \in Entries
  <2>1. d \in 1..d /\ Top.path = frames[d].path /\ Len(Top.path) = d
    BY <1>2, <1>3, TopPath DEF Top
  <2>2. Top.path \in Listed
    BY <1>2, <2>1 DEF OnTree, Listed
  <2>3. n \in Contents[LastOf(Top.path)]
    BY <1>1, <1>2, <2>1 DEF OnTree, LastOf
  <2>4. QED
    BY <2>2, <2>3 DEF Entries
<1>6. ToCome(x)
  BY <1>1, <1>4, ToComeIs
<1>7. ASSUME NEW e \in Traced
      PROVE  ToCome(e)' <=> ToCome(e) /\ e # x
  <2>1. PICK m : /\ m = Len(e) /\ m \in Nat /\ e \in Seq(Node)
                 /\ \A i \in 1..m - 1 : Lists(e[i])
    BY TracedIs, LenProperties
  <2>2. maxDepth = 0 \/ m - 1 <= maxDepth
    BY TracedIs, <2>1
  <2>3. CASE EntryDir(n) /\ MayDescend
    <3>1. ToCome(e)' <=> ToCome(e) /\ ~(Passes(Depth, {n}, e) /\ Len(e) = Depth + 1)
      BY <2>1, <2>3, DirComes
    <3>2. QED
      BY <1>2, <1>4, <2>1, <3>1
  <2>4. CASE frames' = frames /\ ~(EntryDir(n) /\ MayDescend)
    <3>1. ToCome(e)' <=> ToCome(e) /\ ~Passes(Depth, {n}, e)
      BY <1>1, <2>4, EntryComes
    <3>2. ASSUME Passes(Depth, {n}, e)
          PROVE  m = d + 1
      <4>1. SUFFICES ASSUME m # d + 1
                     PROVE  FALSE
        OBVIOUS
      <4>2. d + 1 \in 1..m - 1 /\ e[d + 1] = n /\ d < m - 1
        BY <1>2, <2>1, <3>2, <4>1 DEF Passes
      <4>3. Lists(n)
        BY <2>1, <4>2
      <4>4. MayDescend
        BY <1>2, <1>3, <2>1, <2>2, <4>2 DEF MayDescend
      <4>5. EntryDir(n)
        BY <4>3, <4>4 DEF EntryBadName, EntryUnreadable, EntryGone, EntryOffPin, EntryFile, EntrySpecial,
                          Emits, Readable, Kinds, Lists
      <4>6. QED
        BY <2>4, <4>4, <4>5
    <3>3. QED
      BY <1>4, <2>1, <3>1, <3>2
  <2>5. QED
    BY <2>3, <2>4 DEF EntryBadName, EntryUnreadable, EntryGone, EntryOffPin, EntryDir, EntryFile, EntrySpecial
<1>8. QED
  BY <1>5, <1>6, <1>7

\* A directory too deep was to come, and is all that is not to come any more.
LEMMA TraceStop ==
    ASSUME TypesInv, TreeInv, OnTree, StopAtDepth, NEW x, x = Append(Top.path, Root)
    PROVE  /\ Top.path \in Asked \ Listed /\ ToCome(x)
           /\ \A e \in Traced : ToCome(e)' <=> ToCome(e) /\ e # x
<1>1. step = "open"
  BY DEF StopAtDepth
<1>2. PICK d : d = Depth /\ d \in Nat /\ d > 0 /\ d = MaxWalkDepth + 1
  BY <1>1, Ground, DepthsAreNat DEF StopAtDepth, TooDeep, TypesInv, StackInv
<1>3. FramesType /\ PathsFit(frames)
  BY <1>1, Ground
<1>4. /\ x \in Seq(Node) /\ Len(x) = d + 1
      /\ Passes(Depth, Node, x)
      /\ \A e \in Seq(Node) : Passes(Depth, {Root}, e) /\ Len(e) = d + 1 => e = x
  BY <1>1, <1>2, <1>3, EntryPath, RootIsNode
<1>5. Top.path \in Asked \ Listed
  <2>1. d \in 1..d /\ Top.path = frames[d].path /\ Len(Top.path) = d /\ ~(d <= MaxWalkDepth)
    BY <1>2, <1>3, TopPath, DepthsAreNat DEF Top
  <2>2. QED
    BY <1>2, <2>1 DEF OnTree, Listed
<1>6. ToCome(x)
  BY <1>1, <1>4, ToComeIs
<1>7. ASSUME NEW e \in Traced
      PROVE  ToCome(e)' <=> ToCome(e) /\ e # x
  <2>1. ToCome(e)' <=> ToCome(e) /\ ~Passes(Depth, Node, e)
    BY StopComes
  <2>2. ASSUME Passes(Depth, Node, e)
        PROVE  e = x
    <3>1. e \in Seq(Node) /\ Len(e) > d
      BY <1>2, <2>2, TracedIs DEF Passes
    <3>2. CASE e \in Entries
      BY <1>2, <3>1, <3>2, EntryIs, DepthsAreNat
    <3>3. ASSUME NEW p \in Asked \ Listed, e = Append(p, Root)
          PROVE  e = x
      <4>1. PICK k : k = Len(p) /\ p \in Seq(Node) /\ k = d
        BY <1>2, AskedIs, DepthsAreNat DEF Listed
      <4>2. Len(e) = d + 1 /\ e[d + 1] = Root
        <5>1. p \in Seq(Node) /\ k = Len(p) /\ e = Append(p, Root) /\ Root \in Node
          BY <3>3, <4>1, RootIsNode
        <5>2. Len(e) = k + 1 /\ e[k + 1] = Root
          BY ONLY <5>1, PathAppend
        <5>3. QED
          BY <4>1, <5>2
      <4>3. Passes(Depth, {Root}, e)
        BY <1>2, <2>2, <4>2 DEF Passes
      <4>4. QED
        BY <1>4, <3>1, <4>2, <4>3
    <3>4. QED
      BY <3>2, <3>3 DEF Traced
  <2>3. QED
    BY <1>4, <2>1, <2>2
<1>8. QED
  BY <1>5, <1>6, <1>7

\* A still tree has nothing on the stack but directories, and what is left to
\* descend into is one.
LEMMA ChildrenLast ==
    ASSUME TypesInv, TreeInv, OnTree, NEW n \in Node, Child(n)
    PROVE  Lists(n)
<1>1. step = "next"
  BY DEF Child
<1>2. FramesType /\ PathsFit(frames) /\ Depth \in Nat /\ Depth > 0
  BY <1>1, Ground
<1>3. PICK rest : rest = Others
  OBVIOUS
<1>4. n \in Kids(Depth)
  BY <1>2, <1>3, OthersFrames
<1>5. Append(Top.path, n) \in Asked
  BY <1>2, <1>4 DEF OnTree, Top
<1>6. QED
  BY <1>2, <1>5, TopPath, AskedLast

\* The problems of one more entry are its own.
LEMMA OneMore ==
    ASSUME NEW E, NEW x
    PROVE  ProblemsIn(E \cup {x}) = ProblemsIn(E) \cup ProblemsOf(x)
<1>1. \A S, y : y \in ProblemsIn(S) <=> \E e \in S : y \in ProblemsOf(e)
  BY DEF ProblemsIn
<1>2. \A y : y \in ProblemsIn(E \cup {x}) <=> y \in ProblemsIn(E) \cup ProblemsOf(x)
  BY <1>1
<1>3. QED
  BY <1>2

\* The directory of an entry, and its name.
LEMMA EntryParts ==
    ASSUME FramesType, PathsFit(frames), Depth > 0, NEW n \in Node, NEW x, x = Append(Top.path, n)
    PROVE  Len(x) = Depth + 1 /\ LastOf(x) = n /\ DirOf(x) = Top.path
<1>1. PICK d, p : d = Depth /\ p = Top.path /\ d \in Nat /\ d > 0 /\ p \in Seq(Node) /\ Len(p) = d
  BY TopPath, LenProperties DEF FramesType, Depth
<1>2. x \in Seq(Node) /\ Len(x) = d + 1 /\ x[d + 1] = n /\ \A i \in 1..d : x[i] = p[i]
  BY <1>1, PathAppend
<1>3. PICK q : q = SubSeq(x, 1, d)
  OBVIOUS
<1>4. q \in Seq(Node) /\ Len(q) = d /\ \A i \in 1..d : q[i] = x[i]
  BY <1>1, <1>2, <1>3
<1>5. q = p
  BY <1>1, <1>2, <1>4, SeqEqual
<1>6. (d + 1) - 1 = d
  BY <1>1
<1>7. QED
  BY <1>1, <1>2, <1>3, <1>5, <1>6 DEF LastOf, DirOf

\* A step that tells the consumer nothing, and leaves nothing behind.
LEMMA SameAccounted ==
    ASSUME UNCHANGED <<maxDepth, status, elsewhere, mounted, emitted, summary>>,
           \A e \in Traced : ToCome(e)' <=> ToCome(e),
           Accounted(Had, Past)
    PROVE  Accounted(Had, Past)'
<1>1. /\ Asked' = Asked /\ Listed' = Listed /\ Entries' = Entries
      /\ \A E : FilesIn(E)' = FilesIn(E) /\ OmittedIn(E)' = OmittedIn(E)
      /\ \A E : ProblemsIn(E)' = ProblemsIn(E)
  BY TreeKept
<1>2. Had' = Had
  BY <1>1 DEF Had, Traced
<1>3. Past' = Past
  BY <1>1 DEF Past, Traced
<1>4. PICK E, P : E = Had /\ P = Past
  OBVIOUS
<1>5. Accounted(E, P)'
  <2>1. Accounted(E, P) /\ NotListed(P)' = NotListed(P)
    BY <1>4 DEF NotListed
  <2>2. QED
    BY <1>1, <2>1 DEF Accounted
<1>6. QED
  BY <1>2, <1>3, <1>4, <1>5

\* An entry goes to the consumer, to the counts or to the errors, as it must.
LEMMA EntryAccounted ==
    ASSUME TypesInv, TreeInv, Still, NEW n \in Node, NEW E, NEW P, NEW x, x = Append(Top.path, n),
           x \notin E, Accounted(E, P),
           EntryBadName(n) \/ EntryUnreadable(n) \/ EntryGone(n) \/ EntryOffPin(n)
             \/ EntryDir(n) \/ EntryFile(n) \/ EntrySpecial(n)
    PROVE  Accounted(E \cup {x}, P)'
<1>1. Entry(n) /\ step = "entries" /\ UNCHANGED <<maxDepth, status, elsewhere, mounted>>
  BY DEF EntryBadName, EntryUnreadable, EntryGone, EntryOffPin, EntryDir, EntryFile, EntrySpecial, Entry, phone
<1>2. FramesType /\ PathsFit(frames) /\ Depth \in Nat /\ Depth > 0 /\ maxDepth \in Nat
  BY <1>1, Ground, DepthsAreNat DEF TypesInv, WalkTypes
<1>3. Len(x) = Depth + 1 /\ LastOf(x) = n /\ DirOf(x) = Top.path
  BY <1>2, EntryParts
<1>4. PICK p : p = Top.path
  OBVIOUS
<1>5. PICK F, O, G, Q : F = FilesIn(E) /\ O = OmittedIn(E) /\ G = ProblemsOf(x) /\ Q = ProblemsIn(E) \cup NotListed(P)
  OBVIOUS
<1>6. emitted = F /\ IsFiniteSet(O) /\ summary.refused = Cardinality(O) /\ summary.errors = Q
  BY <1>5 DEF Accounted
<1>7. /\ FilesIn(E \cup {x})' = F \cup {y \in {x} : Emits(n)}
      /\ OmittedIn(E \cup {x})' = O \cup {y \in {x} : Readable(n) /\ (~OnPin(n) \/ status[n] = "special")}
      /\ (ProblemsIn(E \cup {x}) \cup NotListed(P))' = Q \cup G
  <2>1. /\ FilesIn(E \cup {x})' = FilesIn(E \cup {x}) /\ OmittedIn(E \cup {x})' = OmittedIn(E \cup {x})
        /\ ProblemsIn(E \cup {x})' = ProblemsIn(E \cup {x})
    BY <1>1, TreeKept
  <2>2. /\ FilesIn(E \cup {x}) = F \cup {y \in {x} : Emits(n)}
        /\ OmittedIn(E \cup {x}) = O \cup {y \in {x} : Readable(n) /\ (~OnPin(n) \/ status[n] = "special")}
    BY <1>3, <1>5 DEF FilesIn, OmittedIn
  <2>3. NotListed(P)' = NotListed(P)
    BY DEF NotListed
  <2>4. ProblemsIn(E \cup {x}) \cup NotListed(P) = Q \cup G
    BY <1>5, OneMore
  <2>5. QED
    BY <2>1, <2>2, <2>3, <2>4
<1>8. G = {y \in {Problem(x, CodeOf(status[n]))} : n \notin Unnameable /\ ~Readable(n)}
          \cup {y \in {Problem(p, "path_denied")} :
                  /\ n \in Unnameable
                  /\ \/ ~Readable(n)
                     \/ OnPin(n) /\ status[n] = "file"
                     \/ OnPin(n) /\ status[n] = "dir" /\ MayDescend}
  <2>1. maxDepth = 0 \/ Len(x) <= maxDepth <=> MayDescend
    BY <1>2, <1>3 DEF MayDescend
  <2>2. NeedsName(x) <=> \/ ~Readable(n)
                         \/ OnPin(n) /\ status[n] = "file"
                         \/ OnPin(n) /\ status[n] = "dir" /\ MayDescend
    BY <1>3, <2>1 DEF NeedsName
  <2>3. QED
    BY <1>3, <1>4, <1>5, <2>2 DEF ProblemsOf
<1>9. x \notin O /\ summary \in SummaryType
  BY <1>5 DEF OmittedIn, TypesInv, WalkTypes
<1>10. IsFiniteSet(O \cup {x}) /\ Cardinality(O \cup {x}) = Cardinality(O) + 1
  <2>1. IsFiniteSet(O) /\ x \notin O
    BY <1>6, <1>9
  <2>2. QED
    BY ONLY <2>1, FS_AddElement
<1> DEFINE Done(files, omitted, problems) ==
             /\ emitted' = files
             /\ IsFiniteSet(omitted) /\ summary'.refused = Cardinality(omitted)
             /\ summary'.errors = problems
<1>11. SUFFICES Done(F \cup {y \in {x} : Emits(n)},
                     O \cup {y \in {x} : Readable(n) /\ (~OnPin(n) \/ status[n] = "special")},
                     Q \cup G)
  BY <1>7 DEF Accounted
<1>12. CASE EntryBadName(n)
  <2>1. ~Emits(n) /\ ~(Readable(n) /\ (~OnPin(n) \/ status[n] = "special"))
    BY <1>12 DEF EntryBadName, Emits
  <2>2. G = {Problem(p, "path_denied")}
    BY <1>8, <1>12 DEF EntryBadName
  <2>3. emitted' = F /\ summary'.refused = Cardinality(O) /\ summary'.errors = Q \cup G
    BY <1>4, <1>6, <1>9, <1>12, <2>2 DEF EntryBadName, BadName, Recorded, SummaryType
  <2>4. QED
    BY <1>6, <2>1, <2>3
<1>13. CASE EntryUnreadable(n)
  <2>1. ~Emits(n) /\ ~(Readable(n) /\ (~OnPin(n) \/ status[n] = "special"))
    BY <1>13 DEF EntryUnreadable, Emits, Readable, Kinds
  <2>2. G = {Problem(x, CodeOf(status[n]))}
    BY <1>8, <1>13 DEF EntryUnreadable
  <2>3. emitted' = F /\ summary'.refused = Cardinality(O) /\ summary'.errors = Q \cup G
    BY <1>6, <1>9, <1>13, <2>2 DEF EntryUnreadable, Recorded, SummaryType
  <2>4. QED
    BY <1>6, <2>1, <2>3
<1>14. CASE EntryGone(n)
  BY <1>14 DEF EntryGone, Still
<1>15. CASE EntryOffPin(n)
  <2>1. ~Emits(n) /\ Readable(n) /\ (~OnPin(n) \/ status[n] = "special")
    BY <1>15 DEF EntryOffPin, Emits
  <2>2. G = {}
    BY <1>8, <1>15 DEF EntryOffPin
  <2>3. emitted' = F /\ summary'.refused = Cardinality(O) + 1 /\ summary'.errors = Q
    BY <1>6, <1>9, <1>15 DEF EntryOffPin, Refused, SummaryType
  <2>4. QED
    BY <1>10, <2>1, <2>2, <2>3
<1>16. CASE EntryDir(n)
  <2>1. ~Emits(n) /\ ~(Readable(n) /\ (~OnPin(n) \/ status[n] = "special"))
    BY <1>16 DEF EntryDir, Emits
  <2>2. G = {}
    BY <1>8, <1>16 DEF EntryDir, Readable, Kinds
  <2>3. emitted' = F /\ summary'.refused = Cardinality(O) /\ summary'.errors = Q
    BY <1>6, <1>16 DEF EntryDir
  <2>4. QED
    BY <1>6, <2>1, <2>2, <2>3
<1>17. CASE EntryFile(n)
  <2>1. Emits(n) /\ ~(Readable(n) /\ (~OnPin(n) \/ status[n] = "special"))
    BY <1>17 DEF EntryFile, Emits
  <2>2. G = {}
    BY <1>8, <2>1 DEF Emits, Readable, Kinds
  <2>3. emitted' = F \cup {x} /\ summary'.refused = Cardinality(O) /\ summary'.errors = Q
    BY <1>6, <1>9, <1>17 DEF EntryFile, SummaryType
  <2>4. QED
    BY <1>6, <2>1, <2>2, <2>3
<1>18. CASE EntrySpecial(n)
  <2>1. ~Emits(n) /\ Readable(n) /\ (~OnPin(n) \/ status[n] = "special")
    BY <1>18 DEF EntrySpecial, Emits, Readable, Kinds
  <2>2. G = {}
    BY <1>8, <1>18 DEF EntrySpecial, Readable, Kinds
  <2>3. emitted' = F /\ summary'.refused = Cardinality(O) + 1 /\ summary'.errors = Q
    BY <1>6, <1>9, <1>18 DEF EntrySpecial, Refused, SummaryType
  <2>4. QED
    BY <1>10, <2>1, <2>2, <2>3
<1>19. QED
  BY <1>12, <1>13, <1>14, <1>15, <1>16, <1>17, <1>18

\* A directory too deep goes to the errors.
LEMMA StopAccounted ==
    ASSUME TypesInv, StopAtDepth, NEW E, NEW P, NEW p, p = Top.path, Accounted(E, P)
    PROVE  Accounted(E, P \cup {p})'
<1>1. /\ UNCHANGED <<maxDepth, status, elsewhere, mounted, emitted>>
      /\ Recorded(Problem(p, "path_denied"))
  BY DEF StopAtDepth, phone
<1>2. /\ FilesIn(E)' = FilesIn(E) /\ OmittedIn(E)' = OmittedIn(E) /\ ProblemsIn(E)' = ProblemsIn(E)
  BY <1>1, TreeKept
<1>3. NotListed(P \cup {p})' = NotListed(P) \cup {Problem(p, "path_denied")}
  BY DEF NotListed
<1>4. summary \in SummaryType
  BY DEF TypesInv, WalkTypes
<1>5. summary'.refused = summary.refused /\ summary'.errors = summary.errors \cup {Problem(p, "path_denied")}
  BY <1>1, <1>4 DEF Recorded, SummaryType
<1>6. summary'.errors = (ProblemsIn(E) \cup NotListed(P)) \cup {Problem(p, "path_denied")}
  BY <1>5 DEF Accounted
<1>7. summary'.errors = ProblemsIn(E)' \cup NotListed(P \cup {p})'
  BY <1>2, <1>3, <1>6
<1>8. QED
  BY <1>1, <1>2, <1>5, <1>7 DEF Accounted

\* Directories apart are apart with the root behind them.
LEMMA AppendOne ==
    ASSUME NEW p \in Seq(Node), NEW q \in Seq(Node), Append(p, Root) = Append(q, Root)
    PROVE  p = q
<1>1. PICK k, e : k = Len(p) /\ k \in Nat /\ e = Append(p, Root)
  BY LenProperties
<1>2. Len(e) = k + 1 /\ \A i \in 1..k : e[i] = p[i]
  BY <1>1, PathAppend, RootIsNode
<1>3. PICK l : l = Len(q) /\ l \in Nat
  BY LenProperties
<1>4. Len(e) = l + 1 /\ \A i \in 1..l : e[i] = q[i]
  BY <1>1, <1>3, PathAppend, RootIsNode
<1>5. k = l
  BY <1>1, <1>2, <1>3, <1>4
<1>6. QED
  BY <1>1, <1>2, <1>3, <1>4, <1>5, SeqEqual

\* The account of a walk that has come to one more entry.
LEMMA EntryHad ==
    ASSUME TypesInv, TreeInv, Still, OnTree, Accounted(Had, Past), NEW n \in Node,
           EntryBadName(n) \/ EntryUnreadable(n) \/ EntryGone(n) \/ EntryOffPin(n)
             \/ EntryDir(n) \/ EntryFile(n) \/ EntrySpecial(n)
    PROVE  Accounted(Had, Past)'
<1>1. PICK x : x = Append(Top.path, n)
  OBVIOUS
<1>2. PICK E, P : E = Had /\ P = Past
  OBVIOUS
<1>3. x \in Entries /\ ToCome(x) /\ \A e \in Traced : ToCome(e)' <=> ToCome(e) /\ e # x
  BY <1>1, TraceEntry
<1>4. UNCHANGED <<maxDepth, status, elsewhere, mounted>>
  BY DEF EntryBadName, EntryUnreadable, EntryGone, EntryOffPin, EntryDir, EntryFile, EntrySpecial, Entry, phone
<1>5. Asked' = Asked /\ Listed' = Listed /\ Entries' = Entries
  BY <1>4, TreeKept
<1>6. Had' = E \cup {x}
  <2>1. \A e \in Entries : ToCome(e)' <=> ToCome(e) /\ e # x
    BY <1>3 DEF Traced
  <2>2. QED
    BY <1>2, <1>3, <1>5, <2>1 DEF Had
<1>7. Past' = P
  <2>1. ASSUME NEW p \in Asked \ Listed
        PROVE  ToCome(Append(p, Root))' <=> ToCome(Append(p, Root))
    <3>1. PICK y : y = Append(p, Root)
      OBVIOUS
    <3>2. PICK k : k = Len(p) /\ p \in Seq(Node) /\ k \in Nat /\ k > MaxWalkDepth
      BY AskedIs, DepthsAreNat DEF Listed
    <3>3. Len(y) = k + 1
      BY <3>1, <3>2, PathAppend, RootIsNode
    <3>4. Len(x) <= MaxWalkDepth + 1 /\ Len(x) \in Nat
      BY <1>3, EntryIs, DepthsAreNat
    <3>5. y # x
      BY <3>2, <3>3, <3>4, DepthsAreNat
    <3>6. y \in Traced
      BY <3>1 DEF Traced
    <3>7. ToCome(y)' <=> ToCome(y)
      BY <1>3, <3>5, <3>6
    <3>8. QED
      BY <3>1, <3>7
  <2>2. QED
    BY <1>2, <1>5, <2>1 DEF Past
<1>8. x \notin E
  BY <1>2, <1>3 DEF Had
<1>9. Accounted(E \cup {x}, P)'
  BY <1>1, <1>2, <1>8, EntryAccounted
<1>10. QED
  BY <1>6, <1>7, <1>9

\* And of one that has come to a directory too deep.
LEMMA StopHad ==
    ASSUME TypesInv, TreeInv, OnTree, Accounted(Had, Past), StopAtDepth
    PROVE  Accounted(Had, Past)'
<1>1. PICK x, q : q = Top.path /\ x = Append(q, Root)
  OBVIOUS
<1>2. PICK E, P : E = Had /\ P = Past
  OBVIOUS
<1>3. q \in Asked \ Listed /\ ToCome(x) /\ \A e \in Traced : ToCome(e)' <=> ToCome(e) /\ e # x
  BY <1>1, TraceStop
<1>4. UNCHANGED <<maxDepth, status, elsewhere, mounted>>
  BY DEF StopAtDepth, phone
<1>5. Asked' = Asked /\ Listed' = Listed /\ Entries' = Entries
  BY <1>4, TreeKept
<1>6. Had' = E
  <2>1. x \notin Entries
    <3>1. PICK k : k = Len(q) /\ q \in Seq(Node) /\ k \in Nat /\ k > MaxWalkDepth
      BY <1>3, AskedIs, DepthsAreNat DEF Listed
    <3>2. Len(x) = k + 1
      BY <1>1, <3>1, PathAppend, RootIsNode
    <3>3. QED
      BY <3>1, <3>2, EntryIs, DepthsAreNat
  <2>2. \A e \in Entries : ToCome(e)' <=> ToCome(e)
    BY <1>3, <2>1 DEF Traced
  <2>3. QED
    BY <1>2, <1>5, <2>2 DEF Had
<1>7. Past' = P \cup {q}
  <2>1. ASSUME NEW p \in Asked \ Listed
        PROVE  ToCome(Append(p, Root))' <=> ToCome(Append(p, Root)) /\ p # q
    <3>1. PICK y : y = Append(p, Root)
      OBVIOUS
    <3>2. p \in Seq(Node) /\ q \in Seq(Node)
      BY <1>3, AskedIs
    <3>3. y = x <=> p = q
      BY <1>1, <3>1, <3>2, AppendOne
    <3>4. y \in Traced
      BY <3>1 DEF Traced
    <3>5. ToCome(y)' <=> ToCome(y) /\ y # x
      BY <1>3, <3>4
    <3>6. QED
      BY <3>1, <3>3, <3>5
  <2>2. Past' = {p \in Asked \ Listed : ToCome(Append(p, Root)) => p = q}
    BY <1>5, <2>1 DEF Past
  <2>3. QED
    BY <1>1, <1>2, <1>3, <2>2 DEF Past
<1>8. Accounted(E, P \cup {q})'
  BY <1>1, <1>2, StopAccounted
<1>9. QED
  BY <1>6, <1>7, <1>8

\* A walk that has not begun owes nothing.
LEMMA NothingHad == TreeInv /\ step = "root" => OnTree /\ Accounted(Had, Past)
<1> SUFFICES ASSUME TreeInv, step = "root"
             PROVE  OnTree /\ Accounted(Had, Past)
  OBVIOUS
<1>1. frames = <<>> /\ emitted = {} /\ summary = [files |-> 0, refused |-> 0, errors |-> {}]
  BY DEF TreeInv, FreshInv
<1>2. Had = {} /\ Past = {}
  BY DEF Had, Past, ToCome
<1>3. FilesIn({}) = {} /\ OmittedIn({}) = {} /\ ProblemsIn({}) = {} /\ NotListed({}) = {}
  BY DEF FilesIn, OmittedIn, ProblemsIn, NotListed
<1>4. OnTree
  BY <1>1 DEF OnTree, Depth
<1>5. IsFiniteSet({}) /\ Cardinality({}) = 0
  BY FS_EmptySet
<1>6. Accounted({}, {})
  BY <1>1, <1>3, <1>5 DEF Accounted
<1>7. QED
  BY <1>2, <1>4, <1>6

\* A step of a walk of a still tree.
LEMMA StillWalk ==
    ASSUME TypesInv, TreeInv, Still, OnTree, Accounted(Had, Past), Walk, result' \in {"none", "ok"}
    PROVE  OnTree' /\ Accounted(Had, Past)'
<1>1. OnTree'
  BY OnTreeStep
<1>2. CASE WalkRoot \/ OpenDir \/ ListingEnds \/ RecheckRoot \/ Return \/ \E n \in Node : Descend(n)
  <2>1. UNCHANGED <<maxDepth, status, elsewhere, mounted, emitted, summary>>
    BY <1>2 DEF WalkRoot, OpenDir, ListingEnds, RecheckRoot, Return, Descend, Aborts, told, phone
  <2>2. \A e \in Traced : ToCome(e)' <=> ToCome(e)
    BY <1>2, TraceOn
  <2>3. QED
    BY <1>1, <2>1, <2>2, SameAccounted
<1>3. CASE StopAtDepth
  BY <1>1, <1>3, StopHad
<1>4. ASSUME NEW n \in Node, EntryBadName(n) \/ EntryUnreadable(n) \/ EntryGone(n) \/ EntryOffPin(n)
                               \/ EntryDir(n) \/ EntryFile(n) \/ EntrySpecial(n)
      PROVE  Accounted(Had, Past)'
  BY <1>4, EntryHad
<1>5. ASSUME NEW n \in Node, ChildUnreadable(n) \/ ChildOffPin(n) \/ ChildNoDirectory(n)
      PROVE  FALSE
  <2>1. Child(n) /\ ~Lists(n)
    BY <1>5 DEF ChildUnreadable, ChildOffPin, ChildNoDirectory, Skip, Lists, Readable, Kinds
  <2>2. QED
    BY <2>1, ChildrenLast
<1>6. QED
  BY <1>1, <1>2, <1>3, <1>4, <1>5 DEF Walk

\* Every step keeps the account of a still tree.
LEMMA StillStep == TypesInv /\ TreeInv /\ StillInv /\ [Next]_vars => StillInv'
<1> SUFFICES ASSUME TypesInv, TreeInv, StillInv, [Next]_vars, result' \in {"none", "ok"}, Still'
             PROVE  OnTree' /\ Accounted(Had, Past)'
  BY DEF StillInv
<1>1. TreeInv'
  BY TreeStep
<1>2. CASE step' = "root"
  <2>1. (TreeInv /\ step = "root" => OnTree /\ Accounted(Had, Past))'
    BY NothingHad, PTL
  <2>2. QED
    BY <1>1, <1>2, <2>1
<1>3. CASE Walk
  <2>1. UNCHANGED <<status, touched>>
    BY <1>3 DEF Walk, WalkRoot, StopAtDepth, OpenDir, ListingEnds, RecheckRoot, Return, Aborts,
                EntryBadName, EntryUnreadable, EntryGone, EntryOffPin, EntryDir, EntryFile, EntrySpecial, Entry,
                ChildUnreadable, ChildOffPin, ChildNoDirectory, Descend, Skip, phone
  <2>2. Still
    BY <2>1 DEF Still
  <2>3. step # "done"
    BY <1>3 DEF Walk, WalkRoot, StopAtDepth, OpenDir, ListingEnds, RecheckRoot, Return,
                EntryBadName, EntryUnreadable, EntryGone, EntryOffPin, EntryDir, EntryFile, EntrySpecial, Entry,
                ChildUnreadable, ChildOffPin, ChildNoDirectory, Descend, Skip, Child
  <2>4. OnTree /\ Accounted(Had, Past)
    BY <2>2, <2>3 DEF StillInv, TypesInv, WalkTypes
  <2>5. QED
    BY <1>3, <2>2, <2>4, StillWalk
<1>4. CASE WalkFails
  BY <1>4 DEF WalkFails, Aborts
<1>5. CASE Remount \/ \E n \in Node : NodeChanges(n) \/ NodeMounted(n)
  <2>1. step' = step
    BY <1>5 DEF Remount, NodeChanges, NodeMounted, Change, walk
  <2>2. step # "root" => touched' # {}
    BY <1>5, RootIsNode DEF Remount, NodeChanges, NodeMounted, Change
  <2>3. QED
    BY <1>2, <2>1, <2>2 DEF Still
<1>6. CASE UNCHANGED vars
  <2>1. UNCHANGED <<maxDepth, frames, unread, step, emitted, summary, result, status, elsewhere, mounted, touched>>
    BY <1>6 DEF vars, walk, told, phone
  <2>2. OnTree /\ Accounted(Had, Past)
    BY <2>1 DEF StillInv, Still
  <2>3. Asked' = Asked
    BY <2>1, TreeKept
  <2>4. OnTree'
    <3>1. Depth' = Depth /\ Top' = Top /\ \A k : Kids(k)' = Kids(k)
      BY <2>1 DEF Depth, Top, Kids
    <3>2. QED
      BY <2>1, <2>2, <2>3, <3>1 DEF OnTree
  <2>5. \A e \in Traced : ToCome(e)' <=> ToCome(e)
    BY <2>1, SameComes
  <2>6. QED
    BY <2>1, <2>2, <2>4, <2>5, SameAccounted
<1>7. QED
  BY <1>3, <1>4, <1>5, <1>6 DEF Next

\* A listing that ended well, of a tree that kept still, is that tree: every file
\* once, every entry that is not served counted, and every problem under its path,
\* for every tree and every depth (walkDir, classify, emit, childOf, descend).
THEOREM StillTreeIsListed == Spec => []ListingIsTheTree
<1>1. Init => TypesInv /\ TreeInv /\ StillInv
  <2>1. Init => TypesInv /\ TreeInv /\ step = "root"
    BY ListingInit DEF Init, ListingInv
  <2>2. QED
    BY <2>1, NothingHad DEF StillInv
<1>2. TypesInv /\ TreeInv /\ StillInv /\ [Next]_vars => (TypesInv /\ TreeInv /\ StillInv)'
  BY TypesStep, TreeStep, StillStep
<1>3. TypesInv /\ TreeInv /\ StillInv => ListingIsTheTree
  <2>1. SUFFICES ASSUME TypesInv, TreeInv, StillInv, result = "ok", Still
                 PROVE  /\ emitted = FilesIn(Entries)
                        /\ summary.refused = Cardinality(OmittedIn(Entries))
                        /\ summary.errors = ProblemsIn(Entries) \cup NotListed(Asked \ Listed)
    BY DEF ListingIsTheTree, Still
  <2>2. \A e : ~ToCome(e)
    BY <2>1, NothingLeft
  <2>3. Had = Entries /\ Past = Asked \ Listed
    BY <2>2 DEF Had, Past
  <2>4. Accounted(Had, Past)
    BY <2>1 DEF StillInv
  <2>5. Accounted(Entries, Asked \ Listed)
    BY <2>3, <2>4
  <2>6. QED
    BY <2>5 DEF Accounted
<1>4. QED
  BY <1>1, <1>2, <1>3, PTL DEF Spec
=============================================================================
