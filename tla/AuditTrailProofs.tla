--------------------------- MODULE AuditTrailProofs ---------------------------
(* Theorems about AuditTrail, for any number of brokers, any bound on the       *)
(* faults, and a verify that runs between brokers: what two witnesses that are  *)
(* written one after the other may be held to.                                  *)
EXTENDS AuditTrail, AuditLogProofs, FiniteSetTheorems

-----------------------------------------------------------------------------
(* The inductive invariant.                                                     *)

\* A line, or the unterminated record behind the last, counts what its hash covers.
Counts(l) == l \in Record => Len(l.hash) = l.seq

LinesCount == Counts(fragment) /\ \A i \in 1..Len(lines) : Counts(lines[i])

\* What a broker holds of the log, wherever it is in its run.
Holds(p) ==
    /\ pc[p] = "closed" <=> stage[p] \in {"idle", "absent", "exists"}
    /\ stage[p] \in {"reset", "anchor"} => pc[p] = "open"
    /\ pc[p] = "closed" => seq[p] = 0 /\ head[p] = Genesis /\ appends[p] = 0 /\ failed[p] = FALSE
    /\ stage[p] = "reset" => seq[p] = 0
    /\ stage[p] = "anchor" => head[p] \in acked
    /\ Len(head[p]) = seq[p]

Handles == \A p \in Proc : Holds(p)

\* An anchor of a record is published after the record was acknowledged.
Acknowledged(a) == Len(a.hash) = a.seq /\ (a.seq > 0 => a.hash \in acked)

Anchored == \A i \in 1..Len(journal) : Acknowledged(journal[i])

\* A file that was only appended to is as durable as AuditLog has it.
Intact == damage = "none" => DurabilityInv

\* Between its two reads verify holds the end of a chain that stands still.
ChainEnd == IF Scan = <<>> THEN NoSummary ELSE [seq |-> Len(Scan), hash |-> Scan[Len(Scan)].hash]

Reading ==
    verify = "read" =>
        /\ \A p \in Proc : stage[p] = "idle"
        /\ VerifyChain(Scan)
        /\ summary = ChainEnd

\* A log that was cut and has not grown: what is left of the anchored records is
\* durable, and nothing stands where one was lost.
StillThere(a) == a.seq \in 1..Len(Scan) => Durable(a.seq) /\ (lines[a.seq] = Junk \/ lines[a.seq].hash = a.hash)

CutShort ==
    damage = "cut" =>
        /\ \A p \in Proc : stage[p] # "anchor" /\ pc[p] # "written"
        /\ \A i \in 1..Len(journal) : StillThere(journal[i])

\* All but Reading holds whatever verify overlaps with.
TrailInv ==
    /\ TrailTypeOK /\ LinesCount
    /\ Handles /\ Anchored
    /\ Intact /\ CutShort

-----------------------------------------------------------------------------
(* The file.                                                                    *)

\* What a reader gets of the file, line by line.
LEMMA ScanIs ==
    ASSUME TypeOK
    PROVE  /\ Scan \in Seq(Line)
           /\ Len(lines) \in Nat /\ Len(Scan) \in Nat
           /\ \A i \in 1..Len(lines) : Scan[i] = lines[i]
           /\ fragment = NoFragment => Len(Scan) = Len(lines)
           /\ fragment # NoFragment => Len(Scan) = Len(lines) + 1 /\ Scan[Len(lines) + 1] = fragment
<1>1. CASE fragment = NoFragment
  BY <1>1 DEF TypeOK, Scan
<1>2. CASE fragment # NoFragment
  <2>1. fragment \in Line
    BY <1>2 DEF TypeOK
  <2>2. QED
    BY <1>2, <2>1, AppendProperties DEF TypeOK, Scan
<1>3. QED
  BY <1>1, <1>2

\* In a chain that verifies a record's place, its number and what its hash covers
\* are one.
LEMMA ChainCounts ==
    ASSUME TypeOK, LinesCount, VerifyChain(Scan)
    PROVE  \A i \in 1..Len(Scan) : Scan[i] \in Record /\ Scan[i].seq = i /\ Len(Scan[i].hash) = i
<1>1. \A i \in 1..Len(Scan) : Scan[i] \in Record /\ Scan[i].seq = i
  <2>1. \A i \in 1..Len(Scan) : Scan[i] \in Line
    BY ScanIs, ElementOfSeq
  <2>2. QED
    BY <2>1 DEF VerifyChain, ContinuesChain, Line
<1>2. \A i \in 1..Len(Scan) : Counts(Scan[i])
  <2>1. ASSUME NEW i \in 1..Len(Scan), i \notin 1..Len(lines)
        PROVE  Scan[i] = fragment
    BY <2>1, ScanIs
  <2>2. QED
    BY <2>1, ScanIs DEF LinesCount
<1>3. QED
  BY <1>1, <1>2 DEF Counts

\* What Append writes counts, if the Log does.
LEMMA NextCounts ==
    ASSUME NEW s \in Nat, NEW h \in Hash, Len(h) = s, NEW op \in Op
    PROVE  LET r == NextRecord(s, h, op)
           IN  r.seq = s + 1 /\ Len(r.hash) = s + 1 /\ Counts(r) /\ Counts(Behind(r))
<1> DEFINE c == [seq |-> s + 1, op |-> op]
<1>1. c \in Content
  BY DEF Content
<1>2. Len(HashRecord(h, c)) = s + 1
  <2>1. HashRecord(h, c) = Append(h, c)
    BY DEF HashRecord
  <2>2. QED
    BY <1>1, <2>1, AppendProperties DEF Hash
<1>3. NextRecord(s, h, op).seq = s + 1 /\ NextRecord(s, h, op).hash = HashRecord(h, c)
  BY DEF NextRecord
<1>4. QED
  BY <1>2, <1>3, JunkIsNoRecord DEF Counts, Behind

\* Every step but a cut is a step of the log, or none.
LEMMA LogSteps ==
    ASSUME TypeOK, Handles, [TrailNext]_allVars
    PROVE  [Next]_vars \/ LogCut
<1>1. ASSUME NEW p \in Proc, Kill(p)
      PROVE  [Next]_vars
  <2>1. CASE pc[p] = "closed"
    <3>1. seq[p] = 0 /\ head[p] = Genesis /\ appends[p] = 0 /\ failed[p] = FALSE
      BY <2>1 DEF Handles, Holds
    <3>2. UNCHANGED handle
      BY <1>1, <2>1, <3>1 DEF Kill, SetHandle, TypeOK, handle
    <3>3. QED
      BY <1>1, <3>2 DEF Kill, vars
  <2>2. CASE pc[p] = "open"
    BY <1>1, <2>2 DEF Kill, Close, Next
  <2>3. CASE pc[p] = "written"
    BY <1>1, <2>3 DEF Kill, Crash, Next
  <2>4. QED
    BY <2>1, <2>2, <2>3 DEF TypeOK
<1>2. ASSUME NEW p \in Proc, Start(p) \/ CreateFirst(p) \/ Join(p) \/ RecordSync(p) \/ Finish(p)
      PROVE  Next
  BY <1>2 DEF Next, Start, CreateFirst, Join, RecordSync, Finish
<1>3. ASSUME NEW p \in Proc, NEW op \in Op, RecordWrite(p, op) \/ RecordTorn(p, op)
      PROVE  Next
  BY <1>3 DEF Next, RecordWrite, RecordTorn
<1>4. ASSUME NEW p \in Proc, \/ StartAbsent(p) \/ CreateRaced(p) \/ JoinFails(p)
                             \/ AnchorReset(p) \/ AnchorRecord(p)
      PROVE  UNCHANGED vars
  BY <1>4 DEF StartAbsent, CreateRaced, JoinFails, AnchorReset, AnchorRecord, Publish
<1>5. CASE VerifyReadsLog \/ VerifyReadsJournal \/ UNCHANGED allVars
  BY <1>5 DEF VerifyReadsLog, VerifyReadsJournal, allVars
<1>6. CASE DiskFails \/ HostFails
  BY <1>6 DEF DiskFails, HostFails, Next
<1>7. QED
  BY <1>1, <1>2, <1>3, <1>4, <1>5, <1>6 DEF TrailNext

-----------------------------------------------------------------------------
(* The brokers and their anchors.                                               *)

\* A broker is as it was if its part of every variable is.
LEMMA HoldsKept ==
    ASSUME NEW q \in Proc, Holds(q), acked \subseteq acked',
           UNCHANGED <<stage[q], pc[q], seq[q], head[q], appends[q], failed[q]>>
    PROVE  Holds(q)'
  BY DEF Holds

\* A step of one broker, or of none.
LEMMA OneBroker ==
    ASSUME Handles, acked \subseteq acked', NEW p \in Proc, Holds(p)',
           \A q \in Proc \ {p} :
               UNCHANGED <<stage[q], pc[q], seq[q], head[q], appends[q], failed[q]>>
    PROVE  Handles'
  BY HoldsKept DEF Handles

\* Open takes a tail whose hash covers as many records as its number says.
LEMMA TailCounts ==
    ASSUME TypeOK, LinesCount, TailVerifies
    PROVE  TailSeq \in Nat /\ TailHash \in Hash /\ Len(TailHash) = TailSeq
<1>1. TailSeq \in Nat /\ TailHash \in Hash
  BY TailType DEF TypeOK
<1>2. CASE lines = <<>>
  BY <1>1, <1>2 DEF TailSeq, TailHash, Genesis
<1>3. CASE lines # <<>>
  <2>1. Len(lines) \in 1..Len(lines) /\ lines[Len(lines)] \in Line
    BY <1>3, ElementOfSeq, EmptySeq DEF TypeOK
  <2>2. lines[Len(lines)] \in Record /\ Counts(lines[Len(lines)])
    BY <1>3, <2>1 DEF TailVerifies, LinesCount, Line
  <2>3. QED
    BY <1>1, <1>3, <2>2 DEF Counts, TailSeq, TailHash
<1>4. QED
  BY <1>1, <1>2, <1>3

\* Every step keeps what a broker's Log knows of the file.
LEMMA HandlesKept ==
    ASSUME TrailTypeOK, LinesCount, Handles, [TrailNext]_allVars
    PROVE  Handles'
<1> USE DEF TrailTypeOK, Stages
<1>0. TypeOK /\ stage \in [Proc -> Stages] /\ Len(Genesis) = 0
  BY DEF Genesis
<1>1. ASSUME NEW p \in Proc, Start(p) \/ Join(p)
      PROVE  Handles'
  <2>1. TailSeq \in Nat /\ TailHash \in Hash /\ Len(TailHash) = TailSeq
    BY <1>1, TailCounts DEF Start, Join, Open
  <2>2. Holds(p)' /\ UNCHANGED acked
    BY <1>0, <1>1, <2>1 DEF Start, Join, Open, SetHandle, Goto, Holds, TypeOK
  <2>3. QED
    BY <1>1, <2>2, OneBroker DEF Start, Join, Open, SetHandle, Goto, TypeOK
<1>2. ASSUME NEW p \in Proc, CreateFirst(p)
      PROVE  Handles'
  <2>1. Holds(p)' /\ UNCHANGED acked
    BY <1>0, <1>2 DEF CreateFirst, Create, SetHandle, Goto, Holds, TypeOK
  <2>2. QED
    BY <1>2, <2>1, OneBroker DEF CreateFirst, Create, SetHandle, Goto, TypeOK
<1>3. ASSUME NEW p \in Proc, StartAbsent(p) \/ CreateRaced(p) \/ JoinFails(p)
      PROVE  Handles'
  <2>1. stage[p] \in {"idle", "absent", "exists"} /\ stage'[p] \in {"idle", "absent", "exists"}
    BY <1>3 DEF StartAbsent, CreateRaced, JoinFails, Goto
  <2>2. UNCHANGED vars /\ \A q \in Proc \ {p} : stage'[q] = stage[q]
    BY <1>3 DEF StartAbsent, CreateRaced, JoinFails, Goto
  <2>3. Holds(p)'
    BY <2>1, <2>2 DEF Handles, Holds, vars, handle
  <2>4. QED
    BY <2>2, <2>3, OneBroker DEF vars, handle
<1>4. ASSUME NEW p \in Proc, AnchorReset(p) \/ AnchorRecord(p)
      PROVE  Handles'
  <2>1. stage[p] \in {"reset", "anchor"} /\ stage'[p] = "run"
    BY <1>4 DEF AnchorReset, AnchorRecord, Publish, Goto
  <2>2. UNCHANGED vars /\ \A q \in Proc \ {p} : stage'[q] = stage[q]
    BY <1>4 DEF AnchorReset, AnchorRecord, Publish, Goto
  <2>3. Holds(p)'
    BY <2>1, <2>2 DEF Handles, Holds, vars, handle
  <2>4. QED
    BY <2>2, <2>3, OneBroker DEF vars, handle
<1>5. ASSUME NEW p \in Proc, NEW op \in Op, RecordWrite(p, op)
      PROVE  Handles'
  <2>1. PICK s \in Nat, h \in Hash : s = seq[p] /\ h = head[p] /\ Len(h) = s
    BY DEF Handles, Holds, TypeOK
  <2>2. PICK r : r = NextRecord(s, h, op) /\ r.seq = Len(r.hash)
    BY <2>1, NextCounts
  <2>3. /\ seq' = [seq EXCEPT ![p] = r.seq] /\ head' = [head EXCEPT ![p] = r.hash]
        /\ pc' = [pc EXCEPT ![p] = "written"] /\ appends' = [appends EXCEPT ![p] = @ + 1]
        /\ stage[p] = "run" /\ UNCHANGED <<stage, failed, acked>>
    BY <1>5, <2>1, <2>2 DEF RecordWrite, AppendWrite
  <2>4. Holds(p)'
    BY <2>2, <2>3 DEF Holds, TypeOK
  <2>5. QED
    BY <2>3, <2>4, OneBroker DEF TypeOK
<1>6. ASSUME NEW p \in Proc, NEW op \in Op, RecordTorn(p, op)
      PROVE  Handles'
  <2>1. pc[p] = "open" /\ stage[p] = "run" /\ UNCHANGED <<stage, pc, seq, head, acked>>
    BY <1>6 DEF RecordTorn, AppendTorn, MayAppend
  <2>2. Holds(p)'
    BY <2>1 DEF Handles, Holds
  <2>3. QED
    BY <1>6, <2>1, <2>2, OneBroker DEF RecordTorn, AppendTorn, TypeOK
<1>7. ASSUME NEW p \in Proc, RecordSync(p)
      PROVE  Handles'
  <2>1. /\ stage[p] = "run" /\ pc[p] = "written" /\ pc' = [pc EXCEPT ![p] = "open"]
        /\ failed' = [failed EXCEPT ![p] = ioerr[p]]
        /\ acked' = IF ioerr[p] THEN acked ELSE acked \cup {head[p]}
        /\ stage' = [stage EXCEPT ![p] = IF failed'[p] THEN "run" ELSE "anchor"]
        /\ UNCHANGED <<seq, head, appends>>
    BY <1>7 DEF RecordSync, AppendSync, Goto
  <2>2. failed'[p] = ioerr[p]
    BY <2>1 DEF TypeOK
  <2>3. stage'[p] = IF ioerr[p] THEN "run" ELSE "anchor"
    BY <2>1, <2>2
  <2>4. Holds(p)'
    BY <2>1, <2>2, <2>3 DEF Handles, Holds, TypeOK
  <2>5. QED
    BY <2>1, <2>4, OneBroker DEF TypeOK
<1>8. ASSUME NEW p \in Proc, Finish(p) \/ Kill(p)
      PROVE  Handles'
  <2>1. SetHandle(p, "closed", 0, Genesis) /\ Goto(p, "idle") /\ UNCHANGED acked
    BY <1>8 DEF Finish, Close, Kill
  <2>2. Holds(p)'
    BY <1>0, <2>1 DEF SetHandle, Goto, Holds, TypeOK
  <2>3. QED
    BY <2>1, <2>2, OneBroker DEF SetHandle, Goto, TypeOK
<1>9. CASE HostFails
  BY <1>0, <1>9 DEF HostFails, PowerLoss, Handles, Holds
<1>10. CASE \/ VerifyReadsLog \/ VerifyReadsJournal \/ DiskFails \/ LogCut \/ UNCHANGED allVars
  <2>1. UNCHANGED <<stage, handle, acked>>
    BY <1>10 DEF VerifyReadsLog, VerifyReadsJournal, DiskFails, WritebackError, LogCut, allVars, trailVars, vars
  <2>2. QED
    BY <2>1 DEF Handles, Holds, handle
<1>11. QED
  BY <1>1, <1>2, <1>3, <1>4, <1>5, <1>6, <1>7, <1>8, <1>9, <1>10 DEF TrailNext

-----------------------------------------------------------------------------
(* The lines and the types.                                                     *)

\* Every step keeps sequence numbers and hashes counting the records behind them.
LEMMA LinesCountKept ==
    ASSUME TypeOK, LinesCount, Handles, [Next]_vars \/ LogCut
    PROVE  LinesCount'
<1> USE DEF LinesCount, file
<1>0. ~(NoFragment \in Record) /\ Counts(Junk) /\ Counts(NoFragment)
  BY NoFragmentIsNoLine, JunkIsNoRecord DEF Line, Counts
<1>1. ASSUME NEW p \in Proc, NEW op \in Op, AppendWrite(p, op) \/ AppendTorn(p, op)
      PROVE  LinesCount'
  <2>1. PICK s \in Nat, h \in Hash : s = seq[p] /\ h = head[p] /\ Len(h) = s
    BY DEF Handles, Holds, TypeOK
  <2>2. PICK l \in Line : l = Behind(NextRecord(s, h, op)) /\ Counts(l)
    BY <2>1, NextCounts, NextRecordType, BehindType DEF Line
  <2>3. CASE AppendWrite(p, op)
    <3>1. lines' = Append(lines, l) /\ fragment' = NoFragment
      BY <2>1, <2>2, <2>3 DEF AppendWrite
    <3>2. /\ Len(lines') = Len(lines) + 1 /\ lines'[Len(lines) + 1] = l
          /\ \A i \in 1..Len(lines) : lines'[i] = lines[i]
          /\ Len(lines) \in Nat
      BY <2>2, <3>1, AppendProperties, LenProperties DEF TypeOK
    <3>3. \A i \in 1..Len(lines') : i \in 1..Len(lines) \/ i = Len(lines) + 1
      BY <3>2
    <3>4. \A i \in 1..Len(lines') : Counts(lines'[i])
      BY <2>2, <3>2, <3>3
    <3>5. QED
      BY <1>0, <3>1, <3>4
  <2>4. CASE AppendTorn(p, op)
    <3>1. fragment' \in {fragment, Junk, l} /\ UNCHANGED lines
      BY <2>1, <2>2, <2>4 DEF AppendTorn
    <3>2. Counts(fragment')
      BY <1>0, <2>2, <3>1
    <3>3. QED
      BY <3>1, <3>2
  <2>5. QED
    BY <1>1, <2>3, <2>4
<1>2. ASSUME NEW p \in Proc, Open(p) \/ Create(p) \/ AppendSync(p) \/ Close(p) \/ Crash(p)
      PROVE  LinesCount'
  BY <1>2 DEF Open, Create, AppendSync, Close, Crash
<1>3. CASE WritebackError \/ UNCHANGED vars
  BY <1>3 DEF WritebackError, vars
<1>4. CASE PowerLoss
  <2>1. PICK k \in 0..Len(lines) :
          /\ \E holes \in SUBSET {i \in lost : i <= k} :
               lines' = [i \in 1..k |-> IF i \in holes \/ i - 1 \in holes THEN Junk ELSE lines[i]]
          /\ fragment' \in Residue(k)
    BY <1>4 DEF PowerLoss
  <2>2. Len(lines') = k
    BY <2>1, SurvivorsType DEF TypeOK
  <2>3. \A i \in 1..k : lines'[i] = Junk \/ lines'[i] = lines[i]
    BY <2>1
  <2>4. \A i \in 1..Len(Scan) : Counts(Scan[i])
    <3>1. ASSUME NEW i \in 1..Len(Scan), i \notin 1..Len(lines)
          PROVE  Scan[i] = fragment
      BY <3>1, ScanIs
    <3>2. QED
      BY <3>1, ScanIs
  <2>5. k < Len(Scan) => Counts(Scan[k + 1])
    BY <2>1, <2>4, ScanIs
  <2>6. Counts(fragment')
    BY <1>0, <2>1, <2>5 DEF Residue
  <2>7. \A i \in 1..Len(lines') : Counts(lines'[i])
    BY <1>0, <2>1, <2>2, <2>3, ScanIs
  <2>8. QED
    BY <2>6, <2>7
<1>5. CASE LogCut
  <2>1. PICK k \in 0..Len(lines) : lines' = SubSeq(lines, 1, k) /\ fragment' = NoFragment
    BY <1>5 DEF LogCut
  <2>2. Len(lines') = k /\ \A i \in 1..k : lines'[i] = lines[i]
    BY <2>1, ScanIs, SubSeqProperties DEF TypeOK
  <2>3. QED
    BY <1>0, <2>1, <2>2, ScanIs
<1>6. QED
  BY <1>1, <1>2, <1>3, <1>4, <1>5 DEF Next

\* Every step keeps the types.
LEMMA TrailTypeKept ==
    ASSUME TrailTypeOK, LinesCount, Handles, [TrailNext]_allVars
    PROVE  TrailTypeOK'
<1>1. TypeOK'
  <2>1. CASE [Next]_vars
    BY <2>1, TypeStep DEF TrailTypeOK
  <2>2. CASE LogCut
    <3>1. PICK k \in 0..Len(lines) :
              /\ lines' = SubSeq(lines, 1, k)
              /\ present' \in {TRUE, k > 0}
              /\ settled' = IF settled < k THEN settled ELSE k
              /\ lost' = {i \in lost : i <= k}
      BY <2>2 DEF LogCut
    <3>2. lines' \in Seq(Line) /\ Len(lines') = k
      BY <3>1, SubSeqProperties, LenProperties DEF TrailTypeOK, TypeOK
    <3>3. settled' \in 0..Len(lines') /\ lost' \subseteq 1..settled'
      <4>1. settled \in Nat /\ lost \subseteq 1..settled /\ k \in Nat
        BY DEF TrailTypeOK, TypeOK
      <4>2. settled' \in 0..k
        BY <3>1, <4>1
      <4>3. ASSUME NEW i \in lost'
            PROVE  i \in 1..settled'
        <5>1. i \in 1..settled /\ i <= k
          BY <3>1, <4>1, <4>3
        <5>2. QED
          BY <3>1, <4>1, <5>1
      <4>4. QED
        BY <3>2, <4>2, <4>3
    <3>4. fragment' = NoFragment /\ UNCHANGED <<pc, seq, head, appends, failed, ioerr, acked, torn, writebacks, powers>>
      BY <2>2 DEF LogCut, handle, faults
    <3>5. present' \in BOOLEAN
      <4>1. CASE k > 0
        <5>1. (k > 0) = TRUE
          BY <4>1
        <5>2. QED
          BY <3>1, <5>1
      <4>2. CASE ~(k > 0)
        <5>1. (k > 0) = FALSE
          BY <4>2
        <5>2. QED
          BY <3>1, <5>1
      <4>3. QED
        BY <4>1, <4>2
    <3>6. QED
      BY <3>2, <3>3, <3>4, <3>5 DEF TrailTypeOK, TypeOK
  <2>3. QED
    BY <2>1, <2>2, LogSteps DEF TrailTypeOK
<1>2. journal' \in Seq(Anchor) /\ drops' \in Nat
  <2>1. ASSUME NEW p \in Proc, Publish(p)
        PROVE  journal' \in Seq(Anchor) /\ drops' \in Nat
    <3>1. PICK a \in Anchor : a = LogTail(p)
      BY DEF LogTail, Anchor, TrailTypeOK, TypeOK
    <3>2. Append(journal, a) \in Seq(Anchor)
      BY AppendProperties DEF TrailTypeOK
    <3>3. drops \in Nat /\ journal \in Seq(Anchor)
      BY DEF TrailTypeOK
    <3>4. CASE journal' = Append(journal, a) /\ UNCHANGED drops
      BY <3>2, <3>3, <3>4
    <3>5. CASE drops' = drops + 1 /\ UNCHANGED journal
      BY <3>3, <3>5
    <3>6. QED
      BY <2>1, <3>1, <3>4, <3>5 DEF Publish
  <2>2. ASSUME ~\E p \in Proc : AnchorReset(p) \/ AnchorRecord(p)
        PROVE  UNCHANGED <<journal, drops>>
    BY <2>2 DEF TrailNext, Start, StartAbsent, CreateFirst, CreateRaced, Join, JoinFails, RecordWrite, RecordTorn,
       RecordSync, Finish, Kill, VerifyReadsLog, VerifyReadsJournal, DiskFails, HostFails, LogCut, allVars, trailVars
  <2>3. QED
    BY <2>1, <2>2 DEF AnchorReset, AnchorRecord, TrailTypeOK
<1>3. verify' \in {"idle", "read"} /\ summary' \in Anchor
  <2>1. NoSummary \in Anchor
    BY EmptySeq DEF NoSummary, Anchor, Hash, Genesis
  <2>2. CASE VerifyReadsLog
    <3>1. CASE VerifyChain(Scan) /\ Scan # <<>>
      <4>1. Len(Scan) \in 1..Len(Scan)
        BY <3>1, ScanIs, EmptySeq DEF TrailTypeOK
      <4>2. Scan[Len(Scan)] \in Record
        BY <3>1, <4>1, ChainCounts DEF TrailTypeOK
      <4>3. [seq |-> Len(Scan), hash |-> Scan[Len(Scan)].hash] \in Anchor
        BY <4>1, <4>2 DEF Anchor, Record
      <4>4. QED
        BY <2>1, <2>2, <4>3 DEF VerifyReadsLog, verifyVars, TrailTypeOK
    <3>2. CASE ~(VerifyChain(Scan) /\ Scan # <<>>)
      BY <2>1, <2>2, <3>2 DEF VerifyReadsLog, verifyVars, TrailTypeOK
    <3>3. QED
      BY <3>1, <3>2
  <2>3. CASE VerifyReadsJournal \/ HostFails
    BY <2>1, <2>3 DEF VerifyReadsJournal, HostFails
  <2>4. CASE ~(VerifyReadsLog \/ VerifyReadsJournal \/ HostFails)
    <3>1. UNCHANGED verifyVars
      BY <2>4 DEF TrailNext, Start, StartAbsent, CreateFirst, CreateRaced, Join, JoinFails, RecordWrite, RecordTorn,
         RecordSync, Finish, Kill, DiskFails, LogCut, allVars, trailVars, AnchorReset, AnchorRecord, Publish
    <3>2. QED
      BY <3>1 DEF verifyVars, TrailTypeOK
  <2>5. QED
    BY <2>2, <2>3, <2>4
<1>4. stage' \in [Proc -> Stages] /\ damage' \in Damages /\ cuts' \in Nat
  <2>1. stage' \in [Proc -> Stages]
    BY DEF TrailTypeOK, Stages, TrailNext, Goto, Start, StartAbsent, CreateFirst, CreateRaced, Join, JoinFails,
       RecordWrite, RecordTorn, RecordSync, Finish, Kill, DiskFails, HostFails, LogCut, allVars, trailVars,
       AnchorReset, AnchorRecord, Publish, VerifyReadsLog, VerifyReadsJournal
  <2>2. damage' \in Damages /\ cuts' \in Nat
    <3> USE DEF TrailTypeOK, Damages
    <3>1. CASE \E p \in Proc, op \in Op : RecordWrite(p, op) \/ RecordTorn(p, op)
      BY <3>1 DEF RecordWrite, RecordTorn, Grown
    <3>2. CASE LogCut
      <4>1. damage' \in {"cut", "beyond"} /\ cuts' = cuts + 1
        BY <3>2 DEF LogCut
      <4>2. QED
        BY <4>1
    <3>3. CASE ~LogCut /\ ~\E p \in Proc, op \in Op : RecordWrite(p, op) \/ RecordTorn(p, op)
      <4>1. UNCHANGED <<damage, cuts>>
        BY <3>3 DEF TrailNext, Start, StartAbsent, CreateFirst, CreateRaced, Join, JoinFails, RecordSync, Finish,
           Kill, DiskFails, HostFails, allVars, trailVars, AnchorReset, AnchorRecord, Publish, VerifyReadsLog,
           VerifyReadsJournal
      <4>2. QED
        BY <4>1
    <3>4. QED
      BY <3>1, <3>2, <3>3
  <2>3. QED
    BY <2>1, <2>2
<1>5. QED
  BY <1>1, <1>2, <1>3, <1>4 DEF TrailTypeOK

-----------------------------------------------------------------------------
(* The journal.                                                                 *)

\* A step publishes one anchor or none, and takes back no acknowledgement.
LEMMA JournalGrows ==
    ASSUME [TrailNext]_allVars
    PROVE  /\ acked \subseteq acked'
           /\ drops' \in {drops, drops + 1}
           /\ \/ UNCHANGED journal
              \/ \E p \in Proc : /\ stage[p] \in {"reset", "anchor"}
                                 /\ journal' = Append(journal, LogTail(p))
                                 /\ UNCHANGED vars
<1>1. CASE \E p \in Proc : AnchorReset(p) \/ AnchorRecord(p)
  BY <1>1 DEF AnchorReset, AnchorRecord, Publish, vars
<1>2. CASE \E p \in Proc : RecordSync(p)
  BY <1>2 DEF RecordSync, AppendSync
<1>3. CASE \E p \in Proc : \/ Start(p) \/ StartAbsent(p) \/ CreateFirst(p) \/ CreateRaced(p)
                           \/ Join(p) \/ JoinFails(p) \/ Finish(p) \/ Kill(p)
  BY <1>3 DEF Start, StartAbsent, CreateFirst, CreateRaced, Join, JoinFails, Finish, Kill, Open, Create, Close, vars
<1>4. CASE \E p \in Proc, op \in Op : RecordWrite(p, op) \/ RecordTorn(p, op)
  BY <1>4 DEF RecordWrite, RecordTorn, AppendWrite, AppendTorn
<1>5. CASE VerifyReadsLog \/ VerifyReadsJournal \/ DiskFails \/ HostFails \/ LogCut \/ UNCHANGED allVars
  BY <1>5 DEF VerifyReadsLog, VerifyReadsJournal, DiskFails, HostFails, LogCut, WritebackError, PowerLoss,
     allVars, trailVars, vars
<1>6. QED
  BY <1>1, <1>2, <1>3, <1>4, <1>5 DEF TrailNext

\* Every step keeps the anchors anchors of what was acknowledged or created.
LEMMA AnchoredKept ==
    ASSUME TrailTypeOK, Handles, Anchored, [TrailNext]_allVars
    PROVE  Anchored'
<1>1. CASE UNCHANGED journal
  BY <1>1, JournalGrows DEF Anchored, Acknowledged
<1>2. ASSUME NEW p \in Proc, stage[p] \in {"reset", "anchor"},
             journal' = Append(journal, LogTail(p)), UNCHANGED vars
      PROVE  Anchored'
  <2>1. PICK a \in Anchor : a = LogTail(p)
    BY DEF LogTail, Anchor, TrailTypeOK, TypeOK
  <2>2. Acknowledged(a)
    BY <1>2, <2>1 DEF LogTail, Acknowledged, Handles, Holds, TrailTypeOK, TypeOK
  <2>3. /\ journal \in Seq(Anchor) /\ Len(journal) \in Nat
        /\ Len(journal') = Len(journal) + 1 /\ journal'[Len(journal) + 1] = a
        /\ \A i \in 1..Len(journal) : journal'[i] = journal[i]
    BY <1>2, <2>1, AppendProperties, LenProperties DEF TrailTypeOK
  <2>4. \A i \in 1..Len(journal') : i \in 1..Len(journal) \/ i = Len(journal) + 1
    BY <2>3
  <2>5. \A i \in 1..Len(journal') : Acknowledged(journal'[i])
    BY <2>2, <2>3, <2>4 DEF Anchored
  <2>6. UNCHANGED acked
    BY <1>2 DEF vars
  <2>7. QED
    BY <2>5, <2>6 DEF Anchored, Acknowledged
<1>3. QED
  BY <1>1, <1>2, JournalGrows

-----------------------------------------------------------------------------
(* The file, while it is only appended to.                                      *)

\* Every step keeps an uncut log holding what was anchored.
LEMMA IntactKept ==
    ASSUME TrailTypeOK, Intact, Handles, [TrailNext]_allVars
    PROVE  Intact'
<1>1. CASE LogCut
  <2>1. damage' # "none"
    BY <1>1 DEF LogCut
  <2>2. QED
    BY <2>1 DEF Intact
<1>2. CASE [Next]_vars
  <2>1. damage' = "none" => damage = "none"
    BY DEF TrailNext, Start, StartAbsent, CreateFirst, CreateRaced, Join, JoinFails, RecordWrite, RecordTorn,
       RecordSync, Finish, Kill, DiskFails, HostFails, LogCut, allVars, trailVars, AnchorReset, AnchorRecord,
       Publish, VerifyReadsLog, VerifyReadsJournal, Grown
  <2>2. QED
    BY <1>2, <2>1, DurabilityStep DEF Intact, TrailTypeOK
<1>3. QED
  BY <1>1, <1>2, LogSteps DEF TrailTypeOK

-----------------------------------------------------------------------------
(* verify, between its two reads.                                               *)

\* A step that leaves a verify between its two reads keeps what it read true.
LEMMA ReadingKept ==
    ASSUME ~VerifyOverlaps, TrailTypeOK, Reading, [TrailNext]_allVars, verify' = "read"
    PROVE  Reading'
<1>1. CASE VerifyReadsLog
  <2>1. verify = "idle" /\ \A p \in Proc : stage[p] = "idle"
    BY <1>1 DEF VerifyReadsLog
  <2>2. VerifyChain(Scan) /\ summary' = ChainEnd /\ UNCHANGED <<lines, fragment, stage>>
    BY <1>1, <2>1 DEF VerifyReadsLog, verifyVars, ChainEnd, vars, file
  <2>3. QED
    BY <2>1, <2>2 DEF Reading, ChainEnd, Scan
<1>2. CASE ~VerifyReadsLog
  <2>1. verify = "read"
    BY <1>2 DEF TrailNext, Start, StartAbsent, CreateFirst, CreateRaced, Join, JoinFails, RecordWrite, RecordTorn,
       RecordSync, Finish, Kill, DiskFails, HostFails, LogCut, allVars, trailVars, verifyVars, AnchorReset,
       AnchorRecord, Publish, VerifyReadsJournal
  <2>2. \A p \in Proc : stage[p] = "idle"
    BY <2>1 DEF Reading
  <2>3. DiskFails \/ UNCHANGED allVars
    BY <1>2, <2>1, <2>2 DEF TrailNext, Start, StartAbsent, CreateFirst, CreateRaced, Join, JoinFails, RecordWrite,
       RecordTorn, RecordSync, Finish, Kill, HostFails, LogCut, AnchorReset, AnchorRecord, VerifyReadsJournal, Apart
  <2>4. UNCHANGED <<lines, fragment, stage, summary>>
    BY <2>3 DEF DiskFails, WritebackError, file, allVars, trailVars, verifyVars, vars
  <2>5. QED
    BY <2>1, <2>4 DEF Reading, ChainEnd, Scan
<1>3. QED
  BY <1>1, <1>2

-----------------------------------------------------------------------------
(* A log that was cut, until it grows.                                          *)

\* In a file that was only appended to and that verifies, the number of an anchor
\* is the place of its record.
LEMMA AnchorsHavePlaces ==
    ASSUME TrailTypeOK, LinesCount, Anchored, Intact, damage = "none", VerifyChain(Scan),
           NEW i \in 1..Len(journal), journal[i].seq > 0
    PROVE  LET a == journal[i]
           IN  a.seq \in 1..Len(lines) /\ Durable(a.seq) /\ lines[a.seq] # Junk /\ lines[a.seq].hash = a.hash
<1>1. PICK a \in Anchor : a = journal[i]
  BY ElementOfSeq DEF TrailTypeOK
<1>2. a.hash \in acked /\ Len(a.hash) = a.seq
  BY <1>1 DEF Anchored, Acknowledged, Anchor
<1>3. TypeOK /\ AckedOnDisk
  BY DEF Intact, DurabilityInv, TrailTypeOK
<1>4. PICK j \in 1..Len(lines) : Durable(j) /\ (lines[j] = Junk \/ lines[j].hash = a.hash)
  BY <1>2, <1>3 DEF AckedOnDisk
<1>5. lines[j] # Junk /\ Scan[j] = lines[j] /\ j \in 1..Len(Scan)
  BY <1>3, VerifiedLines, ScanIs DEF TypeOK
<1>6. Len(lines[j].hash) = j
  BY <1>3, <1>5, ChainCounts
<1>7. j = a.seq
  BY <1>2, <1>4, <1>5, <1>6
<1>8. QED
  BY <1>1, <1>4, <1>5, <1>7

\* A log cut while it verified is cut short.
LEMMA CutBegins ==
    ASSUME TrailTypeOK, LinesCount, Handles, Anchored, Intact, LogCut, damage = "none", VerifyChain(Scan)
    PROVE  CutShort'
<1>1. PICK k \in 0..Len(lines) :
          /\ lines' = SubSeq(lines, 1, k)
          /\ settled' = IF settled < k THEN settled ELSE k
          /\ lost' = {i \in lost : i <= k}
  BY DEF LogCut
<1>2. fragment' = NoFragment /\ UNCHANGED <<stage, pc, journal>> /\ \A p \in Proc : stage[p] = "idle"
  BY DEF LogCut, handle
<1>3. k \in Nat /\ Len(lines') = k /\ \A i \in 1..k : lines'[i] = lines[i]
  BY <1>1, SubSeqProperties DEF TrailTypeOK, TypeOK
<1>4. Len(Scan') = k
  BY <1>2, <1>3 DEF Scan
<1>5. ASSUME NEW i \in 1..Len(journal), journal[i].seq \in 1..k
      PROVE  Durable(journal[i].seq)' /\ lines'[journal[i].seq].hash = journal[i].hash
  <2>1. PICK n \in 1..k : n = journal[i].seq
    BY <1>5
  <2>2. Durable(n) /\ lines[n].hash = journal[i].hash
    BY <1>5, <2>1, AnchorsHavePlaces
  <2>3. settled \in Nat
    BY DEF TrailTypeOK, TypeOK
  <2>4. n \in 1..settled' /\ n \notin lost'
    BY <1>1, <1>3, <2>2, <2>3 DEF Durable
  <2>5. QED
    BY <1>2, <1>3, <2>1, <2>2, <2>4 DEF Durable
<1>6. \A p \in Proc : stage'[p] # "anchor" /\ pc'[p] # "written"
  BY <1>2 DEF Handles, Holds
<1>7. QED
  BY <1>2, <1>4, <1>5, <1>6 DEF CutShort, StillThere

\* And every step keeps it cut short.
LEMMA CutShortKept ==
    ASSUME TrailTypeOK, LinesCount, Handles, Anchored, Intact, CutShort,
           [TrailNext]_allVars, damage' = "cut"
    PROVE  CutShort'
<1>1. CASE LogCut
  BY <1>1, CutBegins DEF LogCut
<1> SUFFICES ASSUME ~LogCut
             PROVE  CutShort'
  BY <1>1
<1>2. damage = "cut"
  BY DEF TrailNext, Start, StartAbsent, CreateFirst, CreateRaced, Join, JoinFails, RecordWrite, RecordTorn,
     RecordSync, Finish, Kill, DiskFails, HostFails, allVars, trailVars, AnchorReset, AnchorRecord, Publish,
     VerifyReadsLog, VerifyReadsJournal, Grown
<1>3. /\ \A p \in Proc : stage[p] # "anchor" /\ pc[p] # "written"
      /\ \A i \in 1..Len(journal) : StillThere(journal[i])
  BY <1>2 DEF CutShort
<1>4. ASSUME NEW p \in Proc, \/ Start(p) \/ StartAbsent(p) \/ CreateFirst(p) \/ CreateRaced(p)
                             \/ Join(p) \/ JoinFails(p) \/ Finish(p) \/ Kill(p)
      PROVE  CutShort'
  <2>1. UNCHANGED <<lines, fragment, settled, lost, journal>>
    BY <1>4 DEF Start, StartAbsent, CreateFirst, CreateRaced, Join, JoinFails, Finish, Kill, Open, Create, Close,
       vars, file, disk
  <2>2. \A q \in Proc : stage'[q] # "anchor" /\ pc'[q] # "written"
    BY <1>3, <1>4 DEF Start, StartAbsent, CreateFirst, CreateRaced, Join, JoinFails, Finish, Kill, Open, Create,
       Close, vars, handle, Goto, SetHandle, TrailTypeOK, TypeOK
  <2>3. QED
    BY <1>3, <2>1, <2>2 DEF CutShort, StillThere, Durable, Scan
<1>5. ASSUME NEW p \in Proc, AnchorReset(p)
      PROVE  CutShort'
  <2>1. PICK a \in Anchor : a = LogTail(p)
    BY DEF LogTail, Anchor, TrailTypeOK, TypeOK
  <2>2. a.seq = 0
    BY <1>5, <2>1 DEF AnchorReset, LogTail, Handles, Holds
  <2>3. UNCHANGED <<lines, fragment, settled, lost, pc>> /\ stage' = [stage EXCEPT ![p] = "run"]
    BY <1>5 DEF AnchorReset, Publish, Goto, vars, file, disk, handle
  <2>4. \A i \in 1..Len(journal') : journal'[i].seq = 0 \/ (i \in 1..Len(journal) /\ journal'[i] = journal[i])
    <3>1. CASE UNCHANGED journal
      BY <3>1
    <3>2. CASE journal' = Append(journal, a)
      <4>1. /\ Len(journal) \in Nat /\ Len(journal') = Len(journal) + 1
            /\ journal'[Len(journal) + 1] = a
            /\ \A i \in 1..Len(journal) : journal'[i] = journal[i]
        BY <3>2, AppendProperties, LenProperties DEF TrailTypeOK
      <4>2. \A i \in 1..Len(journal') : i \in 1..Len(journal) \/ i = Len(journal) + 1
        BY <4>1
      <4>3. QED
        BY <2>2, <4>1, <4>2
    <3>3. QED
      BY <1>5, <2>1, <3>1, <3>2 DEF AnchorReset, Publish
  <2>5. \A i \in 1..Len(journal') : StillThere(journal'[i])
    BY <1>3, <2>4 DEF StillThere
  <2>6. \A q \in Proc : stage'[q] # "anchor" /\ pc'[q] # "written"
    BY <1>3, <2>3 DEF TrailTypeOK
  <2>7. QED
    BY <2>3, <2>5, <2>6 DEF CutShort, StillThere, Durable, Scan
<1>6. ASSUME NEW p \in Proc
      PROVE  ~AnchorRecord(p) /\ ~RecordSync(p) /\ \A op \in Op : ~RecordWrite(p, op) /\ ~RecordTorn(p, op)
  BY <1>2, <1>3 DEF AnchorRecord, RecordSync, AppendSync, RecordWrite, RecordTorn, Grown
<1>7. CASE DiskFails
  <2>1. /\ UNCHANGED <<lines, fragment, journal, stage, pc>>
        /\ settled' = Len(lines) /\ lost' = lost \cup (settled + 1)..Len(lines)
    BY <1>7 DEF DiskFails, WritebackError, file, handle, trailVars
  <2>2. ASSUME NEW n, Durable(n)
        PROVE  Durable(n)'
    BY <2>1, <2>2 DEF Durable, TrailTypeOK, TypeOK
  <2>3. QED
    BY <1>3, <2>1, <2>2 DEF CutShort, StillThere, Scan
<1>8. CASE HostFails
  <2>1. PICK k \in 0..Len(lines) :
          /\ \A i \in k + 1..Len(lines) : ~Durable(i)
          /\ \E holes \in SUBSET {i \in lost : i <= k} :
               lines' = [i \in 1..k |-> IF i \in holes \/ i - 1 \in holes THEN Junk ELSE lines[i]]
          /\ fragment' \in Residue(k)
          /\ settled' = k
    BY <1>8 DEF HostFails, PowerLoss
  <2>2. k \in Nat /\ lines' \in Seq(Line) /\ Len(lines') = k
    BY <2>1, SurvivorsType DEF TrailTypeOK, TypeOK
  <2>3. \A i \in 1..k : lines'[i] = Junk \/ lines'[i] = lines[i]
    BY <2>1
  <2>4. lost' = {} /\ UNCHANGED journal /\ \A p \in Proc : pc'[p] = "closed" /\ stage'[p] = "idle"
    BY <1>8 DEF HostFails, PowerLoss
  <2>5. TypeOK /\ TypeOK'
    BY TrailTypeKept DEF TrailTypeOK
  <2>6. Len(lines) \in Nat /\ Len(Scan) \in Nat /\ Len(lines) <= Len(Scan)
    BY <2>5, ScanIs
  <2>7. Len(Scan') \in Nat /\ Len(Scan') <= Len(Scan)
    <3>1. CASE k < Len(Scan)
      <4>1. Len(Scan') = k \/ Len(Scan') = k + 1
        <5>1. CASE fragment' = NoFragment
          BY <2>2, <5>1 DEF Scan
        <5>2. CASE fragment' # NoFragment
          <6>1. fragment' \in Line
            BY <2>5, <5>2 DEF TypeOK
          <6>2. QED
            BY <2>2, <5>2, <6>1, AppendProperties DEF Scan
        <5>3. QED
          BY <5>1, <5>2
      <4>2. QED
        BY <2>2, <2>6, <3>1, <4>1
    <3>2. CASE ~(k < Len(Scan))
      <4>1. fragment' = NoFragment
        BY <2>1, <3>2 DEF Residue
      <4>2. Len(Scan') = k
        BY <2>2, <4>1 DEF Scan
      <4>3. QED
        BY <2>2, <2>6, <4>2
    <3>3. QED
      BY <3>1, <3>2
  <2>8. ASSUME NEW i \in 1..Len(journal), journal[i].seq \in 1..Len(Scan')
        PROVE  /\ Durable(journal[i].seq)'
               /\ lines'[journal[i].seq] = Junk \/ lines'[journal[i].seq].hash = journal[i].hash
    <3>1. PICK n \in 1..Len(Scan') : n = journal[i].seq
      BY <2>8
    <3>2. n \in 1..Len(Scan)
      BY <2>6, <2>7
    <3>3. Durable(n) /\ (lines[n] = Junk \/ lines[n].hash = journal[i].hash)
      BY <1>3, <3>1, <3>2 DEF StillThere
    <3>4. n \in 1..Len(lines)
      BY <2>5, <3>3 DEF Durable, TypeOK
    <3>5. n \in 1..k
      BY <2>1, <2>2, <2>6, <3>3, <3>4
    <3>6. n \in 1..settled' /\ n \notin lost'
      BY <2>1, <2>4, <3>5
    <3>7. lines'[n] = Junk \/ lines'[n] = lines[n]
      BY <2>3, <3>5
    <3>8. QED
      BY <2>4, <3>1, <3>3, <3>6, <3>7 DEF Durable
  <2>9. QED
    BY <2>4, <2>8 DEF CutShort, StillThere
<1>9. CASE VerifyReadsLog \/ VerifyReadsJournal \/ UNCHANGED allVars
  <2>1. UNCHANGED <<lines, fragment, settled, lost, journal, stage, pc>>
    BY <1>9 DEF VerifyReadsLog, VerifyReadsJournal, allVars, trailVars, vars, file, disk, handle
  <2>2. QED
    BY <1>3, <2>1 DEF CutShort, StillThere, Durable, Scan
<1>10. QED
  BY <1>4, <1>5, <1>6, <1>7, <1>8, <1>9 DEF TrailNext

-----------------------------------------------------------------------------
(* The invariant.                                                               *)

\* The trail starts in the invariant.
LEMMA TrailBegun == TrailInit => TrailInv /\ Reading
<1> SUFFICES ASSUME TrailInit
             PROVE  TrailInv /\ Reading
  OBVIOUS
<1>1. TypeOK /\ DurabilityInv
  BY TypeBegun, DurabilityBegun DEF TrailInit
<1>2. Genesis \in Hash /\ Len(Genesis) = 0 /\ journal \in Seq(Anchor) /\ Len(journal) = 0 /\ Len(lines) = 0
  BY EmptySeq DEF TrailInit, Init, Genesis, Hash
<1>3. TrailTypeOK
  BY <1>1, <1>2 DEF TrailInit, TrailTypeOK, Stages, Damages, NoSummary, Anchor
<1>4. LinesCount
  BY <1>2, NoFragmentIsNoLine DEF TrailInit, Init, LinesCount, Counts, Line
<1>5. Handles
  BY <1>2 DEF TrailInit, Init, Handles, Holds
<1>6. Anchored /\ Intact /\ CutShort /\ Reading
  BY <1>1, <1>2 DEF TrailInit, Anchored, Intact, CutShort, Reading
<1>7. QED
  BY <1>3, <1>4, <1>5, <1>6 DEF TrailInv

\* Every step keeps it.
LEMMA TrailStep == TrailInv /\ [TrailNext]_allVars => TrailInv'
<1> SUFFICES ASSUME TrailInv, [TrailNext]_allVars
             PROVE  TrailInv'
  OBVIOUS
<1>1. TrailTypeOK /\ LinesCount /\ Handles /\ Anchored /\ Intact /\ CutShort
  BY DEF TrailInv
<1>2. TrailTypeOK' /\ Handles' /\ Anchored' /\ Intact'
  BY <1>1, TrailTypeKept, HandlesKept, AnchoredKept, IntactKept
<1>3. LinesCount'
  BY <1>1, LogSteps, LinesCountKept DEF TrailTypeOK
<1>4. CutShort'
  <2>1. CASE damage' = "cut"
    BY <1>1, <2>1, CutShortKept
  <2>2. CASE damage' # "cut"
    BY <2>2 DEF CutShort
  <2>3. QED
    BY <2>1, <2>2
<1>5. QED
  BY <1>2, <1>3, <1>4 DEF TrailInv

\* It holds throughout.
LEMMA TrailHolds == TrailSpec => []TrailInv
  BY TrailBegun, TrailStep, PTL DEF TrailSpec

\* What a verify has read stays true while no broker overlaps with it.
LEMMA ReadingHolds == ASSUME ~VerifyOverlaps PROVE TrailSpec => []Reading
<1>1. TrailInv /\ Reading /\ [TrailNext]_allVars => Reading'
  <2>1. verify' # "read" => Reading'
    BY DEF Reading
  <2>2. QED
    BY <2>1, ReadingKept DEF TrailInv
<1>2. QED
  BY <1>1, TrailBegun, TrailHolds, PTL DEF TrailSpec

-----------------------------------------------------------------------------
(* What the invariant says to a reader of the journal.                          *)

\* A journal with an anchor in it has a newest one: of those that are newer than
\* an anchor, or as new and earlier in the journal, there is a least set.
LEMMA NewestExists ==
    ASSUME journal \in Seq(Anchor), journal # <<>>
    PROVE  \E n \in 1..Len(journal) :
               Newest = journal[n] /\ \A j \in 1..Len(journal) : journal[j].seq <= journal[n].seq
<1> DEFINE At        == 1..Len(journal)
           Better(i) == {j \in At : journal[j].seq > journal[i].seq \/ (journal[j].seq = journal[i].seq /\ j < i)}
           Sets      == {Better(i) : i \in At}
<1>1. Len(journal) \in Nat /\ 1 \in At /\ \A i \in At : journal[i].seq \in Nat
  <2>1. \A i \in At : journal[i] \in Anchor
    BY ElementOfSeq
  <2>2. QED
    BY <2>1, EmptySeq, LenProperties DEF Anchor
<1>2. Sets \subseteq FiniteSubsetsOf(At) /\ Sets # {}
  <2>1. IsFiniteSet(At)
    BY <1>1, FS_Interval
  <2>2. ASSUME NEW i \in At
        PROVE  Better(i) \in FiniteSubsetsOf(At)
    <3>1. Better(i) \in SUBSET At
      OBVIOUS
    <3>2. IsFiniteSet(Better(i))
      BY <2>1, <3>1, FS_Subset
    <3>3. QED
      BY <3>1, <3>2 DEF FiniteSubsetsOf
  <2>3. QED
    BY <1>1, <2>2
<1>3. PICK least \in Sets : \A y \in Sets : ~(<<y, least>> \in StrictSubsetOrdering(At))
  <2> HIDE DEF Sets, At
  <2>1. IsWellFoundedOn(StrictSubsetOrdering(At), FiniteSubsetsOf(At))
    BY FS_StrictSubsetOrderingWellFounded
  <2>2. QED
    BY <1>2, <2>1, WFMin
<1>4. PICK n \in At : least = Better(n)
  BY <1>3
<1>5. Better(n) = {}
  <2> SUFFICES ASSUME NEW j \in Better(n)
               PROVE  FALSE
    OBVIOUS
  <2>1. j \in At /\ j \notin Better(j)
    BY <1>1
  <2>2. \A i \in Better(j) : i \in Better(n)
    BY <1>1, <1>4, <2>1
  <2>3. Better(j) # Better(n) /\ Better(j) \subseteq Better(n) /\ Better(n) \subseteq At
    BY <2>1, <2>2
  <2>4. Better(j) \in Sets
    BY <2>1
  <2> HIDE DEF Sets, At, Better
  <2>5. <<Better(j), Better(n)>> \in StrictSubsetOrdering(At)
    BY <2>3 DEF StrictSubsetOrdering
  <2>6. QED
    BY <1>3, <1>4, <2>4, <2>5
<1>6. \A j \in At : journal[j].seq < journal[n].seq \/ (journal[j].seq = journal[n].seq /\ n <= j)
  BY <1>1, <1>4, <1>5
<1>7. \A i \in At : (\A j \in At : journal[j].seq < journal[i].seq \/ (journal[j].seq = journal[i].seq /\ i <= j)) => i = n
  BY <1>1, <1>4, <1>6
<1>8. Newest = journal[n]
  BY <1>4, <1>6, <1>7 DEF Newest
<1>9. QED
  BY <1>1, <1>4, <1>6, <1>8

\* An anchor as new as a chain that was only appended to names its last hash, and
\* none is newer.
LEMMA AnchorsAreNoNewer ==
    ASSUME TrailInv, damage = "none", VerifyChain(Scan), NEW i \in 1..Len(journal)
    PROVE  /\ journal[i].seq <= ChainEnd.seq
           /\ journal[i].seq = ChainEnd.seq => journal[i].hash = ChainEnd.hash
<1> USE DEF TrailInv
<1>1. PICK a \in Anchor : a = journal[i] /\ Acknowledged(a)
  BY ElementOfSeq DEF TrailTypeOK, Anchored
<1>2. Len(lines) \in Nat /\ Len(Scan) \in Nat /\ Len(lines) <= Len(Scan) /\ Scan \in Seq(Line)
  BY ScanIs DEF TrailTypeOK
<1>3. CASE a.seq > 0
  <2>1. PICK n \in 1..Len(lines) : n = a.seq /\ lines[n].hash = a.hash
    BY <1>1, <1>3, AnchorsHavePlaces
  <2>2. n \in 1..Len(Scan) /\ Scan[n] = lines[n] /\ Scan # <<>>
    BY <1>2, <2>1, ScanIs DEF TrailTypeOK
  <2>3. ChainEnd.seq = Len(Scan) /\ ChainEnd.hash = Scan[Len(Scan)].hash
    BY <2>2 DEF ChainEnd
  <2>4. QED
    BY <1>1, <1>2, <2>1, <2>2, <2>3
<1>4. CASE a.seq = 0
  <2>1. a.hash = Genesis
    BY <1>1, <1>4, EmptySeq DEF Acknowledged, Anchor, Hash, Genesis
  <2>2. CASE Scan = <<>>
    BY <1>1, <1>4, <2>1, <2>2 DEF ChainEnd, NoSummary
  <2>3. CASE Scan # <<>>
    <3>1. ChainEnd.seq = Len(Scan) /\ Len(Scan) > 0
      BY <1>2, <2>3, EmptySeq DEF ChainEnd
    <3>2. QED
      BY <1>1, <1>2, <1>4, <3>1
  <2>4. QED
    BY <2>2, <2>3
<1>5. QED
  BY <1>1, <1>3, <1>4 DEF Anchor

-----------------------------------------------------------------------------
\* Every variable of the trail keeps its type (broker.go, anchor.go, verify.go).
THEOREM TrailTypesKept == TrailSpec => []TrailTypeOK
<1>1. TrailInv => TrailTypeOK
  BY DEF TrailInv
<1>2. QED
  BY <1>1, TrailHolds, PTL

\* However many brokers share the log, whoever creates it (openOrCreateLogAt) and
\* wherever they are killed, no record they reported as recorded is missing from
\* the disk, nor from a chain that verifies, unless another hand cut the file.
THEOREM SharingLosesNothing == TrailSpec => []SharedLogKeepsAcked
<1>1. TrailInv => SharedLogKeepsAcked
  BY OnDiskIsNotLost DEF TrailInv, TrailTypeOK, Intact, DurabilityInv, SharedLogKeepsAcked
<1>2. QED
  BY <1>1, TrailHolds, PTL

\* A verify that no broker overlaps with never calls a log that was only appended
\* to truncated or altered (verify.go, runVerify): an anchor is published only
\* after the fsync of its record.
THEOREM AlarmsAreTrue == ASSUME ~VerifyOverlaps PROVE TrailSpec => []NoFalseAlarm
<1>1. TrailInv /\ Reading => NoFalseAlarm
  <2> SUFFICES ASSUME TrailInv, Reading, verify = "read", damage = "none", journal # <<>>
               PROVE  Report \notin {"truncated", "altered"}
    BY DEF NoFalseAlarm, Report
  <2>1. VerifyChain(Scan) /\ summary = ChainEnd /\ journal \in Seq(Anchor)
    BY DEF Reading, TrailInv, TrailTypeOK
  <2>2. PICK n \in 1..Len(journal) : Newest = journal[n]
    BY <2>1, NewestExists
  <2>3. PICK end \in Anchor : end = summary
    BY DEF TrailInv, TrailTypeOK
  <2>4. PICK a \in Anchor : a = Newest
    BY <2>1, <2>2, ElementOfSeq
  <2>5. a.seq <= end.seq /\ (a.seq = end.seq => a.hash = end.hash)
    BY <2>1, <2>2, <2>3, <2>4, AnchorsAreNoNewer
  <2>6. ~(a.seq > end.seq)
    BY <2>5 DEF Anchor
  <2>7. QED
    BY <2>3, <2>4, <2>5, <2>6 DEF Report
<1>2. QED
  BY <1>1, TrailHolds, ReadingHolds, PTL

\* Nor does it pass a log that lost the record of an anchor off its end and has
\* not grown since (verify.go, runVerify): the newest anchor says how far the
\* chain went.
THEOREM TruncationDoesNotPass == ASSUME ~VerifyOverlaps PROVE TrailSpec => []TruncationCaught
<1>1. TrailInv /\ Reading => TruncationCaught
  <2> SUFFICES ASSUME TrailInv, Reading, Passes, damage # "beyond",
                      NEW i \in 1..Len(journal), journal[i].seq > 0
               PROVE  \E j \in 1..Len(lines) : lines[j] # Junk /\ lines[j].hash = journal[i].hash
    BY DEF TruncationCaught, AnchoredRecordsPresent
  <2>1. /\ TrailTypeOK /\ TypeOK /\ LinesCount /\ Anchored /\ Intact /\ CutShort
        /\ VerifyChain(Scan) /\ summary = ChainEnd
    BY DEF Passes, Reading, TrailInv, TrailTypeOK
  <2>2. CASE damage = "none"
    BY <2>1, <2>2, AnchorsHavePlaces
  <2>3. CASE damage = "cut"
    <3>1. journal \in Seq(Anchor) /\ journal # <<>>
      BY <2>1, EmptySeq DEF TrailTypeOK
    <3>2. PICK n \in 1..Len(journal) : Newest = journal[n] /\ journal[i].seq <= journal[n].seq
      BY <3>1, NewestExists
    <3>3. PICK a \in Anchor, b \in Anchor, end \in Anchor : a = journal[i] /\ b = journal[n] /\ end = summary
      BY <2>1, <3>1, ElementOfSeq DEF TrailTypeOK
    <3>4. ~(b.seq > end.seq)
      BY <3>1, <3>2, <3>3 DEF Passes, Report
    <3>5. a.seq \in Nat /\ a.seq > 0 /\ a.seq <= end.seq
      BY <3>2, <3>3, <3>4 DEF Anchor
    <3>6. end.seq = Len(Scan) /\ Len(Scan) \in Nat
      BY <2>1, <3>3, ScanIs, EmptySeq DEF ChainEnd, NoSummary
    <3>7. Durable(a.seq) /\ (lines[a.seq] = Junk \/ lines[a.seq].hash = a.hash)
      BY <2>1, <2>3, <3>3, <3>5, <3>6 DEF CutShort, StillThere
    <3>8. a.seq \in 1..Len(lines)
      BY <2>1, <3>7 DEF Durable, TypeOK
    <3>9. lines[a.seq] # Junk
      BY <2>1, <3>8, VerifiedLines DEF TypeOK
    <3>10. QED
      BY <3>3, <3>7, <3>8, <3>9
  <2>4. QED
    BY <2>1, <2>2, <2>3 DEF TrailTypeOK, Damages
<1>2. QED
  BY <1>1, TrailHolds, ReadingHolds, PTL

-----------------------------------------------------------------------------
(* The last operation of a process.                                             *)

\* A broker is between two operations, and its last record was recorded.
Settled(p) == stage[p] = "run" /\ pc[p] = "open" /\ appends[p] > 0 /\ ~failed[p]

\* A step that publishes nothing lets no broker settle, and moves none that has.
LEMMA SettledStays ==
    ASSUME TrailTypeOK, [TrailNext]_allVars, NEW p \in Proc, Settled(p)',
           ~(AnchorReset(p) \/ AnchorRecord(p))
    PROVE  Settled(p) /\ UNCHANGED <<seq[p], head[p]>>
<1> USE DEF TrailTypeOK, TypeOK
<1>1. ASSUME NEW q \in Proc, \/ Start(q) \/ CreateFirst(q) \/ Join(q) \/ Finish(q) \/ Kill(q)
      PROVE  Settled(p) /\ UNCHANGED <<seq[p], head[p]>>
  <2>1. \E state, s, h : SetHandle(q, state, s, h)
    BY <1>1 DEF Start, CreateFirst, Join, Finish, Kill, Open, Create, Close
  <2>2. q # p
    BY <2>1 DEF Settled, SetHandle
  <2>3. \E where : Goto(q, where)
    BY <1>1 DEF Start, CreateFirst, Join, Finish, Kill
  <2>4. QED
    BY <2>1, <2>2, <2>3 DEF Settled, SetHandle, Goto
<1>2. ASSUME NEW q \in Proc, \/ StartAbsent(q) \/ CreateRaced(q) \/ JoinFails(q)
                             \/ (q # p /\ (AnchorReset(q) \/ AnchorRecord(q)))
      PROVE  Settled(p) /\ UNCHANGED <<seq[p], head[p]>>
  <2>1. UNCHANGED vars
    BY <1>2 DEF StartAbsent, CreateRaced, JoinFails, AnchorReset, AnchorRecord, Publish
  <2>2. stage'[p] = stage[p]
    BY <1>2 DEF StartAbsent, CreateRaced, JoinFails, AnchorReset, AnchorRecord, Publish, Goto, Settled
  <2>3. QED
    BY <2>1, <2>2 DEF Settled, vars, handle
<1>3. ASSUME NEW q \in Proc, NEW op \in Op, RecordWrite(q, op)
      PROVE  Settled(p) /\ UNCHANGED <<seq[p], head[p]>>
  <2>1. /\ pc' = [pc EXCEPT ![q] = "written"]
        /\ \E s, h : seq' = [seq EXCEPT ![q] = s] /\ head' = [head EXCEPT ![q] = h]
        /\ appends' = [appends EXCEPT ![q] = @ + 1] /\ UNCHANGED <<stage, failed>>
    BY <1>3 DEF RecordWrite, AppendWrite
  <2>2. QED
    BY <2>1 DEF Settled
<1>4. ASSUME NEW q \in Proc, NEW op \in Op, RecordTorn(q, op)
      PROVE  Settled(p) /\ UNCHANGED <<seq[p], head[p]>>
  BY <1>4 DEF RecordTorn, AppendTorn, Settled
<1>5. ASSUME NEW q \in Proc, RecordSync(q)
      PROVE  Settled(p) /\ UNCHANGED <<seq[p], head[p]>>
  <2>1. /\ pc' = [pc EXCEPT ![q] = "open"] /\ failed' = [failed EXCEPT ![q] = ioerr[q]]
        /\ stage' = [stage EXCEPT ![q] = IF failed'[q] THEN "run" ELSE "anchor"]
        /\ UNCHANGED <<seq, head, appends>>
    BY <1>5 DEF RecordSync, AppendSync, Goto
  <2>2. q # p
    BY <2>1 DEF Settled
  <2>3. QED
    BY <2>1, <2>2 DEF Settled
<1>6. CASE VerifyReadsLog \/ VerifyReadsJournal \/ DiskFails \/ HostFails \/ LogCut \/ UNCHANGED allVars
  BY <1>6 DEF VerifyReadsLog, VerifyReadsJournal, DiskFails, HostFails, LogCut, WritebackError, PowerLoss,
     allVars, trailVars, vars, handle, Settled
<1>7. QED
  BY <1>1, <1>2, <1>3, <1>4, <1>5, <1>6 DEF TrailNext

\* A broker that has recorded its last operation has told the journal so, unless
\* a datagram was dropped (deviceaudit, anchor; denyBeforeBus anchors as well).
THEOREM LastOperationIsAnchored == TrailSpec => []LastOperationAnchored
<1>1. TrailInit => LastOperationAnchored
  BY DEF TrailInit, LastOperationAnchored
<1>2. TrailInv /\ LastOperationAnchored /\ [TrailNext]_allVars => LastOperationAnchored'
  <2> SUFFICES ASSUME TrailTypeOK, LastOperationAnchored, [TrailNext]_allVars,
                      NEW p \in Proc, Settled(p)', drops' = 0
               PROVE  \E i \in 1..Len(journal') : journal'[i] = LogTail(p)'
    BY DEF TrailInv, LastOperationAnchored, Settled
  <2>1. journal \in Seq(Anchor) /\ drops \in Nat
    BY DEF TrailTypeOK
  <2>2. CASE AnchorReset(p) \/ AnchorRecord(p)
    <3>1. PICK a \in Anchor : a = LogTail(p)
      BY DEF LogTail, Anchor, TrailTypeOK, TypeOK
    <3>2. journal' = Append(journal, a) /\ UNCHANGED <<seq, head>>
      BY <2>1, <2>2, <3>1 DEF AnchorReset, AnchorRecord, Publish, vars, handle
    <3>3. Len(journal) + 1 \in 1..Len(journal') /\ journal'[Len(journal) + 1] = a
      BY <2>1, <3>2, AppendProperties, LenProperties
    <3>4. LogTail(p)' = a
      BY <3>1, <3>2 DEF LogTail
    <3>5. QED
      BY <3>3, <3>4
  <2>3. CASE ~(AnchorReset(p) \/ AnchorRecord(p))
    <3>1. Settled(p) /\ UNCHANGED <<seq[p], head[p]>>
      BY <2>3, SettledStays
    <3>2. drops = 0
      BY <2>1, JournalGrows
    <3>3. PICK i \in 1..Len(journal) : journal[i] = LogTail(p)
      BY <3>1, <3>2 DEF LastOperationAnchored, Settled
    <3>4. i \in 1..Len(journal') /\ journal'[i] = journal[i]
      <4>1. CASE UNCHANGED journal
        BY <4>1
      <4>2. ASSUME NEW q \in Proc, journal' = Append(journal, LogTail(q))
            PROVE  i \in 1..Len(journal') /\ journal'[i] = journal[i]
        <5>1. PICK a \in Anchor : a = LogTail(q)
          BY DEF LogTail, Anchor, TrailTypeOK, TypeOK
        <5>2. QED
          BY <2>1, <4>2, <5>1, AppendProperties, LenProperties
      <4>3. QED
        BY <4>1, <4>2, JournalGrows
    <3>5. LogTail(p)' = LogTail(p)
      BY <3>1 DEF LogTail
    <3>6. QED
      BY <3>3, <3>4, <3>5
  <2>4. QED
    BY <2>2, <2>3
<1>3. QED
  BY <1>1, <1>2, TrailHolds, PTL DEF TrailSpec
=============================================================================
