--------------------------- MODULE AuditLogProofs ----------------------------
(***************************************************************************)
(* Theorems about AuditLog, for every number of processes, every set of    *)
(* operations and every bound on the faults; and with one process at a     *)
(* time, as the CLI runs: what a look at the last line is worth, that no   *)
(* sequence number is given out twice, and that a caller who stops at an   *)
(* error has a Ledger.                                                     *)
(***************************************************************************)
EXTENDS AuditLog, SequenceTheorems, TLAPS

-----------------------------------------------------------------------------
(* The operators the actions are built from.                                *)

\* What Append writes is a record whose hash is a hash, wherever the Log
\* stands (log.go, Append; record.go, HashRecord).
LEMMA NextRecordType ==
    ASSUME NEW s \in Nat, NEW h \in Hash, NEW op \in Op
    PROVE  /\ NextRecord(s, h, op) \in Record
           /\ NextRecord(s, h, op).seq = s + 1
           /\ NextRecord(s, h, op).hash \in Hash
<1>1. [seq |-> s + 1, op |-> op] \in Content
  BY DEF Content
<1>2. HashRecord(h, [seq |-> s + 1, op |-> op]) \in Hash
  BY <1>1 DEF HashRecord, Hash
<1>3. QED
  BY <1>2 DEF NextRecord, Record

\* Bytes that land behind a fragment are still one line.
LEMMA BehindType ==
    ASSUME NEW r \in Line
    PROVE  Behind(r) \in Line
  BY DEF Behind, Line

\* A tail that verifies gives Open a sequence number and a head.
LEMMA TailType ==
    ASSUME lines \in Seq(Line), TailVerifies
    PROVE  TailSeq \in Nat /\ TailHash \in Hash
<1>1. CASE lines = <<>>
  BY <1>1 DEF TailSeq, TailHash, Genesis, Hash
<1>2. CASE lines # <<>>
  <2>1. lines[Len(lines)] \in Line
    BY <1>2
  <2>2. lines[Len(lines)] \in Record
    BY <2>1, <1>2 DEF TailVerifies, Line
  <2>3. QED
    BY <2>2, <1>2 DEF TailSeq, TailHash, Record
<1>3. QED
  BY <1>1, <1>2

\* The file a power loss leaves is a sequence of lines again.
LEMMA SurvivorsType ==
    ASSUME lines \in Seq(Line), NEW k \in 0..Len(lines), NEW holes
    PROVE  LET left == [i \in 1..k |-> IF i \in holes \/ i - 1 \in holes THEN Junk ELSE lines[i]]
           IN  left \in Seq(Line) /\ Len(left) = k
<1> DEFINE left == [i \in 1..k |-> IF i \in holes \/ i - 1 \in holes THEN Junk ELSE lines[i]]
<1>1. \A i \in 1..k : left[i] \in Line
  BY DEF Line
<1>2. k \in Nat /\ left \in [1..k -> Line]
  BY <1>1
<1>3. left \in Seq(Line)
  BY <1>2, IsASeq
<1>4. Len(left) = k
  BY <1>2, <1>3, LenProperties
<1>5. QED
  BY <1>3, <1>4

\* What it leaves behind them is a fragment or nothing.
LEMMA ResidueType ==
    ASSUME lines \in Seq(Line), fragment \in Line \cup {NoFragment}, NEW k \in Nat
    PROVE  Residue(k) \subseteq Line \cup {NoFragment}
<1>1. CASE fragment = NoFragment
  BY <1>1 DEF Residue, Scan, Line
<1>2. CASE fragment # NoFragment
  <2>1. Scan \in Seq(Line)
    BY <1>2 DEF Scan
  <2>2. QED
    BY <2>1 DEF Residue, Line
<1>3. QED
  BY <1>1, <1>2

-----------------------------------------------------------------------------
(* Type correctness.                                                        *)

\* The first state has the types.
LEMMA TypeBegun == Init => TypeOK
<1>1. Genesis \in Hash /\ <<>> \in Seq(Line) /\ Len(<<>>) = 0
  BY EmptySeq DEF Genesis, Hash
<1>2. ASSUME Init
      PROVE  TypeOK
  <2>1. /\ lines \in Seq(Line)
        /\ settled \in 0..Len(lines)
        /\ lost \subseteq 1..settled
    BY <1>1, <1>2 DEF Init
  <2>2. /\ present \in BOOLEAN
        /\ fragment \in Line \cup {NoFragment}
        /\ acked \subseteq Hash
        /\ torn \in Nat /\ writebacks \in Nat /\ powers \in Nat
    BY <1>2 DEF Init
  <2>3. /\ pc \in [Proc -> {"closed", "open", "written"}]
        /\ seq \in [Proc -> Nat]
        /\ head \in [Proc -> Hash]
        /\ appends \in [Proc -> Nat]
        /\ failed \in [Proc -> BOOLEAN]
        /\ ioerr \in [Proc -> BOOLEAN]
    BY <1>1, <1>2 DEF Init
  <2>4. QED
    BY <2>1, <2>2, <2>3 DEF TypeOK
<1>3. QED
  BY <1>2

\* Every step keeps them: one step below for each action.
LEMMA TypeStep == TypeOK /\ [Next]_vars => TypeOK'
<1> SUFFICES ASSUME TypeOK, [Next]_vars
             PROVE  TypeOK'
  OBVIOUS
<1> USE DEF TypeOK, file, disk, handle, faults
<1>1. ASSUME NEW p \in Proc, Open(p)
      PROVE  TypeOK'
  <2>1. TailSeq \in Nat /\ TailHash \in Hash
    BY <1>1, TailType DEF Open
  <2>2. QED
    BY <1>1, <2>1 DEF Open, SetHandle
<1>2. ASSUME NEW p \in Proc, Create(p)
      PROVE  TypeOK'
  BY <1>2, EmptySeq DEF Create, SetHandle, Genesis, Hash
<1>3. ASSUME NEW p \in Proc, NEW op \in Op, AppendWrite(p, op)
      PROVE  TypeOK'
  <2> DEFINE r == NextRecord(seq[p], head[p], op)
  <2>1. r \in Record /\ r.seq \in Nat /\ r.hash \in Hash
    BY NextRecordType
  <2>2. Behind(r) \in Line
    BY <2>1, BehindType DEF Line
  <2>3. /\ lines' = Append(lines, Behind(r))
        /\ seq' = [seq EXCEPT ![p] = r.seq]
        /\ head' = [head EXCEPT ![p] = r.hash]
    BY <1>3 DEF AppendWrite
  <2> HIDE DEF r
  <2>4. lines' \in Seq(Line) /\ Len(lines') = Len(lines) + 1
    BY <2>2, <2>3, AppendProperties
  <2>5. seq' \in [Proc -> Nat] /\ head' \in [Proc -> Hash]
    BY <2>1, <2>3
  <2>6. QED
    BY <1>3, <2>4, <2>5 DEF AppendWrite
<1>4. ASSUME NEW p \in Proc, NEW op \in Op, AppendTorn(p, op)
      PROVE  TypeOK'
  <2>1. Behind(NextRecord(seq[p], head[p], op)) \in Line
    BY NextRecordType, BehindType DEF Line
  <2>2. fragment' \in Line \cup {NoFragment}
    BY <1>4, <2>1 DEF AppendTorn, Line
  <2>3. QED
    BY <1>4, <2>2 DEF AppendTorn
<1>5. ASSUME NEW p \in Proc, AppendSync(p)
      PROVE  TypeOK'
  BY <1>5 DEF AppendSync
<1>6. ASSUME NEW p \in Proc, Close(p)
      PROVE  TypeOK'
  BY <1>6, EmptySeq DEF Close, SetHandle, Genesis, Hash
<1>7. ASSUME NEW p \in Proc, Crash(p)
      PROVE  TypeOK'
  BY <1>7, EmptySeq DEF Crash, SetHandle, Genesis, Hash
<1>8. CASE WritebackError
  <2>1. /\ lost' = lost \cup (settled + 1)..Len(lines)
        /\ settled' = Len(lines)
        /\ lines' = lines
    BY <1>8 DEF WritebackError
  <2>2. Len(lines) \in Nat
    OBVIOUS
  <2>3. settled' \in 0..Len(lines') /\ \A i \in lost' : i \in 1..settled'
    <3>1. settled' \in 0..Len(lines')
      BY <2>1, <2>2
    <3>2. ASSUME NEW i \in lost'
          PROVE  i \in 1..settled'
      <4>1. i \in lost \/ i \in (settled + 1)..Len(lines)
        BY <2>1, <3>2
      <4>2. QED
        BY <2>1, <2>2, <4>1
    <3>3. QED
      BY <3>1, <3>2
  <2>4. lost' \subseteq 1..settled'
    BY <2>3
  <2>5. QED
    BY <1>8, <2>3, <2>4 DEF WritebackError
<1>9. CASE PowerLoss
  <2>1. PICK k \in 0..Len(lines) :
          /\ \E holes \in SUBSET {i \in lost : i <= k} :
               lines' = [i \in 1..k |-> IF i \in holes \/ i - 1 \in holes THEN Junk ELSE lines[i]]
          /\ fragment' \in Residue(k)
          /\ settled' = k
    BY <1>9 DEF PowerLoss
  <2>2. lines' \in Seq(Line) /\ Len(lines') = k
    BY <2>1, SurvivorsType
  <2>3. fragment' \in Line \cup {NoFragment}
    BY <2>1, ResidueType
  <2>4. QED
    BY <1>9, <2>1, <2>2, <2>3, EmptySeq DEF PowerLoss, Genesis, Hash
<1>10. CASE UNCHANGED vars
  BY <1>10 DEF vars
<1>11. QED
  BY <1>1, <1>2, <1>3, <1>4, <1>5, <1>6, <1>7, <1>8, <1>9, <1>10 DEF Next

\* Every variable of the log keeps its type, whatever the code and the host do.
THEOREM TypeCorrect == Spec => []TypeOK
  BY TypeBegun, TypeStep, PTL DEF Spec

-----------------------------------------------------------------------------
(* No record is lost silently.                                              *)

\* The line a process has written and not yet synced is in the file, alone or
\* run together with a fragment, and if its writeback has failed then the
\* process's fsync will say so.
WrittenInFile ==
    \A p \in Proc : pc[p] = "written" =>
        \E i \in 1..Len(lines) :
            /\ lines[i] = Junk \/ lines[i].hash = head[p]
            /\ i \in lost => ioerr[p]

\* The strengthening that is inductive: only AppendSync acknowledges, and what
\* it relies on is the state its own process left behind.
DurabilityInv == AckedOnDisk /\ WrittenInFile

\* Nothing has been acknowledged at first.
LEMMA DurabilityBegun == Init => DurabilityInv
  BY DEF Init, DurabilityInv, AckedOnDisk, WrittenInFile

\* A line that no step rewrites and no writeback loses keeps both parts.
LEMMA DurabilityStep == TypeOK /\ DurabilityInv /\ [Next]_vars => DurabilityInv'
<1> SUFFICES ASSUME TypeOK, DurabilityInv, [Next]_vars
             PROVE  AckedOnDisk' /\ WrittenInFile'
  BY DEF DurabilityInv
<1> USE DEF file, disk, handle, faults
<1>1. AckedOnDisk /\ WrittenInFile
  BY DEF DurabilityInv
<1>2. ASSUME NEW p \in Proc, Open(p) \/ Create(p) \/ Close(p) \/ Crash(p)
      PROVE  AckedOnDisk' /\ WrittenInFile'
  <2>1. /\ UNCHANGED <<lines, settled, lost, acked>>
        /\ pc' \in [Proc -> {"closed", "open", "written"}]
        /\ pc'[p] # "written"
        /\ \A q \in Proc \ {p} : pc'[q] = pc[q] /\ head'[q] = head[q]
        /\ \A q \in Proc \ {p} : Open(p) \/ Create(p) => ioerr'[q] = ioerr[q]
        /\ Close(p) \/ Crash(p) => ioerr' = ioerr
    BY <1>2 DEF TypeOK, Open, Create, Close, Crash, SetHandle
  <2>2. AckedOnDisk'
    BY <1>1, <2>1 DEF AckedOnDisk, Durable
  <2>3. WrittenInFile'
    BY <1>1, <1>2, <2>1 DEF WrittenInFile
  <2>4. QED
    BY <2>2, <2>3
<1>3. ASSUME NEW p \in Proc, NEW op \in Op, AppendWrite(p, op)
      PROVE  AckedOnDisk' /\ WrittenInFile'
  <2> DEFINE r == NextRecord(seq[p], head[p], op)
  <2>1. /\ lines' = Append(lines, Behind(r))
        /\ head' = [head EXCEPT ![p] = r.hash]
        /\ pc' = [pc EXCEPT ![p] = "written"]
        /\ UNCHANGED <<settled, lost, ioerr, acked>>
    BY <1>3 DEF AppendWrite
  <2>2. Behind(r) = r \/ Behind(r) = Junk
    BY DEF Behind
  <2>3. Behind(r) \in Line
    BY NextRecordType, BehindType DEF TypeOK, Line
  <2> HIDE DEF r
  <2>4. /\ Len(lines') = Len(lines) + 1
        /\ \A i \in 1..Len(lines) : lines'[i] = lines[i]
        /\ lines'[Len(lines) + 1] = Behind(r)
    BY <2>1, <2>3, AppendProperties DEF TypeOK
  <2>5. ASSUME NEW h \in acked
        PROVE  \E i \in 1..Len(lines') : Durable(i)' /\ (lines'[i] = Junk \/ lines'[i].hash = h)
    <3>1. PICK i \in 1..Len(lines) : Durable(i) /\ (lines[i] = Junk \/ lines[i].hash = h)
      BY <1>1, <2>5 DEF AckedOnDisk
    <3>2. i \in 1..Len(lines') /\ lines'[i] = lines[i] /\ Durable(i)'
      BY <2>1, <2>4, <3>1 DEF Durable, TypeOK
    <3>3. QED
      BY <3>1, <3>2
  <2>6. ASSUME NEW q \in Proc, pc'[q] = "written"
        PROVE  \E i \in 1..Len(lines') :
                   /\ lines'[i] = Junk \/ lines'[i].hash = head'[q]
                   /\ i \in lost' => ioerr'[q]
    <3>1. CASE q = p
      <4>1. head'[p] = r.hash
        BY <2>1 DEF TypeOK
      <4>2. Len(lines) + 1 \in 1..Len(lines') /\ Len(lines) + 1 \notin lost'
        BY <2>1, <2>4 DEF TypeOK
      <4>3. QED
        BY <2>2, <2>4, <3>1, <4>1, <4>2
    <3>2. CASE q # p
      <4>1. pc[q] = "written" /\ head'[q] = head[q]
        BY <2>1, <2>6, <3>2 DEF TypeOK
      <4>2. PICK i \in 1..Len(lines) :
                /\ lines[i] = Junk \/ lines[i].hash = head[q]
                /\ i \in lost => ioerr[q]
        BY <1>1, <4>1 DEF WrittenInFile
      <4>3. i \in 1..Len(lines') /\ lines'[i] = lines[i]
        BY <2>4 DEF TypeOK
      <4>4. QED
        BY <2>1, <4>1, <4>2, <4>3
    <3>3. QED
      BY <3>1, <3>2
  <2>7. QED
    BY <2>1, <2>5, <2>6 DEF AckedOnDisk, WrittenInFile
<1>4. ASSUME NEW p \in Proc, NEW op \in Op, AppendTorn(p, op)
      PROVE  AckedOnDisk' /\ WrittenInFile'
  BY <1>1, <1>4 DEF AppendTorn, AckedOnDisk, WrittenInFile, Durable
<1>5. ASSUME NEW p \in Proc, AppendSync(p)
      PROVE  AckedOnDisk' /\ WrittenInFile'
  <2>1. /\ pc[p] = "written"
        /\ UNCHANGED <<lines, lost, head>>
        /\ settled' = Len(lines)
        /\ pc' = [pc EXCEPT ![p] = "open"]
        /\ acked' = IF ioerr[p] THEN acked ELSE acked \cup {head[p]}
        /\ ioerr' = [ioerr EXCEPT ![p] = FALSE]
    BY <1>5 DEF AppendSync
  <2>2. ASSUME NEW h \in acked'
        PROVE  \E i \in 1..Len(lines') : Durable(i)' /\ (lines'[i] = Junk \/ lines'[i].hash = h)
    <3>1. CASE h \in acked
      <4>1. PICK i \in 1..Len(lines) : Durable(i) /\ (lines[i] = Junk \/ lines[i].hash = h)
        BY <1>1, <3>1 DEF AckedOnDisk
      <4>2. Durable(i)'
        BY <2>1, <4>1 DEF Durable, TypeOK
      <4>3. QED
        BY <2>1, <4>1, <4>2
    <3>2. CASE h \notin acked
      <4>1. ~ioerr[p] /\ h = head[p]
        BY <2>1, <2>2, <3>2
      <4>2. PICK i \in 1..Len(lines) : i \notin lost /\ (lines[i] = Junk \/ lines[i].hash = h)
        BY <1>1, <2>1, <4>1 DEF WrittenInFile
      <4>3. Durable(i)'
        BY <2>1, <4>2 DEF Durable, TypeOK
      <4>4. QED
        BY <2>1, <4>2, <4>3
    <3>3. QED
      BY <3>1, <3>2
  <2>3. WrittenInFile'
    <3>1. ASSUME NEW q \in Proc, pc'[q] = "written"
          PROVE  q # p /\ pc[q] = "written" /\ ioerr'[q] = ioerr[q]
      BY <2>1, <3>1 DEF TypeOK
    <3>2. QED
      BY <1>1, <2>1, <3>1 DEF WrittenInFile
  <2>4. QED
    BY <2>2, <2>3 DEF AckedOnDisk
<1>6. CASE WritebackError
  <2>1. /\ UNCHANGED <<lines, head, pc, acked>>
        /\ lost' = lost \cup (settled + 1)..Len(lines)
        /\ settled' = Len(lines)
        /\ ioerr' = [p \in Proc |-> TRUE]
    BY <1>6 DEF WritebackError
  <2>2. ASSUME NEW i, Durable(i)
        PROVE  Durable(i)'
    BY <2>1, <2>2 DEF Durable, TypeOK
  <2>3. AckedOnDisk'
    BY <1>1, <2>1, <2>2 DEF AckedOnDisk
  <2>4. WrittenInFile'
    BY <1>1, <2>1 DEF WrittenInFile
  <2>5. QED
    BY <2>3, <2>4
<1>7. CASE PowerLoss
  <2>1. PICK k \in 0..Len(lines) :
          /\ \A i \in k + 1..Len(lines) : ~Durable(i)
          /\ \E holes \in SUBSET {i \in lost : i <= k} :
               lines' = [i \in 1..k |-> IF i \in holes \/ i - 1 \in holes THEN Junk ELSE lines[i]]
          /\ settled' = k
    BY <1>7 DEF PowerLoss
  <2>2. lines' \in Seq(Line) /\ Len(lines') = k
    BY <2>1, SurvivorsType DEF TypeOK
  <2>3. \A i \in 1..k : lines'[i] = Junk \/ lines'[i] = lines[i]
    BY <2>1
  <2>4. lost' = {} /\ acked' = acked /\ \A p \in Proc : pc'[p] = "closed"
    BY <1>7 DEF PowerLoss
  <2>5. ASSUME NEW h \in acked
        PROVE  \E i \in 1..Len(lines') : Durable(i)' /\ (lines'[i] = Junk \/ lines'[i].hash = h)
    <3>1. PICK i \in 1..Len(lines) : Durable(i) /\ (lines[i] = Junk \/ lines[i].hash = h)
      BY <1>1, <2>5 DEF AckedOnDisk
    <3>2. i \in 1..k
      BY <2>1, <3>1 DEF TypeOK
    <3>3. Durable(i)'
      BY <2>1, <2>4, <3>2 DEF Durable
    <3>4. QED
      BY <2>2, <2>3, <3>1, <3>2, <3>3
  <2>6. QED
    BY <2>4, <2>5 DEF AckedOnDisk, WrittenInFile
<1>8. CASE UNCHANGED vars
  BY <1>1, <1>8 DEF vars, AckedOnDisk, WrittenInFile, Durable
<1>9. QED
  BY <1>2, <1>3, <1>4, <1>5, <1>6, <1>7, <1>8 DEF Next

\* What a reader of the file learns from it: a line that verifies is not run
\* together with anything.
LEMMA VerifiedLines ==
    ASSUME lines \in Seq(Line), fragment \in Line \cup {NoFragment}, VerifyChain(Scan)
    PROVE  \A i \in 1..Len(lines) : lines[i] # Junk
<1>1. Len(Scan) \in Nat /\ Len(lines) <= Len(Scan) /\ \A i \in 1..Len(lines) : Scan[i] = lines[i]
  <2>1. CASE fragment = NoFragment
    BY <2>1 DEF Scan
  <2>2. CASE fragment # NoFragment
    BY <2>2, AppendProperties DEF Scan
  <2>3. QED
    BY <2>1, <2>2
<1>2. QED
  BY <1>1 DEF VerifyChain, ContinuesChain

\* Every acknowledged record is on the disk (log.go, Append's fsync), for every
\* set of processes, every interleaving of them and every fault.
THEOREM AckedStaysOnDisk == Spec => []AckedOnDisk
<1>1. DurabilityInv => AckedOnDisk
  BY DEF DurabilityInv
<1>2. QED
  BY <1>1, DurabilityBegun, DurabilityStep, TypeCorrect, PTL DEF Spec

\* A line on the disk that verifies is the record itself.
LEMMA OnDiskIsNotLost == TypeOK /\ AckedOnDisk => NoSilentLoss
<1> SUFFICES ASSUME TypeOK, AckedOnDisk, VerifyChain(Scan), NEW h \in acked
             PROVE  \E i \in 1..Len(lines) : lines[i] # Junk /\ lines[i].hash = h
  BY DEF NoSilentLoss
<1>1. PICK i \in 1..Len(lines) : lines[i] = Junk \/ lines[i].hash = h
  BY DEF AckedOnDisk
<1>2. lines[i] # Junk
  BY VerifiedLines DEF TypeOK
<1>3. QED
  BY <1>1, <1>2

\* A file that VerifyChain accepts holds every acknowledged record.
THEOREM NothingLostSilently == Spec => []NoSilentLoss
  BY OnDiskIsNotLost, TypeCorrect, AckedStaysOnDisk, PTL

-----------------------------------------------------------------------------
(* One process at a time.                                                   *)

Alone == \A p, q \in Proc : p = q

-----------------------------------------------------------------------------
(* A place in the file and a sequence number are one.                           *)

SeqOf(h) == h[Len(h)].seq

\* Without another process, the Log's sequence number is the place of the last
\* line, which need not decode, and a record in the file says its own place.
PlaceInv ==
    /\ \A i \in 1..Len(lines) : lines[i] # Junk => lines[i].seq = i
    /\ \A p \in Proc : pc[p] # "closed" => seq[p] = Len(lines)
    /\ \A p \in Proc : pc[p] = "written" => lines # <<>>
    /\ ~present => lines = <<>> /\ \A p \in Proc : pc[p] = "closed"

\* What AppendWrite puts behind the last line.
LEMMA WriteGrows ==
    ASSUME TypeOK, NEW p \in Proc, NEW op \in Op, AppendWrite(p, op)
    PROVE  \E r \in Record :
              /\ r = NextRecord(seq[p], head[p], op) /\ r # Junk
              /\ r.seq = seq[p] + 1 /\ r.prev = head[p] /\ verifyRecord(head[p], r)
              /\ SeqOf(r.hash) = r.seq /\ Len(r.hash) = Len(head[p]) + 1
              /\ Behind(r) \in {r, Junk} /\ (fragment = NoFragment => Behind(r) = r)
              /\ seq' = [seq EXCEPT ![p] = r.seq] /\ head' = [head EXCEPT ![p] = r.hash]
              /\ lines' = Append(lines, Behind(r)) /\ lines' \in Seq(Line)
              /\ Len(lines) \in Nat /\ Len(lines') = Len(lines) + 1
              /\ lines'[Len(lines) + 1] = Behind(r)
              /\ \A i \in 1..Len(lines) : lines'[i] = lines[i]
<1> DEFINE c == [seq |-> seq[p] + 1, op |-> op]
<1>1. c \in Content /\ seq[p] \in Nat /\ head[p] \in Hash
  BY DEF Content, TypeOK
<1>2. PICK r \in Record : r = NextRecord(seq[p], head[p], op)
  BY <1>1, NextRecordType
<1>3. r.seq = seq[p] + 1 /\ r.prev = head[p] /\ r.op = op /\ r.hash = Append(head[p], c)
  BY <1>2 DEF NextRecord, HashRecord
<1>4. verifyRecord(head[p], r)
  BY <1>3 DEF verifyRecord, HashRecord
<1>5. SeqOf(r.hash) = r.seq /\ Len(r.hash) = Len(head[p]) + 1
  <2> HIDE DEF c
  <2>1. LET h == Append(head[p], c)
        IN  Len(h) = Len(head[p]) + 1 /\ h[Len(head[p]) + 1] = c
    BY <1>1, AppendProperties DEF Hash
  <2>2. SeqOf(r.hash) = c.seq
    BY <1>3, <2>1 DEF SeqOf
  <2>3. c.seq = r.seq
    BY <1>3 DEF c
  <2>4. QED
    BY <1>3, <2>1, <2>2, <2>3
<1>6. r # Junk /\ Behind(r) \in {r, Junk} /\ (fragment = NoFragment => Behind(r) = r)
  BY JunkIsNoRecord DEF Behind
<1>7. seq' = [seq EXCEPT ![p] = r.seq] /\ head' = [head EXCEPT ![p] = r.hash] /\ lines' = Append(lines, Behind(r))
  BY <1>2 DEF AppendWrite
<1>8. PICK b \in Line : b = Behind(r)
  BY <1>6 DEF Line
<1>9. /\ lines' \in Seq(Line) /\ Len(lines) \in Nat /\ Len(lines') = Len(lines) + 1
      /\ lines'[Len(lines) + 1] = b
      /\ \A i \in 1..Len(lines) : lines'[i] = lines[i]
  BY <1>7, <1>8, AppendProperties, LenProperties DEF TypeOK
<1>10. QED
  BY <1>2, <1>3, <1>4, <1>5, <1>6, <1>7, <1>8, <1>9

\* What a power loss leaves of the complete lines.
LEMMA PowerLeaves ==
    ASSUME TypeOK, PowerLoss
    PROVE  \E k \in 0..Len(lines) :
              /\ \A i \in k + 1..Len(lines) : ~Durable(i)
              /\ lines' \in Seq(Line) /\ Len(lines') = k /\ settled' = k /\ lost' = {}
              /\ \A i \in 1..k : lines'[i] \in {Junk, lines[i]}
              /\ lost = {} => \A i \in 1..k : lines'[i] = lines[i]
              /\ fragment' \in Residue(k)
              /\ \A p \in Proc : pc'[p] = "closed"
<1>1. PICK k \in 0..Len(lines) :
          /\ \A i \in k + 1..Len(lines) : ~Durable(i)
          /\ \E holes \in SUBSET {i \in lost : i <= k} :
               lines' = [i \in 1..k |-> IF i \in holes \/ i - 1 \in holes THEN Junk ELSE lines[i]]
          /\ fragment' \in Residue(k)
          /\ settled' = k
  BY DEF PowerLoss
<1>2. lines' \in Seq(Line) /\ Len(lines') = k
  BY <1>1, SurvivorsType DEF TypeOK
<1>3. \A i \in 1..k : lines'[i] \in {Junk, lines[i]}
  BY <1>1
<1>4. lost = {} => \A i \in 1..k : lines'[i] = lines[i]
  BY <1>1
<1>5. lost' = {} /\ \A p \in Proc : pc'[p] = "closed"
  BY DEF PowerLoss
<1>6. QED
  BY <1>1, <1>2, <1>3, <1>4, <1>5

\* An empty file has no places to mistake.
LEMMA PlaceBegun == Init => PlaceInv
  BY EmptySeq DEF Init, PlaceInv

\* Every step of the one process, and of the host, keeps the places.
LEMMA PlaceStep == Alone /\ TypeOK /\ PlaceInv /\ [Next]_vars => PlaceInv'
<1> SUFFICES ASSUME Alone, TypeOK, PlaceInv, [Next]_vars
             PROVE  PlaceInv'
  OBVIOUS
<1> USE DEF Alone, PlaceInv, file, disk, handle, faults
<1>0. TypeOK'
  BY TypeStep
<1>1. ASSUME NEW p \in Proc, Open(p)
      PROVE  PlaceInv'
  <2>1. TailSeq = Len(lines)
    <3>1. CASE lines = <<>>
      BY <3>1 DEF TailSeq
    <3>2. CASE lines # <<>>
      <4>1. Len(lines) \in 1..Len(lines) /\ lines[Len(lines)] # Junk
        BY <1>1, <3>2, LenProperties, EmptySeq DEF Open, TailVerifies, TypeOK
      <4>2. QED
        BY <3>2, <4>1 DEF TailSeq
    <3>3. QED
      BY <3>1, <3>2
  <2>2. QED
    BY <1>1, <2>1 DEF Open, SetHandle, TypeOK
<1>2. ASSUME NEW p \in Proc, Create(p)
      PROVE  PlaceInv'
  BY <1>2 DEF Create, SetHandle, TypeOK
<1>3. ASSUME NEW p \in Proc, NEW op \in Op, AppendWrite(p, op)
      PROVE  PlaceInv'
  <2>1. PICK r \in Record :
          /\ r.seq = seq[p] + 1 /\ Behind(r) \in {r, Junk}
          /\ seq' = [seq EXCEPT ![p] = r.seq]
          /\ Len(lines) \in Nat /\ Len(lines') = Len(lines) + 1
          /\ lines'[Len(lines) + 1] = Behind(r)
          /\ \A i \in 1..Len(lines) : lines'[i] = lines[i]
    BY <1>3, WriteGrows
  <2>2. pc[p] = "open" /\ pc' = [pc EXCEPT ![p] = "written"] /\ present' = present
    BY <1>3 DEF AppendWrite, MayAppend
  <2>3. seq[p] = Len(lines)
    BY <2>2
  <2>4. \A i \in 1..Len(lines') : lines'[i] # Junk => lines'[i].seq = i
    BY <2>1, <2>3
  <2>5. \A q \in Proc : seq'[q] = Len(lines')
    BY <2>1, <2>3 DEF TypeOK
  <2>6. lines' # <<>>
    BY <2>1, EmptySeq
  <2>7. present
    BY <2>2
  <2>8. QED
    BY <2>2, <2>4, <2>5, <2>6, <2>7
<1>4. ASSUME NEW p \in Proc, NEW op \in Op, AppendTorn(p, op)
      PROVE  PlaceInv'
  BY <1>4 DEF AppendTorn
<1>5. ASSUME NEW p \in Proc, AppendSync(p)
      PROVE  PlaceInv'
  BY <1>5 DEF AppendSync, TypeOK
<1>6. ASSUME NEW p \in Proc, Close(p) \/ Crash(p)
      PROVE  PlaceInv'
  BY <1>6 DEF Close, Crash, SetHandle, TypeOK
<1>7. CASE WritebackError
  BY <1>7 DEF WritebackError
<1>8. CASE PowerLoss
  <2>1. PICK k \in 0..Len(lines) :
          /\ lines' \in Seq(Line) /\ Len(lines') = k
          /\ \A i \in 1..k : lines'[i] \in {Junk, lines[i]}
          /\ \A p \in Proc : pc'[p] = "closed"
    BY <1>8, PowerLeaves
  <2>2. Len(lines) \in Nat /\ present' = present
    BY <1>8, LenProperties DEF PowerLoss, TypeOK
  <2>3. \A i \in 1..Len(lines') : lines'[i] # Junk => lines'[i].seq = i
    BY <2>1, <2>2
  <2>4. lines = <<>> => lines' = <<>>
    BY <2>1, <2>2, EmptySeq
  <2>5. QED
    BY <2>1, <2>2, <2>3, <2>4
<1>9. CASE UNCHANGED vars
  BY <1>9 DEF vars
<1>10. QED
  BY <1>1, <1>2, <1>3, <1>4, <1>5, <1>6, <1>7, <1>8, <1>9 DEF Next

-----------------------------------------------------------------------------
(* No sequence number is given out twice.                                       *)

\* A record reported as recorded sits durably in the place it is numbered for,
\* and what is written behind it is numbered higher.
UniqueInv ==
    /\ \A h \in acked : Durable(SeqOf(h))
    /\ \A p \in Proc : pc[p] = "written" =>
         /\ SeqOf(head[p]) = Len(lines)
         /\ \A g \in acked : SeqOf(g) < Len(lines)
         /\ Len(lines) \in lost => ioerr[p]
    /\ AckedSeqUnique

\* Nothing has been acknowledged at first.
LEMMA UniqueBegun == Init => UniqueInv
  BY DEF Init, UniqueInv, AckedSeqUnique

\* Every step keeps acknowledged records in their places.
LEMMA UniqueStep == Alone /\ TypeOK /\ PlaceInv /\ UniqueInv /\ [Next]_vars => UniqueInv'
<1> SUFFICES ASSUME Alone, TypeOK, PlaceInv, UniqueInv, [Next]_vars
             PROVE  UniqueInv'
  OBVIOUS
<1> USE DEF Alone, UniqueInv, file, disk, handle, faults
<1>0. /\ Len(lines) \in Nat /\ settled \in 0..Len(lines) /\ lost \subseteq 1..settled
      /\ \A h \in acked : SeqOf(h) \in 1..settled
  BY LenProperties DEF TypeOK, Durable
<1>1. ASSUME NEW p \in Proc, Open(p) \/ Create(p) \/ Close(p) \/ Crash(p)
      PROVE  UniqueInv'
  <2>1. UNCHANGED <<lines, settled, lost, acked>> /\ \A q \in Proc : pc'[q] # "written"
    BY <1>1 DEF Open, Create, Close, Crash, SetHandle, TypeOK
  <2>2. QED
    BY <2>1 DEF Durable, AckedSeqUnique
<1>2. ASSUME NEW p \in Proc, NEW op \in Op, AppendWrite(p, op)
      PROVE  UniqueInv'
  <2>1. PICK r \in Record :
          /\ r.seq = seq[p] + 1 /\ SeqOf(r.hash) = r.seq
          /\ head' = [head EXCEPT ![p] = r.hash]
          /\ Len(lines') = Len(lines) + 1
    BY <1>2, WriteGrows
  <2>2. seq[p] = Len(lines)
    BY <1>2 DEF AppendWrite, MayAppend, PlaceInv
  <2>3. UNCHANGED <<settled, lost, ioerr, acked>>
    BY <1>2 DEF AppendWrite
  <2>4. \A q \in Proc : SeqOf(head'[q]) = Len(lines')
    BY <2>1, <2>2 DEF TypeOK
  <2>5. Len(lines') \notin lost /\ \A g \in acked : SeqOf(g) < Len(lines')
    BY <1>0, <2>1
  <2>6. QED
    BY <2>3, <2>4, <2>5 DEF Durable, AckedSeqUnique
<1>3. ASSUME NEW p \in Proc, NEW op \in Op, AppendTorn(p, op)
      PROVE  UniqueInv'
  BY <1>3 DEF AppendTorn, Durable, AckedSeqUnique
<1>4. ASSUME NEW p \in Proc, AppendSync(p)
      PROVE  UniqueInv'
  <2>1. /\ pc[p] = "written" /\ settled' = Len(lines) /\ UNCHANGED <<lines, lost>>
        /\ acked' = IF ioerr[p] THEN acked ELSE acked \cup {head[p]}
        /\ \A q \in Proc : pc'[q] # "written"
    BY <1>4 DEF AppendSync, TypeOK
  <2>2. SeqOf(head[p]) = Len(lines) /\ \A g \in acked : SeqOf(g) < Len(lines)
    BY <2>1
  <2>3. \A h \in acked : Durable(SeqOf(h))'
    BY <1>0, <2>1 DEF Durable
  <2>4. ~ioerr[p] => Len(lines) \in 1..settled' /\ Len(lines) \notin lost'
    <3>1. Len(lines) \in 1..Len(lines)
      BY <2>1, <1>0, EmptySeq DEF PlaceInv, TypeOK
    <3>2. QED
      BY <2>1, <2>2, <3>1
  <2>5. ASSUME NEW h \in acked'
        PROVE  SeqOf(h) \in 1..settled' /\ SeqOf(h) \notin lost'
    <3>1. CASE h \in acked
      BY <2>3, <3>1 DEF Durable
    <3>2. CASE h \notin acked
      <4>1. h = head[p] /\ ~ioerr[p]
        BY <2>1, <2>5, <3>2
      <4>2. QED
        BY <2>2, <2>4, <4>1
    <3>3. QED
      BY <3>1, <3>2
  <2>6. AckedSeqUnique'
    BY <1>0, <2>1, <2>2 DEF AckedSeqUnique, SeqOf
  <2>7. QED
    BY <2>1, <2>5, <2>6 DEF Durable
<1>5. CASE WritebackError
  <2>1. /\ UNCHANGED <<lines, head, pc, acked>>
        /\ lost' = lost \cup (settled + 1)..Len(lines)
        /\ settled' = Len(lines)
        /\ \A p \in Proc : ioerr'[p]
    BY <1>5 DEF WritebackError
  <2>2. \A h \in acked : Durable(SeqOf(h))'
    BY <1>0, <2>1 DEF Durable
  <2>3. QED
    BY <2>1, <2>2 DEF AckedSeqUnique
<1>6. CASE PowerLoss
  <2>1. PICK k \in 0..Len(lines) :
          /\ \A i \in k + 1..Len(lines) : ~Durable(i)
          /\ settled' = k /\ lost' = {}
          /\ \A p \in Proc : pc'[p] = "closed"
    BY <1>6, PowerLeaves
  <2>2. acked' = acked
    BY <1>6 DEF PowerLoss
  <2>3. \A h \in acked : Durable(SeqOf(h))'
    BY <1>0, <2>1 DEF Durable
  <2>4. QED
    BY <2>1, <2>2, <2>3 DEF AckedSeqUnique
<1>7. CASE UNCHANGED vars
  BY <1>7 DEF vars, Durable, AckedSeqUnique
<1>8. QED
  BY <1>1, <1>2, <1>3, <1>4, <1>5, <1>6, <1>7 DEF Next

\* With one process at a time no two records that Append reported as recorded
\* share a sequence number, however often it appends, whichever of its writes
\* and writebacks fail and wherever it or the host dies (log.go, Open, Append).
THEOREM SequenceNumbersAreUnique ==
    ASSUME Alone
    PROVE  Spec => []AckedSeqUnique
<1>1. TypeOK /\ PlaceInv /\ [Next]_vars => PlaceInv'
  BY PlaceStep
<1>2. TypeOK /\ PlaceInv /\ UniqueInv /\ [Next]_vars => UniqueInv'
  BY UniqueStep
<1>3. UniqueInv => AckedSeqUnique
  BY DEF UniqueInv
<1>4. QED
  BY <1>1, <1>2, <1>3, PlaceBegun, UniqueBegun, TypeCorrect, PTL DEF Spec

-----------------------------------------------------------------------------
(* What a look at the last line is worth.                                       *)

\* The last line may fail to decode and nothing before it does: a process whose
\* write was torn has one more append, and the line it makes unreadable is its
\* last.  Until then its head is the hash of the last line.
ChainInv ==
    /\ writebacks = 0 => /\ lost = {}
                         /\ \A i \in 1..Len(lines) :
                              i < Len(lines) \/ lines[i] # Junk => ContinuesChain(lines, i)
    /\ \A p \in Proc : pc[p] # "closed" =>
         \/ appends[p] >= 2
         \/ /\ lines # <<>> => lines[Len(lines)] # Junk
            /\ head[p] = TailHash
            /\ appends[p] = 0 => fragment = NoFragment
    /\ ~present => fragment = NoFragment

\* An empty file is a chain.
LEMMA ChainBegun == Init => ChainInv
<1>1. Len(<<>>) = 0
  BY EmptySeq
<1>2. QED
  BY <1>1 DEF Init, ChainInv

\* Every step keeps the chain whole up to its last line.
LEMMA ChainStep ==
    Alone /\ MaxAppends <= 2 /\ TypeOK /\ PlaceInv /\ ChainInv /\ [Next]_vars => ChainInv'
<1> SUFFICES ASSUME Alone, MaxAppends <= 2, TypeOK, PlaceInv, ChainInv, [Next]_vars
             PROVE  ChainInv'
  OBVIOUS
<1> USE DEF Alone, file, disk, handle, faults
<1>0. Len(lines) \in Nat /\ MaxAppends \in Nat /\ \A p \in Proc : appends[p] \in Nat
  BY LenProperties, SwitchAndBounds DEF TypeOK
<1>1. ASSUME NEW p \in Proc, Open(p)
      PROVE  ChainInv'
  <2>1. /\ UNCHANGED <<present, lines, fragment, lost, writebacks>>
        /\ head'[p] = TailHash /\ fragment = NoFragment /\ present
        /\ lines # <<>> => lines[Len(lines)] # Junk
    BY <1>1 DEF Open, TailVerifies, SetHandle, TypeOK
  <2>2. QED
    BY <2>1 DEF ChainInv, TailHash
<1>2. ASSUME NEW p \in Proc, Create(p)
      PROVE  ChainInv'
  <2>1. /\ UNCHANGED <<lines, fragment, lost, writebacks>> /\ lines = <<>> /\ fragment = NoFragment
        /\ present' /\ head'[p] = Genesis
    BY <1>2 DEF Create, SetHandle, TypeOK, PlaceInv, ChainInv
  <2>2. QED
    BY <2>1 DEF ChainInv, TailHash
<1>3. ASSUME NEW p \in Proc, NEW op \in Op, AppendWrite(p, op)
      PROVE  ChainInv'
  <2>1. PICK r \in Record :
          /\ r # Junk /\ r.seq = seq[p] + 1 /\ verifyRecord(head[p], r)
          /\ Behind(r) \in {r, Junk} /\ (fragment = NoFragment => Behind(r) = r)
          /\ head' = [head EXCEPT ![p] = r.hash]
          /\ Len(lines') = Len(lines) + 1
          /\ lines'[Len(lines) + 1] = Behind(r)
          /\ \A i \in 1..Len(lines) : lines'[i] = lines[i]
    BY <1>3, WriteGrows
  <2>2. /\ UNCHANGED <<present, lost, writebacks>> /\ fragment' = NoFragment
        /\ pc[p] = "open" /\ appends[p] < 2
        /\ appends' = [appends EXCEPT ![p] = @ + 1] /\ pc' = [pc EXCEPT ![p] = "written"]
    BY <1>0, <1>3 DEF AppendWrite, MayAppend
  <2>3. /\ lines # <<>> => lines[Len(lines)] # Junk
        /\ head[p] = TailHash
        /\ appends[p] = 0 => fragment = NoFragment
    BY <1>0, <2>2 DEF ChainInv
  <2>4. seq[p] = Len(lines)
    BY <2>2 DEF PlaceInv
  <2>5. TailHash = RunningHead(lines', Len(lines'))
    <3>1. CASE lines = <<>>
      BY <3>1, <2>1, EmptySeq DEF TailHash, RunningHead
    <3>2. CASE lines # <<>>
      <4>1. Len(lines) \in 1..Len(lines) /\ Len(lines) + 1 # 1
        BY <1>0, <3>2, EmptySeq DEF TypeOK
      <4>2. Len(lines') - 1 = Len(lines)
        BY <1>0, <2>1
      <4>3. QED
        BY <2>1, <3>2, <4>1, <4>2 DEF TailHash, RunningHead
    <3>3. QED
      BY <3>1, <3>2
  <2>6. ASSUME writebacks = 0, NEW i \in 1..Len(lines'), i < Len(lines') \/ lines'[i] # Junk
        PROVE  ContinuesChain(lines', i)
    <3>1. CASE i = Len(lines')
      BY <1>0, <2>1, <2>3, <2>4, <2>5, <2>6, <3>1 DEF ContinuesChain
    <3>2. CASE i # Len(lines')
      <4>1. i \in 1..Len(lines) /\ lines'[i] = lines[i]
        BY <1>0, <2>1, <3>2
      <4>2. ContinuesChain(lines, i)
        BY <2>3, <2>6, <4>1, EmptySeq DEF ChainInv
      <4>3. i = 1 \/ i - 1 \in 1..Len(lines)
        BY <1>0, <4>1
      <4>4. RunningHead(lines', i) = RunningHead(lines, i)
        BY <2>1, <4>3 DEF RunningHead
      <4>5. QED
        BY <4>1, <4>2, <4>4 DEF ContinuesChain
    <3>3. QED
      BY <3>1, <3>2
  <2>7. CASE appends[p] = 0
    <3>1. Behind(r) = r
      BY <2>1, <2>3, <2>7
    <3>2. lines' # <<>> /\ lines'[Len(lines')] = r
      BY <1>0, <2>1, <3>1, EmptySeq
    <3>3. head'[p] = TailHash'
      BY <2>1, <3>2 DEF TailHash, TypeOK
    <3>4. QED
      BY <2>1, <2>2, <2>6, <3>2, <3>3 DEF ChainInv
  <2>8. CASE appends[p] # 0
    <3>1. appends'[p] >= 2
      BY <1>0, <2>2, <2>8 DEF TypeOK
    <3>2. QED
      BY <2>2, <2>6, <3>1 DEF ChainInv
  <2>9. QED
    BY <2>7, <2>8
<1>4. ASSUME NEW p \in Proc, NEW op \in Op, AppendTorn(p, op)
      PROVE  ChainInv'
  <2>1. /\ UNCHANGED <<present, lines, lost, writebacks, pc, head>> /\ pc[p] = "open"
        /\ appends'[p] = appends[p] + 1
    BY <1>4 DEF AppendTorn, MayAppend, TypeOK
  <2>2. present
    BY <2>1 DEF PlaceInv
  <2>3. appends'[p] # 0 /\ (appends[p] >= 2 => appends'[p] >= 2)
    BY <1>0, <2>1
  <2>4. QED
    BY <2>1, <2>2, <2>3 DEF ChainInv, TailHash
<1>5. ASSUME NEW p \in Proc, AppendSync(p)
      PROVE  ChainInv'
  <2>1. UNCHANGED <<present, lines, fragment, lost, writebacks, head, appends>> /\ pc[p] # "closed"
    BY <1>5 DEF AppendSync
  <2>2. QED
    BY <2>1 DEF ChainInv, TailHash
<1>6. ASSUME NEW p \in Proc, Close(p) \/ Crash(p)
      PROVE  ChainInv'
  <2>1. /\ UNCHANGED <<present, lines, fragment, lost, writebacks>>
        /\ \A q \in Proc : pc'[q] = "closed"
    BY <1>6 DEF Close, Crash, SetHandle, TypeOK
  <2>2. QED
    BY <2>1 DEF ChainInv
<1>7. CASE WritebackError
  <2>1. UNCHANGED <<present, lines, fragment, pc, head, appends>> /\ writebacks' = writebacks + 1
    BY <1>7 DEF WritebackError
  <2>2. writebacks' # 0
    BY <2>1 DEF TypeOK
  <2>3. QED
    BY <2>1, <2>2 DEF ChainInv, TailHash
<1>8. CASE PowerLoss
  <2>1. PICK k \in 0..Len(lines) :
          /\ lines' \in Seq(Line) /\ Len(lines') = k /\ lost' = {}
          /\ lost = {} => \A i \in 1..k : lines'[i] = lines[i]
          /\ fragment' \in Residue(k)
          /\ \A p \in Proc : pc'[p] = "closed"
    BY <1>8, PowerLeaves
  <2>2. present' = present /\ writebacks' = writebacks
    BY <1>8 DEF PowerLoss
  <2>3. ASSUME writebacks = 0, NEW i \in 1..k, i < k \/ lines'[i] # Junk
        PROVE  ContinuesChain(lines', i)
    <3>1. \A j \in 1..k : lines'[j] = lines[j]
      BY <2>1, <2>3 DEF ChainInv
    <3>2. i \in 1..Len(lines) /\ (i < Len(lines) \/ lines[i] # Junk)
      BY <1>0, <2>3, <3>1
    <3>3. ContinuesChain(lines, i)
      BY <2>3, <3>2 DEF ChainInv
    <3>4. i = 1 \/ i - 1 \in 1..k
      OBVIOUS
    <3>5. RunningHead(lines', i) = RunningHead(lines, i)
      BY <3>1, <3>4 DEF RunningHead
    <3>6. QED
      BY <3>1, <3>3, <3>5 DEF ContinuesChain
  <2>4. ~present => fragment' = NoFragment
    <3>1. ASSUME ~present
          PROVE  Scan = <<>> /\ k = 0
      BY <1>0, <2>1, <3>1, EmptySeq DEF Scan, PlaceInv, ChainInv
    <3>2. QED
      BY <2>1, <3>1, EmptySeq DEF Residue
  <2>5. QED
    BY <2>1, <2>2, <2>3, <2>4 DEF ChainInv
<1>9. CASE UNCHANGED vars
  BY <1>9 DEF vars, ChainInv, TailHash
<1>10. QED
  BY <1>1, <1>2, <1>3, <1>4, <1>5, <1>6, <1>7, <1>8, <1>9 DEF Next

\* Under the invariant a last line that decodes vouches for the rest.
LEMMA TailIsEnough == TypeOK /\ ChainInv => OpenImpliesVerified
<1> SUFFICES ASSUME TypeOK, ChainInv, writebacks = 0, TailVerifies, NEW i \in 1..Len(Scan)
             PROVE  ContinuesChain(Scan, i)
  BY DEF OpenImpliesVerified, VerifyChain
<1>1. Scan = lines
  BY DEF Scan, TailVerifies
<1>2. Len(lines) \in Nat /\ lines # <<>>
  BY <1>1, LenProperties, EmptySeq DEF TypeOK
<1>3. lines[Len(lines)] # Junk
  BY <1>2 DEF TailVerifies
<1>4. i < Len(lines) \/ lines[i] # Junk
  BY <1>1, <1>2, <1>3
<1>5. QED
  BY <1>1, <1>4 DEF ChainInv

\* With one process at a time that appends at most twice, as every command does,
\* a log whose last line Open accepts is a log VerifyChain accepts, through any
\* torn writes, crashes and power losses, as long as no writeback has failed
\* (log.go, TailRecord, Open and VerifyChain).
THEOREM TailStandsForTheLog ==
    ASSUME Alone, MaxAppends <= 2
    PROVE  Spec => []OpenImpliesVerified
<1>1. TypeOK /\ PlaceInv /\ [Next]_vars => PlaceInv'
  BY PlaceStep
<1>2. TypeOK /\ PlaceInv /\ ChainInv /\ [Next]_vars => ChainInv'
  BY ChainStep
<1>3. QED
  BY <1>1, <1>2, TailIsEnough, PlaceBegun, ChainBegun, TypeCorrect, PTL DEF Spec

-----------------------------------------------------------------------------
(* A caller who stops at the first error, on a disk that keeps what it wrote,   *)
(* has a Ledger.                                                                *)

\* Every line is a record whose hash tells its place, the head is the last hash,
\* and nobody who may still append stands behind a torn line.
LedgerInv ==
    /\ writebacks = 0 /\ lost = {}
    /\ \A i \in 1..Len(lines) : lines[i] # Junk /\ Len(lines[i].hash) = i
    /\ \A p \in Proc : pc[p] # "closed" => head[p] = TailHash
    /\ \A p \in Proc : pc[p] # "closed" => failed[p] \/ fragment = NoFragment
    /\ \A p \in Proc : pc[p] = "written" => fragment = NoFragment
    /\ ~present => fragment = NoFragment

\* An empty file is an empty ledger.
LEMMA LedgerBegun == Init => LedgerInv /\ TheLedger!Init
<1>1. Len(<<>>) = 0
  BY EmptySeq
<1>2. QED
  BY <1>1 DEF Init, LedgerInv, TheLedger!Init

\* What AppendWrite does to a ledger: the record behind the last one, whole.
LEMMA WriteExtends ==
    ASSUME Alone, StopOnError, TypeOK, PlaceInv, LedgerInv,
           NEW p \in Proc, NEW op \in Op, AppendWrite(p, op)
    PROVE  /\ lines' = Append(lines, NextRecord(Len(lines), TailHash, op))
           /\ \A i \in 1..Len(lines') : lines'[i] # Junk /\ Len(lines'[i].hash) = i
           /\ head'[p] = TailHash'
<1>1. PICK r \in Record :
        /\ r = NextRecord(seq[p], head[p], op) /\ r # Junk
        /\ Len(r.hash) = Len(head[p]) + 1
        /\ (fragment = NoFragment => Behind(r) = r)
        /\ head' = [head EXCEPT ![p] = r.hash]
        /\ lines' = Append(lines, Behind(r))
        /\ Len(lines) \in Nat /\ Len(lines') = Len(lines) + 1
        /\ lines'[Len(lines) + 1] = Behind(r)
        /\ \A i \in 1..Len(lines) : lines'[i] = lines[i]
  BY WriteGrows
<1>2. pc[p] = "open" /\ ~failed[p]
  BY DEF AppendWrite, MayAppend
<1>3. seq[p] = Len(lines) /\ head[p] = TailHash /\ fragment = NoFragment
  BY <1>2 DEF PlaceInv, LedgerInv
<1>4. Behind(r) = r
  BY <1>1, <1>3
<1>5. lines' = Append(lines, NextRecord(Len(lines), TailHash, op))
  BY <1>1, <1>3, <1>4
<1>6. Len(TailHash) = Len(lines)
  <2>1. CASE lines = <<>>
    BY <2>1, EmptySeq DEF TailHash, Genesis
  <2>2. CASE lines # <<>>
    <3>1. Len(lines) \in 1..Len(lines)
      BY <1>1, <2>2, EmptySeq DEF TypeOK
    <3>2. QED
      BY <2>2, <3>1 DEF TailHash, LedgerInv
  <2>3. QED
    BY <2>1, <2>2
<1>7. Len(r.hash) = Len(lines')
  BY <1>1, <1>3, <1>6
<1>8. lines' # <<>> /\ lines'[Len(lines')] = r
  BY <1>1, <1>4, EmptySeq
<1>9. ASSUME NEW i \in 1..Len(lines')
      PROVE  lines'[i] # Junk /\ Len(lines'[i].hash) = i
  <2>1. CASE i = Len(lines')
    BY <1>1, <1>7, <1>8, <2>1
  <2>2. CASE i # Len(lines')
    <3>1. i \in 1..Len(lines)
      BY <1>1, <2>2
    <3>2. QED
      BY <1>1, <3>1 DEF LedgerInv
  <2>3. QED
    BY <2>1, <2>2
<1>10. head'[p] = TailHash'
  BY <1>1, <1>8 DEF TailHash, TypeOK
<1>11. QED
  BY <1>5, <1>9, <1>10

\* What a power loss does to a ledger: its end goes, and no acknowledged record.
LEMMA PowerForgets ==
    ASSUME TypeOK, DurabilityInv, LedgerInv, PowerLoss
    PROVE  \E k \in 0..Len(lines) :
              /\ lines' = SubSeq(lines, 1, k) /\ Len(lines') = k
              /\ \A i \in 1..k : lines'[i] = lines[i]
              /\ \A i \in k + 1..Len(lines) : lines[i].hash \notin acked
              /\ lost' = {} /\ fragment' \in Residue(k)
              /\ \A p \in Proc : pc'[p] = "closed"
<1>1. PICK k \in 0..Len(lines) :
          /\ \A i \in k + 1..Len(lines) : ~Durable(i)
          /\ lines' \in Seq(Line) /\ Len(lines') = k /\ lost' = {}
          /\ lost = {} => \A i \in 1..k : lines'[i] = lines[i]
          /\ fragment' \in Residue(k)
          /\ \A p \in Proc : pc'[p] = "closed"
  BY PowerLeaves
<1>2. \A i \in 1..k : lines'[i] = lines[i]
  BY <1>1 DEF LedgerInv
<1>3. lines' = SubSeq(lines, 1, k)
  <2>1. Len(lines) \in Nat
    BY LenProperties DEF TypeOK
  <2>2. PICK old \in Seq(Line) : old = lines
    BY DEF TypeOK
  <2>3. PICK left \in Seq(Line) : left = SubSeq(lines, 1, k) /\ Len(left) = k
                                  /\ \A i \in 1..k : left[i] = lines[i]
    <3>1. k \in Int /\ 1 \in Int /\ \A i \in 1..k : old[i] \in Line
      BY <2>1, <2>2
    <3>2. /\ SubSeq(old, 1, k) \in Seq(Line)
          /\ Len(SubSeq(old, 1, k)) = IF 1 <= k THEN k - 1 + 1 ELSE 0
          /\ \A i \in 1..k - 1 + 1 : SubSeq(old, 1, k)[i] = old[1 + i - 1]
      BY <3>1, SubSeqProperties
    <3>3. k \in Nat /\ k - 1 + 1 = k
      BY <2>1
    <3>4. Len(SubSeq(old, 1, k)) = k
      BY <3>2, <3>3
    <3>5. \A i \in 1..k : SubSeq(old, 1, k)[i] = old[i]
      BY <3>2, <3>3
    <3>6. QED
      BY <2>2, <3>2, <3>4, <3>5
  <2>4. PICK now \in Seq(Line) : now = lines'
    BY <1>1
  <2>5. now = left
    BY <1>1, <1>2, <2>3, <2>4, SeqEqual
  <2>6. QED
    BY <2>3, <2>4, <2>5
<1>4. ASSUME NEW i \in k + 1..Len(lines), lines[i].hash \in acked
      PROVE  FALSE
  <2>1. PICK j \in 1..Len(lines) : Durable(j) /\ (lines[j] = Junk \/ lines[j].hash = lines[i].hash)
    BY <1>4 DEF DurabilityInv, AckedOnDisk
  <2>2. i \in 1..Len(lines)
    BY <1>4, LenProperties DEF TypeOK
  <2>3. lines[j].hash = lines[i].hash
    BY <2>1 DEF LedgerInv
  <2>4. j = i
    BY <2>1, <2>2, <2>3 DEF LedgerInv
  <2>5. QED
    BY <1>1, <1>4, <2>1, <2>4
<1>5. QED
  BY <1>1, <1>2, <1>3, <1>4

\* Every step is a step of the ledger, or none.
LEMMA LedgerStep ==
    /\ Alone /\ StopOnError /\ MaxWriteback = 0
    /\ TypeOK /\ PlaceInv /\ DurabilityInv /\ LedgerInv /\ [Next]_vars
    => LedgerInv' /\ [TheLedger!Next]_(TheLedger!ledgerVars)
<1> SUFFICES ASSUME Alone, StopOnError, MaxWriteback = 0,
                    TypeOK, PlaceInv, DurabilityInv, LedgerInv, [Next]_vars
             PROVE  LedgerInv' /\ [TheLedger!Next]_(TheLedger!ledgerVars)
  OBVIOUS
<1> USE DEF file, disk, handle, faults, TheLedger!ledgerVars
<1>1. ASSUME NEW p \in Proc, Open(p) \/ Create(p) \/ Close(p) \/ Crash(p)
      PROVE  LedgerInv' /\ UNCHANGED <<lines, acked>>
  <2>1. UNCHANGED <<lines, fragment, lost, acked, writebacks>>
    BY <1>1 DEF Open, Create, Close, Crash
  <2>2. \A q \in Proc : pc'[q] # "written"
    BY <1>1 DEF Alone, Open, Create, Close, Crash, SetHandle, TypeOK
  <2>3. \A q \in Proc : pc'[q] # "closed" => head'[q] = TailHash /\ fragment = NoFragment
    BY <1>1 DEF Alone, Open, Create, Close, Crash, SetHandle, TypeOK, TailVerifies, PlaceInv, LedgerInv, TailHash
  <2>4. ~present' => ~present
    BY <1>1 DEF Open, Create, Close, Crash
  <2>5. QED
    BY <2>1, <2>2, <2>3, <2>4 DEF LedgerInv, TailHash
<1>2. ASSUME NEW p \in Proc, NEW op \in Op, AppendWrite(p, op)
      PROVE  LedgerInv' /\ TheLedger!Extend(op)
  <2>1. /\ lines' = Append(lines, NextRecord(Len(lines), TailHash, op))
        /\ \A i \in 1..Len(lines') : lines'[i] # Junk /\ Len(lines'[i].hash) = i
        /\ head'[p] = TailHash'
    BY <1>2, WriteExtends
  <2>2. UNCHANGED <<present, lost, writebacks, acked>> /\ fragment' = NoFragment
    BY <1>2 DEF AppendWrite
  <2>3. LedgerInv'
    BY <2>1, <2>2 DEF LedgerInv, Alone
  <2>4. TheLedger!Extend(op)
    BY <2>1, <2>2 DEF TheLedger!Extend, TheLedger!LastHash, TheLedger!NextRecord, TheLedger!HashRecord,
                      TheLedger!Genesis, NextRecord, HashRecord, Genesis, TailHash
  <2>5. QED
    BY <2>3, <2>4
<1>3. ASSUME NEW p \in Proc, NEW op \in Op, AppendTorn(p, op)
      PROVE  LedgerInv' /\ UNCHANGED <<lines, acked>>
  <2>1. /\ UNCHANGED <<present, lines, lost, pc, head, acked, writebacks>>
        /\ pc[p] = "open" /\ failed'[p]
    BY <1>3 DEF AppendTorn, MayAppend, TypeOK
  <2>2. \A q \in Proc : failed'[q] /\ pc[q] = "open"
    BY <2>1 DEF Alone
  <2>3. present
    BY <2>1 DEF PlaceInv
  <2>4. QED
    BY <2>1, <2>2, <2>3 DEF LedgerInv, TailHash
<1>4. ASSUME NEW p \in Proc, AppendSync(p)
      PROVE  LedgerInv' /\ (TheLedger!Vouch \/ UNCHANGED <<lines, acked>>)
  <2>1. /\ UNCHANGED <<present, lines, fragment, lost, head, writebacks>>
        /\ pc[p] = "written" /\ pc' = [pc EXCEPT ![p] = "open"]
        /\ acked' = IF ioerr[p] THEN acked ELSE acked \cup {head[p]}
    BY <1>4 DEF AppendSync
  <2>2. fragment = NoFragment /\ head[p] = TailHash /\ lines # <<>>
    BY <2>1 DEF LedgerInv, PlaceInv
  <2>3. LedgerInv'
    BY <2>1, <2>2 DEF LedgerInv, TailHash, Alone, TypeOK
  <2>4. CASE ioerr[p]
    BY <2>1, <2>3, <2>4
  <2>5. CASE ~ioerr[p]
    <3>1. TheLedger!Vouch
      BY <2>1, <2>2, <2>5 DEF TheLedger!Vouch, TheLedger!LastHash, TheLedger!Genesis, Genesis, TailHash
    <3>2. QED
      BY <2>3, <3>1
  <2>6. QED
    BY <2>4, <2>5
<1>5. ~WritebackError
  BY DEF WritebackError, LedgerInv
<1>6. CASE PowerLoss
  <2>1. PICK k \in 0..Len(lines) :
          /\ lines' = SubSeq(lines, 1, k) /\ Len(lines') = k
          /\ \A i \in 1..k : lines'[i] = lines[i]
          /\ \A i \in k + 1..Len(lines) : lines[i].hash \notin acked
          /\ lost' = {} /\ fragment' \in Residue(k)
          /\ \A p \in Proc : pc'[p] = "closed"
    BY <1>6, PowerForgets
  <2>2. UNCHANGED <<present, acked, writebacks>>
    BY <1>6 DEF PowerLoss
  <2>3. ~present => fragment' = NoFragment
    <3>1. ASSUME ~present
          PROVE  Len(Scan) = 0 /\ k = 0
      <4>1. lines = <<>> /\ fragment = NoFragment
        BY <3>1 DEF PlaceInv, LedgerInv
      <4>2. QED
        BY <4>1, EmptySeq DEF Scan
    <3>2. QED
      BY <2>1, <3>1 DEF Residue
  <2>4. Len(lines) \in Nat
    BY LenProperties DEF TypeOK
  <2>5. LedgerInv'
    BY <2>1, <2>2, <2>3, <2>4 DEF LedgerInv
  <2>6. TheLedger!Forget
    BY <2>1, <2>2 DEF TheLedger!Forget
  <2>7. QED
    BY <2>5, <2>6 DEF TheLedger!Next
<1>7. CASE UNCHANGED vars
  BY <1>7 DEF vars, LedgerInv, TailHash
<1>8. QED
  BY <1>1, <1>2, <1>3, <1>4, <1>5, <1>6, <1>7 DEF Next, TheLedger!Next

\* For one process at a time that stops at the first error of Append, on a disk
\* whose writebacks do not fail, the file is a Ledger: it grows at its end by the
\* record that follows from it, and neither a torn write nor a crash nor a power
\* loss takes a record that was vouched for (log.go, the doc comment of Append).
THEOREM TheFileIsALedger ==
    ASSUME Alone, StopOnError, MaxWriteback = 0
    PROVE  Spec => ImplementsLedger
<1>1. TypeOK /\ PlaceInv /\ [Next]_vars => PlaceInv'
  BY PlaceStep
<1>2. TypeOK /\ PlaceInv /\ DurabilityInv /\ LedgerInv /\ [Next]_vars
      => LedgerInv' /\ [TheLedger!Next]_(TheLedger!ledgerVars)
  BY LedgerStep
<1>3. QED
  BY <1>1, <1>2, PlaceBegun, DurabilityBegun, DurabilityStep, LedgerBegun, TypeCorrect, PTL
     DEF Spec, ImplementsLedger, TheLedger!Spec
=============================================================================
