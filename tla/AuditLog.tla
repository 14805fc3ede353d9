------------------------------ MODULE AuditLog -------------------------------
(***************************************************************************)
(* The audit log of foundation/audit/log.go: one append-only file, and the *)
(* processes that open it, append to it and die.                            *)
(*                                                                         *)
(* The file is what a reader sees through the page cache: the complete     *)
(* lines, and the bytes after the last newline (the fragment).  A write    *)
(* that lands behind a fragment runs together with it into one line that   *)
(* does not decode.  What a power loss would leave is tracked by two       *)
(* numbers: the lines up to "settled" have been through a writeback, and   *)
(* those of them in "lost" went through one that failed.                   *)
(*                                                                         *)
(* Append is two steps, because a process can die and other processes can  *)
(* run between its write and its fsync.  Everything else a call does is    *)
(* one step: nothing it reads in between can change under it.              *)
(***************************************************************************)
EXTENDS HashChain, FiniteSets

CONSTANTS
    Proc,           \* processes that may have the log open at the same time
    NoFragment,     \* the file ends in a newline (or is empty)
    StopOnError,    \* TRUE: a caller stops appending once Append has failed
    MaxAppends,     \* calls of Append in one process's life
    MaxLines,       \* bound: lines in the file
    MaxTorn,        \* bound: writes that fail
    MaxWriteback,   \* bound: writebacks that fail
    MaxPower        \* bound: power losses

ASSUME NoFragmentIsNoLine == NoFragment \notin Line
ASSUME SwitchAndBounds ==
    /\ StopOnError \in BOOLEAN
    /\ {MaxAppends, MaxLines, MaxTorn, MaxWriteback, MaxPower} \subseteq Nat

VARIABLES
    present,    \* whether the file exists
    lines,      \* its complete lines
    fragment,   \* the bytes after the last newline
    settled,    \* how many lines have been through a writeback
    lost,       \* the settled lines whose writeback failed
    pc,         \* per process: "closed", "open", or "written" (between write and fsync)
    seq, head,  \* per process: the Log's idea of the chain
    appends,    \* per process: calls of Append so far
    failed,     \* per process: whether the last call of Append returned an error
    ioerr,      \* per process: a failed writeback its next fsync reports
    acked,      \* hashes of the records Append returned with a nil error
    torn, writebacks, powers    \* faults so far

file   == <<present, lines, fragment>>
disk   == <<settled, lost>>
handle == <<pc, seq, head, appends, failed>>
faults == <<torn, writebacks, powers>>
vars   == <<file, disk, handle, ioerr, acked, faults>>

-----------------------------------------------------------------------------
(* Reading the file.                                                        *)

\* What bufio.Scanner hands VerifyChain: every line, and a last one without
\* its newline as well.
Scan == IF fragment = NoFragment THEN lines ELSE Append(lines, fragment)

\* Mutant: what is behind the last newline is passed over.
TailVerifiesUnterminated ==
    lines # <<>> => LET tail == lines[Len(lines)]
                    IN  tail # Junk /\ verifyRecord(tail.prev, tail)

\* TailRecord and the check Open makes of it: the file ends in a newline, the
\* last line decodes, and its hash follows from its own prev and contents.
TailVerifies ==
    /\ fragment = NoFragment
    /\ lines # <<>> => LET tail == lines[Len(lines)]
                       IN  tail # Junk /\ verifyRecord(tail.prev, tail)

\* Mutant: sequence numbers counted from zero.
TailSeqFromZero == Len(lines) - 1

TailSeq  == IF lines = <<>> THEN 0 ELSE lines[Len(lines)].seq
TailHash == IF lines = <<>> THEN Genesis ELSE lines[Len(lines)].hash

-----------------------------------------------------------------------------
Init ==
    /\ present = FALSE
    /\ lines = <<>>
    /\ fragment = NoFragment
    /\ settled = 0
    /\ lost = {}
    /\ pc = [p \in Proc |-> "closed"]
    /\ seq = [p \in Proc |-> 0]
    /\ head = [p \in Proc |-> Genesis]
    /\ appends = [p \in Proc |-> 0]
    /\ failed = [p \in Proc |-> FALSE]
    /\ ioerr = [p \in Proc |-> FALSE]
    /\ acked = {}
    /\ torn = 0 /\ writebacks = 0 /\ powers = 0

\* The Log struct of process p: just made by Open or Create, or gone.
SetHandle(p, state, s, h) ==
    /\ pc' = [pc EXCEPT ![p] = state]
    /\ seq' = [seq EXCEPT ![p] = s]
    /\ head' = [head EXCEPT ![p] = h]
    /\ appends' = [appends EXCEPT ![p] = 0]
    /\ failed' = [failed EXCEPT ![p] = FALSE]

\* Open succeeds on a file that exists and whose tail verifies.  A failed
\* writeback nobody has been told of may or may not be reported through a
\* descriptor opened after it.
Open(p) ==
    /\ pc[p] = "closed"
    /\ present
    /\ TailVerifies
    /\ SetHandle(p, "open", TailSeq, TailHash)
    /\ \E told \in {FALSE, ioerr[p]} : ioerr' = [ioerr EXCEPT ![p] = told]
    /\ UNCHANGED <<file, disk, acked, faults>>

\* Create makes the file and fails if anything is there (O_EXCL).
Create(p) ==
    /\ pc[p] = "closed"
    /\ ~present
    /\ present' = TRUE
    /\ SetHandle(p, "open", 0, Genesis)
    /\ ioerr' = [ioerr EXCEPT ![p] = FALSE]
    /\ UNCHANGED <<lines, fragment, disk, acked, faults>>

-----------------------------------------------------------------------------
\* A process calls Append: the log is open, and a caller that fails closed
\* has not been refused before.
MayAppend(p) ==
    /\ pc[p] = "open"
    /\ appends[p] < MaxAppends
    /\ StopOnError => ~failed[p]
    /\ Len(lines) < MaxLines

\* Bytes written behind a fragment run together with it.
Behind(bytes) == IF fragment = NoFragment THEN bytes ELSE Junk

\* The whole line lands, and the Log advances at once, before the fsync.
AppendWrite(p, op) ==
    /\ MayAppend(p)
    /\ LET r == NextRecord(seq[p], head[p], op)
       IN  /\ lines' = Append(lines, Behind(r))
           /\ seq' = [seq EXCEPT ![p] = r.seq]
           /\ head' = [head EXCEPT ![p] = r.hash]
    /\ fragment' = NoFragment
    /\ pc' = [pc EXCEPT ![p] = "written"]
    /\ appends' = [appends EXCEPT ![p] = @ + 1]
    /\ UNCHANGED <<present, disk, failed, ioerr, acked, faults>>

\* The write fails: none of the line landed, or part of it, or all of it but
\* the newline.  Append returns the error and the Log stays where it was.
AppendTorn(p, op) ==
    /\ MayAppend(p)
    /\ torn < MaxTorn
    /\ torn' = torn + 1
    /\ fragment' \in {fragment, Junk, Behind(NextRecord(seq[p], head[p], op))}
    /\ failed' = [failed EXCEPT ![p] = TRUE]
    /\ appends' = [appends EXCEPT ![p] = @ + 1]
    /\ UNCHANGED <<present, lines, disk, pc, seq, head, ioerr, acked, writebacks, powers>>

\* Mutant: Append returns without an fsync.
AppendNoSync(p) ==
    /\ pc[p] = "written"
    /\ pc' = [pc EXCEPT ![p] = "open"]
    /\ acked' = acked \cup {head[p]}
    /\ UNCHANGED <<file, disk, seq, head, appends, failed, ioerr, faults>>

\* Mutant: the error of the fsync is dropped.
AppendSyncErrorDropped(p) ==
    /\ pc[p] = "written"
    /\ settled' = Len(lines)
    /\ pc' = [pc EXCEPT ![p] = "open"]
    /\ acked' = acked \cup {head[p]}
    /\ ioerr' = [ioerr EXCEPT ![p] = FALSE]
    /\ UNCHANGED <<file, lost, seq, head, appends, failed, faults>>

\* The fsync writes out every line there is and Append returns: with the
\* record, or with the error of a writeback that failed meanwhile.
AppendSync(p) ==
    /\ pc[p] = "written"
    /\ settled' = Len(lines)
    /\ pc' = [pc EXCEPT ![p] = "open"]
    /\ failed' = [failed EXCEPT ![p] = ioerr[p]]
    /\ acked' = IF ioerr[p] THEN acked ELSE acked \cup {head[p]}
    /\ ioerr' = [ioerr EXCEPT ![p] = FALSE]
    /\ UNCHANGED <<file, lost, seq, head, appends, faults>>

\* Close, or a process killed between two calls: the descriptor is gone.
Close(p) ==
    /\ pc[p] = "open"
    /\ SetHandle(p, "closed", 0, Genesis)
    /\ UNCHANGED <<file, disk, ioerr, acked, faults>>

-----------------------------------------------------------------------------
(* What the host does.                                                      *)

\* The process is killed inside Append, after its write.
Crash(p) ==
    /\ pc[p] = "written"
    /\ SetHandle(p, "closed", 0, Genesis)
    /\ UNCHANGED <<file, disk, ioerr, acked, faults>>

\* A background writeback fails.  The kernel marks the pages clean, so no later
\* fsync writes them again, and reports the error to the next fsync of every
\* descriptor open now.
WritebackError ==
    /\ writebacks < MaxWriteback
    /\ settled < Len(lines)
    /\ writebacks' = writebacks + 1
    /\ lost' = lost \cup (settled + 1)..Len(lines)
    /\ settled' = Len(lines)
    /\ ioerr' = [p \in Proc |-> TRUE]
    /\ UNCHANGED <<file, handle, acked, torn, powers>>

\* Line i reached the disk for certain.
Durable(i) == i \in 1..settled /\ i \notin lost

\* What may be left behind the last line that survives a power loss whole.
Residue(k) == IF k < Len(Scan) THEN {NoFragment, Junk, Scan[k + 1]} ELSE {NoFragment}

\* A power loss ends every process and leaves the durable lines and some of the
\* bytes written after the last of them.  A lost line may survive, or be a hole
\* of zero bytes that runs into the line behind it.  (A fragment belongs to no
\* acknowledged record, so whether it survives is left open.)
PowerLoss ==
    /\ powers < MaxPower
    /\ powers' = powers + 1
    /\ \E k \in 0..Len(lines) :
         /\ \A i \in k + 1..Len(lines) : ~Durable(i)
         /\ \E holes \in SUBSET {i \in lost : i <= k} :
              lines' = [i \in 1..k |-> IF i \in holes \/ i - 1 \in holes THEN Junk ELSE lines[i]]
         /\ fragment' \in Residue(k)
         /\ settled' = k
    /\ lost' = {}
    /\ pc' = [p \in Proc |-> "closed"]
    /\ seq' = [p \in Proc |-> 0]
    /\ head' = [p \in Proc |-> Genesis]
    /\ appends' = [p \in Proc |-> 0]
    /\ failed' = [p \in Proc |-> FALSE]
    /\ ioerr' = [p \in Proc |-> FALSE]
    /\ UNCHANGED <<present, acked, torn, writebacks>>

-----------------------------------------------------------------------------
Next ==
    \/ \E p \in Proc :
         \/ Open(p)
         \/ Create(p)
         \/ \E op \in Op : AppendWrite(p, op) \/ AppendTorn(p, op)
         \/ AppendSync(p)
         \/ Close(p)
         \/ Crash(p)
    \/ WritebackError
    \/ PowerLoss

Spec == Init /\ [][Next]_vars

-----------------------------------------------------------------------------
TypeOK ==
    /\ present \in BOOLEAN
    /\ lines \in Seq(Line)
    /\ fragment \in Line \cup {NoFragment}
    /\ settled \in 0..Len(lines)
    /\ lost \subseteq 1..settled
    /\ pc \in [Proc -> {"closed", "open", "written"}]
    /\ seq \in [Proc -> Nat]
    /\ head \in [Proc -> Hash]
    /\ appends \in [Proc -> Nat]
    /\ failed \in [Proc -> BOOLEAN]
    /\ ioerr \in [Proc -> BOOLEAN]
    /\ acked \subseteq Hash
    /\ torn \in Nat /\ writebacks \in Nat /\ powers \in Nat

\* Every record that Append reported as recorded reached the disk: its line
\* went through a writeback that succeeded, alone or behind a torn line.
AckedOnDisk ==
    \A h \in acked : \E i \in 1..Len(lines) :
        Durable(i) /\ (lines[i] = Junk \/ lines[i].hash = h)

\* No record is lost silently.  Whatever processes share the log, die or lose
\* power, if VerifyChain accepts the file then every record that Append
\* reported as recorded is in it.  (Append's fsync, and its error path.)
NoSilentLoss ==
    VerifyChain(Scan) =>
        \A h \in acked : \E i \in 1..Len(lines) : lines[i] # Junk /\ lines[i].hash = h

\* Open looks at the last line only, and yet a log it accepts is a log
\* VerifyChain accepts, as long as no writeback has failed: one process at a
\* time, and no process appends often enough to bury a torn line.
OpenImpliesVerified ==
    writebacks = 0 /\ TailVerifies => VerifyChain(Scan)

\* No two records that Append reported as recorded share a sequence number,
\* through any crash, power loss and reopening by one process at a time.
AckedSeqUnique ==
    \A g, h \in acked : g[Len(g)].seq = h[Len(h)].seq => g = h

\* "The chain is never silently continued over a write that did not finish"
\* (log.go, Append): a record reported as recorded is one VerifyChain reaches.
AckedIsVerifiable ==
    \A h \in acked : \E i \in 1..Len(lines) :
        /\ VerifyChain(SubSeq(lines, 1, i))
        /\ lines[i].hash = h

-----------------------------------------------------------------------------
\* For one process at a time that stops at the first error, on a disk whose
\* writebacks succeed, the file is the ledger: its complete lines are the
\* history and the acknowledged records are the ones vouched for.
TheLedger == INSTANCE Ledger WITH history <- lines, vouched <- acked

ImplementsLedger == TheLedger!Spec
=============================================================================
