----------------------------- MODULE AuditTrail ------------------------------
(***************************************************************************)
(* The trail a broker leaves: the life of an adb-broker process around its *)
(* audit log (app/broker/broker.go, extensions/deviceaudit), the anchors   *)
(* it publishes in the host's journal (foundation/audit/anchor.go), and    *)
(* the verify subcommand that compares the two (app/broker/verify.go).     *)
(*                                                                         *)
(* The file and what happens to it are AuditLog's; every step of a broker  *)
(* that touches the log is one of AuditLog's steps.  What is added is where *)
(* a process is in its run, the journal, and one verify process.           *)
(***************************************************************************)
EXTENDS AuditLog

CONSTANTS
    VerifyOverlaps, \* TRUE: verify may run while brokers do
    MaxDrops,       \* bound: anchors that do not reach the journal
    MaxCuts         \* bound: times the log file is cut or lost

ASSUME TrailSwitchAndBounds ==
    VerifyOverlaps \in BOOLEAN /\ MaxDrops \in Nat /\ MaxCuts \in Nat

VARIABLES
    stage,      \* per process: where its run is, see Stages
    journal,    \* the anchors in the journal, in the order they were published
    verify,     \* the verify process: "idle", or "read" between log and journal
    summary,    \* what its VerifyChain found: the last sequence number and hash
    damage,     \* what befell the log file: see Damages
    drops, cuts

verifyVars == <<verify, summary>>
trailVars  == <<stage, journal, verifyVars, damage, drops, cuts>>
allVars    == <<vars, trailVars>>

Stages == {
    "idle",     \* not running
    "absent",   \* the first Open found no file; Create comes next
    "exists",   \* Create found one after all; Open comes next
    "reset",    \* the log was created; its seq-0 anchor comes next
    "run",      \* the subcommand runs
    "anchor"}   \* a record was appended; its anchor comes next

Damages == {
    "none",     \* it was only ever appended to
    "cut",      \* it verified, lost records off its end, and has not grown since
    "beyond"}   \* anything else

Anchor == [seq : Nat, hash : Hash]

\* The summary of an empty log, and of a verify that has not read one.
NoSummary == [seq |-> 0, hash |-> Genesis]

-----------------------------------------------------------------------------
TrailInit ==
    /\ Init
    /\ stage = [p \in Proc |-> "idle"]
    /\ journal = <<>>
    /\ verify = "idle"
    /\ summary = NoSummary
    /\ damage = "none"
    /\ drops = 0 /\ cuts = 0

Goto(p, where) == stage' = [stage EXCEPT ![p] = where]

\* A run kept apart from the verify process, when the two may not overlap.
Apart(p) == VerifyOverlaps \/ verify = "idle"

-----------------------------------------------------------------------------
(* openOrCreateLogAt.                                                       *)

\* Open succeeds, and the subcommand runs.
Start(p) ==
    /\ stage[p] = "idle"
    /\ Apart(p)
    /\ Open(p)
    /\ Goto(p, "run")
    /\ UNCHANGED <<journal, verifyVars, damage, drops, cuts>>

\* Open finds no file.  (Any other failure ends the run: nothing has changed.)
StartAbsent(p) ==
    /\ stage[p] = "idle"
    /\ Apart(p)
    /\ ~present
    /\ Goto(p, "absent")
    /\ UNCHANGED <<vars, journal, verifyVars, damage, drops, cuts>>

\* Create makes the log.
CreateFirst(p) ==
    /\ stage[p] = "absent"
    /\ Create(p)
    /\ Goto(p, "reset")
    /\ UNCHANGED <<journal, verifyVars, damage, drops, cuts>>

\* Create finds that another broker made it since.
CreateRaced(p) ==
    /\ stage[p] = "absent"
    /\ present
    /\ Goto(p, "exists")
    /\ UNCHANGED <<vars, journal, verifyVars, damage, drops, cuts>>

\* This process joins that chain, and has created nothing.
Join(p) ==
    /\ stage[p] = "exists"
    /\ Open(p)
    /\ Goto(p, "run")
    /\ UNCHANGED <<journal, verifyVars, damage, drops, cuts>>

\* Its Open fails too, and the run ends.
JoinFails(p) ==
    /\ stage[p] = "exists"
    /\ ~(present /\ TailVerifies)
    /\ Goto(p, "idle")
    /\ UNCHANGED <<vars, journal, verifyVars, damage, drops, cuts>>

-----------------------------------------------------------------------------
(* The operations of a run, each recorded by the extension or by            *)
(* denyBeforeBus, and the anchors.                                          *)

\* Mutant: the number of the record before the one whose hash is published.
LogTailBehind(p) == [seq |-> seq[p] - 1, hash |-> head[p]]

\* AnchorTail: the Log's sequence number and head as they stand now.
LogTail(p) == [seq |-> seq[p], hash |-> head[p]]

\* publishAnchor is best effort: the datagram arrives or it does not.
Publish(p) ==
    /\ \/ journal' = Append(journal, LogTail(p)) /\ UNCHANGED drops
       \/ drops < MaxDrops /\ drops' = drops + 1 /\ UNCHANGED journal
    /\ Goto(p, "run")
    /\ UNCHANGED <<vars, verifyVars, damage, cuts>>

\* Main anchors a log it has just created, before the subcommand runs.
AnchorReset(p) == stage[p] = "reset" /\ Publish(p)

\* The extension anchors after every record that landed.
AnchorRecord(p) == stage[p] = "anchor" /\ Publish(p)

\* Bytes are added to the log file.
Grown == damage' = IF damage = "cut" THEN "beyond" ELSE damage

\* Append writes.
RecordWrite(p, op) ==
    /\ stage[p] = "run"
    /\ AppendWrite(p, op)
    /\ Grown
    /\ UNCHANGED <<stage, journal, verifyVars, drops, cuts>>

\* Append's write fails; the error is swallowed and nothing is anchored.
RecordTorn(p, op) ==
    /\ stage[p] = "run"
    /\ AppendTorn(p, op)
    /\ Grown
    /\ UNCHANGED <<stage, journal, verifyVars, drops, cuts>>

\* Mutant: the anchor is published whatever Append returned.
RecordSyncAlwaysAnchors(p) ==
    /\ stage[p] = "run"
    /\ AppendSync(p)
    /\ Goto(p, "anchor")
    /\ UNCHANGED <<journal, verifyVars, damage, drops, cuts>>

\* Mutant: the record is not anchored, as denyBeforeBus once did.
RecordSyncNeverAnchors(p) ==
    /\ stage[p] = "run"
    /\ AppendSync(p)
    /\ UNCHANGED trailVars

\* Append returns: the record is anchored next, unless the fsync failed.
RecordSync(p) ==
    /\ stage[p] = "run"
    /\ AppendSync(p)
    /\ Goto(p, IF failed'[p] THEN "run" ELSE "anchor")
    /\ UNCHANGED <<journal, verifyVars, damage, drops, cuts>>

\* The run ends and Main closes the log.
Finish(p) ==
    /\ stage[p] = "run"
    /\ Close(p)
    /\ Goto(p, "idle")
    /\ UNCHANGED <<journal, verifyVars, damage, drops, cuts>>

\* The process is killed, anywhere.
Kill(p) ==
    /\ stage[p] # "idle"
    /\ SetHandle(p, "closed", 0, Genesis)
    /\ Goto(p, "idle")
    /\ UNCHANGED <<file, disk, ioerr, acked, faults, journal, verifyVars, damage, drops, cuts>>

-----------------------------------------------------------------------------
(* verify: the chain first, the anchors after it.                           *)

\* Mutant: the anchor published last.
LastPublished == journal[Len(journal)]

\* The newest anchor: of those with the highest sequence number, the first.
Newest ==
    journal[CHOOSE i \in 1..Len(journal) : \A j \in 1..Len(journal) :
                journal[j].seq < journal[i].seq \/ (journal[j].seq = journal[i].seq /\ i <= j)]

\* What runVerify reports of the chain it read and the anchors there are now.
Report ==
    CASE journal = <<>>                                            -> "partial"
      [] journal # <<>> /\ Newest.seq > summary.seq                -> "truncated"
      [] journal # <<>> /\ Newest.seq = summary.seq
                        /\ Newest.hash # summary.hash              -> "altered"
      [] OTHER                                                     -> "ok"

\* verifyChain reads the whole log, a last line without its newline included.
\* One that is absent or diverges ends the run with that report instead.
VerifyReadsLog ==
    /\ verify = "idle"
    /\ VerifyOverlaps \/ \A p \in Proc : stage[p] = "idle"
    /\ IF present /\ VerifyChain(Scan)
       THEN /\ verify' = "read"
            /\ summary' = IF Scan = <<>> THEN NoSummary
                          ELSE [seq |-> Len(Scan), hash |-> Scan[Len(Scan)].hash]
       ELSE UNCHANGED verifyVars
    /\ UNCHANGED <<vars, stage, journal, damage, drops, cuts>>

\* readAnchors, and the Report.
VerifyReadsJournal ==
    /\ verify = "read"
    /\ verify' = "idle"
    /\ summary' = NoSummary
    /\ UNCHANGED <<vars, stage, journal, damage, drops, cuts>>

-----------------------------------------------------------------------------
(* What the host does.                                                      *)

DiskFails == WritebackError /\ UNCHANGED trailVars

\* A power loss ends every process; the journal keeps what it was sent.
HostFails ==
    /\ PowerLoss
    /\ stage' = [p \in Proc |-> "idle"]
    /\ verify' = "idle"
    /\ summary' = NoSummary
    /\ UNCHANGED <<journal, damage, drops, cuts>>

\* While nothing reads or writes it, the log file loses records off its end, or
\* all of it goes: cut short by hand, wiped, or restored from an old backup.
LogCut ==
    /\ cuts < MaxCuts
    /\ present
    /\ verify = "idle"
    /\ \A p \in Proc : stage[p] = "idle"
    /\ cuts' = cuts + 1
    /\ damage' = IF damage = "none" /\ VerifyChain(Scan) THEN "cut" ELSE "beyond"
    /\ \E k \in 0..Len(lines) :
         /\ lines' = SubSeq(lines, 1, k)
         /\ present' \in {TRUE, k > 0}
         /\ settled' = IF settled < k THEN settled ELSE k
         /\ lost' = {i \in lost : i <= k}
    /\ fragment' = NoFragment
    /\ UNCHANGED <<handle, ioerr, acked, faults, stage, journal, verifyVars, drops>>

-----------------------------------------------------------------------------
TrailNext ==
    \/ \E p \in Proc :
         \/ Start(p) \/ StartAbsent(p)
         \/ CreateFirst(p) \/ CreateRaced(p) \/ Join(p) \/ JoinFails(p)
         \/ AnchorReset(p) \/ AnchorRecord(p)
         \/ \E op \in Op : RecordWrite(p, op) \/ RecordTorn(p, op)
         \/ RecordSync(p)
         \/ Finish(p)
         \/ Kill(p)
    \/ VerifyReadsLog
    \/ VerifyReadsJournal
    \/ DiskFails
    \/ HostFails
    \/ LogCut

TrailSpec == TrailInit /\ [][TrailNext]_allVars

-----------------------------------------------------------------------------
TrailTypeOK ==
    /\ TypeOK
    /\ stage \in [Proc -> Stages]
    /\ journal \in Seq(Anchor)
    /\ verify \in {"idle", "read"}
    /\ summary \in Anchor
    /\ damage \in Damages
    /\ drops \in Nat /\ cuts \in Nat

\* verify never reports a truncated tail or an altered record of a log that was
\* only ever appended to, whatever befell it and its brokers: an anchor is
\* published only for a record that is on the disk (deviceaudit.append), and
\* "a false alarm on the loudest control there is" (anchor.go) is the hazard.
NoFalseAlarm ==
    verify = "read" /\ damage = "none" => Report \notin {"truncated", "altered"}

\* The log still holds every record the journal has an anchor for.
AnchoredRecordsPresent ==
    \A a \in {journal[i] : i \in 1..Len(journal)} :
        a.seq > 0 => \E i \in 1..Len(lines) : lines[i] # Junk /\ lines[i].hash = a.hash

Passes == verify = "read" /\ Report = "ok"

\* "Truncation is caught by verify" (ADB_BROKER.md): a log that lost anchored
\* records off its end, and has not grown since, does not pass.
TruncationCaught == Passes /\ damage # "beyond" => AnchoredRecordsPresent

\* The seq-0 anchor and the anchors of the old chain are "what keeps deletion
\* detectable" (ADB_BROKER.md): the same of a log that has grown since.
DeletionStaysDetectable == Passes => AnchoredRecordsPresent

\* Two brokers that share the log, and a log that came to be between the Open and
\* the Create of one of them (openOrCreateLogAt), lose nothing they reported as
\* recorded, unless the file loses it to another hand.
SharedLogKeepsAcked == damage = "none" => AckedOnDisk /\ NoSilentLoss

\* "The LAST operation of a process always anchors" (deviceaudit.anchor): between
\* two operations, and so when it ends, a broker whose last record was recorded has
\* an anchor of its own log tail in the journal, unless a datagram was dropped.
LastOperationAnchored ==
    \A p \in Proc :
        stage[p] = "run" /\ pc[p] = "open" /\ appends[p] > 0 /\ ~failed[p] /\ drops = 0
            => \E i \in 1..Len(journal) : journal[i] = LogTail(p)
=============================================================================
