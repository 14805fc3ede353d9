# adb-broker, modelled

TLA+ models of adb-broker, the TLC runs that check them on small instances, and
the theorems TLAPS proves about them. The reference is the Go source; every
definition stands for the lines `PROJECT.json` maps it to.

## The system

adb-broker is a one-shot command: it reads files off an Android phone through
the adb server, for another program that reads its stdout, and leaves a record
of every operation in a hash-chained audit log. Each record's hash is anchored in
the host's journal, and `verify` compares the log with the anchors.

| Part | State it keeps | Operations | Talks to |
|---|---|---|---|
| audit record, hash chain (`foundation/audit/record.go`) | none | `HashRecord`, `verifyRecord`, `VerifyChain` | log |
| audit log (`foundation/audit/log.go`) | the file; per process the sequence number and head | `Open`, `Create`, `Append`, `Close`, `TailRecord` | file system |
| anchors (`foundation/audit/anchor.go`) | none; the journal keeps what arrives | `AnchorTail`, `WriteAnchor` | journald, one datagram each |
| broker process (`app/broker/broker.go`) | its log handle | open or create the log, anchor a new one, run one subcommand, record what it refuses | log, journal |
| verify (`app/broker/verify.go`) | none | read the chain, read the anchors, compare | log, journal |
| audit extension (`extensions/deviceaudit`) | none of its own | record each bus call, anchor the record | bus, log |
| device bus (`devicebus`) | the volume, once resolved | `Probe`, `List`, `Fetch` | store |
| adb sync store (`stores/adbsyncdb`) | the session, the pinned serial | select a device, open and rebuild a session, probe, resolve, walk, fetch | adbwire |
| adb wire protocol (`foundation/adbwire`) | connection state, whether a sync channel is dead | host services, `LST2`, `STA2`, `LIS2`, `RECV` | adb server |
| journal reader (`foundation/journal`) | the files it opened and what their headers said, offsets read, a memo of data objects | `Open`, `Entries` | journal files, read while journald writes them |
| fixture store (`stores/fixturedb`) | none; a local directory stands for a phone | `Probe`, `ResolveVolume`, `List`, `Fetch` | bus, in tests |
| value types, error codes, paths, wire objects | none | parse and convert | |
| version, home directory lookup | none | | |

What is hard in it:

* **The log outlives its writers.** A process can die, or the disk fail, between
  any two bytes of a line and between a write and its fsync. What the next
  process does with what it finds decides whether a record is lost, reissued or
  buried. The caller does not stop at an error: the extension swallows it.
* **More than one broker.** Nothing locks the log. Two brokers race to create it
  and then append to one file from two cached ideas of its end.
* **Two witnesses read at two moments.** The log and the journal are written one
  after the other by one program and read one after the other by another, and
  datagrams get lost in between.
* **The phone under the session changes.** Sessions die and are rebuilt while
  phones are plugged in and out, and the volume stays cached. The wrong phone's
  file under the right serial is the worst this program can do.
* **The tree under the walk changes.** A listing is hundreds of exchanges; between
  any two a file can vanish, a directory become a mount point, the whole volume be
  remounted. What is missing from a listing that ended well has to be missing for
  a reason somebody is told.
* **Outcome and stream.** Once a header has promised a byte count, the only way
  left to report a failure is to stop. And the stream itself can fail: a disk
  fills up, or the consumer closes the pipe in the middle of a bus call.
* **Files read while they are written.** The journal reader takes no lock and
  asks nobody: journald extends a file, writes objects, links them and counts
  them, and renames the file, between any two reads. An anchor missed for that is
  an alarm that does not ring, and an error raised for it is a false one.

## The modules

| Module | Models |
|---|---|
| `HashChain` | the record, its hash, `verifyRecord`, `VerifyChain` |
| `Ledger` | what the log promises: an abstract history and the records vouched for |
| `AuditLog` | the log file, and processes that open it, append and die; refines `Ledger` |
| `AuditTrail` | extends `AuditLog`: the run of a broker, the anchors, the journal, `verify` |
| `AdbSession` | one device command, from the subcommand to the sync session |
| `AdbWalk` | the walk of one listing, entry by entry, which `AdbSession` takes for one step |
| `AdbWire` | the `Conn` and `SyncConn` under both, read by read, against a server |
| `FixtureStore` | extends `AdbWalk`: the listing of the store that stands in for a phone, of the same tree |
| `JournalReader` | the journal reader and verify's filter, beside a journald that appends and rotates |
| `AuditLogProofs` | theorems about `AuditLog`: with any processes, and with one at a time |
| `AuditTrailProofs`, `AdbSessionProofs`, `AdbWalkProofs`, `AdbWireProofs`, `JournalReaderProofs` | theorems about the module each is named for |
| `JournalAnchorsProofs` | extends `JournalReaderProofs`: what a reader of those files finds, and what it may fail with |
| `FixtureStoreProofs` | extends `AdbWalkProofs`: the fixture's listing beside the phone's |
| `MCAuditLog`, `MCAuditTrail`, `MCAdbSession`, `MCAdbWalk`, `MCAdbWire`, `MCJournalReader` | the instances TLC checks |

**HashChain.** A hash is the sequence of everything it covers, so equality of
hashes is equality of histories: SHA-256 is taken to have no collisions. Of the
fourteen fields of a record the chain reads three; the others are one value of
`Op`. A line is a record or `Junk`, which `decodeLine` refuses.

**AuditLog.** The file is its complete lines and the bytes behind the last
newline (`fragment`). `Append` is two actions, `AppendWrite` and `AppendSync`,
for a process can be killed, and others can run, between its write and its
fsync; `AppendTorn` is the write that fails, with none, some or all but the
newline of its line in the file. Bytes written behind a fragment run together
with it into one line that does not decode (`Behind`). The disk is two numbers:
`settled`, how many lines have been through a writeback, and `lost`, those whose
writeback failed. `WritebackError` follows Linux: the pages are marked clean and
each descriptor open now is told at its next fsync, once. `PowerLoss` keeps the
lines that are durable and any part of what came after. `acked` remembers the
hash of each record `Append` returned with a nil error.

**AuditTrail.** Each step of a broker that touches the log is a step of
`AuditLog`, conjoined with where the process is in its run: the two `Open`s and
the `Create` between them in `openOrCreateLogAt`, the seq-0 anchor of a log just
created, the records of the run (by the extension or by `denyBeforeBus`, which
do the same), and the anchor after each. `verify` is two steps, the log and then
the journal. `LogCut` is the log losing records off its end, or going entirely,
by whatever hand; `damage` remembers that it did.

**AdbSession.** `command` is the subcommand and its `--serial`; `call` the bus
operation and `store` the store operation under it; `sess`, `pinned` and `volume`
are the live session, `Store.pinnedSerial` and `Business.volume`. One step is one
exchange with the server or the phone, and the world moves between any two:
phones appear, vanish, refuse (`Replug`), a channel breaks, a file changes. A
volume is written as the phone it was read from, which is what its inode would
say if it were compared; `DevNumber` is what `Contains` compares, and two phones
may have the same number. `records` is what the extension appends, `stdout` what
the consumer reads, and `sink` what became of the write that was the last. Every
write may fail. On a full disk it returns an error and the code goes on from
there (`Full`): the callback's error ends a listing or a transfer, which is then
recorded (`CallbackFails`). On a pipe nobody reads it is SIGPIPE, and the Go
runtime lets that kill a process that writes to its stdout (`Closed`): in the
middle of a bus call nothing is recorded any more (`BrokenPipe`).

**AdbWalk.** `frames` is the stack of `walkDir` calls, each with its path and the
`children` it has still to descend into; `Depth` is the `depth` argument. A step
is one exchange or one entry of a listing: `classify` and `emit` are the `Entry`
actions, `descend` the `Child` actions and `Descend`, `recheckRoot` is
`RecheckRoot` with `rootRechecked`. A path is a sequence of nodes, so that a
directory that holds itself (a bind mount does) has paths without end. The phone
changes a node's kind, makes it unreadable, mounts something over it, or remounts
the volume (`mounted`) between any two steps. `touched` and `strayed` remember
what changed under the walk and how a moved volume was met; nothing reads them but
properties. The errors are a set: the model does not tell two equal ones apart.
`emit`'s refusal of a size below zero is left out, for adbwire refuses it first.

**AdbWire.** Nothing in a reply of the adb protocol says which request it answers.
The client holds `state` (`connState`), `session` (`SyncConn.dead`), and for the
one call that has the mutex what its next read is `expect`ed to be; `AfterHeader`
and `After` are the switches of `query`, `switchServiceLocked`, `statCommand`,
`List` and `Recv` on what was read. `spend` and `kill` are `Retired`: the socket is
closed, with all that was in flight. The server holds its own idea of the socket
(`mode`), the requests on their way to it, the rest of the reply it is sending and
the parts on their way back; it may refuse, break off, talk nonsense, answer late
or never. `truth` remembers the last reply it began, and only `AnswerIsTruth` reads
it. A call that `prepare` or `alive` refuses changes nothing and is no action.

**FixtureStore.** What `fixturedb` lists of a tree that keeps still is a recursive
function of the tree (`FixtureDir`), and of one entry what `Visit` says: name,
`Lstat`, device, kind, and the depth it descends to. `FixtureListsTheSame` compares it with what the phone's walk of the
same tree has sent when it ends, so that what a test shows with the fixture is
worth something with a phone. The differences that remain are in the property,
one by one, or under "Not modelled".

**JournalReader.** A file is a sequence of objects, and an offset an index in it.
journald extends the file before it needs the room (`Extend`), writes an entry's
objects (`Write`), hangs the entry from its array or a new array from the chain
(`Link`), and counts it in the header last (`Count`); a rotation is the rename,
the new file, and the new file's header (`Rename`, `CreateNew`, `InitHeader`). The
reader takes one read at a time: the pattern (`Glob`), the size and then the header
of each file (`Stat`, `HeaderRead`, `HeaderRefused`), an array (`ReadArray`), an
entry (`EntryMatches`, `EntrySkipped`, `EntryFails`), and at the end the payloads
(`Take`). `opened` keeps the header as it was read, which may be old by the time
it is used.

An entry says for each field a sequence of values, in the order of its items, and of
each value whether journald compressed it. The two readers see different views of it.
In a file what is compressed cannot be read (`ReadableAt`); of what is left the first
value stands (`Stands`), and only in a field of the filter is a second one an error
(`Verdict`). `journalctl -o json` prints everything (`Unpacked`), and verify, which
applies the filter to the pipe itself, fails on two different values in any of the
six fields it decodes, those of the payload included, and on a line above its limit
(`PipeVerdict`, `PipeTakes`). What journalctl shortens is not modelled: without
`--all` it prints a field above 4096 bytes as null.

`promised` and `disturbed` are read by properties only. `disturbed` says whether a
rotation came between the pattern and the last open. `promised` are the entries
headers counted when reading began, in the files that say of themselves what is so
(`Honest`): `Intact`, offsets lead to what they should or past an end that was cut
off, and `Accounted`, the chain lists the entries in their order and whatever the
header counts. A system file may hold anything (`SystemFile` is any set of files);
of journald's own files the two are not assumed but proved. The only thing assumed
of an entry is the size argument the code makes for itself in `matchEntry`
(`KindType`): a value long enough to be compressed is no message id and no uid that
the filter asks for.

## The runs

| Run | Instance | Shows |
|---|---|---|
| `log_single` | 1 process at a time, 2 appends in each life, 5 lines, 2 torn writes, 1 failed writeback, 2 power losses | `AckedOnDisk`, `NoSilentLoss`, `OpenImpliesVerified`, `AckedSeqUnique` |
| `log_contract` | 1 process at a time that stops at an error, 3 appends, 4 lines | `ImplementsLedger` |
| `trail` | 2 brokers and verify, 2 lines, each fault, a lost anchor and a cut once | `SharedLogKeepsAcked`, `NoFalseAlarm`, `TruncationCaught`, `LastOperationAnchored` |
| `session` | 3 phones, 2 with one device number, every command with and without a serial, a stdout that fails at any write | the five safety properties of a command and `CommandEnds` |
| `walk` | 5 nodes, a directory that holds itself, 3 levels, every `--max-depth` that bites, 2 changes | what is listed, counted and reported, `FixtureListsTheSame` and `WalkEnds` |
| `wire` | 6 calls, up to 2 entries or chunks in a reply | `AnswerIsTruth`, `ChannelInStep`, `AskedInPlace`, `CallEnds` |
| `journal` | 3 entries in arrays of 2, one rotation, a system file in any of nine shapes or denied, foreign or absent | `NoRelaxation`, `CountedAnchorsTaken`, `ErrorsHaveACause`, `UnreadableIsLoud`, `ReaderEnds` |
| `log_torn`, `verify_race`, `verify_regrown`, `list_serial`, `list_closed` | the same modules | disagreements between the code and what is said of it, below |

The bounds are small and still reach what the properties are about. Two brokers
are enough for each ordering of one writer's write, fsync and death against
another's, and the theorems say the rest of any number. Two appends is the most a CLI run makes (`fetch --serial` records a
probe and a fetch). A torn write is buried by the second append after it, and
five lines leave room for a record before, one behind, and a second life of the
process. Three phones are one named, one swapped in under it, and one more that
makes a choice ambiguous. Two changes are a directory lost after another, or a
mount point and then the remount; with three levels one directory is behind the
depth bound, in a tree with siblings on the way. Six calls are a query, a redial,
a transport and its session, and two commands on it, the second after the first
has failed. Three entries fill an array and begin a second, on either side of a
rotation. Runs stop at their bounds, commands end and a refused
log is final, so deadlock is not checked.

What each property says and which code it is about stands above it in its
module. Briefly:

* `AckedOnDisk`, `NoSilentLoss`: a record reported as recorded is on the disk,
  and is in the log if the log verifies at all.
* `OpenImpliesVerified`: `Open` checks one line and is right about all of them.
  This leans on the length of a run: with three appends in one life after a torn
  write, a verifying line hides an undecodable one. And it leans on writebacks
  that succeed.
* `AckedSeqUnique`: no sequence number is vouched for twice.
* `ImplementsLedger`: what a caller that fails closed may believe.
* `SharedLogKeepsAcked`: nothing reported as recorded is lost by brokers that race
  to create the log and then share it.
* `NoFalseAlarm`, `TruncationCaught`, `LastOperationAnchored`: the comparison of
  log and journal, when verify runs between brokers and not beside them.
* `ServesNamed`, `RecordsAreFaithful`: whose data goes out, and what the log says
  of it.
* `StreamTellsOutcome`: a terminator, or an error object, exactly where the audit
  log says so and stdout took it. `FailedTransferIsOneFile`,
  `NamingIsEnoughToFetch`.
* `ListingIsTheTree`: of a tree that keeps still the records, the count and the
  errors are exactly what a definition over paths, with no stack and no order,
  says they are. `UntouchedFilesListed`: of one that does not, no failure on the
  way costs a file that nothing happened to. `FirstMismatchAsks`: the first entry
  that is elsewhere makes the walk ask once whether it is the volume that moved.
  `DepthBounded`: the stack has a bound in a tree that holds itself.
  `FixtureListsTheSame`.
* `AnswerIsTruth`: what a call returns without an error is the whole answer to
  that call. `ChannelInStep`: a channel that may be used again is empty.
* `NoRelaxation`: what the journal's files yield a pipe takes too, or fails on, and
  never passes over. It fails on a line that is too long, on a second value in a field
  of the payload (sequence number, hash or log path), where the files keep the first,
  and on one in a field of the filter that the files do not see for its compression.
  The run has an entry of each sort, and each of these exceptions is needed there.
  `CountedAnchorsTaken`: an anchor that was counted when reading began is taken,
  whatever journald does meanwhile. `ErrorsHaveACause`: and nothing it does is an
  error. `UnreadableIsLoud`: what cannot be read is not taken for nothing there.
* `CommandEnds`, `WalkEnds`, `CallEnds`, `ReaderEnds`: under weak fairness of the
  broker's own steps. Every exchange with a phone carries a deadline
  (`deadlineFor`, `armDeadline`), a read of a file returns, and verify is run to
  its end, so each step is taken in the end; nothing is assumed of the phones,
  the cable, the files or journald, which may append for ever and stop for ever.

### Where the code and what is said of it differ

* `log_torn`: `Append`'s comment says the chain is never silently continued over
  a write that did not finish. A second `Append` in the same process does that, is
  fsynced, and is reported as recorded, in a line nobody can decode.
* `verify_race`: verify reads the log before the journal, so a broker running
  beside it makes an intact log look truncated.
* `verify_regrown`: only the newest anchor is compared, and only with the end of
  the chain, so a log that was lost and has regrown past it passes.
* `list_serial`: `list --serial` pins its volume before it looks at the serial.
* `list_closed`: a listing whose consumer closes the pipe after the first file leaves
  no trace in the audit log of what it has sent, where comments say that the operation "is in
  the audit log either way". That holds where a write fails with an error; on a
  pipe it is SIGPIPE, before the bus call is over and recorded.

Met while modelling, and shown by no run:

* Two brokers that race to create the log are said to join one chain. They do open
  one file, but each from its own idea of the end: both write sequence number 1,
  and the log no longer verifies. It is not lost (`SharedLogKeepsAcked`).
* An entry with two values of `ADB_BROKER_SEQ`, `ADB_BROKER_HASH` or `ADB_BROKER_LOG`
  is an anchor by the first of them when it is read out of the files, and an error
  when it is piped (`foundation/journal/journal.go:701`, `app/broker/verify.go:508`).
  Nothing but this binary can write such an entry, and it does not.
* An anchor whose `ADB_BROKER_LOG` journald has compressed (a path long enough)
  is passed over as one of another log, where `foundation/journal/journal.go:32` says
  that a compressed field is never quietly missing. `CountedAnchorsTaken` leaves it out.
* A `fetch` header's size is the `LST2`'s, and is not compared with what `RECV`
  delivers (`app/broker/wire.go:244` says it states exactly how many bytes follow).
* The volume is asked about once in a walk, so a remount after an entry that really
  was elsewhere is reported as refused entries.

## What is proved

Each theorem says that a property of a run holds throughout every behaviour of the
specification, for every value of the constants: any processes, operations, phones, trees and files, and any bounds. The assumptions are
those the modules declare (`Junk` is no record, `NoFragment` no line, `NoDevice` no
device, sizes are natural numbers, what an entry may say is in `KindType` and what
the system's file may hold in `FileType`) and those a theorem states itself.

**`AuditLogProofs`**, any processes.

* `TypeCorrect`: `TypeOK`.
* `AckedStaysOnDisk`: `AckedOnDisk`. Not inductive alone: `AppendSync`
  acknowledges the record its process wrote some steps before, and has to know
  that the record is still in the file and that a writeback that lost it would be
  told to this process. `WrittenInFile` says so, and `DurabilityInv` is the two
  together. The argument, action by action: only `WritebackError` takes a line
  from durable, and it takes lines that no fsync had covered and tells every
  process; only `PowerLoss` rewrites lines, and it keeps those that are durable
  or turns them to junk with their neighbour.
* `NothingLostSilently`: `NoSilentLoss`, from the last and `VerifiedLines`: a file
  that verifies has no junk in it, so a line that holds a record holds it alone.

**`AuditLogProofs`**, one process at a time (`Alone`). All three rest on
`PlaceInv`: a Log's sequence number is the place of the last line, and a record in
the file says its own place.

* `SequenceNumbersAreUnique`: `AckedSeqUnique`. Acknowledged records sit durably in
  the places they are numbered for, and what is written behind is numbered higher.
* `TailStandsForTheLog`, for at most two appends in a life: `OpenImpliesVerified`.
  `ChainInv` keeps the chain whole up to its last line. The line that a second
  append makes undecodable is the process's last, and the next `Open` refuses it.
* `TheFileIsALedger`, for a caller that stops at an error and writebacks that
  succeed: `ImplementsLedger`, the refinement. `AppendWrite` is `Extend`,
  `AppendSync` is `Vouch`, `PowerLoss` is `Forget`, and the rest changes neither
  history nor what is vouched for. `LedgerInv` has the hash of a line tell its
  place, which is how a power loss is known to forget nothing vouched for.

**`AuditTrailProofs`**, any number of brokers.

* `TrailTypesKept`: `TrailTypeOK`. `SharingLosesNothing`: `SharedLogKeepsAcked`.
  `LastOperationIsAnchored`: `LastOperationAnchored`.
* `AlarmsAreTrue` and `TruncationDoesNotPass`, where verify does not overlap with a
  broker: `NoFalseAlarm` and `TruncationCaught`. `TrailInv` says what an anchor in
  the journal is an anchor of, that a hash covers as many records as its record's
  number, and what is left of a log that was cut; `Reading` what a verify holds
  between its two reads. Without the assumption `Reading` fails, and `verify_race`
  shows how.

**`AdbSessionProofs`**: `TypeCorrect` (`TypeOK`), and `NamedIsServed`, `RecordsAreTrue`, `StreamIsTheOutcome`,
`RebuiltBeforeItIsSaid`, `NamingSuffices` for the five safety properties of `session`,
with any phones, device numbers, lengths of a listing and sizes of a file, a world
that moves at will and a stdout that fails anywhere. `SessionInv` relates the live
session, the pinned serial and the volume to the place the command has reached, and
what is on stdout to what is recorded.

**`AdbWalkProofs`**, every tree, those without end included, every depth and any
number of changes.

* `TypesAreKept` (`TypeOK`), `StackIsBounded` (`DepthBounded`) and
  `MovedVolumeIsNoticed` (`FirstMismatchAsks`). `StackInv` says in which steps the
  stack may be how deep, `QuestionInv` where the walk may be between meeting a moved
  volume and asking about it.
* `UntouchedAreListed`: `UntouchedFilesListed`. Its two halves pull against each
  other, that no file is lost and none is sent twice, and both are said of
  `ToCome(e)`: the path `e` still lies before the walk, behind the directory being
  opened or read or behind a child that a call on the stack has not descended into.
  `FoundInv`: an untouched file of the tree has been sent or is to come. `OnceInv`:
  what was sent is not to come, and as many were counted as were sent. They need
  `TreeInv`: a directory on the stack is no child any more of the call above it, and
  a call has no child twice nor one it is still to read, so that the stack's parts of
  the tree do not overlap. Each action is then one lemma on how it changes `ToCome`
  (`OpenComes`, `EntryComes`, `DirComes`, `SkipComes`, `DescendComes`, `ReturnComes`,
  `StopComes`), with no induction over the tree.
* `StillTreeIsListed`: `ListingIsTheTree`. `StillInv`, while the tree keeps still:
  the stack holds paths of the tree (`OnTree`), and the records, the count and the
  errors are those of exactly the entries that are not to come any more and of the
  directories found too deep (`Accounted(Had, Past)`). Each step moves one entry, or
  one such directory, from before the walk to behind it (`TraceEntry`, `TraceStop`)
  and accounts for that one (`EntryAccounted`, `StopAccounted`), or moves none
  (`TraceOn`). At the end nothing is to come, and what is behind is the tree.

**`FixtureStoreProofs`**: `FixtureStandsIn` (`FixtureListsTheSame`), for any tree and
any bounded depth. On the phone's side it rests on the account above. On the
fixture's it has to say what a recursion computes. `Summed` gives each path the sum
of what visit adds for the entries `Behind` it, a set defined without recursion, and
`BehindIs` splits that set as walkDir does: the entries of the directory, and those
behind each one it descends into. So `Summed` satisfies the equation of `FixtureDir`
(`WalkedIs`), and nothing else does at a bounded depth: of the paths where the two
differed the longest would differ for nothing below it (`FixtureDirIs`, by the least
number of a set, `LeastOne`, and not by induction over the tree). What is behind the
root are the entries of the tree (`BehindRoot`). `RootInv` keeps what the root
answered until the listing ends, unless something changes.

**`AdbWireProofs`**: `AnswersAreTrue`, `ChannelsAreInStep`, `RequestsAreInPlace`,
for any number of calls and replies of any length. `WireInv` says that what is
still to be read is the rest of one reply to the one call made: a chain of parts
each of which is what the reader expects next, or junk that ends it.
`WireTypesKept` (`TypeOK`) needs one thing more, that no call delivers more items
than a reply may hold. The length of what is left does not show it, for a reply may
be cut short anywhere; the place of each header in it does (`Room`).

**`JournalReaderProofs`**, any entries, any size of an array and of a chunk, any
system file.

* `FilterNeverRelaxed`: `NoRelaxation`, whatever is in the files. `FilterInv` keeps of
  what was found that it matches, and of what was taken that its payload parses and
  names this log, all by the values that can be read. Where a field has one value
  only, decompressed, what stands in the file stands on the pipe (`StandsThere`), and
  the exceptions are just the fields that have two (`TakenIsPrinted`).
* `TypesAreKept`: `TypeOK`, together with `JournalInv`, which says what journald's own
  files are like between any two of its steps. Such a file is `Intact` and
  `Accounted` at all times (`Settled`, with the one entry or array that is written
  and not linked yet set aside: `EntryHangs`, `ArrayHangs`), and the header lags
  behind what is listed by the entry being appended (`Lag`). Every step of journald
  only adds to a file what a reader that remembers an older header does not look
  for (`Grows`, `Moves`): objects stay where they are and what they are, an array's
  items and its `next` change from 0 once, and what was listed stays listed.

**`JournalAnchorsProofs`**, the same, and the reader beside it.

* `ErrorsAreNotJournalds`: `ErrorsHaveACause`. `OpenedInv` ties the header a reader
  holds to the file as it is now, `WalkInv` what it has listed and the array it is
  at: each offset leads to an object of its type, or past the written end that the
  reader keeps to. In an intact file the chain goes upwards, so no array is met
  twice, and the visited set that stops a chain that bites its tail never stops a
  sound one.
* `AnchorsAreTaken`: `CountedAnchorsTaken`. For each promised entry that is not
  handled yet, `PromiseInv` says where it is still ahead: in a file whose path is
  not opened yet, in the one whose header is read next, in a file that is open and
  not begun, in an array the walk has not come to, or among the offsets it has
  listed. The step that could lose it is `ReadArray`, which stops when it has listed
  as many as the header counted. `OrderInv` says that what is listed so far are
  entries in ascending order that the chain reaches first; if the reader stops
  before an entry `o` that is counted, it holds at least `count` entries all below
  `o`, and then `o` is not among the first `count` (`RankIs`, by counting).
* `NothingUnreadablePasses`: `UnreadableIsLoud`, from the same ledger: a promised
  anchor without an executable that can be read is not skipped and not matched, so it is never
  handled, and a read that ends well has handled them all.

Model-checked and not proved: liveness, which is out of the prover's reach. Every
invariant the runs check is a theorem.

## Not modelled, and why

* The text of records, anchors and wire objects, and the parsing of paths,
  serials and times: pure functions of one value, without state. The same of the
  allowlist (`Narrow` is called by tests only), the error taxonomy, the home
  directory lookup and the version.
* The several codes with which a phone that is attached refuses: one stands for
  all; they are equally fatal.
* A directory entry lost with the power after `Create`: the code does not fsync
  the directory, and the model keeps the file.
* The numbers in a frame and the prose of a FAIL (`failTable`), and a device that
  sends entries for ever: each of its reads is in time, so nothing ends it.
* Of the journal: byte offsets and the two widths of an item (a file that is not
  aligned is corrupt like any other), the sort by sequence number, more
  than the one pattern verify opens, and the memo of data objects, which never change.
  What a rotation between the pattern and an open hides is allowed by
  `CountedAnchorsTaken` (`disturbed`); the code does not look again.
* Of the fixture: `Probe`, `ResolveVolume` and `Fetch`, a few checks without state,
  and the faults a test injects. Where its listing differs from the phone's by
  design the comparison leaves it out: a root off the volume has another code,
  every name is asked for, an `Lstat` that fails is always `path_not_found` and a
  directory that may not be listed is a problem where adbd lists nothing, and
  there is no bound on the depth and no look at the root.

## Plan

Done: `HashChain`, `Ledger`, `AuditLog`, `AuditTrail`, `AdbSession`, `AdbWalk`,
`AdbWire`, `JournalReader`, `FixtureStore`, and the theorems above.

Left: the header's size against the bytes of a transfer, if the code comes to compare
them.
