--------------------------- MODULE AdbSessionProofs ---------------------------
(* Theorems about AdbSession, for any phones, device numbers and sizes: whose    *)
(* data goes out, and what the log and the stream say of it.                    *)
EXTENDS AdbSession, SequenceTheorems, TLAPS

USE DEF Over

-----------------------------------------------------------------------------
(* The inductive invariant: where the command is and on which phone, ...        *)

Types ==
    /\ command \in [kind : Calls, serial : MaybeDevice]
    /\ call \in Calls
    /\ store \in {"Probe", "ResolveVolume", "List", "Fetch", "reconnect"}
    /\ step \in {"session", "open", "use", "walk", "recv", "sent", "done", "killed"}
    /\ sink \in {"open", "full", "closed"}
    /\ chosen \in MaybeDevice /\ sess \in MaybeDevice /\ pinned \in MaybeDevice /\ volume \in MaybeDevice
    /\ result \in Codes \cup {"none", "ok"}
    /\ status \in [Device -> {"absent", "refusing", "ready"}]
    /\ broken \in BOOLEAN
    /\ fileSize \in 0..MaxSize

\* list --serial pins its volume before it looks at the serial.
ListSerial == command.kind = "list" /\ command.serial # NoDevice

\* Which store operation belongs to which call, and which call to which command.
Places ==
    /\ call = command.kind \/ (call = "probe" /\ command.kind = "fetch" /\ command.serial # NoDevice)
    /\ call = "probe" => store \in {"Probe", "ResolveVolume"}
    /\ call = "list" => store \in {"ResolveVolume", "List"}
    /\ call = "fetch" => store \in {"ResolveVolume", "Fetch", "reconnect"}
    /\ call = "fetch" /\ store = "ResolveVolume" => command.serial = NoDevice
    /\ step = "walk" => store = "List"
    /\ step \in {"recv", "sent"} => store = "Fetch"
    /\ ~Over => result = "none"

\* A session is on the phone pinned, and where it is used it is the one asked for.
Sessions ==
    /\ sess \in {NoDevice, pinned}
    /\ step = "open" => chosen \in Device /\ Target \in {NoDevice, chosen}
    /\ step \in {"use", "walk", "recv", "sent"} => sess # NoDevice /\ Named \in {NoDevice, sess}

\* The phone pinned is the one named, once it has been asked for, and the volume's.
Pins ==
    /\ store = "Probe" => volume = NoDevice
    /\ store \in {"List", "Fetch", "reconnect"} => volume # NoDevice
    /\ ~ListSerial => volume \in {NoDevice, pinned}
    /\ command.serial # NoDevice /\ command.kind # "list" /\ store # "Probe" => pinned = command.serial

Core == Types /\ Places /\ Sessions /\ Pins

-----------------------------------------------------------------------------
(* ... and what has been said of it, line by line and record by record.         *)

RecordType == [op : Calls, serial : MaybeDevice, volume : MaybeDevice, result : Codes \cup {"ok"}]

HasHeader(out) == \E i \in 1..Len(out) : out[i].is = "header"

\* The stream of a command that has not ended, or whose end stdout did not take: no
\* terminator, no error object.
Spoken(out) ==
    \A i \in 1..Len(out) :
        /\ out[i].is \in {"header", "bytes", "file"}
        /\ out[i].is = "header" => i = 1

\* The stream of a command that has ended with this result.
Ended(out, last) ==
    /\ \A i \in 1..Len(out) :
          /\ out[i].is \in {"trailer", "summary", "device"} <=> last = "ok" /\ i = Len(out)
          /\ out[i].is = "error" <=> last # "ok" /\ ~HasHeader(out) /\ i = Len(out)
          /\ out[i].is = "header" => i = 1
    /\ last = "ok" \/ ~HasHeader(out) => Len(out) > 0

\* Every payload is of a phone in S.
FromOnly(out, S) == \A i \in 1..Len(out) : out[i].is \in {"file", "bytes", "device"} => out[i].from \in S

\* A record that says ok is about this volume, and is under its name or the one asked for.
About(r, phone, serial) ==
    /\ phone # NoDevice /\ r.volume = phone
    /\ r.op = "fetch" => r.serial = phone
    /\ r.op # "fetch" => r.serial = serial

Streams ==
    /\ stdout \in Seq(Line)
    /\ ~Over \/ sink # "open" => Spoken(stdout)
    /\ Over /\ sink = "open" => step = "done" /\ Ended(stdout, result)
    /\ ~Over /\ sink # "open" => store = "reconnect"
    /\ step \in {"recv", "sent"} \/ store = "reconnect" => HasHeader(stdout)
    /\ step = "sent" => Len(stdout) > 0 /\ stdout[Len(stdout)].is = "bytes"
    /\ ~Over /\ store \in {"Probe", "ResolveVolume"} => stdout = <<>>
    /\ store = "Fetch" /\ step \in {"session", "open", "use"} => stdout = <<>>
    /\ ~Over /\ call = "list" => Len(stdout) <= MaxFiles

Served ==
    /\ ~ListSerial => FromOnly(stdout, {volume})
    /\ command.serial # NoDevice => FromOnly(stdout, {command.serial})

Recorded ==
    /\ records \in Seq(RecordType)
    /\ ~Over /\ store \in {"Probe", "ResolveVolume"} => records = <<>>
    /\ step = "done" => Len(records) > 0 /\ records[Len(records)].result = result
    /\ ~ListSerial =>
          \A i \in 1..Len(records) : records[i].result = "ok" => About(records[i], volume, command.serial)

Codified == FailedTransferIsOneFile /\ NamingIsEnoughToFetch

SessionInv == Core /\ Streams /\ Served /\ Recorded /\ Codified

-----------------------------------------------------------------------------
(* Streams that grow by a line.                                                 *)

\* A stream with one line more: where the line is, and that nothing before it moved.
LEMMA OneMore ==
    ASSUME NEW S, NEW out \in Seq(S), NEW l \in S
    PROVE  /\ Append(out, l) \in Seq(S) /\ out \o <<l>> = Append(out, l)
           /\ Len(out) \in Nat /\ Len(Append(out, l)) = Len(out) + 1
           /\ Append(out, l)[Len(out) + 1] = l
           /\ \A i \in 1..Len(out) : Append(out, l)[i] = out[i]
  BY AppendProperties, AppendIsConcat, LenProperties

\* A line that ends nothing.
LEMMA Goes ==
    ASSUME NEW out \in Seq(Line), Spoken(out), NEW l \in Line,
           l.is \in {"header", "bytes", "file"}, l.is = "header" => out = <<>>
    PROVE  /\ Spoken(Append(out, l))
           /\ HasHeader(out) \/ l.is = "header" => HasHeader(Append(out, l))
<1>1. l.is = "header" => Len(out) = 0
  OBVIOUS
<1>2. Spoken(Append(out, l))
  BY <1>1, OneMore DEF Spoken
<1>3. HasHeader(out) \/ l.is = "header" => HasHeader(Append(out, l))
  BY OneMore DEF HasHeader
<1>4. QED
  BY <1>2, <1>3

\* A line that ends the stream well.
LEMMA Terminates ==
    ASSUME NEW out \in Seq(Line), Spoken(out), NEW l \in Line,
           l.is \in {"trailer", "summary", "device"}
    PROVE  Ended(Append(out, l), "ok")
  BY OneMore DEF Spoken, Ended

\* An error object, where no header is out.
LEMMA Complains ==
    ASSUME NEW out \in Seq(Line), Spoken(out), ~HasHeader(out), NEW l \in Line, l.is = "error",
           NEW code, code # "ok"
    PROVE  /\ Ended(Append(out, l), code)
           /\ ~HasHeader(Append(out, l))
<1>1. ~HasHeader(Append(out, l))
  BY OneMore DEF HasHeader
<1>2. QED
  BY <1>1, OneMore DEF Spoken, Ended

\* Nothing, where a header is.
LEMMA Stops ==
    ASSUME NEW out \in Seq(Line), Spoken(out), HasHeader(out), NEW code, code # "ok"
    PROVE  Ended(out, code)
  BY DEF Spoken, Ended

\* A stream that tells of some devices only still does with a line of one of them.
LEMMA FromOneMore ==
    ASSUME NEW out \in Seq(Line), NEW l \in Line, NEW S, FromOnly(out, S),
           l.is \in {"file", "bytes", "device"} => l.from \in S
    PROVE  FromOnly(Append(out, l), S)
  BY OneMore DEF FromOnly

\* Everything a command writes is a line of the stream.
LEMMA LinesAreLines ==
    /\ \A n \in 0..MaxSize : HeaderLine(n) \in Line /\ TrailerLine(n) \in Line
    /\ \A n \in 0..MaxFiles : SummaryLine(n) \in Line
    /\ \A d \in Device, n \in 0..MaxSize : Payload(d, n) \in Line
    /\ \A d \in Device : FileLine(d) \in Line /\ DeviceLine(d) \in Line
    /\ \A c \in Codes : ErrorLine(c) \in Line
  BY DEF Line, HeaderLine, TrailerLine, SummaryLine, Payload, FileLine, DeviceLine, ErrorLine

-----------------------------------------------------------------------------
(* The actions, and what they do to the command's place and phone.              *)

\* The codes the store answers with are codes of the program.
LEMMA CodesAreCodes ==
    /\ FileCodes \subseteq Codes
    /\ {"no_device", "multiple_devices", "unauthorized", "no_adb_server", "volume_unresolved",
        "device_disconnected", "root_not_found", "not_a_directory", "transfer_failed", "internal"} \subseteq Codes
    /\ "ok" \notin Codes /\ "none" \notin Codes /\ "multiple_devices" \notin FileCodes
    /\ RootCodes \subseteq Codes \ {"multiple_devices", "transfer_failed"}
  BY DEF Codes, FileCodes, RootCodes

\* What may keep a session from being opened is one of three things.
LEMMA ObstaclesAre ==
    ASSUME Core, step = "open"
    PROVE  Obstacles \subseteq {"internal", "unauthorized", "no_device"}
<1>1. status[chosen] \in {"absent", "refusing", "ready"}
  BY DEF Core, Types, Sessions
<1>2. QED
  BY <1>1 DEF Obstacles

\* What the end of a command leaves, written out or not: the broker is done or
\* killed, and nothing before it is undone.
LEMMA EndMoves ==
    ASSUME NEW serial, NEW vol, NEW code, NEW lines, End(serial, vol, code, lines)
    PROVE  step' \in {"done", "killed"} /\ sink' \in {sink, "full", "closed"} /\ result' = code
           /\ UNCHANGED <<call, store, chosen>>
  BY DEF End, Record, Full, Closed

\* The same of an end in failure.
LEMMA FailMoves ==
    ASSUME NEW code, Fail(code)
    PROVE  step' \in {"done", "killed"} /\ sink' \in {sink, "full", "closed"} /\ result' = code
           /\ UNCHANGED <<call, store, chosen>>
  BY EndMoves DEF Fail

\* Without exactly one device to take, selection refuses with one of two codes.
LEMMA RefusalIsACode ==
    /\ Refusal \in {"no_device", "multiple_devices"}
    /\ Refusal = "multiple_devices" => Target = NoDevice
  BY DEF Refusal

\* No step breaks the part of the invariant that no output is in.
LEMMA CoreKept ==
    ASSUME Core, Next
    PROVE  Core'
<1> USE NoDeviceIsNone, CodesAreCodes, FailMoves
<1> USE DEF Core, Types, Places, Sessions, Pins, ListSerial, held, outcome, at, world, MaybeDevice, Calls
<1>1. CASE UseSession
  BY <1>1 DEF UseSession, Usable, Named
<1>2. CASE Select
  <2>1. CASE chosen' \in Selectable /\ step' = "open" /\ UNCHANGED <<call, store, outcome>>
    BY <1>2, <2>1 DEF Select, Selectable, Entries, Target, Named
  <2>2. CASE Fail(Refusal)
    BY <1>2, <2>2, RefusalIsACode DEF Select
  <2>3. CASE \E code \in {"no_adb_server", "internal"} : Fail(code)
    BY <1>2, <2>3 DEF Select
  <2>4. QED
    BY <1>2, <2>1, <2>2, <2>3 DEF Select
<1>3. CASE OpenSession
  <2>1. CASE sess' = chosen /\ pinned' = chosen /\ step' = "use" /\ chosen' = NoDevice /\ UNCHANGED <<call, store, outcome>>
    BY <1>3, <2>1 DEF OpenSession, Target, Named
  <2>2. CASE (\E code \in Obstacles : Fail(code)) /\ UNCHANGED <<sess, pinned, broken>>
    <3>1. Obstacles \subseteq Codes
      BY <1>3, ObstaclesAre, CodesAreCodes DEF OpenSession
    <3>2. QED
      BY <1>3, <2>2, <3>1 DEF OpenSession
  <2>3. QED
    BY <1>3, <2>1, <2>2 DEF OpenSession
<1>4. CASE Probe
  BY <1>4 DEF Probe, Continue, Named
<1>5. CASE ResolveVolume
  <2> USE DEF ResolveVolume, Named
  <2>1. CASE Fail("volume_unresolved") /\ sess' \in {NoDevice, sess} /\ UNCHANGED volume
    BY <1>5, <2>1
  <2>2. CASE volume' = sess /\ call = "probe" /\ ProbeEnds /\ UNCHANGED sess
    <3>1. CASE command.kind = "fetch"
      BY <1>5, <2>2, <3>1 DEF ProbeEnds
    <3>2. CASE command.kind # "fetch"
      BY <1>5, <2>2, <3>2, EndMoves DEF ProbeEnds
    <3>3. QED
      BY <3>1, <3>2
  <2>3. CASE volume' = sess /\ call = "list" /\ Continue("List") /\ UNCHANGED <<sess, outcome>>
    BY <1>5, <2>3 DEF Continue
  <2>4. CASE volume' = sess /\ call = "fetch" /\ Continue("Fetch") /\ UNCHANGED <<sess, outcome>>
    BY <1>5, <2>4 DEF Continue
  <2>5. QED
    BY <1>5, <2>1, <2>2, <2>3, <2>4 DEF ChannelFails
<1>6. CASE ListRoot
  <2> USE DEF ListRoot, Named
  <2>1. CASE step' = "walk" /\ UNCHANGED <<call, store, chosen, outcome, sess>>
    BY <1>6, <2>1
  <2>2. CASE sess' \in {NoDevice, sess} /\ \E code \in Codes : Fail(code)
    BY <1>6, <2>2
  <2>3. QED
    BY <1>6, <2>1, <2>2 DEF ChannelFails
<1>7. CASE Walk
  <2> USE DEF Walk, Named
  <2>1. CASE UNCHANGED <<at, sink, records, result, sess>>
    BY <1>7, <2>1
  <2>2. CASE End(command.serial, volume, "ok", <<SummaryLine(Len(stdout))>>) /\ UNCHANGED sess
    BY <1>7, <2>2, EndMoves
  <2>3. CASE sess' \in {NoDevice, sess} /\ \E code \in Codes : Fail(code)
    BY <1>7, <2>3
  <2>4. QED
    BY <1>7, <2>1, <2>2, <2>3 DEF ChannelFails
<1>8. CASE Preflight
  <2> USE DEF Preflight, Named
  <2>1. CASE step' = "recv" /\ UNCHANGED <<call, store, chosen, sink, records, result, sess>>
    BY <1>8, <2>1
  <2>2. CASE sess' \in {NoDevice, sess} /\ \E code \in Codes : Fail(code)
    BY <1>8, <2>2
  <2>3. QED
    BY <1>8, <2>1, <2>2 DEF ChannelFails
<1>9. CASE Receive
  BY <1>9 DEF Receive, Named
<1>16. CASE Deliver
  BY <1>16, EndMoves DEF Deliver, Named
<1>10. CASE ReceiveFails
  BY <1>10 DEF ReceiveFails, Continue, Named
<1>17. CASE CallbackFails
  BY <1>17 DEF CallbackFails, Record, Full, Named
<1>18. CASE BrokenPipe
  BY <1>18 DEF BrokenPipe, Closed, Named
<1>11. CASE Reconnected
  BY <1>11 DEF Reconnected
<1>12. CASE \E d \in Device : Replug(d)
  BY <1>12 DEF Replug, Target, Named
<1>13. CASE ChannelBreaks
  BY <1>13 DEF ChannelBreaks, Target, Named
<1>14. CASE FileChanges
  BY <1>14 DEF FileChanges, Target, Named
<1>15. QED
  BY <1>1, <1>2, <1>3, <1>4, <1>5, <1>6, <1>7, <1>8, <1>9, <1>10, <1>11, <1>12, <1>13, <1>14,
     <1>16, <1>17, <1>18 DEF Next, Broker

-----------------------------------------------------------------------------
(* What they do to the stream and the records.                                  *)

\* Everything but the state and types of Core.
Outcome == Streams /\ Served /\ Recorded /\ Codified

\* A step that says nothing.
LEMMA QuietKeeps ==
    ASSUME SessionInv, Core', ~Over, ~Over',
           UNCHANGED <<command, call, outcome>>,
           volume' = volume \/ store = "ResolveVolume",
           store' \in {"Probe", "ResolveVolume"} => store \in {"Probe", "ResolveVolume"},
           store' = "reconnect" <=> store = "reconnect",
           step' \in {"recv", "sent"} => step' = step,
           store' = "Fetch" /\ step' \in {"session", "open", "use"} =>
               store = "ResolveVolume" \/ (store = "Fetch" /\ step \in {"session", "open", "use"})
    PROVE  Outcome'
<1> USE DEF SessionInv, outcome
<1>1. Streams'
  BY DEF Streams
<1>2. store = "ResolveVolume" => stdout = <<>> /\ records = <<>>
  BY DEF Streams, Recorded
<1>3. Served'
  BY <1>2 DEF Served, ListSerial, FromOnly
<1>4. Recorded'
  BY <1>2 DEF Recorded, ListSerial
<1>5. Codified'
  BY DEF Codified, FailedTransferIsOneFile, NamingIsEnoughToFetch, NamingIsEnough, Core, Places
<1>6. QED
  BY <1>1, <1>3, <1>4, <1>5 DEF Outcome

\* A call that is recorded, when nothing else follows.
LEMMA RecordKeeps ==
    ASSUME SessionInv, Core', ~Over, UNCHANGED <<command>>,
           volume' = volume \/ store = "ResolveVolume",
           NEW r \in RecordType, records' = Append(records, r),
           r.result = "ok" /\ ~ListSerial => About(r, volume', command.serial),
           step' = "done" => result' = r.result,
           store' \in {"Probe", "ResolveVolume"} => Over'
    PROVE  Recorded'
<1> DEFINE recs == records
<1>1. recs \in Seq(RecordType)
  BY DEF SessionInv, Recorded
<1>2. /\ records' \in Seq(RecordType)
      /\ Len(recs) \in Nat
      /\ Len(records') = Len(recs) + 1
      /\ records'[Len(recs) + 1] = r
      /\ \A i \in 1..Len(recs) : records'[i] = recs[i]
  <2> HIDE DEF recs
  <2>1. /\ Append(recs, r) \in Seq(RecordType)
        /\ Len(recs) \in Nat
        /\ Len(Append(recs, r)) = Len(recs) + 1
        /\ Append(recs, r)[Len(recs) + 1] = r
        /\ \A i \in 1..Len(recs) : Append(recs, r)[i] = recs[i]
    BY <1>1, OneMore
  <2>2. QED
    BY <2>1 DEF recs
<1>3. ~ListSerial => \A i \in 1..Len(recs) : recs[i].result = "ok" => About(recs[i], volume', command.serial)
  <2>1. store = "ResolveVolume" => Len(recs) = 0
    BY DEF SessionInv, Recorded
  <2>2. CASE store = "ResolveVolume"
    BY <2>1, <2>2
  <2>3. CASE volume' = volume
    BY <2>3 DEF SessionInv, Recorded
  <2>4. QED
    BY <2>2, <2>3
<1>4. ~ListSerial =>
          \A i \in 1..Len(records') : records'[i].result = "ok" => About(records'[i], volume', command.serial)
  BY <1>2, <1>3
<1>5. step' = "done" => Len(records') > 0 /\ records'[Len(records')].result = result'
  BY <1>2
<1>6. QED
  BY <1>2, <1>4, <1>5 DEF Recorded, ListSerial, About

\* What the extension appends is a record.
LEMMA RecordsAreRecords ==
    ASSUME Types, NEW code \in Codes \cup {"ok"}, NEW serial \in MaybeDevice, NEW vol \in MaybeDevice
    PROVE  [op |-> call, serial |-> serial, volume |-> vol, result |-> code] \in RecordType
  BY DEF RecordType, Types

\* A step that fails the command.
LEMMA FailKeeps ==
    ASSUME SessionInv, Core', ~Over, NEW code \in Codes, Fail(code),
           UNCHANGED <<command, pinned, volume>>,
           code = "multiple_devices" => command.kind = "list" \/ command.serial = NoDevice,
           code = "transfer_failed" /\ Headed => store = "reconnect" /\ sess' = sess /\ sess # NoDevice
    PROVE  Outcome'
<1>1. PICK out \in Seq(Line) : out = stdout
  BY DEF SessionInv, Streams
<1>2. Spoken(out)
  BY <1>1 DEF SessionInv, Streams
<1>3. Headed <=> HasHeader(out)
  BY <1>1 DEF Headed, Lines, HasHeader
<1>4. code # "ok" /\ code # "none"
  BY CodesAreCodes
<1>5. Over' /\ result' = code /\ UNCHANGED <<call, store, chosen>>
  BY FailMoves
<1>6. /\ stdout' \in Seq(Line)
      /\ sink' = "open" => step' = "done" /\ Ended(stdout', code)
      /\ sink' # "open" => Spoken(stdout')
      /\ HasHeader(stdout') <=> HasHeader(out)
      /\ \A S : FromOnly(out, S) => FromOnly(stdout', S)
  <2>1. CASE HasHeader(out)
    <3>1. stdout' = out /\ step' = "done"
      BY <2>1, <1>1, <1>3, ConcatEmptySeq DEF Fail, End, ErrorObject
    <3>2. QED
      BY <2>1, <3>1, <1>2, <1>4, Stops
  <2>2. CASE ~HasHeader(out) /\ stdout' = stdout \o ErrorObject(code) /\ step' = "done" /\ UNCHANGED sink
    <3>1. PICK l \in Line : l = ErrorLine(code) /\ l.is = "error"
      BY LinesAreLines DEF ErrorLine
    <3>2. stdout' = Append(out, l) /\ stdout' \in Seq(Line)
      BY <2>2, <3>1, <1>1, <1>3, OneMore DEF ErrorObject
    <3>3. sink = "open"
      BY <2>2, <1>1 DEF SessionInv, Streams
    <3>4. Ended(Append(out, l), code) /\ ~HasHeader(Append(out, l))
      BY <2>2, <3>1, <1>2, <1>4, Complains
    <3>5. \A S : FromOnly(out, S) => FromOnly(Append(out, l), S)
      BY <3>1, FromOneMore
    <3>6. QED
      BY <2>2, <3>2, <3>3, <3>4, <3>5
  <2>3. CASE ~HasHeader(out) /\ UNCHANGED stdout /\ (Full \/ Closed)
    BY <2>3, <1>1, <1>2 DEF Full, Closed
  <2>4. QED
    BY <2>1, <2>2, <2>3 DEF Fail, End
<1>7. Streams'
  <2>1. store = "reconnect" => HasHeader(out)
    BY <1>1 DEF SessionInv, Streams
  <2>2. QED
    BY <1>5, <1>6, <2>1 DEF Streams
<1>8. Served'
  BY <1>1, <1>6 DEF Served, SessionInv, ListSerial
<1>9. Recorded'
  <2>1. PICK r \in RecordType : r.result = code /\ records' = Append(records, r)
    <3>1. [op |-> call, serial |-> SerialOfFailure, volume |-> NoDevice, result |-> code] \in RecordType
      <4>1. SerialOfFailure \in MaybeDevice /\ NoDevice \in MaybeDevice
        BY DEF SerialOfFailure, SessionInv, Core, Types, MaybeDevice
      <4>2. QED
        BY <4>1, RecordsAreRecords DEF SessionInv, Core
    <3>2. QED
      BY <3>1 DEF Fail, End, Record
  <2>2. QED
    BY <2>1, <1>4, <1>5, RecordKeeps
<1>10. Codified'
  <2>1. NamingIsEnoughToFetch'
    BY <1>5 DEF NamingIsEnoughToFetch, NamingIsEnough
  <2>2. Headed' <=> HasHeader(stdout')
    BY DEF Headed, Lines, HasHeader
  <2>3. store = "reconnect" => volume # NoDevice /\ volume \in {NoDevice, pinned}
    BY DEF SessionInv, Core, Pins, Places, ListSerial
  <2>4. FailedTransferIsOneFile'
    BY <1>3, <1>5, <1>6, <2>2, <2>3 DEF FailedTransferIsOneFile, SessionInv, Core, Sessions
  <2>5. QED
    BY <2>1, <2>4 DEF Codified
<1>11. QED
  BY <1>7, <1>8, <1>9, <1>10 DEF Outcome

\* The session that serves is on the phone named, and on the volume's.
LEMMA ServingTheNamed ==
    ASSUME Core, step \in {"use", "walk", "recv", "sent"}, store \in {"List", "Fetch"}
    PROVE  /\ sess \in Device
           /\ ~ListSerial => sess = volume
           /\ command.serial # NoDevice => sess = command.serial
  BY DEF Core, Types, Places, Sessions, Pins, ListSerial, Named, MaybeDevice, Calls

\* A step that says one line, and does not end the command.
LEMMA LineKeeps ==
    ASSUME SessionInv, Core', ~Over, step' # "done",
           UNCHANGED <<command, call, volume, records, result>>,
           store \in {"List", "Fetch"}, step \in {"use", "walk", "recv"},
           store' \in {"List", "Fetch", "reconnect"}, store' = "Fetch" => step' \in {"recv", "sent", "killed"},
           sink' = sink \/ store' = "reconnect" \/ (step' = "killed" /\ sink' # "open"),
           step' = "killed" => sink' # "open",
           NEW l \in Line, stdout' = Append(stdout, l),
           l.is \in {"header", "bytes", "file"}, l.is = "header" => stdout = <<>>,
           step' = "recv" => l.is = "header",
           step' = "sent" \/ store' = "reconnect" => step = "recv",
           step' = "sent" => l.is = "bytes",
           l.is \in {"bytes", "file"} => l.from = sess,
           call = "list" => Len(stdout) < MaxFiles
    PROVE  Outcome'
<1>1. PICK out \in Seq(Line) : out = stdout
  BY DEF SessionInv, Streams
<1>2. Spoken(out)
  BY <1>1 DEF SessionInv, Streams
<1>3. /\ stdout' = Append(out, l) /\ stdout' \in Seq(Line)
      /\ Len(out) \in Nat /\ Len(stdout') = Len(out) + 1 /\ stdout'[Len(stdout')] = l
      /\ Spoken(stdout')
      /\ HasHeader(out) \/ l.is = "header" => HasHeader(stdout')
  BY <1>1, <1>2, OneMore, Goes
<1>4. Streams'
  <2>1. call = "list" => Len(stdout') <= MaxFiles
    BY <1>1, <1>3, SizesAreNat
  <2>2. (step = "recv" => HasHeader(out)) /\ sink = "open"
    BY <1>1 DEF SessionInv, Streams
  <2>3. step' \in {"recv", "sent"} \/ store' = "reconnect" => HasHeader(stdout')
    BY <1>3, <2>2
  <2>4. QED
    BY <1>3, <2>1, <2>2, <2>3 DEF Streams
<1>5. ASSUME NEW S, FromOnly(out, S), sess \in S
      PROVE  FromOnly(stdout', S)
  BY <1>3, <1>5, FromOneMore
<1>6. Served'
  <2>1. ~ListSerial => FromOnly(out, {volume}) /\ sess \in {volume}
    BY <1>1, ServingTheNamed DEF SessionInv, Served
  <2>2. command.serial # NoDevice => FromOnly(out, {command.serial}) /\ sess \in {command.serial}
    BY <1>1, ServingTheNamed DEF SessionInv, Served
  <2>3. QED
    BY <2>1, <2>2, <1>5 DEF Served, ListSerial
<1>7. Recorded'
  BY DEF SessionInv, Recorded, ListSerial
<1>8. Codified'
  BY DEF Codified, FailedTransferIsOneFile, NamingIsEnoughToFetch, NamingIsEnough, SessionInv, Core, Places
<1>9. QED
  BY <1>4, <1>6, <1>7, <1>8 DEF Outcome

\* Bytes of the file that are received.
LEMMA SentBytes ==
    ASSUME SessionInv, store = "Fetch", step = "recv", NEW n \in 0..fileSize
    PROVE  \E l \in Line : l = Payload(sess, n) /\ l.is = "bytes" /\ l.from = sess
<1>1. n \in 0..MaxSize /\ sess \in Device
  BY SizesAreNat, ServingTheNamed DEF SessionInv, Core, Types
<1>2. Payload(sess, n) \in Line /\ Payload(sess, n).is = "bytes" /\ Payload(sess, n).from = sess
  BY <1>1, LinesAreLines DEF Payload
<1>3. QED
  BY <1>2

\* A call that ends well, and says so with one line: the device, the summary, the trailer.
LEMMA OneLineEnds ==
    ASSUME SessionInv, Core', ~Over, UNCHANGED command,
           volume' = volume \/ store = "ResolveVolume",
           NEW serial \in MaybeDevice, NEW vol \in MaybeDevice,
           NEW l \in Line, l.is \in {"trailer", "summary", "device"},
           l.is = "device" => l.from = vol /\ (command.serial # NoDevice => vol = command.serial),
           End(serial, vol, "ok", <<l>>),
           ~ListSerial => /\ vol = volume' /\ vol # NoDevice
                          /\ serial = IF call = "fetch" THEN vol ELSE command.serial,
           store # "reconnect"
    PROVE  Outcome'
<1>1. PICK out \in Seq(Line) : out = stdout
  BY DEF SessionInv, Streams
<1>2. Spoken(out) /\ sink = "open"
  BY <1>1 DEF SessionInv, Streams
<1>3. Over' /\ result' = "ok" /\ UNCHANGED <<call, store, chosen>>
  BY EndMoves
<1>4. /\ stdout' \in Seq(Line)
      /\ sink' = "open" => step' = "done" /\ Ended(stdout', "ok")
      /\ sink' # "open" => Spoken(stdout')
      /\ stdout' = out \/ stdout' = Append(out, l)
  <2>1. CASE stdout' = stdout \o <<l>> /\ step' = "done" /\ UNCHANGED sink
    <3>1. out \o <<l>> = Append(out, l) /\ Append(out, l) \in Seq(Line)
      BY OneMore
    <3>2. Ended(Append(out, l), "ok")
      BY <1>2, Terminates
    <3>3. QED
      BY <1>1, <1>2, <2>1, <3>1, <3>2
  <2>2. CASE UNCHANGED stdout /\ (Full \/ Closed)
    BY <1>1, <1>2, <2>2 DEF Full, Closed
  <2>3. QED
    BY <2>1, <2>2 DEF End
<1>5. Streams'
  BY <1>3, <1>4 DEF Streams
<1>6. ~ListSerial => FromOnly(out, {volume'})
  <2>1. CASE volume' = volume
    BY <1>1, <2>1 DEF SessionInv, Served
  <2>2. CASE store = "ResolveVolume"
    <3>1. Len(out) = 0
      BY <1>1, <2>2 DEF SessionInv, Streams
    <3>2. QED
      BY <3>1 DEF FromOnly
  <2>3. QED
    BY <2>1, <2>2
<1>7. ~ListSerial => FromOnly(stdout', {volume'})
  BY <1>4, <1>6, FromOneMore
<1>8. command.serial # NoDevice => FromOnly(out, {command.serial})
  BY <1>1 DEF SessionInv, Served
<1>9. command.serial # NoDevice => FromOnly(stdout', {command.serial})
  BY <1>4, <1>8, FromOneMore
<1>10. Served'
  BY <1>7, <1>9 DEF Served, ListSerial
<1>11. PICK r \in RecordType : /\ records' = Append(records, r)
                               /\ r = [op |-> call, serial |-> serial, volume |-> vol, result |-> "ok"]
  BY RecordsAreRecords DEF SessionInv, Core, End, Record
<1>12. ~ListSerial => About(r, volume', command.serial)
  BY <1>11 DEF About
<1>13. Recorded'
  BY <1>3, <1>11, <1>12, RecordKeeps
<1>14. Codified'
  BY <1>3 DEF Codified, FailedTransferIsOneFile, NamingIsEnoughToFetch, NamingIsEnough
<1>15. QED
  BY <1>5, <1>10, <1>13, <1>14 DEF Outcome

\* A chunk of a file that arrives and is written out keeps the stream in order.
LEMMA DeliverKeeps ==
    ASSUME SessionInv, Core', Deliver
    PROVE  Outcome'
<1>1. PICK out \in Seq(Line) : out = stdout
  BY DEF SessionInv, Streams
<1>2. step = "sent" /\ store = "Fetch" /\ UNCHANGED <<command, volume>>
  BY DEF SessionInv, Core, Types, Places, Deliver, held
<1>3. call = "fetch" /\ ~ListSerial /\ volume # NoDevice /\ volume \in MaybeDevice
  BY <1>2 DEF SessionInv, Core, Types, Places, Pins, ListSerial, Calls
<1>4. sess \in Device /\ sess = volume
  BY <1>2, <1>3, ServingTheNamed DEF SessionInv
<1>5. PICK l \in Line : l = TrailerLine(stdout[Len(stdout)].size) /\ l.is = "trailer"
  <2>1. Len(out) \in 1..Len(out) /\ out[Len(out)].is = "bytes" /\ out[Len(out)] \in Line
    BY <1>1, <1>2, LenProperties, ElementOfSeq DEF SessionInv, Streams
  <2>2. out[Len(out)].size \in 0..MaxSize
    BY <2>1 DEF Line
  <2>3. TrailerLine(out[Len(out)].size) \in Line /\ TrailerLine(out[Len(out)].size).is = "trailer"
    BY <2>2, LinesAreLines DEF TrailerLine
  <2>4. QED
    BY <1>1, <2>3
<1>6. PICK v \in MaybeDevice : v = sess /\ v = volume
  BY <1>3, <1>4
<1>7. End(v, v, "ok", <<l>>)
  BY <1>5, <1>6 DEF Deliver, FetchedSerial
<1>8. QED
  BY <1>2, <1>3, <1>5, <1>6, <1>7, OneLineEnds

\* A callback that cannot write: the call is recorded as a failure, and stdout is as it was.
LEMMA CallbackKeeps ==
    ASSUME SessionInv, Core', CallbackFails
    PROVE  Outcome'
<1>1. /\ step' = "done" /\ sink' = "full" /\ result' = "internal"
      /\ UNCHANGED <<call, store, command, stdout, volume>>
      /\ ~Over /\ store # "reconnect"
  BY DEF CallbackFails, AboutToWrite, Record, Full
<1>2. PICK out \in Seq(Line) : out = stdout
  BY DEF SessionInv, Streams
<1>3. Spoken(out) /\ stdout' = out
  BY <1>1, <1>2 DEF SessionInv, Streams
<1>4. Streams'
  BY <1>1, <1>3 DEF Streams
<1>5. Served'
  BY <1>1 DEF SessionInv, Served, ListSerial
<1>6. PICK r \in RecordType : r.result = "internal" /\ records' = Append(records, r)
  <2>1. SerialOfFailure \in MaybeDevice /\ NoDevice \in MaybeDevice
    BY DEF SerialOfFailure, SessionInv, Core, Types, MaybeDevice
  <2>2. [op |-> call, serial |-> SerialOfFailure, volume |-> NoDevice, result |-> "internal"] \in RecordType
    BY <2>1, CodesAreCodes, RecordsAreRecords DEF SessionInv, Core
  <2>3. QED
    BY <2>2 DEF CallbackFails, Record
<1>7. Recorded'
  BY <1>1, <1>6, RecordKeeps
<1>8. Codified'
  BY <1>1 DEF Codified, FailedTransferIsOneFile, NamingIsEnoughToFetch, NamingIsEnough
<1>9. QED
  BY <1>4, <1>5, <1>7, <1>8 DEF Outcome

\* A process killed by what it writes: some of the file may be out, and nothing else is new.
LEMMA BrokenPipeKeeps ==
    ASSUME SessionInv, Core', BrokenPipe
    PROVE  Outcome'
<1>1. /\ step' = "killed" /\ sink' = "closed"
      /\ UNCHANGED <<command, call, store, volume, records, result>>
      /\ ~Over /\ step \in {"use", "walk", "recv"} /\ store \in {"List", "Fetch"}
  BY DEF BrokenPipe, AboutToWrite, Closed, held
<1>2. CASE UNCHANGED stdout
  <2>1. PICK out \in Seq(Line) : out = stdout
    BY DEF SessionInv, Streams
  <2>2. Spoken(out) /\ stdout' = out
    BY <1>2, <2>1, <1>1 DEF SessionInv, Streams
  <2>3. Streams'
    BY <1>1, <2>2 DEF Streams
  <2>4. Served'
    BY <1>1, <1>2 DEF SessionInv, Served, ListSerial
  <2>5. Recorded'
    BY <1>1 DEF SessionInv, Recorded, ListSerial
  <2>6. Codified'
    BY <1>1 DEF Codified, FailedTransferIsOneFile, NamingIsEnoughToFetch, NamingIsEnough,
                SessionInv, Core, Places
  <2>7. QED
    BY <2>3, <2>4, <2>5, <2>6 DEF Outcome
<1>3. CASE store = "Fetch" /\ step = "recv" /\ \E n \in 0..fileSize : stdout' = Append(stdout, Payload(sess, n))
  <2>1. PICK n \in 0..fileSize : stdout' = Append(stdout, Payload(sess, n))
    BY <1>3
  <2>2. PICK l \in Line : l = Payload(sess, n) /\ l.is = "bytes" /\ l.from = sess
    BY <1>3, SentBytes
  <2>3. call # "list"
    BY <1>3 DEF SessionInv, Core, Places
  <2>4. QED
    BY <1>1, <1>3, <2>1, <2>2, <2>3, LineKeeps
<1>4. QED
  BY <1>2, <1>3 DEF BrokenPipe

-----------------------------------------------------------------------------
(* The invariant.                                                               *)

\* A broker starts in the invariant.
LEMMA Begun ==
    ASSUME Init
    PROVE  SessionInv
<1> USE NoDeviceIsNone, CodesAreCodes
<1>1. Core
  BY DEF Init, Core, Types, Places, Sessions, Pins, MaybeDevice, Calls, ListSerial
<1>2. stdout = <<>> /\ records = <<>> /\ Len(<<>>) = 0
  BY DEF Init
<1>3. Streams
  BY <1>2, SizesAreNat DEF Init, Streams, Spoken
<1>4. Served /\ Recorded
  BY <1>2 DEF Init, Served, Recorded, FromOnly
<1>5. Codified
  BY DEF Init, Codified, FailedTransferIsOneFile, NamingIsEnoughToFetch, NamingIsEnough
<1>6. QED
  BY <1>1, <1>3, <1>4, <1>5 DEF SessionInv

\* Every step of the broker keeps what stdout and the log tell.
LEMMA BrokerKeeps ==
    ASSUME SessionInv, Core', Broker
    PROVE  Outcome'
<1> USE CodesAreCodes
<1>0. /\ ~Over /\ store \in {"Probe", "ResolveVolume"} => stdout = <<>> /\ records = <<>>
      /\ store = "Fetch" /\ step \in {"session", "open", "use"} => stdout = <<>> /\ ~Headed
      /\ call = "list" /\ ~Over => Len(stdout) <= MaxFiles
      /\ ~Over => result = "none"
      /\ ~Over /\ sink # "open" => store = "reconnect"
      /\ Len(stdout) \in Nat
  BY LenProperties DEF SessionInv, Streams, Recorded, Core, Places, Headed, Lines
<1>1. CASE UseSession
  BY <1>1, QuietKeeps DEF UseSession, held
<1>2. CASE Select
  <2>1. CASE chosen' \in Selectable /\ step' = "open" /\ UNCHANGED <<call, store, outcome>>
    BY <1>2, <2>1, QuietKeeps DEF Select
  <2>2. CASE Fail(Refusal)
    <3>1. PICK code \in {"no_device", "multiple_devices"} : code = Refusal
      BY RefusalIsACode
    <3>2. code = "multiple_devices" => command.kind = "list" \/ command.serial = NoDevice
      BY <1>2, <3>1, RefusalIsACode, NoDeviceIsNone
         DEF Select, Target, Named, SessionInv, Core, Types, Places, Pins, Calls, MaybeDevice
    <3>3. QED
      BY <1>2, <2>2, <3>1, <3>2, FailKeeps DEF Select
  <2>3. CASE \E code \in {"no_adb_server", "internal"} : Fail(code)
    BY <1>2, <2>3, FailKeeps DEF Select
  <2>4. QED
    BY <1>2, <2>1, <2>2, <2>3 DEF Select
<1>3. CASE OpenSession
  <2>1. CASE sess' = chosen /\ pinned' = chosen /\ step' = "use" /\ chosen' = NoDevice /\ UNCHANGED <<call, store, outcome>>
    BY <1>3, <2>1, QuietKeeps DEF OpenSession
  <2>2. CASE (\E code \in Obstacles : Fail(code)) /\ UNCHANGED <<sess, pinned, broken>>
    <3>1. Obstacles \subseteq {"internal", "unauthorized", "no_device"}
      BY <1>3, ObstaclesAre DEF OpenSession, SessionInv
    <3>2. QED
      BY <1>3, <2>2, <3>1, FailKeeps DEF OpenSession
  <2>3. QED
    BY <1>3, <2>1, <2>2 DEF OpenSession
<1>4. CASE Probe
  BY <1>4, QuietKeeps DEF Probe, Continue, held
<1>5. CASE ResolveVolume
  <2>0. /\ store = "ResolveVolume" /\ step = "use" /\ stdout = <<>> /\ records = <<>>
        /\ UNCHANGED <<command, pinned>> /\ ~Headed
    BY <1>0, <1>5 DEF ResolveVolume, Headed, Lines
  <2>1. CASE Fail("volume_unresolved") /\ UNCHANGED volume
    BY <2>0, <2>1, FailKeeps
  <2>2. CASE volume' = sess /\ call = "probe" /\ ProbeEnds /\ UNCHANGED sess
    <3>1. /\ sess \in Device
          /\ call # "fetch"
          /\ command.serial # NoDevice => sess = command.serial
          /\ command.serial \in MaybeDevice /\ sess \in MaybeDevice /\ sess # NoDevice
      BY <2>0, <2>2, NoDeviceIsNone
         DEF SessionInv, Core, Types, Places, Sessions, Pins, MaybeDevice, Calls
    <3>2. CASE command.kind = "fetch"
      <4>1. /\ call' = "fetch" /\ store' = "Fetch" /\ step' = "session"
            /\ stdout' = stdout /\ result' = result /\ sink' = sink
            /\ records' = Append(records, [op |-> "probe", serial |-> command.serial,
                                           volume |-> sess, result |-> "ok"])
        BY <2>2, <3>2 DEF ProbeEnds
      <4>2. PICK r \in RecordType : /\ records' = Append(records, r)
                                /\ r = [op |-> "probe", serial |-> command.serial,
                                        volume |-> sess, result |-> "ok"]
        BY <3>1, <4>1 DEF RecordType, Calls
      <4>3. Recorded'
        <5>1. About(r, volume', command.serial)
          BY <2>2, <3>1, <4>2 DEF About
        <5>2. QED
          BY <2>0, <2>2, <4>1, <4>2, <5>1, RecordKeeps
      <4>4. Streams'
        BY <1>0, <2>0, <4>1 DEF SessionInv, Streams, Spoken
      <4>5. Served'
        BY <2>0, <4>1 DEF Served, FromOnly
      <4>6. Codified'
        BY <1>0, <2>0, <4>1 DEF Codified, FailedTransferIsOneFile, NamingIsEnoughToFetch, NamingIsEnough
      <4>7. QED
        BY <4>3, <4>4, <4>5, <4>6 DEF Outcome
    <3>3. CASE command.kind # "fetch"
      <4>1. PICK v \in MaybeDevice : v = sess
        BY <3>1
      <4>2. PICK l \in Line : l = DeviceLine(v) /\ l.is = "device" /\ l.from = v
        <5>1. DeviceLine(v) \in Line /\ DeviceLine(v).is = "device" /\ DeviceLine(v).from = v
          BY <3>1, <4>1, LinesAreLines DEF DeviceLine
        <5>2. QED
          BY <5>1
      <4>3. PICK serial \in MaybeDevice : serial = command.serial
        BY <3>1
      <4>4. End(serial, v, "ok", <<l>>)
        BY <2>2, <3>3, <4>1, <4>2, <4>3 DEF ProbeEnds
      <4>5. QED
        BY <2>0, <2>2, <3>1, <4>1, <4>2, <4>3, <4>4, OneLineEnds
    <3>4. QED
      BY <3>2, <3>3
  <2>3. CASE volume' = sess /\ call = "list" /\ Continue("List") /\ UNCHANGED <<sess, outcome>>
    BY <2>0, <2>3, QuietKeeps DEF Continue
  <2>4. CASE volume' = sess /\ call = "fetch" /\ Continue("Fetch") /\ UNCHANGED <<sess, outcome>>
    BY <2>0, <2>4, QuietKeeps DEF Continue
  <2>5. QED
    BY <1>5, <2>1, <2>2, <2>3, <2>4 DEF ResolveVolume, ChannelFails, SessionInv, Core, Types, Calls
<1>6. CASE ListRoot
  <2>1. CASE step' = "walk" /\ UNCHANGED <<call, store, chosen, outcome, sess>>
    BY <1>6, <2>1, QuietKeeps DEF ListRoot
  <2>2. CASE \E code \in RootCodes \cup {"device_disconnected"} : Fail(code)
    BY <1>6, <2>2, FailKeeps DEF ListRoot
  <2>3. QED
    BY <1>6, <2>1, <2>2 DEF ListRoot, ChannelFails
<1>7. CASE Walk
  <2>0. /\ store = "List" /\ step = "walk" /\ call = "list" /\ sess \in Device
        /\ UNCHANGED <<command, pinned, volume>>
    BY <1>7, ServingTheNamed DEF Walk, SessionInv, Core, Types, Places, Calls
  <2>1. CASE /\ Len(stdout) < MaxFiles
             /\ stdout' = Append(stdout, FileLine(sess))
             /\ UNCHANGED <<at, sink, records, result, sess>>
    <3>1. PICK l \in Line : l = FileLine(sess) /\ l.is = "file" /\ l.from = sess
      <4>1. FileLine(sess) \in Line /\ FileLine(sess).is = "file" /\ FileLine(sess).from = sess
        BY <2>0, LinesAreLines DEF FileLine
      <4>2. QED
        BY <4>1
    <3>2. QED
      BY <2>0, <2>1, <3>1, LineKeeps DEF at
  <2>2. CASE End(command.serial, volume, "ok", <<SummaryLine(Len(stdout))>>) /\ UNCHANGED sess
    <3>1. PICK v \in MaybeDevice : v = volume /\ v # NoDevice
      BY <2>0 DEF SessionInv, Core, Types, Pins
    <3>2. PICK l \in Line : l = SummaryLine(Len(stdout)) /\ l.is = "summary"
      <4>1. Len(stdout) \in 0..MaxFiles
        BY <1>0, <2>0, SizesAreNat
      <4>2. SummaryLine(Len(stdout)) \in Line /\ SummaryLine(Len(stdout)).is = "summary"
        BY <4>1, LinesAreLines DEF SummaryLine
      <4>3. QED
        BY <4>2
    <3>3. PICK serial \in MaybeDevice : serial = command.serial
      BY DEF SessionInv, Core, Types
    <3>4. QED
      BY <2>0, <2>2, <3>1, <3>2, <3>3, OneLineEnds
  <2>3. CASE \E code \in {"volume_unresolved", "device_disconnected"} : Fail(code)
    BY <2>0, <2>3, FailKeeps
  <2>4. QED
    BY <1>7, <2>1, <2>2, <2>3 DEF Walk, ChannelFails
<1>8. CASE Preflight
  <2>0. /\ store = "Fetch" /\ step = "use" /\ call = "fetch"
        /\ stdout = <<>> /\ ~Headed
        /\ UNCHANGED <<command, pinned, volume>>
    BY <1>0, <1>8 DEF Preflight, SessionInv, Core, Types, Places, Calls
  <2>1. CASE /\ stdout' = Append(stdout, HeaderLine(fileSize))
             /\ step' = "recv"
             /\ UNCHANGED <<call, store, chosen, sink, records, result, sess>>
    <3>1. PICK l \in Line : l = HeaderLine(fileSize) /\ l.is = "header"
      <4>1. HeaderLine(fileSize) \in Line /\ HeaderLine(fileSize).is = "header"
        BY LinesAreLines DEF HeaderLine, SessionInv, Core, Types
      <4>2. QED
        BY <4>1
    <3>2. QED
      BY <2>0, <2>1, <3>1, LineKeeps
  <2>2. CASE \E code \in FileCodes : Fail(code)
    BY <2>0, <2>2, FailKeeps
  <2>3. QED
    BY <1>8, <2>1, <2>2 DEF Preflight, ChannelFails, FileCodes
<1>9. CASE Receive
  <2>0. /\ store = "Fetch" /\ step = "recv" /\ call = "fetch" /\ fileSize \in 0..fileSize
        /\ step' = "sent"
        /\ UNCHANGED <<command, call, store, volume, sink, records, result>>
    BY <1>9 DEF Receive, held, SessionInv, Core, Types, Places, Calls
  <2>1. PICK l \in Line : l = Payload(sess, fileSize) /\ l.is = "bytes" /\ l.from = sess
    BY <2>0, SentBytes
  <2>2. stdout' = Append(stdout, l)
    BY <1>9, <2>1 DEF Receive
  <2>3. QED
    BY <2>0, <2>1, <2>2, LineKeeps
<1>13. CASE Deliver
  BY <1>13, DeliverKeeps
<1>10. CASE ReceiveFails
  <2>0. /\ store = "Fetch" /\ step = "recv" /\ call = "fetch"
        /\ store' = "reconnect" /\ step' = "session"
        /\ UNCHANGED <<command, pinned, volume, records, result, call>>
    BY <1>10 DEF ReceiveFails, Continue, SessionInv, Core, Types, Places, Calls
  <2>1. PICK n \in 0..fileSize : stdout' = Append(stdout, Payload(sess, n))
    BY <1>10 DEF ReceiveFails
  <2>2. PICK l \in Line : l = Payload(sess, n) /\ l.is = "bytes" /\ l.from = sess
    BY <2>0, SentBytes
  <2>3. QED
    BY <2>0, <2>1, <2>2, LineKeeps
<1>11. CASE Reconnected
  BY <1>11, FailKeeps DEF Reconnected, held, SessionInv, Core, Sessions
<1>14. CASE CallbackFails
  BY <1>14, CallbackKeeps
<1>15. CASE BrokenPipe
  BY <1>15, BrokenPipeKeeps
<1>16. QED
  BY <1>1, <1>2, <1>3, <1>4, <1>5, <1>6, <1>7, <1>8, <1>9, <1>10, <1>11, <1>13, <1>14, <1>15 DEF Broker

\* Every step keeps the whole invariant.
LEMMA InvariantKept ==
    ASSUME SessionInv, [Next]_vars
    PROVE  SessionInv'
<1>1. CASE Next
  <2>1. Core'
    BY <1>1, CoreKept DEF SessionInv
  <2>2. CASE Broker
    BY <2>1, <2>2, BrokerKeeps DEF SessionInv, Outcome
  <2>3. CASE \E d \in Device : Replug(d)
    BY <2>1, <2>3, QuietKeeps DEF Replug, held, at, SessionInv, Outcome
  <2>4. CASE ChannelBreaks
    BY <2>1, <2>4, QuietKeeps DEF ChannelBreaks, held, at, SessionInv, Outcome
  <2>5. CASE FileChanges
    BY <2>1, <2>5, QuietKeeps DEF FileChanges, held, at, SessionInv, Outcome
  <2>6. QED
    BY <1>1, <2>2, <2>3, <2>4, <2>5 DEF Next
<1>2. CASE UNCHANGED vars
  <2>1. UNCHANGED <<command, call, store, step, chosen, sess, pinned, volume,
                    stdout, sink, records, result, status, broken, fileSize>>
    BY <1>2 DEF vars, at, held, outcome, world
  <2>2. Core'
    BY <2>1 DEF SessionInv, Core, Types, Places, Sessions, Pins, ListSerial, Target, Named
  <2>3. Outcome'
    BY <2>1 DEF SessionInv, Outcome, Streams, Served, Recorded, ListSerial,
                Codified, FailedTransferIsOneFile, NamingIsEnoughToFetch, NamingIsEnough, Headed, Lines
  <2>4. QED
    BY <2>2, <2>3 DEF SessionInv, Outcome
<1>3. QED
  BY <1>1, <1>2

\* The invariant holds throughout.
LEMMA SessionInvHolds == Spec => []SessionInv
<1>1. Init => SessionInv
  BY Begun
<1>2. SessionInv /\ [Next]_vars => SessionInv'
  BY InvariantKept
<1>3. QED
  BY <1>1, <1>2, PTL DEF Spec

-----------------------------------------------------------------------------
(* The theorems.                                                                *)

\* Every variable has its type; no step of the broker reads a line or a record
\* that no code writes.
THEOREM TypeCorrect == Spec => []TypeOK
<1>1. SessionInv => TypeOK
  BY DEF SessionInv, Core, Types, Streams, Recorded, RecordType, TypeOK
<1>2. QED
  BY <1>1, SessionInvHolds, PTL

\* Under a serial that was named only that phone's data goes out (sessionLocked,
\* connectLocked), whatever is replugged and rebuilt on the way.
THEOREM NamedIsServed == Spec => []ServesNamed
<1>1. SessionInv => ServesNamed
  BY DEF SessionInv, Served, FromOnly, ServesNamed, Sources, Lines
<1>2. QED
  BY <1>1, SessionInvHolds, PTL

\* What the audit extension records as ok is what the consumer was sent, and of
\* the volume that was pinned.
THEOREM RecordsAreTrue == Spec => []RecordsAreFaithful
<1>1. ASSUME SessionInv
      PROVE  RecordsAreFaithful
  <2>1. ~ListSerial => Sources \subseteq {volume}
    BY <1>1 DEF SessionInv, Served, FromOnly, Sources, Lines
  <2>2. QED
    BY <1>1, <2>1 DEF SessionInv, Recorded, About, RecordsAreFaithful, ListSerial
<1>2. QED
  BY <1>1, SessionInvHolds, PTL

\* The stream ends as the audit log says the call did (the bus call's error, the
\* extension's record and the writer's terminator are one decision each).
THEOREM StreamIsTheOutcome == Spec => []StreamTellsOutcome
<1>1. ASSUME SessionInv, Over
      PROVE  StreamTellsOutcome
  <2>1. /\ step = "done" => records[Len(records)].result = result
        /\ sink = "open" => step = "done" /\ Ended(stdout, result)
        /\ sink # "open" => Spoken(stdout)
        /\ Len(stdout) \in Nat
        /\ Headed <=> HasHeader(stdout)
    BY <1>1, LenProperties DEF SessionInv, Streams, Recorded, Headed, HasHeader, Lines
  <2>2. Lines("trailer") \cup Lines("summary") \cup Lines("device")
            = IF sink = "open" /\ result = "ok" THEN {Len(stdout)} ELSE {}
    BY <2>1 DEF Ended, Spoken, Lines
  <2>3. Lines("error") = IF sink = "open" /\ result # "ok" /\ ~Headed THEN {Len(stdout)} ELSE {}
    BY <2>1 DEF Ended, Spoken, Lines
  <2>4. Lines("header") \subseteq {1}
    BY <2>1 DEF Ended, Spoken, Lines
  <2>5. QED
    BY <1>1, <2>1, <2>2, <2>3, <2>4 DEF StreamTellsOutcome
<1>2. SessionInv => StreamTellsOutcome
  BY <1>1 DEF StreamTellsOutcome
<1>3. QED
  BY <1>2, SessionInvHolds, PTL

\* After a header, transfer_failed is said only with a session on the same phone
\* rebuilt (Fetch, reconnectLocked).
THEOREM RebuiltBeforeItIsSaid == Spec => []FailedTransferIsOneFile
<1>1. SessionInv => FailedTransferIsOneFile
  BY DEF SessionInv, Codified
<1>2. QED
  BY <1>1, SessionInvHolds, PTL

\* A probe or a fetch that names its device is never told multiple_devices
\* (selectDevice), through the rebuild of a failed transfer too.
THEOREM NamingSuffices == Spec => []NamingIsEnoughToFetch
<1>1. SessionInv => NamingIsEnoughToFetch
  BY DEF SessionInv, Codified
<1>2. QED
  BY <1>1, SessionInvHolds, PTL
=============================================================================
