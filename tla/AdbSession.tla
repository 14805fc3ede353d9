----------------------------- MODULE AdbSession ------------------------------
(***************************************************************************)
(* One device command of the broker: probe, list or fetch, from the        *)
(* subcommand (app/broker) through the bus that pins the storage volume    *)
(* (devicebus) and the extension that records each call (deviceaudit) to   *)
(* the store that holds one sync session (stores/adbsyncdb).                *)
(*                                                                         *)
(* The store is driven by one goroutine; what runs beside it is the world: *)
(* phones are plugged in and out and authorised, a channel breaks, a file  *)
(* changes, the consumer of stdout goes away.  A step of the store is one  *)
(* exchange with the adb server or the phone, so the world moves between   *)
(* any two of them.                                                        *)
(*                                                                         *)
(* A volume is a device number and an inode.  The inode tells whose volume *)
(* it is and is compared by nothing; the number is what Contains compares, *)
(* and two phones may have the same one.  So a volume is written as the    *)
(* phone it was read from, and DevNumber gives its number.                 *)
(***************************************************************************)
EXTENDS Naturals, Sequences, FiniteSets

CONSTANTS
    Device,         \* serials of the phones
    NoDevice,       \* the zero serial, volume or session
    DevNumber,      \* the device number of each phone's storage volume
    MaxFiles,       \* bound: files a listing finds
    MaxSize         \* bound: bytes of the file fetched

ASSUME NoDeviceIsNone == NoDevice \notin Device
ASSUME DevNumberType == DevNumber \in [Device -> Nat]
ASSUME SizesAreNat == MaxFiles \in Nat /\ MaxSize \in Nat

VARIABLES
    command,        \* the subcommand and its --serial
    call,           \* the bus operation being performed
    store,          \* the store operation being performed
    step,           \* where it is in that
    chosen,         \* the device selectDevice picked, while a session is opened on it
    sess,           \* the device the live session is on
    pinned,         \* Store.pinnedSerial
    volume,         \* Business.volume
    stdout,         \* what the consumer has been sent
    sink,           \* what took it: "open", or how the write failed that was the last
    records,        \* what the audit extension has recorded
    result,         \* how the command ended
    status,         \* per device: "absent", "refusing" or "ready"
    broken,         \* whether the live session's channel is gone
    fileSize        \* bytes of the file fetched, as it is on the phone now

at       == <<call, store, step, chosen>>
held     == <<sess, pinned, volume>>
outcome  == <<stdout, sink, records, result>>
world    == <<status, broken, fileSize>>
vars     == <<command, at, held, outcome, world>>

MaybeDevice == Device \cup {NoDevice}
Calls       == {"probe", "list", "fetch"}

\* The command has ended, or its process has been killed.
Over == step \in {"done", "killed"}

-----------------------------------------------------------------------------
(* Lines on stdout.  "from" is the phone the payload came from; it is not   *)
(* on the wire.                                                             *)

\* Mutant: the size of a buffer that also holds the newline.
HeaderWithNewline(n) == [is |-> "header", size |-> n + 1]

HeaderLine(n)  == [is |-> "header", size |-> n]
Payload(d, n)  == [is |-> "bytes", from |-> d, size |-> n]
TrailerLine(n) == [is |-> "trailer", size |-> n]
FileLine(d)    == [is |-> "file", from |-> d]
SummaryLine(n) == [is |-> "summary", size |-> n]
DeviceLine(d)  == [is |-> "device", from |-> d]
ErrorLine(c)   == [is |-> "error", code |-> c]

Lines(kind) == {i \in 1..Len(stdout) : stdout[i].is = kind}
Headed      == Lines("header") # {}

\* Mutant: an error object wherever the command failed.
ErrorObjectAlways(code) == <<ErrorLine(code)>>

\* After a header nothing may follow on stdout but the trailer.
ErrorObject(code) == IF Headed THEN <<>> ELSE <<ErrorLine(code)>>

-----------------------------------------------------------------------------
Init ==
    /\ command \in [kind : Calls, serial : MaybeDevice]
    /\ call = IF command.kind = "fetch" /\ command.serial # NoDevice THEN "probe" ELSE command.kind
    /\ store = IF call = "probe" THEN "Probe" ELSE "ResolveVolume"
    /\ step = "session"
    /\ chosen = NoDevice
    /\ sess = NoDevice /\ pinned = NoDevice /\ volume = NoDevice
    /\ stdout = <<>> /\ sink = "open" /\ records = <<>> /\ result = "none"
    /\ status \in [Device -> {"absent", "refusing", "ready"}]
    /\ broken = FALSE
    /\ fileSize \in 0..MaxSize

\* The next store operation of the same bus call.
Continue(operation) ==
    /\ store' = operation
    /\ step' = "session"
    /\ UNCHANGED <<call, chosen>>

\* A line goes out whole, or not (of a line that fails some bytes may be there, and
\* no newline).  On a full disk a write is an error.  On a pipe nobody reads it is
\* SIGPIPE, which the Go runtime lets kill the process when the file is stdout.
Full   == sink' = "full" /\ step' = "done"
Closed == sink' = "closed" /\ step' = "killed"

\* The extension records the bus call.
Record(serial, vol, code) ==
    /\ records' = Append(records, [op |-> call, serial |-> serial, volume |-> vol, result |-> code])
    /\ result' = code
    /\ UNCHANGED <<call, store, chosen>>

\* The bus call is over and recorded, and the command ends with what it has to say.
End(serial, vol, code, lines) ==
    /\ Record(serial, vol, code)
    /\ \/ stdout' = stdout \o lines /\ step' = "done" /\ UNCHANGED sink
       \/ lines # <<>> /\ UNCHANGED stdout /\ (Full \/ Closed)

\* A call that failed has no volume and, if it is a fetch, no serial either.
SerialOfFailure == IF call = "fetch" THEN NoDevice ELSE command.serial

Fail(code) == End(SerialOfFailure, NoDevice, code, ErrorObject(code))

-----------------------------------------------------------------------------
(* sessionLocked and connectLocked.                                         *)

\* Probe and List name the device of the command; ResolveVolume, Fetch and
\* reconnectLocked name none.
Named == IF store \in {"Probe", "List"} THEN command.serial ELSE NoDevice

\* Mutant: a rebuild takes whatever is attached.
TargetUnpinned == Named

\* The device asked for, or else the one selected before.
Target == IF Named = NoDevice THEN pinned ELSE Named

\* Mutant: the live session serves whichever device was named.
UsableWhoever == sess # NoDevice

Usable == sess # NoDevice /\ Named \in {NoDevice, sess}

\* The live session is the one.
UseSession ==
    /\ step = "session"
    /\ Usable
    /\ step' = "use"
    /\ UNCHANGED <<command, call, store, chosen, held, outcome, world>>

\* A session on another device is closed.  The server is asked for its version and
\* for the devices, if it is there and can be understood, and selectDevice takes the
\* one asked for, or the only one there is.
Entries == {d \in Device : status[d] # "absent"}

Selectable ==
    {d \in Entries : d = Target \/ (Target = NoDevice /\ Entries = {d})}

Refusal == IF Entries = {} \/ Target # NoDevice THEN "no_device" ELSE "multiple_devices"

Select ==
    /\ step = "session"
    /\ ~Usable
    /\ sess' = NoDevice
    /\ \/ /\ chosen' \in Selectable
          /\ step' = "open"
          /\ UNCHANGED <<call, store, outcome>>
       \/ /\ Selectable = {}
          /\ Fail(Refusal)
       \/ \E code \in {"no_adb_server", "internal"} : Fail(code)
    /\ UNCHANGED <<command, pinned, volume, world>>

\* Mutant: a device that refuses is asked again until it agrees.
OpenSessionRetries ==
    /\ step = "open"
    /\ chosen' = NoDevice
    /\ IF status[chosen] = "ready"
       THEN /\ sess' = chosen
            /\ pinned' = chosen
            /\ broken' = FALSE
            /\ step' = "use"
       ELSE /\ step' = "session"
            /\ UNCHANGED <<sess, pinned, broken>>
    /\ UNCHANGED <<command, call, store, outcome, volume, status, fileSize>>

\* What may keep a session from being opened on the device chosen: its state, and
\* whatever the state an answer that is cut short or not understood.  "unauthorized"
\* stands for every code of a phone that is attached and refuses: offline, or without
\* the V2 features, is as fatal.
Obstacles ==
    {"internal"} \cup CASE status[chosen] = "ready"    -> {}
                      [] status[chosen] = "refusing" -> {"unauthorized"}
                      [] status[chosen] = "absent"   -> {"no_device"}

\* Its features are read, it is selected as the transport, and a sync channel
\* is opened.
OpenSession ==
    /\ step = "open"
    /\ \/ /\ status[chosen] = "ready"
          /\ sess' = chosen
          /\ pinned' = chosen
          /\ broken' = FALSE
          /\ step' = "use"
          /\ chosen' = NoDevice
          /\ UNCHANGED <<call, store, outcome>>
       \/ /\ \E code \in Obstacles : Fail(code)
          /\ UNCHANGED <<sess, pinned, broken>>
    /\ UNCHANGED <<command, volume, status, fileSize>>

-----------------------------------------------------------------------------
(* The store operations, once they have a session.                          *)

\* A command on a broken channel fails, and the session is dropped.
ChannelFails(code) ==
    /\ broken
    /\ sess' = NoDevice
    /\ Fail(code)

\* Probe answers from what opening the session read; then the bus pins the
\* volume, unless it has one.
Probe ==
    /\ store = "Probe" /\ step = "use"
    /\ Continue("ResolveVolume")
    /\ UNCHANGED <<command, held, outcome, world>>

\* The probe before a fetch is recorded, and the fetch follows with its volume
\* already resolved; the probe of a probe command is its answer.
ProbeEnds ==
    IF command.kind = "fetch"
    THEN /\ call' = "fetch" /\ store' = "Fetch" /\ step' = "session"
         /\ records' = Append(records, [op |-> "probe", serial |-> command.serial,
                                        volume |-> sess, result |-> "ok"])
         /\ UNCHANGED <<chosen, stdout, sink, result>>
    ELSE End(command.serial, sess, "ok", <<DeviceLine(sess)>>)

\* STA2 of /sdcard.  A failure is not cached; a volume is, for the process's life.
ResolveVolume ==
    /\ store = "ResolveVolume" /\ step = "use"
    /\ \/ /\ ~broken
          /\ volume' = sess
          /\ CASE call = "probe" -> ProbeEnds
               [] call = "list"  -> Continue("List") /\ UNCHANGED outcome
               [] call = "fetch" -> Continue("Fetch") /\ UNCHANGED outcome
          /\ UNCHANGED sess
       \/ Fail("volume_unresolved") /\ ~broken /\ UNCHANGED <<sess, volume>>
       \/ ChannelFails("volume_unresolved") /\ UNCHANGED volume
    /\ UNCHANGED <<command, pinned, world>>

\* Volume.Contains, asked of the storage the session reads.  (A path may lie on
\* another file system of the phone, whatever this says: a bind mount.)
OnPinnedVolume == DevNumber[sess] = DevNumber[volume]

\* What the root's LST2 can be refused with, or what it may turn out to be.
RootCodes == {"root_not_found", "permission_denied", "not_a_directory", "volume_unresolved"}

\* walkRoot's checks.
ListRoot ==
    /\ store = "List" /\ step = "use"
    /\ \/ ~broken /\ OnPinnedVolume /\ step' = "walk" /\ UNCHANGED <<call, store, chosen, outcome, sess>>
       \/ /\ ~broken
          /\ \E code \in RootCodes : Fail(code)
          /\ UNCHANGED sess
       \/ ChannelFails("device_disconnected")
    /\ UNCHANGED <<command, pinned, volume, world>>

\* The walk streams the files it finds, and ends with a summary, with the storage
\* remounted under it, or with the channel.
Walk ==
    /\ store = "List" /\ step = "walk"
    /\ \/ /\ ~broken
          /\ Len(stdout) < MaxFiles
          /\ stdout' = Append(stdout, FileLine(sess))
          /\ UNCHANGED <<at, sink, records, result, sess>>
       \/ /\ ~broken
          /\ \/ End(command.serial, volume, "ok", <<SummaryLine(Len(stdout))>>)
             \/ Fail("volume_unresolved")
          /\ UNCHANGED sess
       \/ ChannelFails("device_disconnected")
    /\ UNCHANGED <<command, pinned, volume, world>>

\* What the LST2 of a fetch target can be refused with.
FileCodes == {"path_not_found", "permission_denied", "not_a_regular_file", "path_denied", "transfer_failed"}

\* The LST2 before a transfer, and the header it allows.
Preflight ==
    /\ store = "Fetch" /\ step = "use"
    /\ \/ /\ ~broken
          /\ OnPinnedVolume
          /\ stdout' = Append(stdout, HeaderLine(fileSize))
          /\ step' = "recv"
          /\ UNCHANGED <<call, store, chosen, sink, records, result, sess>>
       \/ /\ ~broken
          /\ \E code \in FileCodes : Fail(code)
          /\ UNCHANGED sess
       \/ ChannelFails("transfer_failed")
    /\ UNCHANGED <<command, pinned, volume, world>>

\* Mutant: the record names the device the caller asked for.
FetchedSerialAsked == command.serial

\* FetchResult.Serial: the device the session is on.
FetchedSerial == sess

\* RECV delivers the whole file as it is now, ...
Receive ==
    /\ store = "Fetch" /\ step = "recv"
    /\ ~broken
    /\ stdout' = Append(stdout, Payload(sess, fileSize))
    /\ step' = "sent"
    /\ UNCHANGED <<command, call, store, chosen, held, sink, records, result, world>>

\* ... and the trailer follows the record.
Deliver ==
    /\ step = "sent"
    /\ End(FetchedSerial, volume, "ok", <<TrailerLine(stdout[Len(stdout)].size)>>)
    /\ UNCHANGED <<command, held, world>>

\* Mutant: the failed transfer is reported without a rebuild.
ReceiveFailsOutright ==
    /\ store = "Fetch" /\ step = "recv"
    /\ sess' = NoDevice
    /\ Fail("transfer_failed")
    /\ UNCHANGED <<command, pinned, volume, world>>

\* RECV fails after some of the bytes, for any cause, a stdout that takes no more
\* of them included, and the session with it; reconnectLocked builds another.
ReceiveFails ==
    /\ store = "Fetch" /\ step = "recv"
    /\ \E n \in 0..fileSize : stdout' = Append(stdout, Payload(sess, n))
    /\ sink' \in {"open", "full"}
    /\ sess' = NoDevice
    /\ Continue("reconnect")
    /\ UNCHANGED <<command, pinned, volume, records, result, world>>

\* The rebuild worked, so one file failed and no more.  (If it fails, Select or
\* OpenSession has failed the command with the code of that.)
Reconnected ==
    /\ store = "reconnect" /\ step = "use"
    /\ Fail("transfer_failed")
    /\ UNCHANGED <<command, held, world>>

-----------------------------------------------------------------------------
(* Writes that fail inside the bus call: a record of a listing, a header.   *)

\* What the callbacks of List and Fetch have in hand when they write.
AboutToWrite ==
    /\ ~broken
    /\ \/ store = "List" /\ step = "walk"
       \/ store = "Fetch" /\ step = "use" /\ OnPinnedVolume

\* The callback's error ends the call, and a listing's session with it; what carries
\* no code is recorded as internal.
CallbackFails ==
    /\ AboutToWrite
    /\ Record(SerialOfFailure, NoDevice, "internal")
    /\ Full
    /\ sess' = IF store = "List" THEN NoDevice ELSE sess
    /\ UNCHANGED <<command, pinned, volume, stdout, world>>

\* The process is killed before the extension hears of the call.
BrokenPipe ==
    /\ \/ AboutToWrite /\ UNCHANGED stdout
       \/ /\ store = "Fetch" /\ step = "recv"
          /\ \E n \in 0..fileSize : stdout' = Append(stdout, Payload(sess, n))
    /\ Closed
    /\ UNCHANGED <<command, call, store, chosen, held, records, result, world>>

-----------------------------------------------------------------------------
(* The world.                                                               *)

\* A phone is plugged in, out, or has its authorisation changed; a session on it
\* does not survive that.
Replug(d) ==
    /\ ~Over
    /\ \E s \in {"absent", "refusing", "ready"} \ {status[d]} : status' = [status EXCEPT ![d] = s]
    /\ broken' = (broken \/ d = sess)
    /\ UNCHANGED <<command, at, held, outcome, fileSize>>

\* The channel breaks: a deadline passes, the server restarts, the stream is malformed.
ChannelBreaks ==
    /\ ~Over
    /\ sess # NoDevice
    /\ ~broken
    /\ broken' = TRUE
    /\ UNCHANGED <<command, at, held, outcome, status, fileSize>>

\* An app on the phone writes the file.
FileChanges ==
    /\ ~Over
    /\ fileSize' \in (0..MaxSize) \ {fileSize}
    /\ UNCHANGED <<command, at, held, outcome, status, broken>>

-----------------------------------------------------------------------------
Broker ==
    \/ UseSession \/ Select \/ OpenSession
    \/ Probe \/ ResolveVolume
    \/ ListRoot \/ Walk
    \/ Preflight \/ Receive \/ Deliver \/ ReceiveFails \/ Reconnected
    \/ CallbackFails \/ BrokenPipe

Next ==
    \/ Broker
    \/ \E d \in Device : Replug(d)
    \/ ChannelBreaks
    \/ FileChanges

Spec == Init /\ [][Next]_vars

\* Every exchange carries a deadline, so the broker always takes its next step;
\* nothing in the world is bound to happen.
FairSpec == Spec /\ WF_vars(Broker)

-----------------------------------------------------------------------------
Codes == {"no_device", "multiple_devices", "unauthorized", "no_adb_server", "volume_unresolved",
          "device_disconnected", "root_not_found", "not_a_directory", "internal"} \cup FileCodes

Line ==
    [is : {"header", "trailer"}, size : 0..MaxSize] \cup [is : {"summary"}, size : 0..MaxFiles]
    \cup [is : {"bytes"}, from : Device, size : 0..MaxSize]
    \cup [is : {"file", "device"}, from : Device] \cup [is : {"error"}, code : Codes]

TypeOK ==
    /\ command \in [kind : Calls, serial : MaybeDevice]
    /\ call \in Calls
    /\ store \in {"Probe", "ResolveVolume", "List", "Fetch", "reconnect"}
    /\ step \in {"session", "open", "use", "walk", "recv", "sent", "done", "killed"}
    /\ {chosen, sess, pinned, volume} \subseteq MaybeDevice
    /\ stdout \in Seq(Line)
    /\ sink \in {"open", "full", "closed"}
    /\ records \in Seq([op : Calls, serial : MaybeDevice, volume : MaybeDevice, result : Codes \cup {"ok"}])
    /\ result \in Codes \cup {"none", "ok"}
    /\ status \in [Device -> {"absent", "refusing", "ready"}]
    /\ broken \in BOOLEAN
    /\ fileSize \in 0..MaxSize

\* The phones whose data is on stdout.
Sources == {stdout[i].from : i \in Lines("file") \cup Lines("bytes") \cup Lines("device")}

\* Nothing of another phone is ever served under a serial that was named
\* (sessionLocked), whatever is replugged between the steps and through a rebuild.
ServesNamed ==
    command.serial # NoDevice => Sources \subseteq {command.serial}

\* A call recorded as "ok" is recorded with the phone and the volume it was about.
\* "list --serial" is left out: its volume is pinned before its serial is looked at.
RecordsAreFaithful ==
    \A i \in 1..Len(records) :
        records[i].result = "ok" /\ ~(command.kind = "list" /\ command.serial # NoDevice) =>
            /\ Sources \subseteq {records[i].volume}
            /\ records[i].op = "fetch" => records[i].serial = records[i].volume
            /\ records[i].op # "fetch" => records[i].serial = command.serial

\* What the consumer reads off the stream is what the audit log says: a
\* terminator exactly when the last call is recorded as ok and stdout took it, an
\* error object exactly when it failed with no header out, and nothing behind either.
StreamTellsOutcome ==
    Over =>
        LET last == records[Len(records)].result
            ends == Lines("trailer") \cup Lines("summary") \cup Lines("device")
        IN  /\ ends = IF sink = "open" /\ last = "ok" THEN {Len(stdout)} ELSE {}
            /\ Lines("error") = IF sink = "open" /\ last # "ok" /\ ~Headed THEN {Len(stdout)} ELSE {}
            /\ Lines("header") \subseteq {1}

\* transfer_failed ends one file and not the run: after a header it is reported
\* only when a session on the same phone has been rebuilt (Fetch, reconnectLocked).
FailedTransferIsOneFile ==
    step = "done" /\ Headed /\ result = "transfer_failed" =>
        sess # NoDevice /\ sess = pinned /\ sess = volume

\* "Every subcommand accepts --serial <id> to pin a device" (ADB_BROKER.md), and
\* "multiple_devices" is "Ambiguous without --serial": naming a device is enough.
NamingIsEnough ==
    command.serial # NoDevice => result # "multiple_devices"

\* The same of probe and of fetch, which probes the named device first.
NamingIsEnoughToFetch ==
    command.kind # "list" => NamingIsEnough

\* "stdout is gone. [...] the operation is in the audit log either way" (list.go):
\* a listing that has sent records of files is recorded however its output fared.
RecordedEitherWay ==
    Over /\ command.kind = "list" /\ Lines("file") # {} => \E i \in 1..Len(records) : records[i].op = call

\* A command ends, however often the phones come and go: one rebuild, no retry.
CommandEnds == <>Over
=============================================================================
