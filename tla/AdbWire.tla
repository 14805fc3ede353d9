------------------------------- MODULE AdbWire -------------------------------
(***************************************************************************)
(* A Conn and the SyncConn it becomes (foundation/adbwire): host services,  *)
(* the selection of a transport, and sync commands over one socket, against *)
(* a server that answers whole, in part, late, with nonsense or never.      *)
(*                                                                         *)
(* Nothing in a reply says which request it answers.  All that tells one    *)
(* reply from the next is that each was read to its end, or that its socket *)
(* was closed.  A part is what one or two reads in a row take.              *)
(***************************************************************************)
EXTENDS Naturals, Sequences

CONSTANTS
    MaxCalls,       \* bound: calls of Conn's and SyncConn's methods
    MaxItems        \* bound: entries of a listing, chunks of a file

ASSUME BoundsAreNat == MaxCalls \in Nat /\ MaxItems \in Nat

Queries      == {"query"}                   \* version, devices, features
Switches     == {"transport", "sync"}
SyncCommands == {"stat", "list", "recv"}
Kinds        == Queries \cup Switches \cup SyncCommands

VARIABLES
    state,      \* of the Conn: connState
    session,    \* the SyncConn: "none", "alive" or "dead"
    calls,      \* how many calls there have been: the number of the last one
    call,       \* what the call that holds the mutex is for, "none" between calls
    expect,     \* what its next read is for
    items,      \* entries or chunks it has delivered
    ctx,        \* its context: "none", "deadline" or "cancelled"
    answer,     \* the last call that returned without error, and its items
    mode,       \* the server's end of the socket: "host", "transport", "sync" or "gone"
    requests,   \* requests on their way to the server
    owed,       \* the rest of the reply it is sending
    wire,       \* parts on their way to the client
    truth       \* the last reply begun: its call, its items, and if it is a good one

client == <<state, session, calls, call, expect, items, ctx, answer>>
server == <<mode, requests, owed, wire, truth>>
vars   == <<client, server>>

Idle == call = "none"

-----------------------------------------------------------------------------
(* What a server may answer.                                                *)

Repeat(head, body, n) == [i \in 1..2 * n |-> IF i % 2 = 1 THEN head ELSE body]

GoodReply(kind, n) ==
    CASE kind \in Queries  -> <<"OKAY", "payload">>
      [] kind \in Switches -> <<"OKAY">>
      [] kind = "stat"     -> <<"STAT", "body">>
      [] kind = "list"     -> Repeat("DNT2", "entry", n) \o <<"DONE", "zeros">>
      [] kind = "recv"     -> Repeat("DATA", "chunk", n) \o <<"DONE">>

Refusal(kind, n) ==
    CASE kind = "list" -> Repeat("DNT2", "entry", n) \o <<"FAIL", "message">>
      [] kind = "recv" -> Repeat("DATA", "chunk", n) \o <<"FAIL", "message">>
      [] OTHER         -> <<"FAIL", "message">>

\* A good reply up to some part that is not what it should be.  Nobody looks at
\* the bytes behind DONE.
Nonsense(kind, n) ==
    LET reply == GoodReply(kind, n)
    IN  {SubSeq(reply, 1, k - 1) \o <<"junk">> : k \in {j \in 1..Len(reply) : reply[j] # "zeros"}}

Counts(kind) == IF kind \in {"list", "recv"} THEN 0..MaxItems ELSE {0}

\* What a server takes for a request, by what it takes its socket for.
Served == [host |-> Queries \cup {"transport"}, transport |-> {"sync"}, sync |-> SyncCommands, gone |-> {}]

-----------------------------------------------------------------------------
\* Dial.
Init ==
    /\ state = "fresh" /\ session = "none"
    /\ calls = 0 /\ call = "none" /\ expect = "nothing" /\ items = 0 /\ ctx = "none"
    /\ answer = [call |-> 0, items |-> 0]
    /\ mode = "host" /\ requests = <<>> /\ owed = <<>> /\ wire = <<>>
    /\ truth = [call |-> 0, items |-> 0, good |-> FALSE]

-----------------------------------------------------------------------------
(* The server and what is between.                                          *)

Answers(request, reply, good, n) ==
    /\ owed' = reply
    /\ truth' = [call |-> request.call, items |-> n, good |-> good]

\* A query is answered and the socket closed; a switch makes it a stream; a
\* refusal is the end of it.
ServerAnswers ==
    /\ mode # "gone" /\ owed = <<>>
    /\ requests # <<>>
    /\ requests' = Tail(requests)
    /\ LET r == Head(requests)
       IN  \E n \in Counts(r.kind) :
             \/ /\ r.kind \in Served[mode]
                /\ Answers(r, GoodReply(r.kind, n), TRUE, n)
                /\ mode' = CASE r.kind \in Queries -> "gone" [] r.kind \in Switches -> r.kind [] OTHER -> mode
             \/ /\ Answers(r, Refusal(r.kind, n), FALSE, n)
                /\ mode' = "gone"
             \/ /\ \E reply \in Nonsense(r.kind, n) : Answers(r, reply, FALSE, n)
                /\ UNCHANGED mode
    /\ UNCHANGED <<client, wire>>

ServerSends ==
    /\ owed # <<>>
    /\ wire' = Append(wire, Head(owed))
    /\ owed' = Tail(owed)
    /\ UNCHANGED <<client, mode, requests, truth>>

\* The server, the cable or the phone goes, with all that was not sent yet.
ServerGone ==
    /\ mode # "gone" \/ owed # <<>>
    /\ mode' = "gone" /\ requests' = <<>> /\ owed' = <<>>
    /\ UNCHANGED <<client, wire, truth>>

-----------------------------------------------------------------------------
(* The beginning of a call.                                                 *)

\* Mutant: prepare lets a host service follow a transport.
MaySendAnything(kind) == state \in {"fresh", "spent", "transport"}

\* prepare: only sync: may follow a transport, and nothing a handover.
MaySend(kind) == state \in {"fresh", "spent"} \/ (state = "transport" /\ kind = "sync")

\* The request is written; who calls does so with a context of its own.
Begins(kind) ==
    /\ Idle /\ calls < MaxCalls
    /\ calls' = calls + 1
    /\ call' = kind
    /\ expect' = "header"
    /\ ctx' \in {"none", "deadline"}
    /\ UNCHANGED <<session, items, answer, owed, wire, truth>>

Request(kind) == [call |-> calls + 1, kind |-> kind]

\* query and switchServiceLocked; a Conn whose socket is spent dials another first.
HostCall(kind) ==
    /\ MaySend(kind)
    /\ Begins(kind)
    /\ LET at == IF state = "spent" THEN "host" ELSE mode
       IN  /\ mode' = at
           /\ requests' = IF at = "gone" THEN <<>> ELSE Append(requests, Request(kind))
    /\ state' = IF state = "spent" THEN "fresh" ELSE state

\* statCommand, List and Recv.
SyncCall(kind) ==
    /\ session = "alive"
    /\ Begins(kind)
    /\ requests' = IF mode = "gone" THEN <<>> ELSE Append(requests, Request(kind))
    /\ UNCHANGED <<state, mode>>

-----------------------------------------------------------------------------
(* The end of a call.                                                       *)

\* Mutant: what a call delivered is counted into the next one.
ReturnsCounting == call' = "none" /\ expect' = "nothing" /\ ctx' = "none" /\ UNCHANGED <<calls, items>>

Returns == call' = "none" /\ expect' = "nothing" /\ items' = 0 /\ ctx' = "none" /\ UNCHANGED calls

SocketClosed  == mode' = "gone" /\ requests' = <<>> /\ owed' = <<>> /\ wire' = <<>>

\* Mutant: a channel outlives the call that failed on it.
ChannelKept == UNCHANGED <<state, session, mode, requests, owed, wire>>

\* spend, or kill: the socket is closed, and only a Conn may dial another.
Retired ==
    /\ IF call \in SyncCommands
       THEN session' = "dead" /\ UNCHANGED state
       ELSE state' = "spent" /\ UNCHANGED session
    /\ SocketClosed

Fails == Retired /\ Returns /\ UNCHANGED <<answer, truth>>

\* A call that has read all it expects: a query's socket is closed, a transport
\* is kept, and sync: hands the socket to a SyncConn.
Succeeds ==
    /\ answer' = [call |-> calls, items |-> items]
    /\ state' = CASE call \in Queries      -> "spent"
                  [] call = "transport"    -> "transport"
                  [] call = "sync"         -> "handedOff"
                  [] call \in SyncCommands -> state
    /\ session' = IF call = "sync" THEN "alive" ELSE session
    /\ IF call \in Queries THEN SocketClosed
       ELSE wire' = Tail(wire) /\ UNCHANGED <<mode, requests, owed>>
    /\ Returns
    /\ UNCHANGED truth

-----------------------------------------------------------------------------
(* Reading a reply.                                                         *)

\* Mutant: the reading of a listing stops at the word DONE.
AfterDoneNothing == "nothing"

\* DONE is a whole zeroed record behind a listing, and ends a file by itself.
AfterDone == IF call = "list" THEN "zeros" ELSE "nothing"

\* A status, or the ID of a sync reply, and its argument.
AfterHeader(is) ==
    CASE call \in Queries /\ is = "OKAY"  -> "payload"
      [] call \in Switches /\ is = "OKAY" -> "nothing"
      [] call = "stat" /\ is = "STAT"     -> "body"
      [] call = "list" /\ is = "DNT2"     -> "entry"
      [] call = "recv" /\ is = "DATA"     -> "chunk"
      [] call \in {"list", "recv"} /\ is = "DONE" -> AfterDone
      [] is = "FAIL"                      -> "message"
      [] OTHER                            -> "failure"

\* Bytes are read for what they are expected to be; only some of them can show
\* that they are not.
After(is) ==
    CASE expect = "header"                             -> AfterHeader(is)
      [] expect = "entry" /\ is # "junk"               -> "header"
      [] expect = "chunk"                              -> "header"
      [] expect \in {"payload", "body"} /\ is # "junk" -> "nothing"
      [] expect = "zeros"                              -> "nothing"
      [] OTHER                                         -> "failure"

\* armDeadline refuses a context that is over before it touches the socket.
Hears(next) == ~Idle /\ ctx # "cancelled" /\ wire # <<>> /\ After(Head(wire)) = next

\* The callback takes an entry, the writer a chunk.
ReadOn ==
    /\ \E next \in {"header", "payload", "body", "entry", "chunk", "zeros", "message"} :
         Hears(next) /\ expect' = next
    /\ wire' = Tail(wire)
    /\ items' = IF expect \in {"entry", "chunk"} THEN items + 1 ELSE items
    /\ UNCHANGED <<state, session, calls, call, ctx, answer, mode, requests, owed, truth>>

ReadLast == Hears("nothing") /\ Succeeds

\* A FAIL with its message, or what no reply to this request begins with.
ReadFails == Hears("failure") /\ Fails

\* The callback stops the listing, or the writer fails, with the rest undrained.
ConsumerStops == expect \in {"entry", "chunk"} /\ Hears("header") /\ Fails

\* Mutant: the socket has a deadline only if the context has.
ArmedByCaller == ctx = "deadline"

\* deadlineFor: there is a deadline whatever the context.
Armed == ctx \in {"none", "deadline"}

\* No answer in time, an end of file, or a context that is over.
CallBreaks ==
    /\ ~Idle
    /\ ctx = "cancelled" \/ (wire = <<>> /\ Armed)
    /\ Fails

\* sendPath refuses a path that holds a NUL; the session is killed although nothing
\* was sent on it.
PathRefused ==
    /\ session = "alive" /\ Idle /\ calls < MaxCalls
    /\ calls' = calls + 1
    /\ session' = "dead"
    /\ SocketClosed
    /\ UNCHANGED <<state, call, expect, items, ctx, answer, truth>>

Cancel ==
    /\ ~Idle /\ ctx # "cancelled"
    /\ ctx' = "cancelled"
    /\ UNCHANGED <<state, session, calls, call, expect, items, answer, server>>

\* A Conn that was handed over has no socket to close.
CloseConn ==
    /\ Idle /\ state # "closed"
    /\ state' = "closed"
    /\ IF state = "handedOff" THEN UNCHANGED <<mode, requests, owed, wire>> ELSE SocketClosed
    /\ UNCHANGED <<session, calls, call, expect, items, ctx, answer, truth>>

CloseSession ==
    /\ Idle /\ session = "alive"
    /\ session' = "dead"
    /\ SocketClosed
    /\ UNCHANGED <<state, calls, call, expect, items, ctx, answer, truth>>

-----------------------------------------------------------------------------
Reads  == ReadOn \/ ReadLast \/ ReadFails \/ ConsumerStops \/ CallBreaks
Begin  == \/ \E kind \in Queries \cup Switches : HostCall(kind)
          \/ \E kind \in SyncCommands : SyncCall(kind)
          \/ PathRefused \/ CloseConn \/ CloseSession
Server == ServerAnswers \/ ServerSends \/ ServerGone

Next == Begin \/ Reads \/ Cancel \/ Server

Spec == Init /\ [][Next]_vars

\* The client reads what there is; the server owes nothing, not even an end.
FairSpec == Spec /\ WF_vars(Reads)

-----------------------------------------------------------------------------
Parts == {"OKAY", "FAIL", "payload", "message", "STAT", "body", "DNT2", "entry",
          "DATA", "chunk", "DONE", "zeros", "junk"}

TypeOK ==
    /\ state \in {"fresh", "spent", "transport", "handedOff", "closed"}
    /\ session \in {"none", "alive", "dead"}
    /\ session = "alive" => state \in {"handedOff", "closed"}
    /\ calls \in 0..MaxCalls /\ call \in Kinds \cup {"none"}
    /\ expect \in {"nothing", "header", "payload", "body", "entry", "chunk", "zeros", "message"}
    /\ (call = "none") = (expect = "nothing")
    /\ items \in 0..MaxItems /\ ctx \in {"none", "deadline", "cancelled"}
    /\ answer \in [call : 0..MaxCalls, items : 0..MaxItems]
    /\ mode \in DOMAIN Served
    /\ requests \in Seq([call : 1..MaxCalls, kind : Kinds])
    /\ owed \in Seq(Parts) /\ wire \in Seq(Parts)
    /\ truth \in [call : 0..MaxCalls, items : 0..MaxItems, good : BOOLEAN]

\* What a call returns without an error is what the server said in answer to that
\* very call, whole: never the late answer to an earlier one, never a listing or
\* a file cut short (query, statCommand, List, Recv, and kill and spend).
AnswerIsTruth ==
    answer.call # 0 /\ answer.call = calls =>
        truth = [call |-> calls, items |-> answer.items, good |-> TRUE]

\* A channel that may be used again is empty: nobody owes anything on it, and
\* nothing is in flight, so that the next bytes answer the next command (the read
\* behind DONE, the FAIL bodies, ErrSyncSessionDead).
ChannelInStep ==
    Idle /\ (session = "alive" \/ state \in {"fresh", "transport"}) =>
        requests = <<>> /\ owed = <<>> /\ wire = <<>>

\* The client's idea of what its socket is for is the server's: no host service is
\* sent into a device transport, no sync command to the host (prepare, spend, Sync).
AskedInPlace ==
    \A i \in 1..Len(requests) :
        /\ mode = "transport" => requests[i].kind = "sync"
        /\ mode = "sync" => requests[i].kind \in SyncCommands
        /\ mode = "host" => requests[i].kind \notin SyncCommands

\* Every call returns, even from a server that never answers and with a context
\* that never ends (deadlineFor).
CallEnds == ~Idle ~> Idle
=============================================================================
