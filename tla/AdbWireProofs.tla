---------------------------- MODULE AdbWireProofs -----------------------------
(* Theorems about AdbWire: a reply is never taken for the answer to another      *)
(* request, for any number of calls and any length of a reply.                  *)
EXTENDS AdbWire, SequenceTheorems, TLAPS

-----------------------------------------------------------------------------
(* The grammar of replies, as the client reads them.                            *)

\* What is expected behind a part that is what it was expected to be; nothing
\* comes behind junk and behind the message of a FAIL.
Then(x) ==
    CASE x \in {"OKAY", "FAIL", "STAT", "DNT2", "DATA", "DONE"} -> AfterHeader(x)
      [] x \in {"entry", "chunk"}                               -> "header"
      [] OTHER                                                  -> "nothing"

\* What a server sends where a part is expected.
Heads ==
    {"FAIL", "junk"} \cup
        CASE call \in Queries \cup Switches -> {"OKAY"}
          [] call = "stat" -> {"STAT"}
          [] call = "list" -> {"DNT2", "DONE"}
          [] call = "recv" -> {"DATA", "DONE"}
          [] OTHER         -> {}

Allowed(next) ==
    CASE next = "header"  -> Heads
      [] next \in {"payload", "body", "entry", "chunk"} -> {next, "junk"}
      [] next \in {"zeros", "message"} -> {next}
      [] OTHER -> {}

\* The parts that end a reply well.
GoodEnd(x) == Then(x) = "nothing" /\ x \notin {"junk", "message"}

Chain(s) ==
    /\ s # <<>> => s[1] \in Allowed(expect)
    /\ \A i \in 1..Len(s) - 1 : s[i + 1] \in Allowed(Then(s[i]))

-----------------------------------------------------------------------------
(* The inductive invariant.                                                     *)

WireTypes ==
    /\ calls \in Nat /\ items \in Nat
    /\ call \in Kinds \cup {"none"}
    /\ answer \in [call : Nat, items : Nat]
    /\ owed \in Seq(Parts) /\ wire \in Seq(Parts)
    /\ truth \in [call : Nat, items : Nat, good : BOOLEAN]
    /\ mode \in {"host", "transport", "sync", "gone"}

\* What the client holds, and what for.
Holding ==
    /\ session = "alive" => state \in {"handedOff", "closed"}
    /\ state \in {"fresh", "spent", "transport"} => session = "none"
    /\ call \in Queries \cup {"transport"} => state = "fresh"
    /\ call = "sync" => state \in {"fresh", "transport"}
    /\ call \in SyncCommands => session = "alive"
    /\ expect \in
         IF Idle THEN {"nothing"}
         ELSE {"header", "message"} \cup
                CASE call \in Queries -> {"payload"} [] call = "stat" -> {"body"}
                  [] call = "list" -> {"entry", "zeros"} [] call = "recv" -> {"chunk"}
                  [] OTHER -> {}

\* What the server takes its socket for.
InMode ==
    /\ Idle /\ state = "fresh" => mode \in {"host", "gone"}
    /\ Idle /\ state = "transport" => mode \in {"transport", "gone"}
    /\ session = "alive" => mode \in {"sync", "gone"}
    /\ call \in Queries \cup {"transport"} /\ requests # <<>> => mode \in {"host", "gone"}
    /\ call = "sync" /\ requests # <<>> => mode \in {"host", "transport", "gone"}

\* All of the reply that is still to be read.
Rest == wire \o owed

\* How much of a reply that ends well is left.
Left ==
    CASE call = "list" -> Len(Rest) + 2 * items = 2 * truth.items + (IF expect = "header" THEN 2 ELSE 1)
      [] call = "recv" -> Len(Rest) + 2 * items = 2 * truth.items + (IF expect = "header" THEN 1 ELSE 0)
      [] OTHER -> items = truth.items

Whole ==
    Rest # <<>> /\ GoodEnd(Rest[Len(Rest)]) =>
        /\ truth.call = calls /\ truth.good
        /\ Left
        /\ call \in Switches => mode \in {call, "gone"}

\* Between calls the channel is empty.  In a call it holds the one request, or what
\* is left of the one reply.
Channel ==
    /\ Idle => requests = <<>> /\ wire = <<>> /\ owed = <<>> /\ items = 0
    /\ requests # <<>> =>
        /\ requests = <<[call |-> calls, kind |-> call]>>
        /\ wire = <<>> /\ owed = <<>> /\ expect = "header" /\ items = 0
    /\ ~Idle /\ requests = <<>> => Chain(Rest) /\ Whole

Answered ==
    /\ answer.call <= calls
    /\ ~Idle => answer.call < calls
    /\ AnswerIsTruth

WireInv == WireTypes /\ Holding /\ InMode /\ Channel /\ Answered

-----------------------------------------------------------------------------
(* What is left of a reply, and a part read off it.                             *)

\* What is still to be read is a sequence of parts.
LEMMA RestIsSeq ==
    ASSUME WireTypes
    PROVE  Rest \in Seq(Parts) /\ Len(Rest) \in Nat
<1>1. Rest \in Seq(Parts)
  BY ConcatProperties DEF WireTypes, Rest
<1>2. QED
  BY <1>1, LenProperties

\* What is still to be read after one part has been.
LEMMA RestRead ==
    ASSUME WireTypes, wire # <<>>
    PROVE  LET rest == Tail(wire) \o owed
           IN  /\ Rest # <<>> /\ Rest[1] = Head(wire)
               /\ Tail(wire) \in Seq(Parts)
               /\ rest \in Seq(Parts)
               /\ Len(rest) = Len(Rest) - 1
               /\ \A i \in 1..Len(Rest) - 1 : rest[i] = Rest[i + 1]
<1>1. /\ Tail(wire) \in Seq(Parts)
      /\ Len(Tail(wire)) = Len(wire) - 1
      /\ \A i \in 1..Len(wire) - 1 : Tail(wire)[i] = wire[i + 1]
  BY HeadTailProperties DEF WireTypes
<1>2. Len(wire) \in Nat \ {0} /\ Len(owed) \in Nat
  BY EmptySeq, LenProperties DEF WireTypes
<1>3. /\ Rest \in Seq(Parts)
      /\ Len(Rest) = Len(wire) + Len(owed)
      /\ \A i \in 1..Len(wire) + Len(owed) : Rest[i] = IF i <= Len(wire) THEN wire[i] ELSE owed[i - Len(wire)]
  BY ConcatProperties DEF WireTypes, Rest
<1> DEFINE rest == Tail(wire) \o owed
<1>4. /\ rest \in Seq(Parts)
      /\ Len(rest) = Len(wire) - 1 + Len(owed)
      /\ \A i \in 1..Len(wire) - 1 + Len(owed) :
            rest[i] = IF i <= Len(wire) - 1 THEN Tail(wire)[i] ELSE owed[i - (Len(wire) - 1)]
  <2>1. owed \in Seq(Parts)
    BY DEF WireTypes
  <2>2. QED
    BY <1>1, <2>1, ConcatProperties
<1>5. Rest # <<>>
  BY <1>2, <1>3, EmptySeq
<1>6. Rest[1] = Head(wire)
  BY <1>2, <1>3
<1>7. ASSUME NEW i \in 1..Len(Rest) - 1
      PROVE  rest[i] = Rest[i + 1]
  <2>1. i \in 1..Len(wire) - 1 + Len(owed) /\ i + 1 \in 1..Len(wire) + Len(owed)
    BY <1>2, <1>3
  <2>2. CASE i <= Len(wire) - 1
    <3>1. rest[i] = Tail(wire)[i] /\ Rest[i + 1] = wire[i + 1]
      BY <1>2, <1>3, <1>4, <2>1, <2>2
    <3>2. QED
      BY <1>1, <1>2, <2>1, <2>2, <3>1
  <2>3. CASE ~(i <= Len(wire) - 1)
    BY <1>2, <1>3, <1>4, <2>1, <2>3
  <2>4. QED
    BY <2>2, <2>3
<1>8. QED
  BY <1>1, <1>2, <1>3, <1>4, <1>5, <1>6, <1>7

\* What the client makes of a part that came in its place.
LEMMA PartRead ==
    ASSUME Holding, ~Idle, WireTypes, NEW x \in Allowed(expect)
    PROVE  /\ x \notin {"junk", "message"} => After(x) = Then(x)
           /\ x = "junk" => After(x) \in {"failure", "header"} /\ Then(x) = "nothing"
           /\ x = "message" => After(x) = "failure" /\ Then(x) = "nothing"
<1> USE DEF Holding, WireTypes, Idle, Allowed, Heads, After, AfterHeader, AfterDone, Then,
            Kinds, Queries, Switches, SyncCommands
<1>1. CASE expect = "header"
  BY <1>1
<1>2. CASE expect \in {"payload", "body"}
  BY <1>2
<1>3. CASE expect \in {"entry", "chunk"}
  BY <1>3
<1>4. CASE expect \in {"zeros", "message"}
  BY <1>4
<1>5. QED
  BY <1>1, <1>2, <1>3, <1>4

-----------------------------------------------------------------------------
(* The replies a server begins are chains.                                      *)

\* Items one behind the other: header and body by turns.
LEMMA RepeatIs ==
    ASSUME NEW head \in Parts, NEW body \in Parts, NEW n \in Nat
    PROVE  /\ Repeat(head, body, n) \in Seq(Parts)
           /\ Len(Repeat(head, body, n)) = 2 * n
           /\ \A i \in 1..2 * n : Repeat(head, body, n)[i] = IF i % 2 = 1 THEN head ELSE body
  BY DEF Repeat

\* n units of two parts, and two more behind them.
LEMMA RepeatAndTwo ==
    ASSUME NEW head \in Parts, NEW body \in Parts, NEW x \in Parts, NEW y \in Parts, NEW n \in Nat
    PROVE  LET s == Repeat(head, body, n) \o <<x, y>>
           IN  /\ s \in Seq(Parts) /\ Len(s) = 2 * n + 2
               /\ s[2 * n + 1] = x /\ s[2 * n + 2] = y
               /\ \A i \in 1..2 * n : s[i] = IF i % 2 = 1 THEN head ELSE body
<1> DEFINE r == Repeat(head, body, n)
           t == <<x, y>>
<1>1. t \in Seq(Parts) /\ Len(t) = 2 /\ t[1] = x /\ t[2] = y
  OBVIOUS
<1>2. r \in Seq(Parts) /\ Len(r) = 2 * n /\ \A i \in 1..2 * n : r[i] = IF i % 2 = 1 THEN head ELSE body
  <2> HIDE DEF r, t
  <2>1. /\ Repeat(head, body, n) \in Seq(Parts) /\ Len(Repeat(head, body, n)) = 2 * n
        /\ \A i \in 1..2 * n : Repeat(head, body, n)[i] = IF i % 2 = 1 THEN head ELSE body
    BY DEF Repeat
  <2>2. r = Repeat(head, body, n)
    BY DEF r
  <2>3. QED
    BY <2>1, <2>2
<1> HIDE DEF r, t
<1>3. /\ r \o t \in Seq(Parts) /\ Len(r \o t) = 2 * n + 2
      /\ \A i \in 1..2 * n + 2 : (r \o t)[i] = IF i <= 2 * n THEN r[i] ELSE t[i - 2 * n]
  <2>1. /\ r \o t \in Seq(Parts) /\ Len(r \o t) = Len(r) + Len(t)
        /\ \A i \in 1..Len(r) + Len(t) : (r \o t)[i] = IF i <= Len(r) THEN r[i] ELSE t[i - Len(r)]
    <3>1. r \in Seq(Parts) /\ t \in Seq(Parts)
      BY <1>1, <1>2
    <3>2. QED
      BY <3>1, ConcatProperties
  <2>2. QED
    BY <1>1, <1>2, <2>1
<1>4. (r \o t)[2 * n + 1] = x /\ (r \o t)[2 * n + 2] = y
  BY <1>1, <1>3
<1>5. \A i \in 1..2 * n : (r \o t)[i] = IF i % 2 = 1 THEN head ELSE body
  BY <1>2, <1>3
<1>6. QED
  BY <1>3, <1>4, <1>5 DEF r, t

\* The same with a last part behind them.
LEMMA RepeatAndOne ==
    ASSUME NEW head \in Parts, NEW body \in Parts, NEW x \in Parts, NEW n \in Nat
    PROVE  LET s == Repeat(head, body, n) \o <<x>>
           IN  /\ s \in Seq(Parts) /\ Len(s) = 2 * n + 1
               /\ s[2 * n + 1] = x
               /\ \A i \in 1..2 * n : s[i] = IF i % 2 = 1 THEN head ELSE body
<1> DEFINE r == Repeat(head, body, n)
           t == <<x>>
<1>1. t \in Seq(Parts) /\ Len(t) = 1 /\ t[1] = x
  OBVIOUS
<1>2. r \in Seq(Parts) /\ Len(r) = 2 * n /\ \A i \in 1..2 * n : r[i] = IF i % 2 = 1 THEN head ELSE body
  BY RepeatIs
<1> HIDE DEF r, t
<1>3. /\ r \o t \in Seq(Parts) /\ Len(r \o t) = 2 * n + 1
      /\ \A i \in 1..2 * n + 1 : (r \o t)[i] = IF i <= 2 * n THEN r[i] ELSE t[i - 2 * n]
  <2>1. /\ r \o t \in Seq(Parts) /\ Len(r \o t) = Len(r) + Len(t)
        /\ \A i \in 1..Len(r) + Len(t) : (r \o t)[i] = IF i <= Len(r) THEN r[i] ELSE t[i - Len(r)]
    <3>1. r \in Seq(Parts) /\ t \in Seq(Parts)
      BY <1>1, <1>2
    <3>2. QED
      BY <3>1, ConcatProperties
  <2>2. QED
    BY <1>1, <1>2, <2>1
<1>4. (r \o t)[2 * n + 1] = x
  BY <1>1, <1>3
<1>5. \A i \in 1..2 * n : (r \o t)[i] = IF i % 2 = 1 THEN head ELSE body
  BY <1>2, <1>3
<1>6. QED
  BY <1>3, <1>4, <1>5 DEF r, t

\* What the places of headers and bodies come down to.
LEMMA Parity ==
    ASSUME NEW i \in Nat
    PROVE  /\ i % 2 = 1 => (i + 1) % 2 # 1
           /\ i % 2 # 1 => (i + 1) % 2 = 1
           /\ (2 * i) % 2 # 1
  OBVIOUS

\* What comes behind each part, in a reply to this call.
LEMMA PartsFollow ==
    ASSUME call \in Kinds
    PROVE  /\ {"FAIL", "junk"} \subseteq Allowed("header")
           /\ Allowed(Then("FAIL")) = {"message"}
           /\ call \in Queries => "OKAY" \in Allowed("header") /\ "payload" \in Allowed(Then("OKAY"))
           /\ call \in Switches => "OKAY" \in Allowed("header")
           /\ call = "stat" => "STAT" \in Allowed("header") /\ "body" \in Allowed(Then("STAT"))
           /\ call \in {"list", "recv"} =>
                /\ "DONE" \in Allowed("header")
                /\ Then("entry") = "header" /\ Then("chunk") = "header"
           /\ call = "list" => /\ "DNT2" \in Allowed("header") /\ "entry" \in Allowed(Then("DNT2"))
                               /\ Allowed(Then("DONE")) = {"zeros"}
           /\ call = "recv" => "DATA" \in Allowed("header") /\ "chunk" \in Allowed(Then("DATA"))
  BY DEF Allowed, Heads, Then, AfterHeader, AfterDone, Kinds, Queries, Switches, SyncCommands

\* The head and the body of each unit of a listing or a file.
Unit == IF call = "list" THEN <<"DNT2", "entry">> ELSE <<"DATA", "chunk">>

\* A listing or a file, item by item, is a chain the reader can follow.
LEMMA UnitsFollow ==
    ASSUME call \in {"list", "recv"}, NEW n \in Nat, NEW s \in Seq(Parts),
           Len(s) >= 2 * n + 1,
           \A i \in 1..2 * n : s[i] = IF i % 2 = 1 THEN Unit[1] ELSE Unit[2],
           s[2 * n + 1] \in {"DONE", "FAIL"}
    PROVE  /\ s[1] \in Allowed("header")
           /\ \A i \in 1..2 * n : s[i + 1] \in Allowed(Then(s[i]))
<1>1. /\ {Unit[1], "DONE", "FAIL"} \subseteq Allowed("header")
      /\ Unit[2] \in Allowed(Then(Unit[1]))
      /\ Then(Unit[2]) = "header"
  BY PartsFollow DEF Unit, Kinds, SyncCommands
<1>2. s[1] \in Allowed("header")
  <2>1. CASE n = 0
    BY <1>1, <2>1
  <2>2. CASE n # 0
    <3>1. 1 \in 1..2 * n /\ 1 % 2 = 1
      BY <2>2
    <3>2. QED
      BY <1>1, <3>1
  <2>3. QED
    BY <2>1, <2>2
<1>3. ASSUME NEW i \in 1..2 * n
      PROVE  s[i + 1] \in Allowed(Then(s[i]))
  <2>1. CASE i % 2 = 1
    <3>1. i # 2 * n
      BY <2>1, Parity
    <3>2. i + 1 \in 1..2 * n /\ (i + 1) % 2 # 1
      BY <2>1, <3>1, Parity
    <3>3. s[i] = Unit[1] /\ s[i + 1] = Unit[2]
      BY <2>1, <3>2
    <3>4. QED
      BY <1>1, <3>3
  <2>2. CASE i % 2 # 1 /\ i # 2 * n
    <3>1. i + 1 \in 1..2 * n /\ (i + 1) % 2 = 1
      BY <2>2, Parity
    <3>2. s[i] = Unit[2] /\ s[i + 1] = Unit[1]
      BY <2>2, <3>1
    <3>3. QED
      BY <1>1, <3>2
  <2>3. CASE i = 2 * n
    <3>1. s[i] = Unit[2]
      BY <2>3, Parity
    <3>2. QED
      BY <1>1, <2>3, <3>1
  <2>4. QED
    BY <2>1, <2>2, <2>3
<1>4. QED
  BY <1>2, <1>3

IsReply(s) == s \in Seq(Parts) /\ s # <<>> /\ Chain(s)

\* A header and the part that belongs behind it are a reply.
LEMMA TwoPartsReply ==
    ASSUME expect = "header", NEW x \in Parts, NEW y \in Parts,
           x \in Allowed("header"), y \in Allowed(Then(x))
    PROVE  IsReply(<<x, y>>) /\ Len(<<x, y>>) = 2
  BY DEF IsReply, Chain

\* A header that nothing follows is a reply.
LEMMA OnePartReply ==
    ASSUME expect = "header", NEW x \in Parts, x \in Allowed("header")
    PROVE  IsReply(<<x>>) /\ Len(<<x>>) = 1
  BY DEF IsReply, Chain

\* What a server in order sends is a reply to the call.
LEMMA GoodIsReply ==
    ASSUME call \in Kinds, expect = "header", NEW n \in Nat
    PROVE  LET s == GoodReply(call, n)
           IN  /\ IsReply(s)
               /\ \A i \in 1..Len(s) : s[i] # "message"
               /\ call = "list" => Len(s) = 2 * n + 2
               /\ call = "recv" => Len(s) = 2 * n + 1
<1> DEFINE s == GoodReply(call, n)
<1>1. CASE call \in Queries \cup {"stat"}
  <2>1. PICK x \in Parts, y \in Parts : s = <<x, y>> /\ x \in Allowed("header") /\ y \in Allowed(Then(x))
                                      /\ x # "message" /\ y # "message"
    BY <1>1, PartsFollow DEF GoodReply, Queries, Switches, SyncCommands, Parts
  <2>2. call \notin {"list", "recv"}
    BY <1>1 DEF Queries
  <2>3. QED
    BY <2>1, <2>2, TwoPartsReply
<1>2. CASE call \in Switches
  <2>1. s = <<"OKAY">> /\ "OKAY" \in Allowed("header") /\ "OKAY" \in Parts
    BY <1>2, PartsFollow DEF GoodReply, Queries, Switches, Parts
  <2>2. call \notin {"list", "recv"}
    BY <1>2 DEF Switches
  <2>3. QED
    BY <2>1, <2>2, OnePartReply
<1>3. CASE call = "list"
  <2>1. s = Repeat("DNT2", "entry", n) \o <<"DONE", "zeros">>
    BY <1>3 DEF GoodReply, Queries, Switches
  <2>2. /\ s \in Seq(Parts) /\ Len(s) = 2 * n + 2
        /\ s[2 * n + 1] = "DONE" /\ s[2 * n + 2] = "zeros"
        /\ \A i \in 1..2 * n : s[i] = IF i % 2 = 1 THEN "DNT2" ELSE "entry"
    <3>1. {"DNT2", "entry", "DONE", "zeros"} \subseteq Parts
      BY DEF Parts
    <3>2. QED
      BY <2>1, <3>1, RepeatAndTwo
  <2> HIDE DEF s
  <2>3. Unit[1] = "DNT2" /\ Unit[2] = "entry"
    BY <1>3 DEF Unit
  <2>4. s[1] \in Allowed("header") /\ \A i \in 1..2 * n : s[i + 1] \in Allowed(Then(s[i]))
    BY <1>3, <2>2, <2>3, UnitsFollow
  <2>5. s[2 * n + 2] \in Allowed(Then(s[2 * n + 1]))
    BY <1>3, <2>2, PartsFollow
  <2>6. Chain(s) /\ s # <<>>
    BY <2>2, <2>4, <2>5 DEF Chain
  <2>7. \A i \in 1..Len(s) : s[i] # "message"
    BY <2>2
  <2>8. QED
    BY <1>3, <2>2, <2>6, <2>7 DEF IsReply, s
<1>4. CASE call = "recv"
  <2>1. s = Repeat("DATA", "chunk", n) \o <<"DONE">>
    BY <1>4 DEF GoodReply, Queries, Switches
  <2>2. /\ s \in Seq(Parts) /\ Len(s) = 2 * n + 1
        /\ s[2 * n + 1] = "DONE"
        /\ \A i \in 1..2 * n : s[i] = IF i % 2 = 1 THEN "DATA" ELSE "chunk"
    <3>1. {"DATA", "chunk", "DONE"} \subseteq Parts
      BY DEF Parts
    <3>2. QED
      BY <2>1, <3>1, RepeatAndOne
  <2> HIDE DEF s
  <2>3. Unit[1] = "DATA" /\ Unit[2] = "chunk"
    BY <1>4 DEF Unit
  <2>4. s[1] \in Allowed("header") /\ \A i \in 1..2 * n : s[i + 1] \in Allowed(Then(s[i]))
    BY <1>4, <2>2, <2>3, UnitsFollow
  <2>5. Chain(s) /\ s # <<>>
    BY <2>2, <2>4 DEF Chain
  <2>6. \A i \in 1..Len(s) : s[i] # "message"
    BY <2>2
  <2>7. QED
    BY <1>4, <2>2, <2>5, <2>6 DEF IsReply, s
<1>5. QED
  BY <1>1, <1>2, <1>3, <1>4 DEF Kinds, SyncCommands

\* A refusal, after any number of items, is a reply that ends in its message.
LEMMA RefusalIsReply ==
    ASSUME call \in Kinds, expect = "header", NEW n \in Nat
    PROVE  LET s == Refusal(call, n) IN IsReply(s) /\ s[Len(s)] = "message"
<1> DEFINE s == Refusal(call, n)
<1>1. CASE call \notin {"list", "recv"}
  <2>1. s = <<"FAIL", "message">> /\ "FAIL" \in Parts /\ "message" \in Parts
    BY <1>1 DEF Refusal, Parts
  <2>2. "FAIL" \in Allowed("header") /\ "message" \in Allowed(Then("FAIL"))
    BY PartsFollow
  <2>3. IsReply(<<"FAIL", "message">>) /\ Len(<<"FAIL", "message">>) = 2
    BY <2>1, <2>2, TwoPartsReply
  <2>4. QED
    BY <2>1, <2>3
<1>2. CASE call \in {"list", "recv"}
  <2>1. s = Repeat(Unit[1], Unit[2], n) \o <<"FAIL", "message">>
    BY <1>2 DEF Refusal, Unit
  <2>2. Unit[1] \in Parts /\ Unit[2] \in Parts /\ "FAIL" \in Parts /\ "message" \in Parts
    BY DEF Unit, Parts
  <2>3. /\ s \in Seq(Parts) /\ Len(s) = 2 * n + 2
        /\ s[2 * n + 1] = "FAIL" /\ s[2 * n + 2] = "message"
        /\ \A i \in 1..2 * n : s[i] = IF i % 2 = 1 THEN Unit[1] ELSE Unit[2]
    <3>1. PICK a \in Parts, b \in Parts : a = Unit[1] /\ b = Unit[2]
      BY <2>2
    <3>2. s = Repeat(a, b, n) \o <<"FAIL", "message">>
      BY <2>1, <3>1
    <3> HIDE DEF s
    <3>3. "FAIL" \in Parts /\ "message" \in Parts
      BY <2>2
    <3>4. /\ s \in Seq(Parts) /\ Len(s) = 2 * n + 2
          /\ s[2 * n + 1] = "FAIL" /\ s[2 * n + 2] = "message"
          /\ \A i \in 1..2 * n : s[i] = IF i % 2 = 1 THEN a ELSE b
      BY <3>2, <3>3, RepeatAndTwo, SMTT(30)
    <3>5. QED
      BY <3>1, <3>4
  <2> HIDE DEF s
  <2>4. s[1] \in Allowed("header") /\ \A i \in 1..2 * n : s[i + 1] \in Allowed(Then(s[i]))
    BY <1>2, <2>3, UnitsFollow
  <2>5. s[2 * n + 2] \in Allowed(Then(s[2 * n + 1]))
    BY <2>3, PartsFollow
  <2>6. Chain(s) /\ s # <<>>
    BY <2>3, <2>4, <2>5 DEF Chain
  <2>7. QED
    BY <2>3, <2>6 DEF IsReply, s
<1>3. QED
  BY <1>1, <1>2

\* Where anything but the zeros behind DONE and the message of a FAIL may come,
\* junk may.
LEMMA JunkAnywhere ==
    ASSUME NEW next, NEW x \in Allowed(next), x \notin {"zeros", "message"}
    PROVE  "junk" \in Allowed(next)
  BY DEF Allowed, Heads

\* A reply cut off by bytes that are none is one as far as those.
LEMMA NonsenseIsReply ==
    ASSUME call \in Kinds, expect = "header", NEW n \in Nat, NEW s \in Nonsense(call, n)
    PROVE  IsReply(s) /\ s[Len(s)] = "junk"
<1> DEFINE good == GoodReply(call, n)
<1>1. good \in Seq(Parts) /\ good # <<>> /\ Chain(good) /\ \A i \in 1..Len(good) : good[i] # "message"
  BY GoodIsReply DEF IsReply
<1>2. PICK k \in 1..Len(good) : good[k] # "zeros" /\ s = SubSeq(good, 1, k - 1) \o <<"junk">>
  BY DEF Nonsense
<1> HIDE DEF good
<1>3. Len(good) \in Nat /\ k \in Nat
  BY <1>1, <1>2, LenProperties
<1>4. /\ SubSeq(good, 1, k - 1) \in Seq(Parts)
      /\ Len(SubSeq(good, 1, k - 1)) = k - 1
      /\ \A i \in 1..k - 1 : SubSeq(good, 1, k - 1)[i] = good[i]
  BY <1>1, <1>2, <1>3, SubSeqProperties, ElementOfSeq
<1>5. s \in Seq(Parts) /\ Len(s) = k /\ s[k] = "junk" /\ \A i \in 1..k - 1 : s[i] = good[i]
  <2>1. <<"junk">> \in Seq(Parts) /\ Len(<<"junk">>) = 1 /\ <<"junk">>[1] = "junk"
    BY DEF Parts
  <2>2. QED
    BY <1>2, <1>3, <1>4, <2>1, ConcatProperties
<1>6. s[1] \in Allowed("header")
  <2>1. good[1] \in Allowed("header")
    BY <1>1 DEF Chain
  <2>2. QED
    BY <1>1, <1>2, <1>3, <1>5, <2>1, JunkAnywhere
<1>7. ASSUME NEW i \in 1..k - 1
      PROVE  s[i + 1] \in Allowed(Then(s[i]))
  <2>1. good[i + 1] \in Allowed(Then(good[i])) /\ s[i] = good[i]
    BY <1>1, <1>2, <1>3, <1>5 DEF Chain
  <2>2. CASE i + 1 # k
    BY <1>3, <1>5, <2>1, <2>2
  <2>3. CASE i + 1 = k
    BY <1>1, <1>2, <1>5, <2>1, <2>3, JunkAnywhere
  <2>4. QED
    BY <2>2, <2>3
<1>8. QED
  BY <1>3, <1>5, <1>6, <1>7 DEF IsReply, Chain

-----------------------------------------------------------------------------
(* The steps.                                                                   *)

\* A connection starts in the invariant.
LEMMA InitWire == Init => WireInv
  BY EmptySeq DEF Init, WireInv, WireTypes, Holding, InMode, Channel, Answered, AnswerIsTruth, Idle,
     Kinds, Queries, Switches, SyncCommands

\* A request to the host server keeps the invariant.
LEMMA HostCallStep ==
    ASSUME WireInv, NEW kind \in Queries \cup Switches, HostCall(kind)
    PROVE  WireInv'
<1> USE DEF HostCall, Begins, MaySend, WireInv
<1>1. Idle /\ ~Idle' /\ call' = kind /\ kind \in Kinds /\ calls' = calls + 1
  BY DEF Idle, Kinds, Queries, Switches
<1>2. WireTypes'
  BY <1>1 DEF WireTypes, Channel
<1>3. Holding'
  BY <1>1 DEF Holding, Idle, Queries, Switches, SyncCommands
<1>4. InMode'
  BY <1>1 DEF InMode, Holding, Idle, Queries, Switches
<1>5. Channel'
  <2>1. wire' = <<>> /\ owed' = <<>> /\ items' = 0 /\ expect' = "header"
    BY <1>1 DEF Channel
  <2>2. requests' = <<>> \/ requests' = <<[call |-> calls', kind |-> call']>>
    BY <1>1 DEF Channel, Request
  <2>3. Rest' = <<>>
    BY <2>1 DEF Rest
  <2>4. Chain(Rest)' /\ Whole'
    BY <2>3 DEF Chain, Whole
  <2>5. QED
    BY <1>1, <2>1, <2>2, <2>4 DEF Channel
<1>6. Answered'
  BY <1>1 DEF Answered, AnswerIsTruth, WireTypes
<1>7. QED
  BY <1>2, <1>3, <1>4, <1>5, <1>6

\* A command of the sync protocol keeps it.
LEMMA SyncCallStep ==
    ASSUME WireInv, NEW kind \in SyncCommands, SyncCall(kind)
    PROVE  WireInv'
<1> USE DEF SyncCall, Begins, WireInv
<1>1. Idle /\ ~Idle' /\ call' = kind /\ kind \in Kinds /\ calls' = calls + 1
  BY DEF Idle, Kinds, SyncCommands
<1>2. WireTypes'
  BY <1>1 DEF WireTypes, Channel
<1>3. Holding'
  BY <1>1 DEF Holding, Idle, Queries, Switches, SyncCommands
<1>4. InMode'
  BY <1>1 DEF InMode, Holding, Idle, Queries, Switches, SyncCommands
<1>5. Channel'
  <2>1. wire' = <<>> /\ owed' = <<>> /\ items' = 0 /\ expect' = "header"
    BY <1>1 DEF Channel
  <2>2. requests' = <<>> \/ requests' = <<[call |-> calls', kind |-> call']>>
    BY <1>1 DEF Channel, Request
  <2>3. Rest' = <<>>
    BY <2>1 DEF Rest
  <2>4. Chain(Rest)' /\ Whole'
    BY <2>3 DEF Chain, Whole
  <2>5. QED
    BY <1>1, <2>1, <2>2, <2>4 DEF Channel
<1>6. Answered'
  BY <1>1 DEF Answered, AnswerIsTruth, WireTypes
<1>7. QED
  BY <1>2, <1>3, <1>4, <1>5, <1>6

\* Closing, between calls, or a path refused.
LEMMA CloseStep ==
    ASSUME WireInv, PathRefused \/ CloseConn \/ CloseSession
    PROVE  WireInv'
<1> USE DEF PathRefused, CloseConn, CloseSession, SocketClosed, WireInv
<1>1. Idle /\ Idle' /\ UNCHANGED <<call, items, expect, answer, truth>>
  BY DEF Idle
<1>2. WireTypes'
  <2>1. calls' \in Nat
    BY DEF WireTypes
  <2>2. (mode' = "gone" /\ owed' = <<>> /\ wire' = <<>>) \/ UNCHANGED <<mode, owed, wire>>
    OBVIOUS
  <2>3. QED
    BY <1>1, <2>1, <2>2, EmptySeq DEF WireTypes
<1>3. Holding'
  BY <1>1 DEF Holding, Idle, Queries, Switches, SyncCommands
<1>4. InMode'
  BY <1>1 DEF InMode, Holding, Idle, Queries, Switches
<1>5. Channel'
  BY <1>1 DEF Channel
<1>6. Answered'
  BY <1>1 DEF Answered, AnswerIsTruth, WireTypes
<1>7. QED
  BY <1>2, <1>3, <1>4, <1>5, <1>6

\* A call that fails keeps it, and closes the socket where it must.
LEMMA FailsStep ==
    ASSUME WireInv, ~Idle, Fails
    PROVE  WireInv'
<1> USE DEF Fails, Retired, Returns, SocketClosed, WireInv
<1>1. Idle' /\ UNCHANGED <<calls, answer, truth>>
  BY DEF Idle
<1>2. WireTypes'
  BY EmptySeq DEF WireTypes, Kinds
<1>3. Holding'
  BY <1>1 DEF Holding, WireTypes, Idle, Kinds, Queries, Switches, SyncCommands
<1>4. InMode'
  BY DEF InMode, Queries, Switches
<1>5. Channel'
  BY <1>1 DEF Channel
<1>6. Answered'
  BY <1>1 DEF Answered, AnswerIsTruth, WireTypes
<1>7. QED
  BY <1>2, <1>3, <1>4, <1>5, <1>6

\* The grammar is that of the call, and a call keeps its kind.
LEMMA ChainKept ==
    ASSUME NEW s, UNCHANGED <<call, expect>>, Chain(s), Rest' = s
    PROVE  Chain(Rest)'
<1>1. Heads' = Heads
  BY DEF Heads
<1>2. ASSUME NEW i \in 1..Len(s) - 1, s[i + 1] \in Allowed(Then(s[i]))
      PROVE  s[i + 1] \in Allowed(Then(s[i]))'
  <2>1. Then(s[i])' = Then(s[i])
    BY DEF Then, AfterHeader, AfterDone
  <2>2. QED
    BY <1>1, <1>2, <2>1 DEF Allowed
<1>3. s # <<>> => s[1] \in Allowed(expect)'
  BY <1>1 DEF Chain, Allowed
<1>4. QED
  BY <1>2, <1>3 DEF Chain

\* What a good end is depends on the call alone.
LEMMA GoodEndKept ==
    ASSUME NEW x, UNCHANGED call
    PROVE  GoodEnd(x)' <=> GoodEnd(x)
  BY DEF GoodEnd, Then, AfterHeader, AfterDone

\* The server's choice of an answer keeps the invariant.
LEMMA ServerAnswersStep ==
    ASSUME WireInv, ServerAnswers
    PROVE  WireInv'
<1> USE DEF ServerAnswers, Answers, WireInv
<1>1. /\ requests = <<[call |-> calls, kind |-> call]>> /\ requests' = <<>>
      /\ wire = <<>> /\ expect = "header" /\ items = 0 /\ ~Idle
      /\ call \in Kinds
      /\ UNCHANGED <<state, session, calls, call, expect, items, ctx, answer, wire>>
  <2>1. requests # <<>> /\ requests = <<[call |-> calls, kind |-> call]>> /\ requests' = Tail(requests)
    BY DEF Channel
  <2>2. requests' = <<>>
    BY <2>1
  <2>3. ~Idle /\ wire = <<>> /\ expect = "header" /\ items = 0
    BY <2>1 DEF Channel
  <2>4. QED
    BY <2>1, <2>2, <2>3 DEF client, WireTypes, Idle
<1>2. PICK n \in Counts(call) :
         \/ /\ call \in Served[mode]
            /\ owed' = GoodReply(call, n)
            /\ truth' = [call |-> calls, items |-> n, good |-> TRUE]
            /\ mode' = CASE call \in Queries -> "gone" [] call \in Switches -> call [] OTHER -> mode
         \/ /\ owed' = Refusal(call, n)
            /\ truth' = [call |-> calls, items |-> n, good |-> FALSE]
            /\ mode' = "gone"
         \/ /\ owed' \in Nonsense(call, n)
            /\ truth' = [call |-> calls, items |-> n, good |-> FALSE]
            /\ mode' = mode
  BY <1>1
<1>3. n \in Nat /\ (call \notin {"list", "recv"} => n = 0)
  BY BoundsAreNat DEF Counts
<1>4. PICK reply : reply = owed'
  OBVIOUS
<1>5. /\ IsReply(reply)
      /\ \/ /\ truth' = [call |-> calls, items |-> n, good |-> TRUE]
            /\ call = "list" => Len(reply) = 2 * n + 2
            /\ call = "recv" => Len(reply) = 2 * n + 1
            /\ call \in Switches => mode' = call
         \/ /\ truth' = [call |-> calls, items |-> n, good |-> FALSE]
            /\ ~GoodEnd(reply[Len(reply)])
  <2>1. CASE owed' = GoodReply(call, n) /\ call \in Served[mode]
    BY <1>1, <1>2, <1>3, <1>4, <2>1, GoodIsReply, RefusalIsReply, NonsenseIsReply DEF GoodEnd, Queries, Switches
  <2>2. CASE ~(owed' = GoodReply(call, n) /\ call \in Served[mode])
    BY <1>1, <1>2, <1>3, <1>4, <2>2, RefusalIsReply, NonsenseIsReply DEF GoodEnd
  <2>3. QED
    BY <2>1, <2>2
<1>6. Rest' = reply /\ reply \in Seq(Parts)
  <2>1. reply \in Seq(Parts)
    BY <1>5 DEF IsReply
  <2>2. QED
    BY <1>1, <1>4, <2>1, ConcatEmptySeq DEF Rest
<1>7. WireTypes'
  <2>1. owed' \in Seq(Parts) /\ wire' \in Seq(Parts)
    BY <1>1, <1>4, <1>6 DEF WireTypes
  <2>2. truth' \in [call : Nat, items : Nat, good : BOOLEAN]
    <3>1. PICK g \in BOOLEAN : truth' = [call |-> calls, items |-> n, good |-> g]
      BY <1>5
    <3>2. QED
      BY <1>3, <3>1 DEF WireTypes
  <2>3. mode' \in {"host", "transport", "sync", "gone"}
    BY <1>2 DEF WireTypes, Switches
  <2>4. QED
    BY <1>1, <2>1, <2>2, <2>3 DEF WireTypes
<1>8. Holding'
  BY <1>1 DEF Holding, Idle
<1>9. InMode'
  BY <1>1, <1>2 DEF InMode, Holding, Idle, Kinds, Queries, Switches, SyncCommands
<1>10. Chain(Rest)'
  BY <1>1, <1>5, <1>6, ChainKept DEF IsReply
<1>11. Whole'
  <2> SUFFICES ASSUME GoodEnd(reply[Len(reply)])'
               PROVE  truth'.call = calls' /\ truth'.good /\ Left' /\ (call' \in Switches => mode' \in {call', "gone"})
    BY <1>6 DEF Whole
  <2>1. GoodEnd(reply[Len(reply)])
    BY <1>1, GoodEndKept
  <2>2. truth' = [call |-> calls, items |-> n, good |-> TRUE]
    BY <1>5, <2>1
  <2>3. truth'.call = calls /\ truth'.items = n /\ truth'.good = TRUE
    BY <2>2
  <2>4. Left'
    BY <1>1, <1>3, <1>5, <1>6, <2>1, <2>3 DEF Left
  <2>5. QED
    BY <1>1, <1>5, <2>1, <2>3, <2>4
<1>12. Channel'
  BY <1>1, <1>10, <1>11 DEF Channel, Idle
<1>13. Answered'
  BY <1>1 DEF Answered, AnswerIsTruth, WireTypes, Idle
<1>14. QED
  BY <1>7, <1>8, <1>9, <1>12, <1>13

\* A part that the server sends is still to be read.
LEMMA SentIsToBeRead ==
    ASSUME WireTypes, ServerSends
    PROVE  Rest' = Rest /\ WireTypes'
<1> USE DEF ServerSends, client
<1>1. /\ Head(owed) \in Parts /\ Tail(owed) \in Seq(Parts)
      /\ owed = <<Head(owed)>> \o Tail(owed)
  <2>1. owed \in Seq(Parts) /\ owed # <<>>
    BY DEF WireTypes
  <2>2. owed = SubSeq(owed, 1, Len(owed)) /\ 1 \in 1..Len(owed) /\ Len(owed) \in 1..Len(owed)
    BY <2>1, SubSeqFull, EmptySeq
  <2>3. SubSeq(owed, 1, Len(owed)) = <<owed[1]>> \o SubSeq(owed, 1 + 1, Len(owed))
    BY <2>1, <2>2, SubSeqRecursiveFirst
  <2>4. Tail(owed) = SubSeq(owed, 2, Len(owed))
    BY <2>1, TailIsSubSeq
  <2>5. QED
    BY <2>1, <2>2, <2>3, <2>4, HeadTailProperties
<1>2. wire' \in Seq(Parts) /\ wire' = wire \o <<Head(owed)>>
  BY <1>1, AppendProperties, AppendIsConcat DEF WireTypes
<1>3. Rest' = Rest
  <2>1. wire \in Seq(Parts) /\ <<Head(owed)>> \in Seq(Parts)
    BY <1>1 DEF WireTypes
  <2>2. (wire \o <<Head(owed)>>) \o Tail(owed) = wire \o (<<Head(owed)>> \o Tail(owed))
    BY <1>1, <2>1, ConcatAssociative
  <2>3. QED
    BY <1>1, <1>2, <2>2 DEF Rest
<1>4. WireTypes'
  BY <1>1, <1>2 DEF WireTypes
<1>5. QED
  BY <1>3, <1>4

\* A part that the server sends keeps it.
LEMMA ServerSendsStep ==
    ASSUME WireInv, ServerSends
    PROVE  WireInv'
<1> USE DEF ServerSends, client, WireInv
<1>1. requests = <<>> /\ ~Idle
  BY DEF Channel
<1>2. Rest' = Rest /\ WireTypes'
  BY SentIsToBeRead
<1>3. Holding' /\ InMode' /\ Answered'
  BY DEF Holding, InMode, Answered, AnswerIsTruth, Idle
<1>4. Channel'
  <2>1. PICK s : s = Rest
    OBVIOUS
  <2>2. Chain(Rest)'
    BY <1>1, <1>2, <2>1, ChainKept DEF Channel
  <2>3. Whole'
    BY <1>1, <1>2 DEF Channel, Whole, GoodEnd, Then, AfterHeader, AfterDone, Left
  <2>4. QED
    BY <1>1, <2>2, <2>3 DEF Channel, Idle
<1>5. QED
  BY <1>2, <1>3, <1>4

\* What is on its way when the server goes is a part of a reply that ends well
\* only if it is all of it.
LEMMA ServerGoneStep ==
    ASSUME WireInv, ServerGone
    PROVE  WireInv'
<1> USE DEF ServerGone, client, WireInv
<1>1. WireTypes'
  BY EmptySeq DEF WireTypes
<1>2. Holding' /\ InMode' /\ Answered'
  BY DEF Holding, InMode, Answered, AnswerIsTruth, Idle
<1>3. Rest' = wire /\ wire \in Seq(Parts)
  BY ConcatEmptySeq DEF Rest, WireTypes
<1>4. CASE Idle \/ requests # <<>>
  <2>1. wire = <<>>
    BY <1>4 DEF Channel
  <2>2. QED
    BY <1>1, <1>2, <1>3, <1>4, <2>1 DEF Channel, Idle, Chain, Whole
<1>5. CASE ~Idle /\ requests = <<>>
  <2>1. Chain(Rest) /\ Whole
    BY <1>5 DEF Channel
  <2>2. /\ Len(wire) \in Nat /\ Len(owed) \in Nat
        /\ Rest \in Seq(Parts) /\ Len(Rest) = Len(wire) + Len(owed)
        /\ \A i \in 1..Len(wire) : Rest[i] = wire[i]
    <3>1. /\ Rest \in Seq(Parts) /\ Len(Rest) = Len(wire) + Len(owed)
          /\ \A i \in 1..Len(wire) + Len(owed) : Rest[i] = IF i <= Len(wire) THEN wire[i] ELSE owed[i - Len(wire)]
      BY ConcatProperties DEF WireTypes, Rest
    <3>2. Len(wire) \in Nat /\ Len(owed) \in Nat
      BY LenProperties DEF WireTypes
    <3>3. QED
      BY <3>1, <3>2
  <2>3. Chain(wire)
    BY <1>3, <2>1, <2>2, EmptySeq DEF Chain
  <2>4. PICK s : s = wire
    OBVIOUS
  <2>5. Chain(Rest)'
    BY <1>3, <2>3, <2>4, ChainKept
  <2>6. Whole'
    <3> SUFFICES ASSUME wire # <<>>, GoodEnd(wire[Len(wire)])'
                 PROVE  /\ truth'.call = calls' /\ truth'.good /\ Left'
                        /\ call' \in Switches => mode' \in {call', "gone"}
      BY <1>3 DEF Whole
    <3>1. Then(wire[Len(wire)]) = "nothing" /\ GoodEnd(wire[Len(wire)])
      BY <2>4, GoodEndKept DEF GoodEnd, Then, AfterHeader, AfterDone
    <3>2. Len(wire) \in 1..Len(wire)
      BY <1>3, EmptySeq
    <3>3. owed = <<>>
      <4>1. Allowed(Then(Rest[Len(wire)])) = {}
        BY <2>2, <3>1, <3>2 DEF Allowed
      <4>2. Len(wire) \notin 1..Len(Rest) - 1
        BY <2>1, <2>2, <3>2, <4>1 DEF Chain
      <4>3. Len(owed) = 0
        BY <2>2, <3>2, <4>2
      <4>4. QED
        BY <4>3, EmptySeq DEF WireTypes
    <3>4. Rest = wire
      BY <1>3, <3>3, ConcatEmptySeq DEF Rest
    <3>5. truth.call = calls /\ truth.good /\ Left
      BY <2>1, <3>1, <3>4 DEF Whole
    <3>6. QED
      BY <1>3, <3>4, <3>5 DEF Left
  <2>7. QED
    BY <1>1, <1>2, <1>5, <2>5, <2>6 DEF Channel, Idle
<1>6. QED
  BY <1>4, <1>5

\* A part is read, and the call goes on.
LEMMA ReadOnStep ==
    ASSUME WireInv, ReadOn
    PROVE  WireInv'
<1> USE DEF ReadOn, WireInv
<1> DEFINE x == Head(wire)
<1>1. /\ ~Idle /\ wire # <<>> /\ requests = <<>>
      /\ expect' = After(x) /\ expect' \in {"header", "payload", "body", "entry", "chunk", "zeros", "message"}
      /\ UNCHANGED <<state, session, calls, call, ctx, answer, mode, requests, owed, truth>>
  BY DEF Hears, Channel
<1>2. /\ Rest # <<>> /\ Rest[1] = x /\ Tail(wire) \in Seq(Parts)
      /\ Rest' \in Seq(Parts) /\ Len(Rest') = Len(Rest) - 1
      /\ \A i \in 1..Len(Rest) - 1 : Rest'[i] = Rest[i + 1]
  BY <1>1, RestRead DEF Rest
<1>3. Chain(Rest) /\ Whole /\ Len(Rest) \in Nat \ {0}
  BY <1>1, <1>2, RestIsSeq, EmptySeq DEF Channel
<1>4. x \in Allowed(expect)
  BY <1>2, <1>3 DEF Chain
<1>5. x # "message" /\ (x = "junk" => Then(x) = "nothing") /\ (x # "junk" => expect' = Then(x))
  BY <1>1, <1>4, PartRead
<1> HIDE DEF x
<1>6. expect \in {"header", "entry", "chunk"}
  BY <1>1, <1>4 DEF After, Allowed, x
<1>7. /\ expect = "entry" => call = "list" /\ expect' = "header"
      /\ expect = "chunk" => call = "recv" /\ expect' = "header"
      /\ expect = "header" => expect' # "header"
      /\ expect' \in {"header", "message"} \cup
           CASE call \in Queries -> {"payload"} [] call = "stat" -> {"body"}
             [] call = "list" -> {"entry", "zeros"} [] call = "recv" -> {"chunk"}
             [] OTHER -> {}
  <2>1. CASE expect = "header"
    BY <1>1, <2>1 DEF After, AfterHeader, AfterDone, x, Queries, Switches
  <2>2. CASE expect \in {"entry", "chunk"}
    BY <1>1, <2>2 DEF After, Holding, Idle, Queries
  <2>3. QED
    BY <1>6, <2>1, <2>2
<1>8. items' = IF expect \in {"entry", "chunk"} THEN items + 1 ELSE items
  OBVIOUS
<1>9. WireTypes'
  BY <1>1, <1>2, <1>8 DEF WireTypes
<1>10. Holding'
  BY <1>1, <1>7 DEF Holding, Idle
<1>11. InMode' /\ Answered'
  BY <1>1 DEF InMode, Answered, AnswerIsTruth, Idle
<1>12. Chain(Rest)'
  <2>1. ASSUME NEW i \in 1..Len(Rest') - 1
        PROVE  Rest'[i + 1] \in Allowed(Then(Rest'[i]))
    <3>1. i + 1 \in 1..Len(Rest) - 1 /\ i \in 1..Len(Rest) - 1
      BY <1>2, <1>3
    <3>2. Rest[(i + 1) + 1] \in Allowed(Then(Rest[i + 1]))
      BY <1>3, <3>1 DEF Chain
    <3>3. QED
      BY <1>2, <3>1, <3>2
  <2>2. ASSUME Rest' # <<>>
        PROVE  Rest'[1] \in Allowed(expect')
    <3>1. 1 \in 1..Len(Rest) - 1
      BY <1>2, <1>3, <2>2, EmptySeq
    <3>2. Rest[1 + 1] \in Allowed(Then(x)) /\ Rest'[1] = Rest[1 + 1]
      BY <1>2, <1>3, <3>1 DEF Chain
    <3>3. x # "junk"
      BY <1>5, <3>2 DEF Allowed
    <3>4. QED
      BY <1>5, <3>2, <3>3
  <2>3. PICK s, e : s = Rest' /\ e = expect'
    OBVIOUS
  <2>4. Heads' = Heads
    BY <1>1 DEF Heads
  <2>5. s # <<>> => s[1] \in Allowed(expect)'
    BY <2>2, <2>3, <2>4 DEF Allowed
  <2>6. ASSUME NEW i \in 1..Len(s) - 1
        PROVE  s[i + 1] \in Allowed(Then(s[i]))'
    <3>1. Then(s[i])' = Then(s[i])
      BY <1>1 DEF Then, AfterHeader, AfterDone
    <3>2. s[i + 1] \in Allowed(Then(s[i]))
      BY <2>1, <2>3
    <3>3. QED
      BY <2>4, <3>1, <3>2 DEF Allowed
  <2>7. QED
    BY <2>3, <2>5, <2>6 DEF Chain
<1>13. Whole'
  <2> SUFFICES ASSUME Rest' # <<>>, GoodEnd(Rest[Len(Rest)])'
               PROVE  /\ truth'.call = calls' /\ truth'.good /\ Left'
                      /\ call' \in Switches => mode' \in {call', "gone"}
    BY DEF Whole
  <2>1. PICK y : y = Rest'[Len(Rest')]
    OBVIOUS
  <2>2. Len(Rest) - 1 \in 1..Len(Rest) - 1
    BY <1>2, <1>3, EmptySeq
  <2>3. y = Rest[Len(Rest)]
    <3>1. Rest'[Len(Rest) - 1] = Rest[(Len(Rest) - 1) + 1]
      BY <1>2, <2>2
    <3>2. (Len(Rest) - 1) + 1 = Len(Rest)
      BY <1>3
    <3>3. QED
      BY <1>2, <2>1, <3>1, <3>2
  <2>4. GoodEnd(y)
    <3>1. GoodEnd(y)'
      BY <2>1 DEF GoodEnd, Then, AfterHeader, AfterDone
    <3>2. QED
      BY <1>1, <3>1, GoodEndKept
  <2>5. /\ truth.call = calls /\ truth.good /\ Left
        /\ call \in Switches => mode \in {call, "gone"}
    BY <1>2, <1>3, <2>3, <2>4 DEF Whole
  <2>6. Left'
    <3> DEFINE m == Len(Rest)
               k == truth.items
    <3>1. m \in Nat /\ k \in Nat /\ items \in Nat /\ Len(Rest') = m - 1 /\ truth'.items = k /\ call' = call
      BY <1>1, <1>2, <1>3 DEF WireTypes
    <3> HIDE DEF m, k
    <3>2. CASE call = "list"
      <4>1. m + 2 * items = 2 * k + (IF expect = "header" THEN 2 ELSE 1)
        BY <2>5, <3>2 DEF Left, m, k
      <4>2. m - 1 + 2 * items' = 2 * k + (IF expect' = "header" THEN 2 ELSE 1)
        BY <1>6, <1>7, <1>8, <3>1, <3>2, <4>1, SMTT(30)
      <4>3. QED
        BY <3>1, <3>2, <4>2 DEF Left
    <3>3. CASE call = "recv"
      <4>1. m + 2 * items = 2 * k + (IF expect = "header" THEN 1 ELSE 0)
        BY <2>5, <3>3 DEF Left, m, k
      <4>2. m - 1 + 2 * items' = 2 * k + (IF expect' = "header" THEN 1 ELSE 0)
        BY <1>6, <1>7, <1>8, <3>1, <3>3, <4>1, SMTT(30)
      <4>3. QED
        BY <3>1, <3>3, <4>2 DEF Left
    <3>4. CASE call \notin {"list", "recv"}
      <4>1. items' = items /\ items = k
        BY <1>7, <1>8, <2>5, <3>4 DEF Left, k
      <4>2. QED
        BY <3>1, <3>4, <4>1 DEF Left
    <3>5. QED
      BY <3>2, <3>3, <3>4
  <2>7. QED
    BY <1>1, <2>5, <2>6
<1>14. Channel'
  BY <1>1, <1>12, <1>13 DEF Channel, Idle
<1>15. QED
  BY <1>9, <1>10, <1>11, <1>14

\* The last part is read: it was the last of a reply that ends well, to this call.
LEMMA ReadLastStep ==
    ASSUME WireInv, ReadLast
    PROVE  WireInv'
<1> USE DEF ReadLast, Succeeds, Returns, SocketClosed, WireInv
<1> DEFINE x == Head(wire)
<1>1. ~Idle /\ wire # <<>> /\ requests = <<>> /\ After(x) = "nothing" /\ call \in Kinds
  BY DEF Hears, Channel, WireTypes, Idle
<1>2. /\ Rest # <<>> /\ Rest[1] = x /\ Tail(wire) \in Seq(Parts)
      /\ Len(Tail(wire) \o owed) = Len(Rest) - 1
  BY <1>1, RestRead
<1>3. Chain(Rest) /\ Whole /\ Len(Rest) \in Nat \ {0}
  BY <1>1, <1>2, RestIsSeq, EmptySeq DEF Channel
<1>4. x \in Allowed(expect)
  BY <1>2, <1>3 DEF Chain
<1>5. GoodEnd(x) /\ Then(x) = "nothing"
  BY <1>1, <1>4, PartRead DEF GoodEnd
<1>6. Len(Rest) = 1
  <2>1. 1 \notin 1..Len(Rest) - 1
    BY <1>2, <1>3, <1>5 DEF Chain, Allowed
  <2>2. ASSUME NEW m \in Nat \ {0}, 1 \notin 1..m - 1
        PROVE  m = 1
    BY <2>2
  <2>3. QED
    BY <1>3, <2>1, <2>2
<1>7. Tail(wire) = <<>> /\ owed = <<>>
  <2>1. Tail(wire) \o owed = <<>>
    <3>1. Tail(wire) \o owed \in Seq(Parts)
      BY <1>2, ConcatProperties DEF WireTypes
    <3>2. QED
      BY <1>2, <1>6, <3>1, EmptySeq
  <2>2. owed \in Seq(Parts)
    BY DEF WireTypes
  <2>3. QED
    BY <1>2, <2>1, <2>2, ConcatEqualIffEmpty
<1>8. /\ truth.call = calls /\ truth.good /\ Left
      /\ call \in Switches => mode \in {call, "gone"}
  BY <1>2, <1>3, <1>5, <1>6 DEF Whole
<1>9. truth.items = items
  <2>1. truth.items \in Nat /\ items \in Nat
    BY DEF WireTypes
  <2>2. QED
    BY <1>6, <1>8, <2>1 DEF Left
<1> HIDE DEF x
<1>10. truth = [call |-> calls, items |-> items, good |-> TRUE]
  BY <1>8, <1>9 DEF WireTypes
<1>11. Idle' /\ wire' = <<>> /\ owed' = <<>> /\ requests' = <<>> /\ items' = 0
  BY <1>1, <1>7 DEF Idle
<1>12. WireTypes'
  BY <1>1, <1>11, EmptySeq DEF WireTypes
<1>13. Holding'
  BY <1>1, <1>11 DEF Holding, Idle, Kinds, Queries, Switches, SyncCommands
<1>14. InMode'
  BY <1>1, <1>8, <1>11 DEF InMode, Holding, Idle, Kinds, Queries, Switches, SyncCommands
<1>15. Channel'
  BY <1>11 DEF Channel
<1>16. Answered'
  BY <1>10, <1>11 DEF Answered, AnswerIsTruth, WireTypes
<1>17. QED
  BY <1>12, <1>13, <1>14, <1>15, <1>16

\* What leaves the channel, the reply and the client alone.
LEMMA StutterStep ==
    ASSUME WireInv,
           UNCHANGED <<state, session, calls, call, expect, items, answer, mode, requests, owed, wire, truth>>
    PROVE  WireInv'
<1>1. PICK s : s = Rest
  OBVIOUS
<1>2. ~Idle /\ requests = <<>> => Chain(Rest)' /\ Whole'
  BY <1>1, ChainKept DEF WireInv, Channel, Rest, Whole, GoodEnd, Then, AfterHeader, AfterDone, Left
<1>3. Channel'
  BY <1>2 DEF WireInv, Channel, Idle
<1>4. QED
  BY <1>3 DEF WireInv, WireTypes, Holding, InMode, Answered, AnswerIsTruth, Idle

\* Every step keeps it.
LEMMA WireInvStep == WireInv /\ [Next]_vars => WireInv'
<1> SUFFICES ASSUME WireInv, [Next]_vars
             PROVE  WireInv'
  OBVIOUS
<1>1. CASE Begin
  BY <1>1, HostCallStep, SyncCallStep, CloseStep DEF Begin
<1>2. CASE ReadOn \/ ReadLast
  BY <1>2, ReadOnStep, ReadLastStep
<1>3. CASE ReadFails \/ ConsumerStops \/ CallBreaks
  BY <1>3, FailsStep DEF ReadFails, ConsumerStops, CallBreaks, Hears
<1>4. CASE Server
  BY <1>4, ServerAnswersStep, ServerSendsStep, ServerGoneStep DEF Server
<1>5. CASE Cancel \/ UNCHANGED vars
  BY <1>5, StutterStep DEF Cancel, vars, client, server
<1>6. QED
  BY <1>1, <1>2, <1>3, <1>4, <1>5 DEF Next, Reads

-----------------------------------------------------------------------------
\* What a call returns without an error is the whole answer to that very call
\* (query, statCommand, List, Recv), for any number of calls and entries.
THEOREM AnswersAreTrue == Spec => []AnswerIsTruth
<1>1. WireInv => AnswerIsTruth
  BY DEF WireInv, Answered
<1>2. QED
  BY <1>1, InitWire, WireInvStep, PTL DEF Spec

\* Nothing is in flight on a channel that may be used again (kill, spend, and the
\* reads behind DONE and FAIL).
THEOREM ChannelsAreInStep == Spec => []ChannelInStep
<1>1. WireInv => ChannelInStep
  BY DEF WireInv, Channel, ChannelInStep
<1>2. QED
  BY <1>1, InitWire, WireInvStep, PTL DEF Spec

\* No request is sent to a server that takes its socket for something else
\* (prepare, spend, Sync).
THEOREM RequestsAreInPlace == Spec => []AskedInPlace
<1>1. WireInv => AskedInPlace
  <2> SUFFICES ASSUME WireInv, NEW i \in 1..Len(requests)
               PROVE  /\ mode = "transport" => requests[i].kind = "sync"
                      /\ mode = "sync" => requests[i].kind \in SyncCommands
                      /\ mode = "host" => requests[i].kind \notin SyncCommands
    BY DEF AskedInPlace
  <2>1. requests # <<>>
    OBVIOUS
  <2>2. requests = <<[call |-> calls, kind |-> call]>> /\ ~Idle
    BY <2>1 DEF WireInv, Channel
  <2>3. requests[i].kind = call
    BY <2>2
  <2>4. call \in Kinds
    BY <2>2 DEF WireInv, WireTypes, Idle
  <2>5. QED
    BY <2>1, <2>3, <2>4 DEF WireInv, InMode, Holding, Kinds, Queries, Switches, SyncCommands
<1>2. QED
  BY <1>1, InitWire, WireInvStep, PTL DEF Spec

-----------------------------------------------------------------------------
(* The types.  That no more items are delivered than a reply may hold has to be  *)
(* known of what is still to be read, a reply that is cut short included.        *)

\* An entry or a chunk whose header has been read.
Pending == IF expect \in {"entry", "chunk"} THEN 1 ELSE 0

\* With so many parts read, each header in what is left has room for its item.
Room(s, read) == \A i \in 1..Len(s) : s[i] \in {"DNT2", "DATA"} => read + i + 1 <= 2 * MaxItems

BoundInv ==
    /\ state \in {"fresh", "spent", "transport", "handedOff", "closed"}
    /\ session \in {"none", "alive", "dead"} /\ ctx \in {"none", "deadline", "cancelled"}
    /\ calls <= MaxCalls /\ truth.call <= calls
    /\ items + Pending <= MaxItems /\ truth.items <= MaxItems /\ answer.items <= MaxItems
    /\ ~Idle /\ requests = <<>> /\ expect \in {"header", "entry", "chunk"} => Room(Rest, 2 * items + Pending)

\* A connection starts within the bounds.
LEMMA InitBound == Init => BoundInv
  BY BoundsAreNat DEF Init, BoundInv, Pending, Idle

\* A call that begins has read nothing, and nothing is there.
LEMMA BeginBound ==
    ASSUME WireInv, BoundInv, Begin
    PROVE  BoundInv'
<1> USE BoundsAreNat DEF BoundInv
<1>1. Idle /\ expect = "nothing" /\ items = 0 /\ wire = <<>> /\ owed = <<>> /\ calls \in Nat
  BY DEF Begin, HostCall, SyncCall, Begins, PathRefused, CloseConn, CloseSession, WireInv, WireTypes, Holding, Channel
<1>2. ASSUME \/ \E kind \in Queries \cup Switches : HostCall(kind)
             \/ \E kind \in SyncCommands : SyncCall(kind)
      PROVE  BoundInv'
  <2>1. /\ calls < MaxCalls /\ calls' = calls + 1 /\ expect' = "header" /\ items' = 0
        /\ ctx' \in {"none", "deadline"} /\ wire' = <<>> /\ owed' = <<>>
        /\ session' = session /\ answer' = answer /\ truth' = truth
    BY <1>1, <1>2 DEF HostCall, SyncCall, Begins
  <2>2. state' \in {"fresh", "spent", "transport", "handedOff", "closed"}
    BY <1>2 DEF HostCall, SyncCall
  <2>3. Room(Rest, 2 * items + Pending)'
    BY <2>1 DEF Room, Rest
  <2>4. truth.call \in Nat
    BY DEF WireInv, WireTypes
  <2>5. QED
    BY <1>1, <2>1, <2>2, <2>3, <2>4 DEF Pending
<1>3. ASSUME PathRefused \/ CloseConn \/ CloseSession
      PROVE  BoundInv'
  <2>1. /\ calls' \in {calls, calls + 1} /\ calls' <= MaxCalls /\ call' = call /\ expect' = expect /\ items' = items
        /\ ctx' = ctx /\ answer' = answer /\ truth' = truth
        /\ session' \in {session, "dead"} /\ state' \in {state, "closed"}
    BY <1>1, <1>3 DEF PathRefused, CloseConn, CloseSession
  <2>2. Idle' /\ truth.call \in Nat
    BY <1>1, <2>1 DEF Idle, WireInv, WireTypes
  <2>3. QED
    BY <1>1, <2>1, <2>2 DEF Pending
<1>4. QED
  BY <1>2, <1>3 DEF Begin

\* What a call that is over has delivered was within the bounds.
LEMMA EndBound ==
    ASSUME WireInv, BoundInv, Fails \/ ReadLast
    PROVE  BoundInv'
<1> USE BoundsAreNat DEF BoundInv
<1>1. /\ Idle' /\ expect' = "nothing" /\ items' = 0 /\ ctx' = "none" /\ calls' = calls /\ truth' = truth
      /\ answer' = answer \/ answer' = [call |-> calls, items |-> items]
  BY DEF Fails, ReadLast, Succeeds, Returns, Idle
<1>2. items \in Nat /\ items <= MaxItems
  BY DEF WireInv, WireTypes, Pending
<1>3. /\ state' \in {"fresh", "spent", "transport", "handedOff", "closed"}
      /\ session' \in {"none", "alive", "dead"}
  <2>1. CASE Fails
    BY <2>1 DEF Fails, Retired
  <2>2. CASE ReadLast
    BY <2>2 DEF ReadLast, Succeeds, WireInv, WireTypes, Idle, Hears, Kinds, Queries, Switches, SyncCommands
  <2>3. QED
    BY <2>1, <2>2
<1>4. QED
  BY <1>1, <1>2, <1>3 DEF Pending

\* A header announces an item there is room for, and an item takes the room of one.
LEMMA ReadOnBound ==
    ASSUME WireInv, BoundInv, ReadOn
    PROVE  BoundInv'
<1> USE BoundsAreNat DEF BoundInv
<1> DEFINE x == Head(wire)
<1>1. /\ ~Idle /\ wire # <<>> /\ requests = <<>> /\ expect' = After(x) /\ expect' # "failure"
      /\ UNCHANGED <<state, session, calls, call, ctx, answer, mode, requests, owed, truth>>
      /\ items' = IF expect \in {"entry", "chunk"} THEN items + 1 ELSE items
  BY DEF ReadOn, Hears, WireInv, Channel
<1>2. /\ Rest # <<>> /\ Rest[1] = x /\ Rest' \in Seq(Parts) /\ Len(Rest') = Len(Rest) - 1
      /\ \A i \in 1..Len(Rest) - 1 : Rest'[i] = Rest[i + 1]
  BY <1>1, RestRead DEF ReadOn, Rest, WireInv
<1>3. Len(Rest) \in Nat \ {0} /\ items \in Nat
  BY <1>2, RestIsSeq, EmptySeq DEF WireInv, WireTypes
<1> HIDE DEF x
<1>4. PICK m \in Nat \ {0}, read \in Nat, after \in Seq(Parts) :
        m = Len(Rest) /\ read = 2 * items + Pending /\ after = Rest'
  BY <1>2, <1>3 DEF Pending
<1>5. CASE expect \in {"entry", "chunk"}
  <2>1. expect' = "header" /\ items' = items + 1 /\ items + 1 <= MaxItems /\ read = 2 * items + 1
    BY <1>1, <1>4, <1>5 DEF After, Pending
  <2>2. Room(Rest, read)
    BY <1>1, <1>4, <1>5
  <2>3. ASSUME NEW i \in 1..m - 1, after[i] \in {"DNT2", "DATA"}
        PROVE  2 * (items + 1) + i + 1 <= 2 * MaxItems
    <3>1. i + 1 \in 1..m /\ Rest[i + 1] \in {"DNT2", "DATA"}
      BY <1>2, <1>4, <2>3
    <3>2. read + (i + 1) + 1 <= 2 * MaxItems
      BY <1>4, <2>2, <3>1 DEF Room
    <3>3. QED
      BY <1>3, <2>1, <3>2
  <2>4. Pending' = 0 /\ 2 * items' + Pending' = 2 * (items + 1)
    BY <1>3, <2>1 DEF Pending
  <2>5. Room(Rest, 2 * items + Pending)'
    BY <1>2, <1>4, <2>3, <2>4 DEF Room
  <2>6. QED
    BY <1>1, <1>3, <2>1, <2>4, <2>5
<1>6. CASE expect = "header" /\ expect' \in {"entry", "chunk"}
  <2>1. x \in {"DNT2", "DATA"}
    BY <1>1, <1>6 DEF After, AfterHeader, AfterDone, Queries, Switches
  <2>2. Room(Rest, read) /\ read = 2 * items /\ items' = items
    BY <1>1, <1>3, <1>4, <1>6 DEF Pending
  <2>3. items + 1 <= MaxItems
    <3>1. read + 1 + 1 <= 2 * MaxItems
      BY <1>2, <1>4, <2>1, <2>2 DEF Room
    <3>2. QED
      BY <1>3, <2>2, <3>1
  <2>4. ASSUME NEW i \in 1..m - 1, after[i] \in {"DNT2", "DATA"}
        PROVE  (2 * items + 1) + i + 1 <= 2 * MaxItems
    <3>1. i + 1 \in 1..m /\ Rest[i + 1] \in {"DNT2", "DATA"}
      BY <1>2, <1>4, <2>4
    <3>2. read + (i + 1) + 1 <= 2 * MaxItems
      BY <1>4, <2>2, <3>1 DEF Room
    <3>3. QED
      BY <1>3, <2>2, <3>2
  <2>5. Pending' = 1 /\ 2 * items' + Pending' = 2 * items + 1
    BY <1>3, <1>6, <2>2 DEF Pending
  <2>6. Room(Rest, 2 * items + Pending)'
    BY <1>2, <1>4, <2>4, <2>5 DEF Room
  <2>7. QED
    BY <1>1, <1>3, <2>2, <2>3, <2>5, <2>6
<1>7. CASE expect \notin {"entry", "chunk"} /\ expect' \notin {"entry", "chunk"}
  <2>1. expect' # "header"
    BY <1>1, <1>7 DEF After, AfterHeader, AfterDone
  <2>2. items' = items /\ Pending = 0 /\ Pending' = 0
    BY <1>1, <1>7 DEF Pending
  <2>3. QED
    BY <1>1, <1>3, <1>7, <2>1, <2>2
<1>8. expect \notin {"entry", "chunk"} /\ expect' \in {"entry", "chunk"} => expect = "header"
  BY <1>1 DEF After
<1>9. QED
  BY <1>5, <1>6, <1>7, <1>8

\* Items one behind the other, and no header of one behind them.
LEMMA UnitsHaveRoom ==
    ASSUME NEW n \in Nat, n <= MaxItems, NEW s \in Seq(Parts), NEW head, NEW body,
           body \notin {"DNT2", "DATA"},
           \A i \in 1..2 * n : s[i] = IF i % 2 = 1 THEN head ELSE body,
           \A i \in 1..Len(s) : i > 2 * n => s[i] \notin {"DNT2", "DATA"}
    PROVE  Room(s, 0)
<1> SUFFICES ASSUME NEW i \in 1..Len(s), s[i] \in {"DNT2", "DATA"}
             PROVE  i + 1 <= 2 * MaxItems
  BY DEF Room
<1>1. i \in 1..2 * n
  OBVIOUS
<1>2. i % 2 = 1
  BY <1>1
<1>3. i # 2 * n
  <2>1. (2 * n) % 2 # 1
    BY Parity
  <2>2. QED
    BY <1>2, <2>1
<1>4. i + 1 <= 2 * n
  BY <1>1, <1>3
<1>5. QED
  BY <1>1, <1>4, BoundsAreNat

\* Whatever a server answers, no header in it announces more items than there may be.
LEMMA ReplyHasRoom ==
    ASSUME call \in Kinds, expect = "header", NEW n \in Nat, n <= MaxItems,
           NEW s, s \in {GoodReply(call, n), Refusal(call, n)} \cup Nonsense(call, n)
    PROVE  Room(s, 0)
<1>1. ASSUME NEW r, r \in {GoodReply(call, n), Refusal(call, n)}
      PROVE  Room(r, 0)
  <2>1. r \in Seq(Parts)
    BY <1>1, GoodIsReply, RefusalIsReply DEF IsReply
  <2>2. CASE call \notin {"list", "recv"}
    <3>1. \/ r = <<"OKAY">>
          \/ \E x \in {"OKAY", "STAT", "FAIL"}, y \in {"payload", "body", "message"} : r = <<x, y>>
      BY <1>1, <2>2 DEF GoodReply, Refusal, Kinds, Queries, Switches, SyncCommands
    <3>2. \A i \in 1..Len(r) : r[i] \notin {"DNT2", "DATA"}
      BY <3>1
    <3>3. QED
      BY <3>2 DEF Room
  <2>3. CASE call \in {"list", "recv"}
    <3>1. PICK head \in Parts, body \in Parts :
            /\ <<head, body>> = Unit /\ body \notin {"DNT2", "DATA"}
      BY <2>3 DEF Unit, Parts
    <3>2. Repeat(Unit[1], Unit[2], n) = Repeat(head, body, n)
      BY <3>1
    <3>3. \/ \E x \in Parts \ {"DNT2", "DATA"}, y \in Parts \ {"DNT2", "DATA"} :
                r = Repeat(head, body, n) \o <<x, y>>
          \/ \E x \in Parts \ {"DNT2", "DATA"} : r = Repeat(head, body, n) \o <<x>>
      BY <1>1, <2>3, <3>1 DEF GoodReply, Refusal, Unit, Parts, Queries, Switches
    <3>4. /\ \A i \in 1..2 * n : r[i] = IF i % 2 = 1 THEN head ELSE body
          /\ \A i \in 1..Len(r) : i > 2 * n => r[i] \notin {"DNT2", "DATA"}
      <4>1. CASE \E x \in Parts \ {"DNT2", "DATA"}, y \in Parts \ {"DNT2", "DATA"} :
                   r = Repeat(head, body, n) \o <<x, y>>
        <5>1. PICK x \in Parts, y \in Parts :
                /\ x \notin {"DNT2", "DATA"} /\ y \notin {"DNT2", "DATA"}
                /\ r = Repeat(head, body, n) \o <<x, y>>
          BY <4>1
        <5>2. /\ Len(r) = 2 * n + 2 /\ r[2 * n + 1] = x /\ r[2 * n + 2] = y
              /\ \A i \in 1..2 * n : r[i] = IF i % 2 = 1 THEN head ELSE body
          <6> DEFINE t == Repeat(head, body, n) \o <<x, y>>
          <6>1. /\ Len(t) = 2 * n + 2 /\ t[2 * n + 1] = x /\ t[2 * n + 2] = y
                /\ \A i \in 1..2 * n : t[i] = IF i % 2 = 1 THEN head ELSE body
            BY RepeatAndTwo
          <6>2. t = r
            BY <5>1
          <6> HIDE DEF t
          <6>3. QED
            BY <6>1, <6>2
        <5>3. \A i \in 1..Len(r) : i > 2 * n => i \in {2 * n + 1, 2 * n + 2}
          BY <5>2
        <5>4. QED
          BY <5>1, <5>2, <5>3
      <4>2. CASE \E x \in Parts \ {"DNT2", "DATA"} : r = Repeat(head, body, n) \o <<x>>
        <5>1. PICK x \in Parts : x \notin {"DNT2", "DATA"} /\ r = Repeat(head, body, n) \o <<x>>
          BY <4>2
        <5>2. /\ Len(r) = 2 * n + 1 /\ r[2 * n + 1] = x
              /\ \A i \in 1..2 * n : r[i] = IF i % 2 = 1 THEN head ELSE body
          <6> DEFINE t == Repeat(head, body, n) \o <<x>>
          <6>1. /\ Len(t) = 2 * n + 1 /\ t[2 * n + 1] = x
                /\ \A i \in 1..2 * n : t[i] = IF i % 2 = 1 THEN head ELSE body
            BY RepeatAndOne
          <6>2. t = r
            BY <5>1
          <6> HIDE DEF t
          <6>3. QED
            BY <6>1, <6>2
        <5>3. \A i \in 1..Len(r) : i > 2 * n => i = 2 * n + 1
          BY <5>2
        <5>4. QED
          BY <5>1, <5>2, <5>3
      <4>3. QED
        BY <3>3, <4>1, <4>2
    <3>5. QED
      BY <2>1, <3>1, <3>4, UnitsHaveRoom
  <2>4. QED
    BY <2>2, <2>3
<1>2. ASSUME s \in Nonsense(call, n)
      PROVE  Room(s, 0)
  <2> DEFINE good == GoodReply(call, n)
  <2>1. good \in Seq(Parts) /\ Room(good, 0)
    BY <1>1, GoodIsReply DEF IsReply
  <2>2. PICK k \in 1..Len(good) : s = SubSeq(good, 1, k - 1) \o <<"junk">>
    BY <1>2 DEF Nonsense
  <2> HIDE DEF good
  <2>3. Len(good) \in Nat /\ k \in Nat
    BY <2>1, <2>2, LenProperties
  <2>4. /\ SubSeq(good, 1, k - 1) \in Seq(Parts)
        /\ Len(SubSeq(good, 1, k - 1)) = k - 1
        /\ \A i \in 1..k - 1 : SubSeq(good, 1, k - 1)[i] = good[i]
    BY <2>1, <2>2, <2>3, SubSeqProperties, ElementOfSeq
  <2>5. Len(s) = k /\ s[k] = "junk" /\ \A i \in 1..k - 1 : s[i] = good[i]
    <3>1. <<"junk">> \in Seq(Parts) /\ Len(<<"junk">>) = 1 /\ <<"junk">>[1] = "junk"
      BY DEF Parts
    <3>2. QED
      BY <2>2, <2>3, <2>4, <3>1, ConcatProperties
  <2>6. \A i \in 1..Len(s) : i = k \/ i \in 1..k - 1
    BY <2>3, <2>5
  <2>7. QED
    BY <2>1, <2>2, <2>3, <2>5, <2>6 DEF Room
<1>3. QED
  BY <1>1, <1>2

\* A reply that begins has room for its items; what is sent of it, or cut off, too.
LEMMA ServerBound ==
    ASSUME WireInv, BoundInv, Server
    PROVE  BoundInv'
<1> USE BoundsAreNat DEF BoundInv
<1>1. CASE ServerAnswers
  <2>1. PICK r, n : r = Head(requests) /\ n \in Counts(r.kind) /\
          \/ Answers(r, GoodReply(r.kind, n), TRUE, n)
          \/ Answers(r, Refusal(r.kind, n), FALSE, n)
          \/ \E reply \in Nonsense(r.kind, n) : Answers(r, reply, FALSE, n)
    BY <1>1 DEF ServerAnswers
  <2>2. /\ ~Idle /\ call \in Kinds /\ expect = "header" /\ items = 0 /\ calls \in Nat
        /\ requests = <<[call |-> calls, kind |-> call]>> /\ requests # <<>>
        /\ wire = <<>> /\ UNCHANGED <<client, wire>>
    BY <1>1 DEF ServerAnswers, WireInv, WireTypes, Channel, Idle
  <2>3. r = [call |-> calls, kind |-> call] /\ r.kind = call /\ r.call = calls
    BY <2>1, <2>2
  <2>4. n \in Nat /\ n <= MaxItems
    BY <2>1 DEF Counts
  <2>5. PICK g \in BOOLEAN, reply \in {GoodReply(call, n), Refusal(call, n)} \cup Nonsense(call, n) :
          owed' = reply /\ truth' = [call |-> calls, items |-> n, good |-> g]
    <3>1. /\ \/ owed' = GoodReply(call, n)
             \/ owed' = Refusal(call, n)
             \/ \E reply \in Nonsense(call, n) : owed' = reply
          /\ \E g \in BOOLEAN : truth' = [call |-> calls, items |-> n, good |-> g]
      BY <2>1, <2>3, Zenon DEF Answers
    <3>2. owed' \in {GoodReply(call, n), Refusal(call, n)} \cup Nonsense(call, n)
      BY <3>1, Zenon
    <3>3. QED
      BY <3>1, <3>2, Zenon
  <2>6. Room(reply, 0)
    BY <2>2, <2>4, ReplyHasRoom
  <2>7. Rest' = reply
    <3>1. reply \in Seq(Parts)
      BY <2>2, <2>4, GoodIsReply, RefusalIsReply, NonsenseIsReply DEF IsReply
    <3>2. QED
      BY <2>2, <2>5, <3>1, ConcatEmptySeq DEF Rest
  <2>8. Pending' = 0 /\ 2 * items' + Pending' = 0 /\ items' + Pending' <= MaxItems
    BY <2>2 DEF client, Pending
  <2>9. Room(Rest, 2 * items + Pending)'
    BY <2>6, <2>7, <2>8 DEF Room
  <2>10. truth'.call = calls /\ truth'.items = n
    BY <2>5
  <2>11. QED
    BY <2>2, <2>4, <2>8, <2>9, <2>10 DEF client
<1>2. CASE ServerSends
  <2>1. Rest' = Rest
    BY <1>2, SentIsToBeRead DEF WireInv
  <2>2. Pending' = Pending /\ (Idle' <=> Idle)
    BY <1>2 DEF ServerSends, client, Pending, Idle
  <2>3. Room(Rest, 2 * items + Pending) => Room(Rest, 2 * items + Pending)'
    BY <1>2, <2>1, <2>2 DEF ServerSends, client, Room
  <2>4. QED
    BY <1>2, <2>2, <2>3 DEF ServerSends, client
<1>3. CASE ServerGone
  <2>1. Rest' = wire /\ wire \in Seq(Parts)
    BY <1>3, ConcatEmptySeq DEF ServerGone, Rest, WireInv, WireTypes
  <2>2. Pending' = Pending /\ (Idle' <=> Idle)
    BY <1>3 DEF ServerGone, client, Pending, Idle
  <2>3. \A i \in 1..Len(wire) : i \in 1..Len(Rest) /\ Rest[i] = wire[i]
    <3>1. Len(wire) \in Nat /\ Len(owed) \in Nat
      BY LenProperties DEF WireInv, WireTypes
    <3>2. /\ Len(Rest) = Len(wire) + Len(owed)
          /\ \A i \in 1..Len(wire) + Len(owed) : Rest[i] = IF i <= Len(wire) THEN wire[i] ELSE owed[i - Len(wire)]
      BY ConcatProperties DEF WireInv, WireTypes, Rest
    <3>3. QED
      BY <3>1, <3>2
  <2>4. Room(Rest, 2 * items + Pending) => Room(Rest, 2 * items + Pending)'
    BY <1>3, <2>1, <2>2, <2>3 DEF ServerGone, client, Room
  <2>5. requests # <<>> \/ Idle => wire = <<>>
    BY DEF WireInv, Channel
  <2>6. wire = <<>> => Room(Rest, 2 * items + Pending)'
    BY <2>1 DEF Room
  <2>7. QED
    BY <1>3, <2>2, <2>4, <2>5, <2>6 DEF ServerGone, client
<1>4. QED
  BY <1>1, <1>2, <1>3 DEF Server

\* Every step keeps the bounds.
LEMMA BoundStep == WireInv /\ BoundInv /\ [Next]_vars => BoundInv'
<1> SUFFICES ASSUME WireInv, BoundInv, [Next]_vars
             PROVE  BoundInv'
  OBVIOUS
<1>1. CASE Begin
  BY <1>1, BeginBound
<1>2. CASE Reads
  BY <1>2, ReadOnBound, EndBound DEF Reads, ReadFails, ConsumerStops, CallBreaks
<1>3. CASE Server
  BY <1>3, ServerBound
<1>4. CASE Cancel \/ UNCHANGED vars
  <2>1. /\ UNCHANGED <<state, session, calls, call, expect, items, answer, requests, owed, wire, truth>>
        /\ ctx' \in {ctx, "cancelled"}
    BY <1>4 DEF Cancel, vars, client, server
  <2>2. Room(Rest, 2 * items + Pending) => Room(Rest, 2 * items + Pending)'
    BY <2>1 DEF Room, Rest, Pending
  <2>3. QED
    BY <2>1, <2>2 DEF BoundInv, Pending, Idle
<1>5. QED
  BY <1>1, <1>2, <1>3, <1>4 DEF Next

\* The two invariants are what the types say.
LEMMA TypesShow == WireInv /\ BoundInv => TypeOK
<1> SUFFICES ASSUME WireInv, BoundInv
             PROVE  TypeOK
  OBVIOUS
<1> USE BoundsAreNat
<1>1. calls \in 0..MaxCalls /\ items \in 0..MaxItems
  BY DEF WireInv, WireTypes, BoundInv, Pending
<1>2. answer \in [call : 0..MaxCalls, items : 0..MaxItems]
  <2>1. answer.call \in 0..MaxCalls /\ answer.items \in 0..MaxItems
    BY <1>1 DEF WireInv, WireTypes, Answered, BoundInv
  <2>2. answer = [call |-> answer.call, items |-> answer.items]
    BY DEF WireInv, WireTypes
  <2>3. QED
    BY <2>1, <2>2
<1>3. truth \in [call : 0..MaxCalls, items : 0..MaxItems, good : BOOLEAN]
  <2>1. truth.call \in 0..MaxCalls /\ truth.items \in 0..MaxItems
    BY <1>1 DEF WireInv, WireTypes, BoundInv
  <2>2. truth.good \in BOOLEAN /\ truth = [call |-> truth.call, items |-> truth.items, good |-> truth.good]
    BY DEF WireInv, WireTypes
  <2>3. QED
    BY <2>1, <2>2
<1>4. requests \in Seq([call : 1..MaxCalls, kind : Kinds])
  <2>1. CASE requests = <<>>
    BY <2>1, EmptySeq
  <2>2. CASE requests # <<>>
    <3>1. ~Idle /\ requests = <<[call |-> calls, kind |-> call]>>
      BY <2>2 DEF WireInv, Channel
    <3>2. call \in Kinds /\ calls \in 1..MaxCalls
      BY <1>1, <1>2, <3>1 DEF WireInv, WireTypes, Answered, Idle
    <3>3. [call |-> calls, kind |-> call] \in [call : 1..MaxCalls, kind : Kinds]
      BY <3>2
    <3>4. QED
      BY <3>1, <3>3
  <2>3. QED
    BY <2>1, <2>2
<1>5. /\ expect \in {"nothing", "header", "payload", "body", "entry", "chunk", "zeros", "message"}
      /\ (call = "none") = (expect = "nothing")
  BY DEF WireInv, Holding, Idle, Queries
<1>6. mode \in DOMAIN Served
  BY DEF WireInv, WireTypes, Served
<1>7. QED
  BY <1>1, <1>2, <1>3, <1>4, <1>5, <1>6 DEF TypeOK, WireInv, WireTypes, Holding, BoundInv

\* Every variable of a Conn, its SyncConn and the server keeps its type, for any
\* number of calls; no listing and no file delivers more items than a reply may
\* hold, one that is cut short included (List, Recv).
THEOREM WireTypesKept == Spec => []TypeOK
<1>1. WireInv /\ BoundInv /\ [Next]_vars => WireInv' /\ BoundInv'
  BY WireInvStep, BoundStep
<1>2. QED
  BY <1>1, InitWire, InitBound, TypesShow, PTL DEF Spec

=============================================================================
