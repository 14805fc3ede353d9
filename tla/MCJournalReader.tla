--------------------------- MODULE MCJournalReader ---------------------------
(* A model-checking instance of JournalReader: what this process and others    *)
(* publish, and system files in the shapes a crash leaves behind.              *)
EXTENDS JournalReader

\* An anchor of this binary for the log verified, and what makes an entry another.
Plain(word)   == [says |-> word, packed |-> FALSE]
Anchor        == [values |-> [f \in Field |-> <<Plain(Ours)>>], huge |-> FALSE, long |-> FALSE]
With(f, vals) == [Anchor EXCEPT !.values[f] = vals]

Theirs(f) == With(f, <<Plain("theirs")>>)
Twice(f)  == With(f, <<Plain(Ours), Plain("theirs")>>)
Packed(f) == With(f, <<[says |-> Ours, packed |-> TRUE]>>)
Hidden(f) == With(f, <<Plain(Ours), [says |-> "theirs", packed |-> TRUE]>>)

Published == {Anchor, Packed("_EXE")}

\* A file of entries that hang from one array, with the items and the next given.
Holding(kinds, items, next) ==
    [objs   |-> [i \in 1..2 * Len(kinds) |->
                   IF i % 2 = 1 THEN Data(kinds[(i + 1) \div 2]) ELSE EntryObject(i - 1, 100 + i)]
                \o <<[EntryArray(items) EXCEPT !.next = next]>>,
     extent |-> 2 * Len(kinds) + 2, count |-> Len(kinds) + 2, first |-> 2 * Len(kinds) + 1]

\* What the files pass over or take, the second half of it what a pipe refuses.
Strangers == <<Theirs("_UID"), Theirs("_EXE"), Theirs("MESSAGE_ID"), Theirs("ADB_BROKER_LOG"), Packed("ADB_BROKER_LOG"),
               Twice("ADB_BROKER_LOG"), Twice("ADB_BROKER_SEQ"), Twice("ADB_BROKER_HASH"), Hidden("_EXE"),
               [Anchor EXCEPT !.long = TRUE]>>

\* The shapes a writer leaves.  The last is cut off behind its array, which lists one entry more.
Whole ==
    {Holding(Strangers, [i \in 1..11 |-> IF i = 11 THEN 0 ELSE 2 * i], 0),
     Holding(<<Twice("MESSAGE_ID")>>, <<2>>, 0),
     Holding(<<[Packed("MESSAGE") EXCEPT !.values["_EXE"] = <<>>]>>, <<2>>, 0),
     Holding(<<[Anchor EXCEPT !.huge = TRUE]>>, <<2>>, 0),
     Holding(<<With("ADB_BROKER_SEQ", <<Plain(Junk)>>)>>, <<2>>, 0),
     Holding(<<Packed("MESSAGE")>>, <<2, 4>>, 4)}

\* A chain that bites its tail, an array of data, and a chain of entries.
Corrupt ==
    {Holding(<<Anchor>>, <<>>, 3),
     Holding(<<Anchor>>, <<1>>, 0),
     [Holding(<<Anchor>>, <<2>>, 0) EXCEPT !.first = 2]}

System == Whole \cup Corrupt
=============================================================================
