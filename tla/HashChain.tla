------------------------------ MODULE HashChain ------------------------------
(***************************************************************************)
(* The hash-chained record format of foundation/audit (record.go and the   *)
(* reading half of log.go).                                                 *)
(*                                                                         *)
(* A record's hash is SHA-256 of its predecessor's hash and its own        *)
(* canonical bytes.  The model takes the hash to be collision free: a hash *)
(* IS the sequence of the contents it covers, so two hashes are equal      *)
(* exactly when the whole histories behind them are.  The 32 zero bytes    *)
(* that stand for "no predecessor" are the empty history.                  *)
(*                                                                         *)
(* Of a record's fourteen fields the chain reads seq, prev and hash; the   *)
(* other eleven describe the operation and are one value of Op.            *)
(***************************************************************************)
EXTENDS Integers, Sequences

CONSTANTS
    Op,     \* what a record says about the operation it records
    Junk    \* a line that decodeLine refuses: a torn write, or bytes run together

Content == [seq : Nat, op : Op]
Hash    == Seq(Content)
Record  == [seq : Nat, op : Op, prev : Hash, hash : Hash]
Line    == Record \cup {Junk}

ASSUME JunkIsNoRecord == Junk \notin Record

Genesis == <<>>

\* HashRecord covers the predecessor's hash and every field but the hash itself.
HashRecord(prev, r) == Append(prev, [seq |-> r.seq, op |-> r.op])

\* The record Append builds from the live chain state: the next sequence
\* number, the head as its prev, and the hash of both.
NextRecord(seq, head, op) ==
    LET content == [seq |-> seq + 1, op |-> op]
    IN  [seq |-> seq + 1, op |-> op, prev |-> head, hash |-> HashRecord(head, content)]

\* verifyRecord: r names prev, and its stored hash is the one its contents produce.
verifyRecord(prev, r) ==
    /\ r.prev = prev
    /\ r.hash = HashRecord(prev, r)

-----------------------------------------------------------------------------
(* VerifyChain reads every line in order with a running sequence number and *)
(* head, and stops at the first that does not continue them.                *)

RunningHead(scan, i) == IF i = 1 THEN Genesis ELSE scan[i - 1].hash

ContinuesChain(scan, i) ==
    /\ scan[i] # Junk
    /\ scan[i].seq = i
    /\ verifyRecord(RunningHead(scan, i), scan[i])

VerifyChain(scan) == \A i \in 1..Len(scan) : ContinuesChain(scan, i)
=============================================================================
