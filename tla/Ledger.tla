------------------------------- MODULE Ledger --------------------------------
(***************************************************************************)
(* What the audit log promises a caller that stops once Append has failed: *)
(* a history that is only ever extended at its end by the record that       *)
(* follows from it, records that are vouched for, and a host that may       *)
(* forget the end of the history but nothing that was vouched for.          *)
(*                                                                         *)
(* There is no file here, no torn line, no page cache and no process: the  *)
(* doc comments of foundation/audit state this, AuditLog refines it.        *)
(***************************************************************************)
EXTENDS HashChain

VARIABLES
    history,    \* the records, oldest first
    vouched     \* the hashes of the records reported as recorded

ledgerVars == <<history, vouched>>

LastHash == IF history = <<>> THEN Genesis ELSE history[Len(history)].hash

Init == history = <<>> /\ vouched = {}

\* A record is added behind the last one.
Extend(op) ==
    /\ history' = Append(history, NextRecord(Len(history), LastHash, op))
    /\ UNCHANGED vouched

\* The newest record is vouched for.
Vouch ==
    /\ history # <<>>
    /\ vouched' = vouched \cup {LastHash}
    /\ UNCHANGED history

\* The end of the history is lost, as far as the last record vouched for.
Forget ==
    /\ \E k \in 0..Len(history) :
         /\ history' = SubSeq(history, 1, k)
         /\ \A i \in k + 1..Len(history) : history[i].hash \notin vouched
    /\ UNCHANGED vouched

Next == (\E op \in Op : Extend(op)) \/ Vouch \/ Forget

Spec == Init /\ [][Next]_ledgerVars
=============================================================================
