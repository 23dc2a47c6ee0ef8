--------------------------- MODULE VoiceLifecycle ---------------------------
(***************************************************************************)
(* What the folder batch promises for each recording, without locks,       *)
(* workers, paths or failures: it arrives, is either finished or           *)
(* quarantined, and a finished one is entered in the ledger (the table     *)
(* call_summaries) once.  VoiceBatch is shown to implement it.             *)
(***************************************************************************)
EXTENDS Naturals, Sequences

CONSTANT Rec       \* recordings

VARIABLES
    place,         \* where the recording is
    ledger         \* the recordings that have a row, in the order of the rows

vars == <<place, ledger>>

Places == {"absent", "waiting", "finished", "failed"}

Init ==
    /\ place = [r \in Rec |-> "absent"]
    /\ ledger = <<>>

Recorded == {ledger[i] : i \in DOMAIN ledger}

Go(r, from, to) ==
    /\ place[r] = from
    /\ place' = [place EXCEPT ![r] = to]
    /\ UNCHANGED ledger

Arrive(r) == Go(r, "absent", "waiting")
Settle(r) == Go(r, "waiting", "finished") \/ Go(r, "waiting", "failed")

Enter(r) ==
    /\ place[r] = "finished"
    /\ r \notin Recorded
    /\ ledger' = Append(ledger, r)
    /\ UNCHANGED place

Next == \E r \in Rec : Arrive(r) \/ Settle(r) \/ Enter(r)

Spec == Init /\ [][Next]_vars

FairSpec ==
    /\ Spec
    /\ \A r \in Rec : WF_vars(Settle(r)) /\ WF_vars(Enter(r))
=============================================================================
