----------------------------- MODULE StatusScan -----------------------------
(***************************************************************************)
(* One call of GetDriverStats (and of GetAvailableDrivers, which visits    *)
(* the same statuses): scanStatuses pages through the status keys with     *)
(* SCAN and reads each page with MGET, while drivers come, go and change   *)
(* status.                                                                 *)
(*                                                                         *)
(* SCAN is external.  It promises that a key that is there from the first  *)
(* page to the last is returned at least once; a page may be empty, and a  *)
(* key may be returned more than once, in different pages.                 *)
(***************************************************************************)
EXTENDS Integers, FiniteSets

CONSTANTS
    Drivers,
    MaxPages     \* bound: pages of one scan

ASSUME ScanAssumption == IsFiniteSet(Drivers) /\ MaxPages \in Nat \ {0}

VARIABLES
    status,        \* [Drivers -> "offline", or the value of the status key]
    pc,            \* where scanStatuses is
    page,          \* the keys of the current page
    last,          \* the cursor of the current page is zero
    pages,         \* pages read so far
    returned,      \* keys SCAN has returned
    steady,        \* drivers that were online ever since the scan began
    active,        \* drivers that were online at some time since it began
    offered,       \* drivers that were available at some time since it began
    visits,        \* [Drivers -> how often visited]: total is their sum
    available      \* [Drivers -> how often visited as available]

vars == <<status, pc, page, last, pages, returned, steady, active, offered, visits, available>>
cursor == <<page, last, pages, returned>>
counts == <<visits, available>>

Online == {d \in Drivers : status[d] # "offline"}
OfferedNow == {d \in Drivers : status[d] = "available"}

TypeOK ==
    /\ status \in [Drivers -> {"offline", "available", "busy"}]
    /\ pc \in {"scan", "mget", "done", "failed"}
    /\ page \subseteq Drivers
    /\ last \in BOOLEAN
    /\ pages \in 0 .. MaxPages
    /\ returned \subseteq active
    /\ steady \subseteq Online
    /\ active \subseteq Drivers
    /\ offered \subseteq active
    /\ visits \in [Drivers -> 0 .. MaxPages]
    /\ available \in [Drivers -> 0 .. MaxPages]

Init ==
    /\ status \in [Drivers -> {"offline", "available", "busy"}]
    /\ pc = "scan" /\ page = {} /\ last = FALSE /\ pages = 0 /\ returned = {}
    /\ steady = Online /\ active = Online /\ offered = OfferedNow
    /\ visits = [d \in Drivers |-> 0] /\ available = [d \in Drivers |-> 0]

\* SetStatus, SetBusy, a dispatch, or the expiry of the key.
ChangeStatus(d, s) ==
    /\ pc \in {"scan", "mget"}
    /\ status' = [status EXCEPT ![d] = s]
    /\ steady' = IF s = "offline" THEN steady \ {d} ELSE steady
    /\ active' = IF s = "offline" THEN active ELSE active \cup {d}
    /\ offered' = IF s = "available" THEN offered \cup {d} ELSE offered
    /\ UNCHANGED <<pc, cursor, counts>>

\* Mutant: an empty page ends the scan.
OnwardUnlessEmpty(zero) == pc' = IF zero \/ page' = {} THEN "done" ELSE "scan"

\* The end of the loop's body: the cursor is zero, or there is another page.
Onward(zero) == pc' = IF zero THEN "done" ELSE "scan"

\* SCAN returns a page.  An empty one needs no MGET.
Scan(keys, zero) ==
    /\ pc = "scan" /\ pages < MaxPages
    /\ keys \subseteq Online
    /\ zero => steady \subseteq returned \cup keys
    /\ pages + 1 = MaxPages => zero
    /\ pages' = pages + 1
    /\ page' = keys /\ last' = zero /\ returned' = returned \cup keys
    /\ IF keys = {} THEN Onward(zero) ELSE pc' = "mget"
    /\ UNCHANGED <<status, steady, active, offered, counts>>

CountAlso(f, S) == [d \in Drivers |-> IF d \in S THEN f[d] + 1 ELSE f[d]]

\* Mutant: a page with a key that is gone is read again.
ReadAgain ==
    /\ pc = "mget"
    /\ visits' = CountAlso(visits, page \cap Online)
    /\ available' = CountAlso(available, page \cap OfferedNow)
    /\ IF page \subseteq Online THEN Onward(last) ELSE UNCHANGED pc
    /\ UNCHANGED <<status, cursor, steady, active, offered>>

\* MGET: a key that is gone by now is passed over, the others are visited.
MGet ==
    /\ pc = "mget"
    /\ visits' = CountAlso(visits, page \cap Online)
    /\ available' = CountAlso(available, page \cap OfferedNow)
    /\ Onward(last)
    /\ UNCHANGED <<status, cursor, steady, active, offered>>

\* Redis fails: the caller gets the error and no counts.
Fail ==
    /\ pc \in {"scan", "mget"}
    /\ pc' = "failed"
    /\ UNCHANGED <<status, cursor, steady, active, offered, counts>>

Next ==
    \/ \E d \in Drivers, s \in {"offline", "available", "busy"} : ChangeStatus(d, s)
    \/ \E keys \in SUBSET Online, zero \in BOOLEAN : Scan(keys, zero)
    \/ MGet \/ Fail

Spec == Init /\ [][Next]_vars

Visited == {d \in Drivers : visits[d] > 0}
Reported == {d \in Drivers : available[d] > 0}

-----------------------------------------------------------------------------
(* Properties.                                                             *)

\* A driver that stayed online is counted, although SCAN may return empty
\* pages before its key (driver.go:242), and a driver that is listed as
\* available was so at some time since the call began (driver.go:247).
ScanComplete ==
    pc = "done" => steady \subseteq Visited /\ Reported \subseteq offered
=============================================================================
