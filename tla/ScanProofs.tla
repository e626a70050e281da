----------------------------- MODULE ScanProofs -----------------------------
(***************************************************************************)
(* The statistics scan misses no driver that stayed online, for any number *)
(* of drivers and pages.                                                   *)
(***************************************************************************)
EXTENDS StatusScan, TLAPS

\* The page that has been returned and not read yet.
Unread == IF pc = "mget" THEN page ELSE {}

\* What makes the types inductive: a page visits a driver at most once, and
\* the history variables know of every driver that is online now.
CountsInv ==
    /\ TypeOK
    /\ \A d \in Drivers :
        LET read == IF pc = "mget" THEN pages - 1 ELSE pages
        IN  visits[d] <= read /\ available[d] <= read
    /\ pc = "mget" => pages > 0
    /\ pc \in {"scan", "mget"} => Online \subseteq active /\ OfferedNow \subseteq offered

\* What makes ScanComplete inductive: a driver that stayed online has been
\* visited as soon as its page has been read, and the last page leaves out
\* no such driver.
ScanInv ==
    /\ pc # "failed" => steady \cap returned \subseteq Visited \cup Unread
    /\ Reported \subseteq offered
    /\ pc = "done" \/ (pc = "mget" /\ last) => steady \subseteq returned

-----------------------------------------------------------------------------

\* Counting a page visits each of its drivers once more.
LEMMA CountAlsoOne ==
    ASSUME NEW f \in [Drivers -> Nat], NEW S, NEW n \in Nat,
           \A d \in Drivers : f[d] <= n
    PROVE  /\ CountAlso(f, S) \in [Drivers -> Nat]
           /\ \A d \in Drivers : CountAlso(f, S)[d] <= n + 1
           /\ \A d \in Drivers : CountAlso(f, S)[d] > 0 <=> f[d] > 0 \/ d \in S
  <1>1. \A d \in Drivers : CountAlso(f, S)[d] = IF d \in S THEN f[d] + 1 ELSE f[d]
    BY DEF CountAlso
  <1>2. CountAlso(f, S) \in [Drivers -> Nat]
    BY DEF CountAlso
  <1>3. \A d \in Drivers : f[d] \in Nat
    OBVIOUS
  <1> QED
    BY <1>1, <1>2, <1>3

\* Nothing has been counted at the start.
LEMMA InitCounts == Init => CountsInv
  <1> SUFFICES ASSUME Init PROVE CountsInv
    OBVIOUS
  <1>1. 0 \in 0 .. MaxPages
    BY ScanAssumption DEF ScanAssumption
  <1>2. visits \in [Drivers -> 0 .. MaxPages] /\ available \in [Drivers -> 0 .. MaxPages]
    BY <1>1 DEF Init
  <1>3. Online \subseteq Drivers /\ OfferedNow \subseteq Online
    BY DEF Online, OfferedNow
  <1>4. TypeOK
    BY <1>1, <1>2, <1>3 DEF Init, TypeOK
  <1> QED
    BY <1>4 DEF Init, CountsInv

\* Nothing has been returned at the start.
LEMMA InitScan == Init => ScanInv
  BY DEF Init, ScanInv, Visited, Reported, Unread

\* A driver whose status changes meanwhile counts only if it was online.
LEMMA ChangeStatusOK ==
    ASSUME CountsInv, ScanInv, NEW d \in Drivers, NEW s \in {"offline", "available", "busy"},
           ChangeStatus(d, s)
    PROVE  CountsInv' /\ ScanInv'
  <1>1. UNCHANGED <<pc, page, last, pages, returned, visits, available>>
    BY DEF ChangeStatus, cursor, counts
  <1>2. /\ Online' = IF s = "offline" THEN Online \ {d} ELSE Online \cup {d}
        /\ OfferedNow' = IF s = "available" THEN OfferedNow \cup {d} ELSE OfferedNow \ {d}
    BY DEF ChangeStatus, Online, OfferedNow, CountsInv, TypeOK
  <1>3. status' \in [Drivers -> {"offline", "available", "busy"}]
    BY DEF ChangeStatus, CountsInv, TypeOK
  <1>4. TypeOK'
    BY <1>1, <1>2, <1>3 DEF ChangeStatus, CountsInv, TypeOK
  <1>5. CountsInv'
    BY <1>1, <1>2, <1>4 DEF ChangeStatus, CountsInv
  <1>6. ScanInv'
    BY <1>1 DEF ChangeStatus, ScanInv, Visited, Reported, Unread
  <1> QED
    BY <1>5, <1>6

\* A page of SCAN returns drivers that still have to be read.
LEMMA ScanOK ==
    ASSUME CountsInv, ScanInv, NEW keys \in SUBSET Online, NEW zero \in BOOLEAN, Scan(keys, zero)
    PROVE  CountsInv' /\ ScanInv'
  <1>1. /\ pc = "scan" /\ pages < MaxPages /\ pages' = pages + 1
        /\ page' = keys /\ last' = zero /\ returned' = returned \cup keys
        /\ UNCHANGED <<status, steady, active, offered, visits, available>>
        /\ Online' = Online /\ OfferedNow' = OfferedNow
    BY DEF Scan, counts, Online, OfferedNow
  <1>2. /\ pc' = IF keys # {} THEN "mget" ELSE IF zero THEN "done" ELSE "scan"
        /\ zero => steady \subseteq returned \cup keys
    BY DEF Scan, Onward
  <1>3. pages' \in 0 .. MaxPages /\ pages' > 0 /\ pages \in Nat /\ pages' - 1 = pages
    BY <1>1, ScanAssumption DEF CountsInv, TypeOK, ScanAssumption
  <1>4. TypeOK'
    BY <1>1, <1>2, <1>3 DEF CountsInv, TypeOK, Online
  <1>5. \A d \in Drivers : visits[d] \in Nat /\ available[d] \in Nat
           /\ visits[d] <= pages /\ available[d] <= pages
    BY <1>1 DEF CountsInv, TypeOK
  <1>6. CountsInv'
    BY <1>1, <1>2, <1>3, <1>4, <1>5 DEF CountsInv
  <1>7. Unread' = keys /\ Unread = {} /\ Visited' = Visited /\ Reported' = Reported
    BY <1>1, <1>2 DEF Unread, Visited, Reported
  <1>8. ScanInv'
    BY <1>1, <1>2, <1>7 DEF ScanInv
  <1> QED
    BY <1>6, <1>8

\* MGET reads the page that was returned.
LEMMA MGetOK ==
    ASSUME CountsInv, ScanInv, MGet
    PROVE  CountsInv' /\ ScanInv'
  <1>1. /\ pc = "mget" /\ pc' = IF last THEN "done" ELSE "scan"
        /\ visits' = CountAlso(visits, page \cap Online)
        /\ available' = CountAlso(available, page \cap OfferedNow)
        /\ UNCHANGED <<status, page, last, pages, returned, steady, active, offered>>
        /\ Online' = Online /\ OfferedNow' = OfferedNow
    BY DEF MGet, Onward, cursor, Online, OfferedNow
  <1>2. pages - 1 \in Nat /\ pages \in 0 .. MaxPages /\ pages - 1 + 1 = pages
    BY <1>1, ScanAssumption DEF CountsInv, TypeOK, ScanAssumption
  <1>3. /\ visits \in [Drivers -> Nat] /\ available \in [Drivers -> Nat]
        /\ \A d \in Drivers : visits[d] <= pages - 1 /\ available[d] <= pages - 1
    BY <1>1 DEF CountsInv, TypeOK
  <1>4. /\ visits' \in [Drivers -> Nat]
        /\ \A d \in Drivers : visits'[d] <= pages /\ (visits'[d] > 0 <=> visits[d] > 0 \/ d \in page \cap Online)
    BY <1>1, <1>2, <1>3, CountAlsoOne
  <1>5. /\ available' \in [Drivers -> Nat]
        /\ \A d \in Drivers : available'[d] <= pages
              /\ (available'[d] > 0 <=> available[d] > 0 \/ d \in page \cap OfferedNow)
    BY <1>1, <1>2, <1>3, CountAlsoOne
  <1>6. visits' \in [Drivers -> 0 .. MaxPages] /\ available' \in [Drivers -> 0 .. MaxPages]
    BY <1>2, <1>4, <1>5, ScanAssumption DEF ScanAssumption
  <1>7. TypeOK'
    BY <1>1, <1>6 DEF CountsInv, TypeOK
  <1>8. CountsInv'
    BY <1>1, <1>4, <1>5, <1>7 DEF CountsInv
  <1>9. Visited' = Visited \cup (page \cap Online) /\ Unread = page /\ Unread' = {}
    BY <1>1, <1>4 DEF Visited, Unread, CountsInv, TypeOK
  <1>10. Reported' = Reported \cup (page \cap OfferedNow)
    BY <1>5 DEF Reported, CountsInv, TypeOK
  <1>11. steady \subseteq Online /\ OfferedNow \subseteq offered
    BY <1>1 DEF CountsInv, TypeOK
  <1>12. ScanInv'
    BY <1>1, <1>9, <1>10, <1>11 DEF ScanInv
  <1> QED
    BY <1>8, <1>12

\* A scan that fails reports nothing.
LEMMA FailOK ==
    ASSUME CountsInv, ScanInv, Fail
    PROVE  CountsInv' /\ ScanInv'
  <1>1. /\ pc' = "failed"
        /\ UNCHANGED <<status, page, last, pages, returned, steady, active, offered, visits, available>>
        /\ Online' = Online
    BY DEF Fail, cursor, counts, Online
  <1>2. TypeOK'
    BY <1>1 DEF CountsInv, TypeOK
  <1>3. \A d \in Drivers : visits[d] <= pages /\ available[d] <= pages
    <2>1. pages \in Nat
      BY ScanAssumption DEF ScanAssumption, CountsInv, TypeOK
    <2> QED
      BY <2>1 DEF CountsInv, TypeOK
  <1>4. CountsInv'
    BY <1>1, <1>2, <1>3 DEF CountsInv
  <1>5. ScanInv'
    BY <1>1 DEF ScanInv, Visited, Reported, Unread
  <1> QED
    BY <1>4, <1>5

\* Every step keeps the counts and the completeness of the scan.
LEMMA NextScan == CountsInv /\ ScanInv /\ [Next]_vars => (CountsInv /\ ScanInv)'
  <1> SUFFICES ASSUME CountsInv, ScanInv, [Next]_vars PROVE CountsInv' /\ ScanInv'
    OBVIOUS
  <1>1. CASE UNCHANGED vars
    BY <1>1 DEF vars, CountsInv, ScanInv, TypeOK, Online, OfferedNow, Visited, Reported, Unread
  <1> QED
    BY <1>1, ChangeStatusOK, ScanOK, MGetOK, FailOK DEF Next

\* No count exceeds the number of pages, and what the scan returned or counted
\* was online at some time since it began.
THEOREM ScanTypeCorrect == Spec => []TypeOK
  <1>1. CountsInv => TypeOK
    BY DEF CountsInv
  <1> QED
    BY <1>1, InitCounts, InitScan, NextScan, PTL DEF Spec

\* However drivers come, go and change status between and within the pages,
\* a driver that stayed online is counted (driver.go:242), and none is listed
\* as available that was not so since the call began (driver.go:247).
THEOREM ScanIsComplete == Spec => []ScanComplete
  <1>1. CountsInv /\ ScanInv => ScanComplete
    BY DEF ScanInv, ScanComplete, Unread
  <1> QED
    BY <1>1, InitCounts, InitScan, NextScan, PTL DEF Spec
=============================================================================
