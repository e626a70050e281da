--------------------------- MODULE DispatchProofs ---------------------------
(***************************************************************************)
(* Proofs about DispatchService, for any number of drivers, riders,        *)
(* requests and handlers and for every choice of Kinds and Faults.         *)
(***************************************************************************)
EXTENDS DispatchService, FiniteSetTheorems, WellFoundedInduction, TLAPS

-----------------------------------------------------------------------------
(* Local state.                                                            *)

\* A non-empty set of naturals has a least element: NextCandidate's Min.
LEMMA MinExists ==
    ASSUME NEW I \in SUBSET Nat, I # {}
    PROVE  Min(I) \in I
<1> DEFINE R == OpToRel(<, Nat)
<1>1. IsWellFoundedOn(R, Nat)
  BY NatLessThanWellFounded
<1>2. ASSUME NEW i \in I, NEW j \in I
      PROVE  <<j, i>> \in R <=> j < i
  BY DEF OpToRel
<1> HIDE DEF R
<1>3. \E i \in I : \A j \in I : <<j, i>> \notin R
  BY <1>1, WFMin
<1>4. ASSUME NEW i \in I, NEW j \in I, ~(j < i)
      PROVE  i <= j
  BY <1>4
<1>5. \E i \in I : \A j \in I : i <= j
  BY <1>2, <1>3, <1>4
<1> QED
  BY <1>5 DEF Min

\* The idle handler is well typed and remembers nothing.
LEMMA IdleOK == Idle \in HandlerState /\ \A A : LocalOK(Idle, A)
  BY DEF Idle, HandlerState, LocalOK, DispatchPCs, ResetPCs

\* The loop of FindAndAssign moves to a driver, or ends.
LEMMA NextCandidateType ==
    ASSUME NEW s \in HandlerState
    PROVE  /\ NextCandidate(s) \in HandlerState
           /\ \/ NextCandidate(s) = Idle
              \/ /\ NextCandidate(s).pc = "lock"
                 /\ NextCandidate(s).d \in Drivers
                 /\ NextCandidate(s).q = s.q
<1> DEFINE I == {i \in DOMAIN s.todo : s.todo[i] \in s.avail}
<1>1. CASE I = {}
  BY <1>1, IdleOK DEF NextCandidate
<1>2. CASE I # {}
  <2>1. s.todo \in Seq(Drivers)
    BY DEF HandlerState
  <2>2. DOMAIN s.todo = 1..Len(s.todo) /\ Len(s.todo) \in Nat
    BY <2>1
  <2>3. \A i \in I : i \in 1..Len(s.todo) /\ s.todo[i] \in Drivers
    BY <2>1, <2>2
  <2> DEFINE m == Min(I)
  <2>4. m \in 1..Len(s.todo) /\ s.todo[m] \in Drivers
    <3>1. I \in SUBSET Nat
      BY <2>2
    <3> HIDE DEF I
    <3>2. m \in I
      BY <1>2, <3>1, MinExists
    <3> QED
      BY <2>3, <3>2
  <2>5. NextCandidate(s) = [s EXCEPT !.pc = "lock", !.d = s.todo[m],
                                     !.todo = SubSeq(s.todo, m + 1, Len(s.todo))]
    BY <1>2 DEF NextCandidate
  <2> HIDE DEF m, I
  <2>6. SubSeq(s.todo, m + 1, Len(s.todo)) \in Seq(Drivers)
    BY <2>1, <2>2, <2>4
  <2> QED
    BY <2>4, <2>5, <2>6 DEF HandlerState, DispatchPCs
<1> QED
  BY <1>1, <1>2

\* A failed call leaves the handler in a state its next call can rely on.
LEMMA OnErrorOK ==
    ASSUME NEW s \in HandlerState, NEW A, LocalOK(s, A)
    PROVE  OnError(s) \in HandlerState /\ LocalOK(OnError(s), A)
<1>1. CASE s.pc \in {"owner", "busy", "create", "confUnlock"}
  <2>1. \E pc \in {"unlockErr", "relUnlock", "confRefresh"} : OnError(s) = [s EXCEPT !.pc = pc]
    BY <1>1 DEF OnError, Goto
  <2> QED
    BY <1>1, <2>1 DEF HandlerState, LocalOK, DispatchPCs, ResetPCs
<1>2. CASE s.pc \in {"unlockNext", "confAvail"}
  <2>1. OnError(s) = NextCandidate(s)
    BY <1>2 DEF OnError
  <2>2. s.q \in Requests /\ A[s.q].st # "expired"
    BY <1>2 DEF LocalOK, DispatchPCs
  <2>3. NextCandidate(s) \in HandlerState
    BY NextCandidateType
  <2>4. CASE NextCandidate(s) = Idle
    BY <2>1, <2>4, IdleOK
  <2>5. CASE NextCandidate(s) # Idle
    <3>1. NextCandidate(s).pc = "lock" /\ NextCandidate(s).d \in Drivers /\ NextCandidate(s).q = s.q
      BY <2>5, NextCandidateType
    <3> QED
      BY <2>1, <2>2, <2>3, <3>1 DEF LocalOK, DispatchPCs, ResetPCs
  <2> QED
    BY <2>4, <2>5
<1>3. CASE s.pc \notin {"owner", "busy", "create", "confUnlock", "unlockNext", "confAvail"}
  <2>1. OnError(s) = Idle
    BY <1>3 DEF OnError
  <2> QED
    BY <2>1, IdleOK
<1> QED
  BY <1>1, <1>2, <1>3

-----------------------------------------------------------------------------
(* The scripts: each keeps the store well typed and the keys in agreement  *)
(* with the rides, and changes a ride only along its lifecycle.            *)

StoreOK == StoreTypeOK /\ KeysOK

\* What a step may do to the record of request q.
RecordStep(q) ==
    \/ asg'[q] = asg[q]
    \/ asg[q].st = "none" /\ asg'[q].st = "en_route"
    \/ /\ asg[q].st = "en_route" /\ asg'[q].st \in {"cancelled", "arrived"}
       /\ asg'[q].r = asg[q].r /\ asg'[q].d = asg[q].d
    \/ Exists(q) /\ asg'[q] = Expired /\ ~InDispatch(q)

RecordsStep == \A q \in Requests : RecordStep(q)

\* A step that writes none of the three kinds of ride key.
LEMMA OtherKeysOK ==
    ASSUME StoreOK, UNCHANGED <<asg, riderActive, driverActive>>
    PROVE  KeysOK' /\ RecordsStep
  BY DEF StoreOK, KeysOK, RecordsStep, RecordStep, Exists, IsOpen, Dangling

\* createAssignmentScript gives the ride a rider and a driver that have none.
LEMMA CreateOK ==
    ASSUME StoreOK, NEW q \in Requests, NEW r \in Riders, NEW d \in Drivers, NEW x \in Places,
           asg[q].st # "expired", CreateScript(q, r, d, x)
    PROVE  StoreOK' /\ RecordsStep
<1>1. CASE CreateResult(q, r, d) # 1
  <2>1. UNCHANGED store
    BY <1>1 DEF CreateScript
  <2> QED
    BY <2>1, OtherKeysOK DEF store, StoreOK, StoreTypeOK
<1>2. CASE CreateResult(q, r, d) = 1
  <2> DEFINE new == [st |-> "en_route", r |-> r, d |-> d, x |-> x]
  <2>1. /\ asg' = [asg EXCEPT ![q] = new]
        /\ riderActive' = [riderActive EXCEPT ![r] = q]
        /\ driverActive' = [driverActive EXCEPT ![d] = q]
        /\ UNCHANGED <<status, lock, geo, lease>>
    BY <1>2 DEF CreateScript
  <2>2. /\ riderActive[r] = None \/ ~IsOpen(riderActive[r])
        /\ ~Exists(q)
        /\ driverActive[d] \in {None, q}
    BY <1>2 DEF CreateResult
  <2>3. asg[q].st = "none"
    BY <2>2 DEF Exists
  <2>4. /\ \A e \in Drivers : driverActive[e] # q
        /\ \A e \in Riders : riderActive[e] # q
    BY <2>3, NoneAssumption DEF StoreOK, KeysOK, Dangling, IsOpen
  <2>5. driverActive[d] = None
    BY <2>2, <2>4
  <2>6. new \in Assignment /\ new.st = "en_route" /\ new.r = r /\ new.d = d
    BY DEF Assignment
  <2> HIDE DEF new
  <2>7. /\ asg'[q] = new
        /\ \A o \in Requests \ {q} : asg'[o] = asg[o]
    BY <2>1 DEF StoreOK, StoreTypeOK
  <2>8. StoreTypeOK'
    BY <2>1, <2>6 DEF StoreOK, StoreTypeOK
  <2>9. KeysOK'
    <3>1. \A o \in Requests : Exists(o)' => asg'[o].r \in Riders /\ asg'[o].d \in Drivers
      BY <2>6, <2>7 DEF StoreOK, KeysOK, Exists
    <3>2. ASSUME NEW o \in Requests, asg'[o].st = "en_route"
          PROVE  riderActive'[asg'[o].r] = o /\ driverActive'[asg'[o].d] = o
      <4>1. CASE o = q
        BY <2>1, <2>6, <2>7, <4>1 DEF StoreOK, StoreTypeOK
      <4>2. CASE o # q
        <5>1. /\ riderActive[asg[o].r] = o /\ driverActive[asg[o].d] = o
              /\ asg[o].r \in Riders /\ asg[o].d \in Drivers /\ IsOpen(o)
          BY <2>7, <3>2, <4>2 DEF StoreOK, KeysOK, IsOpen, Exists
        <5>2. asg[o].r # r /\ asg[o].d # d
          BY <2>2, <2>5, <5>1, NoneAssumption
        <5> QED
          BY <2>1, <2>7, <4>2, <5>1, <5>2 DEF StoreOK, StoreTypeOK
      <4> QED
        BY <4>1, <4>2
    <3>3. ASSUME NEW o \in Requests, asg'[o].st = "arrived"
          PROVE  riderActive'[asg'[o].r] = o <=> driverActive'[asg'[o].d] = o
      <4>1. o # q /\ asg'[o] = asg[o]
        BY <2>6, <2>7, <3>3
      <4>2. /\ riderActive[asg[o].r] = o <=> driverActive[asg[o].d] = o
            /\ asg[o].r \in Riders /\ asg[o].d \in Drivers /\ IsOpen(o)
        BY <3>3, <4>1 DEF StoreOK, KeysOK, IsOpen, Exists
      <4>3. /\ asg[o].r = r => riderActive[asg[o].r] # o
            /\ asg[o].d = d => driverActive[asg[o].d] # o
        BY <2>2, <2>5, <4>2, NoneAssumption
      <4> QED
        BY <2>1, <4>1, <4>2, <4>3 DEF StoreOK, StoreTypeOK
    <3>4. \A e \in Riders : riderActive'[e] # None =>
             \/ Dangling(riderActive[e])' 
             \/ IsOpen(riderActive[e])' /\ asg'[riderActive'[e]].r = e
      BY <2>1, <2>4, <2>6, <2>7 DEF StoreOK, StoreTypeOK, KeysOK, Dangling, IsOpen
    <3>5. \A e \in Drivers : driverActive'[e] # None =>
             \/ Dangling(driverActive[e])'
             \/ IsOpen(driverActive[e])' /\ asg'[driverActive'[e]].d = e
      BY <2>1, <2>4, <2>6, <2>7 DEF StoreOK, StoreTypeOK, KeysOK, Dangling, IsOpen
    <3> QED
      BY <3>1, <3>2, <3>3, <3>4, <3>5 DEF KeysOK
  <2>10. RecordsStep
    BY <2>3, <2>6, <2>7 DEF RecordsStep, RecordStep
  <2> QED
    BY <2>8, <2>9, <2>10 DEF StoreOK
<1> QED
  BY <1>1, <1>2

\* cancelAssignmentScript frees the rider and the driver of the ride it ends.
LEMMA CancelOK ==
    ASSUME StoreOK, NEW q \in Requests, NEW r \in Riders, NEW d \in Drivers,
           CancelScript(q, r, d)
    PROVE  StoreOK' /\ RecordsStep
<1>1. CASE CancelResult(q, r, d) # 1
  <2>1. UNCHANGED store
    BY <1>1 DEF CancelScript
  <2> QED
    BY <2>1, OtherKeysOK DEF store, StoreOK, StoreTypeOK
<1>2. CASE CancelResult(q, r, d) = 1
  <2>1. /\ status' = [status EXCEPT ![d] = IF status[d] = "busy" THEN "available" ELSE status[d]]
        /\ asg' = [asg EXCEPT ![q].st = "cancelled"]
        /\ lock' = [lock EXCEPT ![d] = None]
        /\ riderActive' = [riderActive EXCEPT ![r] = IF riderActive[r] = q THEN None ELSE riderActive[r]]
        /\ driverActive' = [driverActive EXCEPT ![d] = None]
        /\ UNCHANGED <<geo, lease>>
    BY <1>2 DEF CancelScript
  <2>2. asg[q].st = "en_route" /\ asg[q].d = d /\ asg[q].r = r /\ driverActive[d] = q
    BY <1>2 DEF CancelResult
  <2>3. riderActive[r] = q
    BY <2>2 DEF StoreOK, KeysOK
  <2>4. /\ asg'[q] = [asg[q] EXCEPT !.st = "cancelled"]
        /\ \A o \in Requests \ {q} : asg'[o] = asg[o]
    BY <2>1 DEF StoreOK, StoreTypeOK
  <2>5. asg'[q] \in Assignment /\ asg'[q].st = "cancelled" /\ asg'[q].r = r /\ asg'[q].d = d
    BY <2>2, <2>4 DEF StoreOK, StoreTypeOK, Assignment
  <2>6. StoreTypeOK'
    BY <2>1, <2>4, <2>5 DEF StoreOK, StoreTypeOK, DriverStatus
  <2>7. /\ riderActive'[r] = None /\ \A e \in Riders \ {r} : riderActive'[e] = riderActive[e]
        /\ driverActive'[d] = None /\ \A e \in Drivers \ {d} : driverActive'[e] = driverActive[e]
    BY <2>1, <2>3 DEF StoreOK, StoreTypeOK
  <2>8. /\ \A e \in Riders \ {r} : riderActive[e] # q
        /\ \A e \in Drivers \ {d} : driverActive[e] # q
    BY <2>2, NoneAssumption DEF StoreOK, KeysOK, Dangling, IsOpen
  <2>9. KeysOK'
    <3>1. ASSUME NEW o \in Requests \ {q}, IsOpen(o)
          PROVE  /\ riderActive[asg[o].r] = o => riderActive'[asg'[o].r] = o
                 /\ driverActive[asg[o].d] = o => driverActive'[asg'[o].d] = o
                 /\ riderActive'[asg'[o].r] = o => riderActive[asg[o].r] = o
                 /\ driverActive'[asg'[o].d] = o => driverActive[asg[o].d] = o
      <4>1. asg[o].r \in Riders /\ asg[o].d \in Drivers
        BY <3>1 DEF StoreOK, KeysOK, IsOpen, Exists
      <4> QED
        BY <2>2, <2>3, <2>4, <2>7, <4>1, NoneAssumption
    <3>2. \A o \in Requests : Exists(o)' => asg'[o].r \in Riders /\ asg'[o].d \in Drivers
      BY <2>4, <2>5 DEF StoreOK, KeysOK, Exists
    <3>3. ASSUME NEW o \in Requests, asg'[o].st = "en_route"
          PROVE  riderActive'[asg'[o].r] = o /\ driverActive'[asg'[o].d] = o
      <4>1. o # q /\ asg[o].st = "en_route"
        BY <2>4, <2>5, <3>3
      <4>2. riderActive[asg[o].r] = o /\ driverActive[asg[o].d] = o
        BY <4>1 DEF StoreOK, KeysOK
      <4> QED
        BY <3>1, <4>1, <4>2 DEF IsOpen
    <3>4. ASSUME NEW o \in Requests, asg'[o].st = "arrived"
          PROVE  riderActive'[asg'[o].r] = o <=> driverActive'[asg'[o].d] = o
      <4>1. o # q /\ asg[o].st = "arrived"
        BY <2>4, <2>5, <3>4
      <4>2. riderActive[asg[o].r] = o <=> driverActive[asg[o].d] = o
        BY <4>1 DEF StoreOK, KeysOK
      <4> QED
        BY <3>1, <4>1, <4>2 DEF IsOpen
    <3>5. \A e \in Riders : riderActive'[e] # None =>
             \/ Dangling(riderActive[e])'
             \/ IsOpen(riderActive[e])' /\ asg'[riderActive'[e]].r = e
      BY <2>4, <2>7, <2>8 DEF StoreOK, StoreTypeOK, KeysOK, Dangling, IsOpen
    <3>6. \A e \in Drivers : driverActive'[e] # None =>
             \/ Dangling(driverActive[e])'
             \/ IsOpen(driverActive[e])' /\ asg'[driverActive'[e]].d = e
      BY <2>4, <2>7, <2>8 DEF StoreOK, StoreTypeOK, KeysOK, Dangling, IsOpen
    <3> QED
      BY <3>2, <3>3, <3>4, <3>5, <3>6 DEF KeysOK
  <2>10. RecordsStep
    BY <2>2, <2>4, <2>5 DEF RecordsStep, RecordStep
  <2> QED
    BY <2>6, <2>9, <2>10 DEF StoreOK
<1> QED
  BY <1>1, <1>2

\* arriveAssignmentScript keeps both keys of the ride.
LEMMA ArriveOK ==
    ASSUME StoreOK, NEW q \in Requests, NEW r \in Riders, NEW d \in Drivers,
           ArriveScript(q, r, d)
    PROVE  StoreOK' /\ RecordsStep
<1>1. CASE ArriveResult(q, r, d) # 1
  <2>1. asg' = asg
    <3>1. asg' = [asg EXCEPT ![q].st = asg[q].st]
      BY <1>1 DEF ArriveScript
    <3> QED
      BY <3>1 DEF StoreOK, StoreTypeOK, Assignment
  <2> QED
    BY <2>1, OtherKeysOK DEF ArriveScript, StoreOK, StoreTypeOK
<1>2. CASE ArriveResult(q, r, d) = 1
  <2>1. asg[q].st = "en_route"
    BY <1>2 DEF ArriveResult
  <2>2. /\ asg' = [asg EXCEPT ![q].st = "arrived"]
        /\ UNCHANGED <<status, lock, riderActive, driverActive, geo, lease>>
    BY <1>2 DEF ArriveScript
  <2>3. /\ asg'[q] = [asg[q] EXCEPT !.st = "arrived"]
        /\ \A o \in Requests \ {q} : asg'[o] = asg[o]
    BY <2>2 DEF StoreOK, StoreTypeOK
  <2>4. /\ asg'[q] \in Assignment /\ asg'[q].st = "arrived"
        /\ asg'[q].r = asg[q].r /\ asg'[q].d = asg[q].d
    BY <2>3 DEF StoreOK, StoreTypeOK, Assignment
  <2>5. StoreTypeOK'
    BY <2>2, <2>3, <2>4 DEF StoreOK, StoreTypeOK
  <2>6. KeysOK'
    BY <2>1, <2>2, <2>3, <2>4 DEF StoreOK, StoreTypeOK, KeysOK, Exists, IsOpen, Dangling
  <2>7. RecordsStep
    BY <2>1, <2>3, <2>4 DEF RecordsStep, RecordStep
  <2> QED
    BY <2>5, <2>6, <2>7 DEF StoreOK
<1> QED
  BY <1>1, <1>2

\* Deleting keys that name the request q, if it is expired, or both of its
\* keys if it is closed thereby, orphans no ride.
LEMMA ClearKeysOK ==
    ASSUME StoreOK, NEW q \in Requests,
           asg[q].st \notin {"none", "en_route"},
           UNCHANGED <<status, lock, asg, geo, lease>>,
           riderActive' \in [Riders -> Requests \cup {None}],
           driverActive' \in [Drivers -> Requests \cup {None}],
           \A r \in Riders : riderActive'[r] = riderActive[r]
                                \/ (riderActive[r] = q /\ riderActive'[r] = None),
           \A d \in Drivers : driverActive'[d] = driverActive[d]
                                \/ (driverActive[d] = q /\ driverActive'[d] = None),
           asg[q].st = "arrived" =>
               riderActive'[asg[q].r] # q /\ driverActive'[asg[q].d] # q
    PROVE  StoreOK' /\ RecordsStep
<1>1. StoreTypeOK'
  BY DEF StoreOK, StoreTypeOK
<1>2. RecordsStep
  BY DEF RecordsStep, RecordStep
<1>3. \A o \in Requests \ {q} : IsOpen(o) =>
         /\ riderActive[asg[o].r] = o <=> riderActive'[asg[o].r] = o
         /\ driverActive[asg[o].d] = o <=> driverActive'[asg[o].d] = o
  BY NoneAssumption DEF StoreOK, KeysOK, IsOpen, Exists
<1>4. KeysOK'
  BY <1>3, NoneAssumption DEF StoreOK, StoreTypeOK, KeysOK, Exists, IsOpen, Dangling
<1> QED
  BY <1>1, <1>2, <1>4 DEF StoreOK

\* clearActiveAssignmentScript on a rider's key whose ride has expired.
LEMMA ClearActiveOK ==
    ASSUME StoreOK, NEW q \in Requests, NEW r \in Riders,
           asg[q].st = "expired", ClearActiveScript(r, q)
    PROVE  StoreOK' /\ RecordsStep
<1>1. /\ riderActive' \in [Riders -> Requests \cup {None}]
      /\ \A e \in Riders : riderActive'[e] = riderActive[e]
                              \/ (riderActive[e] = q /\ riderActive'[e] = None)
      /\ UNCHANGED <<status, lock, asg, driverActive, geo, lease>>
  BY DEF ClearActiveScript, StoreOK, StoreTypeOK
<1>2. driverActive' \in [Drivers -> Requests \cup {None}]
  BY <1>1 DEF StoreOK, StoreTypeOK
<1>3. asg[q].st \notin {"none", "en_route", "arrived"}
  OBVIOUS
<1> QED
  BY <1>1, <1>2, <1>3, ClearKeysOK

\* clearResetAssignmentScript closes an arrived ride, or does nothing to one.
LEMMA ClearResetOK ==
    ASSUME StoreOK, NEW q \in Requests, NEW r \in Riders, NEW d \in Drivers,
           asg[q].st \notin {"none", "en_route"},
           asg[q].st = "arrived" => asg[q].r = r /\ asg[q].d = d,
           ClearResetScript(r, d, q)
    PROVE  StoreOK' /\ RecordsStep
<1>1. /\ riderActive' \in [Riders -> Requests \cup {None}]
      /\ \A e \in Riders : riderActive'[e] = riderActive[e]
                              \/ (riderActive[e] = q /\ riderActive'[e] = None)
      /\ riderActive'[r] # q
  BY NoneAssumption DEF ClearResetScript, StoreOK, StoreTypeOK
<1>2. /\ driverActive' \in [Drivers -> Requests \cup {None}]
      /\ \A e \in Drivers : driverActive'[e] = driverActive[e]
                              \/ (driverActive[e] = q /\ driverActive'[e] = None)
      /\ driverActive'[d] # q
  BY NoneAssumption DEF ClearResetScript, StoreOK, StoreTypeOK
<1>3. UNCHANGED <<status, lock, asg, geo, lease>>
  BY DEF ClearResetScript
<1> QED
  BY <1>1, <1>2, <1>3, ClearKeysOK

\* The record of a ride expires and leaves its keys dangling.
LEMMA AssignmentExpiresOK ==
    ASSUME StoreOK, NEW q \in Requests, ~InDispatch(q), AssignmentExpires(q)
    PROVE  StoreOK' /\ RecordsStep
<1>1. Expired \in Assignment /\ Expired.st = "expired"
  BY DEF Expired, NoRide, Assignment
<1>2. /\ asg'[q] = Expired
      /\ \A o \in Requests \ {q} : asg'[o] = asg[o]
      /\ UNCHANGED <<status, lock, riderActive, driverActive, geo, lease>>
  BY DEF AssignmentExpires, StoreOK, StoreTypeOK
<1>3. StoreTypeOK'
  BY <1>1 DEF AssignmentExpires, StoreOK, StoreTypeOK
<1>4. KeysOK'
  BY <1>1, <1>2, NoneAssumption DEF StoreOK, StoreTypeOK, KeysOK, Exists, IsOpen, Dangling
<1>5. RecordsStep
  BY <1>2 DEF RecordsStep, RecordStep, AssignmentExpires
<1> QED
  BY <1>3, <1>4, <1>5 DEF StoreOK

-----------------------------------------------------------------------------
(* Handlers: what a handler remembers stays true while others change the   *)
(* rides, and a call leads to a state its next call can rely on.           *)

\* The memory of a handler that does not move.
LEMMA KeepsLocalOK ==
    ASSUME IInv, RecordsStep, NEW p \in Procs
    PROVE  LocalOK(h[p], asg')
<1> DEFINE s == h[p]
           q == h[p].q
<1>1. s \in HandlerState /\ LocalOK(s, asg)
  BY DEF IInv, TypeOK, HandlersOK
<1>2. s.pc \in DispatchPCs => asg'[q].st # "expired"
  BY <1>1 DEF LocalOK, RecordsStep, RecordStep, InDispatch
<1>3. s.pc \in ResetPCs \ {"resetKey"} =>
         /\ asg'[q].st # "none"
         /\ asg'[q].st # "expired" => asg[q].st # "expired" /\ asg'[q].r = asg[q].r /\ asg'[q].d = asg[q].d
         /\ asg[q].st # "en_route" => asg'[q].st # "en_route"
         /\ asg[q].st = "expired" => asg'[q].st = "expired"
  BY <1>1 DEF LocalOK, RecordsStep, RecordStep, Exists, Expired, NoRide
<1> HIDE DEF s, q
<1>4. LocalOK(s, asg')
  BY <1>1, <1>2, <1>3 DEF LocalOK, DispatchPCs, ResetPCs, q, s
<1> QED
  BY <1>4 DEF s

\* A handler moves to the state s.
LEMMA MoveOK ==
    ASSUME IInv, RecordsStep, NEW p \in Procs, NEW s \in HandlerState, LocalOK(s, asg'),
           h' = [h EXCEPT ![p] = s]
    PROVE  h' \in [Procs -> HandlerState] /\ HandlersOK'
<1>1. h \in [Procs -> HandlerState]
  BY DEF IInv, TypeOK
<1>2. \A o \in Procs : h'[o] = s \/ h'[o] = h[o]
  BY <1>1
<1>3. \A o \in Procs : LocalOK(h'[o], asg')
  BY <1>2, KeepsLocalOK
<1> QED
  BY <1>1, <1>3 DEF HandlersOK

\* A call with any outcome whose reply leads to the state s.
LEMMA ProceedOK ==
    ASSUME IInv, RecordsStep, NEW p \in Procs, NEW k \in Outcomes, NEW s \in HandlerState,
           LocalOK(s, asg'), Proceed(p, k, s)
    PROVE  h' \in [Procs -> HandlerState] /\ HandlersOK'
<1>1. h[p] \in HandlerState /\ LocalOK(h[p], asg')
  BY KeepsLocalOK DEF IInv, TypeOK
<1>2. OnError(h[p]) \in HandlerState /\ LocalOK(OnError(h[p]), asg')
  BY <1>1, OnErrorOK
<1>3. \E t \in {s, h[p], OnError(h[p])} : h' = [h EXCEPT ![p] = t]
  BY DEF Proceed, Outcomes
<1> QED
  BY <1>1, <1>2, <1>3, MoveOK

\* The next candidate of a dispatch request in state s.
LEMMA NextCandidateOK ==
    ASSUME NEW s \in HandlerState, NEW A, s.q \in Requests, A[s.q].st # "expired"
    PROVE  NextCandidate(s) \in HandlerState /\ LocalOK(NextCandidate(s), A)
<1>1. CASE NextCandidate(s) = Idle
  BY <1>1, IdleOK
<1>2. CASE NextCandidate(s) # Idle
  <2>1. /\ NextCandidate(s) \in HandlerState
        /\ NextCandidate(s).pc = "lock" /\ NextCandidate(s).d \in Drivers /\ NextCandidate(s).q = s.q
    BY <1>2, NextCandidateType
  <2> QED
    BY <2>1 DEF LocalOK, DispatchPCs, ResetPCs
<1> QED
  BY <1>1, <1>2

\* A dispatch request that stays with its candidate.
LEMMA GotoOK ==
    ASSUME NEW s \in HandlerState, NEW A, LocalOK(s, A),
           s.pc \in DispatchPCs \ {"ride", "nearby", "statuses"},
           NEW pc \in DispatchPCs \ {"ride", "nearby", "statuses"},
           pc = "create" => s.r \in Riders
    PROVE  Goto(s, pc) \in HandlerState /\ LocalOK(Goto(s, pc), A)
<1>1. Goto(s, pc) = [s EXCEPT !.pc = pc]
  BY DEF Goto
<1> QED
  BY <1>1 DEF HandlerState, LocalOK, DispatchPCs, ResetPCs

-----------------------------------------------------------------------------
(* Every step preserves the inductive invariant.                           *)

\* The commands and scripts that write no ride key.
PlainCall ==
    \/ UNCHANGED store
    \/ \E d \in Drivers, s \in DriverStatus : SetStatus(d, s)
    \/ \E d \in Drivers : SetBusyScript(d) \/ RefreshScript(d) \/ LockExpires(d)
    \/ \E d \in Drivers, q \in Requests : SetNX(d, q) \/ UnlockScript(d, q)
    \/ \E d \in Drivers, x \in Places : GeoAdd(d, x)
    \/ \E s \in Sessions, force, clearLocks \in BOOLEAN : ResetLeaseScript(s, force, clearLocks)
    \/ LeaseExpires

\* They leave the rides alone.
LEMMA PlainCallOK ==
    ASSUME StoreOK, PlainCall
    PROVE  StoreOK' /\ RecordsStep /\ asg' = asg
<1>1. UNCHANGED <<asg, riderActive, driverActive>>
  BY DEF PlainCall, store, SetStatus, SetBusyScript, RefreshScript, LockExpires, SetNX,
         UnlockScript, GeoAdd, ResetLeaseScript, LeaseExpires
<1>2. KeysOK' /\ RecordsStep
  BY <1>1, OtherKeysOK
<1>3. StoreTypeOK'
  <2>1. CASE UNCHANGED store
    BY <2>1 DEF store, StoreOK, StoreTypeOK
  <2>2. CASE \E d \in Drivers, s \in DriverStatus : SetStatus(d, s)
    BY <2>2 DEF SetStatus, StoreOK, StoreTypeOK
  <2>3. ASSUME NEW d \in Drivers, SetBusyScript(d) \/ RefreshScript(d) \/ LockExpires(d)
        PROVE  StoreTypeOK'
    BY <2>3 DEF SetBusyScript, RefreshScript, LockExpires, StoreOK, StoreTypeOK, DriverStatus
  <2>4. ASSUME NEW d \in Drivers, NEW q \in Requests, SetNX(d, q) \/ UnlockScript(d, q)
        PROVE  StoreTypeOK'
    BY <2>4 DEF SetNX, UnlockScript, StoreOK, StoreTypeOK
  <2>5. CASE \E d \in Drivers, x \in Places : GeoAdd(d, x)
    BY <2>5 DEF GeoAdd, StoreOK, StoreTypeOK
  <2>6. ASSUME NEW s \in Sessions, NEW force \in BOOLEAN, NEW clearLocks \in BOOLEAN,
               ResetLeaseScript(s, force, clearLocks)
        PROVE  StoreTypeOK'
    BY <2>6 DEF ResetLeaseScript, store, StoreOK, StoreTypeOK
  <2>7. CASE LeaseExpires
    BY <2>7 DEF LeaseExpires, StoreOK, StoreTypeOK
  <2> QED
    BY <2>1, <2>2, <2>3, <2>4, <2>5, <2>6, <2>7 DEF PlainCall
<1> QED
  BY <1>1, <1>2, <1>3 DEF StoreOK

\* A call of handler p that keeps the store in order and leads to a state its
\* next call can rely on.
LEMMA CallOK ==
    ASSUME IInv, StoreOK', RecordsStep, NEW p \in Procs, NEW k \in Outcomes,
           NEW s \in HandlerState, LocalOK(s, asg'), Proceed(p, k, s)
    PROVE  IInv'
<1>1. h' \in [Procs -> HandlerState] /\ HandlersOK'
  BY ProceedOK
<1> QED
  BY <1>1 DEF IInv, TypeOK, StoreOK

\* The same for a call that writes no ride key.
LEMMA PlainStepOK ==
    ASSUME IInv, PlainCall, NEW p \in Procs, NEW k \in Outcomes,
           NEW s \in HandlerState, LocalOK(s, asg), Proceed(p, k, s)
    PROVE  IInv'
<1>1. StoreOK' /\ RecordsStep /\ asg' = asg
  BY PlainCallOK DEF IInv, TypeOK, StoreOK
<1> QED
  BY <1>1, CallOK

\* The steps of a dispatch request.
LEMMA DispatchStepOK ==
    ASSUME IInv, NEW p \in Procs, NEW k \in Outcomes, DispatchStep(p, k)
    PROVE  IInv'
<1> DEFINE s == h[p]
<1>1. s \in HandlerState /\ LocalOK(s, asg) /\ StoreOK
  BY DEF IInv, TypeOK, HandlersOK, StoreOK
<1>2. /\ s.pc \in DispatchPCs => s.q \in Requests /\ asg[s.q].st # "expired"
      /\ s.pc \in DispatchPCs \ {"ride", "nearby", "statuses"} => s.d \in Drivers
      /\ s.pc = "create" => s.r \in Riders
  BY <1>1 DEF LocalOK
<1>3. CASE ReadActiveRide(p, k)
  <2> DEFINE t == IF IsOpen(s.a) THEN Idle ELSE [s EXCEPT !.pc = "nearby", !.a = None]
  <2>1. s.pc = "ride" /\ PlainCall /\ Proceed(p, k, t)
    BY <1>3 DEF ReadActiveRide, At, PlainCall
  <2>2. t \in HandlerState /\ LocalOK(t, asg)
    <3>1. CASE IsOpen(s.a)
      BY <3>1, IdleOK
    <3>2. CASE ~IsOpen(s.a)
      <4>1. t = [s EXCEPT !.pc = "nearby", !.a = None]
        BY <3>2
      <4> HIDE DEF t
      <4>2. t \in HandlerState /\ t.pc = "nearby" /\ t.q = s.q
        BY <1>1, <4>1 DEF HandlerState, DispatchPCs
      <4> QED
        BY <1>2, <2>1, <4>2 DEF LocalOK, DispatchPCs, ResetPCs
    <3> QED
      BY <3>1, <3>2
  <2> QED
    BY <2>1, <2>2, PlainStepOK
<1>4. CASE FindNearby(p, k)
  <2>1. PICK x \in Places, radius \in Radii : \E u \in NearbyOrders(x, radius) :
          Proceed(p, k, IF u = <<>> THEN Idle ELSE [s EXCEPT !.pc = "statuses", !.todo = u])
    BY <1>4 DEF FindNearby
  <2>2. PICK u \in NearbyOrders(x, radius) :
          Proceed(p, k, IF u = <<>> THEN Idle ELSE [s EXCEPT !.pc = "statuses", !.todo = u])
    BY <2>1
  <2> DEFINE t == IF u = <<>> THEN Idle ELSE [s EXCEPT !.pc = "statuses", !.todo = u]
  <2>3. s.pc = "nearby" /\ PlainCall
    BY <1>4 DEF FindNearby, At, PlainCall
  <2>4. u \in Seq(Drivers)
    <3> DEFINE In == {d \in Drivers : geo[d] # None /\ Distance[<<x, geo[d]>>] <= radius}
    <3>1. IsFiniteSet(In)
      BY DriversAssumption, FS_Subset
    <3>2. Cardinality(In) \in Nat
      BY <3>1, FS_CardinalityType
    <3>3. u \in [1..Cardinality(In) -> In]
      BY <2>2 DEF NearbyOrders, SetToSeqs
    <3>4. \A i \in 1..Cardinality(In) : u[i] \in Drivers
      BY <3>3
    <3> HIDE DEF In
    <3>5. u \in [1..Cardinality(In) -> Drivers]
      BY <3>3, <3>4
    <3> QED
      BY <3>2, <3>5
  <2>5. t \in HandlerState /\ LocalOK(t, asg)
    <3>1. CASE u = <<>>
      BY <3>1, IdleOK
    <3>2. CASE u # <<>>
      <4>1. t = [s EXCEPT !.pc = "statuses", !.todo = u]
        BY <3>2
      <4> HIDE DEF t
      <4>2. t \in HandlerState /\ t.pc = "statuses" /\ t.q = s.q
        BY <1>1, <2>4, <4>1 DEF HandlerState, DispatchPCs
      <4> QED
        BY <1>2, <2>3, <4>2 DEF LocalOK, DispatchPCs, ResetPCs
    <3> QED
      BY <3>1, <3>2
  <2> QED
    BY <2>2, <2>3, <2>5, PlainStepOK
<1>5. CASE GetStatuses(p, k)
  <2> DEFINE u == [s EXCEPT !.avail = {d \in Drivers : status[d] = "available"}]
  <2>1. s.pc = "statuses" /\ PlainCall /\ Proceed(p, k, NextCandidate(u))
    BY <1>5 DEF GetStatuses, At, PlainCall
  <2>2. u \in HandlerState /\ u.q \in Requests /\ asg[u.q].st # "expired"
    BY <1>1, <1>2, <2>1 DEF HandlerState, DispatchPCs
  <2> QED
    BY <2>1, <2>2, NextCandidateOK, PlainStepOK
<1>6. CASE TryLock(p, k)
  <2>1. s.pc = "lock" /\ s.q \in Requests /\ s.d \in Drivers /\ asg[s.q].st # "expired"
    BY <1>2, <1>6 DEF TryLock, At, DispatchPCs
  <2>2. PlainCall /\ \E t \in {Goto(s, "owner"), NextCandidate(s)} : Proceed(p, k, t)
    BY <1>6, <2>1 DEF TryLock, PlainCall
  <2>3. \A t \in {Goto(s, "owner"), NextCandidate(s)} : t \in HandlerState /\ LocalOK(t, asg)
    BY <1>1, <2>1, GotoOK, NextCandidateOK DEF DispatchPCs
  <2> QED
    BY <2>2, <2>3, PlainStepOK
<1>7. CASE CheckOwner(p, k)
  <2>1. s.pc = "owner" /\ PlainCall /\ \E t \in {Goto(s, "busy"), Goto(s, "unlockNext")} : Proceed(p, k, t)
    BY <1>7 DEF CheckOwner, At, PlainCall
  <2>2. \A t \in {Goto(s, "busy"), Goto(s, "unlockNext")} : t \in HandlerState /\ LocalOK(t, asg)
    BY <1>1, <2>1, GotoOK DEF DispatchPCs
  <2> QED
    BY <2>1, <2>2, PlainStepOK
<1>8. CASE SetBusy(p, k)
  <2>1. s.pc = "busy" /\ s.d \in Drivers
    BY <1>2, <1>8 DEF SetBusy, At, DispatchPCs
  <2>2. PlainCall
    BY <1>8, <2>1 DEF SetBusy, PlainCall
  <2>3. \/ \E t \in {Goto(s, "unlockNext"), Idle} : Proceed(p, k, t)
        \/ s.r # None /\ Proceed(p, k, Goto(s, "create"))
    BY <1>8 DEF SetBusy
  <2>4. \A t \in {Goto(s, "unlockNext"), Idle} : t \in HandlerState /\ LocalOK(t, asg)
    BY <1>1, <2>1, GotoOK, IdleOK DEF DispatchPCs
  <2>5. s.r # None => Goto(s, "create") \in HandlerState /\ LocalOK(Goto(s, "create"), asg)
    <3>1. s.r # None => s.r \in Riders
      BY <1>1 DEF HandlerState
    <3> QED
      BY <1>1, <2>1, <3>1, GotoOK DEF DispatchPCs
  <2> QED
    BY <2>2, <2>3, <2>4, <2>5, PlainStepOK
<1>9. CASE Create(p, k)
  <2>1. s.pc = "create" /\ s.q \in Requests /\ s.r \in Riders /\ s.d \in Drivers /\ asg[s.q].st # "expired"
    BY <1>2, <1>9 DEF Create, At, DispatchPCs
  <2>2. StoreOK' /\ RecordsStep
    BY <1>1, <1>9, <2>1, CreateOK DEF Create
  <2>3. \E t \in {Idle, Goto(s, "confUnlock"), Goto(s, "relUnlock")} : Proceed(p, k, t)
    BY <1>9 DEF Create
  <2>4. LocalOK(s, asg')
    BY <2>2, KeepsLocalOK
  <2>5. \A t \in {Idle, Goto(s, "confUnlock"), Goto(s, "relUnlock")} :
           t \in HandlerState /\ LocalOK(t, asg')
    BY <1>1, <2>1, <2>4, GotoOK, IdleOK DEF DispatchPCs
  <2> QED
    BY <2>2, <2>3, <2>5, CallOK
<1>10. CASE UnlockAndContinue(p, k) \/ UnlockAndReturn(p, k) \/ ReleaseUnlock(p, k) \/ ConflictUnlock(p, k)
  <2>1. /\ s.pc \in {"unlockNext", "unlockErr", "relUnlock", "confUnlock"}
        /\ s.q \in Requests /\ s.d \in Drivers /\ asg[s.q].st # "expired"
    BY <1>2, <1>10 DEF UnlockAndContinue, UnlockAndReturn, ReleaseUnlock, ConflictUnlock, At, DispatchPCs
  <2>2. PlainCall
    BY <1>10, <2>1 DEF UnlockAndContinue, UnlockAndReturn, ReleaseUnlock, ConflictUnlock, PlainCall
  <2>3. \E t \in {Idle, NextCandidate(s), Goto(s, "relAvail"), Goto(s, "confRefresh")} : Proceed(p, k, t)
    BY <1>10 DEF UnlockAndContinue, UnlockAndReturn, ReleaseUnlock, ConflictUnlock
  <2>4. \A t \in {Idle, NextCandidate(s), Goto(s, "relAvail"), Goto(s, "confRefresh")} :
           t \in HandlerState /\ LocalOK(t, asg)
    BY <1>1, <2>1, GotoOK, IdleOK, NextCandidateOK DEF DispatchPCs
  <2> QED
    BY <2>2, <2>3, <2>4, PlainStepOK
<1>11. CASE ReleaseSetAvailable(p, k) \/ ConflictRefresh(p, k) \/ ConflictSetAvailable(p, k)
  <2>1. /\ s.pc \in {"relAvail", "confRefresh", "confAvail"}
        /\ s.q \in Requests /\ s.d \in Drivers /\ asg[s.q].st # "expired"
    BY <1>2, <1>11 DEF ReleaseSetAvailable, ConflictRefresh, ConflictSetAvailable, At, DispatchPCs
  <2>2. PlainCall
    BY <1>11, <2>1 DEF ReleaseSetAvailable, ConflictRefresh, ConflictSetAvailable, PlainCall, DriverStatus
  <2>3. \E t \in {Idle, NextCandidate(s), Goto(s, "confAvail")} : Proceed(p, k, t)
    BY <1>11 DEF ReleaseSetAvailable, ConflictRefresh, ConflictSetAvailable
  <2>4. \A t \in {Idle, NextCandidate(s), Goto(s, "confAvail")} : t \in HandlerState /\ LocalOK(t, asg)
    BY <1>1, <2>1, GotoOK, IdleOK, NextCandidateOK DEF DispatchPCs
  <2> QED
    BY <2>2, <2>3, <2>4, PlainStepOK
<1> QED
  BY <1>3, <1>4, <1>5, <1>6, <1>7, <1>8, <1>9, <1>10, <1>11 DEF DispatchStep

\* A cancel, an arrival or a location update that stays with its ride.
LEMMA RideGotoOK ==
    ASSUME NEW s \in HandlerState, NEW A, NEW t \in HandlerState,
           \/ s.pc = "arriveGeo" /\ t.pc = "arriveRun"
           \/ s.pc = "locRefresh" /\ t.pc = "locBeat"
           \/ s.pc = "locBeat" /\ t.pc = "locAvail",
           t.q = s.q, t.r = s.r, t.d = s.d, LocalOK(s, A)
    PROVE  LocalOK(t, A)
  BY DEF LocalOK, DispatchPCs, ResetPCs

\* The steps of a cancel, an arrival and a location update.
LEMMA RideStepOK ==
    ASSUME IInv, NEW p \in Procs, NEW k \in Outcomes, RideStep(p, k)
    PROVE  IInv'
<1> DEFINE s == h[p]
<1>1. s \in HandlerState /\ LocalOK(s, asg) /\ StoreOK
  BY DEF IInv, TypeOK, HandlersOK, StoreOK
<1>2. /\ s.pc \in {"cancelRun", "arriveGeo", "arriveRun"} =>
            s.q \in Requests /\ s.r \in Riders /\ s.d \in Drivers
      /\ s.pc \in {"locRefresh", "locBeat", "locAvail"} => s.d \in Drivers
  BY <1>1 DEF LocalOK
<1>3. Idle \in HandlerState /\ LocalOK(Idle, asg) /\ LocalOK(Idle, asg')
  BY IdleOK
<1>4. CASE RunCancel(p, k)
  <2>1. StoreOK' /\ RecordsStep
    BY <1>1, <1>2, <1>4, CancelOK DEF RunCancel, At
  <2>2. Proceed(p, k, Idle)
    BY <1>4 DEF RunCancel
  <2> QED
    BY <1>3, <2>1, <2>2, CallOK
<1>5. CASE RunArrive(p, k)
  <2>1. StoreOK' /\ RecordsStep
    BY <1>1, <1>2, <1>5, ArriveOK DEF RunArrive, At
  <2>2. Proceed(p, k, Idle)
    BY <1>5 DEF RunArrive
  <2> QED
    BY <1>3, <2>1, <2>2, CallOK
<1>6. CASE CheckPosition(p, k)
  <2> DEFINE t == [s EXCEPT !.pc = "arriveRun", !.x = None]
  <2>1. s.pc = "arriveGeo" /\ PlainCall /\ \E u \in {t, Idle} : Proceed(p, k, u)
    BY <1>6 DEF CheckPosition, At, PlainCall
  <2>2. t \in HandlerState /\ t.pc = "arriveRun" /\ t.q = s.q /\ t.r = s.r /\ t.d = s.d
    BY <1>1 DEF HandlerState, RidePCs
  <2>3. LocalOK(t, asg)
    BY <1>1, <2>1, <2>2, RideGotoOK
  <2> QED
    BY <1>3, <2>1, <2>2, <2>3, PlainStepOK
<1>7. CASE RefreshActiveDriver(p, k)
  <2> DEFINE t == Goto(s, "locBeat")
  <2>1. s.pc = "locRefresh" /\ \E u \in {t, Idle} : Proceed(p, k, u)
    BY <1>7 DEF RefreshActiveDriver, At
  <2>2. PlainCall
    BY <1>2, <1>7, <2>1 DEF RefreshActiveDriver, PlainCall
  <2>3. t \in HandlerState /\ t.pc = "locBeat" /\ t.q = s.q /\ t.r = s.r /\ t.d = s.d
    BY <1>1 DEF HandlerState, RidePCs, Goto
  <2>4. LocalOK(t, asg)
    BY <1>1, <2>1, <2>3, RideGotoOK
  <2> QED
    BY <1>3, <2>1, <2>2, <2>3, <2>4, PlainStepOK
<1>8. CASE Heartbeat(p, k)
  <2> DEFINE t == Goto(s, "locAvail")
  <2>1. s.pc = "locBeat" /\ PlainCall /\ \E u \in {t, Idle} : Proceed(p, k, u)
    BY <1>8 DEF Heartbeat, At, PlainCall
  <2>2. t \in HandlerState /\ t.pc = "locAvail" /\ t.q = s.q /\ t.r = s.r /\ t.d = s.d
    BY <1>1 DEF HandlerState, RidePCs, Goto
  <2>3. LocalOK(t, asg)
    BY <1>1, <2>1, <2>2, RideGotoOK
  <2> QED
    BY <1>3, <2>1, <2>2, <2>3, PlainStepOK
<1>9. CASE BringOnline(p, k)
  <2>1. s.pc = "locAvail" /\ Proceed(p, k, Idle)
    BY <1>9 DEF BringOnline, At
  <2>2. PlainCall
    BY <1>2, <1>9, <2>1 DEF BringOnline, PlainCall, DriverStatus
  <2> QED
    BY <1>3, <2>1, <2>2, PlainStepOK
<1> QED
  BY <1>4, <1>5, <1>6, <1>7, <1>8, <1>9 DEF RideStep

\* A demo reset goes on to its next rider, or ends.
LEMMA NextRiderOK ==
    ASSUME NEW s \in HandlerState, NEW A
    PROVE  NextRider(s) \in HandlerState /\ LocalOK(NextRider(s), A)
<1>1. CASE s.n < Len(DemoRiders)
  <2> DEFINE t == [Idle EXCEPT !.pc = "resetKey", !.n = s.n + 1]
  <2>1. s.n \in Nat /\ s.n + 1 \in Nat /\ Len(DemoRiders) \in Nat
    BY DemoRidersAssumption DEF HandlerState
  <2>2. t \in HandlerState /\ t.pc = "resetKey" /\ t.n = s.n + 1
    <3>1. Idle \in HandlerState
      BY IdleOK
    <3> QED
      BY <2>1, <3>1 DEF HandlerState, ResetPCs
  <2>3. NextRider(s) = t
    BY <1>1 DEF NextRider
  <2> HIDE DEF t
  <2>4. t.n \in 1..Len(DemoRiders)
    BY <1>1, <2>1, <2>2
  <2> QED
    BY <2>2, <2>3, <2>4 DEF LocalOK, DispatchPCs, ResetPCs
<1>2. CASE ~(s.n < Len(DemoRiders))
  BY <1>2, IdleOK DEF NextRider
<1> QED
  BY <1>1, <1>2

\* The steps of a demo reset.
LEMMA ResetStepOK ==
    ASSUME IInv, NEW p \in Procs, NEW k \in Outcomes, ResetStep(p, k)
    PROVE  IInv'
<1> DEFINE s == h[p]
           rider == DemoRiders[s.n]
<1>1. s \in HandlerState /\ LocalOK(s, asg) /\ StoreOK
  BY DEF IInv, TypeOK, HandlersOK, StoreOK
<1>2. /\ s.pc \in ResetPCs => s.n \in 1..Len(DemoRiders)
      /\ s.pc \in ResetPCs \ {"resetKey"} =>
            /\ s.q \in Requests /\ asg[s.q].st # "none"
            /\ asg[s.q].st # "expired" => asg[s.q].r = rider
      /\ s.pc \in {"resetCancelGet", "resetCancelRun", "resetClear"} =>
            s.d \in Drivers /\ (asg[s.q].st # "expired" => asg[s.q].d = s.d)
      /\ s.pc = "resetCancelRun" =>
            s.r \in Riders /\ (asg[s.q].st # "expired" => asg[s.q].r = s.r)
      /\ s.pc = "resetClear" => asg[s.q].st # "en_route"
      /\ s.pc = "resetClearActive" => asg[s.q].st = "expired"
  BY <1>1 DEF LocalOK
<1>3. s.pc \in ResetPCs => rider \in Riders
  BY <1>2, DemoRidersAssumption
<1>4. /\ Idle \in HandlerState /\ LocalOK(Idle, asg) /\ LocalOK(Idle, asg')
      /\ NextRider(s) \in HandlerState /\ LocalOK(NextRider(s), asg) /\ LocalOK(NextRider(s), asg')
  BY <1>1, IdleOK, NextRiderOK
<1> HIDE DEF rider
<1>5. CASE ResetReadKey(p, k)
  <2> DEFINE q == riderActive[rider]
             t == [s EXCEPT !.pc = "resetGet", !.q = q]
  <2>1. s.pc = "resetKey" /\ PlainCall
    BY <1>5 DEF ResetReadKey, At, PlainCall
  <2>2. Proceed(p, k, NextRider(s)) \/ (q # None /\ Proceed(p, k, t))
    BY <1>5 DEF ResetReadKey, rider
  <2>3. ASSUME q # None
        PROVE  t \in HandlerState /\ LocalOK(t, asg)
    <3>1. rider \in Riders /\ s.n \in 1..Len(DemoRiders)
      BY <1>2, <1>3, <2>1 DEF ResetPCs
    <3>2. q \in Requests /\ (Dangling(q) \/ (IsOpen(q) /\ asg[q].r = rider))
      BY <1>1, <2>3, <3>1 DEF StoreOK, StoreTypeOK, KeysOK
    <3>3. asg[q].st # "none" /\ (asg[q].st # "expired" => asg[q].r = rider)
      BY <3>2 DEF Dangling, IsOpen
    <3> HIDE DEF q
    <3>4. t \in HandlerState /\ t.pc = "resetGet" /\ t.q = q /\ t.n = s.n
      BY <1>1, <3>2 DEF HandlerState, ResetPCs
    <3> HIDE DEF t
    <3> QED
      BY <3>1, <3>2, <3>3, <3>4 DEF LocalOK, DispatchPCs, ResetPCs, rider
  <2> QED
    BY <1>4, <2>1, <2>2, <2>3, PlainStepOK
<1>6. CASE ResetReadRide(p, k)
  <2> DEFINE ride == asg[s.q]
             pc == IF ride.st = "en_route" THEN "resetCancelGet" ELSE "resetClear"
             t == [s EXCEPT !.d = ride.d, !.pc = pc]
  <2>1. s.pc = "resetGet" /\ PlainCall
    BY <1>6 DEF ResetReadRide, At, PlainCall
  <2>2. /\ s.q \in Requests /\ ride.st # "none" /\ (ride.st # "expired" => ride.r = rider)
        /\ s.n \in 1..Len(DemoRiders)
    BY <1>2, <2>1 DEF ResetPCs
  <2>3. CASE ~Exists(s.q)
    <3> DEFINE u == Goto(s, "resetClearActive")
    <3>1. Proceed(p, k, u)
      BY <1>6, <2>3 DEF ResetReadRide
    <3>2. u \in HandlerState /\ u.pc = "resetClearActive" /\ u.q = s.q /\ u.n = s.n
      BY <1>1 DEF HandlerState, ResetPCs, Goto
    <3>3. ride.st = "expired"
      BY <2>2, <2>3 DEF Exists
    <3> HIDE DEF u
    <3>4. LocalOK(u, asg)
      BY <2>2, <3>2, <3>3 DEF LocalOK, DispatchPCs, ResetPCs, rider
    <3> QED
      BY <2>1, <3>1, <3>2, <3>4, PlainStepOK
  <2>4. CASE Exists(s.q)
    <3>1. Proceed(p, k, t)
      BY <1>6, <2>4 DEF ResetReadRide
    <3>2. ride.d \in Drivers
      BY <1>1, <2>2, <2>4 DEF StoreOK, KeysOK
    <3>3. /\ t \in HandlerState /\ t.q = s.q /\ t.n = s.n /\ t.d = ride.d
          /\ t.pc = IF ride.st = "en_route" THEN "resetCancelGet" ELSE "resetClear"
      <4>1. pc \in ResetPCs
        BY DEF ResetPCs
      <4> HIDE DEF pc
      <4>2. t \in HandlerState /\ t.q = s.q /\ t.n = s.n /\ t.d = ride.d /\ t.pc = pc
        BY <1>1, <3>2, <4>1 DEF HandlerState
      <4> QED
        BY <4>2 DEF pc
    <3> HIDE DEF t
    <3>4. LocalOK(t, asg)
      BY <2>2, <3>2, <3>3 DEF LocalOK, DispatchPCs, ResetPCs, rider
    <3> QED
      BY <2>1, <3>1, <3>3, <3>4, PlainStepOK
  <2> QED
    BY <2>3, <2>4
<1>7. CASE ResetCancelRead(p, k)
  <2> DEFINE t == Goto(s, "resetClear")
             u == [s EXCEPT !.pc = "resetCancelRun", !.r = asg[s.q].r]
  <2>1. s.pc = "resetCancelGet" /\ PlainCall
    BY <1>7 DEF ResetCancelRead, At, PlainCall
  <2>2. /\ s.q \in Requests /\ asg[s.q].st # "none" /\ (asg[s.q].st # "expired" => asg[s.q].r = rider)
        /\ s.n \in 1..Len(DemoRiders)
        /\ s.d \in Drivers /\ (asg[s.q].st # "expired" => asg[s.q].d = s.d)
    BY <1>2, <2>1 DEF ResetPCs
  <2>3. \/ Proceed(p, k, Idle)
        \/ asg[s.q].st # "en_route" /\ Proceed(p, k, t)
        \/ asg[s.q].st = "en_route" /\ Proceed(p, k, u)
    BY <1>7 DEF ResetCancelRead
  <2>4. ASSUME asg[s.q].st # "en_route"
        PROVE  t \in HandlerState /\ LocalOK(t, asg)
    <3>1. t \in HandlerState /\ t.pc = "resetClear" /\ t.q = s.q /\ t.n = s.n /\ t.d = s.d
      BY <1>1 DEF HandlerState, ResetPCs, Goto
    <3> HIDE DEF t
    <3> QED
      BY <2>2, <2>4, <3>1 DEF LocalOK, DispatchPCs, ResetPCs, rider
  <2>5. ASSUME asg[s.q].st = "en_route"
        PROVE  u \in HandlerState /\ LocalOK(u, asg)
    <3>1. asg[s.q].r \in Riders
      BY <1>1, <2>2, <2>5 DEF StoreOK, KeysOK, Exists
    <3>2. /\ u \in HandlerState /\ u.pc = "resetCancelRun" /\ u.q = s.q /\ u.n = s.n /\ u.d = s.d
          /\ u.r = asg[s.q].r
      BY <1>1, <3>1 DEF HandlerState, ResetPCs
    <3> HIDE DEF u
    <3> QED
      BY <2>2, <2>5, <3>1, <3>2 DEF LocalOK, DispatchPCs, ResetPCs, rider
  <2> QED
    BY <1>4, <2>1, <2>3, <2>4, <2>5, PlainStepOK
<1>8. CASE ResetCancelRun(p, k)
  <2> DEFINE t == Goto(s, "resetClear")
             result == CancelResult(s.q, s.r, s.d)
  <2>1. s.pc = "resetCancelRun" /\ CancelScript(s.q, s.r, s.d)
    BY <1>8 DEF ResetCancelRun, At
  <2>2. /\ s.q \in Requests /\ asg[s.q].st # "none" /\ (asg[s.q].st # "expired" => asg[s.q].r = rider)
        /\ s.n \in 1..Len(DemoRiders) /\ s.d \in Drivers /\ s.r \in Riders
        /\ asg[s.q].st # "expired" => asg[s.q].d = s.d /\ asg[s.q].r = s.r
    BY <1>2, <2>1 DEF ResetPCs
  <2>3. StoreOK' /\ RecordsStep
    BY <1>1, <2>1, <2>2, CancelOK
  <2>4. \/ Proceed(p, k, NextRider(s)) \/ Proceed(p, k, Idle)
        \/ result \in {0, -2} /\ Proceed(p, k, t)
    BY <1>8 DEF ResetCancelRun
  <2>5. ASSUME result \in {0, -2}
        PROVE  t \in HandlerState /\ LocalOK(t, asg')
    <3>1. asg' = asg
      BY <2>1, <2>5 DEF CancelScript, store
    <3>2. asg[s.q].st # "en_route"
      BY <2>2, <2>5 DEF CancelResult
    <3>3. t \in HandlerState /\ t.pc = "resetClear" /\ t.q = s.q /\ t.n = s.n /\ t.d = s.d
      BY <1>1 DEF HandlerState, ResetPCs, Goto
    <3> HIDE DEF t
    <3> QED
      BY <2>2, <3>1, <3>2, <3>3 DEF LocalOK, DispatchPCs, ResetPCs, rider
  <2> QED
    BY <1>4, <2>3, <2>4, <2>5, CallOK
<1>9. CASE ResetClearActive(p, k)
  <2>1. s.pc = "resetClearActive" /\ ClearActiveScript(rider, s.q) /\ Proceed(p, k, NextRider(s))
    BY <1>9 DEF ResetClearActive, At, rider
  <2>2. s.q \in Requests /\ asg[s.q].st = "expired" /\ rider \in Riders
    BY <1>2, <1>3, <2>1 DEF ResetPCs
  <2>3. StoreOK' /\ RecordsStep
    BY <1>1, <2>1, <2>2, ClearActiveOK
  <2> QED
    BY <1>4, <2>1, <2>3, CallOK
<1>10. CASE ResetClear(p, k)
  <2>1. s.pc = "resetClear" /\ ClearResetScript(rider, s.d, s.q) /\ Proceed(p, k, NextRider(s))
    BY <1>10 DEF ResetClear, At, rider
  <2>2. /\ s.q \in Requests /\ asg[s.q].st \notin {"none", "en_route"} /\ rider \in Riders /\ s.d \in Drivers
        /\ asg[s.q].st = "arrived" => asg[s.q].r = rider /\ asg[s.q].d = s.d
    BY <1>2, <1>3, <2>1 DEF ResetPCs
  <2>3. StoreOK' /\ RecordsStep
    BY <1>1, <2>1, <2>2, ClearResetOK
  <2> QED
    BY <1>4, <2>1, <2>3, CallOK
<1> QED
  BY <1>5, <1>6, <1>7, <1>8, <1>9, <1>10 DEF ResetStep

\* A step of the store that moves handler p to the state s.
LEMMA MoveStepOK ==
    ASSUME IInv, PlainCall, NEW p \in Procs, NEW s \in HandlerState, LocalOK(s, asg),
           h' = [h EXCEPT ![p] = s]
    PROVE  IInv'
<1>1. StoreOK' /\ RecordsStep /\ asg' = asg
  BY PlainCallOK DEF IInv, TypeOK, StoreOK
<1>2. h' \in [Procs -> HandlerState] /\ HandlersOK'
  BY <1>1, MoveOK
<1> QED
  BY <1>1, <1>2 DEF IInv, TypeOK, StoreOK

\* The first call of a handler.
LEMMA StartOK ==
    ASSUME IInv, NEW p \in Procs, Start(p)
    PROVE  IInv'
<1>1. StoreTypeOK /\ KeysOK /\ Idle \in HandlerState /\ LocalOK(Idle, asg)
  BY IdleOK DEF IInv, TypeOK
<1>2. ASSUME NEW q \in Requests, NEW r \in Riders, StartDispatch(p, q, r)
      PROVE  IInv'
  <2> DEFINE pc == IF riderActive[r] = None THEN "nearby" ELSE "ride"
             s == [Idle EXCEPT !.pc = pc, !.q = q, !.r = r, !.a = riderActive[r]]
  <2>1. PlainCall /\ h' = [h EXCEPT ![p] = s] /\ asg[q].st # "expired"
    BY <1>2 DEF StartDispatch, Begin, PlainCall
  <2>2. pc \in {"nearby", "ride"} /\ riderActive[r] \in Requests \cup {None}
    BY <1>1 DEF StoreTypeOK
  <2> HIDE DEF pc
  <2>3. s \in HandlerState /\ s.pc = pc /\ s.q = q
    BY <1>1, <2>2 DEF HandlerState, DispatchPCs
  <2> HIDE DEF s
  <2>4. LocalOK(s, asg)
    BY <2>1, <2>2, <2>3 DEF LocalOK, DispatchPCs, ResetPCs
  <2> QED
    BY <2>1, <2>3, <2>4, MoveStepOK
<1>3. ASSUME NEW q \in Requests, StartLegacyDispatch(p, q)
      PROVE  IInv'
  <2> DEFINE s == [Idle EXCEPT !.pc = "nearby", !.q = q]
  <2>1. PlainCall /\ h' = [h EXCEPT ![p] = s] /\ asg[q].st # "expired"
    BY <1>3 DEF StartLegacyDispatch, Begin, PlainCall
  <2>2. s \in HandlerState /\ s.pc = "nearby" /\ s.q = q
    BY <1>1 DEF HandlerState, DispatchPCs
  <2> HIDE DEF s
  <2>3. LocalOK(s, asg)
    BY <2>1, <2>2 DEF LocalOK, DispatchPCs, ResetPCs
  <2> QED
    BY <2>1, <2>2, <2>3, MoveStepOK
<1>4. ASSUME NEW q \in Requests, StartCancel(p, q) \/ StartArrive(p, q)
      PROVE  IInv'
  <2>1. asg[q].r \in Riders /\ asg[q].d \in Drivers /\ asg[q].x \in Places \cup {None}
    BY <1>1, <1>4 DEF StartCancel, StartArrive, StoreTypeOK, Assignment, KeysOK, Exists
  <2>2. PICK s \in HandlerState :
          /\ s.pc \in {"cancelRun", "arriveGeo"}
          /\ s.q = q /\ s.r = asg[q].r /\ s.d = asg[q].d
          /\ h' = [h EXCEPT ![p] = s]
    <3>1. CASE StartCancel(p, q)
      <4> DEFINE s == [Idle EXCEPT !.pc = "cancelRun", !.q = q, !.r = asg[q].r, !.d = asg[q].d]
      <4>1. h' = [h EXCEPT ![p] = s]
        BY <3>1 DEF StartCancel, Begin
      <4>2. s \in HandlerState /\ s.pc = "cancelRun" /\ s.q = q /\ s.r = asg[q].r /\ s.d = asg[q].d
        BY <1>1, <2>1 DEF HandlerState, RidePCs
      <4> QED
        BY <4>1, <4>2
    <3>2. CASE StartArrive(p, q)
      <4> DEFINE s == [Idle EXCEPT !.pc = "arriveGeo", !.q = q, !.r = asg[q].r,
                                   !.d = asg[q].d, !.x = asg[q].x]
      <4>1. h' = [h EXCEPT ![p] = s]
        BY <3>2 DEF StartArrive, Begin
      <4>2. s \in HandlerState /\ s.pc = "arriveGeo" /\ s.q = q /\ s.r = asg[q].r /\ s.d = asg[q].d
        BY <1>1, <2>1 DEF HandlerState, RidePCs
      <4> QED
        BY <4>1, <4>2
    <3> QED
      BY <1>4, <3>1, <3>2
  <2>3. PlainCall
    BY <1>4 DEF StartCancel, StartArrive, PlainCall
  <2>4. LocalOK(s, asg)
    BY <2>1, <2>2 DEF LocalOK, DispatchPCs, ResetPCs
  <2> QED
    BY <2>2, <2>3, <2>4, MoveStepOK
<1>5. ASSUME NEW d \in Drivers, NEW x \in Places, StartLocationUpdate(p, d, x)
      PROVE  IInv'
  <2> DEFINE s == [Idle EXCEPT !.pc = "locRefresh", !.d = d]
  <2>1. PlainCall /\ h' = [h EXCEPT ![p] = s]
    BY <1>5 DEF StartLocationUpdate, Begin, PlainCall
  <2>2. s \in HandlerState /\ s.pc = "locRefresh" /\ s.d = d
    BY <1>1 DEF HandlerState, RidePCs
  <2> HIDE DEF s
  <2>3. LocalOK(s, asg)
    BY <2>2 DEF LocalOK, DispatchPCs, ResetPCs
  <2> QED
    BY <2>1, <2>2, <2>3, MoveStepOK
<1>6. ASSUME NEW s \in Sessions, NEW force \in BOOLEAN, NEW clearLocks \in BOOLEAN,
             StartReset(p, s, force, clearLocks)
      PROVE  IInv'
  <2>1. PlainCall
    BY <1>6 DEF StartReset, PlainCall
  <2>2. \E t \in {Idle, NextRider(Idle)} : h' = [h EXCEPT ![p] = t]
    BY <1>6 DEF StartReset, Begin
  <2>3. NextRider(Idle) \in HandlerState /\ LocalOK(NextRider(Idle), asg)
    BY <1>1, NextRiderOK
  <2> QED
    BY <1>1, <2>1, <2>2, <2>3, MoveStepOK
<1> QED
  BY <1>2, <1>3, <1>4, <1>5, <1>6 DEF Start

\* A step of the store in which no handler moves.
LEMMA StoreStepOK ==
    ASSUME IInv, StoreOK', RecordsStep, UNCHANGED h
    PROVE  IInv'
<1>1. h' \in [Procs -> HandlerState]
  BY DEF IInv, TypeOK
<1>2. HandlersOK'
  <2>1. \A p \in Procs : LocalOK(h'[p], asg')
    BY KeepsLocalOK
  <2> QED
    BY <2>1 DEF HandlersOK
<1> QED
  BY <1>1, <1>2 DEF IInv, TypeOK, StoreOK

\* The expiry of a key.
LEMMA ExpireOK ==
    ASSUME IInv, Expire
    PROVE  IInv'
<1>1. StoreOK /\ UNCHANGED h
  BY DEF IInv, TypeOK, StoreOK, Expire
<1>2. CASE PlainCall
  BY <1>1, <1>2, PlainCallOK, StoreStepOK
<1>3. ASSUME NEW q \in Requests, ~InDispatch(q), AssignmentExpires(q)
      PROVE  IInv'
  BY <1>1, <1>3, AssignmentExpiresOK, StoreStepOK
<1>4. ASSUME NEW r \in Riders, RiderKeyExpires(r)
      PROVE  IInv'
  <2> DEFINE q == riderActive[r]
  <2>1. q \in Requests /\ asg[q].st = "expired"
    BY <1>1, <1>4 DEF RiderKeyExpires, Dangling, StoreOK, StoreTypeOK
  <2>2. ClearActiveScript(r, q)
    BY <1>4 DEF RiderKeyExpires, ClearActiveScript
  <2> HIDE DEF q
  <2> QED
    BY <1>1, <2>1, <2>2, ClearActiveOK, StoreStepOK
<1>5. ASSUME NEW d \in Drivers, DriverKeyExpires(d)
      PROVE  IInv'
  <2> DEFINE q == driverActive[d]
  <2>1. q \in Requests /\ asg[q].st = "expired"
    BY <1>1, <1>5 DEF DriverKeyExpires, Dangling, StoreOK, StoreTypeOK
  <2>2. /\ driverActive' \in [Drivers -> Requests \cup {None}]
        /\ \A e \in Drivers : driverActive'[e] = driverActive[e]
                                \/ (driverActive[e] = q /\ driverActive'[e] = None)
        /\ UNCHANGED <<status, lock, asg, riderActive, geo, lease>>
    BY <1>1, <1>5 DEF DriverKeyExpires, StoreOK, StoreTypeOK
  <2>3. riderActive' \in [Riders -> Requests \cup {None}]
    BY <1>1, <2>2 DEF StoreOK, StoreTypeOK
  <2>4. asg[q].st \notin {"none", "en_route", "arrived"}
    BY <2>1
  <2> HIDE DEF q
  <2>5. StoreOK' /\ RecordsStep
    BY <1>1, <2>1, <2>2, <2>3, <2>4, ClearKeysOK
  <2> QED
    BY <1>1, <2>5, StoreStepOK
<1>6. \/ PlainCall
      \/ \E q \in Requests : ~InDispatch(q) /\ AssignmentExpires(q)
      \/ \E r \in Riders : RiderKeyExpires(r)
      \/ \E d \in Drivers : DriverKeyExpires(d)
  BY DEF Expire, PlainCall, StatusExpires, DriverStatus
<1> QED
  BY <1>2, <1>3, <1>4, <1>5, <1>6

\* Every step of the service.
LEMMA NextOK ==
    ASSUME IInv, Next
    PROVE  IInv'
<1>1. ASSUME NEW p \in Procs, CallFails(p) \/ Abort(p)
      PROVE  IInv'
  <2>1. h[p] \in HandlerState /\ LocalOK(h[p], asg)
    BY DEF IInv, TypeOK, HandlersOK
  <2>2. \A t \in {Idle, OnError(h[p])} : t \in HandlerState /\ LocalOK(t, asg)
    BY <2>1, IdleOK, OnErrorOK
  <2>3. PlainCall /\ \E t \in {Idle, OnError(h[p])} : h' = [h EXCEPT ![p] = t]
    BY <1>1 DEF CallFails, Abort, PlainCall
  <2> QED
    BY <2>2, <2>3, MoveStepOK
<1>2. ASSUME NEW p \in Procs, NEW k \in Outcomes, Step(p, k)
      PROVE  IInv'
  BY <1>2, DispatchStepOK, RideStepOK, ResetStepOK DEF Step
<1>3. ASSUME NEW d \in Drivers,
             \/ \E s \in DriverStatus : SetDriverStatus(d, s)
             \/ \E x \in Places : AddLocation(d, x)
      PROVE  IInv'
  <2>1. PlainCall /\ UNCHANGED h
    BY <1>3 DEF SetDriverStatus, AddLocation, PlainCall
  <2> QED
    BY <2>1, PlainCallOK, StoreStepOK DEF IInv, TypeOK, StoreOK
<1> QED
  BY <1>1, <1>2, <1>3, StartOK, ExpireOK DEF Next

\* The inductive invariant holds of the initial states.
LEMMA InitOK == Init => IInv
<1> SUFFICES ASSUME Init PROVE IInv
  OBVIOUS
<1>1. NoRide \in Assignment /\ NoRide.st = "none"
  BY DEF NoRide, Assignment
<1>2. StoreTypeOK
  BY <1>1 DEF Init, StoreInit, StoreTypeOK, DriverStatus
<1>3. KeysOK
  BY <1>1 DEF Init, StoreInit, KeysOK, Exists
<1>4. h \in [Procs -> HandlerState] /\ HandlersOK
  BY IdleOK DEF Init, HandlersOK
<1> QED
  BY <1>2, <1>3, <1>4 DEF IInv, TypeOK

\* A step that changes nothing.
LEMMA StutterOK == IInv /\ UNCHANGED vars => IInv'
  BY StoreStepOK, PlainCallOK DEF vars, store, PlainCall, IInv, TypeOK, StoreOK

-----------------------------------------------------------------------------
(* The theorems.                                                           *)

\* The rider's and driver's keys agree with the rides at all times, and every
\* handler acts on rides that are still what it read.
THEOREM InductiveInvariant == Spec => []IInv
<1>1. Init => IInv
  BY InitOK
<1>2. IInv /\ [Next]_vars => IInv'
  BY NextOK, StutterOK
<1> QED
  BY <1>1, <1>2, PTL DEF Spec

\* Every key and every local variable holds what the code stores in it.
THEOREM TypeCorrect == Spec => []TypeOK
<1>1. IInv => TypeOK
  BY DEF IInv
<1> QED
  BY <1>1, InductiveInvariant, PTL

\* No cleanup orphans a ride in progress: both keys name it.
THEOREM Ownership == Spec => []RidesOwned
<1>1. IInv => RidesOwned
  BY DEF IInv, KeysOK, RidesOwned, InProgress
<1> QED
  BY <1>1, InductiveInvariant, PTL

\* No double assignment: two rides in progress share neither a driver nor a
\* rider, whatever the handlers' interleaving and whatever call fails.
THEOREM NoDoubleAssignment == Spec => []RidesExclusive
<1>1. RidesOwned => RidesExclusive
  BY DEF RidesOwned, RidesExclusive
<1> QED
  BY <1>1, Ownership, PTL

-----------------------------------------------------------------------------
(* The service implements RideLifecycle.                                   *)

\* What a step does to the store, with what the inductive invariant says of
\* the arguments of the script it runs.
StoreCall ==
    \/ PlainCall
    \/ \E q \in Requests, r \in Riders, d \in Drivers, x \in Places :
          asg[q].st # "expired" /\ CreateScript(q, r, d, x)
    \/ \E q \in Requests, r \in Riders, d \in Drivers : CancelScript(q, r, d) \/ ArriveScript(q, r, d)
    \/ \E q \in Requests, r \in Riders : asg[q].st = "expired" /\ ClearActiveScript(r, q)
    \/ \E q \in Requests, r \in Riders, d \in Drivers :
          asg[q].st \notin {"none", "en_route"} /\ ClearResetScript(r, d, q)
    \/ \E q \in Requests : AssignmentExpires(q)
    \/ \E d \in Drivers : DriverKeyExpires(d)

\* Every step is such a call.
LEMMA NextCalls ==
    ASSUME IInv, Next
    PROVE  StoreCall
<1>1. ASSUME NEW p \in Procs, Start(p) \/ CallFails(p) \/ Abort(p)
      PROVE  PlainCall
  BY <1>1 DEF Start, StartDispatch, StartLegacyDispatch, StartCancel, StartArrive,
              StartLocationUpdate, StartReset, CallFails, Abort, PlainCall
<1>2. ASSUME NEW p \in Procs, NEW k \in Outcomes, Step(p, k)
      PROVE  StoreCall
  <2> DEFINE s == h[p]
  <2>1. LocalOK(s, asg)
    BY DEF IInv, HandlersOK
  <2>2. CASE DispatchStep(p, k)
    <3>1. s.pc \in DispatchPCs \ {"ride", "nearby", "statuses"} => s.q \in Requests /\ s.d \in Drivers
      BY <2>1 DEF LocalOK
    <3>2. s.pc = "create" => s.r \in Riders /\ asg[s.q].st # "expired"
      BY <2>1 DEF LocalOK, DispatchPCs
    <3>3. CASE Create(p, k)
      BY <3>1, <3>2, <3>3 DEF Create, At, DispatchPCs, StoreCall
    <3>4. CASE ReadActiveRide(p, k) \/ FindNearby(p, k) \/ GetStatuses(p, k) \/ CheckOwner(p, k)
      BY <3>4 DEF ReadActiveRide, FindNearby, GetStatuses, CheckOwner, PlainCall, StoreCall
    <3>5. CASE TryLock(p, k) \/ SetBusy(p, k)
      BY <3>1, <3>5 DEF TryLock, SetBusy, At, DispatchPCs, PlainCall, StoreCall
    <3>6. CASE UnlockAndContinue(p, k) \/ UnlockAndReturn(p, k) \/ ReleaseUnlock(p, k) \/ ConflictUnlock(p, k)
      BY <3>1, <3>6 DEF UnlockAndContinue, UnlockAndReturn, ReleaseUnlock, ConflictUnlock, At,
                        DispatchPCs, PlainCall, StoreCall
    <3>7. CASE ReleaseSetAvailable(p, k) \/ ConflictRefresh(p, k) \/ ConflictSetAvailable(p, k)
      BY <3>1, <3>7 DEF ReleaseSetAvailable, ConflictRefresh, ConflictSetAvailable, At,
                        DispatchPCs, DriverStatus, PlainCall, StoreCall
    <3> QED
      BY <2>2, <3>3, <3>4, <3>5, <3>6, <3>7 DEF DispatchStep
  <2>3. CASE RideStep(p, k)
    <3>1. /\ s.pc \in {"cancelRun", "arriveGeo", "arriveRun"} =>
                s.q \in Requests /\ s.r \in Riders /\ s.d \in Drivers
          /\ s.pc \in {"locRefresh", "locBeat", "locAvail"} => s.d \in Drivers
      BY <2>1 DEF LocalOK
    <3>2. CASE RunCancel(p, k) \/ RunArrive(p, k)
      BY <3>1, <3>2 DEF RunCancel, RunArrive, At, StoreCall
    <3>3. CASE CheckPosition(p, k) \/ Heartbeat(p, k)
      BY <3>3 DEF CheckPosition, Heartbeat, PlainCall, StoreCall
    <3>4. CASE RefreshActiveDriver(p, k) \/ BringOnline(p, k)
      BY <3>1, <3>4 DEF RefreshActiveDriver, BringOnline, At, DriverStatus, PlainCall, StoreCall
    <3> QED
      BY <2>3, <3>2, <3>3, <3>4 DEF RideStep
  <2>4. CASE ResetStep(p, k)
    <3>1. /\ s.pc \in {"resetCancelRun", "resetClearActive", "resetClear"} =>
                s.q \in Requests /\ asg[s.q].st # "none" /\ s.n \in 1..Len(DemoRiders)
          /\ s.pc \in {"resetCancelRun", "resetClear"} => s.d \in Drivers
          /\ s.pc = "resetCancelRun" => s.r \in Riders
          /\ s.pc = "resetClear" => asg[s.q].st # "en_route"
          /\ s.pc = "resetClearActive" => asg[s.q].st = "expired"
      BY <2>1 DEF LocalOK, ResetPCs
    <3>2. s.pc \in {"resetClearActive", "resetClear"} => DemoRiders[s.n] \in Riders
      BY <3>1, DemoRidersAssumption
    <3>3. CASE ResetReadKey(p, k) \/ ResetReadRide(p, k) \/ ResetCancelRead(p, k)
      BY <3>3 DEF ResetReadKey, ResetReadRide, ResetCancelRead, PlainCall, StoreCall
    <3>4. CASE ResetCancelRun(p, k)
      BY <3>1, <3>4 DEF ResetCancelRun, At, StoreCall
    <3>5. CASE ResetClearActive(p, k)
      BY <3>1, <3>2, <3>5 DEF ResetClearActive, At, StoreCall
    <3>6. CASE ResetClear(p, k)
      BY <3>1, <3>2, <3>6 DEF ResetClear, At, StoreCall
    <3> QED
      BY <2>4, <3>3, <3>4, <3>5, <3>6 DEF ResetStep
  <2> QED
    BY <1>2, <2>2, <2>3, <2>4 DEF Step
<1>3. ASSUME NEW d \in Drivers,
             \/ \E s \in DriverStatus : SetDriverStatus(d, s)
             \/ \E x \in Places : AddLocation(d, x)
      PROVE  PlainCall
  BY <1>3 DEF SetDriverStatus, AddLocation, PlainCall
<1>4. CASE Expire
  <2>1. ASSUME NEW r \in Riders, RiderKeyExpires(r)
        PROVE  \E q \in Requests : asg[q].st = "expired" /\ ClearActiveScript(r, q)
    <3>1. riderActive[r] \in Requests /\ asg[riderActive[r]].st = "expired"
      BY <2>1 DEF IInv, TypeOK, StoreTypeOK, RiderKeyExpires, Dangling
    <3> QED
      BY <2>1, <3>1 DEF RiderKeyExpires, ClearActiveScript
  <2>2. \/ PlainCall
        \/ \E q \in Requests : AssignmentExpires(q)
        \/ \E r \in Riders : RiderKeyExpires(r)
        \/ \E d \in Drivers : DriverKeyExpires(d)
    BY <1>4 DEF Expire, PlainCall, StatusExpires, DriverStatus
  <2> QED
    BY <2>1, <2>2 DEF StoreCall
<1>5. PlainCall => StoreCall
  BY DEF StoreCall
<1> QED
  BY <1>1, <1>2, <1>3, <1>4, <1>5 DEF Next

\* The phase of a ride in RideLifecycle.
Phase(q) == IF asg[q].st = "arrived" /\ ~InProgress(q) THEN "closed" ELSE asg[q].st

\* A step that leaves the records and the riders' keys alone leaves the rides
\* alone.
LEMMA RidesUnchanged ==
    ASSUME UNCHANGED <<asg, riderActive>>
    PROVE  UNCHANGED Rides!vars
  BY DEF Rides!vars, InProgress

\* A step that moves the ride q to another phase and touches no other ride.
LEMMA RideMoves ==
    ASSUME StoreOK, NEW q \in Requests, NEW to,
           \A o \in Requests \ {q} : Phase(o)' = Phase(o),
           Phase(q)' = to,
           \A o \in Requests : asg'[o].r = asg[o].r /\ asg'[o].d = asg[o].d
    PROVE  Rides!Move(q, Phase(q), to)
<1>1. [o \in Requests |-> Phase(o)'] = [[o \in Requests |-> Phase(o)] EXCEPT ![q] = to]
  OBVIOUS
<1>2. /\ [o \in Requests |-> asg'[o].r] = [o \in Requests |-> asg[o].r]
      /\ [o \in Requests |-> asg'[o].d] = [o \in Requests |-> asg[o].d]
  OBVIOUS
<1> QED
  BY <1>1, <1>2 DEF Rides!Move, Phase, InProgress

\* What one step may do to the rides.
RidesStep == Rides!Next \/ UNCHANGED Rides!vars

\* The phases of rides that keep their record and their rider's key.
LEMMA SamePhase ==
    ASSUME NEW o \in Requests, asg'[o] = asg[o],
           asg[o].st = "arrived" => (riderActive'[asg[o].r] = o <=> riderActive[asg[o].r] = o)
    PROVE  Phase(o)' = Phase(o)
  BY DEF Phase, InProgress

\* A step that changes no phase, no rider and no driver.
LEMMA RidesStay ==
    ASSUME \A o \in Requests : Phase(o)' = Phase(o),
           \A o \in Requests : asg'[o].r = asg[o].r /\ asg'[o].d = asg[o].d
    PROVE  UNCHANGED Rides!vars
<1>1. /\ [o \in Requests |-> Phase(o)'] = [o \in Requests |-> Phase(o)]
      /\ [o \in Requests |-> asg'[o].r] = [o \in Requests |-> asg[o].r]
      /\ [o \in Requests |-> asg'[o].d] = [o \in Requests |-> asg[o].d]
  OBVIOUS
<1> QED
  BY <1>1 DEF Rides!vars, Phase, InProgress

\* Creating a ride is an Assign: the script's checks of the rider's and the
\* driver's key are the abstract guard, by KeysOK.
LEMMA CreateRefines ==
    ASSUME StoreOK, NEW q \in Requests, NEW r \in Riders, NEW d \in Drivers, NEW x \in Places,
           asg[q].st # "expired", CreateScript(q, r, d, x)
    PROVE  RidesStep
<1>1. CASE CreateResult(q, r, d) # 1
  <2>1. UNCHANGED <<asg, riderActive>>
    BY <1>1 DEF CreateScript, store
  <2> QED
    BY <2>1, RidesUnchanged DEF RidesStep
<1>2. CASE CreateResult(q, r, d) = 1
  <2> DEFINE new == [st |-> "en_route", r |-> r, d |-> d, x |-> x]
  <2>1. asg' = [asg EXCEPT ![q] = new] /\ riderActive' = [riderActive EXCEPT ![r] = q]
    BY <1>2 DEF CreateScript
  <2>2. /\ riderActive[r] = None \/ ~IsOpen(riderActive[r])
        /\ ~Exists(q)
        /\ driverActive[d] \in {None, q}
    BY <1>2 DEF CreateResult
  <2>3. asg[q].st = "none"
    BY <2>2 DEF Exists
  <2>4. driverActive[d] = None
    BY <2>2, <2>3, NoneAssumption DEF StoreOK, KeysOK, Dangling, IsOpen
  <2>5. new.st = "en_route" /\ new.r = r /\ new.d = d
    OBVIOUS
  <2> HIDE DEF new
  <2>6. asg'[q] = new /\ \A o \in Requests \ {q} : asg'[o] = asg[o]
    BY <2>1 DEF StoreOK, StoreTypeOK
  <2>7. ASSUME NEW o \in Requests, InProgress(o)
        PROVE  asg[o].r # r /\ asg[o].d # d
    <3>1. IsOpen(o) /\ riderActive[asg[o].r] = o /\ driverActive[asg[o].d] = o
      BY <2>7 DEF InProgress, IsOpen, StoreOK, KeysOK
    <3> QED
      BY <2>2, <2>4, <3>1, NoneAssumption
  <2>8. Phase(q) = "none" /\ Phase(q)' = "en_route"
    BY <2>3, <2>5, <2>6 DEF Phase
  <2>9. ASSUME NEW o \in Requests \ {q}
        PROVE  Phase(o)' = Phase(o)
    <3>1. CASE asg[o].st = "arrived"
      <4>1. asg[o].r \in Riders
        BY <3>1 DEF StoreOK, KeysOK, Exists
      <4>2. riderActive[r] # o
        BY <2>2, <3>1, NoneAssumption DEF IsOpen
      <4> QED
        BY <2>1, <2>6, <4>1, <4>2, SamePhase DEF StoreOK, StoreTypeOK
    <3> QED
      BY <2>6, <3>1, SamePhase
  <2>10. /\ [o \in Requests |-> Phase(o)'] = [[o \in Requests |-> Phase(o)] EXCEPT ![q] = "en_route"]
         /\ [o \in Requests |-> asg'[o].r] = [[o \in Requests |-> asg[o].r] EXCEPT ![q] = r]
         /\ [o \in Requests |-> asg'[o].d] = [[o \in Requests |-> asg[o].d] EXCEPT ![q] = d]
    BY <2>5, <2>6, <2>8, <2>9
  <2>11. \A o \in Requests : Phase(o) \in {"en_route", "arrived"} => InProgress(o)
    BY DEF Phase, InProgress
  <2>12. \A o \in Requests : Phase(o) \in {"en_route", "arrived"} => asg[o].r # r /\ asg[o].d # d
    BY <2>7, <2>11
  <2>13. Rides!Assign(q, r, d)
    BY <2>8, <2>10, <2>12 DEF Rides!Assign, Rides!InProgress, Phase, InProgress
  <2> QED
    BY <2>13 DEF RidesStep, Rides!Next
<1> QED
  BY <1>1, <1>2

\* Cancelling a ride is a Cancel.
LEMMA CancelRefines ==
    ASSUME StoreOK, NEW q \in Requests, NEW r \in Riders, NEW d \in Drivers,
           CancelScript(q, r, d)
    PROVE  RidesStep
<1>1. CASE CancelResult(q, r, d) # 1
  <2>1. UNCHANGED <<asg, riderActive>>
    BY <1>1 DEF CancelScript, store
  <2> QED
    BY <2>1, RidesUnchanged DEF RidesStep
<1>2. CASE CancelResult(q, r, d) = 1
  <2>1. /\ asg' = [asg EXCEPT ![q].st = "cancelled"]
        /\ riderActive' = [riderActive EXCEPT ![r] = IF @ = q THEN None ELSE @]
    BY <1>2 DEF CancelScript
  <2>2. asg[q].st = "en_route"
    BY <1>2 DEF CancelResult
  <2>3. /\ \A o \in Requests \ {q} : asg'[o] = asg[o]
        /\ asg'[q].st = "cancelled" /\ asg'[q].r = asg[q].r /\ asg'[q].d = asg[q].d
    BY <2>1 DEF StoreOK, StoreTypeOK, Assignment
  <2>4. Phase(q) = "en_route" /\ Phase(q)' = "cancelled"
    BY <2>2, <2>3 DEF Phase
  <2>5. ASSUME NEW o \in Requests \ {q}
        PROVE  Phase(o)' = Phase(o)
    <3>1. asg[o].st = "arrived" => asg[o].r \in Riders
      BY DEF StoreOK, KeysOK, Exists
    <3> QED
      BY <2>1, <2>3, <3>1, NoneAssumption, SamePhase DEF StoreOK, StoreTypeOK
  <2>6. Rides!Cancel(q)
    BY <2>3, <2>4, <2>5, RideMoves DEF Rides!Cancel
  <2> QED
    BY <2>6 DEF RidesStep, Rides!Next
<1> QED
  BY <1>1, <1>2

\* Confirming an arrival is an Arrive: the rider's key still names the ride.
LEMMA ArriveRefines ==
    ASSUME StoreOK, NEW q \in Requests, NEW r \in Riders, NEW d \in Drivers,
           ArriveScript(q, r, d)
    PROVE  RidesStep
<1>1. /\ asg' = [asg EXCEPT ![q].st = IF ArriveResult(q, r, d) = 1 THEN "arrived" ELSE @]
      /\ UNCHANGED riderActive
  BY DEF ArriveScript
<1>2. CASE ArriveResult(q, r, d) # 1
  <2>1. asg' = asg
    BY <1>1, <1>2 DEF StoreOK, StoreTypeOK, Assignment
  <2> QED
    BY <1>1, <2>1, RidesUnchanged DEF RidesStep
<1>3. CASE ArriveResult(q, r, d) = 1
  <2>1. asg[q].st = "en_route"
    BY <1>3 DEF ArriveResult
  <2>2. riderActive[asg[q].r] = q
    BY <2>1 DEF StoreOK, KeysOK
  <2>3. /\ \A o \in Requests \ {q} : asg'[o] = asg[o]
        /\ asg'[q].st = "arrived" /\ asg'[q].r = asg[q].r /\ asg'[q].d = asg[q].d
    BY <1>1, <1>3 DEF StoreOK, StoreTypeOK, Assignment
  <2>4. Phase(q) = "en_route" /\ Phase(q)' = "arrived"
    BY <1>1, <2>1, <2>2, <2>3 DEF Phase, InProgress
  <2>5. \A o \in Requests \ {q} : Phase(o)' = Phase(o)
    BY <1>1, <2>3, SamePhase
  <2>6. Rides!Arrive(q)
    BY <2>3, <2>4, <2>5, RideMoves DEF Rides!Arrive
  <2> QED
    BY <2>6 DEF RidesStep, Rides!Next
<1> QED
  BY <1>2, <1>3

\* Clearing a rider's key from a ride that is not en route closes the ride if
\* it had arrived, and otherwise leaves the rides alone.
LEMMA ClearRefines ==
    ASSUME StoreOK, NEW q \in Requests, NEW r \in Riders,
           asg[q].st \notin {"none", "en_route"},
           riderActive' = [riderActive EXCEPT ![r] = IF @ = q THEN None ELSE @],
           asg' = asg
    PROVE  RidesStep
<1>1. ASSUME NEW o \in Requests, o # q \/ riderActive[r] # q \/ asg[q].st # "arrived"
      PROVE  Phase(o)' = Phase(o)
  <2>1. asg[o].st = "arrived" => asg[o].r \in Riders
    BY DEF StoreOK, KeysOK, Exists
  <2> QED
    BY <1>1, <2>1, NoneAssumption, SamePhase DEF StoreOK, StoreTypeOK
<1>2. CASE riderActive[r] = q /\ asg[q].st = "arrived"
  <2>1. asg[q].r = r
    BY <1>2, NoneAssumption DEF StoreOK, KeysOK, Dangling
  <2>2. riderActive'[r] = None
    BY <1>2 DEF StoreOK, StoreTypeOK
  <2>3. Phase(q) = "arrived" /\ Phase(q)' = "closed"
    BY <1>2, <2>1, <2>2, NoneAssumption DEF Phase, InProgress
  <2>4. Rides!Close(q)
    BY <1>1, <2>3, RideMoves DEF Rides!Close
  <2> QED
    BY <2>4 DEF RidesStep, Rides!Next
<1>3. CASE ~(riderActive[r] = q /\ asg[q].st = "arrived")
  BY <1>1, <1>3, RidesStay DEF RidesStep
<1> QED
  BY <1>2, <1>3

\* The expiry of a record is an Expire.
LEMMA ExpiryRefines ==
    ASSUME StoreOK, NEW q \in Requests, AssignmentExpires(q)
    PROVE  RidesStep
<1>1. /\ asg' = [asg EXCEPT ![q] = Expired]
      /\ UNCHANGED riderActive
      /\ Exists(q)
  BY DEF AssignmentExpires
<1>2. /\ \A o \in Requests \ {q} : asg'[o] = asg[o]
      /\ asg'[q].st = "expired" /\ asg'[q].r = None /\ asg'[q].d = None
  BY <1>1 DEF StoreOK, StoreTypeOK, Expired, NoRide
<1>3. Phase(q) \notin {"none", "expired"} /\ Phase(q)' = "expired"
  BY <1>1, <1>2 DEF Phase, Exists
<1>4. \A o \in Requests \ {q} : Phase(o)' = Phase(o)
  BY <1>1, <1>2, SamePhase
<1>5. /\ [o \in Requests |-> Phase(o)'] = [[o \in Requests |-> Phase(o)] EXCEPT ![q] = "expired"]
      /\ [o \in Requests |-> asg'[o].r] = [[o \in Requests |-> asg[o].r] EXCEPT ![q] = None]
      /\ [o \in Requests |-> asg'[o].d] = [[o \in Requests |-> asg[o].d] EXCEPT ![q] = None]
  BY <1>2, <1>3, <1>4
<1>6. Rides!Expire(q)
  BY <1>3, <1>5 DEF Rides!Expire, Phase, InProgress
<1> QED
  BY <1>6 DEF RidesStep, Rides!Next

\* Every call on the store, and every expiry, is a step of RideLifecycle.
LEMMA CallRefines ==
    ASSUME StoreOK, StoreCall
    PROVE  RidesStep
<1>1. CASE PlainCall \/ \E d \in Drivers : DriverKeyExpires(d)
  <2>1. UNCHANGED <<asg, riderActive>>
    BY <1>1 DEF PlainCall, DriverKeyExpires, StatusExpires, SetStatus, SetBusyScript, GeoAdd,
                SetNX, UnlockScript, RefreshScript, ResetLeaseScript, LockExpires, LeaseExpires, store
  <2> QED
    BY <2>1, RidesUnchanged DEF RidesStep
<1>2. CASE \E q \in Requests, r \in Riders : asg[q].st = "expired" /\ ClearActiveScript(r, q)
  BY <1>2, ClearRefines DEF ClearActiveScript
<1>3. CASE \E q \in Requests, r \in Riders, d \in Drivers :
              asg[q].st \notin {"none", "en_route"} /\ ClearResetScript(r, d, q)
  BY <1>3, ClearRefines DEF ClearResetScript
<1> QED
  BY <1>1, <1>2, <1>3, CreateRefines, CancelRefines, ArriveRefines, ExpiryRefines DEF StoreCall

\* The initial store maps to the initial rides.
LEMMA InitRefines == Init => Rides!Init
  BY DEF Init, StoreInit, NoRide, Rides!Init, InProgress

\* Every step of every handler, and every failure, is a step of RideLifecycle
\* or leaves the rides alone.
THEOREM Refinement == Spec => ImplementsRideLifecycle
<1>1. IInv /\ [Next]_vars => [Rides!Next]_(Rides!vars)
  <2>1. CASE IInv /\ Next
    <3>1. StoreOK
      BY <2>1 DEF IInv, TypeOK, StoreOK
    <3> QED
      BY <2>1, <3>1, NextCalls, CallRefines DEF RidesStep
  <2>2. CASE UNCHANGED vars
    <3>1. UNCHANGED <<asg, riderActive>>
      BY <2>2 DEF vars
    <3> QED
      BY <3>1, RidesUnchanged
  <2> QED
    BY <2>1, <2>2
<1> QED
  BY <1>1, InitRefines, InductiveInvariant, PTL DEF Spec, ImplementsRideLifecycle, Rides!Spec

=============================================================================
