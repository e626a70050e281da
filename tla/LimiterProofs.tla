--------------------------- MODULE LimiterProofs ---------------------------
(***************************************************************************)
(* The budget is conserved for any number of keys, callers and retries and *)
(* for all amounts.                                                        *)
(***************************************************************************)
EXTENDS RateLimiter, TLAPS

\* BudgetConserved and the types imply that what is left of an exact budget is
\* exact, so that the script computes with it as with an integer.
ConservedInv == TypeOK /\ BudgetConserved

\* The exact integers are among the numbers a script can hold.
LEMMA Bounds == Largest \in Nat /\ Exact \in Nat /\ Exact <= Largest
  BY LimiterAssumption DEF LimiterAssumption

\* An amount is a number of both Go and the script.
LEMMA AmountRange ==
    ASSUME NEW a \in Amounts
    PROVE  a \in Nat /\ a \in 0 .. Largest - 1 /\ a \in 0 .. Largest
  <1>1. a \in 0 .. Largest - 1 /\ Largest \in Nat
    BY LimiterAssumption DEF LimiterAssumption
  <1> QED
    BY <1>1

\* A call in progress has the fields of a call.
LEMMA CallFields ==
    ASSUME TypeOK, NEW c \in Callers, call[c].op \in {"set", "allow"}
    PROVE  call[c] \in Call
  BY DEF TypeOK, NoCall

\* A retry uses up one of the tries left.
LEMMA AttemptType ==
    ASSUME TypeOK, NEW c \in Callers, call[c] \in Call, Finish(c) \/ RetryOrFail(c)
    PROVE  call' \in [Callers -> Call \cup {NoCall}]
  <1>1. CASE Finish(c)
    BY <1>1 DEF TypeOK, Finish
  <1>2. CASE call[c].tries # 0 /\ call' = [call EXCEPT ![c].tries = @ - 1]
    <2>1. [call[c] EXCEPT !.tries = @ - 1] \in Call
      BY <1>2, LimiterAssumption DEF LimiterAssumption, Call
    <2> QED
      BY <1>2, <2>1 DEF TypeOK
  <1> QED
    BY <1>1, <1>2 DEF RetryOrFail

\* A deduction that the script allows takes the cost, as a Lua number, off
\* the budget: exactly, if the budget is exact.
LEMMA DeductExact ==
    ASSUME TypeOK, NEW c \in Callers, Allowed(c)
    PROVE  LET k == call[c].key
               n == ToNumber[call[c].amount]
           IN  /\ call[c] \in Call /\ k \in Keys /\ n \in Nat
               /\ budget[k] \in Nat
               /\ \E left \in 0 .. Largest :
                    /\ budget' = [budget EXCEPT ![k] = left]
                    /\ budget[k] <= Exact => left = budget[k] - n
  <1> DEFINE k == call[c].key
             n == ToNumber[call[c].amount]
             b == ToNumber[budget[k]]
             left == ToNumber[b - n]
  <1>1. call[c] \in Call
    BY CallFields DEF Allowed
  <1>2. k \in Keys /\ call[c].amount \in 0 .. Largest
    BY <1>1, AmountRange DEF Call
  <1>3. budget[k] \in 0 .. Largest
    <2>1. budget[k] # None
      BY DEF Allowed, Sufficient
    <2> QED
      BY <1>2, <2>1 DEF TypeOK
  <1>4. n \in 0 .. Largest /\ b \in 0 .. Largest
    BY <1>2, <1>3, LimiterAssumption DEF LimiterAssumption
  <1>5. n <= b
    BY <1>4 DEF Allowed, Sufficient
  <1>6. b - n \in 0 .. Largest
    <2> HIDE DEF b, n
    <2> QED
      BY <1>4, <1>5, Bounds
  <1>7. left \in 0 .. Largest
    BY <1>6, LimiterAssumption DEF LimiterAssumption
  <1>8. budget' = [budget EXCEPT ![k] = left]
    BY DEF Allowed, Deduct
  <1>9. ASSUME budget[k] <= Exact PROVE left = budget[k] - n
    <2>1. budget[k] \in 0 .. Exact
      BY <1>3, <1>9, LimiterAssumption DEF LimiterAssumption
    <2>2. b = budget[k]
      BY <2>1, LimiterAssumption DEF LimiterAssumption
    <2>3. b - n \in 0 .. Exact
      <3>1. b \in 0 .. Exact
        BY <2>1, <2>2
      <3> HIDE DEF b, n
      <3> QED
        BY <1>4, <1>5, <3>1, Bounds
    <2>4. ToNumber[b - n] = b - n
      BY <2>3, LimiterAssumption DEF LimiterAssumption
    <2> QED
      BY <2>2, <2>4
  <1>10. n \in Nat /\ budget[k] \in Nat
    BY <1>3, <1>4, LimiterAssumption DEF LimiterAssumption
  <1> QED
    BY <1>1, <1>2, <1>7, <1>8, <1>9, <1>10

\* Every step keeps the balance of the budget.
LEMMA NextConserved == ConservedInv /\ [Next]_vars => ConservedInv'
  <1> SUFFICES ASSUME ConservedInv, [Next]_vars PROVE ConservedInv'
    OBVIOUS
  <1> USE DEF ConservedInv
  <1>0. TypeOK
    OBVIOUS
  <1>1. ASSUME NEW c \in Callers, NEW op \in {"set", "allow"}, NEW k \in Keys,
               NEW a \in Amounts, Start(c, op, k, a)
        PROVE  ConservedInv'
    <2>1. [op |-> op, key |-> k, amount |-> a, tries |-> MaxRetries] \in Call
      BY LimiterAssumption DEF LimiterAssumption, Call
    <2> QED
      BY <1>1, <2>1 DEF Start, TypeOK, BudgetConserved
  <1>2. ASSUME NEW c \in Callers, SetDone(c) PROVE ConservedInv'
    <2> DEFINE k == call[c].key
               a == call[c].amount
    <2>1. call[c] \in Call
      BY <1>0, <1>2, CallFields DEF SetDone, Set
    <2>2. k \in Keys /\ a \in 0 .. Largest - 1 /\ a \in 0 .. Largest
      BY <2>1, AmountRange DEF Call
    <2>3. call' \in [Callers -> Call \cup {NoCall}]
      BY <1>0, <1>2, <2>1, AttemptType DEF SetDone
    <2>4. /\ budget' = [budget EXCEPT ![k] = a]
          /\ allotted' = [allotted EXCEPT ![k] = a]
          /\ granted' = [granted EXCEPT ![k] = 0]
          /\ wasted' = [wasted EXCEPT ![k] = 0]
      BY <1>2 DEF SetDone, Set
    <2> HIDE DEF k, a
    <2>5. TypeOK'
      BY <2>2, <2>3, <2>4 DEF TypeOK
    <2>6. a \in Nat
      BY <2>2, LimiterAssumption DEF LimiterAssumption
    <2> QED
      BY <2>2, <2>4, <2>5, <2>6 DEF TypeOK, BudgetConserved
  <1>3. ASSUME NEW c \in Callers, NEW k \in Keys, NEW n \in Nat, NEW left \in 0 .. Largest,
               budget[k] \in Nat,
               budget' = [budget EXCEPT ![k] = left],
               budget[k] <= Exact => left = budget[k] - n,
               \/ granted' = [granted EXCEPT ![k] = @ + n] /\ UNCHANGED wasted
               \/ wasted' = [wasted EXCEPT ![k] = @ + n] /\ UNCHANGED granted,
               UNCHANGED allotted,
               call' \in [Callers -> Call \cup {NoCall}]
        PROVE  ConservedInv'
    <2>1. TypeOK'
      BY <1>3 DEF TypeOK
    <2>2. granted[k] \in Nat /\ wasted[k] \in Nat /\ allotted[k] \in Nat
      BY LimiterAssumption DEF TypeOK, LimiterAssumption
    <2>3. ASSUME allotted[k] <= Exact
          PROVE  budget'[k] + granted'[k] + wasted'[k] = allotted'[k]
      <3>1. budget[k] + granted[k] + wasted[k] = allotted[k]
        BY <1>3, <2>3, LimiterAssumption DEF LimiterAssumption, BudgetConserved
      <3>2. budget[k] <= Exact
        BY <2>2, <2>3, <3>1, Bounds, budget[k] \in Nat
      <3>3. budget'[k] = budget[k] - n
        BY <1>3, <3>2 DEF TypeOK
      <3>4. \/ granted'[k] = granted[k] + n /\ wasted'[k] = wasted[k]
            \/ granted'[k] = granted[k] /\ wasted'[k] = wasted[k] + n
        BY <1>3 DEF TypeOK
      <3>5. granted'[k] \in Nat /\ wasted'[k] \in Nat /\ allotted'[k] = allotted[k]
        BY <1>3, <2>1 DEF TypeOK
      <3> QED
        BY <2>2, <3>1, <3>3, <3>4, <3>5, budget[k] \in Nat, n \in Nat
    <2>4. \A j \in Keys : j # k =>
             budget'[j] = budget[j] /\ granted'[j] = granted[j]
                /\ wasted'[j] = wasted[j] /\ allotted'[j] = allotted[j]
      BY <1>3 DEF TypeOK
    <2>5. BudgetConserved'
      BY <1>3, <2>3, <2>4 DEF BudgetConserved
    <2> QED
      BY <2>1, <2>5
  <1>4. ASSUME NEW c \in Callers, Grant(c) PROVE ConservedInv'
    <2>1. call' \in [Callers -> Call \cup {NoCall}]
      BY <1>0, <1>4, DeductExact, AttemptType DEF Grant
    <2> QED
      BY <1>0, <1>3, <1>4, <2>1, DeductExact DEF Grant, Allowed
  <1>5. ASSUME NEW c \in Callers, GrantLost(c) PROVE ConservedInv'
    <2>1. call' \in [Callers -> Call \cup {NoCall}]
      BY <1>0, <1>5, DeductExact, AttemptType DEF GrantLost
    <2> QED
      BY <1>0, <1>3, <1>5, <2>1, DeductExact DEF GrantLost, Allowed
  <1>6. ASSUME NEW c \in Callers, Refuse(c) \/ NotSent(c) PROVE ConservedInv'
    <2>1. call[c] \in Call
      BY <1>0, <1>6, CallFields DEF Refuse, NotSent, TypeOK
    <2>2. call' \in [Callers -> Call \cup {NoCall}]
      BY <1>0, <1>6, <2>1, AttemptType DEF Refuse, NotSent
    <2> QED
      BY <1>6, <2>2 DEF Refuse, NotSent, TypeOK, BudgetConserved
  <1>7. CASE UNCHANGED vars
    BY <1>7 DEF vars, TypeOK, BudgetConserved
  <1> QED
    BY <1>1, <1>2, <1>4, <1>5, <1>6, <1>7 DEF Next

\* The balance holds before the first call.
LEMMA InitConserved == Init => ConservedInv
  BY LimiterAssumption DEF LimiterAssumption, Init, ConservedInv, TypeOK, BudgetConserved

\* No request makes a budget negative or larger than 2^63, which is what the
\* largest int64 becomes as a Lua number, whatever the script rounds
\* (scripts.go:15), and a call is repeated at most MaxRetries times.
THEOREM LimiterTypeCorrect == Spec => []TypeOK
  <1>1. ConservedInv /\ [Next]_vars => ConservedInv'
    BY NextConserved
  <1>2. ConservedInv => TypeOK
    BY DEF ConservedInv
  <1> QED
    BY InitConserved, <1>1, <1>2, PTL DEF Spec

\* Concurrent, lost and repeated requests never get more out of a budget of at
\* most 2^53 than it was set to, and what is taken is either granted or the
\* price of a lost reply (ratelimiter.go:74).
THEOREM BudgetIsConserved == Spec => []BudgetConserved
  <1>1. ConservedInv /\ [Next]_vars => ConservedInv'
    BY NextConserved
  <1>2. ConservedInv => BudgetConserved
    BY DEF ConservedInv
  <1> QED
    BY InitConserved, <1>1, <1>2, PTL DEF Spec
=============================================================================
