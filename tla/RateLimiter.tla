---------------------------- MODULE RateLimiter ----------------------------
(***************************************************************************)
(* The budgets of the rate limiter: SetBudget, and AllowAtomic with its    *)
(* Lua script.                                                             *)
(*                                                                         *)
(* A call sends its command to Redis up to 1 + MaxRetries times, because   *)
(* go-redis repeats a command whose reply does not come.  An attempt is    *)
(* answered, fails before it reaches Redis, or runs and its reply is lost. *)
(*                                                                         *)
(* Amounts are int64 in Go, but doubles in Lua, where a number above Exact *)
(* (2^53) is rounded to one the mantissa can hold: the largest int64,      *)
(* 2^63 - 1, to 2^63.  What the script leaves in Redis is a Lua number.    *)
(***************************************************************************)
EXTENDS Integers

CONSTANTS
    Keys, Callers,
    Largest,       \* the Lua number nearest to the largest int64 (2^63)
    Amounts,       \* the budgets and costs of the requests: int64
    Exact,         \* the integers up to here are Lua numbers (2^53)
    ToNumber,      \* [0 .. Largest -> 0 .. Largest]: the nearest Lua number
    MaxRetries,    \* retries of go-redis (3)
    None

ASSUME LimiterAssumption ==
    /\ Largest \in Nat \ {0}
    /\ Amounts \subseteq 0 .. Largest - 1
    /\ Exact \in 0 .. Largest
    /\ ToNumber \in [0 .. Largest -> 0 .. Largest]
    /\ \A n \in 0 .. Exact : ToNumber[n] = n
    /\ MaxRetries \in Nat
    /\ None \notin Nat

VARIABLES
    budget,     \* [Keys -> Nat or None]: the keys in Redis
    call,       \* [Callers -> the call in progress]
    allotted,   \* [Keys -> the amount of the last SET]
    granted,    \* [Keys -> sum of the costs, as Lua numbers, allowed since]
    wasted      \* [Keys -> the same of those whose reply was lost]

vars == <<budget, call, allotted, granted, wasted>>

NoCall == [op |-> "none"]
Call == [op : {"set", "allow"}, key : Keys, amount : Amounts, tries : 0 .. MaxRetries]

TypeOK ==
    /\ budget \in [Keys -> (0 .. Largest) \cup {None}]
    /\ call \in [Callers -> Call \cup {NoCall}]
    /\ allotted \in [Keys -> 0 .. Largest - 1]
    /\ granted \in [Keys -> Nat]
    /\ wasted \in [Keys -> Nat]

Init ==
    /\ budget = [k \in Keys |-> None]
    /\ call = [c \in Callers |-> NoCall]
    /\ allotted = [k \in Keys |-> 0]
    /\ granted = [k \in Keys |-> 0]
    /\ wasted = [k \in Keys |-> 0]

-----------------------------------------------------------------------------
(* SetBudget and AllowAtomic.                                              *)

\* A key that is not blank and an amount that is not negative: others are
\* refused before Redis is called.
Start(c, op, k, a) ==
    /\ call[c] = NoCall
    /\ call' = [call EXCEPT ![c] = [op |-> op, key |-> k, amount |-> a, tries |-> MaxRetries]]
    /\ UNCHANGED <<budget, allotted, granted, wasted>>

Finish(c) == call' = [call EXCEPT ![c] = NoCall]

\* The reply does not come: the command is repeated, or the call returns an
\* error.
RetryOrFail(c) ==
    IF call[c].tries = 0 THEN Finish(c)
    ELSE call' = [call EXCEPT ![c].tries = @ - 1]

\* SET with no expiry.
Set(c) ==
    LET k == call[c].key
    IN  /\ call[c].op = "set"
        /\ budget' = [budget EXCEPT ![k] = call[c].amount]
        /\ allotted' = [allotted EXCEPT ![k] = call[c].amount]
        /\ granted' = [granted EXCEPT ![k] = 0]
        /\ wasted' = [wasted EXCEPT ![k] = 0]

Sufficient(k, cost) == budget[k] # None /\ ToNumber[budget[k]] >= ToNumber[cost]

\* Mutant: the operands are swapped.
DeductReversed(k, cost) == budget' = [budget EXCEPT ![k] = ToNumber[cost] - ToNumber[@]]

\* Mutant: the script runs, but the deduction is lost.
DeductNothing(k, cost) == UNCHANGED budget

Deduct(k, cost) ==
    budget' = [budget EXCEPT ![k] = ToNumber[ToNumber[@] - ToNumber[cost]]]

\* The script runs and allows the request.
Allowed(c) ==
    /\ call[c].op = "allow"
    /\ Sufficient(call[c].key, call[c].amount)
    /\ Deduct(call[c].key, call[c].amount)
    /\ UNCHANGED allotted

Grant(c) ==
    /\ Allowed(c)
    /\ granted' = [granted EXCEPT ![call[c].key] = @ + ToNumber[call[c].amount]]
    /\ Finish(c)
    /\ UNCHANGED wasted

\* The script returns -1: whether or not the reply comes, nothing changes.
Refuse(c) ==
    /\ call[c].op = "allow"
    /\ ~Sufficient(call[c].key, call[c].amount)
    /\ Finish(c) \/ RetryOrFail(c)
    /\ UNCHANGED <<budget, allotted, granted, wasted>>

GrantLost(c) ==
    /\ Allowed(c)
    /\ wasted' = [wasted EXCEPT ![call[c].key] = @ + ToNumber[call[c].amount]]
    /\ RetryOrFail(c)
    /\ UNCHANGED granted

SetDone(c) == Set(c) /\ (Finish(c) \/ RetryOrFail(c))

\* The attempt does not reach Redis.
NotSent(c) ==
    /\ call[c] # NoCall
    /\ RetryOrFail(c)
    /\ UNCHANGED <<budget, allotted, granted, wasted>>

Next ==
    \E c \in Callers :
        \/ \E op \in {"set", "allow"}, k \in Keys, a \in Amounts : Start(c, op, k, a)
        \/ SetDone(c) \/ Grant(c) \/ GrantLost(c) \/ Refuse(c) \/ NotSent(c)

Spec == Init /\ [][Next]_vars

-----------------------------------------------------------------------------
(* Properties.                                                             *)

\* Every unit of a budget of at most Exact is accounted for: it is left, was
\* granted to a caller that was told so, or was deducted for an attempt whose
\* reply was lost.  So concurrent requests, retried ones included, are never
\* granted more than the budget (ratelimiter.go:74), up to the rounding of a
\* cost above Exact (scripts.go:15).
BudgetConserved ==
    \A k \in Keys :
        budget[k] # None /\ allotted[k] <= Exact =>
            budget[k] + granted[k] + wasted[k] = allotted[k]
=============================================================================
