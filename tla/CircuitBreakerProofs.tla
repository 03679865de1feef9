------------------------ MODULE CircuitBreakerProofs ------------------------
(***************************************************************************)
(* The breaker's invariant, for any threshold, timeout and set of callers. *)
(***************************************************************************)
EXTENDS CircuitBreaker, TLAPS

Inv == TypeOK /\ OpenIsEarned

LEMMA InitInv == Init => Inv
BY BreakerAssumption DEF Init, Inv, TypeOK, OpenIsEarned

LEMMA NextInv == Inv /\ [Next]_vars => Inv'
<1> SUFFICES ASSUME Inv, [Next]_vars PROVE Inv'
    OBVIOUS
<1> USE BreakerAssumption DEF Inv, TypeOK, OpenIsEarned
<1>1. CASE Tick
    BY <1>1 DEF Tick
<1>2. ASSUME NEW c \in Calls, Begin(c) PROVE Inv'
    BY <1>2 DEF Begin
<1>3. ASSUME NEW c \in Calls, Succeed(c) PROVE Inv'
    BY <1>3 DEF Succeed
<1>4. ASSUME NEW c \in Calls, Fail(c) PROVE Inv'
    <2>1. failures' \in 0..FailureThreshold
        BY <1>4 DEF Fail, AtMost
    <2>2. CASE failures' >= FailureThreshold
        BY <1>4, <2>1, <2>2 DEF Fail
    <2>3. CASE ~(failures' >= FailureThreshold)
        <3>1. failures' = failures + 1
            BY <1>4, <2>3 DEF Fail, AtMost
        <3>2. opened = "closed" /\ opened' = opened
            BY <1>4, <2>3, <3>1 DEF Fail
        <3> QED BY <1>4, <2>1, <2>3, <3>2 DEF Fail
    <2> QED BY <2>2, <2>3
<1>5. ASSUME NEW c \in Calls, Cancel(c) PROVE Inv'
    BY <1>5 DEF Cancel
<1>6. CASE UNCHANGED vars
    BY <1>6 DEF vars
<1> QED BY <1>1, <1>2, <1>3, <1>4, <1>5, <1>6 DEF Next

\* The failure count stays within the threshold and the breaker is open or
\* closed, whatever the order in which calls begin, end and are cancelled.
THEOREM TypeCorrect == Spec => []TypeOK
<1>1. Inv => TypeOK
    BY DEF Inv
<1> QED BY <1>1, InitInv, NextInv, PTL DEF Spec

\* The breaker is open exactly when it has counted a threshold of failures
\* since the last success, however late the answers of old calls arrive.
THEOREM OpenIsAlwaysEarned == Spec => []OpenIsEarned
<1>1. Inv => OpenIsEarned
    BY DEF Inv
<1> QED BY <1>1, InitInv, NextInv, PTL DEF Spec
=============================================================================
