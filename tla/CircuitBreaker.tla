--------------------------- MODULE CircuitBreaker ---------------------------
(***************************************************************************)
(* The circuit breaker in front of an external service (Dream Central      *)
(* Storage, each LLM provider).  Calls overlap: a call reads the state     *)
(* before it awaits the service and reports success or failure after it,   *)
(* so an answer may belong to a state the breaker left long ago.           *)
(***************************************************************************)
EXTENDS Integers

CONSTANTS
    Calls,              \* callers of the service
    FailureThreshold,   \* consecutive failures that open the breaker
    RecoveryTimeout     \* ticks after the last failure before it is tried again

ASSUME BreakerAssumption ==
    FailureThreshold \in Nat \ {0} /\ RecoveryTimeout \in Nat

VARIABLES
    opened,     \* _state: "closed" or "open"; half open is never stored
    failures,   \* _failure_count, which matters up to FailureThreshold only
    elapsed,    \* ticks since _last_failure_time, up to RecoveryTimeout only
    call        \* "idle", "running", or "probing" when it began half open

vars == <<opened, failures, elapsed, call>>

AtMost(n, bound) == IF n < bound THEN n ELSE bound

\* The state property.
State ==
    IF opened = "open" /\ elapsed >= RecoveryTimeout THEN "half_open" ELSE opened

Init ==
    /\ opened = "closed"
    /\ failures = 0
    /\ elapsed = RecoveryTimeout      \* _last_failure_time = 0
    /\ call = [c \in Calls |-> "idle"]

\* call(): an open breaker fails fast, any other lets the call through.
Begin(c) ==
    /\ call[c] = "idle"
    /\ State # "open"
    /\ call' = [call EXCEPT ![c] = IF State = "half_open" THEN "probing" ELSE "running"]
    /\ UNCHANGED <<opened, failures, elapsed>>

\* Mutant: success forgets the failures but does not close the breaker.
SucceedCountOnly(c) ==
    /\ call[c] # "idle"
    /\ failures' = 0
    /\ call' = [call EXCEPT ![c] = "idle"]
    /\ UNCHANGED <<opened, elapsed>>

\* Mutant: a success that arrives while the breaker is open is ignored.
SucceedIgnored(c) ==
    /\ call[c] # "idle"
    /\ failures' = IF opened = "open" THEN failures ELSE 0
    /\ call' = [call EXCEPT ![c] = "idle"]
    /\ UNCHANGED <<opened, elapsed>>

\* _on_success
Succeed(c) ==
    /\ call[c] # "idle"
    /\ failures' = 0
    /\ opened' = "closed"
    /\ call' = [call EXCEPT ![c] = "idle"]
    /\ UNCHANGED elapsed

\* _on_failure
Fail(c) ==
    /\ call[c] # "idle"
    /\ failures' = AtMost(failures + 1, FailureThreshold)
    /\ elapsed' = 0
    /\ opened' = IF failures' >= FailureThreshold THEN "open" ELSE opened
    /\ call' = [call EXCEPT ![c] = "idle"]

\* A cancelled call reports nothing: CancelledError is not an Exception.
Cancel(c) ==
    /\ call[c] # "idle"
    /\ call' = [call EXCEPT ![c] = "idle"]
    /\ UNCHANGED <<opened, failures, elapsed>>

Tick ==
    /\ elapsed < RecoveryTimeout
    /\ elapsed' = elapsed + 1
    /\ UNCHANGED <<opened, failures, call>>

Next == Tick \/ \E c \in Calls : Begin(c) \/ Succeed(c) \/ Fail(c) \/ Cancel(c)

Spec == Init /\ [][Next]_vars

(***************************************************************************)
(* Time passes, there is always another caller, and a caller that is not   *)
(* cancelled every time gets an answer: httpx and the providers time out.  *)
(* Nothing makes the service recover.                                      *)
(***************************************************************************)
FairSpec ==
    /\ Spec
    /\ WF_vars(Tick)
    /\ \A c \in Calls : WF_vars(Begin(c)) /\ SF_vars(Succeed(c) \/ Fail(c))

-----------------------------------------------------------------------------
TypeOK ==
    /\ opened \in {"closed", "open"}
    /\ failures \in 0..FailureThreshold
    /\ elapsed \in 0..RecoveryTimeout
    /\ call \in [Calls -> {"idle", "running", "probing"}]

\* The breaker is open exactly when the failures it has counted since the last
\* success have reached the threshold, whichever old answers arrive meanwhile.
OpenIsEarned == opened = "open" <=> failures >= FailureThreshold

\* A service that has stopped failing is not shut out: the breaker closes, and
\* stays closed.
Recovers == <>[][\A c \in Calls : ~Fail(c)]_vars => <>[](opened = "closed")
=============================================================================
