--------------------------- MODULE CircuitBreaker ---------------------------
(***************************************************************************)
(* The circuit breaker in front of Redis, PostgreSQL, gRPC and HTTP        *)
(* (circuitbreaker/circuit_breaker.go).  Callers run their function        *)
(* outside of the mutex, so between beforeRequest and afterRequest of one  *)
(* caller the breaker may change its state several times over.             *)
(*                                                                         *)
(* A generation counter tells a caller's result apart from those of later  *)
(* states.  Only equality with the current generation is ever read: a      *)
(* running caller is "current" or "stale".  Counts.Requests is read in the *)
(* half-open state alone and is kept there alone; the totals are only      *)
(* reported.  Time is a timer that lapses.                                 *)
(***************************************************************************)
EXTENDS Naturals, FiniteSets

CONSTANTS
    Callers,            \* goroutines that call Execute
    MaxRequests,        \* Config.MaxRequests
    FailureThreshold,   \* Config.FailureThreshold
    SuccessThreshold    \* Config.SuccessThreshold

ASSUME ConfigAssumption ==
    /\ IsFiniteSet(Callers)
    /\ MaxRequests \in Nat \ {0}
    /\ FailureThreshold \in Nat \ {0}
    /\ SuccessThreshold \in Nat \ {0}

VARIABLES
    cb,     \* the CircuitBreaker
    caller  \* what each caller's generation is to the breaker

breakerVars == <<cb, caller>>

States == {"closed", "open", "half-open"}

(* toNewGeneration: the counters start over and the state's timer runs. *)
NewGeneration(st) ==
    [state |-> st, requests |-> 0, successes |-> 0, failures |-> 0, lapsed |-> FALSE]

BreakerInit ==
    /\ cb = NewGeneration("closed")
    /\ caller = [p \in Callers |-> "idle"]

(* currentState: a lapsed timer starts a new count in the closed state and *)
(* ends the open one.                                                      *)
CurrentState ==
    IF ~cb.lapsed THEN cb
    ELSE NewGeneration(IF cb.state = "open" THEN "half-open" ELSE "closed")

(* Whoever runs in an older generation is stale in a new one. *)
Outdate(renewed) ==
    [p \in Callers |-> IF renewed /\ caller[p] = "current" THEN "stale" ELSE caller[p]]

(* onSuccess and onFailure on breaker b. *)
OnSuccess_OffByOne(b) ==
    IF b.state = "closed" THEN [b EXCEPT !.failures = 0]
    ELSE IF b.successes >= SuccessThreshold THEN NewGeneration("closed")
    ELSE [b EXCEPT !.successes = @ + 1]
OnSuccess(b) ==
    IF b.state = "closed" THEN [b EXCEPT !.failures = 0]
    ELSE IF b.successes + 1 >= SuccessThreshold THEN NewGeneration("closed")
    ELSE [b EXCEPT !.successes = @ + 1]

OnFailure(b) ==
    IF b.state = "half-open" \/ b.failures + 1 >= FailureThreshold
    THEN NewGeneration("open")
    ELSE [b EXCEPT !.failures = @ + 1]

-----------------------------------------------------------------------------
(* beforeRequest of a caller that is let through; one that is refused      *)
(* leaves behind no more than CurrentState, which the next call finds too. *)
Allows_OffByOne(b) == b.state # "open" /\ (b.state = "half-open" => b.requests <= MaxRequests)
Allows(b) == b.state # "open" /\ (b.state = "half-open" => b.requests < MaxRequests)

Admit(p) ==
    LET b == CurrentState
    IN /\ caller[p] = "idle"
       /\ Allows(b)
       /\ cb' = IF b.state = "half-open" THEN [b EXCEPT !.requests = @ + 1] ELSE b
       /\ caller' = [Outdate(cb.lapsed) EXCEPT ![p] = "current"]

(* afterRequest: the function returned, failed or panicked. *)
Counts_AnyGeneration(p) == TRUE
Counts(p) == caller[p] = "current" /\ ~cb.lapsed

AfterRequest(p, success) ==
    LET b     == CurrentState
        after == IF Counts(p)
                 THEN IF success THEN OnSuccess(b) ELSE OnFailure(b)
                 ELSE b
    IN /\ caller[p] # "idle"
       /\ cb' = after
       /\ caller' = [Outdate(cb.lapsed \/ after.state # cb.state) EXCEPT ![p] = "idle"]

(* Interval passes in the closed state, Timeout in the open one; half-open *)
(* has no timer.                                                           *)
TimerLapses_Always == ~cb.lapsed /\ cb' = [cb EXCEPT !.lapsed = TRUE] /\ UNCHANGED caller
TimerLapses ==
    /\ cb.state # "half-open"
    /\ ~cb.lapsed
    /\ cb' = [cb EXCEPT !.lapsed = TRUE]
    /\ UNCHANGED caller

BreakerNext ==
    \/ \E p \in Callers : Admit(p) \/ (\E success \in BOOLEAN : AfterRequest(p, success))
    \/ TimerLapses

BreakerSpec == BreakerInit /\ [][BreakerNext]_breakerVars

(***************************************************************************)
(* Fairness: time passes, a call that was let through returns (the clients *)
(* behind the wrappers have timeouts), and the service goes on calling.    *)
(***************************************************************************)
BreakerFairness ==
    /\ WF_breakerVars(TimerLapses)
    /\ \A p \in Callers :
          /\ WF_breakerVars(Admit(p))
          /\ WF_breakerVars(\E success \in BOOLEAN : AfterRequest(p, success))

FairBreakerSpec == BreakerSpec /\ BreakerFairness

-----------------------------------------------------------------------------
(* Properties *)

CurrentCallers == {p \in Callers : caller[p] = "current"}

(* The types of the breaker and its callers; half-open has no timer. *)
BreakerTypeOK ==
    /\ cb \in [state : States, requests : 0 .. MaxRequests, successes : Nat,
               failures : Nat, lapsed : BOOLEAN]
    /\ caller \in [Callers -> {"idle", "current", "stale"}]
    /\ cb.state = "half-open" => ~cb.lapsed

(* An open breaker lets nobody through, and whoever is still running was   *)
(* admitted before it opened and can no longer move it.                    *)
OpenAdmitsNobody == cb.state = "open" => CurrentCallers = {}

(* Half-open, no slot is lost and none is used twice: every admitted probe *)
(* is running or has succeeded, and there are at most MaxRequests of them. *)
SlotsAccounted ==
    cb.state = "half-open" =>
        /\ cb.requests = cb.successes + Cardinality(CurrentCallers)
        /\ cb.requests <= MaxRequests

(* A verdict is given by its own generation only: the result of a  *)
(* caller admitted before the last change leaves the breaker as it is.     *)
StaleResultsIgnored ==
    [][\A p \in Callers :
          caller[p] = "stale" /\ caller'[p] = "idle" /\ ~cb.lapsed => cb' = cb]_breakerVars

(* The breaker is never stuck: it leaves the open state, and half-open it  *)
(* decides, provided SuccessThreshold does not exceed MaxRequests.         *)
Recovers ==
    /\ cb.state = "open" ~> cb.state = "half-open"
    /\ cb.state = "half-open" ~> cb.state # "half-open"
=============================================================================
