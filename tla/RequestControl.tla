--------------------------- MODULE RequestControl ---------------------------
(***************************************************************************)
(* The shared request controller of the Black Duck client                  *)
(* (blackduck/request_control.py) and the attempts a client makes through  *)
(* it (BlackDuckClient.request in blackduck/client.py).                    *)
(*                                                                         *)
(* Every worker thread asks the controller before each attempt.  Under its *)
(* lock the controller hands out a start slot at least one interval after  *)
(* the previous one; the thread then sleeps outside the lock and asks      *)
(* again.  Server failures inside a sliding window open a circuit breaker, *)
(* which stays open until somebody resets it.                              *)
(*                                                                         *)
(* Times are kept relative to now: what lies in the future as the time     *)
(* left, what lies in the past as its age, saturating past the limit it is *)
(* compared with.                                                          *)
(***************************************************************************)
EXTENDS Integers, Sequences

CONSTANTS
    N,         \* how many targets are collected
    Interval,  \* request_interval_seconds
    Threshold, \* circuit_breaker_threshold
    Window,    \* circuit_breaker_window_seconds
    Retries    \* retries of the client after the first attempt

ASSUME RequestAssumption ==
    /\ N \in Nat \ {0}
    /\ Interval \in Nat /\ Threshold \in Nat \ {0} /\ Window \in Nat \ {0}
    /\ Retries \in Nat

(* The collection targets, in the order they are handed to the pool. *)
Targets == 1..N

VARIABLES
    nextIn,   \* time left until _next_request_at
    failures, \* the recorded server failures: whose request, how long ago
    open,     \* _circuit_open
    st,       \* what the worker of each target is doing
    wait,     \* time left until the slot its request was given
    tries,    \* attempts its client has used up
    err       \* the failures in the CircuitSnapshot of the error it raised

control == <<nextIn, failures, open>>
client == <<st, wait, tries, err>>
rcVars == <<control, client>>

Active == {"ready", "pacing", "inflight", "tripped", "backoff"}
Settled == {"ok", "failed", "skipped", "circuit", "cancelled"}

Becomes(t, s) == st' = [st EXCEPT ![t] = s]
Positive(n) == IF n > 0 THEN n ELSE 0

(* _prune_failures_locked: the failures are popped from the front, up to    *)
(* the first that is young enough; none while the circuit is open.          *)
Prune(fs) ==
    LET kept == {i \in 1..Len(fs) + 1 : i > Len(fs) \/ fs[i].age <= Window}
        first == CHOOSE i \in kept : \A j \in kept : i <= j
    IN IF open THEN fs ELSE SubSeq(fs, first, Len(fs))

(* circuit_error: the worker fails with a snapshot of the failures. *)
RaisesCircuitError(t) ==
    /\ err' = [err EXCEPT ![t] = failures]
    /\ Becomes(t, "circuit")
    /\ UNCHANGED <<control, wait, tries>>

(* A mistaken form: the next slot is counted from now, not from this slot. *)
BeforeRequestFromNow(t) ==
    /\ st[t] = "ready"
    /\ \/ open /\ RaisesCircuitError(t)
       \/ /\ ~open
          /\ wait' = [wait EXCEPT ![t] = nextIn]
          /\ nextIn' = Interval
          /\ Becomes(t, "pacing")
          /\ UNCHANGED <<failures, open, tries, err>>

(* before_request, first half: reserve a slot under the lock. *)
BeforeRequest(t) ==
    /\ st[t] = "ready"
    /\ \/ open /\ RaisesCircuitError(t)
       \/ /\ ~open
          /\ wait' = [wait EXCEPT ![t] = nextIn]
          /\ nextIn' = nextIn + Interval
          /\ Becomes(t, "pacing")
          /\ UNCHANGED <<failures, open, tries, err>>

(* A mistaken form: the circuit is not looked at again after the sleep. *)
PermitUnchecked(t) ==
    /\ st[t] = "pacing" /\ wait[t] = 0
    /\ Becomes(t, "inflight") /\ UNCHANGED <<control, wait, tries, err>>

(* before_request, second half: the sleep is over, and the circuit may have *)
(* opened meanwhile.                                                        *)
Permit(t) ==
    /\ st[t] = "pacing" /\ wait[t] = 0
    /\ \/ open /\ RaisesCircuitError(t)
       \/ ~open /\ Becomes(t, "inflight") /\ UNCHANGED <<control, wait, tries, err>>

(* The request returns a body. *)
Succeeds(t) ==
    /\ st[t] = "inflight"
    /\ failures' = Prune(failures)
    /\ Becomes(t, "ok")
    /\ UNCHANGED <<nextIn, open, wait, tries, err>>

(* A mistaken form: one attempt too many. *)
RetryOnceMore(t) ==
    IF tries[t] <= Retries
    THEN Becomes(t, "backoff") /\ tries' = [tries EXCEPT ![t] = @ + 1]
    ELSE Becomes(t, "failed") /\ UNCHANGED tries

(* A retryable error takes one attempt; the last one fails the request. *)
RetryOrFail(t) ==
    IF tries[t] < Retries
    THEN Becomes(t, "backoff") /\ tries' = [tries EXCEPT ![t] = @ + 1]
    ELSE Becomes(t, "failed") /\ UNCHANGED tries

(* A mistaken form: the count is compared before the window is applied. *)
ServerErrorCountsOld(t) ==
    /\ st[t] = "inflight"
    /\ LET counted == Append(failures, [target |-> t, age |-> 0])
       IN failures' = counted /\ open' = (open \/ Len(counted) >= Threshold)
    /\ IF open' THEN Becomes(t, "tripped") /\ UNCHANGED tries ELSE RetryOrFail(t)
    /\ UNCHANGED <<nextIn, wait, err>>

(* record_server_failure, and the client's reaction to a 5xx answer: it is *)
(* retried (500, 502, 503, 504) or final (any other).                      *)
ServerError(t) ==
    /\ st[t] = "inflight"
    /\ LET counted == Append(Prune(failures), [target |-> t, age |-> 0])
       IN failures' = counted /\ open' = (open \/ Len(counted) >= Threshold)
    /\ \/ open' /\ Becomes(t, "tripped") /\ UNCHANGED tries
       \/ ~open' /\ RetryOrFail(t)
       \/ ~open' /\ Becomes(t, "failed") /\ UNCHANGED tries
    /\ UNCHANGED <<nextIn, wait, err>>

(* circuit_error is called after the lock was released. *)
Snapshots(t) ==
    /\ st[t] = "tripped"
    /\ RaisesCircuitError(t)

(* Any other answer: 429 is retried, the rest are final. *)
ClientError(t) ==
    /\ st[t] = "inflight"
    /\ failures' = Prune(failures)
    /\ \/ RetryOrFail(t)
       \/ Becomes(t, "failed") /\ UNCHANGED tries
    /\ UNCHANGED <<nextIn, open, wait, err>>

(* URLError, TimeoutError, OSError: retried, and unknown to the breaker. *)
NetworkError(t) ==
    /\ st[t] = "inflight"
    /\ RetryOrFail(t)
    /\ UNCHANGED <<control, wait, err>>

(* _sleep_for_retry ends. *)
Retry(t) ==
    /\ st[t] = "backoff"
    /\ Becomes(t, "ready")
    /\ UNCHANGED <<control, wait, tries, err>>

(* BlackDuckRequestController.reset *)
Reset ==
    /\ failures' = <<>>
    /\ open' = FALSE
    /\ nextIn' = 0

Attempt(t) == BeforeRequest(t) \/ Permit(t) \/ Snapshots(t) \/ Retry(t)
Answer(t) == Succeeds(t) \/ ServerError(t) \/ ClientError(t) \/ NetworkError(t)

(* One unit of time passes for the controller and its sleeping threads. *)
Pass ==
    /\ nextIn' = Positive(nextIn - 1)
    /\ wait' = [t \in Targets |-> Positive(wait[t] - 1)]
    /\ failures' = [i \in DOMAIN failures |->
                     [failures[i] EXCEPT !.age = IF @ <= Window THEN @ + 1 ELSE @]]

ControlInit ==
    /\ nextIn = 0 /\ failures = <<>> /\ open = FALSE

-----------------------------------------------------------------------------
InFlight == {t \in Targets : st[t] = "inflight"}

(* Once the circuit is open no further request is sent until it is reset:  *)
(* the requests in flight only drain, threads asleep in before_request      *)
(* included.                                                                *)
OpenStopsTraffic == [][open /\ open' => InFlight' \subseteq InFlight]_rcVars

(* The circuit opens only on a burst, at least Threshold server failures,  *)
(* all of them inside the window, and keeps them as evidence while open.   *)
OpensOnBurst ==
    [][open' =>
         /\ Len(failures') >= Threshold
         /\ ~open => \A i \in 1..Len(failures') : failures'[i].age <= Window]_rcVars
=============================================================================
