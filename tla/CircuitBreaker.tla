--------------------------- MODULE CircuitBreaker ---------------------------
(***************************************************************************)
(* internal/circuitbreaker: the breaker in front of InfluxDB.  Goroutines  *)
(* call Execute, which is Allow, the protected function, RecordSuccess or  *)
(* RecordFailure, and a deferred Release.  Each critical section of cb.mu  *)
(* and each channel operation is one step, so everything the goroutines    *)
(* can interleave between two of them is explored: Allow decides on a      *)
(* state and on a lastFailure it has read under locks it already released. *)
(*                                                                         *)
(* Time is kept as ages: age is the time since lastFailure, cut off at     *)
(* Timeout, because the code only ever compares it with Timeout.           *)
(*                                                                         *)
(* The slots are the buffered channel cb.semaphore.  A receive from the    *)
(* empty channel parks the goroutine; a later send is handed to a parked   *)
(* receiver and never enters the buffer.  Which parked receiver gets it    *)
(* (Go: the oldest) is left open.                                          *)
(***************************************************************************)
EXTENDS Integers, FiniteSets

CONSTANTS Threads,           \* goroutines that call Execute
          FailureThreshold,  \* Config.FailureThreshold
          SuccessThreshold,  \* Config.SuccessThreshold
          Timeout,           \* Config.Timeout, in ticks of the clock
          MaxConcurrent      \* Config.MaxConcurrentRequests

\* New replaces every zero in the Config by a positive default.
ASSUME ConfigAssumption ==
    /\ IsFiniteSet(Threads)
    /\ FailureThreshold \in Nat \ {0}
    /\ SuccessThreshold \in Nat \ {0}
    /\ Timeout \in Nat \ {0}
    /\ MaxConcurrent \in Nat \ {0}

VARIABLES
    state,      \* cb.state
    failures,   \* cb.failures
    successes,  \* cb.successes
    age,        \* time since cb.lastFailure, at most Timeout
    slots,      \* len(cb.semaphore): slots that are taken
    reported,   \* the state the OnStateChange callback was last told
    pc,         \* where each goroutine is in Execute
    seenAge,    \* age of the lastFailure each goroutine read in Allow
    via,        \* history: the state through which Allow let each call in
    okRun,      \* history: successes recorded since the last failure
    failRun     \* history: failures recorded since the last success

breaker == <<state, failures, successes, age, slots, reported>>
history == <<okRun, failRun>>
vars    == <<breaker, pc, seenAge, via, history>>

States == {"closed", "half-open", "open"}

PCs == {"idle", "sawOpen", "sinceFailure", "toHalfOpen", "sawHalfOpen",
        "fn", "succeeded", "failed", "release", "parked"}

Cut(n, bound) == IF n < bound THEN n ELSE bound

-----------------------------------------------------------------------------
\* New(config): closed, all counters zero, lastFailure the zero time.
Init ==
    /\ state = "closed"
    /\ failures = 0 /\ successes = 0
    /\ age = Timeout
    /\ slots = 0
    /\ reported = "closed"
    /\ pc = [t \in Threads |-> "idle"]
    /\ seenAge = [t \in Threads |-> Timeout]
    /\ via = [t \in Threads |-> "none"]
    /\ okRun = 0 /\ failRun = 0

Goto(t, l) == pc' = [pc EXCEPT ![t] = l]

\* The goroutine is let through: it enters the function it protects.
Admit(t, s) ==
    /\ Goto(t, "fn")
    /\ via' = [via EXCEPT ![t] = s]

-----------------------------------------------------------------------------
(* transitionToLocked *)

Drained(new) == IF new = "half-open" THEN slots ELSE 0

\* The return in the default case of both drain loops leaves the function
\* before OnStateChange: only a move to half-open reaches the callback.
Told(new) == IF new = "half-open" THEN new ELSE reported

\* Fault: the counters survive a transition.
KeptCounters(new) == [failures |-> failures, successes |-> successes]

CountersAfter(new) == [failures |-> 0, successes |-> 0]

Become(new) ==
    /\ state' = new
    /\ failures' = CountersAfter(new).failures
    /\ successes' = CountersAfter(new).successes
    /\ slots' = Drained(new)
    /\ reported' = Told(new)

-----------------------------------------------------------------------------
(* Allow *)

\* State(): one read under RLock; the rest of Allow acts on what it saw.
ReadState(t) ==
    /\ pc[t] = "idle"
    /\ \/ state = "closed" /\ Admit(t, "closed")
       \/ state = "open" /\ Goto(t, "sawOpen") /\ UNCHANGED via
       \/ state = "half-open" /\ Goto(t, "sawHalfOpen") /\ UNCHANGED via
    /\ UNCHANGED <<breaker, seenAge, history>>

\* The second RLock of Allow copies lastFailure.
ReadLastFailure(t) ==
    /\ pc[t] = "sawOpen"
    /\ Goto(t, "sinceFailure")
    /\ seenAge' = [seenAge EXCEPT ![t] = age]
    /\ UNCHANGED <<breaker, via, history>>

\* time.Since(lastFailure) >= timeout, on the copy.
TimeoutPassed(t) ==
    /\ pc[t] = "sinceFailure"
    /\ seenAge[t] >= Timeout
    /\ Goto(t, "toHalfOpen")
    /\ UNCHANGED <<breaker, seenAge, via, history>>

\* ErrCircuitOpen
RefuseOpen(t) ==
    /\ pc[t] = "sinceFailure"
    /\ seenAge[t] < Timeout
    /\ Goto(t, "idle")
    /\ seenAge' = [seenAge EXCEPT ![t] = Timeout]
    /\ UNCHANGED <<breaker, via, history>>

\* transitionTo(StateHalfOpen): whatever the state is by now.
MoveToHalfOpen(t) ==
    /\ pc[t] = "toHalfOpen"
    /\ IF state = "half-open"
          THEN UNCHANGED <<state, failures, successes, slots, reported>>
          ELSE Become("half-open")
    /\ Admit(t, "open")
    /\ UNCHANGED <<age, seenAge, history>>

\* Fault: one token too many fits.
SlotFreeAtLimit == slots <= MaxConcurrent

SlotFree == slots < MaxConcurrent

Parked == {t \in Threads : pc[t] = "parked"}

\* The non-blocking send finds room in the buffer.
TakeSlot(t) ==
    /\ pc[t] = "sawHalfOpen"
    /\ Parked = {}
    /\ SlotFree
    /\ slots' = slots + 1
    /\ Admit(t, "half-open")
    /\ UNCHANGED <<state, failures, successes, age, reported, seenAge, history>>

\* The send meets a parked Release, which takes the token and returns.
HandOver(t) ==
    /\ pc[t] = "sawHalfOpen"
    /\ \E u \in Parked :
          /\ pc' = [pc EXCEPT ![t] = "fn", ![u] = "idle"]
          /\ via' = [via EXCEPT ![t] = "half-open", ![u] = "none"]
    /\ UNCHANGED <<breaker, seenAge, history>>

\* ErrTooManyRequests
RefuseBusy(t) ==
    /\ pc[t] = "sawHalfOpen"
    /\ Parked = {}
    /\ ~SlotFree
    /\ Goto(t, "idle")
    /\ UNCHANGED <<breaker, seenAge, via, history>>

-----------------------------------------------------------------------------
(* Execute after Allow *)

\* fn(ctx) returns nil or an error; a panic goes straight to the deferred
\* Release and records nothing.
FnEnds(t) ==
    /\ pc[t] = "fn"
    /\ \E l \in {"succeeded", "failed", "release"} : Goto(t, l)
    /\ UNCHANGED <<breaker, seenAge, via, history>>

\* Fault: a success in the closed state does not clear the failures.
ForgivesNothing == failures

FailuresAfterSuccess == 0

RecordSuccess(t) ==
    /\ pc[t] = "succeeded"
    /\ \/ /\ state = "half-open"
          /\ successes + 1 >= SuccessThreshold
          /\ Become("closed")
       \/ /\ state = "half-open"
          /\ successes + 1 < SuccessThreshold
          /\ successes' = successes + 1
          /\ UNCHANGED <<state, failures, slots, reported>>
       \/ /\ state = "closed"
          /\ failures' = FailuresAfterSuccess
          /\ UNCHANGED <<state, successes, slots, reported>>
       \/ /\ state = "open"
          /\ UNCHANGED <<state, failures, successes, slots, reported>>
    /\ okRun' = Cut(okRun + 1, SuccessThreshold)
    /\ failRun' = 0
    /\ Goto(t, "release")
    /\ UNCHANGED <<age, seenAge, via>>

RecordFailure(t) ==
    /\ pc[t] = "failed"
    /\ age' = 0
    /\ \/ /\ state = "half-open"
          /\ Become("open")
       \/ /\ state = "closed"
          /\ failures + 1 >= FailureThreshold
          /\ Become("open")
       \/ /\ state = "closed"
          /\ failures + 1 < FailureThreshold
          /\ failures' = failures + 1
          /\ UNCHANGED <<state, successes, slots, reported>>
       \/ /\ state = "open"
          /\ UNCHANGED <<state, failures, successes, slots, reported>>
    /\ failRun' = Cut(failRun + 1, FailureThreshold)
    /\ okRun' = 0
    /\ Goto(t, "release")
    /\ UNCHANGED <<seenAge, via>>

\* Fault: the slot is given back only while the breaker is half-open.
ReleasedIfHalfOpen == IF state = "half-open" THEN slots - 1 ELSE slots

Released == slots - 1

\* <-cb.semaphore takes a token, whoever sent it.
Release(t) ==
    /\ pc[t] = "release"
    /\ slots > 0
    /\ slots' = Released
    /\ Goto(t, "idle")
    /\ via' = [via EXCEPT ![t] = "none"]
    /\ UNCHANGED <<state, failures, successes, age, reported, seenAge, history>>

\* <-cb.semaphore on the empty channel: Execute does not return.
Park(t) ==
    /\ pc[t] = "release"
    /\ slots = 0
    /\ Goto(t, "parked")
    /\ UNCHANGED <<breaker, seenAge, via, history>>

-----------------------------------------------------------------------------
\* The clock: every age that has not reached Timeout grows.
Tick ==
    /\ age < Timeout \/ \E t \in Threads : seenAge[t] < Timeout
    /\ age' = Cut(age + 1, Timeout)
    /\ seenAge' = [t \in Threads |-> Cut(seenAge[t] + 1, Timeout)]
    /\ UNCHANGED <<state, failures, successes, slots, reported, pc, via, okRun, failRun>>

\* The steps a goroutine owes once it has called Execute.
Continue(t) ==
    \/ ReadLastFailure(t) \/ TimeoutPassed(t) \/ RefuseOpen(t)
    \/ MoveToHalfOpen(t) \/ TakeSlot(t) \/ HandOver(t) \/ RefuseBusy(t)
    \/ FnEnds(t) \/ RecordSuccess(t) \/ RecordFailure(t)
    \/ Release(t) \/ Park(t)

Next == Tick \/ \E t \in Threads : ReadState(t) \/ Continue(t)

Spec == Init /\ [][Next]_vars

\* Calls need not arrive and nothing is assumed of the clock; a goroutine that
\* is runnable is scheduled, a mutex is eventually granted, and fn returns
\* because the HTTP client behind it has a timeout of 30 seconds.
FairSpec == Spec /\ \A t \in Threads : WF_vars(Continue(t))

-----------------------------------------------------------------------------
(* Properties *)

\* Every variable has its type; no more slots are taken than the channel holds.
TypeOK ==
    /\ state \in States
    /\ failures \in Nat
    /\ successes \in Nat
    /\ age \in 0..Timeout
    /\ slots \in 0..MaxConcurrent
    /\ reported \in States
    /\ pc \in [Threads -> PCs]
    /\ seenAge \in [Threads -> 0..Timeout]
    /\ via \in [Threads -> States \cup {"none"}]
    /\ okRun \in 0..SuccessThreshold
    /\ failRun \in 0..FailureThreshold

\* The counters never carry over from one state to the next: failures are
\* counted only while closed, successes only while half-open, and neither
\* reaches its threshold without the transition having been made.
CountersFitState ==
    /\ failures > 0 => state = "closed"
    /\ successes > 0 => state = "half-open"
    /\ failures < FailureThreshold
    /\ successes < SuccessThreshold

\* The calls that sent a token into cb.semaphore and have not released yet.
Holders == {t \in Threads : via[t] = "half-open"}

\* No slot outlives the call that took it.  Releases by calls that took none
\* and the drains of a transition may remove tokens early, but every token in
\* the channel is backed by a call that is still to release, so the half-open
\* breaker cannot be left full with nobody to empty it.
SlotsHeldByCalls == slots <= Cardinality(Holders)

\* The breaker trips from closed only on FailureThreshold failures recorded in
\* a row: one success in between, of any call, postpones it, and failures left
\* from before an earlier trip do not count.
TripsOnlyAfterFailures ==
    [][state = "closed" /\ state' = "open" => failRun' = FailureThreshold]_vars

\* The breaker closes only after SuccessThreshold successes recorded in a row;
\* successes of an earlier half-open period, or ones with a failure in
\* between, do not add up.
ClosesOnlyAfterSuccesses ==
    [][state # "closed" /\ state' = "closed" => okRun' = SuccessThreshold]_vars

-----------------------------------------------------------------------------
(* What a comment of the package says, and the code does not do *)

\* "Release releases a slot in half-open state": a call that was let in while
\* the breaker was closed has no slot to release, and Execute returns.
ExecuteReturns ==
    \A t \in Threads : (pc[t] = "fn") ~> (pc[t] = "idle")
=============================================================================
