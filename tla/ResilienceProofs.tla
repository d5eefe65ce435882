-------------------------- MODULE ResilienceProofs --------------------------
(***************************************************************************)
(* What holds of the two guards in front of the program's work, each for   *)
(* any number of the parties that use it and any configuration.            *)
(*                                                                         *)
(* The circuit breaker: the inductive invariant IInv adds to its           *)
(* properties where a call that holds a slot can be (HoldersInside) and    *)
(* that the two counters of the code never exceed the runs of equal        *)
(* outcomes that were really recorded (CountersAreRuns).                   *)
(*                                                                         *)
(* The rate limiter: with Window <= 2 * CleanupInterval the store is type  *)
(* correct and implements WindowQuota, so neither lazy refills nor         *)
(* clean-ups change what a client is granted; GrantsBounded says how much  *)
(* that is over any stretch of a window's length.                          *)
(***************************************************************************)
EXTENDS CircuitBreaker, RateLimiter, FiniteSetTheorems, TLAPS

\* Before Allow has decided, a call has no entry recorded for it; so a call
\* that sends a token is not a holder yet.
HoldersInside ==
    \A t \in Threads :
        pc[t] \in {"idle", "sawOpen", "sinceFailure", "toHalfOpen", "sawHalfOpen"}
            => via[t] = "none"

CountersAreRuns ==
    /\ failures <= failRun
    /\ successes <= okRun

IInv ==
    /\ TypeOK
    /\ CountersFitState
    /\ HoldersInside
    /\ SlotsHeldByCalls
    /\ CountersAreRuns

-----------------------------------------------------------------------------
\* Cutting at a bound stays in the range up to it and keeps the order.
LEMMA CutFacts ==
    ASSUME NEW n \in Nat, NEW b \in Nat
    PROVE  /\ Cut(n, b) \in 0..b
           /\ Cut(n, b) <= n
           /\ n >= b => Cut(n, b) = b
           /\ n < b => Cut(n, b) = n
  BY DEF Cut

\* In every state of type TypeOK the holders are a finite set.
LEMMA HoldersFinite ==
    /\ IsFiniteSet(Holders)
    /\ Cardinality(Holders) \in Nat
  <1>1. IsFiniteSet(Threads)
    BY ConfigAssumption
  <1>2. Holders \subseteq Threads
    BY DEF Holders
  <1>3. IsFiniteSet(Holders)
    BY <1>1, <1>2, FS_Subset
  <1> QED
    BY <1>3, FS_CardinalityType

\* At first the breaker is closed, its counters are 0 and nobody is inside.
LEMMA InitInv == Init => IInv
  <1> SUFFICES ASSUME Init PROVE IInv
    OBVIOUS
  <1>1. TypeOK
    BY ConfigAssumption DEF Init, TypeOK, States, PCs
  <1>2. CountersFitState /\ HoldersInside /\ CountersAreRuns
    BY ConfigAssumption DEF Init, CountersFitState, HoldersInside, CountersAreRuns
  <1>3. SlotsHeldByCalls
    BY HoldersFinite DEF Init, SlotsHeldByCalls
  <1> QED
    BY <1>1, <1>2, <1>3 DEF IInv

-----------------------------------------------------------------------------
\* What a transition leaves behind.
LEMMA BecomeFacts ==
    ASSUME TypeOK, NEW new \in States, Become(new)
    PROVE  /\ state' = new
           /\ failures' = 0
           /\ successes' = 0
           /\ slots' \in 0..MaxConcurrent
           /\ slots' <= slots
           /\ reported' \in States
  BY ConfigAssumption DEF Become, CountersAfter, Drained, Told, TypeOK

\* The types and the counters, for the steps of one goroutine.
LEMMA StepTypeOK ==
    ASSUME IInv, NEW t \in Threads, ReadState(t) \/ Continue(t)
    PROVE  TypeOK'
  <1> USE ConfigAssumption DEF IInv, TypeOK, PCs, Goto, Admit, breaker, history
  <1>1. CASE ReadState(t)
    BY <1>1 DEF ReadState, States
  <1>2. CASE ReadLastFailure(t) \/ TimeoutPassed(t) \/ RefuseOpen(t)
    BY <1>2 DEF ReadLastFailure, TimeoutPassed, RefuseOpen
  <1>3. CASE MoveToHalfOpen(t)
    <2>1. "half-open" \in States /\ "open" \in States
      BY DEF States
    <2>2. /\ state' \in States /\ failures' \in Nat /\ successes' \in Nat
          /\ slots' \in 0..MaxConcurrent /\ reported' \in States
      BY <1>3, <2>1, BecomeFacts DEF MoveToHalfOpen
    <2> QED
      BY <1>3, <2>1, <2>2 DEF MoveToHalfOpen
  <1>4. CASE TakeSlot(t)
    BY <1>4 DEF TakeSlot, SlotFree, States
  <1>5. CASE HandOver(t)
    BY <1>5 DEF HandOver, Parked, States
  <1>6. CASE RefuseBusy(t) \/ FnEnds(t) \/ Park(t)
    BY <1>6 DEF RefuseBusy, FnEnds, Park
  <1>7. CASE RecordSuccess(t)
    <2>1. okRun' \in 0..SuccessThreshold /\ failRun' \in 0..FailureThreshold
      BY <1>7, CutFacts DEF RecordSuccess
    <2>2. /\ state' \in States /\ failures' \in Nat /\ successes' \in Nat
          /\ slots' \in 0..MaxConcurrent /\ reported' \in States
      <3>1. "closed" \in States
        BY DEF States
      <3> QED
        BY <1>7, <3>1, BecomeFacts DEF RecordSuccess, FailuresAfterSuccess
    <2> QED
      BY <1>7, <2>1, <2>2 DEF RecordSuccess
  <1>8. CASE RecordFailure(t)
    <2>1. okRun' \in 0..SuccessThreshold /\ failRun' \in 0..FailureThreshold
      BY <1>8, CutFacts DEF RecordFailure
    <2>2. /\ state' \in States /\ failures' \in Nat /\ successes' \in Nat
          /\ slots' \in 0..MaxConcurrent /\ reported' \in States
      <3>1. "open" \in States
        BY DEF States
      <3> QED
        BY <1>8, <3>1, BecomeFacts DEF RecordFailure
    <2> QED
      BY <1>8, <2>1, <2>2 DEF RecordFailure
  <1>9. CASE Release(t)
    BY <1>9 DEF Release, Released
  <1> QED
    BY <1>1, <1>2, <1>3, <1>4, <1>5, <1>6, <1>7, <1>8, <1>9 DEF Continue

\* A goroutine's step keeps the counters within the runs of equal results.
LEMMA StepCounters ==
    ASSUME IInv, NEW t \in Threads, ReadState(t) \/ Continue(t)
    PROVE  CountersFitState' /\ CountersAreRuns'
  <1> USE ConfigAssumption
      DEF IInv, TypeOK, CountersFitState, CountersAreRuns, breaker, history
  <1>1. CASE \/ ReadState(t) \/ ReadLastFailure(t) \/ TimeoutPassed(t)
             \/ RefuseOpen(t) \/ TakeSlot(t) \/ HandOver(t) \/ RefuseBusy(t)
             \/ FnEnds(t) \/ Release(t) \/ Park(t)
    BY <1>1 DEF ReadState, ReadLastFailure, TimeoutPassed, RefuseOpen, TakeSlot,
                HandOver, RefuseBusy, FnEnds, Release, Park
  <1>2. CASE MoveToHalfOpen(t)
    <2>1. "half-open" \in States
      BY DEF States
    <2> QED
      BY <1>2, <2>1, BecomeFacts DEF MoveToHalfOpen
  <1>3. CASE RecordSuccess(t)
    <2>1. okRun' = Cut(okRun + 1, SuccessThreshold) /\ okRun' \in Nat /\ failRun' = 0
      BY <1>3, CutFacts DEF RecordSuccess
    <2>2. CASE Become("closed")
      BY <1>3, <2>1, <2>2, BecomeFacts DEF RecordSuccess, States
    <2>3. CASE state = "half-open" /\ successes + 1 < SuccessThreshold
      BY <1>3, <2>1, <2>3 DEF RecordSuccess, Become, Cut
    <2>4. CASE state = "closed" \/ state = "open"
      BY <1>3, <2>1, <2>4 DEF RecordSuccess, FailuresAfterSuccess
    <2> QED
      BY <1>3, <2>2, <2>3, <2>4 DEF RecordSuccess
  <1>4. CASE RecordFailure(t)
    <2>1. failRun' = Cut(failRun + 1, FailureThreshold) /\ failRun' \in Nat /\ okRun' = 0
      BY <1>4, CutFacts DEF RecordFailure
    <2>2. CASE Become("open")
      BY <1>4, <2>1, <2>2, BecomeFacts DEF RecordFailure, States
    <2>3. CASE state = "closed" /\ failures + 1 < FailureThreshold
      BY <1>4, <2>1, <2>3 DEF RecordFailure, Become, Cut
    <2>4. CASE state = "open"
      BY <1>4, <2>1, <2>4 DEF RecordFailure
    <2> QED
      BY <1>4, <2>2, <2>3, <2>4 DEF RecordFailure
  <1> QED
    BY <1>1, <1>2, <1>3, <1>4 DEF Continue

-----------------------------------------------------------------------------
\* A goroutine's step keeps the holders of slots inside Execute.
LEMMA StepHolders ==
    ASSUME IInv, NEW t \in Threads, ReadState(t) \/ Continue(t)
    PROVE  HoldersInside'
  <1> USE DEF IInv, TypeOK, HoldersInside, Goto, Admit, breaker, history
  <1>1. CASE ReadState(t)
    BY <1>1 DEF ReadState
  <1>2. CASE ReadLastFailure(t) \/ TimeoutPassed(t) \/ RefuseOpen(t)
    BY <1>2 DEF ReadLastFailure, TimeoutPassed, RefuseOpen
  <1>3. CASE MoveToHalfOpen(t)
    BY <1>3 DEF MoveToHalfOpen
  <1>4. CASE TakeSlot(t)
    BY <1>4 DEF TakeSlot
  <1>5. CASE HandOver(t)
    BY <1>5 DEF HandOver, Parked
  <1>6. CASE RefuseBusy(t) \/ FnEnds(t) \/ Park(t)
    BY <1>6 DEF RefuseBusy, FnEnds, Park
  <1>7. CASE RecordSuccess(t)
    BY <1>7 DEF RecordSuccess
  <1>8. CASE RecordFailure(t)
    BY <1>8 DEF RecordFailure
  <1>9. CASE Release(t)
    BY <1>9 DEF Release
  <1> QED
    BY <1>1, <1>2, <1>3, <1>4, <1>5, <1>6, <1>7, <1>8, <1>9 DEF Continue

\* Tokens and their holders: only TakeSlot adds a token, and it adds a holder;
\* only a returning call stops being a holder, and it takes a token along or
\* found the channel empty.
LEMMA StepSlots ==
    ASSUME IInv, NEW t \in Threads, ReadState(t) \/ Continue(t)
    PROVE  SlotsHeldByCalls'
  <1> USE DEF SlotsHeldByCalls
  <1>0. /\ TypeOK /\ HoldersInside /\ slots <= Cardinality(Holders)
        /\ slots \in Nat
        /\ IsFiniteSet(Holders) /\ Cardinality(Holders) \in Nat
        /\ IsFiniteSet(Holders') /\ Cardinality(Holders') \in Nat
    <2>1. /\ IsFiniteSet(Threads)
          /\ Holders' \subseteq Threads
      BY ConfigAssumption DEF Holders
    <2>2. IsFiniteSet(Holders')
      BY <2>1, FS_Subset
    <2>3. TypeOK /\ HoldersInside /\ slots <= Cardinality(Holders)
      BY DEF IInv
    <2>4. slots \in Nat
      BY <2>3, ConfigAssumption DEF TypeOK
    <2> QED
      BY <2>2, <2>3, <2>4, HoldersFinite, FS_CardinalityType
  <1>1. ASSUME Holders' = Holders, slots' <= slots, slots' \in Nat
        PROVE  SlotsHeldByCalls'
    BY <1>0, <1>1
  <1>2. CASE ReadState(t)
    <2>1. Holders' = Holders
      BY <1>0, <1>2 DEF ReadState, Admit, Goto, Holders, HoldersInside, TypeOK
    <2> QED
      BY <1>0, <1>1, <1>2, <2>1 DEF ReadState, breaker
  <1>3. CASE \/ ReadLastFailure(t) \/ TimeoutPassed(t) \/ RefuseOpen(t)
             \/ RefuseBusy(t) \/ FnEnds(t) \/ Park(t)
    <2>1. via' = via /\ slots' = slots
      BY <1>3 DEF ReadLastFailure, TimeoutPassed, RefuseOpen, RefuseBusy,
                  FnEnds, Park, breaker
    <2> QED
      BY <1>0, <1>1, <2>1 DEF Holders
  <1>4. CASE MoveToHalfOpen(t)
    <2>1. Holders' = Holders
      BY <1>0, <1>4 DEF MoveToHalfOpen, Admit, Holders, HoldersInside, TypeOK
    <2>2. slots' <= slots /\ slots' \in Nat
      BY <1>0, <1>4, BecomeFacts, ConfigAssumption DEF MoveToHalfOpen, States
    <2> QED
      BY <1>1, <2>1, <2>2
  <1>5. CASE TakeSlot(t)
    <2>1. t \notin Holders
      BY <1>0, <1>5 DEF TakeSlot, Holders, HoldersInside
    <2>2. Holders' = Holders \cup {t}
      BY <1>0, <1>5 DEF TakeSlot, Admit, Holders, TypeOK
    <2>3. Cardinality(Holders') = Cardinality(Holders) + 1
      BY <1>0, <2>1, <2>2, FS_AddElement
    <2> QED
      BY <1>0, <1>5, <2>3 DEF TakeSlot
  <1>6. CASE HandOver(t)
    <2>1. PICK u \in Parked :
              /\ pc' = [pc EXCEPT ![t] = "fn", ![u] = "idle"]
              /\ via' = [via EXCEPT ![t] = "half-open", ![u] = "none"]
      BY <1>6 DEF HandOver
    <2>2. u # t /\ u \in Threads /\ t \notin Holders /\ slots' = slots
      BY <1>0, <1>6, <2>1 DEF HandOver, Parked, Holders, HoldersInside, breaker
    <2>3. Holders' = (Holders \cup {t}) \ {u}
      BY <1>0, <2>1, <2>2 DEF Holders, TypeOK
    <2>4. /\ IsFiniteSet(Holders \cup {t})
          /\ Cardinality(Holders \cup {t}) = Cardinality(Holders) + 1
      BY <1>0, <2>2, FS_AddElement
    <2>5. Cardinality(Holders') >= Cardinality(Holders \cup {t}) - 1
      BY <1>0, <2>3, <2>4, FS_RemoveElement
    <2> QED
      BY <1>0, <2>2, <2>4, <2>5
  <1>7. CASE RecordSuccess(t) \/ RecordFailure(t)
    <2>1. via' = via
      BY <1>7 DEF RecordSuccess, RecordFailure
    <2>2. slots' <= slots /\ slots' \in Nat
      <3>1. "open" \in States /\ "closed" \in States
        BY DEF States
      <3> QED
        BY <1>0, <1>7, <3>1, BecomeFacts, ConfigAssumption
           DEF RecordSuccess, RecordFailure
    <2> QED
      BY <1>1, <2>1, <2>2 DEF Holders
  <1>8. CASE Release(t)
    <2>1. Holders' = Holders \ {t}
      BY <1>0, <1>8 DEF Release, Holders, TypeOK
    <2>2. Cardinality(Holders') >= Cardinality(Holders) - 1
      BY <1>0, <2>1, FS_RemoveElement
    <2> QED
      BY <1>0, <1>8, <2>2 DEF Release, Released
  <1> QED
    BY <1>2, <1>3, <1>4, <1>5, <1>6, <1>7, <1>8 DEF Continue

\* Time moves no counter and no token.
LEMMA TickInv == IInv /\ Tick => IInv'
  <1> SUFFICES ASSUME IInv, Tick PROVE IInv'
    OBVIOUS
  <1>1. age \in Nat /\ \A t \in Threads : seenAge[t] \in Nat
    BY ConfigAssumption DEF IInv, TypeOK
  <1>2. /\ age' \in 0..Timeout
        /\ seenAge' \in [Threads -> 0..Timeout]
    <2>1. \A n \in Nat : Cut(n + 1, Timeout) \in 0..Timeout
      BY ConfigAssumption DEF Cut
    <2> QED
      BY <1>1, <2>1 DEF Tick
  <1>3. TypeOK'
    BY <1>2 DEF Tick, IInv, TypeOK
  <1>4. CountersFitState' /\ HoldersInside' /\ SlotsHeldByCalls' /\ CountersAreRuns'
    <2>1. /\ state' = state /\ failures' = failures /\ successes' = successes
          /\ slots' = slots /\ pc' = pc /\ via' = via
          /\ okRun' = okRun /\ failRun' = failRun
      BY DEF Tick
    <2>2. Holders' = Holders
      BY <2>1 DEF Holders
    <2> QED
      BY <2>1, <2>2 DEF IInv, CountersFitState, HoldersInside, SlotsHeldByCalls,
                        CountersAreRuns
  <1> QED
    BY <1>3, <1>4 DEF IInv

\* Every step keeps the inductive invariant, ...
LEMMA StepInv == IInv /\ [Next]_vars => IInv'
  <1> SUFFICES ASSUME IInv, [Next]_vars PROVE IInv'
    OBVIOUS
  <1>1. CASE Tick
    BY <1>1, TickInv
  <1>2. ASSUME NEW t \in Threads, ReadState(t) \/ Continue(t) PROVE IInv'
    BY <1>2, StepTypeOK, StepCounters, StepHolders, StepSlots DEF IInv
  <1>3. CASE UNCHANGED vars
    BY <1>3 DEF vars, breaker, history, IInv, TypeOK, CountersFitState,
                HoldersInside, SlotsHeldByCalls, Holders, CountersAreRuns
  <1> QED
    BY <1>1, <1>2, <1>3 DEF Next

\* ... so it holds always.
LEMMA BreakerInv == Spec => []IInv
  BY InitInv, StepInv, PTL DEF Spec

-----------------------------------------------------------------------------
\* Type correctness: in particular cb.semaphore never holds more tokens than
\* MaxConcurrentRequests.
THEOREM BreakerTypeOK == Spec => []TypeOK
  <1>1. IInv => TypeOK
    BY DEF IInv
  <1> QED
    BY <1>1, BreakerInv, PTL

\* However calls, drains and misplaced releases interleave, every token in
\* the semaphore belongs to a call that has not finished.
THEOREM BreakerSlotsHeldByCalls == Spec => []SlotsHeldByCalls
  <1>1. IInv => SlotsHeldByCalls
    BY DEF IInv
  <1> QED
    BY <1>1, BreakerInv, PTL

\* The counters of RecordSuccess and RecordFailure stay below their
\* thresholds and count only in the state they are for.
THEOREM BreakerCountersFitState == Spec => []CountersFitState
  <1>1. IInv => CountersFitState
    BY DEF IInv
  <1> QED
    BY <1>1, BreakerInv, PTL

\* The breaker opens from closed only on a full run of failures.
THEOREM BreakerTripsOnlyAfterFailures == Spec => TripsOnlyAfterFailures
  <1>1. ASSUME IInv, [Next]_vars, state = "closed", state' = "open"
        PROVE  failRun' = FailureThreshold
    <2>1. PICK t \in Threads : RecordFailure(t)
      BY <1>1 DEF Next, Continue, Tick, ReadState, ReadLastFailure,
           TimeoutPassed, RefuseOpen, MoveToHalfOpen, TakeSlot, HandOver,
           RefuseBusy, FnEnds, RecordSuccess, Release, Park, Become, vars,
           breaker, history
    <2>2. failures + 1 >= FailureThreshold
      BY <1>1, <2>1 DEF RecordFailure
    <2>3. failRun + 1 >= FailureThreshold /\ failRun \in Nat
      BY <1>1, <2>2, ConfigAssumption DEF IInv, TypeOK, CountersAreRuns
    <2> QED
      BY <2>1, <2>3, ConfigAssumption DEF RecordFailure, Cut
  <1>2. IInv /\ [Next]_vars
          => [state = "closed" /\ state' = "open" => failRun' = FailureThreshold]_vars
    BY <1>1
  <1> QED
    BY <1>2, BreakerInv, PTL DEF Spec, TripsOnlyAfterFailures

\* The breaker closes only on a full run of successes.
THEOREM BreakerClosesOnlyAfterSuccesses == Spec => ClosesOnlyAfterSuccesses
  <1>1. ASSUME IInv, [Next]_vars, state # "closed", state' = "closed"
        PROVE  okRun' = SuccessThreshold
    <2>1. PICK t \in Threads : RecordSuccess(t)
      BY <1>1 DEF Next, Continue, Tick, ReadState, ReadLastFailure,
           TimeoutPassed, RefuseOpen, MoveToHalfOpen, TakeSlot, HandOver,
           RefuseBusy, FnEnds, RecordFailure, Release, Park, Become, vars,
           breaker, history
    <2>2. successes + 1 >= SuccessThreshold
      BY <1>1, <2>1 DEF RecordSuccess
    <2>3. okRun + 1 >= SuccessThreshold /\ okRun \in Nat
      BY <1>1, <2>2, ConfigAssumption DEF IInv, TypeOK, CountersAreRuns
    <2> QED
      BY <2>1, <2>3, ConfigAssumption DEF RecordSuccess, Cut
  <1>2. IInv /\ [Next]_vars
          => [state # "closed" /\ state' = "closed" => okRun' = SuccessThreshold]_vars
    BY <1>1
  <1> QED
    BY <1>2, BreakerInv, PTL DEF Spec, ClosesOnlyAfterSuccesses
-----------------------------------------------------------------------------
(* The rate limiter: constants and refills. *)

\* The constants, and what follows of them.
LEMMA ConstantFacts ==
    /\ Limit \in Nat \ {0}
    /\ Window \in Nat \ {0}
    /\ Horizon \in Nat
    /\ Window < Horizon
    /\ CleanupInterval \in Nat \ {0}
    /\ Window <= 2 * CleanupInterval
  BY LimiterAssumption DEF Limit, Horizon

\* How often a window fits into an elapsed time.
LEMMA WholeWindows ==
    ASSUME NEW a \in Nat, NEW w \in Nat \ {0}
    PROVE  /\ a \div w \in Nat
           /\ a < w => a \div w = 0
           /\ a >= w => a \div w >= 1
  OBVIOUS

\* Tokens are added exactly when a window has passed, and never fewer than
\* fill the bucket.
LEMMA TokensToAddFacts ==
    ASSUME BucketsTyped, NEW c \in Clients
    PROVE  /\ TokensToAdd(c) \in Nat
           /\ sinceCheck[c] < Window => TokensToAdd(c) = 0
           /\ sinceCheck[c] >= Window => TokensToAdd(c) >= Limit
  <1>1. sinceCheck[c] \in Nat
    BY ConstantFacts DEF BucketsTyped
  <1> DEFINE k == sinceCheck[c] \div Window
  <1>2. k \in Nat /\ (sinceCheck[c] < Window => k = 0) /\ (sinceCheck[c] >= Window => k >= 1)
    BY <1>1, WholeWindows, ConstantFacts
  <1>3. TokensToAdd(c) = k * Limit
    BY DEF TokensToAdd
  <1> HIDE DEF k
  <1>4. k * Limit \in Nat /\ (k = 0 => k * Limit = 0) /\ (k >= 1 => k * Limit >= Limit)
    BY <1>2, ConstantFacts
  <1> QED
    BY <1>2, <1>3, <1>4

\* A bucket whose window has passed counts as full; any other as it stands.
LEMMA AvailableFacts ==
    ASSUME BucketsTyped, NEW c \in Clients
    PROVE  /\ Available(c) = IF sinceCheck[c] >= Window THEN Limit ELSE tokens[c]
           /\ Available(c) \in 0..Limit
           /\ AgeAfterRefill(c) = IF sinceCheck[c] >= Window THEN 0 ELSE sinceCheck[c]
  <1>1. sinceCheck[c] \in Nat /\ tokens[c] \in 0..Limit
    BY ConstantFacts DEF BucketsTyped
  <1> QED
    BY <1>1, TokensToAddFacts, ConstantFacts DEF Available, Refilled, AgeAfterRefill

\* A refused client is inside its window and stays as it was.
LEMMA RefusedFacts ==
    ASSUME BucketsTyped, NEW c \in Clients, Deny(c)
    PROVE  UNCHANGED limiterVars
  <1>1. Available(c) = 0 /\ tokens' = [tokens EXCEPT ![c] = Available(c)]
        /\ sinceCheck' = [sinceCheck EXCEPT ![c] = AgeAfterRefill(c)]
        /\ known' = known /\ recent' = recent
    BY DEF Deny
  <1>2. sinceCheck[c] \in Nat /\ tokens \in [Clients -> 0..Limit]
        /\ sinceCheck \in [Clients -> 0..Horizon]
    BY ConstantFacts DEF BucketsTyped
  <1>3. tokens[c] = Available(c) /\ sinceCheck[c] = AgeAfterRefill(c)
    BY <1>1, <1>2, AvailableFacts, ConstantFacts
  <1> QED
    BY <1>1, <1>2, <1>3 DEF limiterVars

\* At first there are no buckets.
LEMMA TypeInit == LimiterInit => BucketsTyped
  BY ConstantFacts DEF LimiterInit, BucketsTyped

\* Every step keeps every bucket between 0 and the limit.
LEMMA TypeStep == BucketsTyped /\ [LimiterNext]_limiterVars => BucketsTyped'
  <1> SUFFICES ASSUME BucketsTyped, [LimiterNext]_limiterVars PROVE BucketsTyped'
    OBVIOUS
  <1>1. ASSUME NEW c \in Clients, Granted(c)
        PROVE  recent' \in [Clients -> [0..Window - 1 -> Nat]]
    BY <1>1, ConstantFacts DEF Granted, BucketsTyped
  <1>2. CASE ClockTick
    <2>1. sinceCheck' \in [Clients -> 0..Horizon]
      BY <1>2, ConstantFacts DEF ClockTick, BucketsTyped
    <2>2. recent' \in [Clients -> [0..Window - 1 -> Nat]]
      BY <1>2, ConstantFacts DEF ClockTick, BucketsTyped
    <2> QED
      BY <1>2, <2>1, <2>2 DEF ClockTick, BucketsTyped
  <1>3. CASE Cleanup
    BY <1>3, ConstantFacts DEF Cleanup, BucketsTyped
  <1>4. ASSUME NEW c \in Clients, AllowNew(c) PROVE BucketsTyped'
    BY <1>1, <1>4, ConstantFacts, SMTT(20) DEF AllowNew, TokensOfNewBucket, BucketsTyped
  <1>5. ASSUME NEW c \in Clients, AllowKnown(c) \/ Deny(c) PROVE BucketsTyped'
    <2>1. Available(c) \in 0..Limit /\ AgeAfterRefill(c) \in 0..Horizon
      BY AvailableFacts, ConstantFacts DEF BucketsTyped
    <2>2. CASE AllowKnown(c)
      <3>1. Available(c) - 1 \in 0..Limit
        BY <2>1, <2>2, ConstantFacts DEF AllowKnown
      <3>2. recent' \in [Clients -> [0..Window - 1 -> Nat]]
        BY <1>1, <2>2 DEF AllowKnown
      <3> QED
        BY <2>1, <2>2, <3>1, <3>2 DEF AllowKnown, BucketsTyped
    <2>3. CASE Deny(c)
      BY <2>1, <2>3 DEF Deny, BucketsTyped
    <2> QED
      BY <1>5, <2>2, <2>3
  <1>6. CASE UNCHANGED limiterVars
    BY <1>6 DEF limiterVars, BucketsTyped
  <1> QED
    BY <1>2, <1>3, <1>4, <1>5, <1>6 DEF LimiterNext

\* Every bucket holds between nothing and the limit, whatever the order of
\* requests, clean-ups and time.
THEOREM LimiterTypeCorrect == LimiterSpec => []BucketsTyped
  BY TypeInit, TypeStep, PTL DEF LimiterSpec

-----------------------------------------------------------------------------
left == [c \in Clients |-> IF Due(c) THEN Limit ELSE tokens[c]]
open == [c \in Clients |-> IF Due(c) THEN Window ELSE sinceCheck[c]]

\* A store without buckets is a quota nobody has used.
LEMMA QuotaInitially == LimiterInit => Quota!QuotaInit
  BY DEF LimiterInit, Due, Quota!QuotaInit

\* A granted request of the store is a granted request of the quota.
LEMMA GrantSimulates ==
    ASSUME BucketsTyped, NEW c \in Clients, AllowNew(c) \/ AllowKnown(c)
    PROVE  Quota!Grant(c)
  <1>1. left[c] > 0
    BY AvailableFacts, ConstantFacts, SMTT(20) DEF left, Due, AllowNew, AllowKnown, BucketsTyped
  <1>2. ~Due(c)' /\ tokens'[c] = left[c] - 1
        /\ sinceCheck'[c] = IF open[c] = Window THEN 0 ELSE open[c]
    <2>1. CASE AllowNew(c)
      BY <2>1, ConstantFacts DEF left, open, Due, AllowNew, TokensOfNewBucket, BucketsTyped
    <2>2. CASE AllowKnown(c)
      <3>1. c \in known' /\ tokens'[c] = Available(c) - 1 /\ sinceCheck'[c] = AgeAfterRefill(c)
        BY <2>2 DEF AllowKnown, BucketsTyped
      <3>2. sinceCheck[c] \in Nat /\ c \in known
        BY <2>2, ConstantFacts DEF AllowKnown, BucketsTyped
      <3> QED
        BY <3>1, <3>2, AvailableFacts, ConstantFacts DEF left, open, Due
    <2> QED
      BY <2>1, <2>2
  <1>3. ASSUME NEW d \in Clients, d # c
        PROVE  Due(d)' = Due(d) /\ tokens'[d] = tokens[d] /\ sinceCheck'[d] = sinceCheck[d]
    BY <1>3 DEF Due, AllowNew, AllowKnown, BucketsTyped
  <1>4. left' = [left EXCEPT ![c] = @ - 1]
    BY <1>2, <1>3 DEF left
  <1>5. open' = [open EXCEPT ![c] = IF @ = Window THEN 0 ELSE @]
    BY <1>2, <1>3 DEF open
  <1> QED
    BY <1>1, <1>4, <1>5 DEF Quota!Grant, left, open

\* Time that passes is time that passes in the windows, and ends those of an age.
LEMMA TickSimulates ==
    ASSUME BucketsTyped, ClockTick
    PROVE  Quota!Pass
  <1>1. ASSUME NEW c \in Clients
        PROVE  /\ Due(c)' <=> (Due(c) \/ sinceCheck[c] + 1 >= Window)
               /\ ~Due(c) => sinceCheck'[c] = sinceCheck[c] + 1
               /\ tokens'[c] = tokens[c]
               /\ sinceCheck[c] \in Nat
    BY ConstantFacts DEF Due, ClockTick, BucketsTyped
  <1>2. open' = [c \in Clients |-> IF open[c] < Window THEN open[c] + 1 ELSE Window]
    BY <1>1, ConstantFacts DEF open, Due
  <1>3. left' = [c \in Clients |-> IF open[c] + 1 < Window THEN left[c] ELSE Limit]
    BY <1>1, ConstantFacts DEF open, left, Due
  <1> QED
    BY <1>2, <1>3 DEF Quota!Pass, left, open

\* A refused request and a clean-up leave the quota as it is: a refused
\* client is inside its window, and a dropped bucket was due.
LEMMA SilentSteps ==
    ASSUME BucketsTyped, Cleanup \/ \E c \in Clients : Deny(c)
    PROVE  left' = left /\ open' = open
  <1>1. CASE Cleanup
    <2>1. ASSUME NEW c \in Clients
          PROVE  /\ Due(c)' = Due(c)
                 /\ ~Due(c) => tokens'[c] = tokens[c] /\ sinceCheck'[c] = sinceCheck[c]
      BY <1>1, ConstantFacts, SMTT(20) DEF Cleanup, Stale, Due, BucketsTyped
    <2> QED
      BY <2>1 DEF left, open
  <1>2. ASSUME NEW c \in Clients, Deny(c) PROVE left' = left /\ open' = open
    BY <1>2, RefusedFacts DEF limiterVars, left, open, Due
  <1> QED
    BY <1>1, <1>2

\* Every step of the limiter is a step of the quota or none.
LEMMA StepSimulates == BucketsTyped /\ [LimiterNext]_limiterVars => [Quota!QuotaNext]_(Quota!quotaVars)
  <1> SUFFICES ASSUME BucketsTyped, [LimiterNext]_limiterVars
               PROVE  Quota!QuotaNext \/ Quota!quotaVars' = Quota!quotaVars
    OBVIOUS
  <1>1. CASE ClockTick
    BY <1>1, TickSimulates DEF Quota!QuotaNext
  <1>2. ASSUME NEW c \in Clients, AllowNew(c) \/ AllowKnown(c)
        PROVE  Quota!QuotaNext
    BY <1>2, GrantSimulates DEF Quota!QuotaNext
  <1>3. CASE Cleanup \/ \E c \in Clients : Deny(c)
    BY <1>3, SilentSteps DEF Quota!quotaVars, left, open
  <1>4. CASE UNCHANGED limiterVars
    BY <1>4 DEF limiterVars, Quota!quotaVars, Due
  <1> QED
    BY <1>1, <1>2, <1>3, <1>4 DEF LimiterNext

\* Lazily refilled buckets that are dropped when idle grant exactly what a
\* per-client window of Limit requests would.
THEOREM LimiterImplementsQuota == LimiterSpec => ImplementsQuota
  BY QuotaInitially, StepSimulates, LimiterTypeCorrect, PTL
     DEF LimiterSpec, ImplementsQuota, Quota!QuotaSpec

-----------------------------------------------------------------------------
(* How much a client is granted over a stretch that ends now. *)

\* Inside an open window: what was granted since it opened came out of its
\* tokens.  What was granted before came out of an earlier window, which must
\* have ended: its first request, a window or more ago, is out of reach.
BoundedFor(c) ==
    IF Due(c)
    THEN /\ recent[c][0] = 0
         /\ \A n \in 0..Window - 1 : recent[c][n] <= Limit - 1
    ELSE /\ tokens[c] < Limit
         /\ \A n \in 0..Window - 1 :
               recent[c][n] <= IF n < sinceCheck[c] THEN Limit - 1 - tokens[c]
                               ELSE IF n = sinceCheck[c] THEN Limit - tokens[c]
                               ELSE 2 * Limit - 1 - tokens[c]

GrantsBounded == \A c \in Clients : BoundedFor(c)

\* At first nothing has been granted.
LEMMA GrantsBoundedInitially == LimiterInit => GrantsBounded
  BY ConstantFacts DEF LimiterInit, GrantsBounded, BoundedFor, Due

\* A step that leaves a client's bucket and history alone leaves its bound.
LEMMA OthersBounded ==
    ASSUME NEW d \in Clients, BoundedFor(d), Due(d)' = Due(d), tokens'[d] = tokens[d],
           ~Due(d) => sinceCheck'[d] = sinceCheck[d], recent'[d] = recent[d]
    PROVE  BoundedFor(d)'
  BY DEF BoundedFor

\* A granted request, whether it opens a window or falls into one.
LEMMA GrantKeepsBound ==
    ASSUME BucketsTyped, GrantsBounded, NEW c \in Clients, AllowNew(c) \/ AllowKnown(c)
    PROVE  GrantsBounded'
  <1>1. /\ tokens[c] \in 0..Limit /\ sinceCheck[c] \in Nat
        /\ \A n \in 0..Window - 1 : recent[c][n] \in Nat
    BY ConstantFacts DEF BucketsTyped
  <1>2. \A n \in 0..Window - 1 : recent'[c][n] = recent[c][n] + 1
    <2>1. Granted(c)
      BY DEF AllowNew, AllowKnown
    <2>2. recent'[c] = [n \in 0..Window - 1 |-> recent[c][n] + 1]
      BY <2>1 DEF Granted, BucketsTyped
    <2> QED
      BY <2>2
  <1>3. ~Due(c)' /\ (Due(c) => tokens'[c] = Limit - 1 /\ sinceCheck'[c] = 0)
        /\ (~Due(c) => tokens'[c] = tokens[c] - 1 /\ sinceCheck'[c] = sinceCheck[c])
    <2>1. CASE AllowNew(c)
      BY <2>1, ConstantFacts DEF Due, AllowNew, TokensOfNewBucket, BucketsTyped
    <2>2. CASE AllowKnown(c)
      <3>1. c \in known' /\ tokens'[c] = Available(c) - 1 /\ sinceCheck'[c] = AgeAfterRefill(c)
            /\ c \in known
        BY <2>2 DEF AllowKnown, BucketsTyped
      <3> QED
        BY <1>1, <3>1, AvailableFacts, ConstantFacts DEF Due
    <2> QED
      BY <2>1, <2>2
  <1>4. BoundedFor(c)'
    <2>1. BoundedFor(c)
      BY DEF GrantsBounded
    <2>2. CASE Due(c)
      <3>1. recent[c][0] = 0 /\ \A n \in 0..Window - 1 : recent[c][n] <= Limit - 1
        BY <2>1, <2>2 DEF BoundedFor
      <3>2. tokens'[c] = Limit - 1 /\ sinceCheck'[c] = 0
        BY <1>3, <2>2
      <3>3. ASSUME NEW n \in 0..Window - 1
            PROVE  recent'[c][n] <= IF n = 0 THEN 1 ELSE Limit
        BY <1>1, <1>2, <3>1, ConstantFacts
      <3> QED
        BY <1>3, <3>2, <3>3, ConstantFacts DEF BoundedFor
    <2>3. CASE ~Due(c)
      <3>1. /\ tokens[c] < Limit
            /\ \A n \in 0..Window - 1 :
                  recent[c][n] <= IF n < sinceCheck[c] THEN Limit - 1 - tokens[c]
                                  ELSE IF n = sinceCheck[c] THEN Limit - tokens[c]
                                  ELSE 2 * Limit - 1 - tokens[c]
        BY <2>1, <2>3 DEF BoundedFor
      <3>2. tokens'[c] = tokens[c] - 1 /\ sinceCheck'[c] = sinceCheck[c]
        BY <1>3, <2>3
      <3>3. ASSUME NEW n \in 0..Window - 1
            PROVE  recent'[c][n] <= IF n < sinceCheck'[c] THEN Limit - 1 - tokens'[c]
                                    ELSE IF n = sinceCheck'[c] THEN Limit - tokens'[c]
                                    ELSE 2 * Limit - 1 - tokens'[c]
        BY <1>1, <1>2, <3>1, <3>2, ConstantFacts
      <3> QED
        BY <1>1, <1>3, <3>1, <3>2, <3>3, ConstantFacts DEF BoundedFor
    <2> QED
      BY <2>2, <2>3
  <1>5. ASSUME NEW d \in Clients, d # c PROVE BoundedFor(d)'
    <2>1. /\ Due(d)' = Due(d) /\ tokens'[d] = tokens[d]
          /\ sinceCheck'[d] = sinceCheck[d] /\ recent'[d] = recent[d]
      BY <1>5 DEF Due, AllowNew, AllowKnown, Granted, BucketsTyped
    <2> QED
      BY <2>1, OthersBounded DEF GrantsBounded
  <1> QED
    BY <1>4, <1>5 DEF GrantsBounded

\* A tick moves the history by one; a window that ends with it forgets its
\* first request.
LEMMA TickKeepsBound ==
    ASSUME BucketsTyped, GrantsBounded, ClockTick
    PROVE  GrantsBounded'
  <1> SUFFICES ASSUME NEW c \in Clients PROVE BoundedFor(c)'
    BY DEF GrantsBounded
  <1>1. /\ tokens[c] \in 0..Limit /\ sinceCheck[c] \in Nat
        /\ \A n \in 0..Window - 1 : recent[c][n] \in Nat
    BY ConstantFacts DEF BucketsTyped
  <1>2. /\ recent'[c][0] = 0
        /\ \A n \in 1..Window - 1 : n - 1 \in 0..Window - 1 /\ recent'[c][n] = recent[c][n - 1]
    BY ConstantFacts DEF ClockTick
  <1>3. /\ Due(c)' <=> (Due(c) \/ sinceCheck[c] + 1 >= Window)
        /\ ~Due(c) => sinceCheck'[c] = sinceCheck[c] + 1 /\ sinceCheck[c] < Window
        /\ tokens'[c] = tokens[c]
    BY ConstantFacts DEF Due, ClockTick, BucketsTyped
  <1>4. BoundedFor(c)
    BY DEF GrantsBounded
  <1>5. CASE Due(c)
    <2>1. \A n \in 0..Window - 1 : recent[c][n] <= Limit - 1
      BY <1>4, <1>5 DEF BoundedFor
    <2>2. ASSUME NEW n \in 0..Window - 1 PROVE recent'[c][n] <= Limit - 1
      BY <1>2, <2>1, ConstantFacts
    <2> QED
      BY <1>2, <1>3, <1>5, <2>2 DEF BoundedFor
  <1>6. CASE ~Due(c)
    <2>1. /\ tokens[c] < Limit
          /\ \A n \in 0..Window - 1 :
                recent[c][n] <= IF n < sinceCheck[c] THEN Limit - 1 - tokens[c]
                                ELSE IF n = sinceCheck[c] THEN Limit - tokens[c]
                                ELSE 2 * Limit - 1 - tokens[c]
      BY <1>4, <1>6 DEF BoundedFor
    <2>2. ASSUME NEW n \in 0..Window - 1
          PROVE  recent'[c][n] <= IF n < sinceCheck[c] + 1 THEN Limit - 1 - tokens[c]
                                  ELSE IF n = sinceCheck[c] + 1 THEN Limit - tokens[c]
                                  ELSE 2 * Limit - 1 - tokens[c]
      <3>1. CASE n = 0
        BY <1>1, <1>2, <2>1, <3>1, ConstantFacts
      <3>2. CASE n # 0
        <4>1. n \in 1..Window - 1 /\ n - 1 \in 0..Window - 1 /\ recent'[c][n] = recent[c][n - 1]
          BY <1>2, <3>2, ConstantFacts
        <4> QED
          BY <1>1, <2>1, <4>1, ConstantFacts
      <3> QED
        BY <3>1, <3>2
    <2>3. CASE sinceCheck[c] + 1 >= Window
      <3>1. ASSUME NEW n \in 0..Window - 1 PROVE recent'[c][n] <= Limit - 1
        <4>1. n < sinceCheck[c] + 1
          BY <1>1, <2>3, ConstantFacts
        <4>2. recent'[c][n] <= Limit - 1 - tokens[c]
          BY <2>2, <4>1
        <4>3. recent'[c][n] \in Nat
          BY <1>1, <1>2, ConstantFacts
        <4> QED
          BY <1>1, <4>2, <4>3, ConstantFacts
      <3> QED
        BY <1>2, <1>3, <2>3, <3>1 DEF BoundedFor
    <2>4. CASE ~(sinceCheck[c] + 1 >= Window)
      BY <1>3, <1>6, <2>1, <2>2, <2>4 DEF BoundedFor
    <2> QED
      BY <2>3, <2>4
  <1> QED
    BY <1>5, <1>6

\* Only buckets that are due are dropped, and a refused request is inside its
\* window: neither changes what the bound speaks of.
LEMMA SilentStepsKeepBound ==
    ASSUME BucketsTyped, GrantsBounded, Cleanup \/ \E c \in Clients : Deny(c)
    PROVE  GrantsBounded'
  <1> SUFFICES ASSUME NEW d \in Clients PROVE BoundedFor(d)'
    BY DEF GrantsBounded
  <1>0. BoundedFor(d)
    BY DEF GrantsBounded
  <1>1. CASE Cleanup
    <2>1. /\ Due(d)' = Due(d)
          /\ ~Due(d) => tokens'[d] = tokens[d] /\ sinceCheck'[d] = sinceCheck[d]
          /\ recent'[d] = recent[d]
      BY <1>1, ConstantFacts, SMTT(20) DEF Cleanup, Stale, Due, BucketsTyped
    <2> QED
      BY <1>0, <2>1 DEF BoundedFor
  <1>2. ASSUME NEW c \in Clients, Deny(c) PROVE BoundedFor(d)'
    BY <1>0, <1>2, RefusedFacts DEF limiterVars, BoundedFor, Due
  <1> QED
    BY <1>1, <1>2

\* Every step keeps what was granted in every stretch within its bound.
LEMMA GrantsBoundedStep ==
    BucketsTyped /\ GrantsBounded /\ [LimiterNext]_limiterVars => GrantsBounded'
  <1> SUFFICES ASSUME BucketsTyped, GrantsBounded, [LimiterNext]_limiterVars
               PROVE  GrantsBounded'
    OBVIOUS
  <1>1. CASE ClockTick
    BY <1>1, TickKeepsBound
  <1>2. ASSUME NEW c \in Clients, AllowNew(c) \/ AllowKnown(c) PROVE GrantsBounded'
    BY <1>2, GrantKeepsBound
  <1>3. CASE Cleanup \/ \E c \in Clients : Deny(c)
    BY <1>3, SilentStepsKeepBound
  <1>4. CASE UNCHANGED limiterVars
    BY <1>4 DEF limiterVars, GrantsBounded, BoundedFor, Due
  <1> QED
    BY <1>1, <1>2, <1>3, <1>4 DEF LimiterNext

\* No client is granted twice the limit over any stretch of a window's
\* length: two windows' worth always misses the first request of the earlier
\* one.
THEOREM LimiterNeverTwiceTheLimit == LimiterSpec => []NeverTwiceTheLimit
  <1>1. BucketsTyped /\ GrantsBounded => NeverTwiceTheLimit
    <2> SUFFICES ASSUME BucketsTyped, GrantsBounded, NEW c \in Clients
                 PROVE  recent[c][Window - 1] < 2 * Limit
      BY DEF NeverTwiceTheLimit
    <2>1. /\ tokens[c] \in 0..Limit /\ sinceCheck[c] \in Nat
          /\ Window - 1 \in 0..Window - 1 /\ recent[c][Window - 1] \in Nat
      BY ConstantFacts DEF BucketsTyped
    <2> QED
      BY <2>1, ConstantFacts DEF GrantsBounded, BoundedFor
  <1> QED
    BY <1>1, GrantsBoundedInitially, GrantsBoundedStep, LimiterTypeCorrect, PTL DEF LimiterSpec
=============================================================================
