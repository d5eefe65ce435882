------------------------------ MODULE MCAccess ------------------------------
(* The limiter that every request passes, and the sessions behind the       *)
(* routes that let a client in, explored by one run of TLC side by side.    *)
(* The two share no state: a behaviour is one of either, while the other is *)
(* in an initial state, where its fairness asks for nothing.                *)
EXTENDS MCSessions, RateLimiter

MCInit == Init /\ LimiterInit

MCNext ==
    \/ LimiterInit /\ Next /\ UNCHANGED limiterVars
    \/ Init /\ LimiterNext /\ UNCHANGED vars

MCFairSpec ==
    /\ MCInit /\ [][MCNext]_<<vars, limiterVars>>
    /\ \A c \in Calls : WF_vars(Continue(c))
    /\ WF_limiterVars(ClockTick) /\ WF_limiterVars(Cleanup)
=============================================================================
