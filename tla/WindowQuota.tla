---------------------------- MODULE WindowQuota ----------------------------
(***************************************************************************)
(* What the rate limiter promises of each client: Limit requests per       *)
(* window, where a window opens with a request that finds none open and    *)
(* lasts Window ticks.  No buckets, no clean-up.                           *)
(***************************************************************************)
EXTENDS Integers

CONSTANTS Clients, Limit, Window

VARIABLES
    left,   \* requests each client may still make in its window
    open    \* age of each client's window; Window when none is open

quotaVars == <<left, open>>

QuotaInit ==
    /\ left = [c \in Clients |-> Limit]
    /\ open = [c \in Clients |-> Window]

\* A request is granted from what is left; the first one opens the window.
Grant(c) ==
    /\ left[c] > 0
    /\ left' = [left EXCEPT ![c] = @ - 1]
    /\ open' = [open EXCEPT ![c] = IF @ = Window THEN 0 ELSE @]

\* Time passes; a window that reaches its end gives the whole limit back.
Pass ==
    /\ open' = [c \in Clients |-> IF open[c] < Window THEN open[c] + 1 ELSE Window]
    /\ left' = [c \in Clients |-> IF open[c] + 1 < Window THEN left[c] ELSE Limit]

QuotaNext == Pass \/ \E c \in Clients : Grant(c)

QuotaSpec == QuotaInit /\ [][QuotaNext]_quotaVars
=============================================================================
