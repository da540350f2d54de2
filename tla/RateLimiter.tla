---------------------------- MODULE RateLimiter ----------------------------
(***************************************************************************)
(* The token bucket of internal/policy/ratelimit.go, which bounds how fast *)
(* MCP invocations may arrive.  Any number of goroutines call Allow; each  *)
(* call is one critical section of r.mu that reads the clock inside it, so *)
(* a call is one step.  The unit of time divides the refill interval into  *)
(* Interval parts, so that fractions of an interval exist.                 *)
(*                                                                         *)
(* window and refusal are history variables: an observer that counts the   *)
(* arrivals served since an instant of its choice, and the last refusal.   *)
(***************************************************************************)
EXTENDS Integers

CONSTANTS
    Burst,      \* r.burst
    Interval,   \* r.interval, in units of the clock
    MaxTime     \* bound: the clock

ASSUME BurstAssumption    == Burst \in Nat \ {0}
ASSUME IntervalAssumption == Interval \in Nat \ {0}
ASSUME TimeAssumption     == MaxTime \in Nat

Unset == -1

VARIABLES
    now,        \* the clock
    tokens,     \* r.tokens
    last,       \* r.last, or Unset before the first use
    window,     \* served arrivals since an instant, and whether it began at a refusal
    refusal     \* when the last arrival was refused, and when it was told to retry

limiterVars == <<tokens, last, window, refusal>>
vars == <<now, limiterVars>>

NoRefusal == [at |-> Unset, retry |-> Unset]
Watch(afterRefusal) == [since |-> now, served |-> 0, afterRefusal |-> afterRefusal]

TypeOK ==
    /\ now \in 0 .. MaxTime /\ tokens \in 0 .. Burst
    /\ last \in {Unset} \cup 0 .. MaxTime
    /\ window \in [since : 0 .. MaxTime, served : Nat, afterRefusal : BOOLEAN]
    /\ refusal \in [at : Int, retry : Int]

Init ==
    /\ now = 0 /\ tokens = Burst /\ last = Unset
    /\ window = Watch(FALSE) /\ refusal = NoRefusal

-----------------------------------------------------------------------------
(* What Allow computes first: the instant the tokens are accounted for,    *)
(* the tokens that fell due since, capped, and the new instant, advanced   *)
(* by whole intervals only.                                                *)

Counted == IF last = Unset THEN now ELSE last

Refilled == (now - Counted) \div Interval

(* Mutant: idle credit is banked without a cap.                            *)
Available_NoCap == tokens + Refilled

Available == IF tokens + Refilled < Burst THEN tokens + Refilled ELSE Burst

(* Mutant: the fraction of an interval that has elapsed is thrown away.    *)
Advanced_ToNow == IF Refilled > 0 THEN now ELSE Counted

Advanced == Counted + Refilled * Interval

(* The instant a refused client may come back.  The code's fallback for an *)
(* instant that is not in the future is dead: now < Advanced + Interval.   *)
(* Mutant: a refused client is told to wait a whole interval.              *)
RetryAt_WholeInterval == now + Interval

RetryAt == Advanced + Interval

Admit ==
    /\ Available > 0
    /\ tokens' = Available - 1
    /\ last' = Advanced
    /\ window' = [window EXCEPT !.served = @ + 1]
    /\ refusal' = NoRefusal
    /\ UNCHANGED now

Refuse ==
    /\ Available = 0
    /\ tokens' = Available
    /\ last' = Advanced
    /\ refusal' = [at |-> now, retry |-> RetryAt]
    /\ window' \in {window, Watch(TRUE)}
    /\ UNCHANGED now

Allow == Admit \/ Refuse

(* An observer starts to count.                                            *)
Observe ==
    /\ window' = Watch(FALSE)
    /\ UNCHANGED <<now, tokens, last, refusal>>

Tick ==
    /\ now < MaxTime
    /\ now' = now + 1
    /\ UNCHANGED limiterVars

Next == Allow \/ Observe \/ Tick

Spec == Init /\ [][Next]_vars

-----------------------------------------------------------------------------
(* Properties.                                                             *)

(* "Allowing burst arrivals immediately and one further arrival per        *)
(* interval thereafter" (NewRateLimiter): counted from any instant, idle   *)
(* before or not, no more arrivals are served than the burst and one for   *)
(* each interval begun since.                                              *)
RateBounded ==
    window.served <= Burst + (now - window.since + Interval - 1) \div Interval

(* RateLimitError "says how long the caller should wait ... instead of     *)
(* retrying into the same wall": until somebody else takes the token, a    *)
(* retry is served as soon as that time has passed, and not before; the    *)
(* time is never more than one interval.                                   *)
RetryAfterIsExact ==
    refusal # NoRefusal =>
        /\ Available > 0 <=> now >= refusal.retry
        /\ refusal.retry - refusal.at \in 1 .. Interval

(* "The fraction of an interval already elapsed still counts toward the    *)
(* next token": from one refusal to another, one arrival is served for     *)
(* each whole interval between them, up to the burst, however the          *)
(* arrivals in between fall.                                               *)
NoCreditLost ==
    window.afterRefusal /\ refusal.at = now =>
        \/ window.served >= (now - window.since) \div Interval
        \/ window.served >= Burst

(* A refusal costs nothing but time: the time it tells is exact, and       *)
(* between two refusals no fraction of an interval is lost (Allow).        *)
RefusalsAreFair == RetryAfterIsExact /\ NoCreditLost
=============================================================================
