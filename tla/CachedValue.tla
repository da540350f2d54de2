---------------------------- MODULE CachedValue ----------------------------
(***************************************************************************)
(* The single-flight TTL cache of internal/ha/cachedvalue.go, six of which *)
(* make up the registry cache: Get serves the cached value while it is     *)
(* fresh; otherwise the first caller becomes the leader and fetches, under *)
(* its own context and request meter, and later callers wait for it.       *)
(*                                                                         *)
(* A registry's content changes over time; what HA answers at time t is    *)
(* represented by t itself, so a value tells when it was true upstream.    *)
(***************************************************************************)
EXTENDS Integers

CONSTANTS
    Caller,     \* goroutines that call Get, each as often as it likes
    TTL,        \* c.ttl
    MaxTime     \* bound: the last instant of the clock

ASSUME TimeAssumption == TTL \in Nat \ {0} /\ MaxTime \in Nat \ {0}

Time  == 1 .. MaxTime
Never == 0              \* the zero time.Time

VARIABLES
    now,        \* the clock, which also counts the states of the registry
    value,      \* c.value
    observedAt, \* c.observedAt
    fetching,   \* c.fetching is non-nil (and then open)
    fetchErr,   \* c.fetchErr
    get,        \* each caller's Get
    storedAt,   \* history: when c.value was stored
    newest,     \* history: the newest value a Get has returned
    panicked    \* history: a fetch has panicked

cache == <<value, observedAt, fetching, fetchErr, storedAt>>
vars  == <<now, cache, get, newest, panicked>>

(* What a fetch or a Get ends with: a value, when it is said to have been  *)
(* observed and (history) when it was stored; or an error, the context's,  *)
(* the middleware's for a panic, or any other: HA's, the connection's, the *)
(* refusal of the request meter.                                           *)
ErrorKind   == {"deadline", "failed", "panic"}
Ok(v, t, b) == [kind |-> "ok", value |-> v, at |-> t, stored |-> b]
Error(k)    == [kind |-> k, value |-> Never, at |-> Never, stored |-> Never]
NoError     == "none"
Unfinished  == Error(NoError)
Outcome     == [kind : {"ok", NoError} \cup ErrorKind, value : 0 .. MaxTime,
                at : 0 .. MaxTime, stored : 0 .. MaxTime]

GetType == [
    pc      : {"idle", "wait", "fetch", "fetched", "stamp"},
    role    : {"none", "hit", "waiter", "leader"},
    woken   : BOOLEAN,          \* the channel it waits on has been closed
    expired : BOOLEAN,          \* its own context is done
    read    : Outcome,          \* what its fetch returned
    result  : Outcome,          \* what it returned
    floor   : 0 .. MaxTime,     \* history: newest when it was called
    heard   : SUBSET Outcome]   \* history: fetches that ended as it waited

TypeOK ==
    /\ now \in Time /\ value \in 0 .. MaxTime /\ observedAt \in 0 .. MaxTime
    /\ fetching \in BOOLEAN /\ fetchErr \in {NoError} \cup ErrorKind
    /\ storedAt \in 0 .. MaxTime /\ newest \in 0 .. MaxTime
    /\ get \in [Caller -> GetType] /\ panicked \in BOOLEAN

NewGet == [pc |-> "idle", role |-> "none", woken |-> FALSE, expired |-> FALSE,
           read |-> Unfinished, result |-> Unfinished, floor |-> 0, heard |-> {}]

Init ==
    /\ now = 1 /\ value = Never /\ observedAt = Never
    /\ fetching = FALSE /\ fetchErr = NoError
    /\ get = [c \in Caller |-> NewGet] /\ storedAt = Never /\ newest = 0
    /\ panicked = FALSE

-----------------------------------------------------------------------------
Fresh == observedAt # Never /\ now - observedAt < TTL

(* Get ends with r.                                                        *)
Return(c, g, r) ==
    /\ get' = [get EXCEPT ![c] = [g EXCEPT !.pc = "idle", !.result = r, !.woken = FALSE,
                                           !.read = Unfinished]]
    /\ newest' = IF r.kind = "ok" /\ r.value > newest THEN r.value ELSE newest

(* Get is called: nothing is left of the caller's previous call.           *)
Called == [NewGet EXCEPT !.floor = newest]

(* Mutant: the served copy is stamped with the time it is served.          *)
Cached_StampedNow == Ok(value, now, storedAt)

Cached == Ok(value, observedAt, storedAt)

Hit(c) ==
    /\ get[c].pc = "idle" /\ Fresh
    /\ Return(c, [Called EXCEPT !.role = "hit"], Cached)
    /\ UNCHANGED <<now, cache, panicked>>

(* Mutant: an expired value is fetched although a refill is under way.     *)
Refilling_Ignored == FALSE

Refilling == fetching

Join(c) ==
    /\ get[c].pc = "idle" /\ ~Fresh /\ Refilling
    /\ get' = [get EXCEPT ![c] = [Called EXCEPT !.pc = "wait", !.role = "waiter"]]
    /\ UNCHANGED <<now, cache, newest, panicked>>

Lead(c) ==
    /\ get[c].pc = "idle" /\ ~Fresh /\ ~Refilling
    /\ fetching' = TRUE
    /\ get' = [get EXCEPT ![c] = [Called EXCEPT !.pc = "fetch", !.role = "leader"]]
    /\ UNCHANGED <<now, value, observedAt, fetchErr, storedAt, newest, panicked>>

(* fetch: Call and the mapping of its reply.  HA answers with the registry *)
(* as it is now, or the call fails; ...                                    *)
Fetch(c) ==
    /\ get[c].pc = "fetch"
    /\ \E r \in {Ok(now, Never, Never), Error("failed"), Error("deadline")} :
         /\ r.kind = "deadline" => get[c].expired
         /\ get' = [get EXCEPT ![c].read = r, ![c].pc = "fetched"]
    /\ UNCHANGED <<now, cache, newest, panicked>>

(* ... or fetch panics: nothing below it in Get runs, and the middleware   *)
(* turns the panic into an error of this invocation.                       *)
Panic(c) ==
    /\ get[c].pc = "fetch"
    /\ Return(c, get[c], Error("panic"))
    /\ panicked' = TRUE
    /\ UNCHANGED <<now, cache>>

(* Mutant: a failed refill is not recorded, so waiters get the old value.  *)
NextFetchErr_Dropped(r) == NoError

NextFetchErr(r) == IF r.kind = "ok" THEN NoError ELSE r.kind

(* Mutant: the channel is not closed.                                      *)
Wakes_Nobody(d) == FALSE

Wakes(d) == get[d].pc = "wait"

(* Mutant: a failed refill leaves c.fetching set.                          *)
StillFetching_OnError(r) == r.kind # "ok"

StillFetching(r) == FALSE

(* Mutant: c.observedAt is set to the time at which the value expires.      *)
Observed_Expiry == now + TTL

Observed == now

(* The leader's second critical section: store the outcome, close the      *)
(* channel.                                                                *)
Commit(c) ==
    LET r == get[c].read
        o == IF r.kind = "ok" THEN Ok(r.value, Observed, now) ELSE r
        told == [d \in Caller |-> IF get[d].pc # "wait" THEN get[d]
                                  ELSE [get[d] EXCEPT !.woken = @ \/ Wakes(d),
                                                      !.heard = @ \cup {o}]]
    IN  /\ get[c].pc = "fetched"
        /\ \/ r.kind = "ok" /\ value' = r.value /\ observedAt' = Observed /\ storedAt' = now
           \/ r.kind # "ok" /\ UNCHANGED <<value, observedAt, storedAt>>
        /\ fetchErr' = NextFetchErr(r)
        /\ fetching' = StillFetching(r)
        /\ get' = [told EXCEPT ![c].pc = "stamp", ![c].read = o]
        /\ UNCHANGED <<now, newest, panicked>>

(* Mutant: the leader's value is stamped with the time it returns.         *)
StampOf_Now == now

(* c.observedAt as it is now, read outside c.mu.                           *)
StampOf == observedAt

(* The leader's return: its own value, or error, with that stamp.          *)
Stamp(c) ==
    LET r == get[c].read IN
    /\ get[c].pc = "stamp"
    /\ Return(c, get[c], IF r.kind = "ok" THEN [r EXCEPT !.at = StampOf] ELSE r)
    /\ UNCHANGED <<now, cache, panicked>>

(* A waiter whose channel is closed locks again and takes what is there.   *)
Reread(c) ==
    /\ get[c].pc = "wait" /\ get[c].woken
    /\ Return(c, get[c], IF fetchErr = NoError THEN Cached ELSE Error(fetchErr))
    /\ UNCHANGED <<now, cache, panicked>>

(* Mutant: a waiter does not look at its own context.                      *)
GiveUp_Never(c) == FALSE /\ UNCHANGED vars

(* A waiter's own context is done: wrapDeadline.                           *)
GiveUp(c) ==
    /\ get[c].pc = "wait" /\ get[c].expired
    /\ Return(c, get[c], Error("deadline"))
    /\ UNCHANGED <<now, cache, panicked>>

Expire(c) ==
    /\ get[c].pc \in {"wait", "fetch"} /\ ~get[c].expired
    /\ get' = [get EXCEPT ![c].expired = TRUE]
    /\ UNCHANGED <<now, cache, newest, panicked>>

Tick ==
    /\ now < MaxTime
    /\ now' = now + 1
    /\ UNCHANGED <<cache, get, newest, panicked>>

-----------------------------------------------------------------------------
Step(c) == \/ Hit(c) \/ Join(c) \/ Lead(c) \/ Fetch(c) \/ Panic(c) \/ Commit(c)
           \/ Stamp(c) \/ Reread(c) \/ GiveUp(c) \/ Expire(c)

Next == Tick \/ \E c \in Caller : Step(c)

Spec == Init /\ [][Next]_vars

(* Every fetch returns, because Manager.Call does; nobody has to call Get, *)
(* and no deadline has to pass.                                            *)
FairSpec ==
    /\ Spec
    /\ \A c \in Caller : /\ WF_vars(Fetch(c) \/ Panic(c)) /\ WF_vars(Commit(c))
                         /\ WF_vars(Stamp(c)) /\ WF_vars(Reread(c)) /\ WF_vars(GiveUp(c))

-----------------------------------------------------------------------------
(* Properties.                                                             *)

Leading(c) == get[c].pc \in {"fetch", "fetched"}

Finished(c) == get[c].pc = "idle" /\ get[c].result.kind # NoError

(* "No thundering herd on expiry": at most one fetch is under way, however *)
(* the callers interleave around an expiry                                 *)
(* (TestRegistryCache_ConcurrentReadersPastExpiry_SingleUpstreamFetch).    *)
SingleFlight == \A c, d \in Caller : Leading(c) /\ Leading(d) => c = d

(* "Non-nil and open while a fetch is in flight": the flag and the leader  *)
(* go together, so the cache never refuses to refill because of a fetch    *)
(* that is already over, except after one that panicked.                   *)
FetchingMeansLeader ==
    /\ (\E c \in Caller : Leading(c)) => fetching
    /\ fetching => panicked \/ \E c \in Caller : Leading(c)

(* One fetch at a time, and the cache knows of it (Get's first critical    *)
(* section and its last).                                                  *)
OneFetch == SingleFlight /\ FetchingMeansLeader

(* A value is served with the time at which that very value was fetched,   *)
(* "not when this call returned it", to hits and to waiters.               *)
HonestStamp ==
    \A c \in Caller : Finished(c) /\ get[c].role # "leader" /\ get[c].result.kind = "ok"
                        => get[c].result.at = get[c].result.stored

(* The leader reads the time again outside the lock, so it may be told a   *)
(* later one than its fetch's; but only one that another refill put there, *)
(* and that is a whole TTL later at least: a leader that returns within    *)
(* the TTL is never told a wrong time.                                     *)
LeaderStamp ==
    \A c \in Caller : Finished(c) /\ get[c].result.kind = "ok" =>
        get[c].result.at = get[c].result.stored \/ get[c].result.at >= get[c].result.stored + TTL

(* Reads never go back in time: a Get that starts after another returned a *)
(* value never returns an older one, across callers, refills, failed       *)
(* refills and leaders that are slow to return.                            *)
MonotonicReads ==
    \A c \in Caller : Finished(c) /\ get[c].result.kind = "ok"
                        => get[c].result.value >= get[c].floor

(* A caller that waited gets the outcome of a fetch that ended while it    *)
(* waited, success or error, and never an expired value or the error of an *)
(* earlier refill: "it never serves a value it did not itself observe".    *)
WaitersHearTheFetch ==
    \A c \in Caller : Finished(c) /\ get[c].role = "waiter" =>
        \/ get[c].result \in get[c].heard
        \/ get[c].expired /\ get[c].result = Error("deadline")

(* What Get returns was fetched when it says (a slow leader apart), is no  *)
(* older than anything returned before, and comes from a fetch of the      *)
(* caller's own time.                                                      *)
ReadsAreHonest == HonestStamp /\ LeaderStamp /\ MonotonicReads /\ WaitersHearTheFetch

(* A waiter is released when the fetch it waits for ends, without the help *)
(* of its own deadline, unless a fetch panics.                             *)
WaitersReleased == \A c \in Caller : get[c].pc = "wait" ~> get[c].pc = "idle" \/ panicked

(* A Get whose deadline has passed returns, even after a fetch panicked.   *)
GetReturns == \A c \in Caller : get[c].expired ~> get[c].pc = "idle"

(* No Get is left behind: the fetch releases those who wait for it, and a  *)
(* deadline that passes releases its caller.                               *)
NobodyIsStuck == WaitersReleased /\ GetReturns
=============================================================================
