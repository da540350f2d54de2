------------------------------- MODULE Server -------------------------------
(***************************************************************************)
(* What surrounds every tool call: the HTTP gate with its slots and its    *)
(* count of rejections (internal/mcp/transport_http.go), or a stdio        *)
(* session (server.go); the invocation middleware with its budget, its     *)
(* recovery and its audit record (middleware.go, audit.go); and shutdown.  *)
(*                                                                         *)
(* A handler is what it does to its budget and how it ends.  One registry  *)
(* is shared by all of them: CachedValue without its clock, so that the    *)
(* invocation that fetches pays and the others wait.                       *)
(***************************************************************************)
EXTENDS QueryBudget, Sequences, FiniteSetsExt

CONSTANTS
    Request,        \* requests of clients
    None,           \* no request
    MaxInFlight,    \* the slots of the gate
    WarnEvery,      \* rejectionWarnEvery
    Limits,         \* the budget of the tools' class
    MaxTime,        \* bound: the last instant of the rejections' clock
    MaxRejections   \* bound: rejections after which no client tries again

ASSUME RequestAssumption == None \notin Request /\ IsFiniteSet(Request)
ASSUME SlotAssumption == MaxInFlight \in Nat \ {0}
ASSUME ClockAssumption == WarnEvery \in Nat \ {0} /\ MaxTime \in Nat /\ MaxRejections \in Nat
ASSUME LimitAssumption == Limits \in [Dimensions -> Nat]

VARIABLES
    transport,  \* "http" or "stdio"
    phase,      \* of the process
    req,        \* each request
    slots,      \* gate.slots: how many are taken
    now, rej,   \* the clock and the rejections counter
    warned,     \* history: what the counter has decided to warn of
    registry,   \* the shared registry: who fetches it, and whether it is fresh
    audit,      \* each request's audit records
    issued      \* history: the requests put on Home Assistant's wire

gateVars == <<slots, now, rej, warned>>
vars == <<transport, phase, req, gateVars, registry, audit, issued>>

Failure == {"budget", "denied", "other"}    \* what errors.Is tells apart
Ended(how, why) == [how |-> how, why |-> why]
NotEnded == Ended("not", "other")
Endings  == {Ended("ok", "other"), Ended("panic", "other")}
                \cup {Ended(how, why) : how \in {"error", "is_error"}, why \in Failure}
Status  == {"success", "denied", "budget_exceeded", "error"}
Answer  == {"none", "not_found", "forbidden", "unauthorized", "busy", "passed",
            "malformed", "result", "tool_error", "protocol_error"}

RequestType == [
    pc      : {"new", "warn", "admitted", "running", "fetch", "wait", "ended", "leaving", "done"},
    used    : [Dimensions -> Nat],
    refused : BOOLEAN,              \* its budget has refused a charge
    shared  : {"none", "ok"} \cup Failure,  \* what the registry's fetch ended with
    ending  : Endings \cup {NotEnded},               \* how its handler ended
    answer  : Answer]

Record == [status : Status, ha_requests : Nat]

TypeOK ==
    /\ transport \in {"http", "stdio"}
    /\ phase \in {"serving", "draining", "closing", "stopped"}
    /\ req \in [Request -> RequestType] /\ slots \in 0 .. MaxInFlight
    /\ now \in 0 .. MaxTime
    /\ rej \in [total : Nat, sinceWarn : Nat, lastWarn : Int]
    /\ warned \in Seq([at : Nat, count : Nat])
    /\ registry \in [leader : Request \cup {None}, fresh : BOOLEAN]
    /\ audit \in [Request -> Seq(Record)] /\ issued \in Nat

NewRequest == [pc |-> "new", used |-> Unspent, refused |-> FALSE, shared |-> "none",
               ending |-> NotEnded, answer |-> "none"]

Init ==
    /\ transport \in {"http", "stdio"} /\ phase = "serving"
    /\ req = [r \in Request |-> NewRequest] /\ slots = 0
    /\ now = 0 /\ rej = [total |-> 0, sinceWarn |-> 0, lastWarn |-> -WarnEvery] /\ warned = <<>>
    /\ registry = [leader |-> None, fresh |-> FALSE]
    /\ audit = [r \in Request |-> <<>>] /\ issued = 0

-----------------------------------------------------------------------------
(* The gate.                                                               *)

Answers(r, a) == req' = [req EXCEPT ![r].pc = "done", ![r].answer = a]

(* What a client may send: a route, whether with an Origin, a credential.  *)
Presented == [route : BOOLEAN, origin : BOOLEAN,
              token : {"absent", "several", "no_bearer", "wrong", "right"}]

(* check: why a credential is refused, or the empty reason.                *)
Check(token) ==
    CASE token = "absent"                   -> "missing"
      [] token \in {"several", "no_bearer"} -> "malformed"
      [] token = "wrong"                    -> "mismatch"
      [] token = "right"                    -> ""

Reason(p) == IF p.origin THEN "origin" ELSE Check(p.token)

NotFound(r) ==
    /\ Answers(r, "not_found")
    /\ UNCHANGED gateVars

(* note, up to its unlock: the rejection is counted, and whoever counts    *)
(* the first in WarnEvery takes the count with it.                         *)
WarnDue == now - rej.lastWarn >= WarnEvery

(* Mutant: the count of the last warning is kept.                          *)
Reset_Kept == rej.sinceWarn + 1

Reset == 0

(* Mutant: the instant of the last warning is not noted.                   *)
LastWarn_Kept == rej.lastWarn

LastWarn == now

Note(r, refusal) ==
    IF WarnDue
    THEN /\ req' = [req EXCEPT ![r].pc = "warn", ![r].answer = refusal]
         /\ rej' = [total |-> rej.total + 1, sinceWarn |-> Reset, lastWarn |-> LastWarn]
         /\ warned' = Append(warned, [at |-> now, count |-> rej.sinceWarn + 1])
         /\ UNCHANGED <<slots, now>>
    ELSE /\ Answers(r, refusal)
         /\ rej' = [rej EXCEPT !.total = @ + 1, !.sinceWarn = @ + 1]
         /\ UNCHANGED <<slots, now, warned>>

(* ... and the rest of it, outside the lock: the line is written.          *)
Warn(r) ==
    /\ req[r].pc = "warn" /\ phase # "stopped"
    /\ req' = [req EXCEPT ![r].pc = "done"]
    /\ UNCHANGED <<transport, phase, gateVars, registry, audit, issued>>

(* Mutant: the cap is tested as if it could be reached.                    *)
SlotFree_OffByOne == slots <= MaxInFlight

SlotFree == slots < MaxInFlight

TakeSlot(r) ==
    \/ /\ SlotFree
       /\ slots' = slots + 1
       /\ req' = [req EXCEPT ![r].pc = "admitted"]
       /\ UNCHANGED <<now, rej, warned>>
    \/ /\ ~SlotFree
       /\ Answers(r, "busy")
       /\ UNCHANGED gateVars

Gate(r) ==
    /\ transport = "http" /\ phase = "serving" /\ req[r].pc = "new"
    /\ \E p \in Presented :
          \/ ~p.route /\ NotFound(r)
          \/ p.route /\ Reason(p) = "origin" /\ Note(r, "forbidden")
          \/ p.route /\ Reason(p) \notin {"", "origin"} /\ Note(r, "unauthorized")
          \/ p.route /\ Reason(p) = "" /\ TakeSlot(r)
    /\ UNCHANGED <<transport, phase, registry, audit, issued>>

(* A client that was refused tries again.                                  *)
Retry(r) ==
    /\ phase = "serving" /\ req[r].pc = "done" /\ rej.total < MaxRejections
    /\ req[r].answer \in {"forbidden", "unauthorized"}
    /\ req' = [req EXCEPT ![r] = NewRequest]
    /\ UNCHANGED <<transport, phase, gateVars, registry, audit, issued>>

(* On stdio nothing stands before the session.                             *)
Receive(r) ==
    /\ transport = "stdio" /\ phase = "serving" /\ req[r].pc = "new"
    /\ req' = [req EXCEPT ![r].pc = "admitted"]
    /\ UNCHANGED <<transport, phase, gateVars, registry, audit, issued>>

Tick ==
    /\ now < MaxTime /\ phase = "serving" /\ transport = "http"
    /\ now' = now + 1
    /\ UNCHANGED <<transport, phase, req, slots, rej, warned, registry, audit, issued>>

-----------------------------------------------------------------------------
(* The middleware, before the handler.                                     *)

Alive == phase # "stopped"

(* Leaves the middleware with an answer; the gate's deferred release is    *)
(* still to come.                                                          *)
Leave(r, a) == req' = [req EXCEPT ![r].pc = "leaving", ![r].answer = a]

Emit(r, status, n) ==
    audit' = [audit EXCEPT ![r] = Append(@, [status |-> status, ha_requests |-> n])]

(* wrap: what is not a tool call passes through, and what claims to be one *)
(* without its parameters is refused; neither is audited.                  *)
PassThrough(r) ==
    /\ Alive /\ req[r].pc = "admitted"
    /\ Leave(r, "passed") \/ Leave(r, "malformed")
    /\ UNCHANGED <<transport, phase, gateVars, registry, audit, issued>>

(* Mutant: what never reaches a handler leaves no record.                  *)
Deny_Silent(r) ==
    /\ Alive /\ req[r].pc = "admitted"
    /\ Leave(r, "protocol_error")
    /\ UNCHANGED <<transport, phase, gateVars, registry, audit, issued>>

(* A name outside the catalog, or an arrival the limiter refuses.          *)
Deny(r) ==
    /\ Alive /\ req[r].pc = "admitted"
    /\ Emit(r, "denied", 0)
    /\ Leave(r, "protocol_error")
    /\ UNCHANGED <<transport, phase, gateVars, registry, issued>>

Dispatch(r) ==
    /\ Alive /\ req[r].pc = "admitted"
    /\ req' = [req EXCEPT ![r].pc = "running"]
    /\ UNCHANGED <<transport, phase, gateVars, registry, audit, issued>>

-----------------------------------------------------------------------------
(* The handler.                                                            *)

Running(r) == Alive /\ req[r].pc = "running" /\ ~req[r].refused

(* A request of its own to Home Assistant is charged before it is sent.    *)
(* After a refusal a composite answers with what it has, the rest end.     *)
Spend(r) ==
    /\ Running(r)
    /\ IF Fits(req[r].used, Limits, "ha_requests", 1)
       THEN /\ req' = [req EXCEPT ![r].used = Charged(@, "ha_requests", 1)]
            /\ issued' = issued + 1
       ELSE /\ req' = [req EXCEPT ![r].refused = TRUE]
            /\ UNCHANGED issued
    /\ UNCHANGED <<transport, phase, gateVars, registry, audit>>

(* It reads the registry: fresh, or being fetched, or its own to fetch.    *)
ReadRegistry(r) ==
    /\ Running(r) /\ req[r].shared = "none"
    /\ \/ /\ registry.fresh
          /\ req' = [req EXCEPT ![r].shared = "ok"]
          /\ UNCHANGED registry
       \/ /\ ~registry.fresh /\ registry.leader # None
          /\ req' = [req EXCEPT ![r].pc = "wait"]
          /\ UNCHANGED registry
       \/ /\ ~registry.fresh /\ registry.leader = None
          /\ req' = [req EXCEPT ![r].pc = "fetch"]
          /\ registry' = [registry EXCEPT !.leader = r]
    /\ UNCHANGED <<transport, phase, gateVars, audit, issued>>

(* Mutant: the channel of the fetch stays open.                            *)
Resumed_Never(q, f) == [q EXCEPT !.shared = f]

Resumed(q, f) == [q EXCEPT !.pc = "running", !.shared = f]

(* Mutant: whoever hears of a fetch is charged for it.                     *)
Pays_Everybody(s, r, f) == f # "budget" /\ req[s].pc \in {"fetch", "wait"}

Pays(s, r, f) == f # "budget" /\ s = r

(* The fetch ends with f, for its leader and for all who wait.             *)
Hears(r, f) ==
    req' = [s \in Request |->
        IF s = r \/ req[s].pc = "wait"
        THEN [Resumed(req[s], f) EXCEPT
                !.refused = @ \/ (f = "budget" /\ s = r),
                !.used = IF Pays(s, r, f) THEN Charged(@, "ha_requests", 1) ELSE @]
        ELSE req[s]]

(* The leader's budget pays for the fetch, or refuses it.                  *)
FetchRegistry(r) ==
    /\ Alive /\ req[r].pc = "fetch"
    /\ IF Fits(req[r].used, Limits, "ha_requests", 1)
       THEN /\ \E f \in {"ok", "other"} :
                  /\ Hears(r, f)
                  /\ registry' = [leader |-> None, fresh |-> (f = "ok")]
            /\ issued' = issued + 1
       ELSE /\ Hears(r, "budget")
            /\ registry' = [leader |-> None, fresh |-> FALSE]
            /\ UNCHANGED issued
    /\ UNCHANGED <<transport, phase, gateVars, audit>>

(* The fetch panics over the answer it got: nothing below it in Get runs,  *)
(* so the registry keeps its leader and whoever waits waits on; the panic  *)
(* is recovered above the leader's handler, whose call it ends.            *)
FetchPanics(r) ==
    /\ Alive /\ req[r].pc = "fetch" /\ Fits(req[r].used, Limits, "ha_requests", 1)
    /\ req' = [req EXCEPT ![r].used = Charged(@, "ha_requests", 1),
                         ![r].pc = "ended", ![r].ending = Ended("panic", "other")]
    /\ issued' = issued + 1
    /\ UNCHANGED <<transport, phase, gateVars, registry, audit>>

(* A waiter's own context ends: its deadline, or its client hung up.       *)
GiveUp(r) ==
    /\ Alive /\ req[r].pc = "wait"
    /\ req' = [req EXCEPT ![r] = Resumed(@, "other")]
    /\ UNCHANGED <<transport, phase, gateVars, registry, audit, issued>>

(* What a handler can end with: a refusal of a budget is its own or the    *)
(* one that a fetch shared with it.                                        *)
MayEndWith(r, e) ==
    e.why = "budget" => req[r].refused \/ req[r].shared = "budget"

Finish(r) ==
    /\ Alive /\ req[r].pc = "running"
    /\ \E e \in Endings :
          /\ MayEndWith(r, e)
          /\ req' = [req EXCEPT ![r].pc = "ended", ![r].ending = e]
    /\ UNCHANGED <<transport, phase, gateVars, registry, audit, issued>>

-----------------------------------------------------------------------------
(* The middleware, after the handler.                                      *)

(* Mutant: only a returned error is a failure.                             *)
Failed_ErrorsOnly(e) == e.how \in {"panic", "error"}

(* toolResultError and callWithRecovery: what the ending means to the      *)
(* audit.  A tool's failure may come as an error or inside a result.       *)
Failed(e) == e.how # "ok"

Classify(e) ==
    CASE e.why = "budget" -> "budget_exceeded"
      [] e.why = "denied" -> "denied"
      [] e.why = "other"  -> "error"

Spent(r) == req[r].used["ha_requests"]

Conclude(r) ==
    LET e == req[r].ending IN
    /\ Alive /\ req[r].pc = "ended"
    /\ Emit(r, IF Failed(e) THEN Classify(e) ELSE "success", Spent(r))
    /\ Leave(r, CASE e.how = "ok"       -> "result"
                  [] e.how = "is_error" -> "tool_error"
                  [] e.how \in {"error", "panic"} -> "protocol_error")
    /\ UNCHANGED <<transport, phase, gateVars, registry, issued>>

(* Mutant: a slot is returned only after a tool has run.                   *)
Frees_ToolsOnly(r) == transport = "http" /\ req[r].ending # NotEnded

Frees(r) == transport = "http"

(* The answer is written and the slot returned.                            *)
Release(r) ==
    /\ Alive /\ req[r].pc = "leaving"
    /\ req' = [req EXCEPT ![r].pc = "done"]
    /\ slots' = IF Frees(r) THEN slots - 1 ELSE slots
    /\ UNCHANGED <<transport, phase, now, rej, warned, registry, audit, issued>>

-----------------------------------------------------------------------------
(* The end of the process.                                                 *)

InFlight(r) == req[r].pc \notin {"new", "done"}

(* SIGTERM: the listener closes and Shutdown waits; a session is closed.   *)
StopSignal ==
    /\ phase = "serving"
    /\ phase' = IF transport = "http" THEN "draining" ELSE "closing"
    /\ UNCHANGED <<transport, req, gateVars, registry, audit, issued>>

(* The listener fails, or the client of a session is gone.                 *)
ServeEnds ==
    /\ phase = "serving"
    /\ phase' = "closing"
    /\ UNCHANGED <<transport, req, gateVars, registry, audit, issued>>

(* Shutdown returns: nothing is in flight, or the grace is over and Close  *)
(* cuts what is left.                                                      *)
Drained ==
    /\ phase = "draining" /\ \A r \in Request : ~InFlight(r)
    /\ phase' = "closing"
    /\ UNCHANGED <<transport, req, gateVars, registry, audit, issued>>

GraceOver ==
    /\ phase = "draining"
    /\ phase' = "closing"
    /\ UNCHANGED <<transport, req, gateVars, registry, audit, issued>>

(* main returns; what still runs is gone.                                  *)
Exit ==
    /\ phase = "closing"
    /\ phase' = "stopped"
    /\ UNCHANGED <<transport, req, gateVars, registry, audit, issued>>

Handle(r) ==
    \/ Warn(r) \/ PassThrough(r) \/ Deny(r) \/ Dispatch(r)
    \/ FetchRegistry(r) \/ FetchPanics(r) \/ GiveUp(r)
    \/ Finish(r) \/ Conclude(r) \/ Release(r)

Shutdown == Drained \/ GraceOver \/ Exit

Next ==
    \/ \E r \in Request :
          Gate(r) \/ Receive(r) \/ Handle(r) \/ Spend(r) \/ ReadRegistry(r) \/ Retry(r)
    \/ Tick \/ StopSignal \/ ServeEnds \/ Shutdown

Spec == Init /\ [][Next]_vars

(* A goroutine that can run runs, deadlines pass (WithBudget), a handler   *)
(* comes to its end, and the timer of Shutdown fires.                      *)
FairSpec ==
    /\ Spec /\ WF_vars(Shutdown)
    /\ \A r \in Request : WF_vars(Handle(r))

-----------------------------------------------------------------------------
(* Properties.                                                             *)

(* maxInFlight "bounds authenticated requests in flight": every slot taken *)
(* is held by a request past the gate, on every way out of it.             *)
SlotsHeld ==
    /\ transport = "http" =>
          slots = Cardinality({r \in Request : InFlight(r) /\ req[r].pc # "warn"})
    /\ slots <= MaxInFlight

(* "One audit record whichever way the call ends": a call that has left    *)
(* the middleware has one, and no other has any, be it still in flight or  *)
(* cut off with the process.                                               *)
Concluded(r) == req[r].answer \in {"result", "tool_error", "protocol_error"}

AuditedOnce == \A r \in Request : Len(audit[r]) = IF Concluded(r) THEN 1 ELSE 0

(* The record tells a success, a refusal, a budget cutoff and a failure    *)
(* apart, as the client can: a success is answered with a result, and a    *)
(* cutoff follows a charge that was refused, its own or a shared fetch's.  *)
RecordTells ==
    \A r \in Request : Len(audit[r]) = 1 =>
        LET status == audit[r][1].status IN
        /\ status = "success" <=> req[r].answer = "result"
        /\ status = "budget_exceeded" => req[r].refused \/ req[r].shared = "budget"

(* Every request put on the wire is paid for by one invocation, and is on  *)
(* that invocation's record when there is one: what waits for a shared     *)
(* fetch pays nothing.                                                     *)
Paid(r) == IF Len(audit[r]) = 1 THEN audit[r][1].ha_requests ELSE req[r].used["ha_requests"]

EveryRequestPaid ==
    /\ issued = SumFunction([r \in Request |-> Paid(r)])
    /\ \A r \in Request : Within(req[r].used, Limits)

(* Every call that comes to its end leaves one record, which tells how it  *)
(* ended and what it spent (invoke); every request on Home Assistant's     *)
(* wire is paid by one call (chargeRequest).  A call cut off at the end of *)
(* the grace leaves none, and its requests are on no record.               *)
CallsAreAudited == AuditedOnce /\ RecordTells /\ EveryRequestPaid

(* Rejections are counted once: what was warned of and what is to be       *)
(* warned of next are all of them, and two warnings are WarnEvery apart    *)
(* (D-08-10: "WARN at most once per rejectionWarnEvery with the count      *)
(* since the last").                                                       *)
RejectionsCounted ==
    rej.total = rej.sinceWarn + SumFunction([i \in DOMAIN warned |-> warned[i].count])

WarningsSpaced ==
    \A i \in DOMAIN warned \ {1} : warned[i].at - warned[i - 1].at >= WarnEvery

(* The count of rejections is warned of whole, in warnings that are rare   *)
(* (rejections.note).                                                      *)
RejectionsTold == RejectionsCounted /\ WarningsSpaced

(* Every request comes to its end, or the process does.                    *)
EveryCallEnds ==
    \A r \in Request : InFlight(r) ~> (req[r].pc = "done" \/ phase = "stopped")
=============================================================================
