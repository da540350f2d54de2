------------------------------ MODULE Manager ------------------------------
(***************************************************************************)
(* The connection manager of internal/ha/manager.go: one goroutine (loop)  *)
(* keeps a single authenticated WebSocket connection to Home Assistant     *)
(* alive, any number of goroutines issue Call over it, and Close stops it. *)
(* Replies are correlated to calls by message id, in whatever order they   *)
(* arrive.                                                                 *)
(*                                                                         *)
(* The initial state is the one cmd/server/main.go reaches after           *)
(* NewManager and Start.  A call is one member of Caller; a connection     *)
(* (a *session) is a number, in the order in which connections are dialled.*)
(* Contents of replies are abstracted to the call whose command they       *)
(* answer: that is all that correlation can get wrong.                     *)
(***************************************************************************)
EXTENDS Integers, Sequences, FiniteSets

CONSTANTS
    Caller,             \* the calls (one goroutine inside Call each)
    Closer,             \* goroutines that call Close
    None,               \* no call
    MaxSession,         \* bound: connections that are ever established
    MaxBackoffAttempt,  \* maxBackoffAttempt: cap of the backoff exponent
    Interrupts          \* whether the context given to Start may be cancelled

ASSUME CallerAssumption  == None \notin Caller
ASSUME SessionAssumption == MaxSession \in Nat
ASSUME BackoffAssumption == MaxBackoffAttempt \in Nat /\ Interrupts \in BOOLEAN

Session   == 1 .. MaxSession
NoSession == 0

VARIABLES
    current,    \* m.current: the published connection, or NoSession
    closed,     \* m.closed
    cancelled,  \* the loop's context is cancelled
    loop,       \* where the loop goroutine is
    created,    \* the number of connections dialled so far
    attempt,    \* consecutive failed dials, capped
    reconnects, \* m.reconnects
    hand,       \* sends on reply channels the loop has yet to do
    conn,       \* each connection
    call,       \* each call
    nextID,     \* m.nextID
    closer      \* where each goroutine inside Close is

mgrVars  == <<current, closed, cancelled>>
loopVars == <<loop, created, attempt, reconnects, hand>>
vars     == <<mgrVars, loopVars, conn, call, nextID, closer>>

(* A message on a reply channel, and what a call returns: HA's answer to a *)
(* call's command, or an error.                                            *)
Reply(c)   == [kind |-> "reply", from |-> c]
Failure(k) == [kind |-> k, from |-> None]
NoMessage  == Failure("none")
Dead       == Failure("unavailable")

LoopState == {"top", "backoff", "publish", "read", "deliver", "shutdown", "fail",
              "clear", "exit", "closeDone", "stopped"}
CallState == {"new", "session", "inspect", "wait", "register", "lock", "write",
              "flushed", "await", "unregister", "returned"}
Message   == [kind : {"reply"}, from : Caller] \cup {Dead, NoMessage}
Outcome   == Message \cup {Failure(k) : k \in {"denied", "budget", "ctx", "retry"}}

ConnType == [
    ended   : BOOLEAN,                          \* s.ended
    done    : BOOLEAN,                          \* s.done is closed
    broken  : BOOLEAN,                          \* the socket is closed
    pending : SUBSET (Nat \X Caller),           \* s.pending: <<id, owner>>
    writer  : Caller \cup {None},               \* who holds s.writeMu
    wire    : Seq([id : Nat, from : Caller]),   \* the frames HA received
    box     : [Caller -> Message]]              \* buffered reply channels

CallType == [
    pc      : CallState,
    got     : Session \cup {NoSession},         \* the connection it was handed
    avoid   : Session \cup {NoSession},         \* the one its last try failed on
    woken   : BOOLEAN,              \* the m.changed it holds has been closed
    id      : Nat,                              \* the message id of its attempt
    expired : BOOLEAN,                          \* its context is done
    charged : Nat,                              \* charges to the request meter
    result  : Outcome]

TypeOK ==
    /\ current \in Session \cup {NoSession} /\ closed \in BOOLEAN /\ cancelled \in BOOLEAN
    /\ loop \in LoopState /\ created \in 0 .. MaxSession
    /\ attempt \in 0 .. MaxBackoffAttempt /\ reconnects \in Nat
    /\ hand \subseteq Caller \X Message
    /\ conn \in [Session -> ConnType] /\ call \in [Caller -> CallType] /\ nextID \in Nat
    /\ closer \in [Closer -> {"idle", "cancel", "wait", "returned"}]

NewConn == [ended |-> FALSE, done |-> FALSE, broken |-> FALSE, pending |-> {},
            writer |-> None, wire |-> <<>>, box |-> [c \in Caller |-> NoMessage]]
NewCall == [pc |-> "new", got |-> NoSession, avoid |-> NoSession, woken |-> FALSE,
            id |-> 0, expired |-> FALSE, charged |-> 0, result |-> NoMessage]

Init ==
    /\ current = NoSession /\ closed = FALSE /\ cancelled = FALSE
    /\ loop = "top" /\ created = 0 /\ attempt = 0 /\ reconnects = 0 /\ hand = {}
    /\ conn = [s \in Session |-> NewConn] /\ call = [c \in Caller |-> NewCall]
    /\ nextID = 0 /\ closer = [k \in Closer |-> "idle"]

-----------------------------------------------------------------------------
(* Call: admission.                                                        *)

(* Call ends with r; its locals and its context are gone.                  *)
Return(c, r) ==
    call' = [call EXCEPT ![c] = [NewCall EXCEPT !.pc = "returned", !.result = r,
                                                !.charged = call[c].charged]]

(* checkCommand refuses the command, ahead of everything else.  Any call   *)
(* may bring such a command.                                               *)
AdmitDenied(c) ==
    /\ call[c].pc = "new"
    /\ Return(c, Failure("denied"))
    /\ UNCHANGED <<mgrVars, loopVars, conn, nextID, closer>>

(* The invocation's meter refuses the charge; a refusal is not counted.    *)
AdmitRefused(c) ==
    /\ call[c].pc = "new"
    /\ Return(c, Failure("budget"))
    /\ UNCHANGED <<mgrVars, loopVars, conn, nextID, closer>>

Admit(c) ==
    /\ call[c].pc = "new"
    /\ call' = [call EXCEPT ![c].charged = @ + 1, ![c].pc = "session"]
    /\ UNCHANGED <<mgrVars, loopVars, conn, nextID, closer>>

(* The caller's deadline passes, or it gives up.  Call gives a context     *)
(* without a deadline one of defaultCallTimeout, so every context is       *)
(* eventually done.  It is looked at only where the call waits or writes.  *)
Expire(c) ==
    /\ call[c].pc \in {"wait", "write", "flushed", "await"} /\ ~call[c].expired
    /\ call' = [call EXCEPT ![c].expired = TRUE]
    /\ UNCHANGED <<mgrVars, loopVars, conn, nextID, closer>>

-----------------------------------------------------------------------------
(* Call: waiting for a usable connection (m.session).                      *)

(* The critical section: m.closed, or a copy of m.current and m.changed.   *)
Snapshot(c) ==
    /\ call[c].pc = "session"
    /\ \/ closed /\ Return(c, Failure("unavailable"))
       \/ /\ ~closed
          /\ call' = [call EXCEPT ![c].got = current, ![c].woken = FALSE, ![c].pc = "inspect"]
    /\ UNCHANGED <<mgrVars, loopVars, conn, nextID, closer>>

(* Mutant: session does not avoid the connection that just failed.         *)
Usable_NoAvoid(c) == call[c].got # NoSession /\ ~conn[call[c].got].ended

Usable(c) ==
    call[c].got \notin {NoSession, call[c].avoid} /\ ~conn[call[c].got].ended

(* Mutant: m.changed is read after m.current was judged, not with it.      *)
Inspect_LateChannel(c) ==
    /\ call[c].pc = "inspect"
    /\ call' = [call EXCEPT ![c].woken = FALSE,
                            ![c].pc = IF Usable(c) THEN "register" ELSE "wait"]
    /\ UNCHANGED <<mgrVars, loopVars, conn, nextID, closer>>

(* Outside m.mu: take the connection, or wait for the copied channel.      *)
Inspect(c) ==
    /\ call[c].pc = "inspect"
    /\ \/ Usable(c) /\ call' = [call EXCEPT ![c].woken = FALSE, ![c].pc = "register"]
       \/ ~Usable(c) /\ call' = [call EXCEPT ![c].pc = "wait"]
    /\ UNCHANGED <<mgrVars, loopVars, conn, nextID, closer>>

Wake(c) ==
    /\ call[c].pc = "wait" /\ call[c].woken
    /\ call' = [call EXCEPT ![c].woken = FALSE, ![c].got = NoSession, ![c].pc = "session"]
    /\ UNCHANGED <<mgrVars, loopVars, conn, nextID, closer>>

(* Mutant: session waits for a connection without looking at its context.  *)
GiveUpWaiting_Never(c) == FALSE /\ UNCHANGED vars

GiveUpWaiting(c) ==
    /\ call[c].pc = "wait" /\ call[c].expired
    /\ Return(c, Failure("ctx"))
    /\ UNCHANGED <<mgrVars, loopVars, conn, nextID, closer>>

-----------------------------------------------------------------------------
(* Call: one attempt on a connection (callOn).                             *)

(* Mutant: every try is charged.                                           *)
TryAnother_Charged(c) ==
    call' = [call EXCEPT ![c].avoid = call[c].got, ![c].got = NoSession, ![c].id = 0,
                         ![c].result = NoMessage, ![c].pc = "session", ![c].charged = @ + 1]

(* Back to the head of Call's loop: failed = s.                            *)
TryAnother(c) ==
    call' = [call EXCEPT ![c].avoid = call[c].got, ![c].got = NoSession, ![c].id = 0,
                         ![c].result = NoMessage, ![c].pc = "session"]

(* Mutant: an id that is not new.                                          *)
FreshID_Reused == 1

FreshID == nextID + 1

(* Mutant: register does not look at s.ended.                              *)
Accepts_Always(s) == TRUE

Accepts(s) == ~conn[s].ended

(* m.nextID.Add(1), an atomic step outside every lock that nothing else    *)
(* reads, with the s.register that follows: a slot under the new id for a  *)
(* new reply channel of capacity one.                                      *)
Register(c) ==
    LET s == call[c].got IN
    /\ call[c].pc = "register"
    /\ nextID' = FreshID
    /\ \/ ~Accepts(s) /\ TryAnother(c) /\ UNCHANGED conn
       \/ /\ Accepts(s)
          /\ conn' = [conn EXCEPT ![s].box[c] = NoMessage,
                ![s].pending = {p \in @ : p[1] # FreshID} \cup {<<FreshID, c>>}]
          /\ call' = [call EXCEPT ![c].id = FreshID, ![c].pc = "lock"]
    /\ UNCHANGED <<mgrVars, loopVars, closer>>

(* s.write takes s.writeMu, which ignores the context.  Its own            *)
(* checkCommand never refuses what Call's admitted (PaidBeforeSent).       *)
LockWrite(c) ==
    /\ call[c].pc = "lock" /\ conn[call[c].got].writer = None
    /\ conn' = [conn EXCEPT ![call[c].got].writer = c]
    /\ call' = [call EXCEPT ![c].pc = "write"]
    /\ UNCHANGED <<mgrVars, loopVars, nextID, closer>>

(* Inside conn.Write: the frame is flushed to HA.                          *)
Flush(c) ==
    /\ call[c].pc = "write" /\ ~conn[call[c].got].broken
    /\ conn' = [conn EXCEPT ![call[c].got].wire = Append(@, [id |-> call[c].id, from |-> c])]
    /\ call' = [call EXCEPT ![c].pc = "flushed"]
    /\ UNCHANGED <<mgrVars, loopVars, nextID, closer>>

(* conn.Write returns nil; the deferred unlock of s.writeMu follows.       *)
WriteOk(c) ==
    /\ call[c].pc = "flushed"
    /\ conn' = [conn EXCEPT ![call[c].got].writer = None]
    /\ call' = [call EXCEPT ![c].pc = "await"]
    /\ UNCHANGED <<mgrVars, loopVars, nextID, closer>>

(* Mutant: a write that fails because its context is done is retried.      *)
WriteFailure_NoContextCheck(c) == Failure("retry")

WriteFailure(c) == Failure(IF call[c].expired THEN "ctx" ELSE "retry")

(* conn.Write returns an error: the socket is closed, or the caller's own  *)
(* context is done, which may close the socket under a frame half written. *)
(* The library reports a socket that closed after the flush the same way.  *)
WriteError(c) ==
    LET s == call[c].got IN
    /\ call[c].pc \in {"write", "flushed"}
    /\ conn[s].broken \/ call[c].expired
    /\ \E b \in {conn[s].broken, TRUE} :
         conn' = [conn EXCEPT ![s].writer = None, ![s].broken = b]
    /\ call' = [call EXCEPT ![c].result = WriteFailure(c), ![c].pc = "unregister"]
    /\ UNCHANGED <<mgrVars, loopVars, nextID, closer>>

(* Mutant: a connection that ends under a sent command is a reason to      *)
(* send it again.                                                          *)
ConnectionClosed_Retries == Failure("retry")

ConnectionClosed == Failure("unavailable")

(* The final select of callOn: any case that is ready may be taken.        *)
Await(c) ==
    LET s == call[c].got IN
    /\ call[c].pc = "await"
    /\ \E r \in Outcome :
         /\ \/ r = conn[s].box[c] /\ r # NoMessage
            \/ r = ConnectionClosed /\ conn[s].done
            \/ r = Failure("ctx") /\ call[c].expired
         /\ call' = [call EXCEPT ![c].result = r, ![c].pc = "unregister"]
    /\ UNCHANGED <<mgrVars, loopVars, conn, nextID, closer>>

(* The deferred s.unregister, then either the next connection or the end;  *)
(* the reply channel is dropped, with whatever it holds.                   *)
Unregister(c) ==
    LET s == call[c].got IN
    /\ call[c].pc = "unregister"
    /\ conn' = [conn EXCEPT ![s].box[c] = NoMessage,
                            ![s].pending = {p \in @ : p[1] # call[c].id}]
    /\ \/ call[c].result = Failure("retry") /\ TryAnother(c)
       \/ call[c].result # Failure("retry") /\ Return(c, call[c].result)
    /\ UNCHANGED <<mgrVars, loopVars, nextID, closer>>

-----------------------------------------------------------------------------
(* The connect loop.  It looks at its context, then dials: a context       *)
(* cancelled while it dials is the same as one cancelled just after.       *)

(* setSession, whose broadcastLocked closes the channel every waiting call *)
(* holds.                                                                  *)
Broadcast ==
    call' = [c \in Caller |->
               [call[c] EXCEPT !.woken = call[c].pc \in {"inspect", "wait"}]]

SetSession(s) == current' = s /\ Broadcast

LoopEnds ==
    /\ loop = "top" /\ cancelled
    /\ loop' = "exit"
    /\ UNCHANGED <<mgrVars, created, attempt, reconnects, hand, conn, call, nextID, closer>>

(* Mutant: the backoff exponent is not capped.                             *)
NextAttempt_NoCap == attempt + 1

NextAttempt == IF attempt < MaxBackoffAttempt THEN attempt + 1 ELSE attempt

DialFails ==
    /\ loop = "top" /\ ~cancelled
    /\ attempt' = NextAttempt
    /\ loop' = "backoff"
    /\ UNCHANGED <<mgrVars, created, reconnects, hand, conn, call, nextID, closer>>

(* ErrAuthFailed: a rejected token is not transient.                       *)
DialRejected ==
    /\ loop = "top" /\ ~cancelled
    /\ loop' = "exit"
    /\ UNCHANGED <<mgrVars, created, attempt, reconnects, hand, conn, call, nextID, closer>>

(* newSession, and the count of re-established connections.                *)
DialOk ==
    /\ loop = "top" /\ ~cancelled /\ created < MaxSession
    /\ created' = created + 1
    /\ attempt' = 0
    /\ reconnects' = IF created > 0 THEN reconnects + 1 ELSE reconnects
    /\ loop' = "publish"
    /\ UNCHANGED <<mgrVars, hand, conn, call, nextID, closer>>

(* The timer fires, or the context is done.                                *)
Backoff ==
    /\ loop = "backoff"
    /\ loop' = "top" \/ (cancelled /\ loop' = "exit")
    /\ UNCHANGED <<mgrVars, created, attempt, reconnects, hand, conn, call, nextID, closer>>

Publish ==
    /\ loop = "publish"
    /\ SetSession(created)
    /\ loop' = "read"
    /\ UNCHANGED <<closed, cancelled, created, attempt, reconnects, hand, conn, nextID, closer>>

(* Mutant: deliver looks the slot up and leaves it there.                  *)
Remaining_KeepsSlot(slots) == conn[created].pending

Remaining(slots) == conn[created].pending \ slots

(* serve reads a reply, of any frame HA received and possibly once more,   *)
(* and deliver takes its slot under s.mu.  A frame that is malformed, has  *)
(* no id or finds no slot is dropped.                                      *)
ReadReply ==
    /\ loop = "read" /\ ~conn[created].broken
    /\ \E n \in DOMAIN conn[created].wire :
         LET f     == conn[created].wire[n]
             slots == {p \in conn[created].pending : p[1] = f.id}
         IN  /\ slots # {}
             /\ hand' = {<<p[2], Reply(f.from)>> : p \in slots}
             /\ conn' = [conn EXCEPT ![created].pending = Remaining(slots)]
    /\ loop' = "deliver"
    /\ UNCHANGED <<mgrVars, created, attempt, reconnects, call, nextID, closer>>

(* One send on a buffered reply channel: it blocks while the buffer is     *)
(* full.  deliver has one to do, shutdown one for every slot it took.      *)
Deliver ==
    /\ loop \in {"deliver", "fail"}
    /\ \E m \in hand :
         /\ conn[created].box[m[1]] = NoMessage
         /\ conn' = [conn EXCEPT ![created].box[m[1]] = m[2]]
         /\ hand' = hand \ {m}
    /\ loop' = IF loop = "deliver" THEN "read" ELSE "fail"
    /\ UNCHANGED <<mgrVars, created, attempt, reconnects, call, nextID, closer>>

(* Mutant: serve returns without its deferred shutdown.                    *)
ReadError_NoShutdown ==
    /\ loop = "read" /\ (conn[created].broken \/ cancelled)
    /\ conn' = [conn EXCEPT ![created].broken = TRUE]
    /\ loop' = "clear"
    /\ UNCHANGED <<mgrVars, created, attempt, reconnects, hand, call, nextID, closer>>

(* conn.Read fails: the socket is closed, or the loop's context is done,   *)
(* which closes it.                                                        *)
ReadError ==
    /\ loop = "read" /\ (conn[created].broken \/ cancelled)
    /\ conn' = [conn EXCEPT ![created].broken = TRUE]
    /\ loop' = "shutdown"
    /\ UNCHANGED <<mgrVars, created, attempt, reconnects, hand, call, nextID, closer>>

(* shutdown, its critical section: no new slots, the pending ones taken.   *)
Shutdown ==
    /\ loop = "shutdown"
    /\ hand' = {<<p[2], Dead>> : p \in conn[created].pending}
    /\ conn' = [conn EXCEPT ![created].ended = TRUE, ![created].pending = {}]
    /\ loop' = "fail"
    /\ UNCHANGED <<mgrVars, created, attempt, reconnects, call, nextID, closer>>

(* shutdown, every slot failed: s.done is closed and serve returns.        *)
CloseSession ==
    /\ loop = "fail" /\ hand = {}
    /\ conn' = [conn EXCEPT ![created].done = TRUE]
    /\ loop' = "clear"
    /\ UNCHANGED <<mgrVars, created, attempt, reconnects, hand, call, nextID, closer>>

(* setSession(nil), after serve and again as loop returns.                 *)
Clear ==
    /\ loop \in {"clear", "exit"}
    /\ SetSession(NoSession)
    /\ loop' = IF loop = "clear" THEN "top" ELSE "closeDone"
    /\ UNCHANGED <<closed, cancelled, created, attempt, reconnects, hand, conn, nextID, closer>>

(* The deferred close(m.done).                                             *)
Stop ==
    /\ loop = "closeDone"
    /\ loop' = "stopped"
    /\ UNCHANGED <<mgrVars, created, attempt, reconnects, hand, conn, call, nextID, closer>>

-----------------------------------------------------------------------------
(* Close, and the world outside.                                           *)

CloseBegin(k) ==
    /\ closer[k] = "idle"
    /\ closed' = TRUE
    /\ \/ closed /\ closer' = [closer EXCEPT ![k] = "wait"] /\ UNCHANGED call
       \/ ~closed /\ closer' = [closer EXCEPT ![k] = "cancel"] /\ Broadcast
    /\ UNCHANGED <<current, cancelled, loopVars, conn, nextID>>

(* Mutant: Close does not cancel the loop's context.                       *)
CloseCancel_NoCancel(k) ==
    /\ closer[k] = "cancel"
    /\ closer' = [closer EXCEPT ![k] = "wait"]
    /\ UNCHANGED <<mgrVars, loopVars, conn, call, nextID>>

CloseCancel(k) ==
    /\ closer[k] = "cancel"
    /\ cancelled' = TRUE
    /\ closer' = [closer EXCEPT ![k] = "wait"]
    /\ UNCHANGED <<current, closed, loopVars, conn, call, nextID>>

(* Mutant: Close does not wait for the loop.                               *)
CloseReturn_NoWait(k) ==
    /\ closer[k] = "wait"
    /\ closer' = [closer EXCEPT ![k] = "returned"]
    /\ UNCHANGED <<mgrVars, loopVars, conn, call, nextID>>

CloseReturn(k) ==
    /\ closer[k] = "wait" /\ loop = "stopped"
    /\ closer' = [closer EXCEPT ![k] = "returned"]
    /\ UNCHANGED <<mgrVars, loopVars, conn, call, nextID>>

(* The context Start was given is cancelled: SIGTERM.                      *)
CancelStart ==
    /\ Interrupts /\ ~cancelled
    /\ cancelled' = TRUE
    /\ UNCHANGED <<current, closed, loopVars, conn, call, nextID, closer>>

(* HA restarts, or the network drops the connection.                       *)
Drop ==
    /\ created # NoSession /\ ~conn[created].broken
    /\ conn' = [conn EXCEPT ![created].broken = TRUE]
    /\ UNCHANGED <<mgrVars, loopVars, call, nextID, closer>>

(* Everything has returned: not a deadlock.                                *)
Finished ==
    /\ loop = "stopped"
    /\ \A c \in Caller : call[c].pc = "returned"
    /\ \A k \in Closer : closer[k] = "returned"
    /\ UNCHANGED vars

-----------------------------------------------------------------------------
CallStep(c) ==
    \/ AdmitDenied(c) \/ AdmitRefused(c) \/ Admit(c)
    \/ Snapshot(c) \/ Inspect(c) \/ Wake(c) \/ GiveUpWaiting(c)
    \/ Register(c) \/ LockWrite(c) \/ Flush(c) \/ WriteOk(c) \/ WriteError(c)
    \/ Await(c) \/ Unregister(c)

LoopStep ==
    \/ LoopEnds \/ DialFails \/ DialRejected \/ DialOk \/ Backoff \/ Publish
    \/ ReadReply \/ Deliver \/ ReadError \/ Shutdown \/ CloseSession \/ Clear \/ Stop

CloseStep(k) == CloseBegin(k) \/ CloseCancel(k) \/ CloseReturn(k)

Next ==
    \/ \E c \in Caller : CallStep(c) \/ Expire(c)
    \/ LoopStep
    \/ \E k \in Closer : CloseStep(k)
    \/ CancelStart \/ Drop \/ Finished

Spec == Init /\ [][Next]_vars

(* Goroutines are scheduled; nothing is assumed of HA or of the network:   *)
(* a frame may never be flushed and never answered.  The steps of a call   *)
(* that wait for HA are fair only through its context.                     *)
CallFairness(c) ==
    /\ WF_vars(AdmitDenied(c) \/ AdmitRefused(c) \/ Admit(c))
    /\ WF_vars(Snapshot(c) \/ Inspect(c) \/ Wake(c) \/ GiveUpWaiting(c))
    /\ WF_vars(Register(c))
    /\ SF_vars(LockWrite(c))
    /\ WF_vars(WriteOk(c) \/ WriteError(c))
    /\ WF_vars(Await(c)) /\ WF_vars(Unregister(c))

CloseFairness(k) == WF_vars(CloseCancel(k) \/ CloseReturn(k))

(* Without help from any deadline ...                                      *)
PatientSpec ==
    /\ Spec /\ WF_vars(LoopStep)
    /\ (\A c \in Caller : CallFairness(c)) /\ (\A k \in Closer : CloseFairness(k))
(* ... and with the deadlines every context has.                           *)
FairSpec == PatientSpec /\ \A c \in Caller : WF_vars(Expire(c))

-----------------------------------------------------------------------------
(* Properties.                                                             *)

InFlight(c) == call[c].pc \in {"lock", "write", "flushed", "await", "unregister"}

Frames(s, c) == {n \in DOMAIN conn[s].wire : conn[s].wire[n].from = c}

(* A caller gets the answer to its own command and to no other, whatever   *)
(* the order of replies, retries, late and repeated replies                *)
(* (TestManager_ConcurrentRequests_OutOfOrderReplies_ResolveCorrectCallers *)
(* shows one order of four).                                               *)
RepliesNeverCross ==
    \A c \in Caller : call[c].result.kind = "reply" => call[c].result.from = c

(* "A cancelled or failed request leaves nothing behind" (unregister), and *)
(* a finished connection holds no slot: every reply slot belongs to a call *)
(* still in its attempt on that very connection, under its current id.     *)
SlotsOwned ==
    \A s \in Session :
        /\ conn[s].ended => conn[s].pending = {}
        /\ \A p \in conn[s].pending :
              InFlight(p[2]) /\ call[p[2]].got = s /\ call[p[2]].id = p[1]

(* "The slot is buffered and used once, so this never blocks" (deliver):   *)
(* whenever the loop is about to send on a reply channel, in deliver or in *)
(* shutdown, its one-place buffer is empty.  A second send would block the *)
(* connect loop for good.                                                  *)
SendNeverBlocks ==
    \A m \in hand : /\ conn[created].box[m[1]] = NoMessage
                    /\ \A n \in hand : n[1] = m[1] => n = m

(* No wake-up is lost between the copy of m.changed and the wait on it     *)
(* (session against setSession and Close): a call sleeping on a channel    *)
(* that is still open is right to sleep, because the manager is not closed *)
(* and publishes no connection the call could use.                         *)
NoMissedWakeup ==
    \A c \in Caller :
        call[c].pc = "wait" /\ ~call[c].woken =>
            /\ ~closed
            /\ current = NoSession \/ current = call[c].avoid \/ conn[current].ended

(* "So this cannot spin" (Call): a retry is always made on a connection    *)
(* younger than the one that failed, even while the loop has not yet       *)
(* noticed that the failed one is finished.                                *)
RetryMovesForward ==
    \A c \in Caller :
        call[c].pc = "register" \/ InFlight(c) => call[c].got > call[c].avoid

(* One charge per logical request, before any byte is written: retries are *)
(* not charged again, nothing uncharged is sent, and a command that was    *)
(* refused costs neither a charge nor a slot nor a frame.                  *)
PaidBeforeSent ==
    \A c \in Caller :
        /\ call[c].charged <= 1
        /\ call[c].charged = 0 => \A s \in Session :
              Frames(s, c) = {} /\ \A p \in conn[s].pending : p[2] # c
        /\ call[c].result.kind \in {"denied", "budget"} => call[c].charged = 0

(* A command that reached Home Assistant is tried again only where the     *)
(* connection that carried it broke: never beside one that could still     *)
(* answer.                                                                 *)
ResentOnlyAfterBreak ==
    \A c \in Caller, s \in Session :
        /\ call[c].pc \notin {"new", "returned"}
        /\ call[c].got # s /\ Frames(s, c) # {}
        => conn[s].broken

(* A call hears its own reply and nobody else's, through a slot that is    *)
(* its own while it waits and gone when it has, and the loop that delivers *)
(* it never blocks on one (deliver, unregister, shutdown).                 *)
RepliesDelivered == RepliesNeverCross /\ SlotsOwned /\ SendNeverBlocks

(* A call tries again only on a younger connection, only when the one that *)
(* may have carried its command is broken, and on the one charge it was    *)
(* admitted with (Call).                                                   *)
RetriesHonest == RetryMovesForward /\ PaidBeforeSent /\ ResentOnlyAfterBreak

(* Close "fails every in-flight request and waits for the loop to exit":   *)
(* when it returns, to the first caller or to a later one, no connection   *)
(* is published, every connection ever made is finished and no slot is     *)
(* left for a reply that cannot come.                                      *)
ClosedMeansDrained ==
    (\E k \in Closer : closer[k] = "returned") =>
        /\ current = NoSession
        /\ \A s \in 1 .. created : conn[s].done /\ conn[s].pending = {}

(* The frames in which HA received the command of c, on any connection.    *)
Received(c) == UNION {{<<s, n>> : n \in Frames(s, c)} : s \in Session}

(* Call implements the promise of RemoteCall.  A call has its outcome as   *)
(* soon as callOn has it, before the deferred unregister runs.             *)
Decided(c) ==
    call[c].pc = "returned" \/ (call[c].pc = "unregister" /\ call[c].result.kind # "retry")

Progress(c) ==
    CASE call[c].pc = "new"   -> "idle"
      [] call[c].pc = "await" -> "sent"
      [] Decided(c)           -> "returned"
      [] OTHER                -> "trying"

Heard(c) == IF Decided(c) THEN call[c].result ELSE NoMessage

Abstract == INSTANCE RemoteCall WITH
    state    <- [c \in Caller |-> Progress(c)],
    outcome  <- [c \in Caller |-> Heard(c)],
    received <- [c \in Caller |-> Received(c)]

ImplementsRemoteCall == Abstract!Spec

(* "HA requires ids to increase within a connection" (callOn, and the      *)
(* comment on nextID).                                                     *)
WireIdsIncrease ==
    \A s \in Session : \A m, n \in DOMAIN conn[s].wire :
        m < n => conn[s].wire[m].id < conn[s].wire[n].id

(* "No unbounded wait, ever": every Call returns, whatever HA, the network *)
(* and the other calls do.                                                 *)
EveryCallReturns ==
    \A c \in Caller : call[c].pc # "new" ~> call[c].pc = "returned"

(* "Every pending caller is failed" when its connection ends (session): a  *)
(* call waiting for a reply on a broken connection is released without the *)
(* help of its own deadline.                                               *)
BrokenConnectionReleasesCalls ==
    \A c \in Caller :
        (call[c].pc = "await" /\ conn[call[c].got].broken) ~> call[c].pc # "await"

(* Close returns, to every goroutine that calls it, without the help of    *)
(* any deadline.                                                           *)
CloseReturns ==
    \A k \in Closer : closer[k] # "idle" ~> closer[k] = "returned"

(* Nobody waits for what has ended: neither a call on a connection that    *)
(* broke, nor a closer for the loop.                                       *)
EndsAreHeard == BrokenConnectionReleasesCalls /\ CloseReturns
=============================================================================
