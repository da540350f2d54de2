--------------------------- MODULE ManagerProofs ---------------------------
(***************************************************************************)
(* Theorems about Manager for any calls, denied or not, any number of      *)
(* goroutines that call Close, and any number of connections.              *)
(***************************************************************************)
EXTENDS Manager, SequenceTheorems, TLAPS

-----------------------------------------------------------------------------
(* Type correctness.                                                       *)

LEMMA MessageTypes ==
    /\ NoMessage \in Message /\ Dead \in Message /\ \A c \in Caller : Reply(c) \in Message
    /\ Message \subseteq Outcome
    /\ \A k \in {"denied", "budget", "ctx", "retry", "unavailable"} : Failure(k) \in Outcome
  BY DEF Message, Outcome, NoMessage, Dead, Reply, Failure

LEMMA NewCallType == NewCall \in CallType
  BY MessageTypes DEF NewCall, CallType, CallState

LEMMA NewConnType == NewConn \in ConnType
  <1>1. <<>> \in Seq([id : Nat, from : Caller])
    OBVIOUS
  <1> QED BY <1>1, MessageTypes DEF NewConn, ConnType

LEMMA InitType == Init => TypeOK
  <1> SUFFICES ASSUME Init PROVE TypeOK
    OBVIOUS
  <1>1. call \in [Caller -> CallType] /\ conn \in [Session -> ConnType]
    BY NewCallType, NewConnType DEF Init
  <1>2. created \in 0 .. MaxSession /\ attempt \in 0 .. MaxBackoffAttempt
    BY SessionAssumption, BackoffAssumption DEF Init
  <1> QED BY <1>1, <1>2 DEF Init, TypeOK, LoopState

(* Replacing one call, or one connection, by one of its type.  An update   *)
(* outside Session is none.                                                *)
LEMMA CallUpdate ==
    ASSUME TypeOK, NEW c \in Caller, NEW g \in CallType
    PROVE  [call EXCEPT ![c] = g] \in [Caller -> CallType]
  BY DEF TypeOK

LEMMA ConnUpdate ==
    ASSUME TypeOK, NEW s, NEW t, s \in Session => t \in ConnType
    PROVE  [conn EXCEPT ![s] = t] \in [Session -> ConnType]
  BY DEF TypeOK

LEMMA ReturnType ==
    ASSUME TypeOK, NEW c \in Caller, NEW r \in Outcome, Return(c, r)
    PROVE  call' \in [Caller -> CallType]
  <1>1. call[c].charged \in Nat
    BY DEF TypeOK, CallType
  <1>2. [NewCall EXCEPT !.pc = "returned", !.result = r, !.charged = call[c].charged] \in CallType
    BY <1>1, NewCallType DEF CallType, CallState
  <1> QED BY <1>2, CallUpdate DEF Return

LEMMA TryAnotherType ==
    ASSUME TypeOK, NEW c \in Caller, TryAnother(c)
    PROVE  call' \in [Caller -> CallType]
  <1> DEFINE g == [call[c] EXCEPT !.avoid = call[c].got, !.got = NoSession, !.id = 0,
                                  !.result = NoMessage, !.pc = "session"]
  <1>1. call[c] \in CallType
    BY DEF TypeOK
  <1>2. g \in CallType
    BY <1>1, MessageTypes DEF CallType, CallState
  <1>3. call' = [call EXCEPT ![c] = g]
    BY DEF TryAnother, TypeOK
  <1> HIDE DEF g
  <1> QED BY <1>2, <1>3, CallUpdate

LEMMA BroadcastType ==
    ASSUME TypeOK, Broadcast
    PROVE  call' \in [Caller -> CallType]
  <1>1. ASSUME NEW c \in Caller
        PROVE  [call[c] EXCEPT !.woken = call[c].pc \in {"inspect", "wait"}] \in CallType
    <2>1. call[c] \in CallType
      BY DEF TypeOK
    <2>2. (call[c].pc \in {"inspect", "wait"}) \in BOOLEAN
      OBVIOUS
    <2> QED BY <2>1, <2>2 DEF CallType
  <1> QED BY <1>1 DEF Broadcast

(* The connection a goroutine works on.  The loop serves one it has        *)
(* dialled.                                                                *)
LoopServes ==
    loop \in {"publish", "read", "deliver", "shutdown", "fail", "clear"} => created \in Session

TypeInv == TypeOK /\ LoopServes

LEMMA AdmissionType ==
    ASSUME TypeInv, NEW c \in Caller,
           AdmitDenied(c) \/ AdmitRefused(c) \/ Admit(c) \/ Expire(c)
    PROVE  TypeInv'
  <1>0. call[c] \in CallType
    BY DEF TypeInv, TypeOK
  <1>1. CASE AdmitDenied(c) \/ AdmitRefused(c)
    <2>1. call' \in [Caller -> CallType]
      BY <1>1, MessageTypes, ReturnType DEF AdmitDenied, AdmitRefused, TypeInv
    <2> QED BY <1>1, <2>1 DEF AdmitDenied, AdmitRefused, TypeInv, TypeOK, LoopServes, mgrVars, loopVars
  <1>2. CASE Admit(c)
    <2> DEFINE g == [call[c] EXCEPT !.charged = @ + 1, !.pc = "session"]
    <2>0. call[c].charged + 1 \in Nat
      BY <1>0 DEF CallType
    <2>1. g \in CallType
      BY <1>0, <2>0 DEF CallType, CallState
    <2>2. call' = [call EXCEPT ![c] = g]
      BY <1>2 DEF Admit, TypeInv, TypeOK
    <2> HIDE DEF g
    <2>3. call' \in [Caller -> CallType]
      BY <2>1, <2>2, CallUpdate DEF TypeInv
    <2> QED BY <1>2, <2>3 DEF Admit, TypeInv, TypeOK, LoopServes, mgrVars, loopVars
  <1>3. CASE Expire(c)
    <2> DEFINE g == [call[c] EXCEPT !.expired = TRUE]
    <2>1. g \in CallType
      BY <1>0 DEF CallType
    <2>2. call' = [call EXCEPT ![c] = g]
      BY <1>3 DEF Expire, TypeInv, TypeOK
    <2> HIDE DEF g
    <2>3. call' \in [Caller -> CallType]
      BY <2>1, <2>2, CallUpdate DEF TypeInv
    <2> QED BY <1>3, <2>3 DEF Expire, TypeInv, TypeOK, LoopServes, mgrVars, loopVars
  <1> QED BY <1>1, <1>2, <1>3

LEMMA SessionType ==
    ASSUME TypeInv, NEW c \in Caller,
           Snapshot(c) \/ Inspect(c) \/ Wake(c) \/ GiveUpWaiting(c)
    PROVE  TypeInv'
  <1>0. call[c] \in CallType
    BY DEF TypeInv, TypeOK
  <1>1. CASE Snapshot(c)
    <2> DEFINE g == [call[c] EXCEPT !.got = current, !.woken = FALSE, !.pc = "inspect"]
    <2>1. g \in CallType
      BY <1>0 DEF CallType, CallState, TypeInv, TypeOK
    <2>2. Return(c, Failure("unavailable")) \/ call' = [call EXCEPT ![c] = g]
      BY <1>1 DEF Snapshot, TypeInv, TypeOK
    <2> HIDE DEF g
    <2>3. call' \in [Caller -> CallType]
      BY <2>1, <2>2, MessageTypes, CallUpdate, ReturnType DEF TypeInv
    <2> QED BY <1>1, <2>3 DEF Snapshot, TypeInv, TypeOK, LoopServes, mgrVars, loopVars
  <1>2. CASE Inspect(c)
    <2> DEFINE g == [call[c] EXCEPT !.woken = FALSE, !.pc = "register"]
               h == [call[c] EXCEPT !.pc = "wait"]
    <2>1. g \in CallType /\ h \in CallType
      BY <1>0 DEF CallType, CallState
    <2>2. call' = [call EXCEPT ![c] = g] \/ call' = [call EXCEPT ![c] = h]
      BY <1>2 DEF Inspect, TypeInv, TypeOK
    <2> HIDE DEF g, h
    <2>3. call' \in [Caller -> CallType]
      BY <2>1, <2>2, CallUpdate DEF TypeInv
    <2> QED BY <1>2, <2>3 DEF Inspect, TypeInv, TypeOK, LoopServes, mgrVars, loopVars
  <1>3. CASE Wake(c)
    <2> DEFINE g == [call[c] EXCEPT !.woken = FALSE, !.got = NoSession, !.pc = "session"]
    <2>1. g \in CallType
      BY <1>0 DEF CallType, CallState
    <2>2. call' = [call EXCEPT ![c] = g]
      BY <1>3 DEF Wake, TypeInv, TypeOK
    <2> HIDE DEF g
    <2>3. call' \in [Caller -> CallType]
      BY <2>1, <2>2, CallUpdate DEF TypeInv
    <2> QED BY <1>3, <2>3 DEF Wake, TypeInv, TypeOK, LoopServes, mgrVars, loopVars
  <1>4. CASE GiveUpWaiting(c)
    <2>1. call' \in [Caller -> CallType]
      BY <1>4, MessageTypes, ReturnType DEF GiveUpWaiting, TypeInv
    <2> QED BY <1>4, <2>1 DEF GiveUpWaiting, TypeInv, TypeOK, LoopServes, mgrVars, loopVars
  <1> QED BY <1>1, <1>2, <1>3, <1>4

LEMMA AttemptType ==
    ASSUME TypeInv, NEW c \in Caller,
           Register(c) \/ LockWrite(c) \/ Flush(c) \/ WriteOk(c) \/ WriteError(c)
           \/ Await(c) \/ Unregister(c)
    PROVE  TypeInv'
  <1> DEFINE s == call[c].got
  <1>0. call[c] \in CallType /\ (s \in Session => conn[s] \in ConnType)
    BY DEF TypeInv, TypeOK
  <1>c. None \notin Caller /\ nextID \in Nat
    BY CallerAssumption DEF TypeInv, TypeOK
  <1>1. CASE Register(c)
    <2>1. FreshID \in Nat
      BY <1>c DEF FreshID
    <2>2. CASE ~Accepts(s)
      <3>1. call' \in [Caller -> CallType] /\ conn' = conn
        BY <1>1, <2>2, TryAnotherType DEF Register, TypeInv
      <3> QED BY <1>1, <2>1, <3>1 DEF Register, TypeInv, TypeOK, LoopServes, mgrVars, loopVars
    <2>3. CASE Accepts(s)
      <3> DEFINE g == [call[c] EXCEPT !.id = FreshID, !.pc = "lock"]
                 slots == {p \in conn[s].pending : p[1] # FreshID} \cup {<<FreshID, c>>}
                 t == [conn[s] EXCEPT !.box[c] = NoMessage, !.pending = slots]
      <3>1. g \in CallType
        BY <1>0, <2>1 DEF CallType, CallState
      <3>2. call' = [call EXCEPT ![c] = g] \/ TryAnother(c)
        BY <1>1 DEF Register, TypeInv, TypeOK
      <3>3. call' \in [Caller -> CallType]
        <4> HIDE DEF g
        <4> QED BY <3>1, <3>2, CallUpdate, TryAnotherType DEF TypeInv
      <3>4. s \in Session => t \in ConnType
        <4> SUFFICES ASSUME s \in Session PROVE t \in ConnType
          OBVIOUS
        <4>1. slots \in SUBSET (Nat \X Caller)
          BY <1>0, <2>1 DEF ConnType
        <4>2. [conn[s].box EXCEPT ![c] = NoMessage] \in [Caller -> Message]
          BY <1>0, MessageTypes DEF ConnType
        <4>3. t = [conn[s] EXCEPT !.box = [conn[s].box EXCEPT ![c] = NoMessage], !.pending = slots]
          BY <1>0 DEF ConnType
        <4> HIDE DEF slots, t
        <4> QED BY <1>0, <4>1, <4>2, <4>3 DEF ConnType
      <3>5. conn' = [conn EXCEPT ![s] = t] \/ conn' = conn
        BY <1>1 DEF Register, TypeInv, TypeOK
      <3>6. conn' \in [Session -> ConnType]
        <4> HIDE DEF t
        <4> QED BY <3>4, <3>5, ConnUpdate DEF TypeInv, TypeOK
      <3> QED BY <1>1, <2>1, <3>3, <3>6 DEF Register, TypeInv, TypeOK, LoopServes, mgrVars, loopVars
    <2> QED BY <2>2, <2>3
  <1>2. CASE LockWrite(c)
    <2> DEFINE g == [call[c] EXCEPT !.pc = "write"]
               t == [conn[s] EXCEPT !.writer = c]
    <2>1. g \in CallType /\ (s \in Session => t \in ConnType)
      BY <1>0 DEF CallType, CallState, ConnType
    <2>2. call' = [call EXCEPT ![c] = g] /\ conn' = [conn EXCEPT ![s] = t]
      BY <1>2 DEF LockWrite, TypeInv, TypeOK
    <2> HIDE DEF g, t
    <2>3. call' \in [Caller -> CallType] /\ conn' \in [Session -> ConnType]
      BY <2>1, <2>2, CallUpdate, ConnUpdate DEF TypeInv
    <2> QED BY <1>2, <2>3 DEF LockWrite, TypeInv, TypeOK, LoopServes, mgrVars, loopVars
  <1>3. CASE Flush(c)
    <2> DEFINE g == [call[c] EXCEPT !.pc = "flushed"]
               t == [conn[s] EXCEPT !.wire = Append(@, [id |-> call[c].id, from |-> c])]
    <2>1. g \in CallType
      BY <1>0 DEF CallType, CallState
    <2>2. s \in Session => t \in ConnType
      <3>1. [id |-> call[c].id, from |-> c] \in [id : Nat, from : Caller]
        BY <1>0 DEF CallType
      <3>2. s \in Session => Append(conn[s].wire, [id |-> call[c].id, from |-> c])
                               \in Seq([id : Nat, from : Caller])
        BY <1>0, <3>1 DEF ConnType
      <3> QED BY <1>0, <3>2 DEF ConnType
    <2>3. call' = [call EXCEPT ![c] = g] /\ conn' = [conn EXCEPT ![s] = t]
      BY <1>3 DEF Flush, TypeInv, TypeOK
    <2> HIDE DEF g, t
    <2>4. call' \in [Caller -> CallType] /\ conn' \in [Session -> ConnType]
      BY <2>1, <2>2, <2>3, CallUpdate, ConnUpdate DEF TypeInv
    <2> QED BY <1>3, <2>4 DEF Flush, TypeInv, TypeOK, LoopServes, mgrVars, loopVars
  <1>4. CASE WriteOk(c)
    <2> DEFINE g == [call[c] EXCEPT !.pc = "await"]
               t == [conn[s] EXCEPT !.writer = None]
    <2>1. g \in CallType /\ (s \in Session => t \in ConnType)
      BY <1>0 DEF CallType, CallState, ConnType
    <2>2. call' = [call EXCEPT ![c] = g] /\ conn' = [conn EXCEPT ![s] = t]
      BY <1>4 DEF WriteOk, TypeInv, TypeOK
    <2> HIDE DEF g, t
    <2>3. call' \in [Caller -> CallType] /\ conn' \in [Session -> ConnType]
      BY <2>1, <2>2, CallUpdate, ConnUpdate DEF TypeInv
    <2> QED BY <1>4, <2>3 DEF WriteOk, TypeInv, TypeOK, LoopServes, mgrVars, loopVars
  <1>5. CASE WriteError(c)
    <2>1. PICK b \in {conn[s].broken, TRUE} :
            conn' = [conn EXCEPT ![s].writer = None, ![s].broken = b]
      BY <1>5 DEF WriteError
    <2> DEFINE g == [call[c] EXCEPT !.result = WriteFailure(c), !.pc = "unregister"]
               t == [conn[s] EXCEPT !.writer = None, !.broken = b]
    <2>2. WriteFailure(c) \in Outcome
      BY MessageTypes DEF WriteFailure
    <2>3. g \in CallType
      BY <1>0, <2>2 DEF CallType, CallState
    <2>4. s \in Session => b \in BOOLEAN
      BY <1>0, <2>1 DEF ConnType
    <2>5. s \in Session => t \in ConnType
      BY <1>0, <2>4 DEF ConnType
    <2>6. call' = [call EXCEPT ![c] = g] /\ conn' = [conn EXCEPT ![s] = t]
      <3>1. call' = [call EXCEPT ![c].result = WriteFailure(c), ![c].pc = "unregister"]
        BY <1>5 DEF WriteError
      <3>2. call' = [call EXCEPT ![c] = g]
        BY <3>1 DEF TypeInv, TypeOK
      <3>3. conn' = [conn EXCEPT ![s] = t]
        BY <2>1 DEF TypeInv, TypeOK
      <3> QED BY <3>2, <3>3
    <2> HIDE DEF g, t
    <2>7. call' \in [Caller -> CallType] /\ conn' \in [Session -> ConnType]
      BY <2>3, <2>5, <2>6, CallUpdate, ConnUpdate DEF TypeInv
    <2> QED BY <1>5, <2>7 DEF WriteError, TypeInv, TypeOK, LoopServes, mgrVars, loopVars
  <1>6. CASE Await(c)
    <2>1. PICK r \in Outcome : call' = [call EXCEPT ![c].result = r, ![c].pc = "unregister"]
      BY <1>6 DEF Await
    <2> DEFINE g == [call[c] EXCEPT !.result = r, !.pc = "unregister"]
    <2>2. g \in CallType
      BY <1>0 DEF CallType, CallState
    <2>3. call' = [call EXCEPT ![c] = g]
      BY <2>1 DEF TypeInv, TypeOK
    <2> HIDE DEF g
    <2>4. call' \in [Caller -> CallType]
      BY <2>2, <2>3, CallUpdate DEF TypeInv
    <2> QED BY <1>6, <2>4 DEF Await, TypeInv, TypeOK, LoopServes, mgrVars, loopVars
  <1>7. CASE Unregister(c)
    <2> DEFINE slots == {p \in conn[s].pending : p[1] # call[c].id}
               t == [conn[s] EXCEPT !.box[c] = NoMessage, !.pending = slots]
    <2>1. call' \in [Caller -> CallType]
      BY <1>0, <1>7, ReturnType, TryAnotherType DEF Unregister, TypeInv, CallType
    <2>2. s \in Session => t \in ConnType
      <3> SUFFICES ASSUME s \in Session PROVE t \in ConnType
        OBVIOUS
      <3>1. slots \in SUBSET (Nat \X Caller)
        BY <1>0 DEF ConnType
      <3>2. [conn[s].box EXCEPT ![c] = NoMessage] \in [Caller -> Message]
        BY <1>0, MessageTypes DEF ConnType
      <3>3. t = [conn[s] EXCEPT !.box = [conn[s].box EXCEPT ![c] = NoMessage], !.pending = slots]
        BY <1>0 DEF ConnType
      <3> HIDE DEF slots, t
      <3> QED BY <1>0, <3>1, <3>2, <3>3 DEF ConnType
    <2>3. conn' = [conn EXCEPT ![s] = t]
      BY <1>7 DEF Unregister, TypeInv, TypeOK
    <2>4. conn' \in [Session -> ConnType]
      <3> HIDE DEF t
      <3> QED BY <2>2, <2>3, ConnUpdate DEF TypeInv
    <2> QED BY <1>7, <2>1, <2>4 DEF Unregister, TypeInv, TypeOK, LoopServes, mgrVars, loopVars
  <1> QED BY <1>1, <1>2, <1>3, <1>4, <1>5, <1>6, <1>7

LEMMA LoopType ==
    ASSUME TypeInv, LoopStep
    PROVE  TypeInv'
  <1> USE DEF TypeInv
  <1>0. created \in Session => conn[created] \in ConnType
    BY DEF TypeOK
  <1>1. CASE LoopEnds \/ DialRejected
    BY <1>1 DEF LoopEnds, DialRejected, TypeOK, LoopServes, LoopState, mgrVars
  <1>2. CASE DialFails
    <2>1. attempt' \in 0 .. MaxBackoffAttempt
      BY <1>2, BackoffAssumption DEF DialFails, NextAttempt, TypeOK
    <2> QED BY <1>2, <2>1 DEF DialFails, TypeOK, LoopServes, LoopState, mgrVars
  <1>3. CASE DialOk
    <2>1. attempt' \in 0 .. MaxBackoffAttempt /\ created' \in Session /\ reconnects' \in Nat
      BY <1>3, BackoffAssumption, SessionAssumption DEF DialOk, TypeOK, Session
    <2>2. created' \in 0 .. MaxSession
      BY <2>1, SessionAssumption DEF Session
    <2> QED BY <1>3, <2>1, <2>2 DEF DialOk, TypeOK, LoopServes, LoopState, mgrVars
  <1>4. CASE Backoff
    BY <1>4 DEF Backoff, TypeOK, LoopServes, LoopState, mgrVars
  <1>5. CASE Publish
    <2>1. call' \in [Caller -> CallType] /\ current' = created
      BY <1>5, BroadcastType DEF Publish, SetSession
    <2>2. created \in Session
      BY <1>5 DEF Publish, LoopServes
    <2> QED BY <1>5, <2>1, <2>2 DEF Publish, TypeOK, LoopServes, LoopState
  <1>6. CASE ReadReply
    <2>1. created \in Session
      BY <1>6 DEF ReadReply, LoopServes
    <2>2. PICK n \in DOMAIN conn[created].wire :
            LET f     == conn[created].wire[n]
                slots == {p \in conn[created].pending : p[1] = f.id}
            IN  /\ hand' = {<<p[2], Reply(f.from)>> : p \in slots}
                /\ conn' = [conn EXCEPT ![created].pending = Remaining(slots)]
      BY <1>6 DEF ReadReply
    <2> DEFINE f     == conn[created].wire[n]
               slots == {p \in conn[created].pending : p[1] = f.id}
               t     == [conn[created] EXCEPT !.pending = Remaining(slots)]
    <2>3. f \in [id : Nat, from : Caller]
      <3>1. conn[created].wire \in Seq([id : Nat, from : Caller])
        BY <1>0, <2>1 DEF ConnType
      <3>2. n \in 1 .. Len(conn[created].wire)
        BY <3>1
      <3> QED BY <3>1, <3>2, ElementOfSeq
    <2>4. Reply(f.from) \in Message
      BY <2>3, MessageTypes
    <2>5. slots \in SUBSET (Nat \X Caller) /\ Remaining(slots) \in SUBSET (Nat \X Caller)
      BY <1>0, <2>1 DEF ConnType, Remaining
    <2>6. hand' \subseteq Caller \X Message
      <3>1. hand' = {<<p[2], Reply(f.from)>> : p \in slots}
        BY <2>2
      <3> HIDE DEF f, slots
      <3> QED BY <2>4, <2>5, <3>1
    <2>7. t \in ConnType
      <3> HIDE DEF slots
      <3> QED BY <1>0, <2>1, <2>5 DEF ConnType
    <2>8. conn' = [conn EXCEPT ![created] = t]
      BY <2>2 DEF TypeOK
    <2> HIDE DEF f, slots, t
    <2>9. conn' \in [Session -> ConnType]
      BY <2>7, <2>8, ConnUpdate
    <2> QED BY <1>6, <2>6, <2>9 DEF ReadReply, TypeOK, LoopServes, LoopState, mgrVars
  <1>7. CASE Deliver
    <2>1. created \in Session
      BY <1>7 DEF Deliver, LoopServes
    <2>2. PICK m \in hand : /\ conn' = [conn EXCEPT ![created].box[m[1]] = m[2]]
                            /\ hand' = hand \ {m}
      BY <1>7 DEF Deliver
    <2> DEFINE t == [conn[created] EXCEPT !.box = [@ EXCEPT ![m[1]] = m[2]]]
    <2>3. m[1] \in Caller /\ m[2] \in Message
      BY DEF TypeOK
    <2>4. t \in ConnType
      <3>1. [conn[created].box EXCEPT ![m[1]] = m[2]] \in [Caller -> Message]
        BY <1>0, <2>1, <2>3 DEF ConnType
      <3> QED BY <1>0, <2>1, <3>1 DEF ConnType
    <2>5. conn' = [conn EXCEPT ![created] = t]
      BY <2>2 DEF TypeOK
    <2> HIDE DEF t
    <2>6. conn' \in [Session -> ConnType]
      BY <2>4, <2>5, ConnUpdate
    <2> QED BY <1>7, <2>2, <2>6 DEF Deliver, TypeOK, LoopServes, LoopState, mgrVars
  <1>8. CASE ReadError
    <2> DEFINE t == [conn[created] EXCEPT !.broken = TRUE]
    <2>1. created \in Session => t \in ConnType
      BY <1>0 DEF ConnType
    <2>2. conn' = [conn EXCEPT ![created] = t]
      BY <1>8 DEF ReadError, TypeOK
    <2> HIDE DEF t
    <2>3. conn' \in [Session -> ConnType]
      BY <2>1, <2>2, ConnUpdate
    <2> QED BY <1>8, <2>3 DEF ReadError, TypeOK, LoopServes, LoopState, mgrVars
  <1>9. CASE Shutdown
    <2> DEFINE t == [conn[created] EXCEPT !.ended = TRUE, !.pending = {}]
    <2>1. created \in Session
      BY <1>9 DEF Shutdown, LoopServes
    <2>2. t \in ConnType
      BY <1>0, <2>1 DEF ConnType
    <2>3. conn' = [conn EXCEPT ![created] = t]
      BY <1>9 DEF Shutdown, TypeOK
    <2>4. hand' \subseteq Caller \X Message
      <3>1. conn[created].pending \subseteq Nat \X Caller
        BY <1>0, <2>1 DEF ConnType
      <3>2. hand' = {<<p[2], Dead>> : p \in conn[created].pending}
        BY <1>9 DEF Shutdown
      <3> QED BY <3>1, <3>2, MessageTypes
    <2> HIDE DEF t
    <2>5. conn' \in [Session -> ConnType]
      BY <2>2, <2>3, ConnUpdate
    <2> QED BY <1>9, <2>4, <2>5 DEF Shutdown, TypeOK, LoopServes, LoopState, mgrVars
  <1>10. CASE CloseSession
    <2> DEFINE t == [conn[created] EXCEPT !.done = TRUE]
    <2>1. created \in Session => t \in ConnType
      BY <1>0 DEF ConnType
    <2>2. conn' = [conn EXCEPT ![created] = t]
      BY <1>10 DEF CloseSession, TypeOK
    <2> HIDE DEF t
    <2>3. conn' \in [Session -> ConnType]
      BY <2>1, <2>2, ConnUpdate
    <2> QED BY <1>10, <2>3 DEF CloseSession, TypeOK, LoopServes, LoopState, mgrVars
  <1>11. CASE Clear
    <2>1. call' \in [Caller -> CallType] /\ current' = NoSession
      BY <1>11, BroadcastType DEF Clear, SetSession
    <2> QED BY <1>11, <2>1 DEF Clear, TypeOK, LoopServes, LoopState
  <1>12. CASE Stop
    BY <1>12 DEF Stop, TypeOK, LoopServes, LoopState, mgrVars
  <1> QED BY <1>1, <1>2, <1>3, <1>4, <1>5, <1>6, <1>7, <1>8, <1>9, <1>10, <1>11, <1>12
          DEF LoopStep

LEMMA WorldType ==
    ASSUME TypeInv,
           (\E k \in Closer : CloseStep(k)) \/ CancelStart \/ Drop \/ UNCHANGED vars
    PROVE  TypeInv'
  <1> USE DEF TypeInv
  <1>1. ASSUME NEW k \in Closer, CloseStep(k) PROVE TypeInv'
    <2>1. CASE CloseBegin(k)
      <3>1. call' \in [Caller -> CallType]
        BY <2>1, BroadcastType DEF CloseBegin, TypeOK
      <3> QED BY <2>1, <3>1 DEF CloseBegin, TypeOK, LoopServes, loopVars
    <2>2. CASE CloseCancel(k) \/ CloseReturn(k)
      BY <2>2 DEF CloseCancel, CloseReturn, TypeOK, LoopServes, loopVars, mgrVars
    <2> QED BY <1>1, <2>1, <2>2 DEF CloseStep
  <1>2. CASE CancelStart
    BY <1>2 DEF CancelStart, TypeOK, LoopServes, loopVars
  <1>3. CASE Drop
    <2> DEFINE t == [conn[created] EXCEPT !.broken = TRUE]
    <2>1. created \in Session => t \in ConnType
      BY DEF TypeOK, ConnType
    <2>2. conn' = [conn EXCEPT ![created] = t]
      BY <1>3 DEF Drop, TypeOK
    <2> HIDE DEF t
    <2>3. conn' \in [Session -> ConnType]
      BY <2>1, <2>2, ConnUpdate
    <2> QED BY <1>3, <2>3 DEF Drop, TypeOK, LoopServes, loopVars, mgrVars
  <1>4. CASE UNCHANGED vars
    BY <1>4 DEF vars, mgrVars, loopVars, TypeOK, LoopServes
  <1> QED BY <1>1, <1>2, <1>3, <1>4

LEMMA InitInv == Init => TypeInv
  BY InitType DEF Init, TypeInv, LoopServes

LEMMA NextInv == TypeInv /\ [Next]_vars => TypeInv'
  <1> SUFFICES ASSUME TypeInv, [Next]_vars PROVE TypeInv'
    OBVIOUS
  <1>1. ASSUME NEW c \in Caller, CallStep(c) \/ Expire(c) PROVE TypeInv'
    BY <1>1, AdmissionType, SessionType, AttemptType DEF CallStep
  <1> QED BY <1>1, LoopType, WorldType DEF Next, Finished

(* The state of the manager, of every connection and of every call always  *)
(* has its type; in particular the backoff exponent stays under its cap.   *)
THEOREM TypeCorrect == Spec => []TypeOK
  <1>1. TypeInv => TypeOK
    BY DEF TypeInv
  <1> QED BY InitInv, NextInv, <1>1, PTL DEF Spec

-----------------------------------------------------------------------------
(* The fields of a call that ends, and of one that tries another           *)
(* connection.                                                             *)
LEMMA ReturnEffect ==
    ASSUME TypeOK, NEW c \in Caller, NEW r \in Outcome, Return(c, r)
    PROVE  /\ call'[c].pc = "returned" /\ call'[c].result = r
           /\ call'[c].got = NoSession /\ call'[c].avoid = NoSession
           /\ \A d \in Caller \ {c} : call'[d] = call[d]
  <1>1. call'[c] = [NewCall EXCEPT !.pc = "returned", !.result = r, !.charged = call[c].charged]
    BY DEF Return, TypeOK
  <1>2. \A d \in Caller \ {c} : call'[d] = call[d]
    BY DEF Return, TypeOK
  <1> QED BY <1>1, <1>2 DEF NewCall

LEMMA TryAnotherEffect ==
    ASSUME TypeOK, NEW c \in Caller, TryAnother(c)
    PROVE  /\ call'[c].pc = "session" /\ call'[c].result = NoMessage
           /\ call'[c].got = NoSession /\ call'[c].avoid = call[c].got
           /\ \A d \in Caller \ {c} : call'[d] = call[d]
  <1>1. call'[c] = [call[c] EXCEPT !.avoid = call[c].got, !.got = NoSession, !.id = 0,
                                   !.result = NoMessage, !.pc = "session"]
    BY DEF TryAnother, TypeOK
  <1>2. \A d \in Caller \ {c} : call'[d] = call[d]
    BY DEF TryAnother, TypeOK
  <1> QED BY <1>1, <1>2 DEF TypeOK, CallType

(* Where a call is after each of its steps.                                *)
LEMMA PcAfter ==
    ASSUME TypeOK, NEW c \in Caller
    PROVE  /\ AdmitDenied(c) \/ AdmitRefused(c) \/ GiveUpWaiting(c) => call'[c].pc = "returned"
           /\ Admit(c) \/ Wake(c) => call'[c].pc = "session"
           /\ Register(c) => call'[c].pc \in {"session", "lock"}
           /\ LockWrite(c) => call'[c].pc = "write"
           /\ Flush(c) => call'[c].pc = "flushed"
           /\ WriteOk(c) => call'[c].pc = "await"
           /\ WriteError(c) \/ Await(c) => call'[c].pc = "unregister"
           /\ Unregister(c) => call'[c].pc \in {"session", "returned"}
  <1>0. call[c] \in CallType
    BY DEF TypeOK
  <1>1. AdmitDenied(c) \/ AdmitRefused(c) \/ GiveUpWaiting(c) => call'[c].pc = "returned"
    BY ReturnEffect, MessageTypes DEF AdmitDenied, AdmitRefused, GiveUpWaiting
  <1>2. Admit(c) \/ Wake(c) => call'[c].pc = "session"
    BY <1>0 DEF Admit, Wake, TypeOK, CallType
  <1>3. Register(c) => call'[c].pc \in {"session", "lock"}
    <2>1. ASSUME Register(c), ~TryAnother(c) PROVE call'[c].pc = "lock"
      BY <2>1, <1>0 DEF Register, TypeOK, CallType
    <2> QED BY <2>1, TryAnotherEffect
  <1>4. LockWrite(c) => call'[c].pc = "write"
    BY <1>0 DEF LockWrite, TypeOK, CallType
  <1>5. Flush(c) => call'[c].pc = "flushed"
    BY <1>0 DEF Flush, TypeOK, CallType
  <1>6. WriteOk(c) => call'[c].pc = "await"
    BY <1>0 DEF WriteOk, TypeOK, CallType
  <1>7. WriteError(c) \/ Await(c) => call'[c].pc = "unregister"
    <2>1. WriteError(c) \/ Await(c) =>
            \E r : call' = [call EXCEPT ![c].result = r, ![c].pc = "unregister"]
      BY DEF WriteError, Await
    <2>2. ASSUME NEW r, call' = [call EXCEPT ![c].result = r, ![c].pc = "unregister"]
          PROVE  call'[c].pc = "unregister"
      BY <2>2, <1>0 DEF TypeOK, CallType
    <2> QED BY <2>1, <2>2
  <1>8. Unregister(c) => call'[c].pc \in {"session", "returned"}
    BY <1>0, ReturnEffect, TryAnotherEffect DEF Unregister, CallType
  <1> QED BY <1>1, <1>2, <1>3, <1>4, <1>5, <1>6, <1>7, <1>8

(* What a step of one call leaves alone: the manager, the loop, the other  *)
(* calls, and whether a connection is finished.                            *)
LEMMA CallFrame ==
    ASSUME TypeOK, NEW c \in Caller, CallStep(c) \/ Expire(c)
    PROVE  /\ UNCHANGED <<mgrVars, loopVars, closer>>
           /\ \A d \in Caller \ {c} : call'[d] = call[d]
           /\ \A s \in Session : conn'[s].ended = conn[s].ended /\ conn'[s].done = conn[s].done
  <1>1. CASE AdmitDenied(c) \/ AdmitRefused(c) \/ Admit(c) \/ Expire(c)
    BY <1>1 DEF AdmitDenied, AdmitRefused, Admit, Expire, Return, TypeOK
  <1>2. CASE Snapshot(c) \/ Inspect(c) \/ Wake(c) \/ GiveUpWaiting(c)
    BY <1>2 DEF Snapshot, Inspect, Wake, GiveUpWaiting, Return, TypeOK
  <1>3. CASE Register(c)
    <2>1. UNCHANGED <<mgrVars, loopVars, closer>>
      BY <1>3 DEF Register, loopVars
    <2>2. \A d \in Caller \ {c} : call'[d] = call[d]
      BY <1>3 DEF Register, TryAnother, TypeOK
    <2>3. \A s \in Session : conn'[s].ended = conn[s].ended /\ conn'[s].done = conn[s].done
      <3>1. conn' = conn \/ \E q : conn' = [conn EXCEPT ![call[c].got].box[c] = NoMessage,
                                                       ![call[c].got].pending = q]
        BY <1>3 DEF Register
      <3>2. ASSUME NEW q, conn' = [conn EXCEPT ![call[c].got].box[c] = NoMessage,
                                               ![call[c].got].pending = q]
            PROVE  \A s \in Session :
                      conn'[s].ended = conn[s].ended /\ conn'[s].done = conn[s].done
        BY <3>2 DEF TypeOK, ConnType
      <3> QED BY <3>1, <3>2
    <2> QED BY <2>1, <2>2, <2>3
  <1>4. CASE LockWrite(c) \/ Flush(c) \/ WriteOk(c) \/ WriteError(c)
    <2>1. UNCHANGED <<mgrVars, loopVars, closer>> /\ \A d \in Caller \ {c} : call'[d] = call[d]
      BY <1>4 DEF LockWrite, Flush, WriteOk, WriteError, TypeOK
    <2>2. \A s \in Session : conn'[s].ended = conn[s].ended /\ conn'[s].done = conn[s].done
      <3>1. CASE LockWrite(c)
        BY <3>1 DEF LockWrite, TypeOK, ConnType
      <3>2. CASE Flush(c)
        BY <3>2 DEF Flush, TypeOK, ConnType
      <3>3. CASE WriteOk(c)
        BY <3>3 DEF WriteOk, TypeOK, ConnType
      <3>4. CASE WriteError(c)
        <4>1. PICK b : conn' = [conn EXCEPT ![call[c].got].writer = None, ![call[c].got].broken = b]
          BY <3>4 DEF WriteError
        <4> QED BY <4>1 DEF TypeOK, ConnType
      <3> QED BY <1>4, <3>1, <3>2, <3>3, <3>4
    <2> QED BY <2>1, <2>2
  <1>5. CASE Await(c)
    BY <1>5 DEF Await, TypeOK
  <1>6. CASE Unregister(c)
    <2>1. UNCHANGED <<mgrVars, loopVars, closer>> /\ \A d \in Caller \ {c} : call'[d] = call[d]
      BY <1>6 DEF Unregister, Return, TryAnother, TypeOK
    <2>2. \A s \in Session : conn'[s].ended = conn[s].ended /\ conn'[s].done = conn[s].done
      BY <1>6 DEF Unregister, TypeOK, ConnType
    <2> QED BY <2>1, <2>2
  <1> QED BY <1>1, <1>2, <1>3, <1>4, <1>5, <1>6 DEF CallStep

(* What a broadcast does: every call that holds m.changed is woken.        *)
LEMMA BroadcastEffect ==
    ASSUME TypeOK, Broadcast, NEW c \in Caller
    PROVE  /\ call'[c].woken = (call[c].pc \in {"inspect", "wait"})
           /\ call'[c].pc = call[c].pc /\ call'[c].got = call[c].got
           /\ call'[c].avoid = call[c].avoid /\ call'[c].id = call[c].id
           /\ call'[c].result = call[c].result
  <1>1. call[c] \in CallType
    BY DEF TypeOK
  <1>2. call'[c] = [call[c] EXCEPT !.woken = call[c].pc \in {"inspect", "wait"}]
    BY DEF Broadcast
  <1> QED BY <1>1, <1>2 DEF CallType

(* A step of the loop or of the world outside either broadcasts, or leaves *)
(* the calls, the published connection and m.closed alone.  A connection   *)
(* that has ended stays so.                                                *)
LEMMA LoopFrame ==
    ASSUME TypeInv, LoopStep
    PROVE  /\ closed' = closed /\ closer' = closer /\ nextID' = nextID
           /\ \/ call' = call /\ current' = current
              \/ Broadcast /\ conn' = conn
           /\ \A s \in Session : conn[s].ended => conn'[s].ended
  <1> USE DEF TypeInv
  <1>1. CASE LoopEnds \/ DialFails \/ DialRejected \/ DialOk \/ Backoff \/ Stop
    BY <1>1 DEF LoopEnds, DialFails, DialRejected, DialOk, Backoff, Stop, mgrVars
  <1>2. CASE Publish \/ Clear
    BY <1>2 DEF Publish, Clear, SetSession
  <1>3. CASE ReadReply
    BY <1>3 DEF ReadReply, mgrVars, TypeOK, ConnType
  <1>4. CASE Deliver
    BY <1>4 DEF Deliver, mgrVars, TypeOK, ConnType
  <1>5. CASE ReadError
    <2>1. \A s \in Session : conn'[s].ended = conn[s].ended
      BY <1>5 DEF ReadError, TypeOK, ConnType
    <2> QED BY <1>5, <2>1 DEF ReadError, mgrVars
  <1>6. CASE CloseSession
    <2>1. \A s \in Session : conn'[s].ended = conn[s].ended
      BY <1>6 DEF CloseSession, TypeOK, ConnType
    <2> QED BY <1>6, <2>1 DEF CloseSession, mgrVars
  <1>7. CASE Shutdown
    <2>1. \A s \in Session : conn[s].ended => conn'[s].ended
      BY <1>7 DEF Shutdown, TypeOK, ConnType
    <2> QED BY <1>7, <2>1 DEF Shutdown, mgrVars
  <1> QED BY <1>1, <1>2, <1>3, <1>4, <1>5, <1>6, <1>7 DEF LoopStep

-----------------------------------------------------------------------------
(* No wake-up is lost.                                                     *)

(* The strengthening.  A call that holds a copy of m.changed which is      *)
(* still open holds the current value of m.current, because every change   *)
(* of it, and the closing of the manager, broadcasts; and it sleeps only   *)
(* on a connection it has judged useless, which never becomes useful.      *)
CopyIsCurrent(c) ==
    call[c].pc \in {"inspect", "wait"} /\ ~call[c].woken => ~closed /\ current = call[c].got

Judged(c) ==
    call[c].pc = "wait" =>
        call[c].got \in {NoSession, call[c].avoid} \/ conn[call[c].got].ended

Watchful == \A c \in Caller : CopyIsCurrent(c) /\ Judged(c)

LEMMA CallStepWatchful ==
    ASSUME TypeOK, TypeOK', Watchful, NEW c \in Caller, CallStep(c) \/ Expire(c)
    PROVE  Watchful'
  <1>0. call[c] \in CallType
    BY DEF TypeOK
  <1>1. /\ current' = current /\ closed' = closed
        /\ \A d \in Caller \ {c} : call'[d] = call[d]
        /\ \A s \in Session : conn'[s].ended = conn[s].ended
    BY CallFrame DEF mgrVars
  <1>2. \A d \in Caller \ {c} : CopyIsCurrent(d)' /\ Judged(d)'
    BY <1>1 DEF Watchful, CopyIsCurrent, Judged, TypeOK, CallType
  <1>3. CopyIsCurrent(c)' /\ Judged(c)'
    <2>1. CASE Snapshot(c)
      <3>1. \/ call'[c].pc = "returned"
            \/ call'[c].pc = "inspect" /\ call'[c].got = current /\ ~closed
        <4>1. CASE closed /\ Return(c, Failure("unavailable"))
          <5>1. Failure("unavailable") \in Outcome
            BY MessageTypes
          <5> QED BY <4>1, <5>1, ReturnEffect
        <4>2. CASE ~closed
          BY <2>1, <4>2, <1>0 DEF Snapshot, TypeOK, CallType
        <4> QED BY <2>1, <4>1, <4>2 DEF Snapshot
      <3> QED BY <1>1, <3>1 DEF CopyIsCurrent, Judged
    <2>2. CASE Inspect(c)
      <3>1. \/ call'[c].pc = "register"
            \/ ~Usable(c) /\ call'[c] = [call[c] EXCEPT !.pc = "wait"]
        BY <2>2, <1>0 DEF Inspect, TypeOK, CallType
      <3>2. ASSUME ~Usable(c), call'[c] = [call[c] EXCEPT !.pc = "wait"]
            PROVE  CopyIsCurrent(c)' /\ Judged(c)'
        <4>1. /\ call'[c].pc = "wait" /\ call'[c].woken = call[c].woken
              /\ call'[c].got = call[c].got /\ call'[c].avoid = call[c].avoid
          BY <3>2, <1>0 DEF CallType
        <4>2. CopyIsCurrent(c)'
          BY <4>1, <2>2, <1>1 DEF Inspect, Watchful, CopyIsCurrent
        <4>3. Judged(c)'
          BY <4>1, <3>2, <1>1, <1>0 DEF Usable, Judged, CallType
        <4> QED BY <4>2, <4>3
      <3>3. CASE call'[c].pc = "register"
        BY <3>3 DEF CopyIsCurrent, Judged
      <3> QED BY <3>1, <3>2, <3>3
    <2>3. CASE Expire(c)
      <3>1. /\ call'[c].pc = call[c].pc /\ call'[c].woken = call[c].woken
            /\ call'[c].got = call[c].got /\ call'[c].avoid = call[c].avoid
        BY <2>3, <1>0 DEF Expire, TypeOK, CallType
      <3> QED BY <3>1, <1>1, <1>0 DEF Watchful, CopyIsCurrent, Judged, CallType
    <2>4. CASE call'[c].pc \notin {"inspect", "wait"}
      BY <2>4 DEF CopyIsCurrent, Judged
    <2> QED BY <2>1, <2>2, <2>3, <2>4, PcAfter DEF CallStep
  <1> QED BY <1>2, <1>3 DEF Watchful

LEMMA BroadcastWatchful ==
    ASSUME TypeOK, Watchful, Broadcast, \A s \in Session : conn[s].ended => conn'[s].ended
    PROVE  Watchful'
  <1>1. ASSUME NEW c \in Caller PROVE CopyIsCurrent(c)' /\ Judged(c)'
    <2>1. /\ call'[c].woken = (call[c].pc \in {"inspect", "wait"}) /\ call'[c].pc = call[c].pc
          /\ call'[c].got = call[c].got /\ call'[c].avoid = call[c].avoid
      BY BroadcastEffect
    <2>2. CopyIsCurrent(c)'
      BY <2>1 DEF CopyIsCurrent
    <2>3. Judged(c)'
      BY <2>1 DEF Watchful, Judged, TypeOK, CallType
    <2> QED BY <2>2, <2>3
  <1> QED BY <1>1 DEF Watchful

(* A call sleeping on a channel that is still open is right to sleep: the  *)
(* manager is not closed and publishes no connection the call could use    *)
(* (session against setSession and Close).                                 *)
THEOREM NoWakeupIsLost == Spec => []NoMissedWakeup
  <1>1. Init => TypeInv /\ Watchful
    BY InitInv DEF Init, Watchful, CopyIsCurrent, Judged, NewCall
  <1>2. TypeInv /\ Watchful /\ [Next]_vars => TypeInv' /\ Watchful'
    <2> SUFFICES ASSUME TypeInv, Watchful, [Next]_vars PROVE TypeInv' /\ Watchful'
      OBVIOUS
    <2>0. TypeInv' /\ TypeOK /\ TypeOK'
      BY NextInv DEF TypeInv
    <2>1. ASSUME NEW c \in Caller, CallStep(c) \/ Expire(c) PROVE Watchful'
      BY <2>0, <2>1, CallStepWatchful
    <2>2. CASE LoopStep
      <3>1. CASE call' = call /\ current' = current
        BY <2>0, <2>2, <3>1, LoopFrame DEF Watchful, CopyIsCurrent, Judged, TypeOK, CallType
      <3>2. CASE Broadcast
        BY <2>0, <2>2, <3>2, LoopFrame, BroadcastWatchful
      <3> QED BY <2>2, <3>1, <3>2, LoopFrame
    <2>3. ASSUME NEW k \in Closer, CloseStep(k) PROVE Watchful'
      <3>1. CASE CloseBegin(k) /\ ~closed
        BY <2>0, <3>1, BroadcastWatchful DEF CloseBegin
      <3>2. CASE CloseBegin(k) /\ closed
        BY <3>2 DEF CloseBegin, Watchful, CopyIsCurrent, Judged
      <3>3. CASE CloseCancel(k) \/ CloseReturn(k)
        BY <3>3 DEF CloseCancel, CloseReturn, mgrVars, Watchful, CopyIsCurrent, Judged
      <3> QED BY <2>3, <3>1, <3>2, <3>3 DEF CloseStep
    <2>4. CASE CancelStart \/ UNCHANGED vars
      <3>1. call' = call /\ conn' = conn /\ current' = current /\ closed' = closed
        BY <2>4 DEF CancelStart, vars, mgrVars
      <3>2. ASSUME NEW c \in Caller PROVE CopyIsCurrent(c)' /\ Judged(c)'
        BY <3>1 DEF Watchful, CopyIsCurrent, Judged
      <3> QED BY <2>0, <3>2 DEF Watchful
    <2>5. CASE Drop
      <3>1. \A s \in Session : conn'[s].ended = conn[s].ended
        BY <2>0, <2>5 DEF Drop, TypeOK, ConnType
      <3> QED BY <2>0, <2>5, <3>1
              DEF Drop, mgrVars, Watchful, CopyIsCurrent, Judged, TypeOK, CallType
    <2> QED BY <2>0, <2>1, <2>2, <2>3, <2>4, <2>5 DEF Next, Finished
  <1>3. TypeInv /\ Watchful => NoMissedWakeup
    BY DEF Watchful, CopyIsCurrent, Judged, NoMissedWakeup, NoSession
  <1> QED BY <1>1, <1>2, <1>3, PTL DEF Spec

-----------------------------------------------------------------------------
(* Retries move forward.                                                   *)

(* The strengthening.  The published connection is the youngest or none;   *)
(* so what a call is handed is never older than the connection its last    *)
(* try failed on, and what it uses is younger.                             *)
PublishesYoungest ==
    /\ current \in {NoSession, created}
    /\ loop \in {"top", "backoff", "publish", "exit", "closeDone", "stopped"} => current = NoSession

Forward(c) ==
    /\ call[c].avoid <= created /\ call[c].got <= created
    /\ call[c].got = NoSession \/ call[c].got >= call[c].avoid
    /\ call[c].pc = "register" \/ InFlight(c) => call[c].got > call[c].avoid

Forwards == PublishesYoungest /\ \A c \in Caller : Forward(c)

LEMMA CallNumbers ==
    ASSUME TypeOK, NEW c \in Caller
    PROVE  /\ call[c] \in CallType /\ call[c].got \in 0 .. MaxSession
           /\ call[c].avoid \in 0 .. MaxSession /\ created \in 0 .. MaxSession
  BY SessionAssumption DEF TypeOK, CallType, Session, NoSession

(* The steps of an attempt that stay on its connection.                    *)
LEMMA KeepsPlace ==
    ASSUME TypeOK, NEW c \in Caller,
           \/ Admit(c) \/ Expire(c) \/ LockWrite(c) \/ Flush(c) \/ WriteOk(c) \/ WriteError(c)
           \/ Await(c) \/ (Register(c) /\ ~TryAnother(c))
    PROVE  /\ call'[c].got = call[c].got /\ call'[c].avoid = call[c].avoid
           /\ call'[c].pc = "register" \/ InFlight(c)' => call[c].pc = "register" \/ InFlight(c)
  <1>0. call[c] \in CallType
    BY DEF TypeOK
  <1>1. CASE Admit(c) \/ Expire(c)
    BY <1>0, <1>1 DEF Admit, Expire, TypeOK, CallType, InFlight
  <1>2. CASE LockWrite(c) \/ Flush(c) \/ WriteOk(c)
    BY <1>0, <1>2 DEF LockWrite, Flush, WriteOk, TypeOK, CallType, InFlight
  <1>3. CASE WriteError(c) \/ Await(c)
    <2>1. PICK r : call' = [call EXCEPT ![c].result = r, ![c].pc = "unregister"]
      BY <1>3 DEF WriteError, Await
    <2> QED BY <1>0, <1>3, <2>1 DEF WriteError, Await, TypeOK, CallType, InFlight
  <1>4. CASE Register(c) /\ ~TryAnother(c)
    <2>1. call' = [call EXCEPT ![c].id = FreshID, ![c].pc = "lock"] /\ call[c].pc = "register"
      BY <1>4 DEF Register
    <2> QED BY <1>0, <2>1 DEF TypeOK, CallType
  <1> QED BY <1>1, <1>2, <1>3, <1>4

LEMMA CallStepForwards ==
    ASSUME TypeOK, TypeOK', Forwards, NEW c \in Caller, CallStep(c) \/ Expire(c)
    PROVE  Forwards'
  <1>0. /\ call[c] \in CallType /\ call[c].got \in 0 .. MaxSession
        /\ call[c].avoid \in 0 .. MaxSession /\ created \in 0 .. MaxSession
    BY CallNumbers
  <1>1. /\ current' = current /\ created' = created /\ loop' = loop
        /\ \A d \in Caller \ {c} : call'[d] = call[d]
    BY CallFrame DEF mgrVars, loopVars
  <1>2. PublishesYoungest' /\ \A d \in Caller \ {c} : Forward(d)'
    BY <1>1 DEF Forwards, PublishesYoungest, Forward, InFlight
  <1>f. Forward(c) /\ current \in {NoSession, created}
    BY DEF Forwards, PublishesYoungest
  <1>3. Forward(c)'
    <2>1. CASE \/ Admit(c) \/ Expire(c) \/ LockWrite(c) \/ Flush(c) \/ WriteOk(c) \/ WriteError(c)
               \/ Await(c) \/ (Register(c) /\ ~TryAnother(c))
      BY <1>1, <1>f, <2>1, KeepsPlace DEF Forward
    <2>2. CASE TryAnother(c)
      <3>1. call'[c].pc = "session" /\ call'[c].got = NoSession /\ call'[c].avoid = call[c].got
        BY <2>2, TryAnotherEffect
      <3> QED BY <3>1, <1>0, <1>1, <1>f DEF Forward, InFlight, NoSession
    <2>3. ASSUME NEW r \in Outcome, Return(c, r) PROVE Forward(c)'
      <3>1. call'[c].pc = "returned" /\ call'[c].got = NoSession /\ call'[c].avoid = NoSession
        BY <2>3, ReturnEffect
      <3> QED BY <3>1, <1>0, <1>1 DEF Forward, InFlight, NoSession
    <2>4. CASE AdmitDenied(c) \/ AdmitRefused(c) \/ GiveUpWaiting(c)
      <3>1. PICK k \in {"denied", "budget", "ctx"} : Return(c, Failure(k))
        BY <2>4 DEF AdmitDenied, AdmitRefused, GiveUpWaiting
      <3>2. Failure(k) \in Outcome
        BY MessageTypes
      <3> QED BY <2>3, <3>1, <3>2
    <2>5. CASE Snapshot(c)
      <3>1. Failure("unavailable") \in Outcome
        BY MessageTypes
      <3>2. CASE call' = [call EXCEPT ![c].got = current, ![c].woken = FALSE, ![c].pc = "inspect"]
        <4>1. /\ call'[c].pc = "inspect" /\ call'[c].got = current
              /\ call'[c].avoid = call[c].avoid
          BY <3>2, <1>0 DEF TypeOK, CallType
        <4> QED BY <4>1, <1>0, <1>1, <1>f DEF Forward, InFlight, NoSession
      <3> QED BY <2>3, <2>5, <3>1, <3>2 DEF Snapshot
    <2>6. CASE Inspect(c)
      <3>1. /\ \/ call'[c].pc = "register" /\ Usable(c)
               \/ call'[c].pc = "wait"
            /\ call'[c].got = call[c].got /\ call'[c].avoid = call[c].avoid
        <4>1. CASE Usable(c) /\ call' = [call EXCEPT ![c].woken = FALSE, ![c].pc = "register"]
          BY <4>1, <1>0 DEF TypeOK, CallType
        <4>2. CASE call' = [call EXCEPT ![c].pc = "wait"]
          BY <4>2, <1>0 DEF TypeOK, CallType
        <4> QED BY <2>6, <4>1, <4>2 DEF Inspect
      <3> QED BY <3>1, <1>0, <1>1, <1>f DEF Forward, InFlight, Usable
    <2>7. CASE Wake(c)
      <3>1. /\ call'[c].pc = "session" /\ call'[c].got = NoSession
            /\ call'[c].avoid = call[c].avoid
        BY <2>7, <1>0 DEF Wake, TypeOK, CallType
      <3> QED BY <3>1, <1>0, <1>1, <1>f DEF Forward, InFlight, NoSession
    <2>8. CASE Unregister(c)
      <3>1. call[c].result \in Outcome
        BY <1>0 DEF CallType
      <3> QED BY <2>2, <2>3, <2>8, <3>1 DEF Unregister
    <2> QED BY <2>1, <2>2, <2>4, <2>5, <2>6, <2>7, <2>8 DEF CallStep
  <1> QED BY <1>2, <1>3 DEF Forwards

(* A broadcast moves no call.                                              *)
LEMMA BroadcastForward ==
    ASSUME TypeOK, NEW c \in Caller, Forward(c), created' = created, Broadcast
    PROVE  Forward(c)'
  BY BroadcastEffect DEF Forward, InFlight

LEMMA LoopStepForwards ==
    ASSUME TypeInv, Forwards, LoopStep
    PROVE  Forwards'
  <1>0. TypeOK /\ \A c \in Caller : Forward(c)
    BY DEF TypeInv, Forwards
  <1>1. CASE Publish \/ Clear
    <2>1. Broadcast /\ created' = created
      BY <1>1 DEF Publish, Clear, SetSession
    <2>2. \A c \in Caller : Forward(c)'
      BY <1>0, <2>1, BroadcastForward
    <2>3. PublishesYoungest'
      BY <1>1 DEF Publish, Clear, SetSession, PublishesYoungest
    <2> QED BY <2>2, <2>3 DEF Forwards
  <1>2. CASE DialOk
    <2>1. call' = call /\ created' = created + 1
      BY <1>2 DEF DialOk
    <2>2. ASSUME NEW c \in Caller PROVE Forward(c)'
      <3>1. /\ call[c].got \in 0 .. MaxSession /\ call[c].avoid \in 0 .. MaxSession
            /\ created \in 0 .. MaxSession
        BY <1>0, CallNumbers
      <3> QED BY <1>0, <2>1, <3>1 DEF Forward, InFlight
    <2>3. PublishesYoungest'
      BY <1>2 DEF DialOk, mgrVars, Forwards, PublishesYoungest
    <2> QED BY <2>2, <2>3 DEF Forwards
  <1>3. CASE \/ LoopEnds \/ DialFails \/ DialRejected \/ Backoff \/ ReadReply \/ Deliver
             \/ ReadError \/ Shutdown \/ CloseSession \/ Stop
    <2>1. call' = call /\ created' = created /\ current' = current
      BY <1>3 DEF LoopEnds, DialFails, DialRejected, Backoff, ReadReply, Deliver, ReadError,
                  Shutdown, CloseSession, Stop, mgrVars
    <2>2. \A c \in Caller : Forward(c)'
      BY <1>0, <2>1 DEF Forward, InFlight
    <2>3. PublishesYoungest'
      BY <1>3, <2>1 DEF LoopEnds, DialFails, DialRejected, Backoff, ReadReply, Deliver, ReadError,
                        Shutdown, CloseSession, Stop, Forwards, PublishesYoungest
    <2> QED BY <2>2, <2>3 DEF Forwards
  <1> QED BY <1>1, <1>2, <1>3 DEF LoopStep

LEMMA InitForwards == Init => Forwards
  <1> SUFFICES ASSUME Init PROVE Forwards
    OBVIOUS
  <1>1. \A c \in Caller : call[c] = NewCall
    BY DEF Init
  <1> QED BY <1>1 DEF Init, Forwards, PublishesYoungest, Forward, NewCall, InFlight, NoSession

LEMMA NextForwards == TypeInv /\ Forwards /\ [Next]_vars => Forwards'
  <1> SUFFICES ASSUME TypeInv, Forwards, [Next]_vars PROVE Forwards'
    OBVIOUS
  <1>0. TypeOK /\ TypeOK'
    BY NextInv DEF TypeInv
  <1>1. ASSUME NEW c \in Caller, CallStep(c) \/ Expire(c) PROVE Forwards'
    BY <1>0, <1>1, CallStepForwards
  <1>2. CASE LoopStep
    BY <1>2, LoopStepForwards
  <1>3. CASE (\E k \in Closer : CloseStep(k)) \/ CancelStart \/ Drop \/ UNCHANGED vars
    <2>1. /\ current' = current /\ created' = created /\ loop' = loop
          /\ call' = call \/ Broadcast
      BY <1>3 DEF CloseStep, CloseBegin, CloseCancel, CloseReturn, CancelStart, Drop, vars,
                  mgrVars, loopVars
    <2>2. ASSUME NEW c \in Caller PROVE Forward(c)'
      BY <1>0, <2>1, BroadcastForward DEF Forwards, Forward, InFlight
    <2> QED BY <2>1, <2>2 DEF Forwards, PublishesYoungest
  <1> QED BY <1>1, <1>2, <1>3 DEF Next, Finished

(* A retry is always made on a connection younger than the one that        *)
(* failed: Call cannot spin on a connection the loop has not yet given up. *)
THEOREM RetriesMoveForward == Spec => []RetryMovesForward
  <1>1. TypeInv /\ Forwards => RetryMovesForward
    BY DEF Forwards, Forward, RetryMovesForward
  <1> QED BY InitInv, NextInv, InitForwards, NextForwards, <1>1, PTL DEF Spec

-----------------------------------------------------------------------------
(* Replies never cross, and slots belong to calls in flight.               *)

(* The strengthening.  Ids of calls in flight are below the counter and    *)
(* told apart; a frame with the id of a call in flight is that call's; so  *)
(* is a slot with its id, which lies on the connection the call uses; and  *)
(* every reply on its way, in the loop's hand, in a channel or taken from  *)
(* it, is with the call that sent its command.                             *)
IdsApart ==
    /\ \A c \in Caller : InFlight(c) => call[c].id <= nextID
    /\ \A c, d \in Caller : InFlight(c) /\ InFlight(d) /\ call[c].id = call[d].id => c = d

WireOwned ==
    \A s \in Session : \A n \in DOMAIN conn[s].wire :
        /\ conn[s].wire[n].id <= nextID
        /\ \A c \in Caller : InFlight(c) /\ call[c].id = conn[s].wire[n].id
                               => conn[s].wire[n].from = c

RepliesHome ==
    /\ \A m \in hand : m[2].kind = "reply" => m[2].from = m[1]
    /\ \A s \in Session, c \in Caller :
          conn[s].box[c].kind = "reply" => conn[s].box[c].from = c
    /\ RepliesNeverCross

Owned == IdsApart /\ WireOwned /\ SlotsOwned /\ RepliesHome

LEMMA WireTypes ==
    ASSUME TypeOK, NEW s \in Session, NEW n \in DOMAIN conn[s].wire
    PROVE  conn[s].wire[n].id \in Nat /\ conn[s].wire[n].from \in Caller
  <1>1. conn[s].wire \in Seq([id : Nat, from : Caller])
    BY DEF TypeOK, ConnType
  <1>2. n \in 1 .. Len(conn[s].wire)
    BY <1>1
  <1>3. conn[s].wire[n] \in [id : Nat, from : Caller]
    BY <1>1, <1>2, ElementOfSeq
  <1> QED BY <1>3

(* A step that neither takes an id, nor moves a frame, a slot or a reply,  *)
(* nor starts or ends an attempt.                                          *)
LEMMA QuietStep ==
    ASSUME TypeOK, TypeOK', Owned, nextID <= nextID', hand' = hand,
           \A s \in Session :
              /\ conn'[s].pending = conn[s].pending /\ conn'[s].wire = conn[s].wire
              /\ conn'[s].box = conn[s].box /\ conn'[s].ended = conn[s].ended,
           \A c \in Caller :
              /\ InFlight(c)' <=> InFlight(c)
              /\ InFlight(c) => call'[c].id = call[c].id /\ call'[c].got = call[c].got
              /\ call'[c].result.kind = "reply" => call'[c].result.from = c
    PROVE  Owned'
  <1>0. nextID \in Nat /\ nextID' \in Nat /\ \A c \in Caller : call[c].id \in Nat
    BY DEF TypeOK, CallType
  <1>1. IdsApart'
    BY <1>0 DEF Owned, IdsApart
  <1>2. WireOwned'
    <2> SUFFICES ASSUME NEW s \in Session, NEW n \in DOMAIN conn'[s].wire
                 PROVE  /\ conn'[s].wire[n].id <= nextID'
                        /\ \A c \in Caller : InFlight(c)' /\ call'[c].id = conn'[s].wire[n].id
                                               => conn'[s].wire[n].from = c
      BY DEF WireOwned
    <2>2. conn'[s].wire = conn[s].wire /\ n \in DOMAIN conn[s].wire
      OBVIOUS
    <2>3. conn[s].wire[n].id <= nextID /\ conn[s].wire[n].id \in Nat
      BY <2>2, WireTypes DEF Owned, WireOwned
    <2> QED BY <1>0, <2>2, <2>3 DEF Owned, WireOwned
  <1>3. SlotsOwned'
    <2>1. ASSUME NEW s \in Session
          PROVE  /\ conn'[s].ended => conn'[s].pending = {}
                 /\ \A p \in conn'[s].pending :
                       InFlight(p[2])' /\ call'[p[2]].got = s /\ call'[p[2]].id = p[1]
      <3>1. conn[s].pending \subseteq Nat \X Caller
        BY DEF TypeOK, ConnType
      <3>2. ASSUME NEW p \in conn[s].pending
            PROVE  InFlight(p[2])' /\ call'[p[2]].got = s /\ call'[p[2]].id = p[1]
        <4>1. p[2] \in Caller
          BY <3>1
        <4>2. InFlight(p[2]) /\ call[p[2]].got = s /\ call[p[2]].id = p[1]
          BY DEF Owned, SlotsOwned
        <4> QED BY <4>1, <4>2
      <3> QED BY <3>2 DEF Owned, SlotsOwned
    <2> QED BY <2>1 DEF SlotsOwned
  <1>4. RepliesHome'
    BY DEF Owned, RepliesHome, RepliesNeverCross
  <1> QED BY <1>1, <1>2, <1>3, <1>4 DEF Owned

(* A call in an attempt is on a connection.                                *)
LEMMA OnSession ==
    ASSUME TypeOK, Forwards, NEW c \in Caller, call[c].pc = "register" \/ InFlight(c)
    PROVE  call[c].got \in Session
  BY CallNumbers, SessionAssumption DEF Forwards, Forward, Session

(* What the steps of a call do to the connections: most move no frame, no  *)
(* slot and no reply; a registration opens a slot and an empty channel, a  *)
(* flush adds a frame, and the end of an attempt takes slot and channel    *)
(* away.                                                                   *)
LEMMA QuietConn ==
    ASSUME TypeOK, NEW c \in Caller,
           ~Register(c), ~Flush(c), ~Unregister(c), CallStep(c) \/ Expire(c)
    PROVE  \A s \in Session :
              /\ conn'[s].pending = conn[s].pending /\ conn'[s].wire = conn[s].wire
              /\ conn'[s].box = conn[s].box /\ conn'[s].ended = conn[s].ended
  <1>1. CASE conn' = conn
    BY <1>1
  <1>2. CASE LockWrite(c)
    BY <1>2 DEF LockWrite, TypeOK, ConnType
  <1>3. CASE WriteOk(c)
    BY <1>3 DEF WriteOk, TypeOK, ConnType
  <1>4. CASE WriteError(c)
    <2>1. PICK b : conn' = [conn EXCEPT ![call[c].got].writer = None, ![call[c].got].broken = b]
      BY <1>4 DEF WriteError
    <2> QED BY <2>1 DEF TypeOK, ConnType
  <1> QED BY <1>1, <1>2, <1>3, <1>4
          DEF CallStep, AdmitDenied, AdmitRefused, Admit, Snapshot, Inspect, Wake, GiveUpWaiting,
              Await, Expire

LEMMA RegisterConn ==
    ASSUME TypeOK, NEW c \in Caller, call[c].got \in Session,
           conn' = [conn EXCEPT ![call[c].got].box[c] = NoMessage,
                       ![call[c].got].pending = {p \in @ : p[1] # FreshID} \cup {<<FreshID, c>>}]
    PROVE  /\ \A t \in Session \ {call[c].got} : conn'[t] = conn[t]
           /\ conn'[call[c].got].wire = conn[call[c].got].wire
           /\ conn'[call[c].got].ended = conn[call[c].got].ended
           /\ \A d \in Caller : conn'[call[c].got].box[d] =
                                  IF d = c THEN NoMessage ELSE conn[call[c].got].box[d]
           /\ \A p \in conn'[call[c].got].pending :
                 p \in conn[call[c].got].pending \/ p = <<FreshID, c>>
  <1> DEFINE s     == call[c].got
             slots == {p \in conn[s].pending : p[1] # FreshID} \cup {<<FreshID, c>>}
             box   == [conn[s].box EXCEPT ![c] = NoMessage]
             k     == [conn[s] EXCEPT !.box = box, !.pending = slots]
  <1>1. conn[s] \in ConnType /\ conn'[s] = k
    BY DEF TypeOK, ConnType
  <1>2. \A p \in slots : p \in conn[s].pending \/ p = <<FreshID, c>>
    OBVIOUS
  <1>3. \A d \in Caller : box[d] = IF d = c THEN NoMessage ELSE conn[s].box[d]
    BY <1>1 DEF ConnType
  <1>4. \A t \in Session \ {s} : conn'[t] = conn[t]
    BY DEF TypeOK
  <1> HIDE DEF slots, box
  <1>5. /\ k.wire = conn[s].wire /\ k.ended = conn[s].ended
        /\ k.box = box /\ k.pending = slots
    BY <1>1 DEF ConnType
  <1> HIDE DEF k
  <1> QED BY <1>1, <1>2, <1>3, <1>4, <1>5

LEMMA UnregisterConn ==
    ASSUME TypeOK, NEW c \in Caller, call[c].got \in Session, Unregister(c)
    PROVE  /\ \A t \in Session \ {call[c].got} : conn'[t] = conn[t]
           /\ conn'[call[c].got].wire = conn[call[c].got].wire
           /\ conn'[call[c].got].ended = conn[call[c].got].ended
           /\ \A d \in Caller : conn'[call[c].got].box[d] =
                                  IF d = c THEN NoMessage ELSE conn[call[c].got].box[d]
           /\ conn'[call[c].got].pending =
                 {p \in conn[call[c].got].pending : p[1] # call[c].id}
  <1> DEFINE s   == call[c].got
             box == [conn[s].box EXCEPT ![c] = NoMessage]
  <1>1. conn[s] \in ConnType
    BY DEF TypeOK
  <1>2. \A t \in Session \ {s} : conn'[t] = conn[t]
    BY DEF Unregister, TypeOK
  <1>3. /\ conn'[s].wire = conn[s].wire /\ conn'[s].ended = conn[s].ended
        /\ conn'[s].box = box
        /\ conn'[s].pending = {p \in conn[s].pending : p[1] # call[c].id}
    BY <1>1 DEF Unregister, TypeOK, ConnType
  <1>4. \A d \in Caller : box[d] = IF d = c THEN NoMessage ELSE conn[s].box[d]
    BY <1>1 DEF ConnType
  <1> HIDE DEF box
  <1> QED BY <1>2, <1>3, <1>4

LEMMA FlushConn ==
    ASSUME TypeOK, NEW c \in Caller, call[c].got \in Session, Flush(c)
    PROVE  \A t \in Session :
              /\ conn'[t].pending = conn[t].pending /\ conn'[t].box = conn[t].box
              /\ conn'[t].ended = conn[t].ended
              /\ conn'[t].wire =
                    IF t = call[c].got
                    THEN Append(conn[t].wire, [id |-> call[c].id, from |-> c])
                    ELSE conn[t].wire
  BY DEF Flush, TypeOK, ConnType

LEMMA QuietCallSteps ==
    ASSUME TypeOK, TypeOK', Forwards, Owned, NEW c \in Caller,
           ~Register(c), ~Flush(c), ~Unregister(c), CallStep(c) \/ Expire(c)
    PROVE  Owned'
  <1>0. call[c] \in CallType
    BY DEF TypeOK
  <1>f. hand' = hand /\ \A d \in Caller \ {c} : call'[d] = call[d]
    BY CallFrame DEF loopVars
  <1>n. nextID <= nextID'
    <2>1. nextID' = nextID
      BY DEF CallStep, AdmitDenied, AdmitRefused, Admit, Snapshot, Inspect, Wake, GiveUpWaiting,
             LockWrite, WriteOk, WriteError, Await, Expire
    <2> QED BY <2>1 DEF TypeOK
  <1>w. \A s \in Session :
           /\ conn'[s].pending = conn[s].pending /\ conn'[s].wire = conn[s].wire
           /\ conn'[s].box = conn[s].box /\ conn'[s].ended = conn[s].ended
    BY QuietConn
  <1>r. call[c].result.kind = "reply" => call[c].result.from = c
    BY DEF Owned, RepliesHome, RepliesNeverCross
  <1>c. /\ InFlight(c)' <=> InFlight(c)
        /\ InFlight(c) => call'[c].id = call[c].id /\ call'[c].got = call[c].got
        /\ call'[c].result.kind = "reply" => call'[c].result.from = c
    <2>1. CASE AdmitDenied(c) \/ AdmitRefused(c) \/ GiveUpWaiting(c)
      <3>1. \E k \in {"denied", "budget", "ctx"} : Return(c, Failure(k))
        BY <2>1 DEF AdmitDenied, AdmitRefused, GiveUpWaiting
      <3>2. PICK k \in {"denied", "budget", "ctx"} : Return(c, Failure(k))
        BY <3>1
      <3>3. Failure(k) \in Outcome
        BY MessageTypes
      <3>4. call'[c].pc = "returned" /\ call'[c].result = Failure(k)
        BY <3>2, <3>3, ReturnEffect
      <3> QED BY <2>1, <3>4 DEF AdmitDenied, AdmitRefused, GiveUpWaiting, InFlight, Failure
    <2>2. CASE Admit(c) \/ Wake(c)
      <3>1. call'[c].pc = "session" /\ call'[c].result = call[c].result
        BY <2>2, <1>0 DEF Admit, Wake, TypeOK, CallType
      <3> QED BY <2>2, <3>1, <1>r DEF Admit, Wake, InFlight
    <2>3. CASE Snapshot(c)
      <3>1. CASE Return(c, Failure("unavailable"))
        <4>1. Failure("unavailable") \in Outcome
          BY MessageTypes
        <4>2. call'[c].pc = "returned" /\ call'[c].result = Failure("unavailable")
          BY <3>1, <4>1, ReturnEffect
        <4> QED BY <2>3, <4>2 DEF Snapshot, InFlight, Failure
      <3>2. CASE call' = [call EXCEPT ![c].got = current, ![c].woken = FALSE, ![c].pc = "inspect"]
        <4>1. call'[c].pc = "inspect" /\ call'[c].result = call[c].result
          BY <3>2, <1>0 DEF TypeOK, CallType
        <4> QED BY <2>3, <4>1, <1>r DEF Snapshot, InFlight
      <3> QED BY <2>3, <3>1, <3>2 DEF Snapshot
    <2>4. CASE Inspect(c)
      <3>1. call'[c].pc \in {"register", "wait"} /\ call'[c].result = call[c].result
        BY <2>4, <1>0 DEF Inspect, TypeOK, CallType
      <3> QED BY <2>4, <3>1, <1>r DEF Inspect, InFlight
    <2>5. CASE LockWrite(c) \/ WriteOk(c)
      <3>1. /\ call'[c].pc \in {"write", "await"} /\ call'[c].result = call[c].result
            /\ call'[c].id = call[c].id /\ call'[c].got = call[c].got
        BY <2>5, <1>0 DEF LockWrite, WriteOk, TypeOK, CallType
      <3> QED BY <2>5, <3>1, <1>r DEF LockWrite, WriteOk, InFlight
    <2>6. CASE WriteError(c) \/ Await(c)
      <3>1. PICK r : /\ call' = [call EXCEPT ![c].result = r, ![c].pc = "unregister"]
                     /\ r.kind = "reply" => r.from = c
        <4>1. CASE WriteError(c)
          <5>1. call' = [call EXCEPT ![c].result = WriteFailure(c), ![c].pc = "unregister"]
            BY <4>1 DEF WriteError
          <5>2. WriteFailure(c).kind # "reply"
            BY DEF WriteFailure, Failure
          <5> QED BY <5>1, <5>2
        <4>2. CASE Await(c)
          <5>1. PICK r \in Outcome :
                  /\ \/ r = conn[call[c].got].box[c] /\ r # NoMessage
                     \/ r = ConnectionClosed /\ conn[call[c].got].done
                     \/ r = Failure("ctx") /\ call[c].expired
                  /\ call' = [call EXCEPT ![c].result = r, ![c].pc = "unregister"]
            BY <4>2 DEF Await
          <5>2. call[c].got \in Session
            BY <4>2, OnSession DEF Await, InFlight
          <5>3. r.kind = "reply" => r.from = c
            BY <5>1, <5>2 DEF Owned, RepliesHome, ConnectionClosed, Failure
          <5> QED BY <5>1, <5>3
        <4> QED BY <2>6, <4>1, <4>2
      <3>2. /\ call'[c].pc = "unregister" /\ call'[c].result = r
            /\ call'[c].id = call[c].id /\ call'[c].got = call[c].got
        BY <3>1, <1>0 DEF TypeOK, CallType
      <3> QED BY <2>6, <3>1, <3>2 DEF WriteError, Await, InFlight
    <2>7. CASE Expire(c)
      <3>1. /\ call'[c].pc = call[c].pc /\ call'[c].result = call[c].result
            /\ call'[c].id = call[c].id /\ call'[c].got = call[c].got
        BY <2>7, <1>0 DEF Expire, TypeOK, CallType
      <3> QED BY <3>1, <1>r DEF InFlight
    <2> QED BY <2>1, <2>2, <2>3, <2>4, <2>5, <2>6, <2>7 DEF CallStep
  <1>d. ASSUME NEW d \in Caller
        PROVE  /\ InFlight(d)' <=> InFlight(d)
               /\ InFlight(d) => call'[d].id = call[d].id /\ call'[d].got = call[d].got
               /\ call'[d].result.kind = "reply" => call'[d].result.from = d
    <2>1. CASE d = c
      BY <1>c, <2>1
    <2>2. CASE d # c
      BY <1>f, <2>2 DEF InFlight, Owned, RepliesHome, RepliesNeverCross
    <2> QED BY <2>1, <2>2
  <1> QED BY <1>d, <1>f, <1>n, <1>w, QuietStep

LEMMA RegisterOwned ==
    ASSUME TypeOK, TypeOK', Forwards, Owned, NEW c \in Caller, Register(c)
    PROVE  Owned'
  <1> DEFINE s == call[c].got
  <1>0. /\ call[c] \in CallType /\ s \in Session /\ nextID \in Nat /\ nextID' = nextID + 1
        /\ FreshID = nextID + 1 /\ ~InFlight(c) /\ hand' = hand
    BY OnSession DEF Register, FreshID, TypeOK, InFlight, loopVars
  <1>1. CASE TryAnother(c) /\ conn' = conn
    <2>1. /\ call'[c].pc = "session" /\ call'[c].result = NoMessage
          /\ \A d \in Caller \ {c} : call'[d] = call[d]
      BY <1>1, TryAnotherEffect
    <2>2. ASSUME NEW d \in Caller
          PROVE  /\ InFlight(d)' <=> InFlight(d)
                 /\ InFlight(d) => call'[d].id = call[d].id /\ call'[d].got = call[d].got
                 /\ call'[d].result.kind = "reply" => call'[d].result.from = d
      BY <1>0, <2>1 DEF InFlight, NoMessage, Failure, Owned, RepliesHome, RepliesNeverCross
    <2> QED BY <1>0, <1>1, <2>2, QuietStep
  <1>2. CASE /\ Accepts(s)
             /\ conn' = [conn EXCEPT ![s].box[c] = NoMessage,
                          ![s].pending = {p \in @ : p[1] # FreshID} \cup {<<FreshID, c>>}]
             /\ call' = [call EXCEPT ![c].id = FreshID, ![c].pc = "lock"]
    <2>1. /\ InFlight(c)' /\ call'[c].id = FreshID /\ call'[c].got = s
          /\ call'[c].result = call[c].result
      BY <1>0, <1>2 DEF TypeOK, CallType, InFlight
    <2>2. \A d \in Caller \ {c} : call'[d] = call[d]
      BY <1>2 DEF TypeOK
    <2>4. /\ \A t \in Session \ {s} : conn'[t] = conn[t]
          /\ conn'[s].wire = conn[s].wire /\ conn'[s].ended = conn[s].ended
          /\ \A d \in Caller : conn'[s].box[d] = IF d = c THEN NoMessage ELSE conn[s].box[d]
          /\ \A p \in conn'[s].pending : p \in conn[s].pending \/ p = <<FreshID, c>>
      BY <1>0, <1>2, RegisterConn
    <2>5. \A d \in Caller : InFlight(d) => call[d].id <= nextID /\ call[d].id \in Nat
      BY DEF Owned, IdsApart, TypeOK, CallType
    <2>6. IdsApart'
      <3>1. \A d \in Caller \ {c} : InFlight(d)' => InFlight(d) /\ call'[d].id = call[d].id
        BY <2>2 DEF InFlight
      <3> QED BY <1>0, <2>1, <2>5, <3>1 DEF Owned, IdsApart
    <2>7. WireOwned'
      <3> SUFFICES ASSUME NEW t \in Session, NEW n \in DOMAIN conn'[t].wire
                   PROVE  /\ conn'[t].wire[n].id <= nextID'
                          /\ \A d \in Caller : InFlight(d)' /\ call'[d].id = conn'[t].wire[n].id
                                                 => conn'[t].wire[n].from = d
        BY DEF WireOwned
      <3>1. conn'[t].wire = conn[t].wire
        BY <2>4
      <3>2. conn[t].wire[n].id \in Nat /\ conn[t].wire[n].id <= nextID
        BY <3>1, WireTypes DEF Owned, WireOwned
      <3>3. \A d \in Caller \ {c} : InFlight(d)' => InFlight(d) /\ call'[d].id = call[d].id
        BY <2>2 DEF InFlight
      <3> QED BY <1>0, <2>1, <3>1, <3>2, <3>3 DEF Owned, WireOwned
    <2>8. SlotsOwned'
      <3> SUFFICES ASSUME NEW t \in Session
                   PROVE  /\ conn'[t].ended => conn'[t].pending = {}
                          /\ \A p \in conn'[t].pending :
                                InFlight(p[2])' /\ call'[p[2]].got = t /\ call'[p[2]].id = p[1]
        BY DEF SlotsOwned
      <3>1. ASSUME NEW p \in conn[t].pending
            PROVE  InFlight(p[2])' /\ call'[p[2]].got = t /\ call'[p[2]].id = p[1]
        <4>1. p[2] \in Caller
          BY DEF TypeOK, ConnType
        <4>2. InFlight(p[2]) /\ call[p[2]].got = t /\ call[p[2]].id = p[1]
          BY DEF Owned, SlotsOwned
        <4> QED BY <1>0, <2>2, <4>1, <4>2 DEF InFlight
      <3>2. CASE t # s
        BY <2>4, <3>1, <3>2 DEF Owned, SlotsOwned
      <3>3. CASE t = s
        <4>1. \A p \in conn'[t].pending :
                 InFlight(p[2])' /\ call'[p[2]].got = t /\ call'[p[2]].id = p[1]
          BY <2>1, <2>4, <3>1, <3>3
        <4>2. ~conn'[t].ended
          BY <1>2, <2>4, <3>3 DEF Accepts
        <4> QED BY <4>1, <4>2
      <3> QED BY <3>2, <3>3
    <2>9. RepliesHome'
      <3>1. \A t \in Session, d \in Caller :
               conn'[t].box[d].kind = "reply" => conn'[t].box[d].from = d
        <4> SUFFICES ASSUME NEW t \in Session, NEW d \in Caller, conn'[t].box[d].kind = "reply"
                     PROVE  conn'[t].box[d].from = d
          OBVIOUS
        <4>1. conn'[t].box[d] = NoMessage \/ conn'[t].box[d] = conn[t].box[d]
          BY <2>4
        <4>2. conn'[t].box[d] = conn[t].box[d]
          BY <4>1 DEF NoMessage, Failure
        <4> QED BY <4>2 DEF Owned, RepliesHome
      <3>2. RepliesNeverCross'
        BY <2>1, <2>2 DEF Owned, RepliesHome, RepliesNeverCross
      <3> QED BY <1>0, <3>1, <3>2 DEF Owned, RepliesHome
    <2> QED BY <2>6, <2>7, <2>8, <2>9 DEF Owned
  <1> QED BY <1>1, <1>2 DEF Register

LEMMA FlushOwned ==
    ASSUME TypeOK, TypeOK', Forwards, Owned, NEW c \in Caller, Flush(c)
    PROVE  Owned'
  <1> DEFINE s == call[c].got
             f == [id |-> call[c].id, from |-> c]
  <1>0. /\ call[c] \in CallType /\ s \in Session /\ nextID' = nextID /\ hand' = hand
        /\ InFlight(c) /\ conn[s].wire \in Seq([id : Nat, from : Caller])
    BY OnSession DEF Flush, TypeOK, ConnType, InFlight, loopVars
  <1>1. /\ \A d \in Caller : /\ InFlight(d)' <=> InFlight(d)
                             /\ call'[d].id = call[d].id /\ call'[d].got = call[d].got
                             /\ call'[d].result = call[d].result
    BY <1>0 DEF Flush, TypeOK, CallType, InFlight
  <1>2. \A t \in Session : /\ conn'[t].pending = conn[t].pending /\ conn'[t].box = conn[t].box
                           /\ conn'[t].ended = conn[t].ended
                           /\ conn'[t].wire = IF t = s THEN Append(conn[s].wire, f) ELSE conn[t].wire
    BY <1>0, FlushConn
  <1>3. IdsApart'
    BY <1>0, <1>1 DEF Owned, IdsApart
  <1>4. WireOwned'
    <2> SUFFICES ASSUME NEW t \in Session, NEW n \in DOMAIN conn'[t].wire
                 PROVE  /\ conn'[t].wire[n].id <= nextID
                        /\ \A d \in Caller : InFlight(d) /\ call[d].id = conn'[t].wire[n].id
                                               => conn'[t].wire[n].from = d
      BY <1>0, <1>1 DEF WireOwned
    <2>1. CASE n \in DOMAIN conn[t].wire /\ conn'[t].wire[n] = conn[t].wire[n]
      BY <2>1 DEF Owned, WireOwned
    <2>2. CASE t = s /\ conn'[t].wire[n] = f
      BY <1>0, <2>2 DEF Owned, IdsApart
    <2>3. CASE t # s
      BY <1>2, <2>1, <2>3
    <2>4. CASE t = s
      <3>1. conn'[t].wire = Append(conn[s].wire, f) /\ f \in [id : Nat, from : Caller]
        BY <1>0, <1>2, <2>4 DEF CallType
      <3>2. ASSUME NEW S, NEW w \in Seq(S), NEW e \in S, NEW k \in DOMAIN Append(w, e)
            PROVE  \/ Append(w, e)[k] = e
                   \/ k \in DOMAIN w /\ Append(w, e)[k] = w[k]
        OBVIOUS
      <3>3. \/ conn'[t].wire[n] = f
            \/ n \in DOMAIN conn[s].wire /\ conn'[t].wire[n] = conn[s].wire[n]
        <4> HIDE DEF f
        <4> QED BY <1>0, <3>1, <3>2
      <3> QED BY <2>1, <2>2, <2>4, <3>3
    <2> QED BY <2>3, <2>4
  <1>5. SlotsOwned'
    <2> SUFFICES ASSUME NEW t \in Session
                 PROVE  /\ conn'[t].ended => conn'[t].pending = {}
                        /\ \A p \in conn'[t].pending :
                              InFlight(p[2])' /\ call'[p[2]].got = t /\ call'[p[2]].id = p[1]
      BY DEF SlotsOwned
    <2>1. conn'[t].ended => conn'[t].pending = {}
      BY <1>2 DEF Owned, SlotsOwned
    <2>2. ASSUME NEW p \in conn[t].pending
          PROVE  InFlight(p[2])' /\ call'[p[2]].got = t /\ call'[p[2]].id = p[1]
      <3>1. p[2] \in Caller
        BY DEF TypeOK, ConnType
      <3>2. InFlight(p[2]) /\ call[p[2]].got = t /\ call[p[2]].id = p[1]
        BY DEF Owned, SlotsOwned
      <3> QED BY <1>1, <3>1, <3>2
    <2> QED BY <1>2, <2>1, <2>2
  <1>6. RepliesHome'
    <2>1. \A t \in Session, d \in Caller :
             conn'[t].box[d].kind = "reply" => conn'[t].box[d].from = d
      <3> SUFFICES ASSUME NEW t \in Session, NEW d \in Caller
                   PROVE  conn'[t].box[d].kind = "reply" => conn'[t].box[d].from = d
        OBVIOUS
      <3>1. conn'[t].box = conn[t].box
        BY <1>2
      <3> QED BY <3>1 DEF Owned, RepliesHome
    <2>2. RepliesNeverCross'
      BY <1>1 DEF Owned, RepliesHome, RepliesNeverCross
    <2> QED BY <1>0, <2>1, <2>2 DEF Owned, RepliesHome
  <1> QED BY <1>3, <1>4, <1>5, <1>6 DEF Owned

LEMMA UnregisterOwned ==
    ASSUME TypeOK, TypeOK', Forwards, Owned, NEW c \in Caller, Unregister(c)
    PROVE  Owned'
  <1> DEFINE s == call[c].got
  <1>0. /\ call[c] \in CallType /\ s \in Session /\ nextID' = nextID /\ hand' = hand
        /\ conn[s] \in ConnType
    BY OnSession DEF Unregister, TypeOK, InFlight, loopVars
  <1>1. /\ call'[c].pc \in {"session", "returned"}
        /\ call'[c].result \in {NoMessage, call[c].result}
        /\ \A d \in Caller \ {c} : call'[d] = call[d]
    <2>1. call[c].result \in Outcome
      BY <1>0 DEF CallType
    <2> QED BY <2>1, ReturnEffect, TryAnotherEffect DEF Unregister
  <1>2. \A t \in Session \ {s} : conn'[t] = conn[t]
    BY <1>0, UnregisterConn
  <1>3. /\ conn'[s].wire = conn[s].wire /\ conn'[s].ended = conn[s].ended
        /\ \A d \in Caller : conn'[s].box[d] = IF d = c THEN NoMessage ELSE conn[s].box[d]
        /\ conn'[s].pending = {p \in conn[s].pending : p[1] # call[c].id}
    BY <1>0, UnregisterConn
  <1>4. ~InFlight(c)' /\ \A d \in Caller \ {c} : InFlight(d)' <=> InFlight(d)
    BY <1>1 DEF InFlight
  <1>5. IdsApart'
    BY <1>0, <1>1, <1>4 DEF Owned, IdsApart
  <1>6. WireOwned'
    BY <1>0, <1>1, <1>2, <1>3, <1>4 DEF Owned, WireOwned
  <1>7. SlotsOwned'
    <2> SUFFICES ASSUME NEW t \in Session
                 PROVE  /\ conn'[t].ended => conn'[t].pending = {}
                        /\ \A p \in conn'[t].pending :
                              InFlight(p[2])' /\ call'[p[2]].got = t /\ call'[p[2]].id = p[1]
      BY DEF SlotsOwned
    <2>1. conn'[t].ended => conn'[t].pending = {}
      BY <1>2, <1>3 DEF Owned, SlotsOwned
    <2>2. ASSUME NEW p \in conn'[t].pending
          PROVE  InFlight(p[2])' /\ call'[p[2]].got = t /\ call'[p[2]].id = p[1]
      <3>1. p \in conn[t].pending /\ (t = s => p[1] # call[c].id)
        BY <1>2, <1>3
      <3>2. p[2] \in Caller
        BY <3>1 DEF TypeOK, ConnType
      <3>3. InFlight(p[2]) /\ call[p[2]].got = t /\ call[p[2]].id = p[1]
        BY <3>1 DEF Owned, SlotsOwned
      <3>4. p[2] # c
        BY <3>1, <3>3
      <3> QED BY <1>1, <1>4, <3>2, <3>3, <3>4
    <2> QED BY <2>1, <2>2
  <1>8. RepliesHome'
    <2>1. \A t \in Session, d \in Caller :
             conn'[t].box[d].kind = "reply" => conn'[t].box[d].from = d
      BY <1>2, <1>3 DEF Owned, RepliesHome, NoMessage, Failure
    <2>2. RepliesNeverCross'
      BY <1>1 DEF Owned, RepliesHome, RepliesNeverCross, NoMessage, Failure
    <2> QED BY <1>0, <2>1, <2>2 DEF Owned, RepliesHome
  <1> QED BY <1>5, <1>6, <1>7, <1>8 DEF Owned

(* Steps of the loop, of Close and of the world that only move the loop,   *)
(* break a connection or wake calls.                                       *)
LEMMA QuietOtherSteps ==
    ASSUME TypeInv, TypeOK', Owned,
           \/ LoopEnds \/ DialFails \/ DialRejected \/ DialOk \/ Backoff \/ Publish
           \/ ReadError \/ CloseSession \/ Clear \/ Stop
           \/ (\E k \in Closer : CloseStep(k)) \/ CancelStart \/ Drop \/ UNCHANGED vars
    PROVE  Owned'
  <1>0. TypeOK
    BY DEF TypeInv
  <1>1. nextID' = nextID /\ hand' = hand /\ (call' = call \/ Broadcast)
    BY DEF LoopEnds, DialFails, DialRejected, DialOk, Backoff, Publish, ReadError, CloseSession,
           Clear, Stop, CloseStep, CloseBegin, CloseCancel, CloseReturn, CancelStart, Drop,
           SetSession, mgrVars, loopVars, vars
  <1>2. \A s \in Session :
           /\ conn'[s].pending = conn[s].pending /\ conn'[s].wire = conn[s].wire
           /\ conn'[s].box = conn[s].box /\ conn'[s].ended = conn[s].ended
    <2>1. CASE ReadError \/ Drop
      <3>1. conn' = [conn EXCEPT ![created].broken = TRUE]
        BY <2>1 DEF ReadError, Drop
      <3> QED BY <1>0, <3>1 DEF TypeOK, ConnType
    <2>2. CASE CloseSession
      BY <1>0, <2>2 DEF CloseSession, TypeOK, ConnType
    <2>3. CASE conn' = conn
      BY <2>3
    <2> QED BY <2>1, <2>2, <2>3
            DEF LoopEnds, DialFails, DialRejected, DialOk, Backoff, Publish, Clear, Stop,
                CloseStep, CloseBegin, CloseCancel, CloseReturn, CancelStart, SetSession,
                mgrVars, loopVars, vars
  <1>3. ASSUME NEW c \in Caller
        PROVE  /\ InFlight(c)' <=> InFlight(c)
               /\ InFlight(c) => call'[c].id = call[c].id /\ call'[c].got = call[c].got
               /\ call'[c].result.kind = "reply" => call'[c].result.from = c
    <2>1. /\ call'[c].pc = call[c].pc /\ call'[c].got = call[c].got
          /\ call'[c].id = call[c].id /\ call'[c].result = call[c].result
      BY <1>0, <1>1, BroadcastEffect
    <2> QED BY <2>1 DEF InFlight, Owned, RepliesHome, RepliesNeverCross
  <1>4. nextID <= nextID'
    BY <1>0, <1>1 DEF TypeOK
  <1> QED BY <1>0, <1>1, <1>2, <1>3, <1>4, QuietStep

(* The steps of the loop that move replies and slots: the calls and the    *)
(* frames stay as they are, and slots only disappear.                      *)
LEMMA SlotStep ==
    ASSUME TypeInv, Owned, call' = call, nextID' = nextID,
           \A s \in Session :
              /\ conn'[s].wire = conn[s].wire /\ conn'[s].pending \subseteq conn[s].pending
              /\ conn'[s].ended => conn[s].ended \/ conn'[s].pending = {}
    PROVE  IdsApart' /\ WireOwned' /\ SlotsOwned' /\ RepliesNeverCross'
  <1>1. IdsApart' /\ RepliesNeverCross'
    BY DEF Owned, IdsApart, RepliesHome, RepliesNeverCross, InFlight
  <1>2. WireOwned'
    BY DEF Owned, WireOwned, InFlight
  <1>3. SlotsOwned'
    BY DEF Owned, SlotsOwned, InFlight
  <1> QED BY <1>1, <1>2, <1>3

LEMMA ReadReplyOwned ==
    ASSUME TypeInv, Owned, ReadReply
    PROVE  Owned'
  <1> DEFINE k == conn[created]
  <1>0. created \in Session /\ k \in ConnType /\ call' = call /\ nextID' = nextID
    BY DEF ReadReply, TypeInv, TypeOK, LoopServes
  <1>1. PICK n \in DOMAIN k.wire :
          /\ hand' = {<<p[2], Reply(k.wire[n].from)>> : p \in {q \in k.pending : q[1] = k.wire[n].id}}
          /\ conn' = [conn EXCEPT ![created].pending =
                        Remaining({q \in k.pending : q[1] = k.wire[n].id})]
    BY DEF ReadReply
  <1> DEFINE slots == {q \in k.pending : q[1] = k.wire[n].id}
  <1>2. \A s \in Session :
           /\ conn'[s].wire = conn[s].wire /\ conn'[s].pending \subseteq conn[s].pending
           /\ conn'[s].ended = conn[s].ended /\ conn'[s].box = conn[s].box
    <2>1. conn' = [conn EXCEPT ![created].pending = Remaining(slots)]
      BY <1>1
    <2>2. Remaining(slots) \subseteq k.pending
      BY DEF Remaining
    <2> HIDE DEF slots
    <2> QED BY <1>0, <2>1, <2>2 DEF TypeInv, TypeOK, ConnType
  <1>3. ASSUME NEW p \in slots PROVE k.wire[n].from = p[2]
    <2>1. p[2] \in Caller /\ p \in k.pending /\ p[1] = k.wire[n].id
      BY <1>0 DEF ConnType
    <2>2. InFlight(p[2]) /\ call[p[2]].id = k.wire[n].id
      BY <1>0, <2>1 DEF Owned, SlotsOwned
    <2> QED BY <1>0, <1>1, <2>1, <2>2 DEF Owned, WireOwned
  <1>4. \A m \in hand' : m[2].kind = "reply" => m[2].from = m[1]
    BY <1>1, <1>3 DEF Reply
  <1>5. RepliesHome'
    <2>1. IdsApart' /\ WireOwned' /\ SlotsOwned' /\ RepliesNeverCross'
      BY <1>0, <1>2, SlotStep
    <2> QED BY <1>2, <1>4, <2>1 DEF Owned, RepliesHome
  <1> QED BY <1>0, <1>2, <1>5, SlotStep DEF Owned

LEMMA DeliverOwned ==
    ASSUME TypeInv, Owned, Deliver
    PROVE  Owned'
  <1>0. created \in Session /\ conn[created] \in ConnType /\ call' = call /\ nextID' = nextID
    BY DEF Deliver, TypeInv, TypeOK, LoopServes
  <1>1. PICK m \in hand : /\ conn' = [conn EXCEPT ![created].box[m[1]] = m[2]]
                          /\ hand' = hand \ {m}
    BY DEF Deliver
  <1>2. m[1] \in Caller /\ m[2] \in Message /\ (m[2].kind = "reply" => m[2].from = m[1])
    BY DEF TypeInv, TypeOK, Owned, RepliesHome
  <1>3. \A s \in Session \ {created} : conn'[s] = conn[s]
    BY <1>1 DEF TypeInv, TypeOK
  <1>4. /\ conn'[created].wire = conn[created].wire
        /\ conn'[created].pending = conn[created].pending
        /\ conn'[created].ended = conn[created].ended
        /\ conn'[created].box = [conn[created].box EXCEPT ![m[1]] = m[2]]
    BY <1>0, <1>1 DEF TypeInv, TypeOK, ConnType
  <1>5. \A c \in Caller :
           conn'[created].box[c] = IF c = m[1] THEN m[2] ELSE conn[created].box[c]
    BY <1>0, <1>4 DEF ConnType
  <1>6. \A s \in Session, c \in Caller :
           conn'[s].box[c].kind = "reply" => conn'[s].box[c].from = c
    BY <1>0, <1>2, <1>3, <1>5 DEF Owned, RepliesHome
  <1>7. \A s \in Session :
           /\ conn'[s].wire = conn[s].wire /\ conn'[s].pending \subseteq conn[s].pending
           /\ conn'[s].ended => conn[s].ended \/ conn'[s].pending = {}
    BY <1>0, <1>3, <1>4
  <1>8. IdsApart' /\ WireOwned' /\ SlotsOwned' /\ RepliesNeverCross'
    BY <1>0, <1>7, SlotStep
  <1>9. \A q \in hand' : q[2].kind = "reply" => q[2].from = q[1]
    BY <1>1 DEF Owned, RepliesHome
  <1> QED BY <1>6, <1>8, <1>9 DEF Owned, RepliesHome

LEMMA ShutdownOwned ==
    ASSUME TypeInv, Owned, Shutdown
    PROVE  Owned'
  <1>0. created \in Session /\ conn[created] \in ConnType /\ call' = call /\ nextID' = nextID
    BY DEF Shutdown, TypeInv, TypeOK, LoopServes
  <1>1. \A s \in Session :
           /\ conn'[s].wire = conn[s].wire /\ conn'[s].box = conn[s].box
           /\ conn'[s].pending \subseteq conn[s].pending
           /\ conn'[s].ended => conn[s].ended \/ conn'[s].pending = {}
    BY <1>0 DEF Shutdown, TypeInv, TypeOK, ConnType
  <1>2. \A m \in hand' : m[2].kind # "reply"
    BY DEF Shutdown, Dead, Failure
  <1>3. IdsApart' /\ WireOwned' /\ SlotsOwned' /\ RepliesNeverCross'
    BY <1>0, <1>1, SlotStep
  <1> QED BY <1>1, <1>2, <1>3 DEF Owned, RepliesHome

LEMMA InitOwned == Init => Owned
  <1> SUFFICES ASSUME Init PROVE Owned
    OBVIOUS
  <1>1. \A c \in Caller : call[c].pc = "new" /\ call[c].result.kind = "none"
    BY DEF Init, NewCall, NoMessage, Failure
  <1>2. \A s \in Session :
           /\ conn[s].ended = FALSE /\ conn[s].pending = {} /\ conn[s].wire = <<>>
           /\ \A c \in Caller : conn[s].box[c].kind = "none"
    BY DEF Init, NewConn, NoMessage, Failure
  <1>3. hand = {}
    BY DEF Init
  <1>4. IdsApart
    BY <1>1 DEF IdsApart, InFlight
  <1>5. WireOwned
    BY <1>2 DEF WireOwned
  <1> QED BY <1>1, <1>2, <1>3, <1>4, <1>5 DEF Owned, SlotsOwned, RepliesHome, RepliesNeverCross

LEMMA NextOwned == TypeInv /\ Forwards /\ Owned /\ [Next]_vars => Owned'
  <1> SUFFICES ASSUME TypeInv, Forwards, Owned, [Next]_vars PROVE Owned'
    OBVIOUS
  <1>0. TypeOK /\ TypeOK'
    BY NextInv DEF TypeInv
  <1>1. ASSUME NEW c \in Caller, CallStep(c) \/ Expire(c) PROVE Owned'
    <2>1. CASE Register(c) \/ Flush(c) \/ Unregister(c)
      BY <1>0, <2>1, RegisterOwned, FlushOwned, UnregisterOwned
    <2>2. CASE ~Register(c) /\ ~Flush(c) /\ ~Unregister(c)
      BY <1>0, <1>1, <2>2, QuietCallSteps
    <2> QED BY <2>1, <2>2
  <1>2. CASE LoopStep
    <2>1. CASE ReadReply \/ Deliver \/ Shutdown
      BY <2>1, ReadReplyOwned, DeliverOwned, ShutdownOwned
    <2>2. CASE ~(ReadReply \/ Deliver \/ Shutdown)
      BY <1>0, <1>2, <2>2, QuietOtherSteps DEF LoopStep
    <2> QED BY <2>1, <2>2
  <1>3. CASE (\E k \in Closer : CloseStep(k)) \/ CancelStart \/ Drop \/ UNCHANGED vars
    BY <1>0, <1>3, QuietOtherSteps
  <1> QED BY <1>1, <1>2, <1>3 DEF Next, Finished

(* A call that gets a reply gets the one to its own command, for any       *)
(* number of calls, retries and connections and in any order of replies.   *)
THEOREM RepliesCorrelate == Spec => []RepliesNeverCross
  <1>1. Owned => RepliesNeverCross
    BY DEF Owned, RepliesHome
  <1> QED BY InitInv, NextInv, InitForwards, NextForwards, InitOwned, NextOwned, <1>1, PTL DEF Spec

(* Every reply slot belongs to a call in its attempt on that connection,   *)
(* under its current id, and a finished connection has none.               *)
THEOREM NoSlotIsLeft == Spec => []SlotsOwned
  <1>1. Owned => SlotsOwned
    BY DEF Owned
  <1> QED BY InitInv, NextInv, InitForwards, NextForwards, InitOwned, NextOwned, <1>1, PTL DEF Spec

-----------------------------------------------------------------------------
(* A closed manager is drained.                                            *)

(* The strengthening.  A Close that returned saw the loop stopped; every   *)
(* connection but the one being served is finished; and a finished one     *)
(* takes no slot any more.                                                 *)
InService == loop \in {"publish", "read", "deliver", "shutdown", "fail"}

Finishes ==
    /\ \A k \in Closer : closer[k] = "returned" => loop = "stopped"
    /\ \A s \in Session : /\ conn[s].done => conn[s].ended
                          /\ s <= created => conn[s].done \/ (s = created /\ InService)
    /\ loop = "fail" => conn[created].ended

LEMMA InitFinishes == Init => Finishes
  BY DEF Init, Finishes, InService, NewConn, Session

(* Steps that finish no connection and leave the loop where it is.         *)
LEMMA IdleFinishes ==
    ASSUME TypeInv, Finishes, loop' = loop, created' = created,
           \A s \in Session : conn'[s].ended = conn[s].ended /\ conn'[s].done = conn[s].done,
           \A k \in Closer : closer'[k] = "returned" => closer[k] = "returned" \/ loop = "stopped"
    PROVE  Finishes'
  BY DEF TypeInv, LoopServes, Finishes, InService

LEMMA LoopFinishes ==
    ASSUME TypeInv, Finishes, LoopStep
    PROVE  Finishes'
  <1>0. /\ TypeOK /\ created \in 0 .. MaxSession /\ MaxSession \in Nat /\ closer' = closer
        /\ loop # "stopped"
    BY SessionAssumption, LoopFrame
       DEF TypeInv, TypeOK, LoopStep, LoopEnds, DialFails, DialRejected, DialOk, Backoff, Publish,
           ReadReply, Deliver, ReadError, Shutdown, CloseSession, Clear, Stop
  <1>k. \A k \in Closer : closer'[k] # "returned"
    BY <1>0 DEF Finishes
  <1>1. CASE DialOk
    <2>1. conn' = conn /\ created' = created + 1 /\ loop' = "publish" /\ loop = "top"
      BY <1>1 DEF DialOk
    <2> QED BY <1>0, <1>k, <2>1 DEF Finishes, InService, Session
  <1>2. CASE LoopEnds \/ DialFails \/ DialRejected \/ Backoff \/ Publish \/ Clear \/ Stop
    <2>1. /\ conn' = conn /\ created' = created /\ loop' # "fail"
          /\ InService => InService'
      BY <1>2 DEF LoopEnds, DialFails, DialRejected, Backoff, Publish, Clear, Stop, InService
    <2> QED BY <1>k, <2>1 DEF Finishes
  <1>3. CASE ReadReply \/ Deliver \/ ReadError
    <2>1. \A s \in Session : conn'[s].ended = conn[s].ended /\ conn'[s].done = conn[s].done
      <3>1. CASE ReadReply
        BY <1>0, <3>1 DEF ReadReply, TypeOK, ConnType
      <3>2. CASE Deliver
        BY <1>0, <3>2 DEF Deliver, TypeOK, ConnType
      <3>3. CASE ReadError
        BY <1>0, <3>3 DEF ReadError, TypeOK, ConnType
      <3> QED BY <1>3, <3>1, <3>2, <3>3
    <2>2. created' = created /\ InService' /\ (loop' = "fail" => loop = "fail")
      BY <1>3 DEF ReadReply, Deliver, ReadError, InService
    <2>3. created \in Session
      BY <1>3 DEF TypeInv, LoopServes, ReadReply, Deliver, ReadError
    <2> QED BY <1>k, <2>1, <2>2, <2>3 DEF Finishes, InService
  <1>4. CASE Shutdown \/ CloseSession
    <2>1. created' = created /\ created \in Session
      BY <1>4 DEF Shutdown, CloseSession, TypeInv, LoopServes
    <2>2. CASE Shutdown
      <3>1. conn'[created].ended /\ \A s \in Session : /\ conn'[s].done = conn[s].done
                                                       /\ conn[s].ended => conn'[s].ended
        BY <1>0, <2>1, <2>2 DEF Shutdown, TypeOK, ConnType
      <3> QED BY <1>k, <2>1, <2>2, <3>1 DEF Shutdown, Finishes, InService
    <2>3. CASE CloseSession
      <3>1. /\ conn'[created].done
            /\ \A s \in Session : conn'[s].ended = conn[s].ended
            /\ \A s \in Session \ {created} : conn'[s].done = conn[s].done
        BY <1>0, <2>1, <2>3 DEF CloseSession, TypeOK, ConnType
      <3> QED BY <1>k, <2>1, <2>3, <3>1 DEF CloseSession, Finishes, InService
    <2> QED BY <1>4, <2>2, <2>3
  <1> QED BY <1>1, <1>2, <1>3, <1>4 DEF LoopStep

LEMMA NextFinishes == TypeInv /\ Finishes /\ [Next]_vars => Finishes'
  <1> SUFFICES ASSUME TypeInv, Finishes, [Next]_vars PROVE Finishes'
    OBVIOUS
  <1>0. TypeOK
    BY DEF TypeInv
  <1>1. ASSUME NEW c \in Caller, CallStep(c) \/ Expire(c) PROVE Finishes'
    BY <1>0, <1>1, CallFrame, IdleFinishes DEF loopVars
  <1>2. CASE LoopStep
    BY <1>2, LoopFinishes
  <1>3. CASE (\E k \in Closer : CloseStep(k)) \/ CancelStart \/ Drop \/ UNCHANGED vars
    <2>1. loop' = loop /\ created' = created
      BY <1>3 DEF CloseStep, CloseBegin, CloseCancel, CloseReturn, CancelStart, Drop, vars, loopVars
    <2>2. \A s \in Session : conn'[s].ended = conn[s].ended /\ conn'[s].done = conn[s].done
      <3>1. CASE Drop
        BY <1>0, <3>1 DEF Drop, TypeOK, ConnType
      <3> QED BY <1>3, <3>1 DEF CloseStep, CloseBegin, CloseCancel, CloseReturn, CancelStart, vars
    <2>3. \A k \in Closer : closer'[k] = "returned" => closer[k] = "returned" \/ loop = "stopped"
      BY <1>0, <1>3 DEF CloseStep, CloseBegin, CloseCancel, CloseReturn, CancelStart, Drop, vars,
                        TypeOK
    <2> QED BY <2>1, <2>2, <2>3, IdleFinishes
  <1> QED BY <1>1, <1>2, <1>3 DEF Next, Finished

(* When Close returns to any of its callers, no connection is published,   *)
(* every connection ever made is finished and no slot is left on any.      *)
THEOREM CloseDrains == Spec => []ClosedMeansDrained
  <1>1. TypeInv /\ Forwards /\ Owned /\ Finishes => ClosedMeansDrained
    <2> SUFFICES ASSUME TypeInv, Forwards, Owned, Finishes,
                        NEW k \in Closer, closer[k] = "returned"
                 PROVE  /\ current = NoSession
                        /\ \A s \in 1 .. created : conn[s].done /\ conn[s].pending = {}
      BY DEF ClosedMeansDrained
    <2>1. loop = "stopped"
      BY DEF Finishes
    <2>2. current = NoSession
      BY <2>1 DEF Forwards, PublishesYoungest
    <2>3. ASSUME NEW s \in 1 .. created PROVE conn[s].done /\ conn[s].pending = {}
      <3>1. s \in Session /\ s <= created
        BY SessionAssumption DEF TypeInv, TypeOK, Session
      <3> QED BY <2>1, <3>1 DEF Finishes, InService, Owned, SlotsOwned
    <2> QED BY <2>2, <2>3
  <1> QED BY InitInv, NextInv, InitForwards, NextForwards, InitOwned, NextOwned,
             InitFinishes, NextFinishes, <1>1, PTL DEF Spec

-----------------------------------------------------------------------------
(* The connect loop never blocks on a reply channel.                       *)

(* The strengthening.  While a slot is open its channel is empty; the loop *)
(* holds sends only where it makes them, one at a time in deliver; and a   *)
(* call the loop has a send for has no second slot on that connection and  *)
(* cannot get one: it is still in the attempt the send ends, or has given  *)
(* that connection up.                                                     *)
SlotsEmpty ==
    \A s \in Session : \A p \in conn[s].pending : conn[s].box[p[2]] = NoMessage

Served(c) ==
    \/ call[c].pc = "returned" \/ call[c].avoid = created
    \/ InFlight(c) /\ call[c].got = created

HandServed ==
    \A m \in hand : Served(m[1]) /\ \A p \in conn[created].pending : p[2] # m[1]

HandPlace ==
    /\ loop \notin {"deliver", "fail"} => hand = {}
    /\ loop = "deliver" => \A m, n \in hand : m = n

Unblocked == SlotsEmpty /\ HandServed /\ HandPlace /\ SendNeverBlocks

LEMMA InitUnblocked == Init => Unblocked
  BY DEF Init, Unblocked, SlotsEmpty, HandServed, HandPlace, SendNeverBlocks, NewConn

(* What a call gave up it does not take back.                              *)
LEMMA StaysServed ==
    ASSUME TypeOK, Forwards, NEW c \in Caller, NEW d \in Caller,
           CallStep(c) \/ Expire(c), Served(d)
    PROVE  Served(d)' /\ (d = c => ~Register(c))
  <1>0. /\ call[c] \in CallType /\ created' = created /\ call[c].got \in 0 .. MaxSession
        /\ call[c].avoid \in 0 .. MaxSession /\ created \in 0 .. MaxSession /\ MaxSession \in Nat
    BY CallNumbers, CallFrame, SessionAssumption DEF loopVars
  <1>1. call[c].pc = "register" \/ InFlight(c) => call[c].got > call[c].avoid /\ call[c].got <= created
    BY DEF Forwards, Forward
  <1>2. CASE d # c
    BY <1>0, <1>2, CallFrame DEF Served, InFlight
  <1>3. CASE d = c
    <2>0. call[c].pc # "returned"
      BY DEF CallStep, Expire, AdmitDenied, AdmitRefused, Admit, Snapshot, Inspect, Wake,
             GiveUpWaiting, Register, LockWrite, Flush, WriteOk, WriteError, Await, Unregister
    <2>1. ~Register(c)
      BY <1>0, <1>1, <1>3, <2>0 DEF Register, Served, InFlight
    <2> SUFFICES Served(c)'
      BY <1>3, <2>1
    <2>2. ASSUME NEW r \in Outcome, Return(c, r) PROVE Served(c)'
      BY <2>2, ReturnEffect DEF Served
    <2>r. ASSUME NEW k \in {"denied", "budget", "ctx", "unavailable"}, Return(c, Failure(k))
          PROVE  Served(c)'
      <3>1. Failure(k) \in Outcome
        BY MessageTypes
      <3> QED BY <2>2, <2>r, <3>1
    <2>3. CASE AdmitDenied(c) \/ AdmitRefused(c) \/ GiveUpWaiting(c)
      BY <2>r, <2>3 DEF AdmitDenied, AdmitRefused, GiveUpWaiting
    <2>4. CASE Snapshot(c) \/ Inspect(c) \/ Wake(c)
      <3>1. CASE Snapshot(c) /\ Return(c, Failure("unavailable"))
        BY <2>r, <3>1
      <3>2. CASE ~(Snapshot(c) /\ Return(c, Failure("unavailable")))
        <4>1. ~InFlight(c) /\ call'[c].avoid = call[c].avoid
          BY <1>0, <2>4, <3>2 DEF Snapshot, Inspect, Wake, InFlight, TypeOK, CallType
        <4> QED BY <1>0, <1>3, <2>0, <4>1 DEF Served
      <3> QED BY <3>1, <3>2
    <2>5. CASE Unregister(c)
      <3>1. CASE TryAnother(c)
        <4>1. call'[c].avoid = call[c].got
          BY <3>1, TryAnotherEffect
        <4> QED BY <1>0, <1>1, <1>3, <2>0, <2>5, <4>1 DEF Unregister, Served, InFlight
      <3>2. CASE Return(c, call[c].result)
        BY <1>0, <2>2, <3>2 DEF CallType
      <3> QED BY <2>5, <3>1, <3>2 DEF Unregister
    <2>6. CASE \/ Admit(c) \/ Expire(c) \/ LockWrite(c) \/ Flush(c) \/ WriteOk(c)
               \/ WriteError(c) \/ Await(c)
      <3>1. call'[c].got = call[c].got /\ call'[c].avoid = call[c].avoid
        BY <2>6, KeepsPlace
      <3>2. InFlight(c) => InFlight(c)'
        <4>1. CASE Admit(c) \/ Expire(c)
          BY <1>0, <4>1 DEF Admit, Expire, TypeOK, CallType, InFlight
        <4>2. CASE LockWrite(c) \/ Flush(c) \/ WriteOk(c)
          BY <1>0, <4>2 DEF LockWrite, Flush, WriteOk, TypeOK, CallType, InFlight
        <4>3. CASE WriteError(c) \/ Await(c)
          <5>1. PICK r : call' = [call EXCEPT ![c].result = r, ![c].pc = "unregister"]
            BY <4>3 DEF WriteError, Await
          <5> QED BY <1>0, <5>1 DEF TypeOK, CallType, InFlight
        <4> QED BY <2>6, <4>1, <4>2, <4>3
      <3> QED BY <1>0, <1>3, <2>0, <3>1, <3>2 DEF Served
    <2> QED BY <2>1, <2>3, <2>4, <2>5, <2>6 DEF CallStep
  <1> QED BY <1>2, <1>3

LEMMA CallStepUnblocked ==
    ASSUME TypeInv, Forwards, Unblocked, NEW c \in Caller, CallStep(c) \/ Expire(c)
    PROVE  Unblocked'
  <1> USE DEF TypeInv
  <1>0. /\ hand' = hand /\ loop' = loop /\ created' = created
        /\ \A m \in hand : m[1] \in Caller
    BY CallFrame DEF loopVars, TypeOK
  <1>p. ASSUME NEW s \in Session, NEW p \in conn[s].pending PROVE p[2] \in Caller
    BY DEF TypeOK, ConnType
  <1>g. Register(c) \/ Flush(c) \/ Unregister(c) => call[c].got \in Session
    BY OnSession DEF Register, Flush, Unregister, InFlight
  <1>1. \A s \in Session :
           /\ \A d \in Caller : conn'[s].box[d] \in {conn[s].box[d], NoMessage}
           /\ \A p \in conn'[s].pending :
                 \/ p \in conn[s].pending
                 \/ Register(c) /\ p[2] = c /\ conn'[s].box[c] = NoMessage
    <2>1. CASE Register(c)
      <3>1. CASE conn' = conn
        BY <3>1
      <3>2. CASE conn' # conn
        <4>1. conn' = [conn EXCEPT ![call[c].got].box[c] = NoMessage,
                         ![call[c].got].pending = {p \in @ : p[1] # FreshID} \cup {<<FreshID, c>>}]
          BY <2>1, <3>2 DEF Register
        <4> HIDE DEF TypeInv
        <4>2. TypeOK /\ call[c].got \in Session
          BY <1>g, <2>1 DEF TypeInv
        <4>3. /\ \A t \in Session \ {call[c].got} : conn'[t] = conn[t]
              /\ \A d \in Caller : conn'[call[c].got].box[d] =
                                     IF d = c THEN NoMessage ELSE conn[call[c].got].box[d]
              /\ \A p \in conn'[call[c].got].pending :
                    p \in conn[call[c].got].pending \/ p = <<FreshID, c>>
          BY <4>1, <4>2, RegisterConn
        <4> QED BY <2>1, <4>3
      <3> QED BY <3>1, <3>2
    <2>2. CASE Flush(c)
      BY <1>g, <2>2, FlushConn
    <2>3. CASE Unregister(c)
      BY <1>g, <2>3, UnregisterConn
    <2>4. CASE ~Register(c) /\ ~Flush(c) /\ ~Unregister(c)
      BY <2>4, QuietConn
    <2> QED BY <2>1, <2>2, <2>3, <2>4
  <1>2. SlotsEmpty'
    BY <1>p, <1>1 DEF Unblocked, SlotsEmpty
  <1>3. ASSUME NEW m \in hand
        PROVE  /\ Served(m[1])' /\ created \in Session
               /\ \A p \in conn'[created].pending : p[2] # m[1]
               /\ conn'[created].box[m[1]] = NoMessage
    <2>1. Served(m[1])' /\ (m[1] = c => ~Register(c))
      BY <1>0, StaysServed DEF Unblocked, HandServed
    <2>2. created \in Session
      BY DEF Unblocked, HandPlace, LoopServes
    <2> QED BY <1>0, <1>p, <1>1, <2>1, <2>2 DEF Unblocked, HandServed, SendNeverBlocks
  <1>4. HandServed' /\ SendNeverBlocks'
    BY <1>0, <1>3 DEF HandServed, Unblocked, SendNeverBlocks
  <1>5. HandPlace'
    BY <1>0 DEF Unblocked, HandPlace
  <1> QED BY <1>2, <1>4, <1>5 DEF Unblocked

(* Steps that leave slots, channels and sends alone.                       *)
LEMMA OtherStepUnblocked ==
    ASSUME TypeInv, Unblocked,
           \/ LoopEnds \/ DialFails \/ DialRejected \/ DialOk \/ Backoff \/ Publish
           \/ ReadError \/ CloseSession \/ Clear \/ Stop
           \/ (\E k \in Closer : CloseStep(k)) \/ CancelStart \/ Drop \/ UNCHANGED vars
    PROVE  Unblocked'
  <1>0. TypeOK /\ \A m \in hand : m[1] \in Caller
    BY DEF TypeInv, TypeOK
  <1>1. hand' = hand /\ (call' = call \/ Broadcast)
    BY DEF LoopEnds, DialFails, DialRejected, DialOk, Backoff, Publish, ReadError, CloseSession,
           Clear, Stop, CloseStep, CloseBegin, CloseCancel, CloseReturn, CancelStart, Drop,
           SetSession, loopVars, vars
  <1>2. \A s \in Session : conn'[s].pending = conn[s].pending /\ conn'[s].box = conn[s].box
    <2>1. CASE ReadError \/ Drop
      <3>1. conn' = [conn EXCEPT ![created].broken = TRUE]
        BY <2>1 DEF ReadError, Drop
      <3> QED BY <1>0, <3>1 DEF TypeOK, ConnType
    <2>2. CASE CloseSession
      BY <1>0, <2>2 DEF CloseSession, TypeOK, ConnType
    <2>3. CASE conn' = conn
      BY <2>3
    <2> QED BY <2>1, <2>2, <2>3
            DEF LoopEnds, DialFails, DialRejected, DialOk, Backoff, Publish, Clear, Stop,
                CloseStep, CloseBegin, CloseCancel, CloseReturn, CancelStart, SetSession, vars
  <1>3. \/ loop' = loop /\ created' = created
        \/ hand = {} /\ loop' # "deliver"
    BY DEF LoopEnds, DialFails, DialRejected, DialOk, Backoff, Publish, ReadError, CloseSession,
           Clear, Stop, CloseStep, CloseBegin, CloseCancel, CloseReturn, CancelStart, Drop,
           loopVars, vars, Unblocked, HandPlace
  <1>4. SlotsEmpty'
    BY <1>2 DEF Unblocked, SlotsEmpty
  <1>5. HandPlace'
    BY <1>1, <1>3 DEF Unblocked, HandPlace
  <1>6. ASSUME NEW m \in hand
        PROVE  /\ Served(m[1])' /\ created' = created /\ created \in Session
    <2>1. created' = created
      BY <1>3
    <2>2. created \in Session
      BY DEF TypeInv, LoopServes, Unblocked, HandPlace
    <2>3. /\ call'[m[1]].pc = call[m[1]].pc /\ call'[m[1]].got = call[m[1]].got
          /\ call'[m[1]].avoid = call[m[1]].avoid
      BY <1>0, <1>1, BroadcastEffect
    <2> QED BY <2>1, <2>2, <2>3 DEF Unblocked, HandServed, Served, InFlight
  <1>7. HandServed' /\ SendNeverBlocks'
    BY <1>1, <1>2, <1>6 DEF Unblocked, HandServed, SendNeverBlocks
  <1> QED BY <1>4, <1>5, <1>7 DEF Unblocked

LEMMA ReadReplyUnblocked ==
    ASSUME TypeInv, Owned, Unblocked, ReadReply
    PROVE  Unblocked'
  <1> DEFINE k == conn[created]
  <1>0. created \in Session /\ k \in ConnType /\ call' = call /\ created' = created
        /\ loop' = "deliver"
    BY DEF ReadReply, TypeInv, TypeOK, LoopServes
  <1>1. PICK n \in DOMAIN k.wire :
          /\ hand' = {<<p[2], Reply(k.wire[n].from)>> : p \in {q \in k.pending : q[1] = k.wire[n].id}}
          /\ conn' = [conn EXCEPT ![created].pending =
                        Remaining({q \in k.pending : q[1] = k.wire[n].id})]
    BY DEF ReadReply
  <1> DEFINE f     == k.wire[n]
             slots == {q \in k.pending : q[1] = f.id}
  <1>2. \A s \in Session : conn'[s].pending \subseteq conn[s].pending /\ conn'[s].box = conn[s].box
    <2>1. conn' = [conn EXCEPT ![created].pending = Remaining(slots)]
      BY <1>1
    <2>2. Remaining(slots) \subseteq k.pending
      BY DEF Remaining
    <2> HIDE DEF slots
    <2> QED BY <1>0, <2>1, <2>2 DEF TypeInv, TypeOK, ConnType
  <1>3. conn'[created].pending = k.pending \ slots
    <2>1. conn' = [conn EXCEPT ![created].pending = Remaining(slots)]
      BY <1>1
    <2> HIDE DEF slots
    <2> QED BY <1>0, <2>1 DEF TypeInv, TypeOK, ConnType, Remaining
  <1>4. ASSUME NEW p \in slots
        PROVE  /\ p[2] \in Caller /\ p \in Nat \X Caller /\ p[1] = f.id
               /\ InFlight(p[2]) /\ call[p[2]].got = created /\ call[p[2]].id = f.id
    <2>1. p \in k.pending /\ p \in Nat \X Caller /\ p[1] = f.id
      BY <1>0 DEF ConnType
    <2> QED BY <1>0, <2>1 DEF Owned, SlotsOwned
  <1>5. \A p, q \in slots : p = q
    <2> SUFFICES ASSUME NEW p \in slots, NEW q \in slots PROVE p = q
      OBVIOUS
    <2>1. p[2] = q[2]
      BY <1>4 DEF Owned, IdsApart
    <2> QED BY <1>4, <2>1
  <1>6. \A m \in hand' : \E p \in slots : m = <<p[2], Reply(f.from)>>
    BY <1>1
  <1>7. ASSUME NEW m \in hand'
        PROVE  /\ Served(m[1])' /\ conn'[created].box[m[1]] = NoMessage
               /\ \A p \in conn'[created].pending : p[2] # m[1]
               /\ \A l \in hand' : l = m
    <2>1. PICK p \in slots : m = <<p[2], Reply(f.from)>>
      BY <1>6
    <2>2. m[1] = p[2] /\ p \in k.pending
      BY <2>1
    <2>3. Served(m[1])'
      BY <1>0, <1>4, <2>2 DEF Served, InFlight
    <2>4. conn'[created].box[m[1]] = NoMessage
      BY <1>0, <1>2, <2>2 DEF Unblocked, SlotsEmpty
    <2>5. ASSUME NEW q \in conn'[created].pending PROVE q[2] # m[1]
      <3>1. q \in k.pending /\ q \notin slots
        BY <1>3
      <3>2. q[2] = m[1] => q[1] = f.id
        BY <1>0, <1>4, <2>2, <3>1 DEF Owned, SlotsOwned
      <3> QED BY <3>1, <3>2
    <2>6. \A l \in hand' : l = m
      BY <1>5, <1>6, <2>1
    <2> QED BY <2>3, <2>4, <2>5, <2>6
  <1>8. SlotsEmpty'
    BY <1>2 DEF Unblocked, SlotsEmpty
  <1>9. HandServed' /\ HandPlace' /\ SendNeverBlocks'
    <2> HIDE DEF k, f, slots
    <2> QED BY <1>0, <1>7 DEF HandServed, HandPlace, SendNeverBlocks
  <1> QED BY <1>8, <1>9 DEF Unblocked

LEMMA DeliverUnblocked ==
    ASSUME TypeInv, Unblocked, Deliver
    PROVE  Unblocked'
  <1>0. created \in Session /\ conn[created] \in ConnType /\ call' = call /\ created' = created
    BY DEF Deliver, TypeInv, TypeOK, LoopServes
  <1>1. PICK m \in hand : /\ conn' = [conn EXCEPT ![created].box[m[1]] = m[2]]
                          /\ hand' = hand \ {m}
    BY DEF Deliver
  <1>2. \A l \in hand : l[1] \in Caller
    BY DEF TypeInv, TypeOK
  <1>3. \A s \in Session \ {created} : conn'[s] = conn[s]
    BY <1>1 DEF TypeInv, TypeOK
  <1>4. /\ conn'[created].pending = conn[created].pending
        /\ \A c \in Caller :
              conn'[created].box[c] = IF c = m[1] THEN m[2] ELSE conn[created].box[c]
    BY <1>0, <1>1 DEF TypeInv, TypeOK, ConnType
  <1>5. SlotsEmpty'
    <2> SUFFICES ASSUME NEW s \in Session, NEW p \in conn'[s].pending
                 PROVE  conn'[s].box[p[2]] = NoMessage
      BY DEF SlotsEmpty
    <2>1. p \in conn[s].pending
      BY <1>3, <1>4
    <2>2. p[2] \in Caller /\ conn[s].box[p[2]] = NoMessage
      BY <2>1 DEF TypeInv, TypeOK, ConnType, Unblocked, SlotsEmpty
    <2>3. s = created => p[2] # m[1]
      BY <2>1 DEF Unblocked, HandServed
    <2> QED BY <1>3, <1>4, <2>2, <2>3
  <1>6. ASSUME NEW l \in hand'
        PROVE  /\ Served(l[1])' /\ conn'[created].box[l[1]] = NoMessage
               /\ \A p \in conn'[created].pending : p[2] # l[1]
               /\ \A n \in hand' : n[1] = l[1] => n = l
    <2>1. l \in hand /\ l # m
      BY <1>1
    <2>2. l[1] # m[1]
      BY <2>1 DEF Unblocked, SendNeverBlocks
    <2>3. Served(l[1])'
      BY <1>0, <2>1 DEF Unblocked, HandServed, Served, InFlight
    <2> QED BY <1>1, <1>2, <1>4, <2>1, <2>2, <2>3 DEF Unblocked, HandServed, SendNeverBlocks
  <1>7. HandPlace'
    BY <1>1 DEF Deliver, Unblocked, HandPlace
  <1> QED BY <1>0, <1>5, <1>6, <1>7 DEF Unblocked, HandServed, SendNeverBlocks

LEMMA ShutdownUnblocked ==
    ASSUME TypeInv, Owned, Unblocked, Shutdown
    PROVE  Unblocked'
  <1>0. created \in Session /\ conn[created] \in ConnType /\ call' = call /\ created' = created
        /\ loop' = "fail" /\ hand' = {<<p[2], Dead>> : p \in conn[created].pending}
    BY DEF Shutdown, TypeInv, TypeOK, LoopServes
  <1>1. /\ \A s \in Session : /\ conn'[s].box = conn[s].box
                              /\ conn'[s].pending \subseteq conn[s].pending
        /\ conn'[created].pending = {}
    BY <1>0 DEF Shutdown, TypeInv, TypeOK, ConnType
  <1>2. SlotsEmpty'
    BY <1>1 DEF Unblocked, SlotsEmpty
  <1>3. ASSUME NEW m \in hand'
        PROVE  /\ Served(m[1])' /\ conn'[created].box[m[1]] = NoMessage
               /\ m = <<m[1], Dead>>
    <2>1. PICK p \in conn[created].pending : m = <<p[2], Dead>>
      BY <1>0
    <2>2. m[1] = p[2] /\ InFlight(p[2]) /\ call[p[2]].got = created
      BY <1>0, <2>1 DEF Owned, SlotsOwned
    <2>3. Served(m[1])'
      BY <1>0, <2>2 DEF Served, InFlight
    <2>4. conn[created].box[m[1]] = NoMessage
      BY <1>0, <2>2 DEF Unblocked, SlotsEmpty
    <2> QED BY <1>0, <1>1, <2>1, <2>3, <2>4
  <1>4. \A m, n \in hand' : n[1] = m[1] => n = m
    BY <1>3
  <1> QED BY <1>0, <1>1, <1>2, <1>3, <1>4
          DEF Unblocked, HandServed, HandPlace, SendNeverBlocks

LEMMA NextUnblocked == TypeInv /\ Forwards /\ Owned /\ Unblocked /\ [Next]_vars => Unblocked'
  <1> SUFFICES ASSUME TypeInv, Forwards, Owned, Unblocked, [Next]_vars PROVE Unblocked'
    OBVIOUS
  <1>1. ASSUME NEW c \in Caller, CallStep(c) \/ Expire(c) PROVE Unblocked'
    BY <1>1, CallStepUnblocked
  <1>2. CASE ReadReply \/ Deliver \/ Shutdown
    BY <1>2, ReadReplyUnblocked, DeliverUnblocked, ShutdownUnblocked
  <1>3. CASE \/ LoopStep /\ ~(ReadReply \/ Deliver \/ Shutdown)
             \/ (\E k \in Closer : CloseStep(k)) \/ CancelStart \/ Drop \/ UNCHANGED vars
    BY <1>3, OtherStepUnblocked DEF LoopStep
  <1> QED BY <1>1, <1>2, <1>3 DEF Next, Finished

(* The buffer the loop is about to send to is always empty: neither a late *)
(* or repeated reply nor the end of a connection blocks the connect loop.  *)
THEOREM LoopNeverBlocks == Spec => []SendNeverBlocks
  <1>1. Unblocked => SendNeverBlocks
    BY DEF Unblocked
  <1> QED BY InitInv, NextInv, InitForwards, NextForwards, InitOwned, NextOwned,
             InitUnblocked, NextUnblocked, <1>1, PTL DEF Spec

(* A call hears its own reply and nobody else's, through a slot that is    *)
(* its own while it waits and gone when it has, and the connect loop never *)
(* blocks on one: for any number of calls, closers and connections.        *)
THEOREM EveryReplyIsDelivered == Spec => []RepliesDelivered
  <1>1. RepliesNeverCross /\ SlotsOwned /\ SendNeverBlocks => RepliesDelivered
    BY DEF RepliesDelivered
  <1> QED BY RepliesCorrelate, NoSlotIsLeft, LoopNeverBlocks, <1>1, PTL

-----------------------------------------------------------------------------
(* Retries are honest: paid for once, and never beside a connection that   *)
(* could still answer.                                                     *)

Sent(s, c) == \E n \in DOMAIN conn[s].wire : conn[s].wire[n].from = c

(* The strengthening: a call is charged exactly when it leaves "new"; and  *)
(* a connection that carried its command is broken, or is the one it is on *)
(* past the flush, where only a broken one can fail its write with "retry" *)
(* as the result.                                                          *)
Paid(c) ==
    /\ call[c].charged \in {0, 1}
    /\ call[c].pc = "new" => call[c].charged = 0 /\ call[c].result = NoMessage
    /\ call[c].pc \notin {"new", "returned"} => call[c].charged = 1
    /\ call[c].charged = 0 => \A s \in Session : ~Sent(s, c)
    /\ call[c].result.kind \in {"denied", "budget"} => call[c].charged = 0

Carried(c, s) ==
    /\ call[c].got = s
    /\ \/ call[c].pc \in {"flushed", "await"}
       \/ call[c].pc = "unregister" /\ call[c].result # Failure("retry")

Kept(c) ==
    call[c].pc # "returned" => \A s \in Session : Sent(s, c) => conn[s].broken \/ Carried(c, s)

Settled == \A c \in Caller : Paid(c) /\ Kept(c)

(* A connection that sends nothing new for c and heals nothing.            *)
Quiet(c) == \A s \in Session : /\ Sent(s, c)' => Sent(s, c)
                               /\ conn[s].broken => conn'[s].broken

LEMMA SameFrames ==
    ASSUME NEW c \in Caller,
           \A s \in Session : conn'[s].wire = conn[s].wire /\ (conn[s].broken => conn'[s].broken)
    PROVE  Quiet(c)
  BY DEF Quiet, Sent

(* No step but Flush adds a frame, and no step of a call heals a           *)
(* connection.                                                             *)
LEMMA CallStepFrames ==
    ASSUME TypeOK, NEW c \in Caller, CallStep(c) \/ Expire(c), ~Flush(c)
    PROVE  \A s \in Session : conn'[s].wire = conn[s].wire /\ (conn[s].broken => conn'[s].broken)
  <1>1. CASE conn' = conn
    BY <1>1
  <1>2. CASE LockWrite(c)
    BY <1>2 DEF LockWrite, TypeOK, ConnType
  <1>3. CASE WriteOk(c)
    BY <1>3 DEF WriteOk, TypeOK, ConnType
  <1>4. CASE WriteError(c)
    <2>1. PICK b \in {conn[call[c].got].broken, TRUE} :
            conn' = [conn EXCEPT ![call[c].got].writer = None, ![call[c].got].broken = b]
      BY <1>4 DEF WriteError
    <2>2. ASSUME NEW s \in Session, s # call[c].got PROVE conn'[s] = conn[s]
      BY <2>1, <2>2 DEF TypeOK
    <2>3. ASSUME NEW s \in Session, s = call[c].got
          PROVE  conn'[s].wire = conn[s].wire /\ conn'[s].broken = b
      BY <2>1, <2>3 DEF TypeOK, ConnType
    <2> QED BY <2>1, <2>2, <2>3
  <1>5. CASE Register(c)
    <2>1. conn' = conn \/ \E q : conn' = [conn EXCEPT ![call[c].got].box[c] = NoMessage,
                                                     ![call[c].got].pending = q]
      BY <1>5 DEF Register
    <2>2. ASSUME NEW q, conn' = [conn EXCEPT ![call[c].got].box[c] = NoMessage,
                                             ![call[c].got].pending = q]
          PROVE  \A s \in Session :
                    conn'[s].wire = conn[s].wire /\ conn'[s].broken = conn[s].broken
      BY <2>2 DEF TypeOK, ConnType
    <2> QED BY <2>1, <2>2
  <1>6. CASE Unregister(c)
    BY <1>6 DEF Unregister, TypeOK, ConnType
  <1> QED BY <1>1, <1>2, <1>3, <1>4, <1>5, <1>6
          DEF CallStep, AdmitDenied, AdmitRefused, Admit, Snapshot, Inspect, Wake, GiveUpWaiting,
              Await, Expire

(* Nor does any other step.                                                *)
LEMMA OtherStepFrames ==
    ASSUME TypeInv, \/ LoopStep \/ (\E k \in Closer : CloseStep(k)) \/ CancelStart \/ Drop
                    \/ UNCHANGED vars
    PROVE  \A s \in Session : conn'[s].wire = conn[s].wire /\ (conn[s].broken => conn'[s].broken)
  <1> USE DEF TypeInv
  <1>1. CASE conn' = conn
    BY <1>1
  <1>2. CASE ReadReply
    BY <1>2 DEF ReadReply, TypeOK, ConnType
  <1>3. CASE Deliver
    BY <1>3 DEF Deliver, TypeOK, ConnType
  <1>4. CASE ReadError
    <2>1. \A s \in Session : conn'[s].wire = conn[s].wire
      BY <1>4 DEF ReadError, TypeOK, ConnType
    <2>2. ASSUME NEW s \in Session, conn[s].broken PROVE conn'[s].broken
      <3>1. CASE s = created
        BY <1>4, <3>1 DEF ReadError, TypeOK, ConnType
      <3>2. CASE s # created
        BY <1>4, <2>2, <3>2 DEF ReadError, TypeOK
      <3> QED BY <3>1, <3>2
    <2> QED BY <2>1, <2>2
  <1>7. CASE CloseSession
    BY <1>7 DEF CloseSession, TypeOK, ConnType
  <1>5. CASE Shutdown
    BY <1>5 DEF Shutdown, TypeOK, ConnType
  <1>6. CASE Drop
    BY <1>6 DEF Drop, TypeOK, ConnType
  <1> QED BY <1>1, <1>2, <1>3, <1>4, <1>5, <1>6, <1>7
          DEF LoopStep, LoopEnds, DialFails, DialRejected, DialOk, Backoff, Publish, Clear, Stop,
              CloseStep, CloseBegin, CloseCancel, CloseReturn, CancelStart, vars

(* A call that stays where it is ...                                       *)
LEMMA StaysSettled ==
    ASSUME NEW c \in Caller, Paid(c), Kept(c), Quiet(c),
           call'[c].pc = call[c].pc, call'[c].got = call[c].got,
           call'[c].charged = call[c].charged, call'[c].result = call[c].result
    PROVE  Paid(c)' /\ Kept(c)'
  BY DEF Paid, Kept, Carried, Quiet

(* ... one that moves on before it has written anything in this attempt,   *)
(* or gives the connection up for another ...                              *)
LEMMA MovesSettled ==
    ASSUME NEW c \in Caller, Paid(c), Quiet(c), call[c].pc \notin {"new", "returned"},
           \A s \in Session : Sent(s, c) => conn[s].broken,
           call'[c].pc # "new", call'[c].charged = call[c].charged,
           call'[c].result.kind \notin {"denied", "budget"}
    PROVE  Paid(c)' /\ Kept(c)'
  BY DEF Paid, Kept, Quiet

(* ... and one that ends.                                                  *)
LEMMA EndsSettled ==
    ASSUME TypeOK, NEW c \in Caller, Paid(c), Quiet(c), NEW r \in Outcome, Return(c, r),
           r.kind \in {"denied", "budget"} => call[c].charged = 0
    PROVE  Paid(c)' /\ Kept(c)'
  <1>1. call'[c] = [NewCall EXCEPT !.pc = "returned", !.result = r, !.charged = call[c].charged]
    BY DEF Return, TypeOK
  <1>2. call'[c].pc = "returned" /\ call'[c].result = r /\ call'[c].charged = call[c].charged
    BY <1>1 DEF NewCall
  <1> QED BY <1>2 DEF Paid, Kept, Quiet

LEMMA Kinds ==
    /\ Failure("retry").kind = "retry" /\ Failure("ctx").kind = "ctx"
    /\ Failure("unavailable").kind = "unavailable" /\ NoMessage.kind = "none"
    /\ \A m \in Message : m.kind \in {"reply", "unavailable", "none"}
  BY DEF Failure, NoMessage, Dead, Message

(* A call between its flush and the end of its attempt.                    *)
LEMMA WrittenSettled ==
    ASSUME TypeOK, Forwards, NEW c \in Caller, Paid(c), Kept(c),
           Flush(c) \/ WriteOk(c) \/ WriteError(c) \/ Await(c)
    PROVE  Paid(c)' /\ Kept(c)'
  <1>0. call[c] \in CallType /\ call[c].charged = 1
    BY DEF TypeOK, Paid, Flush, WriteOk, WriteError, Await
  <1>1. CASE Flush(c)
    <2>1. /\ call'[c].pc = "flushed" /\ call'[c].got = call[c].got
          /\ call'[c].charged = 1 /\ call'[c].result = call[c].result
      BY <1>0, <1>1 DEF Flush, TypeOK, CallType
    <2>2. ASSUME NEW s \in Session, s # call[c].got
          PROVE  conn'[s] = conn[s]
      BY <1>1, <2>2 DEF Flush, TypeOK
    <2>3. call[c].pc = "write"
      BY <1>1 DEF Flush
    <2>4. Kept(c)'
      BY <2>1, <2>2, <2>3 DEF Kept, Carried, Sent
    <2> QED BY <1>0, <2>1, <2>4 DEF Paid
  <1> SUFFICES ASSUME ~Flush(c) PROVE Paid(c)' /\ Kept(c)'
    BY <1>1
  <1>q. Quiet(c)
    BY CallStepFrames, SameFrames DEF CallStep
  <1>2. CASE WriteOk(c)
    <2>1. /\ call'[c].pc = "await" /\ call'[c].got = call[c].got /\ call[c].pc = "flushed"
          /\ call'[c].charged = 1 /\ call'[c].result = call[c].result
      BY <1>0, <1>2 DEF WriteOk, TypeOK, CallType
    <2> QED BY <1>0, <1>q, <2>1 DEF Paid, Kept, Carried, Quiet
  <1>3. CASE WriteError(c)
    <2>1. /\ call'[c].pc = "unregister" /\ call'[c].got = call[c].got
          /\ call'[c].charged = 1 /\ call'[c].result = WriteFailure(c)
      BY <1>0, <1>3 DEF WriteError, TypeOK, CallType
    <2>2. /\ call[c].pc \in {"write", "flushed"}
          /\ conn[call[c].got].broken \/ call[c].expired
      BY <1>3 DEF WriteError
    <2>3. /\ call[c].expired => WriteFailure(c) # Failure("retry")
          /\ WriteFailure(c).kind \in {"retry", "ctx"}
      BY Kinds DEF WriteFailure
    <2>4. Kept(c)'
      BY <1>q, <2>1, <2>2, <2>3 DEF Kept, Carried, Quiet
    <2> QED BY <1>0, <2>1, <2>3, <2>4 DEF Paid
  <1>4. CASE Await(c)
    <2>1. PICK r \in Outcome :
            /\ \/ r = conn[call[c].got].box[c] /\ r # NoMessage
               \/ r = ConnectionClosed /\ conn[call[c].got].done
               \/ r = Failure("ctx") /\ call[c].expired
            /\ call' = [call EXCEPT ![c].result = r, ![c].pc = "unregister"]
      BY <1>4 DEF Await
    <2>2. /\ call'[c].pc = "unregister" /\ call'[c].got = call[c].got
          /\ call'[c].charged = 1 /\ call'[c].result = r /\ call[c].pc = "await"
      BY <1>0, <1>4, <2>1 DEF Await, TypeOK, CallType
    <2>3. r.kind \in {"reply", "unavailable", "none", "ctx"}
      <3>1. call[c].got \in Session
        BY <2>2, OnSession DEF InFlight
      <3>2. conn[call[c].got].box[c] \in Message
        BY <3>1 DEF TypeOK, ConnType
      <3> QED BY <2>1, <3>2, Kinds DEF ConnectionClosed
    <2>4. r # Failure("retry") /\ r.kind \notin {"denied", "budget"}
      BY <2>3, Kinds
    <2>5. Kept(c)'
      BY <1>q, <2>2, <2>4 DEF Kept, Carried, Quiet
    <2> QED BY <1>0, <2>2, <2>4, <2>5 DEF Paid
  <1> QED BY <1>2, <1>3, <1>4

LEMMA CallStepSettled ==
    ASSUME TypeOK, Forwards, NEW c \in Caller, Paid(c), Kept(c), CallStep(c) \/ Expire(c)
    PROVE  Paid(c)' /\ Kept(c)'
  <1>0. call[c] \in CallType
    BY DEF TypeOK
  <1>1. CASE Flush(c) \/ WriteOk(c) \/ WriteError(c)
    BY <1>1, WrittenSettled
  <1> SUFFICES ASSUME ~(Flush(c) \/ WriteOk(c) \/ WriteError(c)) PROVE Paid(c)' /\ Kept(c)'
    BY <1>1
  <1>q. Quiet(c)
    BY CallStepFrames, SameFrames
  <1>b. call[c].pc \in {"session", "inspect", "wait", "register", "lock"} =>
          \A s \in Session : Sent(s, c) => conn[s].broken
    BY DEF Kept, Carried
  <1>2. CASE AdmitDenied(c) \/ AdmitRefused(c) \/ GiveUpWaiting(c)
    <2>1. PICK k \in {"denied", "budget", "ctx"} :
            Return(c, Failure(k)) /\ (k # "ctx" => call[c].pc = "new")
      BY <1>2 DEF AdmitDenied, AdmitRefused, GiveUpWaiting
    <2>2. Failure(k) \in Outcome /\ Failure(k).kind = k
      BY MessageTypes DEF Failure
    <2>3. k # "ctx" => call[c].charged = 0
      BY <2>1 DEF Paid
    <2> QED BY <1>q, <2>1, <2>2, <2>3, EndsSettled
  <1>3. CASE Admit(c)
    <2>1. /\ call'[c].pc = "session" /\ call'[c].charged = call[c].charged + 1
          /\ call'[c].result = call[c].result /\ call[c].pc = "new"
      BY <1>0, <1>3 DEF Admit, TypeOK, CallType
    <2>2. call[c].charged = 0 /\ call'[c].charged = 1 /\ \A s \in Session : ~Sent(s, c)
      BY <2>1 DEF Paid
    <2>3. call[c].result = NoMessage
      BY <2>1 DEF Paid
    <2> QED BY <1>q, <2>1, <2>2, <2>3, Kinds DEF Paid, Kept, Quiet
  <1>4. CASE Snapshot(c)
    <2>1. Failure("unavailable") \in Outcome
      BY MessageTypes
    <2>2. CASE Return(c, Failure("unavailable"))
      BY <1>q, <2>1, <2>2, Kinds, EndsSettled
    <2>3. CASE call' = [call EXCEPT ![c].got = current, ![c].woken = FALSE, ![c].pc = "inspect"]
      <3>1. /\ call'[c].pc = "inspect" /\ call'[c].charged = call[c].charged
            /\ call'[c].result = call[c].result /\ call[c].pc = "session"
        BY <1>0, <1>4, <2>3 DEF Snapshot, TypeOK, CallType
      <3> QED BY <1>b, <1>q, <3>1, MovesSettled DEF Paid
    <2> QED BY <1>4, <2>2, <2>3 DEF Snapshot
  <1>5. CASE Inspect(c) \/ Wake(c) \/ LockWrite(c)
    <2>1. /\ call'[c].pc \in {"register", "wait", "session", "write"}
          /\ call'[c].charged = call[c].charged /\ call'[c].result = call[c].result
          /\ call[c].pc \in {"inspect", "wait", "lock"}
      <3>1. CASE Inspect(c)
        <4>1. \/ call' = [call EXCEPT ![c].woken = FALSE, ![c].pc = "register"]
              \/ call' = [call EXCEPT ![c].pc = "wait"]
          BY <3>1 DEF Inspect
        <4> QED BY <1>0, <3>1, <4>1 DEF Inspect, TypeOK, CallType
      <3>2. CASE Wake(c)
        BY <1>0, <3>2 DEF Wake, TypeOK, CallType
      <3>3. CASE LockWrite(c)
        BY <1>0, <3>3 DEF LockWrite, TypeOK, CallType
      <3> QED BY <1>5, <3>1, <3>2, <3>3
    <2> QED BY <1>b, <1>q, <2>1, MovesSettled DEF Paid
  <1>t. ASSUME TryAnother(c), call[c].pc \notin {"new", "returned"},
               \A s \in Session : Sent(s, c) => conn[s].broken
        PROVE  Paid(c)' /\ Kept(c)'
    <2>1. call'[c].charged = call[c].charged
      BY <1>0, <1>t DEF TryAnother, TypeOK, CallType
    <2>2. call'[c].pc = "session" /\ call'[c].result = NoMessage
      BY <1>t, TryAnotherEffect
    <2> QED BY <1>q, <1>t, <2>1, <2>2, Kinds, MovesSettled
  <1>6. CASE Register(c)
    <2>1. call[c].pc = "register"
      BY <1>6 DEF Register
    <2>2. CASE call' = [call EXCEPT ![c].id = FreshID, ![c].pc = "lock"]
      <3>1. /\ call'[c].pc = "lock" /\ call'[c].charged = call[c].charged
            /\ call'[c].result = call[c].result
        BY <1>0, <2>2 DEF TypeOK, CallType
      <3> QED BY <1>b, <1>q, <2>1, <3>1, MovesSettled DEF Paid
    <2> QED BY <1>b, <1>t, <1>6, <2>1, <2>2 DEF Register
  <1>7. CASE Await(c)
    BY <1>7, WrittenSettled
  <1>8. CASE Unregister(c)
    <2>1. call[c].pc = "unregister" /\ call[c].result \in Outcome
      BY <1>0, <1>8 DEF Unregister, CallType
    <2>2. CASE call[c].result = Failure("retry") /\ TryAnother(c)
      BY <1>t, <2>1, <2>2 DEF Kept, Carried
    <2>3. CASE Return(c, call[c].result)
      BY <1>q, <2>1, <2>3, EndsSettled DEF Paid
    <2> QED BY <1>8, <2>2, <2>3 DEF Unregister
  <1>9. CASE Expire(c)
    <2>1. /\ call'[c].pc = call[c].pc /\ call'[c].got = call[c].got
          /\ call'[c].charged = call[c].charged /\ call'[c].result = call[c].result
      BY <1>0, <1>9 DEF Expire, TypeOK, CallType
    <2> QED BY <1>q, <2>1, StaysSettled
  <1> QED BY <1>2, <1>3, <1>4, <1>5, <1>6, <1>7, <1>8, <1>9 DEF CallStep

(* What one call sends is not another's.                                   *)
LEMMA OthersQuiet ==
    ASSUME TypeOK, Forwards, NEW c \in Caller, CallStep(c) \/ Expire(c), NEW d \in Caller \ {c}
    PROVE  Quiet(d)
  <1>1. CASE ~Flush(c)
    BY <1>1, CallStepFrames, SameFrames
  <1>2. CASE Flush(c)
    <2>0. call[c].got \in Session
      BY <1>2, OnSession DEF Flush, InFlight
    <2> DEFINE f == [id |-> call[c].id, from |-> c]
    <2>1. ASSUME NEW s \in Session PROVE conn'[s].broken = conn[s].broken
      BY <1>2 DEF Flush, TypeOK, ConnType
    <2>2. ASSUME NEW s \in Session, Sent(s, d)' PROVE Sent(s, d)
      <3>1. conn'[s].wire = IF s = call[c].got THEN Append(conn[s].wire, f) ELSE conn[s].wire
        BY <1>2, <2>0, FlushConn
      <3>2. CASE s # call[c].got
        BY <2>2, <3>1, <3>2 DEF Sent
      <3>3. CASE s = call[c].got
        <4>1. conn[s].wire \in Seq([id : Nat, from : Caller]) /\ f \in [id : Nat, from : Caller]
          BY DEF TypeOK, ConnType, CallType
        <4>2. PICK n \in DOMAIN conn'[s].wire : conn'[s].wire[n].from = d
          BY <2>2 DEF Sent
        <4>3. n \in 1 .. Len(conn[s].wire) + 1
          BY <3>1, <3>3, <4>1, <4>2
        <4> HIDE DEF f
        <4>4. n = Len(conn[s].wire) + 1 => conn'[s].wire[n] = f
          <5>1. ASSUME NEW w \in Seq([id : Nat, from : Caller])
                PROVE  Append(w, f)[Len(w) + 1] = f
            BY <4>1
          <5> QED BY <3>1, <3>3, <4>1, <5>1
        <4>5. n # Len(conn[s].wire) + 1
          BY <4>2, <4>4 DEF f
        <4>6. n \in DOMAIN conn[s].wire /\ conn'[s].wire[n] = conn[s].wire[n]
          BY <3>1, <3>3, <4>1, <4>3, <4>5
        <4> QED BY <4>2, <4>6 DEF Sent
      <3> QED BY <3>2, <3>3
    <2> QED BY <2>1, <2>2 DEF Quiet
  <1> QED BY <1>1, <1>2

LEMMA NextSettled == TypeInv /\ Forwards /\ Settled /\ [Next]_vars => Settled'
  <1> SUFFICES ASSUME TypeInv, Forwards, Settled, [Next]_vars PROVE Settled'
    OBVIOUS
  <1>0. TypeOK
    BY DEF TypeInv
  <1>1. ASSUME NEW c \in Caller, CallStep(c) \/ Expire(c) PROVE Settled'
    <2>1. Paid(c)' /\ Kept(c)'
      BY <1>0, <1>1, CallStepSettled DEF Settled
    <2>2. ASSUME NEW d \in Caller \ {c} PROVE Paid(d)' /\ Kept(d)'
      <3>1. call'[d] = call[d]
        BY <1>0, <1>1, CallFrame
      <3> QED BY <1>0, <1>1, <3>1, OthersQuiet, StaysSettled DEF Settled
    <2> QED BY <2>1, <2>2 DEF Settled
  <1>2. CASE \/ LoopStep \/ (\E k \in Closer : CloseStep(k)) \/ CancelStart \/ Drop
             \/ UNCHANGED vars
    <2>1. call' = call \/ Broadcast
      BY <1>2, LoopFrame DEF CloseStep, CloseBegin, CloseCancel, CloseReturn, CancelStart, Drop, vars
    <2>2. ASSUME NEW c \in Caller PROVE Paid(c)' /\ Kept(c)'
      <3>1. Quiet(c)
        BY <1>2, OtherStepFrames, SameFrames
      <3>2. /\ call'[c].pc = call[c].pc /\ call'[c].got = call[c].got
            /\ call'[c].result = call[c].result /\ call'[c].charged = call[c].charged
        <4>1. CASE Broadcast
          <5>1. call'[c] = [call[c] EXCEPT !.woken = call[c].pc \in {"inspect", "wait"}]
            BY <4>1 DEF Broadcast
          <5> QED BY <1>0, <5>1 DEF TypeOK, CallType
        <4> QED BY <2>1, <4>1
      <3> QED BY <3>1, <3>2, StaysSettled DEF Settled
    <2> QED BY <2>2 DEF Settled
  <1> QED BY <1>1, <1>2 DEF Next, Finished

LEMMA InitSettled == Init => Settled
  <1> SUFFICES ASSUME Init, NEW c \in Caller PROVE Paid(c) /\ Kept(c)
    BY DEF Settled
  <1>1. call[c] = NewCall /\ \A s \in Session : conn[s] = NewConn
    BY DEF Init
  <1>2. \A s \in Session : ~Sent(s, c)
    BY <1>1 DEF NewConn, Sent
  <1> QED BY <1>1, <1>2, Kinds DEF Paid, Kept, NewCall

(* A call is charged once and before anything is sent, a refusal costs     *)
(* nothing, and a command that Home Assistant has received is tried again  *)
(* only on a younger connection, after the one that carried it broke: for  *)
(* any number of calls, closers and connections.                           *)
THEOREM RetriesAreHonest == Spec => []RetriesHonest
  <1>1. Settled /\ SlotsOwned => PaidBeforeSent
    <2> SUFFICES ASSUME Settled, SlotsOwned, NEW c \in Caller
                 PROVE  /\ call[c].charged <= 1
                        /\ call[c].charged = 0 => \A s \in Session :
                              Frames(s, c) = {} /\ \A p \in conn[s].pending : p[2] # c
                        /\ call[c].result.kind \in {"denied", "budget"} => call[c].charged = 0
      BY DEF PaidBeforeSent
    <2>1. Paid(c)
      BY DEF Settled
    <2>2. call[c].charged = 0 => ~InFlight(c)
      BY <2>1 DEF Paid, InFlight
    <2> QED BY <2>1, <2>2 DEF Paid, SlotsOwned, Frames, Sent
  <1>2. Settled => ResentOnlyAfterBreak
    BY DEF Settled, Kept, Carried, ResentOnlyAfterBreak, Frames, Sent
  <1>3. RetryMovesForward /\ PaidBeforeSent /\ ResentOnlyAfterBreak => RetriesHonest
    BY DEF RetriesHonest
  <1> QED BY InitInv, NextInv, InitForwards, NextForwards, InitSettled, NextSettled,
             RetriesMoveForward, NoSlotIsLeft, <1>1, <1>2, <1>3, PTL DEF Spec

-----------------------------------------------------------------------------
(* Call implements the promise of RemoteCall: every step is a step of that *)
(* specification or moves nothing it sees.                                 *)

Seen(c) == <<Progress(c), Heard(c), Received(c)>>

(* A call past its flush has been received.                                *)
Arrived == \A c \in Caller : call[c].pc \in {"flushed", "await"} => Received(c) # {}

LEMMA SameReceived ==
    ASSUME \A s \in Session : conn'[s].wire = conn[s].wire, NEW c \in Caller
    PROVE  Received(c)' = Received(c)
  <1>1. \A s \in Session : Frames(s, c)' = Frames(s, c)
    BY DEF Frames
  <1> QED BY <1>1 DEF Received

(* A flush is one more frame that brought this call's command, and none    *)
(* that brought another's.                                                 *)
LEMMA FlushReceived ==
    ASSUME TypeOK, Forwards, NEW c \in Caller, Flush(c)
    PROVE  /\ \E f : f \notin Received(c) /\ Received(c)' = Received(c) \cup {f}
           /\ \A d \in Caller \ {c} : Received(d)' = Received(d)
  <1>0. PICK g \in Session : g = call[c].got
    BY OnSession DEF Flush, InFlight
  <1> DEFINE w == conn[g].wire
             T == [id : Nat, from : Caller]
             e == [id |-> call[c].id, from |-> c]
  <1>1. w \in Seq(T) /\ e \in T
    BY <1>0 DEF TypeOK, ConnType, CallType
  <1>2. conn'[g].wire = Append(w, e) /\ \A t \in Session \ {g} : conn'[t].wire = conn[t].wire
    BY <1>0, FlushConn
  <1>n. PICK n : n = Len(w) + 1
    OBVIOUS
  <1>3. /\ DOMAIN Append(w, e) = DOMAIN w \cup {n} /\ n \notin DOMAIN w
        /\ Append(w, e)[n] = e /\ \A m \in DOMAIN w : Append(w, e)[m] = w[m]
    <2> HIDE DEF w, e, T
    <2>1. /\ DOMAIN w = 1 .. Len(w) /\ Len(w) \in Nat
          /\ DOMAIN Append(w, e) = 1 .. Len(w) + 1
      BY <1>1
    <2>2. Append(w, e)[Len(w) + 1] = e /\ \A m \in 1 .. Len(w) : Append(w, e)[m] = w[m]
      BY <1>1
    <2> QED BY <2>1, <2>2, <1>n
  <1>4. \A t \in Session \ {g}, d \in Caller : Frames(t, d)' = Frames(t, d)
    BY <1>2 DEF Frames
  <1>5. \A d \in Caller : Frames(g, d)' = {m \in DOMAIN Append(w, e) : Append(w, e)[m].from = d}
    BY <1>2 DEF Frames
  <1>6. e.from = c
    OBVIOUS
  <1>7. \A d \in Caller : Frames(g, d) = {m \in DOMAIN w : w[m].from = d}
    BY DEF Frames
  <1> HIDE DEF w, e, T
  <1>8. Frames(g, c)' = Frames(g, c) \cup {n} /\ n \notin Frames(g, c)
    BY <1>3, <1>5, <1>6, <1>7
  <1>9. ASSUME NEW d \in Caller \ {c} PROVE Frames(g, d)' = Frames(g, d)
    <2>1. \A m : m \in Frames(g, d)' <=> m \in DOMAIN Append(w, e) /\ Append(w, e)[m].from = d
      BY <1>5
    <2>2. \A m : m \in Frames(g, d) <=> m \in DOMAIN w /\ w[m].from = d
      BY <1>7
    <2>3. \A m : m \in Frames(g, d)' <=> m \in Frames(g, d)
      BY <1>3, <1>6, <2>1, <2>2
    <2> QED BY <2>3
  <1>10. \A d \in Caller : \A f : f \in Received(d) <=> \E t \in Session : \E m \in Frames(t, d) : f = <<t, m>>
    BY DEF Received
  <1>11. \A d \in Caller : \A f :
            f \in Received(d)' <=> \E t \in Session : \E m \in Frames(t, d)' : f = <<t, m>>
    BY DEF Received
  <1>12. <<g, n>> \notin Received(c)
    BY <1>8, <1>10
  <1>13. \A f : f \in Received(c)' <=> f \in Received(c) \/ f = <<g, n>>
    <2>1. ASSUME NEW f, f \in Received(c)' PROVE f \in Received(c) \/ f = <<g, n>>
      BY <1>4, <1>8, <1>10, <1>11, <2>1
    <2>2. ASSUME NEW f, f \in Received(c) PROVE f \in Received(c)'
      <3>1. PICK t \in Session : \E m \in Frames(t, c) : f = <<t, m>>
        BY <1>10, <2>2
      <3>2. PICK m \in Frames(t, c) : f = <<t, m>>
        BY <3>1
      <3>3. m \in Frames(t, c)'
        BY <1>4, <1>8
      <3> QED BY <1>11, <3>2, <3>3
    <2>3. <<g, n>> \in Received(c)'
      BY <1>0, <1>8, <1>11
    <2> QED BY <2>1, <2>2, <2>3
  <1>14. Received(c)' = Received(c) \cup {<<g, n>>}
    BY <1>13
  <1>15. ASSUME NEW d \in Caller \ {c} PROVE Received(d)' = Received(d)
    <2>1. \A t \in Session : Frames(t, d)' = Frames(t, d)
      BY <1>4, <1>9
    <2> QED BY <2>1 DEF Received
  <1> QED BY <1>12, <1>14, <1>15

(* What a step shows of the calls that do not take it: nothing.            *)
LEMMA SameSeen ==
    ASSUME NEW c \in Caller, Received(c)' = Received(c),
           call'[c].pc = call[c].pc, call'[c].result = call[c].result
    PROVE  Seen(c)' = Seen(c)
  BY DEF Seen, Progress, Heard, Decided

LEMMA OthersSeen ==
    ASSUME TypeOK, Forwards, NEW c \in Caller, CallStep(c) \/ Expire(c), NEW d \in Caller \ {c}
    PROVE  Seen(d)' = Seen(d)
  <1>1. call'[d] = call[d]
    BY CallFrame
  <1>2. Received(d)' = Received(d)
    BY CallStepFrames, SameReceived, FlushReceived
  <1> QED BY <1>1, <1>2, SameSeen

LEMMA LoopSeen ==
    ASSUME TypeInv, \/ LoopStep \/ (\E k \in Closer : CloseStep(k)) \/ CancelStart \/ Drop
                    \/ UNCHANGED vars,
           NEW c \in Caller
    PROVE  Seen(c)' = Seen(c) /\ call'[c].pc = call[c].pc
  <1>1. call' = call \/ Broadcast
    BY LoopFrame DEF CloseStep, CloseBegin, CloseCancel, CloseReturn, CancelStart, Drop, vars
  <1>2. call'[c].pc = call[c].pc /\ call'[c].result = call[c].result
    BY <1>1, BroadcastEffect DEF TypeInv
  <1>3. Received(c)' = Received(c)
    BY OtherStepFrames, SameReceived
  <1> QED BY <1>2, <1>3, SameSeen

LEMMA NextArrived == TypeInv /\ Forwards /\ Arrived /\ [Next]_vars => Arrived'
  <1> SUFFICES ASSUME TypeInv, Forwards, Arrived, [Next]_vars PROVE Arrived'
    OBVIOUS
  <1>0. TypeOK
    BY DEF TypeInv
  <1>1. ASSUME NEW c \in Caller, CallStep(c) \/ Expire(c) PROVE Arrived'
    <2>1. ASSUME NEW d \in Caller \ {c}, call'[d].pc \in {"flushed", "await"}
          PROVE  Received(d)' # {}
      <3>1. call'[d] = call[d] /\ Received(d)' = Received(d)
        BY <1>0, <1>1, CallFrame, CallStepFrames, SameReceived, FlushReceived
      <3> QED BY <2>1, <3>1 DEF Arrived
    <2>2. CASE Flush(c)
      <3>1. Received(c)' # {}
        BY <1>0, <2>2, FlushReceived
      <3> QED BY <2>1, <3>1 DEF Arrived
    <2>3. CASE ~Flush(c)
      <3>1. Received(c)' = Received(c)
        BY <1>0, <1>1, <2>3, CallStepFrames, SameReceived
      <3>2. call'[c].pc \in {"flushed", "await"} => call[c].pc \in {"flushed", "await"}
        <4>1. CASE Expire(c)
          BY <1>0, <4>1 DEF Expire, TypeOK, CallType
        <4>2. CASE Snapshot(c) \/ Inspect(c)
          <5>1. \/ call' = [call EXCEPT ![c].got = current, ![c].woken = FALSE, ![c].pc = "inspect"]
                \/ call' = [call EXCEPT ![c].woken = FALSE, ![c].pc = "register"]
                \/ call' = [call EXCEPT ![c].pc = "wait"]
                \/ Return(c, Failure("unavailable"))
            BY <4>2 DEF Snapshot, Inspect
          <5>2. call[c] \in CallType
            BY <1>0 DEF TypeOK
          <5>3. Return(c, Failure("unavailable")) => call'[c].pc = "returned"
            BY <1>0, MessageTypes, ReturnEffect
          <5> QED BY <1>0, <5>1, <5>2, <5>3 DEF TypeOK, CallType
        <4>3. CASE WriteOk(c)
          BY <4>3 DEF WriteOk
        <4> QED BY <1>0, <1>1, <2>3, <4>1, <4>2, <4>3, PcAfter DEF CallStep
      <3> QED BY <2>1, <3>1, <3>2 DEF Arrived
    <2> QED BY <2>2, <2>3
  <1>2. CASE \/ LoopStep \/ (\E k \in Closer : CloseStep(k)) \/ CancelStart \/ Drop
             \/ UNCHANGED vars
    BY <1>2, LoopSeen DEF Arrived, Seen
  <1> QED BY <1>1, <1>2 DEF Next, Finished

LEMMA InitSeen ==
    ASSUME Init, NEW c \in Caller
    PROVE  Progress(c) = "idle" /\ Heard(c) = NoMessage /\ Received(c) = {} /\ call[c].pc = "new"
  <1>1. call[c] = NewCall /\ \A s \in Session : conn[s] = NewConn
    BY DEF Init
  <1>2. \A s \in Session : Frames(s, c) = {}
    BY <1>1 DEF NewConn, Frames
  <1> QED BY <1>1, <1>2 DEF Progress, Heard, Decided, NewCall, Received

(* What a step shows of the call that takes it.                            *)
Fails(c) ==
    /\ Progress(c) \in {"trying", "sent"} /\ Progress(c)' = "returned"
    /\ Heard(c)' \in {Failure("unavailable"), Failure("ctx")} /\ Received(c)' = Received(c)

Advances(c) ==
    \/ Seen(c)' = Seen(c)
    \/ /\ Progress(c) = "idle" /\ Progress(c)' = "returned"
       /\ Heard(c)' \in {Failure("denied"), Failure("budget")} /\ Received(c)' = Received(c)
    \/ /\ Progress(c) = "idle" /\ Progress(c)' = "trying"
       /\ Heard(c)' = Heard(c) /\ Received(c)' = Received(c)
    \/ /\ Progress(c) = "trying" /\ Progress(c)' = Progress(c) /\ Heard(c)' = Heard(c)
       /\ \E f : f \notin Received(c) /\ Received(c)' = Received(c) \cup {f}
    \/ /\ Progress(c) = "trying" /\ Received(c) # {} /\ Progress(c)' = "sent"
       /\ Heard(c)' = Heard(c) /\ Received(c)' = Received(c)
    \/ /\ Progress(c) = "sent" /\ Progress(c)' = "returned"
       /\ Heard(c)' = Reply(c) /\ Received(c)' = Received(c)
    \/ Fails(c)

(* A call shows its progress before its outcome ...                        *)
LEMMA Underway ==
    ASSUME NEW c \in Caller,
           call[c].pc \in {"session", "inspect", "wait", "register", "lock", "write", "flushed"}
    PROVE  Progress(c) = "trying" /\ Heard(c) = NoMessage
  BY DEF Progress, Heard, Decided

LEMMA UnderwayNext ==
    ASSUME NEW c \in Caller,
           call'[c].pc \in {"session", "inspect", "wait", "register", "lock", "write", "flushed"}
    PROVE  Progress(c)' = "trying" /\ Heard(c)' = NoMessage
  BY DEF Progress, Heard, Decided

(* ... and its outcome when it returns, or when its attempt has decided it.*)
LEMMA OutcomeShown ==
    ASSUME NEW c \in Caller, call'[c].result.kind # "retry",
           call'[c].pc \in {"unregister", "returned"}
    PROVE  Progress(c)' = "returned" /\ Heard(c)' = call'[c].result
  BY DEF Progress, Heard, Decided

LEMMA RetryIsOne == \A r \in Outcome : r.kind = "retry" <=> r = Failure("retry")
  BY Kinds DEF Outcome, Message, Failure, Dead, NoMessage

LEMMA ReturnAdvances ==
    ASSUME TypeOK, NEW c \in Caller, NEW r \in Outcome, Return(c, r), r.kind # "retry"
    PROVE  Progress(c)' = "returned" /\ Heard(c)' = r
  BY ReturnEffect, OutcomeShown

LEMMA AwaitAdvances ==
    ASSUME TypeOK, Forwards, Owned, NEW c \in Caller, Await(c)
    PROVE  Advances(c)
  <1>0. call[c] \in CallType /\ call[c].got \in Session /\ call[c].pc = "await"
    BY OnSession DEF TypeOK, Await, InFlight
  <1>1. PICK r \in Outcome :
          /\ \/ r = conn[call[c].got].box[c] /\ r # NoMessage
             \/ r = ConnectionClosed /\ conn[call[c].got].done
             \/ r = Failure("ctx") /\ call[c].expired
          /\ call' = [call EXCEPT ![c].result = r, ![c].pc = "unregister"]
    BY DEF Await
  <1>2. call'[c].pc = "unregister" /\ call'[c].result = r
    BY <1>0, <1>1 DEF TypeOK, CallType
  <1>3. Received(c)' = Received(c)
    BY CallStepFrames, SameReceived DEF CallStep, Await, Flush
  <1>4. Progress(c) = "sent"
    BY <1>0 DEF Progress, Decided
  <1>5. r \in {Reply(c), Failure("unavailable"), Failure("ctx")}
    <2>1. CASE r = conn[call[c].got].box[c] /\ r # NoMessage
      <3>1. r \in Message
        BY <1>0, <2>1 DEF TypeOK, ConnType
      <3>2. r.kind = "reply" => r.from = c
        BY <1>0, <2>1 DEF Owned, RepliesHome
      <3> QED BY <2>1, <3>1, <3>2 DEF Message, Reply, Dead
    <2> QED BY <1>1, <2>1 DEF ConnectionClosed
  <1>6. r.kind # "retry"
    BY <1>5 DEF Reply, Failure
  <1>7. Progress(c)' = "returned" /\ Heard(c)' = r
    BY <1>2, <1>6, OutcomeShown
  <1> QED BY <1>3, <1>4, <1>5, <1>7 DEF Advances, Fails

LEMMA CallStepAdvances ==
    ASSUME TypeOK, Forwards, Owned, Settled, Arrived, NEW c \in Caller, CallStep(c) \/ Expire(c)
    PROVE  Advances(c)
  <1>0. call[c] \in CallType
    BY DEF TypeOK
  <1>1. CASE Await(c)
    BY <1>1, AwaitAdvances
  <1>2. CASE Flush(c)
    <2>1. call[c].pc = "write" /\ call'[c].pc = "flushed"
      BY <1>2, PcAfter DEF Flush
    <2> QED BY <1>2, <2>1, FlushReceived, Underway, UnderwayNext DEF Advances
  <1> SUFFICES ASSUME ~Await(c), ~Flush(c) PROVE Advances(c)
    BY <1>1, <1>2
  <1>r. Received(c)' = Received(c)
    BY CallStepFrames, SameReceived
  <1>3. ASSUME call[c].pc \in {"session", "inspect", "wait", "register", "lock", "write", "flushed"},
               call'[c].pc \in {"session", "inspect", "wait", "register", "lock", "write", "flushed"}
        PROVE  Advances(c)
    BY <1>r, <1>3, Underway, UnderwayNext DEF Advances, Seen
  <1>4. ASSUME call[c].pc \in {"session", "wait"},
               Return(c, Failure("unavailable")) \/ Return(c, Failure("ctx"))
        PROVE  Advances(c)
    BY <1>r, <1>4, Kinds, MessageTypes, ReturnAdvances, Underway DEF Advances, Fails
  <1>5. CASE AdmitDenied(c) \/ AdmitRefused(c)
    <2>1. PICK k \in {"denied", "budget"} : Return(c, Failure(k))
      BY <1>5 DEF AdmitDenied, AdmitRefused
    <2>2. Failure(k) \in Outcome /\ Failure(k).kind # "retry"
      BY MessageTypes DEF Failure
    <2>3. Progress(c)' = "returned" /\ Heard(c)' = Failure(k)
      BY <2>1, <2>2, ReturnAdvances
    <2>4. Progress(c) = "idle"
      BY <1>5 DEF AdmitDenied, AdmitRefused, Progress, Decided
    <2> QED BY <1>r, <2>3, <2>4 DEF Advances
  <1>6. CASE Admit(c)
    <2>1. call[c].pc = "new" /\ call'[c].pc = "session"
      BY <1>6, PcAfter DEF Admit
    <2>2. Progress(c) = "idle" /\ Heard(c) = NoMessage
      BY <2>1 DEF Progress, Heard, Decided
    <2> QED BY <1>r, <2>1, <2>2, UnderwayNext DEF Advances
  <1>7. CASE Snapshot(c)
    <2>1. CASE call' = [call EXCEPT ![c].got = current, ![c].woken = FALSE, ![c].pc = "inspect"]
      <3>1. call'[c].pc = "inspect"
        BY <1>0, <2>1 DEF TypeOK, CallType
      <3> QED BY <1>3, <1>7, <3>1 DEF Snapshot
    <2> QED BY <1>4, <1>7, <2>1 DEF Snapshot
  <1>8. CASE Inspect(c)
    <2>1. \/ call' = [call EXCEPT ![c].woken = FALSE, ![c].pc = "register"]
          \/ call' = [call EXCEPT ![c].pc = "wait"]
      BY <1>8 DEF Inspect
    <2>2. call'[c].pc \in {"register", "wait"}
      BY <1>0, <2>1 DEF TypeOK, CallType
    <2> QED BY <1>3, <1>8, <2>2 DEF Inspect
  <1>9. CASE Wake(c) \/ Register(c) \/ LockWrite(c)
    <2>1. call[c].pc \in {"wait", "register", "lock"}
      BY <1>9 DEF Wake, Register, LockWrite
    <2>2. call'[c].pc \in {"session", "lock", "write"}
      BY <1>9, PcAfter
    <2> QED BY <1>3, <2>1, <2>2
  <1>10. CASE GiveUpWaiting(c)
    BY <1>4, <1>10 DEF GiveUpWaiting
  <1>11. CASE WriteOk(c)
    <2>1. call[c].pc = "flushed" /\ call'[c].pc = "await"
      BY <1>11, PcAfter DEF WriteOk
    <2>2. Received(c) # {}
      BY <2>1 DEF Arrived
    <2>3. Progress(c)' = "sent" /\ Heard(c)' = NoMessage
      BY <2>1 DEF Progress, Heard, Decided
    <2> QED BY <1>r, <2>1, <2>2, <2>3, Underway DEF Advances
  <1>12. CASE WriteError(c)
    <2>1. call[c].pc \in {"write", "flushed"} /\ call'[c].pc = "unregister"
      BY <1>12, PcAfter DEF WriteError
    <2>2. call'[c].result = WriteFailure(c)
      BY <1>0, <1>12 DEF WriteError, TypeOK, CallType
    <2>3. CASE WriteFailure(c) = Failure("ctx")
      BY <1>r, <2>1, <2>2, <2>3, Kinds, OutcomeShown, Underway DEF Advances, Fails
    <2>4. CASE WriteFailure(c) = Failure("retry")
      <3>1. Progress(c)' = "trying" /\ Heard(c)' = NoMessage
        BY <2>1, <2>2, <2>4, Kinds DEF Progress, Heard, Decided
      <3> QED BY <1>r, <2>1, <3>1, Underway DEF Advances, Seen
    <2> QED BY <2>3, <2>4 DEF WriteFailure
  <1>13. CASE Unregister(c)
    <2>1. call[c].pc = "unregister" /\ call[c].result \in Outcome
      BY <1>0, <1>13 DEF Unregister, CallType
    <2>2. CASE call[c].result = Failure("retry") /\ TryAnother(c)
      <3>1. Progress(c) = "trying" /\ Heard(c) = NoMessage
        BY <2>1, <2>2, Kinds DEF Progress, Heard, Decided
      <3>2. call'[c].pc = "session"
        BY <2>2, TryAnotherEffect
      <3> QED BY <1>r, <3>1, <3>2, UnderwayNext DEF Advances, Seen
    <2>3. CASE call[c].result # Failure("retry") /\ Return(c, call[c].result)
      <3>1. call[c].result.kind # "retry"
        BY <2>1, <2>3, RetryIsOne
      <3>2. Progress(c) = "returned" /\ Heard(c) = call[c].result
        BY <2>1, <3>1 DEF Progress, Heard, Decided
      <3>3. Progress(c)' = "returned" /\ Heard(c)' = call[c].result
        BY <2>1, <2>3, <3>1, ReturnAdvances
      <3> QED BY <1>r, <3>2, <3>3 DEF Advances, Seen
    <2> QED BY <1>13, <2>2, <2>3 DEF Unregister
  <1>14. CASE Expire(c)
    <2>1. call'[c].pc = call[c].pc /\ call'[c].result = call[c].result
      BY <1>0, <1>14 DEF Expire, TypeOK, CallType
    <2> QED BY <1>r, <2>1, SameSeen DEF Advances
  <1> QED BY <1>5, <1>6, <1>7, <1>8, <1>9, <1>10, <1>11, <1>12, <1>13, <1>14 DEF CallStep

(* What is seen of one call moves as RemoteCall says it may.               *)
LEMMA AdvanceIsAStep ==
    ASSUME NEW c \in Caller, Advances(c), \A d \in Caller \ {c} : Seen(d)' = Seen(d)
    PROVE  [Abstract!Next]_(Abstract!vars)
  <1> DEFINE St == [d \in Caller |-> Progress(d)]
             Ou == [d \in Caller |-> Heard(d)]
             Re == [d \in Caller |-> Received(d)]
  <1>1. \A d \in Caller \ {c} :
           Progress(d)' = Progress(d) /\ Heard(d)' = Heard(d) /\ Received(d)' = Received(d)
    BY DEF Seen
  <1>2. /\ St' = [St EXCEPT ![c] = Progress(c)'] /\ Ou' = [Ou EXCEPT ![c] = Heard(c)']
        /\ Re' = [Re EXCEPT ![c] = Received(c)']
    BY <1>1
  <1>3. /\ Progress(c)' = Progress(c) => St' = St
        /\ Heard(c)' = Heard(c) => Ou' = Ou
        /\ Received(c)' = Received(c) => Re' = Re
    BY <1>1
  <1>4. St[c] = Progress(c) /\ Ou[c] = Heard(c) /\ Re[c] = Received(c) /\ Re'[c] = Received(c)'
    OBVIOUS
  <1>5. Abstract!vars = <<St, Ou, Re>> /\ \A k : Abstract!Ended(k) = Failure(k)
    BY DEF Abstract!vars, Abstract!Ended, Failure
  <1>6. Abstract!Refuse(c) \/ Abstract!Try(c) \/ Abstract!Receive(c) \/ Abstract!Commit(c)
        \/ Abstract!Answer(c) \/ Abstract!Fail(c) => Abstract!Next
    BY DEF Abstract!Next
  <1>7. CASE Seen(c)' = Seen(c)
    <2>1. St' = St /\ Ou' = Ou /\ Re' = Re
      BY <1>3, <1>7 DEF Seen
    <2> QED BY <2>1 DEF Abstract!vars
  <1>8. ASSUME NEW r, Progress(c)' = "returned", Heard(c)' = r, Received(c)' = Received(c)
        PROVE  Abstract!Finish(c, r)
    BY <1>2, <1>3, <1>8 DEF Abstract!Finish
  <1>9. CASE /\ Progress(c) = "idle" /\ Progress(c)' = "returned"
             /\ Heard(c)' \in {Failure("denied"), Failure("budget")} /\ Received(c)' = Received(c)
    BY <1>4, <1>5, <1>6, <1>8, <1>9 DEF Abstract!Refuse
  <1>10. CASE /\ Progress(c) = "idle" /\ Progress(c)' = "trying"
              /\ Heard(c)' = Heard(c) /\ Received(c)' = Received(c)
    BY <1>2, <1>3, <1>4, <1>6, <1>10 DEF Abstract!Try
  <1>11. CASE /\ Progress(c) = "trying" /\ Progress(c)' = Progress(c) /\ Heard(c)' = Heard(c)
              /\ \E f : f \notin Received(c) /\ Received(c)' = Received(c) \cup {f}
    <2>1. PICK f : f \notin Received(c) /\ Received(c)' = Received(c) \cup {f}
      BY <1>11
    <2>2. f \in Re'[c] \ Re[c] /\ Re' = [Re EXCEPT ![c] = @ \cup {f}]
      BY <1>2, <1>4, <2>1
    <2> QED BY <1>3, <1>4, <1>6, <1>11, <2>2 DEF Abstract!Receive
  <1>12. CASE /\ Progress(c) = "trying" /\ Received(c) # {} /\ Progress(c)' = "sent"
              /\ Heard(c)' = Heard(c) /\ Received(c)' = Received(c)
    BY <1>2, <1>3, <1>4, <1>6, <1>12 DEF Abstract!Commit
  <1>13. CASE /\ Progress(c) = "sent" /\ Progress(c)' = "returned"
              /\ Heard(c)' = Reply(c) /\ Received(c)' = Received(c)
    BY <1>4, <1>6, <1>8, <1>13 DEF Abstract!Answer, Reply
  <1>14. CASE Fails(c)
    BY <1>4, <1>5, <1>6, <1>8, <1>14 DEF Abstract!Fail, Fails
  <1> QED BY <1>7, <1>9, <1>10, <1>11, <1>12, <1>13, <1>14 DEF Advances

LEMMA InitImplements == Init => Abstract!Init
  <1> SUFFICES ASSUME Init PROVE Abstract!Init
    OBVIOUS
  <1>1. Abstract!Pending = NoMessage
    BY DEF Abstract!Pending, Abstract!Ended, NoMessage, Failure
  <1> QED BY <1>1, InitSeen DEF Abstract!Init

LEMMA NextImplements ==
    TypeInv /\ Forwards /\ Owned /\ Settled /\ Arrived /\ [Next]_vars
      => [Abstract!Next]_(Abstract!vars)
  <1> SUFFICES ASSUME TypeInv, Forwards, Owned, Settled, Arrived, [Next]_vars
               PROVE  [Abstract!Next]_(Abstract!vars)
    OBVIOUS
  <1>0. TypeOK
    BY DEF TypeInv
  <1>1. ASSUME NEW c \in Caller, CallStep(c) \/ Expire(c) PROVE [Abstract!Next]_(Abstract!vars)
    BY <1>0, <1>1, AdvanceIsAStep, CallStepAdvances, OthersSeen
  <1>2. CASE \/ LoopStep \/ (\E k \in Closer : CloseStep(k)) \/ CancelStart \/ Drop
             \/ UNCHANGED vars
    <2>1. \A c \in Caller : Progress(c)' = Progress(c) /\ Heard(c)' = Heard(c)
                            /\ Received(c)' = Received(c)
      BY <1>2, LoopSeen DEF Seen
    <2> QED BY <2>1 DEF Abstract!vars
  <1> QED BY <1>1, <1>2 DEF Next, Finished

LEMMA InitArrived == Init => Arrived
  BY InitSeen DEF Arrived

(* Call keeps the promise of RemoteCall: a refused call never reaches Home *)
(* Assistant, a command known to be sent is not sent again, and an answer  *)
(* is the answer to the call's own command, which Home Assistant received: *)
(* for any number of calls, closers and connections.                       *)
THEOREM CallImplementsRemoteCall == Spec => ImplementsRemoteCall
  BY InitInv, NextInv, InitForwards, NextForwards, InitOwned, NextOwned, InitSettled, NextSettled,
     InitArrived, NextArrived, InitImplements, NextImplements, PTL
     DEF Spec, ImplementsRemoteCall, Abstract!Spec
=============================================================================
