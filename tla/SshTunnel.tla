------------------------------ MODULE SshTunnel ------------------------------
(***************************************************************************)
(* The SSH tunnel (crates/ssh/src/tunnel.rs): an accept loop that spawns   *)
(* one task per loopback socket, the session the tasks share behind a      *)
(* single-flight lock, the callback that reports a lost session, the error *)
(* observers read, and the drop of the handle that stops it all.           *)
(*                                                                         *)
(* A task runs once, and dials at most once, so a session is named by the  *)
(* socket whose task dialled it.  A step is the code between two points    *)
(* where another thread can interfere: an await, a lock, an atomic.        *)
(***************************************************************************)
EXTENDS Naturals, Sequences, SequencesExt

CONSTANTS Sockets,      \* the loopback sockets clients open during the run
          NoSocket,     \* not a socket: no holder, no session, no failure
          Keepalive     \* TRUE when the keepalive interval is not zero

ASSUME NoSocketAssumption == NoSocket \notin Sockets
ASSUME KeepaliveAssumption == Keepalive \in BOOLEAN

VARIABLES
  pc,          \* where each socket's task stands
  seen,        \* the failures counter a task read before it asked for the lock
  answer,      \* what Inner::session returned to the task
  holder,      \* the task that owns the session lock
  waiters,     \* tasks queued on the lock (a tokio Mutex is first come, first served)
  slot,        \* the guarded slot: the shared session and the latest failure
  failures,    \* connect attempts that failed
  lastError,   \* the tunnel's last error
  sess,        \* the SSH session each task dialled
  established, \* the flag a session's callbacks share with Inner::session
  callback,    \* the progress of Client::disconnected for each session
  loop,        \* the accept loop
  handle,      \* the TunnelHandle, and how far its drop has come
  closing,     \* set by the drop, read by the callback
  ours         \* the session the drop took from the slot and disconnects

taskVars == <<pc, seen, answer>>
lockVars == <<holder, waiters>>
sessVars == <<sess, established, callback>>
dropVars == <<loop, handle, closing, ours>>
vars == <<taskVars, lockVars, slot, failures, lastError, sessVars, dropVars>>

NoAnswer == [kind |-> "none", of |-> NoSocket]
Answer(k, s) == [kind |-> k, of |-> s]
NoError == [kind |-> "none", of |-> NoSocket]
Error(k, s) == [kind |-> k, of |-> s]

(* Inside Inner::session with the lock held past the check of the slot. *)
DialPcs == {"dialing", "failing", "publishing", "establishing", "clearing", "storing"}
(* Where a task can be cancelled: before its first poll and at an await. *)
AwaitPcs == {"spawned", "queued", "dialing", "opening", "piping"}
(* Inside forward with a clone of the session. *)
ForwardPcs == {"opening", "refused", "opened", "piping"}
Pcs == {"unborn", "spawned", "locking", "queued", "done"} \cup DialPcs \cup ForwardPcs

IsOpen(s) == s \in Sockets /\ sess[s] \in {"open", "silent"}

Init ==
  /\ pc = [t \in Sockets |-> "unborn"]
  /\ seen = [t \in Sockets |-> 0]
  /\ answer = [t \in Sockets |-> NoAnswer]
  /\ holder = NoSocket
  /\ waiters = <<>>
  /\ slot = [session |-> NoSocket, failure |-> NoSocket]
  /\ failures = 0
  /\ lastError = NoError
  /\ sess = [s \in Sockets |-> "none"]
  /\ established = [s \in Sockets |-> FALSE]
  /\ callback = [s \in Sockets |-> "none"]
  /\ loop = "running"
  /\ handle = "up"
  /\ closing = FALSE
  /\ ours = {}

-----------------------------------------------------------------------------
(* The session lock.                                                       *)

Goto(t, l) == pc' = [pc EXCEPT ![t] = l]

(* The guard is dropped: the permit goes to the first waiter, if any. *)
Release ==
  /\ holder' = IF waiters = <<>> THEN NoSocket ELSE Head(waiters)
  /\ waiters' = IF waiters = <<>> THEN waiters ELSE Tail(waiters)

(* A queued task is cancelled: it leaves the queue, or hands on a permit   *)
(* it was given but never woke up for.                                     *)
LeaveLock(t) ==
  IF holder = t
    THEN Release
    ELSE /\ \E i \in DOMAIN waiters : waiters[i] = t /\ waiters' = RemoveAt(waiters, i)
         /\ UNCHANGED holder

-----------------------------------------------------------------------------
(* The accept loop and Inner::session.                                     *)

Accept(t) ==
  /\ loop = "running"
  /\ pc[t] = "unborn"
  /\ Goto(t, "spawned")
  /\ UNCHANGED <<seen, answer, lockVars, slot, failures, lastError, sessVars, dropVars>>

(* let seen = failures.load() *)
ReadFailures(t) ==
  /\ pc[t] = "spawned"
  /\ seen' = [seen EXCEPT ![t] = failures]
  /\ Goto(t, "locking")
  /\ UNCHANGED <<answer, lockVars, slot, failures, lastError, sessVars, dropVars>>

(* session.lock(): take the permit, or queue for it *)
Enqueue(t) ==
  /\ pc[t] = "locking"
  /\ Goto(t, "queued")
  /\ IF holder = NoSocket
       THEN holder' = t /\ UNCHANGED waiters
       ELSE waiters' = Append(waiters, t) /\ UNCHANGED holder
  /\ UNCHANGED <<seen, answer, slot, failures, lastError, sessVars, dropVars>>

(* Mutant: no lock at all. *)
HasNoLock(t) == pc[t] = "queued"

HasLock(t) == pc[t] = "queued" /\ holder = t

Return(t, a, l) ==
  /\ answer' = [answer EXCEPT ![t] = a]
  /\ Goto(t, l)
  /\ Release

(* The slot holds an open session: share it. *)
ShareSession(t) ==
  /\ HasLock(t)
  /\ IsOpen(slot.session)
  /\ Return(t, Answer("session", slot.session), "opening")
  /\ UNCHANGED <<seen, slot, failures, lastError, sessVars, dropVars>>

(* The slot is empty and an attempt failed during the wait: share that. *)
ShareFailure(t) ==
  /\ HasLock(t)
  /\ slot.session = NoSocket
  /\ failures # seen[t]
  /\ Return(t, Answer("unavailable", slot.failure), "done")
  /\ UNCHANGED <<seen, slot, failures, lastError, sessVars, dropVars>>

(* The slot is empty with no news, or its session is closed: dial. *)
Dial(t) ==
  /\ HasLock(t)
  /\ IF slot.session = NoSocket THEN failures = seen[t] ELSE ~IsOpen(slot.session)
  /\ slot' = [slot EXCEPT !.session = NoSocket]
  /\ sess' = [sess EXCEPT ![t] = "handshake"]
  /\ Goto(t, "dialing")
  /\ UNCHANGED <<seen, answer, lockVars, failures, lastError, established, callback, dropVars>>

(* connect() returns a session that authenticated in time. *)
ConnectOk(t) ==
  /\ pc[t] = "dialing"
  /\ sess' = [sess EXCEPT ![t] = "open"]
  /\ Goto(t, "establishing")
  /\ UNCHANGED <<seen, answer, lockVars, slot, failures, lastError, established, callback, dropVars>>

(* connect() fails, or CONNECT_TIMEOUT expires and drops its future. *)
ConnectErr(t) ==
  /\ pc[t] = "dialing"
  /\ sess' = [sess EXCEPT ![t] = "left"]
  /\ Goto(t, "failing")
  /\ UNCHANGED <<seen, answer, lockVars, slot, failures, lastError, established, callback, dropVars>>

(* last_error.set(&e) *)
RecordFailure(t) ==
  /\ pc[t] = "failing"
  /\ lastError' = Error("connect", t)
  /\ Goto(t, "publishing")
  /\ UNCHANGED <<seen, answer, lockVars, slot, failures, sessVars, dropVars>>

(* Mutants: the counter is never moved; the guard is leaked. *)
PublishFailureUncounted(t) ==
  /\ pc[t] = "publishing"
  /\ slot' = [slot EXCEPT !.failure = t]
  /\ Return(t, Answer("error", t), "done")
  /\ UNCHANGED <<seen, failures, lastError, sessVars, dropVars>>
PublishFailureLeakingGuard(t) ==
  /\ pc[t] = "publishing"
  /\ slot' = [slot EXCEPT !.failure = t]
  /\ failures' = failures + 1
  /\ answer' = [answer EXCEPT ![t] = Answer("error", t)]
  /\ Goto(t, "done")
  /\ UNCHANGED <<seen, lockVars, lastError, sessVars, dropVars>>

(* slot.failure = message; failures.fetch_add(1); return Err *)
PublishFailure(t) ==
  /\ pc[t] = "publishing"
  /\ slot' = [slot EXCEPT !.failure = t]
  /\ failures' = failures + 1
  /\ Return(t, Answer("error", t), "done")
  /\ UNCHANGED <<seen, lastError, sessVars, dropVars>>

(* established.store(true) *)
Establish(t) ==
  /\ pc[t] = "establishing"
  /\ established' = [established EXCEPT ![t] = TRUE]
  /\ Goto(t, "clearing")
  /\ UNCHANGED <<seen, answer, lockVars, slot, failures, lastError, sess, callback, dropVars>>

(* last_error.clear() *)
ClearOnConnect(t) ==
  /\ pc[t] = "clearing"
  /\ lastError' = NoError
  /\ Goto(t, "storing")
  /\ UNCHANGED <<seen, answer, lockVars, slot, failures, sessVars, dropVars>>

(* Mutant: the session is returned, and not kept in the slot. *)
StoreNoSession(t) ==
  /\ pc[t] = "storing"
  /\ Return(t, Answer("session", t), "opening")
  /\ UNCHANGED <<seen, slot, failures, lastError, sessVars, dropVars>>

(* slot.session = Some(session); return Ok *)
StoreSession(t) ==
  /\ pc[t] = "storing"
  /\ slot' = [slot EXCEPT !.session = t]
  /\ Return(t, Answer("session", t), "opening")
  /\ UNCHANGED <<seen, failures, lastError, sessVars, dropVars>>

-----------------------------------------------------------------------------
(* forward: the channel of one socket, opened after the lock is released.  *)

(* A responsive session's server opens the channel. *)
ChannelOk(t) ==
  /\ pc[t] = "opening"
  /\ sess[answer[t].of] = "open"
  /\ Goto(t, "opened")
  /\ UNCHANGED <<seen, answer, lockVars, slot, failures, lastError, sessVars, dropVars>>

(* The server refuses it, or the session is closed; a silent server does   *)
(* not answer at all, and no deadline ends the wait.                       *)
ChannelErr(t) ==
  /\ pc[t] = "opening"
  /\ sess[answer[t].of] # "silent"
  /\ Goto(t, "refused")
  /\ UNCHANGED <<seen, answer, lockVars, slot, failures, lastError, sessVars, dropVars>>

(* last_error.set(ChannelOpen); return *)
RecordChannelError(t) ==
  /\ pc[t] = "refused"
  /\ lastError' = Error("channel", answer[t].of)
  /\ Goto(t, "done")
  /\ UNCHANGED <<seen, answer, lockVars, slot, failures, sessVars, dropVars>>

(* last_error.clear() *)
ClearOnChannel(t) ==
  /\ pc[t] = "opened"
  /\ lastError' = NoError
  /\ Goto(t, "piping")
  /\ UNCHANGED <<seen, answer, lockVars, slot, failures, sessVars, dropVars>>

(* copy_bidirectional returns: either side closed, or the session is gone. *)
EndPipe(t) ==
  /\ pc[t] = "piping"
  /\ Goto(t, "done")
  /\ UNCHANGED <<seen, answer, lockVars, slot, failures, lastError, sessVars, dropVars>>

-----------------------------------------------------------------------------
(* Sessions: the russh task that runs one, and its disconnected callback.  *)

(* Nobody holds the session's Arc: not the slot (which lives as long as    *)
(* the handle or a task), not a task.                                      *)
InnerGone == handle = "down" /\ loop = "gone" /\ \A t \in Sockets : pc[t] \in {"unborn", "done"}
Unreferenced(s) ==
  /\ slot.session # s \/ InnerGone
  /\ s \notin ours
  /\ pc[s] \notin DialPcs
  /\ \A t \in Sockets : ~(pc[t] \in ForwardPcs /\ answer[t].of = s)

Close(s, how) ==
  /\ sess' = [sess EXCEPT ![s] = how]
  /\ callback' = [callback EXCEPT ![s] = "pending"]
  /\ UNCHANGED <<taskVars, lockVars, slot, failures, lastError, established, dropVars>>

GoSilent(s) ==
  /\ sess[s] = "open"
  /\ sess' = [sess EXCEPT ![s] = "silent"]
  /\ UNCHANGED <<taskVars, lockVars, slot, failures, lastError, established, callback, dropVars>>

(* The server disconnects, or the transport fails. *)
Lose(s) == sess[s] \in {"open", "silent"} /\ Close(s, "lost")

(* Mutant: keepalives are never sent. *)
KeepaliveNeverExpires(s) == Keepalive /\ sess[s] = "silent" /\ Close(s, "lost") /\ FALSE

(* KEEPALIVE_MAX keepalives went unanswered. *)
KeepaliveExpires(s) == Keepalive /\ sess[s] = "silent" /\ Close(s, "lost")

(* The drop's disconnect is sent, or the last Arc of the handle is gone. *)
Leave(s) ==
  /\ sess[s] \in {"open", "silent"}
  /\ s \in ours \/ Unreferenced(s)
  /\ Close(s, "left")

(* Mutant: the callback forgets that the tunnel is closing. *)
CallbackCheckIgnoringClose(s) ==
  /\ callback[s] = "pending"
  /\ callback' = [callback EXCEPT ![s] = IF established[s] THEN "recording" ELSE "done"]
  /\ UNCHANGED <<taskVars, lockVars, slot, failures, lastError, sess, established, dropVars>>

(* Client::disconnected reads established and closing ... *)
CallbackCheck(s) ==
  /\ callback[s] = "pending"
  /\ callback' = [callback EXCEPT ![s] = IF established[s] /\ ~closing THEN "recording" ELSE "done"]
  /\ UNCHANGED <<taskVars, lockVars, slot, failures, lastError, sess, established, dropVars>>

(* ... and records the loss. *)
CallbackRecord(s) ==
  /\ callback[s] = "recording"
  /\ lastError' = Error("lost", s)
  /\ callback' = [callback EXCEPT ![s] = "done"]
  /\ UNCHANGED <<taskVars, lockVars, slot, failures, sess, established, dropVars>>

-----------------------------------------------------------------------------
(* Drop for TunnelHandle, statement by statement.                          *)

DropAbort ==
  /\ handle = "up"
  /\ handle' = "aborting"
  /\ UNCHANGED <<taskVars, lockVars, slot, failures, lastError, sessVars, loop, closing, ours>>

DropClosing ==
  /\ handle = "aborting"
  /\ handle' = "closing"
  /\ closing' = TRUE
  /\ UNCHANGED <<taskVars, lockVars, slot, failures, lastError, sessVars, loop, ours>>

(* try_lock and take; without a runtime the taken handle is just dropped.  *)
(* When a task holds the lock nothing is taken.                            *)
DropTake ==
  /\ handle = "closing"
  /\ handle' = "down"
  /\ IF holder = NoSocket /\ slot.session # NoSocket
       THEN /\ slot' = [slot EXCEPT !.session = NoSocket]
            /\ ours' \in {{}, {slot.session}}
       ELSE UNCHANGED <<slot, ours>>
  /\ UNCHANGED <<taskVars, lockVars, failures, lastError, sessVars, loop, closing>>

(* Mutant: the accept task is detached, not aborted. *)
LoopDetached == handle = "none" /\ UNCHANGED vars

(* The aborted accept task's future is dropped, and with it the JoinSet,   *)
(* which aborts every channel task.                                        *)
LoopEnds ==
  /\ handle # "up"
  /\ loop = "running"
  /\ loop' = "gone"
  /\ UNCHANGED <<taskVars, lockVars, slot, failures, lastError, sessVars, handle, closing, ours>>

(* An aborted task is dropped at its next await; a dial in progress is     *)
(* dropped with it, a lock it holds is released.                           *)
Abort(t) ==
  /\ loop = "gone"
  /\ pc[t] \in AwaitPcs
  /\ Goto(t, "done")
  /\ IF pc[t] \in {"queued", "dialing"} THEN LeaveLock(t) ELSE UNCHANGED lockVars
  /\ sess' = IF pc[t] = "dialing" THEN [sess EXCEPT ![t] = "left"] ELSE sess
  /\ UNCHANGED <<seen, answer, slot, failures, lastError, established, callback, dropVars>>

(* The tunnel has stopped: nothing is left to run. *)
Stopped ==
  /\ InnerGone
  /\ \A s \in Sockets : ~IsOpen(s) /\ callback[s] \in {"none", "done"}
  /\ UNCHANGED vars

-----------------------------------------------------------------------------
Session(t) ==
  \/ ReadFailures(t) \/ Enqueue(t) \/ ShareSession(t) \/ ShareFailure(t) \/ Dial(t)
  \/ RecordFailure(t) \/ PublishFailure(t)
  \/ Establish(t) \/ ClearOnConnect(t) \/ StoreSession(t)
Connect(t) == ConnectOk(t) \/ ConnectErr(t)
Forward(t) ==
  \/ ChannelOk(t) \/ ChannelErr(t)
  \/ RecordChannelError(t) \/ ClearOnChannel(t) \/ EndPipe(t)
Callback(s) == CallbackCheck(s) \/ CallbackRecord(s)
Drop == DropAbort \/ DropClosing \/ DropTake

Next ==
  \/ \E t \in Sockets : Accept(t) \/ Session(t) \/ Connect(t) \/ Forward(t) \/ Abort(t)
  \/ \E s \in Sockets : GoSilent(s) \/ Lose(s) \/ KeepaliveExpires(s) \/ Leave(s) \/ Callback(s)
  \/ Drop
  \/ LoopEnds
  \/ Stopped

Spec == Init /\ [][Next]_vars

(* The runtime runs every runnable task, and the connect deadline ends     *)
(* every dial.  A server that is not silent answers a channel open, and    *)
(* piping ends when its session does.  Nothing forces a client to connect, *)
(* a server to accept, a session to fail or the handle to be dropped.      *)
PipeBreaks(t) == EndPipe(t) /\ ~IsOpen(answer[t].of)
Fairness ==
  /\ \A t \in Sockets :
       /\ WF_vars(Session(t))
       /\ WF_vars(ConnectErr(t))
       /\ WF_vars(ChannelOk(t) \/ ChannelErr(t))
       /\ WF_vars(RecordChannelError(t) \/ ClearOnChannel(t))
       /\ WF_vars(PipeBreaks(t))
       /\ WF_vars(Abort(t))
  /\ \A s \in Sockets :
       /\ WF_vars(KeepaliveExpires(s))
       /\ WF_vars(Leave(s))
       /\ WF_vars(Callback(s))
  /\ WF_vars(DropClosing \/ DropTake)
  /\ WF_vars(LoopEnds)
FairSpec == Spec /\ Fairness

-----------------------------------------------------------------------------
(* Every variable keeps its type. *)
TypeOK ==
  /\ pc \in [Sockets -> Pcs]
  /\ seen \in [Sockets -> Nat]
  /\ answer \in [Sockets -> [kind : {"none", "session", "unavailable", "error"},
                              of : Sockets \cup {NoSocket}]]
  /\ holder \in Sockets \cup {NoSocket}
  /\ waiters \in Seq(Sockets)
  /\ slot \in [session : Sockets \cup {NoSocket}, failure : Sockets \cup {NoSocket}]
  /\ failures \in Nat
  /\ lastError \in [kind : {"none", "connect", "channel", "lost"}, of : Sockets \cup {NoSocket}]
  /\ sess \in [Sockets -> {"none", "handshake", "open", "silent", "lost", "left"}]
  /\ established \in [Sockets -> BOOLEAN]
  /\ callback \in [Sockets -> {"none", "pending", "recording", "done"}]
  /\ loop \in {"running", "gone"}
  /\ handle \in {"up", "aborting", "closing", "down"}
  /\ closing \in BOOLEAN
  /\ ours \in SUBSET Sockets

(* The lock is owned by a live task or by nobody: a task that dials, or is *)
(* between the outcome of its dial and the end of the critical section,    *)
(* owns it, and cancelling tasks at any await never leaks the permit.      *)
LockOwned ==
  /\ \A t \in Sockets : pc[t] \in DialPcs => holder = t
  /\ holder # NoSocket => pc[holder] \in {"queued"} \cup DialPcs
  /\ holder = NoSocket => waiters = <<>>

(* Single flight: two tasks are never dialling at the same time, whatever  *)
(* is lost, cancelled or shut down meanwhile.                              *)
SingleFlight ==
  \A t, u \in Sockets : pc[t] \in DialPcs /\ pc[u] \in DialPcs => t = u

(* Until the drop takes the session out of the slot, the tunnel has at     *)
(* most one open SSH session, and a task that has dialled one while        *)
(* another is open is impossible: sessions are replaced only when closed.  *)
OneSession ==
  handle # "down" => \A s, r \in Sockets : IsOpen(s) /\ IsOpen(r) => s = r

(* A reported loss is a real one: the session had been established and was *)
(* not closed by the tunnel's own shutdown.                                *)
LossIsGenuine ==
  lastError.kind = "lost" => established[lastError.of] /\ sess[lastError.of] = "lost"

(* Every call of Inner::session returns, or its task is cancelled: the     *)
(* deadline bounds each dial and the lock is handed on.                    *)
EveryCallReturns ==
  \A t \in Sockets : (pc[t] = "queued") ~> (answer[t] # NoAnswer \/ pc[t] = "done")

(* A socket's task does not wait for ever: it pipes, or closes the socket. *)
(* Needs keepalive, since channel_open itself has no deadline.             *)
EverySocketSettles ==
  \A t \in Sockets : (pc[t] = "spawned") ~> (pc[t] \in {"piping", "done"})

(* Dropping the handle ends every task and closes every session, also when *)
(* the drop found the lock taken by a dial.                                *)
DropStopsEverything ==
  (handle # "up") ~> (InnerGone /\ \A s \in Sockets : ~IsOpen(s))

-----------------------------------------------------------------------------
(* Refinement: what a caller of Inner::session can tell.                   *)

Told(t) == IF seen[t] # failures THEN slot.failure ELSE NoSocket
Asking == {"locking", "queued"}

Outcome(k) == IF k = "session" THEN "served"
              ELSE IF k \in {"error", "unavailable"} THEN "refused" ELSE "gone"
CallOf(t) == IF pc[t] \in {"unborn", "spawned"} THEN "idle"
             ELSE IF pc[t] \in Asking THEN "asking"
             ELSE IF pc[t] \in DialPcs THEN "dialing"
             ELSE Outcome(answer[t].kind)
ToldOf(t) == IF pc[t] \in Asking \cup DialPcs THEN Told(t)
             ELSE IF answer[t].kind \in {"error", "unavailable"} THEN answer[t].of
             ELSE NoSocket

callBar == [t \in Sockets |-> CallOf(t)]
toldBar == [t \in Sockets |-> ToldOf(t)]
linkBar == IF slot.session = NoSocket THEN "down"
           ELSE IF IsOpen(slot.session) THEN "up" ELSE "lost"

Shared == INSTANCE SharedConnect WITH
  Callers <- Sockets, NoCaller <- NoSocket,
  call <- callBar, told <- toldBar, link <- linkBar

(* Inner::session, with its queue and its counter, gives callers what      *)
(* SharedConnect promises.                                                 *)
ImplementsSharedConnect == Shared!Spec
=============================================================================
