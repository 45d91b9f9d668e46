--------------------------- MODULE SshTunnelProofs ---------------------------
(***************************************************************************)
(* Theorems about SshTunnel, for every set of sockets.  The invariants the *)
(* runs check are not inductive; Inv below is.                             *)
(***************************************************************************)
EXTENDS SshTunnel, SequenceTheorems, TLAPS

(* Whoever waits in the queue is a queued task, waits once and does not    *)
(* own the lock.                                                           *)
QueueOK ==
  \A i \in DOMAIN waiters :
    /\ pc[waiters[i]] = "queued"
    /\ waiters[i] # holder
    /\ \A j \in DOMAIN waiters : waiters[i] = waiters[j] => i = j

LockInv == LockOwned /\ QueueOK

(* A dial empties the slot and keeps it empty, and until the drop takes    *)
(* it, an open session is the slot's or on its way there.                  *)
SlotInv ==
  /\ \A t \in Sockets : pc[t] \in DialPcs => slot.session = NoSocket
  /\ handle # "down" =>
       \A s \in Sockets : IsOpen(s) =>
         slot.session = s \/ pc[s] \in {"establishing", "clearing", "storing"}

(* A session is created by its task's dial and never comes back.           *)
SessInv ==
  \A s \in Sockets :
    /\ pc[s] \in {"unborn", "spawned", "locking", "queued"} => sess[s] = "none"
    /\ pc[s] = "dialing" => sess[s] = "handshake"
    /\ callback[s] \in {"pending", "recording"} => sess[s] \in {"lost", "left"}

(* The shutdown flag is up before anything is disconnected. *)
DropInv ==
  /\ closing <=> handle \in {"closing", "down"}
  /\ ours # {} => handle = "down"

(* A callback about to record is that of an established, lost session; one *)
(* still to run for a session the tunnel closed itself will see the flag.  *)
LossInv ==
  /\ \A s \in Sockets :
       /\ callback[s] = "recording" => established[s] /\ sess[s] = "lost"
       /\ callback[s] = "pending" /\ sess[s] = "left" => closing
  /\ lastError.kind = "lost" =>
       /\ lastError.of \in Sockets
       /\ established[lastError.of]
       /\ sess[lastError.of] = "lost"

(* A task that read the counter knows of every earlier failure, a counted  *)
(* failure has its message in the slot, and only a task that left          *)
(* Inner::session, or was cancelled in it, has an answer.                  *)
AnswerInv ==
  /\ \A t \in Sockets :
       /\ seen[t] <= failures
       /\ pc[t] \in {"unborn", "spawned", "locking", "queued"} \cup DialPcs => answer[t] = NoAnswer
       /\ pc[t] \in ForwardPcs => answer[t].kind = "session"
  /\ failures # 0 => slot.failure \in Sockets

Inv == TypeOK /\ LockInv /\ SlotInv /\ SessInv /\ DropInv /\ LossInv /\ AnswerInv

(* Removing one position of a sequence keeps the others, in order. *)
LEMMA RemoveAtIsSeq ==
  ASSUME NEW S, NEW s \in Seq(S), NEW i \in DOMAIN s
  PROVE  /\ RemoveAt(s, i) \in Seq(S)
         /\ DOMAIN RemoveAt(s, i) = 1..(Len(s) - 1)
         /\ \A j \in 1..(Len(s) - 1) : RemoveAt(s, i)[j] = IF j < i THEN s[j] ELSE s[j + 1]
<1> DEFINE A == SubSeq(s, 1, i - 1)
           B == SubSeq(s, i + 1, Len(s))
<1>1. i \in 1..Len(s) /\ Len(s) \in Nat
  OBVIOUS
<1>2. A \in Seq(S) /\ Len(A) = i - 1 /\ \A j \in 1..(i - 1) : A[j] = s[j]
  BY <1>1, SubSeqProperties
<1>3. B \in Seq(S) /\ Len(B) = Len(s) - i /\ \A j \in 1..(Len(s) - i) : B[j] = s[i + j]
  BY <1>1, SubSeqProperties
<1>4. RemoveAt(s, i) = A \o B
  BY DEF RemoveAt
<1> HIDE DEF A, B
<1>5. A \o B \in Seq(S) /\ Len(A \o B) = Len(s) - 1
  BY <1>1, <1>2, <1>3, ConcatProperties
<1>6. ASSUME NEW j \in 1..(Len(s) - 1)
      PROVE  (A \o B)[j] = IF j < i THEN s[j] ELSE s[j + 1]
  <2>1. (A \o B)[j] = IF j <= Len(A) THEN A[j] ELSE B[j - Len(A)]
    BY <1>1, <1>2, <1>3, <1>6, ConcatProperties
  <2>2. CASE j < i
    BY <1>1, <1>2, <1>6, <2>1, <2>2
  <2>3. CASE ~(j < i)
    BY <1>1, <1>2, <1>3, <1>6, <2>1, <2>3
  <2> QED
    BY <2>2, <2>3
<1> QED
  BY <1>4, <1>5, <1>6

(* A permit that is handed on goes to the head of a typed queue. *)
LEMMA ReleaseType ==
  ASSUME TypeOK, Release
  PROVE  holder' \in Sockets \cup {NoSocket} /\ waiters' \in Seq(Sockets)
  BY DEF TypeOK, Release

(* A cancelled task leaves a typed lock behind, owner or waiter. *)
LEMMA LeaveLockType ==
  ASSUME TypeOK, NEW t \in Sockets, LeaveLock(t)
  PROVE  holder' \in Sockets \cup {NoSocket} /\ waiters' \in Seq(Sockets)
<1>1. CASE holder = t
  BY <1>1, ReleaseType DEF LeaveLock
<1>2. CASE holder # t
  BY <1>2, RemoveAtIsSeq DEF LeaveLock, TypeOK
<1> QED
  BY <1>1, <1>2

(* Each action keeps the types. *)
LEMMA TypeStep == TypeOK /\ [Next]_vars => TypeOK'
<1> SUFFICES ASSUME TypeOK, [Next]_vars PROVE TypeOK'
  OBVIOUS
<1> USE DEF Goto, taskVars, lockVars, sessVars, dropVars, Answer, Error, NoError,
            Pcs, DialPcs, ForwardPcs
<1>1. ASSUME NEW t \in Sockets, Accept(t) PROVE TypeOK'
  BY <1>1 DEF Accept, TypeOK
<1>2. ASSUME NEW t \in Sockets, ReadFailures(t) PROVE TypeOK'
  BY <1>2 DEF ReadFailures, TypeOK
<1>3. ASSUME NEW t \in Sockets, Enqueue(t) PROVE TypeOK'
  <2>1. holder' \in Sockets \cup {NoSocket} /\ waiters' \in Seq(Sockets)
    <3>1. CASE holder = NoSocket
      BY <1>3, <3>1 DEF Enqueue, TypeOK
    <3>2. CASE holder # NoSocket
      <4>1. waiters' = Append(waiters, t) /\ holder' = holder /\ waiters \in Seq(Sockets)
        BY <1>3, <3>2 DEF Enqueue, TypeOK
      <4> QED
        BY <4>1, AppendProperties DEF TypeOK
    <3> QED
      BY <3>1, <3>2
  <2> QED
    BY <1>3, <2>1 DEF Enqueue, TypeOK
<1>4. ASSUME NEW t \in Sockets, ShareSession(t) PROVE TypeOK'
  BY <1>4, ReleaseType DEF ShareSession, TypeOK, IsOpen, Return
<1>5. ASSUME NEW t \in Sockets, ShareFailure(t) PROVE TypeOK'
  BY <1>5, ReleaseType DEF ShareFailure, TypeOK, Return
<1>6. ASSUME NEW t \in Sockets, Dial(t) PROVE TypeOK'
  BY <1>6 DEF Dial, TypeOK
<1>7. ASSUME NEW t \in Sockets, ConnectOk(t) PROVE TypeOK'
  BY <1>7 DEF ConnectOk, TypeOK
<1>8. ASSUME NEW t \in Sockets, ConnectErr(t) PROVE TypeOK'
  BY <1>8 DEF ConnectErr, TypeOK
<1>9. ASSUME NEW t \in Sockets, RecordFailure(t) PROVE TypeOK'
  BY <1>9 DEF RecordFailure, TypeOK
<1>10. ASSUME NEW t \in Sockets, PublishFailure(t) PROVE TypeOK'
  <2>1. slot' \in [session : Sockets \cup {NoSocket}, failure : Sockets \cup {NoSocket}]
    BY <1>10 DEF PublishFailure, TypeOK
  <2>3. failures' \in Nat
    BY <1>10 DEF PublishFailure, TypeOK
  <2>2. holder' \in Sockets \cup {NoSocket} /\ waiters' \in Seq(Sockets)
    BY <1>10, ReleaseType DEF PublishFailure, Return
  <2> QED
    BY <1>10, <2>1, <2>2, <2>3 DEF PublishFailure, TypeOK, Return
<1>11. ASSUME NEW t \in Sockets, Establish(t) PROVE TypeOK'
  BY <1>11 DEF Establish, TypeOK
<1>12. ASSUME NEW t \in Sockets, ClearOnConnect(t) PROVE TypeOK'
  BY <1>12 DEF ClearOnConnect, TypeOK
<1>13. ASSUME NEW t \in Sockets, StoreSession(t) PROVE TypeOK'
  BY <1>13, ReleaseType DEF StoreSession, TypeOK, Return
<1>14. ASSUME NEW t \in Sockets, ChannelOk(t) PROVE TypeOK'
  BY <1>14 DEF ChannelOk, TypeOK
<1>15. ASSUME NEW t \in Sockets, ChannelErr(t) PROVE TypeOK'
  BY <1>15 DEF ChannelErr, TypeOK
<1>16. ASSUME NEW t \in Sockets, RecordChannelError(t) PROVE TypeOK'
  BY <1>16 DEF RecordChannelError, TypeOK
<1>17. ASSUME NEW t \in Sockets, ClearOnChannel(t) PROVE TypeOK'
  BY <1>17 DEF ClearOnChannel, TypeOK
<1>18. ASSUME NEW t \in Sockets, EndPipe(t) PROVE TypeOK'
  BY <1>18 DEF EndPipe, TypeOK
<1>19. ASSUME NEW t \in Sockets, Abort(t) PROVE TypeOK'
  BY <1>19, LeaveLockType DEF Abort, TypeOK
<1>20. ASSUME NEW s \in Sockets, GoSilent(s) PROVE TypeOK'
  BY <1>20 DEF GoSilent, TypeOK
<1>21. ASSUME NEW s \in Sockets, Lose(s) PROVE TypeOK'
  BY <1>21 DEF Lose, TypeOK, Close
<1>22. ASSUME NEW s \in Sockets, KeepaliveExpires(s) PROVE TypeOK'
  BY <1>22 DEF KeepaliveExpires, TypeOK, Close
<1>23. ASSUME NEW s \in Sockets, Leave(s) PROVE TypeOK'
  BY <1>23 DEF Leave, TypeOK, Close
<1>24. ASSUME NEW s \in Sockets, CallbackCheck(s) PROVE TypeOK'
  BY <1>24 DEF CallbackCheck, TypeOK
<1>25. ASSUME NEW s \in Sockets, CallbackRecord(s) PROVE TypeOK'
  BY <1>25 DEF CallbackRecord, TypeOK
<1>26. ASSUME DropAbort PROVE TypeOK'
  BY <1>26 DEF DropAbort, TypeOK
<1>27. ASSUME DropClosing PROVE TypeOK'
  BY <1>27 DEF DropClosing, TypeOK
<1>28. ASSUME DropTake PROVE TypeOK'
  BY <1>28 DEF DropTake, TypeOK
<1>29. ASSUME LoopEnds PROVE TypeOK'
  BY <1>29 DEF LoopEnds, TypeOK
<1>30. ASSUME UNCHANGED vars PROVE TypeOK'
  BY <1>30 DEF vars, TypeOK
<1> QED
  BY <1>1, <1>2, <1>3, <1>4, <1>5, <1>6, <1>7, <1>8, <1>9, <1>10, <1>11, <1>12, <1>13, <1>14, <1>15, <1>16, <1>17, <1>18, <1>19, <1>20, <1>21, <1>22, <1>23, <1>24, <1>25, <1>26, <1>27, <1>28, <1>29, <1>30
     DEF Next, Session, Connect, Forward, Callback, Drop, Stopped

(* Type correctness of every reachable state of the tunnel. *)
THEOREM TypeCorrect == Spec => []TypeOK
<1>1. ASSUME Init PROVE TypeOK
  <2>1. waiters \in Seq(Sockets)
    BY <1>1 DEF Init
  <2> QED
    BY <1>1, <2>1 DEF Init, TypeOK, Pcs, NoAnswer, NoError
<1> QED
  BY <1>1, TypeStep, PTL DEF Spec
-----------------------------------------------------------------------------
(* The lock.                                                               *)

(* The owner releases: the head of the queue becomes the owner. *)
LEMMA ReleaseKeepsLock ==
  ASSUME TypeOK, LockInv, NEW t \in Sockets, holder = t, Release,
         NEW l \in Pcs \ ({"queued"} \cup DialPcs), Goto(t, l)
  PROVE  LockInv'
<1>1. waiters \in Seq(Sockets) /\ pc \in [Sockets -> Pcs] /\ t # NoSocket
  BY NoSocketAssumption DEF TypeOK
<1>2. pc' = [pc EXCEPT ![t] = l]
  BY DEF Goto
<1>3. \A u \in Sockets : pc'[u] \in DialPcs => FALSE
  BY <1>1, <1>2 DEF LockInv, LockOwned
<1>4. CASE waiters = <<>>
  <2>1. holder' = NoSocket /\ waiters' = <<>>
    BY <1>4 DEF Release
  <2> QED
    BY <1>3, <2>1 DEF LockInv, LockOwned, QueueOK
<1>5. CASE waiters # <<>>
  <2>1. holder' = waiters[1] /\ waiters' = Tail(waiters)
    BY <1>1, <1>5 DEF Release
  <2>2. 1 \in DOMAIN waiters
    BY <1>1, <1>5
  <2>3. DOMAIN waiters' = 1..(Len(waiters) - 1)
    BY <1>1, <1>5, <2>1
  <2>4. \A i \in DOMAIN waiters' : i + 1 \in DOMAIN waiters /\ waiters'[i] = waiters[i + 1]
    BY <1>1, <1>5, <2>1, <2>3
  <2>5. \A i \in DOMAIN waiters : pc'[waiters[i]] = "queued"
    BY <1>1, <1>2 DEF LockInv, QueueOK
  <2>6. QueueOK'
    <3> SUFFICES ASSUME NEW i \in DOMAIN waiters'
                 PROVE  /\ pc'[waiters'[i]] = "queued"
                        /\ waiters'[i] # holder'
                        /\ \A j \in DOMAIN waiters' : waiters'[i] = waiters'[j] => i = j
      BY DEF QueueOK
    <3>1. i + 1 # 1 /\ i \in Nat
      BY <2>3
    <3>2. \A j \in DOMAIN waiters' : j \in Nat /\ (i + 1 = j + 1 => i = j)
      BY <2>3
    <3> QED
      BY <2>1, <2>2, <2>4, <2>5, <3>1, <3>2 DEF LockInv, QueueOK
  <2>7. LockOwned'
    <3>1. pc'[holder'] = "queued" /\ holder' # NoSocket
      BY <1>1, <2>1, <2>2, <2>5, NoSocketAssumption
    <3> QED
      BY <1>3, <3>1 DEF LockOwned
  <2> QED
    BY <2>6, <2>7 DEF LockInv
<1> QED
  BY <1>4, <1>5

(* A step of one task that leaves the lock alone. *)
LEMMA MoveKeepsLock ==
  ASSUME TypeOK, LockInv, NEW t \in Sockets, NEW l \in Pcs, Goto(t, l),
         UNCHANGED lockVars,
         \/ holder = t /\ l \in DialPcs
         \/ pc[t] \notin {"queued"} \cup DialPcs /\ l \notin DialPcs
  PROVE  LockInv'
<1>1. pc' = [pc EXCEPT ![t] = l] /\ pc \in [Sockets -> Pcs] /\ waiters \in Seq(Sockets)
  BY DEF Goto, TypeOK
<1>2. holder' = holder /\ waiters' = waiters
  BY DEF lockVars
<1>3. \A i \in DOMAIN waiters : waiters[i] \in Sockets /\ waiters[i] # t
  BY <1>1 DEF LockInv, QueueOK, DialPcs
<1>4. QueueOK'
  BY <1>1, <1>2, <1>3 DEF LockInv, QueueOK
<1>5. LockOwned'
  BY <1>1, <1>2, NoSocketAssumption DEF LockInv, LockOwned, TypeOK
<1> QED
  BY <1>4, <1>5 DEF LockInv

(* Asking for the lock keeps its queue and its owner in order. *)
LEMMA EnqueueKeepsLock ==
  ASSUME TypeOK, LockInv, NEW t \in Sockets, Enqueue(t)
  PROVE  LockInv'
<1>1. /\ pc' = [pc EXCEPT ![t] = "queued"] /\ pc \in [Sockets -> Pcs] /\ pc[t] = "locking"
      /\ waiters \in Seq(Sockets)
  BY DEF Enqueue, Goto, TypeOK
<1>2. \A i \in DOMAIN waiters : waiters[i] \in Sockets /\ waiters[i] # t
  BY <1>1 DEF LockInv, QueueOK
<1>3. holder # t
  BY <1>1, NoSocketAssumption DEF LockInv, LockOwned, DialPcs
<1>4. CASE holder = NoSocket
  <2>1. holder' = t /\ waiters' = waiters /\ waiters = <<>>
    BY <1>4 DEF Enqueue, LockInv, LockOwned
  <2>2. QueueOK'
    BY <2>1 DEF QueueOK
  <2>3. LockOwned'
    BY <1>1, <1>4, <2>1, NoSocketAssumption DEF LockInv, LockOwned, DialPcs
  <2> QED
    BY <2>2, <2>3 DEF LockInv
<1>5. CASE holder # NoSocket
  <2>1. holder' = holder /\ waiters' = Append(waiters, t)
    BY <1>5 DEF Enqueue
  <2>2. DOMAIN waiters' = 1..(Len(waiters) + 1) /\ Len(waiters) \in Nat
    BY <1>1, <2>1
  <2>3. \A i \in DOMAIN waiters' :
          waiters'[i] = IF i = Len(waiters) + 1 THEN t ELSE waiters[i]
    BY <1>1, <2>1, <2>2, AppendProperties
  <2>4. \A i \in DOMAIN waiters' : i # Len(waiters) + 1 => i \in DOMAIN waiters
    BY <1>1, <2>2
  <2>5. QueueOK'
    BY <1>1, <1>2, <1>3, <2>1, <2>3, <2>4 DEF LockInv, QueueOK
  <2>6. LockOwned'
    BY <1>1, <1>5, <2>1, NoSocketAssumption DEF LockInv, LockOwned, DialPcs, TypeOK
  <2> QED
    BY <2>5, <2>6 DEF LockInv
<1> QED
  BY <1>4, <1>5

(* A cancelled task leaves the queue, or hands its permit on. *)
LEMMA LeaveKeepsLock ==
  ASSUME TypeOK, LockInv, NEW t \in Sockets, LeaveLock(t), Goto(t, "done"),
         pc[t] \in {"queued", "dialing"}
  PROVE  LockInv'
<1>1. "done" \in Pcs \ ({"queued"} \cup DialPcs)
  BY DEF Pcs, DialPcs
<1>2. CASE holder = t
  BY <1>1, <1>2, ReleaseKeepsLock DEF LeaveLock
<1>3. CASE holder # t
  <2>1. PICK k \in DOMAIN waiters : waiters[k] = t /\ waiters' = RemoveAt(waiters, k)
    BY <1>3 DEF LeaveLock
  <2>2. /\ pc' = [pc EXCEPT ![t] = "done"] /\ pc \in [Sockets -> Pcs]
        /\ waiters \in Seq(Sockets) /\ holder' = holder
    BY <1>3 DEF Goto, TypeOK, LeaveLock
  <2>3. k \in 1..Len(waiters) /\ Len(waiters) \in Nat
    BY <2>1, <2>2
  <2> DEFINE at(i) == IF i < k THEN i ELSE i + 1
  <2>4. DOMAIN waiters' = 1..(Len(waiters) - 1)
        /\ \A i \in DOMAIN waiters' : waiters'[i] = IF i < k THEN waiters[i] ELSE waiters[i + 1]
    BY <2>1, <2>2, RemoveAtIsSeq
  <2>5. \A i \in DOMAIN waiters' :
          at(i) \in DOMAIN waiters /\ at(i) # k /\ waiters'[i] = waiters[at(i)]
    BY <2>2, <2>3, <2>4
  <2>6. \A i, j \in DOMAIN waiters' : at(i) = at(j) => i = j
    BY <2>3, <2>4
  <2> HIDE DEF at
  <2>7. \A i \in DOMAIN waiters : i # k => waiters[i] # t /\ waiters[i] \in Sockets
    BY <2>1, <2>2 DEF LockInv, QueueOK
  <2>8. QueueOK'
    BY <2>2, <2>5, <2>6, <2>7 DEF LockInv, QueueOK
  <2>9. holder # NoSocket
    BY <2>1, <2>2 DEF LockInv, LockOwned
  <2>10. LockOwned'
    BY <1>3, <2>2, <2>9 DEF LockInv, LockOwned, DialPcs, TypeOK
  <2> QED
    BY <2>8, <2>10 DEF LockInv
<1> QED
  BY <1>2, <1>3

(* The lock invariant, action by action. *)
LEMMA LockStep == Inv /\ [Next]_vars => LockInv'
<1> SUFFICES ASSUME Inv, [Next]_vars PROVE LockInv'
  OBVIOUS
<1> USE DEF Inv, Pcs, DialPcs, ForwardPcs, taskVars, lockVars
<1>1. ASSUME NEW t \in Sockets, Accept(t) PROVE LockInv'
  BY <1>1, MoveKeepsLock DEF Accept
<1>2. ASSUME NEW t \in Sockets, ReadFailures(t) PROVE LockInv'
  BY <1>2, MoveKeepsLock DEF ReadFailures
<1>3. ASSUME NEW t \in Sockets, Enqueue(t) PROVE LockInv'
  BY <1>3, EnqueueKeepsLock
<1>4. ASSUME NEW t \in Sockets, ShareSession(t) PROVE LockInv'
  <2>1. holder = t /\ Release /\ Goto(t, "opening")
    BY <1>4 DEF ShareSession, Return, LockInv, LockOwned, HasLock
  <2> QED
    BY <2>1, ReleaseKeepsLock
<1>5. ASSUME NEW t \in Sockets, ShareFailure(t) PROVE LockInv'
  <2>1. holder = t /\ Release /\ Goto(t, "done")
    BY <1>5 DEF ShareFailure, Return, LockInv, LockOwned, HasLock
  <2> QED
    BY <2>1, ReleaseKeepsLock
<1>6. ASSUME NEW t \in Sockets, Dial(t) PROVE LockInv'
  BY <1>6, MoveKeepsLock DEF Dial, HasLock
<1>7. ASSUME NEW t \in Sockets, ConnectOk(t) PROVE LockInv'
  BY <1>7, MoveKeepsLock DEF ConnectOk, LockInv, LockOwned
<1>8. ASSUME NEW t \in Sockets, ConnectErr(t) PROVE LockInv'
  BY <1>8, MoveKeepsLock DEF ConnectErr, LockInv, LockOwned
<1>9. ASSUME NEW t \in Sockets, RecordFailure(t) PROVE LockInv'
  BY <1>9, MoveKeepsLock DEF RecordFailure, LockInv, LockOwned
<1>10. ASSUME NEW t \in Sockets, PublishFailure(t) PROVE LockInv'
  <2>1. holder = t /\ Release /\ Goto(t, "done")
    BY <1>10 DEF PublishFailure, Return, LockInv, LockOwned
  <2> QED
    BY <2>1, ReleaseKeepsLock
<1>11. ASSUME NEW t \in Sockets, Establish(t) PROVE LockInv'
  BY <1>11, MoveKeepsLock DEF Establish, LockInv, LockOwned
<1>12. ASSUME NEW t \in Sockets, ClearOnConnect(t) PROVE LockInv'
  BY <1>12, MoveKeepsLock DEF ClearOnConnect, LockInv, LockOwned
<1>13. ASSUME NEW t \in Sockets, StoreSession(t) PROVE LockInv'
  <2>1. holder = t /\ Release /\ Goto(t, "opening")
    BY <1>13 DEF StoreSession, Return, LockInv, LockOwned
  <2> QED
    BY <2>1, ReleaseKeepsLock
<1>14. ASSUME NEW t \in Sockets, ChannelOk(t) PROVE LockInv'
  BY <1>14, MoveKeepsLock DEF ChannelOk
<1>15. ASSUME NEW t \in Sockets, ChannelErr(t) PROVE LockInv'
  BY <1>15, MoveKeepsLock DEF ChannelErr
<1>16. ASSUME NEW t \in Sockets, RecordChannelError(t) PROVE LockInv'
  BY <1>16, MoveKeepsLock DEF RecordChannelError
<1>17. ASSUME NEW t \in Sockets, ClearOnChannel(t) PROVE LockInv'
  BY <1>17, MoveKeepsLock DEF ClearOnChannel
<1>18. ASSUME NEW t \in Sockets, EndPipe(t) PROVE LockInv'
  BY <1>18, MoveKeepsLock DEF EndPipe
<1>19. ASSUME NEW t \in Sockets, Abort(t) PROVE LockInv'
  <2>1. CASE pc[t] \in {"queued", "dialing"}
    BY <1>19, <2>1, LeaveKeepsLock DEF Abort
  <2>2. CASE pc[t] \notin {"queued", "dialing"}
    BY <1>19, <2>2, MoveKeepsLock DEF Abort, AwaitPcs
  <2> QED
    BY <2>1, <2>2
<1>20. ASSUME NEW s \in Sockets, GoSilent(s) PROVE LockInv'
  BY <1>20 DEF GoSilent, LockInv, LockOwned, QueueOK
<1>21. ASSUME NEW s \in Sockets, Lose(s) PROVE LockInv'
  BY <1>21 DEF Lose, LockInv, LockOwned, QueueOK, Close
<1>22. ASSUME NEW s \in Sockets, KeepaliveExpires(s) PROVE LockInv'
  BY <1>22 DEF KeepaliveExpires, LockInv, LockOwned, QueueOK, Close
<1>23. ASSUME NEW s \in Sockets, Leave(s) PROVE LockInv'
  BY <1>23 DEF Leave, LockInv, LockOwned, QueueOK, Close
<1>24. ASSUME NEW s \in Sockets, CallbackCheck(s) PROVE LockInv'
  BY <1>24 DEF CallbackCheck, LockInv, LockOwned, QueueOK
<1>25. ASSUME NEW s \in Sockets, CallbackRecord(s) PROVE LockInv'
  BY <1>25 DEF CallbackRecord, LockInv, LockOwned, QueueOK
<1>26. ASSUME DropAbort PROVE LockInv'
  BY <1>26 DEF DropAbort, LockInv, LockOwned, QueueOK
<1>27. ASSUME DropClosing PROVE LockInv'
  BY <1>27 DEF DropClosing, LockInv, LockOwned, QueueOK
<1>28. ASSUME DropTake PROVE LockInv'
  BY <1>28 DEF DropTake, LockInv, LockOwned, QueueOK
<1>29. ASSUME LoopEnds PROVE LockInv'
  BY <1>29 DEF LoopEnds, LockInv, LockOwned, QueueOK
<1>30. ASSUME UNCHANGED vars PROVE LockInv'
  BY <1>30 DEF vars, LockInv, LockOwned, QueueOK
<1> QED
  BY <1>1, <1>2, <1>3, <1>4, <1>5, <1>6, <1>7, <1>8, <1>9, <1>10, <1>11, <1>12, <1>13, <1>14, <1>15, <1>16, <1>17, <1>18, <1>19, <1>20, <1>21, <1>22, <1>23, <1>24, <1>25, <1>26, <1>27, <1>28, <1>29, <1>30
     DEF Next, Session, Connect, Forward, Callback, Drop, Stopped

(* Sessions are opened one at a time and replaced only when closed. *)
LEMMA SlotStep == Inv /\ [Next]_vars => SlotInv'
<1> SUFFICES ASSUME Inv, [Next]_vars PROVE SlotInv'
  OBVIOUS
<1> USE DEF Inv, Pcs, DialPcs, ForwardPcs, taskVars, lockVars, sessVars, dropVars
<1>1. ASSUME NEW t \in Sockets, Accept(t) PROVE SlotInv'
  BY <1>1, NoSocketAssumption DEF Accept, SlotInv, LockInv, LockOwned, TypeOK, IsOpen, Goto
<1>2. ASSUME NEW t \in Sockets, ReadFailures(t) PROVE SlotInv'
  BY <1>2, NoSocketAssumption DEF ReadFailures, SlotInv, LockInv, LockOwned, TypeOK, IsOpen, Goto
<1>3. ASSUME NEW t \in Sockets, Enqueue(t) PROVE SlotInv'
  BY <1>3, NoSocketAssumption DEF Enqueue, SlotInv, LockInv, LockOwned, TypeOK, IsOpen, Goto
<1>4. ASSUME NEW t \in Sockets, ShareSession(t) PROVE SlotInv'
  BY <1>4, NoSocketAssumption DEF ShareSession, SlotInv, LockInv, LockOwned, TypeOK, IsOpen, Goto, Return, HasLock
<1>5. ASSUME NEW t \in Sockets, ShareFailure(t) PROVE SlotInv'
  BY <1>5, NoSocketAssumption DEF ShareFailure, SlotInv, LockInv, LockOwned, TypeOK, IsOpen, Goto, Return, HasLock
<1>6. ASSUME NEW t \in Sockets, Dial(t) PROVE SlotInv'
  BY <1>6, NoSocketAssumption DEF Dial, SlotInv, LockInv, LockOwned, TypeOK, IsOpen, Goto, HasLock
<1>7. ASSUME NEW t \in Sockets, ConnectOk(t) PROVE SlotInv'
  BY <1>7, NoSocketAssumption DEF ConnectOk, SlotInv, LockInv, LockOwned, TypeOK, IsOpen, Goto
<1>8. ASSUME NEW t \in Sockets, ConnectErr(t) PROVE SlotInv'
  BY <1>8, NoSocketAssumption DEF ConnectErr, SlotInv, LockInv, LockOwned, TypeOK, IsOpen, Goto
<1>9. ASSUME NEW t \in Sockets, RecordFailure(t) PROVE SlotInv'
  BY <1>9, NoSocketAssumption DEF RecordFailure, SlotInv, LockInv, LockOwned, TypeOK, IsOpen, Goto
<1>10. ASSUME NEW t \in Sockets, PublishFailure(t) PROVE SlotInv'
  BY <1>10, NoSocketAssumption DEF PublishFailure, SlotInv, LockInv, LockOwned, TypeOK, IsOpen, Goto, Return
<1>11. ASSUME NEW t \in Sockets, Establish(t) PROVE SlotInv'
  BY <1>11, NoSocketAssumption DEF Establish, SlotInv, LockInv, LockOwned, TypeOK, IsOpen, Goto
<1>12. ASSUME NEW t \in Sockets, ClearOnConnect(t) PROVE SlotInv'
  BY <1>12, NoSocketAssumption DEF ClearOnConnect, SlotInv, LockInv, LockOwned, TypeOK, IsOpen, Goto
<1>13. ASSUME NEW t \in Sockets, StoreSession(t) PROVE SlotInv'
  BY <1>13, NoSocketAssumption DEF StoreSession, SlotInv, LockInv, LockOwned, TypeOK, IsOpen, Goto, Return
<1>14. ASSUME NEW t \in Sockets, ChannelOk(t) PROVE SlotInv'
  BY <1>14, NoSocketAssumption DEF ChannelOk, SlotInv, LockInv, LockOwned, TypeOK, IsOpen, Goto
<1>15. ASSUME NEW t \in Sockets, ChannelErr(t) PROVE SlotInv'
  BY <1>15, NoSocketAssumption DEF ChannelErr, SlotInv, LockInv, LockOwned, TypeOK, IsOpen, Goto
<1>16. ASSUME NEW t \in Sockets, RecordChannelError(t) PROVE SlotInv'
  BY <1>16, NoSocketAssumption DEF RecordChannelError, SlotInv, LockInv, LockOwned, TypeOK, IsOpen, Goto
<1>17. ASSUME NEW t \in Sockets, ClearOnChannel(t) PROVE SlotInv'
  BY <1>17, NoSocketAssumption DEF ClearOnChannel, SlotInv, LockInv, LockOwned, TypeOK, IsOpen, Goto
<1>18. ASSUME NEW t \in Sockets, EndPipe(t) PROVE SlotInv'
  BY <1>18, NoSocketAssumption DEF EndPipe, SlotInv, LockInv, LockOwned, TypeOK, IsOpen, Goto
<1>19. ASSUME NEW t \in Sockets, Abort(t) PROVE SlotInv'
  BY <1>19, NoSocketAssumption DEF Abort, SlotInv, LockInv, LockOwned, TypeOK, IsOpen, Goto, AwaitPcs
<1>20. ASSUME NEW s \in Sockets, GoSilent(s) PROVE SlotInv'
  BY <1>20, NoSocketAssumption DEF GoSilent, SlotInv, LockInv, LockOwned, TypeOK, IsOpen, Goto
<1>21. ASSUME NEW s \in Sockets, Lose(s) PROVE SlotInv'
  BY <1>21, NoSocketAssumption DEF Lose, SlotInv, LockInv, LockOwned, TypeOK, IsOpen, Goto, Close
<1>22. ASSUME NEW s \in Sockets, KeepaliveExpires(s) PROVE SlotInv'
  BY <1>22, NoSocketAssumption DEF KeepaliveExpires, SlotInv, LockInv, LockOwned, TypeOK, IsOpen, Goto, Close
<1>23. ASSUME NEW s \in Sockets, Leave(s) PROVE SlotInv'
  BY <1>23, NoSocketAssumption DEF Leave, SlotInv, LockInv, LockOwned, TypeOK, IsOpen, Goto, Close, Unreferenced, InnerGone
<1>24. ASSUME NEW s \in Sockets, CallbackCheck(s) PROVE SlotInv'
  BY <1>24, NoSocketAssumption DEF CallbackCheck, SlotInv, LockInv, LockOwned, TypeOK, IsOpen, Goto
<1>25. ASSUME NEW s \in Sockets, CallbackRecord(s) PROVE SlotInv'
  BY <1>25, NoSocketAssumption DEF CallbackRecord, SlotInv, LockInv, LockOwned, TypeOK, IsOpen, Goto
<1>26. ASSUME DropAbort PROVE SlotInv'
  BY <1>26, NoSocketAssumption DEF DropAbort, SlotInv, LockInv, LockOwned, TypeOK, IsOpen, Goto
<1>27. ASSUME DropClosing PROVE SlotInv'
  BY <1>27, NoSocketAssumption DEF DropClosing, SlotInv, LockInv, LockOwned, TypeOK, IsOpen, Goto
<1>28. ASSUME DropTake PROVE SlotInv'
  BY <1>28, NoSocketAssumption DEF DropTake, SlotInv, LockInv, LockOwned, TypeOK, IsOpen, Goto
<1>29. ASSUME LoopEnds PROVE SlotInv'
  BY <1>29, NoSocketAssumption DEF LoopEnds, SlotInv, LockInv, LockOwned, TypeOK, IsOpen, Goto
<1>30. ASSUME UNCHANGED vars PROVE SlotInv'
  BY <1>30, NoSocketAssumption DEF vars, SlotInv, LockInv, LockOwned, TypeOK, IsOpen, Goto
<1> QED
  BY <1>1, <1>2, <1>3, <1>4, <1>5, <1>6, <1>7, <1>8, <1>9, <1>10, <1>11, <1>12, <1>13, <1>14, <1>15, <1>16, <1>17, <1>18, <1>19, <1>20, <1>21, <1>22, <1>23, <1>24, <1>25, <1>26, <1>27, <1>28, <1>29, <1>30
     DEF Next, Session, Connect, Forward, Callback, Drop, Stopped

(* A session's task and its callback agree with its state. *)
LEMMA SessStep == Inv /\ [Next]_vars => SessInv'
<1> SUFFICES ASSUME Inv, [Next]_vars PROVE SessInv'
  OBVIOUS
<1> USE DEF Inv, Pcs, DialPcs, ForwardPcs, taskVars, lockVars, sessVars, dropVars
<1>1. ASSUME NEW t \in Sockets, Accept(t) PROVE SessInv'
  BY <1>1 DEF Accept, SessInv, TypeOK, Goto
<1>2. ASSUME NEW t \in Sockets, ReadFailures(t) PROVE SessInv'
  BY <1>2 DEF ReadFailures, SessInv, TypeOK, Goto
<1>3. ASSUME NEW t \in Sockets, Enqueue(t) PROVE SessInv'
  BY <1>3 DEF Enqueue, SessInv, TypeOK, Goto
<1>4. ASSUME NEW t \in Sockets, ShareSession(t) PROVE SessInv'
  BY <1>4 DEF ShareSession, SessInv, TypeOK, Goto, Return, HasLock
<1>5. ASSUME NEW t \in Sockets, ShareFailure(t) PROVE SessInv'
  BY <1>5 DEF ShareFailure, SessInv, TypeOK, Goto, Return, HasLock
<1>6. ASSUME NEW t \in Sockets, Dial(t) PROVE SessInv'
  BY <1>6 DEF Dial, SessInv, TypeOK, Goto, HasLock
<1>7. ASSUME NEW t \in Sockets, ConnectOk(t) PROVE SessInv'
  BY <1>7 DEF ConnectOk, SessInv, TypeOK, Goto
<1>8. ASSUME NEW t \in Sockets, ConnectErr(t) PROVE SessInv'
  BY <1>8 DEF ConnectErr, SessInv, TypeOK, Goto
<1>9. ASSUME NEW t \in Sockets, RecordFailure(t) PROVE SessInv'
  BY <1>9 DEF RecordFailure, SessInv, TypeOK, Goto
<1>10. ASSUME NEW t \in Sockets, PublishFailure(t) PROVE SessInv'
  BY <1>10 DEF PublishFailure, SessInv, TypeOK, Goto, Return
<1>11. ASSUME NEW t \in Sockets, Establish(t) PROVE SessInv'
  BY <1>11 DEF Establish, SessInv, TypeOK, Goto
<1>12. ASSUME NEW t \in Sockets, ClearOnConnect(t) PROVE SessInv'
  BY <1>12 DEF ClearOnConnect, SessInv, TypeOK, Goto
<1>13. ASSUME NEW t \in Sockets, StoreSession(t) PROVE SessInv'
  BY <1>13 DEF StoreSession, SessInv, TypeOK, Goto, Return
<1>14. ASSUME NEW t \in Sockets, ChannelOk(t) PROVE SessInv'
  BY <1>14 DEF ChannelOk, SessInv, TypeOK, Goto
<1>15. ASSUME NEW t \in Sockets, ChannelErr(t) PROVE SessInv'
  BY <1>15 DEF ChannelErr, SessInv, TypeOK, Goto
<1>16. ASSUME NEW t \in Sockets, RecordChannelError(t) PROVE SessInv'
  BY <1>16 DEF RecordChannelError, SessInv, TypeOK, Goto
<1>17. ASSUME NEW t \in Sockets, ClearOnChannel(t) PROVE SessInv'
  BY <1>17 DEF ClearOnChannel, SessInv, TypeOK, Goto
<1>18. ASSUME NEW t \in Sockets, EndPipe(t) PROVE SessInv'
  BY <1>18 DEF EndPipe, SessInv, TypeOK, Goto
<1>19. ASSUME NEW t \in Sockets, Abort(t) PROVE SessInv'
  BY <1>19 DEF Abort, SessInv, TypeOK, Goto, AwaitPcs
<1>20. ASSUME NEW s \in Sockets, GoSilent(s) PROVE SessInv'
  BY <1>20 DEF GoSilent, SessInv, TypeOK, Goto
<1>21. ASSUME NEW s \in Sockets, Lose(s) PROVE SessInv'
  BY <1>21 DEF Lose, SessInv, TypeOK, Goto, Close
<1>22. ASSUME NEW s \in Sockets, KeepaliveExpires(s) PROVE SessInv'
  BY <1>22 DEF KeepaliveExpires, SessInv, TypeOK, Goto, Close
<1>23. ASSUME NEW s \in Sockets, Leave(s) PROVE SessInv'
  BY <1>23 DEF Leave, SessInv, TypeOK, Goto, Close, Unreferenced, InnerGone
<1>24. ASSUME NEW s \in Sockets, CallbackCheck(s) PROVE SessInv'
  BY <1>24 DEF CallbackCheck, SessInv, TypeOK, Goto
<1>25. ASSUME NEW s \in Sockets, CallbackRecord(s) PROVE SessInv'
  BY <1>25 DEF CallbackRecord, SessInv, TypeOK, Goto
<1>26. ASSUME DropAbort PROVE SessInv'
  BY <1>26 DEF DropAbort, SessInv, TypeOK, Goto
<1>27. ASSUME DropClosing PROVE SessInv'
  BY <1>27 DEF DropClosing, SessInv, TypeOK, Goto
<1>28. ASSUME DropTake PROVE SessInv'
  BY <1>28 DEF DropTake, SessInv, TypeOK, Goto
<1>29. ASSUME LoopEnds PROVE SessInv'
  BY <1>29 DEF LoopEnds, SessInv, TypeOK, Goto
<1>30. ASSUME UNCHANGED vars PROVE SessInv'
  BY <1>30 DEF vars, SessInv, TypeOK, Goto
<1> QED
  BY <1>1, <1>2, <1>3, <1>4, <1>5, <1>6, <1>7, <1>8, <1>9, <1>10, <1>11, <1>12, <1>13, <1>14, <1>15, <1>16, <1>17, <1>18, <1>19, <1>20, <1>21, <1>22, <1>23, <1>24, <1>25, <1>26, <1>27, <1>28, <1>29, <1>30
     DEF Next, Session, Connect, Forward, Callback, Drop, Stopped

(* The drop disconnects after it raised the flag. *)
LEMMA DropStep == Inv /\ [Next]_vars => DropInv'
<1> SUFFICES ASSUME Inv, [Next]_vars PROVE DropInv'
  OBVIOUS
<1> USE DEF Inv, Pcs, DialPcs, ForwardPcs, taskVars, lockVars, sessVars, dropVars
<1>1. ASSUME NEW t \in Sockets, Accept(t) PROVE DropInv'
  BY <1>1 DEF Accept, DropInv, TypeOK
<1>2. ASSUME NEW t \in Sockets, ReadFailures(t) PROVE DropInv'
  BY <1>2 DEF ReadFailures, DropInv, TypeOK
<1>3. ASSUME NEW t \in Sockets, Enqueue(t) PROVE DropInv'
  BY <1>3 DEF Enqueue, DropInv, TypeOK
<1>4. ASSUME NEW t \in Sockets, ShareSession(t) PROVE DropInv'
  BY <1>4 DEF ShareSession, DropInv, TypeOK, Return, HasLock
<1>5. ASSUME NEW t \in Sockets, ShareFailure(t) PROVE DropInv'
  BY <1>5 DEF ShareFailure, DropInv, TypeOK, Return, HasLock
<1>6. ASSUME NEW t \in Sockets, Dial(t) PROVE DropInv'
  BY <1>6 DEF Dial, DropInv, TypeOK, HasLock
<1>7. ASSUME NEW t \in Sockets, ConnectOk(t) PROVE DropInv'
  BY <1>7 DEF ConnectOk, DropInv, TypeOK
<1>8. ASSUME NEW t \in Sockets, ConnectErr(t) PROVE DropInv'
  BY <1>8 DEF ConnectErr, DropInv, TypeOK
<1>9. ASSUME NEW t \in Sockets, RecordFailure(t) PROVE DropInv'
  BY <1>9 DEF RecordFailure, DropInv, TypeOK
<1>10. ASSUME NEW t \in Sockets, PublishFailure(t) PROVE DropInv'
  BY <1>10 DEF PublishFailure, DropInv, TypeOK, Return
<1>11. ASSUME NEW t \in Sockets, Establish(t) PROVE DropInv'
  BY <1>11 DEF Establish, DropInv, TypeOK
<1>12. ASSUME NEW t \in Sockets, ClearOnConnect(t) PROVE DropInv'
  BY <1>12 DEF ClearOnConnect, DropInv, TypeOK
<1>13. ASSUME NEW t \in Sockets, StoreSession(t) PROVE DropInv'
  BY <1>13 DEF StoreSession, DropInv, TypeOK, Return
<1>14. ASSUME NEW t \in Sockets, ChannelOk(t) PROVE DropInv'
  BY <1>14 DEF ChannelOk, DropInv, TypeOK
<1>15. ASSUME NEW t \in Sockets, ChannelErr(t) PROVE DropInv'
  BY <1>15 DEF ChannelErr, DropInv, TypeOK
<1>16. ASSUME NEW t \in Sockets, RecordChannelError(t) PROVE DropInv'
  BY <1>16 DEF RecordChannelError, DropInv, TypeOK
<1>17. ASSUME NEW t \in Sockets, ClearOnChannel(t) PROVE DropInv'
  BY <1>17 DEF ClearOnChannel, DropInv, TypeOK
<1>18. ASSUME NEW t \in Sockets, EndPipe(t) PROVE DropInv'
  BY <1>18 DEF EndPipe, DropInv, TypeOK
<1>19. ASSUME NEW t \in Sockets, Abort(t) PROVE DropInv'
  BY <1>19 DEF Abort, DropInv, TypeOK, AwaitPcs
<1>20. ASSUME NEW s \in Sockets, GoSilent(s) PROVE DropInv'
  BY <1>20 DEF GoSilent, DropInv, TypeOK
<1>21. ASSUME NEW s \in Sockets, Lose(s) PROVE DropInv'
  BY <1>21 DEF Lose, DropInv, TypeOK, Close
<1>22. ASSUME NEW s \in Sockets, KeepaliveExpires(s) PROVE DropInv'
  BY <1>22 DEF KeepaliveExpires, DropInv, TypeOK, Close
<1>23. ASSUME NEW s \in Sockets, Leave(s) PROVE DropInv'
  BY <1>23 DEF Leave, DropInv, TypeOK, Close, Unreferenced, InnerGone
<1>24. ASSUME NEW s \in Sockets, CallbackCheck(s) PROVE DropInv'
  BY <1>24 DEF CallbackCheck, DropInv, TypeOK
<1>25. ASSUME NEW s \in Sockets, CallbackRecord(s) PROVE DropInv'
  BY <1>25 DEF CallbackRecord, DropInv, TypeOK
<1>26. ASSUME DropAbort PROVE DropInv'
  BY <1>26 DEF DropAbort, DropInv, TypeOK
<1>27. ASSUME DropClosing PROVE DropInv'
  BY <1>27 DEF DropClosing, DropInv, TypeOK
<1>28. ASSUME DropTake PROVE DropInv'
  BY <1>28 DEF DropTake, DropInv, TypeOK
<1>29. ASSUME LoopEnds PROVE DropInv'
  BY <1>29 DEF LoopEnds, DropInv, TypeOK
<1>30. ASSUME UNCHANGED vars PROVE DropInv'
  BY <1>30 DEF vars, DropInv, TypeOK
<1> QED
  BY <1>1, <1>2, <1>3, <1>4, <1>5, <1>6, <1>7, <1>8, <1>9, <1>10, <1>11, <1>12, <1>13, <1>14, <1>15, <1>16, <1>17, <1>18, <1>19, <1>20, <1>21, <1>22, <1>23, <1>24, <1>25, <1>26, <1>27, <1>28, <1>29, <1>30
     DEF Next, Session, Connect, Forward, Callback, Drop, Stopped

(* What the callbacks report is a loss. *)
LEMMA LossStep == Inv /\ [Next]_vars => LossInv'
<1> SUFFICES ASSUME Inv, [Next]_vars PROVE LossInv'
  OBVIOUS
<1> USE DEF Inv, Pcs, DialPcs, ForwardPcs, taskVars, lockVars, sessVars, dropVars
<1>1. ASSUME NEW t \in Sockets, Accept(t) PROVE LossInv'
  BY <1>1, NoSocketAssumption DEF Accept, LossInv, SessInv, DropInv, TypeOK, Goto, NoError, Error
<1>2. ASSUME NEW t \in Sockets, ReadFailures(t) PROVE LossInv'
  BY <1>2, NoSocketAssumption DEF ReadFailures, LossInv, SessInv, DropInv, TypeOK, Goto, NoError, Error
<1>3. ASSUME NEW t \in Sockets, Enqueue(t) PROVE LossInv'
  BY <1>3, NoSocketAssumption DEF Enqueue, LossInv, SessInv, DropInv, TypeOK, Goto, NoError, Error
<1>4. ASSUME NEW t \in Sockets, ShareSession(t) PROVE LossInv'
  BY <1>4, NoSocketAssumption DEF ShareSession, LossInv, SessInv, DropInv, TypeOK, Goto, NoError, Error, Return, HasLock
<1>5. ASSUME NEW t \in Sockets, ShareFailure(t) PROVE LossInv'
  BY <1>5, NoSocketAssumption DEF ShareFailure, LossInv, SessInv, DropInv, TypeOK, Goto, NoError, Error, Return, HasLock
<1>6. ASSUME NEW t \in Sockets, Dial(t) PROVE LossInv'
  BY <1>6, NoSocketAssumption DEF Dial, LossInv, SessInv, DropInv, TypeOK, Goto, NoError, Error, HasLock
<1>7. ASSUME NEW t \in Sockets, ConnectOk(t) PROVE LossInv'
  BY <1>7, NoSocketAssumption DEF ConnectOk, LossInv, SessInv, DropInv, TypeOK, Goto, NoError, Error
<1>8. ASSUME NEW t \in Sockets, ConnectErr(t) PROVE LossInv'
  BY <1>8, NoSocketAssumption DEF ConnectErr, LossInv, SessInv, DropInv, TypeOK, Goto, NoError, Error
<1>9. ASSUME NEW t \in Sockets, RecordFailure(t) PROVE LossInv'
  BY <1>9, NoSocketAssumption DEF RecordFailure, LossInv, SessInv, DropInv, TypeOK, Goto, NoError, Error
<1>10. ASSUME NEW t \in Sockets, PublishFailure(t) PROVE LossInv'
  BY <1>10, NoSocketAssumption DEF PublishFailure, LossInv, SessInv, DropInv, TypeOK, Goto, NoError, Error, Return
<1>11. ASSUME NEW t \in Sockets, Establish(t) PROVE LossInv'
  BY <1>11, NoSocketAssumption DEF Establish, LossInv, SessInv, DropInv, TypeOK, Goto, NoError, Error
<1>12. ASSUME NEW t \in Sockets, ClearOnConnect(t) PROVE LossInv'
  BY <1>12, NoSocketAssumption DEF ClearOnConnect, LossInv, SessInv, DropInv, TypeOK, Goto, NoError, Error
<1>13. ASSUME NEW t \in Sockets, StoreSession(t) PROVE LossInv'
  BY <1>13, NoSocketAssumption DEF StoreSession, LossInv, SessInv, DropInv, TypeOK, Goto, NoError, Error, Return
<1>14. ASSUME NEW t \in Sockets, ChannelOk(t) PROVE LossInv'
  BY <1>14, NoSocketAssumption DEF ChannelOk, LossInv, SessInv, DropInv, TypeOK, Goto, NoError, Error
<1>15. ASSUME NEW t \in Sockets, ChannelErr(t) PROVE LossInv'
  BY <1>15, NoSocketAssumption DEF ChannelErr, LossInv, SessInv, DropInv, TypeOK, Goto, NoError, Error
<1>16. ASSUME NEW t \in Sockets, RecordChannelError(t) PROVE LossInv'
  BY <1>16, NoSocketAssumption DEF RecordChannelError, LossInv, SessInv, DropInv, TypeOK, Goto, NoError, Error
<1>17. ASSUME NEW t \in Sockets, ClearOnChannel(t) PROVE LossInv'
  BY <1>17, NoSocketAssumption DEF ClearOnChannel, LossInv, SessInv, DropInv, TypeOK, Goto, NoError, Error
<1>18. ASSUME NEW t \in Sockets, EndPipe(t) PROVE LossInv'
  BY <1>18, NoSocketAssumption DEF EndPipe, LossInv, SessInv, DropInv, TypeOK, Goto, NoError, Error
<1>19. ASSUME NEW t \in Sockets, Abort(t) PROVE LossInv'
  BY <1>19, NoSocketAssumption DEF Abort, LossInv, SessInv, DropInv, TypeOK, Goto, NoError, Error, AwaitPcs
<1>20. ASSUME NEW s \in Sockets, GoSilent(s) PROVE LossInv'
  BY <1>20, NoSocketAssumption DEF GoSilent, LossInv, SessInv, DropInv, TypeOK, Goto, NoError, Error
<1>21. ASSUME NEW s \in Sockets, Lose(s) PROVE LossInv'
  BY <1>21, NoSocketAssumption DEF Lose, LossInv, SessInv, DropInv, TypeOK, Goto, NoError, Error, Close
<1>22. ASSUME NEW s \in Sockets, KeepaliveExpires(s) PROVE LossInv'
  BY <1>22, NoSocketAssumption DEF KeepaliveExpires, LossInv, SessInv, DropInv, TypeOK, Goto, NoError, Error, Close
<1>23. ASSUME NEW s \in Sockets, Leave(s) PROVE LossInv'
  BY <1>23, NoSocketAssumption DEF Leave, LossInv, SessInv, DropInv, TypeOK, Goto, NoError, Error, SlotInv, DropInv, IsOpen, Close, Unreferenced, InnerGone
<1>24. ASSUME NEW s \in Sockets, CallbackCheck(s) PROVE LossInv'
  BY <1>24, NoSocketAssumption DEF CallbackCheck, LossInv, SessInv, DropInv, TypeOK, Goto, NoError, Error
<1>25. ASSUME NEW s \in Sockets, CallbackRecord(s) PROVE LossInv'
  BY <1>25, NoSocketAssumption DEF CallbackRecord, LossInv, SessInv, DropInv, TypeOK, Goto, NoError, Error
<1>26. ASSUME DropAbort PROVE LossInv'
  BY <1>26, NoSocketAssumption DEF DropAbort, LossInv, SessInv, DropInv, TypeOK, Goto, NoError, Error
<1>27. ASSUME DropClosing PROVE LossInv'
  BY <1>27, NoSocketAssumption DEF DropClosing, LossInv, SessInv, DropInv, TypeOK, Goto, NoError, Error
<1>28. ASSUME DropTake PROVE LossInv'
  BY <1>28, NoSocketAssumption DEF DropTake, LossInv, SessInv, DropInv, TypeOK, Goto, NoError, Error
<1>29. ASSUME LoopEnds PROVE LossInv'
  BY <1>29, NoSocketAssumption DEF LoopEnds, LossInv, SessInv, DropInv, TypeOK, Goto, NoError, Error
<1>30. ASSUME UNCHANGED vars PROVE LossInv'
  BY <1>30, NoSocketAssumption DEF vars, LossInv, SessInv, DropInv, TypeOK, Goto, NoError, Error
<1> QED
  BY <1>1, <1>2, <1>3, <1>4, <1>5, <1>6, <1>7, <1>8, <1>9, <1>10, <1>11, <1>12, <1>13, <1>14, <1>15, <1>16, <1>17, <1>18, <1>19, <1>20, <1>21, <1>22, <1>23, <1>24, <1>25, <1>26, <1>27, <1>28, <1>29, <1>30
     DEF Next, Session, Connect, Forward, Callback, Drop, Stopped

(* The counter, the message and the answers go together. *)
LEMMA AnswerStep == Inv /\ [Next]_vars => AnswerInv'
<1> SUFFICES ASSUME Inv, [Next]_vars PROVE AnswerInv'
  OBVIOUS
<1> USE DEF Inv, Pcs, DialPcs, ForwardPcs, taskVars, lockVars, sessVars, dropVars
<1>1. ASSUME NEW t \in Sockets, Accept(t) PROVE AnswerInv'
  BY <1>1 DEF Accept, AnswerInv, TypeOK, Goto, NoAnswer, Answer
<1>2. ASSUME NEW t \in Sockets, ReadFailures(t) PROVE AnswerInv'
  BY <1>2 DEF ReadFailures, AnswerInv, TypeOK, Goto, NoAnswer, Answer
<1>3. ASSUME NEW t \in Sockets, Enqueue(t) PROVE AnswerInv'
  BY <1>3 DEF Enqueue, AnswerInv, TypeOK, Goto, NoAnswer, Answer
<1>4. ASSUME NEW t \in Sockets, ShareSession(t) PROVE AnswerInv'
  BY <1>4 DEF ShareSession, AnswerInv, TypeOK, Goto, NoAnswer, Answer, Return, HasLock
<1>5. ASSUME NEW t \in Sockets, ShareFailure(t) PROVE AnswerInv'
  BY <1>5 DEF ShareFailure, AnswerInv, TypeOK, Goto, NoAnswer, Answer, Return, HasLock
<1>6. ASSUME NEW t \in Sockets, Dial(t) PROVE AnswerInv'
  BY <1>6 DEF Dial, AnswerInv, TypeOK, Goto, NoAnswer, Answer, HasLock
<1>7. ASSUME NEW t \in Sockets, ConnectOk(t) PROVE AnswerInv'
  BY <1>7 DEF ConnectOk, AnswerInv, TypeOK, Goto, NoAnswer, Answer
<1>8. ASSUME NEW t \in Sockets, ConnectErr(t) PROVE AnswerInv'
  BY <1>8 DEF ConnectErr, AnswerInv, TypeOK, Goto, NoAnswer, Answer
<1>9. ASSUME NEW t \in Sockets, RecordFailure(t) PROVE AnswerInv'
  BY <1>9 DEF RecordFailure, AnswerInv, TypeOK, Goto, NoAnswer, Answer
<1>10. ASSUME NEW t \in Sockets, PublishFailure(t) PROVE AnswerInv'
  BY <1>10 DEF PublishFailure, AnswerInv, TypeOK, Goto, NoAnswer, Answer, Return
<1>11. ASSUME NEW t \in Sockets, Establish(t) PROVE AnswerInv'
  BY <1>11 DEF Establish, AnswerInv, TypeOK, Goto, NoAnswer, Answer
<1>12. ASSUME NEW t \in Sockets, ClearOnConnect(t) PROVE AnswerInv'
  BY <1>12 DEF ClearOnConnect, AnswerInv, TypeOK, Goto, NoAnswer, Answer
<1>13. ASSUME NEW t \in Sockets, StoreSession(t) PROVE AnswerInv'
  BY <1>13 DEF StoreSession, AnswerInv, TypeOK, Goto, NoAnswer, Answer, Return
<1>14. ASSUME NEW t \in Sockets, ChannelOk(t) PROVE AnswerInv'
  BY <1>14 DEF ChannelOk, AnswerInv, TypeOK, Goto, NoAnswer, Answer
<1>15. ASSUME NEW t \in Sockets, ChannelErr(t) PROVE AnswerInv'
  BY <1>15 DEF ChannelErr, AnswerInv, TypeOK, Goto, NoAnswer, Answer
<1>16. ASSUME NEW t \in Sockets, RecordChannelError(t) PROVE AnswerInv'
  BY <1>16 DEF RecordChannelError, AnswerInv, TypeOK, Goto, NoAnswer, Answer
<1>17. ASSUME NEW t \in Sockets, ClearOnChannel(t) PROVE AnswerInv'
  BY <1>17 DEF ClearOnChannel, AnswerInv, TypeOK, Goto, NoAnswer, Answer
<1>18. ASSUME NEW t \in Sockets, EndPipe(t) PROVE AnswerInv'
  BY <1>18 DEF EndPipe, AnswerInv, TypeOK, Goto, NoAnswer, Answer
<1>19. ASSUME NEW t \in Sockets, Abort(t) PROVE AnswerInv'
  BY <1>19 DEF Abort, AnswerInv, TypeOK, Goto, NoAnswer, Answer, AwaitPcs
<1>20. ASSUME NEW s \in Sockets, GoSilent(s) PROVE AnswerInv'
  BY <1>20 DEF GoSilent, AnswerInv, TypeOK, Goto, NoAnswer, Answer
<1>21. ASSUME NEW s \in Sockets, Lose(s) PROVE AnswerInv'
  BY <1>21 DEF Lose, AnswerInv, TypeOK, Goto, NoAnswer, Answer, Close
<1>22. ASSUME NEW s \in Sockets, KeepaliveExpires(s) PROVE AnswerInv'
  BY <1>22 DEF KeepaliveExpires, AnswerInv, TypeOK, Goto, NoAnswer, Answer, Close
<1>23. ASSUME NEW s \in Sockets, Leave(s) PROVE AnswerInv'
  BY <1>23 DEF Leave, AnswerInv, TypeOK, Goto, NoAnswer, Answer, Close, Unreferenced, InnerGone
<1>24. ASSUME NEW s \in Sockets, CallbackCheck(s) PROVE AnswerInv'
  BY <1>24 DEF CallbackCheck, AnswerInv, TypeOK, Goto, NoAnswer, Answer
<1>25. ASSUME NEW s \in Sockets, CallbackRecord(s) PROVE AnswerInv'
  BY <1>25 DEF CallbackRecord, AnswerInv, TypeOK, Goto, NoAnswer, Answer
<1>26. ASSUME DropAbort PROVE AnswerInv'
  BY <1>26 DEF DropAbort, AnswerInv, TypeOK, Goto, NoAnswer, Answer
<1>27. ASSUME DropClosing PROVE AnswerInv'
  BY <1>27 DEF DropClosing, AnswerInv, TypeOK, Goto, NoAnswer, Answer
<1>28. ASSUME DropTake PROVE AnswerInv'
  <2>1. slot'.failure = slot.failure
    BY <1>28 DEF DropTake, TypeOK
  <2> QED
    BY <1>28, <2>1 DEF DropTake, AnswerInv
<1>29. ASSUME LoopEnds PROVE AnswerInv'
  BY <1>29 DEF LoopEnds, AnswerInv, TypeOK, Goto, NoAnswer, Answer
<1>30. ASSUME UNCHANGED vars PROVE AnswerInv'
  BY <1>30 DEF vars, AnswerInv, TypeOK, Goto, NoAnswer, Answer
<1> QED
  BY <1>1, <1>2, <1>3, <1>4, <1>5, <1>6, <1>7, <1>8, <1>9, <1>10, <1>11, <1>12, <1>13, <1>14, <1>15, <1>16, <1>17, <1>18, <1>19, <1>20, <1>21, <1>22, <1>23, <1>24, <1>25, <1>26, <1>27, <1>28, <1>29, <1>30
     DEF Next, Session, Connect, Forward, Callback, Drop, Stopped

-----------------------------------------------------------------------------
(* The inductive invariant holds in every reachable state. *)
THEOREM Invariant == Spec => []Inv
<1>1. ASSUME Init PROVE Inv
  <2>1. TypeOK
    <3>1. waiters \in Seq(Sockets)
      BY <1>1 DEF Init
    <3> QED
      BY <1>1, <3>1 DEF Init, TypeOK, Pcs, NoAnswer, NoError
  <2>2. LockInv
    BY <1>1 DEF Init, LockInv, LockOwned, QueueOK, DialPcs
  <2> QED
    BY <1>1, <2>1, <2>2 DEF Init, Inv, SlotInv, SessInv, DropInv, LossInv, AnswerInv, IsOpen,
                            NoError, NoAnswer, DialPcs, ForwardPcs
<1>2. Inv /\ [Next]_vars => Inv'
  BY TypeStep, LockStep, SlotStep, SessStep, DropStep, LossStep, AnswerStep DEF Inv
<1> QED
  BY <1>1, <1>2, PTL DEF Spec

(* The session lock is owned by a live task: cancellation leaks no permit. *)
THEOREM LockAlwaysOwned == Spec => []LockOwned
  BY Invariant, PTL DEF Inv, LockInv

(* Two tasks never dial at once, for any number of sockets. *)
THEOREM AlwaysSingleFlight == Spec => []SingleFlight
<1>1. Inv => SingleFlight
  BY DEF Inv, LockInv, LockOwned, SingleFlight
<1> QED
  BY <1>1, Invariant, PTL

(* Until the drop takes the session, at most one session is open. *)
THEOREM AlwaysOneSession == Spec => []OneSession
<1>1. Inv => OneSession
  <2> SUFFICES ASSUME Inv, handle # "down", NEW s \in Sockets, NEW r \in Sockets,
                      IsOpen(s), IsOpen(r)
               PROVE  s = r
    BY DEF OneSession
  <2> QED
    BY NoSocketAssumption DEF Inv, SlotInv, LockInv, LockOwned, DialPcs
<1> QED
  BY <1>1, Invariant, PTL

(* A reported loss is the loss of an established session, not a shutdown. *)
THEOREM LossAlwaysGenuine == Spec => []LossIsGenuine
<1>1. Inv => LossIsGenuine
  BY DEF Inv, LossInv, LossIsGenuine
<1> QED
  BY <1>1, Invariant, PTL

-----------------------------------------------------------------------------
(* The tunnel implements SharedConnect: whatever the lock, the counter and *)
(* the error bookkeeping do, callers see one shared connect attempt and    *)
(* its outcome.  Each action of the tunnel is one action of SharedConnect  *)
(* or changes nothing a caller can tell.                                   *)

(* What a step must leave alone for callers to tell nothing. *)
SameCalls == \A t \in Sockets : CallOf(t)' = CallOf(t) /\ ToldOf(t)' = ToldOf(t)
SameLink == linkBar' = linkBar

(* A step that changes neither what callers see nor the link is a stutter. *)
LEMMA Stutter == SameCalls /\ SameLink => UNCHANGED Shared!vars
  BY DEF SameCalls, SameLink, Shared!vars, callBar, toldBar

(* Others are not disturbed by a task's move. *)
LEMMA OthersSame ==
  ASSUME TypeOK, NEW t \in Sockets, NEW l, Goto(t, l),
         UNCHANGED <<seen, failures>>, slot'.failure = slot.failure,
         \/ UNCHANGED answer
         \/ \E a : answer' = [answer EXCEPT ![t] = a]
  PROVE  \A u \in Sockets : u # t => CallOf(u)' = CallOf(u) /\ ToldOf(u)' = ToldOf(u)
  BY DEF Goto, TypeOK, Outcome, CallOf, ToldOf, Told, Asking

(* The link changes only with the slot's session or that session's state. *)
LEMMA LinkSame ==
  ASSUME slot'.session = slot.session,
         slot.session # NoSocket => (IsOpen(slot.session)' <=> IsOpen(slot.session))
  PROVE  SameLink
  BY DEF SameLink, linkBar, IsOpen

(* At most the lock's owner is dialling. *)
LEMMA OneDialing ==
  ASSUME Inv, holder # NoSocket => pc[holder] = "queued"
  PROVE  Shared!Dialing = {}
<1>1. \A t \in Sockets : pc[t] \notin DialPcs
  BY NoSocketAssumption DEF Inv, LockInv, LockOwned, DialPcs
<1>2. \A t \in Sockets : CallOf(t) # "dialing"
  BY <1>1 DEF CallOf, Outcome
<1> QED
  BY <1>2 DEF Shared!Dialing, callBar

(* Reading the counter is Ask. *)
LEMMA AskStep ==
  ASSUME Inv, NEW t \in Sockets, ReadFailures(t)
  PROVE  Shared!Ask(t)
<1> USE DEF Inv, taskVars, lockVars, sessVars, dropVars
<1>1. pc' = [pc EXCEPT ![t] = "locking"] /\ seen' = [seen EXCEPT ![t] = failures] /\ pc[t] = "spawned"
  BY DEF ReadFailures, Goto
<1>2. CallOf(t) = "idle" /\ CallOf(t)' = "asking" /\ ToldOf(t) = NoSocket /\ ToldOf(t)' = NoSocket
  BY <1>1 DEF ReadFailures, Outcome, CallOf, ToldOf, Told, Asking, DialPcs, TypeOK, AnswerInv, NoAnswer
<1>3. \A u \in Sockets : u # t => CallOf(u)' = CallOf(u) /\ ToldOf(u)' = ToldOf(u)
  BY <1>1 DEF ReadFailures, Outcome, CallOf, ToldOf, Told, Asking, TypeOK
<1>4. SameLink
  BY LinkSame DEF ReadFailures, IsOpen
<1> QED
  BY <1>2, <1>3, <1>4 DEF Shared!Ask, callBar, toldBar, SameLink

(* Sharing the open session is Join. *)
LEMMA JoinStep ==
  ASSUME Inv, NEW t \in Sockets, ShareSession(t)
  PROVE  Shared!Join(t)
<1> USE DEF Inv, taskVars, lockVars, sessVars, dropVars
<1>1. Goto(t, "opening") /\ answer' = [answer EXCEPT ![t] = Answer("session", slot.session)] /\ pc[t] = "queued"
  BY DEF ShareSession, Return, HasLock
<1>2. CallOf(t) = "asking" /\ CallOf(t)' = "served" /\ ToldOf(t)' = NoSocket
  BY <1>1 DEF Outcome, CallOf, ToldOf, Asking, DialPcs, TypeOK, Goto, Answer
<1>3. \A u \in Sockets : u # t => CallOf(u)' = CallOf(u) /\ ToldOf(u)' = ToldOf(u)
  BY <1>1, OthersSame DEF ShareSession
<1>4. SameLink
  BY LinkSame DEF ShareSession, IsOpen
<1>5. linkBar = "up"
  BY NoSocketAssumption DEF ShareSession, linkBar, IsOpen
<1> QED
  BY <1>2, <1>3, <1>4, <1>5 DEF Shared!Join, callBar, toldBar, SameLink

(* Sharing a failure is Refuse. *)
LEMMA RefuseStep ==
  ASSUME Inv, NEW t \in Sockets, ShareFailure(t)
  PROVE  Shared!Refuse(t)
<1> USE DEF Inv, taskVars, lockVars, sessVars, dropVars
<1>1. Goto(t, "done") /\ answer' = [answer EXCEPT ![t] = Answer("unavailable", slot.failure)] /\ pc[t] = "queued"
  BY DEF ShareFailure, Return, HasLock
<1>2. failures # seen[t] /\ slot.failure \in Sockets
  BY DEF ShareFailure, AnswerInv, TypeOK
<1>3. CallOf(t) = "asking" /\ CallOf(t)' = "refused" /\ ToldOf(t) = slot.failure /\ ToldOf(t)' = slot.failure
  <2>1. pc'[t] = "done" /\ answer'[t] = Answer("unavailable", slot.failure)
    BY <1>1 DEF Goto, TypeOK
  <2>2. CallOf(t) = "asking" /\ ToldOf(t) = Told(t)
    BY <1>1 DEF Outcome, CallOf, ToldOf, Asking
  <2>3. CallOf(t)' = "refused" /\ ToldOf(t)' = slot.failure
    BY <2>1 DEF Outcome, CallOf, ToldOf, Asking, DialPcs, Answer
  <2> QED
    BY <1>2, <2>2, <2>3 DEF Told
<1>4. \A u \in Sockets : u # t => CallOf(u)' = CallOf(u) /\ ToldOf(u)' = ToldOf(u)
  BY <1>1, OthersSame DEF ShareFailure
<1>5. SameLink /\ linkBar = "down"
  <2>1. slot.session = NoSocket /\ slot' = slot
    BY DEF ShareFailure
  <2>2. SameLink
    BY <2>1, LinkSame
  <2>3. linkBar = "down"
    BY <2>1 DEF linkBar
  <2> QED
    BY <2>2, <2>3
<1>6. Shared!Dialing = {}
  BY <1>1, OneDialing DEF ShareFailure, HasLock
<1> QED
  BY <1>2, <1>3, <1>4, <1>5, <1>6, NoSocketAssumption DEF Shared!Refuse, callBar, toldBar, SameLink

(* Starting a dial, which forgets a lost session, is Dial. *)
LEMMA DialStep ==
  ASSUME Inv, NEW t \in Sockets, Dial(t)
  PROVE  Shared!Dial(t)
<1> USE DEF Inv, taskVars, lockVars, sessVars, dropVars
<1>1. Goto(t, "dialing") /\ pc[t] = "queued" /\ holder = t
  BY DEF Dial, HasLock
<1>2. slot'.session = NoSocket /\ slot'.failure = slot.failure
  BY DEF Dial, TypeOK
<1>3. CallOf(t) = "asking" /\ CallOf(t)' = "dialing" /\ ToldOf(t)' = ToldOf(t)
  BY <1>1, <1>2 DEF Dial, Outcome, CallOf, ToldOf, Told, Asking, DialPcs, TypeOK, Goto
<1>4. \A u \in Sockets : u # t => CallOf(u)' = CallOf(u) /\ ToldOf(u)' = ToldOf(u)
  BY <1>1, <1>2, OthersSame DEF Dial
<1>5. linkBar' = "down" /\ linkBar # "up"
  BY <1>2, NoSocketAssumption DEF Dial, linkBar, IsOpen
<1>6. linkBar = "down" => ToldOf(t) = NoSocket
  <2>1. linkBar = "down" => slot.session = NoSocket
    BY DEF linkBar
  <2>2. ToldOf(t) = Told(t)
    BY <1>1 DEF ToldOf, Asking
  <2> QED
    BY <2>1, <2>2 DEF Dial, Told
<1>7. Shared!Dialing = {}
  BY <1>1, OneDialing
<1> QED
  BY <1>3, <1>4, <1>5, <1>6, <1>7 DEF Shared!Dial, callBar, toldBar

(* Publishing a failure, which moves the counter, is DialFails. *)
LEMMA DialFailsStep ==
  ASSUME Inv, NEW t \in Sockets, PublishFailure(t)
  PROVE  Shared!DialFails(t)
<1> USE DEF Inv, taskVars, lockVars, sessVars, dropVars
<1>1. /\ Goto(t, "done") /\ answer' = [answer EXCEPT ![t] = Answer("error", t)]
      /\ pc[t] = "publishing" /\ seen' = seen /\ failures' = failures + 1
  BY DEF PublishFailure, Return
<1>2. slot'.session = slot.session /\ slot'.failure = t
  BY DEF PublishFailure, TypeOK
<1>3. CallOf(t) = "dialing" /\ CallOf(t)' = "refused" /\ ToldOf(t)' = t
  BY <1>1 DEF Outcome, CallOf, ToldOf, Asking, DialPcs, TypeOK, Goto, Answer
<1>4. ASSUME NEW u \in Sockets, u # t
      PROVE  /\ CallOf(u)' = CallOf(u)
             /\ ToldOf(u)' = IF CallOf(u) \in {"asking", "dialing"} THEN t ELSE ToldOf(u)
  <2>1. pc'[u] = pc[u] /\ answer'[u] = answer[u]
    BY <1>1, <1>4 DEF Goto, TypeOK
  <2>2. Told(u)' = t
    <3>1. seen[u] \in Nat /\ failures \in Nat /\ seen[u] <= failures
      BY DEF TypeOK, AnswerInv
    <3> QED
      BY <1>1, <1>2, <3>1 DEF Told
  <2>3. CallOf(u)' = CallOf(u)
    BY <2>1 DEF Outcome, CallOf
  <2>4. CASE pc[u] \in Asking \cup DialPcs
    <3>1. CallOf(u) \in {"asking", "dialing"} /\ ToldOf(u)' = Told(u)'
      <4>1. CallOf(u) \in {"asking", "dialing"}
        BY <2>4 DEF Outcome, CallOf, Asking, DialPcs
      <4>2. ToldOf(u)' = Told(u)'
        BY <2>1, <2>4 DEF ToldOf
      <4> QED
        BY <4>1, <4>2
    <3> QED
      BY <2>2, <2>3, <3>1
  <2>5. CASE pc[u] \notin Asking \cup DialPcs
    <3>1. CallOf(u) \notin {"asking", "dialing"} /\ ToldOf(u)' = ToldOf(u)
      BY <2>1, <2>5 DEF Outcome, CallOf, ToldOf
    <3> QED
      BY <2>3, <3>1
  <2> QED
    BY <2>4, <2>5
<1>5. SameLink
  BY <1>2, LinkSame DEF PublishFailure, IsOpen
<1> QED
  BY <1>3, <1>4, <1>5 DEF Shared!DialFails, callBar, toldBar, SameLink

(* Storing the session is DialSucceeds. *)
LEMMA DialSucceedsStep ==
  ASSUME Inv, NEW t \in Sockets, StoreSession(t)
  PROVE  Shared!DialSucceeds(t)
<1> USE DEF Inv, taskVars, lockVars, sessVars, dropVars
<1>1. Goto(t, "opening") /\ answer' = [answer EXCEPT ![t] = Answer("session", t)] /\ pc[t] = "storing"
  BY DEF StoreSession, Return
<1>2. slot'.session = t /\ slot'.failure = slot.failure
  BY DEF StoreSession, TypeOK
<1>3. CallOf(t) = "dialing" /\ CallOf(t)' = "served" /\ ToldOf(t)' = NoSocket
  BY <1>1 DEF Outcome, CallOf, ToldOf, Asking, DialPcs, TypeOK, Goto, Answer
<1>4. \A u \in Sockets : u # t => CallOf(u)' = CallOf(u) /\ ToldOf(u)' = ToldOf(u)
  BY <1>1, <1>2, OthersSame DEF StoreSession
<1>5. linkBar' \in {"up", "lost"}
  BY <1>2, NoSocketAssumption DEF linkBar
<1> QED
  BY <1>3, <1>4, <1>5 DEF Shared!DialSucceeds, callBar, toldBar

(* A cancelled task abandons its call, or had left it already. *)
LEMMA AbortStep ==
  ASSUME Inv, NEW t \in Sockets, Abort(t)
  PROVE  Shared!Abandon(t) \/ UNCHANGED Shared!vars
<1> USE DEF Inv, taskVars, lockVars, sessVars, dropVars
<1>1. Goto(t, "done") /\ UNCHANGED <<seen, failures, answer, slot>>
  BY DEF Abort
<1>2. \A u \in Sockets : u # t => CallOf(u)' = CallOf(u) /\ ToldOf(u)' = ToldOf(u)
  BY <1>1, OthersSame
<1>3. SameLink
  <2>1. CASE pc[t] = "dialing"
    BY <1>1, <2>1, LinkSame DEF SlotInv, DialPcs
  <2>2. CASE pc[t] # "dialing"
    BY <1>1, <2>2, LinkSame DEF Abort, IsOpen
  <2> QED
    BY <2>1, <2>2
<1>4. CASE pc[t] \in {"spawned", "queued", "dialing"}
  <2>1. CallOf(t) \in {"idle", "asking", "dialing"} /\ CallOf(t)' = "gone" /\ ToldOf(t)' = NoSocket
    BY <1>1, <1>4 DEF Outcome, CallOf, ToldOf, Asking, DialPcs, TypeOK, Goto, AnswerInv, NoAnswer
  <2> QED
    BY <1>2, <1>3, <2>1 DEF Shared!Abandon, callBar, toldBar, SameLink
<1>5. CASE pc[t] \in {"opening", "piping"}
  <2>1. CallOf(t)' = CallOf(t) /\ ToldOf(t)' = ToldOf(t)
    BY <1>1, <1>5 DEF Outcome, CallOf, ToldOf, Asking, DialPcs, TypeOK, Goto
  <2> QED
    BY <1>2, <1>3, <2>1, Stutter DEF SameCalls
<1> QED
  BY <1>4, <1>5 DEF Abort, AwaitPcs

(* A session ends: callers can tell when it is the shared one. *)
LEMMA CloseStep ==
  ASSUME Inv, NEW s \in Sockets, NEW how \in {"lost", "left"}, IsOpen(s), Close(s, how)
  PROVE  Shared!Lose \/ UNCHANGED Shared!vars
<1> USE DEF Inv, taskVars, lockVars, sessVars, dropVars
<1>1. SameCalls
  BY DEF Close, SameCalls, Outcome, CallOf, ToldOf, Told
<1>2. CASE slot.session = s
  <2>1. linkBar = "up" /\ linkBar' = "lost"
    BY <1>2, NoSocketAssumption DEF Close, linkBar, IsOpen, TypeOK
  <2> QED
    BY <1>1, <2>1 DEF Shared!Lose, SameCalls, callBar, toldBar
<1>3. CASE slot.session # s
  <2>1. SameLink
    BY <1>3, LinkSame DEF Close, IsOpen, TypeOK
  <2> QED
    BY <1>1, <2>1, Stutter
<1> QED
  BY <1>2, <1>3

(* The drop taking the session is LetGo, or nothing when there is none. *)
LEMMA LetGoStep ==
  ASSUME Inv, DropTake
  PROVE  Shared!LetGo \/ UNCHANGED Shared!vars
<1> USE DEF Inv, taskVars, lockVars, sessVars, dropVars
<1>1. slot'.failure = slot.failure
  BY DEF DropTake, TypeOK
<1>2. SameCalls
  BY <1>1 DEF DropTake, SameCalls, Outcome, CallOf, ToldOf, Told
<1>3. CASE holder = NoSocket /\ slot.session # NoSocket
  <2>1. linkBar # "down" /\ linkBar' = "down"
    <3>1. slot'.session = NoSocket
      BY <1>3 DEF DropTake, TypeOK
    <3>2. linkBar' = "down"
      BY <3>1 DEF linkBar
    <3>3. linkBar # "down"
      BY <1>3 DEF linkBar
    <3> QED
      BY <3>2, <3>3
  <2>2. Shared!Dialing = {}
    BY <1>3, OneDialing
  <2> QED
    BY <1>2, <2>1, <2>2 DEF Shared!LetGo, SameCalls, callBar, toldBar
<1>4. CASE ~(holder = NoSocket /\ slot.session # NoSocket)
  BY <1>2, <1>4, Stutter, LinkSame DEF DropTake, IsOpen
<1> QED
  BY <1>3, <1>4

(* The tunnel's own steps, which callers cannot tell. *)
LEMMA TaskStutter ==
  ASSUME Inv, NEW t \in Sockets,
         \/ Accept(t) \/ Enqueue(t) \/ ConnectOk(t) \/ ConnectErr(t) \/ RecordFailure(t)
         \/ Establish(t) \/ ClearOnConnect(t) \/ Forward(t)
  PROVE  UNCHANGED Shared!vars
<1> USE DEF Inv, taskVars, lockVars, sessVars, dropVars
<1>1. PICK l : Goto(t, l) /\ \/ pc[t] = "unborn" /\ l = "spawned"
                             \/ pc[t] = "locking" /\ l = "queued"
                             \/ pc[t] \in DialPcs /\ l \in DialPcs
                             \/ pc[t] \in ForwardPcs /\ l \in ForwardPcs \cup {"done"}
  BY DEF Accept, Enqueue, ConnectOk, ConnectErr, RecordFailure, Establish, ClearOnConnect, Forward,
         ChannelOk, ChannelErr, RecordChannelError, ClearOnChannel, EndPipe, DialPcs, ForwardPcs
<1>2. UNCHANGED <<seen, answer, slot, failures>>
  BY DEF Accept, Enqueue, ConnectOk, ConnectErr, RecordFailure, Establish, ClearOnConnect, Forward,
         ChannelOk, ChannelErr, RecordChannelError, ClearOnChannel, EndPipe
<1>3. sess' = sess \/ slot.session = NoSocket
  BY DEF Accept, Enqueue, ConnectOk, ConnectErr, RecordFailure, Establish, ClearOnConnect, Forward,
         ChannelOk, ChannelErr, RecordChannelError, ClearOnChannel, EndPipe, SlotInv, DialPcs
<1>4. CallOf(t)' = CallOf(t) /\ ToldOf(t)' = ToldOf(t)
  BY <1>1, <1>2 DEF Goto, TypeOK, Outcome, CallOf, ToldOf, Told, Asking, DialPcs, ForwardPcs
<1>5. SameCalls
  BY <1>1, <1>2, <1>4, OthersSame DEF SameCalls
<1>6. SameLink
  BY <1>2, <1>3, LinkSame DEF IsOpen
<1> QED
  BY <1>5, <1>6, Stutter

(* Silence, callbacks and the other steps of the drop are invisible. *)
LEMMA OtherStutter ==
  ASSUME Inv,
         \/ \E s \in Sockets : GoSilent(s) \/ Callback(s)
         \/ DropAbort \/ DropClosing \/ LoopEnds \/ UNCHANGED vars
  PROVE  UNCHANGED Shared!vars
<1> USE DEF Inv, taskVars, lockVars, sessVars, dropVars
<1>1. UNCHANGED <<pc, seen, answer, slot, failures>>
  BY DEF GoSilent, Callback, CallbackCheck, CallbackRecord, DropAbort, DropClosing, LoopEnds, vars
<1>2. \A s \in Sockets : IsOpen(s)' <=> IsOpen(s)
  BY DEF GoSilent, Callback, CallbackCheck, CallbackRecord, DropAbort, DropClosing, LoopEnds, vars,
         IsOpen, TypeOK
<1>3. SameCalls
  BY <1>1 DEF SameCalls, Outcome, CallOf, ToldOf, Told
<1>4. SameLink
  BY <1>1, <1>2, LinkSame DEF TypeOK
<1> QED
  BY <1>3, <1>4, Stutter

(* Every step of the tunnel is a step of SharedConnect or a stutter.       *)
LEMMA StepRefines == Inv /\ [Next]_vars => [Shared!Next]_Shared!vars
<1> SUFFICES ASSUME Inv, [Next]_vars PROVE Shared!Next \/ UNCHANGED Shared!vars
  OBVIOUS
<1>1. ASSUME NEW t \in Sockets, Session(t) PROVE Shared!Next \/ UNCHANGED Shared!vars
  BY <1>1, AskStep, JoinStep, RefuseStep, DialStep, DialFailsStep, DialSucceedsStep, TaskStutter
     DEF Session, Shared!Next
<1>2. ASSUME NEW t \in Sockets, Accept(t) \/ Connect(t) \/ Forward(t)
      PROVE  UNCHANGED Shared!vars
  BY <1>2, TaskStutter DEF Connect
<1>3. ASSUME NEW t \in Sockets, Abort(t) PROVE Shared!Next \/ UNCHANGED Shared!vars
  BY <1>3, AbortStep DEF Shared!Next
<1>4. ASSUME NEW s \in Sockets, Lose(s) \/ KeepaliveExpires(s) \/ Leave(s)
      PROVE  Shared!Next \/ UNCHANGED Shared!vars
  BY <1>4, CloseStep DEF Lose, KeepaliveExpires, Leave, IsOpen, Shared!Next
<1>5. ASSUME DropTake PROVE Shared!Next \/ UNCHANGED Shared!vars
  BY <1>5, LetGoStep DEF Shared!Next
<1> QED
  BY <1>1, <1>2, <1>3, <1>4, <1>5, OtherStutter DEF Next, Drop, Stopped

(* The tunnel implements SharedConnect, for any number of sockets.         *)
THEOREM Refinement == Spec => ImplementsSharedConnect
<1>1. ASSUME Init PROVE Shared!Init
  <2>1. \A t \in Sockets : CallOf(t) = "idle"
    BY <1>1 DEF Init, CallOf
  <2>2. \A t \in Sockets : ToldOf(t) = NoSocket
    BY <1>1 DEF Init, ToldOf, Asking, DialPcs, NoAnswer
  <2>3. linkBar = "down"
    BY <1>1 DEF Init, linkBar
  <2> QED
    BY <2>1, <2>2, <2>3 DEF Shared!Init, callBar, toldBar
<1> QED
  BY <1>1, Invariant, StepRefines, PTL DEF Spec, ImplementsSharedConnect, Shared!Spec
=============================================================================
