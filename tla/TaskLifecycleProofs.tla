-------------------------- MODULE TaskLifecycleProofs --------------------------
(***************************************************************************)
(* Proofs about TaskLifecycle for every set of tasks, of any types, and    *)
(* every number of faults: no two syncs of a base, no lock and no Started  *)
(* row left behind, outcomes that only a revoke overwrites.                *)
(*                                                                         *)
(* All of them rest on the order in which a task goes through its stages:  *)
(* it is executed at most once, because its message is sent once and taken *)
(* out of the broker by its execution.                                     *)
(***************************************************************************)
EXTENDS TaskLifecycle, TLAPS

\* At most one user holds the lock of the base.
OneUser == \A u, v \in holders[Base] : u = v

\* What has left the broker does not come back.
SentOnce ==
  \A t \in Tasks :
    /\ t \in queue => worker[t] = "none" /\ request[t] \in {"dispatched", "done"}
    /\ worker[t] # "none" => request[t] \in {"dispatched", "done"}

\* An execution that died is over.
OrphansAreOver ==
  \A t \in Tasks : Run(t) \in orphans =>
     /\ worker[t] = "none" /\ t \notin queue
     /\ request[t] \in {"dispatched", "done"}

\* A request that died is over.
OrphanRequestsAreOver == \A t \in Tasks : Ask(t) \in orphans => request[t] = "done"

\* The body of a sync has the lock until it outlives the TTL.
SyncHasLock ==
  \A t \in Tasks : type[t] = "SyncRecords" /\ worker[t] = "body" =>
     Run(t) \in holders[Base] \/ t \in overran

\* Only syncs ask for the lock.
LockForSyncs ==
  \A t \in Tasks : worker[t] = "locking" \/ Run(t) \in holders[Base] =>
     type[t] = "SyncRecords"

\* Nothing is revoked that nobody asked to revoke.
RevokesAreAsked == \A t \in Tasks : t \in orders \cup discard => revoker[t] # "none"

\* Before its request a task has no row that could be revoked or deleted.
RowsAreRequested ==
  \A t \in Tasks : request[t] = "none" =>
     /\ status[t] = "absent" /\ revoker[t] = "none"
     /\ \A u \in Tasks : t \notin doomed[u]

\* An execution that is closing has its final status.
ClosingIsFinal == \A t \in Tasks : worker[t] = "closing" => status[t] # "Started"

\* A final status comes after everything that could change it, but a revoke.
FinalIsLast ==
  \A t \in Tasks : status[t] \in Final => \/ revoker[t] # "none"
                                          \/ /\ request[t] \in {"dispatched", "done"}
                                             /\ t \notin queue
                                             /\ worker[t] \in {"none", "closing"}

\* The inductive invariant.
TaskInv == /\ TypeOK
           /\ OneUser /\ SentOnce
           /\ OrphansAreOver /\ OrphanRequestsAreOver
           /\ LockForSyncs /\ SyncHasLock /\ LockHasUser
           /\ RevokesAreAsked /\ RowsAreRequested
           /\ ClosingIsFinal /\ StartedIsRunning
           /\ FinalIsLast

-------------------------------------------------------------------------------
\* The lock users of tasks are told apart by their kind and their task.
LEMMA UsersDiffer ==
  /\ \A t \in Tasks : Run(t) \in Users /\ Ask(t) \in Users
  /\ \A t, u \in Tasks : Run(t) # Ask(u)
  /\ \A t, u \in Tasks : Run(t) = Run(u) => t = u
  /\ \A t, u \in Tasks : Ask(t) = Ask(u) => t = u
  BY DEF Run, Ask, Users

\* The initial states satisfy the invariant.
LEMMA InitTaskInv == Init => TaskInv
  <1> SUFFICES ASSUME Init PROVE TaskInv
    OBVIOUS
  <1> USE DEF Init, SyncLock!Init
  <1>1. TypeOK
    BY TasksAssumption DEF TypeOK, NoRow, Rows
  <1>2. OneUser
    BY DEF OneUser
  <1>3. SentOnce /\ OrphansAreOver /\ OrphanRequestsAreOver
    BY DEF SentOnce, OrphansAreOver, OrphanRequestsAreOver
  <1>4. LockForSyncs /\ SyncHasLock /\ LockHasUser
    BY DEF LockForSyncs, SyncHasLock, LockHasUser
  <1>5. RevokesAreAsked /\ RowsAreRequested
    BY DEF RevokesAreAsked, RowsAreRequested
  <1>6. ClosingIsFinal /\ StartedIsRunning /\ FinalIsLast
    BY DEF ClosingIsFinal, StartedIsRunning, FinalIsLast, Final
  <1> QED BY <1>1, <1>2, <1>3, <1>4, <1>5, <1>6 DEF TaskInv

\* Every step of a request, an execution, a revoke or a fault preserves it.
LEMMA NextTaskInv == TaskInv /\ [Next]_vars => TaskInv'
  <1> SUFFICES ASSUME TaskInv, [Next]_vars PROVE TaskInv'
    OBVIOUS
  <1> USE UsersDiffer, TasksAssumption
      DEF TaskInv, TypeOK, OneUser, SentOnce, OrphansAreOver, OrphanRequestsAreOver,
          LockForSyncs, SyncHasLock, LockHasUser, RevokesAreAsked, RowsAreRequested,
          ClosingIsFinal, StartedIsRunning, FinalIsLast, Final, Live, Rows, NoRow
  <1>1. ASSUME NEW t \in Tasks, Insert(t) PROVE TaskInv'
    <2>1. TypeOK'
      BY <1>1 DEF Insert, SyncLock!Take, Update
    <2>2. OneUser'
      BY <1>1 DEF Insert, SyncLock!Take, Update
    <2>3. SentOnce' /\ OrphansAreOver' /\ OrphanRequestsAreOver'
      BY <1>1 DEF Insert, SyncLock!Take, Update
    <2>4. LockForSyncs' /\ SyncHasLock'
      BY <1>1 DEF Insert, SyncLock!Take, Update
    <2>5. LockHasUser'
      BY <1>1 DEF Insert, SyncLock!Take, Update
    <2>6. RevokesAreAsked' /\ RowsAreRequested'
      BY <1>1 DEF Insert, SyncLock!Take, Update
    <2>7. ClosingIsFinal' /\ StartedIsRunning'
      BY <1>1 DEF Insert, SyncLock!Take, Update
    <2>8. FinalIsLast'
      BY <1>1 DEF Insert, SyncLock!Take, Update
    <2> QED BY <2>1, <2>2, <2>3, <2>4, <2>5, <2>6, <2>7, <2>8
  <1>2. ASSUME NEW t \in Tasks, Dispatch(t) PROVE TaskInv'
    BY <1>2 DEF Dispatch, Update
  <1>3. ASSUME NEW t \in Tasks, Respond(t) PROVE TaskInv'
    BY <1>3 DEF Respond, ReleaseBy, SyncLock!Drop
  <1>4. ASSUME NEW t \in Tasks, Receive(t) PROVE TaskInv'
    BY <1>4 DEF Receive
  <1>5. ASSUME NEW t \in Tasks, Start(t) PROVE TaskInv'
    BY <1>5 DEF Start, Update
  <1>6. ASSUME NEW t \in Tasks, TakeLock(t) PROVE TaskInv'
    <2>1. TypeOK'
      BY <1>6 DEF TakeLock, SyncLock!Take
    <2>2. OneUser'
      BY <1>6 DEF TakeLock, SyncLock!Take
    <2>3. SentOnce' /\ OrphansAreOver' /\ OrphanRequestsAreOver'
      BY <1>6 DEF TakeLock, SyncLock!Take
    <2>4. LockForSyncs' /\ SyncHasLock'
      BY <1>6 DEF TakeLock, SyncLock!Take
    <2>5. LockHasUser'
      BY <1>6 DEF TakeLock, SyncLock!Take
    <2>6. RevokesAreAsked' /\ RowsAreRequested'
      BY <1>6 DEF TakeLock, SyncLock!Take
    <2>7. ClosingIsFinal' /\ StartedIsRunning'
      BY <1>6 DEF TakeLock, SyncLock!Take
    <2>8. FinalIsLast'
      BY <1>6 DEF TakeLock, SyncLock!Take
    <2> QED BY <2>1, <2>2, <2>3, <2>4, <2>5, <2>6, <2>7, <2>8
  <1>7. ASSUME NEW t \in Tasks, LockRefused(t) PROVE TaskInv'
    BY <1>7 DEF LockRefused
  <1>8. ASSUME NEW t \in Tasks, Collect(t) PROVE TaskInv'
    <2>1. TypeOK'
      BY <1>8 DEF Collect
    <2>2. OneUser'
      BY <1>8 DEF Collect
    <2>3. SentOnce' /\ OrphansAreOver' /\ OrphanRequestsAreOver'
      BY <1>8 DEF Collect
    <2>4. LockForSyncs' /\ SyncHasLock'
      BY <1>8 DEF Collect
    <2>5. LockHasUser'
      BY <1>8 DEF Collect
    <2>6. RevokesAreAsked' /\ RowsAreRequested'
      BY <1>8 DEF Collect
    <2>7. ClosingIsFinal' /\ StartedIsRunning'
      BY <1>8 DEF Collect
    <2>8. FinalIsLast'
      BY <1>8 DEF Collect
    <2> QED BY <2>1, <2>2, <2>3, <2>4, <2>5, <2>6, <2>7, <2>8
  <1>9. ASSUME NEW t \in Tasks, Delete(t) PROVE TaskInv'
    <2>1. TypeOK'
      BY <1>9 DEF Delete
    <2>2. OneUser'
      BY <1>9 DEF Delete
    <2>3. SentOnce' /\ OrphansAreOver' /\ OrphanRequestsAreOver'
      BY <1>9 DEF Delete
    <2>4. LockForSyncs' /\ SyncHasLock'
      BY <1>9 DEF Delete
    <2>5. LockHasUser'
      BY <1>9 DEF Delete
    <2>6. RevokesAreAsked' /\ RowsAreRequested'
      BY <1>9 DEF Delete
    <2>7. ClosingIsFinal' /\ StartedIsRunning'
      BY <1>9 DEF Delete
    <2>8. FinalIsLast'
      BY <1>9 DEF Delete
    <2> QED BY <2>1, <2>2, <2>3, <2>4, <2>5, <2>6, <2>7, <2>8
  <1>10. ASSUME NEW t \in Tasks, EndBody(t) PROVE TaskInv'
    BY <1>10 DEF EndBody
  <1>11. ASSUME NEW t \in Tasks, Exit(t) PROVE TaskInv'
    BY <1>11 DEF Exit, Update
  <1>12. ASSUME NEW t \in Tasks, Close(t) PROVE TaskInv'
    BY <1>12 DEF Close, ReleaseBy, SyncLock!Drop
  <1>13. ASSUME NEW t \in Tasks, Check(t) PROVE TaskInv'
    BY <1>13 DEF Check
  <1>14. ASSUME NEW t \in Tasks, Broadcast(t) PROVE TaskInv'
    BY <1>14 DEF Broadcast
  <1>15. ASSUME NEW t \in Tasks, SaveRevoked(t) PROVE TaskInv'
    <2>1. TypeOK'
      BY <1>15 DEF SaveRevoked, Update
    <2>2. OneUser'
      BY <1>15 DEF SaveRevoked, Update
    <2>3. SentOnce' /\ OrphansAreOver' /\ OrphanRequestsAreOver'
      BY <1>15 DEF SaveRevoked, Update
    <2>4. LockForSyncs' /\ SyncHasLock'
      BY <1>15 DEF SaveRevoked, Update
    <2>5. LockHasUser'
      BY <1>15 DEF SaveRevoked, Update
    <2>6. RevokesAreAsked' /\ RowsAreRequested'
      BY <1>15 DEF SaveRevoked, Update
    <2>7. ClosingIsFinal' /\ StartedIsRunning'
      BY <1>15 DEF SaveRevoked, Update
    <2>8. FinalIsLast'
      BY <1>15 DEF SaveRevoked, Update
    <2> QED BY <2>1, <2>2, <2>3, <2>4, <2>5, <2>6, <2>7, <2>8
  <1>16. ASSUME NEW t \in Tasks, Terminate(t) PROVE TaskInv'
    <2>1. TypeOK'
      BY <1>16 DEF Terminate, Die
    <2>2. OneUser'
      BY <1>16 DEF Terminate, Die
    <2>3. SentOnce' /\ OrphansAreOver' /\ OrphanRequestsAreOver'
      BY <1>16 DEF Terminate, Die
    <2>4. LockForSyncs' /\ SyncHasLock'
      BY <1>16 DEF Terminate, Die
    <2>5. LockHasUser'
      BY <1>16 DEF Terminate, Die
    <2>6. RevokesAreAsked' /\ RowsAreRequested'
      BY <1>16 DEF Terminate, Die
    <2>7. ClosingIsFinal' /\ StartedIsRunning'
      BY <1>16 DEF Terminate, Die
    <2>8. FinalIsLast'
      BY <1>16 DEF Terminate, Die
    <2> QED BY <2>1, <2>2, <2>3, <2>4, <2>5, <2>6, <2>7, <2>8
  <1>17. ASSUME NEW t \in Tasks, WorkerCrash(t) PROVE TaskInv'
    BY <1>17 DEF WorkerCrash, Fault, Die
  <1>18. ASSUME NEW t \in Tasks, LoseLock(t) PROVE TaskInv'
    <2>1. TypeOK'
      BY <1>18 DEF LoseLock, Fault, SyncLock!Drop
    <2>2. OneUser'
      BY <1>18 DEF LoseLock, Fault, SyncLock!Drop
    <2>3. SentOnce' /\ OrphansAreOver' /\ OrphanRequestsAreOver'
      BY <1>18 DEF LoseLock, Fault, SyncLock!Drop
    <2>4. LockForSyncs' /\ SyncHasLock'
      BY <1>18 DEF LoseLock, Fault, SyncLock!Drop
    <2>5. LockHasUser'
      BY <1>18 DEF LoseLock, Fault, SyncLock!Drop
    <2>6. RevokesAreAsked' /\ RowsAreRequested'
      BY <1>18 DEF LoseLock, Fault, SyncLock!Drop
    <2>7. ClosingIsFinal' /\ StartedIsRunning'
      BY <1>18 DEF LoseLock, Fault, SyncLock!Drop
    <2>8. FinalIsLast'
      BY <1>18 DEF LoseLock, Fault, SyncLock!Drop
    <2> QED BY <2>1, <2>2, <2>3, <2>4, <2>5, <2>6, <2>7, <2>8
  <1>19. ASSUME NEW t \in Tasks, ApiCrash(t) PROVE TaskInv'
    BY <1>19 DEF ApiCrash, Fault
  <1>20. ASSUME NEW t \in Tasks, OrderLost(t) PROVE TaskInv'
    BY <1>20 DEF OrderLost, Fault
  <1>21. CASE LockExpires
    <2>1. TypeOK'
      BY <1>21 DEF LockExpires, SyncLock!Drop
    <2>2. OneUser'
      BY <1>21 DEF LockExpires, SyncLock!Drop
    <2>3. SentOnce' /\ OrphansAreOver' /\ OrphanRequestsAreOver'
      BY <1>21 DEF LockExpires, SyncLock!Drop
    <2>4. LockForSyncs' /\ SyncHasLock'
      BY <1>21 DEF LockExpires, SyncLock!Drop
    <2>5. LockHasUser'
      BY <1>21 DEF LockExpires, SyncLock!Drop
    <2>6. RevokesAreAsked' /\ RowsAreRequested'
      BY <1>21 DEF LockExpires, SyncLock!Drop
    <2>7. ClosingIsFinal' /\ StartedIsRunning'
      BY <1>21 DEF LockExpires, SyncLock!Drop
    <2>8. FinalIsLast'
      BY <1>21 DEF LockExpires, SyncLock!Drop
    <2> QED BY <2>1, <2>2, <2>3, <2>4, <2>5, <2>6, <2>7, <2>8
  <1>22. CASE UNCHANGED vars
    BY <1>22 DEF vars
  <1> QED
    BY <1>1, <1>2, <1>3, <1>4, <1>5, <1>6, <1>7, <1>8, <1>9, <1>10, <1>11, <1>12, <1>13, <1>14, <1>15, <1>16, <1>17, <1>18, <1>19, <1>20, <1>21, <1>22 DEF Next, Enqueue, Execute, Revoke

-------------------------------------------------------------------------------
\* The invariant holds throughout.
THEOREM TaskInvariant == Spec => []TaskInv
  BY InitTaskInv, NextTaskInv, PTL DEF Spec

\* Type correctness of the task tables, the broker and the lock.
THEOREM TaskTypeCorrect == Spec => []TypeOK
  <1>1. TaskInv => TypeOK
    BY DEF TaskInv
  <1> QED BY <1>1, TaskInvariant, PTL

\* Two syncs of a base are in their bodies at once only if one of them has
\* outlived the TTL of its lock: else both would be the one user of the lock.
THEOREM SyncsExclude == Spec => []OneSyncAtATime
  <1>1. ASSUME TaskInv,
               NEW t \in Tasks, NEW u \in Tasks,
               type[t] = "SyncRecords", type[u] = "SyncRecords",
               worker[t] = "body", worker[u] = "body",
               t \notin overran, u \notin overran
        PROVE  t = u
    <2>1. Run(t) \in holders[Base] /\ Run(u) \in holders[Base]
      BY <1>1 DEF TaskInv, SyncHasLock
    <2>2. Run(t) = Run(u)
      BY <1>1, <2>1 DEF TaskInv, OneUser
    <2> QED BY <2>2, UsersDiffer
  <1>2. TaskInv => OneSyncAtATime
    BY <1>1 DEF OneSyncAtATime
  <1> QED BY <1>2, TaskInvariant, PTL

\* No exit of a request or of an execution leaves the lock behind.
THEOREM LockNotLeaked == Spec => []LockHasUser
  <1>1. TaskInv => LockHasUser
    BY DEF TaskInv
  <1> QED BY <1>1, TaskInvariant, PTL

\* No exit of an execution leaves its row Started.
THEOREM StartedNotLeaked == Spec => []StartedIsRunning
  <1>1. TaskInv => StartedIsRunning
    BY DEF TaskInv
  <1> QED BY <1>1, TaskInvariant, PTL

\* Nothing but a revoke overwrites an outcome.
THEOREM OutcomeKept == Spec => FinalChangesOnlyByRevoke
  <1> DEFINE Kept == \A t \in Tasks :
        status[t] \in Final /\ status'[t] \notin {status[t], "deleted"}
          => revoker[t] # "none"
  <1>1. ASSUME TaskInv, Next, NEW t \in Tasks, status[t] \in Final,
               status'[t] \notin {status[t], "deleted"}
        PROVE  revoker[t] # "none"
    <2> SUFFICES ASSUME revoker[t] = "none" PROVE FALSE
      OBVIOUS
    <2> USE DEF TaskInv, TypeOK, Update
    <2>1. /\ request[t] \in {"dispatched", "done"}
          /\ worker[t] \in {"none", "closing"}
      BY <1>1 DEF FinalIsLast
    <2>2. ASSUME NEW u \in Tasks, Insert(u) \/ Dispatch(u) PROVE FALSE
      BY <1>1, <2>1, <2>2 DEF Insert, Dispatch
    <2>3. ASSUME NEW u \in Tasks, Start(u) \/ Delete(u) \/ Exit(u) PROVE FALSE
      BY <1>1, <2>1, <2>3 DEF Start, Delete, Exit
    <2>4. ASSUME NEW u \in Tasks, SaveRevoked(u) PROVE FALSE
      BY <1>1, <2>4 DEF SaveRevoked
    <2>5. ASSUME NEW u \in Tasks,
                 \/ Respond(u) \/ Receive(u) \/ TakeLock(u) \/ LockRefused(u)
                 \/ Collect(u) \/ Close(u) \/ EndBody(u) \/ Check(u) \/ Broadcast(u)
                 \/ Terminate(u) \/ WorkerCrash(u) \/ LoseLock(u) \/ ApiCrash(u)
                 \/ OrderLost(u)
          PROVE  FALSE
      BY <1>1, <2>5
      DEF Respond, Receive, TakeLock, LockRefused, Collect, Close, EndBody, Check,
          Broadcast, Terminate, WorkerCrash, LoseLock, ApiCrash, OrderLost
    <2>6. CASE LockExpires
      BY <1>1, <2>6 DEF LockExpires
    <2> QED BY <1>1, <2>2, <2>3, <2>4, <2>5, <2>6 DEF Next, Enqueue, Execute, Revoke
  <1>2. TaskInv /\ [Next]_vars => [Kept]_vars
    BY <1>1
  <1> QED BY <1>2, TaskInvariant, PTL DEF Spec, FinalChangesOnlyByRevoke

===============================================================================
