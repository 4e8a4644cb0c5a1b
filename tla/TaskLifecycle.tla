---------------------------- MODULE TaskLifecycle ----------------------------
(***************************************************************************)
(* The life of a background task (app/adapters/tasks.py, app/tasks): the   *)
(* API handler that inserts and dispatches it, the Celery worker that runs *)
(* it inside ManagedTask, the revoke handler, the task that deletes        *)
(* finished tasks.                                                         *)
(*                                                                         *)
(* Each handler reads and writes the tasks table in transactions of its    *)
(* own; a step below is one commit or one message; the events it publishes *)
(* change nothing here.                                                    *)
(* Catalog syncs also use the lock of their base, through OneAtATime,      *)
(* which LockServer implements; the syncs modelled are of one base.        *)
(***************************************************************************)
EXTENDS Naturals

CONSTANTS Tasks,      \* the tasks that may be created
          Revocable,  \* those whose owner may revoke them (once)
          MaxFaults   \* bound on crashes and lost broadcasts

ASSUME TasksAssumption == Revocable \subseteq Tasks /\ MaxFaults \in Nat

\* SyncRecords, DeleteTasks, and all the types that use neither the lock nor
\* the tasks table.
Types == {"SyncRecords", "DeleteTasks", "other"}

Final == {"Success", "Failure", "Revoked"}
Live == {"Pending", "Started"}
Rows == Live \cup Final
NoRow == {"absent", "deleted"}

\* The API request and the worker execution that may use a sync's lock.
Users == {"api", "worker"} \X Tasks
Ask(t) == <<"api", t>>
Run(t) == <<"worker", t>>
Base == "catalog_sync"

VARIABLES type,     \* type[t]: the type t is created with; it never changes
          status,   \* status[t]: the committed row of t
          request,  \* request[t]: where enqueue_task is
          queue,    \* tasks whose message waits in the broker
          worker,   \* worker[t]: where the execution of t is
          ran,      \* tasks whose body came to its end (history)
          doomed,   \* doomed[t]: rows the body of delete_tasks has collected
          revoker,  \* revoker[t]: where the revoke of t is
          orders,   \* revoke broadcasts on their way to the workers
          discard,  \* ids the workers will not start
          holders,  \* the lock of the base, as in OneAtATime
          orphans,  \* lock users that died holding the lock
          lost,     \* tasks hit by a crash (history)
          overran,  \* syncs whose body outlived the TTL of its lock (history)
          faults

vars == <<type, status, request, queue, worker, ran, doomed, revoker, orders,
          discard, holders, orphans, lost, overran, faults>>

SyncLock == INSTANCE OneAtATime WITH Procs <- Users, Names <- {Base}

TypeOK == /\ type \in [Tasks -> Types]
          /\ status \in [Tasks -> Rows \cup NoRow]
          /\ request \in [Tasks -> {"none", "inserted", "dispatched", "done"}]
          /\ queue \in SUBSET Tasks
          /\ worker \in [Tasks -> {"none", "starting", "locking",
                                   "body", "deleting", "ok", "error", "closing"}]
          /\ ran \in SUBSET Tasks
          /\ doomed \in [Tasks -> SUBSET Tasks]
          /\ revoker \in [Tasks -> {"none", "checked", "sent", "done"}]
          /\ orders \in SUBSET Tasks
          /\ discard \in SUBSET Tasks
          /\ holders \in [{Base} -> SUBSET Users]
          /\ orphans \in SUBSET Users
          /\ lost \in SUBSET Tasks
          /\ overran \in SUBSET Tasks
          /\ faults \in 0..MaxFaults

Init == /\ type \in [Tasks -> Types]
        /\ status = [t \in Tasks |-> "absent"]
        /\ request = [t \in Tasks |-> "none"]
        /\ queue = {}
        /\ worker = [t \in Tasks |-> "none"]
        /\ ran = {}
        /\ doomed = [t \in Tasks |-> {}]
        /\ revoker = [t \in Tasks |-> "none"]
        /\ orders = {}
        /\ discard = {}
        /\ SyncLock!Init
        /\ orphans = {}
        /\ lost = {}
        /\ overran = {}
        /\ faults = 0

\* The lock is released by u if it is u's.
ReleaseBy(u) == IF u \in holders[Base] THEN SyncLock!Drop(Base)
                                       ELSE UNCHANGED holders

\* A row that is gone takes no update: SQLAlchemy raises StaleDataError.
Update(t, s) == status' = [status EXCEPT ![t] = IF @ = "deleted" THEN @ ELSE s]

-------------------------------------------------------------------------------
(* enqueue_task, and sync_records around it *)

\* The row is committed; a sync's request holds the lock of its base from
\* here to its response, and is refused with 409 while another holds it.
Insert(t) == /\ request[t] = "none"
             /\ IF type[t] = "SyncRecords" THEN SyncLock!Take(Ask(t), Base)
                               ELSE UNCHANGED holders
             /\ status' = [status EXCEPT ![t] = "Pending"]
             /\ request' = [request EXCEPT ![t] = "inserted"]
             /\ UNCHANGED <<type, queue, worker, ran, doomed, revoker, orders,
                            discard, orphans, lost, overran, faults>>

\* Mutated Dispatch: the handler of a failed dispatch is missing.
DispatchFailureIgnored(t) ==
  /\ request[t] = "inserted"
  /\ queue' \in {queue, queue \cup {t}}
  /\ request' = [request EXCEPT ![t] = "dispatched"]
  /\ UNCHANGED <<type, status, worker, ran, doomed, revoker, orders, discard,
                 holders, orphans, lost, overran, faults>>

\* dispatch_task sends the message, or fails and the row becomes a Failure.
Dispatch(t) == /\ request[t] = "inserted"
               /\ \/ queue' = queue \cup {t} /\ UNCHANGED status
                  \/ Update(t, "Failure") /\ UNCHANGED queue
               /\ request' = [request EXCEPT ![t] = "dispatched"]
               /\ UNCHANGED <<type, worker, ran, doomed, revoker, orders, discard,
                              holders, orphans, lost, overran, faults>>

\* The lock is released with the response.
Respond(t) == /\ request[t] = "dispatched"
              /\ ReleaseBy(Ask(t))
              /\ request' = [request EXCEPT ![t] = "done"]
              /\ UNCHANGED <<type, status, queue, worker, ran, doomed, revoker,
                             orders, discard, orphans, lost, overran, faults>>

-------------------------------------------------------------------------------
(* The worker: Celery's delivery, ManagedTask.__aenter__ and __aexit__ *)

\* Mutated Receive: the message is left in the broker and delivered again.
ReceiveTwice(t) == /\ t \in queue
                   /\ worker[t] = "none"
                   /\ worker' = [worker EXCEPT ![t] =
                                   IF t \in discard THEN "none" ELSE "starting"]
                   /\ UNCHANGED <<type, status, request, queue, ran, doomed, revoker,
                                  orders, discard, holders, orphans, lost, overran, faults>>

\* A worker takes the message; it drops one whose id it was told to revoke.
Receive(t) == /\ t \in queue
              /\ queue' = queue \ {t}
              /\ worker' = [worker EXCEPT ![t] =
                              IF t \in discard THEN "none" ELSE "starting"]
              /\ UNCHANGED <<type, status, request, ran, doomed, revoker, orders,
                             discard, holders, orphans, lost, overran, faults>>

\* __aenter__ loads the row, which must exist, and commits Started, whatever
\* the status was; a sync goes on to its lock, the others to their body.
Start(t) == /\ worker[t] = "starting"
            /\ Update(t, "Started")
            /\ worker' = [worker EXCEPT ![t] =
                            IF status[t] = "deleted" THEN "none"
                            ELSE IF type[t] = "SyncRecords" THEN "locking" ELSE "body"]
            /\ UNCHANGED <<type, request, queue, ran, doomed, revoker, orders,
                           discard, holders, orphans, lost, overran, faults>>

TakeLock(t) == /\ worker[t] = "locking"
               /\ SyncLock!Take(Run(t), Base)
               /\ worker' = [worker EXCEPT ![t] = "body"]
               /\ UNCHANGED <<type, status, request, queue, ran, doomed, revoker,
                              orders, discard, orphans, lost, overran, faults>>

\* Mutated LockRefused: the None that the lock yields is not looked at.
LockNotChecked(t) == /\ worker[t] = "locking"
                     /\ holders[Base] # {}
                     /\ worker' = [worker EXCEPT ![t] = "body"]
                     /\ UNCHANGED <<type, status, request, queue, ran, doomed, revoker,
                                    orders, discard, holders, orphans, lost, overran, faults>>

\* The lock was not had within the waiting time: __aenter__ raises, after
\* __aexit__(None, None, None), the exit of a body without an exception.
LockRefused(t) == /\ worker[t] = "locking"
                  /\ holders[Base] # {}
                  /\ worker' = [worker EXCEPT ![t] = "ok"]
                  /\ UNCHANGED <<type, status, request, queue, ran, doomed, revoker, orders,
                                 discard, holders, orphans, lost, overran, faults>>

\* delete_tasks: the rows of finished tasks are collected, except its own,
Collect(t) == /\ worker[t] = "body" /\ type[t] = "DeleteTasks"
              /\ doomed' = [doomed EXCEPT ![t] =
                              {u \in Tasks \ {t} : status[u] \in Final}]
              /\ worker' = [worker EXCEPT ![t] = "deleting"]
              /\ UNCHANGED <<type, status, request, queue, ran, revoker, orders,
                             discard, holders, orphans, lost, overran, faults>>

\* and deleted in one commit, whatever has become of them since.
Delete(t) == /\ worker[t] = "deleting"
             /\ status' = [u \in Tasks |->
                             IF u \in doomed[t] THEN "deleted" ELSE status[u]]
             /\ doomed' = [doomed EXCEPT ![t] = {}]
             /\ ran' = ran \cup {t}
             /\ worker' = [worker EXCEPT ![t] = "ok"]
             /\ UNCHANGED <<type, request, queue, revoker, orders, discard, holders,
                            orphans, lost, overran, faults>>

\* The body of another task returns, or raises.
EndBody(t) == /\ worker[t] = "body" /\ type[t] # "DeleteTasks"
              /\ ran' = ran \cup {t}
              /\ \E outcome \in {"ok", "error"} :
                    worker' = [worker EXCEPT ![t] = outcome]
              /\ UNCHANGED <<type, status, request, queue, doomed, revoker, orders,
                             discard, holders, orphans, lost, overran, faults>>

\* Mutated Exit: only a body without an exception gets its final status.
ExitOnSuccessOnly(t) ==
  /\ worker[t] \in {"ok", "error"}
  /\ IF worker[t] = "ok" THEN Update(t, "Success") ELSE UNCHANGED status
  /\ worker' = [worker EXCEPT ![t] = "closing"]
  /\ UNCHANGED <<type, request, queue, ran, doomed, revoker, orders, discard,
                 holders, orphans, lost, overran, faults>>

\* __aexit__ commits the final status, whatever the status was.
Exit(t) == /\ worker[t] \in {"ok", "error"}
           /\ Update(t, IF worker[t] = "ok" THEN "Success" ELSE "Failure")
           /\ worker' = [worker EXCEPT ![t] = "closing"]
           /\ UNCHANGED <<type, request, queue, ran, doomed, revoker, orders,
                          discard, holders, orphans, lost, overran, faults>>

\* Mutated Close: the lock's context manager is not exited.
CloseKeepingLock(t) ==
  /\ worker[t] = "closing"
  /\ worker' = [worker EXCEPT ![t] = "none"]
  /\ UNCHANGED <<type, status, request, queue, ran, doomed, revoker, orders,
                 discard, holders, orphans, lost, overran, faults>>

\* The finally block: the lock is released in any case.
Close(t) == /\ worker[t] = "closing"
            /\ ReleaseBy(Run(t))
            /\ worker' = [worker EXCEPT ![t] = "none"]
            /\ UNCHANGED <<type, status, request, queue, ran, doomed, revoker,
                           orders, discard, orphans, lost, overran, faults>>

-------------------------------------------------------------------------------
(* revoke_task *)

\* The row is read and found revocable; the handler keeps its copy.
Check(t) == /\ t \in Revocable
            /\ revoker[t] = "none"
            /\ status[t] \in Live
            /\ revoker' = [revoker EXCEPT ![t] = "checked"]
            /\ UNCHANGED <<type, status, request, queue, worker, ran, doomed, orders,
                           discard, holders, orphans, lost, overran, faults>>

\* control.revoke(terminate=True): a broadcast to the workers.
Broadcast(t) == /\ revoker[t] = "checked"
                /\ orders' = orders \cup {t}
                /\ revoker' = [revoker EXCEPT ![t] = "sent"]
                /\ UNCHANGED <<type, status, request, queue, worker, ran, doomed,
                               discard, holders, orphans, lost, overran, faults>>

\* Mutated SaveRevoked: a status that TaskStatus does not have.
SaveCancelled(t) == /\ revoker[t] = "sent"
                    /\ Update(t, "Cancelled")
                    /\ revoker' = [revoker EXCEPT ![t] = "done"]
                    /\ UNCHANGED <<type, request, queue, worker, ran, doomed, orders,
                                   discard, holders, orphans, lost, overran, faults>>

\* Revoked is committed over whatever the row holds by now.
SaveRevoked(t) == /\ revoker[t] = "sent"
                  /\ Update(t, "Revoked")
                  /\ revoker' = [revoker EXCEPT ![t] = "done"]
                  /\ UNCHANGED <<type, request, queue, worker, ran, doomed, orders,
                                 discard, holders, orphans, lost, overran, faults>>

\* The process that executes t dies on the spot: no exit, no release.
Die(t) == /\ worker' = [worker EXCEPT ![t] = "none"]
          /\ orphans' = orphans \cup ({Run(t)} \cap holders[Base])
          /\ doomed' = [doomed EXCEPT ![t] = {}]

\* Mutated Terminate: revoke without terminate=True.
DiscardOnly(t) == /\ t \in orders
                  /\ orders' = orders \ {t}
                  /\ discard' = discard \cup {t}
                  /\ UNCHANGED <<type, status, request, queue, worker, ran, doomed,
                                 revoker, holders, orphans, lost, overran, faults>>

\* The workers get the order: SIGTERM to the process that executes t, and t
\* is not started later.
Terminate(t) == /\ t \in orders
                /\ orders' = orders \ {t}
                /\ discard' = discard \cup {t}
                /\ Die(t)
                /\ UNCHANGED <<type, status, request, queue, ran, revoker, holders,
                               lost, overran, faults>>

-------------------------------------------------------------------------------
(* Time and faults *)

\* The TTL of a dead user's lock runs out (LockServer!DeadLockExpires).
LockExpires == /\ holders[Base] \cap orphans # {}
               /\ SyncLock!Drop(Base)
               /\ orphans' = orphans \ holders[Base]
               /\ UNCHANGED <<type, status, request, queue, worker, ran, doomed, revoker,
                              orders, discard, lost, overran, faults>>

Fault == faults < MaxFaults /\ faults' = faults + 1

\* The worker process is killed by something else (memory, deployment).
WorkerCrash(t) == /\ Fault
                  /\ worker[t] # "none"
                  /\ Die(t)
                  /\ lost' = lost \cup {t}
                  /\ UNCHANGED <<type, status, request, queue, ran, revoker, orders,
                                 discard, holders, overran>>

\* The body has run for as long as the TTL of its lock, which the watchdog does
\* not renew (LockServer!Renew): the lock is free, and the body goes on untold.
LoseLock(t) == /\ worker[t] = "body"
               /\ Run(t) \in holders[Base]
               /\ SyncLock!Drop(Base)
               /\ overran' = overran \cup {t}
               /\ UNCHANGED <<type, status, request, queue, worker, ran, doomed,
                              revoker, orders, discard, orphans, lost, faults>>

\* The API process dies in the middle of enqueue_task.
ApiCrash(t) == /\ Fault
               /\ request[t] \in {"inserted", "dispatched"}
               /\ request' = [request EXCEPT ![t] = "done"]
               /\ orphans' = orphans \cup ({Ask(t)} \cap holders[Base])
               /\ lost' = lost \cup {t}
               /\ UNCHANGED <<type, status, queue, worker, ran, doomed, revoker,
                              orders, discard, holders, overran>>

\* A broadcast reaches no worker, or one that restarts and forgets it.
OrderLost(t) == /\ Fault
                /\ t \in orders
                /\ orders' = orders \ {t}
                /\ UNCHANGED <<type, status, request, queue, worker, ran, doomed, revoker,
                               discard, holders, orphans, lost, overran>>

-------------------------------------------------------------------------------
Enqueue(t) == Dispatch(t) \/ Respond(t)
Execute(t) == \/ Receive(t) \/ Start(t) \/ TakeLock(t)
              \/ LockRefused(t) \/ Collect(t) \/ Delete(t) \/ Exit(t) \/ Close(t)
Revoke(t) == Broadcast(t) \/ SaveRevoked(t)

Next == \/ \E t \in Tasks : \/ Insert(t) \/ Enqueue(t) \/ Execute(t)
                            \/ EndBody(t) \/ Check(t) \/ Revoke(t)
                            \/ Terminate(t) \/ WorkerCrash(t)
                            \/ LoseLock(t) \/ ApiCrash(t) \/ OrderLost(t)
        \/ LockExpires

Spec == Init /\ [][Next]_vars

\* Handlers go on once begun, messages and events arrive unless lost, and
\* dead locks expire.  A body need not end, and no request need be made.
FairSpec == /\ Spec
            /\ \A t \in Tasks : /\ WF_vars(Enqueue(t))
                                /\ WF_vars(Execute(t))
                                /\ WF_vars(Revoke(t))
                                /\ WF_vars(Terminate(t))
            /\ WF_vars(LockExpires)

-------------------------------------------------------------------------------
(* Properties *)

\* Two syncs of one base run their bodies at the same time only if one of
\* them has run for longer than the TTL of its lock.
OneSyncAtATime ==
  \A t, u \in {x \in Tasks : type[x] = "SyncRecords"} :
     worker[t] = "body" /\ worker[u] = "body" => t = u \/ {t, u} \cap overran # {}

\* The lock is held only by a request or an execution in progress, or by one
\* that died and whose TTL still runs: no exit leaves it behind.
LockHasUser ==
  \A t \in Tasks :
    /\ Ask(t) \in holders[Base] \ orphans =>
         request[t] \in {"inserted", "dispatched"}
    /\ Run(t) \in holders[Base] \ orphans =>
         worker[t] \in {"body", "ok", "error", "closing"}

\* A row is Started without an execution only if the execution crashed or
\* the task was being revoked.
StartedIsRunning ==
  \A t \in Tasks : status[t] = "Started" /\ worker[t] = "none" =>
                     t \in lost \/ revoker[t] # "none"

\* A finished task changes its status only in a race with a revoke: a task
\* nobody revokes is executed once and keeps the outcome, until its row is
\* deleted.
FinalChangesOnlyByRevoke ==
  [][\A t \in Tasks : status[t] \in Final /\ status'[t] \notin {status[t], "deleted"} =>
       revoker[t] # "none"]_vars

\* Every inserted task gets to its body or to a final status, unless a crash
\* hit it.
TaskProgresses ==
  \A t \in Tasks : status[t] = "Pending" ~>
     status[t] \in Final \cup NoRow \/ worker[t] = "body" \/ t \in lost

\* A revoke that is sent ends the execution, even of a body that would go on
\* for ever, unless the broadcast is lost.
RevokeStops ==
  \A t \in Tasks : (revoker[t] = "sent" /\ worker[t] = "body") ~>
     worker[t] # "body" \/ faults > 0

\* Success, "task completed" (docs/client-notifications.md:84), means that
\* the task's body ran to its end.
SuccessMeansRan == \A t \in Tasks : status[t] = "Success" => t \in ran
===============================================================================
