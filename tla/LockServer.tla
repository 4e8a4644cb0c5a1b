------------------------------ MODULE LockServer ------------------------------
(***************************************************************************)
(* The distributed lock of app/adapters/lock_server.py: a redis-py Lock    *)
(* (a key with a TTL that holds the owner's token), the watchdog thread    *)
(* that is to renew the TTL, the Redis set "active_locks" that lists the   *)
(* held locks, and get_active_locks, which reads and sweeps that set.      *)
(*                                                                         *)
(* Time is discrete: a Tick is one second of the code's timeouts and ages  *)
(* every key and every timer.  A process takes any time between two of its *)
(* steps, as its body does; only the watchdog's turn is never late.        *)
(* Faults are processes that are killed.                                   *)
(***************************************************************************)
EXTENDS Integers

CONSTANTS Procs,            \* processes that use the context manager
          Names,            \* lock names, e.g. catalog_sync_MZK01
          Timeout,          \* TTL of a key, `timeout`
          BlockingTimeout,  \* the longest time a caller waits for the lock
          MaxFaults,        \* bound on kills
          Nobody,           \* no token: the key does not exist
          Dead              \* the token of a process that was killed

ASSUME TimeoutAssumption == Timeout \in Nat \ {0}
ASSUME WaitAssumption == BlockingTimeout \in Nat /\ MaxFaults \in Nat
ASSUME TokenAssumption == /\ Nobody \notin Procs \cup Names
                          /\ Dead \notin Procs
                          /\ Dead # Nobody

VARIABLES key,       \* key[n]: the token stored under n, or Nobody
          ttl,       \* ttl[n]: ticks left to key n
          active,    \* the Redis set ACTIVE_LOCKS_KEY
          pc,        \* pc[p]: where process p is in one_at_a_time_lock
          lock,      \* lock[p]: the name p called it with
          timer,     \* ticks p still waits for the lock, or until its renewal
          watching,  \* processes whose watchdog thread is running
          lease,     \* ticks left to the key that p has set (history)
          faults,    \* faults so far
          reader     \* the call of get_active_locks in progress

vars == <<key, ttl, active, pc, lock, timer, watching, lease, faults, reader>>
redis == <<key, ttl, active>>

\* The watchdog's period: max(timeout // 3, 1).
Interval == IF Timeout \div 3 >= 1 THEN Timeout \div 3 ELSE 1

Steps == {"idle", "acquiring", "acquired", "body", "stopped", "released"}
NoCall == [at |-> "idle", todo |-> {}, stale |-> {}]

TypeOK == /\ key \in [Names -> Procs \cup {Nobody, Dead}]
          /\ ttl \in [Names -> 0..Timeout]
          /\ active \in SUBSET Names
          /\ pc \in [Procs -> Steps]
          /\ lock \in [Procs -> Names \cup {Nobody}]
          /\ timer \in [Procs -> Nat]
          /\ watching \in SUBSET Procs
          /\ lease \in [Procs -> 0..Timeout]
          /\ faults \in 0..MaxFaults
          /\ reader \in [at : {"idle", "checking"},
                         todo : SUBSET Names, stale : SUBSET Names]

Init == /\ key = [n \in Names |-> Nobody]
        /\ ttl = [n \in Names |-> 0]
        /\ active = {}
        /\ pc = [p \in Procs |-> "idle"]
        /\ lock = [p \in Procs |-> Nobody]
        /\ timer = [p \in Procs |-> 0]
        /\ watching = {}
        /\ lease = [p \in Procs |-> 0]
        /\ faults = 0
        /\ reader = NoCall

-------------------------------------------------------------------------------
(* one_at_a_time_lock *)

\* A caller enters the context manager; a non-blocking call waits 0 ticks.
Call(p) == /\ pc[p] = "idle"
           /\ \E n \in Names, w \in 0..BlockingTimeout :
                /\ lock' = [lock EXCEPT ![p] = n]
                /\ timer' = [timer EXCEPT ![p] = w]
           /\ pc' = [pc EXCEPT ![p] = "acquiring"]
           /\ UNCHANGED <<redis, watching, lease, faults, reader>>

\* Mutated Acquire: SET without NX.
AcquireOverwriting(p) ==
  /\ pc[p] = "acquiring"
  /\ key' = [key EXCEPT ![lock[p]] = p]
  /\ ttl' = [ttl EXCEPT ![lock[p]] = Timeout]
  /\ lease' = [lease EXCEPT ![p] = Timeout]
  /\ pc' = [pc EXCEPT ![p] = "acquired"]
  /\ UNCHANGED <<active, lock, timer, watching, faults, reader>>

\* redis-py: SET key token NX PX ttl succeeds.
Acquire(p) == /\ pc[p] = "acquiring"
              /\ key[lock[p]] = Nobody
              /\ key' = [key EXCEPT ![lock[p]] = p]
              /\ ttl' = [ttl EXCEPT ![lock[p]] = Timeout]
              /\ lease' = [lease EXCEPT ![p] = Timeout]
              /\ pc' = [pc EXCEPT ![p] = "acquired"]
              /\ UNCHANGED <<active, lock, timer, watching, faults, reader>>

\* Mutated GiveUp: blocking_timeout is not passed on, the wait has no end.
GiveUpNever(p) == /\ pc[p] = "acquiring"
                  /\ timer[p] < 0
                  /\ pc' = [pc EXCEPT ![p] = "idle"]
                  /\ UNCHANGED <<redis, lock, timer, watching, lease, faults, reader>>

\* The waiting time is over: the context manager yields None.
GiveUp(p) == /\ pc[p] = "acquiring"
             /\ key[lock[p]] # Nobody
             /\ timer[p] = 0
             /\ pc' = [pc EXCEPT ![p] = "idle"]
             /\ lock' = [lock EXCEPT ![p] = Nobody]
             /\ UNCHANGED <<redis, timer, watching, lease, faults, reader>>

\* sadd, the acquired event, the watchdog's start; the body begins.
Announce(p) == /\ pc[p] = "acquired"
               /\ active' = active \cup {lock[p]}
               /\ watching' = watching \cup {p}
               /\ timer' = [timer EXCEPT ![p] = Interval]
               /\ pc' = [pc EXCEPT ![p] = "body"]
               /\ UNCHANGED <<key, ttl, lock, lease, faults, reader>>

\* Mutated Renew: EXPIRE whatever token the key holds.
RenewAnyToken(p) == /\ p \in watching
                    /\ timer[p] = 0
                    /\ key[lock[p]] # Nobody
                    /\ ttl' = [ttl EXCEPT ![lock[p]] = Timeout]
                    /\ timer' = [timer EXCEPT ![p] = Interval]
                    /\ UNCHANGED <<key, active, pc, lock, watching, lease, faults, reader>>

\* _renewal_watchdog: the wait is over and reacquire() raises, which is logged,
\* and the thread returns while the body goes on.  redis-py keeps the token in a
\* threading.local (thread_local=True, the default that line 50 leaves), so only
\* the thread that called acquire() has it: the watchdog's renews nothing.
Renew(p) == /\ p \in watching
            /\ timer[p] = 0
            /\ watching' = watching \ {p}
            /\ UNCHANGED <<redis, pc, lock, timer, lease, faults, reader>>

\* The body ends: stop_event.set() and watchdog.join().
Finish(p) == /\ pc[p] = "body"
             /\ watching' = watching \ {p}
             /\ pc' = [pc EXCEPT ![p] = "stopped"]
             /\ UNCHANGED <<redis, lock, timer, lease, faults, reader>>

\* Mutated Release: DEL without a look at the token.
ReleaseAnyToken(p) == /\ pc[p] = "stopped"
                      /\ key' = [key EXCEPT ![lock[p]] = Nobody]
                      /\ ttl' = [ttl EXCEPT ![lock[p]] = 0]
                      /\ pc' = [pc EXCEPT ![p] = "released"]
                      /\ UNCHANGED <<active, lock, timer, watching, lease, faults, reader>>

\* lock.release() deletes the key if it holds the process's token, and
\* raises otherwise, which is swallowed.
Release(p) == /\ pc[p] = "stopped"
              /\ IF key[lock[p]] = p
                 THEN /\ key' = [key EXCEPT ![lock[p]] = Nobody]
                      /\ ttl' = [ttl EXCEPT ![lock[p]] = 0]
                 ELSE UNCHANGED <<key, ttl>>
              /\ pc' = [pc EXCEPT ![p] = "released"]
              /\ UNCHANGED <<active, lock, timer, watching, lease, faults, reader>>

\* srem, whether or not the release succeeded, and the released event.
Unlist(p) == /\ pc[p] = "released"
             /\ active' = active \ {lock[p]}
             /\ pc' = [pc EXCEPT ![p] = "idle"]
             /\ lock' = [lock EXCEPT ![p] = Nobody]
             /\ UNCHANGED <<key, ttl, timer, watching, lease, faults, reader>>

-------------------------------------------------------------------------------
(* get_active_locks *)

\* smembers.
ListMembers == /\ reader.at = "idle"
               /\ reader' = [at |-> "checking", todo |-> active, stale |-> {}]
               /\ UNCHANGED <<redis, pc, lock, timer, watching, lease, faults>>

\* exists: a name without a key is stale.
CheckMember(n) == /\ reader.at = "checking"
                  /\ n \in reader.todo
                  /\ reader' = [reader EXCEPT
                       !.todo = @ \ {n},
                       !.stale = IF key[n] = Nobody THEN @ \cup {n} ELSE @]
                  /\ UNCHANGED <<redis, pc, lock, timer, watching, lease, faults>>

\* Mutated Sweep: the stale names are reported but not removed.
SweepNothing == /\ reader.at = "checking"
                /\ reader.todo = {}
                /\ reader' = NoCall
                /\ UNCHANGED <<redis, pc, lock, timer, watching, lease, faults>>

\* srem of the stale names; the call returns the others.
Sweep == /\ reader.at = "checking"
         /\ reader.todo = {}
         /\ active' = active \ reader.stale
         /\ reader' = NoCall
         /\ UNCHANGED <<key, ttl, pc, lock, timer, watching, lease, faults>>

-------------------------------------------------------------------------------
(* Time and faults *)

\* Mutated Tick: a TTL goes on counting below zero.
TickBelowZero == /\ ttl' = [n \in Names |-> IF key[n] # Nobody THEN ttl[n] - 1 ELSE 0]
                 /\ timer' = [p \in Procs |-> IF timer[p] > 0 THEN timer[p] - 1 ELSE 0]
                 /\ lease' = [p \in Procs |-> IF lease[p] > 0 THEN lease[p] - 1 ELSE 0]
                 /\ UNCHANGED <<key, active, pc, lock, watching, faults, reader>>

\* One second passes: timers run down and keys whose TTL is over disappear.  A
\* watchdog has its turn in the second in which its wait is over.
Tick == /\ \A p \in watching : timer[p] > 0
        /\ ttl' = [n \in Names |-> IF ttl[n] > 0 THEN ttl[n] - 1 ELSE 0]
        /\ key' = [n \in Names |-> IF ttl[n] > 1 THEN key[n] ELSE Nobody]
        /\ timer' = [p \in Procs |-> IF timer[p] > 0 THEN timer[p] - 1 ELSE 0]
        /\ lease' = [p \in Procs |-> IF lease[p] > 0 THEN lease[p] - 1 ELSE 0]
        /\ UNCHANGED <<active, pc, lock, watching, faults, reader>>

Fault == faults < MaxFaults /\ faults' = faults + 1

\* SIGKILL, or the SIGTERM of a revoke: no finally block runs.  A key the
\* process holds keeps a token no live process has.
Kill(p) == /\ Fault
           /\ pc[p] # "idle"
           /\ key' = [n \in Names |-> IF key[n] = p THEN Dead ELSE key[n]]
           /\ pc' = [pc EXCEPT ![p] = "idle"]
           /\ lock' = [lock EXCEPT ![p] = Nobody]
           /\ watching' = watching \ {p}
           /\ UNCHANGED <<ttl, active, timer, lease, reader>>

-------------------------------------------------------------------------------
\* What a live process does by itself; Finish is up to the body.
Progress(p) == \/ Acquire(p) \/ GiveUp(p) \/ Announce(p) \/ Renew(p)
               \/ Release(p) \/ Unlist(p)

Read == ListMembers \/ Sweep \/ \E n \in Names : CheckMember(n)

Next == \/ \E p \in Procs : \/ Call(p) \/ Progress(p) \/ Finish(p) \/ Kill(p)
        \/ Read
        \/ Tick

Spec == Init /\ [][Next]_vars

\* Time passes (strongly fair: no infinite run of calls within one second),
\* live processes go on, and the list is asked for again and again (the lock
\* banner and the sync form of the client refetch it).
FairSpec == /\ Spec
            /\ SF_vars(Tick)
            /\ \A p \in Procs : WF_vars(Progress(p))
            /\ WF_vars(Read)
-------------------------------------------------------------------------------
(* Properties *)

\* From SET to release a process owns the key as long as the TTL of that SET
\* lasts, whatever the others do: so long it keeps them out.
InCall == {p \in Procs : pc[p] \in {"acquired", "body", "stopped"}}
LeaseOwnsKey ==
  \A p \in InCall : lease[p] > 0 => key[lock[p]] = p /\ ttl[lock[p]] = lease[p]

\* The bodies that run within the TTL of their SET exclude each other.
Holders == [n \in Names |-> {p \in Procs : pc[p] = "body" /\ lock[p] = n /\ lease[p] > 0}]
Abstract == INSTANCE OneAtATime WITH holders <- Holders
OneInstance == Abstract!Spec

\* "ensure only one instance of a task runs at a time" (lines 25-26), which the
\* watchdog is to guarantee for bodies longer than the TTL ("auto-renews the TTL
\* while the context is open", lines 47-48).
BodiesExclude ==
  \A p, q \in Procs : pc[p] = "body" /\ pc[q] = "body" /\ lock[p] = lock[q] => p = q

\* A key with a live owner goes away only when the owner releases it or is
\* killed, or when its TTL runs out; in particular a late process, whose key
\* ran out and was taken by another, cannot free it (lines 68-71).
FreedByOwner ==
  \A p \in Procs, n \in Names : key[n] = p /\ key'[n] # p =>
     \/ pc[p] = "stopped" /\ pc'[p] = "released"
     \/ key'[n] = Dead /\ pc'[p] = "idle"
     \/ key'[n] = Nobody /\ ttl[n] = 1
OnlyOwnerFrees == [][FreedByOwner]_vars

\* The lock of a killed holder is free again after its TTL (lines 38-40).
DeadLockExpires ==
  \A n \in Names : key[n] = Dead ~> key[n] # Dead

\* Every call for the lock is answered: the body runs, or None is yielded.
CallAnswered ==
  \A p \in Procs : pc[p] = "acquiring" ~> pc[p] # "acquiring"

\* get_active_locks, called again and again, removes the name of a lock that
\* stays free ("cleaning up stale entries", line 92).
StaleNameSwept ==
  \A n \in Names : (n \in active /\ key[n] = Nobody)
                       ~> (n \notin active \/ key[n] # Nobody)

\* "Return the list of currently held locks" (line 92): the list is made
\* from the active set, so every lock a live process holds must be in it.
HeldLockListed ==
  \A p \in Procs : pc[p] = "body" /\ key[lock[p]] = p => lock[p] \in active
===============================================================================
