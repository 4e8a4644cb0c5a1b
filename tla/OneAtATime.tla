------------------------------ MODULE OneAtATime ------------------------------
(***************************************************************************)
(* What one_at_a_time_lock (app/adapters/lock_server.py) promises its      *)
(* callers, without Redis, keys, TTLs or threads: for each lock name at    *)
(* most one process is inside the context manager's body.                  *)
(***************************************************************************)
CONSTANTS Procs,  \* processes that enter the context manager
          Names   \* lock names

VARIABLE holders  \* holders[n]: the processes inside the body of lock n

Init == holders = [n \in Names |-> {}]

\* A process enters the body of a lock nobody holds.
Take(p, n) == /\ holders[n] = {}
              /\ holders' = [holders EXCEPT ![n] = {p}]

\* The holder leaves the body or dies.
Drop(n) == /\ holders[n] # {}
           /\ holders' = [holders EXCEPT ![n] = {}]

\* Time passes: some locks, several at once, are no longer their holders'.
Lapse(ns) == holders' = [n \in Names |-> IF n \in ns THEN {} ELSE holders[n]]

Next == \/ \E n \in Names : Drop(n) \/ \E p \in Procs : Take(p, n)
        \/ \E ns \in SUBSET Names : Lapse(ns)

Spec == Init /\ [][Next]_holders

\* At most one holder per lock name.
AtMostOne == \A n \in Names : \A p, q \in holders[n] : p = q
===============================================================================
