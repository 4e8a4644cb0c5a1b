--------------------------- MODULE LockServerProofs ---------------------------
(***************************************************************************)
(* Proofs about LockServer for every set of processes and lock names,      *)
(* every TTL and waiting time and every number of kills.                   *)
(*                                                                         *)
(* That leases exclude each other is not inductive by itself: a lease      *)
(* keeps the others out only because the key holds the process's token     *)
(* and its TTL is exactly what is left of the lease.                       *)
(***************************************************************************)
EXTENDS LockServer, TLAPS

\* A call in progress is a call for a lock name.
CallsHaveNames == \A p \in Procs : pc[p] # "idle" => lock[p] \in Names

\* Every key that exists has a TTL.
KeysHaveTTL == \A n \in Names : key[n] # Nobody => ttl[n] > 0

\* The inductive invariant.
LockInv == /\ TypeOK
           /\ CallsHaveNames
           /\ KeysHaveTTL
           /\ LeaseOwnsKey

-------------------------------------------------------------------------------
\* The watchdog's period is a number of ticks.
LEMMA IntervalIsNat == Interval \in Nat
  BY TimeoutAssumption DEF Interval

\* The initial states satisfy the invariant.
LEMMA InitInv == Init => LockInv
  BY TimeoutAssumption, WaitAssumption, TokenAssumption
  DEF Init, LockInv, TypeOK, CallsHaveNames, KeysHaveTTL, LeaseOwnsKey, InCall,
      NoCall, Steps

\* Every step of one_at_a_time_lock, of get_active_locks, of time and of a
\* fault preserves it.
LEMMA NextInv == LockInv /\ [Next]_vars => LockInv'
  <1> SUFFICES ASSUME LockInv, [Next]_vars PROVE LockInv'
    OBVIOUS
  <1> USE IntervalIsNat, TimeoutAssumption, WaitAssumption, TokenAssumption
      DEF LockInv, TypeOK, CallsHaveNames, KeysHaveTTL, LeaseOwnsKey, InCall,
          redis, Steps
  <1>1. ASSUME NEW p \in Procs, Call(p) PROVE LockInv'
    BY <1>1 DEF Call
  <1>2. ASSUME NEW p \in Procs, Acquire(p) PROVE LockInv'
    BY <1>2 DEF Acquire
  <1>3. ASSUME NEW p \in Procs, GiveUp(p) PROVE LockInv'
    BY <1>3 DEF GiveUp
  <1>4. ASSUME NEW p \in Procs, Announce(p) PROVE LockInv'
    BY <1>4 DEF Announce
  <1>5. ASSUME NEW p \in Procs, Renew(p) PROVE LockInv'
    BY <1>5 DEF Renew
  <1>6. ASSUME NEW p \in Procs, Finish(p) PROVE LockInv'
    BY <1>6 DEF Finish
  <1>7. ASSUME NEW p \in Procs, Release(p) PROVE LockInv'
    BY <1>7 DEF Release
  <1>8. ASSUME NEW p \in Procs, Unlist(p) PROVE LockInv'
    BY <1>8 DEF Unlist
  <1>9. ASSUME NEW p \in Procs, Kill(p) PROVE LockInv'
    BY <1>9 DEF Kill, Fault
  <1>10. CASE Read
    <2>1. UNCHANGED <<key, ttl, pc, lock, timer, watching, lease, faults>>
      BY <1>10 DEF Read, ListMembers, CheckMember, Sweep
    <2>2. active' \in SUBSET Names
      BY <1>10 DEF Read, ListMembers, CheckMember, Sweep
    <2>3. reader' \in [at : {"idle", "checking"},
                       todo : SUBSET Names, stale : SUBSET Names]
      <3>1. CASE ListMembers
        BY <3>1 DEF ListMembers
      <3>2. ASSUME NEW n \in Names, CheckMember(n)
            PROVE reader' \in [at : {"idle", "checking"},
                               todo : SUBSET Names, stale : SUBSET Names]
        BY <3>2 DEF CheckMember
      <3>3. CASE Sweep
        BY <3>3 DEF Sweep, NoCall
      <3> QED BY <1>10, <3>1, <3>2, <3>3 DEF Read
    <2> QED BY <2>1, <2>2, <2>3
  <1>11. CASE Tick
    BY <1>11 DEF Tick
  <1>12. CASE UNCHANGED vars
    BY <1>12 DEF vars
  <1> QED
    BY <1>1, <1>2, <1>3, <1>4, <1>5, <1>6, <1>7, <1>8, <1>9, <1>10, <1>11,
       <1>12 DEF Next, Progress

\* Every reachable state satisfies the inductive invariant: in particular
\* what is left of a lease is the TTL of a key with the holder's token.
THEOREM LockInvariant == Spec => []LockInv
  BY InitInv, NextInv, PTL DEF Spec

\* Type correctness of the lock server.
THEOREM LockTypeCorrect == Spec => []TypeOK
  <1>1. LockInv => TypeOK
    BY DEF LockInv
  <1> QED BY <1>1, LockInvariant, PTL

\* Until the TTL of its SET is over or it has released the lock, a process
\* owns its key, whatever other processes, kills and sweeps do.
THEOREM LeaseOwnership == Spec => []LeaseOwnsKey
  <1>1. LockInv => LeaseOwnsKey
    BY DEF LockInv
  <1> QED BY <1>1, LockInvariant, PTL

-------------------------------------------------------------------------------
(* The lock server implements OneAtATime, for bodies within their TTL. *)

Leased == {p \in Procs : pc[p] = "body" /\ lease[p] > 0}

\* Two holders of one lock are the same process: its key has one token.
LEMMA OneHolder == LockInv => \A n \in Names : \A p, q \in Holders[n] : p = q
  BY DEF LockInv, TypeOK, LeaseOwnsKey, InCall, Holders

\* A step that removes p from the leased bodies and changes nothing else of
\* theirs drops p's lock, or changes no holder at all.
LEMMA LeaveDrops ==
  ASSUME NEW p \in Procs, LockInv,
         Leased' = Leased \ {p},
         \A q \in Leased \ {p} : lock'[q] = lock[q]
  PROVE  [Abstract!Next]_Holders
  <1>0. /\ Holders = [n \in Names |-> {q \in Leased : lock[q] = n}]
        /\ Holders' = [n \in Names |-> {q \in Leased' : lock'[q] = n}]
    BY DEF Holders, Leased
  <1>1. CASE p \notin Leased
    BY <1>1, <1>0
  <1>2. CASE p \in Leased
    <2> DEFINE n == lock[p]
    <2>1. n \in Names
      BY <1>2 DEF LockInv, CallsHaveNames, Leased
    <2>2. Holders[n] = {p}
      BY <1>2, <1>0, <2>1, OneHolder
    <2>3. Holders' = [Holders EXCEPT ![n] = {}]
      BY <1>2, <1>0, <2>1, <2>2
    <2>4. Abstract!Drop(n)
      BY <2>2, <2>3, <2>1 DEF Abstract!Drop
    <2> QED BY <2>1, <2>4 DEF Abstract!Next
  <1> QED BY <1>1, <1>2

\* The refinement: an Announce within the TTL takes the lock; the end of the
\* body or a kill drops it; a second that passes ends the leases that are over;
\* no other step changes who holds what.
THEOREM LockRefinement == Spec => OneInstance
  <1>1. Init => Abstract!Init
    BY DEF Init, Abstract!Init, Holders
  <1>2. LockInv /\ [Next]_vars => [Abstract!Next]_Holders
    <2> SUFFICES ASSUME LockInv, [Next]_vars PROVE [Abstract!Next]_Holders
      OBVIOUS
    <2>0. /\ Holders = [n \in Names |-> {q \in Leased : lock[q] = n}]
          /\ Holders' = [n \in Names |-> {q \in Leased' : lock'[q] = n}]
      BY DEF Holders, Leased
    <2>1. ASSUME NEW p \in Procs, Announce(p) PROVE [Abstract!Next]_Holders
      <3>1. CASE ~(lease[p] > 0)
        <4>1. Leased' = Leased /\ lock' = lock
          BY <2>1, <3>1 DEF Announce, Leased, LockInv, TypeOK
        <4> QED BY <4>1, <2>0
      <3>2. CASE lease[p] > 0
        <4> DEFINE n == lock[p]
        <4>1. n \in Names /\ key[n] = p /\ p \notin Leased
          BY <2>1, <3>2
          DEF Announce, LockInv, CallsHaveNames, LeaseOwnsKey, InCall, Leased
        <4>2. Holders[n] = {}
          BY <4>1, <2>0 DEF LockInv, LeaseOwnsKey, InCall, Leased
        <4>3. Leased' = Leased \cup {p} /\ lock' = lock
          BY <2>1, <3>2 DEF Announce, Leased, LockInv, TypeOK
        <4>4. Holders' = [Holders EXCEPT ![n] = {p}]
          BY <4>1, <4>2, <4>3, <2>0
        <4> QED BY <4>1, <4>2, <4>4 DEF Abstract!Next, Abstract!Take
      <3> QED BY <3>1, <3>2
    <2>2. ASSUME NEW p \in Procs, Finish(p) \/ Kill(p)
          PROVE  [Abstract!Next]_Holders
      <3>1. Leased' = Leased \ {p}
        BY <2>2 DEF Finish, Kill, Leased, LockInv, TypeOK
      <3>2. \A q \in Leased \ {p} : lock'[q] = lock[q]
        BY <2>2 DEF Finish, Kill, Leased, LockInv, TypeOK
      <3> QED BY <3>1, <3>2, LeaveDrops
    <2>3. ASSUME NEW p \in Procs,
                 Call(p) \/ Acquire(p) \/ GiveUp(p) \/ Release(p) \/ Unlist(p)
          PROVE  UNCHANGED Holders
      <3>1. pc[p] # "body" /\ pc'[p] # "body"
        BY <2>3 DEF Call, Acquire, GiveUp, Release, Unlist, LockInv, TypeOK
      <3>2. Leased' = Leased
        BY <2>3, <3>1
        DEF Call, Acquire, GiveUp, Release, Unlist, Leased, LockInv, TypeOK
      <3>3. \A q \in Leased : lock'[q] = lock[q]
        BY <2>3, <3>1
        DEF Call, Acquire, GiveUp, Release, Unlist, Leased, LockInv, TypeOK
      <3> QED BY <3>2, <3>3, <2>0
    <2>4. CASE Tick
      <3> DEFINE ns == {n \in Names : Holders'[n] = {}}
      <3>1. Leased' \subseteq Leased /\ lock' = lock
        BY <2>4 DEF Tick, Leased, LockInv, TypeOK
      <3>2. \A n \in Names : Holders'[n] = {} \/ Holders'[n] = Holders[n]
        <4> SUFFICES ASSUME NEW n \in Names, NEW p \in Holders'[n]
                     PROVE  Holders'[n] = Holders[n]
          OBVIOUS
        <4>1. Holders'[n] \subseteq Holders[n]
          BY <3>1, <2>0
        <4>2. \A q \in Holders[n] : q = p
          BY <4>1, OneHolder
        <4> QED BY <4>1, <4>2
      <3>3. Abstract!Lapse(ns)
        <4>1. Holders' = [n \in Names |-> IF n \in ns THEN {} ELSE Holders[n]]
          BY <3>2, <2>0
        <4> QED BY <4>1 DEF Abstract!Lapse
      <3> QED BY <3>3 DEF Abstract!Next
    <2>5. CASE Read \/ \E p \in Procs : Renew(p)
      <3>1. UNCHANGED <<pc, lock, lease>>
        BY <2>5 DEF Read, ListMembers, CheckMember, Sweep, Renew
      <3> QED BY <3>1 DEF Holders
    <2>6. CASE UNCHANGED vars
      BY <2>6 DEF vars, Holders
    <2> QED
      BY <2>1, <2>2, <2>3, <2>4, <2>5, <2>6 DEF Next, Progress
  <1> QED
    BY <1>1, <1>2, LockInvariant, PTL
    DEF Spec, OneInstance, Abstract!Spec, Holders

-------------------------------------------------------------------------------
\* Only the owner's release or death, or the end of the TTL, frees a key that
\* holds a live token.
THEOREM OwnershipRespected == Spec => OnlyOwnerFrees
  <1>1. LockInv /\ [Next]_vars => [FreedByOwner]_vars
    <2> SUFFICES ASSUME LockInv, Next,
                        NEW p \in Procs, NEW n \in Names,
                        key[n] = p, key'[n] # p
                 PROVE  \/ pc[p] = "stopped" /\ pc'[p] = "released"
                        \/ key'[n] = Dead /\ pc'[p] = "idle"
                        \/ key'[n] = Nobody /\ ttl[n] = 1
      BY DEF FreedByOwner
    <2> USE TokenAssumption DEF LockInv, TypeOK
    <2>1. ASSUME NEW q \in Procs, Acquire(q) PROVE FALSE
      BY <2>1 DEF Acquire
    <2>2. ASSUME NEW q \in Procs, Release(q)
          PROVE  pc[p] = "stopped" /\ pc'[p] = "released"
      BY <2>2 DEF Release
    <2>3. ASSUME NEW q \in Procs, Kill(q)
          PROVE  key'[n] = Dead /\ pc'[p] = "idle"
      BY <2>3 DEF Kill
    <2>4. CASE Tick
      BY <2>4 DEF Tick, KeysHaveTTL
    <2>5. ASSUME NEW q \in Procs,
                 \/ Call(q) \/ GiveUp(q) \/ Announce(q) \/ Renew(q) \/ Unlist(q)
                 \/ Finish(q)
          PROVE  FALSE
      BY <2>5 DEF Call, GiveUp, Announce, Renew, Unlist, Finish, redis
    <2>6. CASE Read
      BY <2>6 DEF Read, ListMembers, CheckMember, Sweep, redis
    <2> QED
      BY <2>1, <2>2, <2>3, <2>4, <2>5, <2>6 DEF Next, Progress
  <1> QED
    BY <1>1, LockInvariant, PTL DEF Spec, OnlyOwnerFrees
===============================================================================
