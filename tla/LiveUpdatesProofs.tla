-------------------------- MODULE LiveUpdatesProofs --------------------------
(***************************************************************************)
(* Proofs about the connection of WsClient, for any number of sockets, of  *)
(* cuts and of mounts (there is one connection at most, and a page that is *)
(* there is never left without a socket, a close event or a timer that     *)
(* will bring it back), and about the page of LiveUpdates: it follows the  *)
(* server, however often the connection is lost or the page left.  A list  *)
(* older than the server's will be fetched, or an event about it is on its *)
(* way, or was lost.                                                       *)
(*                                                                         *)
(* The difficulty is that a status event replaces the one not yet handled. *)
(* Done, which says more than the others, is replaced by a later event     *)
(* only: by none of the same process, and by a Pending that was published  *)
(* after it, which overtaken records.                                      *)
(***************************************************************************)
EXTENDS WsClient, LiveUpdates, TLAPS
-------------------------------------------------------------------------------
(* The connection: WsClient. *)

\* Type correctness; the timer that reconnectTimer refers to is running.
WsTypes ==
  /\ mounted \in BOOLEAN /\ mounts \in Nat /\ cuts \in Nat /\ token \in BOOLEAN
  /\ sock \in [Sockets -> {"gone", "connecting", "open", "aborting", "closing"}]
  /\ ws \in Sockets \cup {"null"} /\ closing \in BOOLEAN
  /\ timers \in Nat /\ tracked \in BOOLEAN
  /\ tracked => timers > 0

\* A mounted page has a socket.  WSClient gives one up only in disconnect(),
\* so a socket it still has reconnects when it goes.
Reconnects ==
  /\ mounted => ws # "null"
  /\ ws # "null" => ~closing /\ (sock[ws] = "gone" => timers > 0)

\* The inductive invariant.
WsInv == WsTypes /\ OneConnection /\ Reconnects

\* The initial states satisfy the invariant.
LEMMA InitWsInv == WsInit => WsInv
  <1> SUFFICES ASSUME WsInit PROVE WsInv
    OBVIOUS
  <1>1. WsTypes
    BY DEF WsInit, WsTypes
  <1>2. OneConnection /\ Reconnects
    BY DEF WsInit, OneConnection, Reconnects, Live
  <1> QED BY <1>1, <1>2 DEF WsInv

\* Connecting keeps the one connection, or makes another when it is gone.
LEMMA ConnectInv ==
  ASSUME WsTypes, OneConnection, Connect
  PROVE  /\ sock' \in [Sockets -> {"gone", "connecting", "open", "aborting", "closing"}]
         /\ ws' \in Sockets /\ closing' \in BOOLEAN
         /\ OneConnection' /\ sock'[ws'] # "gone"
         /\ (ws # "null" => ~closing) => ~closing'
  <1>1. CASE ws # "null" /\ Live(ws)
    BY <1>1 DEF WsTypes, OneConnection, Connect, Live
  <1>2. CASE ~(ws # "null" /\ Live(ws))
    <2>1. PICK s \in Sockets :
            sock[s] = "gone" /\ sock' = [sock EXCEPT ![s] = "connecting"] /\ ws' = s /\ closing' = FALSE
      BY <1>2 DEF Connect
    <2>2. \A t \in Sockets : ~Live(t)
      BY <1>2, WsAssumption DEF OneConnection
    <2> QED BY <2>1, <2>2 DEF WsTypes, OneConnection, Live
  <1> QED BY <1>1, <1>2

\* Every event, timer, mount and unmount preserves it.
LEMMA NextWsInv == WsInv /\ [WsNext]_wsVars => WsInv'
  <1> SUFFICES ASSUME WsInv, [WsNext]_wsVars PROVE WsInv'
    OBVIOUS
  <1>0. WsTypes /\ OneConnection /\ Reconnects
    BY DEF WsInv
  <1> USE WsAssumption
  <1>1. ASSUME NEW s \in Sockets, Accepted(s) PROVE WsInv'
    BY <1>0, <1>1 DEF Accepted, WsInv, WsTypes, OneConnection, Reconnects, Live
  <1>2. ASSUME NEW s \in Sockets, NEW err \in BOOLEAN, Closed(s, err), cuts' \in Nat,
              token' \in BOOLEAN
       PROVE  WsInv'
    <2>1. WsTypes'
      <3>1. sock' \in [Sockets -> {"gone", "connecting", "open", "aborting", "closing"}]
        BY <1>0, <1>2 DEF Closed, Shut, WsTypes
      <3>2. /\ mounted' = mounted /\ mounts' = mounts /\ ws' = ws /\ closing' = closing
            /\ \/ timers' = timers /\ tracked' = tracked
               \/ timers' = timers + 1 /\ tracked' = TRUE
        BY <1>2 DEF Closed
      <3>3. timers' \in Nat /\ (tracked' => timers' > 0)
        BY <1>0, <3>2 DEF WsTypes
      <3>4. tracked' \in BOOLEAN
        BY <1>0, <3>2 DEF WsTypes
      <3> QED BY <1>0, <1>2, <3>1, <3>2, <3>3, <3>4 DEF WsTypes
    <2>2. \A t \in Sockets : Live(t)' => Live(t)
      BY <1>0, <1>2 DEF Closed, Shut, WsTypes, Live
    <2>3. OneConnection'
      BY <1>0, <1>2, <2>2 DEF Closed, OneConnection
    <2>4. Reconnects'
      BY <1>0, <1>2 DEF Closed, Shut, WsTypes, Reconnects
    <2> QED BY <2>1, <2>3, <2>4 DEF WsInv
  <1>3. ASSUME NEW s \in Sockets, CloseEvent(s) PROVE WsInv'
    BY <1>0, <1>2, <1>3 DEF CloseEvent, WsTypes
  <1>4. ASSUME NEW s \in Sockets, Cut(s) PROVE WsInv'
    <2>1. PICK err \in BOOLEAN : Closed(s, err)
      BY <1>4 DEF Cut
    <2>2. cuts' \in Nat /\ token' \in BOOLEAN
      BY <1>0, <1>4 DEF Cut, WsTypes
    <2> QED BY <1>2, <2>1, <2>2
  <1>5. ASSUME NEW own \in BOOLEAN, Reconnect(own) PROVE WsInv'
    <2>1. tracked' \in BOOLEAN /\ (tracked' => tracked /\ ~own)
      BY <1>5 DEF Reconnect
    <2>2. timers' \in Nat /\ (tracked' => timers' > 0)
      BY <1>0, <1>5, <2>1 DEF Reconnect, WsTypes
    <2>3. UNCHANGED <<mounted, mounts, cuts, token>> /\ Connect
      BY <1>5 DEF Reconnect
    <2> QED BY <1>0, <2>1, <2>2, <2>3, ConnectInv DEF WsInv, WsTypes, Reconnects
  <1>6. CASE Mount
    BY <1>0, <1>6, ConnectInv DEF Mount, WsInv, WsTypes, Reconnects
  <1>7. CASE Unmount
    <2>1. WsTypes' /\ Reconnects'
      <3>1. sock' \in [Sockets -> {"gone", "connecting", "open", "aborting", "closing"}]
        BY <1>0, <1>7 DEF Unmount, Disconnect, Shut, WsTypes
      <3>2. /\ mounted' = FALSE /\ mounts' = mounts /\ cuts' = cuts /\ token' = token /\ ws' = "null"
            /\ closing' = TRUE /\ tracked' = FALSE
            /\ timers' = IF tracked THEN timers - 1 ELSE timers
        BY <1>7 DEF Unmount, Disconnect
      <3>3. timers' \in Nat
        BY <1>0, <3>2 DEF WsTypes
      <3> QED BY <1>0, <3>1, <3>2, <3>3 DEF WsTypes, Reconnects
    <2>2. OneConnection'
      BY <1>0, <1>7 DEF Unmount, Disconnect, Shut, WsTypes, OneConnection, Live
    <2> QED BY <2>1, <2>2 DEF WsInv
  <1>8. CASE UNCHANGED wsVars
    BY <1>0, <1>8 DEF wsVars, WsInv, WsTypes, OneConnection, Reconnects, Live
  <1>9. ASSUME NEW s \in Sockets, SocketRefused(s) PROVE WsInv'
    <2>1. Closed(s, TRUE) /\ cuts' = cuts /\ token' = token
      BY <1>9 DEF SocketRefused
    <2> QED BY <1>0, <1>2, <2>1 DEF WsTypes
  <1>10. CASE TokenExpires \/ TokenRenewed
    <2>1. token' \in BOOLEAN /\ UNCHANGED <<mounted, mounts, sock, ws, closing, timers, tracked, cuts>>
      BY <1>10 DEF TokenExpires, TokenRenewed
    <2> QED BY <1>0, <2>1 DEF WsInv, WsTypes, OneConnection, Reconnects, Live
  <1> QED BY <1>1, <1>3, <1>4, <1>5, <1>6, <1>7, <1>8, <1>9, <1>10 DEF WsNext

-------------------------------------------------------------------------------
\* The invariant holds throughout.
THEOREM WsInvariant == WsSpec => []WsInv
  BY InitWsInv, NextWsInv, PTL DEF WsSpec

\* There is at most one connection, the one that disconnect() would close.
THEOREM OneSocketLive == WsSpec => []OneConnection
  <1>1. WsInv => OneConnection
    BY DEF WsInv
  <1> QED BY <1>1, WsInvariant, PTL

\* A mounted page is never stranded: its socket is there or connecting, or its
\* close event is still to come, or a timer is running, whatever late events of
\* other sockets came in between.
NeverStranded ==
  mounted => Live(ws) \/ sock[ws] \in {"aborting", "closing"} \/ timers > 0

THEOREM PageNeverStranded == WsSpec => []NeverStranded
  <1>1. WsInv => NeverStranded
    BY DEF WsInv, WsTypes, Reconnects, NeverStranded, Live
  <1> QED BY <1>1, WsInvariant, PTL
-------------------------------------------------------------------------------
(* The page: LiveUpdates. *)

Events == Statuses \cup {"Locked", "Unlocked"}
Runs == {"waiting", "started", "running", "holding", "releasing", "over", "dead"}
\* What the server may answer about a query.
Values == Statuses \cup {"none", "free", "held"} \cup Nat

\* Type correctness; each process has events of its own.
LiveTypes ==
  /\ server \in [Keys -> Values] /\ server["records"] \in Nat
  /\ cache \in [Keys -> Values] /\ fetch \in [Keys -> SUBSET Values]
  /\ run \in Runs
  /\ outbox \in [Processes -> Events \cup {"none"}]
  /\ outbox["api"] \in {"none", "Pending"} /\ outbox["revoker"] \in {"none", "Revoked"}
  /\ outbox["worker"] \notin {"Pending", "Revoked"}
  /\ chan \in Seq(Events) /\ pending \in Statuses \cup {"none"}
  /\ overtaken \in BOOLEAN /\ missed \subseteq Keys

\* Why k may be older than the server's, with no answer on its way that is not.
Excused(k) ==
  \/ k \in missed
  \/ \E e \in Upcoming : k \in Affects(e)
  \/ Untold(k)

\* An answer that is older than the server's has the same excuses.
FetchFollows == \A k \in Keys : \A v \in fetch[k] : v = server[k] \/ Excused(k)

\* Done is committed before it is published.
DoneIsCommitted == outbox["worker"] = "Done" => Finished

\* Once Done is published, the worker has nothing more to say of the status.
DoneIsPublished ==
  pending = "Done" \/ "Done" \in InChan => Finished /\ outbox["worker"] \notin {"Started", "Done"}

\* Only the statuses of other processes can come after Done.
AfterDone(e) == e \notin {"Started", "Done"} /\ (e \in {"Pending", "Revoked"} => overtaken)
DoneIsKept ==
  /\ pending = "Done" => \A j \in 1..Len(chan) : AfterDone(chan[j])
  /\ \A i, j \in 1..Len(chan) : i < j /\ chan[i] = "Done" => AfterDone(chan[j])

\* The inductive invariant.
Follows == CacheFollows /\ FetchFollows
DoneInv == DoneIsCommitted /\ DoneIsPublished /\ DoneIsKept
LiveInv == LiveTypes /\ Follows /\ DoneInv
-----------------------------------------------------------------------------
(* Sequences of events, and what follows the server. *)

\* What Append adds.
LEMMA AppendElements ==
  ASSUME NEW s \in Seq(Events), NEW e \in Events
  PROVE  /\ Append(s, e) \in Seq(Events) /\ Len(s) \in Nat
         /\ Len(Append(s, e)) = Len(s) + 1
         /\ \A i \in 1..Len(s) : Append(s, e)[i] = s[i]
         /\ Append(s, e)[Len(s) + 1] = e
         /\ \A i \in 1..(Len(s) + 1) : i \in 1..Len(s) \/ i = Len(s) + 1
         /\ {Append(s, e)[i] : i \in 1..Len(Append(s, e))} = {s[i] : i \in 1..Len(s)} \cup {e}
  <1>1. /\ Append(s, e) \in Seq(Events) /\ Len(s) \in Nat
        /\ Len(Append(s, e)) = Len(s) + 1
        /\ \A i \in 1..Len(s) : Append(s, e)[i] = s[i]
        /\ Append(s, e)[Len(s) + 1] = e
    OBVIOUS
  <1>2. 1..(Len(s) + 1) = (1..Len(s)) \cup {Len(s) + 1}
    BY <1>1
  <1>3. {Append(s, e)[i] : i \in 1..Len(Append(s, e))} = {s[i] : i \in 1..Len(s)} \cup {e}
    BY <1>1, <1>2
  <1> QED BY <1>1, <1>2, <1>3

\* What Tail leaves.
LEMMA TailElements ==
  ASSUME NEW s \in Seq(Events), s # <<>>
  PROVE  /\ Tail(s) \in Seq(Events) /\ Head(s) \in Events /\ Head(s) = s[1]
         /\ Len(s) \in Nat \ {0} /\ Len(Tail(s)) = Len(s) - 1
         /\ \A i \in 1..Len(Tail(s)) : Tail(s)[i] = s[i + 1] /\ i + 1 \in 1..Len(s)
         /\ {s[i] : i \in 1..Len(s)} = {Tail(s)[i] : i \in 1..Len(Tail(s))} \cup {Head(s)}
  <1>1. /\ Tail(s) \in Seq(Events) /\ Head(s) \in Events /\ Head(s) = s[1]
        /\ Len(s) \in Nat \ {0} /\ Len(Tail(s)) = Len(s) - 1
        /\ \A i \in 1..Len(Tail(s)) : Tail(s)[i] = s[i + 1]
    OBVIOUS
  <1>2. \A i \in 1..Len(Tail(s)) : i + 1 \in 1..Len(s)
    BY <1>1
  <1>3. \A j \in 1..Len(s) : j = 1 \/ (j - 1 \in 1..Len(Tail(s)) /\ Tail(s)[j - 1] = s[j])
    BY <1>1
  <1>4. {s[i] : i \in 1..Len(s)} = {Tail(s)[i] : i \in 1..Len(Tail(s))} \cup {Head(s)}
    BY <1>1, <1>2, <1>3
  <1> QED BY <1>1, <1>2, <1>4

\* The cached value of k follows the server's if k is excused, or asked for
\* again, or current, or no less asked for than it was when it needed no excuse.
LEMMA StillFollows ==
  ASSUME Follows,
         \A k \in Keys :
           \/ Excused(k)'
           \/ fetch'[k] = {server'[k]}
           \/ cache'[k] = server'[k] /\ fetch'[k] = {}
           \/ ~Excused(k) /\ server'[k] = server[k] /\ cache'[k] = cache[k] /\ fetch'[k] = fetch[k]
  PROVE  Follows'
  <1>1. ASSUME NEW k \in Keys PROVE cache'[k] = server'[k] \/ server'[k] \in fetch'[k] \/ Excused(k)'
    BY <1>1 DEF Follows, CacheFollows, Excused
  <1>2. CacheFollows'
    BY <1>1 DEF CacheFollows, Excused
  <1>3. FetchFollows'
    BY DEF Follows, FetchFollows
  <1> QED BY <1>2, <1>3 DEF Follows

\* An excuse lasts as long as its event is upcoming or counted as missed.
LEMMA StillExcused ==
  ASSUME NEW k \in Keys, Excused(k), k \in missed => k \in missed', Untold(k) => Untold(k)',
         \A e \in Upcoming : k \in Affects(e) => e \in Upcoming' \/ k \in missed'
  PROVE  Excused(k)'
  BY DEF Excused
-----------------------------------------------------------------------------
(* Every step of the server, the connection and the page. *)

\* The initial states satisfy the invariant.
LEMMA InitLiveInv == LiveInit => LiveInv
  <1> SUFFICES ASSUME LiveInit PROVE LiveInv
    OBVIOUS
  <1>1. LiveTypes
    <2>1. /\ Start \in [Keys -> Values] /\ Start["records"] \in Nat
          /\ [k \in Keys |-> {}] \in [Keys -> SUBSET Values]
      BY DEF Start, Keys, Values
    <2>2. /\ outbox \in [Processes -> Events \cup {"none"}] /\ chan \in Seq(Events)
          /\ outbox["api"] = "none" /\ outbox["revoker"] = "none" /\ outbox["worker"] = "none"
      BY DEF LiveInit, Processes
    <2> QED BY <2>1, <2>2 DEF LiveInit, LiveTypes, Runs
  <1>2. Follows
    BY DEF LiveInit, Follows, CacheFollows, FetchFollows
  <1>3. DoneInv
    BY DEF LiveInit, DoneInv, DoneIsCommitted, DoneIsPublished, DoneIsKept, InChan, Processes
  <1> QED BY <1>1, <1>2, <1>3 DEF LiveInv

\* A commit excuses what it changes, by the event it leaves to publish or as
\* something untold; the worker says Done last of all statuses.
LEMMA CommitInv ==
  ASSUME LiveInv, NEW p \in Processes, NEW new \in [Keys -> Values], new["records"] \in Nat,
         NEW e \in Events \cup {"none"}, Commit(p, new, e), run' \in Runs,
         p = "api" => e = "Pending", p = "revoker" => e = "Revoked",
         p = "worker" => e \notin {"Pending", "Revoked"},
         Finished => Finished' /\ (p = "worker" => e \notin {"Started", "Done"}),
         e = "Done" => Finished',
         \A k \in Keys : k \in Affects(e) \/ Untold(k)' \/ (new[k] = server[k] /\ ~Untold(k))
  PROVE  LiveInv'
  <1>0. LiveTypes /\ Follows /\ DoneIsCommitted /\ DoneIsPublished /\ DoneIsKept
    BY DEF LiveInv, DoneInv
  <1>1. /\ outbox[p] = "none" /\ outbox' = [outbox EXCEPT ![p] = e] /\ server' = new
        /\ missed' = missed /\ overtaken' = overtaken /\ chan' = chan
        /\ pending' = pending /\ cache' = cache /\ fetch' = fetch
    BY DEF Commit, view
  <1>2. outbox \in [Processes -> Events \cup {"none"}]
    BY <1>0 DEF LiveTypes
  <1>3. /\ outbox' \in [Processes -> Events \cup {"none"}]
        /\ outbox'[p] = e /\ \A q \in Processes \ {p} : outbox'[q] = outbox[q]
    BY <1>1, <1>2
  <1>4. p = "api" \/ p = "worker" \/ p = "revoker"
    BY DEF Processes
  <1>5. LiveTypes'
    <2>1. /\ outbox'["api"] \in {"none", "Pending"} /\ outbox'["revoker"] \in {"none", "Revoked"}
          /\ outbox'["worker"] \notin {"Pending", "Revoked"}
      BY <1>0, <1>3, <1>4 DEF LiveTypes, Processes
    <2> QED BY <1>0, <1>1, <1>3, <2>1 DEF LiveTypes
  <1>6. e \in Upcoming' /\ \A f \in Upcoming : f \in Upcoming' \/ f = "none"
    BY <1>1, <1>3 DEF Upcoming, InChan
  <1>7. ASSUME NEW k \in Keys, ~Excused(k)' PROVE ~Excused(k) /\ new[k] = server[k]
    <2>1. k \notin Affects(e) /\ ~Untold(k)'
      BY <1>6, <1>7 DEF Excused
    <2>2. new[k] = server[k] /\ ~Untold(k)
      BY <2>1
    <2>3. \A f \in Upcoming : k \in Affects(f) => f \in Upcoming'
      BY <1>6 DEF Affects
    <2> QED BY <1>1, <1>7, <2>2, <2>3 DEF Excused
  <1>8. Follows'
    BY <1>0, <1>1, <1>7, StillFollows
  <1>9. DoneIsCommitted'
    BY <1>0, <1>3, <1>4 DEF DoneIsCommitted, Processes
  <1>10. DoneIsPublished'
    BY <1>0, <1>1, <1>3, <1>4 DEF DoneIsPublished, InChan, Processes
  <1>11. DoneIsKept'
    BY <1>0, <1>1 DEF DoneIsKept, AfterDone
  <1> QED BY <1>5, <1>8, <1>9, <1>10, <1>11 DEF LiveInv, DoneInv

\* What the API commits: the dispatch and the revocation.
LEMMA ApiInv == LiveInv /\ (Enqueue \/ Revoke) => LiveInv'
  <1> SUFFICES ASSUME LiveInv, Enqueue \/ Revoke PROVE LiveInv'
    OBVIOUS
  <1>1. server \in [Keys -> Values] /\ server["records"] \in Nat /\ run \in Runs
    BY DEF LiveInv, LiveTypes
  <1>2. PICK p \in {"api", "revoker"}, e \in {"Pending", "Revoked"} :
          /\ Commit(p, [server EXCEPT !.tasks = e], e) /\ (p = "api" <=> e = "Pending")
          /\ UNCHANGED <<run, expired>>
    BY DEF Enqueue, Revoke
  <1>3. overtaken' = overtaken
    BY <1>2 DEF Commit
  <1>4. PICK new \in [Keys -> Values] :
          /\ new = [server EXCEPT !.tasks = e] /\ new["records"] \in Nat
          /\ \A k \in Keys : k # "tasks" => new[k] = server[k]
    BY <1>1 DEF Keys, Values, Statuses
  <1>5. Affects(e) = {"tasks"}
    BY DEF Affects
  <1>6. (Finished => Finished') /\ \A k \in Keys : Untold(k) => Untold(k)'
    BY <1>2, <1>3 DEF Finished, Untold
  <1>7. p \in Processes /\ e \in Events \cup {"none"} /\ run' \in Runs
    BY <1>1, <1>2 DEF Processes, Events, Statuses
  <1>8. \A k \in Keys : k \in Affects(e) \/ Untold(k)' \/ (new[k] = server[k] /\ ~Untold(k))
    BY <1>4, <1>5, <1>6
  <1> QED BY <1>2, <1>4, <1>6, <1>7, <1>8, CommitInv

\* The worker's commits.
LEMMA WorkerInv ==
  LiveInv /\ (StartTask \/ TakeLock \/ CommitRecords \/ FinishTask \/ ReleaseLock) => LiveInv'
  <1> SUFFICES ASSUME LiveInv, StartTask \/ TakeLock \/ CommitRecords \/ FinishTask \/ ReleaseLock
               PROVE  LiveInv'
    OBVIOUS
  <1>1. server \in [Keys -> Values] /\ server["records"] \in Nat /\ run \in Runs
    BY DEF LiveInv, LiveTypes
  <1> DEFINE Says(new, e) == Commit("worker", new, e) /\ "worker" \in Processes
                             /\ new \in [Keys -> Values] /\ new["records"] \in Nat
                             /\ e \in Events \cup {"none"} /\ e \notin {"Pending", "Revoked"}
  <1>2. \A new, e : Says(new, e) => overtaken' = overtaken
    BY DEF Commit
  <1>3. CASE StartTask
    <2>1. PICK new : Says(new, "Started") /\ \A k \in Keys : k # "tasks" => new[k] = server[k]
      BY <1>1, <1>3 DEF StartTask, Keys, Values, Events, Statuses, Processes
    <2>2. /\ run = "waiting" /\ run' = "started" /\ expired' = expired /\ overtaken' = overtaken
          /\ Affects("Started") = {"tasks"}
      BY <1>2, <1>3, <2>1 DEF StartTask, Affects
    <2>3. \A k \in Keys : k \in Affects("Started") \/ Untold(k)' \/ (new[k] = server[k] /\ ~Untold(k))
      BY <2>1, <2>2 DEF Untold
    <2> QED BY <2>1, <2>2, <2>3, CommitInv DEF Finished, Runs
  <1>4. CASE TakeLock
    <2>1. PICK new : Says(new, "Locked") /\ \A k \in Keys : k # "locks" => new[k] = server[k]
      BY <1>1, <1>4 DEF TakeLock, Keys, Values, Events, Statuses, Processes
    <2>2. /\ run = "started" /\ run' = "holding" /\ expired' = expired /\ overtaken' = overtaken
          /\ Affects("Locked") = {"locks"}
      BY <1>2, <1>4, <2>1 DEF TakeLock, Affects
    <2>3. \A k \in Keys : k \in Affects("Locked") \/ Untold(k)' \/ (new[k] = server[k] /\ ~Untold(k))
      BY <2>1, <2>2 DEF Untold
    <2> QED BY <2>1, <2>2, <2>3, CommitInv DEF Finished, Runs
  <1>5. CASE CommitRecords
    <2>1. PICK new : Says(new, "none") /\ \A k \in Keys : k # "records" => new[k] = server[k]
      BY <1>1, <1>5 DEF CommitRecords, Keys, Values, Events, Statuses, Processes
    <2>2. /\ run \in {"started", "running", "holding"} /\ run' \in {"running", "holding"}
          /\ expired' = expired /\ overtaken' = overtaken
      BY <1>2, <1>5, <2>1 DEF CommitRecords
    <2>3. \A k \in Keys : k \in Affects("none") \/ Untold(k)' \/ (new[k] = server[k] /\ ~Untold(k))
      BY <2>1, <2>2 DEF Untold, Keys
    <2> QED BY <2>1, <2>2, <2>3, CommitInv DEF Finished, Runs
  <1>6. CASE FinishTask
    <2>1. PICK new : Says(new, "Done") /\ new["locks"] = server["locks"]
      <3>1. PICK n \in {server.records, server.records + 1} :
              Commit("worker", [server EXCEPT !.tasks = "Done", !.records = n], "Done")
        BY <1>6 DEF FinishTask
      <3>2. n \in Nat
        BY <1>1
      <3>3. PICK new : new = [server EXCEPT !.tasks = "Done", !.records = n]
        OBVIOUS
      <3>4. new \in [Keys -> Values] /\ new["records"] \in Nat /\ new["locks"] = server["locks"]
        BY <1>1, <3>2, <3>3 DEF Keys, Values, Statuses
      <3> QED BY <3>1, <3>3, <3>4 DEF Events, Statuses, Processes
    <2>2. /\ run \in {"started", "running", "holding"} /\ run' \in {"releasing", "over"}
          /\ expired' = expired /\ overtaken' = overtaken /\ Affects("Done") = {"tasks", "records"}
      BY <1>2, <1>6, <2>1 DEF FinishTask, Affects
    <2>3. \A k \in Keys : k \in Affects("Done") \/ Untold(k)' \/ (new[k] = server[k] /\ ~Untold(k))
      BY <2>1, <2>2 DEF Untold, Keys
    <2> QED BY <2>1, <2>2, <2>3, CommitInv DEF Finished, Runs
  <1>7. CASE ReleaseLock
    <2>1. PICK new : Says(new, "Unlocked") /\ \A k \in Keys : k # "locks" => new[k] = server[k]
      BY <1>1, <1>7 DEF ReleaseLock, Keys, Values, Events, Statuses, Processes
    <2>2. /\ run = "releasing" /\ run' = "over" /\ overtaken' = overtaken
          /\ Affects("Unlocked") = {"locks"}
      BY <1>2, <1>7, <2>1 DEF ReleaseLock, Affects
    <2>3. \A k \in Keys : k \in Affects("Unlocked") \/ Untold(k)' \/ (new[k] = server[k] /\ ~Untold(k))
      BY <2>1, <2>2 DEF Untold
    <2> QED BY <2>1, <2>2, <2>3, CommitInv DEF Finished, Runs
  <1> QED BY <1>3, <1>4, <1>5, <1>6, <1>7

\* The key of the lock expires: what the locks were is excused from now on.
LEMMA LockExpiresInv == LiveInv /\ LockExpires => LiveInv'
  <1> SUFFICES ASSUME LiveInv, LockExpires PROVE LiveInv'
    OBVIOUS
  <1>0. LiveTypes /\ Follows /\ DoneIsCommitted /\ DoneIsPublished /\ DoneIsKept
    BY DEF LiveInv, DoneInv
  <1>1. /\ server' = [server EXCEPT !.locks = "free"] /\ expired' = TRUE
        /\ run' = run /\ outbox' = outbox /\ overtaken' = overtaken /\ chan' = chan
        /\ pending' = pending /\ cache' = cache /\ fetch' = fetch /\ missed' = missed
    BY DEF LockExpires, view
  <1>2. LiveTypes'
    <2>1. server' \in [Keys -> Values] /\ server'["records"] \in Nat
      BY <1>0, <1>1 DEF LiveTypes, Keys, Values
    <2> QED BY <1>0, <1>1, <2>1 DEF LiveTypes
  <1>3. ASSUME NEW k \in Keys PROVE Excused(k)' \/ (server'[k] = server[k] /\ ~Excused(k))
    <2>1. CASE k = "locks"
      BY <1>1, <2>1 DEF Excused, Untold
    <2>2. CASE k # "locks"
      <3>1. server'[k] = server[k]
        BY <1>0, <1>1, <2>2 DEF LiveTypes
      <3>2. Excused(k) => Excused(k)'
        BY <1>1, <2>2 DEF Excused, Untold, Upcoming, InChan
      <3> QED BY <3>1, <3>2
    <2> QED BY <2>1, <2>2
  <1>4. Follows'
    BY <1>0, <1>1, <1>3, StillFollows
  <1>5. DoneIsCommitted' /\ DoneIsPublished' /\ DoneIsKept'
    BY <1>0, <1>1 DEF DoneIsCommitted, DoneIsPublished, DoneIsKept, AfterDone, InChan, Finished
  <1> QED BY <1>2, <1>4, <1>5 DEF LiveInv, DoneInv

\* What a process had to publish when it died is counted as missed.
LEMMA DieInv == ASSUME LiveInv, NEW p \in Processes, Die(p) PROVE LiveInv'
  <1>0. LiveTypes /\ Follows /\ DoneIsCommitted /\ DoneIsPublished /\ DoneIsKept
    BY DEF LiveInv, DoneInv
  <1>1. /\ outbox' = [outbox EXCEPT ![p] = "none"] /\ missed' = missed \cup Affects(outbox[p])
        /\ server' = server /\ expired' = expired /\ overtaken' = overtaken /\ chan' = chan
        /\ pending' = pending /\ cache' = cache /\ fetch' = fetch
    BY DEF Die, view
  <1>2. /\ run' \in Runs /\ (Finished => Finished')
        /\ run \in {"running", "holding", "dead"} => run' \in {"running", "holding", "dead"}
    <2>1. run' = CASE p # "worker" -> run
                   [] run \in {"releasing", "over"} -> "over"
                   [] OTHER -> "dead"
      BY DEF Die
    <2> QED BY <1>0, <2>1 DEF LiveTypes, Runs, Finished
  <1>3. /\ outbox' \in [Processes -> Events \cup {"none"}]
        /\ outbox'[p] = "none" /\ \A q \in Processes \ {p} : outbox'[q] = outbox[q]
    BY <1>0, <1>1 DEF LiveTypes
  <1>4. LiveTypes'
    <2>1. missed' \subseteq Keys
      BY <1>0, <1>1 DEF LiveTypes, Affects, Keys
    <2>2. /\ outbox'["api"] \in {"none", "Pending"} /\ outbox'["revoker"] \in {"none", "Revoked"}
          /\ outbox'["worker"] \notin {"Pending", "Revoked"}
      BY <1>0, <1>3 DEF LiveTypes, Processes
    <2> QED BY <1>0, <1>1, <1>2, <1>3, <2>1, <2>2 DEF LiveTypes
  <1>5. ASSUME NEW k \in Keys, Excused(k) PROVE Excused(k)'
    <2>1. Untold(k) => Untold(k)'
      BY <1>1, <1>2 DEF Untold
    <2>2. \A e \in Upcoming : k \in Affects(e) => e \in Upcoming' \/ k \in missed'
      BY <1>1, <1>3 DEF Upcoming, InChan
    <2> QED BY <1>1, <1>5, <2>1, <2>2, StillExcused
  <1>6. Follows'
    BY <1>0, <1>1, <1>5, StillFollows
  <1>7. DoneIsCommitted' /\ DoneIsPublished' /\ DoneIsKept'
    <2>1. DoneIsCommitted'
      BY <1>0, <1>2, <1>3 DEF DoneIsCommitted, Processes
    <2>2. DoneIsPublished'
      BY <1>0, <1>1, <1>2, <1>3 DEF DoneIsPublished, InChan, Processes
    <2>3. DoneIsKept'
      BY <1>0, <1>1 DEF DoneIsKept, AfterDone
    <2> QED BY <2>1, <2>2, <2>3
  <1> QED BY <1>4, <1>6, <1>7 DEF LiveInv, DoneInv

\* A published event reaches the page or is counted as missed; one of another
\* process than the worker that comes after Done overtakes it.
LEMMA PublishInv == ASSUME LiveInv, NEW p \in Processes, Publish(p) PROVE LiveInv'
  <1>0. LiveTypes /\ Follows /\ DoneIsCommitted /\ DoneIsPublished /\ DoneIsKept
    BY DEF LiveInv, DoneInv
  <1>1. /\ outbox[p] # "none" /\ outbox' = [outbox EXCEPT ![p] = "none"]
        /\ server' = server /\ run' = run /\ expired' = expired
        /\ pending' = pending /\ cache' = cache /\ fetch' = fetch
        /\ overtaken' = (overtaken \/ (p # "worker" /\ Finished /\ outbox["worker"] # "Done"))
    BY DEF Publish, world, view
  <1>2. PICK e \in Events : e = outbox[p]
    BY <1>0, <1>1 DEF LiveTypes
  <1>3. \/ chan' = Append(chan, e) /\ missed' = missed
        \/ chan' = chan /\ missed' = missed \cup Affects(e)
    BY <1>2 DEF Publish
  <1>4. /\ outbox' \in [Processes -> Events \cup {"none"}]
        /\ outbox'[p] = "none" /\ \A q \in Processes \ {p} : outbox'[q] = outbox[q]
    BY <1>0, <1>1 DEF LiveTypes
  <1>5. PICK c \in Seq(Events) : c = chan
    BY <1>0 DEF LiveTypes
  <1>6. /\ chan' \in Seq(Events) /\ Len(c) \in Nat
        /\ \A i \in 1..Len(chan') : \/ i \in 1..Len(c) /\ chan'[i] = c[i]
                                    \/ i = Len(c) + 1 /\ chan'[i] = e
        /\ InChan' \subseteq InChan \cup {e} /\ InChan \subseteq InChan'
        /\ e \in InChan' \/ missed' = missed \cup Affects(e)
    <2>1. CASE chan' = chan /\ missed' = missed \cup Affects(e)
      BY <1>5, <2>1 DEF InChan
    <2>2. CASE chan' = Append(c, e)
      BY <2>2, <1>5, AppendElements DEF InChan
    <2> QED BY <1>3, <1>5, <2>1, <2>2
  <1>7. overtaken' \in BOOLEAN /\ (overtaken => overtaken') /\ missed \subseteq missed'
    BY <1>0, <1>1, <1>3 DEF LiveTypes
  <1>8. LiveTypes'
    <2>1. missed' \subseteq Keys
      BY <1>0, <1>3 DEF LiveTypes, Affects, Keys
    <2>2. /\ outbox'["api"] \in {"none", "Pending"} /\ outbox'["revoker"] \in {"none", "Revoked"}
          /\ outbox'["worker"] \notin {"Pending", "Revoked"}
      BY <1>0, <1>4 DEF LiveTypes, Processes
    <2> QED BY <1>0, <1>1, <1>4, <1>6, <1>7, <2>1, <2>2 DEF LiveTypes
  <1>9. ASSUME NEW k \in Keys, Excused(k) PROVE Excused(k)'
    <2>1. Untold(k) => Untold(k)'
      BY <1>1, <1>7 DEF Untold
    <2>2. \A f \in Upcoming : k \in Affects(f) => f \in Upcoming' \/ k \in missed'
      BY <1>1, <1>2, <1>4, <1>6 DEF Upcoming
    <2> QED BY <1>7, <1>9, <2>1, <2>2, StillExcused
  <1>10. Follows'
    BY <1>0, <1>1, <1>9, StillFollows
  <1>11. DoneIsCommitted'
    BY <1>0, <1>1, <1>4 DEF DoneIsCommitted, Finished, Processes
  <1>12. DoneIsPublished'
    <2> SUFFICES ASSUME pending = "Done" \/ "Done" \in InChan \/ e = "Done"
                 PROVE  Finished /\ outbox'["worker"] \notin {"Started", "Done"}
      BY <1>1, <1>6 DEF DoneIsPublished, Finished
    <2>1. CASE pending = "Done" \/ "Done" \in InChan
      BY <1>0, <1>4, <2>1 DEF DoneIsPublished, Processes
    <2>2. CASE e = "Done"
      <3>1. p = "worker"
        BY <1>0, <1>2, <2>2 DEF LiveTypes, Processes
      <3> QED BY <1>0, <1>2, <1>4, <2>2, <3>1 DEF DoneIsCommitted
    <2> QED BY <2>1, <2>2
  <1>13. DoneIsKept'
    <2>1. ASSUME pending = "Done" \/ "Done" \in InChan PROVE AfterDone(e)'
      <3>1. Finished /\ outbox["worker"] \notin {"Started", "Done"}
        BY <1>0, <2>1 DEF DoneIsPublished
      <3>2. CASE p = "worker"
        BY <1>0, <1>2, <3>1, <3>2 DEF AfterDone, LiveTypes
      <3>3. CASE p # "worker"
        <4>1. overtaken'
          BY <1>1, <3>1, <3>3
        <4>2. e \in {"Pending", "Revoked"}
          BY <1>0, <1>2, <3>3, <1>1 DEF LiveTypes, Processes
        <4> QED BY <4>1, <4>2 DEF AfterDone
      <3> QED BY <3>2, <3>3
    <2>2. \A x : AfterDone(x) => AfterDone(x)'
      BY <1>7 DEF AfterDone
    <2>3. ASSUME pending' = "Done", NEW j \in 1..Len(chan') PROVE AfterDone(chan[j])'
      BY <1>0, <1>1, <1>5, <1>6, <2>1, <2>2, <2>3 DEF DoneIsKept, AfterDone
    <2>4. ASSUME NEW i \in 1..Len(chan'), NEW j \in 1..Len(chan'), i < j, chan'[i] = "Done"
          PROVE  AfterDone(chan[j])'
      <3>1. i \in 1..Len(c) /\ c[i] = "Done" /\ "Done" \in InChan
        BY <1>5, <1>6, <2>4 DEF InChan
      <3>2. CASE j \in 1..Len(c) /\ chan'[j] = c[j]
        BY <1>0, <1>5, <2>2, <2>4, <3>1, <3>2 DEF DoneIsKept, AfterDone
      <3>3. CASE chan'[j] = e
        BY <2>1, <3>1, <3>3 DEF AfterDone
      <3> QED BY <1>6, <3>2, <3>3
    <2> QED BY <2>3, <2>4 DEF DoneIsKept
  <1> QED BY <1>8, <1>10, <1>11, <1>12, <1>13 DEF LiveInv, DoneInv

\* What the connection or the page drops is counted as missed.
LEMMA LinkInv == LiveInv /\ (Lose \/ Return \/ Hide \/ Show) => LiveInv'
  <1> SUFFICES ASSUME LiveInv, Lose \/ Return \/ Hide \/ Show PROVE LiveInv'
    OBVIOUS
  <1>0. LiveTypes /\ Follows /\ DoneIsCommitted /\ DoneIsPublished /\ DoneIsKept
    BY DEF LiveInv, DoneInv
  <1>1. /\ server' = server /\ run' = run /\ expired' = expired /\ outbox' = outbox
        /\ overtaken' = overtaken /\ cache' = cache /\ fetch' = fetch
    BY DEF Lose, Return, Hide, Show, world, view
  <1>2. chan' \in {chan, <<>>} /\ pending' \in {pending, "none"}
    BY DEF Lose, Return, Hide, Show, view, Forget
  <1>3. /\ missed \subseteq missed' /\ missed' \subseteq Keys
        /\ \A f \in InChan \cup {pending} : Affects(f) \subseteq missed' \/ f \in InChan' \cup {pending'}
    <2>1. CASE Lose
      BY <1>0, <2>1 DEF Lose, view, Forget, Affects, Keys, LiveTypes
    <2>2. CASE Hide
      BY <1>0, <2>2 DEF Hide, view, Forget, Affects, Keys, LiveTypes
    <2>3. CASE Return \/ Show
      BY <1>0, <2>3 DEF Return, Show, view, InChan, LiveTypes
    <2> QED BY <2>1, <2>2, <2>3
  <1>4. LiveTypes'
    <2>1. chan' \in Seq(Events) /\ pending' \in Statuses \cup {"none"}
      <3>1. <<>> \in Seq(Events) /\ chan \in Seq(Events)
        BY <1>0 DEF LiveTypes
      <3>2. chan' \in Seq(Events)
        BY <1>2, <3>1
      <3>3. pending' \in Statuses \cup {"none"}
        BY <1>0, <1>2 DEF LiveTypes
      <3> QED BY <3>2, <3>3
    <2> QED BY <1>0, <1>1, <1>3, <2>1 DEF LiveTypes
  <1>5. ASSUME NEW k \in Keys, Excused(k) PROVE Excused(k)'
    <2>1. \A f \in Upcoming : k \in Affects(f) => f \in Upcoming' \/ k \in missed'
      BY <1>1, <1>3 DEF Upcoming
    <2>2. Untold(k) => Untold(k)'
      BY <1>1 DEF Untold
    <2> QED BY <1>3, <1>5, <2>1, <2>2, StillExcused
  <1>6. Follows'
    BY <1>0, <1>1, <1>5, StillFollows
  <1>7. DoneIsCommitted' /\ DoneIsPublished' /\ DoneIsKept'
    BY <1>0, <1>1, <1>2 DEF DoneIsCommitted, DoneIsPublished, DoneIsKept, AfterDone, InChan, Finished
  <1> QED BY <1>4, <1>6, <1>7 DEF LiveInv, DoneInv

\* A message is handled, or coalesced with the one it replaces: what a replaced
\* Done said of the records is overtaken.
LEMMA MessageInv == LiveInv /\ Message => LiveInv'
  <1> SUFFICES ASSUME LiveInv, Message PROVE LiveInv'
    OBVIOUS
  <1>0. LiveTypes /\ Follows /\ DoneIsCommitted /\ DoneIsPublished /\ DoneIsKept
    BY DEF LiveInv, DoneInv
  <1>1. PICK c \in Seq(Events) \ {<<>>} : c = chan
    BY <1>0 DEF LiveTypes, Message
  <1>2. PICK e \in Events : e = Head(c) /\ e = c[1]
    BY <1>1, TailElements
  <1>3. /\ Tail(c) \in Seq(Events) /\ Len(c) \in Nat \ {0} /\ Len(Tail(c)) = Len(c) - 1
        /\ \A i \in 1..Len(Tail(c)) : Tail(c)[i] = c[i + 1] /\ i + 1 \in 1..Len(c)
    BY <1>1, TailElements
  <1>4. /\ chan' = Tail(c) /\ server' = server /\ run' = run /\ expired' = expired
        /\ outbox' = outbox /\ overtaken' = overtaken /\ cache' = cache /\ missed' = missed
        /\ \/ e \in {"Locked", "Unlocked"} /\ fetch' = Invalidated({"locks"}) /\ pending' = pending
           \/ e \in Statuses /\ fetch' = fetch /\ pending' = e
    BY <1>1, <1>2 DEF Message, OnLock, OnTaskStatus, world
  <1>5. InChan = InChan' \cup {e}
    BY <1>1, <1>2, <1>4, TailElements DEF InChan
  <1>6. /\ fetch' \in [Keys -> SUBSET Values]
        /\ \A k \in Keys : fetch'[k] = fetch[k] \/ (k = "locks" /\ fetch'[k] = {server[k]})
        /\ e \in {"Locked", "Unlocked"} => fetch'["locks"] = {server["locks"]}
    BY <1>0, <1>4 DEF LiveTypes, Invalidated, Keys, Statuses
  <1>7. LiveTypes'
    BY <1>0, <1>3, <1>4, <1>6 DEF LiveTypes
  <1>8. pending = "Done" => AfterDone(e)
    <2>1. 1 \in 1..Len(c)
      BY <1>3
    <2> QED BY <1>0, <1>1, <1>2, <2>1 DEF DoneIsKept
  <1>9. ASSUME NEW k \in Keys, Excused(k), fetch'[k] # {server[k]} PROVE Excused(k)'
    <2>1. Untold(k) => Untold(k)'
      BY <1>4 DEF Untold
    <2>2. CASE e \in {"Locked", "Unlocked"}
      <3>1. pending' = pending /\ Affects(e) = {"locks"} /\ k # "locks"
        BY <1>4, <1>6, <1>9, <2>2 DEF Affects, Statuses
      <3>2. \A f \in Upcoming : k \in Affects(f) => f \in Upcoming'
        BY <1>4, <1>5, <3>1 DEF Upcoming
      <3> QED BY <1>4, <1>9, <2>1, <3>2, StillExcused
    <2>3. CASE e \in Statuses
      <3>1. pending' = e /\ e \in Upcoming'
        BY <1>4, <2>3 DEF Statuses, Upcoming
      <3>2. CASE pending = "Done" /\ k = "records"
        <4>1. overtaken
          BY <1>8, <2>3, <3>2 DEF AfterDone, Statuses
        <4> QED BY <1>4, <3>2, <4>1 DEF Excused, Untold
      <3>3. CASE ~(pending = "Done" /\ k = "records")
        <4>1. k \in Affects(pending) => k \in Affects(e)
          BY <1>0, <2>3, <3>3 DEF LiveTypes, Affects, Statuses
        <4>2. k \in Affects(e) => Excused(k)'
          BY <3>1 DEF Excused
        <4>3. ASSUME k \notin Affects(e) PROVE Excused(k)'
          <5>1. \A f \in Upcoming : k \in Affects(f) => f \in Upcoming'
            BY <1>4, <1>5, <4>1, <4>3 DEF Upcoming
          <5> QED BY <1>4, <1>9, <2>1, <5>1, StillExcused
        <4> QED BY <4>2, <4>3
      <3> QED BY <3>2, <3>3
    <2> QED BY <1>4, <2>2, <2>3
  <1>10. Follows'
    BY <1>0, <1>4, <1>6, <1>9, StillFollows
  <1>11. DoneIsCommitted'
    BY <1>0, <1>4 DEF DoneIsCommitted, Finished
  <1>12. pending' = "Done" => pending = "Done" \/ e = "Done"
    BY <1>4
  <1>13. DoneIsPublished'
    BY <1>0, <1>4, <1>5, <1>12 DEF DoneIsPublished, Finished
  <1>14. DoneIsKept'
    <2>1. \A j \in 1..Len(chan') : chan'[j] = c[j + 1] /\ j + 1 \in 1..Len(c) /\ 1 < j + 1
      BY <1>3, <1>4
    <2>2. ASSUME pending' = "Done", NEW j \in 1..Len(chan') PROVE AfterDone(chan[j])'
      <3>1. CASE pending = "Done"
        BY <1>0, <1>1, <1>4, <2>1, <3>1 DEF DoneIsKept, AfterDone
      <3>2. CASE e = "Done"
        <4>1. 1 \in 1..Len(c)
          BY <1>3
        <4> QED BY <1>0, <1>1, <1>2, <1>4, <2>1, <3>2, <4>1 DEF DoneIsKept, AfterDone
      <3> QED BY <1>12, <2>2, <3>1, <3>2
    <2>3. ASSUME NEW i \in 1..Len(chan'), NEW j \in 1..Len(chan'), i < j, chan'[i] = "Done"
          PROVE  AfterDone(chan[j])'
      <3>1. i + 1 < j + 1
        BY <1>3, <1>4, <2>3
      <3> QED BY <1>0, <1>1, <1>4, <2>1, <2>3, <3>1 DEF DoneIsKept, AfterDone
    <2> QED BY <2>2, <2>3 DEF DoneIsKept
  <1> QED BY <1>7, <1>10, <1>11, <1>13, <1>14 DEF LiveInv, DoneInv

\* Handling the coalesced event asks again for what it is about.
LEMMA HandleInv == LiveInv /\ HandleTaskStatus => LiveInv'
  <1> SUFFICES ASSUME LiveInv, HandleTaskStatus PROVE LiveInv'
    OBVIOUS
  <1>0. LiveTypes /\ Follows /\ DoneIsCommitted /\ DoneIsPublished /\ DoneIsKept
    BY DEF LiveInv, DoneInv
  <1>1. /\ pending' = "none" /\ chan' = chan /\ server' = server /\ run' = run /\ expired' = expired
        /\ outbox' = outbox /\ overtaken' = overtaken /\ cache' = cache /\ missed' = missed
        /\ fetch' = [k \in Keys |-> IF k \in Affects(pending) THEN {server[k]} ELSE fetch[k]]
    BY DEF HandleTaskStatus, Invalidated, world
  <1>2. LiveTypes'
    <2>1. fetch' \in [Keys -> SUBSET Values]
      BY <1>0, <1>1 DEF LiveTypes
    <2> QED BY <1>0, <1>1, <2>1 DEF LiveTypes
  <1>3. ASSUME NEW k \in Keys, k \notin Affects(pending), Excused(k) PROVE Excused(k)'
    <2>1. \A f \in Upcoming : k \in Affects(f) => f \in Upcoming'
      BY <1>1, <1>3 DEF Upcoming, InChan
    <2>2. Untold(k) => Untold(k)'
      BY <1>1 DEF Untold
    <2> QED BY <1>1, <1>3, <2>1, <2>2, StillExcused
  <1>4. Follows'
    BY <1>0, <1>1, <1>3, StillFollows
  <1>5. DoneIsCommitted' /\ DoneIsPublished' /\ DoneIsKept'
    BY <1>0, <1>1 DEF DoneIsCommitted, DoneIsPublished, DoneIsKept, AfterDone, InChan, Finished
  <1> QED BY <1>2, <1>4, <1>5 DEF LiveInv, DoneInv

\* An answer is as old as it was when the server gave it; without one, what is
\* old counts as missed.
LEMMA FetchedInv == ASSUME LiveInv, NEW k \in Keys, Fetched(k) \/ FetchFails(k) PROVE LiveInv'
  <1>0. LiveTypes /\ Follows /\ DoneIsCommitted /\ DoneIsPublished /\ DoneIsKept
    BY DEF LiveInv, DoneInv
  <1>1. /\ fetch' = [fetch EXCEPT ![k] = {}]
        /\ server' = server /\ run' = run /\ expired' = expired /\ outbox' = outbox
        /\ overtaken' = overtaken /\ chan' = chan /\ pending' = pending
    BY DEF Fetched, FetchFails, world
  <1>2. \/ \E v \in fetch[k] : /\ cache' = [cache EXCEPT ![k] = v]
                               /\ missed' = IF v = server[k] THEN missed \ {k} ELSE missed
        \/ cache' = cache /\ missed' = IF cache[k] = server[k] THEN missed ELSE missed \cup {k}
    BY DEF Fetched, FetchFails
  <1>3. LiveTypes'
    <2>1. /\ fetch' \in [Keys -> SUBSET Values] /\ cache' \in [Keys -> Values]
          /\ missed' \subseteq Keys
      BY <1>0, <1>1, <1>2 DEF LiveTypes
    <2> QED BY <1>0, <1>1, <2>1 DEF LiveTypes
  <1>4. ASSUME NEW q \in Keys, Excused(q), q \in missed => q \in missed' PROVE Excused(q)'
    BY <1>1, <1>4 DEF Excused, Untold, Upcoming, InChan
  <1>5. ASSUME NEW q \in Keys, q # k
        PROVE  Excused(q)' \/ (~Excused(q) /\ cache'[q] = cache[q] /\ fetch'[q] = fetch[q])
    <2>1. (q \in missed <=> q \in missed') /\ cache'[q] = cache[q] /\ fetch'[q] = fetch[q]
      BY <1>0, <1>1, <1>2, <1>5 DEF LiveTypes
    <2> QED BY <1>4, <2>1
  <1>6. fetch'[k] = {} /\ (cache'[k] = server[k] \/ Excused(k)')
    <2>1. fetch'[k] = {}
      BY <1>0, <1>1 DEF LiveTypes
    <2>2. ASSUME NEW v \in fetch[k], cache' = [cache EXCEPT ![k] = v],
                 missed' = IF v = server[k] THEN missed \ {k} ELSE missed
          PROVE  cache'[k] = server[k] \/ Excused(k)'
      <3>1. cache'[k] = v
        BY <1>0, <2>2 DEF LiveTypes
      <3>2. v # server[k] => Excused(k) /\ missed' = missed
        BY <1>0, <2>2 DEF Follows, FetchFollows
      <3> QED BY <1>4, <3>1, <3>2
    <2>3. CASE cache' = cache /\ missed' = IF cache[k] = server[k] THEN missed ELSE missed \cup {k}
      <3>1. CASE cache[k] = server[k]
        <4>1. cache'[k] = server[k]
          BY <2>3, <3>1
        <4> QED BY <2>1, <4>1
      <3>2. CASE cache[k] # server[k]
        <4>1. k \in missed'
          BY <2>3, <3>2
        <4>2. Excused(k)'
          BY <4>1 DEF Excused
        <4> QED BY <2>1, <4>2
      <3> QED BY <3>1, <3>2
    <2> QED BY <1>2, <2>1, <2>2, <2>3
  <1>7. Follows'
    BY <1>0, <1>1, <1>5, <1>6, StillFollows
  <1>8. DoneIsCommitted' /\ DoneIsPublished' /\ DoneIsKept'
    BY <1>0, <1>1 DEF DoneIsCommitted, DoneIsPublished, DoneIsKept, AfterDone, InChan, Finished
  <1> QED BY <1>3, <1>7, <1>8 DEF LiveInv, DoneInv

\* The banner asks again.
LEMMA PageInv == LiveInv /\ (MainBanner \/ UNCHANGED liveVars) => LiveInv'
  <1> SUFFICES ASSUME LiveInv, MainBanner \/ UNCHANGED liveVars PROVE LiveInv'
    OBVIOUS
  <1>0. LiveTypes /\ Follows /\ DoneIsCommitted /\ DoneIsPublished /\ DoneIsKept
    BY DEF LiveInv, DoneInv
  <1>1. /\ server' = server /\ run' = run /\ expired' = expired /\ outbox' = outbox
        /\ overtaken' = overtaken /\ missed' = missed
        /\ chan' = chan /\ pending' = pending /\ cache' = cache
        /\ fetch' \in {fetch, [k \in Keys |-> IF k \in {"tasks"} THEN {server[k]} ELSE fetch[k]]}
    BY DEF MainBanner, Invalidated, liveVars, world, view
  <1>2. fetch' \in [Keys -> SUBSET Values] /\ \A k \in Keys : fetch'[k] \in {fetch[k], {server[k]}}
    BY <1>0, <1>1 DEF LiveTypes
  <1>3. LiveTypes'
    BY <1>0, <1>1, <1>2 DEF LiveTypes
  <1>4. ASSUME NEW k \in Keys, Excused(k) PROVE Excused(k)'
    BY <1>1, <1>4 DEF Excused, Untold, Upcoming, InChan
  <1>5. Follows'
    BY <1>0, <1>1, <1>2, <1>4, StillFollows
  <1>6. DoneIsCommitted' /\ DoneIsPublished' /\ DoneIsKept'
    BY <1>0, <1>1 DEF DoneIsCommitted, DoneIsPublished, DoneIsKept, AfterDone, InChan, Finished
  <1> QED BY <1>3, <1>5, <1>6 DEF LiveInv, DoneInv

\* Every step preserves the invariant.
LEMMA NextLiveInv == LiveInv /\ [LiveNext]_liveVars => LiveInv'
  BY ApiInv, WorkerInv, LockExpiresInv, DieInv, PublishInv, LinkInv, MessageInv, HandleInv,
     FetchedInv, PageInv DEF LiveNext

\* However often the connection is lost, the page left, a process dies or the
\* task is revoked, the page keeps its invariant.
THEOREM LiveInvariant == LiveSpec => []LiveInv
  BY InitLiveInv, NextLiveInv, PTL DEF LiveSpec

\* A cached list that is older than the server's is being asked for again, or
\* an event that will ask for it is on its way, or that or its answer was lost,
\* or there is none (use-ws-events' handlers and what they drop).
THEOREM PageFollows == LiveSpec => []CacheFollows
  BY LiveInvariant, PTL DEF LiveInv, Follows
-----------------------------------------------------------------------------
(* The outcome of the task in the history of notifications. *)

\* An event of a task that is done is on its way, or was handled, unless it was
\* lost or overtaken; only Done makes a success.
OutcomeKept ==
  /\ losses \in Nat /\ (losses = 0 => open)
  /\ \A n \in history : n[2] = "success" => n = <<"Done", "success">>
  /\ server.tasks = "Done" /\ losses = 0 /\ ~overtaken
       => "Done" \in Upcoming \/ <<"Done", "success">> \in history

\* Done leaves Upcoming only into the history or by being overtaken.
LEMMA NextOutcomeKept == LiveInv /\ OutcomeKept /\ [LiveNext]_liveVars => OutcomeKept'
  <1> SUFFICES ASSUME LiveInv, OutcomeKept, [LiveNext]_liveVars PROVE OutcomeKept'
    OBVIOUS
  <1> DEFINE Shown == <<"Done", "success">> \in history
             Due == server.tasks = "Done" /\ losses = 0 /\ ~overtaken
  <1>0. LiveTypes /\ DoneIsKept
    BY DEF LiveInv, DoneInv
  <1>1. /\ losses \in Nat /\ (losses = 0 => open)
        /\ \A n \in history : n[2] = "success" => n = <<"Done", "success">>
        /\ Due => "Done" \in Upcoming \/ Shown
    BY DEF OutcomeKept
  <1>2. server \in [Keys -> Values] /\ outbox \in [Processes -> Events \cup {"none"}]
    BY <1>0 DEF LiveTypes
  <1>3. ASSUME NEW p \in Processes, NEW new, NEW e, Commit(p, new, e),
               new.tasks = "Done" => server.tasks = "Done" \/ e = "Done"
        PROVE  OutcomeKept'
    <2>1. /\ losses' = losses /\ open' = open /\ history' = history /\ chan' = chan
          /\ pending' = pending /\ overtaken' = overtaken /\ server' = new
          /\ outbox[p] = "none" /\ outbox' = [outbox EXCEPT ![p] = e]
      BY <1>3 DEF Commit, link, view
    <2>2. outbox'[p] = e /\ \A q \in Processes : outbox[q] = "none" \/ outbox'[q] = outbox[q]
      BY <1>2, <2>1
    <2>3. e \in Upcoming' /\ ("Done" \in Upcoming => "Done" \in Upcoming')
      BY <2>1, <2>2 DEF Upcoming, InChan
    <2> QED BY <1>1, <1>3, <2>1, <2>3 DEF OutcomeKept
  <1>4. ASSUME NEW s \in {"Pending", "Started", "Revoked"}, NEW p \in Processes, NEW e,
               Commit(p, [server EXCEPT !.tasks = s], e)
        PROVE  OutcomeKept'
    <2>1. [server EXCEPT !.tasks = s].tasks # "Done"
      BY <1>2 DEF Keys
    <2> QED BY <1>3, <1>4, <2>1
  <1>5. CASE Enqueue \/ StartTask \/ Revoke
    BY <1>4, <1>5 DEF Enqueue, StartTask, Revoke, Processes
  <1>6. ASSUME NEW k \in {"records", "locks"}, NEW v, NEW e,
               Commit("worker", [server EXCEPT ![k] = v], e)
        PROVE  OutcomeKept'
    <2>1. [server EXCEPT ![k] = v].tasks = server.tasks
      BY <1>2 DEF Keys
    <2> QED BY <1>3, <1>6, <2>1 DEF Processes
  <1>7. CASE TakeLock \/ CommitRecords \/ ReleaseLock
    BY <1>6, <1>7 DEF TakeLock, CommitRecords, ReleaseLock
  <1>8. CASE FinishTask
    BY <1>3, <1>8 DEF FinishTask, Processes
  <1>9. CASE LockExpires
    <2>1. /\ losses' = losses /\ open' = open /\ history' = history /\ chan' = chan
          /\ pending' = pending /\ overtaken' = overtaken /\ outbox' = outbox
          /\ server'.tasks = server.tasks
      BY <1>2, <1>9 DEF LockExpires, link, view, Keys
    <2> QED BY <1>1, <2>1 DEF OutcomeKept, Upcoming, InChan
  <1>10. ASSUME NEW p \in Processes, Publish(p) PROVE OutcomeKept'
    <2>1. PICK e \in Events : e = outbox[p]
      BY <1>2, <1>10 DEF Publish
    <2>2. /\ open' = open /\ history' = history /\ server' = server
          /\ pending' = pending /\ outbox' = [outbox EXCEPT ![p] = "none"]
          /\ overtaken => overtaken'
      BY <1>10 DEF Publish, link, world, view
    <2>3. \/ losses' = losses /\ (losses = 0 => chan' = Append(chan, e))
          \/ losses' = losses + 1
      BY <1>1, <1>10, <2>1 DEF Publish
    <2>4. ASSUME chan' = Append(chan, e) PROVE "Done" \in Upcoming => "Done" \in Upcoming'
      <3>1. InChan' = InChan \cup {e}
        BY <1>0, <2>4, AppendElements DEF InChan, LiveTypes
      <3>2. \A q \in Processes : outbox[q] = e \/ outbox'[q] = outbox[q]
        BY <1>2, <2>1, <2>2
      <3> QED BY <2>2, <3>1, <3>2 DEF Upcoming
    <2>5. CASE losses' = losses + 1
      <3>1. losses' \in Nat /\ losses' # 0
        BY <1>1, <2>5
      <3> QED BY <1>1, <2>2, <3>1 DEF OutcomeKept
    <2>6. CASE losses' = losses /\ (losses = 0 => chan' = Append(chan, e))
      BY <1>1, <2>2, <2>4, <2>6 DEF OutcomeKept
    <2> QED BY <2>3, <2>5, <2>6
  <1>11. ASSUME losses' = losses + 1, history' = history PROVE OutcomeKept'
    <2>1. losses' \in Nat /\ losses' # 0
      BY <1>1, <1>11
    <2> QED BY <1>1, <1>11, <2>1 DEF OutcomeKept
  <1>12. CASE Lose \/ Hide \/ (\E p \in Processes : Die(p)) \/ (\E k \in Keys : FetchFails(k))
    BY <1>11, <1>12 DEF Lose, Hide, Die, FetchFails, view
  <1>13. CASE Return \/ Show \/ MainBanner \/ (\E k \in Keys : Fetched(k)) \/ UNCHANGED liveVars
    <2>1. /\ losses' = losses /\ (open => open') /\ history' = history /\ server' = server
          /\ pending' = pending /\ outbox' = outbox /\ chan' = chan /\ overtaken' = overtaken
      BY <1>13 DEF Return, Show, MainBanner, Fetched, liveVars, link, world, view
    <2> QED BY <1>1, <2>1 DEF OutcomeKept, Upcoming, InChan
  <1>14. CASE Message
    <2>1. PICK c \in Seq(Events) \ {<<>>} : c = chan
      BY <1>0, <1>14 DEF LiveTypes, Message
    <2>2. PICK e \in Events : e = Head(c) /\ e = c[1]
      BY <2>1, TailElements
    <2>3. /\ chan' = Tail(c) /\ server' = server /\ outbox' = outbox /\ overtaken' = overtaken
          /\ losses' = losses /\ open' = open /\ history' = history
          /\ (e \in {"Locked", "Unlocked"} /\ pending' = pending) \/ (e \in Statuses /\ pending' = e)
      BY <1>14, <2>1, <2>2 DEF Message, OnLock, OnTaskStatus, link, world
    <2>4. InChan = InChan' \cup {e}
      <3>1. /\ {c[i] : i \in 1..Len(c)} = {Tail(c)[i] : i \in 1..Len(Tail(c))} \cup {Head(c)}
            /\ chan = c /\ chan' = Tail(c) /\ e = Head(c)
        BY <2>1, <2>2, <2>3, TailElements
      <3> QED BY ONLY <3>1 DEF InChan
    <2>7. Len(c) \in Nat \ {0}
      BY <2>1, TailElements
    <2>5. ASSUME pending = "Done" PROVE e \notin {"Started", "Done"} /\ (e \in Statuses => overtaken)
      <3>1. 1 \in 1..Len(chan) /\ chan[1] = e
        BY <2>1, <2>2, <2>7
      <3> QED BY <1>0, <2>5, <3>1 DEF DoneIsKept, AfterDone, Statuses
    <2>6. "Done" \in Upcoming /\ ~overtaken => "Done" \in Upcoming'
      BY <2>3, <2>4, <2>5 DEF Statuses, Upcoming
    <2> QED BY <1>1, <2>3, <2>6 DEF OutcomeKept
  <1>15. CASE HandleTaskStatus
    <2>1. /\ pending # "none" /\ pending' = "none" /\ AddNotification(pending)
          /\ losses' = losses /\ open' = open /\ server' = server
          /\ outbox' = outbox /\ chan' = chan /\ overtaken' = overtaken
      BY <1>15 DEF HandleTaskStatus, link, world
    <2>2. history' = history \/ history' = history \cup {<<pending, Variant(pending)>>}
      BY <2>1 DEF AddNotification
    <2>3. \A n \in history' : n[2] = "success" => n = <<"Done", "success">>
      BY <1>1, <2>2 DEF Variant
    <2>4. pending = "Done" => Shown'
      BY <1>1, <2>1 DEF AddNotification, Variant
    <2>5. "Done" \in Upcoming \/ Shown => "Done" \in Upcoming' \/ Shown'
      BY <2>1, <2>2, <2>4 DEF Upcoming, InChan
    <2> QED BY <1>1, <2>1, <2>3, <2>5 DEF OutcomeKept
  <1> QED BY <1>5, <1>7, <1>8, <1>9, <1>10, <1>12, <1>13, <1>14, <1>15 DEF LiveNext

\* A page that kept its connection has the outcome of a task in its history of
\* notifications once nothing is left to handle, unless a Pending or a Revoked
\* was published after Done: the one case in which it has not.
THEOREM OutcomeShownUnlessOvertaken == LiveSpec => [](overtaken \/ OutcomeShown)
  <1>1. LiveInit => OutcomeKept
    BY DEF LiveInit, OutcomeKept, Start
  <1>2. OutcomeKept => overtaken \/ OutcomeShown
    BY DEF OutcomeKept, OutcomeShown
  <1> QED BY <1>1, <1>2, NextOutcomeKept, LiveInvariant, PTL DEF LiveSpec
=============================================================================
