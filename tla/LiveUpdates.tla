----------------------------- MODULE LiveUpdates -----------------------------
(***************************************************************************)
(* How a page of the web client follows the server: the handlers of        *)
(* use-ws-events that coalesce status events and invalidate cached         *)
(* queries, the polling of the banner and the history of notifications,    *)
(* over a connection that comes and goes (WsClient).                       *)
(*                                                                         *)
(* One task whose events the user receives, and the lock it takes.  Its    *)
(* status is published by three processes: the API that dispatched it, the *)
(* worker, and the API that revokes it.  Done is Success or Failure.  The  *)
(* records it writes are a version number.                                 *)
(***************************************************************************)
EXTENDS Naturals, Sequences

CONSTANTS
  MaxLosses,    \* how often a process dies, an event is not published, the
                \* connection is lost, the page unmounted or a fetch given up
  MaxCommits,   \* how often the task commits records
  MaxRevokes    \* how often it is revoked

ASSUME LiveAssumption == MaxLosses \in Nat /\ MaxCommits \in Nat /\ MaxRevokes \in Nat

VARIABLES
  shown, open,        \* the page is mounted; the server has its connection
  losses, revokes,
  server,             \* query -> the value the server would answer
  run,                \* how far the worker is
  expired,            \* the key of the lock has expired, of which no event tells
  outbox,             \* process -> the event it has to publish, or "none"
  chan,               \* events on their way to the page
  pending,            \* pendingEvents of the task: the last status, or "none"
  cache, fetch,       \* query -> cached value, the answers on their way
  history,            \* notifications as <<status, variant>>
  missed,             \* queries an event or an answer about which never came
  overtaken           \* another status was published after Done

link == <<shown, open>>
world == <<server, run, expired, revokes>>
view == <<pending, cache, fetch, history>>
liveVars == <<link, losses, world, outbox, overtaken, chan, view, missed>>

Processes == {"api", "worker", "revoker"}
Keys == {"tasks", "records", "locks"}
Affects(e) == CASE e = "none" -> {}
                [] e = "Done" -> {"tasks", "records"}
                [] e \in {"Locked", "Unlocked"} -> {"locks"}
                [] OTHER -> {"tasks"}

Start == [tasks |-> "none", records |-> 0, locks |-> "free"]

LiveInit ==
  /\ shown = TRUE /\ open = TRUE /\ losses = 0 /\ revokes = 0
  /\ server = Start /\ cache = Start /\ run = "waiting" /\ expired = FALSE
  /\ outbox = [p \in Processes |-> "none"]
  /\ chan = <<>> /\ pending = "none"
  /\ fetch = [k \in Keys |-> {}]
  /\ history = {} /\ missed = {} /\ overtaken = FALSE
-----------------------------------------------------------------------------
(* The server: a process commits, then publishes, then goes on. *)

Commit(p, new, e) ==
  /\ outbox[p] = "none" /\ outbox' = [outbox EXCEPT ![p] = e]
  /\ server' = new
  /\ UNCHANGED <<link, losses, chan, view, missed, overtaken>>

\* The task is dispatched before its Pending is published.
Enqueue == /\ server.tasks = "none"
           /\ Commit("api", [server EXCEPT !.tasks = "Pending"], "Pending")
           /\ UNCHANGED <<run, expired, revokes>>

\* A revocation that the worker did not hear of does not keep it from starting.
StartTask == /\ run = "waiting" /\ server.tasks # "none" /\ run' = "started"
             /\ Commit("worker", [server EXCEPT !.tasks = "Started"], "Started")
             /\ UNCHANGED <<expired, revokes>>

TakeLock == /\ run = "started" /\ server.locks = "free" /\ run' = "holding"
            /\ Commit("worker", [server EXCEPT !.locks = "held"], "Locked")
            /\ UNCHANGED <<expired, revokes>>

\* A batch, of which no event tells.
CommitRecords ==
  /\ run \in {"started", "running", "holding"} /\ server.records < MaxCommits
  /\ run' = IF run = "started" THEN "running" ELSE run
  /\ Commit("worker", [server EXCEPT !.records = @ + 1], "none")
  /\ UNCHANGED <<expired, revokes>>

\* The outcome is written with the last batch, and over a revocation.
FinishTask ==
  /\ run \in {"started", "running", "holding"}
  /\ run' = IF run = "holding" THEN "releasing" ELSE "over"
  /\ \E n \in {server.records, server.records + 1} :
       /\ n <= MaxCommits
       /\ Commit("worker", [server EXCEPT !.tasks = "Done", !.records = n], "Done")
  /\ UNCHANGED <<expired, revokes>>

\* The event is published even if the key had expired.
ReleaseLock ==
  /\ run = "releasing" /\ run' = "over"
  /\ Commit("worker", [server EXCEPT !.locks = "free"], "Unlocked")
  /\ expired' = FALSE
  /\ UNCHANGED revokes

LockExpires ==
  /\ server.locks = "held" /\ server' = [server EXCEPT !.locks = "free"]
  /\ expired' = TRUE
  /\ UNCHANGED <<link, losses, run, revokes, outbox, overtaken, chan, view, missed>>

\* revoke_task read a status that could be revoked; the task may have ended since.
Revoke ==
  /\ revokes < MaxRevokes /\ revokes' = revokes + 1
  /\ server.tasks # "none"
  /\ Commit("revoker", [server EXCEPT !.tasks = "Revoked"], "Revoked")
  /\ UNCHANGED <<run, expired>>

\* A process dies (the worker may be told to, by a revocation) and publishes
\* nothing of what it committed.
Die(p) ==
  /\ outbox[p] # "none" \/ (p = "worker" /\ run \in {"started", "running", "holding", "releasing"})
  /\ losses < MaxLosses /\ losses' = losses + 1
  /\ outbox' = [outbox EXCEPT ![p] = "none"]
  /\ missed' = missed \cup Affects(outbox[p])
  /\ run' = CASE p # "worker" -> run
              [] run \in {"releasing", "over"} -> "over"
              [] OTHER -> "dead"
  /\ UNCHANGED <<link, server, expired, revokes, overtaken, chan, view>>

\* The outcome was committed; a batch of the task is never committed later.
Finished == run \in {"releasing", "over"}

\* Redis keeps nothing: an event reaches the sockets open when it is published,
\* unless the backend is just then without its subscription.
Publish(p) ==
  /\ outbox[p] # "none" /\ outbox' = [outbox EXCEPT ![p] = "none"]
  /\ \/ open /\ chan' = Append(chan, outbox[p]) /\ UNCHANGED <<missed, losses>>
     \/ /\ missed' = missed \cup Affects(outbox[p]) /\ UNCHANGED chan
        /\ IF open THEN losses < MaxLosses /\ losses' = losses + 1
                   ELSE UNCHANGED losses
  /\ overtaken' = (overtaken \/ (p # "worker" /\ Finished /\ outbox["worker"] # "Done"))
  /\ UNCHANGED <<link, world, view>>
-----------------------------------------------------------------------------
(* The connection and the page. *)

InChan == {chan[i] : i \in 1..Len(chan)}
Forget(es) == chan' = <<>> /\ missed' = missed \cup UNION {Affects(e) : e \in es}

\* What was on its way is lost.
Lose ==
  /\ open /\ losses < MaxLosses /\ losses' = losses + 1
  /\ open' = FALSE
  /\ Forget(InChan)
  /\ UNCHANGED <<shown, world, outbox, overtaken, view>>

\* Nothing is asked again when the connection returns.
Return == /\ shown /\ ~open /\ open' = TRUE
          /\ UNCHANGED <<shown, losses, world, outbox, overtaken, chan, view, missed>>

\* The cleanup of the effect also drops what was coalesced.
Hide ==
  /\ shown /\ losses < MaxLosses /\ losses' = losses + 1
  /\ shown' = FALSE /\ open' = FALSE
  /\ Forget(InChan \cup {pending}) /\ pending' = "none"
  /\ UNCHANGED <<world, outbox, overtaken, cache, fetch, history>>

Show == /\ ~shown /\ shown' = TRUE
        /\ UNCHANGED <<open, losses, world, outbox, overtaken, chan, view, missed>>
-----------------------------------------------------------------------------
(* The handlers and the cached queries. *)

\* invalidateQueries: a fetch under way is cancelled and started again.
Invalidated(ks) == [k \in Keys |-> IF k \in ks THEN {server[k]} ELSE fetch[k]]

OnLock(e) ==
  /\ e \in {"Locked", "Unlocked"}
  /\ fetch' = Invalidated({"locks"})
  /\ UNCHANGED pending

Statuses == {"Pending", "Started", "Done", "Revoked"}

\* Mutated OnTaskStatus: the first event of a burst is handled.
OnTaskStatusKeeping(e) ==
  /\ e \in Statuses
  /\ pending' = IF pending = "none" THEN e ELSE pending
  /\ UNCHANGED fetch

\* A status event replaces the one not yet handled.
OnTaskStatus(e) ==
  /\ e \in Statuses
  /\ pending' = e
  /\ UNCHANGED fetch

Message ==
  /\ chan # <<>> /\ chan' = Tail(chan)
  /\ OnLock(Head(chan)) \/ OnTaskStatus(Head(chan))
  /\ UNCHANGED <<link, losses, world, outbox, overtaken, cache, history, missed>>

Variant(e) == IF e = "Done" THEN "success" ELSE "default"

\* One notification of a task for each variant; of a revocation, none.
AddNotification(e) ==
  IF e = "Revoked" \/ \E n \in history : n[2] = Variant(e)
  THEN UNCHANGED history
  ELSE /\ history' = history \cup {<<e, Variant(e)>>}

\* COALESCE_MS have passed.
HandleTaskStatus ==
  /\ pending # "none" /\ pending' = "none"
  /\ fetch' = Invalidated(Affects(pending))
  /\ AddNotification(pending)
  /\ UNCHANGED <<link, losses, world, outbox, overtaken, chan, cache, missed>>

Fetched(k) ==
  /\ fetch' = [fetch EXCEPT ![k] = {}]
  /\ \E v \in fetch[k] :
       /\ cache' = [cache EXCEPT ![k] = v]
       /\ missed' = IF v = server[k] THEN missed \ {k} ELSE missed
  /\ UNCHANGED <<link, losses, world, outbox, overtaken, chan, pending, history>>

\* The retry failed, too: the cached value stays, and nothing asks again.
FetchFails(k) ==
  /\ fetch[k] # {} /\ fetch' = [fetch EXCEPT ![k] = {}]
  /\ losses < MaxLosses /\ losses' = losses + 1
  /\ missed' = IF cache[k] = server[k] THEN missed ELSE missed \cup {k}
  /\ UNCHANGED <<link, world, outbox, overtaken, chan, pending, cache, history>>

TaskProgress == cache.tasks = "Started"

\* Mutated MainBanner: it asks again while it shows nothing.
MainBannerIdle ==
  /\ shown /\ ~TaskProgress /\ fetch.tasks = {}
  /\ fetch' = Invalidated({"tasks"})
  /\ UNCHANGED <<link, losses, world, outbox, overtaken, chan, pending, cache, history, missed>>

\* The banner asks again every five seconds while it shows a running task.
MainBanner ==
  /\ shown /\ TaskProgress /\ fetch.tasks = {}
  /\ fetch' = Invalidated({"tasks"})
  /\ UNCHANGED <<link, losses, world, outbox, overtaken, chan, pending, cache, history, missed>>
-----------------------------------------------------------------------------
LiveNext ==
  \/ Enqueue \/ StartTask \/ TakeLock \/ CommitRecords \/ FinishTask \/ ReleaseLock
  \/ LockExpires \/ Revoke
  \/ \E p \in Processes : Publish(p) \/ Die(p)
  \/ Lose \/ Return \/ Hide \/ Show
  \/ Message \/ HandleTaskStatus \/ MainBanner
  \/ \E k \in Keys : Fetched(k) \/ FetchFails(k)

\* The banner's interval runs and requests are answered.
LiveFairness == WF_liveVars(MainBanner) /\ WF_liveVars(Fetched("tasks"))

LiveSpec == LiveInit /\ [][LiveNext]_liveVars /\ LiveFairness
-----------------------------------------------------------------------------
Upcoming == InChan \cup {pending} \cup {outbox[p] : p \in Processes}

\* Changes that no event tells of: batches of a task that has yet to end, or
\* that died; a status that replaced Done before it was handled; a lock that
\* expired.
Untold(k) ==
  \/ k = "records" /\ (overtaken \/ run \in {"running", "holding", "dead"})
  \/ k = "locks" /\ expired

\* A cached list is older than the server's only until the event on its way is
\* handled, unless that event, or the answer to it, was lost with its process,
\* its connection or its page, or there is none (Untold).
CacheFollows ==
  \A k \in Keys :
    cache[k] # server[k] => \/ server[k] \in fetch[k]
                            \/ k \in missed
                            \/ \E e \in Upcoming : k \in Affects(e)
                            \/ Untold(k)

\* The outcome of a task whose event arrived is in the history once handled.
OutcomeShown ==
  (server.tasks = "Done" /\ Upcoming = {"none"} /\ losses = 0)
    => <<"Done", "success">> \in history

\* The banner does not go on showing a task that has ended or was revoked, even
\* if the event that says so is lost.
BannerClears ==
  (shown /\ TaskProgress /\ server.tasks \in {"Done", "Revoked"})
    ~> (~TaskProgress \/ ~shown)
===============================================================================
