------------------------------ MODULE WsClient ------------------------------
(***************************************************************************)
(* The socket of the web client (lib/ws-client) under the page that mounts *)
(* and unmounts it: WebSocket objects whose error and close events arrive  *)
(* after the call that caused them, when WSClient may have another socket, *)
(* and reconnection timers of which only the last can be cleared.          *)
(*                                                                         *)
(* The delay before an attempt (1 s, doubled up to 30 s) is left out: a    *)
(* timer fires at any time.  The server closes a socket without a valid    *)
(* access token before it accepts it, so the browser reports an error and  *)
(* never the code 4001 that onclose looks for; the cookie of the token     *)
(* lasts 15 minutes and only the 401 of some request renews it.            *)
(***************************************************************************)
EXTENDS Naturals

CONSTANTS
  Sockets,    \* WebSocket objects; one is used again once it is closed
  MaxCuts,    \* how often the network fails or cuts a connection
  MaxMounts   \* how often AppLayout is mounted

ASSUME WsAssumption == MaxCuts \in Nat /\ MaxMounts \in Nat /\ "null" \notin Sockets

VARIABLES
  mounted, mounts,
  sock,             \* socket -> what has become of it
  ws, closing,      \* WSClient.ws (a socket or "null") and WSClient.closing
  timers, tracked,  \* reconnection timers running, and whether
                    \* reconnectTimer is one of them
  cuts,
  token             \* the browser has an access token that is still valid

wsVars == <<mounted, mounts, sock, ws, closing, timers, tracked, cuts, token>>

WsInit ==
  /\ mounted = FALSE /\ mounts = 0
  /\ sock = [s \in Sockets |-> "gone"] /\ ws = "null"
  /\ closing = FALSE /\ timers = 0 /\ tracked = FALSE /\ cuts = 0
  /\ token \in BOOLEAN
-----------------------------------------------------------------------------
Live(s) == sock[s] \in {"connecting", "open"}

\* WebSocket.close(): an object that was still connecting fails.
Shut(f, s) == [f EXCEPT ![s] = CASE f[s] = "connecting" -> "aborting"
                                 [] f[s] = "open" -> "closing"
                                 [] OTHER -> f[s]]

\* Mutated Connect: a live socket is replaced.
ConnectAnew ==
  \E s \in Sockets :
    /\ sock[s] = "gone"
    /\ sock' = [sock EXCEPT ![s] = "connecting"] /\ ws' = s /\ closing' = FALSE

Connect ==
  IF ws # "null" /\ Live(ws)
  THEN UNCHANGED <<sock, ws, closing>>
  ELSE \E s \in Sockets :
         /\ sock[s] = "gone"
         /\ sock' = [sock EXCEPT ![s] = "connecting"] /\ ws' = s /\ closing' = FALSE

Disconnect ==
  /\ closing' = TRUE
  /\ timers' = IF tracked THEN timers - 1 ELSE timers
  /\ tracked' = FALSE
  /\ sock' = IF ws = "null" THEN sock ELSE Shut(sock, ws)
  /\ ws' = "null"

\* The token is looked at once: a socket stays open when it expires.
Accepted(s) ==
  /\ token
  /\ sock[s] = "connecting" /\ sock' = [sock EXCEPT ![s] = "open"]
  /\ UNCHANGED <<mounted, mounts, ws, closing, timers, tracked, cuts, token>>

\* Mutated Closed: an error is left to the next attempt to connect.
ClosedForGood(s, err) ==
  LET shut == IF err /\ ws # "null" THEN Shut(sock, ws) ELSE sock
  IN /\ sock' = [shut EXCEPT ![s] = "gone"]
     /\ IF closing \/ err THEN UNCHANGED <<timers, tracked>>
                          ELSE timers' = timers + 1 /\ tracked' = TRUE
     /\ UNCHANGED <<mounted, mounts, ws, closing>>

\* onerror closes the current socket, whichever this one is; onclose schedules
\* a reconnection unless disconnect() was called last.
Closed(s, err) ==
  LET shut == IF err /\ ws # "null" THEN Shut(sock, ws) ELSE sock
  IN /\ sock' = [shut EXCEPT ![s] = "gone"]
     /\ IF closing THEN UNCHANGED <<timers, tracked>>
                   ELSE timers' = timers + 1 /\ tracked' = TRUE
     /\ UNCHANGED <<mounted, mounts, ws, closing>>

\* websocket_endpoint closes what it has not accepted, at every attempt.
SocketRefused(s) ==
  /\ ~token
  /\ sock[s] = "connecting" /\ Closed(s, TRUE)
  /\ UNCHANGED <<cuts, token>>

TokenExpires == token /\ token' = FALSE
                /\ UNCHANGED <<mounted, mounts, sock, ws, closing, timers, tracked, cuts>>

\* A request of the page was refused and the tokens were refreshed, or the
\* user has logged in again.
TokenRenewed == ~token /\ token' = TRUE
                /\ UNCHANGED <<mounted, mounts, sock, ws, closing, timers, tracked, cuts>>

CloseEvent(s) ==
  /\ \/ sock[s] = "aborting" /\ Closed(s, TRUE)
     \/ sock[s] = "closing" /\ Closed(s, FALSE)
  /\ UNCHANGED <<cuts, token>>

\* The network, or a backend that is down.
Cut(s) ==
  /\ cuts < MaxCuts /\ cuts' = cuts + 1
  /\ \/ sock[s] = "connecting" /\ Closed(s, TRUE)
     \/ sock[s] = "open" /\ \E err \in BOOLEAN : Closed(s, err)
  /\ UNCHANGED token

\* The timer of reconnectTimer fires, or one it no longer refers to.  The
\* browser reports an aborted attempt at once, long before a timer of a second.
Reconnect(own) ==
  /\ \A s \in Sockets : sock[s] # "aborting"
  /\ IF own THEN tracked ELSE timers > (IF tracked THEN 1 ELSE 0)
  /\ timers' = timers - 1
  /\ tracked' = (tracked /\ ~own)
  /\ Connect
  /\ UNCHANGED <<mounted, mounts, cuts, token>>

\* The effect of use-ws-events and its cleanup; in development React runs
\* them twice in a row.
Mount ==
  /\ ~mounted /\ mounts < MaxMounts
  /\ mounted' = TRUE /\ mounts' = mounts + 1
  /\ Connect
  /\ UNCHANGED <<timers, tracked, cuts, token>>

Unmount == mounted /\ mounted' = FALSE /\ Disconnect /\ UNCHANGED <<mounts, cuts, token>>

WsNext ==
  \/ \E s \in Sockets : Accepted(s) \/ SocketRefused(s) \/ CloseEvent(s) \/ Cut(s)
  \/ TokenExpires \/ TokenRenewed
  \/ \E own \in BOOLEAN : Reconnect(own)
  \/ Mount \/ Unmount

\* The server answers, and timers fire; connections are not cut for ever.  The
\* token may expire, and stay expired.
WsFairness ==
  /\ \A s \in Sockets : WF_wsVars(Accepted(s) \/ SocketRefused(s) \/ CloseEvent(s))
  /\ WF_wsVars(\E own \in BOOLEAN : Reconnect(own))

WsSpec == WsInit /\ [][WsNext]_wsVars /\ WsFairness
-----------------------------------------------------------------------------
\* At most one connection, and it is the one WSClient would close: no event is
\* delivered twice, and disconnect() leaves no connection behind.  (A timer
\* that it cannot clear may open another one afterwards.)
OneConnection == \A s \in Sockets : Live(s) => s = ws

\* While the page is there and its token valid, the connection comes back,
\* whatever errors, refusals and late close events of earlier sockets came in
\* between.  A page whose token has expired has none until it is renewed.
ConnectionReturns ==
  (mounted /\ token) ~> ((ws # "null" /\ sock[ws] = "open") \/ ~mounted \/ ~token)
===============================================================================
