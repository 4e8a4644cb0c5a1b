------------------------------ MODULE ApiClient ------------------------------
(***************************************************************************)
(* The requests of the web client: the axios interceptor that renews an    *)
(* expired session once for all the requests it refused (lib/api-client),  *)
(* the queries and mutations behind it, and the pages that send them and   *)
(* are left when the session or the backend is gone.                       *)
(*                                                                         *)
(* One browser tab.  Assigning window.location.href does not stop the      *)
(* script: `leaving` is the page that will be loaded, a later assignment   *)
(* overrides it, and until Leave the script goes on, without the user, who *)
(* has no time to act.  Loading a page forgets everything but the cookies. *)
(* A promise continuation is part of the step that settles the promise.    *)
(***************************************************************************)
EXTENDS Naturals, FiniteSets

CONSTANTS
  MaxEvents,    \* how often the backend stops or returns, a token expires, or
                \* the user opens a page by its address
  MaxPending    \* requests of the page that are under way at once

ASSUME BoundsAssumption == MaxEvents \in Nat /\ MaxPending \in Nat \ {0}

VARIABLES
  access, renew,    \* the access and the refresh cookie are valid
  up,               \* the backend answers
  events,           \* events so far (bounded by MaxEvents)
  path,             \* the page shown
  leaving,          \* the page window.location was sent to, or "none"
  back,             \* the redirect parameter of /service-unavailable
  req,              \* request -> its state, last answer and flags
  isRefreshing, refreshQueue,
  loaded,           \* which of AppLayout's two queries have data
  noticed           \* failures of AppLayout's queries its effect has seen

session == <<access, renew, up, events>>
page == <<path, leaving, back, loaded, noticed>>
client == <<req, isRefreshing, refreshQueue>>
apiVars == <<session, page, client>>

Pages == {"app", "login", "signup", "logout", "unavailable"}
Layout == {"health", "me"}
Queries == Layout \cup {"list"}
Requests == Queries \cup {"edit", "login", "signup", "logout", "refresh"}

\* retry is the interceptor's `_retry`; again, that react-query (retry: 1) has
\* repeated the query; told, that the failure was shown in an error toast.
New == [st |-> "idle", ans |-> "none", retry |-> FALSE, again |-> FALSE, told |-> FALSE]
Busy == {"sent", "answered", "queued", "refreshing", "checking", "waiting"}

ApiInit ==
  /\ access \in BOOLEAN /\ renew \in BOOLEAN /\ up \in BOOLEAN
  /\ events = 0
  /\ path = "app" /\ leaving = "none" /\ back = "app"
  /\ req = [r \in Requests |-> New]
  /\ isRefreshing = FALSE /\ refreshQueue = {}
  /\ loaded = {} /\ noticed = {}
-----------------------------------------------------------------------------
(* The backend behind its proxy. *)

Answers(r) ==
  IF ~up THEN {"down", "lost"}
  ELSE CASE r \in {"health", "logout"} -> {"ok"}
         [] r = "login"   -> {"ok", "unauthorized"}
         [] r = "signup"  -> {"ok", "error"}
         [] r = "refresh" -> IF renew THEN {"ok"} ELSE {"unauthorized"}
         [] r = "edit"    -> IF access THEN {"ok", "error", "conflict"} ELSE {"unauthorized"}
         [] OTHER         -> IF access THEN {"ok"} ELSE {"unauthorized"}

Serve(r) ==
  /\ req[r].st = "sent"
  /\ \E a \in Answers(r) : req' = [req EXCEPT ![r].st = "answered", ![r].ans = a]
  /\ UNCHANGED <<session, page, isRefreshing, refreshQueue>>

Happens == events < MaxEvents /\ events' = events + 1

\* A token lives for minutes, a repeated request for seconds.
AccessExpires == Happens /\ access /\ (\A r \in Requests : ~req[r].retry)
                 /\ access' = FALSE /\ UNCHANGED <<renew, up, page, client>>
SessionExpires == Happens /\ renew /\ renew' = FALSE /\ UNCHANGED <<access, up, page, client>>
BackendSwitches == Happens /\ up' = ~up /\ UNCHANGED <<access, renew, page, client>>
-----------------------------------------------------------------------------
(* Sending and settling. *)

Sent(q) == [q EXCEPT !.st = "sent", !.ans = "none"]
Started(r) == req' = [req EXCEPT ![r] = Sent(New)]

\* A failed query is repeated once, a second later, as a new request.
Rejected(r, q) ==
  [q EXCEPT !.st = IF r \in Queries /\ ~q.again THEN "waiting" ELSE "failed",
            !.ans = "none", !.retry = FALSE]

QueryRetry(r) ==
  /\ req[r].st = "waiting"
  /\ req' = [req EXCEPT ![r] = [Sent(New) EXCEPT !.again = TRUE, !.told = req[r].told]]
  /\ UNCHANGED <<session, page, isRefreshing, refreshQueue>>

\* Where a failed authentication sends the browser.
AuthPage == path \in {"login", "signup"}
ToLogin == IF AuthPage THEN leaving ELSE "login"

Initiator(r) == req[r].st = "refreshing"

\* The interceptor's first branch: the request joins the refresh under way or
\* starts one.
Challenged(r) ==
  /\ req[r].ans = "unauthorized" /\ ~req[r].retry /\ r # "refresh"
  /\ IF isRefreshing
     THEN /\ refreshQueue' = refreshQueue \cup {r}
          /\ req' = [req EXCEPT ![r].st = "queued"]
          /\ UNCHANGED isRefreshing
     ELSE /\ isRefreshing' = TRUE
          /\ req' = [req EXCEPT ![r].st = "refreshing", ![r].retry = TRUE,
                                !["refresh"] = Sent(New)]
          /\ UNCHANGED refreshQueue
  /\ UNCHANGED <<session, page>>

\* Mutated RefreshOver: the queue is emptied, but nobody in it is told.
RefreshOverForgetting(ok, q) ==
  /\ req' = [r \in Requests |-> CASE r = "refresh" -> q
                                 [] Initiator(r)  -> IF ok THEN Sent(req[r]) ELSE Rejected(r, req[r])
                                 [] OTHER         -> req[r]]
  /\ refreshQueue' = {} /\ isRefreshing' = FALSE

\* The refresh is over: the queue is emptied, with everyone in it and the
\* initiator repeated or rejected.
RefreshOver(ok, q) ==
  /\ req' = [r \in Requests |->
       IF r = "refresh" THEN q
       ELSE IF r \in refreshQueue \/ Initiator(r)
            THEN IF ok THEN Sent(req[r]) ELSE Rejected(r, req[r])
            ELSE req[r]]
  /\ refreshQueue' = {}
  /\ isRefreshing' = FALSE

RefreshSucceeds ==
  /\ req["refresh"].ans = "ok"
  /\ RefreshOver(TRUE, New)
  /\ access' = TRUE /\ renew' = TRUE
  /\ UNCHANGED <<up, events, page>>

\* Its own 401, or no answer at all, ends the refresh at once.
RefreshRefused ==
  /\ req["refresh"].ans \in {"unauthorized", "lost"}
  /\ RefreshOver(FALSE, New)
  /\ leaving' = ToLogin
  /\ UNCHANGED <<session, path, back, loaded, noticed>>

\* Mutated Refused: a 401 that comes during a refresh is final too.
RefusedEarly(r) ==
  /\ req[r].ans = "unauthorized" /\ (req[r].retry \/ isRefreshing)
  /\ leaving' = ToLogin
  /\ req' = [req EXCEPT ![r] = Rejected(r, @)]
  /\ UNCHANGED <<session, path, back, loaded, noticed, isRefreshing, refreshQueue>>

\* A second 401, on a request that has been repeated.
Refused(r) ==
  /\ req[r].ans = "unauthorized" /\ req[r].retry
  /\ leaving' = ToLogin
  /\ req' = [req EXCEPT ![r] = Rejected(r, @)]
  /\ UNCHANGED <<session, path, back, loaded, noticed, isRefreshing, refreshQueue>>

NeedsCheck(r) == req[r].ans \in {"error", "down", "conflict"}

StartCheck(r) ==
  /\ NeedsCheck(r) /\ r # "health"
  /\ req' = [req EXCEPT ![r].st = "checking"]
  /\ UNCHANGED <<session, page, isRefreshing, refreshQueue>>

\* The failing health request itself is reported without a check.
HealthFails ==
  /\ NeedsCheck("health")
  /\ req' = [req EXCEPT !["health"] = [Rejected("health", @) EXCEPT !.told = TRUE]]
  /\ UNCHANGED <<session, page, isRefreshing, refreshQueue>>

Lost(r) ==
  /\ req[r].ans = "lost" /\ r # "refresh"
  /\ req' = [req EXCEPT ![r] = Rejected(r, @)]
  /\ UNCHANGED <<session, page, isRefreshing, refreshQueue>>

\* Mutated FinishCheck: no toast if the backend is healthy.
FinishCheckSilently(r) ==
  /\ req[r].st = "checking"
  /\ IF r = "refresh"
     THEN RefreshOver(FALSE, New)
     ELSE req' = [req EXCEPT ![r] = Rejected(r, @)] /\ UNCHANGED <<isRefreshing, refreshQueue>>
  /\ leaving' = IF r = "refresh" /\ ~AuthPage THEN "login"
                ELSE IF up THEN leaving ELSE "unavailable"
  /\ back' = IF up THEN back ELSE path
  /\ UNCHANGED <<session, path, loaded, noticed>>

\* isBackendHealthy has answered.  For the refresh, the catch around it then
\* sends the browser to the login page, wherever it was going.
FinishCheck(r) ==
  LET told == up /\ req[r].ans # "conflict"
      q == [req[r] EXCEPT !.told = @ \/ told]
  IN /\ req[r].st = "checking"
     /\ IF r = "refresh"
        THEN RefreshOver(FALSE, New)
        ELSE req' = [req EXCEPT ![r] = Rejected(r, q)] /\ UNCHANGED <<isRefreshing, refreshQueue>>
     /\ leaving' = IF r = "refresh" /\ ~AuthPage THEN "login"
                   ELSE IF up THEN leaving ELSE "unavailable"
     /\ back' = IF up THEN back ELSE path
     /\ UNCHANGED <<session, path, loaded, noticed>>
-----------------------------------------------------------------------------
(* The pages. *)

Settled(r) == [req EXCEPT ![r] = New]

Enter(p) == path' = p /\ loaded' = {} /\ noticed' = {}

\* A login navigates within the page and refetches ["auth"].
LoginSucceeds ==
  /\ req["login"].ans = "ok"
  /\ req' = Settled("login")
  /\ access' = TRUE /\ renew' = TRUE
  /\ Enter("app")
  /\ UNCHANGED <<up, events, leaving, back, isRefreshing, refreshQueue>>

SignUpSucceeds ==
  /\ req["signup"].ans = "ok"
  /\ req' = Settled("signup")
  /\ Enter("login")
  /\ UNCHANGED <<session, leaving, back, isRefreshing, refreshQueue>>

\* Also clears the query cache.
LogoutSucceeds ==
  /\ req["logout"].ans = "ok"
  /\ req' = Settled("logout")
  /\ access' = FALSE /\ renew' = FALSE
  /\ leaving' = "login"
  /\ loaded' = {}
  /\ UNCHANGED <<up, events, path, back, noticed, isRefreshing, refreshQueue>>

Succeeds(r) ==
  /\ req[r].ans = "ok" /\ r \notin {"refresh", "login", "signup", "logout"}
  /\ req' = Settled(r)
  /\ loaded' = loaded \cup ({r} \cap Layout)
  /\ UNCHANGED <<session, path, leaving, back, noticed, isRefreshing, refreshQueue>>

Receive(r) ==
  /\ req[r].st = "answered"
  /\ \/ Challenged(r)
     \/ Refused(r)
     \/ StartCheck(r)
     \/ Lost(r)
     \/ Succeeds(r)
     \/ r = "refresh" /\ (RefreshSucceeds \/ RefreshRefused)
     \/ r = "health" /\ HealthFails
     \/ r = "login" /\ LoginSucceeds
     \/ r = "signup" /\ SignUpSucceeds
     \/ r = "logout" /\ LogoutSucceeds

Loading(r) == r \notin loaded /\ req[r].st \in Busy \cup {"idle"}
Failed(r) == req[r].st = "failed"

\* AppLayout renders the page only with a healthy backend and a user.
Content == path = "app" /\ loaded = Layout /\ noticed = {} /\ ~\E r \in Layout : Failed(r)

\* AppLayout's effect, once for each failure it sees.
LayoutEffect ==
  /\ path = "app"
  /\ \/ /\ Failed("health") /\ "health" \notin noticed
        /\ leaving' = "unavailable" /\ back' = "app"
        /\ noticed' = noticed \cup {"health"}
     \/ /\ ~Failed("health") /\ ~Loading("health")
        /\ Failed("me") /\ "me" \notin noticed
        /\ leaving' = "login"
        /\ noticed' = noticed \cup {"me"}
        /\ UNCHANGED back
  /\ UNCHANGED <<session, path, loaded, client>>

Idle(r) == req[r].st \notin Busy
Ask(r) ==
  /\ leaving = "none"
  /\ Idle(r) /\ Cardinality({q \in Requests \ {"refresh"} : ~Idle(q)}) < MaxPending
  /\ Started(r)
  /\ UNCHANGED <<session, page, isRefreshing, refreshQueue>>

\* The two queries of the layout, refetched when the window is focused, and
\* what the page below it asks and does.
AppLayout ==
  /\ path = "app"
  /\ \/ \E r \in Layout : (r \in loaded \/ ~Failed(r)) /\ Ask(r)
     \/ Content /\ \E r \in {"list", "edit", "logout"} : Ask(r)

Link(p) == path' = p /\ UNCHANGED <<session, leaving, back, loaded, noticed, client>>

LoginPage ==
  /\ path = "login"
  /\ \/ Ask("login")
     \/ Link("signup")

\* The identity provider's page in between is the backend's part.
OidcLogin ==
  /\ path = "login" /\ up /\ leaving = "none"
  /\ access' = TRUE /\ renew' = TRUE /\ leaving' = "app"
  /\ UNCHANGED <<up, events, path, back, loaded, noticed, client>>

SignupPage ==
  /\ path = "signup"
  /\ \/ Ask("signup")
     \/ Link("login")

LogoutPage == path = "logout" /\ req["logout"].st = "idle" /\ Ask("logout")

\* Try again: back to where the user was, if the backend answers.
ServiceUnavailablePage ==
  /\ path = "unavailable" /\ up /\ leaving = "none"
  /\ leaving' = back
  /\ UNCHANGED <<session, path, back, loaded, noticed, client>>

Open(p) ==
  /\ Happens /\ leaving = "none" /\ leaving' = p
  /\ UNCHANGED <<access, renew, up, path, back, loaded, noticed, client>>

\* The new page is loaded and the script starts anew.
Leave ==
  /\ leaving # "none"
  /\ Enter(leaving) /\ leaving' = "none"
  /\ req' = [r \in Requests |-> New]
  /\ isRefreshing' = FALSE /\ refreshQueue' = {}
  /\ back' = IF leaving = "unavailable" THEN back ELSE "app"
  /\ UNCHANGED session
-----------------------------------------------------------------------------
ApiNext ==
  \/ \E r \in Requests : Serve(r) \/ Receive(r) \/ FinishCheck(r) \/ QueryRetry(r)
  \/ AccessExpires \/ SessionExpires \/ BackendSwitches
  \/ LayoutEffect \/ AppLayout
  \/ LoginPage \/ OidcLogin \/ SignupPage \/ LogoutPage \/ ServiceUnavailablePage
  \/ \E p \in {"app", "signup", "logout"} : Open(p)
  \/ Leave

\* The refresh is answered, and the health check after it.
ApiFairness == WF_apiVars(Serve("refresh") \/ Receive("refresh") \/ FinishCheck("refresh"))

ApiSpec == ApiInit /\ [][ApiNext]_apiVars /\ ApiFairness
-----------------------------------------------------------------------------
\* A failure is never silent: whatever the page asked for and did not get, the
\* user has a toast or is on the way to another page, unless the answer was a
\* conflict, which callers handle, or there was none.  (A sign-up that succeeds
\* after the user has logged in shows the login page over requests of the
\* application; what they come to, the user does not see.)
FailureNoticed ==
  [][\A r \in {"list", "edit", "logout"} :
       (~AuthPage /\ ~Failed(r) /\ Failed(r)')
                                 => \/ req'[r].told
                                    \/ leaving' # "none"
                                    \/ req[r].ans \in {"conflict", "lost"}]_apiVars

\* A user whose session can be renewed is not sent to the login page by a 401,
\* however the requests that got it overlap; unless already on the way to
\* another page, as after a logout.
RenewableStays ==
  [][\A r \in Requests :
       (req[r].ans = "unauthorized" /\ req'[r].ans = "none" /\ leaving' = "login" /\ leaving = "none")
         => ~renew \/ req["refresh"].ans \in {"down", "lost", "unauthorized"}]_apiVars

Waits(r) == req[r].st \in {"queued", "refreshing"}

\* A refresh ends, however it fails, and with it the wait of everyone whose
\* request was refused: nobody waits for a refresh that nobody makes.
RefreshEnds ==
  (isRefreshing \/ \E r \in Requests : Waits(r)) ~> (~isRefreshing /\ \A r \in Requests : ~Waits(r))
===============================================================================
