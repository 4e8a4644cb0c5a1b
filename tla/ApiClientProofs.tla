--------------------------- MODULE ApiClientProofs ---------------------------
(***************************************************************************)
(* Proofs about ApiClient for any number of events and of requests under   *)
(* way: one refresh serves every request that was refused and is there as  *)
(* long as one of them waits for it, a session that can be renewed is not  *)
(* given up, and no failure is silent.                                     *)
(***************************************************************************)
EXTENDS ApiClient, TLAPS

AnswerKinds == {"none", "ok", "unauthorized", "error", "conflict", "down", "lost"}
RequestStates == [st : Busy \cup {"idle", "failed"}, ans : AnswerKinds,
                  retry : BOOLEAN, again : BOOLEAN, told : BOOLEAN]

\* Type correctness.
ApiTypes ==
  /\ access \in BOOLEAN /\ renew \in BOOLEAN /\ up \in BOOLEAN
  /\ path \in Pages /\ leaving \in Pages \cup {"none"} /\ back \in Pages
  /\ req \in [Requests -> RequestStates]
  /\ isRefreshing \in BOOLEAN /\ refreshQueue \subseteq Requests
  /\ loaded \subseteq Layout /\ noticed \subseteq Layout

\* The refresh is under way as long as isRefreshing says so; only then, and by
\* its queue or as the one that started it, does a request wait for it.
RefreshUnderWay ==
  /\ req["refresh"].st \in (IF isRefreshing THEN {"sent", "answered", "checking"} ELSE {"idle"})
  /\ req["refresh"].ans \in {"none", "ok", "unauthorized", "down", "lost"}
  /\ ~req["refresh"].retry
  /\ req["refresh"].st = "checking" => req["refresh"].ans = "down"
  /\ refreshQueue = {r \in Requests : req[r].st = "queued"}
  /\ ~isRefreshing => \A r \in Requests : ~Waits(r)
  /\ \A r, s \in Requests : Initiator(r) /\ Initiator(s) => r = s

\* A login is sent from the login page and its answer finds the user there or
\* on the sign-up page.
LoginIsOnPage == req["login"].st \in Busy => AuthPage

\* A request repeated after a refresh is not refused again, unless the user has
\* logged out and is leaving.  (A 401 to a login says that the password is wrong.)
RepeatedIsAccepted ==
  \A r \in Requests \ {"refresh", "login"} :
    req[r].retry /\ ~Initiator(r) /\ leaving = "none" => access /\ req[r].ans # "unauthorized"

\* The inductive invariant.
ApiInv == ApiTypes /\ RefreshUnderWay /\ LoginIsOnPage /\ RepeatedIsAccepted
-----------------------------------------------------------------------------
\* The initial states satisfy the invariant.
LEMMA InitApiInv == ApiInit => ApiInv
  <1> SUFFICES ASSUME ApiInit PROVE ApiInv
    OBVIOUS
  <1>1. ApiTypes
    BY DEF ApiInit, ApiTypes, Pages, New, RequestStates, Busy, AnswerKinds, Layout
  <1>2. \A r \in Requests : req[r] = New
    BY DEF ApiInit
  <1>3. "refresh" \in Requests /\ "login" \in Requests
    BY DEF Requests
  <1>4. RefreshUnderWay
    BY <1>2, <1>3 DEF ApiInit, RefreshUnderWay, New, Waits, Initiator
  <1>5. LoginIsOnPage /\ RepeatedIsAccepted
    BY <1>2, <1>3 DEF LoginIsOnPage, RepeatedIsAccepted, New, Busy
  <1> QED BY <1>1, <1>4, <1>5 DEF ApiInv

\* What a rejection leaves of a request.
LEMMA RejectedRequest ==
  ASSUME NEW r \in Requests, NEW q \in RequestStates
  PROVE  /\ Rejected(r, q) \in RequestStates /\ ~Rejected(r, q).retry
         /\ Rejected(r, q).ans = "none" /\ Rejected(r, q).told = q.told
         /\ Rejected(r, q).st \in {"waiting", "failed"}
         /\ r \notin Queries => Rejected(r, q).st = "failed"
  BY DEF Rejected, RequestStates, Busy, AnswerKinds, Queries

\* What sending leaves of a request.
LEMMA SentRequest ==
  ASSUME NEW q \in RequestStates
  PROVE  /\ Sent(q) \in RequestStates /\ Sent(q).st = "sent" /\ Sent(q).ans = "none"
         /\ Sent(q).retry = q.retry
  BY DEF Sent, RequestStates, Busy, AnswerKinds

\* A new request has no answer and is no repetition.
LEMMA NewRequest ==
  /\ New \in RequestStates /\ New.st = "idle" /\ New.ans = "none" /\ ~New.retry
  /\ Sent(New) \in RequestStates /\ Sent(New).st = "sent" /\ Sent(New).ans = "none" /\ ~Sent(New).retry
  <1>1. New \in RequestStates /\ New.st = "idle" /\ New.ans = "none" /\ ~New.retry
    BY DEF New, RequestStates, Busy, AnswerKinds
  <1> QED BY <1>1, SentRequest

\* A step that changes one request, which neither starts nor ends its wait.
LEMMA OneRequest ==
  ASSUME ApiInv, NEW r \in Requests, NEW q \in RequestStates,
         req' = [req EXCEPT ![r] = q], isRefreshing' = isRefreshing, refreshQueue' = refreshQueue,
         access' \in BOOLEAN, renew' \in BOOLEAN, up' \in BOOLEAN,
         path' \in Pages, leaving' \in Pages \cup {leaving}, back' \in Pages,
         loaded' \subseteq Layout, noticed' \subseteq Layout,
         access => access' \/ leaving' # "none", r # "login" /\ AuthPage => AuthPage',
         req[r].st \notin {"queued", "refreshing"}, q.st \notin {"queued", "refreshing"},
         r = "refresh" => /\ q.st \in {"sent", "answered", "checking"} <=> isRefreshing
                          /\ ~isRefreshing => q.st = "idle"
                          /\ q.ans \in {"none", "ok", "unauthorized", "down", "lost"} /\ ~q.retry
                          /\ q.st = "checking" => q.ans = "down",
         r = "login" /\ q.st \in Busy => AuthPage',
         r \notin {"refresh", "login"} /\ q.retry /\ leaving' = "none" => access' /\ q.ans # "unauthorized"
  PROVE  ApiInv'
  <1>0. ApiTypes /\ RefreshUnderWay /\ LoginIsOnPage /\ RepeatedIsAccepted
    BY DEF ApiInv
  <1>1. req'[r] = q /\ \A s \in Requests \ {r} : req'[s] = req[s]
    BY <1>0 DEF ApiTypes
  <1>2. ApiTypes'
    BY <1>0 DEF ApiTypes
  <1>3. "refresh" \in Requests /\ "login" \in Requests
    BY DEF Requests
  <1>4. RefreshUnderWay'
    <2>1. req'["refresh"].st \in (IF isRefreshing' THEN {"sent", "answered", "checking"} ELSE {"idle"})
      BY <1>0, <1>1, <1>3 DEF RefreshUnderWay
    <2>2. req'["refresh"].ans \in {"none", "ok", "unauthorized", "down", "lost"}
      BY <1>0, <1>1, <1>3 DEF RefreshUnderWay
    <2>3. refreshQueue' = {s \in Requests : req'[s].st = "queued"}
      <3>1. \A s \in Requests : req'[s].st = "queued" <=> req[s].st = "queued"
        BY <1>1
      <3> QED BY <1>0, <3>1 DEF RefreshUnderWay
    <2>4. \A s \in Requests : (Waits(s)' <=> Waits(s)) /\ (Initiator(s)' <=> Initiator(s))
      BY <1>1 DEF Waits, Initiator
    <2>5. /\ ~req'["refresh"].retry
          /\ req'["refresh"].st = "checking" => req'["refresh"].ans = "down"
      BY <1>0, <1>1, <1>3 DEF RefreshUnderWay
    <2> QED BY <1>0, <2>1, <2>2, <2>3, <2>4, <2>5 DEF RefreshUnderWay
  <1>5. LoginIsOnPage'
    BY <1>0, <1>1, <1>3 DEF LoginIsOnPage, AuthPage
  <1>6. RepeatedIsAccepted'
    <2> SUFFICES ASSUME NEW s \in Requests \ {"refresh", "login"},
                        req'[s].retry, req'[s].st # "refreshing", leaving' = "none"
                 PROVE  access' /\ req'[s].ans # "unauthorized"
      BY DEF RepeatedIsAccepted, Initiator
    <2>1. leaving = "none"
      BY <1>0 DEF ApiTypes, Pages
    <2>2. CASE s = r
      BY <1>1, <2>2
    <2>3. CASE s # r
      BY <1>0, <1>1, <2>1, <2>3 DEF RepeatedIsAccepted, Initiator
    <2> QED BY <2>2, <2>3
  <1> QED BY <1>2, <1>4, <1>5, <1>6 DEF ApiInv

\* A step that leaves the requests alone.
LEMMA NoRequest ==
  ASSUME ApiInv, UNCHANGED client, access' \in BOOLEAN, renew' \in BOOLEAN, up' \in BOOLEAN,
         path' \in Pages, leaving' \in Pages \cup {leaving}, back' \in Pages,
         loaded' \subseteq Layout, noticed' \subseteq Layout,
         access => access' \/ \A r \in Requests : ~req[r].retry,
         AuthPage => AuthPage'
  PROVE  ApiInv'
  <1>0. ApiTypes /\ RefreshUnderWay /\ LoginIsOnPage /\ RepeatedIsAccepted
    BY DEF ApiInv
  <1>1. req' = req /\ isRefreshing' = isRefreshing /\ refreshQueue' = refreshQueue
    BY DEF client
  <1>2. ApiTypes'
    BY <1>0, <1>1 DEF ApiTypes
  <1>3. RefreshUnderWay'
    BY <1>0, <1>1 DEF RefreshUnderWay, Waits, Initiator
  <1>4. LoginIsOnPage'
    BY <1>0, <1>1 DEF LoginIsOnPage
  <1>5. RepeatedIsAccepted'
    BY <1>0, <1>1 DEF RepeatedIsAccepted, Initiator, ApiTypes, Pages
  <1> QED BY <1>2, <1>3, <1>4, <1>5 DEF ApiInv

\* When the refresh is over, nobody waits for it.
LEMMA OverInv ==
  ASSUME ApiInv, NEW ok \in BOOLEAN, RefreshOver(ok, New),
         access' \in BOOLEAN, renew' \in BOOLEAN, up' \in BOOLEAN,
         path' = path, leaving' \in Pages \cup {leaving}, back' \in Pages,
         loaded' \subseteq Layout, noticed' \subseteq Layout,
         access => access', ok => access'
  PROVE  ApiInv'
  <1>0. ApiTypes /\ RefreshUnderWay /\ LoginIsOnPage /\ RepeatedIsAccepted
    BY DEF ApiInv
  <1>1. "refresh" \in Requests /\ "login" \in Requests
    BY DEF Requests
  <1>2. req'["refresh"] = New /\ refreshQueue' = {} /\ isRefreshing' = FALSE
    BY <1>1 DEF RefreshOver
  <1>3. ASSUME NEW r \in Requests \ {"refresh"}
        PROVE  /\ Waits(r) => req'[r] = IF ok THEN Sent(req[r]) ELSE Rejected(r, req[r])
               /\ ~Waits(r) => req'[r] = req[r]
    <2>1. r \in refreshQueue <=> req[r].st = "queued"
      BY <1>0 DEF RefreshUnderWay
    <2> QED BY <2>1 DEF RefreshOver, Waits, Initiator
  <1>4. \A r \in Requests : req[r] \in RequestStates
    BY <1>0 DEF ApiTypes
  <1>5. ASSUME NEW r \in Requests
        PROVE  req'[r] \in RequestStates /\ req'[r].st \notin {"queued", "refreshing"}
    BY <1>2, <1>3, <1>4, NewRequest, SentRequest, RejectedRequest DEF Waits
  <1>6. req' \in [Requests -> RequestStates]
    BY <1>5 DEF RefreshOver
  <1>7. ApiTypes'
    BY <1>0, <1>2, <1>6 DEF ApiTypes
  <1>8. RefreshUnderWay'
    BY <1>1, <1>2, <1>5, NewRequest DEF RefreshUnderWay, Waits, Initiator
  <1>9. LoginIsOnPage'
    <2>1. req'["login"].st \in Busy => req["login"].st \in Busy
      BY <1>1, <1>3 DEF Waits, Busy
    <2> QED BY <1>0, <2>1 DEF LoginIsOnPage, AuthPage
  <1>10. RepeatedIsAccepted'
    <2> SUFFICES ASSUME NEW r \in Requests \ {"refresh", "login"}, req'[r].retry, leaving' = "none"
                 PROVE  access' /\ req'[r].ans # "unauthorized"
      BY DEF RepeatedIsAccepted
    <2>1. leaving = "none"
      BY <1>0 DEF ApiTypes, Pages
    <2>2. CASE Waits(r)
      <3>1. ok /\ req'[r] = Sent(req[r])
        BY <1>3, <1>4, <2>2, RejectedRequest
      <3> QED BY <1>4, <3>1, SentRequest
    <2>3. CASE ~Waits(r)
      BY <1>0, <1>3, <2>1, <2>3 DEF RepeatedIsAccepted, Waits, Initiator
    <2> QED BY <2>2, <2>3
  <1> QED BY <1>7, <1>8, <1>9, <1>10 DEF ApiInv
-----------------------------------------------------------------------------
(* Every step of the backend, the interceptor and the pages. *)

\* The backend's answers, and the query that is repeated.
LEMMA ServeInv ==
  ASSUME ApiInv, NEW r \in Requests, Serve(r) \/ QueryRetry(r)
  PROVE  ApiInv'
  <1>0. ApiTypes /\ RefreshUnderWay /\ LoginIsOnPage /\ RepeatedIsAccepted
    BY DEF ApiInv
  <1>1. UNCHANGED <<session, page, isRefreshing, refreshQueue>>
    BY DEF Serve, QueryRetry
  <1>2. /\ access' \in BOOLEAN /\ renew' \in BOOLEAN /\ up' \in BOOLEAN /\ access' = access
        /\ path' \in Pages /\ leaving' = leaving /\ back' \in Pages
        /\ loaded' \subseteq Layout /\ noticed' \subseteq Layout
        /\ isRefreshing' = isRefreshing /\ refreshQueue' = refreshQueue /\ path' = path
    BY <1>0, <1>1 DEF ApiTypes, session, page
  <1>3. req[r] \in RequestStates /\ req \in [Requests -> RequestStates]
    BY <1>0 DEF ApiTypes
  <1>4. CASE Serve(r)
    <2>1. PICK a \in Answers(r) : req' = [req EXCEPT ![r].st = "answered", ![r].ans = a]
      BY <1>4 DEF Serve
    <2>2. a \in AnswerKinds
      BY <2>1 DEF Answers, AnswerKinds
    <2> DEFINE q == [req[r] EXCEPT !.st = "answered", !.ans = a]
    <2>3. q \in RequestStates /\ q.st = "answered" /\ q.ans = a /\ q.retry = req[r].retry
      BY <1>3, <2>2 DEF RequestStates, Busy
    <2>4. req' = [req EXCEPT ![r] = q]
      BY <1>3, <2>1
    <2> HIDE DEF q
    <2>5. req[r].st = "sent"
      BY <1>4 DEF Serve
    <2>6. r = "refresh" => isRefreshing /\ a \in {"ok", "unauthorized", "down", "lost"} /\ ~q.retry
      BY <1>0, <2>1, <2>3, <2>5 DEF Answers, RefreshUnderWay
    <2>7. r = "login" => AuthPage
      BY <1>0, <2>5 DEF LoginIsOnPage, Busy
    <2>8. r \notin {"refresh", "login"} /\ q.retry /\ leaving = "none" => access /\ a # "unauthorized"
      BY <1>0, <2>1, <2>3, <2>5 DEF RepeatedIsAccepted, Initiator, Answers
    <2> QED BY <1>2, <2>3, <2>4, <2>5, <2>6, <2>7, <2>8, OneRequest DEF AuthPage
  <1>5. CASE QueryRetry(r)
    <2> DEFINE q == [Sent(New) EXCEPT !.again = TRUE, !.told = req[r].told]
    <2>1. q \in RequestStates /\ q.st = "sent" /\ q.ans = "none" /\ ~q.retry
      BY <1>3, NewRequest DEF RequestStates
    <2>2. req' = [req EXCEPT ![r] = q] /\ req[r].st = "waiting"
      BY <1>5 DEF QueryRetry
    <2> HIDE DEF q
    <2>3. r # "refresh"
      BY <1>0, <2>2 DEF RefreshUnderWay
    <2>4. r = "login" => AuthPage
      BY <1>0, <2>2 DEF LoginIsOnPage, Busy
    <2> QED BY <1>2, <2>1, <2>2, <2>3, <2>4, OneRequest DEF AuthPage
  <1> QED BY <1>4, <1>5

\* A 401 starts a refresh or joins the one under way.
LEMMA ChallengedInv ==
  ASSUME ApiInv, NEW r \in Requests, req[r].st = "answered", Challenged(r)
  PROVE  ApiInv'
  <1>0. ApiTypes /\ RefreshUnderWay /\ LoginIsOnPage /\ RepeatedIsAccepted
    BY DEF ApiInv
  <1>1. /\ access' = access /\ renew' = renew /\ up' = up
        /\ path' = path /\ leaving' = leaving /\ back' = back /\ loaded' = loaded /\ noticed' = noticed
    BY DEF Challenged, session, page
  <1>2. r # "refresh" /\ "refresh" \in Requests /\ "login" \in Requests /\ ~req[r].retry
    BY DEF Challenged, Requests
  <1>3. req[r] \in RequestStates /\ req \in [Requests -> RequestStates]
    BY <1>0 DEF ApiTypes
  <1>4. CASE isRefreshing
    <2>1. /\ refreshQueue' = refreshQueue \cup {r} /\ isRefreshing' = isRefreshing
          /\ req' = [req EXCEPT ![r].st = "queued"]
      BY <1>4 DEF Challenged
    <2>2. [req[r] EXCEPT !.st = "queued"] \in RequestStates
      BY <1>3 DEF RequestStates, Busy
    <2>3. /\ req' \in [Requests -> RequestStates] /\ req'[r].st = "queued"
          /\ req'[r].retry = req[r].retry /\ \A s \in Requests \ {r} : req'[s] = req[s]
      BY <1>3, <2>1, <2>2
    <2>4. ApiTypes'
      BY <1>0, <1>1, <2>1, <2>3 DEF ApiTypes
    <2>5. RefreshUnderWay'
      <3>1. refreshQueue' = {s \in Requests : req'[s].st = "queued"}
        BY <1>0, <2>1, <2>3 DEF RefreshUnderWay
      <3>2. \A s \in Requests : Initiator(s)' => Initiator(s)
        BY <2>3 DEF Initiator
      <3> QED BY <1>0, <1>2, <1>4, <2>1, <2>3, <3>1, <3>2 DEF RefreshUnderWay
    <2>6. LoginIsOnPage'
      BY <1>0, <1>1, <1>2, <2>3 DEF LoginIsOnPage, AuthPage, Busy
    <2>7. RepeatedIsAccepted'
      BY <1>0, <1>1, <1>2, <2>3 DEF RepeatedIsAccepted, Initiator
    <2> QED BY <2>4, <2>5, <2>6, <2>7 DEF ApiInv
  <1>5. CASE ~isRefreshing
    <2>1. /\ refreshQueue' = refreshQueue /\ isRefreshing' = TRUE
          /\ req' = [req EXCEPT ![r].st = "refreshing", ![r].retry = TRUE, !["refresh"] = Sent(New)]
      BY <1>5 DEF Challenged
    <2>2. [req[r] EXCEPT !.st = "refreshing", !.retry = TRUE] \in RequestStates
      BY <1>3 DEF RequestStates, Busy
    <2>3. /\ req' \in [Requests -> RequestStates] /\ req'[r].st = "refreshing"
          /\ req'["refresh"] = Sent(New) /\ \A s \in Requests \ {r, "refresh"} : req'[s] = req[s]
      <3>1. PICK q \in RequestStates : q = [req[r] EXCEPT !.st = "refreshing", !.retry = TRUE] /\ q.st = "refreshing"
        BY <1>3, <2>2 DEF RequestStates
      <3>2. req' = [[req EXCEPT ![r] = q] EXCEPT !["refresh"] = Sent(New)]
        BY <1>2, <1>3, <2>1, <3>1
      <3> QED BY <1>2, <1>3, <3>1, <3>2, NewRequest
    <2>4. ApiTypes'
      BY <1>0, <1>1, <2>1, <2>3 DEF ApiTypes
    <2>5. RefreshUnderWay'
      <3>1. \A s \in Requests : ~Waits(s)
        BY <1>0, <1>5 DEF RefreshUnderWay
      <3>2. \A s \in Requests : (Initiator(s)' => s = r) /\ req'[s].st # "queued"
        BY <2>3, <3>1, NewRequest DEF Initiator, Waits
      <3>3. refreshQueue' = {s \in Requests : req'[s].st = "queued"}
        BY <1>0, <2>1, <3>1, <3>2 DEF RefreshUnderWay, Waits
      <3> QED BY <2>1, <2>3, <3>2, <3>3, NewRequest DEF RefreshUnderWay
    <2>6. LoginIsOnPage'
      BY <1>0, <1>1, <1>2, <2>3 DEF LoginIsOnPage, AuthPage, Busy
    <2>7. RepeatedIsAccepted'
      BY <1>0, <1>1, <1>2, <2>3 DEF RepeatedIsAccepted, Initiator
    <2> QED BY <2>4, <2>5, <2>6, <2>7 DEF ApiInv
  <1> QED BY <1>4, <1>5

\* The request is given up, looked into or settled.
LEMMA SettledInv ==
  ASSUME ApiInv, NEW r \in Requests, req[r].st = "answered",
         \/ Refused(r) \/ StartCheck(r) \/ Lost(r) \/ Succeeds(r)
         \/ r = "health" /\ HealthFails
         \/ r = "login" /\ LoginSucceeds
         \/ r = "signup" /\ SignUpSucceeds
         \/ r = "logout" /\ LogoutSucceeds
  PROVE  ApiInv'
  <1>0. ApiTypes /\ RefreshUnderWay /\ LoginIsOnPage /\ RepeatedIsAccepted
    BY DEF ApiInv
  <1>1. req[r] \in RequestStates /\ req \in [Requests -> RequestStates]
    BY <1>0 DEF ApiTypes
  <1>2. /\ access \in BOOLEAN /\ renew \in BOOLEAN /\ up \in BOOLEAN /\ path \in Pages
        /\ leaving \in Pages \cup {leaving} /\ back \in Pages
        /\ loaded \subseteq Layout /\ noticed \subseteq Layout
        /\ {"login", "app", "unavailable"} \subseteq Pages
    BY <1>0 DEF ApiTypes, Pages
  <1>3. r = "refresh" => isRefreshing /\ ~req[r].retry
    BY <1>0 DEF RefreshUnderWay
  <1>4. r = "login" => AuthPage
    BY <1>0 DEF LoginIsOnPage, Busy
  <1>5. /\ Rejected(r, req[r]) \in RequestStates /\ ~Rejected(r, req[r]).retry
        /\ Rejected(r, req[r]).st \in {"waiting", "failed"}
    BY <1>1, RejectedRequest
  <1>6. CASE Refused(r)
    <2>1. r # "refresh" /\ req' = [req EXCEPT ![r] = Rejected(r, req[r])]
      BY <1>3, <1>6 DEF Refused
    <2>2. /\ UNCHANGED <<session, path, back, loaded, noticed, isRefreshing, refreshQueue>>
          /\ leaving' \in {leaving, "login"}
      BY <1>6 DEF Refused, ToLogin
    <2> QED BY <1>2, <1>4, <1>5, <2>1, <2>2, OneRequest DEF session, AuthPage
  <1>7. CASE StartCheck(r)
    <2> DEFINE q == [req[r] EXCEPT !.st = "checking"]
    <2>1. q \in RequestStates /\ q.st = "checking" /\ q.ans = req[r].ans /\ q.retry = req[r].retry
      BY <1>1 DEF RequestStates, Busy
    <2>2. req' = [req EXCEPT ![r] = q]
      BY <1>1, <1>7 DEF StartCheck
    <2> HIDE DEF q
    <2>3. UNCHANGED <<session, page, isRefreshing, refreshQueue>> /\ req[r].ans # "unauthorized"
      BY <1>7 DEF StartCheck, NeedsCheck
    <2>4. r = "refresh" => q.ans = "down"
      BY <1>0, <1>7, <2>1 DEF RefreshUnderWay, StartCheck, NeedsCheck
    <2>5. r \notin {"refresh", "login"} /\ q.retry /\ leaving = "none" => access
      BY <1>0, <2>1 DEF RepeatedIsAccepted, Initiator
    <2> QED BY <1>2, <1>3, <1>4, <2>1, <2>2, <2>3, <2>4, <2>5, OneRequest DEF session, page, AuthPage
  <1>8. CASE Lost(r)
    <2>1. r # "refresh" /\ req' = [req EXCEPT ![r] = Rejected(r, req[r])]
      BY <1>8 DEF Lost
    <2>2. UNCHANGED <<session, page, isRefreshing, refreshQueue>>
      BY <1>8 DEF Lost
    <2> QED BY <1>2, <1>4, <1>5, <2>1, <2>2, OneRequest DEF session, page, AuthPage
  <1>9. CASE Succeeds(r)
    <2>1. r # "refresh" /\ r # "login" /\ req' = [req EXCEPT ![r] = New]
      BY <1>9 DEF Succeeds, Settled
    <2>2. UNCHANGED <<session, path, leaving, back, noticed, isRefreshing, refreshQueue>>
      BY <1>9 DEF Succeeds
    <2>3. loaded' \subseteq Layout
      BY <1>2, <1>9 DEF Succeeds
    <2> QED BY <1>2, <2>1, <2>2, <2>3, NewRequest, OneRequest DEF session, AuthPage
  <1>10. CASE r = "health" /\ HealthFails
    <2> DEFINE q == [Rejected(r, req[r]) EXCEPT !.told = TRUE]
    <2>1. q \in RequestStates /\ q.st \in {"waiting", "failed"} /\ ~q.retry
      BY <1>5 DEF RequestStates
    <2>2. req' = [req EXCEPT ![r] = q]
      BY <1>10 DEF HealthFails
    <2> HIDE DEF q
    <2>3. UNCHANGED <<session, page, isRefreshing, refreshQueue>>
      BY <1>10 DEF HealthFails
    <2> QED BY <1>2, <1>10, <2>1, <2>2, <2>3, OneRequest DEF session, page, AuthPage
  <1>11. CASE r = "login" /\ LoginSucceeds
    <2>1. req' = [req EXCEPT ![r] = New] /\ access' = TRUE /\ renew' = TRUE /\ path' = "app"
      BY <1>11 DEF LoginSucceeds, Settled, Enter
    <2>2. loaded' = {} /\ noticed' = {} /\ UNCHANGED <<up, leaving, back, isRefreshing, refreshQueue>>
      BY <1>11 DEF LoginSucceeds, Enter
    <2> QED BY <1>2, <1>11, <2>1, <2>2, NewRequest, OneRequest DEF Busy
  <1>12. CASE r = "signup" /\ SignUpSucceeds
    <2>1. req' = [req EXCEPT ![r] = New] /\ path' = "login"
      BY <1>12 DEF SignUpSucceeds, Settled, Enter
    <2>2. loaded' = {} /\ noticed' = {} /\ UNCHANGED <<session, leaving, back, isRefreshing, refreshQueue>>
      BY <1>12 DEF SignUpSucceeds, Enter
    <2> QED BY <1>2, <1>12, <2>1, <2>2, NewRequest, OneRequest DEF session, AuthPage
  <1>13. CASE r = "logout" /\ LogoutSucceeds
    <2>1. req' = [req EXCEPT ![r] = New] /\ access' = FALSE /\ renew' = FALSE /\ leaving' = "login"
      BY <1>13 DEF LogoutSucceeds, Settled
    <2>2. loaded' = {} /\ UNCHANGED <<up, path, back, noticed, isRefreshing, refreshQueue>>
      BY <1>13 DEF LogoutSucceeds
    <2> QED BY <1>2, <1>13, <2>1, <2>2, NewRequest, OneRequest DEF AuthPage
  <1> QED BY <1>6, <1>7, <1>8, <1>9, <1>10, <1>11, <1>12, <1>13

\* The refresh succeeds, is refused, or fails after a health check; another
\* request fails after one.
LEMMA RefreshOverInv ==
  ASSUME ApiInv, NEW r \in Requests, RefreshSucceeds \/ RefreshRefused \/ FinishCheck(r)
  PROVE  ApiInv'
  <1>0. ApiTypes /\ RefreshUnderWay /\ LoginIsOnPage /\ RepeatedIsAccepted
    BY DEF ApiInv
  <1>1. req[r] \in RequestStates /\ req \in [Requests -> RequestStates]
    BY <1>0 DEF ApiTypes
  <1>2. /\ access \in BOOLEAN /\ renew \in BOOLEAN /\ up \in BOOLEAN /\ path \in Pages
        /\ leaving \in Pages \cup {leaving} /\ back \in Pages
        /\ loaded \subseteq Layout /\ noticed \subseteq Layout
        /\ {"login", "unavailable"} \subseteq Pages
    BY <1>0 DEF ApiTypes, Pages
  <1>3. CASE RefreshSucceeds
    <2>1. RefreshOver(TRUE, New) /\ access' = TRUE /\ renew' = TRUE /\ UNCHANGED <<up, events, page>>
      BY <1>3 DEF RefreshSucceeds
    <2> QED BY <1>2, <2>1, OverInv DEF page
  <1>4. CASE RefreshRefused
    <2>1. RefreshOver(FALSE, New) /\ leaving' \in {leaving, "login"}
      BY <1>4 DEF RefreshRefused, ToLogin
    <2>2. UNCHANGED <<session, path, back, loaded, noticed>>
      BY <1>4 DEF RefreshRefused
    <2> QED BY <1>2, <2>1, <2>2, OverInv DEF session
  <1>5. CASE FinishCheck(r)
    <2>1. UNCHANGED <<session, path, loaded, noticed>> /\ leaving' \in {leaving, "login", "unavailable"}
      BY <1>5 DEF FinishCheck
    <2>2. back' \in Pages
      BY <1>2, <1>5 DEF FinishCheck
    <2>3. CASE r = "refresh"
      <3>1. RefreshOver(FALSE, New)
        BY <1>5, <2>3 DEF FinishCheck
      <3> QED BY <1>2, <2>1, <2>2, <3>1, OverInv DEF session
    <2>4. CASE r # "refresh"
      <3>1. PICK q \in RequestStates :
              /\ q.st \in {"waiting", "failed"} /\ ~q.retry
              /\ req' = [req EXCEPT ![r] = q]
        <4> DEFINE q == [req[r] EXCEPT !.told = @ \/ (up /\ req[r].ans # "conflict")]
        <4>1. q \in RequestStates
          BY <1>1 DEF RequestStates
        <4>2. req' = [req EXCEPT ![r] = Rejected(r, q)]
          BY <1>5, <2>4 DEF FinishCheck
        <4> HIDE DEF q
        <4> QED BY <4>1, <4>2, RejectedRequest
      <3>2. isRefreshing' = isRefreshing /\ refreshQueue' = refreshQueue /\ req[r].st = "checking"
        BY <1>5, <2>4 DEF FinishCheck
      <3>3. r = "login" => AuthPage
        BY <1>0, <3>2 DEF LoginIsOnPage, Busy
      <3> QED BY <1>2, <2>1, <2>2, <2>4, <3>1, <3>2, <3>3, OneRequest DEF session, AuthPage
    <2> QED BY <2>3, <2>4
  <1> QED BY <1>3, <1>4, <1>5

\* A page asks.
LEMMA AskInv ==
  ASSUME ApiInv, NEW r \in Requests \ {"refresh"}, Ask(r), r = "login" => AuthPage
  PROVE  ApiInv'
  <1>1. ApiTypes
    BY DEF ApiInv
  <1>2. /\ req' = [req EXCEPT ![r] = Sent(New)] /\ req[r].st \notin Busy
        /\ UNCHANGED <<session, page, isRefreshing, refreshQueue>>
    BY DEF Ask, Started, Idle
  <1>3. req[r].st \notin {"queued", "refreshing"}
    BY <1>2 DEF Busy
  <1> QED BY <1>1, <1>2, <1>3, NewRequest, OneRequest DEF ApiTypes, session, page, AuthPage

\* What happens outside, and a page that leads to another.
LEMMA ElsewhereInv ==
  ASSUME ApiInv,
         \/ AccessExpires \/ SessionExpires \/ BackendSwitches \/ LayoutEffect \/ OidcLogin
         \/ ServiceUnavailablePage \/ (\E p \in {"app", "signup", "logout"} : Open(p))
         \/ (AuthPage /\ \E p \in {"login", "signup"} : Link(p))
         \/ UNCHANGED apiVars
  PROVE  ApiInv'
  <1>1. ApiTypes
    BY DEF ApiInv
  <1>2. {"login", "unavailable", "app", "signup", "logout"} \subseteq Pages /\ {"health", "me"} = Layout
    BY DEF Pages, Layout
  <1>3. CASE AccessExpires \/ SessionExpires \/ BackendSwitches
    <2>1. UNCHANGED <<page, client>> /\ access' \in BOOLEAN /\ renew' \in BOOLEAN /\ up' \in BOOLEAN
          /\ (access => access' \/ \A r \in Requests : ~req[r].retry)
      BY <1>1, <1>3 DEF AccessExpires, SessionExpires, BackendSwitches, ApiTypes
    <2> QED BY <1>1, <2>1, NoRequest DEF ApiTypes, page, AuthPage
  <1>4. CASE LayoutEffect
    <2>1. /\ UNCHANGED <<session, path, loaded, client>> /\ leaving' \in Pages /\ back' \in Pages
          /\ noticed' \subseteq Layout
      BY <1>1, <1>2, <1>4 DEF LayoutEffect, ApiTypes
    <2> QED BY <1>1, <2>1, NoRequest DEF ApiTypes, session, AuthPage
  <1>5. CASE OidcLogin
    <2>1. /\ access' = TRUE /\ renew' = TRUE /\ leaving' = "app"
          /\ UNCHANGED <<up, path, back, loaded, noticed, client>>
      BY <1>5 DEF OidcLogin
    <2> QED BY <1>1, <1>2, <2>1, NoRequest DEF ApiTypes, AuthPage
  <1>6. CASE ServiceUnavailablePage \/ \E p \in {"app", "signup", "logout"} : Open(p)
    <2>1. /\ leaving' \in Pages
          /\ UNCHANGED <<access, renew, up, path, back, loaded, noticed, client>>
      BY <1>1, <1>2, <1>6 DEF ServiceUnavailablePage, Open, ApiTypes, session
    <2> QED BY <1>1, <2>1, NoRequest DEF ApiTypes, AuthPage
  <1>7. CASE AuthPage /\ \E p \in {"login", "signup"} : Link(p)
    <2>1. /\ path' \in {"login", "signup"}
          /\ UNCHANGED <<session, leaving, back, loaded, noticed, client>>
      BY <1>7 DEF Link
    <2> QED BY <1>1, <1>2, <2>1, NoRequest DEF ApiTypes, session, AuthPage
  <1>8. CASE UNCHANGED apiVars
    BY <1>1, <1>8, NoRequest DEF ApiTypes, apiVars, session, page, AuthPage
  <1> QED BY <1>3, <1>4, <1>5, <1>6, <1>7, <1>8

\* A page that is loaded has asked nothing yet.
LEMMA LeaveInv == ApiInv /\ Leave => ApiInv'
  <1> SUFFICES ASSUME ApiInv, Leave PROVE ApiInv'
    OBVIOUS
  <1>1. ApiTypes
    BY DEF ApiInv
  <1>2. /\ req' = [r \in Requests |-> New] /\ isRefreshing' = FALSE /\ refreshQueue' = {}
        /\ path' \in Pages /\ leaving' = "none" /\ back' \in Pages /\ loaded' = {} /\ noticed' = {}
        /\ UNCHANGED session
    BY <1>1 DEF Leave, Enter, ApiTypes, Pages
  <1>3. \A r \in Requests : req'[r] = New
    BY <1>2
  <1>4. "refresh" \in Requests /\ "login" \in Requests
    BY DEF Requests
  <1>5. ApiTypes'
    BY <1>1, <1>2, NewRequest DEF ApiTypes, session
  <1>6. RefreshUnderWay'
    BY <1>2, <1>3, <1>4, NewRequest DEF RefreshUnderWay, Waits, Initiator
  <1>7. LoginIsOnPage' /\ RepeatedIsAccepted'
    BY <1>3, <1>4, NewRequest DEF LoginIsOnPage, RepeatedIsAccepted, Busy
  <1> QED BY <1>5, <1>6, <1>7 DEF ApiInv

\* Every step preserves the invariant.
LEMMA NextApiInv == ApiInv /\ [ApiNext]_apiVars => ApiInv'
  <1> SUFFICES ASSUME ApiInv, [ApiNext]_apiVars PROVE ApiInv'
    OBVIOUS
  <1>1. ASSUME NEW r \in Requests, Receive(r) PROVE ApiInv'
    BY <1>1, ChallengedInv, SettledInv, RefreshOverInv DEF Receive
  <1>2. CASE AppLayout
    <2>1. \E r \in Layout \cup {"list", "edit", "logout"} : Ask(r)
      BY <1>2 DEF AppLayout
    <2> QED BY <2>1, AskInv DEF Layout, Requests, Queries
  <1>3. CASE LoginPage \/ SignupPage \/ LogoutPage
    <2>1. \/ Ask("login") /\ AuthPage
          \/ Ask("signup") \/ Ask("logout")
          \/ (AuthPage /\ \E p \in {"login", "signup"} : Link(p))
      BY <1>3 DEF LoginPage, SignupPage, LogoutPage, AuthPage
    <2> QED BY <2>1, AskInv, ElsewhereInv DEF Requests
  <1> QED BY <1>1, <1>2, <1>3, ServeInv, RefreshOverInv, ElsewhereInv, LeaveInv DEF ApiNext

\* However many requests overlap, a refresh serves those that wait for it.
THEOREM ApiInvariant == ApiSpec => []ApiInv
  BY InitApiInv, NextApiInv, PTL DEF ApiSpec

\* A request that waits has a refresh under way whose answer will release it.
WaitersAreServed ==
  \A r \in Requests : Waits(r) =>
    isRefreshing /\ req["refresh"].st \in {"sent", "answered", "checking"}

\* Nobody waits for a refresh that nobody makes (isRefreshing and refreshQueue
\* of the interceptor): what RefreshEnds needs at every step.
THEOREM NobodyWaitsInVain == ApiSpec => []WaitersAreServed
  <1>1. ApiInv => WaitersAreServed
    BY DEF ApiInv, RefreshUnderWay, WaitersAreServed
  <1> QED BY <1>1, ApiInvariant, PTL
-----------------------------------------------------------------------------
(* What a step may never do. *)

\* A step that settles or sends one request does not make another fail.
LEMMA FailingSteps ==
  ASSUME ApiTypes, NEW r \in {"list", "edit", "logout"}, [ApiNext]_apiVars, ~Failed(r), Failed(r)'
  PROVE  \/ Refused(r) \/ Lost(r) \/ RefreshRefused \/ FinishCheck("refresh") \/ FinishCheck(r)
  <1>1. r \in Requests \ {"refresh", "health", "login", "signup"} /\ "refresh" \in Requests
    BY DEF Requests, Queries
  <1>2. req[r].st # "failed" /\ req'[r].st = "failed" /\ req \in [Requests -> RequestStates]
    BY DEF Failed, ApiTypes
  <1>3. ASSUME NEW s \in Requests, Serve(s) \/ QueryRetry(s) PROVE FALSE
    <2>1. CASE Serve(s)
      BY <1>1, <1>2, <2>1 DEF Serve
    <2>2. CASE QueryRetry(s)
      <3>1. [Sent(New) EXCEPT !.again = TRUE, !.told = req[s].told].st = "sent"
        BY NewRequest DEF RequestStates
      <3> QED BY <1>1, <1>2, <2>2, <3>1 DEF QueryRetry
    <2> QED BY <1>3, <2>1, <2>2
  <1>4. ASSUME NEW s \in Requests, Challenged(s) \/ StartCheck(s) \/ Succeeds(s) PROVE FALSE
    <2>1. CASE Challenged(s)
      <3>1. \/ req' = [req EXCEPT ![s].st = "queued"]
            \/ req' = [req EXCEPT ![s].st = "refreshing", ![s].retry = TRUE, !["refresh"] = Sent(New)]
        BY <2>1 DEF Challenged
      <3>2. req'[r] = req[r] \/ req'[r].st \in {"queued", "refreshing"}
        <4>1. req[r] \in RequestStates /\ s # "refresh" /\ r # "refresh"
          BY <1>1, <1>2, <2>1 DEF Challenged
        <4>2. CASE s # r
          BY <1>1, <1>2, <3>1, <4>1, <4>2
        <4>3. CASE s = r
          <5>1. CASE req' = [req EXCEPT ![s].st = "queued"]
            BY <1>1, <1>2, <4>1, <4>3, <5>1 DEF RequestStates
          <5>2. CASE req' = [req EXCEPT ![s].st = "refreshing", ![s].retry = TRUE, !["refresh"] = Sent(New)]
            <6>1. req'[r] = [req[r] EXCEPT !.st = "refreshing", !.retry = TRUE]
              BY <1>1, <1>2, <4>1, <4>3, <5>2
            <6> QED BY <4>1, <6>1 DEF RequestStates
          <5> QED BY <3>1, <5>1, <5>2
        <4> QED BY <4>2, <4>3
      <3> QED BY <1>2, <3>2
    <2>2. CASE StartCheck(s)
      BY <1>1, <1>2, <2>2 DEF StartCheck
    <2>3. CASE Succeeds(s)
      BY <1>1, <1>2, <2>3, NewRequest DEF Succeeds, Settled
    <2> QED BY <1>4, <2>1, <2>2, <2>3
  <1>5. ASSUME NEW s \in Requests, Refused(s) \/ Lost(s) PROVE s = r
    BY <1>1, <1>2, <1>5 DEF Refused, Lost
  <1>6. ~RefreshSucceeds
    <2> SUFFICES ASSUME RefreshSucceeds PROVE FALSE
      OBVIOUS
    <2>1. req'[r] \in {req[r], Sent(req[r])}
      BY <1>1 DEF RefreshSucceeds, RefreshOver
    <2> QED BY <1>1, <1>2, <2>1, SentRequest
  <1>7. ~HealthFails /\ ~LoginSucceeds /\ ~SignUpSucceeds
    BY <1>1, <1>2 DEF HealthFails, LoginSucceeds, SignUpSucceeds, Settled
  <1>8. ~LogoutSucceeds
    BY <1>1, <1>2, NewRequest DEF LogoutSucceeds, Settled
  <1>9. ASSUME NEW s \in Requests, FinishCheck(s) PROVE s \in {r, "refresh"}
    BY <1>1, <1>2, <1>9 DEF FinishCheck
  <1>10. ASSUME NEW s \in Requests, Ask(s) PROVE FALSE
    BY <1>1, <1>2, <1>10, NewRequest DEF Ask, Started
  <1>11. ~Leave
    BY <1>1, <1>2, NewRequest DEF Leave
  <1>12. ~(UNCHANGED client)
    BY <1>2 DEF client
  <1>13. ASSUME NEW s \in Requests, Receive(s) PROVE Refused(r) \/ Lost(r) \/ RefreshRefused
    BY <1>4, <1>5, <1>6, <1>7, <1>8, <1>13 DEF Receive
  <1>14. ~AccessExpires /\ ~SessionExpires /\ ~BackendSwitches /\ ~LayoutEffect /\ ~OidcLogin
         /\ ~ServiceUnavailablePage /\ (\A p \in Pages : ~Open(p) /\ ~Link(p)) /\ ~(UNCHANGED apiVars)
    BY <1>12 DEF AccessExpires, SessionExpires, BackendSwitches, LayoutEffect, OidcLogin,
                 ServiceUnavailablePage, Open, Link, apiVars
  <1>15. ~AppLayout /\ ~LoginPage /\ ~SignupPage /\ ~LogoutPage
    BY <1>10, <1>14 DEF AppLayout, LoginPage, SignupPage, LogoutPage, Layout, Requests, Queries, Pages
  <1> QED BY <1>3, <1>9, <1>11, <1>13, <1>14, <1>15 DEF ApiNext, Pages

\* Whatever the page shown asked for and did not get, the user is told of or
\* sent away, unless it is a conflict or there was no answer (the interceptor's
\* branches, and what each leaves to its caller).
THEOREM NoSilentFailure == ApiSpec => FailureNoticed
  <1>1. ASSUME ApiInv, [ApiNext]_apiVars, NEW r \in {"list", "edit", "logout"},
               ~AuthPage, ~Failed(r), Failed(r)'
        PROVE  req'[r].told \/ leaving' # "none" \/ req[r].ans \in {"conflict", "lost"}
    <2>1. ApiTypes
      BY <1>1 DEF ApiInv
    <2>2. CASE Refused(r) \/ RefreshRefused \/ FinishCheck("refresh")
      BY <1>1, <2>2 DEF Refused, RefreshRefused, ToLogin, FinishCheck
    <2>3. CASE Lost(r)
      BY <2>3 DEF Lost
    <2>4. CASE FinishCheck(r)
      <3>1. CASE ~up
        BY <1>1, <2>4, <3>1 DEF FinishCheck
      <3>2. CASE up /\ req[r].ans # "conflict"
        <4> DEFINE q == [req[r] EXCEPT !.told = @ \/ (up /\ req[r].ans # "conflict")]
        <4>1. r \in Requests /\ r # "refresh"
          BY DEF Requests, Queries
        <4>2. req' = [req EXCEPT ![r] = Rejected(r, q)]
          BY <2>4, <4>1 DEF FinishCheck
        <4>3. q \in RequestStates /\ q.told
          BY <2>1, <3>2, <4>1 DEF ApiTypes, RequestStates
        <4> HIDE DEF q
        <4>4. req'[r].told
          BY <2>1, <4>1, <4>2, <4>3, RejectedRequest DEF ApiTypes
        <4> QED BY <4>4
      <3> QED BY <3>1, <3>2
    <2> QED BY <1>1, <2>1, <2>2, <2>3, <2>4, FailingSteps
  <1>2. ApiInv /\ [ApiNext]_apiVars =>
          [\A r \in {"list", "edit", "logout"} :
             (~AuthPage /\ ~Failed(r) /\ Failed(r)')
               => \/ req'[r].told
                  \/ leaving' # "none"
                  \/ req[r].ans \in {"conflict", "lost"}]_apiVars
    BY <1>1
  <1> QED BY <1>2, ApiInvariant, PTL DEF ApiSpec, FailureNoticed

\* The steps that send a user who was going nowhere to the login page, and
\* what they answer.
LEMMA SentToLogin ==
  ASSUME ApiInv, [ApiNext]_apiVars, NEW r \in Requests,
         req[r].ans = "unauthorized", req'[r].ans = "none", leaving' = "login", leaving = "none"
  PROVE  req["refresh"].ans \in {"down", "lost", "unauthorized"}
  <1>0. ApiTypes /\ RefreshUnderWay /\ LoginIsOnPage /\ RepeatedIsAccepted
    BY DEF ApiInv
  <1>1. req \in [Requests -> RequestStates] /\ "refresh" \in Requests
    BY <1>0 DEF ApiTypes, Requests
  <1>2. ~(UNCHANGED client) /\ ~(UNCHANGED leaving)
    BY DEF client
  <1>3. ASSUME NEW s \in Requests, Serve(s) \/ QueryRetry(s) \/ Challenged(s) \/ StartCheck(s)
                                   \/ Lost(s) \/ Succeeds(s) \/ Ask(s)
        PROVE  FALSE
    BY <1>2, <1>3 DEF Serve, QueryRetry, Challenged, StartCheck, Lost, Succeeds, Ask, page
  <1>4. ~RefreshSucceeds /\ ~HealthFails /\ ~LoginSucceeds /\ ~SignUpSucceeds /\ ~Leave
    BY <1>2 DEF RefreshSucceeds, HealthFails, LoginSucceeds, SignUpSucceeds, Leave, page
  <1>5. ~LogoutSucceeds
    BY <1>1 DEF LogoutSucceeds, Settled
  <1>6. ASSUME NEW s \in Requests, req[s].st = "answered", Refused(s) PROVE FALSE
    <2>1. s = r
      BY <1>1, <1>6 DEF Refused
    <2>2. req[r].retry /\ ~Initiator(r) /\ ~AuthPage
      BY <1>6, <2>1 DEF Refused, Initiator, ToLogin
    <2>3. r \notin {"refresh", "login"}
      BY <1>0, <1>6, <2>1, <2>2 DEF RefreshUnderWay, LoginIsOnPage, Busy
    <2> QED BY <1>0, <2>2, <2>3 DEF RepeatedIsAccepted
  <1>7. ASSUME NEW s \in Requests, FinishCheck(s) PROVE req["refresh"].ans = "down"
    BY <1>0, <1>7 DEF FinishCheck, RefreshUnderWay
  <1>8. RefreshRefused => req["refresh"].ans \in {"lost", "unauthorized"}
    BY DEF RefreshRefused
  <1>9. ~AccessExpires /\ ~SessionExpires /\ ~BackendSwitches /\ ~LayoutEffect /\ ~OidcLogin
        /\ ~ServiceUnavailablePage /\ (\A p \in Pages : ~Open(p) /\ ~Link(p)) /\ ~(UNCHANGED apiVars)
    BY <1>2 DEF AccessExpires, SessionExpires, BackendSwitches, LayoutEffect, OidcLogin,
                ServiceUnavailablePage, Open, Link, apiVars
  <1>10. ASSUME NEW s \in Requests, Receive(s) PROVE RefreshRefused
    BY <1>3, <1>4, <1>5, <1>6, <1>10 DEF Receive
  <1>11. ~AppLayout /\ ~LoginPage /\ ~SignupPage /\ ~LogoutPage
    BY <1>3, <1>9 DEF AppLayout, LoginPage, SignupPage, LogoutPage, Layout, Requests, Queries, Pages
  <1> QED BY <1>3, <1>4, <1>7, <1>8, <1>9, <1>10, <1>11 DEF ApiNext, Pages

\* However the requests overlap, a 401 sends nobody to the login page whose
\* session can be renewed, unless the refresh itself failed (the _retry flag and
\* the queue of the interceptor).
THEOREM RenewableIsKept == ApiSpec => RenewableStays
  <1>1. ApiInv /\ [ApiNext]_apiVars =>
          [\A r \in Requests :
             (req[r].ans = "unauthorized" /\ req'[r].ans = "none" /\ leaving' = "login" /\ leaving = "none")
               => ~renew \/ req["refresh"].ans \in {"down", "lost", "unauthorized"}]_apiVars
    BY SentToLogin
  <1> QED BY <1>1, ApiInvariant, PTL DEF ApiSpec, RenewableStays
===============================================================================
