--------------------------- MODULE MCClientSession ---------------------------
(***************************************************************************)
(* One run for the three parts of a browser tab that share no state: its   *)
(* requests, its socket and its view of the server.  Each behaviour is one *)
(* of ApiSpec, WsSpec or LiveSpec, with the other parts at rest; beside a  *)
(* revocation nothing is lost, or the worker dies of it, and the second of *)
(* two losses is that of an answer.                                        *)
(***************************************************************************)
EXTENDS ApiClient, WsClient, LiveUpdates

VARIABLE part

vars == <<part, apiVars, wsVars, liveVars>>

Init ==
  /\ ApiInit /\ WsInit /\ LiveInit
  /\ part \in {"requests", "socket", "view"}
  /\ part # "requests" => access /\ renew /\ up
  /\ part # "socket" => token

Next ==
  \/ part = "requests" /\ ApiNext /\ UNCHANGED <<part, wsVars, liveVars>>
  \/ part = "socket" /\ WsNext /\ UNCHANGED <<part, apiVars, liveVars>>
  \/ /\ part = "view" /\ LiveNext
     /\ losses' > 1 => losses = losses' \/ fetch' # fetch
     /\ losses' > 0 /\ revokes' > 0 => losses' = 1 /\ run' = "dead"
     /\ UNCHANGED <<part, apiVars, wsVars>>

Spec == Init /\ [][Next]_vars /\ ApiFairness /\ WsFairness /\ LiveFairness
===============================================================================
