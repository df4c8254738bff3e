------------------------- MODULE ReadinessContract -------------------------
(***************************************************************************)
(* What CurlMulti promises to libcurl's socket interface, with no asio     *)
(* socket, SocketData or flag in it.  While libcurl watches a descriptor,  *)
(* readiness of it is remembered until it is reported, once; readiness     *)
(* seen before a watch began is never reported to that watch.              *)
(***************************************************************************)
CONSTANTS Fd, Dir

VARIABLES
  watched,      (* the descriptors libcurl watches                            *)
  seen,         (* readiness of each since the watch began, not yet reported  *)
  reporting     (* the <<descriptor, direction>> being reported, at most one  *)

vars == <<watched, seen, reporting>>

TypeOK ==
  /\ watched \subseteq Fd
  /\ seen \in [Fd -> SUBSET Dir]
  /\ reporting \subseteq Fd \X Dir

Init == watched = {} /\ seen = [f \in Fd |-> {}] /\ reporting = {}

Watch(f) ==
  /\ f \notin watched
  /\ watched' = watched \cup {f}
  /\ UNCHANGED <<seen, reporting>>

Unwatch(f) ==
  /\ f \in watched
  /\ watched' = watched \ {f}
  /\ seen' = [seen EXCEPT ![f] = {}]
  /\ UNCHANGED reporting

BecomesReady(f, d) ==
  /\ f \in watched
  /\ seen' = [seen EXCEPT ![f] = @ \cup {d}]
  /\ UNCHANGED <<watched, reporting>>

Report(f, d) ==
  /\ reporting = {}
  /\ f \in watched
  /\ d \in seen[f]
  /\ seen' = [seen EXCEPT ![f] = @ \ {d}]
  /\ reporting' = {<<f, d>>}
  /\ UNCHANGED watched

ReportReturns ==
  /\ reporting # {}
  /\ reporting' = {}
  /\ UNCHANGED <<watched, seen>>

Next ==
  \/ \E f \in Fd : Watch(f) \/ Unwatch(f)
  \/ \E f \in Fd, d \in Dir : BecomesReady(f, d) \/ Report(f, d)
  \/ ReportReturns

Spec == Init /\ [][Next]_vars
=============================================================================
