----------------------- MODULE CurlMultiSockets_proof -----------------------
(* Theorems about CurlMultiSockets, for any set of descriptors and SocketData,    *)
(* in four layers, each under no more faults excluded than its promises need.     *)
EXTENDS CurlMultiSockets, TLAPS

-----------------------------------------------------------------------------
(* The invariants of the layers *)

\* Whatever goes wrong: an open TCP descriptor has its asio socket, and a current
\* SocketData belongs to its descriptor and is not taken for one of c-ares.
TcpKept ==
  \A f \in Fd :
    /\ kernel[f] = "tcp" => f \in socket_map_
    /\ socket_data_map_[f] # NoSD =>
         /\ f \in socket_map_
         /\ bound[socket_data_map_[f]] = f
         /\ kernel[f] = "tcp" => ~is_ares_socket[socket_data_map_[f]]

\* When every close of a TCP descriptor is announced: a current SocketData is known
\* to libcurl and says truly who opened the descriptor; socket_map_ holds what is
\* open for libcurl or watched; libcurl keeps nothing closed across its calls, and is
\* not called when the CURLM* is gone.
OwnersAgree ==
  /\ \A f \in Fd :
       /\ socket_data_map_[f] # NoSD =>
            /\ f \in known
            /\ bound[socket_data_map_[f]] = f
            /\ is_ares_socket[socket_data_map_[f]] <=> kernel[f] # "tcp"
       /\ f \in socket_map_ <=> (kernel[f] = "tcp" \/ socket_data_map_[f] # NoSD)
  /\ ctx = "idle" => \A f \in known : kernel[f] # "free"
  /\ ~curl_multi_ => ctx = "idle" /\ known = {}

\* When moreover every close comes after a removal: the SocketData of a handler that
\* is inside libcurl is current exactly until its descriptor is removed.
HandlerHoldsCurrent ==
  ctx = "socket" => (socket_data_map_[bound[cur]] = cur <=> bound[cur] \notin removed_sockets_)

\* When asio serves every wait.  What libcurl announced has a SocketData, which recorded
\* the interest; CURL_POLL_NONE alone leaves the recorded action as it was.
InterestRecorded ==
  \A f \in known : /\ socket_data_map_[f] # NoSD
                   /\ want[f] \subseteq previous_action[socket_data_map_[f]]

\* No wait of a current SocketData was aborted, and none failed.
CurrentWaitsAlive ==
  \A f \in known, d \in Dir : wait[socket_data_map_[f]][d] \notin {"aborted", "error"}

\* A wanted direction has a wait, but for the one whose handler runs.
Covered ==
  \A f \in known : \A d \in want[f] :
    \/ wait[socket_data_map_[f]][d] # "none"
    \/ ctx = "socket" /\ cur = socket_data_map_[f] /\ dir = d

\* What is open and has an asio socket is registered with epoll.
OpenIsRegistered == \A f \in socket_map_ : kernel[f] # "free" => f \in epoll

\* A handler whose SocketData is still current will arm it again.
CurrentRearms ==
  /\ failed = FALSE
  /\ ctx = "socket" /\ socket_data_map_[bound[cur]] = cur => bound[cur] \notin removed_sockets_

ReadyInv ==
  /\ InterestRecorded
  /\ CurrentWaitsAlive
  /\ Covered
  /\ OpenIsRegistered
  /\ CurrentRearms

-----------------------------------------------------------------------------
(* Type correctness, whatever goes wrong *)

\* What Started offers is a set of directions.
LEMMA StartedIsDirections ==
  ASSUME NEW act \in SUBSET Dir, NEW have \in SUBSET Dir,
         NEW started \in Started(act, have)
  PROVE  started \in SUBSET Dir
BY DEF Started, ToArm

\* Aborting waits yields waits.
LEMMA AbortedIsWaits ==
  ASSUME TypeOK, NEW f \in Fd
  PROVE  Aborted(f) \in [SD -> [Dir -> WaitState]]
BY DEF TypeOK, Aborted, WaitState

\* Arming directions yields waits.
LEMMA WaitsAfterArmIsWaits ==
  ASSUME NEW w \in [Dir -> WaitState], NEW started
  PROVE  WaitsAfterArm(w, started) \in [Dir -> WaitState]
BY DEF WaitsAfterArm, WaitState

LEMMA InitTypeOK == Init => TypeOK
<1> SUFFICES ASSUME Init PROVE TypeOK
  OBVIOUS
<1> USE DEF Init, tables
<1>1. is_ares_socket \in [SD -> BOOLEAN]
  OBVIOUS
<1>2. previous_action \in [SD -> SUBSET Dir] /\ armed \in [SD -> SUBSET Dir]
  OBVIOUS
<1>3. wait \in [SD -> [Dir -> WaitState]]
  BY DEF WaitState
<1>4. socket_data_map_ \in [Fd -> SD \cup {NoSD}]
  OBVIOUS
<1>5. kernel \in [Fd -> {"free", "tcp", "ares"}] /\ want \in [Fd -> SUBSET Dir]
  OBVIOUS
<1>6. cur \in SD \cup {NoSD} /\ dir \in Dir /\ failed \in BOOLEAN
  BY DEF Dir
<1>7. QED
  BY <1>1, <1>2, <1>3, <1>4, <1>5, <1>6 DEF TypeOK

LEMMA NextTypeOK == TypeOK /\ [Next]_vars => TypeOK'
<1> SUFFICES ASSUME TypeOK, [Next]_vars PROVE TypeOK'
  OBVIOUS
<1> USE DEF TypeOK, objects, external, frame, tables
<1>1. ASSUME NEW f \in Fd, CurlOpenSocketCallback(f) PROVE TypeOK'
  BY <1>1, AbortedIsWaits DEF CurlOpenSocketCallback, RegisteredAfterOpen
<1>2. ASSUME NEW f \in Fd, CurlCloseSocketCallback(f) PROVE TypeOK'
  BY <1>2, AbortedIsWaits DEF CurlCloseSocketCallback, Forgets, DataAfterClose, Dir
<1>3. ASSUME NEW f \in Fd, PollRemove(f) PROVE TypeOK'
  <2>1. CASE socket_data_map_[f] = NoSD
    BY <1>3, <2>1 DEF PollRemove, Forgets, Dir
  <2>2. CASE socket_data_map_[f] # NoSD
    <3>1. wait' \in [SD -> [Dir -> WaitState]]
      BY <1>3, <2>2, AbortedIsWaits DEF PollRemove
    <3>2. is_ares_socket' \in [SD -> BOOLEAN]
      BY <1>3, <2>2 DEF PollRemove
    <3>3. previous_action' \in [SD -> SUBSET Dir]
      BY <1>3, <2>2 DEF PollRemove, Dir
    <3>4. socket_map_' \subseteq Fd /\ epoll' \subseteq Fd
      BY <1>3, <2>2 DEF PollRemove
    <3>5. QED
      BY <1>3, <2>2, <3>1, <3>2, <3>3, <3>4 DEF PollRemove, Forgets, Dir
  <2>3. QED
    BY <2>1, <2>2
<1>4. ASSUME NEW f \in Fd, NEW what \in SUBSET Dir, PollChange(f, what) PROVE TypeOK'
  <2> DEFINE g == socket_data_map_[f]
  <2>1. CASE f \in socket_map_
    <3>1. g \in SD
      BY <1>4 DEF PollChange
    <3>2. PICK started \in Started(what, armed[g]) :
            /\ armed' = [armed EXCEPT ![g] = FlagsAfterArm(what, armed[g], started)]
            /\ wait' = [wait EXCEPT ![g] = WaitsAfterArm(wait[g], started)]
            /\ previous_action' = [previous_action EXCEPT ![g] =
                 IF started = ToArm(what, armed[g]) /\ what # {} THEN what ELSE @]
      BY <1>4, <2>1 DEF PollChange, SetSock
    <3>3. started \in SUBSET Dir
      BY <3>1, StartedIsDirections
    <3>4. armed' \in [SD -> SUBSET Dir]
      BY <3>1, <3>2, <3>3 DEF FlagsAfterArm
    <3>5. wait' \in [SD -> [Dir -> WaitState]]
      BY <3>1, <3>2, WaitsAfterArmIsWaits
    <3>6. previous_action' \in [SD -> SUBSET Dir]
      BY <3>1, <3>2
    <3>7. QED
      BY <1>4, <3>4, <3>5, <3>6 DEF PollChange, Announces
  <2>2. CASE f \notin socket_map_
    BY <1>4, <2>2 DEF PollChange, Announces
  <2>3. QED
    BY <2>1, <2>2
<1>5. ASSUME NEW f \in Fd, NEW what \in SUBSET Dir, PollWatch(f, what) PROVE TypeOK'
  <2>1. PICK g \in SD :
          /\ socket_data_map_' = [socket_data_map_ EXCEPT ![f] = g]
          /\ is_ares_socket' = [is_ares_socket EXCEPT ![g] = f \notin socket_map_]
          /\ bound' = [bound EXCEPT ![g] = f]
          /\ \E started \in Started(what, {}) :
               /\ armed' = [armed EXCEPT ![g] = FlagsAfterArm(what, {}, started)]
               /\ wait' = [wait EXCEPT ![g] = WaitsAfterArm([d \in Dir |-> "none"], started)]
               /\ previous_action' = [previous_action EXCEPT ![g] =
                    IF started = ToArm(what, {}) THEN what ELSE {}]
    BY <1>5 DEF PollWatch
  <2>2. PICK started \in Started(what, {}) :
          /\ armed' = [armed EXCEPT ![g] = FlagsAfterArm(what, {}, started)]
          /\ wait' = [wait EXCEPT ![g] = WaitsAfterArm([d \in Dir |-> "none"], started)]
          /\ previous_action' = [previous_action EXCEPT ![g] =
               IF started = ToArm(what, {}) THEN what ELSE {}]
    BY <2>1
  <2>3. started \in SUBSET Dir
    BY StartedIsDirections
  <2>4. armed' \in [SD -> SUBSET Dir]
    BY <2>2, <2>3 DEF FlagsAfterArm
  <2>5. wait' \in [SD -> [Dir -> WaitState]]
    BY <2>2, WaitsAfterArmIsWaits DEF WaitState
  <2>6. previous_action' \in [SD -> SUBSET Dir]
    BY <2>2
  <2>7. QED
    BY <1>5, <2>1, <2>4, <2>5, <2>6 DEF PollWatch, Announces
<1>6. ASSUME NEW f \in Fd, NEW what \in SUBSET Dir, PollWatchRefused(f, what) PROVE TypeOK'
  BY <1>6 DEF PollWatchRefused, Announces
<1>7. ASSUME NEW f \in Fd, AresOpen(f) PROVE TypeOK'
  BY <1>7 DEF AresOpen
<1>8. ASSUME NEW f \in Fd, AresClose(f) PROVE TypeOK'
  BY <1>8 DEF AresClose
<1>9. ASSUME NEW f \in Fd, MissedClose(f) PROVE TypeOK'
  BY <1>9 DEF MissedClose, Forgets, Dir
<1>10. ASSUME NEW g \in SD, NEW d \in Dir, WaitCompletes(g, d) PROVE TypeOK'
  BY <1>10 DEF WaitCompletes, WaitState
<1>11. ASSUME NEW g \in SD, NEW d \in Dir, HandlerReturnsEarly(g, d) PROVE TypeOK'
  BY <1>11 DEF HandlerReturnsEarly, HandlerRuns, ClearedFlags, WaitState
<1>12. ASSUME NEW g \in SD, NEW d \in Dir, HandlerReports(g, d) PROVE TypeOK'
  BY <1>12, NoSDAssumption DEF HandlerReports, HandlerRuns, ClearedFlags, WaitState
<1>13. ASSUME HandlerEnds PROVE TypeOK'
  <2>1. CASE KeepsWatching(bound[cur])
    <3>1. cur \in SD
      BY <1>13 DEF HandlerEnds
    <3>2. PICK started \in Started(previous_action[cur], armed[cur]) :
            /\ armed' = [armed EXCEPT ![cur] =
                 FlagsAfterArm(previous_action[cur], armed[cur], started)]
            /\ wait' = [wait EXCEPT ![cur] = WaitsAfterArm(wait[cur], started)]
      BY <1>13, <2>1 DEF HandlerEnds
    <3>3. started \in SUBSET Dir
      BY <3>1, StartedIsDirections
    <3>4. armed' \in [SD -> SUBSET Dir]
      BY <3>1, <3>2, <3>3 DEF FlagsAfterArm
    <3>5. wait' \in [SD -> [Dir -> WaitState]]
      BY <3>1, <3>2, WaitsAfterArmIsWaits
    <3>6. QED
      BY <1>13, <3>4, <3>5 DEF HandlerEnds, ReturnsFromLibcurl, Dir
  <2>2. CASE ~KeepsWatching(bound[cur])
    BY <1>13, <2>2 DEF HandlerEnds, ReturnsFromLibcurl, Dir
  <2>3. QED
    BY <2>1, <2>2
<1>14. ASSUME DriveBegins \/ DriveEnds PROVE TypeOK'
  BY <1>14 DEF DriveBegins, DriveEnds, ReturnsFromLibcurl, Dir
<1>15. ASSUME ShutdownBegins \/ ShutdownEnds PROVE TypeOK'
  BY <1>15 DEF ShutdownBegins, ShutdownEnds, ReturnsFromLibcurl, Dir
<1>16. ASSUME UNCHANGED vars PROVE TypeOK'
  BY <1>16 DEF vars
<1>17. QED
  BY <1>1, <1>2, <1>3, <1>4, <1>5, <1>6, <1>7, <1>8, <1>9, <1>10, <1>11, <1>12,
     <1>13, <1>14, <1>15, <1>16
     DEF Next, LibcurlActs, HandlerActs, Stopped

\* Every variable keeps its type, under any faults.
THEOREM TypeCorrect == Spec => []TypeOK
BY InitTypeOK, NextTypeOK, PTL DEF Spec

-----------------------------------------------------------------------------
(* The flags tell the truth, whatever goes wrong *)

\* Aborting turns waits into other waits: what is pending stays pending.
LEMMA AbortedKeepsPending ==
  ASSUME TypeOK, NEW f \in Fd, wait' = Aborted(f)
  PROVE  \A g \in SD : Pending(g)' = Pending(g)
BY DEF TypeOK, Aborted, Pending

LEMMA NextArmedIffPending ==
  TypeOK /\ ArmedIffPending /\ [Next]_vars => ArmedIffPending'
<1> SUFFICES ASSUME TypeOK, ArmedIffPending, [Next]_vars PROVE ArmedIffPending'
  OBVIOUS
<1> USE DEF ArmedIffPending, objects, external, frame, tables
<1>1. ASSUME UNCHANGED <<wait, armed>> PROVE ArmedIffPending'
  BY <1>1 DEF Pending
<1>2. ASSUME NEW f \in Fd, wait' = Aborted(f), UNCHANGED armed PROVE ArmedIffPending'
  BY <1>2, AbortedKeepsPending
<1>3. ASSUME NEW f \in Fd, CurlOpenSocketCallback(f) PROVE ArmedIffPending'
  BY <1>1, <1>2, <1>3 DEF CurlOpenSocketCallback
<1>4. ASSUME NEW f \in Fd, CurlCloseSocketCallback(f) PROVE ArmedIffPending'
  BY <1>2, <1>4 DEF CurlCloseSocketCallback
<1>5. ASSUME NEW f \in Fd, PollRemove(f) PROVE ArmedIffPending'
  BY <1>1, <1>2, <1>5 DEF PollRemove
<1>6. ASSUME NEW f \in Fd, NEW what \in SUBSET Dir, PollChange(f, what) PROVE ArmedIffPending'
  <2> DEFINE g == socket_data_map_[f]
  <2>1. CASE f \in socket_map_
    <3>1. g \in SD
      BY <1>6 DEF PollChange, TypeOK
    <3>2. PICK started \in Started(what, armed[g]) :
            /\ armed' = [armed EXCEPT ![g] = FlagsAfterArm(what, armed[g], started)]
            /\ wait' = [wait EXCEPT ![g] = WaitsAfterArm(wait[g], started)]
      BY <1>6, <2>1 DEF PollChange, SetSock
    <3>3. armed'[g] = {d \in Dir : wait'[g][d] # "none"}
      <4>1. started \in SUBSET Dir
        BY <3>1, StartedIsDirections DEF TypeOK
      <4>2. armed[g] = {d \in Dir : wait[g][d] # "none"}
        BY <3>1 DEF Pending
      <4>3. armed'[g] = armed[g] \cup started
        BY <3>1, <3>2 DEF TypeOK, FlagsAfterArm
      <4>4. \A d \in Dir : wait'[g][d] = IF d \in started THEN "waiting" ELSE wait[g][d]
        BY <3>1, <3>2 DEF TypeOK, WaitsAfterArm
      <4>5. QED
        BY <4>1, <4>2, <4>3, <4>4
    <3>4. \A h \in SD \ {g} : armed'[h] = {d \in Dir : wait'[h][d] # "none"}
      BY <3>1, <3>2 DEF TypeOK, Pending
    <3>5. QED
      BY <3>1, <3>3, <3>4 DEF Pending
  <2>2. QED
    BY <1>1, <1>6, <2>1 DEF PollChange
<1>7. ASSUME NEW f \in Fd, NEW what \in SUBSET Dir, PollWatch(f, what) PROVE ArmedIffPending'
  <2> DEFINE none == [d \in Dir |-> "none"]
  <2>1. PICK g \in SD, started \in Started(what, {}) :
          /\ armed' = [armed EXCEPT ![g] = FlagsAfterArm(what, {}, started)]
          /\ wait' = [wait EXCEPT ![g] = WaitsAfterArm(none, started)]
    BY <1>7 DEF PollWatch
  <2>2. started \in SUBSET Dir
    BY StartedIsDirections
  <2>3. armed'[g] = {d \in Dir : wait'[g][d] # "none"}
    BY <2>1, <2>2 DEF TypeOK, FlagsAfterArm, WaitsAfterArm
  <2>4. \A h \in SD \ {g} : armed'[h] = {d \in Dir : wait'[h][d] # "none"}
    BY <2>1 DEF TypeOK, Pending
  <2>5. QED
    BY <2>1, <2>3, <2>4 DEF Pending
<1>8. ASSUME NEW g \in SD, NEW d \in Dir, WaitCompletes(g, d) PROVE ArmedIffPending'
  BY <1>8 DEF WaitCompletes, TypeOK, Pending
<1>9. ASSUME NEW g \in SD, NEW d \in Dir, HandlerRuns(g, d) PROVE ArmedIffPending'
  BY <1>9 DEF HandlerRuns, ClearedFlags, TypeOK, Pending
<1>10. ASSUME HandlerEnds PROVE ArmedIffPending'
  <2>1. CASE KeepsWatching(bound[cur])
    <3>1. cur \in SD
      BY <1>10 DEF HandlerEnds, TypeOK
    <3>2. PICK started \in Started(previous_action[cur], armed[cur]) :
            /\ armed' = [armed EXCEPT ![cur] =
                 FlagsAfterArm(previous_action[cur], armed[cur], started)]
            /\ wait' = [wait EXCEPT ![cur] = WaitsAfterArm(wait[cur], started)]
      BY <1>10, <2>1 DEF HandlerEnds
    <3>3. armed'[cur] = {d \in Dir : wait'[cur][d] # "none"}
      <4>1. started \in SUBSET Dir
        BY <3>1, StartedIsDirections DEF TypeOK
      <4>2. armed[cur] = {d \in Dir : wait[cur][d] # "none"}
        BY <3>1 DEF Pending
      <4>3. armed'[cur] = armed[cur] \cup started
        BY <3>1, <3>2 DEF TypeOK, FlagsAfterArm
      <4>4. \A d \in Dir : wait'[cur][d] = IF d \in started THEN "waiting" ELSE wait[cur][d]
        BY <3>1, <3>2 DEF TypeOK, WaitsAfterArm
      <4>5. QED
        BY <4>1, <4>2, <4>3, <4>4
    <3>4. \A h \in SD \ {cur} : armed'[h] = {d \in Dir : wait'[h][d] # "none"}
      BY <3>1, <3>2 DEF TypeOK, Pending
    <3>5. QED
      BY <3>1, <3>3, <3>4 DEF Pending
  <2>2. QED
    BY <1>1, <1>10, <2>1 DEF HandlerEnds
<1>11. ASSUME \/ DriveBegins \/ DriveEnds \/ ShutdownBegins \/ ShutdownEnds
              \/ UNCHANGED vars
       PROVE  ArmedIffPending'
  BY <1>1, <1>11 DEF DriveBegins, DriveEnds, ShutdownBegins, ShutdownEnds, vars
<1>12. ASSUME NEW f \in Fd, NEW what \in SUBSET Dir,
              AresOpen(f) \/ AresClose(f) \/ MissedClose(f) \/ PollWatchRefused(f, what)
       PROVE  ArmedIffPending'
  BY <1>1, <1>12 DEF AresOpen, AresClose, MissedClose, PollWatchRefused
<1>13. QED
  BY <1>3, <1>4, <1>5, <1>6, <1>7, <1>8, <1>9, <1>10, <1>11, <1>12
     DEF Next, LibcurlActs, HandlerActs, HandlerReturnsEarly, HandlerReports, Stopped

\* read_armed and write_armed are set exactly while a wait is pending, even when
\* async_wait throws or libcurl closes a descriptor without saying so.
THEOREM FlagsTellTheTruth == Spec => []ArmedIffPending
<1>1. Init => ArmedIffPending
  BY DEF Init, ArmedIffPending, Pending
<1>2. QED
  BY <1>1, TypeCorrect, NextArmedIffPending, PTL DEF Spec

-----------------------------------------------------------------------------
(* First layer: open TCP descriptors, whatever goes wrong *)

LEMMA NextTcpKept == TypeOK /\ TcpKept /\ [Next]_vars => TcpKept'
<1> SUFFICES ASSUME TypeOK, TcpKept, [Next]_vars PROVE TcpKept'
  OBVIOUS
<1> USE DEF TypeOK, TcpKept, tables, objects, external, frame
<1>1. ASSUME NEW f \in Fd, CurlOpenSocketCallback(f) PROVE TcpKept'
  BY <1>1 DEF CurlOpenSocketCallback
<1>2. ASSUME NEW f \in Fd, CurlCloseSocketCallback(f) PROVE TcpKept'
  BY <1>2 DEF CurlCloseSocketCallback, DataAfterClose
<1>3. ASSUME NEW f \in Fd, PollRemove(f) PROVE TcpKept'
  <2> DEFINE g == socket_data_map_[f]
  <2>1. CASE g = NoSD
    BY <1>3, <2>1 DEF PollRemove
  <2>2. CASE g # NoSD
    <3>1. /\ socket_data_map_' = [socket_data_map_ EXCEPT ![f] = NoSD]
          /\ is_ares_socket' = [is_ares_socket EXCEPT ![g] = FALSE]
          /\ UNCHANGED <<bound, kernel>>
      BY <1>3, <2>2 DEF PollRemove
    <3>2. socket_map_' = socket_map_ \/ (socket_map_' = socket_map_ \ {f} /\ kernel[f] # "tcp")
      BY <1>3, <2>2 DEF PollRemove, DropsSocket
    <3>3. \A h \in Fd : h # f => socket_data_map_[h] # g \/ socket_data_map_[h] = NoSD
      BY <2>2
    <3> QED
      BY <2>2, <3>1, <3>2, <3>3
  <2> QED
    BY <2>1, <2>2
<1>4. ASSUME NEW f \in Fd, NEW what \in SUBSET Dir, PollChange(f, what) PROVE TcpKept'
  BY <1>4 DEF PollChange
<1>5. ASSUME NEW f \in Fd, NEW what \in SUBSET Dir, PollWatch(f, what) PROVE TcpKept'
  <2>1. PICK g \in SD :
          /\ Fresh(g)
          /\ socket_data_map_' = [socket_data_map_ EXCEPT ![f] = g]
          /\ is_ares_socket' = [is_ares_socket EXCEPT ![g] = f \notin socket_map_]
          /\ bound' = [bound EXCEPT ![g] = f]
    BY <1>5 DEF PollWatch
  <2>2. socket_map_' = socket_map_ \cup {f} /\ UNCHANGED kernel
    BY <1>5 DEF PollWatch
  <2>3. \A h \in Fd : socket_data_map_[h] # g
    BY <2>1 DEF Fresh
  <2> QED
    BY <2>1, <2>2, <2>3
<1>6. ASSUME NEW f \in Fd, NEW what \in SUBSET Dir,
             AresOpen(f) \/ AresClose(f) \/ MissedClose(f) \/ PollWatchRefused(f, what)
      PROVE  TcpKept'
  BY <1>6 DEF AresOpen, AresClose, MissedClose, PollWatchRefused
<1>7. ASSUME NEW g \in SD, NEW d \in Dir, WaitCompletes(g, d) \/ HandlerActs(g, d)
      PROVE  TcpKept'
  BY <1>7 DEF WaitCompletes, HandlerActs, HandlerReturnsEarly, HandlerReports, HandlerRuns
<1>8. ASSUME \/ HandlerEnds \/ DriveBegins \/ DriveEnds
             \/ ShutdownBegins \/ ShutdownEnds \/ UNCHANGED vars
      PROVE  TcpKept'
  BY <1>8 DEF HandlerEnds, DriveBegins, DriveEnds, ShutdownBegins, ShutdownEnds, vars
<1> QED
  BY <1>1, <1>2, <1>3, <1>4, <1>5, <1>6, <1>7, <1>8 DEF Next, LibcurlActs, Stopped

\* Whatever goes wrong, an open TCP descriptor keeps its asio socket, whatever libcurl
\* stops and starts watching (CurlOpenSocketCallback, CurlSocketCallback).
THEOREM TcpDescriptorsStayMapped == Spec => []TcpStaysMapped
<1>1. Init => TcpKept
  BY DEF Init, TcpKept
<1>2. TcpKept => TcpStaysMapped
  BY DEF TcpKept, TcpStaysMapped
<1> QED
  BY <1>1, <1>2, TypeCorrect, NextTcpKept, PTL DEF Spec

-----------------------------------------------------------------------------
(* Second layer: who owns a descriptor, when no close is missed *)

NoneMissed == "missed_close" \notin Faults

LEMMA InitOwnersAgree == Init => OwnersAgree
BY DEF Init, OwnersAgree

LEMMA RemoveKeepsOwners ==
  ASSUME TypeOK, OwnersAgree, NEW f \in Fd, PollRemove(f)
  PROVE  OwnersAgree'
<1> USE DEF TypeOK, OwnersAgree, tables, objects, frame
<1> DEFINE g == socket_data_map_[f]
<1>1. /\ ctx # "idle" /\ curl_multi_ /\ known' = known \ {f}
      /\ UNCHANGED <<curl_multi_, bound, kernel, ctx>>
  BY DEF PollRemove, InLibcurl, Forgets
<1>2. CASE g = NoSD
  BY <1>1, <1>2 DEF PollRemove
<1>3. CASE g # NoSD
  <2>1. /\ socket_data_map_' = [socket_data_map_ EXCEPT ![f] = NoSD]
        /\ is_ares_socket' = [is_ares_socket EXCEPT ![g] = FALSE]
    BY <1>3 DEF PollRemove
  <2>2. socket_map_' = IF kernel[f] = "tcp" THEN socket_map_ ELSE socket_map_ \ {f}
    BY <1>3 DEF PollRemove, DropsSocket
  <2>3. \A h \in Fd : h # f => socket_data_map_[h] # g
    BY <1>3
  <2> QED
    BY <1>1, <1>3, <2>1, <2>2, <2>3
<1> QED
  BY <1>2, <1>3

LEMMA WatchKeepsOwners ==
  ASSUME TypeOK, OwnersAgree, NEW f \in Fd, NEW what \in SUBSET Dir, PollWatch(f, what)
  PROVE  OwnersAgree'
<1> USE DEF TypeOK, OwnersAgree, tables, objects, frame
<1>1. PICK g \in SD :
        /\ Fresh(g)
        /\ socket_data_map_' = [socket_data_map_ EXCEPT ![f] = g]
        /\ is_ares_socket' = [is_ares_socket EXCEPT ![g] = f \notin socket_map_]
        /\ bound' = [bound EXCEPT ![g] = f]
  BY DEF PollWatch
<1>2. /\ socket_map_' = socket_map_ \cup {f} /\ known' = known \cup {f}
      /\ UNCHANGED <<kernel, ctx, curl_multi_>> /\ ctx # "idle" /\ kernel[f] # "free"
      /\ socket_data_map_[f] = NoSD
  BY DEF PollWatch, Announces, CanAnnounce
<1>3. \A h \in Fd : socket_data_map_[h] # g
  BY <1>1 DEF Fresh
<1> QED
  BY <1>1, <1>2, <1>3, NoSDAssumption

LEMMA NextOwnersAgree ==
  NoneMissed /\ TypeOK /\ OwnersAgree /\ [Next]_vars => OwnersAgree'
<1> SUFFICES ASSUME NoneMissed, TypeOK, OwnersAgree, [Next]_vars PROVE OwnersAgree'
  OBVIOUS
<1> USE DEF TypeOK, OwnersAgree, tables, objects, external, frame
<1>1. ASSUME NEW f \in Fd, CurlOpenSocketCallback(f) PROVE OwnersAgree'
  BY <1>1 DEF CurlOpenSocketCallback, CanAnnounce
<1>2. ASSUME NEW f \in Fd, CurlCloseSocketCallback(f) PROVE OwnersAgree'
  BY <1>2 DEF CurlCloseSocketCallback, DataAfterClose, Forgets, InLibcurl
<1>3. ASSUME NEW f \in Fd, NEW what \in SUBSET Dir, PollChange(f, what) PROVE OwnersAgree'
  <2>1. /\ UNCHANGED <<tables, is_ares_socket, bound, kernel, ctx>>
        /\ known' = known \cup {f} /\ ctx # "idle" /\ kernel[f] # "free"
    BY <1>3 DEF PollChange, Announces, CanAnnounce
  <2> QED
    BY <2>1
<1>4. ASSUME NEW f \in Fd, NEW what \in SUBSET Dir, PollWatchRefused(f, what)
      PROVE  OwnersAgree'
  BY <1>4 DEF PollWatchRefused, Announces, CanAnnounce
<1>5. ASSUME NEW f \in Fd, AresOpen(f) \/ AresClose(f) PROVE OwnersAgree'
  BY <1>5 DEF AresOpen, AresClose, InLibcurl, CanAnnounce
<1>6. ASSUME NEW f \in Fd, MissedClose(f) PROVE FALSE
  BY <1>6 DEF MissedClose, NoneMissed
<1>7. ASSUME NEW g \in SD, NEW d \in Dir, WaitCompletes(g, d) \/ HandlerReturnsEarly(g, d)
      PROVE  OwnersAgree'
  BY <1>7 DEF WaitCompletes, HandlerReturnsEarly, HandlerRuns
<1>8. ASSUME NEW g \in SD, NEW d \in Dir, HandlerReports(g, d) PROVE OwnersAgree'
  BY <1>8 DEF HandlerReports, HandlerRuns, ReturnsEarly
<1>9. ASSUME HandlerEnds \/ DriveEnds PROVE OwnersAgree'
  BY <1>9 DEF HandlerEnds, DriveEnds, ReturnsFromLibcurl
<1>10. ASSUME DriveBegins \/ ShutdownBegins PROVE OwnersAgree'
  BY <1>10 DEF DriveBegins, ShutdownBegins
<1>11. ASSUME ShutdownEnds \/ UNCHANGED vars PROVE OwnersAgree'
  BY <1>11 DEF ShutdownEnds, ReturnsFromLibcurl, vars
<1> QED
  BY <1>1, <1>2, <1>3, <1>4, <1>5, <1>6, <1>7, <1>8, <1>9, <1>10, <1>11,
     RemoveKeepsOwners, WatchKeepsOwners DEF Next, LibcurlActs, HandlerActs, Stopped

\* The invariant behind the theorems of this layer.
THEOREM OwnersAlwaysAgree == NoneMissed => (Spec => []OwnersAgree)
<1> SUFFICES ASSUME NoneMissed PROVE Spec => []OwnersAgree
  OBVIOUS
<1>1. OwnersAgree /\ TypeOK /\ [Next]_vars => OwnersAgree'
  BY NextOwnersAgree
<1> QED
  BY <1>1, InitOwnersAgree, TypeCorrect, PTL DEF Spec

\* Unless a close is missed, no descriptor is taken for one of c-ares unless c-ares
\* opened it, nor the other way round.
THEOREM AresToldApart == NoneMissed => (Spec => []NeverMisclassified)
<1>1. TypeOK /\ OwnersAgree => NeverMisclassified
  BY DEF TypeOK, OwnersAgree, NeverMisclassified
<1> QED
  BY <1>1, TypeCorrect, OwnersAlwaysAgree, PTL

\* Unless a close is missed, no asio socket outlives its descriptor, to close somebody
\* else's number later.
THEOREM NoCorpsesRemain == NoneMissed => (Spec => []NoCorpses)
<1>1. TypeOK /\ OwnersAgree => NoCorpses
  BY DEF TypeOK, OwnersAgree, NoCorpses, InLibcurl
<1> QED
  BY <1>1, TypeCorrect, OwnersAlwaysAgree, PTL

-----------------------------------------------------------------------------
(* Third layer: what a handler holds, when every close comes after a removal *)

ClosesAnnounced == {"missed_close", "close_without_remove"} \cap Faults = {}

LEMMA NextHandlerHoldsCurrent ==
  ClosesAnnounced /\ TypeOK /\ OwnersAgree /\ HandlerHoldsCurrent /\ [Next]_vars
    => HandlerHoldsCurrent'
<1> SUFFICES ASSUME ClosesAnnounced, TypeOK, OwnersAgree, HandlerHoldsCurrent, [Next]_vars
             PROVE  HandlerHoldsCurrent'
  OBVIOUS
<1> USE DEF TypeOK, HandlerHoldsCurrent, tables, objects, external, frame
<1>1. ASSUME UNCHANGED <<socket_data_map_, removed_sockets_, bound, ctx, cur>>
      PROVE  HandlerHoldsCurrent'
  BY <1>1
<1>2. ASSUME NEW f \in Fd, CurlOpenSocketCallback(f) PROVE HandlerHoldsCurrent'
  <2>1. socket_data_map_' = socket_data_map_
    BY <1>2 DEF CurlOpenSocketCallback, OwnersAgree
  <2> QED
    BY <1>2, <2>1 DEF CurlOpenSocketCallback
<1>3. ASSUME NEW f \in Fd, CurlCloseSocketCallback(f) PROVE HandlerHoldsCurrent'
  <2>1. f \notin known
    BY <1>3 DEF CurlCloseSocketCallback, ClosesAnnounced
  <2>2. socket_data_map_' = socket_data_map_
    BY <1>3, <2>1 DEF CurlCloseSocketCallback, DataAfterClose, OwnersAgree
  <2> QED
    BY <1>3, <2>2 DEF CurlCloseSocketCallback
<1>4. ASSUME NEW f \in Fd, PollRemove(f) PROVE HandlerHoldsCurrent'
  <2>1. UNCHANGED <<bound, ctx, cur>>
    BY <1>4 DEF PollRemove
  <2>2. CASE socket_data_map_[f] = NoSD
    BY <1>4, <2>1, <2>2 DEF PollRemove
  <2>3. CASE socket_data_map_[f] # NoSD
    <3>1. /\ removed_sockets_' = removed_sockets_ \cup {f}
          /\ socket_data_map_' = [socket_data_map_ EXCEPT ![f] = NoSD]
      BY <1>4, <2>3 DEF PollRemove
    <3>2. CASE ctx = "socket" /\ bound[cur] # f
      BY <2>1, <3>1, <3>2
    <3>3. CASE ctx = "socket" /\ bound[cur] = f
      BY <2>1, <3>1, <3>3, NoSDAssumption
    <3> QED
      BY <2>1, <3>2, <3>3
  <2> QED
    BY <2>2, <2>3
<1>5. ASSUME NEW f \in Fd, NEW what \in SUBSET Dir, PollWatch(f, what)
      PROVE  HandlerHoldsCurrent'
  <2>1. PICK g \in SD : /\ Fresh(g)
                        /\ socket_data_map_' = [socket_data_map_ EXCEPT ![f] = g]
                        /\ bound' = [bound EXCEPT ![g] = f]
    BY <1>5 DEF PollWatch
  <2>2. UNCHANGED <<removed_sockets_, ctx, cur>> /\ socket_data_map_[f] = NoSD
    BY <1>5 DEF PollWatch
  <2>3. CASE ctx = "socket"
    <3>1. cur \in SD /\ cur # g
      BY <2>1, <2>3 DEF Fresh
    <3>2. bound'[cur] = bound[cur] /\ bound[cur] \in Fd
      BY <2>1, <3>1
    <3>3. socket_data_map_'[bound[cur]] = cur <=> socket_data_map_[bound[cur]] = cur
      BY <2>1, <2>2, <3>1, <3>2, NoSDAssumption
    <3> QED
      BY <2>2, <3>2, <3>3
  <2> QED
    BY <2>2, <2>3
<1>6. ASSUME NEW f \in Fd, NEW what \in SUBSET Dir,
             \/ PollChange(f, what) \/ PollWatchRefused(f, what)
             \/ AresOpen(f) \/ AresClose(f) \/ MissedClose(f)
      PROVE  HandlerHoldsCurrent'
  BY <1>1, <1>6 DEF PollChange, PollWatchRefused, AresOpen, AresClose, MissedClose
<1>7. ASSUME NEW g \in SD, NEW d \in Dir, WaitCompletes(g, d) \/ HandlerReturnsEarly(g, d)
      PROVE  HandlerHoldsCurrent'
  BY <1>1, <1>7 DEF WaitCompletes, HandlerReturnsEarly, HandlerRuns
<1>8. ASSUME NEW g \in SD, NEW d \in Dir, HandlerReports(g, d) PROVE HandlerHoldsCurrent'
  BY <1>8 DEF HandlerReports, HandlerRuns, ReturnsEarly
<1>9. ASSUME HandlerEnds \/ DriveBegins \/ DriveEnds \/ ShutdownBegins \/ ShutdownEnds
      PROVE  HandlerHoldsCurrent'
  BY <1>9 DEF HandlerEnds, DriveBegins, DriveEnds, ShutdownBegins, ShutdownEnds,
              ReturnsFromLibcurl
<1>10. ASSUME UNCHANGED vars PROVE HandlerHoldsCurrent'
  BY <1>1, <1>10 DEF vars
<1> QED
  BY <1>2, <1>3, <1>4, <1>5, <1>6, <1>7, <1>8, <1>9, <1>10
     DEF Next, LibcurlActs, HandlerActs, Stopped

\* When every close is announced, and after the removal, the handler that re-arms after
\* curl_multi_socket_action holds the current SocketData, whatever asio refuses.
THEOREM RearmIsCurrent == ClosesAnnounced => (Spec => []RearmTargetsCurrent)
<1> SUFFICES ASSUME ClosesAnnounced PROVE Spec => []RearmTargetsCurrent
  OBVIOUS
<1>1. NoneMissed
  BY DEF ClosesAnnounced, NoneMissed
<1>2. Spec => []OwnersAgree
  BY <1>1, OwnersAlwaysAgree
<1>3. Init => HandlerHoldsCurrent
  BY DEF Init, HandlerHoldsCurrent
<1>4. HandlerHoldsCurrent /\ TypeOK /\ OwnersAgree /\ [Next]_vars => HandlerHoldsCurrent'
  BY NextHandlerHoldsCurrent
<1>5. HandlerHoldsCurrent => RearmTargetsCurrent
  BY DEF HandlerHoldsCurrent, RearmTargetsCurrent, KeepsWatching
<1> QED
  BY <1>2, <1>3, <1>4, <1>5, TypeCorrect, PTL DEF Spec

-----------------------------------------------------------------------------
(* Fourth layer: the promises to libcurl, when every close of a TCP descriptor  *)
(* reaches CurlCloseSocketCallback and asio serves every wait.  ReadyInv is     *)
(* preserved by each action; one lemma for each that disturbs it.               *)

WaitsServed == {"missed_close", "wait_error", "wrap_error", "alloc_failure"} \cap Faults = {}

\* ArmWaits starts every wait it should when none of them throws.
LEMMA NothingThrows ==
  ASSUME WaitsServed, NEW act, NEW have, NEW started \in Started(act, have)
  PROVE  started = act \ have
BY DEF WaitsServed, Started, ToArm

\* What libcurl announced has a SocketData of its own, and an asio socket.
LEMMA KnownIsOwned ==
  ASSUME TypeOK, OwnersAgree, ReadyInv, NEW f \in known
  PROVE  /\ f \in Fd /\ socket_data_map_[f] \in SD
         /\ bound[socket_data_map_[f]] = f
         /\ f \in socket_map_
BY DEF TypeOK, OwnersAgree, ReadyInv, InterestRecorded

\* Aborting the waits of a descriptor disturbs no other descriptor's SocketData.
LEMMA AbortSparesOthers ==
  ASSUME TypeOK, NEW f \in Fd, NEW g \in SD, bound[g] # f
  PROVE  Aborted(f)[g] = wait[g]
BY DEF TypeOK, Aborted

LEMMA OpenKeepsReady ==
  ASSUME TypeOK, OwnersAgree, ReadyInv, NEW f \in Fd, CurlOpenSocketCallback(f)
  PROVE  ReadyInv'
<1> USE DEF TypeOK, ReadyInv, CurlOpenSocketCallback, objects, frame, tables
<1>1. f \notin socket_map_ /\ f \notin known
  BY DEF OwnersAgree
<1>2. UNCHANGED <<wait, socket_data_map_>> /\ epoll' = epoll \cup {f}
  BY <1>1 DEF RegisteredAfterOpen
<1>3. InterestRecorded' /\ CurrentWaitsAlive' /\ Covered'
  BY <1>1, <1>2 DEF InterestRecorded, CurrentWaitsAlive, Covered
<1>4. OpenIsRegistered' /\ CurrentRearms'
  BY <1>1, <1>2 DEF OpenIsRegistered, CurrentRearms
<1> QED
  BY <1>3, <1>4

LEMMA CloseKeepsReady ==
  ASSUME TypeOK, OwnersAgree, ReadyInv, NEW f \in Fd, CurlCloseSocketCallback(f)
  PROVE  ReadyInv'
<1> USE DEF TypeOK, ReadyInv, CurlCloseSocketCallback, objects, frame, Forgets, tables
<1>1. \A h \in known' : h \in known /\ h # f
  OBVIOUS
<1>2. \A h \in known' : /\ socket_data_map_'[h] = socket_data_map_[h]
                        /\ want'[h] = want[h]
                        /\ wait'[socket_data_map_[h]] = wait[socket_data_map_[h]]
  BY <1>1, KnownIsOwned, AbortSparesOthers DEF DataAfterClose
<1>3. InterestRecorded'
  BY <1>1, <1>2 DEF InterestRecorded
<1>4. CurrentWaitsAlive'
  BY <1>1, <1>2 DEF CurrentWaitsAlive
<1>5. Covered'
  BY <1>1, <1>2 DEF Covered
<1>6. OpenIsRegistered'
  BY DEF OpenIsRegistered
<1>7. CurrentRearms'
  <2>1. \A h \in Fd : socket_data_map_'[h] \in {socket_data_map_[h], NoSD}
    BY DEF DataAfterClose
  <2> QED
    BY <2>1, NoSDAssumption DEF CurrentRearms
<1> QED
  BY <1>3, <1>4, <1>5, <1>6, <1>7

LEMMA RemoveKeepsReady ==
  ASSUME TypeOK, OwnersAgree, ReadyInv, NEW f \in Fd, PollRemove(f)
  PROVE  ReadyInv'
<1> USE DEF TypeOK, ReadyInv, objects, frame, Forgets, tables
<1> DEFINE g == socket_data_map_[f]
<1>1. f \in known /\ g \in SD /\ bound[g] = f /\ f \in socket_map_ /\ g # NoSD
  BY KnownIsOwned, NoSDAssumption DEF PollRemove
<1>2. /\ known' = known \ {f}
      /\ want' = [want EXCEPT ![f] = {}]
      /\ wait' = Aborted(f)
      /\ removed_sockets_' = removed_sockets_ \cup {f}
      /\ socket_data_map_' = [socket_data_map_ EXCEPT ![f] = NoSD]
      /\ previous_action' = [previous_action EXCEPT ![g] = {}]
      /\ UNCHANGED <<bound, kernel, ctx, cur, dir, failed>>
  BY <1>1 DEF PollRemove
<1>3. \/ UNCHANGED <<socket_map_, epoll>>
      \/ socket_map_' = socket_map_ \ {f} /\ epoll' = epoll \ {f}
  BY <1>1 DEF PollRemove
<1>4. \A h \in known' : /\ h \in known
                        /\ wait'[socket_data_map_'[h]] = wait[socket_data_map_[h]]
                        /\ socket_data_map_'[h] = socket_data_map_[h]
                        /\ socket_data_map_[h] # g
  BY <1>1, <1>2, KnownIsOwned, AbortSparesOthers
<1>5. InterestRecorded'
  BY <1>1, <1>2, <1>4, KnownIsOwned DEF InterestRecorded
<1>6. CurrentWaitsAlive'
  BY <1>2, <1>4 DEF CurrentWaitsAlive
<1>7. Covered'
  BY <1>1, <1>2, <1>4 DEF Covered
<1>8. OpenIsRegistered'
  BY <1>2, <1>3 DEF OpenIsRegistered
<1>9. CurrentRearms'
  <2>1. CASE ctx = "socket" /\ bound[cur] = f
    BY <1>1, <1>2, <2>1, NoSDAssumption DEF CurrentRearms
  <2>2. CASE ctx = "socket" /\ bound[cur] # f
    BY <1>2, <2>2 DEF CurrentRearms
  <2> QED
    BY <1>2, <2>1, <2>2 DEF CurrentRearms
<1> QED
  BY <1>5, <1>6, <1>7, <1>8, <1>9

LEMMA ChangeKeepsReady ==
  ASSUME WaitsServed, TypeOK, ArmedIffPending, OwnersAgree, ReadyInv,
         NEW f \in Fd, NEW what \in SUBSET Dir, PollChange(f, what)
  PROVE  ReadyInv'
<1> USE DEF TypeOK, ReadyInv, objects, frame, tables
<1> DEFINE g == socket_data_map_[f]
<1>1. f \in known /\ g \in SD /\ bound[g] = f /\ f \in socket_map_
  BY DEF PollChange, Announces, OwnersAgree
<1>2. /\ known' = known
      /\ want' = [want EXCEPT ![f] = what]
      /\ UNCHANGED <<socket_map_, socket_data_map_, removed_sockets_, bound, epoll, kernel,
                     ctx, cur, dir, failed>>
  BY <1>1 DEF PollChange, Announces
<1>3. PICK started \in Started(what, armed[g]) :
        /\ wait' = [wait EXCEPT ![g] = WaitsAfterArm(wait[g], started)]
        /\ previous_action' = [previous_action EXCEPT ![g] =
             IF started = ToArm(what, armed[g]) /\ what # {} THEN what ELSE @]
  BY <1>1 DEF PollChange, SetSock
<1>4. started = what \ armed[g]
  BY NothingThrows
<1>5. what \subseteq previous_action'[g]
  BY <1>1, <1>3, <1>4 DEF ToArm
<1>6. \A d \in Dir : wait'[g][d] = IF d \in started THEN "waiting" ELSE wait[g][d]
  BY <1>1, <1>3 DEF WaitsAfterArm
<1>7. \A d \in what : wait'[g][d] # "none"
  BY <1>1, <1>4, <1>6 DEF ArmedIffPending, Pending
<1>8. \A h \in SD \ {g} : wait'[h] = wait[h] /\ previous_action'[h] = previous_action[h]
  BY <1>1, <1>3
<1>9. \A h \in known : h # f => socket_data_map_[h] # g /\ socket_data_map_[h] \in SD
  BY <1>1, KnownIsOwned
<1>10. InterestRecorded'
  BY <1>1, <1>2, <1>5, <1>8, <1>9 DEF InterestRecorded
<1>11. CurrentWaitsAlive'
  BY <1>1, <1>2, <1>6, <1>8, <1>9 DEF CurrentWaitsAlive
<1>12. Covered'
  BY <1>1, <1>2, <1>7, <1>8, <1>9 DEF Covered
<1>13. OpenIsRegistered' /\ CurrentRearms'
  BY <1>2 DEF OpenIsRegistered, CurrentRearms
<1> QED
  BY <1>10, <1>11, <1>12, <1>13

LEMMA WatchKeepsReady ==
  ASSUME WaitsServed, TypeOK, OwnersAgree, ReadyInv,
         NEW f \in Fd, NEW what \in SUBSET Dir, PollWatch(f, what)
  PROVE  ReadyInv'
<1> USE DEF TypeOK, ReadyInv, objects, frame, tables
<1>1. /\ f \notin known /\ kernel[f] # "free"
      /\ known' = known \cup {f}
      /\ want' = [want EXCEPT ![f] = what]
      /\ socket_map_' = socket_map_ \cup {f}
      /\ epoll' = IF f \in socket_map_ THEN epoll ELSE epoll \cup {f}
      /\ UNCHANGED <<removed_sockets_, kernel, ctx, cur, dir, failed>>
  BY DEF PollWatch, Announces, InterestRecorded
<1>2. PICK g \in SD, started \in Started(what, {}) :
        /\ Fresh(g)
        /\ socket_data_map_' = [socket_data_map_ EXCEPT ![f] = g]
        /\ bound' = [bound EXCEPT ![g] = f]
        /\ wait' = [wait EXCEPT ![g] = WaitsAfterArm([d \in Dir |-> "none"], started)]
        /\ previous_action' = [previous_action EXCEPT ![g] =
             IF started = ToArm(what, {}) THEN what ELSE {}]
  BY DEF PollWatch
<1>3. started = what
  BY NothingThrows
<1>4. previous_action'[g] = what
  BY <1>2, <1>3 DEF ToArm
<1>5. \A d \in Dir : wait'[g][d] = IF d \in what THEN "waiting" ELSE "none"
  BY <1>2, <1>3 DEF WaitsAfterArm
<1>6. socket_data_map_'[f] = g
  BY <1>2
<1>7. \A h \in known : /\ h # f /\ socket_data_map_[h] \in SD \ {g}
                       /\ socket_data_map_'[h] = socket_data_map_[h]
                       /\ want'[h] = want[h]
  BY <1>1, <1>2, KnownIsOwned DEF Fresh
<1>8. \A h \in SD \ {g} : wait'[h] = wait[h] /\ previous_action'[h] = previous_action[h]
  BY <1>2
<1>9. InterestRecorded'
  <2>1. \A h \in known : /\ socket_data_map_'[h] # NoSD
                         /\ want'[h] \subseteq previous_action'[socket_data_map_'[h]]
    BY <1>7, <1>8, NoSDAssumption DEF InterestRecorded
  <2>2. /\ socket_data_map_'[f] # NoSD
        /\ want'[f] \subseteq previous_action'[socket_data_map_'[f]]
    BY <1>1, <1>2, <1>4, <1>6, NoSDAssumption
  <2> QED
    BY <1>1, <2>1, <2>2 DEF InterestRecorded
<1>10. CurrentWaitsAlive'
  BY <1>1, <1>5, <1>6, <1>7, <1>8 DEF CurrentWaitsAlive
<1>11. Covered'
  <2>1. \A h \in known : \A d \in want'[h] :
          \/ wait'[socket_data_map_'[h]][d] # "none"
          \/ ctx' = "socket" /\ cur' = socket_data_map_'[h] /\ dir' = d
    BY <1>1, <1>7, <1>8 DEF Covered
  <2>2. \A d \in want'[f] : wait'[socket_data_map_'[f]][d] # "none"
    BY <1>1, <1>5, <1>6
  <2> QED
    BY <1>1, <2>1, <2>2 DEF Covered
<1>12. OpenIsRegistered'
  BY <1>1 DEF OpenIsRegistered
<1>13. CurrentRearms'
  <2>1. CASE ctx = "socket"
    <3>1. cur \in SD /\ cur # g
      BY <1>2, <2>1 DEF Fresh
    <3>2. bound'[cur] = bound[cur] /\ bound[cur] \in Fd
      BY <1>2, <3>1
    <3>3. socket_data_map_'[bound[cur]] = cur => socket_data_map_[bound[cur]] = cur
      BY <1>2, <3>1, <3>2
    <3> QED
      BY <1>1, <2>1, <3>2, <3>3 DEF CurrentRearms
  <2> QED
    BY <1>1, <2>1 DEF CurrentRearms
<1> QED
  BY <1>9, <1>10, <1>11, <1>12, <1>13

LEMMA ReportKeepsReady ==
  ASSUME TypeOK, OwnersAgree, ReadyInv, NEW g \in SD, NEW d \in Dir, HandlerReports(g, d)
  PROVE  ReadyInv'
<1> USE DEF TypeOK, ReadyInv, HandlerReports, HandlerRuns, external, tables
<1> DEFINE f == bound[g]
<1>1. f \in known /\ socket_data_map_[f] = g /\ failed' = FALSE
  <2>1. f \in Fd /\ socket_data_map_[f] = g
    BY DEF ReturnsEarly
  <2>2. f \in known
    BY <2>1, NoSDAssumption DEF OwnersAgree
  <2>3. wait[g][d] # "error"
    BY <2>1, <2>2 DEF CurrentWaitsAlive
  <2> QED
    BY <2>1, <2>2, <2>3
<1>2. \A h \in known : h # f => wait'[socket_data_map_[h]] = wait[socket_data_map_[h]]
  BY <1>1, KnownIsOwned
<1>3. \A e \in Dir : wait'[g][e] = IF e = d THEN "none" ELSE wait[g][e]
  OBVIOUS
<1>4. InterestRecorded' /\ OpenIsRegistered'
  BY DEF InterestRecorded, OpenIsRegistered
<1>5. CurrentWaitsAlive'
  BY <1>1, <1>2, <1>3 DEF CurrentWaitsAlive
<1>6. Covered'
  BY <1>1, <1>2, <1>3 DEF Covered
<1>7. CurrentRearms'
  BY <1>1 DEF CurrentRearms
<1> QED
  BY <1>4, <1>5, <1>6, <1>7

\* A handler that returns early was not watched by anybody.
LEMMA EarlyReturnIsStale ==
  ASSUME TypeOK, OwnersAgree, CurrentWaitsAlive, NEW g \in SD, NEW d \in Dir,
         HandlerReturnsEarly(g, d), NEW f \in known
  PROVE  socket_data_map_[f] # g
BY NoSDAssumption
   DEF HandlerReturnsEarly, ReturnsEarly, TypeOK, OwnersAgree, CurrentWaitsAlive

LEMMA EarlyReturnKeepsReady ==
  ASSUME TypeOK, OwnersAgree, ReadyInv, NEW g \in SD, NEW d \in Dir, HandlerReturnsEarly(g, d)
  PROVE  ReadyInv'
<1> USE DEF TypeOK, ReadyInv, HandlerReturnsEarly, HandlerRuns, external, frame, tables
<1>1. \A f \in known : wait'[socket_data_map_[f]] = wait[socket_data_map_[f]]
  BY EarlyReturnIsStale, KnownIsOwned
<1>2. InterestRecorded' /\ OpenIsRegistered' /\ CurrentRearms'
  BY DEF InterestRecorded, OpenIsRegistered, CurrentRearms
<1>3. CurrentWaitsAlive' /\ Covered'
  BY <1>1 DEF CurrentWaitsAlive, Covered
<1> QED
  BY <1>2, <1>3

LEMMA HandlerEndKeepsReady ==
  ASSUME WaitsServed, TypeOK, ArmedIffPending, OwnersAgree, ReadyInv, HandlerEnds
  PROVE  ReadyInv'
<1> USE DEF TypeOK, ReadyInv, external, ReturnsFromLibcurl, tables
<1> DEFINE f == bound[cur]
<1>1. /\ ctx = "socket" /\ cur \in SD /\ f \in Fd
      /\ UNCHANGED <<socket_map_, socket_data_map_, removed_sockets_, previous_action, bound,
                     epoll, kernel, known, want>>
      /\ ctx' = "idle" /\ failed' = FALSE
  BY DEF HandlerEnds
<1>2. InterestRecorded' /\ OpenIsRegistered' /\ CurrentRearms'
  BY <1>1 DEF InterestRecorded, OpenIsRegistered, CurrentRearms
<1>3. \A h \in SD \ {cur} : wait'[h] = wait[h]
  BY <1>1 DEF HandlerEnds
<1>4. CASE socket_data_map_[f] = cur
  <2>1. f \in known /\ KeepsWatching(f)
    <3>1. f \in known
      BY <1>1, <1>4, NoSDAssumption DEF OwnersAgree
    <3>2. f \in socket_map_ /\ socket_data_map_[f] # NoSD
      BY <3>1, KnownIsOwned, NoSDAssumption
    <3> QED
      BY <1>1, <1>4, <3>1, <3>2 DEF KeepsWatching, CurrentRearms
  <2>2. PICK started \in Started(previous_action[cur], armed[cur]) :
          wait' = [wait EXCEPT ![cur] = WaitsAfterArm(wait[cur], started)]
    BY <2>1 DEF HandlerEnds
  <2>3. started = previous_action[cur] \ armed[cur]
    BY NothingThrows
  <2>4. \A d \in Dir : wait'[cur][d] = IF d \in started THEN "waiting" ELSE wait[cur][d]
    BY <1>1, <2>2 DEF WaitsAfterArm
  <2>5. \A d \in previous_action[cur] : wait'[cur][d] # "none"
    BY <1>1, <2>3, <2>4 DEF ArmedIffPending, Pending
  <2>6. \A h \in known : h # f => socket_data_map_[h] \in SD \ {cur}
    BY KnownIsOwned
  <2>7. CurrentWaitsAlive'
    BY <1>1, <1>3, <1>4, <2>4, <2>6 DEF CurrentWaitsAlive
  <2>8. want[f] \subseteq previous_action[cur]
    BY <1>4, <2>1 DEF InterestRecorded
  <2>9. Covered'
    BY <1>1, <1>3, <1>4, <2>5, <2>6, <2>8 DEF Covered
  <2> QED
    BY <1>2, <2>7, <2>9
<1>5. CASE socket_data_map_[f] # cur
  <2>1. \A h \in known : socket_data_map_[h] \in SD \ {cur}
    BY <1>5, KnownIsOwned
  <2>2. \A h \in known : wait'[socket_data_map_[h]] = wait[socket_data_map_[h]]
    BY <1>3, <2>1
  <2>3. CurrentWaitsAlive' /\ Covered'
    BY <1>1, <2>1, <2>2 DEF CurrentWaitsAlive, Covered
  <2> QED
    BY <1>2, <2>3
<1> QED
  BY <1>4, <1>5

LEMMA InitReadyInv == Init => ReadyInv
<1> SUFFICES ASSUME Init PROVE ReadyInv
  OBVIOUS
<1> USE DEF Init, tables
<1>1. InterestRecorded /\ CurrentWaitsAlive /\ Covered
  BY DEF InterestRecorded, CurrentWaitsAlive, Covered
<1>2. OpenIsRegistered /\ CurrentRearms
  BY DEF OpenIsRegistered, CurrentRearms
<1> QED
  BY <1>1, <1>2 DEF ReadyInv

LEMMA NextReadyInv ==
  WaitsServed /\ TypeOK /\ ArmedIffPending /\ OwnersAgree /\ ReadyInv /\ [Next]_vars
    => ReadyInv'
<1> SUFFICES ASSUME WaitsServed, TypeOK, ArmedIffPending, OwnersAgree, ReadyInv, [Next]_vars
             PROVE  ReadyInv'
  OBVIOUS
<1> USE DEF objects, external, frame, tables
<1>1. ASSUME NEW f \in Fd, AresOpen(f) \/ AresClose(f) PROVE ReadyInv'
  <2>1. /\ UNCHANGED <<tables, objects, wait, known, want, frame>>
        /\ \A h \in Fd : kernel'[h] # "free" => \/ h = f /\ f \notin socket_map_
                                                \/ kernel[h] # "free" /\ h # f
        /\ epoll \ {f} \subseteq epoll'
    BY <1>1 DEF AresOpen, AresClose, TypeOK, OwnersAgree
  <2>2. InterestRecorded' /\ CurrentWaitsAlive' /\ Covered' /\ CurrentRearms'
    BY <2>1 DEF ReadyInv, InterestRecorded, CurrentWaitsAlive, Covered, CurrentRearms
  <2>3. OpenIsRegistered'
    BY <2>1 DEF ReadyInv, OpenIsRegistered, TypeOK
  <2> QED
    BY <2>2, <2>3 DEF ReadyInv
<1>2. ASSUME NEW g \in SD, NEW d \in Dir, WaitCompletes(g, d) PROVE ReadyInv'
  <2>1. \A h \in SD, e \in Dir :
          wait'[h][e] = wait[h][e] \/ (wait[h][e] = "waiting" /\ wait'[h][e] = "ok")
    BY <1>2 DEF WaitCompletes, WaitsServed, TypeOK
  <2>2. CurrentWaitsAlive'
    BY <1>2, <2>1, KnownIsOwned DEF WaitCompletes, ReadyInv, CurrentWaitsAlive
  <2>3. Covered'
    BY <1>2, <2>1, KnownIsOwned DEF WaitCompletes, ReadyInv, Covered, TypeOK
  <2>4. InterestRecorded' /\ OpenIsRegistered' /\ CurrentRearms'
    BY <1>2 DEF WaitCompletes, ReadyInv, InterestRecorded, OpenIsRegistered, CurrentRearms
  <2> QED
    BY <2>2, <2>3, <2>4 DEF ReadyInv
<1>3. ASSUME DriveBegins \/ DriveEnds \/ ShutdownBegins \/ ShutdownEnds PROVE ReadyInv'
  BY <1>3 DEF DriveBegins, DriveEnds, ShutdownBegins, ShutdownEnds, ReturnsFromLibcurl,
              TypeOK, ReadyInv, InterestRecorded, CurrentWaitsAlive, Covered, OpenIsRegistered,
              CurrentRearms
<1>4. ASSUME UNCHANGED vars PROVE ReadyInv'
  BY <1>4 DEF vars, ReadyInv, InterestRecorded, CurrentWaitsAlive, Covered, OpenIsRegistered,
              CurrentRearms
<1>5. ASSUME NEW f \in Fd, NEW what \in SUBSET Dir,
             MissedClose(f) \/ PollWatchRefused(f, what)
      PROVE  FALSE
  BY <1>5 DEF MissedClose, PollWatchRefused, WaitsServed
<1> QED
  BY <1>1, <1>2, <1>3, <1>4, <1>5, OpenKeepsReady, CloseKeepsReady, RemoveKeepsReady,
     ChangeKeepsReady, WatchKeepsReady, ReportKeepsReady, EarlyReturnKeepsReady,
     HandlerEndKeepsReady
     DEF Next, LibcurlActs, HandlerActs, Stopped

\* The inductive invariant behind the next theorem.
THEOREM AlwaysReady == WaitsServed => (Spec => [](OwnersAgree /\ ReadyInv))
<1> SUFFICES ASSUME WaitsServed PROVE Spec => [](OwnersAgree /\ ReadyInv)
  OBVIOUS
<1>1. Spec => []OwnersAgree
  BY OwnersAlwaysAgree DEF WaitsServed, NoneMissed
<1>2. ReadyInv /\ OwnersAgree /\ TypeOK /\ ArmedIffPending /\ [Next]_vars => ReadyInv'
  BY NextReadyInv
<1> QED
  BY <1>1, <1>2, InitReadyInv, TypeCorrect, FlagsTellTheTruth, PTL DEF Spec

LEMMA ReadyInvSuffices ==
  ASSUME TypeOK, OwnersAgree, ReadyInv
  PROVE  NoLostReadiness
<1> USE DEF TypeOK, ReadyInv
<1> SUFFICES ASSUME NEW f \in known, kernel[f] # "free", NEW d \in want[f]
             PROVE  \/ socket_data_map_[f] # NoSD /\ Live(socket_data_map_[f], d)
                    \/ RearmsNow(f, d)
  BY DEF NoLostReadiness
<1> DEFINE g == socket_data_map_[f]
<1>1. g # NoSD /\ g \in SD /\ bound[g] = f /\ d \in Dir /\ f \in epoll /\ f \in socket_map_
  BY KnownIsOwned, NoSDAssumption DEF OpenIsRegistered
<1>2. CASE wait[g][d] # "none"
  <2>1. wait[g][d] \in WaitState /\ wait[g][d] \notin {"aborted", "error"}
    BY <1>1 DEF CurrentWaitsAlive
  <2> QED
    BY <1>1, <1>2, <2>1 DEF Live, WaitState
<1>3. CASE wait[g][d] = "none"
  <2>1. ctx = "socket" /\ cur = g /\ dir = d
    BY <1>3 DEF Covered
  <2>2. KeepsWatching(f)
    BY <1>1, <2>1 DEF KeepsWatching, CurrentRearms
  <2> QED
    BY <1>1, <2>1, <2>2 DEF RearmsNow
<1> QED
  BY <1>2, <1>3

\* No readiness libcurl waits for is ever left without a wait behind it, even when a
\* descriptor is closed and its number used again under a handler that still watches it.
THEOREM ReadinessNeverLost == WaitsServed => (Spec => []NoLostReadiness)
BY TypeCorrect, AlwaysReady, ReadyInvSuffices, PTL
=============================================================================
