--------------------- MODULE ReadinessRefinement_proof ---------------------
(* CurlMultiSockets implements ReadinessContract whatever asio refuses or fails,  *)
(* unless a close is missed: asio sockets, SocketData, flags and ghosts do not    *)
(* show.                                                                          *)
EXTENDS CurlMultiSockets_proof

\* What the refinement maps to.
Watched == {f \in known : socket_data_map_[f] # NoSD}
Seen == [f \in Fd |-> SeenBy(f)]
Reporting == IF ctx = "socket" THEN {<<bound[cur], dir>>} ELSE {}

\* The waits of SocketData g that were readied.
Readied(g) == {d \in Dir : wait[g][d] \in {"ok", "error"}}

SocketsInv == TypeOK /\ ArmedIffPending /\ OwnersAgree

-----------------------------------------------------------------------------
(* What libcurl is promised, in terms of the tables *)

\* What is watched is what has a SocketData, before a step and after it.
LEMMA WatchedHasData ==
  ASSUME TypeOK, OwnersAgree
  PROVE  Watched = {f \in Fd : socket_data_map_[f] # NoSD}
BY DEF Watched, TypeOK, OwnersAgree

LEMMA WatchedWillHaveData ==
  ASSUME TypeOK', OwnersAgree'
  PROVE  Watched' = {f \in Fd : socket_data_map_'[f] # NoSD}
BY DEF Watched, TypeOK, OwnersAgree

\* What was seen of f stays the same when its SocketData and the readied waits do.
LEMMA SeenKept ==
  ASSUME NEW f \in Fd, socket_data_map_'[f] = socket_data_map_[f],
         socket_data_map_[f] # NoSD =>
           Readied(socket_data_map_[f])' = Readied(socket_data_map_[f])
  PROVE  SeenBy(f)' = SeenBy(f)
BY DEF SeenBy, Readied

\* A step that leaves the SocketData and every readied wait of one alone stutters.
LEMMA Stutters ==
  ASSUME TypeOK, OwnersAgree, TypeOK', OwnersAgree', Reporting' = Reporting,
         socket_data_map_' = socket_data_map_,
         \A f \in Fd : socket_data_map_[f] # NoSD =>
           Readied(socket_data_map_[f])' = Readied(socket_data_map_[f])
  PROVE  UNCHANGED Contract!vars
<1>1. Watched' = Watched
  BY WatchedHasData, WatchedWillHaveData
<1>2. Seen' = Seen
  BY SeenKept DEF Seen
<1> QED
  BY <1>1, <1>2 DEF Contract!vars, Watched, Seen, Reporting

\* A current SocketData, and no other descriptor's.
LEMMA CurrentIsBound ==
  ASSUME TypeOK, OwnersAgree, NEW f \in Fd, socket_data_map_[f] # NoSD
  PROVE  socket_data_map_[f] \in SD /\ bound[socket_data_map_[f]] = f
BY DEF TypeOK, OwnersAgree

\* Aborting waits leaves readied ones alone.
LEMMA AbortedKeepsReadied ==
  ASSUME TypeOK, NEW f \in Fd, wait' = Aborted(f)
  PROVE  \A g \in SD : {d \in Dir : wait'[g][d] \in {"ok", "error"}} = Readied(g)
BY DEF TypeOK, Aborted, Readied

\* Nor does arming what was not armed, whether or not it throws halfway.
LEMMA ArmingKeepsReadied ==
  ASSUME TypeOK, ArmedIffPending, NEW g \in SD, NEW act \in SUBSET Dir,
         NEW started \in Started(act, armed[g]),
         wait' = [wait EXCEPT ![g] = WaitsAfterArm(wait[g], started)]
  PROVE  \A h \in SD : {d \in Dir : wait'[h][d] \in {"ok", "error"}} = Readied(h)
<1>1. started \subseteq act \ armed[g] /\ armed[g] = Pending(g)
  BY DEF ArmedIffPending, Started, ToArm
<1>2. \A d \in started : d \in Dir /\ wait[g][d] = "none"
  BY <1>1 DEF Pending
<1>3. \A d \in Dir : wait'[g][d] = IF d \in started THEN "waiting" ELSE wait[g][d]
  BY DEF TypeOK, WaitsAfterArm
<1>4. \A d \in Dir : wait'[g][d] \in {"ok", "error"} <=> wait[g][d] \in {"ok", "error"}
  BY <1>2, <1>3
<1>5. \A h \in SD \ {g} : wait'[h] = wait[h]
  BY DEF TypeOK
<1> QED
  BY <1>4, <1>5 DEF Readied

\* What keeps every readied wait, and the SocketData, keeps what Stutters asks for.
LEMMA AllReadiedKept ==
  ASSUME TypeOK, socket_data_map_' = socket_data_map_,
         \A g \in SD : {d \in Dir : wait'[g][d] \in {"ok", "error"}} = Readied(g)
  PROVE  \A f \in Fd : socket_data_map_[f] # NoSD =>
           Readied(socket_data_map_[f])' = Readied(socket_data_map_[f])
BY DEF TypeOK, Readied

-----------------------------------------------------------------------------
(* Every step is a step of the contract, or a stutter *)

LEMMA WatchImplements ==
  ASSUME TypeOK, OwnersAgree, TypeOK', OwnersAgree',
         NEW f \in Fd, NEW what \in SUBSET Dir, PollWatch(f, what)
  PROVE  Contract!Watch(f)
<1>1. socket_data_map_[f] = NoSD /\ UNCHANGED <<ctx, cur, dir>>
  BY DEF PollWatch, frame
<1>2. PICK g \in SD, started \in Started(what, {}) :
        /\ Fresh(g)
        /\ socket_data_map_' = [socket_data_map_ EXCEPT ![f] = g]
        /\ bound' = [bound EXCEPT ![g] = f]
        /\ wait' = [wait EXCEPT ![g] = WaitsAfterArm([d \in Dir |-> "none"], started)]
  BY DEF PollWatch
<1>3. ASSUME NEW h \in Fd, h # f PROVE SeenBy(h)' = SeenBy(h)
  <2>1. socket_data_map_'[h] = socket_data_map_[h] /\ socket_data_map_[h] # g
    BY <1>2, <1>3 DEF Fresh, TypeOK
  <2>2. socket_data_map_[h] # NoSD => wait'[socket_data_map_[h]] = wait[socket_data_map_[h]]
    BY <1>2, <2>1 DEF TypeOK
  <2> QED
    BY <2>1, <2>2, SeenKept DEF Readied
<1>4. SeenBy(f)' = {} /\ SeenBy(f) = {}
  <2>1. socket_data_map_'[f] = g
    BY <1>2 DEF TypeOK
  <2>2. \A d \in Dir : wait'[g][d] \notin {"ok", "error"}
    BY <1>2 DEF TypeOK, WaitsAfterArm
  <2> QED
    BY <1>1, <2>1, <2>2 DEF SeenBy
<1>5. Seen' = Seen
  <2>1. ASSUME NEW h \in Fd PROVE SeenBy(h)' = SeenBy(h)
    BY <1>3, <1>4
  <2> QED
    BY <2>1 DEF Seen
<1>6. Reporting' = Reporting
  BY <1>1, <1>2 DEF Reporting, Fresh, TypeOK
<1>7. f \notin Watched /\ Watched' = Watched \cup {f}
  <2>1. \A h \in Fd : socket_data_map_'[h] # NoSD <=> socket_data_map_[h] # NoSD \/ h = f
    BY <1>2, NoSDAssumption DEF TypeOK
  <2>2. /\ Watched = {h \in Fd : socket_data_map_[h] # NoSD}
        /\ Watched' = {h \in Fd : socket_data_map_'[h] # NoSD}
    BY WatchedHasData, WatchedWillHaveData
  <2> QED
    BY <1>1, <2>1, <2>2
<1> QED
  BY <1>5, <1>6, <1>7 DEF Contract!Watch, Watched, Seen, Reporting

\* Dropping the SocketData of f and aborting its waits ends the watch.
LEMMA DropImplements ==
  ASSUME TypeOK, OwnersAgree, TypeOK', OwnersAgree', NEW f \in Fd,
         socket_data_map_[f] # NoSD,
         socket_data_map_' = [socket_data_map_ EXCEPT ![f] = NoSD],
         wait' = Aborted(f), UNCHANGED <<ctx, cur, dir, bound>>
  PROVE  Contract!Unwatch(f)
<1>1. ASSUME NEW h \in Fd, h # f PROVE SeenBy(h)' = SeenBy(h)
  <2>1. socket_data_map_'[h] = socket_data_map_[h]
    BY <1>1 DEF TypeOK
  <2>2. socket_data_map_[h] # NoSD => socket_data_map_[h] \in SD
    BY CurrentIsBound
  <2>3. socket_data_map_[h] # NoSD =>
          Readied(socket_data_map_[h])' = Readied(socket_data_map_[h])
    BY <2>1, <2>2, AbortedKeepsReadied DEF Readied
  <2> QED
    BY <2>1, <2>3, SeenKept
<1>2. SeenBy(f)' = {}
  BY DEF SeenBy, TypeOK
<1>3. Seen' = [Seen EXCEPT ![f] = {}]
  BY <1>1, <1>2 DEF Seen
<1>4. Reporting' = Reporting
  BY DEF Reporting
<1>5. f \in Watched /\ Watched' = Watched \ {f}
  BY WatchedHasData, WatchedWillHaveData DEF TypeOK
<1> QED
  BY <1>3, <1>4, <1>5 DEF Contract!Unwatch, Watched, Seen, Reporting

\* Nothing is seen of f to drop.
LEMMA NothingToDrop ==
  ASSUME TypeOK, OwnersAgree, TypeOK', OwnersAgree', NEW f \in Fd,
         socket_data_map_' = socket_data_map_,
         wait' = wait \/ wait' = Aborted(f), UNCHANGED <<ctx, cur, dir, bound>>
  PROVE  UNCHANGED Contract!vars
<1>1. \A g \in SD : {d \in Dir : wait'[g][d] \in {"ok", "error"}} = Readied(g)
  BY AbortedKeepsReadied DEF Readied
<1>2. Reporting' = Reporting
  BY DEF Reporting
<1> QED
  BY <1>1, <1>2, AllReadiedKept, Stutters

LEMMA RemoveImplements ==
  ASSUME TypeOK, OwnersAgree, TypeOK', OwnersAgree', NEW f \in Fd, PollRemove(f)
  PROVE  Contract!Unwatch(f) \/ UNCHANGED Contract!vars
<1>1. UNCHANGED <<ctx, cur, dir, bound>>
  BY DEF PollRemove, frame
<1>2. CASE socket_data_map_[f] = NoSD
  <2>1. UNCHANGED <<socket_data_map_, wait>>
    BY <1>2 DEF PollRemove
  <2> QED
    BY <1>1, <2>1, NothingToDrop
<1>3. CASE socket_data_map_[f] # NoSD
  <2>1. f \in socket_map_
    BY <1>3 DEF OwnersAgree
  <2>2. wait' = Aborted(f) /\ socket_data_map_' = [socket_data_map_ EXCEPT ![f] = NoSD]
    BY <1>3, <2>1 DEF PollRemove
  <2> QED
    BY <1>1, <1>3, <2>2, DropImplements
<1> QED
  BY <1>2, <1>3

\* A close with no removal before it ends the watch; after one it does not show.
LEMMA CloseImplements ==
  ASSUME TypeOK, OwnersAgree, TypeOK', OwnersAgree', NEW f \in Fd, CurlCloseSocketCallback(f)
  PROVE  Contract!Unwatch(f) \/ UNCHANGED Contract!vars
<1>1. /\ UNCHANGED <<ctx, cur, dir, bound>>
      /\ wait' = Aborted(f) /\ socket_data_map_' = [socket_data_map_ EXCEPT ![f] = NoSD]
  BY DEF CurlCloseSocketCallback, DataAfterClose, objects, frame
<1>2. CASE socket_data_map_[f] = NoSD
  <2>1. socket_data_map_' = socket_data_map_
    BY <1>1, <1>2 DEF TypeOK
  <2> QED
    BY <1>1, <2>1, NothingToDrop
<1>3. CASE socket_data_map_[f] # NoSD
  BY <1>1, <1>3, DropImplements
<1> QED
  BY <1>2, <1>3

LEMMA OpenStutters ==
  ASSUME TypeOK, OwnersAgree, TypeOK', OwnersAgree', NEW f \in Fd, CurlOpenSocketCallback(f)
  PROVE  UNCHANGED Contract!vars
<1>1. socket_data_map_' = socket_data_map_
  BY DEF CurlOpenSocketCallback, OwnersAgree, TypeOK
<1>2. UNCHANGED <<ctx, cur, dir, bound>> /\ (wait' = wait \/ wait' = Aborted(f))
  BY DEF CurlOpenSocketCallback, objects, frame
<1> QED
  BY <1>1, <1>2, NothingToDrop

\* What does not touch SocketData, waits and the frame.
LEMMA OthersStutter ==
  ASSUME TypeOK, OwnersAgree, TypeOK', OwnersAgree', NEW f \in Fd, NEW what \in SUBSET Dir,
         PollWatchRefused(f, what) \/ AresOpen(f) \/ AresClose(f)
  PROVE  UNCHANGED Contract!vars
<1>1. UNCHANGED <<socket_data_map_, wait, ctx, cur, dir, bound>>
  BY DEF PollWatchRefused, AresOpen, AresClose, tables, objects, frame
<1> QED
  BY <1>1, NothingToDrop

LEMMA ChangeStutters ==
  ASSUME SocketsInv, TypeOK', OwnersAgree',
         NEW f \in Fd, NEW what \in SUBSET Dir, PollChange(f, what)
  PROVE  UNCHANGED Contract!vars
<1> DEFINE g == socket_data_map_[f]
<1>1. f \in socket_map_ /\ g \in SD /\ UNCHANGED <<socket_data_map_, ctx, cur, dir, bound>>
  BY DEF PollChange, SocketsInv, OwnersAgree, TypeOK, tables, frame
<1>2. PICK started \in Started(what, armed[g]) :
        wait' = [wait EXCEPT ![g] = WaitsAfterArm(wait[g], started)]
  BY <1>1 DEF PollChange, SetSock
<1>3. \A h \in SD : {d \in Dir : wait'[h][d] \in {"ok", "error"}} = Readied(h)
  BY <1>1, <1>2, ArmingKeepsReadied DEF SocketsInv
<1>4. Reporting' = Reporting
  BY <1>1 DEF Reporting
<1> QED
  BY <1>1, <1>3, <1>4, AllReadiedKept, Stutters DEF SocketsInv

\* Only what was seen of f changed.
LEMMA SeenOfOneChanges ==
  ASSUME NEW f \in Fd, NEW now, SeenBy(f)' = now,
         \A h \in Fd : h # f => SeenBy(h)' = SeenBy(h)
  PROVE  Seen' = [Seen EXCEPT ![f] = now] /\ Seen[f] = SeenBy(f)
BY DEF Seen

\* A wait of what is watched becomes ready, or one nobody watches any more.
LEMMA CompletionImplements ==
  ASSUME TypeOK, OwnersAgree, TypeOK', OwnersAgree',
         NEW g \in SD, NEW d \in Dir, WaitCompletes(g, d)
  PROVE  Contract!BecomesReady(bound[g], d) \/ UNCHANGED Contract!vars
<1>0. PICK f \in Fd : f = bound[g]
  BY DEF TypeOK
<1>1. UNCHANGED <<socket_data_map_, ctx, cur, dir, bound>>
  BY DEF WaitCompletes, tables, objects, frame
<1>2. PICK s \in {"ok", "error"} : wait' = [wait EXCEPT ![g][d] = s]
  BY DEF WaitCompletes
<1>3. Reporting' = Reporting
  BY <1>1 DEF Reporting
<1>4. ASSUME NEW h \in Fd, socket_data_map_[h] # NoSD, socket_data_map_[h] # g
      PROVE  Readied(socket_data_map_[h])' = Readied(socket_data_map_[h])
  BY <1>1, <1>2, <1>4, CurrentIsBound DEF Readied, TypeOK
<1>5. CASE socket_data_map_[f] = g
  <2>1. \A h \in Fd : h # f => socket_data_map_[h] # g
    BY <1>0, CurrentIsBound, NoSDAssumption
  <2>2. Readied(g)' = Readied(g) \cup {d}
    BY <1>2 DEF Readied, TypeOK
  <2>3. Seen' = [Seen EXCEPT ![f] = @ \cup {d}]
    <3>1. ASSUME NEW h \in Fd, h # f PROVE SeenBy(h)' = SeenBy(h)
      BY <1>1, <1>4, <2>1, <3>1, SeenKept
    <3>2. SeenBy(f)' = SeenBy(f) \cup {d}
      BY <1>1, <1>5, <2>2, NoSDAssumption DEF SeenBy, Readied
    <3>3. Seen' = [Seen EXCEPT ![f] = SeenBy(f) \cup {d}] /\ Seen[f] = SeenBy(f)
      BY <3>1, <3>2, SeenOfOneChanges
    <3> QED
      BY ONLY <3>3
  <2>4. f \in Watched /\ Watched' = Watched
    BY <1>1, <1>5, NoSDAssumption, WatchedHasData, WatchedWillHaveData
  <2>5. Contract!BecomesReady(f, d)
    BY <1>3, <2>3, <2>4 DEF Contract!BecomesReady, Watched, Seen, Reporting
  <2> QED
    BY <1>0, <2>5
<1>6. CASE socket_data_map_[f] # g
  <2>1. \A h \in Fd : socket_data_map_[h] # g
    BY <1>0, <1>6, CurrentIsBound, NoSDAssumption
  <2> QED
    BY <1>1, <1>3, <1>4, <2>1, Stutters
<1> QED
  BY <1>5, <1>6

LEMMA ReportImplements ==
  ASSUME TypeOK, OwnersAgree, TypeOK', OwnersAgree',
         NEW g \in SD, NEW d \in Dir, HandlerReports(g, d)
  PROVE  bound[g] \in Fd /\ Contract!Report(bound[g], d)
<1>0. PICK f \in Fd : f = bound[g]
  BY DEF TypeOK
<1>1. /\ ctx = "idle" /\ ctx' = "socket" /\ cur' = g /\ dir' = d
      /\ wait' = [wait EXCEPT ![g][d] = "none"]
      /\ UNCHANGED <<socket_data_map_, bound>>
  BY DEF HandlerReports, HandlerRuns
<1>2. socket_data_map_[f] = g /\ wait[g][d] \in {"ok", "error"}
  BY <1>0 DEF HandlerReports, HandlerRuns, ReturnsEarly
<1>3. \A h \in Fd : h # f => socket_data_map_[h] # g
  BY <1>0, CurrentIsBound, NoSDAssumption
<1>4. ASSUME NEW h \in Fd, h # f PROVE SeenBy(h)' = SeenBy(h)
  <2>1. socket_data_map_[h] # NoSD => wait'[socket_data_map_[h]] = wait[socket_data_map_[h]]
    BY <1>1, <1>3, <1>4, CurrentIsBound DEF TypeOK
  <2> QED
    BY <1>1, <2>1, SeenKept DEF Readied
<1>5. SeenBy(f)' = SeenBy(f) \ {d}
  <2>1. Readied(g)' = Readied(g) \ {d}
    BY <1>1 DEF Readied, TypeOK
  <2> QED
    BY <1>1, <1>2, <2>1, NoSDAssumption DEF SeenBy, Readied
<1>6. Seen' = [Seen EXCEPT ![f] = @ \ {d}]
  <2>1. Seen' = [Seen EXCEPT ![f] = SeenBy(f) \ {d}] /\ Seen[f] = SeenBy(f)
    BY <1>4, <1>5, SeenOfOneChanges
  <2> QED
    BY ONLY <2>1
<1>7. f \in Watched /\ d \in Seen[f] /\ Watched' = Watched
  BY <1>1, <1>2, NoSDAssumption, WatchedHasData, WatchedWillHaveData DEF Seen, SeenBy
<1>8. Reporting = {} /\ Reporting' = {<<f, d>>}
  BY <1>0, <1>1 DEF Reporting
<1> QED
  BY <1>0, <1>6, <1>7, <1>8 DEF Contract!Report, Watched, Seen, Reporting

LEMMA EarlyReturnStutters ==
  ASSUME TypeOK, OwnersAgree, TypeOK', OwnersAgree',
         NEW g \in SD, NEW d \in Dir, HandlerReturnsEarly(g, d)
  PROVE  UNCHANGED Contract!vars
<1>1. /\ wait' = [wait EXCEPT ![g][d] = "none"]
      /\ UNCHANGED <<socket_data_map_, ctx, cur, dir, bound>>
  BY DEF HandlerReturnsEarly, HandlerRuns, frame
<1>2. ASSUME NEW f \in Fd, socket_data_map_[f] = g PROVE wait[g][d] = "aborted"
  BY <1>2, NoSDAssumption DEF HandlerReturnsEarly, ReturnsEarly, TypeOK, OwnersAgree
<1>3. ASSUME NEW f \in Fd, socket_data_map_[f] # NoSD
      PROVE  Readied(socket_data_map_[f])' = Readied(socket_data_map_[f])
  <2> DEFINE h == socket_data_map_[f]
  <2>1. h \in SD /\ socket_data_map_'[f] = h
    BY <1>1, <1>3, CurrentIsBound
  <2>2. \A e \in Dir : wait'[h][e] \in {"ok", "error"} <=> wait[h][e] \in {"ok", "error"}
    BY <1>1, <1>2, <2>1 DEF TypeOK
  <2> QED
    BY <2>1, <2>2 DEF Readied
<1>4. Reporting' = Reporting
  BY <1>1 DEF Reporting
<1> QED
  BY <1>1, <1>3, <1>4, Stutters

\* The re-arm may arm a SocketData that is not current any more: that does not show.
LEMMA HandlerEndImplements ==
  ASSUME SocketsInv, TypeOK', OwnersAgree', HandlerEnds
  PROVE  Contract!ReportReturns
<1>1. /\ ctx = "socket" /\ ctx' = "idle" /\ cur \in SD
      /\ UNCHANGED <<socket_data_map_, bound>>
  BY DEF HandlerEnds, ReturnsFromLibcurl, SocketsInv, TypeOK, tables
<1>2. \A h \in SD : {d \in Dir : wait'[h][d] \in {"ok", "error"}} = Readied(h)
  <2>1. CASE KeepsWatching(bound[cur])
    <3>1. PICK started \in Started(previous_action[cur], armed[cur]) :
            wait' = [wait EXCEPT ![cur] = WaitsAfterArm(wait[cur], started)]
      BY <2>1 DEF HandlerEnds
    <3>2. previous_action[cur] \in SUBSET Dir
      BY <1>1 DEF SocketsInv, TypeOK
    <3> QED
      BY <1>1, <3>1, <3>2, ArmingKeepsReadied DEF SocketsInv
  <2>2. CASE ~KeepsWatching(bound[cur])
    BY <2>2 DEF HandlerEnds, Readied
  <2> QED
    BY <2>1, <2>2
<1>3. ASSUME NEW h \in Fd PROVE SeenBy(h)' = SeenBy(h)
  BY <1>1, <1>2, <1>3, AllReadiedKept, SeenKept DEF SocketsInv
<1>4. Seen' = Seen
  BY <1>3 DEF Seen
<1>5. Watched' = Watched
  BY <1>1, WatchedHasData, WatchedWillHaveData DEF SocketsInv
<1>6. Reporting # {} /\ Reporting' = {}
  BY <1>1 DEF Reporting
<1> QED
  BY <1>4, <1>5, <1>6 DEF Contract!ReportReturns, Watched, Seen, Reporting

\* Entering and leaving libcurl other than by a handler.
LEMMA CallsStutter ==
  ASSUME TypeOK, OwnersAgree, TypeOK', OwnersAgree',
         DriveBegins \/ DriveEnds \/ ShutdownBegins \/ ShutdownEnds \/ UNCHANGED vars
  PROVE  UNCHANGED Contract!vars
<1>1. UNCHANGED <<socket_data_map_, wait, bound>>
  BY DEF DriveBegins, DriveEnds, ShutdownBegins, ShutdownEnds, vars, tables, objects
<1>2. Reporting' = Reporting
  <2>1. CASE UNCHANGED vars
    BY <2>1 DEF vars, frame, objects, Reporting
  <2>2. CASE DriveBegins \/ DriveEnds \/ ShutdownBegins \/ ShutdownEnds
    <3>1. ctx # "socket" /\ ctx' # "socket"
      BY <2>2 DEF DriveBegins, DriveEnds, ShutdownBegins, ShutdownEnds, ReturnsFromLibcurl
    <3> QED
      BY <3>1 DEF Reporting
  <2> QED
    BY <2>1, <2>2
<1>3. \A f \in Fd : Readied(socket_data_map_[f])' = Readied(socket_data_map_[f])
  BY <1>1 DEF Readied
<1> QED
  BY <1>1, <1>2, <1>3, Stutters

LEMMA StepImplementsReadiness ==
  ASSUME NoneMissed, SocketsInv, TypeOK', OwnersAgree', [Next]_vars
  PROVE  [Contract!Next]_(Contract!vars)
<1>0. TypeOK /\ OwnersAgree
  BY DEF SocketsInv
<1>1. ASSUME NEW f \in Fd, LibcurlActs(f) PROVE [Contract!Next]_(Contract!vars)
  <2>1. CASE CurlOpenSocketCallback(f)
    BY <1>0, <2>1, OpenStutters
  <2>2. CASE PollRemove(f)
    BY <1>0, <2>2, RemoveImplements DEF Contract!Next
  <2>3. CASE CurlCloseSocketCallback(f)
    BY <1>0, <2>3, CloseImplements DEF Contract!Next
  <2>4. ASSUME NEW what \in SUBSET Dir, PollChange(f, what)
        PROVE  [Contract!Next]_(Contract!vars)
    BY <1>0, <2>4, ChangeStutters
  <2>5. ASSUME NEW what \in SUBSET Dir, PollWatch(f, what)
        PROVE  [Contract!Next]_(Contract!vars)
    BY <1>0, <2>5, WatchImplements DEF Contract!Next
  <2>6. ASSUME NEW what \in SUBSET Dir,
               PollWatchRefused(f, what) \/ AresOpen(f) \/ AresClose(f)
        PROVE  [Contract!Next]_(Contract!vars)
    BY <1>0, <2>6, OthersStutter
  <2>7. CASE MissedClose(f)
    BY <2>7 DEF MissedClose, NoneMissed
  <2> QED
    BY <1>1, <2>1, <2>2, <2>3, <2>4, <2>5, <2>6, <2>7 DEF LibcurlActs
<1>2. ASSUME NEW g \in SD, NEW d \in Dir, WaitCompletes(g, d)
      PROVE  [Contract!Next]_(Contract!vars)
  <2>1. bound[g] \in Fd
    BY <1>0 DEF TypeOK
  <2> QED
    BY <1>0, <1>2, <2>1, CompletionImplements DEF Contract!Next
<1>3. ASSUME NEW g \in SD, NEW d \in Dir, HandlerActs(g, d)
      PROVE  [Contract!Next]_(Contract!vars)
  <2>1. CASE HandlerReports(g, d)
    BY <1>0, <2>1, ReportImplements DEF Contract!Next
  <2>2. CASE HandlerReturnsEarly(g, d)
    BY <1>0, <2>2, EarlyReturnStutters
  <2> QED
    BY <1>3, <2>1, <2>2 DEF HandlerActs
<1>4. CASE HandlerEnds
  BY <1>4, HandlerEndImplements DEF Contract!Next
<1>5. CASE DriveBegins \/ DriveEnds \/ ShutdownBegins \/ ShutdownEnds \/ UNCHANGED vars
  BY <1>0, <1>5, CallsStutter
<1> QED
  BY <1>1, <1>2, <1>3, <1>4, <1>5 DEF Next, Stopped

\* Whatever libcurl announces, removes, closes and reopens, whatever asio refuses or
\* fails, and however the reactor and the handlers interleave with it, readiness is
\* reported once and never to a later watch, unless a descriptor is closed with no
\* callback (CurlSocketCallback, ArmWaits, AsioSocketActionCallback).
THEOREM ReadinessImplemented == NoneMissed => (Spec => ImplementsContract)
<1> SUFFICES ASSUME NoneMissed PROVE Spec => ImplementsContract
  OBVIOUS
<1>1. Init => Contract!Init
  BY DEF Init, Contract!Init, SeenBy
<1>2. SocketsInv /\ TypeOK' /\ OwnersAgree' /\ [Next]_vars => [Contract!Next]_(Contract!vars)
  BY StepImplementsReadiness
<1>3. Spec => []OwnersAgree
  BY OwnersAlwaysAgree
<1>4. Spec => []SocketsInv
  BY <1>3, TypeCorrect, FlagsTellTheTruth, PTL DEF SocketsInv
<1> QED
  BY <1>1, <1>2, <1>3, <1>4, TypeCorrect, PTL
  DEF Spec, ImplementsContract, Contract!Spec
=============================================================================
