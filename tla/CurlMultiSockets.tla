-------------------------- MODULE CurlMultiSockets --------------------------
(***************************************************************************)
(* The socket half of CurlMulti (curl_multi_class.cc): how the interest    *)
(* libcurl declares in a descriptor becomes one-shot asio waits, and how a *)
(* wait that completes is reported back to libcurl and armed again.        *)
(*                                                                         *)
(* Everything runs on the game thread.  `ctx' says what that thread is     *)
(* inside of, because libcurl calls the callbacks of this class, in any    *)
(* order and on any descriptor, from within every call made to it:         *)
(*                                                                         *)
(*   idle      in no libcurl call; the next queued handler may run         *)
(*   driving   in libcurl for a timeout, a posted task or a native         *)
(*   socket    in AsioSocketActionCallback, between removed_sockets_.clear *)
(*             and the re-arm; `cur', `dir' and `failed' are its arguments *)
(*   cleanup   in Shutdown's curl_multi_cleanup                            *)
(*                                                                         *)
(* libcurl, c-ares, the kernel and asio's reactor are external.  They are  *)
(* modelled by the contract the code relies on; what the code handles      *)
(* beyond that contract is a fault, allowed by the constant Faults.        *)
(***************************************************************************)
EXTENDS FiniteSets

CONSTANTS
  Fd,       (* descriptor numbers; the kernel hands a closed number out again *)
  SD,       (* identities of SocketData objects; bounds those alive at once   *)
  NoSD,     (* a null SocketDataPtr                                           *)
  Faults    (* what happens beyond the contract of libcurl and asio           *)

FaultKinds ==
  {"missed_close",         (* a descriptor closed with no callback at all     *)
   "close_without_remove", (* the close callback with no CURL_POLL_REMOVE     *)
   "wait_error",           (* a wait that completes with an error             *)
   "wrap_error",           (* asio refuses to register a descriptor           *)
   "alloc_failure"}        (* async_wait throws bad_alloc                     *)

ASSUME NoSDAssumption == NoSD \notin SD
ASSUME FaultsAssumption == Faults \subseteq FaultKinds

Dir == {"in", "out"}     (* CURL_POLL_IN, CURL_POLL_OUT; {} is CURL_POLL_NONE *)

VARIABLES
  curl_multi_,        (* is the CURLM* non-null?                              *)
  socket_map_,        (* the descriptors that have an asio socket             *)
  socket_data_map_,   (* the current SocketData of each descriptor            *)
  removed_sockets_,   (* removed since the last socket action began           *)
  is_ares_socket,     (* the fields of each SocketData ...                    *)
  previous_action,
  armed,              (* ... read_armed and write_armed, as a set             *)
  bound,              (* ... and the descriptor it was made for               *)
  wait,               (* asio: the pending wait of a SocketData, per direction*)
  epoll,              (* asio: the descriptors registered with epoll          *)
  kernel,             (* who has the descriptor open: nobody, libcurl, c-ares *)
  known, want,        (* libcurl: the descriptors it announced, and for what  *)
  ctx, cur, dir, failed

tables == <<curl_multi_, socket_map_, socket_data_map_, removed_sockets_>>
objects == <<is_ares_socket, previous_action, armed, bound>>
external == <<kernel, known, want>>
frame == <<ctx, cur, dir, failed>>
vars == <<tables, objects, wait, epoll, external, frame>>

WaitState == {"none", "waiting", "ok", "aborted", "error"}

TypeOK ==
  /\ curl_multi_ \in BOOLEAN
  /\ socket_map_ \subseteq Fd
  /\ socket_data_map_ \in [Fd -> SD \cup {NoSD}]
  /\ removed_sockets_ \subseteq Fd
  /\ is_ares_socket \in [SD -> BOOLEAN]
  /\ previous_action \in [SD -> SUBSET Dir]
  /\ armed \in [SD -> SUBSET Dir]
  /\ bound \in [SD -> Fd]
  /\ wait \in [SD -> [Dir -> WaitState]]
  /\ epoll \subseteq Fd
  /\ kernel \in [Fd -> {"free", "tcp", "ares"}]
  /\ known \subseteq Fd
  /\ want \in [Fd -> SUBSET Dir]
  /\ ctx \in {"idle", "driving", "socket", "cleanup"}
  /\ cur \in SD \cup {NoSD}
  /\ dir \in Dir
  /\ failed \in BOOLEAN
  /\ ctx = "socket" <=> cur # NoSD

Init ==
  /\ curl_multi_ = TRUE
  /\ socket_map_ = {}
  /\ socket_data_map_ = [f \in Fd |-> NoSD]
  /\ removed_sockets_ = {}
  /\ is_ares_socket = [g \in SD |-> FALSE]
  /\ previous_action = [g \in SD |-> {}]
  /\ armed = [g \in SD |-> {}]
  /\ bound \in [SD -> Fd] /\ \A g, h \in SD : bound[g] = bound[h]
  /\ wait = [g \in SD |-> [d \in Dir |-> "none"]]
  /\ epoll = {}
  /\ kernel = [f \in Fd |-> "free"]
  /\ known = {}
  /\ want = [f \in Fd |-> {}]
  /\ ctx = "idle" /\ cur = NoSD /\ dir = "in" /\ failed = FALSE

-----------------------------------------------------------------------------
(* asio: the waits of a socket, and of a SocketData *)

Pending(g) == {d \in Dir : wait[g][d] # "none"}

\* Cancelling, releasing or destroying the socket of descriptor f aborts the
\* waits still in the reactor.  A completion already queued is not recalled.
Aborted(f) ==
  [g \in SD |-> [d \in Dir |->
     IF bound[g] = f /\ wait[g][d] = "waiting" THEN "aborted" ELSE wait[g][d]]]

\* Nobody points to g any more, so that make_shared may hand it out.
Fresh(g) ==
  /\ \A f \in Fd : socket_data_map_[f] # g
  /\ Pending(g) = {}
  /\ g # cur

-----------------------------------------------------------------------------
(* ArmWaits and its two callers *)

\* The directions ArmWaits starts a wait for.  Each start may throw; the read
\* side goes first, and a throw leaves the function.
ToArm(act, have) == act \ have
Started(act, have) ==
  {ToArm(act, have)} \cup
    (IF "alloc_failure" \in Faults THEN {{}, ToArm(act, have) \cap {"in"}} ELSE {})

\* Mutant: the flags set before async_wait, which may throw.
FlagsSetFirst(act, have, started) == have \cup act

\* What a SocketData's flags become: set after the wait was started, never before.
FlagsAfterArm(act, have, started) == have \cup started

WaitsAfterArm(w, started) == [d \in Dir |-> IF d \in started THEN "waiting" ELSE w[d]]

-----------------------------------------------------------------------------
(* Callbacks libcurl makes from inside a call *)

InLibcurl == ctx # "idle"
CanAnnounce == ctx \in {"driving", "socket"}

\* libcurl drops f from its table of announced descriptors.
Forgets(f) ==
  /\ known' = known \ {f}
  /\ want' = [want EXCEPT ![f] = {}]

\* Which entries a release() of a stale socket leaves registered: it removes the
\* descriptor NUMBER from the epoll set, whoever that number belongs to by now.
RegisteredAfterOpen(f) == IF f \in socket_map_ THEN epoll \ {f} ELSE epoll \cup {f}

\* CurlOpenSocketCallback for a descriptor number the kernel has just handed out.
\* A refused purpose, family or open() changes nothing here.
CurlOpenSocketCallback(f) ==
  /\ CanAnnounce
  /\ kernel[f] = "free" /\ f \notin known
  /\ kernel' = [kernel EXCEPT ![f] = "tcp"]
  /\ wait' = IF f \in socket_map_ THEN Aborted(f) ELSE wait
  /\ socket_data_map_' =
       IF f \in socket_map_ THEN [socket_data_map_ EXCEPT ![f] = NoSD]
       ELSE socket_data_map_
  /\ socket_map_' = socket_map_ \cup {f}
  /\ epoll' = RegisteredAfterOpen(f)
  /\ UNCHANGED <<curl_multi_, removed_sockets_, objects, known, want, frame>>

\* Mutant: the close callback leaves the SocketData behind.
DataOutlivesClose(f) == socket_data_map_

\* The SocketData that survive the close of f: none.
DataAfterClose(f) == [socket_data_map_ EXCEPT ![f] = NoSD]

\* CurlCloseSocketCallback: erasing the asio socket closes the descriptor.
CurlCloseSocketCallback(f) ==
  /\ InLibcurl
  /\ kernel[f] = "tcp"
  /\ f \notin known \/ "close_without_remove" \in Faults
  /\ kernel' = [kernel EXCEPT ![f] = "free"]
  /\ Forgets(f)
  /\ socket_map_' = socket_map_ \ {f}
  /\ epoll' = epoll \ {f}
  /\ wait' = Aborted(f)
  /\ socket_data_map_' = DataAfterClose(f)
  /\ UNCHANGED <<curl_multi_, removed_sockets_, objects, frame>>

\* Mutants: CURL_POLL_REMOVE destroys every asio socket, or keeps even those of c-ares.
DropsEverySocket(g) == TRUE
DropsNoSocket(g) == FALSE

\* CURL_POLL_REMOVE of f drops its asio socket only when c-ares owns the descriptor.
DropsSocket(g) == is_ares_socket[g]

\* CurlSocketCallback(CURL_POLL_REMOVE): stop watching f.  The connection of a
\* TCP socket stays open, for reuse.  Handlers may still hold the SocketData, but f
\* is in removed_sockets_ while one that could re-arm is running: no field of it but
\* the flags is read again, and the others are blanked to keep the states few.
PollRemove(f) ==
  /\ InLibcurl
  /\ f \in known
  /\ Forgets(f)
  /\ LET g == socket_data_map_[f] IN
       IF g # NoSD
       THEN /\ IF f \in socket_map_ /\ DropsSocket(g)
               THEN /\ socket_map_' = socket_map_ \ {f}
                    /\ epoll' = epoll \ {f}
               ELSE UNCHANGED <<socket_map_, epoll>>
            /\ wait' = IF f \in socket_map_ THEN Aborted(f) ELSE wait
            /\ removed_sockets_' = removed_sockets_ \cup {f}
            /\ socket_data_map_' = [socket_data_map_ EXCEPT ![f] = NoSD]
            /\ previous_action' = [previous_action EXCEPT ![g] = {}]
            /\ is_ares_socket' = [is_ares_socket EXCEPT ![g] = FALSE]
       ELSE UNCHANGED <<socket_map_, epoll, wait, removed_sockets_, socket_data_map_,
                        previous_action, is_ares_socket>>
  /\ UNCHANGED <<curl_multi_, armed, bound, kernel, frame>>

\* The contract on CurlSocketCallback with an action other than REMOVE: f is open,
\* and libcurl calls only when its interest in f is new or has changed.
Announces(f, what) ==
  /\ CanAnnounce
  /\ kernel[f] # "free"
  /\ f \notin known \/ want[f] # what
  /\ known' = known \cup {f}
  /\ want' = [want EXCEPT ![f] = what]

\* SetSock on SocketData g: arm, then record the action, unless arming threw.
SetSock(g, what, have, w) ==
  \E started \in Started(what, have) :
    /\ armed' = [armed EXCEPT ![g] = FlagsAfterArm(what, have, started)]
    /\ wait' = [wait EXCEPT ![g] = WaitsAfterArm(w, started)]
    /\ previous_action' = [previous_action EXCEPT ![g] =
         IF started = ToArm(what, have) /\ what # {} THEN what ELSE @]

\* CurlSocketCallback on a descriptor that has a SocketData: change its action.
PollChange(f, what) ==
  /\ Announces(f, what)
  /\ socket_data_map_[f] # NoSD
  /\ LET g == socket_data_map_[f] IN
       IF f \in socket_map_ THEN SetSock(g, what, armed[g], wait[g])
                            ELSE UNCHANGED <<armed, wait, previous_action>>
  /\ UNCHANGED <<tables, is_ares_socket, bound, epoll, kernel, frame>>

\* CurlSocketCallback on a descriptor with none: a new SocketData, and for a
\* descriptor not in socket_map_ (c-ares opened it) a new asio socket around it.
PollWatch(f, what) ==
  /\ Announces(f, what)
  /\ socket_data_map_[f] = NoSD
  /\ \E g \in SD :
       /\ Fresh(g)
       /\ socket_data_map_' = [socket_data_map_ EXCEPT ![f] = g]
       /\ is_ares_socket' = [is_ares_socket EXCEPT ![g] = f \notin socket_map_]
       /\ bound' = [bound EXCEPT ![g] = f]
       /\ \E started \in Started(what, {}) :
            /\ armed' = [armed EXCEPT ![g] = FlagsAfterArm(what, {}, started)]
            /\ wait' = [wait EXCEPT ![g] = WaitsAfterArm([d \in Dir |-> "none"], started)]
            /\ previous_action' = [previous_action EXCEPT ![g] =
                 IF started = ToArm(what, {}) THEN what ELSE {}]
  /\ socket_map_' = socket_map_ \cup {f}
  /\ epoll' = IF f \in socket_map_ THEN epoll ELSE epoll \cup {f}
  /\ UNCHANGED <<curl_multi_, removed_sockets_, kernel, frame>>

\* The same when asio refuses the descriptor: the tentative SocketData is dropped.
PollWatchRefused(f, what) ==
  /\ "wrap_error" \in Faults
  /\ Announces(f, what)
  /\ socket_data_map_[f] = NoSD /\ f \notin socket_map_
  /\ UNCHANGED <<tables, objects, wait, epoll, kernel, frame>>

-----------------------------------------------------------------------------
(* c-ares and libcurl acting on descriptors without telling this class *)

AresOpen(f) ==
  /\ CanAnnounce
  /\ kernel[f] = "free" /\ f \notin known
  /\ kernel' = [kernel EXCEPT ![f] = "ares"]
  /\ UNCHANGED <<tables, objects, wait, epoll, known, want, frame>>

\* c-ares closes its descriptor first; libcurl's CURL_POLL_REMOVE comes after.
AresClose(f) ==
  /\ InLibcurl
  /\ kernel[f] = "ares"
  /\ kernel' = [kernel EXCEPT ![f] = "free"]
  /\ epoll' = epoll \ {f}
  /\ UNCHANGED <<tables, objects, wait, known, want, frame>>

MissedClose(f) ==
  /\ "missed_close" \in Faults
  /\ InLibcurl
  /\ kernel[f] = "tcp"
  /\ kernel' = [kernel EXCEPT ![f] = "free"]
  /\ Forgets(f)
  /\ epoll' = epoll \ {f}
  /\ UNCHANGED <<tables, objects, wait, frame>>

-----------------------------------------------------------------------------
(* The reactor completes waits; the game thread runs their handlers *)

\* The reactor is polled between handlers.  An operation leaves its queue as it
\* completes: by one readiness event of a registered descriptor, or an error.
WaitCompletes(g, d) ==
  /\ ctx = "idle"
  /\ wait[g][d] = "waiting"
  /\ \E s \in {"ok", "error"} :
       /\ s = "ok" => bound[g] \in epoll
       /\ s = "error" => "wait_error" \in Faults
       /\ wait' = [wait EXCEPT ![g][d] = s]
  /\ UNCHANGED <<tables, objects, epoll, external, frame>>

\* Mutants: a stray direction clears the write side; nothing is cleared.
ClearsWriteSide(have, d) == have \ {"out"}
ClearsNothing(have, d) == have

\* The direction a handler bound to direction d stops being armed for.
ClearedFlags(have, d) == have \ {d}

\* Mutants: events are also discarded when the handler's direction is not exactly the
\* recorded action; ghosts of an earlier SocketData are not recognised.
DiscardsDisagreement(g, d) ==
  \/ ~curl_multi_
  \/ wait[g][d] = "aborted"
  \/ bound[g] \notin socket_map_
  \/ socket_data_map_[bound[g]] # g
  \/ previous_action[g] # {d}
LetsGhostsThrough(g, d) ==
  \/ ~curl_multi_
  \/ wait[g][d] = "aborted"
  \/ bound[g] \notin socket_map_
  \/ socket_data_map_[bound[g]] = NoSD

\* The early returns of AsioSocketActionCallback, in order: the multi handle is
\* gone, the wait was aborted, the socket is gone, or the handler is a ghost of an
\* earlier SocketData of the same descriptor.
ReturnsEarly(g, d) ==
  \/ ~curl_multi_
  \/ wait[g][d] = "aborted"
  \/ bound[g] \notin socket_map_
  \/ socket_data_map_[bound[g]] # g

\* Running a queued handler clears its direction's flag before anything else.
HandlerRuns(g, d) ==
  /\ ctx = "idle"
  /\ wait[g][d] \in {"ok", "aborted", "error"}
  /\ wait' = [wait EXCEPT ![g][d] = "none"]
  /\ armed' = [armed EXCEPT ![g] = ClearedFlags(@, d)]
  /\ UNCHANGED <<curl_multi_, socket_map_, socket_data_map_, is_ares_socket,
                 previous_action, bound, epoll, external>>

HandlerReturnsEarly(g, d) ==
  /\ HandlerRuns(g, d)
  /\ ReturnsEarly(g, d)
  /\ UNCHANGED <<removed_sockets_, frame>>

\* AsioSocketActionCallback enters curl_multi_socket_action.
HandlerReports(g, d) ==
  /\ HandlerRuns(g, d)
  /\ ~ReturnsEarly(g, d)
  /\ removed_sockets_' = {}
  /\ ctx' = "socket" /\ cur' = g /\ dir' = d
  /\ failed' = (wait[g][d] = "error")

\* Mutant: the handler returns without giving up its SocketData.
ReturnsHoldingData ==
  /\ \A f \in known : kernel[f] # "free"
  /\ ctx' = "idle" /\ cur' = cur /\ dir' = "in" /\ failed' = FALSE

\* libcurl keeps no descriptor in its table that is closed already when it returns.
ReturnsFromLibcurl ==
  /\ \A f \in known : kernel[f] # "free"
  /\ ctx' = "idle" /\ cur' = NoSD /\ dir' = "in" /\ failed' = FALSE

\* Mutant: a descriptor removed and announced again inside the call is kept.
KeepsWatchingRemoved(f) ==
  /\ ~failed
  /\ f \in socket_map_
  /\ socket_data_map_[f] # NoSD

\* The condition under which AsioSocketActionCallback keeps on watching: what it
\* holds may have been closed or replaced inside curl_multi_socket_action.
KeepsWatching(f) ==
  /\ ~failed
  /\ f \notin removed_sockets_
  /\ f \in socket_map_
  /\ socket_data_map_[f] # NoSD

\* curl_multi_socket_action and CheckMultiInfo are done: re-arm, and return.
HandlerEnds ==
  /\ ctx = "socket"
  /\ IF KeepsWatching(bound[cur])
     THEN \E started \in Started(previous_action[cur], armed[cur]) :
            /\ armed' = [armed EXCEPT ![cur] =
                 FlagsAfterArm(previous_action[cur], armed[cur], started)]
            /\ wait' = [wait EXCEPT ![cur] = WaitsAfterArm(wait[cur], started)]
     ELSE UNCHANGED <<armed, wait>>
  /\ ReturnsFromLibcurl
  /\ UNCHANGED <<tables, is_ares_socket, previous_action, bound, epoll, external>>

\* A timer, a posted task or a native of a plugin calls libcurl, and returns.
DriveBegins ==
  /\ ctx = "idle" /\ curl_multi_
  /\ ctx' = "driving"
  /\ UNCHANGED <<tables, objects, wait, epoll, external, cur, dir, failed>>

DriveEnds ==
  /\ ctx = "driving"
  /\ ReturnsFromLibcurl
  /\ UNCHANGED <<tables, objects, wait, epoll, external>>

\* Shutdown: curl_multi_cleanup closes what is left, then the pointer is nulled.
ShutdownBegins ==
  /\ ctx = "idle" /\ curl_multi_
  /\ ctx' = "cleanup"
  /\ UNCHANGED <<tables, objects, wait, epoll, external, cur, dir, failed>>

ShutdownEnds ==
  /\ ctx = "cleanup"
  /\ \A f \in Fd : kernel[f] = "free"
  /\ known = {}
  /\ ReturnsFromLibcurl
  /\ curl_multi_' = FALSE
  /\ UNCHANGED <<socket_map_, socket_data_map_, removed_sockets_,
                 objects, wait, epoll, external>>

\* Nothing is left to run: the module has been detached and its queue is empty.
Stopped ==
  /\ ~curl_multi_ /\ ctx = "idle"
  /\ \A g \in SD : Pending(g) = {}
  /\ UNCHANGED vars

LibcurlActs(f) ==
  \/ CurlOpenSocketCallback(f) \/ CurlCloseSocketCallback(f)
  \/ PollRemove(f)
  \/ \E what \in SUBSET Dir :
       PollChange(f, what) \/ PollWatch(f, what) \/ PollWatchRefused(f, what)
  \/ AresOpen(f) \/ AresClose(f) \/ MissedClose(f)

HandlerActs(g, d) == HandlerReturnsEarly(g, d) \/ HandlerReports(g, d)

Next ==
  \/ \E f \in Fd : LibcurlActs(f)
  \/ \E g \in SD, d \in Dir : WaitCompletes(g, d) \/ HandlerActs(g, d)
  \/ HandlerEnds
  \/ DriveBegins \/ DriveEnds
  \/ ShutdownBegins \/ ShutdownEnds
  \/ Stopped

Spec == Init /\ [][Next]_vars

\* Every call into libcurl returns; the engine runs a frame, and Poll with it, again
\* and again; Poll runs completed waits in FIFO order, so that each has its turn;
\* and, as an assumption on the peers, a registered socket becomes ready.
Fairness ==
  /\ SF_vars(HandlerEnds) /\ SF_vars(DriveEnds)
  /\ \A f \in Fd : WF_vars(kernel[f] = "free" /\ PollRemove(f))
  /\ WF_vars(ctx = "cleanup" /\ Next)
  /\ \A g \in SD, d \in Dir : SF_vars(WaitCompletes(g, d)) /\ SF_vars(HandlerActs(g, d))

FairSpec == Spec /\ Fairness

-----------------------------------------------------------------------------
(* What the code promises *)

\* A flag says a direction is armed exactly while a wait for it is pending: never
\* longer, or nothing would arm it again, and never shorter, or it would be armed
\* twice.  (SocketData's flags, ArmWaits, AsioSocketActionCallback.)
ArmedIffPending == \A g \in SD : armed[g] = Pending(g)

\* The wait for direction d of SocketData g will reach libcurl.
Live(g, d) ==
  \/ wait[g][d] \in {"ok", "error"}
  \/ wait[g][d] = "waiting" /\ bound[g] \in epoll

\* The handler that runs now is going to arm direction d of descriptor f again.
RearmsNow(f, d) ==
  /\ ctx = "socket" /\ bound[cur] = f /\ dir = d
  /\ KeepsWatching(f) /\ socket_data_map_[f] = cur

\* Every direction libcurl is waiting for has a wait of the descriptor's current
\* SocketData behind it, however interest changed while older waits were pending:
\* otherwise the transfer stalls until CURLOPT_TIMEOUT.  (ArmWaits, SetSock and
\* the re-arm in AsioSocketActionCallback.)
NoLostReadiness ==
  \A f \in known : kernel[f] # "free" =>
    \A d \in want[f] :
      \/ socket_data_map_[f] # NoSD /\ Live(socket_data_map_[f], d)
      \/ RearmsNow(f, d)

\* The handler that re-arms after curl_multi_socket_action holds the descriptor's
\* current SocketData, although only the presence of one is checked: a descriptor
\* closed, reopened and announced inside the call is caught by removed_sockets_.
RearmTargetsCurrent ==
  ctx = "socket" /\ KeepsWatching(bound[cur]) => socket_data_map_[bound[cur]] = cur

\* An open TCP descriptor keeps its asio socket, whatever libcurl stops and starts
\* watching: CURL_POLL_REMOVE is not a close.  (CurlSocketCallback,
\* CurlCloseSocketCallback.)
TcpStaysMapped == \A f \in Fd : kernel[f] = "tcp" => f \in socket_map_

\* No descriptor is taken for one of c-ares unless c-ares opened it, nor the other
\* way round: the mistake behind the EBADF crash.  (CurlSocketCallback.)
NeverMisclassified ==
  \A f \in Fd : kernel[f] # "free" /\ socket_data_map_[f] # NoSD =>
    (is_ares_socket[socket_data_map_[f]] <=> kernel[f] = "ares")

\* No asio socket outlives its descriptor, except that of c-ares until libcurl
\* reports its removal: a later destructor would close somebody else's number.
NoCorpses ==
  \A f \in socket_map_ : kernel[f] # "free" \/ (f \in known /\ InLibcurl)

\* The interest of libcurl in direction d of f, while the multi handle lives.
Wants(f, d) == curl_multi_ /\ f \in known /\ d \in want[f]

\* libcurl is being told about direction d of f, as of the current connection.
Told(f, d) == ctx = "socket" /\ cur = socket_data_map_[f] /\ dir = d

\* A direction libcurl keeps waiting for is reported to it, if the peer keeps acting
\* and frames keep coming.  (AsioSocketActionCallback and its re-arm.)
EventuallyTold ==
  \A f \in Fd, d \in Dir : Wants(f, d) ~> (Told(f, d) \/ ~Wants(f, d))

\* Waits that were readied and belong to the current SocketData of f.
SeenBy(f) ==
  IF socket_data_map_[f] = NoSD THEN {}
  ELSE {d \in Dir : wait[socket_data_map_[f]][d] \in {"ok", "error"}}

Contract == INSTANCE ReadinessContract WITH
  watched <- {f \in known : socket_data_map_[f] # NoSD},
  seen <- [f \in Fd |-> SeenBy(f)],
  reporting <- IF ctx = "socket" THEN {<<bound[cur], dir>>} ELSE {}

\* What libcurl sees is the readiness contract: nothing readied is dropped before it
\* is reported or the watch ends, and no readiness of an earlier watch of the same
\* descriptor number reaches a later one.  (The staleness check, the SocketData
\* dropped at CURL_POLL_REMOVE and at close, and the re-arm guard together.)
ImplementsContract == Contract!Spec
=============================================================================
