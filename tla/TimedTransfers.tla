--------------------------- MODULE TimedTransfers ---------------------------
(***************************************************************************)
(* When libcurl runs: the timer half of CurlMulti (CurlTimerCallback, the  *)
(* posted task, AsioTimerCallback and the end of                           *)
(* AsioSocketActionCallback, curl_multi_class.cc), composed with           *)
(* TransferManager, whose handlers run whenever they like.  Here a handler *)
(* runs because of a task that was posted, a wait of the timer that ended, *)
(* or a socket; a transfer gets on only when a handler drives it.          *)
(*                                                                         *)
(* libcurl keeps a deadline per handle and tells the nearest one to        *)
(* CurlTimerCallback, at the end of each call made to it, but only when it *)
(* is not the one it told last: a deadline told and then lost would never  *)
(* be told again.                                                          *)
(***************************************************************************)
EXTENDS TransferManager

CONSTANT MaxPosted  (* a bound on the tasks in the queue *)

ASSUME PostedAssumption == MaxPosted \in Nat \ {0}

VARIABLES
  running_handles_,  (* what the last socket action stored there               *)
  timer,             (* a wait of the timer is pending                         *)
  expired,           (* its handler is queued: cancel() does not reach it      *)
  posted,            (* tasks posted for a timeout of zero, never cancelled    *)
  told,              (* libcurl: the handle whose deadline it told last        *)
  due,               (* libcurl: the handles with a deadline that has passed   *)
  late,              (* libcurl: those with a deadline still to come           *)
  sock,              (* libcurl: those that wait for a socket                  *)
  driven,            (* libcurl: the handles this call gets on with            *)
  bysocket           (* this handler is a socket's                             *)

ToldNothing == 0     (* libcurl will tell any deadline *)
ToldOther == -1      (* what it told last is no handle's deadline any more *)

wakeups == <<timer, expired, posted>>
deadlines == <<told, due, late, sock>>
handler == <<driven, bysocket>>
timed == <<running_handles_, wakeups, deadlines, handler>>
timedVars == <<vars, timed>>

Active == attached \ done

TimedTypeOK ==
  /\ running_handles_ \in Nat
  /\ timer \in BOOLEAN /\ expired \in BOOLEAN
  /\ posted \in 0..MaxPosted
  /\ told \in Handle \cup {ToldNothing, ToldOther}
  /\ due \subseteq attached /\ late \subseteq attached /\ sock \subseteq attached
  /\ due \cap late = {}
  /\ driven \subseteq Handle /\ bysocket \in BOOLEAN

TimedInit ==
  /\ Init
  /\ running_handles_ = 0
  /\ timer = FALSE /\ expired = FALSE /\ posted = 0
  /\ told = ToldNothing /\ due = {} /\ late = {} /\ sock = {}
  /\ driven = {} /\ bysocket = FALSE

-----------------------------------------------------------------------------
(* CurlTimerCallback *)

\* Mutant: a timeout of zero waits on the timer, like any other.
ZeroArms == timer' = TRUE /\ UNCHANGED <<expired, posted>>

\* timeout_ms = 0: the wait is cancelled, a task posted.
ZeroPosts ==
  /\ timer' = FALSE
  /\ posted' = IF posted = MaxPosted THEN posted ELSE posted + 1
  /\ UNCHANGED expired

\* timeout_ms > 0: the wait is replaced.
LaterArms == timer' = TRUE /\ UNCHANGED <<expired, posted>>

\* timeout_ms = -1, and the cancel() of AsioSocketActionCallback.
Cancels == timer' = FALSE /\ UNCHANGED <<expired, posted>>

\* libcurl tells the nearest deadline, if it is not the one it told last, `before'.
UpdatesTimer(before) ==
  IF due' \cup late' = {}
  THEN /\ told' = ToldNothing
       /\ IF before = ToldNothing THEN UNCHANGED wakeups ELSE Cancels
  ELSE \E h \in IF due' # {} THEN due' ELSE late' :
         /\ told' = h
         /\ IF h = before THEN UNCHANGED wakeups
            ELSE IF h \in due' THEN ZeroPosts ELSE LaterArms

\* What it told last, when the deadlines of hs are not what they were.
Forgets(hs) == IF told \in hs THEN ToldOther ELSE told

-----------------------------------------------------------------------------
(* Transfers start and leave *)

\* curl_multi_add_handle: the new handle is due at once, and that is told in any case.
TimedPerform(h, b) ==
  /\ CurlPerformTask(h, b)
  /\ due' = due \cup {h} /\ UNCHANGED late
  /\ UpdatesTimer(ToldNothing)
  /\ UNCHANGED <<running_handles_, sock, handler>>

\* Mutant: a handle that leaves the multi keeps its deadlines.
LeavesThem(hs) == UNCHANGED <<due, late, sock>>

\* What curl_multi_remove_handle does to the deadlines.
Leaves(hs) == due' = due \ hs /\ late' = late \ hs /\ sock' = sock \ hs

\* curl_multi_remove_handle, in OnPerformComplete.
TimedComplete(h) ==
  /\ OnPerformComplete(h) \/ OnPerformCompleteSkipped(h)
  /\ Leaves({h}) /\ UpdatesTimer(Forgets({h}))
  /\ UNCHANGED <<running_handles_, handler>>

\* RemoveAllTasks and Shutdown: what is still queued finds no multi.
TimedTeardown ==
  /\ DetachEnds \/ ExitWithoutDetach
  /\ Leaves(Handle) /\ told' = ToldNothing
  /\ Cancels
  /\ UNCHANGED <<running_handles_, handler>>

-----------------------------------------------------------------------------
(* Handlers *)

\* Time passes a deadline.
DeadlinePasses(h) ==
  /\ h \in late /\ h \notin driven
  /\ late' = late \ {h} /\ due' = due \cup {h}
  /\ UNCHANGED <<vars, running_handles_, wakeups, told, sock, handler>>

\* poll() finds that the timer's time has come, perhaps early: libcurl rounds down.
TimerExpires ==
  /\ ctx = "poll" /\ timer
  /\ timer' = FALSE /\ expired' = TRUE
  /\ UNCHANGED <<vars, running_handles_, posted, deadlines, handler>>

\* A call of curl_multi_socket_action gets on with what is due, and with hs.
Drives(hs) == HandlerRuns /\ driven' = due \cup hs

\* A call for a timeout makes libcurl forget what it told.
DrivesTimeout ==
  /\ Drives({}) /\ bysocket' = FALSE /\ told' = ToldNothing
  /\ UNCHANGED <<running_handles_, timer, due, late, sock>>

PostedTaskRuns ==
  /\ posted > 0 /\ posted' = posted - 1
  /\ DrivesTimeout /\ UNCHANGED expired

AsioTimerCallback ==
  /\ expired /\ expired' = FALSE
  /\ DrivesTimeout /\ UNCHANGED posted

AsioSocketActionCallback(h) ==
  /\ h \in sock
  /\ Drives({h}) /\ bysocket' = TRUE
  /\ UNCHANGED <<running_handles_, wakeups, deadlines>>

TimedTransferEnds(h) == h \in driven /\ TransferEnds(h) /\ UNCHANGED timed

TimedPawnCallback(h) ==
  /\ h \in driven
  /\ PawnCallback(h) \/ PawnCallbackSkipped(h)
  /\ UNCHANGED timed

\* The call returns: each handle it drove has ended, or waits for a deadline, a socket,
\* or both; and running_handles_ says how many have not ended.
TimedActionReturns ==
  /\ SocketActionReturns
  /\ running_handles_' = Cardinality(Active)
  /\ \E l \in SUBSET (driven \cap Active) : \E s \in SUBSET (driven \cap Active) :
       /\ l \cup s = driven \cap Active
       /\ late' = (late \ driven) \cup l
       /\ sock' = (sock \ driven) \cup s
  /\ due' = due \ driven
  /\ UpdatesTimer(Forgets(driven))
  /\ driven' = {}
  /\ UNCHANGED bysocket

\* Mutant: the timer is cancelled whenever a socket's handler ends.
AlwaysIdle == TRUE

\* The end of AsioSocketActionCallback: no transfer was left when libcurl returned.
FoundIdle == running_handles_ <= 0

TimedCheckReturns ==
  /\ CheckMultiInfoReturns
  /\ IF bysocket /\ FoundIdle THEN Cancels ELSE UNCHANGED wakeups
  /\ bysocket' = FALSE
  /\ UNCHANGED <<running_handles_, deadlines, driven>>

\* poll() returns when no handler is ready, the ones queued meanwhile included.
PollReturns ==
  /\ posted = 0 /\ ~expired
  /\ FrameEnds \/ DrainPollEnds
  /\ UNCHANGED timed

-----------------------------------------------------------------------------
Untimed ==
  /\ \/ CreateCurlFails
     \/ \E h \in Handle :
          \/ \E a \in Amx : CreateCurl(a, h)
          \/ RemoveTask(h) \/ RemoveTaskDeferred(h)
          \/ CurlPerformTaskFails(h) \/ CurlReset(h)
     \/ PollBegins \/ CallbackReturns \/ ForwardReturns
     \/ \E a \in Amx : Unload(a) \/ Load(a)
     \/ DetachBegins \/ Stopped
  /\ UNCHANGED timed

HandlersNext ==
  \/ TimerExpires \/ PostedTaskRuns \/ AsioTimerCallback
  \/ TimedActionReturns \/ TimedCheckReturns \/ PollReturns

TimedOn(h) ==
  \/ \E b \in Buf \cup {NoBuf} : TimedPerform(h, b)
  \/ TimedComplete(h) \/ DeadlinePasses(h)
  \/ AsioSocketActionCallback(h) \/ TimedTransferEnds(h) \/ TimedPawnCallback(h)

TimedNext ==
  \/ Untimed \/ HandlersNext \/ TimedTeardown
  \/ \E h \in Handle : TimedOn(h)

TimedSpec == TimedInit /\ [][TimedNext]_timedVars

\* Frames and the drain loop go on, handlers run, what they call returns, deadlines pass,
\* sockets become ready, and a transfer that is driven again and again ends.
TimedFairness ==
  /\ WF_timedVars(PollBegins /\ UNCHANGED timed) /\ WF_timedVars(TimedTeardown)
  /\ SF_timedVars(TimerExpires) /\ SF_timedVars(PostedTaskRuns)
  /\ SF_timedVars(AsioTimerCallback)
  /\ WF_timedVars(CallbackReturns /\ UNCHANGED timed)
  /\ WF_timedVars(ForwardReturns /\ UNCHANGED timed)
  /\ SF_timedVars(TimedActionReturns) /\ WF_timedVars(TimedCheckReturns)
  /\ SF_timedVars(PollReturns)
  /\ \A h \in Handle :
       /\ WF_timedVars(DeadlinePasses(h))
       /\ SF_timedVars(AsioSocketActionCallback(h))
       /\ SF_timedVars(TimedTransferEnds(h))
       /\ SF_timedVars(TimedComplete(h))

TimedFairSpec == TimedSpec /\ TimedFairness

-----------------------------------------------------------------------------
(* What the code promises *)

\* A deadline libcurl counts on is never lost: while a handle has one, something is
\* pending that will call libcurl, although each new deadline cancels the wait of the
\* last, the end of a socket's handler cancels it by a count that may be stale, and
\* libcurl does not repeat itself.  (CurlTimerCallback, AsioSocketActionCallback.)
NoDeadlineLost ==
  ctx \in {"idle", "poll"} /\ due \cup late # {} => timer \/ expired \/ posted > 0

\* A transfer that was started ends, and so does every deferred cleanup with it; the
\* handle does not stay in progress for ever, though libcurl gets on only when a task,
\* the timer or a socket calls it.  (AsioTimerCallback, CheckMultiInfo, OnPerformComplete.)
EveryTransferEnds ==
  \A h \in Handle : h \in is_transfer_in_progress_ ~> h \notin is_transfer_in_progress_
=============================================================================
