------------------------ MODULE TimedTransfers_proof ------------------------
(* Theorems about TimedTransfers, for any number of handles, plugins and     *)
(* posted tasks.                                                             *)
EXTENDS TimedTransfers, TransferManager_proof

\* Something is pending that will call libcurl.
Pending == timer \/ expired \/ posted > 0

\* What libcurl told is pending, and between two calls it has told what it has to tell.
ToldIsPending ==
  /\ told # ToldNothing => Pending
  /\ ctx \in {"idle", "poll", "checking", "completing"} /\ due \cup late # {} =>
       told # ToldNothing

\* A handle that is done had its deadlines dealt with by the call that ended it.
DoneIsDriven ==
  /\ done \cap (due \cup late) \subseteq driven
  /\ ctx \notin {"libcurl", "callback"} => driven = {}

\* When the count of a socket's handler says that no transfer is left, only new transfers
\* have deadlines, and theirs do not wait on the timer.
StaleCountIsHarmless ==
  /\ bysocket => ctx \in {"libcurl", "callback", "checking", "completing"}
  /\ bysocket /\ FoundIdle /\ ctx \in {"checking", "completing"} =>
       late = {} /\ (told = ToldNothing \/ expired \/ posted > 0)

TimedInv == TimedTypeOK /\ ToldIsPending /\ DoneIsDriven /\ StaleCountIsHarmless

-----------------------------------------------------------------------------
(* The parts of a step *)

\* What UpdatesTimer leaves pending.
LEMMA UpdatesTimerTells ==
  ASSUME timer \in BOOLEAN, expired \in BOOLEAN, posted \in 0..MaxPosted,
         due' \subseteq Handle, late' \subseteq Handle,
         NEW before, before \in Handle => Pending, UpdatesTimer(before)
  PROVE  /\ timer' \in BOOLEAN /\ expired' = expired /\ posted' \in 0..MaxPosted
         /\ told' \in Handle \cup {ToldNothing}
         /\ told' # ToldNothing => Pending'
         /\ due' \cup late' # {} => told' # ToldNothing
         /\ late' = {} =>
              told' = ToldNothing \/ posted' > 0 \/ (told' = before /\ posted' = posted)
<1> USE PostedAssumption DEF wakeups, ToldNothing, Pending
<1>0. \A h \in Handle : h # 0
  BY HandleAssumption DEF Handle
<1>1. CASE due' \cup late' = {}
  BY <1>1 DEF UpdatesTimer, Cancels
<1>2. CASE due' \cup late' # {}
  <2>1. PICK h \in IF due' # {} THEN due' ELSE late' :
          /\ told' = h
          /\ IF h = before THEN UNCHANGED wakeups
             ELSE IF h \in due' THEN ZeroPosts ELSE LaterArms
    BY <1>2 DEF UpdatesTimer
  <2>2. h \in Handle /\ h # 0 /\ (late' = {} => h \in due')
    BY <1>0, <1>2, <2>1
  <2>3. CASE h = before
    BY <2>1, <2>2, <2>3
  <2>4. CASE h # before /\ h \in due'
    <3>1. ZeroPosts
      BY <2>1, <2>4
    <3>2. timer' = FALSE /\ expired' = expired /\ posted' \in 0..MaxPosted /\ posted' > 0
      BY <3>1 DEF ZeroPosts
    <3> QED
      BY <2>1, <2>2, <3>2
  <2>5. CASE h # before /\ h \notin due'
    <3>1. LaterArms
      BY <2>1, <2>5
    <3> QED
      BY <2>1, <2>2, <2>5, <3>1 DEF LaterArms
  <2> QED
    BY <2>3, <2>4, <2>5
<1> QED
  BY <1>1, <1>2

\* What libcurl still remembers to have told is pending.
LEMMA RememberedIsPending ==
  ASSUME TimedInv, NEW hs PROVE Forgets(hs) \in Handle => Pending /\ Forgets(hs) = told
<1>1. \A h \in Handle : h # 0 /\ h # -1
  BY HandleAssumption DEF Handle
<1> QED
  BY <1>1 DEF TimedInv, ToldIsPending, Forgets, ToldNothing, ToldOther

\* The steps with no part in the timing move between places and leave the multi alone.
LEMMA UntimedFrame ==
  Untimed => /\ UNCHANGED <<timed, attached, done>>
             /\ \/ ctx' = ctx
                \/ ctx = "idle" /\ ctx' = "poll"
                \/ ctx = "callback" /\ ctx' = "libcurl"
                \/ ctx = "completing" /\ ctx' = "checking"
BY DEF Untimed, CreateCurl, CreateCurlFails, RemoveTask, RemoveTaskDeferred,
       CurlPerformTaskFails, CurlReset, PollBegins, Moves, CallbackReturns, ForwardReturns,
       Unload, Load, DetachBegins, Stopped, vars, frame, multi

-----------------------------------------------------------------------------
LEMMA InitTimedInv == TimedInit => TimedInv
<1> SUFFICES ASSUME TimedInit PROVE TimedInv
  OBVIOUS
<1>1. TimedTypeOK
  <2>1. /\ running_handles_ = 0 /\ timer = FALSE /\ expired = FALSE /\ posted = 0
        /\ told = ToldNothing /\ due = {} /\ late = {} /\ sock = {}
        /\ driven = {} /\ bysocket = FALSE
    BY DEF TimedInit
  <2>2. /\ running_handles_ \in Nat /\ posted \in 0..MaxPosted
        /\ due \cap late = {} /\ driven \subseteq Handle
    BY <2>1, PostedAssumption
  <2>3. timer \in BOOLEAN /\ expired \in BOOLEAN /\ bysocket \in BOOLEAN
    BY <2>1
  <2> QED
    BY <2>1, <2>2, <2>3 DEF TimedTypeOK
<1>2. ToldIsPending /\ DoneIsDriven /\ StaleCountIsHarmless
  BY DEF TimedInit, Init, ToldIsPending, DoneIsDriven, StaleCountIsHarmless
<1> QED
  BY <1>1, <1>2 DEF TimedInv

LEMMA NextTimedInv == TypeOK /\ TimedInv /\ [TimedNext]_timedVars => TimedInv'
<1> SUFFICES ASSUME TypeOK, TimedInv, [TimedNext]_timedVars PROVE TimedInv'
  OBVIOUS
<1>0. attached \subseteq Handle /\ done \subseteq attached /\ 0 \notin Handle /\ -1 \notin Handle
  BY HandleAssumption DEF TypeOK, Handle
<1> USE PostedAssumption, <1>0
<1>1. CASE Untimed \/ UNCHANGED timedVars
  <2>1. UNCHANGED timed /\ UNCHANGED <<attached, done>>
    BY <1>1, UntimedFrame DEF timedVars, vars, multi
  <2>2. \/ ctx' = ctx
        \/ ctx = "idle" /\ ctx' = "poll"
        \/ ctx = "callback" /\ ctx' = "libcurl"
        \/ ctx = "completing" /\ ctx' = "checking"
    BY <1>1, UntimedFrame DEF timedVars, vars, frame
  <2> QED
    BY <2>1, <2>2 DEF timed, wakeups, deadlines, handler, TimedInv, TimedTypeOK, ToldIsPending,
       DoneIsDriven, StaleCountIsHarmless, Pending, FoundIdle
<1>2. ASSUME NEW h \in Handle, NEW b \in Buf \cup {NoBuf}, TimedPerform(h, b) PROVE TimedInv'
  <2>1. /\ attached' = attached \cup {h} /\ UNCHANGED <<done, ctx>>
        /\ h \notin attached /\ ctx # "callback"
    BY <1>2 DEF TimedPerform, CurlPerformTask, MayAttach, frame
  <2>2. /\ due' = due \cup {h} /\ UpdatesTimer(ToldNothing)
        /\ UNCHANGED <<running_handles_, late, sock, driven, bysocket>>
    BY <1>2 DEF TimedPerform, handler
  <2>3. /\ timer' \in BOOLEAN /\ expired' = expired /\ posted' \in 0..MaxPosted
        /\ told' \in Handle \cup {ToldNothing}
        /\ told' # ToldNothing => Pending'
        /\ due' \cup late' # {} => told' # ToldNothing
        /\ late' = {} => told' = ToldNothing \/ posted' > 0
    <3>1. due' \subseteq Handle /\ late' \subseteq Handle /\ ToldNothing \notin Handle
      BY <2>2 DEF TimedInv, TimedTypeOK, ToldNothing
    <3> QED
      BY <2>2, <3>1, UpdatesTimerTells DEF TimedInv, TimedTypeOK
  <2>4. TimedTypeOK'
    BY <2>1, <2>2, <2>3 DEF TimedInv, TimedTypeOK
  <2>5. ToldIsPending'
    BY <2>3 DEF ToldIsPending
  <2>6. DoneIsDriven'
    BY <2>1, <2>2 DEF TimedInv, DoneIsDriven, TypeOK
  <2>7. StaleCountIsHarmless'
    BY <2>1, <2>2, <2>3 DEF TimedInv, StaleCountIsHarmless, FoundIdle
  <2> QED
    BY <2>4, <2>5, <2>6, <2>7 DEF TimedInv
<1>3. ASSUME NEW h \in Handle, TimedComplete(h) PROVE TimedInv'
  <2>1. /\ attached' = attached \ {h} /\ done' = done \ {h}
        /\ ctx = "checking" /\ ctx' \in {"checking", "completing"}
    BY <1>3 DEF TimedComplete, OnPerformComplete, OnPerformCompleteSkipped, ReadsMessage
  <2>2. /\ due' = due \ {h} /\ late' = late \ {h} /\ sock' = sock \ {h}
        /\ UpdatesTimer(Forgets({h}))
        /\ UNCHANGED <<running_handles_, driven, bysocket>>
    BY <1>3 DEF TimedComplete, Leaves, handler
  <2>3. /\ timer' \in BOOLEAN /\ expired' = expired /\ posted' \in 0..MaxPosted
        /\ told' \in Handle \cup {ToldNothing}
        /\ told' # ToldNothing => Pending'
        /\ due' \cup late' # {} => told' # ToldNothing
        /\ late' = {} => \/ told' = ToldNothing \/ posted' > 0
                         \/ told' = Forgets({h}) /\ posted' = posted
    <3>1. due' \subseteq Handle /\ late' \subseteq Handle
      BY <2>2 DEF TimedInv, TimedTypeOK
    <3> QED
      BY <2>2, <3>1, UpdatesTimerTells, RememberedIsPending DEF TimedInv, TimedTypeOK
  <2>4. TimedTypeOK'
    BY <2>1, <2>2, <2>3 DEF TimedInv, TimedTypeOK
  <2>5. ToldIsPending'
    BY <2>3 DEF ToldIsPending
  <2>6. DoneIsDriven'
    BY <2>1, <2>2 DEF TimedInv, DoneIsDriven
  <2>7. StaleCountIsHarmless'
    <3>1. SUFFICES ASSUME bysocket', FoundIdle'
                   PROVE  late' = {} /\ (told' = ToldNothing \/ expired' \/ posted' > 0)
      BY <2>1 DEF StaleCountIsHarmless
    <3>2. late = {} /\ (told = ToldNothing \/ expired \/ posted > 0)
      BY <2>1, <2>2, <3>1 DEF TimedInv, StaleCountIsHarmless, FoundIdle
    <3>3. CASE told' = Forgets({h}) /\ posted' = posted
      <4>1. told' \in Handle => told' = told
        BY <3>3, RememberedIsPending
      <4> QED
        BY <2>2, <2>3, <3>2, <3>3, <4>1 DEF ToldNothing
    <3> QED
      BY <2>2, <2>3, <3>2, <3>3
  <2> QED
    BY <2>4, <2>5, <2>6, <2>7 DEF TimedInv
<1>4. CASE TimedTeardown
  <2>1. ctx = "idle" /\ ctx' = "idle" /\ done' \subseteq done
    BY <1>4 DEF TimedTeardown, DetachEnds, ExitWithoutDetach, RemoveAllTasks
  <2>2. due' = {} /\ late' = {} /\ sock' = {}
    BY <1>4 DEF TimedTeardown, Leaves, TimedInv, TimedTypeOK
  <2>3. /\ told' = ToldNothing /\ timer' = FALSE
        /\ UNCHANGED <<expired, posted, running_handles_, driven, bysocket>>
    BY <1>4 DEF TimedTeardown, Cancels, handler
  <2> QED
    BY <2>1, <2>2, <2>3 DEF TimedInv, TimedTypeOK, ToldIsPending, DoneIsDriven,
       StaleCountIsHarmless
<1>5. ASSUME NEW h \in Handle, DeadlinePasses(h) PROVE TimedInv'
  <2>1. /\ due' = due \cup {h} /\ late' = late \ {h} /\ h \in late
        /\ UNCHANGED <<ctx, attached, done, running_handles_, timer, expired, posted, told,
                       sock, driven, bysocket>>
    BY <1>5 DEF DeadlinePasses, vars, frame, multi, wakeups, handler
  <2> QED
    BY <2>1 DEF TimedInv, TimedTypeOK, ToldIsPending, DoneIsDriven, StaleCountIsHarmless,
       Pending, FoundIdle
<1>6. CASE TimerExpires
  <2>1. /\ ctx = "poll" /\ timer' = FALSE /\ expired' = TRUE
        /\ UNCHANGED <<ctx, attached, done, running_handles_, posted, due, late, told,
                       sock, driven, bysocket>>
    BY <1>6 DEF TimerExpires, vars, frame, multi, deadlines, handler
  <2> QED
    BY <2>1 DEF TimedInv, TimedTypeOK, ToldIsPending, DoneIsDriven, StaleCountIsHarmless,
       Pending, FoundIdle
<1>7. CASE PostedTaskRuns \/ AsioTimerCallback
  <2>1. /\ ctx = "poll" /\ ctx' = "libcurl" /\ UNCHANGED <<attached, done>>
        /\ driven' = due \cup {} /\ bysocket' = FALSE /\ told' = ToldNothing
        /\ UNCHANGED <<running_handles_, timer, due, late, sock>>
    BY <1>7 DEF PostedTaskRuns, AsioTimerCallback, DrivesTimeout, Drives, HandlerRuns, Moves,
       multi
  <2>2. expired' \in BOOLEAN /\ posted' \in 0..MaxPosted
    <3>1. CASE PostedTaskRuns
      <4>1. posted > 0 /\ posted' = posted - 1 /\ expired' = expired
        BY <3>1 DEF PostedTaskRuns
      <4> QED
        BY <4>1 DEF TimedInv, TimedTypeOK
    <3>2. CASE AsioTimerCallback
      <4>1. expired' = FALSE /\ posted' = posted
        BY <3>2 DEF AsioTimerCallback
      <4> QED
        BY <4>1 DEF TimedInv, TimedTypeOK
    <3> QED
      BY <1>7, <3>1, <3>2
  <2>3. done \cap (due \cup late) = {}
    BY <2>1 DEF TimedInv, DoneIsDriven
  <2> QED
    BY <2>1, <2>2, <2>3 DEF TimedInv, TimedTypeOK, ToldIsPending, DoneIsDriven,
       StaleCountIsHarmless
<1>8. ASSUME NEW h \in Handle, AsioSocketActionCallback(h) PROVE TimedInv'
  <2>1. /\ ctx = "poll" /\ ctx' = "libcurl" /\ UNCHANGED <<attached, done>>
        /\ driven' = due \cup {h} /\ bysocket' = TRUE
        /\ UNCHANGED <<running_handles_, timer, expired, posted, told, due, late, sock>>
    BY <1>8 DEF AsioSocketActionCallback, Drives, HandlerRuns, Moves, multi, wakeups, deadlines
  <2>2. done \cap (due \cup late) = {}
    BY <2>1 DEF TimedInv, DoneIsDriven
  <2> QED
    BY <2>1, <2>2 DEF TimedInv, TimedTypeOK, ToldIsPending, DoneIsDriven,
       StaleCountIsHarmless, Pending
<1>9. ASSUME NEW h \in Handle, TimedTransferEnds(h) \/ TimedPawnCallback(h) PROVE TimedInv'
  <2>1. /\ h \in driven /\ ctx = "libcurl" /\ ctx' \in {"libcurl", "callback"}
        /\ attached' = attached /\ done' \subseteq done \cup {h}
    BY <1>9 DEF TimedTransferEnds, TimedPawnCallback, TransferEnds, PawnCallback,
       PawnCallbackSkipped, frame, multi
  <2>2. UNCHANGED timed
    BY <1>9 DEF TimedTransferEnds, TimedPawnCallback
  <2> QED
    BY <2>1, <2>2 DEF timed, wakeups, deadlines, handler, TimedInv, TimedTypeOK, ToldIsPending,
       DoneIsDriven, StaleCountIsHarmless, Pending
<1>10. CASE TimedActionReturns
  <2>1. ctx = "libcurl" /\ ctx' = "checking" /\ UNCHANGED <<attached, done>>
    BY <1>10 DEF TimedActionReturns, SocketActionReturns, Moves, multi
  <2>2. PICK l \in SUBSET (driven \cap Active), s \in SUBSET (driven \cap Active) :
          late' = (late \ driven) \cup l /\ sock' = (sock \ driven) \cup s
    BY <1>10 DEF TimedActionReturns
  <2>3. /\ running_handles_' = Cardinality(Active) /\ due' = due \ driven /\ driven' = {}
        /\ bysocket' = bysocket /\ UpdatesTimer(Forgets(driven))
    BY <1>10 DEF TimedActionReturns
  <2>4. IsFiniteSet(Active) /\ Cardinality(Active) \in Nat
    <3>1. Active \subseteq Handle /\ IsFiniteSet(Handle)
      BY HandleAssumption, FS_Interval DEF Handle, Active
    <3> QED
      BY <3>1, FS_Subset, FS_CardinalityType
  <2>5. due' \cup late' \subseteq Active
    BY <2>2, <2>3 DEF TimedInv, TimedTypeOK, DoneIsDriven, Active
  <2>6. /\ timer' \in BOOLEAN /\ expired' = expired /\ posted' \in 0..MaxPosted
        /\ told' \in Handle \cup {ToldNothing}
        /\ told' # ToldNothing => Pending'
        /\ due' \cup late' # {} => told' # ToldNothing
    <3>1. due' \subseteq Handle /\ late' \subseteq Handle
      BY <2>5 DEF Active
    <3> QED
      BY <2>3, <3>1, UpdatesTimerTells, RememberedIsPending DEF TimedInv, TimedTypeOK
  <2>7. TimedTypeOK'
    BY <2>1, <2>2, <2>3, <2>4, <2>6 DEF TimedInv, TimedTypeOK, Active
  <2>8. ToldIsPending'
    BY <2>6 DEF ToldIsPending
  <2>9. DoneIsDriven'
    BY <2>1, <2>3, <2>5 DEF DoneIsDriven, Active
  <2>10. StaleCountIsHarmless'
    <3>1. CASE FoundIdle'
      <4>1. Active = {}
        BY <2>3, <2>4, <3>1, FS_EmptySet DEF FoundIdle
      <4>2. due' \cup late' = {}
        BY <2>5, <4>1
      <4>3. told' = ToldNothing
        BY <2>3, <4>2 DEF UpdatesTimer
      <4> QED
        BY <2>1, <4>2, <4>3 DEF StaleCountIsHarmless
    <3> QED
      BY <2>1, <3>1 DEF StaleCountIsHarmless
  <2> QED
    BY <2>7, <2>8, <2>9, <2>10 DEF TimedInv
<1>11. CASE TimedCheckReturns
  <2>1. /\ ctx = "checking" /\ ctx' = "poll" /\ attached' = attached /\ done' = {}
        /\ bysocket' = FALSE
        /\ UNCHANGED <<running_handles_, told, due, late, sock, driven>>
    BY <1>11 DEF TimedCheckReturns, CheckMultiInfoReturns, deadlines
  <2>2. IF bysocket /\ FoundIdle THEN Cancels ELSE UNCHANGED wakeups
    BY <1>11 DEF TimedCheckReturns
  <2>3. timer' \in BOOLEAN /\ UNCHANGED <<expired, posted>>
    BY <2>2 DEF Cancels, wakeups, TimedInv, TimedTypeOK
  <2>4. told # ToldNothing => Pending'
    BY <2>1, <2>2, <2>3 DEF wakeups, TimedInv, ToldIsPending, StaleCountIsHarmless, Pending
  <2> QED
    BY <2>1, <2>3, <2>4 DEF TimedInv, TimedTypeOK, ToldIsPending, DoneIsDriven,
       StaleCountIsHarmless
<1>12. CASE PollReturns
  <2>1. ctx = "poll" /\ ctx' = "idle" /\ UNCHANGED <<attached, done>> /\ UNCHANGED timed
    BY <1>12 DEF PollReturns, FrameEnds, DrainPollEnds, Moves, multi
  <2> QED
    BY <2>1 DEF timed, wakeups, deadlines, handler, TimedInv, TimedTypeOK, ToldIsPending,
       DoneIsDriven, StaleCountIsHarmless, Pending
<1> QED
  BY <1>1, <1>2, <1>3, <1>4, <1>5, <1>6, <1>7, <1>8, <1>9, <1>10, <1>11, <1>12
  DEF TimedNext, HandlersNext, TimedOn

-----------------------------------------------------------------------------
(* The composition is a run of TransferManager *)

LEMMA TimedStepIsStep == [TimedNext]_timedVars => [Next]_vars
<1>1. ASSUME TimedNext PROVE Next \/ UNCHANGED vars
  <2>1. CASE Untimed
    BY <2>1, UndoneInPawn DEF Untimed, Next, NativeOn, PerformUndone, Poll
  <2>2. CASE HandlersNext
    BY <2>2 DEF HandlersNext, TimerExpires, PostedTaskRuns, AsioTimerCallback, DrivesTimeout,
       Drives, TimedActionReturns, TimedCheckReturns, PollReturns, Next, Poll
  <2>3. CASE TimedTeardown
    BY <2>3 DEF TimedTeardown, Next
  <2>4. ASSUME NEW h \in Handle, TimedOn(h) PROVE Next \/ UNCHANGED vars
    BY <2>4 DEF TimedOn, TimedPerform, TimedComplete, DeadlinePasses,
       AsioSocketActionCallback, Drives, TimedTransferEnds, TimedPawnCallback, Next,
       NativeOn, PerformUndone, Poll, PollOn
  <2> QED
    BY <1>1, <2>1, <2>2, <2>3, <2>4 DEF TimedNext
<1> QED
  BY <1>1 DEF timedVars

\* Whatever TransferManager promises holds when its handlers are run by the timer, posted
\* tasks and sockets only.
THEOREM TimedIsTransfers == TimedSpec => Spec
<1>1. TimedInit => Init
  BY DEF TimedInit
<1> QED
  BY <1>1, TimedStepIsStep, PTL DEF TimedSpec, Spec

\* Driven by the timer, posted tasks and sockets only, transfers keep their contract.
\* (Unless addresses are used again.)
THEOREM TimedImplementsTransfers ==
  ASSUME "address_reuse" \notin Faults PROVE TimedSpec => ImplementsTransfers
BY TimedIsTransfers, TransfersImplemented

\* What is told is pending, under any faults and for any number of handles.
THEOREM TimedInvariant == TimedSpec => []TimedInv
<1>1. TimedSpec => []TypeOK
  BY TimedIsTransfers, TypeCorrect, PTL
<1> QED
  BY <1>1, InitTimedInv, NextTimedInv, PTL DEF TimedSpec

\* Type correctness; deadlines belong to handles libcurl holds.
THEOREM TimedTypeCorrect == TimedSpec => []TimedTypeOK
<1>1. TimedInv => TimedTypeOK
  BY DEF TimedInv
<1> QED
  BY <1>1, TimedInvariant, PTL

\* No deadline libcurl counts on is lost, by whatever order of tasks, waits that end,
\* sockets and completions that start new transfers.
THEOREM DeadlinesAreKept == TimedSpec => []NoDeadlineLost
<1>1. TimedInv => NoDeadlineLost
  BY DEF TimedInv, ToldIsPending, NoDeadlineLost, Pending
<1> QED
  BY <1>1, TimedInvariant, PTL
=============================================================================
