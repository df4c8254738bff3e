------------------------ MODULE ModuleLifecycle_proof ------------------------
(* Theorems about ModuleLifecycle, for any number of handles, plugins and data *)
(* arrays, and with any transfers in flight when teardown begins.              *)
EXTENDS ModuleLifecycle, TransferManager_proof

-----------------------------------------------------------------------------
(* The inductive invariant *)

\* No task is left, and nothing in the multi.
Emptied == amx_curl_ = {} /\ attached = {}

\* Nothing happens before the instance is built.
Unbuilt ==
  ~instance => /\ Emptied /\ alive = {} /\ ~g_amxxcurl_detached
               /\ phase = "attached" /\ ctx = "idle"

\* While attached, the instance is whole and the flag is not set.
Attached ==
  stage = "attached" =>
    /\ phase \in {"attached", "draining"}
    /\ ~g_amxxcurl_detached /\ global # "cleaned"
    /\ instance => alive = Members
    /\ phase = "draining" => instance /\ ~frame_func

\* What OnAmxxDetach has done at each place in its order.
Detaching ==
  stage = "detaching" =>
    /\ instance /\ ctx = "idle" /\ ~frame_func /\ global # "cleaned"
    /\ phase = IF at <= 2 THEN "draining" ELSE "detached"
    /\ g_amxxcurl_detached <=> at >= 2
    /\ alive = IF at <= 3 THEN Members ELSE {"asio_poller_"}

\* After it, the module has only its poller.
Detached ==
  stage = "detached" =>
    /\ instance /\ ctx = "idle" /\ ~frame_func
    /\ phase = "detached" /\ g_amxxcurl_detached /\ alive = {"asio_poller_"}

\* What the finalizers have done at each place in theirs.  The multi is still there only
\* if there was no detach, and then libcurl is too.
Finalizing ==
  stage \in {"closing", "exiting"} =>
    /\ instance /\ ctx = "idle"
    /\ stage = "closing" => ~frame_func
    /\ "asio_poller_" \in alive
    /\ "curl_multi_" \in alive => global # "cleaned" /\ at <= 3
    /\ \/ phase = "detached" /\ g_amxxcurl_detached
       \/ phase = "attached" /\ ~g_amxxcurl_detached /\ at = 1 /\ alive = Members
          /\ stage = "exiting"

\* What they leave.
Finalized ==
  stage \in {"closed", "exited"} =>
    /\ alive = {} /\ Emptied /\ ctx = "idle"
    /\ stage = "closed" => ~frame_func
    /\ phase # "detached" => ~instance

LifeInv ==
  /\ Unbuilt /\ Attached /\ Detaching /\ Detached /\ Finalizing /\ Finalized
  /\ stage \in {"loaded", "refused"} => ~instance /\ ~frame_func
  /\ phase = "detached" => Emptied
  /\ ~called

-----------------------------------------------------------------------------
(* Steps *)

\* Each chore has its place.
LEMMA Places ==
  ASSUME at \in 1..4
  PROVE  /\ DetachOrder[at] = "detached" <=> at = 1
         /\ DetachOrder[at] = "RemoveAllTasks" <=> at = 2
         /\ DetachOrder[at] = "Shutdown" <=> at = 3
         /\ DetachOrder[at] = "global_cleanup" <=> at = 4
         /\ ExitOrder[at] = "detach_guard" <=> at = 1
         /\ ExitOrder[at] = "~amx_curl_" <=> at = 2
         /\ ExitOrder[at] = "~curl_multi_" <=> at = 3
         /\ ExitOrder[at] = "~asio_poller_" <=> at = 4
         /\ DetachOrder[at] \notin {"detach_guard", "~amx_curl_", "~curl_multi_", "~asio_poller_"}
         /\ ExitOrder[at] \notin {"detached", "RemoveAllTasks", "Shutdown", "global_cleanup"}
<1>1. CASE at = 1
  BY <1>1 DEF DetachOrder, ExitOrder
<1>2. CASE at = 2
  BY <1>2 DEF DetachOrder, ExitOrder
<1>3. CASE at = 3
  BY <1>3 DEF DetachOrder, ExitOrder
<1>4. CASE at = 4
  BY <1>4 DEF DetachOrder, ExitOrder
<1> QED
  BY <1>1, <1>2, <1>3, <1>4

\* A step from one chore to the next.
LEMMA StepFrame ==
  ASSUME at \in 1..4, NEW name, Step(name)
  PROVE  /\ UNCHANGED <<frame_func, instance>>
         /\ at < 4 => at' = at + 1 /\ stage' = stage
         /\ at = 4 => /\ at' = 1
                      /\ stage = "detaching" => stage' = "detached"
                      /\ stage = "closing" => stage' = "closed"
                      /\ stage = "exiting" => stage' = "exited"
BY DEF Step, Ends

\* Erasing no tasks changes nothing.
LEMMA ErasingNothing ==
  ASSUME TypeOK, amx_curl_ = {}, Erases(amx_curl_)
  PROVE  UNCHANGED <<amx_curl_, task, heap, orphans>>
BY DEF Erases, TypeOK, task

\* The steps of TransferManager that a module goes through while it is attached.
LEMMA TransferSteps ==
  /\ NativeRuns \/ PollEnters \/ PollGoesOn \/ PluginsChange => Next /\ UNCHANGED phase
  /\ PollGoesOn => ctx # "idle"
<1>1. ASSUME NEW h \in Handle, NativeOn(h) PROVE UNCHANGED phase
  BY <1>1 DEF NativeOn, PerformUndone, CreateCurl, RemoveTask, RemoveTaskDeferred, CurlPerformTask,
     CurlPerformTaskThrows, CurlPerformTaskFails, CurlReset, frame
<1>2. ASSUME NEW h \in Handle, PollOn(h) PROVE UNCHANGED phase /\ ctx # "idle"
  BY <1>2 DEF PollOn, TransferEnds, PawnCallback, PawnCallbackSkipped, OnPerformComplete,
     OnPerformCompleteSkipped, ReadsMessage, frame
<1>3. ASSUME \/ HandlerRuns \/ CallbackReturns \/ SocketActionReturns \/ ForwardReturns
             \/ CheckMultiInfoReturns \/ FrameEnds \/ DrainPollEnds
      PROVE  UNCHANGED phase /\ ctx # "idle"
  BY <1>3 DEF HandlerRuns, CallbackReturns, SocketActionReturns, ForwardReturns,
     CheckMultiInfoReturns, FrameEnds, DrainPollEnds, Moves
<1>4. CreateCurlFails \/ PollBegins \/ (\E a \in Amx : Unload(a) \/ Load(a)) => UNCHANGED phase
  BY DEF CreateCurlFails, PollBegins, Moves, Unload, Load, frame
<1> QED
  BY <1>1, <1>2, <1>3, <1>4 DEF NativeRuns, PollEnters, PollGoesOn, PluginsChange, Next, Poll

\* Removing all tasks leaves none, and nothing in the multi.
LEMMA RemovalEmpties ==
  ASSUME TypeOK, HeldIsInProgress, RemoveAllTasks
  PROVE  amx_curl_' = {} /\ attached' = {} /\ phase' = "detached" /\ ctx' = ctx
BY DEF RemoveAllTasks, RemovedFromMulti, Erases, HeldIsInProgress

\* Every step of the module is one of its transfers, or none.
LEMMA LifecycleStepIsStep ==
  TypeOK /\ LifecycleTypeOK /\ LifeInv /\ [LifecycleNext]_lifeVars => [Next]_vars
<1> SUFFICES ASSUME TypeOK, LifecycleTypeOK, LifeInv, LifecycleNext PROVE Next \/ UNCHANGED vars
  BY DEF lifeVars
<1>1. CASE DestroysTasks
  <2>1. amx_curl_ = {}
    <3>1. stage \in {"closing", "exiting"} /\ at = 2
      BY <1>1, Places DEF DestroysTasks, Step, LifecycleTypeOK
    <3> QED
      BY <3>1 DEF LifeInv, Finalizing, Emptied
  <2> QED
    BY <1>1, <2>1, ErasingNothing DEF DestroysTasks, vars, table, plugins
<1>2. CASE OnAmxxDetach \/ RemovesAllTasks \/ DetachGuard
  BY <1>2 DEF OnAmxxDetach, RemovesAllTasks, DetachGuard, Next
<1>3. CASE NativeRuns \/ PollEnters \/ PollGoesOn \/ PluginsChange
  BY <1>3, TransferSteps
<1>4. CASE \/ AttachRefused \/ AttachWithoutCurl \/ NativeLooksUp \/ DrainEnds \/ SetsDetached
           \/ Shutdown \/ CleansUpGlobal \/ Closes \/ Exits \/ DetachGuardSkips
           \/ DestroysPoller \/ Over \/ \E offers_frames \in BOOLEAN : AMXX_Attach(offers_frames)
  BY <1>4 DEF AttachRefused, AttachWithoutCurl, NativeLooksUp, DrainEnds, SetsDetached,
     Shutdown, CleansUpGlobal, Closes, Exits, Finalizes, DetachGuardSkips, DestroysPoller,
     Over, lifeVars, AMXX_Attach
<1> QED
  BY <1>1, <1>2, <1>3, <1>4 DEF LifecycleNext

-----------------------------------------------------------------------------
(* The invariant is inductive *)

LEMMA NextLifecycleTypeOK ==
  TypeOK /\ LifecycleTypeOK /\ LifeInv /\ [LifecycleNext]_lifeVars => LifecycleTypeOK'
<1> SUFFICES ASSUME LifecycleTypeOK, LifeInv, [LifecycleNext]_lifeVars PROVE LifecycleTypeOK'
  OBVIOUS
<1> USE DEF LifecycleTypeOK
<1>1. ASSUME NEW name, Step(name) PROVE /\ stage' \in {"detaching", "closing", "exiting",
                                                       "detached", "closed", "exited"}
                                        /\ at' \in 1..4
                                        /\ UNCHANGED <<frame_func, instance>>
  <2>1. stage \in {"detaching", "closing", "exiting"}
    BY <1>1 DEF Step
  <2> QED
    BY <1>1, <2>1, StepFrame
<1>2. CASE \/ SetsDetached \/ RemovesAllTasks \/ Shutdown \/ CleansUpGlobal \/ DetachGuard
           \/ DetachGuardSkips \/ DestroysTasks \/ DestroysPoller
  BY <1>1, <1>2 DEF SetsDetached, RemovesAllTasks, Shutdown, CleansUpGlobal, DetachGuard,
     DetachGuardSkips, DestroysTasks, DestroysPoller, TasksCall, FlagExchanged
<1>3. CASE NativeLooksUp \/ NativeRuns \/ PollEnters \/ OnAmxxDetach
  BY <1>3 DEF NativeLooksUp, NativeRuns, PollEnters, OnAmxxDetach, Instance, Registered,
     FrameAfterDetach
<1>4. CASE \/ AttachRefused \/ AttachWithoutCurl \/ DrainEnds \/ Closes \/ Exits
           \/ \E offers_frames \in BOOLEAN : AMXX_Attach(offers_frames)
  BY <1>4 DEF AttachRefused, AttachWithoutCurl, DrainEnds, Closes, Exits, Finalizes, AMXX_Attach
<1>5. CASE PollGoesOn \/ PluginsChange \/ Over \/ UNCHANGED lifeVars
  BY <1>5 DEF PollGoesOn, PluginsChange, Over, lifeVars, module
<1> QED
  BY <1>2, <1>3, <1>4, <1>5 DEF LifecycleNext

\* Attaching.
LEMMA AttachKeepsLifeInv ==
  ASSUME LifecycleTypeOK, LifeInv,
         \/ AttachRefused \/ AttachWithoutCurl
         \/ \E offers_frames \in BOOLEAN : AMXX_Attach(offers_frames)
  PROVE  LifeInv'
<1>1. /\ ~instance /\ ~frame_func /\ stage' \in {"refused", "attached"}
      /\ UNCHANGED <<vars, instance, alive, g_amxxcurl_detached, called>>
      /\ stage' = "refused" => UNCHANGED frame_func
      /\ stage' = "attached" => global' \in {"up", "failed"}
  BY DEF AttachRefused, AttachWithoutCurl, AMXX_Attach, LifeInv
<1> QED
  BY <1>1 DEF LifeInv, Unbuilt, Attached, Detaching, Detached, Finalizing, Finalized, Emptied,
     vars, table, multi, frame

\* While attached, and when detach begins.
LEMMA AttachedKeepsLifeInv ==
  ASSUME LifecycleTypeOK, LifeInv,
         NativeLooksUp \/ NativeRuns \/ PollEnters \/ PollGoesOn \/ PluginsChange \/ OnAmxxDetach
  PROVE  LifeInv'
<1>1. /\ stage = "attached" /\ stage' = "attached"
      /\ UNCHANGED <<g_amxxcurl_detached, global, called>>
  BY DEF NativeLooksUp, NativeRuns, PollEnters, PollGoesOn, PluginsChange, OnAmxxDetach,
     NativesAdded, module
<1>2. \/ UNCHANGED <<phase, frame_func>>
      \/ phase' = "draining" /\ ~frame_func' /\ instance'
  BY TransferSteps DEF NativeLooksUp, NativeRuns, PollEnters, PollGoesOn, PluginsChange,
     OnAmxxDetach, module, DetachBegins, FrameAfterDetach, Instance, Registered, vars, frame
<1>3. \/ instance' /\ alive' = Members
      \/ ~instance /\ PluginsChange
  <2>1. CASE NativeLooksUp \/ NativeRuns \/ PollEnters \/ OnAmxxDetach
    BY <1>1, <2>1 DEF NativeLooksUp, NativeRuns, PollEnters, OnAmxxDetach, Instance, Registered,
       LifeInv, Attached
  <2>2. CASE PollGoesOn
    BY <1>1, <2>2, TransferSteps DEF PollGoesOn, module, LifeInv, Unbuilt, Attached
  <2>3. CASE PluginsChange
    BY <1>1, <2>3 DEF PluginsChange, module, LifeInv, Attached, LifecycleTypeOK
  <2> QED
    BY <2>1, <2>2, <2>3
<1>4. Unbuilt'
  <2>1. CASE instance'
    BY <2>1 DEF Unbuilt
  <2>2. CASE ~instance /\ PluginsChange
    BY <2>2 DEF PluginsChange, Unload, Load, module, LifeInv, Unbuilt, Emptied, table, multi, frame
  <2> QED
    BY <1>3, <2>1, <2>2
<1>5. Attached'
  <2>1. instance' => alive' = Members
    BY <1>3 DEF PluginsChange, module
  <2>2. phase' \in {"attached", "draining"} /\ (phase' = "draining" => instance' /\ ~frame_func')
    BY <1>1, <1>2, <1>3 DEF LifeInv, Attached
  <2> QED
    BY <1>1, <2>1, <2>2 DEF LifeInv, Attached
<1>6. (phase' = "detached" => Emptied') /\ ~called'
  BY <1>1, <1>5 DEF LifeInv, Attached
<1> QED
  BY <1>1, <1>4, <1>5, <1>6 DEF LifeInv, Detaching, Detached, Finalizing, Finalized

\* From one stage of teardown to the next.
LEMMA StagesKeepLifeInv ==
  ASSUME LifecycleTypeOK, LifeInv, DrainEnds \/ Closes \/ Exits
  PROVE  LifeInv'
<1>1. /\ at' = 1 /\ ctx = "idle"
      /\ UNCHANGED <<vars, frame_func, global, instance, alive, g_amxxcurl_detached, called>>
  BY DEF DrainEnds, Closes, Exits, Finalizes
<1>2. UNCHANGED <<phase, ctx, amx_curl_, attached>>
  BY <1>1 DEF vars, frame, table, multi
<1>3. CASE DrainEnds
  BY <1>1, <1>2, <1>3 DEF DrainEnds, LifeInv, Unbuilt, Attached, Detaching, Detached,
     Finalizing, Finalized, Emptied
<1>4. CASE Closes
  BY <1>1, <1>2, <1>4 DEF Closes, Finalizes, LifeInv, Unbuilt, Attached, Detaching, Detached,
     Finalizing, Finalized, Emptied
<1>5. CASE Exits
  BY <1>1, <1>2, <1>5 DEF Exits, Finalizes, LifeInv, Unbuilt, Attached, Detaching, Detached,
     Finalizing, Finalized, Emptied, Members
<1> QED
  BY <1>3, <1>4, <1>5

\* The steps of OnAmxxDetach.
LEMMA DetachKeepsLifeInv ==
  ASSUME TypeOK, HeldIsInProgress, LifecycleTypeOK, LifeInv, stage = "detaching",
         SetsDetached \/ RemovesAllTasks \/ Shutdown \/ CleansUpGlobal
  PROVE  LifeInv'
<1> USE DEF LifecycleTypeOK
<1>0. /\ instance /\ ctx = "idle" /\ ~frame_func /\ global # "cleaned" /\ ~called
      /\ phase = IF at <= 2 THEN "draining" ELSE "detached"
      /\ g_amxxcurl_detached <=> at >= 2
      /\ alive = IF at <= 3 THEN Members ELSE {"asio_poller_"}
      /\ phase = "detached" => Emptied
  BY DEF LifeInv, Detaching
<1>f. ASSUME NEW name, Step(name)
      PROVE  /\ DetachOrder[at] = name /\ instance' /\ ~frame_func'
             /\ IF at < 4 THEN at' = at + 1 /\ stage' = "detaching" ELSE stage' = "detached"
  BY <1>0, <1>f, StepFrame DEF Step
<1> SUFFICES Detaching' /\ Detached' /\ instance' /\ stage' \in {"detaching", "detached"}
             /\ (phase' = "detached" => Emptied') /\ ~called'
  BY DEF LifeInv, Unbuilt, Attached, Finalizing, Finalized
<1>1. CASE SetsDetached
  <2>1. at = 1 /\ at' = 2 /\ stage' = "detaching" /\ instance' /\ ~frame_func'
    BY <1>1, <1>f, Places DEF SetsDetached
  <2>2. UNCHANGED <<phase, ctx, amx_curl_, attached, global, alive>>
        /\ g_amxxcurl_detached' /\ ~called'
    BY <1>1 DEF SetsDetached, vars, frame, table, multi
  <2> QED
    BY <1>0, <2>1, <2>2 DEF Detaching, Detached, Emptied
<1>2. CASE RemovesAllTasks
  <2>1. at = 2 /\ at' = 3 /\ stage' = "detaching" /\ instance' /\ ~frame_func'
    BY <1>2, <1>f, Places DEF RemovesAllTasks
  <2>2. phase' = "detached" /\ ctx' = "idle" /\ Emptied'
    BY <1>0, <1>2, RemovalEmpties DEF RemovesAllTasks, DetachEnds, Emptied
  <2>3. UNCHANGED <<global, alive, g_amxxcurl_detached>> /\ ~called'
    BY <1>0, <1>2, <2>1 DEF RemovesAllTasks, TasksCall
  <2> QED
    BY <1>0, <2>1, <2>2, <2>3 DEF Detaching, Detached
<1>3. CASE Shutdown
  <2>1. at = 3 /\ at' = 4 /\ stage' = "detaching" /\ instance' /\ ~frame_func'
    BY <1>3, <1>f, Places DEF Shutdown
  <2>2. /\ UNCHANGED <<phase, ctx, amx_curl_, attached, global, g_amxxcurl_detached>>
        /\ alive' = alive \ {"curl_multi_"} /\ ~called'
    BY <1>3 DEF Shutdown, vars, frame, table, multi
  <2> QED
    BY <1>0, <2>1, <2>2 DEF Detaching, Detached, Emptied, Members
<1>4. CASE CleansUpGlobal
  <2>1. at = 4 /\ stage' = "detached" /\ instance' /\ ~frame_func'
    BY <1>4, <1>f, Places DEF CleansUpGlobal
  <2>2. UNCHANGED <<phase, ctx, amx_curl_, attached, alive, g_amxxcurl_detached>> /\ ~called'
    BY <1>4 DEF CleansUpGlobal, vars, frame, table, multi
  <2> QED
    BY <1>0, <2>1, <2>2 DEF Detaching, Detached, Emptied
<1> QED
  BY <1>1, <1>2, <1>3, <1>4

\* The steps of the finalizers.
LEMMA FinalizersKeepLifeInv ==
  ASSUME TypeOK, HeldIsInProgress, LifecycleTypeOK, LifeInv, stage \in {"closing", "exiting"},
         DetachGuard \/ DetachGuardSkips \/ DestroysTasks \/ Shutdown \/ DestroysPoller
  PROVE  LifeInv'
<1> USE DEF LifecycleTypeOK
<1>0. /\ instance /\ ctx = "idle" /\ ~called
      /\ stage = "closing" => ~frame_func
      /\ "asio_poller_" \in alive
      /\ "curl_multi_" \in alive => global # "cleaned" /\ at <= 3
      /\ at > 1 \/ g_amxxcurl_detached => phase = "detached" /\ g_amxxcurl_detached
      /\ phase = "detached" => Emptied
  BY DEF LifeInv, Finalizing
<1>f. ASSUME NEW name, Step(name)
      PROVE  /\ ExitOrder[at] = name /\ instance' /\ UNCHANGED frame_func
             /\ at < 4 => at' = at + 1 /\ stage' = stage
             /\ at = 4 => /\ stage = "closing" => stage' = "closed"
                          /\ stage = "exiting" => stage' = "exited"
  BY <1>0, <1>f, StepFrame DEF Step
<1> SUFFICES Finalizing' /\ Finalized' /\ instance' /\ ~called'
             /\ stage' \in {"closing", "exiting", "closed", "exited"}
             /\ (phase' = "detached" => Emptied')
  BY DEF LifeInv, Unbuilt, Attached, Detaching, Detached
<1>1. CASE DetachGuard \/ DetachGuardSkips
  <2>1. at = 1 /\ at' = 2 /\ stage' = stage /\ instance' /\ UNCHANGED frame_func
    BY <1>1, <1>f, Places DEF DetachGuard, DetachGuardSkips
  <2>2. phase' = "detached" /\ ctx' = "idle" /\ Emptied'
    <3>1. CASE DetachGuard
      BY <1>0, <3>1, RemovalEmpties DEF DetachGuard, ExitWithoutDetach, Emptied
    <3>2. CASE DetachGuardSkips
      BY <1>0, <3>2 DEF DetachGuardSkips, vars, frame, table, multi, Emptied
    <3> QED
      BY <1>1, <3>1, <3>2
  <2>3. UNCHANGED <<global, alive>> /\ g_amxxcurl_detached' /\ ~called'
    BY <1>1 DEF DetachGuard, DetachGuardSkips, FlagExchanged, TasksCall
  <2> QED
    BY <1>0, <2>1, <2>2, <2>3 DEF Finalizing, Finalized
<1>2. CASE DestroysTasks
  <2>1. at = 2 /\ at' = 3 /\ stage' = stage /\ instance' /\ UNCHANGED frame_func
    BY <1>2, <1>f, Places DEF DestroysTasks
  <2>2. phase = "detached" /\ g_amxxcurl_detached /\ Emptied
    BY <1>0, <2>1
  <2>3. /\ UNCHANGED <<phase, ctx, attached, global, alive, g_amxxcurl_detached>>
        /\ amx_curl_' = {} /\ ~called'
    BY <1>2, <2>2 DEF DestroysTasks, Erases, TasksCall, frame, multi, Emptied
  <2> QED
    BY <1>0, <2>1, <2>2, <2>3 DEF Finalizing, Finalized, Emptied
<1>3. CASE Shutdown
  <2>1. at = 3 /\ at' = 4 /\ stage' = stage /\ instance' /\ UNCHANGED frame_func
    BY <1>3, <1>f, Places DEF Shutdown
  <2>2. /\ UNCHANGED <<phase, ctx, amx_curl_, attached, global, g_amxxcurl_detached>>
        /\ alive' = alive \ {"curl_multi_"} /\ ~called'
    BY <1>3 DEF Shutdown, vars, frame, table, multi
  <2> QED
    BY <1>0, <2>1, <2>2 DEF Finalizing, Finalized, Emptied
<1>4. CASE DestroysPoller
  <2>1. at = 4 /\ stage' \in {"closed", "exited"} /\ instance' /\ UNCHANGED frame_func
        /\ (stage' = "closed" => stage = "closing")
    BY <1>4, <1>f, Places DEF DestroysPoller
  <2>2. /\ UNCHANGED <<phase, ctx, amx_curl_, attached, global, g_amxxcurl_detached>>
        /\ alive' = alive \ {"asio_poller_"} /\ ~called'
    BY <1>4 DEF DestroysPoller, vars, frame, table, multi
  <2>3. alive' = {}
    BY <1>0, <2>1, <2>2 DEF Members
  <2> QED
    BY <1>0, <2>1, <2>2, <2>3 DEF Finalizing, Finalized, Emptied
<1> QED
  BY <1>1, <1>2, <1>3, <1>4

LEMMA NextLifeInv ==
  TypeOK /\ HeldIsInProgress /\ LifecycleTypeOK /\ LifeInv /\ [LifecycleNext]_lifeVars
  => LifeInv'
<1> SUFFICES ASSUME TypeOK, HeldIsInProgress, LifecycleTypeOK, LifeInv, [LifecycleNext]_lifeVars
             PROVE  LifeInv'
  OBVIOUS
<1>1. ASSUME \/ SetsDetached \/ RemovesAllTasks \/ Shutdown \/ CleansUpGlobal \/ DetachGuard
             \/ DetachGuardSkips \/ DestroysTasks \/ DestroysPoller
      PROVE  LifeInv'
  <2>1. at \in 1..4
    BY DEF LifecycleTypeOK
  <2>2. SetsDetached \/ RemovesAllTasks \/ CleansUpGlobal => stage = "detaching"
    BY <2>1, Places DEF SetsDetached, RemovesAllTasks, CleansUpGlobal, Step
  <2>3. DetachGuard \/ DetachGuardSkips \/ DestroysTasks \/ DestroysPoller
        => stage \in {"closing", "exiting"}
    BY <2>1, Places DEF DetachGuard, DetachGuardSkips, DestroysTasks, DestroysPoller, Step
  <2>4. Shutdown => stage \in {"detaching", "closing", "exiting"}
    BY DEF Shutdown, Step
  <2> QED
    BY <1>1, <2>2, <2>3, <2>4, DetachKeepsLifeInv, FinalizersKeepLifeInv
<1>2. CASE Over \/ UNCHANGED lifeVars
  BY <1>2 DEF Over, lifeVars, module, vars, frame, table, multi, LifeInv, Unbuilt, Attached,
     Detaching, Detached, Finalizing, Finalized, Emptied
<1> QED
  BY <1>1, <1>2, AttachKeepsLifeInv, AttachedKeepsLifeInv, StagesKeepLifeInv DEF LifecycleNext

LEMMA LifecycleInductive ==
  LifecycleSpec => [](TypeOK /\ HeldIsInProgress /\ LifecycleTypeOK /\ LifeInv)
<1>1. LifecycleInit => TypeOK /\ HeldIsInProgress /\ LifecycleTypeOK /\ LifeInv
  <2> SUFFICES ASSUME LifecycleInit PROVE TypeOK /\ HeldIsInProgress /\ LifecycleTypeOK /\ LifeInv
    OBVIOUS
  <2>1. TypeOK /\ HeldIsInProgress
    BY InitTypeOK DEF LifecycleInit, Init, HeldIsInProgress
  <2>2. LifecycleTypeOK
    <3>1. /\ frame_func \in BOOLEAN /\ instance \in BOOLEAN
          /\ g_amxxcurl_detached \in BOOLEAN /\ called \in BOOLEAN
      BY Zenon DEF LifecycleInit
    <3>2. /\ stage = "loaded" /\ at \in 1..4 /\ global = "none" /\ alive = {}
      BY DEF LifecycleInit
    <3> QED
      BY <3>1, <3>2 DEF LifecycleTypeOK
  <2>3. LifeInv
    BY DEF LifecycleInit, Init, LifeInv, Unbuilt, Attached, Detaching, Detached, Finalizing,
       Finalized, Emptied
  <2> QED
    BY <2>1, <2>2, <2>3
<1>2. TypeOK /\ HeldIsInProgress /\ LifecycleTypeOK /\ LifeInv /\ [LifecycleNext]_lifeVars
      => (TypeOK /\ HeldIsInProgress /\ LifecycleTypeOK /\ LifeInv)'
  BY LifecycleStepIsStep, NextTypeOK, NextHeldIsInProgress, NextLifecycleTypeOK, NextLifeInv
<1> QED
  BY <1>1, <1>2, PTL DEF LifecycleSpec

-----------------------------------------------------------------------------
(* Theorems *)

\* Teardown step by step, finalizers and all, is a run of TransferManager: whatever was
\* proved of transfers holds of them in every stage of the module.
THEOREM LifecycleIsTransfers == LifecycleSpec => Spec
<1>1. LifecycleInit => Init
  BY DEF LifecycleInit
<1> QED
  BY <1>1, LifecycleStepIsStep, LifecycleInductive, PTL DEF LifecycleSpec, Spec

\* The types of the module's state, whatever transfers are in flight (Instance).
THEOREM LifecycleTypeCorrect == LifecycleSpec => []LifecycleTypeOK
BY LifecycleInductive, PTL

\* No destructor of teardown calls KTPAMXX, by either way out (g_amxxcurl_detached).
THEOREM TeardownNeverCalls == LifecycleSpec => []DestructorsSeeDetached
<1>1. LifeInv => DestructorsSeeDetached
  BY DEF LifeInv, DestructorsSeeDetached
<1> QED
  BY <1>1, LifecycleInductive, PTL

\* Transfers, multi, poller and libcurl go in this order (OnAmxxDetach, Shutdown,
\* the members of AmxCurlController).
THEOREM TeardownInOrder == LifecycleSpec => []TornDownInOrder
<1>1. LifecycleTypeOK /\ LifeInv => TornDownInOrder
  <2> SUFFICES ASSUME LifecycleTypeOK, LifeInv PROVE TornDownInOrder
    OBVIOUS
  <2>1. attached # {} => instance /\ phase # "detached"
    BY DEF LifeInv, Unbuilt, Emptied
  <2>2. instance /\ phase # "detached" => "curl_multi_" \in alive
    BY DEF LifeInv, Attached, Detaching, Detached, Finalizing, Finalized, Members,
       LifecycleTypeOK
  <2>3. "curl_multi_" \in alive => "asio_poller_" \in alive /\ global # "cleaned"
    BY DEF LifeInv, Unbuilt, Attached, Detaching, Detached, Finalizing, Finalized, Members,
       LifecycleTypeOK
  <2> QED
    BY <2>1, <2>2, <2>3 DEF TornDownInOrder
<1> QED
  BY <1>1, LifecycleInductive, PTL

\* No frame reaches a module that was closed (OnAmxxDetach).
THEOREM FramesStopInTime == LifecycleSpec => []FramesReachTheModule
<1>1. LifeInv => FramesReachTheModule
  BY DEF LifeInv, Finalizing, Finalized, FramesReachTheModule
<1> QED
  BY <1>1, LifecycleInductive, PTL

\* Teardown step by step still keeps the transfer contract: what it takes down is at an
\* end for the plugin at once.  (Unless addresses are used again.)
THEOREM LifecycleImplementsTransfers ==
  ASSUME "address_reuse" \notin Faults PROVE LifecycleSpec => ImplementsTransfers
BY LifecycleIsTransfers, TransfersImplemented

\* The finalizers leave nothing, by either way out, whatever was in flight and whatever
\* faults occurred (detach_guard, Instance).
THEOREM FinalizersLeaveNothing == LifecycleSpec => []TornDownCompletely
<1>1. LifecycleSpec => []NoLeak
  BY LifecycleIsTransfers, NoDataLeaks, PTL
<1>2. LifeInv /\ TypeOK /\ NoLeak => TornDownCompletely
  <2> SUFFICES ASSUME LifeInv, TypeOK, NoLeak, stage \in {"closed", "exited"}
               PROVE  amx_curl_ = {} /\ heap = {} /\ attached = {} /\ alive = {}
    BY DEF TornDownCompletely
  <2>1. amx_curl_ = {} /\ attached = {} /\ alive = {} /\ ctx = "idle"
    BY DEF LifeInv, Finalized, Emptied
  <2>2. cb_data = NoBuf /\ NoBuf \notin heap
    BY <2>1, NullAssumption DEF TypeOK
  <2> QED
    BY <2>1, <2>2 DEF NoLeak
<1> QED
  BY <1>1, <1>2, LifecycleInductive, PTL
=============================================================================
