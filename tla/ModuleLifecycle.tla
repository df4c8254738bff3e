-------------------------- MODULE ModuleLifecycle --------------------------
(***************************************************************************)
(* The life of the module: AMXX_Attach and AMXX_Detach (amxxmodule.cpp),   *)
(* OnAmxxAttach and OnAmxxDetach (callbacks.cc), and AmxCurlController     *)
(* (amx_curl_controller_class.h), a static of the module that is built at  *)
(* its first use and destroyed by the finalizers.                          *)
(*                                                                         *)
(* Composed with TransferManager, whose detach is one step: here teardown  *)
(* is what the code does one after the other, with whatever transfers were *)
(* in flight, and its two ways are                                         *)
(*                                                                         *)
(*   attached, draining, detaching, detached, closing or exiting           *)
(*   attached, exiting      (extension mode: KTPAMXX goes without a word)  *)
(*                                                                         *)
(* KTPAMXX may be unmapped from the moment the module is detached or exits.*)
(***************************************************************************)
EXTENDS TransferManager

VARIABLES
  stage,                (* where the module is in its life                      *)
  at,                   (* the place in the order of its teardown               *)
  frame_func,           (* KTPAMXX: CurlFrameCallback is registered             *)
  global,               (* libcurl: none, up, failed, cleaned                   *)
  instance,             (* the static was built, its destructor registered      *)
  alive,                (* its members that hold something                      *)
  g_amxxcurl_detached,
  called                (* the last step of teardown called KTPAMXX             *)

module == <<stage, at, frame_func, global, instance, alive, g_amxxcurl_detached, called>>
lifeVars == <<vars, module>>

Members == {"asio_poller_", "curl_multi_"}

LifecycleTypeOK ==
  /\ stage \in {"loaded", "refused", "attached", "detaching", "detached", "closing", "closed",
                "exiting", "exited"}
  /\ at \in 1..4
  /\ frame_func \in BOOLEAN
  /\ global \in {"none", "up", "failed", "cleaned"}
  /\ instance \in BOOLEAN
  /\ alive \subseteq Members /\ (alive # {} => instance)
  /\ g_amxxcurl_detached \in BOOLEAN
  /\ called \in BOOLEAN

LifecycleInit ==
  /\ Init
  /\ stage = "loaded" /\ at = 1
  /\ frame_func = FALSE /\ global = "none"
  /\ instance = FALSE /\ alive = {}
  /\ g_amxxcurl_detached = FALSE /\ called = FALSE

-----------------------------------------------------------------------------
(* Attach *)

\* KTPAMXX lacks a function the module requires: OnAmxxAttach is not reached.
AttachRefused ==
  /\ stage = "loaded" /\ stage' = "refused"
  /\ UNCHANGED <<vars, at, frame_func, global, instance, alive, g_amxxcurl_detached, called>>

\* The functions for frames are optional; KTPAMXX has both of them or neither.
AMXX_Attach(offers_frames) ==
  /\ stage = "loaded" /\ stage' = "attached"
  /\ global' = "up" /\ frame_func' = offers_frames
  /\ UNCHANGED <<vars, at, instance, alive, g_amxxcurl_detached, called>>

\* curl_global_init fails: no natives, no frames, but the module counts as attached.
AttachWithoutCurl ==
  /\ stage = "loaded" /\ stage' = "attached"
  /\ global' = "failed"
  /\ UNCHANGED <<vars, at, frame_func, instance, alive, g_amxxcurl_detached, called>>

-----------------------------------------------------------------------------
(* While attached *)

\* Mutant: the destructor is not registered.
NotRegistered == instance

\* Whether the destructor and the guard are registered once the instance was built.
Registered == TRUE

\* AmxCurlController::Instance: the first use builds it.
Instance ==
  /\ instance' = Registered
  /\ alive' = IF instance THEN alive ELSE Members

\* Natives are only known to plugins if libcurl could be initialised.
NativesAdded == stage = "attached" /\ global = "up"

\* A native that looks up a handle builds the instance, whether or not the handle exists.
NativeLooksUp ==
  /\ NativesAdded /\ PawnRuns
  /\ Instance
  /\ UNCHANGED <<vars, stage, at, frame_func, global, g_amxxcurl_detached, called>>

NativeRuns ==
  /\ NativesAdded
  /\ CreateCurlFails \/ \E h \in Handle : NativeOn(h)
  /\ Instance
  /\ UNCHANGED <<stage, at, frame_func, global, g_amxxcurl_detached, called>>

\* CurlFrameCallback if it is registered, or the drain loop.
PollEnters ==
  /\ stage = "attached" /\ (phase = "attached" => frame_func)
  /\ PollBegins
  /\ Instance
  /\ UNCHANGED <<stage, at, frame_func, global, g_amxxcurl_detached, called>>

PollGoesOn ==
  /\ stage = "attached"
  /\ \/ HandlerRuns \/ CallbackReturns \/ SocketActionReturns \/ ForwardReturns
     \/ CheckMultiInfoReturns \/ FrameEnds \/ DrainPollEnds
     \/ \E h \in Handle : PollOn(h)
  /\ UNCHANGED module

PluginsChange ==
  /\ stage = "attached"
  /\ \E a \in Amx : Unload(a) \/ Load(a)
  /\ UNCHANGED module

-----------------------------------------------------------------------------
(* Detach *)

\* Mutant: the frame callback stays registered.
FrameStays == frame_func

\* Whether KTPAMXX still has the frame callback once OnAmxxDetach has begun.
FrameAfterDetach == FALSE

OnAmxxDetach ==
  /\ stage = "attached"
  /\ DetachBegins
  /\ frame_func' = FrameAfterDetach
  /\ Instance
  /\ UNCHANGED <<stage, at, global, g_amxxcurl_detached, called>>

\* The drain loop is left.
DrainEnds ==
  /\ stage = "attached" /\ phase = "draining" /\ ctx = "idle"
  /\ stage' = "detaching" /\ at' = 1
  /\ UNCHANGED <<vars, frame_func, global, instance, alive, g_amxxcurl_detached, called>>

\* Mutant: the flag is set once the tasks are gone, as before 1.3.10.
FlagAfterTasks == <<"RemoveAllTasks", "detached", "Shutdown", "global_cleanup">>

\* Mutant: libcurl is cleaned up while the multi is there.
ShutdownLast == <<"detached", "RemoveAllTasks", "global_cleanup", "Shutdown">>

\* What OnAmxxDetach does after the drain loop.
DetachOrder == <<"detached", "RemoveAllTasks", "Shutdown", "global_cleanup">>

\* Mutant: the guard is registered first, and so runs last.
GuardLast == <<"~amx_curl_", "~curl_multi_", "~asio_poller_", "detach_guard">>

\* Mutant: the poller is declared after the manager.
PollerFirst == <<"detach_guard", "~asio_poller_", "~amx_curl_", "~curl_multi_">>

\* The finalizers, last registered first: the guard, then the members of the instance,
\* last declared first.
ExitOrder == <<"detach_guard", "~amx_curl_", "~curl_multi_", "~asio_poller_">>

Ends == [detaching |-> "detached", closing |-> "closed", exiting |-> "exited"]

\* A step of teardown, and on to the next one.
Step(name) ==
  /\ \/ stage = "detaching" /\ DetachOrder[at] = name
     \/ stage \in {"closing", "exiting"} /\ ExitOrder[at] = name
  /\ IF at = 4 THEN stage' = Ends[stage] /\ at' = 1 ELSE at' = at + 1 /\ stage' = stage
  /\ UNCHANGED <<frame_func, instance>>

\* ~CurlCallbackAmx of any task asks KTPAMXX for its plugin, unless the flag is set.
TasksCall(flag) == amx_curl_ # {} /\ ~flag

SetsDetached ==
  /\ Step("detached")
  /\ g_amxxcurl_detached' = TRUE /\ called' = FALSE
  /\ UNCHANGED <<vars, global, alive>>

RemovesAllTasks ==
  /\ Step("RemoveAllTasks")
  /\ DetachEnds
  /\ called' = TasksCall(g_amxxcurl_detached)
  /\ UNCHANGED <<global, alive, g_amxxcurl_detached>>

\* CurlMulti::Shutdown: nothing is left to do the second time.
Shutdown ==
  /\ Step("Shutdown") \/ Step("~curl_multi_")
  /\ alive' = alive \ {"curl_multi_"} /\ called' = FALSE
  /\ UNCHANGED <<vars, global, g_amxxcurl_detached>>

CleansUpGlobal ==
  /\ Step("global_cleanup")
  /\ global' = "cleaned" /\ called' = FALSE
  /\ UNCHANGED <<vars, alive, g_amxxcurl_detached>>

-----------------------------------------------------------------------------
(* Finalizers *)

\* The finalizers begin: there are none if the instance was never built.
Finalizes(next, end) ==
  /\ ctx = "idle" /\ stage' = (IF instance THEN next ELSE end) /\ at' = 1
  /\ UNCHANGED <<vars, frame_func, global, instance, alive, g_amxxcurl_detached, called>>

\* KTPAMXX closes the module it has detached or refused.
Closes == stage \in {"refused", "detached"} /\ Finalizes("closing", "closed")

\* The process exits, from between frames or after detach.
Exits ==
  /\ stage \in {"loaded", "refused", "attached", "detached"} /\ phase # "draining"
  /\ Finalizes("exiting", "exited")

\* Mutant: the guard leaves the flag alone.
FlagLeft == g_amxxcurl_detached

\* The flag after the guard: exchange(true).
FlagExchanged == TRUE

\* The guard is the teardown when there was no detach ...
DetachGuard ==
  /\ Step("detach_guard") /\ ~g_amxxcurl_detached
  /\ g_amxxcurl_detached' = FlagExchanged
  /\ ExitWithoutDetach
  /\ called' = TasksCall(FlagExchanged)
  /\ UNCHANGED <<global, alive>>

\* ... and must not touch libcurl when there was.
DetachGuardSkips ==
  /\ Step("detach_guard") /\ g_amxxcurl_detached
  /\ called' = FALSE
  /\ UNCHANGED <<vars, global, alive, g_amxxcurl_detached>>

\* ~AmxCurlManager destroys the tasks there still are, whatever multi they are in.
DestroysTasks ==
  /\ Step("~amx_curl_")
  /\ Erases(amx_curl_)
  /\ called' = TasksCall(g_amxxcurl_detached)
  /\ UNCHANGED <<free_handles_, multi, loaded, frame, global, alive, g_amxxcurl_detached>>

DestroysPoller ==
  /\ Step("~asio_poller_")
  /\ alive' = alive \ {"asio_poller_"} /\ called' = FALSE
  /\ UNCHANGED <<vars, global, g_amxxcurl_detached>>

Over == stage \in {"closed", "exited"} /\ UNCHANGED lifeVars

LifecycleNext ==
  \/ AttachRefused \/ AttachWithoutCurl
  \/ \E offers_frames \in BOOLEAN : AMXX_Attach(offers_frames)
  \/ NativeLooksUp \/ NativeRuns
  \/ PollEnters \/ PollGoesOn \/ PluginsChange
  \/ OnAmxxDetach \/ DrainEnds
  \/ SetsDetached \/ RemovesAllTasks \/ Shutdown \/ CleansUpGlobal
  \/ Closes \/ Exits
  \/ DetachGuard \/ DetachGuardSkips \/ DestroysTasks \/ DestroysPoller
  \/ Over

LifecycleSpec == LifecycleInit /\ [][LifecycleNext]_lifeVars

-----------------------------------------------------------------------------
(* What the code promises *)

\* No destructor that teardown runs calls KTPAMXX, which may be unmapped: each sees the
\* flag, by either way out and with whatever was in flight.  (OnAmxxDetach, detach_guard,
\* ~CurlCallbackAmx.)
DestructorsSeeDetached == ~called

\* Teardown takes things down in the order of their needs: the multi outlives the
\* transfers in it, and the poller and libcurl outlive the multi.  (OnAmxxDetach, the
\* members of AmxCurlController and AmxCurlManager, Shutdown.)
TornDownInOrder ==
  /\ attached # {} => "curl_multi_" \in alive
  /\ "curl_multi_" \in alive => "asio_poller_" \in alive /\ global # "cleaned"

\* When the finalizers have run nothing is left: no task, no data, nothing in the multi,
\* and no multi, whether or not the module was detached before.  (Instance, detach_guard.)
TornDownCompletely ==
  stage \in {"closed", "exited"} =>
    amx_curl_ = {} /\ heap = {} /\ attached = {} /\ alive = {}

\* No frame calls into a module that was closed.  (OnAmxxDetach, UnregModuleFrameFunc.)
FramesReachTheModule == stage \in {"closing", "closed"} => ~frame_func
=============================================================================
