-------------------------- MODULE TransferManager --------------------------
(***************************************************************************)
(* The life of a transfer: AmxCurlManager (amx_curl_manager_class.h), the  *)
(* tasks it holds (AmxCurl, amx_curl_class.h), the half of CurlMulti that  *)
(* attaches and completes them, and the frame and detach callbacks that    *)
(* drive them (callbacks.cc, amx_curl_controller_class.h).                 *)
(*                                                                         *)
(* A task is its handle number: it lives in a node of amx_curl_ that never *)
(* moves, and dies with it.  One game thread runs all of it; `ctx' is what *)
(* that thread is inside of:                                               *)
(*                                                                         *)
(*   idle        outside the module; plugins may call natives              *)
(*   poll        in AsioPoller::Poll, between two handlers                 *)
(*   libcurl     in curl_multi_socket_action                               *)
(*   callback    in a Pawn data callback libcurl asked for, for `cur'      *)
(*   checking    in CheckMultiInfo                                         *)
(*   completing  in the Pawn completion forward of `cur'                   *)
(*                                                                         *)
(* A perform is refused or undone without trace in several places, and the *)
(* natives that only read, or fail on an invalid handle or an unknown      *)
(* callback name, change nothing: those are stutters and have no action.   *)
(***************************************************************************)
EXTENDS Integers, Sequences, FiniteSets

CONSTANTS
  MaxHandle,  (* a bound on handle numbers; the code has none                 *)
  Amx,        (* addresses of AMX structures, one per loaded plugin           *)
  NoAmx,      (* the amx_ of no task                                          *)
  Buf,        (* callback-data arrays alive at once                           *)
  NoBuf,      (* a null data pointer                                          *)
  Faults      (* what the code does not expect                                *)

Handle == 1..MaxHandle
NoHandle == 0

FaultKinds ==
  {"address_reuse",   (* a new plugin at the address of an unloaded one       *)
   "perform_throws"}  (* bad_alloc in Perform, after it took the data         *)

ASSUME HandleAssumption == MaxHandle \in Nat \ {0}
ASSUME NullAssumption == NoAmx \notin Amx /\ NoBuf \notin Buf
ASSUME FaultsAssumption == Faults \subseteq FaultKinds

VARIABLES
  amx_curl_,                  (* the handles that have a task                 *)
  free_handles_,              (* numbers to hand out again, first in first out*)
  amx_,                       (* the fields of each task ...                  *)
  amx_callback_data_,
  is_transfer_in_progress_,   (* ... as the set of tasks where it is true,    *)
  cleanup_deferred_,          (* ... likewise                                 *)
  interrupt_,                 (* ... likewise, in its CurlCallbackAmx         *)
  curl_map_,                  (* the tasks with a completion callback         *)
  attached,                   (* libcurl: the easy handles in the multi       *)
  done,                       (* libcurl: those with a message to be read     *)
  heap,                       (* the data arrays allocated and not yet freed  *)
  cb_data,                    (* the array on the stack of OnPerformComplete  *)
  loaded,                     (* external: the plugins AMXX has loaded        *)
  orphans,                    (* tasks whose plugin has been unloaded         *)
  phase,                      (* attached, draining, detached                 *)
  ctx, cur

task == <<amx_, amx_callback_data_, is_transfer_in_progress_, cleanup_deferred_, interrupt_>>
table == <<amx_curl_, free_handles_>>
multi == <<curl_map_, attached, done>>
plugins == <<loaded, orphans>>
frame == <<phase, ctx, cur, cb_data>>
vars == <<table, task, multi, heap, plugins, frame>>

TypeOK ==
  /\ amx_curl_ \subseteq Handle
  /\ free_handles_ \in Seq(Handle)
  /\ amx_ \in [Handle -> Amx \cup {NoAmx}]
  /\ amx_callback_data_ \in [Handle -> Buf \cup {NoBuf}]
  /\ is_transfer_in_progress_ \subseteq amx_curl_
  /\ cleanup_deferred_ \subseteq amx_curl_
  /\ interrupt_ \subseteq amx_curl_
  /\ curl_map_ \subseteq Handle
  /\ attached \subseteq Handle
  /\ done \subseteq attached
  /\ heap \subseteq Buf
  /\ cb_data \in Buf \cup {NoBuf}
  /\ loaded \subseteq Amx
  /\ orphans \subseteq amx_curl_
  /\ phase \in {"attached", "draining", "detached"}
  /\ ctx \in {"idle", "poll", "libcurl", "callback", "checking", "completing"}
  /\ cur \in Handle \cup {NoHandle}
  /\ cb_data # NoBuf => ctx = "completing"

Init ==
  /\ amx_curl_ = {}
  /\ free_handles_ = <<>>
  /\ amx_ = [h \in Handle |-> NoAmx]
  /\ amx_callback_data_ = [h \in Handle |-> NoBuf]
  /\ is_transfer_in_progress_ = {} /\ cleanup_deferred_ = {} /\ interrupt_ = {}
  /\ curl_map_ = {} /\ attached = {} /\ done = {}
  /\ heap = {} /\ cb_data = NoBuf
  /\ loaded = Amx /\ orphans = {}
  /\ phase = "attached" /\ ctx = "idle" /\ cur = NoHandle

-----------------------------------------------------------------------------
(* Handle numbers *)

\* Mutant: front() without pop().
QueueKeptAfterTake == free_handles_

\* The queue after GetCurlHandle took its number.
QueueAfterTake == IF free_handles_ = <<>> THEN <<>> ELSE Tail(free_handles_)

\* GetCurlHandle: the oldest free number, else the first unused one above the size.
IsNextHandle(h) ==
  IF free_handles_ # <<>> THEN h = Head(free_handles_)
  ELSE /\ h > Cardinality(amx_curl_)
       /\ h \notin amx_curl_
       /\ \A k \in Cardinality(amx_curl_) + 1 .. h - 1 : k \in amx_curl_

-----------------------------------------------------------------------------
(* Natives, called by a plugin *)

\* Pawn runs between frames until detach begins, and inside the two callbacks.
PawnRuns == ctx \in {"callback", "completing"} \/ (ctx = "idle" /\ phase = "attached")

\* A handle is used by its plugin: nobody uses those of an unloaded one.
Uses(h) == PawnRuns /\ h \in amx_curl_ /\ amx_[h] \in loaded /\ h \notin orphans

CreateCurl(a, h) ==
  /\ PawnRuns /\ a \in loaded
  /\ IsNextHandle(h)
  /\ amx_curl_' = amx_curl_ \cup {h}
  /\ free_handles_' = QueueAfterTake
  /\ amx_' = [amx_ EXCEPT ![h] = a]
  /\ UNCHANGED <<amx_callback_data_, is_transfer_in_progress_, cleanup_deferred_,
                 interrupt_, multi, heap, plugins, frame>>

\* curl_easy_init fails after the number was taken: a recycled one is forgotten.
CreateCurlFails ==
  /\ PawnRuns
  /\ free_handles_ # <<>>
  /\ free_handles_' = QueueAfterTake
  /\ UNCHANGED <<amx_curl_, task, multi, heap, plugins, frame>>

\* The tasks of a set of handles are erased; ~AmxCurl frees the data they own.
Erases(hs) ==
  /\ amx_curl_' = amx_curl_ \ hs
  /\ amx_' = [h \in Handle |-> IF h \in hs THEN NoAmx ELSE amx_[h]]
  /\ amx_callback_data_' = [h \in Handle |-> IF h \in hs THEN NoBuf ELSE amx_callback_data_[h]]
  /\ is_transfer_in_progress_' = is_transfer_in_progress_ \ hs
  /\ cleanup_deferred_' = cleanup_deferred_ \ hs
  /\ interrupt_' = interrupt_ \ hs
  /\ orphans' = orphans \ hs
  /\ heap' = heap \ {amx_callback_data_[h] : h \in hs}

\* Mutant: curl_easy_cleanup destroys a task in flight.
DefersNothing(h) == FALSE

\* curl_easy_cleanup of a transfer in flight is put off until it has ended.
Defers(h) == h \in is_transfer_in_progress_

RemoveTask(h) ==
  /\ Uses(h) /\ ~Defers(h)
  /\ Erases({h})
  /\ free_handles_' = Append(free_handles_, h)
  /\ UNCHANGED <<multi, loaded, frame>>

RemoveTaskDeferred(h) ==
  /\ Uses(h) /\ Defers(h)
  /\ cleanup_deferred_' = cleanup_deferred_ \cup {h}
  /\ interrupt_' = interrupt_ \cup {h}
  /\ UNCHANGED <<table, amx_, amx_callback_data_, is_transfer_in_progress_,
                 multi, heap, plugins, frame>>

\* Mutant: a transfer in flight is performed again.
RefusesNothing(h) == FALSE

\* A perform or a reset of a transfer in flight is refused; the data is freed.
Refuses(h) == h \in is_transfer_in_progress_

\* Perform takes the new data and frees what an earlier perform left behind.
TakesData(h, b) ==
  heap' = (heap \ {amx_callback_data_[h]}) \cup ({b} \ {NoBuf})

\* The call has its data copied to a new array, or passes none.
GivesData(b) == b \in (Buf \ heap) \cup {NoBuf}

\* curl_multi_add_handle refuses a handle it has, and any while in a callback.
MayAttach(h) == h \notin attached /\ ctx # "callback"

CurlPerformTask(h, b) ==
  /\ Uses(h) /\ ~Refuses(h) /\ GivesData(b)
  /\ MayAttach(h)
  /\ TakesData(h, b)
  /\ amx_callback_data_' = [amx_callback_data_ EXCEPT ![h] = b]
  /\ is_transfer_in_progress_' = is_transfer_in_progress_ \cup {h}
  /\ curl_map_' = curl_map_ \cup {h}
  /\ attached' = attached \cup {h}
  /\ UNCHANGED <<table, amx_, cleanup_deferred_, interrupt_, done, plugins, frame>>

\* Mutant: the failure leaves the task in progress.
ZombieAfterFailure(h) == is_transfer_in_progress_ \cup {h}

\* What is in progress after AddCurl failed: the flag is undone.
InProgressAfterFailure(h) == is_transfer_in_progress_ \ {h}

\* AddCurl fails, for want of memory or in a callback: its map entry is erased again,
\* and Perform undoes the flag and frees the data.
CurlPerformTaskFails(h) ==
  /\ Uses(h) /\ ~Refuses(h)
  /\ is_transfer_in_progress_' = InProgressAfterFailure(h)
  /\ curl_map_' = curl_map_ \ {h}
  /\ amx_callback_data_' = [amx_callback_data_ EXCEPT ![h] = NoBuf]
  /\ heap' = heap \ {amx_callback_data_[h]}
  /\ UNCHANGED <<table, amx_, cleanup_deferred_, interrupt_, attached, done, plugins, frame>>

\* Perform throws once the member holds the data; the native's catch frees it too.
CurlPerformTaskThrows(h, b) ==
  /\ "perform_throws" \in Faults
  /\ Uses(h) /\ ~Refuses(h) /\ GivesData(b)
  /\ amx_callback_data_' = [amx_callback_data_ EXCEPT ![h] = b]
  /\ is_transfer_in_progress_' = is_transfer_in_progress_ \cup {h}
  /\ heap' = heap \ {amx_callback_data_[h]}
  /\ UNCHANGED <<table, amx_, cleanup_deferred_, interrupt_, multi, plugins, frame>>

CurlReset(h) ==
  /\ Uses(h) /\ ~Refuses(h)
  /\ h \in interrupt_
  /\ interrupt_' = interrupt_ \ {h}
  /\ UNCHANGED <<table, amx_, amx_callback_data_, is_transfer_in_progress_,
                 cleanup_deferred_, multi, heap, plugins, frame>>

-----------------------------------------------------------------------------
(* A frame: Poll runs handlers, handlers run libcurl, then the sweep *)

\* The thread goes from one place to another and changes nothing else.
Moves(from, to) ==
  /\ ctx = from /\ ctx' = to
  /\ UNCHANGED <<table, task, multi, heap, plugins, phase, cur, cb_data>>

\* CurlFrameCallback, or the drain loop of OnAmxxDetach, enters Poll.
PollBegins ==
  /\ phase = "attached" \/ (phase = "draining" /\ is_transfer_in_progress_ # {})
  /\ Moves("idle", "poll")

\* Poll runs a handler: of the timer, a posted task or a socket.
HandlerRuns == Moves("poll", "libcurl")

\* Inside the multi a transfer ends, for whatever reason.
TransferEnds(h) ==
  /\ ctx = "libcurl"
  /\ h \in attached \ done
  /\ done' = done \cup {h}
  /\ UNCHANGED <<table, task, curl_map_, attached, heap, plugins, frame>>

\* IsAmxValid, and the check in OnPerformComplete: the pointer is compared.
AmxValid(h) == phase # "detached" /\ amx_[h] \in loaded

\* libcurl asks for a data callback: it may reach Pawn, unless interrupted.  Which of the
\* callbacks have a forward to reach it by, DataCallbacks says ...
PawnCallback(h) ==
  /\ h \in attached \ done
  /\ h \notin interrupt_ /\ AmxValid(h)
  /\ ctx = "libcurl" /\ ctx' = "callback" /\ cur' = h
  /\ UNCHANGED <<table, task, multi, heap, plugins, phase, cb_data>>

\* ... and interrupts the transfer itself once the plugin is gone.
PawnCallbackSkipped(h) ==
  /\ ctx = "libcurl"
  /\ h \in attached \ done
  /\ h \notin interrupt_ /\ ~AmxValid(h)
  /\ interrupt_' = interrupt_ \cup {h}
  /\ UNCHANGED <<table, amx_, amx_callback_data_, is_transfer_in_progress_,
                 cleanup_deferred_, multi, heap, plugins, frame>>

CallbackReturns ==
  /\ ctx = "callback" /\ ctx' = "libcurl" /\ cur' = NoHandle
  /\ UNCHANGED <<table, task, multi, heap, plugins, phase, cb_data>>

SocketActionReturns == Moves("libcurl", "checking")

\* Mutant: the member keeps the array it handed over.
DataKept(h) == amx_callback_data_

\* OnPerformComplete takes the data out of the member.
DataTaken(h) == [amx_callback_data_ EXCEPT ![h] = NoBuf]

\* Mutant: the plugin is not looked up before its forward is called.
SkipsNoForward(h) == FALSE

\* Whether OnPerformComplete returns before it registers the forward.
SkipsForward(h) == ~AmxValid(h)

\* CheckMultiInfo reads the message of h, and OnPerformComplete detaches the handle.
ReadsMessage(h) ==
  /\ ctx = "checking"
  /\ h \in done /\ h \in curl_map_
  /\ done' = done \ {h}
  /\ curl_map_' = curl_map_ \ {h}
  /\ attached' = attached \ {h}
  /\ is_transfer_in_progress_' = is_transfer_in_progress_ \ {h}
  /\ amx_callback_data_' = DataTaken(h)
  /\ UNCHANGED <<table, amx_, cleanup_deferred_, interrupt_, plugins, phase>>

OnPerformComplete(h) ==
  /\ ReadsMessage(h)
  /\ ~SkipsForward(h)
  /\ ctx' = "completing" /\ cur' = h /\ cb_data' = amx_callback_data_[h]
  /\ UNCHANGED heap

OnPerformCompleteSkipped(h) ==
  /\ ReadsMessage(h)
  /\ SkipsForward(h)
  /\ heap' = heap \ {amx_callback_data_[h]}
  /\ UNCHANGED <<ctx, cur, cb_data>>

\* Mutant: the local that was freed is kept, to be freed again.
FreedIsKept == cb_data

\* What the local holds once its array was freed.
FreedIsGone == NoBuf

\* The forward returns and the array is freed; the task may be gone by now.
ForwardReturns ==
  /\ ctx = "completing" /\ ctx' = "checking" /\ cur' = NoHandle
  /\ heap' = heap \ {cb_data} /\ cb_data' = FreedIsGone
  /\ UNCHANGED <<table, task, multi, plugins, phase>>

\* No message is left, but for handles without a callback: those are dropped.
CheckMultiInfoReturns ==
  /\ ctx = "checking" /\ ctx' = "poll"
  /\ done \cap curl_map_ = {}
  /\ done' = {}
  /\ UNCHANGED <<table, task, curl_map_, attached, heap, plugins, phase, cur, cb_data>>

\* Mutant: the sweep goes by the interrupt, which a reset takes back.
SweptByInterrupt ==
  {h \in cleanup_deferred_ : h \in interrupt_ /\ h \notin is_transfer_in_progress_}

\* The handles a sweep frees.
Swept == {h \in cleanup_deferred_ : h \notin is_transfer_in_progress_}

\* The orders in which amx_curl_ may yield a set of handles.
Orders(hs) ==
  {s \in [1..Cardinality(hs) -> hs] : \A i, j \in 1..Cardinality(hs) : s[i] = s[j] => i = j}

\* CurlFrameCallback: Poll returns and SweepDeferredCleanups runs.
FrameEnds ==
  /\ ctx = "poll" /\ phase = "attached"
  /\ Erases(Swept)
  /\ \E s \in Orders(Swept) : free_handles_' = free_handles_ \o s
  /\ ctx' = "idle"
  /\ UNCHANGED <<multi, loaded, phase, cur, cb_data>>

\* In the drain loop nothing is swept.
DrainPollEnds == phase = "draining" /\ Moves("poll", "idle")

-----------------------------------------------------------------------------
(* Plugins and the module come and go *)

\* A map change unloads a plugin, while its transfers go on.
Unload(a) ==
  /\ ctx = "idle" /\ phase = "attached" /\ a \in loaded
  /\ loaded' = loaded \ {a}
  /\ orphans' = orphans \cup {h \in amx_curl_ : amx_[h] = a}
  /\ UNCHANGED <<table, task, multi, heap, frame>>

Load(a) ==
  /\ ctx = "idle" /\ phase = "attached" /\ a \notin loaded
  /\ "address_reuse" \in Faults \/ \A h \in amx_curl_ : amx_[h] # a
  /\ loaded' = loaded \cup {a}
  /\ UNCHANGED <<table, task, multi, heap, orphans, frame>>

\* OnAmxxDetach unregisters the frame and interrupts every transfer.
DetachBegins ==
  /\ ctx = "idle" /\ phase = "attached"
  /\ phase' = "draining"
  /\ interrupt_' = amx_curl_
  /\ UNCHANGED <<table, amx_, amx_callback_data_, is_transfer_in_progress_,
                 cleanup_deferred_, multi, heap, plugins, ctx, cur, cb_data>>

\* Mutant: tasks are destroyed without leaving the multi first.
RemovesNone == {}

\* The transfers RemoveAllTasks takes out of the multi before it destroys the tasks.
RemovedFromMulti == is_transfer_in_progress_

\* RemoveAllTasks and Shutdown, with g_amxxcurl_detached set.
RemoveAllTasks ==
  /\ phase' = "detached"
  /\ curl_map_' = curl_map_ \ RemovedFromMulti
  /\ attached' = attached \ RemovedFromMulti
  /\ done' = done \ RemovedFromMulti
  /\ Erases(amx_curl_)
  /\ free_handles_' = <<>>
  /\ UNCHANGED <<loaded, ctx, cur, cb_data>>

\* The drain loop is left when all is completed, or after five seconds.
DetachEnds == ctx = "idle" /\ phase = "draining" /\ RemoveAllTasks

\* The engine exits with no OnAmxxDetach: the atexit guard does the same.
ExitWithoutDetach == ctx = "idle" /\ phase = "attached" /\ RemoveAllTasks

Stopped == phase = "detached" /\ UNCHANGED vars

\* A perform that changes something and starts nothing.
PerformUndone(h) ==
  /\ PawnRuns
  /\ \/ CurlPerformTaskFails(h)
     \/ \E b \in Buf \cup {NoBuf} : CurlPerformTaskThrows(h, b)

NativeOn(h) ==
  \/ \E a \in Amx : CreateCurl(a, h)
  \/ RemoveTask(h) \/ RemoveTaskDeferred(h)
  \/ \E b \in Buf \cup {NoBuf} : CurlPerformTask(h, b)
  \/ PerformUndone(h)
  \/ CurlReset(h)

PollOn(h) ==
  \/ TransferEnds(h)
  \/ PawnCallback(h) \/ PawnCallbackSkipped(h)
  \/ OnPerformComplete(h) \/ OnPerformCompleteSkipped(h)

Poll ==
  \/ PollBegins \/ HandlerRuns
  \/ \E h \in Handle : PollOn(h)
  \/ CallbackReturns \/ SocketActionReturns \/ ForwardReturns \/ CheckMultiInfoReturns
  \/ FrameEnds \/ DrainPollEnds

Next ==
  \/ \E h \in Handle : NativeOn(h)
  \/ CreateCurlFails
  \/ Poll
  \/ \E a \in Amx : Unload(a) \/ Load(a)
  \/ DetachBegins \/ DetachEnds \/ ExitWithoutDetach
  \/ Stopped

Spec == Init /\ [][Next]_vars

-----------------------------------------------------------------------------
(* What the code promises *)

\* A handle number is never live and free at once, nor free twice: two plugins would
\* share a task.  (GetCurlHandle, FreeCurlHandle and their callers.)
HandlesDistinct ==
  /\ \A i \in DOMAIN free_handles_ : free_handles_[i] \notin amx_curl_
  /\ \A i, j \in DOMAIN free_handles_ : free_handles_[i] = free_handles_[j] => i = j

\* A task says it is in progress exactly while libcurl holds its easy handle and its
\* completion callback is registered: it is no zombie, and no transfer ends unheard,
\* whatever natives run inside callbacks.  (Perform, AddCurl, OnPerformComplete.)
InProgressIffAttached ==
  /\ curl_map_ = is_transfer_in_progress_
  /\ attached = is_transfer_in_progress_

\* libcurl and curl_map_ never hold on to a task that was destroyed.  (RemoveTask,
\* SweepDeferredCleanups, RemoveAllTasks.)
NoAttachedDestroyed == attached \cup curl_map_ \subseteq amx_curl_

\* Every allocated data array has one owner, a task or the running completion, and
\* what they own is allocated: none is leaked and none is freed twice.  (The native
\* curl_easy_perform, CurlPerformTask, Perform, OnPerformComplete, ~AmxCurl.)
OwnedOnce ==
  LET owned(h) == amx_callback_data_[h] IN
  /\ heap = ({owned(h) : h \in amx_curl_} \cup {cb_data}) \ {NoBuf}
  /\ \A h \in amx_curl_ : owned(h) # NoBuf =>
       owned(h) # cb_data /\ \A k \in amx_curl_ \ {h} : owned(k) # owned(h)

\* Between frames, a cleanup that is still put off waits for a transfer that runs:
\* what ended in the frame was freed in it, even if the completion reset the handle
\* or performed it again.  (RemoveTask, CurlFrameCallback, SweepDeferredCleanups.)
SweptByFrameEnd ==
  ctx = "idle" /\ phase = "attached" => cleanup_deferred_ \subseteq is_transfer_in_progress_

\* The completion forward of a transfer is only called in the plugin that made the handle,
\* not in one that was loaded since.  (OnPerformComplete and its MF_FindScriptByAmx.)
NoForeignCompletion == ctx = "completing" => cur \notin orphans

\* The task whose data callback runs in Pawn is not destroyed under it, nor does its
\* transfer leave the multi, whatever natives the callback calls on it or on others.
\* (curl_easy_cleanup, RemoveTask, CurlPerformTask.)
CallbackTaskLives ==
  ctx = "callback" => cur \in attached \ done /\ cur \in is_transfer_in_progress_

\* The array a transfer was started with stays with it until it ends: no second perform,
\* from a frame, a callback or a completion, replaces it.  (CurlPerformTask, Perform.)
KeepsData ==
  \A h \in is_transfer_in_progress_ \cap is_transfer_in_progress_' :
    amx_callback_data_'[h] = amx_callback_data_[h]

DataStaysPut == [][KeepsData]_vars

\* After detach, by either way out and whatever was in flight, nothing is left in the
\* multi and no data is leaked.  (RemoveAllTasks, ~AmxCurl.)
NothingLeft == phase = "detached" => attached = {} /\ curl_map_ = {} /\ heap = {}

Running == curl_map_ \cap attached

Contract == INSTANCE TransferContract WITH
  live <- amx_curl_,
  running <- Running,
  holds <- [h \in Handle |-> IF h \in Running THEN amx_callback_data_[h] ELSE NoBuf],
  orphaned <- orphans,
  telling <- IF ctx = "completing" THEN {<<cur, cb_data>>} ELSE {}

\* To a plugin this is the transfer contract: each perform that started is answered
\* once, with its own data, while its plugin is there; no handle is freed under a
\* running transfer; refused and failed performs disturb nothing.
ImplementsTransfers == Contract!Spec
=============================================================================
