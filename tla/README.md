# A TLA+ verification of KTPAMXXCurl

KTPAMXXCurl lets plugins of a game server (Pawn scripts under KTPAMXX) make
transfers with libcurl without blocking the game thread. It drives libcurl's
multi interface from a standalone asio `io_context` that is polled once a frame.
Everything runs on that one thread. What is hard about it is not parallelism
but re-entrance and staleness: libcurl calls back from inside every call made to
it, plugins call natives from inside those callbacks, asio runs handlers that
were queued for objects since replaced, and the kernel, the handle queue and the
allocator hand the same numbers and addresses out again.

## The system

| Component | State it keeps | Operations | Correct when |
|---|---|---|---|
| `CurlMulti`, sockets (`curl_multi_class.cc`) | `socket_map_` (asio sockets), `socket_data_map_` (a `SocketData` per watched descriptor), `removed_sockets_`, `curl_multi_` | libcurl's open, close and socket callbacks; `ArmWaits`, `SetSock`; the handler of a completed wait; `Shutdown` | what libcurl waits for is watched, reported once, and never on behalf of an earlier watch; descriptors are closed by their owner only |
| `CurlMulti`, transfers | `curl_map_` (a completion callback per attached handle) | `AddCurl`, `RemoveCurl`, `CheckMultiInfo` | each attached handle completes once, to a task that exists |
| `CurlMulti`, timer, and `AsioPoller` | the asio timer, `running_handles_`, posted tasks | `CurlTimerCallback`, `AsioTimerCallback`, `Poll` | every deadline libcurl asks for is kept, unless it withdraws it |
| `AmxCurlManager` | `amx_curl_` (handle number to task), `free_handles_` | create, perform, reset, cleanup (deferred in flight), sweep, interrupt all, remove all | numbers are distinct; no task dies in flight; deferred cleanups happen |
| `AmxCurl` | a task: `amx_`, callback data, in-progress and deferred flags | `Perform`, `OnPerformComplete` | flags match libcurl's view; the data is freed once; only the right plugin is called |
| `CurlCallbackAmx` | registered forwards, user data cells, response body, interrupt flag | `SetupAmxCallback`, ten data callbacks, reset | no freed forward and no unloaded plugin is called; the body is a prefix of what came |
| natives (`curl_natives.cc`), `CurlUtils`, `Curl` | none | argument conversion, dispatch on options | each option reaches its handler with its value intact |
| `callbacks.cc`, `AmxCurlController`, `AMXX_Attach` | `g_amxxcurl_detached`, the instance, the frame function | attach, frame, detach, the atexit guard, the destructors | nothing stale is called during teardown, by either way out, and what is needed outlives its users |

How they meet: a native calls the manager, which calls a task, which calls
`CurlMulti` and libcurl. A frame calls `Poll`, which runs handlers; a handler
calls `curl_multi_socket_action`, inside which libcurl calls the socket and timer
callbacks of `CurlMulti` and the data callbacks of `CurlCallbackAmx` (which run
Pawn, which may call natives); `CheckMultiInfo` then runs completions, which run
Pawn again. After `Poll` the sweep frees what was deferred.

## Modules

| Module | What it is |
|---|---|
| `CurlMultiSockets` | the socket half of `CurlMulti`: state, actions, fairness, properties |
| `ReadinessContract` | abstract: what `CurlMulti` promises libcurl's socket interface |
| `TransferManager` | the life of a transfer: manager, tasks, completion, frame, detach |
| `TransferContract` | abstract: what the module promises a plugin about its transfers |
| `TimedTransfers` | `TransferManager` composed with the timer, the posted tasks and libcurl's deadlines |
| `DataCallbacks` | `TransferManager` composed with forwards, data cells, the response body and what libcurl is bound to |
| `CallbackContract` | abstract: what the module promises a plugin about its data callbacks |
| `OptionTables` | the tables an option goes through, as constant functions and sets |
| `WideValues` | 64-bit values that cross between cells and libcurl, as arithmetic |
| `ModuleLifecycle` | `TransferManager` composed with attach, the statements of detach, and the finalizers |
| `MC...` | model values and symmetry for TLC, one per module that has runs |
| `..._proof` | theorems and proofs: `CurlMultiSockets`, `TransferManager`, `TimedTransfers`, `WideValues`, `DataCallbacks`, `ModuleLifecycle`; `ReadinessRefinement` and `CallbackRefinement` for the contracts |

`TransferManager` is the centre. `TimedTransfers`, `DataCallbacks` and
`ModuleLifecycle` each extend it, and an action of theirs is one of its actions with
its effect on the state they add, or leaves the transfers alone: this is proved in each
(`TimedIsTransfers`, `CallbacksAreTransfers`, `LifecycleIsTransfers`), so that what is
proved of the transfers holds in every composition.

### CurlMultiSockets

Variables carry the names of the code's members. `SocketData` objects have
identities (`SD`) because the code compares `shared_ptr`s; `armed[g]` is the pair
of flags `read_armed`, `write_armed` as a set of directions, `bound[g]` the
descriptor a handler was bound to. `wait`, `epoll`, `kernel`, `known` and `want`
are external: the reactor's operations, its epoll set, who has a descriptor open,
and libcurl's table of announced descriptors.

`ctx` says what the game thread is inside of, so that a callback made by libcurl
in the middle of `AsioSocketActionCallback` interleaves with it: the handler is
split where it calls `curl_multi_socket_action` (`HandlerReports` before it,
`HandlerEnds` after it), and any sequence of libcurl's callbacks may happen in
between. `HandlerReturnsEarly` is the same handler leaving by an early return.
`CurlSocketCallback` is `PollRemove`, `PollChange`, `PollWatch` and
`PollWatchRefused`, one for each path through it, each with its whole effect:
`PollChange` includes `SetSock` and `ArmWaits`. The timer's handler, the posted
task and natives enter libcurl too; for the sockets they are one pair of actions,
`DriveBegins` and `DriveEnds`.

The contract assumed of libcurl and c-ares (7.63, vendored) is in the guards of
the external actions: libcurl announces open descriptors only, on a change of
interest; it removes a descriptor before it closes it and never returns holding
one that is closed; c-ares closes its own descriptors first. What the code
handles beyond that is a fault, in the constant `Faults`: a close with no callback
at all (`missed_close`), a close callback without a removal
(`close_without_remove`), a wait that fails (`wait_error`), asio refusing a
descriptor (`wrap_error`), and `async_wait` throwing (`alloc_failure`).

Abstracted: `what` and direction values are sets of directions, addresses and
families are left out, and fields that no code can read again are blanked in
`PollRemove`. Of the exceptions only those of `async_wait` are modelled.

### TransferManager

A task is identified with its handle number: it sits in a node of `amx_curl_`
that does not move and dies with the number. Boolean fields are sets of tasks.
`attached` and `done` are libcurl's: the easy handles in the multi, and those
with a message to be read. `heap` is the set of data arrays allocated and not
freed, `cb_data` the array on the stack of `OnPerformComplete`, so that a leak or
a double free is visible as a disagreement between the heap and its owners.
`loaded` and `orphans` are AMXX's: the addresses at which plugins are loaded and
the tasks whose plugin is gone.

Whether a data callback has a forward to reach Pawn by is left open here: `PawnCallback`
may happen for any transfer of a plugin that is found loaded, and `DataCallback` of
`DataCallbacks` restricts it to registered forwards. What must hold of data callbacks and
their forwards is stated there (`ForwardsExact`, `ImplementsCallbacks`);
`NoForeignCompletion` is about completions.

Natives are actions enabled where Pawn may run: between frames, in a data callback
inside libcurl, and in a completion. `CurlPerformTask`, `CurlPerformTaskFails` and
`CurlPerformTaskThrows` are the paths of a perform that change anything; a perform
or reset that is refused, names an unknown callback or an invalid handle changes
nothing and is a stutter. In a data callback `curl_multi_add_handle` refuses
(`CURLM_RECURSIVE_API_CALL`), so that only the failing path is open there.
`ReadsMessage` is `CheckMultiInfo` up to and including `RemoveCurl` and the fields
`OnPerformComplete` takes; `OnPerformComplete` goes on into Pawn, and
`ForwardReturns` is what comes after it, when the task may be gone.
`FrameEnds` is `Poll` returning and the sweep, in one action, as nothing runs
between them. `RemoveAllTasks`, with the flag set and the multi shut down, is
reached from the drain loop (`DetachEnds`, whose five seconds may pass at any
moment) and from the atexit guard (`ExitWithoutDetach`).

The order of libcurl's messages and of an `unordered_map`'s iteration is
nondeterministic. A plugin is assumed to use its own handles. Two faults:
`address_reuse` and `perform_throws`.

### TimedTransfers

In `TransferManager` a handler runs, and a transfer ends, whenever it likes. Here a
handler runs because a task was posted, a wait of the timer ended, or a socket became
ready, and a transfer gets on only when a handler drives it. `timer`, `expired` and
`posted` are asio's: the pending wait, its queued handler, which `cancel()` does not
reach, and the tasks of zero timeouts, which nothing cancels. `due`, `late`, `sock` and
`told` are libcurl's. The model follows libcurl 7.63: the nearest deadline is told at
the end of a call, and only if it is not the one told last; a new handle is due at once
and always told; a call for a timeout forgets what was told; any call gets on with all
that is due; a handle that is done has no deadline; and the count stored in
`running_handles_` is taken before `CheckMultiInfo` runs the completions, which may
attach more. `poll()` runs until no handler is ready (`PollReturns`).

The timer may ring up to a millisecond early, as libcurl rounds; then nothing is due and
the deadline is told again.

### DataCallbacks, OptionTables, WideValues

`registered_callbacks_`, `data_` and `response_body_` are the members of
`CurlCallbackAmx`; `bound` and `objects` are libcurl's copy of what `BindCallback` set;
`forwards` is KTPAMXX's table, in which other modules take and give back numbers at any
moment Pawn runs; `call` is the callback that is in Pawn. KTPAMXX hands a number out
again once it was unregistered, but not that of the forward that is being executed.
`SetupAmxCallback` is three actions: the function is there, it is not (the old forward
is gone, libcurl is bound all the same and the native returns `CURLE_OK`), or the
option is unsupported (it throws before anything is bound). In the first two libcurl may
refuse either option of `BindCallback`, which throws (`BindThrows`): the forward stays,
unbound. That libcurl refuses one option and not another is left open for all but the
write callback's, which every build has. A destructor unregisters for the tasks for which
`IsAmxValid` holds (`Unregisters`: the flag, then the address); teardown sets the flag
first. Reset leaves `data_` alone,
as the code does. Of the ten data callbacks only the arguments differ; those of the
seek callback are modelled word by word, as its are 64 bits wide.

`OptionTables` states the tables of `CurlUtils`, `CurlCallback` and `curl_easy_setopt`
as the code has them, each switch written out, and next to them what `curl_consts.inc`
says an option takes (`DocumentedAs`, for all its `OBJECTPOINT` options) and what libcurl
takes for a reason to go on. `WideValues` has cells of `M` values instead
of 2^32: the conversions are the same arithmetic for every even `M`.

### ModuleLifecycle

In `TransferManager` detach, and exit with no detach, are one step each. Here they are
the statements of `OnAmxxDetach` and the finalizers of the module, in their order
(`DetachOrder`, `ExitOrder`): the guard, which was registered last, then
`~AmxCurlManager` (its tasks, then its multi), then `~AsioPoller`. `stage` is where the
module is in its life: `AMXX_Attach` may be refused for a missing function of KTPAMXX,
or succeed although `curl_global_init` failed; frames may not be offered; the instance
is built by whoever uses it first, so that there may be nothing to destroy. `called`
says that the last step of teardown called KTPAMXX, which may be unmapped by then.

A reload after `dlclose` is a new image, and a new behaviour. `__cxa_atexit` is assumed
to succeed, KTPAMXX to offer both frame functions or neither, and the process not to
exit from inside a handler.

## Runs

| Run | Instance | Question |
|---|---|---|
| `sockets` | 2 descriptors, 2 objects | do tables and kernel agree on who owns and who watches what; does a handler re-arm the current object; is `CurlMulti` an implementation of `ReadinessContract` |
| `reuse` | 1 descriptor, 3 objects, `close_without_remove` | does interest that changes, stops and returns while older waits are queued lose a wait; is erasing the `SocketData` on close enough |
| `told` | 1 / 2, fair | is what libcurl waits for always reported in the end |
| `faults` | 1 / 2, all faults | do the flags stay exact |
| `stale_open` | 1 / 2, `missed_close` | *violation*: see Findings |
| `transfers` | 3 handles, 1 plugin, 2 arrays | numbers, flags, libcurl's table, data ownership, sweep, teardown, the task under a running data callback; is the manager an implementation of `TransferContract` |
| `transfer_ends` | 1 handle, 2 posted tasks, fair | is a deadline ever lost; does every started transfer end |
| `callbacks` | 1 handle, 2 options, 2 functions, 3 forward numbers, cap 2 | are forwards exact, the body a prefix, libcurl's pointers ours; which options do not arrive as documented; is this an implementation of `CallbackContract` |
| `lifecycle` | 2 handles, 2 plugins, 2 arrays, `perform_throws` | is teardown complete, in order and silent by each way out; does any completion reach a plugin that did not ask for it; does each transfer keep its data although a perform may throw |
| `address_reuse`, `perform_throws` | 1 handle, 1 fault | *violations*: see Findings |
| `seek_offset` | 1 handle, 1 option, offsets of two cells of 4 values | *violation*: see Findings |

Bounds. One descriptor shows everything about the reuse of a number, as each
generation takes an object of its own: three alive at once are the current one,
the one being handled and one whose handlers are still queued. Two descriptors show
the confusion of one with another, and no action relates three. Objects may be
used again once nothing refers to them, so runs are not bounded in length. Three
handles let the queue hold two numbers while one is live, with a number lost to a
failed `curl_easy_init`; two arrays are the most that one game thread has in
play for two tasks, or a task and the completion that runs.

One handle is enough for the stale count of `transfer_ends`: its own completion
performs it again before the handler reads `running_handles_`. Two posted tasks are one
for the deadline that counts and one left over; the bound `MaxPosted` forgets further
ones, which only takes wake-ups away. In `callbacks` three numbers are one for each
option and one that another module holds; two functions tell a replaced one from its
successor; with a cap of 2, chunks of 1 and 2 fill the body below, at and past the cap.
`M = 4` has cells with both signs and both parities; the theorem is for every even `M`.
Two plugins let one be unloaded while the other runs. The bounds are `MaxHandle`, `SD`,
`Fd`, `Buf`, `Amx`, `MaxPosted`, `MaxForward`, `Offered`, `Fun`, `Cap`, `Chunk`, `Seek`
and `M`.

Every run checks deadlock: a state where nothing can happen is only reached
after teardown, where `Stopped` (and `Over`) allow it.

## Fairness

`FairSpec` of `CurlMultiSockets`: every call into libcurl returns; the engine
keeps running frames, and `Poll` runs completed waits in FIFO order, so that each
handler has its turn (strong fairness, as frames come and go); once c-ares
closed a descriptor libcurl removes it; and peers act, so that a registered
socket becomes ready again and again. The last one is an assumption about the
network, not the code, and is what makes the property about the code: a
registered wait completes, the rest is up to `CurlMulti`.

`TimedFairSpec` of `TimedTransfers`: frames and the drain loop go on, queued tasks and
handlers run in their turn, calls into libcurl and Pawn return, time passes each
deadline, a socket that libcurl waits for becomes ready, and a transfer that is driven
again and again ends (a peer answers, an interrupt is seen, or a timeout of libcurl's
strikes) and is read. Nothing says that libcurl is ever called: that is what
`EveryTransferEnds` rests on `CurlMulti` for.

## Findings

- `stale_open`. When a close callback was missed and the kernel hands the number
  out again, `CurlOpenSocketCallback` opens the new asio socket, which registers
  the descriptor with epoll, and then calls `release()` on the stale one, which
  removes *the same number* from the epoll set. Waits of the new connection never
  complete. The comment there says that release and evict avoid just such a
  stalled transfer. The precondition is a contract violation of libcurl's.
- `address_reuse`. `OnPerformComplete` compares addresses. A plugin loaded at the address
  of an unloaded one, before the transfer that one started has ended, is called with its
  completion, at the public number `amx_callback_fun_` that was resolved in the other.
  Without the reuse of addresses, `lifecycle` shows that no completion goes astray.
  `IsAmxValid` compares addresses too, which matters where a forward number outlives its
  plugin: `ForwardsExact`, `OthersKeepTheirs` and `ImplementsCallbacks` exclude that fault.
- `perform_throws`. An allocation that fails in `Perform` after it took the data
  leaves the array with two owners, and the handle in progress for ever. This needs an
  `operator new` that throws: `amxxmodule.cpp` defines one that is `calloc` and returns
  null, and it is for the process to decide which is linked.
- `seek_offset`. `SeekCallback` passes `offset >> 32`, still 64 bits wide, through a
  variadic call that is read a cell at a time: the plugin gets the high word's sign
  for the low cell, and the low cell for the origin.

Disagreements that no violation run is about. Six options are taken for text although the
include file has them as something else: `CURLOPT_PREQUOTE`, a list
(`curl_consts.inc:843-844`), and the pointers `ERRORBUFFER` (570-572), `STDERR` (679, whose
comment is a copy of another's), `SHARE` (867-868), `PRIVATE` (879-880) and `SSH_KEYDATA`
(1166-1167). The default branch hands libcurl the module's string buffer for them;
`SixTakenForText` says that it is these and no others. `README.md:194-196` and
`curl.inc:229-231` promise a warning when the body is cut, but a body that was filled
exactly drops all that follows with none; `BodyIsPrefix` says what the body is, and logging
is not modelled. And `curl_formadd` frees its strings on return,
although its comment says that they are kept apart for `CURLFORM_PTRCONTENTS`, whose
forms go on pointing at them.

## Proofs

Each theorem holds for all values of the constants, finite or not, that the named
assumptions of the modules allow. A theorem about a part that may fail names in its
hypothesis the faults it excludes, and no others; what is promised *under any faults*
has no hypothesis. The runs, or a check of the module with that fault alone, show that
each excluded fault breaks the promise.

| promise | faults excluded |
|---|---|
| `TypeOK`, `ArmedIffPending`, `TcpStaysMapped` | none |
| `NeverMisclassified`, `NoCorpses`, `ImplementsContract` (`ReadinessContract`) | `missed_close` |
| `RearmTargetsCurrent` | `missed_close`, `close_without_remove` |
| `NoLostReadiness` | `missed_close`, `wait_error`, `wrap_error`, `alloc_failure` |
| types, `NoAttachedDestroyed`, `HandlesDistinct`, `SweptByFrameEnd`, `NothingLeft`, `CallbackTaskLives`, `DataStaysPut`, `NoDeadlineLost`, what `DataCallbacks` states of bodies, bindings and options, and all of `ModuleLifecycle` but the contract | none |
| `InProgressIffAttached`, `OwnedOnce` | `perform_throws` |
| `NoForeignCompletion`, `ForwardsExact`, `OthersKeepTheirs`, `ImplementsTransfers`, `ImplementsCallbacks` | `address_reuse` |

### Sockets

`CurlMultiSockets_proof` is built in four layers, each with an inductive invariant that
needs only what the layer below it gives.

1. Under any faults, `TypeCorrect` and `FlagsTellTheTruth`, inductive together, and
   `TcpDescriptorsStayMapped`, from `TcpKept`: an open TCP descriptor has its asio
   socket, and a current `SocketData` belongs to its descriptor and is not taken for one
   of c-ares (or `PollRemove` would drop the socket).
2. When no close is missed, `OwnersAlwaysAgree`: `socket_map_` is what is open for
   libcurl or still watched, a current `SocketData` is known to libcurl, and
   `is_ares_socket` says who opened the descriptor. `AresToldApart` and
   `NoCorpsesRemain` follow.
3. When moreover each close comes after its removal, `RearmIsCurrent`, from
   `HandlerHoldsCurrent`: between the call into libcurl and the check that follows it,
   the handler's `SocketData` is current exactly if its descriptor is not in
   `removed_sockets_`. That set, cleared before the call, is thus enough to decide the
   re-arm.
4. When asio serves every wait, `AlwaysReady` and `ReadinessNeverLost`. `NoLostReadiness`
   is not inductive: a re-arm needs the recorded action to be what libcurl wants
   (`InterestRecorded`), a pending wait to be neither aborted nor on a descriptor that
   left the epoll set (`CurrentWaitsAlive`, `OpenIsRegistered`), and the running handler
   to get to its re-arm (`CurrentRearms`).

`ReadinessRefinement_proof` shows that the specification implements `ReadinessContract`
(`ReadinessImplemented`) on the second layer alone: the descriptors watched are those
libcurl announced and what was seen is the readied waits of their `SocketData`. An abort,
a re-arm or a ghost that returns early changes neither, and a wait that asio refuses is
one not seen yet: it costs the promise that readiness comes, not the contract that what
comes is asked for.

### Transfers

`TransferManager_proof`, under any faults:

- `TypeCorrect`; `NothingDanglesInMulti`; `HandlesStayDistinct` (inductive by itself,
  from two lemmas about `Tail` and concatenation); and `SweepsAreComplete`. The first two
  are proved together: that `interrupt_` stays within the live tasks, when a callback
  for an unloaded plugin sets it, needs `HeldIsInProgress`, the half of
  `InProgressIffAttached` that survives a `Perform` that throws.
- `NoDataLeaks`: every allocated array is reached from a live task or from the
  completion that runs. It is the half of `OwnedOnce` that survives a `Perform` that
  throws, which frees an array too often, never too seldom. So `TeardownIsComplete` needs
  no hypothesis: after detach there is nothing to reach an array from.
- `CallbacksRunOnLiveTasks` (`CallbackTaskLives`): while a data callback runs, its task is alive, attached and
  not done. What decides it is that the natives a callback may call put a cleanup off
  when the task is in progress; the sweep waits for the frame function to get there.
- `DataStaysWithItsTransfer` (`DataStaysPut`), an action property: no step changes the array of a task that
  is in progress before and after it. A second `Perform` on it, from the frame, from a
  callback or from a completion, is refused before the data is stored.

Under the hypotheses above:

- `InductiveInvariant` and its consequences `FlagsMatchMulti` and `DataOwnedOnce`, unless
  `Perform` throws. `OwnedOnce` is not inductive alone: a recycled number must come
  back with no data (`DeadHoldNothing`).
- `ForwardsReachTheirPlugin`, unless addresses are used again, from `OrphansExact`: a
  live task is an orphan exactly when its address is not among the loaded ones.
- `TransfersImplemented`, unless addresses are used again: every step maps to a step of
  `TransferContract` or to a stutter. A `Perform` that throws maps to a stutter: what it
  leaves in progress is not in the multi, and the contract never saw it start.

`TimedTransfers_proof`: `DeadlinesAreKept` (`NoDeadlineLost`), for any number of handles
and of tasks, under any faults. Its inductive invariant `TimedInvariant` says that what
libcurl told last, if it still counts on it, is pending: if that handle is due and the
wait was cancelled, a task is posted. This is why the stale `running_handles_` that
cancels the timer does no harm: the deadline of a handle attached meanwhile is zero,
and was posted, not given to the timer. `TimedImplementsTransfers` carries the contract
over to transfers that only the timer, posted tasks and sockets drive.

### Callbacks and options

`WideValues_proof`: `WideOptionsCross`, for every even number of values of a cell.

`DataCallbacks_proof`, for all constants: `CallbacksTypeCorrect`, `BodiesArePrefixes`,
`ObjectsStayOurs`, `WritersStayBound`, `OverridesOnly`, `WideOptionsArrive`,
`SixGoAstray` (the branches of `curl_easy_setopt` exclude one another, so that only the
sets decide where an option goes); `InterruptedStop`, for whatever options are bound but
`DEBUG`, provided that the sizes in `Chunk` are below `CURL_READFUNC_ABORT`, which no buffer
of libcurl reaches; and unless addresses are used again, `ForwardsAreExact` and
`OthersAreSpared`. The last two are one inductive argument: a destructor unregisters the
numbers it knows, and spares others' only because each of them is still its own while
its plugin is loaded.

`CallbackRefinement_proof`: `CallbacksImplemented`, that `DataCallbacks` implements
`CallbackContract` for all constants, unless addresses are used again. The argument is
the same invariant seen from the plugin: as long as a known forward is exactly the one
that was registered for this handle, option and function, the function a callback
stands for changes only where the contract lets it. There is one step per action of
`DataCallbacks`; all but setting, resetting, and erasing a task or unloading its
plugin leave what every callback stands for as it was (`HandlerKept`).

### Lifecycle

`ModuleLifecycle_proof`, for all constants and under any faults: `LifecycleTypeCorrect`,
`TeardownNeverCalls`, `TeardownInOrder`, `FramesStopInTime` and `FinalizersLeaveNothing`.
The invariant `LifeInv` says for each stage what is already gone and what is not: the
flag is set before the first task dies, the tasks before the multi, the multi before
libcurl and the poller. That no array is left then is `NoDataLeaks`. Unless addresses
are used again, `LifecycleImplementsTransfers`: teardown, taken apart into its steps,
is still the single end that the contract gives to all transfers.

Every invariant and action property that a passing run checks is stated by a theorem.
Only model-checked are the liveness properties (`EventuallyTold`, `EveryTransferEnds`): the provers do not reason
about fairness and `ENABLED`.

## Not modelled

- Reading results, escaping, and the version: they read libcurl and keep no state. A
  native that looks up a handle builds the instance, and that is in `ModuleLifecycle`.
- Forms and string lists: they live in libcurl and are addressed by cells that the
  plugin keeps; the module has no state for them, and who frees them is up to the plugin.
- The vendored SDK (`amxxmodule.cpp`, `amxxmodule.h`, `moduleconfig.h`), two thirds of
  the lines under `src/src`: structures of the engine, typedefs and tables of function
  pointers. What of it runs in this module, `AMXX_Attach` and `AMXX_Detach`, is modelled.
- What libcurl, c-ares, asio, the kernel and KTPAMXX do inside: they are external and
  appear as contracts.
- An exception from copying the completion callback, or from a handler other than those
  of the faults; exit of the process from inside a handler; a plugin that uses another's
  handle number; a `poll()` that never returns because each task posts another.

## Plan

What is left: the lifetime of forms, if a plugin's use of them is to be constrained; and
the failures of allocation that `Poll` swallows, as a fault of `TransferManager`.
