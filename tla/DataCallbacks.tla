--------------------------- MODULE DataCallbacks ---------------------------
(***************************************************************************)
(* What data callbacks add to a transfer: CurlCallbackAmx                  *)
(* (amx_curl_callback_class.cc), the forwards it registers with KTPAMXX    *)
(* for a plugin's functions, the body it collects when there is no write   *)
(* callback, and the pointers Curl (curl_class.h) gives libcurl.           *)
(*                                                                         *)
(* Composed with TransferManager: an action is an action of that module    *)
(* with its effect on this state, so that callbacks are set, run and freed *)
(* in every moment the natives, the frame, unloading and detach allow.     *)
(* The state of a task sits at its handle, blank when there is no task.    *)
(* A data callback with no forward answers for itself, a stutter but for   *)
(* the body.                                                               *)
(***************************************************************************)
EXTENDS TransferManager, OptionTables, WideValues

CONSTANTS
  Offered,     (* the callback options plugins set                            *)
  Fun, NoFun,  (* public functions of plugins; none                           *)
  MaxForward,  (* a bound on forward numbers                                  *)
  Cap,         (* MAX_RESPONSE_BODY                                           *)
  Chunk,       (* sizes of what libcurl hands to the write callback           *)
  Seek         (* offsets it asks the seek callback for                       *)

Forward == 1..MaxForward
NoForward == -1

\* Who holds a forward number: nobody, another module or KTPAMXX, or a task's option.
Free == <<>>
Other == <<"other">>
Owner == Handle \X Offered \X Fun

NoCall == [option |-> "", forward |-> NoForward, asked |-> <<>>, args |-> <<>>]

ASSUME OfferedAssumption == Offered \subseteq Supported
ASSUME FunAssumption == NoFun \notin Fun
ASSUME BoundsAssumption == MaxForward \in Nat /\ Cap \in Nat /\ Chunk \subseteq Nat \ {0}

VARIABLES
  registered_callbacks_,  (* the forward of each callback option, or NoForward  *)
  data_,                  (* the data options a cell was given for              *)
  response_body_,         (* its size                                           *)
  received,               (* what the body was offered since it was last cleared*)
  bound,                  (* libcurl: the options set to our static methods     *)
  objects,                (* libcurl: the data options set to our object        *)
  forwards,               (* external: who holds each forward number            *)
  call                    (* the data callback that runs in Pawn                *)

body == <<response_body_, received>>
libcurl == <<bound, objects>>
callbacks == <<registered_callbacks_, data_, body, libcurl, forwards, call>>
allVars == <<vars, callbacks>>

NoCallbacks == [o \in Offered |-> NoForward]

CallbacksTypeOK ==
  /\ registered_callbacks_ \in [Handle -> [Offered -> Forward \cup {NoForward}]]
  /\ data_ \in [Handle -> SUBSET DataOptions]
  /\ response_body_ \in [Handle -> 0..Cap]
  /\ received \in [Handle -> 0..Cap + 1]
  /\ bound \in [Handle -> SUBSET CallbackOptions]
  /\ objects \in [Handle -> SUBSET DataOptions]
  /\ forwards \in [Forward -> {Free, Other} \cup Owner]
  /\ call = NoCall <=> ctx # "callback"
  /\ call # NoCall => call.option \in Offered /\ call.forward \in Forward

CallbacksInit ==
  /\ Init
  /\ registered_callbacks_ = [h \in Handle |-> NoCallbacks]
  /\ data_ = [h \in Handle |-> {}]
  /\ response_body_ = [h \in Handle |-> 0] /\ received = [h \in Handle |-> 0]
  /\ bound = [h \in Handle |-> {}] /\ objects = [h \in Handle |-> {}]
  /\ forwards = [f \in Forward |-> Free]
  /\ call = NoCall

-----------------------------------------------------------------------------
(* The life of a task's callbacks *)

\* The options a libcurl may have been built without; writing is always there.
MayBeRefused == CallbackOptions \ {"WRITE"}

\* Curl::BindCallback: our object, then our static method.
BindsBoth(h, o) ==
  /\ objects' = [objects EXCEPT ![h] = @ \cup {DataOptionFor[o]}]
  /\ bound' = [bound EXCEPT ![h] = @ \cup {o}]

\* It throws when libcurl refuses the one or the other, and takes nothing back.
BindThrows(h, o) ==
  /\ o \in MayBeRefused
  /\ objects' \in {objects, [objects EXCEPT ![h] = @ \cup {DataOptionFor[o]}]}
  /\ bound' = bound

Binds(h, o) == BindsBoth(h, o) \/ BindThrows(h, o)

\* Mutant: a new handle keeps libcurl's default writer.
BoundToNothing == {}

\* What InitCurl and CurlReset bind, so that the body is always collected.
BoundAtFirst == {"WRITE"}

\* Mutant: a callback that is replaced keeps its forward.
NothingUnregistered(fs) == forwards

\* The forward table once the numbers fs were unregistered.
Unregistered(fs) == [f \in Forward |-> IF f \in fs THEN Free ELSE forwards[f]]

ForwardsOf(h) == {registered_callbacks_[h][o] : o \in Offered}

CreateTask(a, h) ==
  /\ CreateCurl(a, h)
  /\ bound' = [bound EXCEPT ![h] = BoundAtFirst]
  /\ objects' = [objects EXCEPT ![h] = {DataOptionFor[o] : o \in BoundAtFirst}]
  /\ UNCHANGED <<registered_callbacks_, data_, body, forwards, call>>

\* ~CurlCallbackAmx, of the tasks hs: those in valid unregister their forwards.
Destroys(hs, valid) ==
  LET blank(f, none) == [h \in Handle |-> IF h \in hs THEN none ELSE f[h]] IN
  /\ registered_callbacks_' = blank(registered_callbacks_, NoCallbacks)
  /\ data_' = blank(data_, {})
  /\ response_body_' = blank(response_body_, 0) /\ received' = blank(received, 0)
  /\ bound' = blank(bound, {}) /\ objects' = blank(objects, {})
  /\ forwards' = Unregistered(UNION {ForwardsOf(h) : h \in hs \cap valid})
  /\ UNCHANGED call

\* Mutant: every destructor unregisters.
UnregistersAlways(detached) == Handle

\* The tasks for which IsAmxValid holds in their destructor: it looks at
\* g_amxxcurl_detached first, then for the plugin.
Unregisters(detached) == {h \in Handle : ~detached /\ amx_[h] \in loaded}

CleanupTask(h) == RemoveTask(h) /\ Destroys({h}, Unregisters(phase = "detached"))

FrameSweeps == FrameEnds /\ Destroys(Swept, Unregisters(phase = "detached"))

\* Both ways out set the flag before RemoveAllTasks.
Teardown ==
  /\ DetachEnds \/ ExitWithoutDetach
  /\ Destroys(amx_curl_, Unregisters(phase' = "detached"))

-----------------------------------------------------------------------------
(* Natives *)

\* Mutant: the number that was unregistered is kept.
KeptAfterFailure(h, o) == registered_callbacks_

\* What is registered when the function is not in the plugin: the old number is erased.
ErasedAfterFailure(h, o) == [registered_callbacks_ EXCEPT ![h][o] = NoForward]

\* AMXX hands out a free number, but for that of the forward that runs.
MayRegister(f, table_) == table_[f] = Free /\ f # call.forward

SetupAmxCallback(h, o, fun, f) ==
  LET unregistered == Unregistered({registered_callbacks_[h][o]}) IN
  /\ Uses(h) /\ MayRegister(f, unregistered)
  /\ forwards' = [unregistered EXCEPT ![f] = <<h, o, fun>>]
  /\ registered_callbacks_' = [registered_callbacks_ EXCEPT ![h][o] = f]
  /\ Binds(h, o)
  /\ UNCHANGED <<vars, data_, body, call>>

\* The plugin has no such public function: libcurl is bound all the same.  (Whether
\* BindCallback then throws changes no more than what is bound.)
SetupNotFound(h, o) ==
  /\ Uses(h)
  /\ forwards' = Unregistered({registered_callbacks_[h][o]})
  /\ registered_callbacks_' = ErasedAfterFailure(h, o)
  /\ Binds(h, o)
  /\ UNCHANGED <<vars, data_, body, call>>

\* Mutant: libcurl is bound before the option is looked at.
BoundAllTheSame(h, o) == [bound EXCEPT ![h] = @ \cup {o}]

\* What is bound when SetupAmxCallback throws: BindCallback is not reached.
BoundWhenThrown(h, o) == bound

\* A callback option that KTPAMXX offers no forward for.
SetupUnsupported(h, o) ==
  /\ Uses(h)
  /\ bound' = BoundWhenThrown(h, o)
  /\ UNCHANGED <<vars, registered_callbacks_, data_, body, objects, forwards, call>>

\* A data option is ours to keep, and would else replace our object in libcurl.
CurlSetOption(h, d) ==
  /\ Uses(h)
  /\ data_' = [data_ EXCEPT ![h] = @ \cup ({d} \cap DataOptions)]
  /\ objects' = [objects EXCEPT ![h] = @ \ ({d} \ DataOptions)]
  /\ UNCHANGED <<vars, registered_callbacks_, body, bound, forwards, call>>

\* Mutant: the body is not cleared.
BodyKept(h) == response_body_

\* ClearResponseBody, when libcurl has taken the handle.
BodyCleared(h) == [response_body_ EXCEPT ![h] = 0]

PerformTask(h, b) ==
  /\ CurlPerformTask(h, b)
  /\ response_body_' = BodyCleared(h) /\ received' = [received EXCEPT ![h] = 0]
  /\ UNCHANGED <<registered_callbacks_, data_, libcurl, forwards, call>>

\* CurlReset: ResetAmxCallbacks, curl_easy_reset and BindCallback; data_ stays.
ResetTask(h) ==
  /\ Uses(h) /\ ~Refuses(h)
  /\ CurlReset(h) \/ (h \notin interrupt_ /\ UNCHANGED vars)
  /\ registered_callbacks_' = [registered_callbacks_ EXCEPT ![h] = NoCallbacks]
  /\ forwards' = Unregistered(ForwardsOf(h))
  /\ response_body_' = [response_body_ EXCEPT ![h] = 0]
  /\ received' = [received EXCEPT ![h] = 0]
  /\ bound' = [bound EXCEPT ![h] = BoundAtFirst]
  /\ objects' = [objects EXCEPT ![h] = {DataOptionFor[o] : o \in BoundAtFirst}]
  /\ UNCHANGED <<data_, call>>

-----------------------------------------------------------------------------
(* Inside libcurl *)

\* The static methods of CurlCallback: what libcurl was given is cast to CurlCallback.
ReachesUs(h, o) == o \in bound[h] /\ DataOptionFor[o] \in objects[h]

\* Mutant: a chunk is taken whole while there is room.
GrownPastCap(size, n) == IF size < Cap THEN size + n ELSE size

\* The size of the body after a chunk of n: what fits is taken.
Grown(size, n) == IF size + n > Cap THEN Cap ELSE size + n

\* WriteCallback without a forward: the chunk is collected, whatever became of the plugin.
WriteBuffered(h, n) ==
  /\ ctx = "libcurl" /\ h \in attached \ done
  /\ ReachesUs(h, "WRITE") /\ h \notin interrupt_
  /\ "WRITE" \in Offered => registered_callbacks_[h]["WRITE"] = NoForward
  /\ response_body_' = [response_body_ EXCEPT ![h] = Grown(@, n)]
  /\ received' = [received EXCEPT ![h] = IF @ + n > Cap THEN Cap + 1 ELSE @ + n]
  /\ UNCHANGED <<vars, registered_callbacks_, data_, libcurl, forwards, call>>

HasForward(h, o) == ReachesUs(h, o) /\ registered_callbacks_[h][o] # NoForward

\* What libcurl asks the callback: the offset and the origin, always SEEK_SET, of a seek.
Asked(o) == IF o = "SEEK" THEN Seek \X {0} ELSE {<<>>}

UserData(h, o) == IF DataOptionFor[o] \in data_[h] THEN 1 ELSE 0

\* What the plugin's function gets: KTPAMXX reads one word for each of its cells.
Arguments(h, o, asked) ==
  IF o = "SEEK" THEN SubSeq(SeekWords(UserData(h, o), asked[1], asked[2]), 1, 4)
  ELSE <<UserData(h, o)>>

DataCallback(h, o, asked) ==
  /\ PawnCallback(h)
  /\ HasForward(h, o)
  /\ call' = [option |-> o, forward |-> registered_callbacks_[h][o], asked |-> asked,
              args |-> Arguments(h, o, asked)]
  /\ UNCHANGED <<registered_callbacks_, data_, body, libcurl, forwards>>

DataCallbackSkipped(h) ==
  /\ PawnCallbackSkipped(h)
  /\ \E o \in Offered : HasForward(h, o)
  /\ UNCHANGED callbacks

DataCallbackReturns ==
  /\ CallbackReturns
  /\ call' = NoCall
  /\ UNCHANGED <<registered_callbacks_, data_, body, libcurl, forwards>>

-----------------------------------------------------------------------------
(* KTPAMXX *)

\* A plugin takes its forwards with it; its tasks keep their numbers.
UnloadPlugin(a) ==
  /\ Unload(a)
  /\ forwards' =
       [f \in Forward |-> IF forwards[f] \in Owner /\ amx_[forwards[f][1]] = a
                          THEN Free ELSE forwards[f]]
  /\ UNCHANGED <<registered_callbacks_, data_, body, libcurl, call>>

OtherRegisters(f) ==
  /\ PawnRuns /\ MayRegister(f, forwards)
  /\ forwards' = [forwards EXCEPT ![f] = Other]
  /\ UNCHANGED <<vars, registered_callbacks_, data_, body, libcurl, call>>

OtherUnregisters(f) ==
  /\ PawnRuns /\ forwards[f] = Other
  /\ forwards' = [forwards EXCEPT ![f] = Free]
  /\ UNCHANGED <<vars, registered_callbacks_, data_, body, libcurl, call>>

-----------------------------------------------------------------------------
\* The actions of TransferManager that touch no callback.
Unaffected ==
  /\ \/ CreateCurlFails
     \/ \E h \in Handle :
          \/ RemoveTaskDeferred(h) \/ CurlPerformTaskFails(h) \/ TransferEnds(h)
          \/ \E b \in Buf \cup {NoBuf} : CurlPerformTaskThrows(h, b)
          \/ OnPerformComplete(h) \/ OnPerformCompleteSkipped(h)
     \/ PollBegins \/ HandlerRuns \/ SocketActionReturns \/ ForwardReturns
     \/ CheckMultiInfoReturns \/ DrainPollEnds
     \/ \E a \in Amx : Load(a)
     \/ DetachBegins \/ Stopped
  /\ UNCHANGED callbacks

TaskNext(h) ==
  \/ \E a \in Amx : CreateTask(a, h)
  \/ CleanupTask(h)
  \/ \E o \in Offered :
       \/ \E fun \in Fun, f \in Forward : SetupAmxCallback(h, o, fun, f)
       \/ SetupNotFound(h, o)
       \/ CurlSetOption(h, DataOptionFor[o])
       \/ \E asked \in Asked(o) : DataCallback(h, o, asked)
  \/ \E o \in CallbackOptions \ Supported : SetupUnsupported(h, o)
  \/ \E b \in Buf \cup {NoBuf} : PerformTask(h, b)
  \/ ResetTask(h)
  \/ \E n \in Chunk : WriteBuffered(h, n)
  \/ DataCallbackSkipped(h)

CallbacksNext ==
  \/ Unaffected
  \/ \E h \in Handle : TaskNext(h)
  \/ DataCallbackReturns
  \/ FrameSweeps \/ Teardown
  \/ \E a \in Amx : UnloadPlugin(a)
  \/ \E f \in Forward : OtherRegisters(f) \/ OtherUnregisters(f)

CallbacksSpec == CallbacksInit /\ [][CallbacksNext]_allVars

-----------------------------------------------------------------------------
(* What the code promises *)

\* While its plugin is loaded, a number in registered_callbacks_ is a forward of that
\* very task and option, and the task knows every forward registered for it: no number
\* that AMXX handed on is called or unregistered, and none is leaked, however callbacks
\* are replaced, fail to register, or are reset inside one another.  (SetupAmxCallback,
\* ResetAmxCallbacks, ~CurlCallbackAmx.)
ForwardsExact ==
  /\ \A h \in amx_curl_, o \in Offered :
       AmxValid(h) /\ registered_callbacks_[h][o] # NoForward =>
         \E fun \in Fun : forwards[registered_callbacks_[h][o]] = <<h, o, fun>>
  /\ phase # "detached" => \A f \in Forward :
       forwards[f] \in Owner =>
         /\ forwards[f][1] \in amx_curl_
         /\ registered_callbacks_[forwards[f][1]][forwards[f][2]] = f

\* Nothing is taken from another module or plugin: a number it holds stays its own,
\* until it gives it back.  (~CurlCallbackAmx after the plugin was unloaded.)
OthersKeepTheirs ==
  [][\A f \in Forward : forwards[f] = Other => forwards'[f] = Other \/ OtherUnregisters(f)]_allVars

\* The body is the beginning of what its transfer was offered, up to the cap: nothing of
\* an earlier transfer, and no chunk after a hole.  (WriteCallback, Perform.)
BodyIsPrefix ==
  \A h \in Handle : response_body_[h] = IF received[h] > Cap THEN Cap ELSE received[h]

\* libcurl calls our methods with our object, whatever data options plugins set, so none
\* is called with a plugin's cell for `this'.  (CurlSetOption, BindCallback.)
CallbacksGetTheirObject ==
  \A h \in Handle, o \in CallbackOptions : o \in bound[h] => DataOptionFor[o] \in objects[h]

\* Every handle hands its data to our write callback, from its making and after a reset,
\* so that the body is never empty for libcurl's own writer.  (InitCurl, CurlReset.)
WriteAlwaysBound == \A h \in amx_curl_ : "WRITE" \in bound[h]

\* libcurl is never bound to a method of CurlCallback that CurlCallbackAmx does not
\* override: those throw, through libcurl.  (CurlSetupAmxCallback, CurlCallback.)
OnlyOverridesBound == \A h \in Handle : bound[h] \subseteq Supported

\* A transfer that was interrupted is stopped by the next callback libcurl makes for it,
\* for as many items as libcurl hands over at once, but for DEBUG, whose result it
\* ignores.  (TryInterrupt, CurlUtils::GetInterruptCodeForCurlCallback.)
InterruptsStop ==
  \A h \in interrupt_, n \in Chunk :
    \A o \in bound[h] \ {"DEBUG"} : InterruptCode[o] \notin GoesOn(n)[o]

\* Of the options that curl_consts.inc says take something else than text, exactly six
\* do not arrive at libcurl as what it says: the list PREQUOTE and the five pointers,
\* which are all taken for text.  No option that takes text is taken for anything else,
\* and POSTFIELDS, which libcurl would keep a pointer to, is copied at once.
\* (curl_easy_setopt, curl_consts.inc.)
SixTakenForText ==
  \A h \in amx_curl_ :
    /\ {o \in NotText : ArrivesAs(o) # DocumentedAs(o)} = {"PREQUOTE"} \cup DocumentedPointers
    /\ \A o \in {"PREQUOTE"} \cup DocumentedPointers : ArrivesAs(o) = "text"
    /\ DataOptions \cup ListCases \cup {"HTTPPOST"} \subseteq NotText
    /\ ArrivesAs("POSTFIELDS") = "text, copied at once"

\* Whatever handle it is set on, an off_t option reaches libcurl as the number its two
\* cells stand for, whatever their sign bits.  (curl_easy_setopt.)
WideOptionsExact ==
  \A h \in amx_curl_, hi, lo \in Cell : OffsetOf(hi, lo) = Denotes(hi, lo)

\* The plugin's seek function gets the offset as a high and a low cell, and the origin,
\* as SetupAmxCallback declares its parameters.  (SeekCallback.)
SeekArgumentsArrive ==
  call.option = "SEEK" =>
    LET offset == call.asked[1] IN
    Tail(call.args) = <<HighPart(offset), LowCell(offset), call.asked[2]>>

\* What a callback option of a handle stands for, to its plugin.
HandlerOf(h, o) ==
  LET f == registered_callbacks_[h][o] IN
  IF h \in amx_curl_ /\ AmxValid(h) /\ f # NoForward /\ forwards[f] \in Owner
  THEN forwards[f][3] ELSE NoFun

Promise == INSTANCE CallbackContract WITH
  Option <- Offered,
  handler <- [h \in Handle |-> [o \in Offered |-> HandlerOf(h, o)]],
  asking <- {<<cur, call.option>> : c \in {call} \ {NoCall}}

\* To a plugin this is the callback contract: a function it set for an option is called
\* for that option and handle until it sets another, and no function is by itself
\* replaced by another's.
ImplementsCallbacks == Promise!Spec
=============================================================================
