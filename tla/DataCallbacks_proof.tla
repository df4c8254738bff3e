------------------------- MODULE DataCallbacks_proof -------------------------
(* Theorems about DataCallbacks, for any number of handles, plugins, functions *)
(* and forward numbers, any body size and any offsets.                         *)
EXTENDS DataCallbacks, TransferManager_proof, WideValues_proof

-----------------------------------------------------------------------------
(* The composition is a run of TransferManager *)

\* A setopt that throws for its option changes nothing.
LEMMA UnsupportedStutters ==
  \A h \in Handle, o \in CallbackOptions : SetupUnsupported(h, o) => UNCHANGED allVars
BY DEF SetupUnsupported, BoundWhenThrown, allVars, callbacks, libcurl

LEMMA CallbacksStepIsStep == [CallbacksNext]_allVars => [Next]_vars
<1>1. ASSUME Unaffected PROVE Next
  BY <1>1, UndoneInPawn DEF Unaffected, Next, NativeOn, PerformUndone, Poll, PollOn
<1>2. ASSUME NEW h \in Handle, TaskNext(h) PROVE Next \/ UNCHANGED vars
  BY <1>2 DEF TaskNext, CreateTask, CleanupTask, SetupAmxCallback, SetupNotFound,
     CurlSetOption, DataCallback, PerformTask, ResetTask, WriteBuffered, DataCallbackSkipped,
     SetupUnsupported, Next, NativeOn, PerformUndone, Poll, PollOn
<1>3. ASSUME DataCallbackReturns \/ FrameSweeps \/ Teardown PROVE Next
  BY <1>3 DEF DataCallbackReturns, FrameSweeps, Teardown, Next, Poll
<1>4. ASSUME NEW a \in Amx, UnloadPlugin(a) PROVE Next
  BY <1>4 DEF UnloadPlugin, Next
<1>5. ASSUME NEW f \in Forward, OtherRegisters(f) \/ OtherUnregisters(f) PROVE UNCHANGED vars
  BY <1>5 DEF OtherRegisters, OtherUnregisters
<1> QED
  BY <1>1, <1>2, <1>3, <1>4, <1>5 DEF CallbacksNext, allVars

\* Whatever TransferManager promises holds with data callbacks set, run and freed.
THEOREM CallbacksAreTransfers == CallbacksSpec => Spec
<1>1. CallbacksInit => Init
  BY DEF CallbacksInit
<1> QED
  BY <1>1, CallbacksStepIsStep, PTL DEF CallbacksSpec, Spec

-----------------------------------------------------------------------------
(* Parts of steps *)

\* The options a plugin can set have data options.
LEMMA OfferedHaveData ==
  /\ Offered \subseteq CallbackOptions /\ "WRITE" \in CallbackOptions
  /\ \A o \in CallbackOptions : DataOptionFor[o] \in DataOptions
<1>1. Supported \subseteq CallbackOptions /\ "WRITE" \in CallbackOptions
  BY DEF Supported, CallbackOptions
<1>2. \A o \in CallbackOptions : DataOptionFor[o] \in DataOptions
  BY DEF CallbackOptions, DataOptions, DataOptionFor
<1> QED
  BY <1>1, <1>2, OfferedAssumption

\* Nobody and others are not tasks.
LEMMA OwnersAreTasks == \A w \in Owner : w # Free /\ w # Other
<1> SUFFICES ASSUME NEW h \in Handle, NEW o \in Offered, NEW fun \in Fun
             PROVE  <<h, o, fun>> # Free /\ <<h, o, fun>> # Other
  BY DEF Owner
<1>1. Len(<<h, o, fun>>) = 3 /\ Len(Free) = 0 /\ Len(Other) = 1
  BY DEF Free, Other
<1> QED
  BY <1>1

\* The actions of TransferManager that touch no callback neither enter nor leave one,
\* neither make nor free tasks, and load plugins at most.
LEMMA UnaffectedFrame ==
  Unaffected => /\ UNCHANGED callbacks /\ UNCHANGED <<amx_curl_, amx_>>
                /\ ctx' = "callback" <=> ctx = "callback"
BY DEF Unaffected, CreateCurlFails, RemoveTaskDeferred, CurlPerformTaskFails, TransferEnds,
   CurlPerformTaskThrows, OnPerformComplete, OnPerformCompleteSkipped, ReadsMessage,
   PollBegins, HandlerRuns, SocketActionReturns, ForwardReturns, CheckMultiInfoReturns,
   DrainPollEnds, Moves, Load, DetachBegins, Stopped, vars, table, task, plugins, frame

\* Tasks are destroyed outside of data callbacks, or by the plugin inside of one.
LEMMA DestroysFrame ==
  ASSUME NEW hs, NEW valid, Destroys(hs, valid)
  PROVE  /\ \A h \in Handle : h \in hs =>
              /\ registered_callbacks_'[h] = NoCallbacks /\ data_'[h] = {}
              /\ response_body_'[h] = 0 /\ received'[h] = 0
              /\ bound'[h] = {} /\ objects'[h] = {}
         /\ \A h \in Handle : h \notin hs =>
              /\ registered_callbacks_'[h] = registered_callbacks_[h] /\ data_'[h] = data_[h]
              /\ response_body_'[h] = response_body_[h] /\ received'[h] = received[h]
              /\ bound'[h] = bound[h] /\ objects'[h] = objects[h]
BY DEF Destroys

\* Outside of teardown a destructor unregisters what it would find valid.
LEMMA ValidUnregister ==
  \A h \in Handle : h \in Unregisters(phase = "detached") <=> AmxValid(h)
BY DEF Unregisters, AmxValid

\* In teardown no destructor finds its plugin valid.
LEMMA NoneUnregister == Unregisters(TRUE) = {}
BY DEF Unregisters

\* The steps that destroy tasks.
LEMMA DestroyingSteps ==
  /\ \A h \in Handle : CleanupTask(h) =>
       /\ Destroys({h}, Unregisters(phase = "detached")) /\ Erases({h}) /\ Uses(h)
       /\ UNCHANGED <<ctx, phase, loaded>>
  /\ FrameSweeps => /\ Destroys(Swept, Unregisters(phase = "detached")) /\ Erases(Swept)
                    /\ ctx = "poll" /\ ctx' = "idle" /\ UNCHANGED <<phase, loaded>>
  /\ Teardown => /\ Destroys(amx_curl_, {}) /\ Erases(amx_curl_)
                 /\ ctx = "idle" /\ ctx' = "idle" /\ phase' = "detached"
<1>1. \A h \in Handle : CleanupTask(h) =>
        /\ Destroys({h}, Unregisters(phase = "detached")) /\ Erases({h}) /\ Uses(h)
        /\ UNCHANGED <<ctx, phase, loaded>>
  BY DEF CleanupTask, RemoveTask, frame
<1>2. FrameSweeps => /\ Destroys(Swept, Unregisters(phase = "detached")) /\ Erases(Swept)
                     /\ ctx = "poll" /\ ctx' = "idle" /\ UNCHANGED <<phase, loaded>>
  BY DEF FrameSweeps, FrameEnds
<1>3. ASSUME Teardown
      PROVE  /\ Destroys(amx_curl_, {}) /\ Erases(amx_curl_)
             /\ ctx = "idle" /\ ctx' = "idle" /\ phase' = "detached"
  <2>1. /\ Erases(amx_curl_) /\ ctx = "idle" /\ ctx' = "idle" /\ phase' = "detached"
        /\ Destroys(amx_curl_, Unregisters(phase' = "detached"))
    BY <1>3 DEF Teardown, DetachEnds, ExitWithoutDetach, RemoveAllTasks, frame
  <2>2. Unregisters(phase' = "detached") = {}
    BY <2>1 DEF Unregisters
  <2> QED
    BY <2>1, <2>2
<1> QED
  BY <1>1, <1>2, <1>3

-----------------------------------------------------------------------------
(* Type correctness *)

LEMMA UnregisteredType ==
  ASSUME CallbacksTypeOK, NEW fs
  PROVE  Unregistered(fs) \in [Forward -> {Free, Other} \cup Owner]
BY DEF CallbacksTypeOK, Unregistered

LEMMA BindsType ==
  ASSUME CallbacksTypeOK, NEW h \in Handle, NEW o \in Offered, Binds(h, o)
  PROVE  /\ bound' \in [Handle -> SUBSET CallbackOptions]
         /\ objects' \in [Handle -> SUBSET DataOptions]
<1>1. o \in CallbackOptions /\ DataOptionFor[o] \in DataOptions
  BY OfferedHaveData
<1>2. objects' = objects \/ objects' = [objects EXCEPT ![h] = objects[h] \cup {DataOptionFor[o]}]
  BY DEF Binds, BindsBoth, BindThrows
<1>3. bound' = bound \/ bound' = [bound EXCEPT ![h] = bound[h] \cup {o}]
  BY DEF Binds, BindsBoth, BindThrows
<1>4. bound' \in [Handle -> SUBSET CallbackOptions]
  BY <1>1, <1>3 DEF CallbacksTypeOK
<1>5. objects' \in [Handle -> SUBSET DataOptions]
  BY <1>1, <1>2 DEF CallbacksTypeOK
<1> QED
  BY <1>4, <1>5

LEMMA DestroysType ==
  ASSUME CallbacksTypeOK, NEW hs, NEW valid, Destroys(hs, valid),
         ctx' = "callback" <=> ctx = "callback"
  PROVE  CallbacksTypeOK'
<1>1. NoCallbacks \in [Offered -> Forward \cup {NoForward}]
  BY DEF NoCallbacks
<1>2. registered_callbacks_' \in [Handle -> [Offered -> Forward \cup {NoForward}]]
  BY <1>1 DEF CallbacksTypeOK, Destroys
<1>3. forwards' \in [Forward -> {Free, Other} \cup Owner]
  BY UnregisteredType DEF Destroys
<1>4. data_' \in [Handle -> SUBSET DataOptions] /\ objects' \in [Handle -> SUBSET DataOptions]
  BY DEF CallbacksTypeOK, Destroys
<1>5. bound' \in [Handle -> SUBSET CallbackOptions]
  BY DEF CallbacksTypeOK, Destroys
<1>6. response_body_' \in [Handle -> 0..Cap] /\ received' \in [Handle -> 0..Cap + 1]
  BY BoundsAssumption DEF CallbacksTypeOK, Destroys
<1>7. call' = call
  BY DEF Destroys
<1> QED
  BY <1>2, <1>3, <1>4, <1>5, <1>6, <1>7 DEF CallbacksTypeOK

LEMMA BoundAtFirstType ==
  BoundAtFirst \in SUBSET CallbackOptions
  /\ {DataOptionFor[o] : o \in BoundAtFirst} \in SUBSET DataOptions
BY OfferedHaveData DEF BoundAtFirst
LEMMA InitCallbacksTypeOK == CallbacksInit => CallbacksTypeOK
<1> SUFFICES ASSUME CallbacksInit PROVE CallbacksTypeOK
  OBVIOUS
<1>1. registered_callbacks_ \in [Handle -> [Offered -> Forward \cup {NoForward}]]
  BY DEF CallbacksInit, NoCallbacks
<1>2. /\ data_ \in [Handle -> SUBSET DataOptions] /\ objects \in [Handle -> SUBSET DataOptions]
      /\ bound \in [Handle -> SUBSET CallbackOptions]
  BY DEF CallbacksInit
<1>3. response_body_ \in [Handle -> 0..Cap] /\ received \in [Handle -> 0..Cap + 1]
  BY BoundsAssumption DEF CallbacksInit
<1>4. forwards \in [Forward -> {Free, Other} \cup Owner]
  BY DEF CallbacksInit
<1>5. call = NoCall /\ ctx = "idle"
  BY DEF CallbacksInit, Init
<1> QED
  BY <1>1, <1>2, <1>3, <1>4, <1>5 DEF CallbacksTypeOK

\* A size stays within the bounds.
LEMMA SizesBounded ==
  ASSUME NEW n \in Chunk, NEW size \in 0..Cap, NEW offered \in 0..Cap + 1
  PROVE  /\ Grown(size, n) \in 0..Cap
         /\ (IF offered + n > Cap THEN Cap + 1 ELSE offered + n) \in 0..Cap + 1
<1>1. n \in Nat /\ n > 0 /\ Cap \in Nat
  BY BoundsAssumption
<1> QED
  BY <1>1 DEF Grown

LEMMA NextCallbacksTypeOK ==
  CallbacksTypeOK /\ [CallbacksNext]_allVars => CallbacksTypeOK'
<1> SUFFICES ASSUME CallbacksTypeOK, [CallbacksNext]_allVars PROVE CallbacksTypeOK'
  OBVIOUS
<1>1. CASE Unaffected
  BY <1>1, UnaffectedFrame DEF CallbacksTypeOK, callbacks, body, libcurl
<1>2. ASSUME NEW h \in Handle, NEW a \in Amx, CreateTask(a, h) PROVE CallbacksTypeOK'
  <2>1. UNCHANGED <<ctx, registered_callbacks_, data_, response_body_, received, forwards, call>>
    BY <1>2 DEF CreateTask, CreateCurl, frame, body
  <2>2. /\ bound' \in [Handle -> SUBSET CallbackOptions]
        /\ objects' \in [Handle -> SUBSET DataOptions]
    BY <1>2, BoundAtFirstType DEF CreateTask, CallbacksTypeOK
  <2> QED
    BY <2>1, <2>2 DEF CallbacksTypeOK
<1>3. ASSUME NEW h \in Handle, CleanupTask(h) PROVE CallbacksTypeOK'
  BY <1>3, DestroyingSteps, DestroysType
<1>4. ASSUME NEW h \in Handle, NEW o \in Offered, NEW fun \in Fun, NEW f \in Forward,
             SetupAmxCallback(h, o, fun, f)
      PROVE  CallbacksTypeOK'
  <2>1. UNCHANGED <<ctx, data_, response_body_, received, call>>
    BY <1>4 DEF SetupAmxCallback, vars, frame, body
  <2>2. registered_callbacks_' \in [Handle -> [Offered -> Forward \cup {NoForward}]]
    BY <1>4 DEF SetupAmxCallback, CallbacksTypeOK
  <2>3. forwards' \in [Forward -> {Free, Other} \cup Owner]
    BY <1>4, UnregisteredType DEF SetupAmxCallback, Owner
  <2> QED
    BY <1>4, <2>1, <2>2, <2>3, BindsType DEF SetupAmxCallback, CallbacksTypeOK
<1>5. ASSUME NEW h \in Handle, NEW o \in Offered, SetupNotFound(h, o) PROVE CallbacksTypeOK'
  <2>1. UNCHANGED <<ctx, data_, response_body_, received, call>>
    BY <1>5 DEF SetupNotFound, vars, frame, body
  <2>2. registered_callbacks_' \in [Handle -> [Offered -> Forward \cup {NoForward}]]
    BY <1>5 DEF SetupNotFound, ErasedAfterFailure, CallbacksTypeOK
  <2> QED
    BY <1>5, <2>1, <2>2, BindsType, UnregisteredType DEF SetupNotFound, CallbacksTypeOK
<1>6. ASSUME NEW h \in Handle, NEW d, CurlSetOption(h, d) PROVE CallbacksTypeOK'
  <2>1. UNCHANGED <<ctx, registered_callbacks_, response_body_, received, bound, forwards, call>>
    BY <1>6 DEF CurlSetOption, vars, frame, body
  <2>2. data_' \in [Handle -> SUBSET DataOptions] /\ objects' \in [Handle -> SUBSET DataOptions]
    BY <1>6 DEF CurlSetOption, CallbacksTypeOK
  <2> QED
    BY <2>1, <2>2 DEF CallbacksTypeOK
<1>7. ASSUME NEW h \in Handle, NEW o \in Offered, NEW asked, DataCallback(h, o, asked)
      PROVE  CallbacksTypeOK'
  <2>1. /\ UNCHANGED <<registered_callbacks_, data_, response_body_, received, bound, objects,
                       forwards>>
        /\ ctx' = "callback"
    BY <1>7 DEF DataCallback, PawnCallback, body, libcurl
  <2>2. call'.option = o /\ call'.forward = registered_callbacks_[h][o]
    BY <1>7 DEF DataCallback
  <2>3. registered_callbacks_[h][o] \in Forward
    BY <1>7 DEF DataCallback, HasForward, CallbacksTypeOK
  <2>4. NoCall.forward \notin Forward
    BY BoundsAssumption DEF NoCall, NoForward, Forward
  <2> QED
    BY <2>1, <2>2, <2>3, <2>4 DEF CallbacksTypeOK
<1>8. ASSUME NEW h \in Handle, NEW b \in Buf \cup {NoBuf}, PerformTask(h, b)
      PROVE  CallbacksTypeOK'
  <2>1. UNCHANGED <<ctx, registered_callbacks_, data_, bound, objects, forwards, call>>
    BY <1>8 DEF PerformTask, CurlPerformTask, frame, libcurl
  <2>2. response_body_' \in [Handle -> 0..Cap] /\ received' \in [Handle -> 0..Cap + 1]
    BY <1>8, BoundsAssumption DEF PerformTask, BodyCleared, CallbacksTypeOK
  <2> QED
    BY <2>1, <2>2 DEF CallbacksTypeOK
<1>9. ASSUME NEW h \in Handle, ResetTask(h) PROVE CallbacksTypeOK'
  <2>1. UNCHANGED <<ctx, data_, call>>
    BY <1>9 DEF ResetTask, CurlReset, vars, frame
  <2>2. response_body_' \in [Handle -> 0..Cap] /\ received' \in [Handle -> 0..Cap + 1]
    BY <1>9, BoundsAssumption DEF ResetTask, CallbacksTypeOK
  <2>3. registered_callbacks_' \in [Handle -> [Offered -> Forward \cup {NoForward}]]
    BY <1>9 DEF ResetTask, NoCallbacks, CallbacksTypeOK
  <2>4. /\ bound' \in [Handle -> SUBSET CallbackOptions]
        /\ objects' \in [Handle -> SUBSET DataOptions]
    BY <1>9, BoundAtFirstType DEF ResetTask, CallbacksTypeOK
  <2> QED
    BY <1>9, <2>1, <2>2, <2>3, <2>4, UnregisteredType DEF ResetTask, CallbacksTypeOK
<1>10. ASSUME NEW h \in Handle, NEW n \in Chunk, WriteBuffered(h, n) PROVE CallbacksTypeOK'
  <2>1. UNCHANGED <<ctx, registered_callbacks_, data_, bound, objects, forwards, call>>
    BY <1>10 DEF WriteBuffered, vars, frame, libcurl
  <2>2. response_body_' \in [Handle -> 0..Cap] /\ received' \in [Handle -> 0..Cap + 1]
    <3>1. response_body_[h] \in 0..Cap /\ received[h] \in 0..Cap + 1
      BY DEF CallbacksTypeOK
    <3> QED
      BY <1>10, <3>1, SizesBounded DEF WriteBuffered, CallbacksTypeOK
  <2> QED
    BY <2>1, <2>2 DEF CallbacksTypeOK
<1>11. ASSUME NEW h \in Handle, DataCallbackSkipped(h) PROVE CallbacksTypeOK'
  BY <1>11 DEF DataCallbackSkipped, PawnCallbackSkipped, frame, callbacks, body, libcurl,
     CallbacksTypeOK
<1>12. CASE DataCallbackReturns
  BY <1>12 DEF DataCallbackReturns, CallbackReturns, body, libcurl, CallbacksTypeOK
<1>13. CASE FrameSweeps
  BY <1>13, DestroyingSteps, DestroysType
<1>14. CASE Teardown
  BY <1>14, DestroyingSteps, DestroysType
<1>15. ASSUME NEW a \in Amx, UnloadPlugin(a) PROVE CallbacksTypeOK'
  <2>1. UNCHANGED <<ctx, registered_callbacks_, data_, response_body_, received, bound, objects,
                    call>>
    BY <1>15 DEF UnloadPlugin, Unload, frame, body, libcurl
  <2>2. forwards' \in [Forward -> {Free, Other} \cup Owner]
    BY <1>15 DEF UnloadPlugin, CallbacksTypeOK
  <2> QED
    BY <2>1, <2>2 DEF CallbacksTypeOK
<1>16. ASSUME NEW f \in Forward, OtherRegisters(f) \/ OtherUnregisters(f)
       PROVE  CallbacksTypeOK'
  <2>1. UNCHANGED <<ctx, registered_callbacks_, data_, response_body_, received, bound, objects,
                    call>>
    BY <1>16 DEF OtherRegisters, OtherUnregisters, vars, frame, body, libcurl
  <2>2. forwards' \in [Forward -> {Free, Other} \cup Owner]
    BY <1>16 DEF OtherRegisters, OtherUnregisters, CallbacksTypeOK
  <2> QED
    BY <2>1, <2>2 DEF CallbacksTypeOK
<1>17. CASE UNCHANGED allVars
  BY <1>17 DEF allVars, vars, frame, callbacks, body, libcurl, CallbacksTypeOK
<1> QED
  BY <1>1, <1>2, <1>3, <1>4, <1>5, <1>6, <1>7, <1>8, <1>9, <1>10, <1>11, <1>12, <1>13, <1>14,
     <1>15, <1>16, <1>17, UnsupportedStutters
  DEF CallbacksNext, TaskNext

\* Type correctness of what data callbacks keep, under any faults.
THEOREM CallbacksTypeCorrect == CallbacksSpec => []CallbacksTypeOK
BY InitCallbacksTypeOK, NextCallbacksTypeOK, PTL DEF CallbacksSpec
-----------------------------------------------------------------------------
(* What libcurl holds of a handle, and what its body collected *)

\* The size of a body that was offered `offered' in all.
Kept(offered) == IF offered > Cap THEN Cap ELSE offered

LEMMA GrownIsKept ==
  ASSUME NEW n \in Chunk, NEW offered \in 0..Cap + 1
  PROVE  Grown(Kept(offered), n) = Kept(IF offered + n > Cap THEN Cap + 1 ELSE offered + n)
<1>1. n \in Nat /\ n > 0 /\ Cap \in Nat
  BY BoundsAssumption
<1> QED
  BY <1>1 DEF Grown, Kept

HandlesServed == BodyIsPrefix /\ CallbacksGetTheirObject /\ WriteAlwaysBound

\* Steps that change none of it.
LEMMA ServedUnchanged ==
  ASSUME HandlesServed, UNCHANGED <<bound, objects, response_body_, received, amx_curl_>>
  PROVE  HandlesServed'
BY DEF HandlesServed, BodyIsPrefix, CallbacksGetTheirObject, WriteAlwaysBound

\* Binding an option binds its object with it.
LEMMA BindsServes ==
  ASSUME CallbacksTypeOK, HandlesServed, NEW h \in Handle, NEW o \in Offered, Binds(h, o),
         UNCHANGED <<body, amx_curl_>>
  PROVE  HandlesServed'
<1>1. BodyIsPrefix'
  BY DEF HandlesServed, BodyIsPrefix, body
<1>2. CallbacksGetTheirObject'
  <2>1. /\ objects' = objects \/ objects' = [objects EXCEPT ![h] = objects[h] \cup {DataOptionFor[o]}]
        /\ bound' = bound \/ BindsBoth(h, o)
    BY DEF Binds, BindsBoth, BindThrows
  <2>2. CASE BindsBoth(h, o)
    BY <2>2 DEF HandlesServed, CallbacksGetTheirObject, BindsBoth, CallbacksTypeOK
  <2>3. CASE bound' = bound
    <3>1. \A k \in Handle : objects[k] \subseteq objects'[k]
      BY <2>1 DEF CallbacksTypeOK
    <3> QED
      BY <2>3, <3>1 DEF HandlesServed, CallbacksGetTheirObject
  <2> QED
    BY <2>1, <2>2, <2>3
<1>3. WriteAlwaysBound'
  <2> SUFFICES ASSUME NEW k \in amx_curl_ PROVE "WRITE" \in bound'[k]
    BY DEF WriteAlwaysBound
  <2>1. bound' = [bound EXCEPT ![h] = bound[h] \cup {o}] \/ bound' = bound
    BY DEF Binds, BindsBoth, BindThrows
  <2>2. CASE bound' = [bound EXCEPT ![h] = bound[h] \cup {o}]
    BY <2>2 DEF HandlesServed, WriteAlwaysBound, CallbacksTypeOK
  <2>3. CASE bound' = bound
    BY <2>3 DEF HandlesServed, WriteAlwaysBound
  <2> QED
    BY <2>1, <2>2, <2>3
<1> QED
  BY <1>1, <1>2, <1>3 DEF HandlesServed

\* Tasks that are destroyed leave nothing to be served.
LEMMA DestroysServes ==
  ASSUME CallbacksTypeOK, HandlesServed, NEW hs, NEW valid, Destroys(hs, valid), Erases(hs),
         amx_curl_ \subseteq Handle
  PROVE  HandlesServed'
<1>1. amx_curl_' = amx_curl_ \ hs
  BY DEF Erases
<1>2. BodyIsPrefix'
  <2> SUFFICES ASSUME NEW h \in Handle
               PROVE  response_body_'[h] = IF received'[h] > Cap THEN Cap ELSE received'[h]
    BY DEF BodyIsPrefix
  <2>1. CASE h \in hs
    BY <2>1, DestroysFrame, BoundsAssumption
  <2>2. CASE h \notin hs
    BY <2>2, DestroysFrame DEF HandlesServed, BodyIsPrefix
  <2> QED
    BY <2>1, <2>2
<1>3. CallbacksGetTheirObject'
  BY DestroysFrame DEF HandlesServed, CallbacksGetTheirObject
<1>4. WriteAlwaysBound'
  BY <1>1, DestroysFrame DEF HandlesServed, WriteAlwaysBound
<1> QED
  BY <1>2, <1>3, <1>4 DEF HandlesServed

LEMMA NextHandlesServed ==
  TypeOK /\ CallbacksTypeOK /\ HandlesServed /\ [CallbacksNext]_allVars => HandlesServed'
<1> SUFFICES ASSUME TypeOK, CallbacksTypeOK, HandlesServed, [CallbacksNext]_allVars
             PROVE  HandlesServed'
  OBVIOUS
<1>0. amx_curl_ \subseteq Handle
  BY DEF TypeOK
<1>1. ASSUME \/ Unaffected \/ DataCallbackReturns \/ UNCHANGED allVars
             \/ \E h \in Handle : \/ DataCallbackSkipped(h)
                                  \/ \E o \in Offered : \E asked \in Asked(o) :
                                       DataCallback(h, o, asked)
             \/ \E a \in Amx : UnloadPlugin(a)
             \/ \E f \in Forward : OtherRegisters(f) \/ OtherUnregisters(f)
      PROVE  HandlesServed'
  <2>1. UNCHANGED <<bound, objects, response_body_, received, amx_curl_>>
    BY <1>1, UnaffectedFrame DEF DataCallbackReturns, CallbackReturns, allVars, vars, table,
       callbacks, libcurl, body, DataCallbackSkipped, PawnCallbackSkipped, DataCallback,
       PawnCallback, UnloadPlugin, Unload, OtherRegisters, OtherUnregisters
  <2> QED
    BY <2>1, ServedUnchanged
<1>2. ASSUME NEW h \in Handle, NEW a \in Amx, CreateTask(a, h) PROVE HandlesServed'
  <2>1. /\ amx_curl_' = amx_curl_ \cup {h} /\ UNCHANGED <<response_body_, received>>
        /\ bound' = [bound EXCEPT ![h] = BoundAtFirst]
        /\ objects' = [objects EXCEPT ![h] = {DataOptionFor[o] : o \in BoundAtFirst}]
    BY <1>2 DEF CreateTask, CreateCurl, body
  <2>2. WriteAlwaysBound'
    BY <1>0, <2>1 DEF HandlesServed, WriteAlwaysBound, BoundAtFirst, CallbacksTypeOK
  <2>3. CallbacksGetTheirObject'
    BY <2>1 DEF HandlesServed, CallbacksGetTheirObject, CallbacksTypeOK
  <2> QED
    BY <2>1, <2>2, <2>3 DEF HandlesServed, BodyIsPrefix
<1>3. ASSUME NEW h \in Handle, CleanupTask(h) PROVE HandlesServed'
  BY <1>0, <1>3, DestroyingSteps, DestroysServes
<1>4. ASSUME NEW h \in Handle, NEW o \in Offered,
             SetupNotFound(h, o) \/ \E fun \in Fun, f \in Forward : SetupAmxCallback(h, o, fun, f)
      PROVE  HandlesServed'
  BY <1>4, BindsServes DEF SetupNotFound, SetupAmxCallback, vars, table
<1>5. ASSUME NEW h \in Handle, NEW o \in Offered, CurlSetOption(h, DataOptionFor[o])
      PROVE  HandlesServed'
  <2>1. {DataOptionFor[o]} \ DataOptions = {}
    BY OfferedHaveData
  <2>2. objects' = [objects EXCEPT ![h] = objects[h] \ ({DataOptionFor[o]} \ DataOptions)]
    BY <1>5 DEF CurlSetOption
  <2>3. objects' = objects
    BY <2>1, <2>2 DEF CallbacksTypeOK
  <2> QED
    BY <1>5, <2>3, ServedUnchanged DEF CurlSetOption, vars, table, body
<1>6. ASSUME NEW h \in Handle, NEW b \in Buf \cup {NoBuf}, PerformTask(h, b)
      PROVE  HandlesServed'
  <2>1. /\ response_body_' = [response_body_ EXCEPT ![h] = 0]
        /\ received' = [received EXCEPT ![h] = 0]
        /\ UNCHANGED <<bound, objects, amx_curl_>>
    BY <1>6 DEF PerformTask, CurlPerformTask, BodyCleared, libcurl, table
  <2>2. BodyIsPrefix'
    BY <2>1, BoundsAssumption DEF HandlesServed, BodyIsPrefix, CallbacksTypeOK
  <2> QED
    BY <2>1, <2>2 DEF HandlesServed, CallbacksGetTheirObject, WriteAlwaysBound
<1>7. ASSUME NEW h \in Handle, ResetTask(h) PROVE HandlesServed'
  <2>1. /\ response_body_' = [response_body_ EXCEPT ![h] = 0]
        /\ received' = [received EXCEPT ![h] = 0]
        /\ bound' = [bound EXCEPT ![h] = BoundAtFirst]
        /\ objects' = [objects EXCEPT ![h] = {DataOptionFor[o] : o \in BoundAtFirst}]
    BY <1>7 DEF ResetTask
  <2>2. amx_curl_' = amx_curl_
    BY <1>7 DEF ResetTask, CurlReset, vars, table
  <2>3. BodyIsPrefix'
    BY <2>1, BoundsAssumption DEF HandlesServed, BodyIsPrefix, CallbacksTypeOK
  <2>4. WriteAlwaysBound'
    BY <1>0, <2>1, <2>2 DEF HandlesServed, WriteAlwaysBound, BoundAtFirst, CallbacksTypeOK
  <2>5. CallbacksGetTheirObject'
    BY <2>1 DEF HandlesServed, CallbacksGetTheirObject, CallbacksTypeOK
  <2> QED
    BY <2>3, <2>4, <2>5 DEF HandlesServed
<1>8. ASSUME NEW h \in Handle, NEW n \in Chunk, WriteBuffered(h, n) PROVE HandlesServed'
  <2>1. /\ response_body_' = [response_body_ EXCEPT ![h] = Grown(response_body_[h], n)]
        /\ received' = [received EXCEPT ![h] =
             IF received[h] + n > Cap THEN Cap + 1 ELSE received[h] + n]
        /\ UNCHANGED <<bound, objects, amx_curl_>>
    BY <1>8 DEF WriteBuffered, libcurl, vars, table
  <2>2. response_body_[h] = Kept(received[h]) /\ received[h] \in 0..Cap + 1
    BY DEF HandlesServed, BodyIsPrefix, CallbacksTypeOK, Kept
  <2>3. response_body_'[h] = Kept(received'[h])
    BY <2>1, <2>2, GrownIsKept DEF CallbacksTypeOK
  <2>4. BodyIsPrefix'
    BY <2>1, <2>3 DEF HandlesServed, BodyIsPrefix, CallbacksTypeOK, Kept
  <2> QED
    BY <2>1, <2>4 DEF HandlesServed, CallbacksGetTheirObject, WriteAlwaysBound
<1>9. CASE FrameSweeps \/ Teardown
  BY <1>0, <1>9, DestroyingSteps, DestroysServes
<1> QED
  BY <1>1, <1>2, <1>3, <1>4, <1>5, <1>6, <1>7, <1>8, <1>9, UnsupportedStutters
  DEF CallbacksNext, TaskNext

LEMMA AllHandlesServed == CallbacksSpec => []HandlesServed
<1>1. CallbacksInit => HandlesServed
  BY BoundsAssumption DEF CallbacksInit, Init, HandlesServed, BodyIsPrefix,
     CallbacksGetTheirObject, WriteAlwaysBound
<1>2. CallbacksSpec => []TypeOK
  BY CallbacksAreTransfers, TypeCorrect, PTL
<1> QED
  BY <1>1, <1>2, CallbacksTypeCorrect, NextHandlesServed, PTL DEF CallbacksSpec

\* The body is the beginning of what its transfer received, up to the cap, whatever
\* chunks arrive and however often the handle is performed (WriteCallback, Perform).
THEOREM BodiesArePrefixes == CallbacksSpec => []BodyIsPrefix
<1>1. HandlesServed => BodyIsPrefix
  BY DEF HandlesServed
<1> QED
  BY <1>1, AllHandlesServed, PTL

\* No callback of ours is called with anything but our object (BindCallback, CurlSetOption).
THEOREM ObjectsStayOurs == CallbacksSpec => []CallbacksGetTheirObject
<1>1. HandlesServed => CallbacksGetTheirObject
  BY DEF HandlesServed
<1> QED
  BY <1>1, AllHandlesServed, PTL

\* Each live handle has our write callback (InitCurl, CurlReset).
THEOREM WritersStayBound == CallbacksSpec => []WriteAlwaysBound
<1>1. HandlesServed => WriteAlwaysBound
  BY DEF HandlesServed
<1> QED
  BY <1>1, AllHandlesServed, PTL

\* What is bound after a step was bound before it, or is an option a plugin may set.
LEMMA NextOverridesOnly ==
  CallbacksTypeOK /\ OnlyOverridesBound /\ [CallbacksNext]_allVars => OnlyOverridesBound'
<1> SUFFICES ASSUME CallbacksTypeOK, OnlyOverridesBound, CallbacksNext
             PROVE  OnlyOverridesBound'
  BY DEF OnlyOverridesBound, allVars, callbacks, libcurl
<1>0. "WRITE" \in Supported /\ Offered \subseteq Supported
  BY OfferedAssumption DEF Supported
<1>1. ASSUME NEW h \in Handle, TaskNext(h) PROVE OnlyOverridesBound'
  <2>1. ASSUME NEW o \in Offered, Binds(h, o) PROVE OnlyOverridesBound'
    <3>1. bound' = bound \/ bound' = [bound EXCEPT ![h] = bound[h] \cup {o}]
      BY <2>1 DEF Binds, BindsBoth, BindThrows
    <3> QED
      BY <1>0, <3>1 DEF OnlyOverridesBound, CallbacksTypeOK
  <2>2. ASSUME bound' = [bound EXCEPT ![h] = BoundAtFirst] PROVE OnlyOverridesBound'
    BY <1>0, <2>2 DEF BoundAtFirst, OnlyOverridesBound, CallbacksTypeOK
  <2>3. ASSUME NEW hs, NEW valid, Destroys(hs, valid) PROVE OnlyOverridesBound'
    BY <2>3 DEF Destroys, OnlyOverridesBound
  <2>4. ASSUME bound' = bound PROVE OnlyOverridesBound'
    BY <2>4 DEF OnlyOverridesBound
  <2>5. ASSUME NEW a \in Amx, CreateTask(a, h) PROVE OnlyOverridesBound'
    BY <2>2, <2>5 DEF CreateTask
  <2>6. ASSUME CleanupTask(h) PROVE OnlyOverridesBound'
    BY <2>3, <2>6 DEF CleanupTask
  <2>7. ASSUME NEW o \in Offered,
               SetupNotFound(h, o) \/ \E fun \in Fun, f \in Forward : SetupAmxCallback(h, o, fun, f)
        PROVE  OnlyOverridesBound'
    BY <2>1, <2>7 DEF SetupNotFound, SetupAmxCallback
  <2>8. ASSUME ResetTask(h) PROVE OnlyOverridesBound'
    BY <2>2, <2>8 DEF ResetTask
  <2> QED
    BY <1>1, <2>4, <2>5, <2>6, <2>7, <2>8 DEF TaskNext, CurlSetOption, DataCallback,
       SetupUnsupported, BoundWhenThrown, PerformTask, WriteBuffered, DataCallbackSkipped,
       callbacks, libcurl
<1>2. CASE FrameSweeps \/ Teardown
  BY <1>2 DEF FrameSweeps, Teardown, Destroys, OnlyOverridesBound
<1>3. ASSUME \/ Unaffected \/ DataCallbackReturns \/ \E a \in Amx : UnloadPlugin(a)
             \/ \E f \in Forward : OtherRegisters(f) \/ OtherUnregisters(f)
      PROVE  OnlyOverridesBound'
  BY <1>3 DEF Unaffected, DataCallbackReturns, UnloadPlugin, OtherRegisters, OtherUnregisters,
     callbacks, libcurl, OnlyOverridesBound
<1> QED
  BY <1>1, <1>2, <1>3 DEF CallbacksNext

\* libcurl never gets a method that CurlCallbackAmx leaves to throw (SetupAmxCallback).
THEOREM OverridesOnly == CallbacksSpec => []OnlyOverridesBound
<1>1. CallbacksInit => OnlyOverridesBound
  BY DEF CallbacksInit, OnlyOverridesBound
<1> QED
  BY <1>1, CallbacksTypeCorrect, NextOverridesOnly, PTL DEF CallbacksSpec

\* The codes of all options a plugin may set stop libcurl, but DEBUG's, as long as fewer
\* items are asked for than the code of READ, CURL_READFUNC_ABORT.
LEMMA InterruptCodesStop ==
  ASSUME NEW n \in Nat, n > 0, n < InterruptCode["READ"], NEW o \in Supported, o # "DEBUG"
  PROVE  InterruptCode[o] \notin GoesOn(n)[o]
<1>1. CASE o = "READ"
  <2>1. GoesOn(n)["READ"] = 0..n
    BY SMT DEF GoesOn
  <2> QED
    BY <1>1, <2>1, SMT
<1>2. CASE o # "READ"
  BY <1>2, SMT DEF Supported, InterruptCode, GoesOn
<1> QED
  BY <1>1, <1>2

\* An interrupted transfer is stopped by the next callback libcurl makes for it, however
\* many items it asks for, as long as they are fewer than READ's code: no buffer of libcurl
\* is that large.  DEBUG is excepted, as libcurl ignores its result.  (TryInterrupt,
\* CurlUtils::GetInterruptCodeForCurlCallback.)
THEOREM InterruptedStop ==
  ASSUME \A n \in Chunk : n < InterruptCode["READ"]
  PROVE  CallbacksSpec => []InterruptsStop
<1>1. TypeOK /\ OnlyOverridesBound => InterruptsStop
  <2> SUFFICES ASSUME TypeOK, OnlyOverridesBound, NEW h \in interrupt_, NEW n \in Chunk,
                      NEW o \in bound[h] \ {"DEBUG"}
               PROVE  InterruptCode[o] \notin GoesOn(n)[o]
    BY DEF InterruptsStop
  <2>1. o \in Supported
    BY DEF TypeOK, OnlyOverridesBound
  <2>2. n \in Nat /\ n > 0
    BY BoundsAssumption
  <2> QED
    BY <2>1, <2>2, InterruptCodesStop
<1>2. CallbacksSpec => []TypeOK
  BY CallbacksAreTransfers, TypeCorrect, PTL
<1> QED
  BY <1>1, <1>2, OverridesOnly, PTL

\* Both cells of an off_t option count, on every handle (curl_easy_setopt).
THEOREM WideOptionsArrive == CallbacksSpec => []WideOptionsExact
<1>1. WideOptionsExact
  BY WideOptionsCross DEF OffsetsExact, WideOptionsExact
<1> QED
  BY <1>1, PTL

\* The branches of curl_easy_setopt exclude one another, so that their order is nothing.
LEMMA Branches ==
  ASSUME NEW o
  PROVE  /\ o \in DataOptions => ArrivesAs(o) = "cell"
         /\ o = "HTTPPOST" => ArrivesAs(o) = "form"
         /\ o \in ListCases => ArrivesAs(o) = "list"
         /\ o = "POSTFIELDS" => ArrivesAs(o) = "text, copied at once"
         /\ o \notin DataOptions \cup ListCases \cup {"HTTPPOST", "POSTFIELDS"} =>
              ArrivesAs(o) = "text"
<1>1. ASSUME o \in DataOptions PROVE o \notin ListCases \cup {"HTTPPOST", "POSTFIELDS"}
  BY <1>1 DEF DataOptions, ListCases
<1>2. ASSUME o \in ListCases PROVE o \notin DataOptions \cup {"HTTPPOST", "POSTFIELDS"}
  BY <1>1, <1>2 DEF ListCases
<1>3. o = "HTTPPOST" => o # "POSTFIELDS"
  OBVIOUS
<1>4. o \in DataOptions => ArrivesAs(o) = "cell"
  BY <1>1, Zenon DEF ArrivesAs
<1>5. o = "HTTPPOST" => ArrivesAs(o) = "form"
  BY <1>1, <1>2, <1>3, Zenon DEF ArrivesAs
<1>6. o \in ListCases => ArrivesAs(o) = "list"
  BY <1>2, Zenon DEF ArrivesAs
<1>7. o = "POSTFIELDS" => ArrivesAs(o) = "text, copied at once"
  BY <1>1, <1>2, <1>3, Zenon DEF ArrivesAs
<1>8. ASSUME o \notin DataOptions, o \notin ListCases, o # "HTTPPOST", o # "POSTFIELDS"
      PROVE  ArrivesAs(o) = "text"
  BY <1>8, Zenon DEF ArrivesAs
<1> QED
  BY <1>4, <1>5, <1>6, <1>7, <1>8

\* What a name is documented as, whatever the order of the cases.
LEMMA Documentation ==
  ASSUME NEW o
  PROVE  /\ o \in DataOptions => DocumentedAs(o) = "cell"
         /\ o \in DocumentedLists => DocumentedAs(o) = "list"
         /\ o = "HTTPPOST" => DocumentedAs(o) = "form"
         /\ o \in DocumentedPointers => DocumentedAs(o) = "pointer"
<1>1. ASSUME o \in DataOptions
      PROVE  o \notin DocumentedLists /\ o # "HTTPPOST" /\ o \notin DocumentedPointers
  BY <1>1 DEF DataOptions, DocumentedLists, DocumentedPointers
<1>2. ASSUME o \in DocumentedLists
      PROVE  o \notin DataOptions /\ o # "HTTPPOST" /\ o \notin DocumentedPointers
  BY <1>1, <1>2 DEF DocumentedLists, DocumentedPointers
<1>3. ASSUME o \in DocumentedPointers
      PROVE  o \notin DataOptions /\ o \notin DocumentedLists /\ o # "HTTPPOST"
  BY <1>1, <1>2, <1>3 DEF DocumentedPointers
<1>4. o \in DataOptions => DocumentedAs(o) = "cell"
  BY <1>1, Zenon DEF DocumentedAs
<1>5. o \in DocumentedLists => DocumentedAs(o) = "list"
  BY <1>2, Zenon DEF DocumentedAs
<1>6. o = "HTTPPOST" => DocumentedAs(o) = "form"
  BY <1>1, <1>2, <1>3, Zenon DEF DocumentedAs
<1>7. o \in DocumentedPointers => DocumentedAs(o) = "pointer"
  BY <1>3, Zenon DEF DocumentedAs
<1> QED
  BY <1>4, <1>5, <1>6, <1>7

\* The options of the include file that go astray: they fall into the branch for text.
Astray == {"PREQUOTE"} \cup DocumentedPointers

LEMMA AstrayAreText ==
  /\ Astray \subseteq NotText
  /\ \A o \in Astray : ArrivesAs(o) = "text" /\ DocumentedAs(o) \in {"list", "pointer"}
<1> SUFFICES ASSUME NEW o \in Astray
             PROVE  /\ o \in NotText
                    /\ ArrivesAs(o) = "text" /\ DocumentedAs(o) \in {"list", "pointer"}
  OBVIOUS
<1>1. o \notin DataOptions \cup ListCases \cup {"HTTPPOST", "POSTFIELDS"}
  BY DEF Astray, DocumentedPointers, DataOptions, ListCases
<1>2. o \in DocumentedLists \cup DocumentedPointers
  BY DEF Astray, DocumentedLists
<1> QED
  BY <1>1, <1>2, Branches, Documentation DEF NotText

\* The others arrive as what they are documented as.
LEMMA OthersArrive == \A o \in NotText \ Astray : ArrivesAs(o) = DocumentedAs(o)
<1> SUFFICES ASSUME NEW o \in NotText, o \notin Astray PROVE ArrivesAs(o) = DocumentedAs(o)
  OBVIOUS
<1>1. CASE o \in DataOptions
  <2>1. ArrivesAs(o) = "cell"
    BY <1>1, Branches
  <2>2. DocumentedAs(o) = "cell"
    BY <1>1, Documentation
  <2> QED
    BY <2>1, <2>2
<1>2. CASE o \in DocumentedLists
  <2>1. o \in ListCases
    BY <1>2 DEF DocumentedLists, ListCases, Astray
  <2>2. ArrivesAs(o) = "list"
    BY <2>1, Branches
  <2>3. DocumentedAs(o) = "list"
    BY <1>2, Documentation
  <2> QED
    BY <2>2, <2>3
<1>3. CASE o = "HTTPPOST"
  <2>1. ArrivesAs("HTTPPOST") = "form"
    BY Branches
  <2>2. DocumentedAs("HTTPPOST") = "form"
    BY Documentation
  <2> QED
    BY <1>3, <2>1, <2>2
<1> QED
  BY <1>1, <1>2, <1>3 DEF NotText, Astray

\* Of the options that do not take text, PREQUOTE and the five pointers, and only they,
\* arrive as something else than the include file says, on every handle; and none that
\* takes text does (curl_easy_setopt, curl_consts.inc).
THEOREM SixGoAstray == CallbacksSpec => []SixTakenForText
<1>1. {o \in NotText : ArrivesAs(o) # DocumentedAs(o)} = Astray
  BY AstrayAreText, OthersArrive
<1>2. ListCases \subseteq DocumentedLists
  BY DEF ListCases, DocumentedLists
<1>3. ArrivesAs("POSTFIELDS") = "text, copied at once"
  BY Branches
<1>4. SixTakenForText
  BY <1>1, <1>2, <1>3, AstrayAreText DEF SixTakenForText, Astray, NotText
<1> QED
  BY <1>4, PTL

-----------------------------------------------------------------------------
(* Forwards, when no plugin is loaded at the address of an unloaded one *)

\* Where there is no task, there are no callbacks.
NoTaskNoCallbacks ==
  \A h \in Handle : h \notin amx_curl_ => registered_callbacks_[h] = NoCallbacks

\* The forwards a task of a loaded plugin knows are its own.
KnownAreHeld ==
  \A h \in amx_curl_, o \in Offered :
    AmxValid(h) /\ registered_callbacks_[h][o] # NoForward =>
      \E fun \in Fun : forwards[registered_callbacks_[h][o]] = <<h, o, fun>>

\* Before detach, each forward is known to its task, whose plugin is loaded: unloading
\* a plugin takes its forwards away.
HeldAreKnown ==
  phase # "detached" => \A f \in Forward, h \in Handle, o \in Offered, fun \in Fun :
    forwards[f] = <<h, o, fun>> =>
      h \in amx_curl_ /\ amx_[h] \in loaded /\ registered_callbacks_[h][o] = f

ForwardsInv == DetachedIsIdle /\ NoTaskNoCallbacks /\ KnownAreHeld /\ HeldAreKnown

LEMMA NextDetachedIsIdle == DetachedIsIdle /\ [Next]_vars => DetachedIsIdle'
<1> SUFFICES ASSUME DetachedIsIdle, [Next]_vars, phase' = "detached" PROVE ctx' = "idle"
  BY DEF DetachedIsIdle
<1>1. CASE phase = "detached"
  BY <1>1, NothingAfterDetach DEF DetachedIsIdle, vars, frame
<1>2. CASE phase # "detached"
  BY <1>2, OnlyRemovalDetaches DEF RemoveAllTasks
<1> QED
  BY <1>1, <1>2

\* What one task holds, no other does.
LEMMA HeldOnce ==
  \A h, k \in Handle, o, p \in Offered, fun, fn \in Fun :
    <<h, o, fun>> = <<k, p, fn>> => h = k /\ o = p /\ fun = fn
OBVIOUS

LEMMA HeldIsNobodyElses ==
  ASSUME NEW h \in Handle, NEW o \in Offered, NEW fun \in Fun
  PROVE  <<h, o, fun>> # Free /\ <<h, o, fun>> # Other
BY OwnersAreTasks DEF Owner

\* A native that uses a handle runs while its plugin is valid.
LEMMA UsedIsValid ==
  ASSUME DetachedIsIdle, NEW h \in Handle, Uses(h)
  PROVE  h \in amx_curl_ /\ amx_[h] \in loaded /\ phase # "detached" /\ AmxValid(h)
BY DEF Uses, PawnRuns, AmxValid, DetachedIsIdle

\* Steps that change no forward and no plugin.
LEMMA ForwardsUnchanged ==
  ASSUME ForwardsInv, DetachedIsIdle',
         UNCHANGED <<registered_callbacks_, forwards, amx_curl_, amx_, loaded, phase>>
  PROVE  ForwardsInv'
BY DEF ForwardsInv, NoTaskNoCallbacks, KnownAreHeld, HeldAreKnown, AmxValid

\* Destroying tasks of loaded plugins frees what they hold; the others hold nothing.
LEMMA DestroysKeepsForwards ==
  ASSUME TypeOK, CallbacksTypeOK, ForwardsInv, NEW hs, hs \subseteq amx_curl_,
         Destroys(hs, Unregisters(phase = "detached")), Erases(hs), phase # "detached",
         UNCHANGED <<phase, loaded>>, DetachedIsIdle'
  PROVE  ForwardsInv'
<1>0. amx_curl_ \subseteq Handle
  BY DEF TypeOK
<1>1. /\ amx_curl_' = amx_curl_ \ hs
      /\ \A h \in Handle : h \notin hs => amx_'[h] = amx_[h]
  BY DEF Erases
<1>2. \A f \in Forward : forwards'[f] =
        IF \E k \in hs : AmxValid(k) /\ f \in ForwardsOf(k) THEN Free ELSE forwards[f]
  BY <1>0, ValidUnregister DEF Destroys, Unregistered
<1>3. NoTaskNoCallbacks'
  BY <1>0, <1>1, DestroysFrame DEF ForwardsInv, NoTaskNoCallbacks
<1>4. KnownAreHeld'
  <2> SUFFICES ASSUME NEW h \in amx_curl_, h \notin hs, NEW o \in Offered, AmxValid(h)',
                      registered_callbacks_'[h][o] # NoForward
               PROVE  \E fun \in Fun : forwards'[registered_callbacks_'[h][o]] = <<h, o, fun>>
    BY <1>1 DEF KnownAreHeld
  <2>1. registered_callbacks_'[h] = registered_callbacks_[h] /\ AmxValid(h)
    BY <1>0, <1>1, DestroysFrame DEF AmxValid
  <2> DEFINE f == registered_callbacks_[h][o]
  <2>2. f \in Forward
    BY <1>0, <2>1 DEF CallbacksTypeOK
  <2>3. PICK fun \in Fun : forwards[f] = <<h, o, fun>>
    BY <2>1 DEF ForwardsInv, KnownAreHeld
  <2>4. ASSUME NEW k \in hs, AmxValid(k), f \in ForwardsOf(k) PROVE FALSE
    <3>1. PICK p \in Offered : registered_callbacks_[k][p] = f
      BY <2>4 DEF ForwardsOf
    <3>2. AmxValid(k) /\ f # NoForward
      BY <2>1, <2>4
    <3>3. PICK fn \in Fun : forwards[f] = <<k, p, fn>>
      BY <3>1, <3>2 DEF ForwardsInv, KnownAreHeld
    <3> QED
      BY <1>0, <2>3, <3>3, HeldOnce
  <2> QED
    BY <1>2, <2>1, <2>2, <2>3, <2>4
<1>5. HeldAreKnown'
  <2> SUFFICES ASSUME NEW f \in Forward, NEW h \in Handle, NEW o \in Offered, NEW fun \in Fun,
                      forwards'[f] = <<h, o, fun>>
               PROVE  /\ h \in amx_curl_' /\ amx_'[h] \in loaded'
                      /\ registered_callbacks_'[h][o] = f
    BY DEF HeldAreKnown
  <2>1. /\ forwards[f] = <<h, o, fun>>
        /\ \A k \in hs : AmxValid(k) => f \notin ForwardsOf(k)
    BY <1>2, HeldIsNobodyElses
  <2>2. h \in amx_curl_ /\ amx_[h] \in loaded /\ registered_callbacks_[h][o] = f
    BY <2>1 DEF ForwardsInv, HeldAreKnown
  <2>3. h \notin hs
    BY <2>1, <2>2 DEF AmxValid, ForwardsOf
  <2> QED
    BY <1>1, <2>2, <2>3, DestroysFrame
<1> QED
  BY <1>3, <1>4, <1>5 DEF ForwardsInv

\* A callback that is set, or not found: the old forward is given back, and the new one
\* was nobody's.
LEMMA SetupKeepsForwards ==
  ASSUME TypeOK, CallbacksTypeOK, ForwardsInv, NEW h \in Handle, NEW o \in Offered, Uses(h),
         UNCHANGED vars, NEW r,
         registered_callbacks_' = [registered_callbacks_ EXCEPT ![h][o] = r],
         LET unregistered == Unregistered({registered_callbacks_[h][o]}) IN
         \/ r = NoForward /\ forwards' = unregistered
         \/ \E fun \in Fun : /\ r \in Forward /\ unregistered[r] = Free
                             /\ forwards' = [unregistered EXCEPT ![r] = <<h, o, fun>>]
  PROVE  ForwardsInv'
<1> DEFINE old == registered_callbacks_[h][o]
           unregistered == Unregistered({old})
<1>0. /\ amx_curl_ \subseteq Handle
      /\ UNCHANGED <<amx_curl_, amx_, loaded, phase, ctx>>
      /\ h \in amx_curl_ /\ amx_[h] \in loaded /\ phase # "detached" /\ AmxValid(h)
  BY UsedIsValid DEF TypeOK, ForwardsInv, vars, table, task, plugins, frame
<1>1. \A k \in Handle, p \in Offered :
        registered_callbacks_'[k][p] = IF k = h /\ p = o THEN r ELSE registered_callbacks_[k][p]
  BY DEF CallbacksTypeOK
<1>2. \A f \in Forward : unregistered[f] = IF f = old THEN Free ELSE forwards[f]
  BY DEF Unregistered
<1>3. \A f \in Forward : f # r => forwards'[f] = unregistered[f]
  BY DEF Unregistered
<1>4. old # NoForward => \E fun \in Fun : forwards[old] = <<h, o, fun>>
  BY <1>0 DEF ForwardsInv, KnownAreHeld
<1>5. r # NoForward => /\ r \in Forward /\ unregistered[r] = Free
                       /\ \E fun \in Fun : forwards'[r] = <<h, o, fun>>
  BY DEF Unregistered
<1> HIDE DEF unregistered
<1>6. NoTaskNoCallbacks'
  BY <1>0 DEF ForwardsInv, NoTaskNoCallbacks, CallbacksTypeOK
<1>7. KnownAreHeld'
  <2> SUFFICES ASSUME NEW k \in amx_curl_, NEW p \in Offered, AmxValid(k),
                      registered_callbacks_'[k][p] # NoForward
               PROVE  \E fun \in Fun : forwards'[registered_callbacks_'[k][p]] = <<k, p, fun>>
    BY <1>0 DEF KnownAreHeld, AmxValid
  <2>1. CASE k = h /\ p = o
    BY <1>0, <1>1, <1>5, <2>1
  <2>2. CASE ~(k = h /\ p = o)
    <3> DEFINE g == registered_callbacks_[k][p]
    <3>1. registered_callbacks_'[k][p] = g
      BY <1>0, <1>1, <2>2
    <3>2. g \in Forward
      BY <1>0, <3>1 DEF CallbacksTypeOK
    <3>3. PICK fun \in Fun : forwards[g] = <<k, p, fun>>
      BY <3>1 DEF ForwardsInv, KnownAreHeld
    <3>4. g # old
      BY <1>0, <1>4, <2>2, <3>1, <3>3, HeldOnce
    <3>5. unregistered[g] = <<k, p, fun>>
      BY <1>2, <3>2, <3>3, <3>4
    <3>6. g # r
      BY <1>0, <1>5, <3>1, <3>5, HeldIsNobodyElses
    <3> QED
      BY <1>3, <3>1, <3>2, <3>5, <3>6
  <2> QED
    BY <2>1, <2>2
<1>8. HeldAreKnown'
  <2> SUFFICES ASSUME NEW f \in Forward, NEW k \in Handle, NEW p \in Offered, NEW fn \in Fun,
                      forwards'[f] = <<k, p, fn>>
               PROVE  k \in amx_curl_ /\ amx_[k] \in loaded /\ registered_callbacks_'[k][p] = f
    BY <1>0 DEF HeldAreKnown
  <2>1. CASE f = r
    <3>1. f # NoForward
      BY BoundsAssumption DEF Forward, NoForward
    <3>2. k = h /\ p = o
      BY <1>5, <2>1, <3>1, HeldOnce
    <3> QED
      BY <1>0, <1>1, <2>1, <3>2
  <2>2. CASE f # r
    <3>1. f # old /\ forwards[f] = <<k, p, fn>>
      BY <1>2, <1>3, <2>2, HeldIsNobodyElses
    <3>2. k \in amx_curl_ /\ amx_[k] \in loaded /\ registered_callbacks_[k][p] = f
      BY <1>0, <3>1 DEF ForwardsInv, HeldAreKnown
    <3> QED
      BY <1>1, <3>1, <3>2
  <2> QED
    BY <2>1, <2>2
<1> QED
  BY <1>0, <1>6, <1>7, <1>8 DEF ForwardsInv, DetachedIsIdle

\* A reset gives back what its task holds.
LEMMA ResetKeepsForwards ==
  ASSUME TypeOK, CallbacksTypeOK, ForwardsInv, NEW h \in Handle, ResetTask(h)
  PROVE  ForwardsInv'
<1>0. /\ amx_curl_ \subseteq Handle
      /\ UNCHANGED <<amx_curl_, amx_, loaded, phase, ctx>>
      /\ h \in amx_curl_ /\ amx_[h] \in loaded /\ phase # "detached" /\ AmxValid(h)
  BY UsedIsValid DEF ResetTask, CurlReset, TypeOK, ForwardsInv, vars, table, task, plugins, frame
<1>1. \A k \in Handle : registered_callbacks_'[k] =
        IF k = h THEN NoCallbacks ELSE registered_callbacks_[k]
  BY DEF ResetTask, CallbacksTypeOK
<1>2. \A f \in Forward : forwards'[f] = IF f \in ForwardsOf(h) THEN Free ELSE forwards[f]
  BY DEF ResetTask, Unregistered
<1>3. NoTaskNoCallbacks'
  BY <1>0, <1>1 DEF ForwardsInv, NoTaskNoCallbacks
<1>4. KnownAreHeld'
  <2> SUFFICES ASSUME NEW k \in amx_curl_, NEW p \in Offered, AmxValid(k),
                      registered_callbacks_'[k][p] # NoForward
               PROVE  \E fun \in Fun : forwards'[registered_callbacks_'[k][p]] = <<k, p, fun>>
    BY <1>0 DEF KnownAreHeld, AmxValid
  <2> DEFINE g == registered_callbacks_[k][p]
  <2>1. k # h /\ registered_callbacks_'[k][p] = g
    BY <1>0, <1>1 DEF NoCallbacks
  <2>2. g \in Forward
    BY <1>0, <2>1 DEF CallbacksTypeOK
  <2>3. PICK fun \in Fun : forwards[g] = <<k, p, fun>>
    BY <2>1 DEF ForwardsInv, KnownAreHeld
  <2>4. g \notin ForwardsOf(h)
    <3> SUFFICES ASSUME NEW q \in Offered, registered_callbacks_[h][q] = g PROVE FALSE
      BY DEF ForwardsOf
    <3>1. PICK fn \in Fun : forwards[g] = <<h, q, fn>>
      BY <1>0, <2>1 DEF ForwardsInv, KnownAreHeld
    <3> QED
      BY <1>0, <2>1, <2>3, <3>1, HeldOnce
  <2> QED
    BY <1>2, <2>1, <2>2, <2>3, <2>4
<1>5. HeldAreKnown'
  <2> SUFFICES ASSUME NEW f \in Forward, NEW k \in Handle, NEW p \in Offered, NEW fn \in Fun,
                      forwards'[f] = <<k, p, fn>>
               PROVE  k \in amx_curl_ /\ amx_[k] \in loaded /\ registered_callbacks_'[k][p] = f
    BY <1>0 DEF HeldAreKnown
  <2>1. f \notin ForwardsOf(h) /\ forwards[f] = <<k, p, fn>>
    BY <1>2, HeldIsNobodyElses
  <2>2. k \in amx_curl_ /\ amx_[k] \in loaded /\ registered_callbacks_[k][p] = f
    BY <1>0, <2>1 DEF ForwardsInv, HeldAreKnown
  <2> QED
    BY <1>1, <2>1, <2>2 DEF ForwardsOf
<1> QED
  BY <1>0, <1>3, <1>4, <1>5 DEF ForwardsInv, DetachedIsIdle

\* What the rest of TransferManager does to plugins: it loads one whose address no task has.
LEMMA UnaffectedPlugins ==
  ASSUME "address_reuse" \notin Faults, Unaffected
  PROVE  /\ UNCHANGED <<registered_callbacks_, forwards, amx_curl_, amx_, call>>
         /\ phase' = "detached" <=> phase = "detached"
         /\ loaded \subseteq loaded'
         /\ \A h \in amx_curl_ : AmxValid(h)' <=> AmxValid(h)
<1>1. UNCHANGED <<registered_callbacks_, forwards, amx_curl_, amx_, call>>
  BY UnaffectedFrame DEF callbacks
<1>2. /\ phase' = "detached" <=> phase = "detached"
      /\ loaded \subseteq loaded'
      /\ \A h \in amx_curl_ : amx_[h] \in loaded' => amx_[h] \in loaded
  <2>1. CASE \E a \in Amx : Load(a)
    BY <2>1 DEF Load, frame
  <2>2. CASE ~(\E a \in Amx : Load(a))
    <3>1. loaded' = loaded /\ (phase' = "detached" <=> phase = "detached")
      BY <2>2 DEF Unaffected, CreateCurlFails, RemoveTaskDeferred, CurlPerformTaskFails,
         TransferEnds, CurlPerformTaskThrows, OnPerformComplete, OnPerformCompleteSkipped,
         ReadsMessage, PollBegins, HandlerRuns, SocketActionReturns, ForwardReturns,
         CheckMultiInfoReturns, DrainPollEnds, Moves, DetachBegins, Stopped, vars, plugins, frame
    <3> QED
      BY <3>1
  <2> QED
    BY <2>1, <2>2
<1> QED
  BY <1>1, <1>2 DEF AmxValid

LEMMA UnaffectedKeepsForwards ==
  ASSUME "address_reuse" \notin Faults, TypeOK, ForwardsInv, DetachedIsIdle', Unaffected
  PROVE  ForwardsInv'
<1>1. KnownAreHeld'
  BY UnaffectedPlugins DEF ForwardsInv, KnownAreHeld
<1>2. NoTaskNoCallbacks' /\ HeldAreKnown'
  BY UnaffectedPlugins DEF ForwardsInv, NoTaskNoCallbacks, HeldAreKnown
<1> QED
  BY <1>1, <1>2 DEF ForwardsInv

LEMMA NextForwardsInv ==
  "address_reuse" \notin Faults /\ TypeOK /\ HandlesDistinct /\ CallbacksTypeOK /\ ForwardsInv
  /\ [CallbacksNext]_allVars => ForwardsInv'
<1> SUFFICES ASSUME "address_reuse" \notin Faults, TypeOK, HandlesDistinct, CallbacksTypeOK,
                    ForwardsInv, [CallbacksNext]_allVars
             PROVE  ForwardsInv'
  OBVIOUS
<1>0. amx_curl_ \subseteq Handle /\ DetachedIsIdle'
  BY CallbacksStepIsStep, NextDetachedIsIdle DEF TypeOK, ForwardsInv
<1>1. CASE Unaffected
  BY <1>0, <1>1, UnaffectedKeepsForwards
<1>2. ASSUME \/ DataCallbackReturns \/ UNCHANGED allVars
             \/ \E h \in Handle :
                  \/ DataCallbackSkipped(h)
                  \/ \E o \in Offered : \/ CurlSetOption(h, DataOptionFor[o])
                                        \/ \E asked \in Asked(o) : DataCallback(h, o, asked)
                  \/ \E b \in Buf \cup {NoBuf} : PerformTask(h, b)
                  \/ \E n \in Chunk : WriteBuffered(h, n)
      PROVE  ForwardsInv'
  <2>1. UNCHANGED <<registered_callbacks_, forwards, amx_curl_, amx_, loaded, phase>>
    BY <1>2 DEF DataCallbackReturns, CallbackReturns, allVars, vars, table, task, plugins, frame,
       callbacks, DataCallbackSkipped, PawnCallbackSkipped, CurlSetOption, DataCallback,
       PawnCallback, PerformTask, CurlPerformTask, WriteBuffered
  <2> QED
    BY <1>0, <2>1, ForwardsUnchanged
<1>3. ASSUME NEW h \in Handle, NEW a \in Amx, CreateTask(a, h) PROVE ForwardsInv'
  <2>1. /\ h \notin amx_curl_ /\ amx_curl_' = amx_curl_ \cup {h} /\ amx_' = [amx_ EXCEPT ![h] = a]
        /\ UNCHANGED <<registered_callbacks_, forwards, loaded, phase>>
    BY <1>3, NewNumberIsFresh DEF CreateTask, CreateCurl, plugins, frame
  <2>2. \A k \in amx_curl_ : amx_'[k] = amx_[k] /\ (AmxValid(k)' <=> AmxValid(k))
    BY <1>0, <2>1 DEF TypeOK, AmxValid
  <2>3. registered_callbacks_[h] = NoCallbacks
    BY <2>1 DEF ForwardsInv, NoTaskNoCallbacks
  <2>4. KnownAreHeld'
    <3> SUFFICES ASSUME NEW k \in amx_curl_', NEW o \in Offered, AmxValid(k)',
                        registered_callbacks_[k][o] # NoForward
                 PROVE  \E fun \in Fun : forwards[registered_callbacks_[k][o]] = <<k, o, fun>>
      BY <2>1 DEF KnownAreHeld
    <3>1. k # h
      BY <2>3 DEF NoCallbacks
    <3>2. k \in amx_curl_ /\ AmxValid(k)
      BY <2>1, <2>2, <3>1
    <3> QED
      BY <3>2 DEF ForwardsInv, KnownAreHeld
  <2>5. NoTaskNoCallbacks' /\ HeldAreKnown'
    BY <2>1, <2>2 DEF ForwardsInv, NoTaskNoCallbacks, HeldAreKnown
  <2> QED
    BY <1>0, <2>4, <2>5 DEF ForwardsInv
<1>4. ASSUME NEW h \in Handle, CleanupTask(h) PROVE ForwardsInv'
  <2>1. /\ Destroys({h}, Unregisters(phase = "detached")) /\ Erases({h})
        /\ UNCHANGED <<phase, loaded>>
    BY <1>4, DestroyingSteps
  <2>2. h \in amx_curl_ /\ phase # "detached"
    BY <1>4, DestroyingSteps, UsedIsValid DEF ForwardsInv
  <2> QED
    BY <1>0, <2>1, <2>2, DestroysKeepsForwards
<1>5. ASSUME NEW h \in Handle, NEW o \in Offered, NEW fun \in Fun, NEW f \in Forward,
             SetupAmxCallback(h, o, fun, f)
      PROVE  ForwardsInv'
  <2>1. /\ Uses(h) /\ UNCHANGED vars
        /\ Unregistered({registered_callbacks_[h][o]})[f] = Free
        /\ forwards' = [Unregistered({registered_callbacks_[h][o]}) EXCEPT ![f] = <<h, o, fun>>]
        /\ registered_callbacks_' = [registered_callbacks_ EXCEPT ![h][o] = f]
    BY <1>5 DEF SetupAmxCallback, MayRegister
  <2> QED
    BY <2>1, SetupKeepsForwards
<1>6. ASSUME NEW h \in Handle, NEW o \in Offered, SetupNotFound(h, o) PROVE ForwardsInv'
  <2>1. /\ Uses(h) /\ UNCHANGED vars
        /\ forwards' = Unregistered({registered_callbacks_[h][o]})
        /\ registered_callbacks_' = [registered_callbacks_ EXCEPT ![h][o] = NoForward]
    BY <1>6 DEF SetupNotFound, ErasedAfterFailure
  <2> QED
    BY <2>1, SetupKeepsForwards
<1>7. ASSUME NEW h \in Handle, ResetTask(h) PROVE ForwardsInv'
  BY <1>7, ResetKeepsForwards
<1>8. CASE FrameSweeps
  <2>1. Swept \subseteq amx_curl_ /\ phase # "detached"
    BY <1>8 DEF Swept, TypeOK, FrameSweeps, FrameEnds
  <2> QED
    BY <1>0, <1>8, <2>1, DestroyingSteps, DestroysKeepsForwards
<1>9. CASE Teardown
  <2>1. /\ phase' = "detached" /\ amx_curl_' = {}
        /\ Destroys(amx_curl_, {})
    BY <1>9, DestroyingSteps DEF Erases
  <2>2. NoTaskNoCallbacks'
    BY <2>1, DestroysFrame DEF ForwardsInv, NoTaskNoCallbacks
  <2> QED
    BY <1>0, <2>1, <2>2 DEF ForwardsInv, KnownAreHeld, HeldAreKnown
<1>10. ASSUME NEW a \in Amx, UnloadPlugin(a) PROVE ForwardsInv'
  <2>1. /\ loaded' = loaded \ {a}
        /\ UNCHANGED <<registered_callbacks_, amx_curl_, amx_, phase>>
    BY <1>10 DEF UnloadPlugin, Unload, table, task, frame
  <2>2. \A f \in Forward : forwards'[f] =
          IF forwards[f] \in Owner /\ amx_[forwards[f][1]] = a THEN Free ELSE forwards[f]
    BY <1>10 DEF UnloadPlugin
  <2>3. \A f \in Forward, h \in Handle, o \in Offered, fun \in Fun :
          forwards'[f] = <<h, o, fun>> <=> forwards[f] = <<h, o, fun>> /\ amx_[h] # a
    <3> SUFFICES ASSUME NEW f \in Forward, NEW h \in Handle, NEW o \in Offered, NEW fun \in Fun
                 PROVE  forwards'[f] = <<h, o, fun>> <=>
                          forwards[f] = <<h, o, fun>> /\ amx_[h] # a
      OBVIOUS
    <3>1. <<h, o, fun>> \in Owner /\ <<h, o, fun>>[1] = h /\ <<h, o, fun>> # Free
      BY HeldIsNobodyElses DEF Owner
    <3> QED
      BY <2>2, <3>1
  <2>4. KnownAreHeld'
    <3> SUFFICES ASSUME NEW h \in amx_curl_, NEW o \in Offered, AmxValid(h)',
                        registered_callbacks_[h][o] # NoForward
                 PROVE  \E fun \in Fun : forwards'[registered_callbacks_[h][o]] = <<h, o, fun>>
      BY <2>1 DEF KnownAreHeld
    <3>1. AmxValid(h) /\ amx_[h] # a /\ registered_callbacks_[h][o] \in Forward
      BY <1>0, <2>1 DEF AmxValid, CallbacksTypeOK
    <3>2. PICK fun \in Fun : forwards[registered_callbacks_[h][o]] = <<h, o, fun>>
      BY <3>1 DEF ForwardsInv, KnownAreHeld
    <3> QED
      BY <1>0, <2>3, <3>1, <3>2
  <2>5. HeldAreKnown'
    BY <2>1, <2>3 DEF ForwardsInv, HeldAreKnown
  <2>6. NoTaskNoCallbacks'
    BY <2>1 DEF ForwardsInv, NoTaskNoCallbacks
  <2> QED
    BY <1>0, <2>4, <2>5, <2>6 DEF ForwardsInv
<1>11. ASSUME NEW g \in Forward, OtherRegisters(g) \/ OtherUnregisters(g) PROVE ForwardsInv'
  <2>1. UNCHANGED <<registered_callbacks_, amx_curl_, amx_, loaded, phase>>
    BY <1>11 DEF OtherRegisters, OtherUnregisters, vars, table, task, plugins, frame
  <2>2. \A f \in Forward : \/ forwards'[f] = forwards[f]
                           \/ forwards[f] \in {Free, Other} /\ forwards'[f] \in {Free, Other}
    BY <1>11 DEF OtherRegisters, OtherUnregisters, MayRegister, CallbacksTypeOK
  <2>3. \A f \in Forward, h \in Handle, o \in Offered, fun \in Fun :
          forwards'[f] = <<h, o, fun>> <=> forwards[f] = <<h, o, fun>>
    BY <2>2, HeldIsNobodyElses
  <2>4. KnownAreHeld'
    <3> SUFFICES ASSUME NEW h \in amx_curl_, NEW o \in Offered, AmxValid(h),
                        registered_callbacks_[h][o] # NoForward
                 PROVE  \E fun \in Fun : forwards'[registered_callbacks_[h][o]] = <<h, o, fun>>
      BY <2>1 DEF KnownAreHeld, AmxValid
    <3>1. registered_callbacks_[h][o] \in Forward
      BY <1>0 DEF CallbacksTypeOK
    <3> QED
      BY <1>0, <2>3, <3>1 DEF ForwardsInv, KnownAreHeld
  <2>5. NoTaskNoCallbacks' /\ HeldAreKnown'
    BY <2>1, <2>3 DEF ForwardsInv, NoTaskNoCallbacks, HeldAreKnown
  <2> QED
    BY <1>0, <2>4, <2>5 DEF ForwardsInv
<1> QED
  BY <1>1, <1>2, <1>3, <1>4, <1>5, <1>6, <1>7, <1>8, <1>9, <1>10, <1>11, UnsupportedStutters
  DEF CallbacksNext, TaskNext

\* Forwards and tasks agree while plugins come and go, unless an address is used again.
LEMMA ForwardsStayExact ==
  ASSUME "address_reuse" \notin Faults
  PROVE  CallbacksSpec => [](TypeOK /\ CallbacksTypeOK /\ ForwardsInv)
<1>1. CallbacksInit => ForwardsInv
  <2> SUFFICES ASSUME CallbacksInit PROVE ForwardsInv
    OBVIOUS
  <2>1. amx_curl_ = {} /\ ctx = "idle"
    BY DEF CallbacksInit, Init
  <2>2. /\ \A h \in Handle : registered_callbacks_[h] = NoCallbacks
        /\ \A f \in Forward : forwards[f] = Free
    BY DEF CallbacksInit
  <2>3. HeldAreKnown
    BY <2>2, HeldIsNobodyElses DEF HeldAreKnown
  <2> QED
    BY <2>1, <2>2, <2>3 DEF ForwardsInv, DetachedIsIdle, NoTaskNoCallbacks, KnownAreHeld
<1>2. CallbacksSpec => [](TypeOK /\ HandlesDistinct)
  BY CallbacksAreTransfers, TypeCorrect, HandlesStayDistinct, PTL
<1> QED
  BY <1>1, <1>2, CallbacksTypeCorrect, NextForwardsInv, PTL DEF CallbacksSpec

\* A number a task holds is a forward of that task and option, and none is leaked
\* (SetupAmxCallback, ResetAmxCallbacks, ~CurlCallbackAmx).
THEOREM ForwardsAreExact ==
  ASSUME "address_reuse" \notin Faults PROVE CallbacksSpec => []ForwardsExact
<1>1. CallbacksTypeOK /\ ForwardsInv => ForwardsExact
  <2> SUFFICES ASSUME CallbacksTypeOK, ForwardsInv PROVE ForwardsExact
    OBVIOUS
  <2>1. ASSUME phase # "detached", NEW f \in Forward, forwards[f] \in Owner
        PROVE  /\ forwards[f][1] \in amx_curl_
               /\ registered_callbacks_[forwards[f][1]][forwards[f][2]] = f
    <3>1. PICK h \in Handle, o \in Offered, fun \in Fun : forwards[f] = <<h, o, fun>>
      BY <2>1 DEF Owner
    <3>2. h \in amx_curl_ /\ registered_callbacks_[h][o] = f
      BY <2>1, <3>1 DEF ForwardsInv, HeldAreKnown
    <3> QED
      BY <3>1, <3>2
  <2> QED
    BY <2>1 DEF ForwardsExact, ForwardsInv, KnownAreHeld
<1> QED
  BY <1>1, ForwardsStayExact, PTL

\* Only its holder gives another module's forward back.
LEMMA NextSparesOthers ==
  TypeOK /\ CallbacksTypeOK /\ ForwardsInv /\ [CallbacksNext]_allVars =>
    \A f \in Forward : forwards[f] = Other => forwards'[f] = Other \/ OtherUnregisters(f)
<1> SUFFICES ASSUME TypeOK, CallbacksTypeOK, ForwardsInv, [CallbacksNext]_allVars,
                    NEW f \in Forward, forwards[f] = Other
             PROVE  forwards'[f] = Other \/ OtherUnregisters(f)
  OBVIOUS
<1>0. amx_curl_ \subseteq Handle /\ Free # Other
  BY DEF TypeOK, Free, Other
\* No valid task knows f.
<1>1. \A h \in amx_curl_, o \in Offered : AmxValid(h) => registered_callbacks_[h][o] # f
  <2> SUFFICES ASSUME NEW h \in amx_curl_, NEW o \in Offered, AmxValid(h),
                      registered_callbacks_[h][o] = f
               PROVE  FALSE
    OBVIOUS
  <2>1. f # NoForward
    BY BoundsAssumption DEF Forward, NoForward
  <2>2. PICK fun \in Fun : forwards[f] = <<h, o, fun>>
    BY <2>1 DEF ForwardsInv, KnownAreHeld
  <2> QED
    BY <1>0, <2>2, HeldIsNobodyElses
<1>2. \A fs : f \notin fs => Unregistered(fs)[f] = Other
  BY DEF Unregistered
<1>3. ASSUME NEW hs, hs \subseteq amx_curl_, Destroys(hs, Unregisters(phase = "detached"))
      PROVE  forwards'[f] = Other
  BY <1>1, <1>2, <1>3 DEF Destroys, Unregisters, AmxValid, ForwardsOf
<1>4. ASSUME NEW h \in Handle, CleanupTask(h) PROVE forwards'[f] = Other
  BY <1>3, <1>4, DestroyingSteps DEF Uses
<1>5. CASE FrameSweeps
  BY <1>3, <1>5, DestroyingSteps DEF Swept, TypeOK
<1>6. CASE Teardown
  <2>1. Destroys(amx_curl_, {})
    BY ONLY <1>6, DestroyingSteps
  <2>2. forwards' = Unregistered(UNION {ForwardsOf(h) : h \in amx_curl_ \cap {}})
    BY ONLY <2>1 DEF Destroys
  <2> QED
    BY <1>2, <2>2
<1>7. ASSUME NEW h \in Handle, NEW o \in Offered, NEW fun \in Fun, NEW g \in Forward,
             SetupAmxCallback(h, o, fun, g)
      PROVE  forwards'[f] = Other
  <2>1. Unregistered({registered_callbacks_[h][o]})[f] = Other
    BY <1>1, <1>2, <1>7, UsedIsValid DEF SetupAmxCallback, ForwardsInv
  <2>2. g # f
    BY <1>0, <1>7, <2>1 DEF SetupAmxCallback, MayRegister
  <2> QED
    BY <1>7, <2>1, <2>2 DEF SetupAmxCallback, Unregistered
<1>8. ASSUME NEW h \in Handle, NEW o \in Offered, SetupNotFound(h, o) PROVE forwards'[f] = Other
  BY <1>1, <1>2, <1>8, UsedIsValid DEF SetupNotFound, ForwardsInv
<1>9. ASSUME NEW h \in Handle, ResetTask(h) PROVE forwards'[f] = Other
  BY <1>1, <1>2, <1>9, UsedIsValid DEF ResetTask, ForwardsInv, ForwardsOf
<1>10. ASSUME NEW a \in Amx, UnloadPlugin(a) PROVE forwards'[f] = Other
  BY <1>10, OwnersAreTasks DEF UnloadPlugin
<1>11. ASSUME NEW g \in Forward, OtherRegisters(g) \/ OtherUnregisters(g)
       PROVE  forwards'[f] = Other \/ OtherUnregisters(f)
  BY <1>0, <1>11 DEF OtherRegisters, OtherUnregisters, MayRegister, CallbacksTypeOK
<1>12. ASSUME \/ Unaffected \/ DataCallbackReturns \/ UNCHANGED allVars
              \/ \E h \in Handle :
                  \/ DataCallbackSkipped(h) \/ \E a \in Amx : CreateTask(a, h)
                  \/ \E o \in Offered : \/ CurlSetOption(h, DataOptionFor[o])
                                        \/ \E asked \in Asked(o) : DataCallback(h, o, asked)
                  \/ \E b \in Buf \cup {NoBuf} : PerformTask(h, b)
                  \/ \E n \in Chunk : WriteBuffered(h, n)
       PROVE  forwards'[f] = Other
  BY <1>12 DEF Unaffected, DataCallbackReturns, allVars, callbacks, DataCallbackSkipped, CreateTask,
     CurlSetOption, DataCallback, PerformTask, WriteBuffered
<1> QED
  BY <1>4, <1>5, <1>6, <1>7, <1>8, <1>9, <1>10, <1>11, <1>12, UnsupportedStutters
  DEF CallbacksNext, TaskNext

\* Nothing is taken from another module or plugin (~CurlCallbackAmx, SetupAmxCallback).
THEOREM OthersAreSpared ==
  ASSUME "address_reuse" \notin Faults PROVE CallbacksSpec => OthersKeepTheirs
<1>1. TypeOK /\ CallbacksTypeOK /\ ForwardsInv /\ [CallbacksNext]_allVars
      => [\A f \in Forward : forwards[f] = Other =>
            forwards'[f] = Other \/ OtherUnregisters(f)]_allVars
  BY NextSparesOthers
<1> QED
  BY <1>1, ForwardsStayExact, PTL DEF CallbacksSpec, OthersKeepTheirs
=============================================================================
