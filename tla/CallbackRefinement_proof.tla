---------------------- MODULE CallbackRefinement_proof ----------------------
(* DataCallbacks implements CallbackContract: forward numbers are unregistered, *)
(* handed out again and left behind by unloaded plugins, and a plugin sees      *)
(* nothing of it, unless addresses of plugins are used again.                   *)
EXTENDS DataCallbacks_proof

\* What the refinement maps to.
Handlers == [h \in Handle |-> [o \in Offered |-> HandlerOf(h, o)]]
Asking == {<<cur, call.option>> : c \in {call} \ {NoCall}}

RefinementInv == TypeOK /\ CallbacksTypeOK /\ ForwardsInv

\* The task, its plugin and a forward: what it takes for a callback to be answered.
Answered(h, o) == h \in amx_curl_ /\ AmxValid(h) /\ registered_callbacks_[h][o] # NoForward

-----------------------------------------------------------------------------
(* What a callback stands for *)

LEMMA HandlerIsItsForwards ==
  ASSUME RefinementInv, NEW h \in Handle, NEW o \in Offered
  PROVE  /\ Answered(h, o) =>
              \E fun \in Fun : /\ forwards[registered_callbacks_[h][o]] = <<h, o, fun>>
                               /\ HandlerOf(h, o) = fun
         /\ ~Answered(h, o) => HandlerOf(h, o) = NoFun
<1>1. ASSUME Answered(h, o)
      PROVE  \E fun \in Fun : /\ forwards[registered_callbacks_[h][o]] = <<h, o, fun>>
                              /\ HandlerOf(h, o) = fun
  <2>1. PICK fun \in Fun : forwards[registered_callbacks_[h][o]] = <<h, o, fun>>
    BY <1>1 DEF Answered, RefinementInv, ForwardsInv, KnownAreHeld
  <2>2. <<h, o, fun>> \in Owner /\ <<h, o, fun>>[3] = fun
    BY DEF Owner
  <2> QED
    BY <1>1, <2>1, <2>2 DEF Answered, HandlerOf
<1>2. ~Answered(h, o) => HandlerOf(h, o) = NoFun
  BY DEF Answered, HandlerOf
<1> QED
  BY <1>1, <1>2

\* A callback is as it was when its task, its plugin and its forward are.
LEMMA HandlerKept ==
  ASSUME RefinementInv, NEW h \in Handle, NEW o \in Offered,
         h \in amx_curl_' /\ AmxValid(h)' <=> h \in amx_curl_ /\ AmxValid(h),
         registered_callbacks_'[h][o] = registered_callbacks_[h][o],
         \A f \in Forward, fun \in Fun :
           Answered(h, o) /\ forwards[f] = <<h, o, fun>> => forwards'[f] = <<h, o, fun>>
  PROVE  HandlerOf(h, o)' = HandlerOf(h, o)
<1> DEFINE f == registered_callbacks_[h][o]
<1>1. CASE Answered(h, o)
  <2>1. PICK fun \in Fun : forwards[f] = <<h, o, fun>> /\ HandlerOf(h, o) = fun
    BY <1>1, HandlerIsItsForwards
  <2>2. f \in Forward
    BY <1>1 DEF Answered, RefinementInv, CallbacksTypeOK
  <2>3. forwards'[f] = <<h, o, fun>> /\ <<h, o, fun>> \in Owner /\ <<h, o, fun>>[3] = fun
    BY <1>1, <2>1, <2>2 DEF Owner
  <2> QED
    BY <1>1, <2>1, <2>3 DEF Answered, HandlerOf
<1>2. CASE ~Answered(h, o)
  <2>1. HandlerOf(h, o) = NoFun
    BY <1>2, HandlerIsItsForwards
  <2>2. HandlerOf(h, o)' = NoFun
    BY <1>2 DEF Answered, HandlerOf
  <2> QED
    BY <2>1, <2>2
<1> QED
  BY <1>1, <1>2

-----------------------------------------------------------------------------
(* Steps of the contract *)

\* Nobody is asked but the function that runs.
LEMMA AskingIs ==
  /\ call = NoCall => Asking = {}
  /\ call # NoCall => Asking = {<<cur, call.option>>}
<1>1. CASE call = NoCall
  <2>1. {call} \ {NoCall} = {}
    BY <1>1
  <2> QED
    BY ONLY <1>1, <2>1 DEF Asking
<1>2. CASE call # NoCall
  <2>1. {call} \ {NoCall} = {call}
    BY <1>2
  <2> QED
    BY ONLY <1>2, <2>1 DEF Asking
<1> QED
  BY <1>1, <1>2

LEMMA AskingBecomes ==
  /\ call' = NoCall => Asking' = {}
  /\ call' # NoCall => Asking' = {<<cur', call'.option>>}
<1>1. CASE call' = NoCall
  <2>1. {call'} \ {NoCall} = {}
    BY <1>1
  <2> QED
    BY ONLY <1>1, <2>1 DEF Asking
<1>2. CASE call' # NoCall
  <2>1. {call'} \ {NoCall} = {call'}
    BY <1>2
  <2> QED
    BY ONLY <1>2, <2>1 DEF Asking
<1> QED
  BY <1>1, <1>2

LEMMA ForgettingSteps ==
  ASSUME NEW hs \in SUBSET Handle, Asking' = Asking,
         \A h \in Handle, o \in Offered :
           HandlerOf(h, o)' = IF h \in hs THEN NoFun ELSE HandlerOf(h, o)
  PROVE  Promise!Next
<1>1. Promise!Forget(hs)
  BY DEF Promise!Forget, Asking
<1> QED
  BY <1>1 DEF Promise!Next

LEMMA SettingSteps ==
  ASSUME NEW h \in Handle, NEW o \in Offered, NEW fun \in Fun \cup {NoFun}, Asking' = Asking,
         HandlerOf(h, o)' = fun,
         \A k \in Handle, p \in Offered : ~(k = h /\ p = o) => HandlerOf(k, p)' = HandlerOf(k, p)
  PROVE  Promise!Next
<1>1. Promise!Set(h, o, fun)
  BY DEF Promise!Set, Asking
<1> QED
  BY <1>1 DEF Promise!Next

LEMMA UnchangingSteps ==
  ASSUME Asking' = Asking,
         \A h \in Handle, o \in Offered : HandlerOf(h, o)' = HandlerOf(h, o)
  PROVE  UNCHANGED Promise!vars
BY DEF Promise!vars, Asking

\* While a callback runs, its transfer stays the current one.
LEMMA CallsKeepTheirTransfer ==
  ASSUME [Next]_vars, ctx = "callback", ctx' = "callback"
  PROVE  cur' = cur
BY DEF Next, NativeOn, PerformUndone, CreateCurl, RemoveTask, RemoveTaskDeferred, CurlPerformTask,
   CurlPerformTaskFails, CurlPerformTaskThrows, CurlReset, CreateCurlFails, Poll, PollOn,
   Moves, PollBegins, HandlerRuns, TransferEnds, PawnCallback, PawnCallbackSkipped,
   CallbackReturns, SocketActionReturns, ReadsMessage, OnPerformComplete,
   OnPerformCompleteSkipped, ForwardReturns, CheckMultiInfoReturns, FrameEnds, DrainPollEnds,
   Unload, Load, DetachBegins, DetachEnds, ExitWithoutDetach, RemoveAllTasks, Stopped, vars, frame

LEMMA AskingKept ==
  ASSUME CallbacksTypeOK, CallbacksTypeOK', [CallbacksNext]_allVars, UNCHANGED call
  PROVE  Asking' = Asking
<1>1. CASE call = NoCall
  BY <1>1 DEF Asking
<1>2. CASE call # NoCall
  <2>1. cur' = cur
    BY <1>2, CallsKeepTheirTransfer, CallbacksStepIsStep DEF CallbacksTypeOK
  <2> QED
    BY <2>1 DEF Asking
<1> QED
  BY <1>1, <1>2

-----------------------------------------------------------------------------
(* What each step does to the callbacks *)

\* Tasks that are destroyed while their plugins are valid take along their own only.
LEMMA DestroyingForgets ==
  ASSUME RefinementInv, NEW hs, hs \subseteq amx_curl_,
         Destroys(hs, Unregisters(phase = "detached")), Erases(hs),
         UNCHANGED <<phase, loaded>>, NEW h \in Handle, NEW o \in Offered
  PROVE  HandlerOf(h, o)' = IF h \in hs THEN NoFun ELSE HandlerOf(h, o)
<1>0. /\ amx_curl_ \subseteq Handle /\ amx_curl_' = amx_curl_ \ hs
      /\ h \notin hs => amx_'[h] = amx_[h]
  BY DEF RefinementInv, TypeOK, Erases
<1>1. CASE h \in hs
  BY <1>0, <1>1 DEF HandlerOf
<1>2. CASE h \notin hs
  <2>1. /\ h \in amx_curl_' /\ AmxValid(h)' <=> h \in amx_curl_ /\ AmxValid(h)
        /\ registered_callbacks_'[h][o] = registered_callbacks_[h][o]
    BY <1>0, <1>2, DestroysFrame DEF AmxValid
  <2>2. ASSUME NEW f \in Forward, NEW fun \in Fun, forwards[f] = <<h, o, fun>>
        PROVE  forwards'[f] = <<h, o, fun>>
    <3>1. ASSUME NEW k \in hs \cap Unregisters(phase = "detached"), f \in ForwardsOf(k) PROVE FALSE
      <4>1. PICK p \in Offered : registered_callbacks_[k][p] = f
        BY <3>1 DEF ForwardsOf
      <4>2. AmxValid(k) /\ f # NoForward
        BY <3>1, BoundsAssumption DEF Unregisters, AmxValid, Forward, NoForward
      <4>3. PICK fn \in Fun : forwards[f] = <<k, p, fn>>
        BY <4>1, <4>2 DEF RefinementInv, ForwardsInv, KnownAreHeld
      <4> QED
        BY <1>0, <1>2, <2>2, <4>3, HeldOnce
    <3> QED
      BY <2>2, <3>1 DEF Destroys, Unregistered
  <2> QED
    BY <1>2, <2>1, <2>2, HandlerKept
<1> QED
  BY <1>1, <1>2

\* A callback that is set, or found missing, is the only one that changes.
LEMMA SettingOne ==
  ASSUME RefinementInv, NEW h \in Handle, NEW o \in Offered, Uses(h), UNCHANGED vars, NEW r,
         registered_callbacks_' = [registered_callbacks_ EXCEPT ![h][o] = r],
         LET unregistered == Unregistered({registered_callbacks_[h][o]}) IN
         \A f \in Forward : forwards'[f] = unregistered[f] \/ unregistered[f] = Free,
         NEW k \in Handle, NEW p \in Offered, ~(k = h /\ p = o)
  PROVE  HandlerOf(k, p)' = HandlerOf(k, p)
<1> DEFINE old == registered_callbacks_[h][o]
<1>0. /\ h \in amx_curl_ /\ AmxValid(h)
      /\ UNCHANGED <<amx_curl_, amx_, loaded, phase>>
  BY UsedIsValid DEF RefinementInv, ForwardsInv, vars, table, task, plugins, frame
<1>1. registered_callbacks_'[k][p] = registered_callbacks_[k][p]
  BY DEF RefinementInv, CallbacksTypeOK
<1>2. ASSUME NEW f \in Forward, NEW fun \in Fun, forwards[f] = <<k, p, fun>>
      PROVE  forwards'[f] = <<k, p, fun>>
  <2>1. f # old
    <3>1. SUFFICES ASSUME f = old PROVE FALSE
      OBVIOUS
    <3>2. old # NoForward
      BY <3>1, BoundsAssumption DEF Forward, NoForward
    <3>3. PICK fn \in Fun : forwards[old] = <<h, o, fn>>
      BY <1>0, <3>2 DEF RefinementInv, ForwardsInv, KnownAreHeld
    <3> QED
      BY <1>2, <3>1, <3>3, HeldOnce
  <2>2. Unregistered({old})[f] = <<k, p, fun>>
    BY <1>2, <2>1 DEF Unregistered
  <2> QED
    BY <2>2, HeldIsNobodyElses
<1> QED
  BY <1>0, <1>1, <1>2, HandlerKept DEF AmxValid

\* A reset forgets the callbacks of its task.
LEMMA ResettingForgets ==
  ASSUME RefinementInv, NEW k \in Handle, ResetTask(k), NEW h \in Handle, NEW o \in Offered
  PROVE  HandlerOf(h, o)' = IF h \in {k} THEN NoFun ELSE HandlerOf(h, o)
<1>0. /\ UNCHANGED <<amx_curl_, amx_, loaded, phase>>
      /\ k \in amx_curl_ /\ AmxValid(k)
  BY UsedIsValid DEF ResetTask, CurlReset, RefinementInv, ForwardsInv, vars, table, task,
     plugins, frame
<1>1. registered_callbacks_'[h] = IF h = k THEN NoCallbacks ELSE registered_callbacks_[h]
  BY DEF ResetTask, RefinementInv, CallbacksTypeOK
<1>2. CASE h = k
  BY <1>1, <1>2 DEF HandlerOf, NoCallbacks
<1>3. CASE h # k
  <2>1. ASSUME NEW f \in Forward, NEW fun \in Fun, forwards[f] = <<h, o, fun>>
        PROVE  forwards'[f] = <<h, o, fun>>
    <3>1. f \notin ForwardsOf(k)
      <4> SUFFICES ASSUME NEW q \in Offered, registered_callbacks_[k][q] = f PROVE FALSE
        BY DEF ForwardsOf
      <4>1. f # NoForward
        BY BoundsAssumption DEF Forward, NoForward
      <4>2. PICK fn \in Fun : forwards[f] = <<k, q, fn>>
        BY <1>0, <4>1 DEF RefinementInv, ForwardsInv, KnownAreHeld
      <4> QED
        BY <1>3, <2>1, <4>2, HeldOnce
    <3> QED
      BY <2>1, <3>1 DEF ResetTask, Unregistered
  <2>2. HandlerOf(h, o)' = HandlerOf(h, o)
    BY <1>0, <1>1, <1>3, <2>1, HandlerKept DEF AmxValid
  <2> QED
    BY <1>3, <2>2
<1> QED
  BY <1>2, <1>3

\* A plugin that is unloaded takes along the callbacks of its tasks, and no others.
LEMMA UnloadingForgets ==
  ASSUME RefinementInv, NEW a \in Amx, UnloadPlugin(a), NEW h \in Handle, NEW o \in Offered
  PROVE  HandlerOf(h, o)' = IF h \in {k \in Handle : amx_[k] = a} THEN NoFun ELSE HandlerOf(h, o)
<1>1. /\ loaded' = loaded \ {a}
      /\ UNCHANGED <<registered_callbacks_, amx_curl_, amx_, phase>>
  BY DEF UnloadPlugin, Unload, table, task, frame
<1>2. CASE amx_[h] = a
  BY <1>1, <1>2 DEF HandlerOf, AmxValid
<1>3. CASE amx_[h] # a
  <2>1. ASSUME NEW f \in Forward, NEW fun \in Fun, forwards[f] = <<h, o, fun>>
        PROVE  forwards'[f] = <<h, o, fun>>
    <3>1. forwards[f][1] = h
      BY <2>1
    <3> QED
      BY <1>3, <2>1, <3>1 DEF UnloadPlugin
  <2>2. HandlerOf(h, o)' = HandlerOf(h, o)
    BY <1>1, <1>3, <2>1, HandlerKept DEF AmxValid
  <2> QED
    BY <1>3, <2>2
<1> QED
  BY <1>2, <1>3

-----------------------------------------------------------------------------
(* The refinement *)

LEMMA StepImplementsContract ==
  ASSUME "address_reuse" \notin Faults, RefinementInv, CallbacksTypeOK', NoAttachedDestroyed,
         HandlesDistinct, [CallbacksNext]_allVars
  PROVE  Promise!Next \/ UNCHANGED Promise!vars
<1>0. /\ amx_curl_ \subseteq Handle
      /\ call' = call => Asking' = Asking
  BY AskingKept DEF RefinementInv, TypeOK
<1>1. CASE Unaffected
  <2>1. \A h \in Handle, o \in Offered : HandlerOf(h, o)' = HandlerOf(h, o)
    BY <1>1, UnaffectedPlugins, HandlerKept
  <2> QED
    BY <1>0, <1>1, <2>1, UnaffectedPlugins, UnchangingSteps
<1>2. ASSUME \/ UNCHANGED allVars
             \/ \E h \in Handle :
                  \/ DataCallbackSkipped(h)
                  \/ \E o \in Offered : CurlSetOption(h, DataOptionFor[o])
                  \/ \E b \in Buf \cup {NoBuf} : PerformTask(h, b)
                  \/ \E n \in Chunk : WriteBuffered(h, n)
      PROVE  UNCHANGED Promise!vars
  <2>1. UNCHANGED <<registered_callbacks_, forwards, call, amx_curl_, amx_, loaded, phase>>
    BY <1>2 DEF allVars, vars, table, task, plugins, frame, callbacks, DataCallbackSkipped,
       PawnCallbackSkipped, CurlSetOption, PerformTask, CurlPerformTask, WriteBuffered
  <2>2. \A h \in Handle, o \in Offered : HandlerOf(h, o)' = HandlerOf(h, o)
    BY <2>1, HandlerKept DEF AmxValid
  <2> QED
    BY <1>0, <2>1, <2>2, UnchangingSteps
<1>3. ASSUME NEW g \in Forward, OtherRegisters(g) \/ OtherUnregisters(g)
      PROVE  UNCHANGED Promise!vars
  <2>1. UNCHANGED <<registered_callbacks_, call, amx_curl_, amx_, loaded, phase>>
    BY <1>3 DEF OtherRegisters, OtherUnregisters, vars, table, task, plugins, frame
  <2>2. \A f \in Forward : \/ forwards'[f] = forwards[f]
                           \/ forwards[f] \in {Free, Other}
    BY <1>3 DEF OtherRegisters, OtherUnregisters, MayRegister, RefinementInv, CallbacksTypeOK
  <2>3. \A h \in Handle, o \in Offered : HandlerOf(h, o)' = HandlerOf(h, o)
    BY <2>1, <2>2, HandlerKept, HeldIsNobodyElses DEF AmxValid
  <2> QED
    BY <1>0, <2>1, <2>3, UnchangingSteps
<1>4. ASSUME NEW k \in Handle, NEW a \in Amx, CreateTask(a, k) PROVE UNCHANGED Promise!vars
  <2>1. /\ k \notin amx_curl_ /\ amx_curl_' = amx_curl_ \cup {k} /\ amx_' = [amx_ EXCEPT ![k] = a]
        /\ UNCHANGED <<registered_callbacks_, forwards, call, loaded, phase>>
    BY <1>4, NewNumberIsFresh DEF RefinementInv, CreateTask, CreateCurl, plugins, frame
  <2>2. registered_callbacks_[k] = NoCallbacks
    BY <2>1 DEF RefinementInv, ForwardsInv, NoTaskNoCallbacks
  <2>3. ASSUME NEW h \in Handle, NEW o \in Offered PROVE HandlerOf(h, o)' = HandlerOf(h, o)
    <3>1. CASE h = k
      BY <2>1, <2>2, <3>1 DEF HandlerOf, NoCallbacks
    <3>2. CASE h # k
      <4>1. h \in amx_curl_' /\ AmxValid(h)' <=> h \in amx_curl_ /\ AmxValid(h)
        BY <2>1, <3>2 DEF RefinementInv, TypeOK, AmxValid
      <4> QED
        BY <2>1, <4>1, HandlerKept
    <3> QED
      BY <3>1, <3>2
  <2> QED
    BY <1>0, <2>1, <2>3, UnchangingSteps
<1>5. ASSUME NEW k \in Handle, CleanupTask(k) PROVE Promise!Next
  <2>1. /\ Destroys({k}, Unregisters(phase = "detached")) /\ Erases({k}) /\ {k} \subseteq amx_curl_
        /\ UNCHANGED <<phase, loaded>> /\ call' = call
    BY <1>5, DestroyingSteps DEF Uses, Destroys
  <2>2. \A h \in Handle, o \in Offered :
          HandlerOf(h, o)' = IF h \in {k} THEN NoFun ELSE HandlerOf(h, o)
    BY <2>1, DestroyingForgets
  <2> QED
    BY <1>0, <2>1, <2>2, ForgettingSteps
<1>6. CASE FrameSweeps
  <2>1. /\ Destroys(Swept, Unregisters(phase = "detached"))
        /\ Erases(Swept) /\ Swept \subseteq amx_curl_
        /\ UNCHANGED <<phase, loaded>> /\ call' = call
    BY <1>6, DestroyingSteps DEF Swept, RefinementInv, TypeOK, Destroys
  <2>2. \A h \in Handle, o \in Offered :
          HandlerOf(h, o)' = IF h \in Swept THEN NoFun ELSE HandlerOf(h, o)
    BY <2>1, DestroyingForgets
  <2> QED
    BY <1>0, <2>1, <2>2, ForgettingSteps
<1>7. CASE Teardown
  <2>1. amx_curl_' = {} /\ call' = call
    BY <1>7, DestroyingSteps DEF Erases, Destroys
  <2>2. \A h \in Handle, o \in Offered :
          HandlerOf(h, o)' = IF h \in Handle THEN NoFun ELSE HandlerOf(h, o)
    BY <2>1 DEF HandlerOf
  <2> QED
    BY <1>0, <2>1, <2>2, ForgettingSteps
<1>8. ASSUME NEW k \in Handle, ResetTask(k) PROVE Promise!Next
  <2>1. call' = call
    BY <1>8 DEF ResetTask
  <2>2. \A h \in Handle, o \in Offered :
          HandlerOf(h, o)' = IF h \in {k} THEN NoFun ELSE HandlerOf(h, o)
    BY <1>8, ResettingForgets
  <2> QED
    BY <1>0, <2>1, <2>2, ForgettingSteps
<1>9. ASSUME NEW a \in Amx, UnloadPlugin(a) PROVE Promise!Next
  <2>1. call' = call
    BY <1>9 DEF UnloadPlugin
  <2> DEFINE hs == {k \in Handle : amx_[k] = a}
  <2>2. \A h \in Handle, o \in Offered :
          HandlerOf(h, o)' = IF h \in hs THEN NoFun ELSE HandlerOf(h, o)
    BY <1>9, UnloadingForgets
  <2>3. hs \in SUBSET Handle
    OBVIOUS
  <2> HIDE DEF hs
  <2> QED
    BY <1>0, <2>1, <2>2, <2>3, ForgettingSteps
<1>10. ASSUME NEW h \in Handle, NEW o \in Offered, NEW fun \in Fun, NEW f \in Forward,
              SetupAmxCallback(h, o, fun, f)
       PROVE  Promise!Next
  <2> DEFINE unregistered == Unregistered({registered_callbacks_[h][o]})
  <2>1. /\ Uses(h) /\ UNCHANGED vars /\ call' = call /\ unregistered[f] = Free
        /\ forwards' = [unregistered EXCEPT ![f] = <<h, o, fun>>]
        /\ registered_callbacks_' = [registered_callbacks_ EXCEPT ![h][o] = f]
    BY <1>10 DEF SetupAmxCallback, MayRegister
  <2>2. /\ \A g \in Forward : forwards'[g] = unregistered[g] \/ unregistered[g] = Free
        /\ forwards'[f] = <<h, o, fun>>
    BY <2>1 DEF Unregistered
  <2>3. \A k \in Handle, p \in Offered :
          ~(k = h /\ p = o) => HandlerOf(k, p)' = HandlerOf(k, p)
    BY <2>1, <2>2, SettingOne
  <2>4. HandlerOf(h, o)' = fun
    <3>1. h \in amx_curl_' /\ AmxValid(h)'
      BY <2>1, UsedIsValid DEF RefinementInv, ForwardsInv, vars, table, task, plugins, frame,
         AmxValid
    <3>2. registered_callbacks_'[h][o] = f /\ f # NoForward
      BY <2>1, BoundsAssumption DEF RefinementInv, CallbacksTypeOK, Forward, NoForward
    <3>3. <<h, o, fun>> \in Owner /\ <<h, o, fun>>[3] = fun
      BY DEF Owner
    <3> QED
      BY <2>2, <3>1, <3>2, <3>3 DEF HandlerOf
  <2> QED
    BY <1>0, <2>1, <2>3, <2>4, SettingSteps
<1>11. ASSUME NEW h \in Handle, NEW o \in Offered, SetupNotFound(h, o) PROVE Promise!Next
  <2>1. /\ Uses(h) /\ UNCHANGED vars /\ call' = call
        /\ forwards' = Unregistered({registered_callbacks_[h][o]})
        /\ registered_callbacks_' = [registered_callbacks_ EXCEPT ![h][o] = NoForward]
    BY <1>11 DEF SetupNotFound, ErasedAfterFailure
  <2>2. \A k \in Handle, p \in Offered :
          ~(k = h /\ p = o) => HandlerOf(k, p)' = HandlerOf(k, p)
    BY <2>1, SettingOne
  <2>3. HandlerOf(h, o)' = NoFun
    BY <2>1 DEF HandlerOf, RefinementInv, CallbacksTypeOK
  <2> QED
    BY <1>0, <2>1, <2>2, <2>3, SettingSteps
<1>12. ASSUME NEW h \in Handle, NEW o \in Offered, NEW asked, DataCallback(h, o, asked)
       PROVE  Promise!Next
  <2>1. /\ ctx # "callback" /\ cur' = h /\ call'.option = o /\ call'.forward # NoForward
        /\ Answered(h, o)
        /\ UNCHANGED <<registered_callbacks_, forwards, amx_curl_, amx_, loaded, phase>>
    BY <1>12 DEF DataCallback, PawnCallback, HasForward, Answered, NoAttachedDestroyed, table,
       task, plugins
  <2>2. Asking = {} /\ Asking' = {<<h, o>>}
    <3>1. call = NoCall
      BY <2>1 DEF RefinementInv, CallbacksTypeOK
    <3>2. NoCall.forward = NoForward
      BY DEF NoCall
    <3>3. call' # NoCall
      BY ONLY <2>1, <3>2
    <3>4. Asking = {}
      BY ONLY <3>1, AskingIs
    <3>5. Asking' = {<<cur', call'.option>>}
      BY ONLY <3>3, AskingBecomes
    <3> QED
      BY ONLY <2>1, <3>4, <3>5
  <2>3. \A k \in Handle, p \in Offered : HandlerOf(k, p)' = HandlerOf(k, p)
    BY <2>1, HandlerKept DEF AmxValid
  <2>4. HandlerOf(h, o) # NoFun
    BY <2>1, HandlerIsItsForwards, FunAssumption
  <2>5. Promise!Ask(h, o)
    BY <2>2, <2>3, <2>4 DEF Promise!Ask, Asking
  <2> QED
    BY <2>5 DEF Promise!Next
<1>13. CASE DataCallbackReturns
  <2>1. /\ call # NoCall /\ call' = NoCall
        /\ UNCHANGED <<registered_callbacks_, forwards, amx_curl_, amx_, loaded, phase>>
    BY <1>13 DEF DataCallbackReturns, CallbackReturns, RefinementInv, CallbacksTypeOK, table,
       task, plugins
  <2>2. Asking # {} /\ Asking' = {}
    BY <2>1, AskingIs, AskingBecomes
  <2>3. \A k \in Handle, p \in Offered : HandlerOf(k, p)' = HandlerOf(k, p)
    BY <2>1, HandlerKept DEF AmxValid
  <2>4. Promise!Answer
    BY <2>2, <2>3 DEF Promise!Answer, Asking
  <2> QED
    BY <2>4 DEF Promise!Next
<1> QED
  BY <1>1, <1>2, <1>3, <1>4, <1>5, <1>6, <1>7, <1>8, <1>9, <1>10, <1>11, <1>12, <1>13,
     UnsupportedStutters
  DEF CallbacksNext, TaskNext

\* Forward numbers, reset, deferred cleanup and unloading implement the callback contract:
\* the function a plugin set for an option is the one that is called, until it sets
\* another, its handle is reset or gone, or it is unloaded itself (SetupAmxCallback).
THEOREM CallbacksImplemented ==
  ASSUME "address_reuse" \notin Faults PROVE CallbacksSpec => ImplementsCallbacks
<1>1. CallbacksInit => Promise!Init
  <2> SUFFICES ASSUME CallbacksInit PROVE Promise!Init
    OBVIOUS
  <2>1. amx_curl_ = {} /\ call = NoCall
    BY DEF CallbacksInit, Init
  <2> QED
    BY <2>1 DEF Promise!Init, HandlerOf
<1>2. CallbacksSpec => [](RefinementInv /\ NoAttachedDestroyed /\ HandlesDistinct)
  BY ForwardsStayExact, CallbacksAreTransfers, NothingDanglesInMulti, HandlesStayDistinct, PTL
  DEF RefinementInv
<1>3. RefinementInv /\ CallbacksTypeOK' /\ NoAttachedDestroyed /\ HandlesDistinct
      /\ [CallbacksNext]_allVars => [Promise!Next]_(Promise!vars)
  BY StepImplementsContract
<1> QED
  BY <1>1, <1>2, <1>3, CallbacksTypeCorrect, PTL
  DEF CallbacksSpec, ImplementsCallbacks, Promise!Spec
=============================================================================
