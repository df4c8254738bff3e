------------------------ MODULE TransferManager_proof ------------------------
(* Theorems about TransferManager, for any number of handles, plugins and data *)
(* arrays.                                                                     *)
EXTENDS TransferManager, FiniteSetTheorems, SequenceTheorems, TLAPS

-----------------------------------------------------------------------------
(* Steps that the invariants below do not notice *)

\* The steps that leave tasks, numbers, the multi and plugins alone.
Elsewhere ==
  \/ PollBegins \/ HandlerRuns \/ CallbackReturns \/ SocketActionReturns \/ DrainPollEnds
  \/ \E h \in Handle : PawnCallback(h)

LEMMA ElsewhereFrame ==
  Elsewhere => /\ UNCHANGED <<table, task, multi, heap, plugins, phase, cb_data>>
               /\ ctx # "completing" /\ ctx' # "completing"
               /\ ctx' \in {"idle", "poll", "libcurl", "callback", "checking"}
               /\ ctx' = "idle" => phase = "draining"
BY DEF Elsewhere, PollBegins, HandlerRuns, CallbackReturns, SocketActionReturns,
       DrainPollEnds, PawnCallback, Moves

\* A perform comes to nothing where a native can be called.
LEMMA UndoneInPawn ==
  \A h \in Handle : /\ CurlPerformTaskFails(h) => PawnRuns
                    /\ \A b \in Buf \cup {NoBuf} : CurlPerformTaskThrows(h, b) => PawnRuns
BY DEF CurlPerformTaskFails, CurlPerformTaskThrows, Uses

-----------------------------------------------------------------------------
(* Type correctness, whatever goes wrong *)

\* What libcurl or curl_map_ holds is in progress.  (The converse is lost when
\* Perform throws.)
HeldIsInProgress == attached \cup curl_map_ \subseteq is_transfer_in_progress_

\* There are finitely many numbers, so a sweep frees finitely many, in some order.
LEMMA SweptOrders ==
  ASSUME TypeOK, NEW s \in Orders(Swept)
  PROVE  s \in Seq(Handle)
<1>1. IsFiniteSet(Handle)
  BY HandleAssumption, FS_Interval DEF Handle
<1>2. Swept \subseteq Handle
  BY DEF TypeOK, Swept
<1>3. IsFiniteSet(Swept)
  BY <1>1, <1>2, FS_Subset
<1>4. Cardinality(Swept) \in Nat
  BY <1>3, FS_CardinalityType
<1>5. s \in [1..Cardinality(Swept) -> Swept]
  BY DEF Orders
<1> QED
  BY <1>2, <1>4, <1>5

\* Taking a number leaves a queue.
LEMMA QueueAfterTakeType ==
  ASSUME TypeOK PROVE QueueAfterTake \in Seq(Handle)
BY DEF TypeOK, QueueAfterTake

\* Erasing live tasks keeps the types of what it changes.
LEMMA ErasesType ==
  ASSUME TypeOK, NEW hs, Erases(hs)
  PROVE  /\ amx_curl_' \subseteq Handle
         /\ amx_' \in [Handle -> Amx \cup {NoAmx}]
         /\ amx_callback_data_' \in [Handle -> Buf \cup {NoBuf}]
         /\ is_transfer_in_progress_' \subseteq amx_curl_'
         /\ cleanup_deferred_' \subseteq amx_curl_'
         /\ interrupt_' \subseteq amx_curl_'
         /\ orphans' \subseteq amx_curl_'
         /\ heap' \subseteq Buf
BY DEF TypeOK, Erases

LEMMA InitTypeOK == Init => TypeOK
BY DEF Init, TypeOK

LEMMA NextTypeOK == TypeOK /\ HeldIsInProgress /\ [Next]_vars => TypeOK'
<1> SUFFICES ASSUME TypeOK, HeldIsInProgress, [Next]_vars PROVE TypeOK'
  OBVIOUS
<1> USE DEF TypeOK, table, task, multi, plugins, frame
<1>1. ASSUME NEW h \in Handle, NEW a \in Amx, CreateCurl(a, h) PROVE TypeOK'
  BY <1>1, QueueAfterTakeType DEF CreateCurl
<1>2. CASE CreateCurlFails
  BY <1>2, QueueAfterTakeType DEF CreateCurlFails
<1>3. ASSUME NEW h \in Handle, RemoveTask(h) PROVE TypeOK'
  <2>1. free_handles_' \in Seq(Handle)
    BY <1>3 DEF RemoveTask
  <2> QED
    BY <1>3, <2>1, ErasesType DEF RemoveTask
<1>4. ASSUME NEW h \in Handle, RemoveTaskDeferred(h) PROVE TypeOK'
  BY <1>4 DEF RemoveTaskDeferred, Uses
<1>5. ASSUME NEW h \in Handle, NEW b \in Buf \cup {NoBuf}, CurlPerformTask(h, b) PROVE TypeOK'
  BY <1>5 DEF CurlPerformTask, Uses, TakesData
<1>6. ASSUME NEW h \in Handle, CurlPerformTaskFails(h) PROVE TypeOK'
  BY <1>6 DEF CurlPerformTaskFails, Uses, InProgressAfterFailure
<1>7. ASSUME NEW h \in Handle, NEW b \in Buf \cup {NoBuf}, CurlPerformTaskThrows(h, b)
      PROVE  TypeOK'
  BY <1>7 DEF CurlPerformTaskThrows, Uses
<1>8. ASSUME NEW h \in Handle, CurlReset(h) PROVE TypeOK'
  BY <1>8 DEF CurlReset
<1>9. ASSUME NEW h \in Handle, TransferEnds(h) PROVE TypeOK'
  BY <1>9 DEF TransferEnds
<1>10. ASSUME NEW h \in Handle, PawnCallbackSkipped(h) PROVE TypeOK'
  BY <1>10 DEF PawnCallbackSkipped, HeldIsInProgress
<1>11. ASSUME NEW h \in Handle, OnPerformComplete(h) PROVE TypeOK'
  BY <1>11 DEF OnPerformComplete, ReadsMessage, DataTaken
<1>12. ASSUME NEW h \in Handle, OnPerformCompleteSkipped(h) PROVE TypeOK'
  BY <1>12 DEF OnPerformCompleteSkipped, ReadsMessage, DataTaken
<1>13. CASE ForwardReturns
  BY <1>13 DEF ForwardReturns, FreedIsGone
<1>14. CASE CheckMultiInfoReturns
  BY <1>14 DEF CheckMultiInfoReturns
<1>15. CASE FrameEnds
  <2>1. free_handles_' \in Seq(Handle)
    BY <1>15, SweptOrders DEF FrameEnds
  <2> QED
    BY <1>15, <2>1, ErasesType DEF FrameEnds
<1>16. ASSUME NEW a \in Amx, Unload(a) \/ Load(a) PROVE TypeOK'
  BY <1>16 DEF Unload, Load
<1>17. CASE DetachBegins
  BY <1>17 DEF DetachBegins
<1>18. CASE DetachEnds \/ ExitWithoutDetach
  <2>0. <<>> \in Seq(Handle)
    BY EmptySeq
  <2>1. Erases(amx_curl_) /\ free_handles_' \in Seq(Handle)
    <3>1. Erases(amx_curl_) /\ free_handles_' = <<>>
      BY <1>18 DEF DetachEnds, ExitWithoutDetach, RemoveAllTasks
    <3> QED
      BY <2>0, <3>1
  <2>2. phase' = "detached" /\ UNCHANGED <<loaded, ctx, cur, cb_data>>
    BY <1>18 DEF DetachEnds, ExitWithoutDetach, RemoveAllTasks
  <2>3. /\ curl_map_' \subseteq curl_map_ /\ attached' \subseteq attached
        /\ done' \subseteq attached'
    BY <1>18 DEF DetachEnds, ExitWithoutDetach, RemoveAllTasks
  <2> QED
    BY <2>1, <2>2, <2>3, ErasesType
<1>19. CASE Elsewhere
  <2>1. cur' \in Handle \cup {NoHandle}
    BY <1>19 DEF Elsewhere, PollBegins, HandlerRuns, CallbackReturns, SocketActionReturns,
                 DrainPollEnds, PawnCallback, Moves
  <2> QED
    BY <1>19, <2>1, ElsewhereFrame
<1>20. CASE UNCHANGED vars
  BY <1>20 DEF vars
<1> QED
  BY <1>1, <1>2, <1>3, <1>4, <1>5, <1>6, <1>7, <1>8, <1>9, <1>10, <1>11, <1>12, <1>13,
     <1>14, <1>15, <1>16, <1>17, <1>18, <1>19, <1>20
  DEF Next, NativeOn, PerformUndone, Poll, PollOn, Stopped, Elsewhere

LEMMA NextHeldIsInProgress == TypeOK /\ HeldIsInProgress /\ [Next]_vars => HeldIsInProgress'
<1> SUFFICES ASSUME TypeOK, HeldIsInProgress, [Next]_vars PROVE HeldIsInProgress'
  OBVIOUS
<1> USE DEF HeldIsInProgress, multi, task
<1>1. ASSUME NEW h \in Handle, RemoveTask(h) PROVE HeldIsInProgress'
  BY <1>1 DEF RemoveTask, Erases, Defers
<1>2. ASSUME NEW h \in Handle, NEW b \in Buf \cup {NoBuf},
             CurlPerformTask(h, b) \/ CurlPerformTaskThrows(h, b) \/ CurlPerformTaskFails(h)
      PROVE  HeldIsInProgress'
  BY <1>2 DEF CurlPerformTask, CurlPerformTaskThrows, CurlPerformTaskFails, Refuses,
              InProgressAfterFailure
<1>3. ASSUME NEW h \in Handle, ReadsMessage(h) PROVE HeldIsInProgress'
  BY <1>3 DEF ReadsMessage
<1>4. CASE FrameEnds
  BY <1>4 DEF FrameEnds, Erases, Swept
<1>5. CASE RemoveAllTasks
  BY <1>5 DEF RemoveAllTasks, RemovedFromMulti, Erases
<1>6. CASE UNCHANGED <<attached, curl_map_, is_transfer_in_progress_>>
  BY <1>6
<1>7. ASSUME NEW h \in Handle,
             \/ \E a \in Amx : CreateCurl(a, h)
             \/ RemoveTaskDeferred(h) \/ CurlReset(h)
             \/ TransferEnds(h) \/ PawnCallbackSkipped(h)
      PROVE  UNCHANGED <<attached, curl_map_, is_transfer_in_progress_>>
  BY <1>7 DEF CreateCurl, RemoveTaskDeferred, CurlReset, TransferEnds, PawnCallbackSkipped
<1>8. CreateCurlFails \/ ForwardReturns \/ CheckMultiInfoReturns \/ DetachBegins \/ Elsewhere
      \/ (\E a \in Amx : Unload(a) \/ Load(a))
      => UNCHANGED <<attached, curl_map_, is_transfer_in_progress_>>
  BY ElsewhereFrame DEF CreateCurlFails, ForwardReturns, CheckMultiInfoReturns, DetachBegins,
     Unload, Load
<1>9. UNCHANGED vars => UNCHANGED <<attached, curl_map_, is_transfer_in_progress_>>
  BY DEF vars
<1> QED
  BY <1>1, <1>2, <1>3, <1>4, <1>5, <1>6, <1>7, <1>8, <1>9
  DEF Next, NativeOn, PerformUndone, Poll, PollOn, Stopped, Elsewhere, OnPerformComplete,
      OnPerformCompleteSkipped, DetachEnds, ExitWithoutDetach

LEMMA TypesAndHeld == Spec => [](TypeOK /\ HeldIsInProgress)
<1>1. Init => TypeOK /\ HeldIsInProgress
  BY InitTypeOK DEF Init, HeldIsInProgress
<1>2. TypeOK /\ HeldIsInProgress /\ [Next]_vars => (TypeOK /\ HeldIsInProgress)'
  BY NextTypeOK, NextHeldIsInProgress
<1> QED
  BY <1>1, <1>2, PTL DEF Spec

\* Every variable keeps its type, under any faults.
THEOREM TypeCorrect == Spec => []TypeOK
BY TypesAndHeld, PTL

\* The multi and curl_map_ never hold on to a destroyed task, under any faults: what
\* they hold is in progress, and RemoveTask, the sweep and RemoveAllTasks all spare
\* or first remove what is in progress.
THEOREM NothingDanglesInMulti == Spec => []NoAttachedDestroyed
<1>1. TypeOK /\ HeldIsInProgress => NoAttachedDestroyed
  BY DEF TypeOK, HeldIsInProgress, NoAttachedDestroyed
<1> QED
  BY <1>1, TypesAndHeld, PTL

-----------------------------------------------------------------------------
(* Handle numbers, whatever goes wrong: HandlesDistinct is inductive by itself *)

\* The queue without its first number has no other occurrence of it.
LEMMA TakenNumberIsGone ==
  ASSUME NEW S, NEW q \in Seq(S), q # <<>>,
         \A i, j \in DOMAIN q : q[i] = q[j] => i = j
  PROVE  /\ \A i \in DOMAIN Tail(q) : Tail(q)[i] # Head(q) /\ \E k \in DOMAIN q : q[k] = Tail(q)[i]
         /\ \A i, j \in DOMAIN Tail(q) : Tail(q)[i] = Tail(q)[j] => i = j
<1>1. Tail(q) \in Seq(S) /\ Len(Tail(q)) = Len(q) - 1 /\ Len(q) \in Nat \ {0}
  BY HeadTailProperties, EmptySeq
<1>2. \A i \in 1..Len(q) - 1 : Tail(q)[i] = q[i + 1]
  BY <1>1, HeadTailProperties
<1>3. DOMAIN Tail(q) = 1..Len(q) - 1 /\ DOMAIN q = 1..Len(q)
  BY <1>1, LenProperties
<1>4. Head(q) = q[1]
  OBVIOUS
<1> QED
  BY <1>1, <1>2, <1>3, <1>4

\* Two lists of distinct numbers with none in common make one.
LEMMA JoinedNumbersDistinct ==
  ASSUME NEW S, NEW q \in Seq(S), NEW s \in Seq(S),
         \A i, j \in DOMAIN q : q[i] = q[j] => i = j,
         \A i, j \in DOMAIN s : s[i] = s[j] => i = j,
         \A i \in DOMAIN q, j \in DOMAIN s : q[i] # s[j]
  PROVE  /\ \A i, j \in DOMAIN (q \o s) : (q \o s)[i] = (q \o s)[j] => i = j
         /\ \A i \in DOMAIN (q \o s) :
              \/ \E k \in DOMAIN q : (q \o s)[i] = q[k]
              \/ \E k \in DOMAIN s : (q \o s)[i] = s[k]
<1> DEFINE r == q \o s
<1>1. /\ r \in Seq(S) /\ Len(r) = Len(q) + Len(s)
      /\ \A i \in 1..Len(q) + Len(s) : r[i] = IF i <= Len(q) THEN q[i] ELSE s[i - Len(q)]
  BY ConcatProperties
<1>2. Len(q) \in Nat /\ Len(s) \in Nat
  BY LenProperties
<1>3. DOMAIN r = 1..Len(q) + Len(s) /\ DOMAIN q = 1..Len(q) /\ DOMAIN s = 1..Len(s)
  BY <1>1, LenProperties
<1> HIDE DEF r
<1>4. ASSUME NEW i \in DOMAIN r
      PROVE  \/ i \in DOMAIN q /\ r[i] = q[i]
             \/ i > Len(q) /\ i - Len(q) \in DOMAIN s /\ r[i] = s[i - Len(q)]
  BY <1>1, <1>2, <1>3
<1>5. ASSUME NEW i \in DOMAIN r, NEW j \in DOMAIN r, r[i] = r[j] PROVE i = j
  <2>1. CASE i \in DOMAIN q /\ r[i] = q[i]
    <3>1. CASE j \in DOMAIN q /\ r[j] = q[j]
      BY <1>5, <2>1, <3>1
    <3>2. CASE j > Len(q) /\ j - Len(q) \in DOMAIN s /\ r[j] = s[j - Len(q)]
      BY <1>5, <2>1, <3>2
    <3> QED
      BY <1>4, <3>1, <3>2
  <2>2. CASE i > Len(q) /\ i - Len(q) \in DOMAIN s /\ r[i] = s[i - Len(q)]
    <3>1. CASE j \in DOMAIN q /\ r[j] = q[j]
      BY <1>5, <2>2, <3>1
    <3>2. CASE j > Len(q) /\ j - Len(q) \in DOMAIN s /\ r[j] = s[j - Len(q)]
      <4>1. i - Len(q) = j - Len(q)
        BY <1>5, <2>2, <3>2
      <4>2. i \in Nat /\ j \in Nat
        BY <1>2, <1>3, <1>5
      <4> QED
        BY <1>2, <4>1, <4>2
    <3> QED
      BY <1>4, <3>1, <3>2
  <2> QED
    BY <1>4, <2>1, <2>2
<1> QED
  BY <1>4, <1>5 DEF r

\* The number a new task takes is not in use.
LEMMA NewNumberIsFresh ==
  ASSUME TypeOK, HandlesDistinct, NEW h \in Handle, IsNextHandle(h)
  PROVE  h \notin amx_curl_
<1>1. CASE free_handles_ = <<>>
  BY <1>1 DEF IsNextHandle
<1>2. CASE free_handles_ # <<>>
  <2>1. free_handles_ \in Seq(Handle) /\ h = free_handles_[1]
    BY <1>2 DEF IsNextHandle, TypeOK
  <2>2. 1 \in DOMAIN free_handles_
    BY <1>2, <2>1, EmptySeq, LenProperties
  <2> QED
    BY <2>1, <2>2 DEF HandlesDistinct
<1> QED
  BY <1>1, <1>2

LEMMA NextHandlesDistinct ==
  TypeOK /\ HandlesDistinct /\ [Next]_vars => HandlesDistinct'
<1> SUFFICES ASSUME TypeOK, HandlesDistinct, [Next]_vars PROVE HandlesDistinct'
  OBVIOUS
<1> USE DEF table
<1>q. free_handles_ \in Seq(Handle)
  BY DEF TypeOK
<1>t. ASSUME free_handles_ # <<>>
      PROVE  /\ \A i \in DOMAIN Tail(free_handles_) :
                  /\ Tail(free_handles_)[i] # Head(free_handles_)
                  /\ Tail(free_handles_)[i] \notin amx_curl_
             /\ \A i, j \in DOMAIN Tail(free_handles_) :
                  Tail(free_handles_)[i] = Tail(free_handles_)[j] => i = j
  BY <1>q, <1>t, TakenNumberIsGone DEF HandlesDistinct
<1>e. DOMAIN <<>> = {}
  BY EmptySeq, LenProperties
<1>1. ASSUME NEW h \in Handle, NEW a \in Amx, CreateCurl(a, h) PROVE HandlesDistinct'
  <2>1. CASE free_handles_ # <<>>
    BY <1>1, <1>t, <2>1 DEF CreateCurl, IsNextHandle, QueueAfterTake, HandlesDistinct
  <2>2. CASE free_handles_ = <<>>
    BY <1>1, <1>e, <2>2 DEF CreateCurl, QueueAfterTake, HandlesDistinct
  <2> QED
    BY <2>1, <2>2
<1>2. CASE CreateCurlFails
  BY <1>2, <1>t DEF CreateCurlFails, QueueAfterTake, HandlesDistinct
<1>3. ASSUME NEW h \in Handle, RemoveTask(h) PROVE HandlesDistinct'
  <2>1. h \in amx_curl_ /\ amx_curl_' = amx_curl_ \ {h}
    BY <1>3 DEF RemoveTask, Uses, Erases
  <2>2. /\ free_handles_' = Append(free_handles_, h)
        /\ DOMAIN free_handles_ = 1..Len(free_handles_) /\ Len(free_handles_) \in Nat
        /\ DOMAIN free_handles_' = 1..Len(free_handles_) + 1
        /\ \A i \in DOMAIN free_handles_ : free_handles_'[i] = free_handles_[i]
        /\ free_handles_'[Len(free_handles_) + 1] = h
    BY <1>3, <1>q DEF RemoveTask
  <2> QED
    BY <2>1, <2>2 DEF HandlesDistinct
<1>4. CASE FrameEnds
  <2>1. PICK s \in Orders(Swept) : free_handles_' = free_handles_ \o s
    BY <1>4 DEF FrameEnds
  <2>2. s \in Seq(Handle)
    BY SweptOrders
  <2>3. /\ \A i \in DOMAIN s : s[i] \in Swept
        /\ \A i, j \in DOMAIN s : s[i] = s[j] => i = j
    BY DEF Orders
  <2>4. Swept \subseteq amx_curl_ /\ amx_curl_' = amx_curl_ \ Swept
    BY <1>4 DEF FrameEnds, Erases, Swept, TypeOK
  <2>5. \A i \in DOMAIN free_handles_, j \in DOMAIN s : free_handles_[i] # s[j]
    BY <2>3, <2>4 DEF HandlesDistinct
  <2>6. /\ \A i, j \in DOMAIN free_handles_' : free_handles_'[i] = free_handles_'[j] => i = j
        /\ \A i \in DOMAIN free_handles_' :
             \/ \E k \in DOMAIN free_handles_ : free_handles_'[i] = free_handles_[k]
             \/ \E k \in DOMAIN s : free_handles_'[i] = s[k]
    <3>1. \A i, j \in DOMAIN free_handles_ : free_handles_[i] = free_handles_[j] => i = j
      BY DEF HandlesDistinct
    <3>2. LET r == free_handles_ \o s IN
            /\ \A i, j \in DOMAIN r : r[i] = r[j] => i = j
            /\ \A i \in DOMAIN r :
                 \/ \E k \in DOMAIN free_handles_ : r[i] = free_handles_[k]
                 \/ \E k \in DOMAIN s : r[i] = s[k]
      BY <1>q, <2>2, <2>3, <2>5, <3>1, JoinedNumbersDistinct
    <3> QED
      BY <2>1, <3>2
  <2> QED
    BY <2>3, <2>4, <2>6 DEF HandlesDistinct
<1>5. CASE RemoveAllTasks
  BY <1>5, <1>e DEF RemoveAllTasks, HandlesDistinct
<1>6. CASE UNCHANGED table
  BY <1>6 DEF HandlesDistinct
<1>7. ASSUME NEW h \in Handle,
             \/ RemoveTaskDeferred(h) \/ CurlPerformTaskFails(h) \/ CurlReset(h)
             \/ \E b \in Buf \cup {NoBuf} : CurlPerformTask(h, b) \/ CurlPerformTaskThrows(h, b)
             \/ TransferEnds(h) \/ PawnCallbackSkipped(h) \/ ReadsMessage(h)
      PROVE  UNCHANGED table
  BY <1>7 DEF RemoveTaskDeferred, CurlPerformTaskFails, CurlReset, CurlPerformTask,
              CurlPerformTaskThrows, TransferEnds, PawnCallbackSkipped, ReadsMessage
<1>8. \/ ForwardReturns \/ CheckMultiInfoReturns \/ DetachBegins \/ Elsewhere
      \/ \E a \in Amx : Unload(a) \/ Load(a)
      \/ UNCHANGED vars
      => UNCHANGED table
  BY ElsewhereFrame DEF ForwardReturns, CheckMultiInfoReturns, DetachBegins, Unload, Load, vars
<1> QED
  BY <1>1, <1>2, <1>3, <1>4, <1>5, <1>6, <1>7, <1>8
  DEF Next, NativeOn, PerformUndone, Poll, PollOn, Stopped, Elsewhere, OnPerformComplete,
      OnPerformCompleteSkipped, DetachEnds, ExitWithoutDetach

\* No handle number is live and free at once, or free twice, whatever faults occur and
\* however many handles there are (GetCurlHandle, FreeCurlHandle and their callers).
THEOREM HandlesStayDistinct == Spec => []HandlesDistinct
<1>1. Init => HandlesDistinct
  BY EmptySeq, LenProperties DEF Init, HandlesDistinct
<1> QED
  BY <1>1, NextHandlesDistinct, TypeCorrect, PTL DEF Spec

-----------------------------------------------------------------------------
(* Deferred cleanups, whatever goes wrong *)

LEMMA NextSweptByFrameEnd ==
  TypeOK /\ SweptByFrameEnd /\ [Next]_vars => SweptByFrameEnd'
<1> SUFFICES ASSUME TypeOK, SweptByFrameEnd, [Next]_vars PROVE SweptByFrameEnd'
  OBVIOUS
<1> USE DEF SweptByFrameEnd, task, frame
<1>1. ASSUME NEW h \in Handle, RemoveTask(h) PROVE SweptByFrameEnd'
  BY <1>1 DEF RemoveTask, Erases
<1>2. ASSUME NEW h \in Handle, RemoveTaskDeferred(h) PROVE SweptByFrameEnd'
  BY <1>2 DEF RemoveTaskDeferred, Defers
<1>3. ASSUME NEW h \in Handle, NEW b \in Buf \cup {NoBuf},
             CurlPerformTask(h, b) \/ CurlPerformTaskThrows(h, b) \/ CurlPerformTaskFails(h)
      PROVE  SweptByFrameEnd'
  BY <1>3 DEF CurlPerformTask, CurlPerformTaskThrows, CurlPerformTaskFails, Refuses,
              InProgressAfterFailure
<1>4. ASSUME NEW h \in Handle, ReadsMessage(h), ctx' # "idle" PROVE SweptByFrameEnd'
  BY <1>4
<1>5. CASE FrameEnds
  BY <1>5 DEF FrameEnds, Erases, Swept
<1>6. CASE RemoveAllTasks \/ DetachBegins \/ ForwardReturns \/ CheckMultiInfoReturns
  BY <1>6 DEF RemoveAllTasks, DetachBegins, ForwardReturns, CheckMultiInfoReturns
<1>7. CASE Elsewhere
  BY <1>7, ElsewhereFrame
<1>8. CASE UNCHANGED <<phase, ctx, cleanup_deferred_, is_transfer_in_progress_>>
  BY <1>8
<1>9. ASSUME NEW h \in Handle,
             \/ \E a \in Amx : CreateCurl(a, h)
             \/ CurlReset(h) \/ TransferEnds(h) \/ PawnCallbackSkipped(h)
      PROVE  UNCHANGED <<phase, ctx, cleanup_deferred_, is_transfer_in_progress_>>
  BY <1>9 DEF CreateCurl, CurlReset, TransferEnds, PawnCallbackSkipped
<1>10. CreateCurlFails \/ (\E a \in Amx : Unload(a) \/ Load(a)) \/ UNCHANGED vars
       => UNCHANGED <<phase, ctx, cleanup_deferred_, is_transfer_in_progress_>>
  BY DEF CreateCurlFails, Unload, Load, vars
<1>11. ASSUME NEW h \in Handle, OnPerformComplete(h) \/ OnPerformCompleteSkipped(h)
       PROVE  ReadsMessage(h) /\ ctx' # "idle"
  BY <1>11 DEF OnPerformComplete, OnPerformCompleteSkipped, ReadsMessage
<1> QED
  BY <1>1, <1>2, <1>3, <1>4, <1>5, <1>6, <1>7, <1>8, <1>9, <1>10, <1>11
  DEF Next, NativeOn, PerformUndone, Poll, PollOn, Stopped, Elsewhere, DetachEnds, ExitWithoutDetach

\* A cleanup that is put off waits, between frames, for a transfer that runs, whatever
\* faults occur and whatever completions do to their handles (RemoveTask, Perform,
\* SweepDeferredCleanups).
THEOREM SweepsAreComplete == Spec => []SweptByFrameEnd
<1>1. Init => SweptByFrameEnd
  BY DEF Init, SweptByFrameEnd
<1> QED
  BY <1>1, NextSweptByFrameEnd, TypeCorrect, PTL DEF Spec

-----------------------------------------------------------------------------
(* No array is leaked and teardown is complete, whatever goes wrong *)

\* Every array that is allocated can still be reached, from a live task or from the
\* completion that runs.  Of OwnedOnce this is the half that survives a Perform that
\* throws: what is reached may then have been freed already, and have two owners.
NoLeak == heap \subseteq {amx_callback_data_[h] : h \in amx_curl_} \cup {cb_data}

\* After detach the game thread is outside of the module for good.
DetachedIsIdle == phase = "detached" => ctx = "idle"

\* Erasing tasks frees all that they own.
LEMMA ErasesNoLeak ==
  ASSUME TypeOK, NoLeak, NEW hs \in SUBSET amx_curl_, Erases(hs), cb_data' = cb_data
  PROVE  NoLeak'
<1>1. /\ amx_curl_' = amx_curl_ \ hs
      /\ heap' = heap \ {amx_callback_data_[h] : h \in hs}
      /\ \A h \in amx_curl_ \ hs : amx_callback_data_'[h] = amx_callback_data_[h]
  BY DEF Erases, TypeOK
<1>2. ASSUME NEW b \in heap', b # cb_data PROVE \E h \in amx_curl_' : b = amx_callback_data_'[h]
  <2>1. PICK h \in amx_curl_ : b = amx_callback_data_[h]
    BY <1>1, <1>2 DEF NoLeak
  <2>2. h \notin hs
    BY <1>1, <1>2, <2>1
  <2> QED
    BY <1>1, <2>1, <2>2
<1> QED
  BY <1>2 DEF NoLeak

\* So does replacing the data of a task, whether the new data is kept or not.
LEMMA ReplacingNoLeak ==
  ASSUME TypeOK, NoLeak, NEW h \in amx_curl_, NEW b \in Buf \cup {NoBuf},
         amx_callback_data_' = [amx_callback_data_ EXCEPT ![h] = b],
         heap' \subseteq (heap \ {amx_callback_data_[h]}) \cup ({b} \ {NoBuf}),
         UNCHANGED <<amx_curl_, cb_data>>
  PROVE  NoLeak'
<1>1. \A k \in amx_curl_ : amx_callback_data_'[k] = IF k = h THEN b ELSE amx_callback_data_[k]
  BY DEF TypeOK
<1>2. ASSUME NEW c \in heap', c # cb_data PROVE \E k \in amx_curl_ : c = amx_callback_data_'[k]
  <2>1. CASE c = b
    BY <1>1, <2>1
  <2>2. CASE c \in heap /\ c # amx_callback_data_[h]
    <3>1. PICK k \in amx_curl_ : c = amx_callback_data_[k]
      BY <1>2, <2>2 DEF NoLeak
    <3> QED
      BY <1>1, <2>2, <3>1
  <2> QED
    BY <1>2, <2>1, <2>2
<1> QED
  BY <1>2 DEF NoLeak

LEMMA NextNoLeak == TypeOK /\ HeldIsInProgress /\ NoLeak /\ [Next]_vars => NoLeak'
<1> SUFFICES ASSUME TypeOK, HeldIsInProgress, NoLeak, [Next]_vars PROVE NoLeak'
  OBVIOUS
<1> USE DEF task, table
<1>1. ASSUME NEW h \in Handle, NEW a \in Amx, CreateCurl(a, h) PROVE NoLeak'
  <2>1. amx_curl_ \subseteq amx_curl_' /\ UNCHANGED <<amx_callback_data_, heap, cb_data>>
    BY <1>1 DEF CreateCurl, frame
  <2> QED
    BY <2>1 DEF NoLeak
<1>2. ASSUME NEW h \in Handle, RemoveTask(h) PROVE NoLeak'
  <2>1. Erases({h}) /\ {h} \subseteq amx_curl_ /\ cb_data' = cb_data
    BY <1>2 DEF RemoveTask, Uses, frame
  <2> QED
    BY <2>1, ErasesNoLeak
<1>3. CASE FrameEnds
  <2>1. Erases(Swept) /\ Swept \subseteq amx_curl_ /\ cb_data' = cb_data
    BY <1>3 DEF FrameEnds, Swept, TypeOK
  <2> QED
    BY <2>1, ErasesNoLeak
<1>4. CASE RemoveAllTasks
  <2>1. Erases(amx_curl_) /\ cb_data' = cb_data
    BY <1>4 DEF RemoveAllTasks
  <2> QED
    BY <2>1, ErasesNoLeak
<1>5. ASSUME NEW h \in Handle, NEW b \in Buf \cup {NoBuf},
             CurlPerformTask(h, b) \/ CurlPerformTaskThrows(h, b)
      PROVE  NoLeak'
  <2>1. /\ h \in amx_curl_
        /\ amx_callback_data_' = [amx_callback_data_ EXCEPT ![h] = b]
        /\ UNCHANGED <<amx_curl_, cb_data>>
    BY <1>5 DEF CurlPerformTask, CurlPerformTaskThrows, Uses, frame
  <2>2. heap' \subseteq (heap \ {amx_callback_data_[h]}) \cup ({b} \ {NoBuf})
    BY <1>5 DEF CurlPerformTask, CurlPerformTaskThrows, TakesData
  <2> QED
    BY <2>1, <2>2, ReplacingNoLeak
<1>6. ASSUME NEW h \in Handle, CurlPerformTaskFails(h) \/ OnPerformCompleteSkipped(h)
      PROVE  NoLeak'
  <2>1. h \in amx_curl_
    BY <1>6 DEF CurlPerformTaskFails, Uses, OnPerformCompleteSkipped, ReadsMessage, TypeOK,
                HeldIsInProgress
  <2>2. /\ amx_callback_data_' = [amx_callback_data_ EXCEPT ![h] = NoBuf]
        /\ heap' = heap \ {amx_callback_data_[h]}
        /\ UNCHANGED <<amx_curl_, cb_data>>
    BY <1>6 DEF CurlPerformTaskFails, OnPerformCompleteSkipped, ReadsMessage, DataTaken, frame
  <2> QED
    BY <2>1, <2>2, ReplacingNoLeak
<1>7. ASSUME NEW h \in Handle, OnPerformComplete(h) PROVE NoLeak'
  <2>1. h \in amx_curl_ /\ cb_data = NoBuf
    BY <1>7 DEF OnPerformComplete, ReadsMessage, TypeOK, HeldIsInProgress
  <2>2. /\ UNCHANGED <<amx_curl_, heap>>
        /\ cb_data' = amx_callback_data_[h]
        /\ \A k \in amx_curl_ \ {h} : amx_callback_data_'[k] = amx_callback_data_[k]
    BY <1>7 DEF OnPerformComplete, ReadsMessage, DataTaken, TypeOK
  <2>3. ASSUME NEW c \in heap', c # cb_data' PROVE \E k \in amx_curl_' : c = amx_callback_data_'[k]
    <3>1. PICK k \in amx_curl_ : c = amx_callback_data_[k]
      BY <2>1, <2>2, <2>3, NullAssumption DEF NoLeak, TypeOK
    <3> QED
      BY <2>2, <2>3, <3>1
  <2> QED
    BY <2>3 DEF NoLeak
<1>8. CASE ForwardReturns
  <2>1. UNCHANGED <<amx_curl_, amx_callback_data_>> /\ heap' = heap \ {cb_data}
    BY <1>8 DEF ForwardReturns
  <2> QED
    BY <2>1 DEF NoLeak
<1>9. CASE UNCHANGED <<amx_curl_, amx_callback_data_, heap, cb_data>>
  BY <1>9 DEF NoLeak
<1>10. ASSUME NEW h \in Handle,
              \/ RemoveTaskDeferred(h) \/ CurlReset(h)
              \/ TransferEnds(h) \/ PawnCallbackSkipped(h)
       PROVE  UNCHANGED <<amx_curl_, amx_callback_data_, heap, cb_data>>
  BY <1>10 DEF RemoveTaskDeferred, CurlReset, TransferEnds, PawnCallbackSkipped, frame
<1>11. CreateCurlFails \/ CheckMultiInfoReturns \/ DetachBegins \/ Elsewhere
       \/ (\E a \in Amx : Unload(a) \/ Load(a)) \/ UNCHANGED vars
       => UNCHANGED <<amx_curl_, amx_callback_data_, heap, cb_data>>
  BY ElsewhereFrame DEF CreateCurlFails, CheckMultiInfoReturns, DetachBegins, Unload, Load,
     vars, frame
<1> QED
  BY <1>1, <1>2, <1>3, <1>4, <1>5, <1>6, <1>7, <1>8, <1>9, <1>10, <1>11
  DEF Next, NativeOn, PerformUndone, Poll, PollOn, Stopped, Elsewhere, DetachEnds, ExitWithoutDetach

\* Once detached, nothing happens any more.
LEMMA NothingAfterDetach ==
  ASSUME phase = "detached", ctx = "idle", [Next]_vars PROVE UNCHANGED vars
<1>1. ~PawnRuns
  BY DEF PawnRuns
<1>2. ASSUME NEW h \in Handle PROVE ~NativeOn(h) /\ ~PollOn(h)
  BY <1>1 DEF NativeOn, PerformUndone, PollOn, CreateCurl, RemoveTask, RemoveTaskDeferred,
     CurlPerformTask,
     CurlPerformTaskThrows, CurlPerformTaskFails, CurlReset, Uses, TransferEnds, PawnCallback,
     PawnCallbackSkipped, OnPerformComplete, OnPerformCompleteSkipped, ReadsMessage
<1>3. ~CreateCurlFails /\ ~Poll
  BY <1>1, <1>2 DEF CreateCurlFails, Poll, PollBegins, HandlerRuns, CallbackReturns,
     SocketActionReturns, ForwardReturns, CheckMultiInfoReturns, FrameEnds, DrainPollEnds, Moves
<1>4. /\ ~DetachBegins /\ ~DetachEnds /\ ~ExitWithoutDetach
      /\ \A a \in Amx : ~Unload(a) /\ ~Load(a)
  BY DEF DetachBegins, DetachEnds, ExitWithoutDetach, Unload, Load
<1> QED
  BY <1>2, <1>3, <1>4 DEF Next, Stopped

\* Only RemoveAllTasks detaches.
LEMMA OnlyRemovalDetaches ==
  ASSUME phase # "detached", phase' = "detached", [Next]_vars
  PROVE  ctx = "idle" /\ RemoveAllTasks
<1> USE DEF frame
<1>1. ASSUME NEW h \in Handle, NativeOn(h) \/ PollOn(h) PROVE UNCHANGED phase
  BY <1>1 DEF NativeOn, PerformUndone, PollOn, CreateCurl, RemoveTask, RemoveTaskDeferred,
     CurlPerformTask,
     CurlPerformTaskThrows, CurlPerformTaskFails, CurlReset, TransferEnds, PawnCallback,
     PawnCallbackSkipped, OnPerformComplete, OnPerformCompleteSkipped, ReadsMessage
<1>2. CreateCurlFails \/ Poll => UNCHANGED phase
  BY <1>1 DEF CreateCurlFails, Poll, PollBegins, HandlerRuns, CallbackReturns,
     SocketActionReturns, ForwardReturns, CheckMultiInfoReturns, FrameEnds, DrainPollEnds, Moves
<1>3. \/ \E a \in Amx : Unload(a) \/ Load(a)
      \/ DetachBegins
      => phase' # "detached"
  BY DEF Unload, Load, DetachBegins
<1> QED
  BY <1>1, <1>2, <1>3 DEF Next, Stopped, DetachEnds, ExitWithoutDetach, vars

LEMMA NextNothingLeft ==
  TypeOK /\ HeldIsInProgress /\ NoLeak /\ DetachedIsIdle /\ NothingLeft /\ [Next]_vars
  => DetachedIsIdle' /\ NothingLeft'
<1> SUFFICES ASSUME TypeOK, HeldIsInProgress, NoLeak, DetachedIsIdle, NothingLeft,
                    [Next]_vars, phase' = "detached"
             PROVE  ctx' = "idle" /\ attached' = {} /\ curl_map_' = {} /\ heap' = {}
  BY DEF DetachedIsIdle, NothingLeft
<1>1. CASE phase = "detached"
  <2>1. UNCHANGED vars
    BY <1>1, NothingAfterDetach DEF DetachedIsIdle
  <2> QED
    BY <1>1, <2>1 DEF DetachedIsIdle, NothingLeft, vars, multi, frame
<1>2. CASE phase # "detached"
  <2>1. ctx = "idle" /\ RemoveAllTasks
    BY <1>2, OnlyRemovalDetaches
  <2>2. ctx' = "idle" /\ attached' = {} /\ curl_map_' = {}
    BY <2>1 DEF RemoveAllTasks, RemovedFromMulti, HeldIsInProgress
  <2>3. heap' = heap \ {amx_callback_data_[h] : h \in amx_curl_}
    BY <2>1 DEF RemoveAllTasks, Erases
  <2>4. cb_data = NoBuf /\ NoBuf \notin heap
    BY <2>1, NullAssumption DEF TypeOK
  <2> QED
    BY <2>2, <2>3, <2>4 DEF NoLeak
<1> QED
  BY <1>1, <1>2

LEMMA LeaksAndTeardown ==
  Spec => [](TypeOK /\ HeldIsInProgress /\ NoLeak /\ DetachedIsIdle /\ NothingLeft)
<1>1. Init => NoLeak /\ DetachedIsIdle /\ NothingLeft
  BY DEF Init, NoLeak, DetachedIsIdle, NothingLeft
<1> QED
  BY <1>1, NextNoLeak, NextNothingLeft, TypesAndHeld, PTL DEF Spec

\* Whatever faults occur, no array that was allocated for a perform is out of reach:
\* the task it was given to, or the completion that runs, will free it (the native
\* curl_easy_perform, Perform, OnPerformComplete, ~AmxCurl).
THEOREM NoDataLeaks == Spec => []NoLeak
BY LeaksAndTeardown, PTL

\* Detach leaves nothing in the multi and leaks no data, by either way out, whatever
\* was in flight and whatever faults occurred before (RemoveAllTasks).
THEOREM TeardownIsComplete == Spec => []NothingLeft
BY LeaksAndTeardown, PTL

-----------------------------------------------------------------------------
(* What natives called from callbacks cannot do, whatever goes wrong *)

LEMMA NextCallbackTaskLives ==
  TypeOK /\ HeldIsInProgress /\ CallbackTaskLives /\ [Next]_vars => CallbackTaskLives'
<1> SUFFICES ASSUME TypeOK, HeldIsInProgress, CallbackTaskLives, [Next]_vars, ctx' = "callback"
             PROVE  cur' \in attached' \ done' /\ cur' \in is_transfer_in_progress_'
  BY DEF CallbackTaskLives
<1> USE DEF task, multi, frame
<1>1. ASSUME NEW h \in Handle, PawnCallback(h) PROVE UNCHANGED <<multi, task>> /\ cur' \in attached \ done
  BY <1>1 DEF PawnCallback
<1>2. CASE ctx = "callback"
  <2>1. ASSUME NEW h \in Handle, NativeOn(h) PROVE UNCHANGED <<attached, done, cur>>
    BY <1>2, <2>1 DEF NativeOn, PerformUndone, CreateCurl, RemoveTask, RemoveTaskDeferred,
       CurlPerformTask, MayAttach, CurlPerformTaskThrows, CurlPerformTaskFails, CurlReset
  <2>2. ASSUME NEW h \in Handle, NativeOn(h)
        PROVE  \A k \in attached : k \in is_transfer_in_progress_'
    BY <1>2, <2>2 DEF HeldIsInProgress, NativeOn, PerformUndone, CreateCurl, RemoveTask, Defers,
       Erases, RemoveTaskDeferred, CurlPerformTask, CurlPerformTaskThrows, CurlPerformTaskFails,
       Refuses, InProgressAfterFailure, CurlReset
  <2>3. CreateCurlFails \/ UNCHANGED vars => UNCHANGED <<multi, task, cur>>
    BY DEF CreateCurlFails, vars
  <2>4. ASSUME NEW h \in Handle PROVE ~PollOn(h)
    BY <1>2 DEF PollOn, TransferEnds, PawnCallback, PawnCallbackSkipped, OnPerformComplete,
       OnPerformCompleteSkipped, ReadsMessage
  <2>5. ~Poll
    BY <1>2, <2>4 DEF Poll, PollBegins, HandlerRuns, CallbackReturns, SocketActionReturns,
       ForwardReturns, CheckMultiInfoReturns, FrameEnds, DrainPollEnds, Moves
  <2>6. /\ ~DetachBegins /\ ~DetachEnds /\ ~ExitWithoutDetach
        /\ \A a \in Amx : ~Unload(a) /\ ~Load(a)
    BY <1>2 DEF DetachBegins, DetachEnds, ExitWithoutDetach, Unload, Load
  <2> QED
    BY <1>2, <2>1, <2>2, <2>3, <2>5, <2>6 DEF Next, Stopped, CallbackTaskLives
<1>3. CASE ctx # "callback"
  <2>1. \E h \in Handle : PawnCallback(h)
    <3>1. ASSUME NEW h \in Handle, NativeOn(h) PROVE ctx' = ctx
      BY <3>1 DEF NativeOn, PerformUndone, CreateCurl, RemoveTask, RemoveTaskDeferred,
         CurlPerformTask, CurlPerformTaskThrows, CurlPerformTaskFails, CurlReset
    <3>2. ASSUME NEW h \in Handle, PollOn(h), ~PawnCallback(h)
          PROVE  ctx' = ctx \/ ctx' = "completing"
      BY <3>2 DEF PollOn, TransferEnds, PawnCallbackSkipped, OnPerformComplete,
         OnPerformCompleteSkipped
    <3>3. /\ ~PollBegins /\ ~HandlerRuns /\ ~CallbackReturns /\ ~SocketActionReturns
          /\ ~DrainPollEnds /\ ~ForwardReturns /\ ~CheckMultiInfoReturns /\ ~FrameEnds
      BY DEF PollBegins, HandlerRuns, CallbackReturns, SocketActionReturns,
         DrainPollEnds, ForwardReturns, CheckMultiInfoReturns, FrameEnds, Moves
    <3>4. \/ CreateCurlFails \/ DetachBegins \/ DetachEnds \/ ExitWithoutDetach
          \/ \E a \in Amx : Unload(a) \/ Load(a)
          \/ UNCHANGED vars
          => ctx' = ctx
      BY DEF CreateCurlFails, DetachBegins, DetachEnds, ExitWithoutDetach, RemoveAllTasks,
         Unload, Load, vars
    <3> QED
      BY <1>3, <3>1, <3>2, <3>3, <3>4 DEF Next, Poll, Stopped
  <2> QED
    BY <1>1, <2>1 DEF HeldIsInProgress
<1> QED
  BY <1>2, <1>3

\* A data callback runs on a task that stays: what the callback asks to be cleaned up,
\* its own handle included, is put off, under any faults (curl_easy_cleanup,
\* CurlPerformTask, RemoveTask).
THEOREM CallbacksRunOnLiveTasks == Spec => []CallbackTaskLives
<1>1. Init => CallbackTaskLives
  BY DEF Init, CallbackTaskLives
<1> QED
  BY <1>1, NextCallbackTaskLives, TypesAndHeld, PTL DEF Spec

LEMMA NextKeepsData == TypeOK /\ [Next]_vars => KeepsData
<1> SUFFICES ASSUME TypeOK, [Next]_vars PROVE KeepsData
  OBVIOUS
<1> USE DEF task
<1>1. ASSUME NEW hs, Erases(hs) PROVE KeepsData
  <2>1. /\ is_transfer_in_progress_' = is_transfer_in_progress_ \ hs
        /\ \A h \in Handle \ hs : amx_callback_data_'[h] = amx_callback_data_[h]
    BY <1>1 DEF Erases
  <2> QED
    BY <2>1 DEF KeepsData, TypeOK
<1>2. ASSUME NEW h \in Handle, NEW b, h \notin is_transfer_in_progress_ \cap is_transfer_in_progress_',
             amx_callback_data_' = [amx_callback_data_ EXCEPT ![h] = b]
      PROVE  KeepsData
  BY <1>2 DEF KeepsData, TypeOK
<1>3. CASE UNCHANGED amx_callback_data_
  BY <1>3 DEF KeepsData
<1>4. ASSUME NEW h \in Handle, NEW b \in Buf \cup {NoBuf},
             CurlPerformTask(h, b) \/ CurlPerformTaskThrows(h, b)
      PROVE  KeepsData
  <2>1. /\ h \notin is_transfer_in_progress_
        /\ amx_callback_data_' = [amx_callback_data_ EXCEPT ![h] = b]
    BY <1>4 DEF CurlPerformTask, CurlPerformTaskThrows, Refuses
  <2> QED
    BY <1>2, <2>1
<1>5. ASSUME NEW h \in Handle, CurlPerformTaskFails(h) \/ ReadsMessage(h) PROVE KeepsData
  <2>1. /\ h \notin is_transfer_in_progress_'
        /\ amx_callback_data_' = [amx_callback_data_ EXCEPT ![h] = NoBuf]
    BY <1>5 DEF CurlPerformTaskFails, InProgressAfterFailure, ReadsMessage, DataTaken
  <2> QED
    BY <1>2, <2>1
<1>6. ASSUME NEW h \in Handle, RemoveTask(h) PROVE KeepsData
  BY <1>1, <1>6 DEF RemoveTask
<1>7. CASE FrameEnds \/ RemoveAllTasks
  BY <1>1, <1>7 DEF FrameEnds, RemoveAllTasks
<1>8. ASSUME NEW h \in Handle,
             \/ \E a \in Amx : CreateCurl(a, h)
             \/ RemoveTaskDeferred(h) \/ CurlReset(h)
             \/ TransferEnds(h) \/ PawnCallbackSkipped(h)
      PROVE  UNCHANGED amx_callback_data_
  BY <1>8 DEF CreateCurl, RemoveTaskDeferred, CurlReset, TransferEnds, PawnCallbackSkipped
<1>9. CreateCurlFails \/ ForwardReturns \/ CheckMultiInfoReturns \/ DetachBegins \/ Elsewhere
      \/ (\E a \in Amx : Unload(a) \/ Load(a)) \/ UNCHANGED vars
      => UNCHANGED amx_callback_data_
  BY ElsewhereFrame DEF CreateCurlFails, ForwardReturns, CheckMultiInfoReturns, DetachBegins,
     Unload, Load, vars
<1> QED
  BY <1>3, <1>4, <1>5, <1>6, <1>7, <1>8, <1>9
  DEF Next, NativeOn, PerformUndone, Poll, PollOn, Stopped, Elsewhere, OnPerformComplete,
      OnPerformCompleteSkipped, DetachEnds, ExitWithoutDetach

\* No step replaces or forgets the array of a transfer while it is in progress:
\* a second perform is refused before it takes its data, under any faults
\* (CurlPerformTask, Perform, OnPerformComplete).
THEOREM DataStaysWithItsTransfer == Spec => DataStaysPut
<1>1. TypeOK /\ [Next]_vars => [KeepsData]_vars
  BY NextKeepsData
<1> QED
  BY <1>1, TypeCorrect, PTL DEF Spec, DataStaysPut

-----------------------------------------------------------------------------
(* When Perform does not throw: flags and ownership *)

\* A number without a task holds no data.
DeadHoldNothing == \A h \in Handle \ amx_curl_ : amx_callback_data_[h] = NoBuf

\* OwnedOnce is not inductive alone: a number must come back with no data, and a
\* completion must be of a task that exists.
IInv ==
  /\ InProgressIffAttached
  /\ OwnedOnce
  /\ DeadHoldNothing

LEMMA NextInProgressIffAttached ==
  TypeOK /\ InProgressIffAttached /\ "perform_throws" \notin Faults /\ [Next]_vars
  => InProgressIffAttached'
<1> SUFFICES ASSUME TypeOK, InProgressIffAttached, "perform_throws" \notin Faults, [Next]_vars
             PROVE  InProgressIffAttached'
  OBVIOUS
<1> USE DEF InProgressIffAttached, multi, task
<1>1. ASSUME NEW h \in Handle, RemoveTask(h) PROVE InProgressIffAttached'
  BY <1>1 DEF RemoveTask, Erases, Defers
<1>2. ASSUME NEW h \in Handle, NEW b \in Buf \cup {NoBuf},
             CurlPerformTask(h, b) \/ CurlPerformTaskThrows(h, b) \/ CurlPerformTaskFails(h)
      PROVE  InProgressIffAttached'
  BY <1>2 DEF CurlPerformTask, CurlPerformTaskThrows, CurlPerformTaskFails, Refuses,
              InProgressAfterFailure
<1>3. ASSUME NEW h \in Handle, ReadsMessage(h) PROVE InProgressIffAttached'
  BY <1>3 DEF ReadsMessage
<1>4. CASE FrameEnds
  BY <1>4 DEF FrameEnds, Erases, Swept
<1>5. CASE RemoveAllTasks
  BY <1>5 DEF RemoveAllTasks, RemovedFromMulti, Erases, TypeOK
<1>6. CASE UNCHANGED <<attached, curl_map_, is_transfer_in_progress_>>
  BY <1>6
<1>7. ASSUME NEW h \in Handle,
             \/ \E a \in Amx : CreateCurl(a, h)
             \/ RemoveTaskDeferred(h) \/ CurlReset(h)
             \/ TransferEnds(h) \/ PawnCallbackSkipped(h)
      PROVE  UNCHANGED <<attached, curl_map_, is_transfer_in_progress_>>
  BY <1>7 DEF CreateCurl, RemoveTaskDeferred, CurlReset, TransferEnds, PawnCallbackSkipped
<1>8. CreateCurlFails \/ ForwardReturns \/ CheckMultiInfoReturns \/ DetachBegins \/ Elsewhere
      \/ (\E a \in Amx : Unload(a) \/ Load(a)) \/ UNCHANGED vars
      => UNCHANGED <<attached, curl_map_, is_transfer_in_progress_>>
  BY ElsewhereFrame DEF CreateCurlFails, ForwardReturns, CheckMultiInfoReturns, DetachBegins,
     Unload, Load, vars
<1> QED
  BY <1>1, <1>2, <1>3, <1>4, <1>5, <1>6, <1>7, <1>8
  DEF Next, NativeOn, PerformUndone, Poll, PollOn, Stopped, Elsewhere, OnPerformComplete,
      OnPerformCompleteSkipped, DetachEnds, ExitWithoutDetach

\* Erasing tasks frees the data they own, and no other.
LEMMA ErasesKeepsOwned ==
  ASSUME TypeOK, OwnedOnce, DeadHoldNothing, NEW hs \in SUBSET amx_curl_, Erases(hs),
         cb_data' = cb_data
  PROVE  OwnedOnce' /\ DeadHoldNothing'
<1> USE DEF TypeOK
<1>1. /\ amx_curl_' = amx_curl_ \ hs
      /\ heap' = heap \ {amx_callback_data_[h] : h \in hs}
      /\ \A h \in Handle : amx_callback_data_'[h] = IF h \in hs THEN NoBuf ELSE amx_callback_data_[h]
  BY DEF Erases
<1>2. DeadHoldNothing'
  BY <1>1 DEF DeadHoldNothing
<1>3. ASSUME NEW h \in amx_curl_', amx_callback_data_'[h] # NoBuf
      PROVE  /\ amx_callback_data_'[h] # cb_data'
             /\ \A k \in amx_curl_' \ {h} : amx_callback_data_'[k] # amx_callback_data_'[h]
  BY <1>1, <1>3 DEF OwnedOnce
<1>4. ASSUME NEW b \in heap'
      PROVE  b \in ({amx_callback_data_'[h] : h \in amx_curl_'} \cup {cb_data'}) \ {NoBuf}
  <2>1. b \in heap /\ b # NoBuf /\ \A h \in hs : b # amx_callback_data_[h]
    BY <1>1, <1>4, NullAssumption
  <2>2. CASE b = cb_data
    BY <2>1, <2>2
  <2>3. CASE \E h \in amx_curl_ : b = amx_callback_data_[h]
    BY <1>1, <2>1, <2>3
  <2> QED
    BY <2>1, <2>2, <2>3 DEF OwnedOnce
<1>5. ASSUME NEW h \in amx_curl_', amx_callback_data_'[h] # NoBuf
      PROVE  amx_callback_data_'[h] \in heap'
  <2>1. h \in amx_curl_ /\ h \notin hs /\ amx_callback_data_'[h] = amx_callback_data_[h]
    BY <1>1, <1>5
  <2>2. amx_callback_data_[h] \in heap
    BY <1>5, <2>1 DEF OwnedOnce
  <2>3. \A k \in hs : amx_callback_data_[k] # amx_callback_data_[h]
    BY <1>5, <2>1 DEF OwnedOnce
  <2> QED
    BY <1>1, <2>1, <2>2, <2>3
<1>6. cb_data' # NoBuf => cb_data' \in heap'
  <2> SUFFICES ASSUME cb_data # NoBuf PROVE cb_data \in heap'
    OBVIOUS
  <2>1. cb_data \in heap
    BY DEF OwnedOnce
  <2>2. \A k \in hs : amx_callback_data_[k] # cb_data
    BY DEF OwnedOnce
  <2> QED
    BY <1>1, <2>1, <2>2
<1>7. heap' = ({amx_callback_data_'[h] : h \in amx_curl_'} \cup {cb_data'}) \ {NoBuf}
  <2>1. NoBuf \notin heap'
    BY <1>1, NullAssumption
  <2> QED
    BY <1>4, <1>5, <1>6, <2>1
<1> QED
  BY <1>2, <1>3, <1>7 DEF OwnedOnce

\* Replacing the data of a task by new data, or by none, frees the old.
LEMMA ReplacingKeepsOwned ==
  ASSUME TypeOK, OwnedOnce, DeadHoldNothing,
         NEW h \in amx_curl_, NEW b, GivesData(b), TakesData(h, b),
         amx_callback_data_' = [amx_callback_data_ EXCEPT ![h] = b],
         UNCHANGED <<amx_curl_, cb_data>>
  PROVE  OwnedOnce' /\ DeadHoldNothing'
<1> USE DEF TypeOK
<1>1. /\ b \in Buf \cup {NoBuf} /\ b \notin heap
      /\ \A k \in Handle : amx_callback_data_'[k] = IF k = h THEN b ELSE amx_callback_data_[k]
      /\ heap' = (heap \ {amx_callback_data_[h]}) \cup ({b} \ {NoBuf})
  BY NullAssumption DEF GivesData, TakesData
<1>2. DeadHoldNothing'
  BY <1>1 DEF DeadHoldNothing
<1>3. /\ b # NoBuf => b # cb_data
      /\ \A k \in amx_curl_ : b # NoBuf => amx_callback_data_[k] # b
  BY <1>1 DEF OwnedOnce
<1>4. ASSUME NEW k \in amx_curl_', amx_callback_data_'[k] # NoBuf
      PROVE  /\ amx_callback_data_'[k] # cb_data'
             /\ \A j \in amx_curl_' \ {k} : amx_callback_data_'[j] # amx_callback_data_'[k]
  BY <1>1, <1>3, <1>4 DEF OwnedOnce
<1>5. ASSUME NEW c \in heap'
      PROVE  c \in ({amx_callback_data_'[k] : k \in amx_curl_'} \cup {cb_data'}) \ {NoBuf}
  <2>1. CASE c = b
    BY <1>1, <1>5, <2>1, NullAssumption
  <2>2. CASE c \in heap /\ c # amx_callback_data_[h]
    <3>1. c # NoBuf
      BY <2>2, NullAssumption
    <3>2. CASE c = cb_data
      BY <3>1, <3>2
    <3>3. CASE \E k \in amx_curl_ \ {h} : c = amx_callback_data_[k]
      BY <1>1, <3>1, <3>3
    <3> QED
      BY <2>2, <3>1, <3>2, <3>3 DEF OwnedOnce
  <2> QED
    BY <1>1, <1>5, <2>1, <2>2
<1>6. ASSUME NEW k \in amx_curl_', amx_callback_data_'[k] # NoBuf
      PROVE  amx_callback_data_'[k] \in heap'
  <2>1. CASE k = h
    BY <1>1, <1>6, <2>1
  <2>2. CASE k # h
    <3>1. amx_callback_data_[k] \in heap /\ amx_callback_data_[k] # amx_callback_data_[h]
      BY <1>1, <1>6, <2>2 DEF OwnedOnce
    <3> QED
      BY <1>1, <2>2, <3>1
  <2> QED
    BY <2>1, <2>2
<1>7. cb_data' # NoBuf => cb_data' \in heap'
  BY <1>1 DEF OwnedOnce
<1>8. heap' = ({amx_callback_data_'[k] : k \in amx_curl_'} \cup {cb_data'}) \ {NoBuf}
  <2>1. NoBuf \notin heap'
    BY <1>1, NullAssumption
  <2> QED
    BY <1>5, <1>6, <1>7, <2>1
<1> QED
  BY <1>2, <1>4, <1>8 DEF OwnedOnce

LEMMA NextOwnedOnce ==
  TypeOK /\ HeldIsInProgress /\ HandlesDistinct /\ OwnedOnce /\ DeadHoldNothing
  /\ "perform_throws" \notin Faults /\ [Next]_vars
  => OwnedOnce' /\ DeadHoldNothing'
<1> SUFFICES ASSUME TypeOK, HeldIsInProgress, HandlesDistinct, OwnedOnce, DeadHoldNothing,
                    "perform_throws" \notin Faults, [Next]_vars
             PROVE  OwnedOnce' /\ DeadHoldNothing'
  OBVIOUS
<1> USE DEF task, table
<1>1. ASSUME NEW h \in Handle, NEW a \in Amx, CreateCurl(a, h)
      PROVE  OwnedOnce' /\ DeadHoldNothing'
  <2>1. /\ amx_curl_' = amx_curl_ \cup {h}
        /\ UNCHANGED <<amx_callback_data_, heap, cb_data>>
    BY <1>1 DEF CreateCurl, frame
  <2>2. CASE h \in amx_curl_
    <3>1. amx_curl_' = amx_curl_
      BY <2>1, <2>2
    <3> QED
      BY <2>1, <3>1 DEF OwnedOnce, DeadHoldNothing
  <2>3. CASE h \notin amx_curl_
    <3>1. amx_callback_data_[h] = NoBuf
      BY <2>3 DEF DeadHoldNothing
    <3>2. {amx_callback_data_[k] : k \in amx_curl_ \cup {h}}
            = {amx_callback_data_[k] : k \in amx_curl_} \cup {NoBuf}
      BY <3>1
    <3>3. heap' = ({amx_callback_data_'[k] : k \in amx_curl_'} \cup {cb_data'}) \ {NoBuf}
      BY <2>1, <3>2 DEF OwnedOnce
    <3>4. DeadHoldNothing'
      BY <2>1 DEF DeadHoldNothing
    <3> QED
      BY <2>1, <3>1, <3>3, <3>4 DEF OwnedOnce
  <2> QED
    BY <2>2, <2>3
<1>2. ASSUME NEW hs \in SUBSET amx_curl_, Erases(hs), cb_data' = cb_data
      PROVE  OwnedOnce' /\ DeadHoldNothing'
  BY <1>2, ErasesKeepsOwned
<1>3. ASSUME NEW h \in Handle, RemoveTask(h) PROVE OwnedOnce' /\ DeadHoldNothing'
  <2>1. Erases({h}) /\ {h} \subseteq amx_curl_ /\ cb_data' = cb_data
    BY <1>3 DEF RemoveTask, Uses, frame
  <2> QED
    BY <1>2, <2>1
<1>4. CASE FrameEnds
  <2>1. Erases(Swept) /\ Swept \subseteq amx_curl_ /\ cb_data' = cb_data
    BY <1>4 DEF FrameEnds, Swept, TypeOK
  <2> QED
    BY <1>2, <2>1
<1>5. CASE RemoveAllTasks
  <2>1. Erases(amx_curl_) /\ cb_data' = cb_data
    BY <1>5 DEF RemoveAllTasks
  <2> QED
    BY <1>2, <2>1
<1>6. ASSUME NEW h \in Handle, NEW b \in Buf \cup {NoBuf}, CurlPerformTask(h, b)
      PROVE  OwnedOnce' /\ DeadHoldNothing'
  <2>1. /\ h \in amx_curl_ /\ GivesData(b) /\ TakesData(h, b)
        /\ amx_callback_data_' = [amx_callback_data_ EXCEPT ![h] = b]
        /\ UNCHANGED <<amx_curl_, cb_data>>
    BY <1>6 DEF CurlPerformTask, Uses, frame
  <2> QED
    BY <2>1, ReplacingKeepsOwned
<1>7. ASSUME NEW h \in Handle, CurlPerformTaskFails(h) \/ OnPerformCompleteSkipped(h)
      PROVE  OwnedOnce' /\ DeadHoldNothing'
  <2>1. h \in amx_curl_
    BY <1>7 DEF CurlPerformTaskFails, Uses, OnPerformCompleteSkipped, ReadsMessage, TypeOK,
                HeldIsInProgress
  <2>2. /\ amx_callback_data_' = [amx_callback_data_ EXCEPT ![h] = NoBuf]
        /\ heap' = heap \ {amx_callback_data_[h]}
        /\ UNCHANGED <<amx_curl_, cb_data>>
    BY <1>7 DEF CurlPerformTaskFails, OnPerformCompleteSkipped, ReadsMessage, DataTaken, frame
  <2>3. GivesData(NoBuf) /\ TakesData(h, NoBuf)
    BY <2>2 DEF GivesData, TakesData
  <2> QED
    BY <2>1, <2>2, <2>3, ReplacingKeepsOwned
<1>8. ASSUME NEW h \in Handle, OnPerformComplete(h) PROVE OwnedOnce' /\ DeadHoldNothing'
  <2>1. h \in amx_curl_ /\ cb_data = NoBuf
    BY <1>8 DEF OnPerformComplete, ReadsMessage, TypeOK, HeldIsInProgress
  <2>2. /\ UNCHANGED <<amx_curl_, heap>>
        /\ cb_data' = amx_callback_data_[h]
        /\ \A k \in Handle : amx_callback_data_'[k] = IF k = h THEN NoBuf ELSE amx_callback_data_[k]
    BY <1>8 DEF OnPerformComplete, ReadsMessage, DataTaken, TypeOK
  <2>3. ({amx_callback_data_'[k] : k \in amx_curl_'} \cup {cb_data'}) \ {NoBuf}
          = ({amx_callback_data_[k] : k \in amx_curl_} \cup {cb_data}) \ {NoBuf}
    BY <2>1, <2>2 DEF TypeOK
  <2>4. \A k \in amx_curl_' : amx_callback_data_'[k] # NoBuf =>
           /\ amx_callback_data_'[k] # cb_data'
           /\ \A j \in amx_curl_' \ {k} : amx_callback_data_'[j] # amx_callback_data_'[k]
    BY <2>1, <2>2 DEF TypeOK, OwnedOnce
  <2>5. DeadHoldNothing'
    BY <2>2 DEF DeadHoldNothing
  <2> QED
    BY <2>2, <2>3, <2>4, <2>5 DEF OwnedOnce
<1>9. CASE ForwardReturns
  <2>1. /\ UNCHANGED <<amx_curl_, amx_callback_data_>>
        /\ heap' = heap \ {cb_data} /\ cb_data' = NoBuf
    BY <1>9 DEF ForwardReturns, FreedIsGone
  <2>2. heap' = ({amx_callback_data_'[k] : k \in amx_curl_'} \cup {cb_data'}) \ {NoBuf}
    BY <2>1 DEF OwnedOnce
  <2> QED
    BY <2>1, <2>2 DEF OwnedOnce, DeadHoldNothing
<1>10. CASE UNCHANGED <<amx_curl_, amx_callback_data_, heap, cb_data>>
  BY <1>10 DEF OwnedOnce, DeadHoldNothing
<1>11. ASSUME NEW h \in Handle,
              \/ RemoveTaskDeferred(h) \/ CurlReset(h)
              \/ \E b \in Buf \cup {NoBuf} : CurlPerformTaskThrows(h, b)
              \/ TransferEnds(h) \/ PawnCallbackSkipped(h)
       PROVE  UNCHANGED <<amx_curl_, amx_callback_data_, heap, cb_data>>
  BY <1>11 DEF RemoveTaskDeferred, CurlReset, CurlPerformTaskThrows, TransferEnds,
               PawnCallbackSkipped, frame
<1>12. CreateCurlFails \/ CheckMultiInfoReturns \/ DetachBegins \/ Elsewhere
       \/ (\E a \in Amx : Unload(a) \/ Load(a)) \/ UNCHANGED vars
       => UNCHANGED <<amx_curl_, amx_callback_data_, heap, cb_data>>
  BY ElsewhereFrame DEF CreateCurlFails, CheckMultiInfoReturns, DetachBegins, Unload, Load,
     vars, frame
<1> QED
  BY <1>1, <1>3, <1>4, <1>5, <1>6, <1>7, <1>8, <1>9, <1>10, <1>11, <1>12
  DEF Next, NativeOn, PerformUndone, Poll, PollOn, Stopped, Elsewhere, DetachEnds, ExitWithoutDetach

THEOREM InductiveInvariant == ASSUME "perform_throws" \notin Faults PROVE Spec => []IInv
<1>1. Init => IInv
  <2> SUFFICES ASSUME Init PROVE IInv
    OBVIOUS
  <2>1. OwnedOnce
    BY DEF Init, OwnedOnce
  <2> QED
    BY <2>1 DEF Init, IInv, InProgressIffAttached, DeadHoldNothing
<1>2. TypeOK /\ HeldIsInProgress /\ HandlesDistinct /\ IInv /\ [Next]_vars => IInv'
  BY NextInProgressIffAttached, NextOwnedOnce DEF IInv
<1> QED
  BY <1>1, <1>2, TypesAndHeld, HandlesStayDistinct, PTL DEF Spec

\* Unless Perform throws, a task is in progress exactly while libcurl holds its handle
\* and its completion callback is registered (Perform, AddCurl, OnPerformComplete).
THEOREM FlagsMatchMulti ==
  ASSUME "perform_throws" \notin Faults PROVE Spec => []InProgressIffAttached
<1>1. IInv => InProgressIffAttached
  BY DEF IInv
<1> QED
  BY <1>1, InductiveInvariant, PTL

\* Unless Perform throws, each data array has one owner: none is leaked, none is freed
\* twice (CurlPerformTask, Perform, OnPerformComplete, ~AmxCurl).
THEOREM DataOwnedOnce ==
  ASSUME "perform_throws" \notin Faults PROVE Spec => []OwnedOnce
<1>1. IInv => OwnedOnce
  BY DEF IInv
<1> QED
  BY <1>1, InductiveInvariant, PTL

-----------------------------------------------------------------------------
(* When no plugin is loaded at the address of an unloaded one: forwards *)

\* A task is an orphan exactly when its plugin is not loaded, so that the comparison
\* of addresses in AmxValid tells.
OrphansExact == \A h \in amx_curl_ : h \in orphans <=> amx_[h] \notin loaded

LEMMA NextOrphansExact ==
  TypeOK /\ HandlesDistinct /\ OrphansExact /\ "address_reuse" \notin Faults /\ [Next]_vars
  => OrphansExact'
<1> SUFFICES ASSUME TypeOK, HandlesDistinct, OrphansExact, "address_reuse" \notin Faults,
                    [Next]_vars
             PROVE  OrphansExact'
  OBVIOUS
<1> USE DEF OrphansExact, plugins, task, table
<1>1. ASSUME NEW h \in Handle, NEW a \in Amx, CreateCurl(a, h) PROVE OrphansExact'
  <2>1. h \notin amx_curl_
    BY <1>1, NewNumberIsFresh DEF CreateCurl
  <2> QED
    BY <1>1, <2>1 DEF CreateCurl, TypeOK
<1>2. ASSUME NEW hs, Erases(hs), loaded' = loaded PROVE OrphansExact'
  BY <1>2 DEF Erases, TypeOK
<1>3. ASSUME NEW h \in Handle, RemoveTask(h) PROVE Erases({h}) /\ loaded' = loaded
  BY <1>3 DEF RemoveTask
<1>4. FrameEnds => Erases(Swept) /\ loaded' = loaded
  BY DEF FrameEnds
<1>5. RemoveAllTasks => Erases(amx_curl_) /\ loaded' = loaded
  BY DEF RemoveAllTasks
<1>6. ASSUME NEW a \in Amx, Unload(a) PROVE OrphansExact'
  BY <1>6 DEF Unload
<1>7. ASSUME NEW a \in Amx, Load(a) PROVE OrphansExact'
  BY <1>7 DEF Load
<1>8. CASE UNCHANGED <<amx_curl_, orphans, amx_, loaded>>
  BY <1>8
<1>9. ASSUME NEW h \in Handle,
             \/ RemoveTaskDeferred(h) \/ CurlPerformTaskFails(h) \/ CurlReset(h)
             \/ \E b \in Buf \cup {NoBuf} : CurlPerformTask(h, b) \/ CurlPerformTaskThrows(h, b)
             \/ TransferEnds(h) \/ PawnCallbackSkipped(h) \/ ReadsMessage(h)
      PROVE  UNCHANGED <<amx_curl_, orphans, amx_, loaded>>
  BY <1>9 DEF RemoveTaskDeferred, CurlPerformTaskFails, CurlReset, CurlPerformTask,
              CurlPerformTaskThrows, TransferEnds, PawnCallbackSkipped, ReadsMessage
<1>10. CreateCurlFails \/ ForwardReturns \/ CheckMultiInfoReturns \/ DetachBegins \/ Elsewhere
       \/ UNCHANGED vars
       => UNCHANGED <<amx_curl_, orphans, amx_, loaded>>
  BY ElsewhereFrame DEF CreateCurlFails, ForwardReturns, CheckMultiInfoReturns, DetachBegins, vars
<1> QED
  BY <1>1, <1>2, <1>3, <1>4, <1>5, <1>6, <1>7, <1>8, <1>9, <1>10
  DEF Next, NativeOn, PerformUndone, Poll, PollOn, Stopped, Elsewhere, OnPerformComplete,
      OnPerformCompleteSkipped, DetachEnds, ExitWithoutDetach

LEMMA NextNoForeignCompletion ==
  TypeOK /\ OrphansExact /\ NoForeignCompletion /\ [Next]_vars => NoForeignCompletion'
<1> SUFFICES ASSUME TypeOK, OrphansExact, NoForeignCompletion, [Next]_vars,
                    ctx' = "completing"
             PROVE  cur' \notin orphans'
  BY DEF NoForeignCompletion
<1> USE DEF plugins, task, frame
<1>1. ASSUME NEW h \in Handle PROVE ~PawnCallback(h)
  BY DEF PawnCallback
<1>2. ASSUME NEW h \in Handle, OnPerformComplete(h) PROVE cur' \notin orphans'
  BY <1>2 DEF OnPerformComplete, ReadsMessage, SkipsForward, AmxValid, OrphansExact, TypeOK
<1>3. CASE UNCHANGED <<ctx, cur>> /\ orphans' \subseteq orphans
  BY <1>3 DEF NoForeignCompletion
<1>4. ASSUME NEW h \in Handle, NativeOn(h) PROVE UNCHANGED <<ctx, cur>> /\ orphans' \subseteq orphans
  BY <1>4 DEF NativeOn, PerformUndone, CreateCurl, RemoveTask, RemoveTaskDeferred, CurlPerformTask,
              CurlPerformTaskThrows, CurlPerformTaskFails, CurlReset, Erases
<1>5. ASSUME NEW h \in Handle,
             TransferEnds(h) \/ PawnCallbackSkipped(h) \/ OnPerformCompleteSkipped(h)
      PROVE  UNCHANGED <<ctx, cur>> /\ orphans' \subseteq orphans
  BY <1>5 DEF TransferEnds, PawnCallbackSkipped, OnPerformCompleteSkipped, ReadsMessage
<1>6. CreateCurlFails \/ (\E a \in Amx : Load(a)) \/ UNCHANGED vars
      => UNCHANGED <<ctx, cur>> /\ orphans' \subseteq orphans
  BY DEF CreateCurlFails, Load, vars
<1>7. ~\E a \in Amx : Unload(a)
  BY DEF Unload
<1>8. ~DetachBegins /\ ~DetachEnds /\ ~ExitWithoutDetach
  BY DEF DetachBegins, DetachEnds, ExitWithoutDetach, RemoveAllTasks
<1>9. /\ ~PollBegins /\ ~HandlerRuns /\ ~CallbackReturns /\ ~SocketActionReturns
      /\ ~DrainPollEnds /\ ~ForwardReturns /\ ~CheckMultiInfoReturns /\ ~FrameEnds
  BY DEF PollBegins, HandlerRuns, CallbackReturns, SocketActionReturns, DrainPollEnds,
         ForwardReturns, CheckMultiInfoReturns, FrameEnds, Moves
<1> QED
  BY <1>1, <1>2, <1>3, <1>4, <1>5, <1>6, <1>7, <1>8, <1>9
  DEF Next, Poll, PollOn, Stopped

LEMMA OrphansStayExact == ASSUME "address_reuse" \notin Faults PROVE Spec => []OrphansExact
<1>1. Init => OrphansExact
  BY DEF Init, OrphansExact
<1> QED
  BY <1>1, NextOrphansExact, TypeCorrect, HandlesStayDistinct, PTL DEF Spec

\* Unless addresses are used again, a completion only ever reaches the plugin that made
\* the handle, even when Perform throws (OnPerformComplete).
THEOREM ForwardsReachTheirPlugin ==
  ASSUME "address_reuse" \notin Faults PROVE Spec => []NoForeignCompletion
<1>1. Init => NoForeignCompletion
  BY DEF Init, NoForeignCompletion
<1> QED
  BY <1>1, NextNoForeignCompletion, OrphansStayExact, TypeCorrect, PTL DEF Spec

-----------------------------------------------------------------------------
(* When no plugin is loaded at the address of an unloaded one, TransferManager *)
(* implements TransferContract                                                 *)

\* What the contract's variables stand for.
Holds == [h \in Handle |-> IF h \in Running THEN amx_callback_data_[h] ELSE NoBuf]
Telling == IF ctx = "completing" THEN {<<cur, cb_data>>} ELSE {}

\* What the proof of a step may rely on.
RInv == TypeOK /\ HeldIsInProgress /\ HandlesDistinct /\ DetachedIsIdle /\ OrphansExact

\* A task that says it is not in progress is neither in the multi nor in curl_map_.
LEMMA RunningIsInProgress ==
  ASSUME RInv
  PROVE  /\ Running \subseteq is_transfer_in_progress_
         /\ \A h \in Handle \ is_transfer_in_progress_ : h \notin attached \cup curl_map_
BY DEF RInv, HeldIsInProgress, Running

\* Tasks that do not run may be erased without the contract's data noticing.
LEMMA ErasingIsFreeing ==
  ASSUME RInv, NEW hs \in SUBSET amx_curl_, hs \cap is_transfer_in_progress_ = {},
         Erases(hs), UNCHANGED <<curl_map_, attached>>, Telling' = Telling
  PROVE  Contract!Free(hs)
<1>1. hs \cap Running = {} /\ Running' = Running
  BY RunningIsInProgress DEF Running
<1>2. Holds' = Holds
  BY <1>1 DEF Holds, Erases, RInv, TypeOK
<1>3. amx_curl_' = amx_curl_ \ hs /\ orphans' = orphans \ hs
  BY DEF Erases
<1> QED
  BY <1>1, <1>2, <1>3 DEF Contract!Free, Holds, Telling

\* Each step maps to a step of the contract or changes nothing in it.
LEMMA NextImplements == RInv /\ [Next]_vars => [Contract!Next]_(Contract!vars)
<1> SUFFICES ASSUME RInv, [Next]_vars
             PROVE  Contract!Next \/ UNCHANGED Contract!vars
  OBVIOUS
<1> USE DEF table, task, multi, plugins, frame
<1>f. TypeOK /\ Running \subseteq is_transfer_in_progress_
  BY RunningIsInProgress DEF RInv
<1>1. ASSUME NEW h \in Handle, NEW a \in Amx, CreateCurl(a, h) PROVE Contract!Next
  <2>1. h \notin amx_curl_
    BY <1>1, NewNumberIsFresh DEF CreateCurl, RInv
  <2>2. Running' = Running /\ Holds' = Holds /\ Telling' = Telling
    BY <1>1 DEF CreateCurl, Running, Holds, Telling
  <2>3. Contract!Create(h)
    BY <1>1, <2>1, <2>2 DEF CreateCurl, Contract!Create, Holds, Telling
  <2> QED
    BY <2>3 DEF Contract!Next
<1>2. ASSUME NEW h \in Handle, NEW b \in Buf \cup {NoBuf}, CurlPerformTask(h, b)
      PROVE  Contract!Next
  <2>1. h \in amx_curl_ \ (Running \cup orphans) /\ Running' = Running \cup {h}
    BY <1>2, <1>f, RunningIsInProgress DEF CurlPerformTask, Uses, Refuses, Running
  <2>2. Holds' = [Holds EXCEPT ![h] = b]
    BY <1>2, <1>f, <2>1 DEF CurlPerformTask, Holds, TypeOK
  <2>3. Telling' = Telling /\ amx_curl_' = amx_curl_ /\ orphans' = orphans
    BY <1>2 DEF CurlPerformTask, Telling
  <2>4. Contract!Start(h, b)
    BY <2>1, <2>2, <2>3 DEF Contract!Start, Holds, Telling
  <2> QED
    BY <2>4 DEF Contract!Next
<1>3. ASSUME NEW h \in Handle, ReadsMessage(h), Telling = {}
      PROVE  /\ h \in Running /\ Running' = Running \ {h}
             /\ Holds' = [Holds EXCEPT ![h] = NoBuf]
             /\ amx_curl_' = amx_curl_ /\ orphans' = orphans
  <2>1. h \in Running /\ Running' = Running \ {h}
    BY <1>3, <1>f DEF ReadsMessage, Running, TypeOK
  <2>2. Holds' = [Holds EXCEPT ![h] = NoBuf]
    BY <1>3, <1>f, <2>1 DEF ReadsMessage, DataTaken, Holds, TypeOK
  <2> QED
    BY <1>3, <2>1, <2>2 DEF ReadsMessage
<1>4. ASSUME NEW h \in Handle, OnPerformComplete(h) PROVE Contract!Next
  <2>1. ReadsMessage(h) /\ Telling = {}
    BY <1>4 DEF OnPerformComplete, ReadsMessage, Telling
  <2>2. h \notin orphans
    BY <1>4, <1>f DEF OnPerformComplete, SkipsForward, AmxValid, RInv, OrphansExact, TypeOK
  <2>3. Telling' = {<<h, Holds[h]>>}
    BY <1>3, <1>4, <2>1 DEF OnPerformComplete, Telling, Holds
  <2>4. Contract!Tell(h)
    BY <1>3, <2>1, <2>2, <2>3 DEF Contract!Tell, Contract!Ends, Holds, Telling
  <2> QED
    BY <2>4 DEF Contract!Next
<1>5. ASSUME NEW h \in Handle, OnPerformCompleteSkipped(h) PROVE Contract!Next
  <2>1. ReadsMessage(h) /\ Telling = {} /\ Telling' = Telling /\ ctx = "checking"
    BY <1>5 DEF OnPerformCompleteSkipped, ReadsMessage, Telling
  <2>2. h \in amx_curl_
    BY <1>3, <1>f, <2>1 DEF TypeOK
  <2>3. h \in orphans
    BY <1>5, <2>1, <2>2 DEF OnPerformCompleteSkipped, SkipsForward, AmxValid, RInv,
       DetachedIsIdle, OrphansExact
  <2>4. Contract!EndInSilence(h)
    BY <1>3, <2>1, <2>3 DEF Contract!EndInSilence, Contract!Ends, Holds, Telling
  <2> QED
    BY <2>4 DEF Contract!Next
<1>6. ASSUME NEW h \in Handle, RemoveTask(h) PROVE Contract!Next
  <2>1. /\ {h} \in SUBSET amx_curl_ /\ {h} \cap is_transfer_in_progress_ = {}
        /\ Erases({h}) /\ UNCHANGED <<curl_map_, attached>> /\ Telling' = Telling
    BY <1>6 DEF RemoveTask, Uses, Defers, Telling
  <2> QED
    BY <2>1, ErasingIsFreeing DEF Contract!Next
<1>7. CASE FrameEnds
  <2>1. /\ Swept \in SUBSET amx_curl_ /\ Swept \cap is_transfer_in_progress_ = {}
        /\ Erases(Swept) /\ UNCHANGED <<curl_map_, attached>> /\ Telling' = Telling
    BY <1>7, <1>f DEF FrameEnds, Swept, Telling, TypeOK
  <2> QED
    BY <2>1, ErasingIsFreeing DEF Contract!Next
<1>8. ASSUME NEW a \in Amx, Unload(a) PROVE Contract!Next
  <2> DEFINE hs == {h \in amx_curl_ : amx_[h] = a}
  <2>1. /\ Running' = Running /\ Holds' = Holds /\ Telling = {} /\ Telling' = {}
        /\ amx_curl_' = amx_curl_ /\ orphans' = orphans \cup hs
    BY <1>8 DEF Unload, Running, Holds, Telling
  <2>2. Contract!Orphan(hs)
    BY <2>1 DEF Contract!Orphan, Holds, Telling
  <2> QED
    BY <2>2 DEF Contract!Next
<1>9. CASE ForwardReturns
  <2>1. /\ Running' = Running /\ Holds' = Holds /\ Telling # {} /\ Telling' = {}
        /\ amx_curl_' = amx_curl_ /\ orphans' = orphans
    BY <1>9 DEF ForwardReturns, Running, Holds, Telling
  <2> QED
    BY <2>1 DEF Contract!Told, Contract!Next, Holds, Telling
<1>10. CASE ctx = "idle" /\ RemoveAllTasks
  <2>1. Running' = {}
    BY <1>10 DEF RemoveAllTasks, RemovedFromMulti, Running, RInv, HeldIsInProgress
  <2>2. Holds' = [h \in Handle |-> NoBuf]
    BY <2>1 DEF Holds
  <2>3. amx_curl_' = {} /\ orphans' = {} /\ Telling = {} /\ Telling' = {}
    BY <1>10, <1>f DEF RemoveAllTasks, Erases, Telling, TypeOK
  <2> QED
    BY <2>1, <2>2, <2>3 DEF Contract!End, Contract!Next, Holds, Telling
<1>11. ASSUME NEW h \in Handle,
              \/ CurlPerformTaskFails(h)
              \/ \E b \in Buf \cup {NoBuf} : CurlPerformTaskThrows(h, b)
       PROVE  UNCHANGED Contract!vars
  <2>1. h \notin Running /\ h \notin curl_map_
    BY <1>11, RunningIsInProgress
    DEF CurlPerformTaskFails, CurlPerformTaskThrows, Refuses, Running
  <2>2. UNCHANGED <<curl_map_, amx_curl_, orphans, attached, ctx, cur, cb_data>>
    BY <1>11, <2>1 DEF CurlPerformTaskFails, CurlPerformTaskThrows
  <2>3. PICK b : amx_callback_data_' = [amx_callback_data_ EXCEPT ![h] = b]
    BY <1>11 DEF CurlPerformTaskFails, CurlPerformTaskThrows
  <2>4. \A k \in Handle \ {h} : amx_callback_data_'[k] = amx_callback_data_[k]
    BY <1>f, <2>3 DEF TypeOK
  <2>5. Running' = Running /\ Telling' = Telling
    BY <2>2 DEF Running, Telling
  <2>6. Holds' = Holds
    BY <2>1, <2>4, <2>5 DEF Holds
  <2> QED
    BY <2>2, <2>5, <2>6 DEF Contract!vars, Holds, Telling
<1>12. ASSUME Elsewhere PROVE UNCHANGED Contract!vars
  <2>1. Running' = Running /\ Holds' = Holds /\ Telling' = Telling
    BY <1>12, ElsewhereFrame DEF Running, Holds, Telling
  <2> QED
    BY <1>12, <2>1, ElsewhereFrame DEF Contract!vars, Holds, Telling
<1>13. ASSUME \/ \E h \in Handle : \/ RemoveTaskDeferred(h) \/ CurlReset(h)
                                   \/ TransferEnds(h) \/ PawnCallbackSkipped(h)
              \/ CreateCurlFails \/ CheckMultiInfoReturns \/ DetachBegins
              \/ \E a \in Amx : Load(a)
              \/ UNCHANGED vars
       PROVE  UNCHANGED Contract!vars
  <2>1. /\ UNCHANGED <<amx_curl_, orphans, curl_map_, attached, cur, cb_data, amx_callback_data_>>
        /\ ctx = "completing" <=> ctx' = "completing"
    BY <1>13 DEF RemoveTaskDeferred, CurlReset, TransferEnds, PawnCallbackSkipped,
       CreateCurlFails, CheckMultiInfoReturns, DetachBegins, Load, vars
  <2>2. Running' = Running /\ Holds' = Holds /\ Telling' = Telling
    BY <2>1 DEF Running, Holds, Telling
  <2> QED
    BY <2>1, <2>2 DEF Contract!vars, Holds, Telling
<1> QED
  BY <1>1, <1>2, <1>4, <1>5, <1>6, <1>7, <1>8, <1>9, <1>10, <1>11, <1>12, <1>13
  DEF Next, NativeOn, PerformUndone, Poll, PollOn, Stopped, Elsewhere, DetachEnds, ExitWithoutDetach

\* Unless addresses are used again, the manager, the multi and the callbacks implement
\* the transfer contract: each perform that started is answered once, with the array it
\* was given, even if other performs throw.  (That the array is still allocated then is
\* DataOwnedOnce, which does need that no Perform throws.)
THEOREM TransfersImplemented ==
  ASSUME "address_reuse" \notin Faults PROVE Spec => ImplementsTransfers
<1>1. Init => Contract!Init
  BY DEF Init, Contract!Init, Running
<1>2. Spec => []OrphansExact
  BY OrphansStayExact
<1>3. TypeOK /\ HeldIsInProgress /\ HandlesDistinct /\ DetachedIsIdle /\ OrphansExact
      /\ [Next]_vars
      => [Contract!Next]_(Contract!vars)
  BY NextImplements DEF RInv
<1> QED
  BY <1>1, <1>2, <1>3, LeaksAndTeardown, HandlesStayDistinct, PTL
  DEF Spec, ImplementsTransfers, Contract!Spec

=============================================================================
