-------------------------- MODULE TransferContract --------------------------
(***************************************************************************)
(* What the module promises a plugin about its transfers, with no multi    *)
(* handle, flag or queue in it.  Every perform that started is answered    *)
(* once, with the data it was given; a transfer whose plugin was unloaded  *)
(* ends in silence; no handle is freed while its transfer runs.            *)
(***************************************************************************)
CONSTANTS Handle, Buf, NoBuf

VARIABLES
  live,       (* the handles that exist                                       *)
  running,    (* those with a transfer that has started and not ended         *)
  holds,      (* the data each running transfer was started with              *)
  orphaned,   (* the live handles whose plugin is gone                        *)
  telling     (* the <<handle, data>> of the completion that runs, at most one*)

vars == <<live, running, holds, orphaned, telling>>

Init ==
  /\ live = {} /\ running = {} /\ orphaned = {} /\ telling = {}
  /\ holds = [h \in Handle |-> NoBuf]

Create(h) ==
  /\ h \notin live
  /\ live' = live \cup {h}
  /\ UNCHANGED <<running, holds, orphaned, telling>>

Start(h, b) ==
  /\ h \in live \ (running \cup orphaned)
  /\ running' = running \cup {h}
  /\ holds' = [holds EXCEPT ![h] = b]
  /\ UNCHANGED <<live, orphaned, telling>>

Ends(h) ==
  /\ telling = {}
  /\ h \in running
  /\ running' = running \ {h}
  /\ holds' = [holds EXCEPT ![h] = NoBuf]
  /\ UNCHANGED <<live, orphaned>>

Tell(h) == h \notin orphaned /\ Ends(h) /\ telling' = {<<h, holds[h]>>}

EndInSilence(h) == h \in orphaned /\ Ends(h) /\ UNCHANGED telling

Told == telling # {} /\ telling' = {} /\ UNCHANGED <<live, running, holds, orphaned>>

Free(hs) ==
  /\ hs \cap running = {}
  /\ live' = live \ hs
  /\ orphaned' = orphaned \ hs
  /\ UNCHANGED <<running, holds, telling>>

Orphan(hs) ==
  /\ telling = {}
  /\ orphaned' = orphaned \cup hs
  /\ UNCHANGED <<live, running, holds, telling>>

End ==
  /\ telling = {}
  /\ live' = {} /\ running' = {} /\ orphaned' = {}
  /\ holds' = [h \in Handle |-> NoBuf]
  /\ UNCHANGED telling

Next ==
  \/ \E h \in Handle :
       \/ Create(h) \/ Tell(h) \/ EndInSilence(h)
       \/ \E b \in Buf \cup {NoBuf} : Start(h, b)
  \/ \E hs \in SUBSET live : Free(hs) \/ Orphan(hs)
  \/ Told \/ End

Spec == Init /\ [][Next]_vars
=============================================================================
