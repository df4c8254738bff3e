-------------------------- MODULE CallbackContract --------------------------
(***************************************************************************)
(* What the module promises a plugin about its data callbacks, with no     *)
(* forward number in it: each callback option of a handle has the function *)
(* the plugin set last, or none, and libcurl's questions go to it.         *)
(***************************************************************************)
CONSTANTS Handle, Option, Fun, NoFun

VARIABLES
  handler,  (* the function of each option of each handle                     *)
  asking    (* the <<handle, option>> whose function runs, at most one        *)

vars == <<handler, asking>>

Init ==
  /\ handler = [h \in Handle |-> [o \in Option |-> NoFun]]
  /\ asking = {}

\* The plugin sets a function, or one it does not have; no other changes.
Set(h, o, fun) ==
  /\ handler' = [handler EXCEPT ![h][o] = fun]
  /\ UNCHANGED asking

\* Handles are reset or cleaned up, or their plugin is gone.
Forget(hs) ==
  /\ handler' = [h \in Handle |-> IF h \in hs THEN [o \in Option |-> NoFun] ELSE handler[h]]
  /\ UNCHANGED asking

Ask(h, o) ==
  /\ asking = {} /\ handler[h][o] # NoFun
  /\ asking' = {<<h, o>>}
  /\ UNCHANGED handler

Answer == asking # {} /\ asking' = {} /\ UNCHANGED handler

Next ==
  \/ \E h \in Handle, o \in Option : Ask(h, o) \/ \E fun \in Fun \cup {NoFun} : Set(h, o, fun)
  \/ \E hs \in SUBSET Handle : Forget(hs)
  \/ Answer

Spec == Init /\ [][Next]_vars
=============================================================================
