----------------------------- MODULE CachePromise -----------------------------
(***************************************************************************)
(* What the compilation cache promises to the user of `make <package>`:    *)
(* whether an image comes from the compiler, from the cache or from the    *)
(* mirror, a build that succeeds leaves a complete image of the sources    *)
(* as they are.                                                            *)
(***************************************************************************)
CONSTANTS Workspaces, Versions, Absent

VARIABLES
  src,     \* the current sources
  status,  \* "busy": a build runs, "ok": the last one succeeded, "rest": else
  img      \* the image that a successful build has delivered

vars == <<src, status, img>>

Init ==
  /\ src \in Versions
  /\ status = [w \in Workspaces |-> "rest"]
  /\ img    = [w \in Workspaces |-> Absent]

Edit(v) ==
  /\ \A w \in Workspaces : status[w] # "busy"
  /\ src' = v
  /\ UNCHANGED <<status, img>>

Become(w, st, i) ==
  /\ status' = [status EXCEPT ![w] = st]
  /\ img'    = [img EXCEPT ![w] = i]
  /\ UNCHANGED src

Begin(w)   == status[w] # "busy" /\ Become(w, "busy", Absent)
Deliver(w) == status[w] = "busy" /\ Become(w, "ok", [ver |-> src, state |-> "whole"])
GiveUp(w)  == status[w] = "busy" /\ Become(w, "rest", Absent)
Discard(w) == status[w] = "ok"   /\ Become(w, "rest", Absent)

Next ==
  \/ \E v \in Versions : Edit(v)
  \/ \E w \in Workspaces : Begin(w) \/ Deliver(w) \/ GiveUp(w) \/ Discard(w)

SafeSpec == Init /\ [][Next]_vars

\* A build that was begun comes to an end.
Spec ==
  /\ SafeSpec
  /\ \A w \in Workspaces : WF_vars(Deliver(w) \/ GiveUp(w))
=============================================================================
