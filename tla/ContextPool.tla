---------------------------- MODULE ContextPool ----------------------------
(***************************************************************************)
(* What kenneld's kennel registry promises to everything that is keyed by  *)
(* a context number (cgroup directory, loopback subnet, mesh identity): a  *)
(* name holds at most one context, a context has at most one holder, and a *)
(* context changes hands only by being given back first.                   *)
(***************************************************************************)
EXTENDS Naturals

CONSTANTS
    KennelNames,    \* the names a kennel can be registered under
    Ctxs            \* the allocatable contexts (0, the unconfined one, is not)

VARIABLE held       \* held[n]: the context name n holds, 0 when it holds none

PoolInit == held = [n \in KennelNames |-> 0]

\* A name that holds nothing is given some context nobody holds.
Admit(n) ==
    /\ held[n] = 0
    /\ \E c \in Ctxs :
        /\ \A m \in KennelNames : held[m] # c
        /\ held' = [held EXCEPT ![n] = c]

\* A holder gives its context back.
Retire(n) ==
    /\ held[n] # 0
    /\ held' = [held EXCEPT ![n] = 0]

PoolNext == \E n \in KennelNames : Admit(n) \/ Retire(n)

PoolSpec == PoolInit /\ [][PoolNext]_held
=============================================================================
