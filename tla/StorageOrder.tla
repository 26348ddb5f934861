---------------------------- MODULE StorageOrder ----------------------------
(***************************************************************************)
(* What the commands promise of a name's storage: every volume is made     *)
(* once and only before the machine is defined, a machine is defined once  *)
(* and only with all its volumes, and a volume is deleted only after the   *)
(* definition has gone for good.  Nothing of a destroyed runner comes back.*)
(* A failed call may discard a volume that was just made, or leave a       *)
(* definition in place whose volumes are deleted; a name that is given up, *)
(* by an error or a kill signal, is never taken up again.                  *)
(***************************************************************************)
CONSTANTS
    Runners,    \* names of runners
    Others,     \* names of machines that were there before
    Kinds,      \* kinds of volumes a runner has
    MayFail,    \* TRUE: calls may fail
    MayDie      \* TRUE: commands may be killed

VARIABLES
    machine,    \* a name's machine: none yet, defined, or gone
    storage     \* the volumes a name has

Init ==
    /\ machine = [n \in Runners \cup Others |->
                     IF n \in Runners THEN "none" ELSE "defined"]
    /\ storage = [n \in Runners \cup Others |->
                     IF n \in Runners THEN {} ELSE {"disk"}]

Make(n, k) ==
    /\ machine[n] = "none" /\ k \notin storage[n]
    /\ storage' = [storage EXCEPT ![n] = @ \cup {k}]
    /\ UNCHANGED machine

\* A volume that could not be filled is deleted by its maker, which gives up.
Discard(n, k) ==
    /\ MayFail
    /\ machine[n] = "none" /\ k \in storage[n]
    /\ machine' = [machine EXCEPT ![n] = "gone"]
    /\ storage' = [storage EXCEPT ![n] = @ \ {k}]

Abandon(n) ==
    /\ MayFail \/ MayDie
    /\ machine[n] = "none"
    /\ machine' = [machine EXCEPT ![n] = "gone"]
    /\ UNCHANGED storage

Define(n) ==
    /\ machine[n] = "none" /\ storage[n] = Kinds
    /\ machine' = [machine EXCEPT ![n] = "defined"]
    /\ UNCHANGED storage

Undefine(n) ==
    /\ machine[n] = "defined"
    /\ machine' = [machine EXCEPT ![n] = "gone"]
    /\ UNCHANGED storage

Delete(n, k) ==
    /\ machine[n] = "gone" \/ (MayFail /\ machine[n] = "defined")
    /\ k \in storage[n]
    /\ storage' = [storage EXCEPT ![n] = @ \ {k}]
    /\ UNCHANGED machine

Next == \E n \in Runners \cup Others :
            \/ Define(n) \/ Undefine(n) \/ Abandon(n)
            \/ \E k \in Kinds : Make(n, k) \/ Discard(n, k) \/ Delete(n, k)

Spec == Init /\ [][Next]_<<machine, storage>>
=============================================================================
