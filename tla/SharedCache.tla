----------------------------- MODULE SharedCache -----------------------------
(***************************************************************************)
(* What the creates of a host promise each other about the image and the   *)
(* runner tools in the "images" pool: a volume that one of them has let go *)
(* of is there to stay, as it is, until a newer release takes its place,   *)
(* and it is whole unless a call failed, a download was bad or a create    *)
(* was killed.  A volume that is being filled does not count.              *)
(***************************************************************************)
CONSTANTS
    Volumes,    \* what creates share
    Renewed     \* TRUE: the volumes of the newest releases are meant

VARIABLES
    volume,     \* "none", "good" or "damaged"
    troubled    \* something went wrong by itself

Init ==
    /\ volume \in [Volumes -> {"none", "good"}]
    /\ troubled \in BOOLEAN

Keep(v, content) ==
    /\ volume[v] = "none"
    /\ content = "good" \/ (content = "damaged" /\ troubled')
    /\ volume' = [volume EXCEPT ![v] = content]

Outdate(v) == Renewed /\ volume' = [volume EXCEPT ![v] = "none"]

Next ==
    /\ troubled' \in BOOLEAN
    /\ \/ UNCHANGED volume
       \/ \E v \in Volumes :
             \/ \E content \in {"good", "damaged"} : Keep(v, content)
             \/ Outdate(v)

Spec == Init /\ [][Next]_<<volume, troubled>>
===============================================================================
