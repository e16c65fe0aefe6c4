---------------------------- MODULE AtLeastOnce ----------------------------
(***************************************************************************)
(* What the billing path of a node promises, whatever its tasks, files and *)
(* requests do: traffic is accounted once, it is held until the panel has  *)
(* counted it, and once saved it cannot be lost.                           *)
(***************************************************************************)
CONSTANT Traffic

VARIABLES
    accounted,  \* traffic the node has seen
    held,       \* traffic the node could still report
    saved,      \* traffic a completed save has covered
    counted,    \* traffic the panel has counted at least once
    epoch       \* changes when a process ends or something fails

vars == <<accounted, held, saved, counted, epoch>>

Init ==
    /\ accounted = {}
    /\ held = {}
    /\ saved = {}
    /\ counted = {}

\* New traffic is accounted and held.
Account ==
    \E t \in Traffic \ accounted :
        /\ accounted' = accounted \cup {t}
        /\ held' = held \cup {t}
        /\ UNCHANGED <<saved, counted, epoch>>

\* A save completes: it covers only traffic in hand.
Save ==
    /\ saved \subseteq saved'
    /\ saved' \ saved \subseteq held
    /\ UNCHANGED <<accounted, held, counted, epoch>>

\* The panel counts traffic the node has accounted.
Count ==
    /\ counted \subseteq counted'
    /\ counted' \subseteq accounted
    /\ UNCHANGED <<accounted, held, saved, epoch>>

\* Acknowledged traffic is let go, or found again in an old file.
Settle ==
    /\ held \ counted \subseteq held'
    /\ held' \ held \subseteq counted
    /\ UNCHANGED <<accounted, saved, counted>>

\* The end of a process or a power loss: what no save covered may go.
Outage ==
    /\ epoch' # epoch
    /\ saved \ counted \subseteq held'
    /\ held' \subseteq accounted
    /\ UNCHANGED <<accounted, saved, counted>>

Next == Account \/ Save \/ Count \/ Settle \/ Outage

Spec == Init /\ [][Next]_vars
=============================================================================
