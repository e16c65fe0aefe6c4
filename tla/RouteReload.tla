---------------------------- MODULE RouteReload ----------------------------
(***************************************************************************)
(* Reloading of a node's routes (src/proxy/node.rs).  Three tasks install  *)
(* a RoutesConfig in the node's router: run_inbound after a panel update   *)
(* ("apply"), the watcher of the local file ("watch") and, when routes_url *)
(* is set, the download ("sync").  Each one loads the file or the          *)
(* download, merges the panel's routes into it under the node_info lock    *)
(* and stores the result in the router after that lock is released.        *)
(*                                                                         *)
(* A text is its version number; a version of the file is also its         *)
(* modification time.                                                      *)
(***************************************************************************)
EXTENDS Naturals

CONSTANTS
    MaxEdits,   \* bound on edits of the file, and of the remote text
    MaxUpdates, \* bound on panel updates that change the node
    MaxFaults   \* bound on failed downloads and failed reads of the file

Task == {"apply", "watch", "sync"}
Unseen == MaxEdits + 1

VARIABLES
    useUrl,     \* routes_url is set
    file,       \* version of routes_file
    remote,     \* version behind routes_url
    info,       \* version of node_info
    router,     \* what the router holds: [panel, from, text]
    pc,         \* of each task: "idle", "load", "merge", "store"
    cfg,        \* the RoutesConfig a task is working on
    last,       \* last_routes_mtime
    faults,
    overlap,    \* history: two reloads have been under way at once
    first       \* history: the time the watcher's first tick noted

vars == <<useUrl, file, remote, info, router, pc, cfg, last, faults, overlap, first>>

Text(from, text) == [panel |-> 0, from |-> from, text |-> text]

\* A download or a read fails.
Fault == faults < MaxFaults /\ faults' = faults + 1

Quiet == \A r \in Task : pc[r] = "idle"

\* A task starts to work on a text.
Begin(r, step) ==
    /\ pc[r] = "idle"
    /\ pc' = [pc EXCEPT ![r] = step]
    /\ overlap' = (overlap \/ ~Quiet)

Init ==
    /\ useUrl \in BOOLEAN
    /\ file = 0 /\ remote = 0 /\ info = 0
    /\ router = Text("file", 0)
    /\ pc = [r \in Task |-> "idle"]
    /\ cfg = [r \in Task |-> Text("file", 0)]
    /\ last = Unseen
    /\ faults = 0
    /\ overlap = FALSE
    /\ first = Unseen

-----------------------------------------------------------------------------
EditFile ==
    /\ file < MaxEdits
    /\ file' = file + 1
    /\ UNCHANGED <<useUrl, remote, info, router, pc, cfg, last, faults, overlap, first>>

EditRemote ==
    /\ useUrl
    /\ remote < MaxEdits
    /\ remote' = remote + 1
    /\ UNCHANGED <<useUrl, file, info, router, pc, cfg, last, faults, overlap, first>>

\* apply_node_routes: the node's description is replaced, then the local file
\* is read, also when routes_url is set.
ApplyNodeRoutes ==
    /\ info < MaxUpdates
    /\ Begin("apply", "load")
    /\ info' = info + 1
    /\ UNCHANGED <<useUrl, file, remote, router, cfg, last, faults, first>>

\* Variant with a defect: the time is noted before it is compared.
LocalWatchNotesFirst ==
    /\ ~useUrl
    /\ last' = file
    /\ IF last' # Unseen /\ file > last'
       THEN Begin("watch", "load")
       ELSE pc["watch"] = "idle" /\ UNCHANGED <<pc, overlap>>
    /\ first' = IF last = Unseen THEN file ELSE first
    /\ UNCHANGED <<useUrl, file, remote, info, router, cfg, faults>>

\* The watcher compares modification times; the first tick only notes it.
LocalWatch ==
    /\ ~useUrl
    /\ IF last # Unseen /\ file > last
       THEN Begin("watch", "load")
       ELSE pc["watch"] = "idle" /\ UNCHANGED <<pc, overlap>>
    /\ last' = file
    /\ first' = IF last = Unseen THEN file ELSE first
    /\ UNCHANGED <<useUrl, file, remote, info, router, cfg, faults>>

\* The download answers; or it fails, or is refused, and the local file is used
\* instead; or the body of a successful answer breaks off and nothing is done.
RulesSync ==
    /\ useUrl
    /\ \/ /\ Begin("sync", "merge")
          /\ cfg' = [cfg EXCEPT !["sync"] = Text("url", remote)]
          /\ UNCHANGED faults
       \/ /\ Fault
          /\ Begin("sync", "load")
          /\ UNCHANGED cfg
       \/ /\ Fault
          /\ pc["sync"] = "idle"
          /\ UNCHANGED <<pc, cfg, overlap>>
    /\ UNCHANGED <<useUrl, file, remote, info, router, last, first>>

\* A file that cannot be read counts as the default configuration.
LoadFromFile(r) ==
    /\ pc[r] = "load"
    /\ pc' = [pc EXCEPT ![r] = "merge"]
    /\ \/ cfg' = [cfg EXCEPT ![r] = Text("file", file)] /\ UNCHANGED faults
       \/ cfg' = [cfg EXCEPT ![r] = Text("default", 0)] /\ Fault
    /\ UNCHANGED <<useUrl, file, remote, info, router, last, overlap, first>>

\* reload_routes, with the node_info lock held.
ImportPanelRoutes(r) ==
    /\ pc[r] = "merge"
    /\ pc' = [pc EXCEPT ![r] = "store"]
    /\ cfg' = [cfg EXCEPT ![r].panel = info]
    /\ UNCHANGED <<useUrl, file, remote, info, router, last, faults, overlap, first>>

\* Router::reload, after the lock is released.
Store(r) ==
    /\ pc[r] = "store"
    /\ pc' = [pc EXCEPT ![r] = "idle"]
    /\ router' = cfg[r]
    /\ cfg' = [cfg EXCEPT ![r] = Text("file", 0)]
    /\ UNCHANGED <<useUrl, file, remote, info, last, faults, overlap, first>>

Step(r) == LoadFromFile(r) \/ ImportPanelRoutes(r) \/ Store(r)

Next ==
    \/ EditFile \/ EditRemote
    \/ ApplyNodeRoutes \/ LocalWatch \/ RulesSync
    \/ \E r \in Task : Step(r)

Spec == Init /\ [][Next]_vars

(* Fairness: the intervals of the watcher and of the download come round,  *)
(* and a task that has begun a reload, which has no await in it, ends it.  *)

-----------------------------------------------------------------------------
\* The type invariant of the route reloading.
TypeOK ==
    LET Loaded == [panel : 0..MaxUpdates, from : {"file", "url", "default"}, text : 0..MaxEdits]
    IN /\ useUrl \in BOOLEAN
       /\ file \in 0..MaxEdits /\ remote \in 0..MaxEdits
       /\ info \in 0..MaxUpdates
       /\ router \in Loaded
       /\ pc \in [Task -> {"idle", "load", "merge", "store"}]
       /\ cfg \in [Task -> Loaded]
       /\ last \in 0..MaxEdits \cup {Unseen}
       /\ faults \in 0..MaxFaults
       /\ overlap \in BOOLEAN
       /\ first \in 0..MaxEdits \cup {Unseen}

\* Reloads that follow one another leave the newest panel routes in force,
\* whichever task ran last and wherever its text came from.
PanelRoutesInForce ==
    Quiet /\ ~overlap => router.panel = info

\* The same without the proviso: whenever no reload is under way, the panel's
\* current routes are in force.
PanelRoutesAlwaysInForce ==
    Quiet => router.panel = info

\* With routes_url the router holds the remote text and the panel's routes.
RemoteCurrent ==
    useUrl => router = [panel |-> info, from |-> "url", text |-> remote]

\* Without it the router holds the local file, unless the file was last
\* written before the watcher's first look, could not be read or reloads ran
\* at once.
LocalCurrent ==
    ~useUrl => \/ router.text = file
               \/ first = file \/ router.from = "default" \/ overlap
=============================================================================
