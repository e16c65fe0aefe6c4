---------------------------- MODULE NodeInbound ----------------------------
(***************************************************************************)
(* NodeRunner::run_inbound of src/proxy/node.rs: the task that keeps one   *)
(* inbound of a node running and follows the panel's configuration.  An    *)
(* instance is one run of Inbound::start; its port is bound from the bind  *)
(* until the listener is dropped.                                          *)
(*                                                                         *)
(* A configuration is a record: addr is the listening address, ok says     *)
(* whether an inbound can start with it, valid whether prepare_node_info   *)
(* and inbound_context accept it, keeps whether the inbound holds its port *)
(* until it has drained (QUIC endpoints do, TCP listeners do not).         *)
(***************************************************************************)
EXTENDS Naturals, FiniteSets

CONSTANTS
    Config,
    FirstConfig, \* what the panel describes when the node starts
    Inst,        \* slots for instances; an ended one is used again
    MaxChanges,  \* bound on changes of the panel's configuration
    MaxUserLists,\* bound on changes of the panel's user list
    MaxFaults    \* bound on failed calls, failed starts and crashes of inbounds

None == 0

ASSUME NodeAssumption ==
    /\ FirstConfig \in Config
    /\ \A c \in Config : {c.ok, c.valid, c.keeps} \subseteq BOOLEAN
    /\ Inst \subseteq Nat \ {None}
    /\ {MaxChanges, MaxUserLists, MaxFaults} \subseteq Nat

VARIABLES
    panel,      \* the panel's configuration of the node
    panelUsers, \* version of the panel's user list
    changes, faults,
    pc,         \* where run_inbound is
    why,        \* what the current launch is for
    info,       \* configuration in use
    next,       \* configuration being switched to
    users,      \* version of the user list last synced
    active,     \* instance in use
    cand,       \* instance being launched
    retired,    \* replaced instances whose stop is awaited
    routes,     \* configuration whose routes are in the router
    st,         \* of each instance: "free", "starting", "ready", "stopping"
    cfg,        \* its configuration
    list,       \* the user list it has
    bound,      \* it holds its port
    stop,       \* it was sent the stop signal
    aborted,    \* its task was aborted
    down,       \* history: the previous listener could not be restored
    shutdown,   \* the shutdown signal was sent
    deaf        \* it was sent before the task subscribed to it

panelVars == <<panel, panelUsers, changes>>
runVars == <<pc, why, info, next, users, active, cand, retired, routes, down, deaf>>
instVars == <<st, cfg, list, bound, stop, aborted>>
vars == <<panelVars, faults, runVars, instVars, shutdown>>

Ended(i) == st[i] = "free"
Taken(a) == \E j \in Inst : bound[j] /\ cfg[j].addr = a
Free == {i \in Inst : Ended(i) /\ i \notin retired \cup {active, cand}}
SameAddress == next.addr = info.addr

Init ==
    /\ panel = FirstConfig /\ panelUsers = 0
    /\ changes = 0 /\ faults = 0
    /\ pc = "boot" /\ why = "start"
    /\ info = FirstConfig /\ next = FirstConfig /\ routes = FirstConfig
    /\ users = 0
    /\ active = None /\ cand = None /\ retired = {}
    /\ st = [i \in Inst |-> "free"]
    /\ cfg = [i \in Inst |-> FirstConfig]
    /\ list = [i \in Inst |-> 0]
    /\ bound = [i \in Inst |-> FALSE]
    /\ stop = [i \in Inst |-> FALSE]
    /\ aborted = [i \in Inst |-> FALSE]
    /\ down = FALSE
    /\ shutdown = FALSE /\ deaf = FALSE

Fault == faults < MaxFaults /\ faults' = faults + 1

-----------------------------------------------------------------------------
(* The surroundings. *)

ChangeConfig(c) ==
    /\ changes < MaxChanges
    /\ changes' = changes + 1
    /\ panel' = c
    /\ UNCHANGED <<panelUsers, faults, runVars, instVars, shutdown>>

ChangeUsers ==
    /\ changes < MaxChanges /\ panelUsers < MaxUserLists
    /\ changes' = changes + 1
    /\ panelUsers' = panelUsers + 1
    /\ UNCHANGED <<panel, faults, runVars, instVars, shutdown>>

Shutdown ==
    /\ ~shutdown
    /\ shutdown' = TRUE
    /\ UNCHANGED <<panelVars, faults, runVars, instVars>>

-----------------------------------------------------------------------------
(* An instance: Inbound::start. *)

Bind(i) ==
    /\ st[i] = "starting" /\ ~bound[i] /\ ~aborted[i]
    /\ cfg[i].ok /\ ~Taken(cfg[i].addr)
    /\ bound' = [bound EXCEPT ![i] = TRUE]
    /\ UNCHANGED <<panelVars, faults, runVars, st, cfg, list, stop, aborted, shutdown>>

MarkReady(i) ==
    /\ st[i] = "starting" /\ bound[i] /\ ~aborted[i]
    /\ st' = [st EXCEPT ![i] = "ready"]
    /\ UNCHANGED <<panelVars, faults, runVars, cfg, list, bound, stop, aborted, shutdown>>

\* A bad configuration or a taken port is an error, and anything may fail.
StartFails(i) ==
    /\ st[i] = "starting" /\ ~aborted[i]
    /\ IF ~bound[i] /\ (~cfg[i].ok \/ Taken(cfg[i].addr)) THEN UNCHANGED faults ELSE Fault
    /\ st' = [st EXCEPT ![i] = "free"]
    /\ bound' = [bound EXCEPT ![i] = FALSE]
    /\ UNCHANGED <<panelVars, runVars, cfg, list, stop, aborted, shutdown>>

Crashes(i) ==
    /\ st[i] = "ready" /\ ~aborted[i]
    /\ Fault
    /\ st' = [st EXCEPT ![i] = "free"]
    /\ bound' = [bound EXCEPT ![i] = FALSE]
    /\ UNCHANGED <<panelVars, runVars, cfg, list, stop, aborted, shutdown>>

\* The stop signal ends the accept loop; the listener is dropped, then the
\* connections are drained.
HearStop(i) ==
    /\ st[i] = "ready" /\ stop[i] /\ ~aborted[i]
    /\ st' = [st EXCEPT ![i] = "stopping"]
    /\ bound' = [bound EXCEPT ![i] = cfg[i].keeps]
    /\ UNCHANGED <<panelVars, faults, runVars, cfg, list, stop, aborted, shutdown>>

\* drain_connections has finished, or the abort has taken effect.
End(i) ==
    /\ st[i] = "stopping" \/ (aborted[i] /\ ~Ended(i))
    /\ st' = [st EXCEPT ![i] = "free"]
    /\ bound' = [bound EXCEPT ![i] = FALSE]
    /\ UNCHANGED <<panelVars, faults, runVars, cfg, list, stop, aborted, shutdown>>

-----------------------------------------------------------------------------
(* Launching and dropping an instance. *)

\* launch_inbound up to its select: the instance is spawned with the users.
Launch(c, w) ==
    \E i \in Free :
        /\ \A j \in Free : i <= j
        /\ cand' = i
        /\ why' = w
        /\ pc' = "launch"
        /\ st' = [st EXCEPT ![i] = "starting"]
        /\ cfg' = [cfg EXCEPT ![i] = c]
        /\ list' = [list EXCEPT ![i] = users]

\* Drop for ActiveInbound, for every instance of S.
Drop(S) ==
    /\ stop' = [i \in Inst |-> stop[i] \/ i \in S]
    /\ aborted' = [i \in Inst |-> aborted[i] \/ (i \in S /\ ~Ended(i))]

\* The slot of the new instance is fresh.
FreshSlot ==
    /\ stop' = [stop EXCEPT ![cand'] = FALSE]
    /\ aborted' = [aborted EXCEPT ![cand'] = FALSE]

RunInbound ==
    /\ pc = "boot"
    /\ deaf' = shutdown
    /\ Launch(info, "start")
    /\ FreshSlot
    /\ UNCHANGED <<panelVars, faults, info, next, users, active, retired, routes, bound, down, shutdown>>

\* Variant with a defect: an update leaves the routes as they are.
LaunchReadyOldRoutes ==
    /\ pc = "launch" /\ st[cand] = "ready"
    /\ pc' = "loop"
    /\ active' = cand /\ cand' = None
    /\ retired' = IF why = "update" THEN retired \cup {active} ELSE retired
    /\ info' = IF why = "update" THEN next ELSE info
    /\ UNCHANGED <<panelVars, faults, why, next, users, routes, down, deaf, st, cfg, list, bound, stop, aborted, shutdown>>

\* The candidate is ready: it becomes the active instance.  An update retires
\* the old one and applies the new routes; a restored listener replaces it.
LaunchReady ==
    /\ pc = "launch" /\ st[cand] = "ready"
    /\ pc' = "loop"
    /\ active' = cand /\ cand' = None
    /\ CASE why = "start" -> UNCHANGED <<info, routes, retired, stop, aborted, down>>
         [] why = "update" ->
              /\ retired' = retired \cup {active}
              /\ info' = next /\ routes' = next
              /\ down' = FALSE
              /\ UNCHANGED <<stop, aborted>>
         [] why = "restore" ->
              /\ Drop({active})
              /\ down' = FALSE
              /\ UNCHANGED <<info, routes, retired>>
    /\ UNCHANGED <<panelVars, faults, why, next, users, deaf, st, cfg, list, bound, shutdown>>

\* The launch fails: the task ended, or the candidate is dropped after 30 s.
\* A failed update of the same address relaunches the previous configuration.
LaunchFails ==
    /\ pc = "launch" /\ st[cand] \in {"free", "starting"}
    /\ IF Ended(cand) THEN UNCHANGED faults ELSE Fault
    /\ Drop({cand})
    /\ cand' = None
    /\ pc' = CASE why = "start" -> "dead"
               [] why = "update" -> IF SameAddress THEN "restore" ELSE "loop"
               [] why = "restore" -> "loop"
    /\ down' = (down \/ why = "restore")
    /\ UNCHANGED <<panelVars, why, info, next, users, active, retired, routes, deaf, st, cfg, list, bound, shutdown>>

Restore ==
    /\ pc = "restore"
    /\ Launch(info, "restore")
    /\ FreshSlot
    /\ UNCHANGED <<panelVars, faults, info, next, users, active, retired, routes, down, deaf, bound, shutdown>>

-----------------------------------------------------------------------------
(* The loop. *)

\* A tick: sync_users gives the active instance the panel's list, or fails.
SyncUsers ==
    /\ pc = "loop"
    /\ \/ /\ pc' = "alive"
          /\ list' = [list EXCEPT ![active] = panelUsers]
          /\ UNCHANGED faults
       \/ /\ pc' = "unsynced"
          /\ Fault
          /\ UNCHANGED list
    /\ UNCHANGED <<panelVars, why, info, next, users, active, cand, retired, routes, down, deaf, st, cfg, bound, stop, aborted, shutdown>>

\* get_user_alivelist has answered or failed; only now does sync_users return
\* a new list, for the launches to come.
SyncReturns ==
    /\ pc \in {"alive", "unsynced"}
    /\ pc' = "node"
    /\ users' = IF pc = "alive" THEN list[active] ELSE users
    /\ UNCHANGED <<panelVars, faults, why, info, next, active, cand, retired, routes, down, deaf, instVars, shutdown>>

\* Variant with a defect: an active task that has ended is not noticed.
NothingToDoUnlessChanged == ~panel.valid \/ panel = info

NothingToDo == ~panel.valid \/ (panel = info /\ ~Ended(active))

\* get_node_info and the decision what to do with the answer.
KeepConfig ==
    /\ pc = "node"
    /\ IF NothingToDo THEN UNCHANGED faults ELSE Fault
    /\ pc' = "loop"
    /\ UNCHANGED <<panelVars, why, info, next, users, active, cand, retired, routes, down, deaf, instVars, shutdown>>

\* A new configuration at the same address stops the active instance first.
BeginUpdate ==
    /\ pc = "node" /\ ~NothingToDo
    /\ next' = panel
    /\ IF panel.addr = info.addr
       THEN /\ pc' = "stop"
            /\ stop' = [stop EXCEPT ![active] = TRUE]
       ELSE /\ pc' = "replace"
            /\ UNCHANGED stop
    /\ UNCHANGED <<panelVars, faults, why, info, users, active, cand, retired, routes, down, deaf, st, cfg, list, bound, aborted, shutdown>>

\* ActiveInbound::stop gives up after 32 s and aborts the task; so does the
\* task that stops a retired instance.
StopTimeout(i) ==
    /\ \/ i = active /\ pc \in {"stop", "final"}
       \/ i \in retired /\ stop[i]
    /\ ~Ended(i) /\ ~aborted[i]
    /\ Fault
    /\ aborted' = [aborted EXCEPT ![i] = TRUE]
    /\ UNCHANGED <<panelVars, runVars, st, cfg, list, bound, stop, shutdown>>

Replace ==
    /\ \/ pc = "stop" /\ Ended(active)
       \/ pc = "replace"
    /\ Launch(next, "update")
    /\ FreshSlot
    /\ UNCHANGED <<panelVars, faults, info, next, users, active, retired, routes, down, deaf, bound, shutdown>>

\* The task spawned for a retired instance begins its stop.
StopRetired(i) ==
    /\ i \in retired /\ ~stop[i]
    /\ stop' = [stop EXCEPT ![i] = TRUE]
    /\ UNCHANGED <<panelVars, faults, runVars, st, cfg, list, bound, aborted, shutdown>>

JoinRetired(i) ==
    /\ pc \in {"loop", "reap"}
    /\ i \in retired /\ stop[i] /\ Ended(i)
    /\ retired' = retired \ {i}
    /\ UNCHANGED <<panelVars, faults, pc, why, info, next, users, active, cand, routes, down, deaf, instVars, shutdown>>

\* The shutdown signal ends the loop and cancels an update at its await; a
\* candidate is dropped, the active instance is stopped.
HearShutdown ==
    /\ shutdown /\ ~deaf
    /\ pc \in {"loop", "alive", "unsynced", "node", "stop"} \/ (pc = "launch" /\ why # "start")
    /\ stop' = [i \in Inst |-> stop[i] \/ i \in {active, cand}]
    /\ aborted' = [i \in Inst |-> aborted[i] \/ (i = cand /\ ~Ended(i))]
    /\ pc' = "final"
    /\ cand' = None
    /\ UNCHANGED <<panelVars, faults, why, info, next, users, active, retired, routes, down, deaf, st, cfg, list, bound, shutdown>>

FinalStop ==
    /\ pc = "final" /\ Ended(active)
    /\ pc' = "reap"
    /\ UNCHANGED <<panelVars, faults, why, info, next, users, active, cand, retired, routes, down, deaf, instVars, shutdown>>

Return ==
    /\ pc = "reap" /\ retired = {}
    /\ pc' = "done"
    /\ UNCHANGED <<panelVars, faults, why, info, next, users, active, cand, retired, routes, down, deaf, instVars, shutdown>>

\* NodeRunner::run waits 35 s for the task, then aborts it: everything it
\* owns is dropped.
AbortInboundTask ==
    /\ shutdown
    /\ pc \in {"launch", "loop", "alive", "unsynced", "node", "stop", "final", "reap"}
    /\ Drop({active, cand} \cup retired)
    /\ pc' = "done"
    /\ cand' = None
    /\ UNCHANGED <<panelVars, faults, why, info, next, users, active, retired, routes, down, deaf, st, cfg, list, bound, shutdown>>

-----------------------------------------------------------------------------
InstStep(i) == Bind(i) \/ MarkReady(i) \/ StartFails(i) \/ Crashes(i) \/ HearStop(i) \/ End(i)

RunStep ==
    \/ RunInbound \/ LaunchReady \/ LaunchFails \/ Restore
    \/ SyncUsers \/ SyncReturns \/ KeepConfig \/ BeginUpdate \/ Replace
    \/ HearShutdown \/ FinalStop \/ Return

Next ==
    \/ \E c \in Config : ChangeConfig(c)
    \/ ChangeUsers \/ Shutdown
    \/ RunStep \/ AbortInboundTask
    \/ \E i \in Inst : InstStep(i) \/ StopTimeout(i) \/ StopRetired(i) \/ JoinRetired(i)

Spec == Init /\ [][Next]_vars

-----------------------------------------------------------------------------
\* The type invariant of the inbound task.
TypeOK ==
    /\ panel \in Config /\ panelUsers \in 0..MaxUserLists
    /\ changes \in 0..MaxChanges /\ faults \in 0..MaxFaults
    /\ pc \in {"boot", "launch", "restore", "loop", "alive", "unsynced", "node", "stop", "replace", "final", "reap", "done", "dead"}
    /\ why \in {"start", "update", "restore"}
    /\ {info, next, routes} \subseteq Config
    /\ users \in 0..MaxUserLists
    /\ {active, cand} \subseteq Inst \cup {None}
    /\ retired \subseteq Inst
    /\ st \in [Inst -> {"free", "starting", "ready", "stopping"}]
    /\ cfg \in [Inst -> Config]
    /\ list \in [Inst -> 0..MaxUserLists]
    /\ {bound, stop, aborted} \subseteq [Inst -> BOOLEAN]
    /\ {down, shutdown, deaf} \subseteq BOOLEAN

\* No instance is left running unowned: one that was not told to stop is the
\* active one, the candidate of the launch under way or a replaced one whose
\* stop is about to begin, whatever update was cancelled, timed out or failed,
\* and none is left when the task returns.
NoOrphan ==
    \A i \in Inst : ~Ended(i) /\ ~stop[i] =>
        \/ i = active /\ pc \notin {"final", "reap", "done"}
        \/ i = cand /\ pc = "launch"
        \/ i \in retired /\ pc # "done"

\* What the active instance serves, the configuration in use and the routes in
\* the router belong together.
ServesItsConfig ==
    active # None => cfg[active] = info /\ routes = info

\* The active instance has the user list synced last, also when it was
\* launched by an update or restored after one failed; only a sync that was
\* cancelled by the shutdown can leave the two apart.
UsersCurrent ==
    active # None /\ pc \notin {"alive", "final", "reap", "done"} => list[active] = users

\* An update that fails keeps the listener: between updates the active
\* instance has not been told to stop, unless its own address was to be taken
\* over and relaunching it failed as well.
KeepsListener ==
    pc = "loop" /\ stop[active] => down

\* A panel's configuration that can be served is served while no shutdown
\* comes, ...
Served ==
    ~shutdown /\ pc # "dead" /\ panel.ok /\ panel.valid
        => active # None /\ st[active] = "ready" /\ ~stop[active] /\ cfg[active] = panel

\* ... and after the shutdown signal the task has returned and every instance
\* has ended, also when the signal came before the task subscribed to it.
ShutDown ==
    shutdown => pc \in {"done", "dead"} /\ \A i \in Inst : Ended(i)

\* Instances, configuration, routes, users and listener belong together.
InboundSound ==
    TypeOK /\ NoOrphan /\ ServesItsConfig /\ UsersCurrent /\ KeepsListener
=============================================================================
