----------------------------- MODULE MCControl -----------------------------
(* How a node follows its panel and its files, for TLC.  A behaviour is    *)
(* one of the inbound task, one of the tasks that reload routes or one of  *)
(* the watchers of a list.                                                 *)
EXTENDS NodeInbound

CONSTANTS n1, n2, Node, MaxEdits, MaxUpdates, MaxRouteFaults

ASSUME ControlAssumption ==
    Node # {} /\ {MaxEdits, MaxUpdates, MaxRouteFaults} \subseteq Nat

\* The first configuration, one that takes over its address, one at another
\* address whose endpoint keeps its port, one that cannot start and one that is
\* not accepted.
First == [name |-> "first", addr |-> "a", ok |-> TRUE, valid |-> TRUE, keeps |-> FALSE]
Over == [name |-> "over", addr |-> "a", ok |-> TRUE, valid |-> TRUE, keeps |-> TRUE]
Other == [name |-> "other", addr |-> "b", ok |-> TRUE, valid |-> TRUE, keeps |-> TRUE]
Broken == [name |-> "broken", addr |-> "a", ok |-> FALSE, valid |-> TRUE, keeps |-> FALSE]
Invalid == [name |-> "invalid", addr |-> "b", ok |-> FALSE, valid |-> FALSE, keeps |-> FALSE]

MCConfig == {First, Over, Other, Broken, Invalid}

VARIABLES
    about,
    \* of RouteReload
    useUrl, routesFile, remote, nodeInfo, router, step, text, routesTime, routeFaults, overlap, first,
    \* of ListReload
    listFile, blockList, watcher, listTime, seen, content, listFaults, missed

routeVars == <<useUrl, routesFile, remote, nodeInfo, router, step, text, routesTime, routeFaults, overlap, first>>
listVars == <<listFile, blockList, watcher, listTime, seen, content, listFaults, missed>>

Routes == INSTANCE RouteReload WITH
    file <- routesFile, info <- nodeInfo, pc <- step, cfg <- text, last <- routesTime,
    faults <- routeFaults, MaxFaults <- MaxRouteFaults
Lists == INSTANCE ListReload WITH
    file <- listFile, list <- blockList, pc <- watcher, last <- listTime, faults <- listFaults

OfInbound(A) == about = "inbound" /\ A /\ UNCHANGED <<about, routeVars, listVars>>
OfRoutes(A) == about = "routes" /\ A /\ UNCHANGED <<about, vars, listVars>>
OfLists(A) == about = "lists" /\ A /\ UNCHANGED <<about, vars, routeVars>>

all == <<vars, routeVars, listVars, about>>

ControlInit ==
    /\ about \in {"inbound", "routes", "lists"}
    /\ Init /\ Routes!Init /\ Lists!Init
    /\ about # "routes" => ~useUrl

ControlNext == OfInbound(Next) \/ OfRoutes(Routes!Next) \/ OfLists(Lists!Next)

ControlSafety == ControlInit /\ [][ControlNext]_all

\* The inbound task is polled and its interval comes round; an instance gets
\* on with its start, its stop and its abort; the 35 s of the shutdown run out
\* and the abort takes effect at the task's next await.  The intervals of the
\* watchers and of the download come round, and a reload, which has no await
\* in it, ends.
ControlSpec ==
    /\ ControlSafety
    /\ WF_all(OfInbound(RunStep)) /\ SF_all(OfInbound(AbortInboundTask))
    /\ \A i \in Inst :
          /\ WF_all(OfInbound(InstStep(i)))
          /\ WF_all(OfInbound(StopRetired(i) \/ JoinRetired(i)))
    /\ WF_all(OfRoutes(Routes!LocalWatch)) /\ WF_all(OfRoutes(Routes!RulesSync))
    /\ \A r \in Routes!Task : WF_all(OfRoutes(Routes!Step(r)))
    /\ \A n \in Node : WF_all(OfLists(Lists!Watcher(n)))

\* Reloads that follow one another leave the newest panel routes in force, and
\* no order of the nodes' reads and reloads hides an edit of a list.
ReloadsSound ==
    /\ Routes!TypeOK /\ Routes!PanelRoutesInForce
    /\ Lists!TypeOK /\ Lists!NoHiddenEdit

\* After any failures of calls, starts and listeners the panel's configuration
\* is served in the end, and a shutdown ends the task and every instance.
NodeSettles == about = "inbound" => <>[](Served /\ ShutDown)

\* Routes and lists are what their file, their URL and the panel last said in
\* the end: no edit is noted and then forgotten, and the download repairs what
\* a race or a panel update left in the router.
ReloadsSettle ==
    about # "inbound" =>
        <>[](Routes!RemoteCurrent /\ Routes!LocalCurrent /\ Lists!ListCurrent)
=============================================================================
