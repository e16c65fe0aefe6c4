----------------------------- MODULE NodeProofs -----------------------------
(***************************************************************************)
(* Theorems about a node.  How it follows its panel and its files, for     *)
(* every set of configurations, slots and nodes and every number of changes*)
(* and failures: the inbound task (NodeInbound) and the tasks that reload  *)
(* routes and lists (RouteReload, ListReload).  And how an inbound that    *)
(* hides behind a decoy shows each side of the handshake what the other    *)
(* sent, for every number of records (DecoyHandshake).                     *)
(***************************************************************************)
EXTENDS MCControl, DecoyHandshake, TLAPS

-----------------------------------------------------------------------------
(* The inbound task.                                                       *)

\* A launch has a candidate, a loop an active instance, and these two and the
\* replaced ones are different instances.
OwnerInv ==
    /\ pc = "launch" <=> cand # None
    /\ pc = "boot" \/ (pc = "launch" /\ why = "start") => active = None
    /\ pc \in {"loop", "alive", "unsynced", "node", "stop", "replace", "restore", "final", "reap"}
          \/ (pc = "launch" /\ why # "start") => active # None
    /\ {active, cand} \cap retired = {}
    /\ cand # None => cand # active

\* The candidate has the configuration and the users it was launched with, and
\* nobody has told it to stop.
CandidateInv ==
    /\ pc = "launch" =>
          /\ cfg[cand] = IF why = "update" THEN next ELSE info
          /\ list[cand] = users
          /\ ~stop[cand]
    /\ routes = info

\* The active instance was told to stop only for an update of its own address,
\* or it is down already.
ListenerInv ==
    /\ (pc = "stop" => SameAddress) /\ (pc = "replace" => ~SameAddress)
    /\ \/ pc \in {"loop", "alive", "unsynced", "node", "replace"}
       \/ pc = "launch" /\ why = "update" /\ ~SameAddress
       => (stop[active] => down)

InboundInv ==
    /\ TypeOK /\ OwnerInv /\ CandidateInv /\ ListenerInv
    /\ NoOrphan /\ ServesItsConfig /\ UsersCurrent

\* Every step of the inbound task keeps its state well typed.
LEMMA InboundType == TypeOK /\ OwnerInv /\ [Next]_vars => TypeOK'
  <1> SUFFICES ASSUME TypeOK, OwnerInv, [Next]_vars PROVE TypeOK'
    BY Zenon
  <1> USE NodeAssumption DEF TypeOK, OwnerInv, panelVars, runVars, instVars, None
  <1>1. ASSUME NEW c \in Config, ChangeConfig(c) PROVE TypeOK'
    BY <1>1 DEF ChangeConfig
  <1>2. CASE ChangeUsers
    BY <1>2 DEF ChangeUsers
  <1>3. CASE Shutdown
    BY <1>3, Zenon DEF Shutdown
  <1>4. CASE RunInbound
    BY <1>4 DEF RunInbound, Launch, FreshSlot, Free
  <1>5. CASE LaunchReady
    <2>1. {stop', aborted'} \subseteq [Inst -> BOOLEAN]
      <3>1. CASE why = "restore"
        <4>1. Drop({active})
          BY <1>5, <3>1, Zenon DEF LaunchReady
        <4> QED
          BY <4>1, Zenon DEF Drop
      <3>2. CASE why # "restore"
        BY <1>5, <3>2, Zenon DEF LaunchReady
      <3> QED
        BY <3>1, <3>2, Zenon
    <2>2. {info', routes'} \subseteq Config /\ retired' \subseteq Inst /\ down' \in BOOLEAN
      BY <1>5, Zenon DEF LaunchReady
    <2> QED
      BY <1>5, <2>1, <2>2, Zenon DEF LaunchReady
  <1>6. CASE LaunchFails
    BY <1>6 DEF LaunchFails, Fault, Drop
  <1>7. CASE Restore
    BY <1>7 DEF Restore, Launch, FreshSlot, Free
  <1>8. CASE SyncUsers
    BY <1>8 DEF SyncUsers, Fault
  <1>9. CASE SyncReturns
    BY <1>9, Zenon DEF SyncReturns
  <1>10. CASE KeepConfig
    BY <1>10 DEF KeepConfig, Fault
  <1>11. CASE BeginUpdate
    <2>1. stop' \in [Inst -> BOOLEAN] /\ pc' \in {"stop", "replace"}
      BY <1>11, Zenon DEF BeginUpdate
    <2> QED
      BY <1>11, <2>1, Zenon DEF BeginUpdate
  <1>12. CASE Replace
    BY <1>12 DEF Replace, Launch, FreshSlot, Free
  <1>13. CASE HearShutdown
    BY <1>13, Zenon DEF HearShutdown
  <1>14. CASE FinalStop
    BY <1>14, Zenon DEF FinalStop
  <1>15. CASE Return
    BY <1>15, Zenon DEF Return
  <1>16. CASE AbortInboundTask
    BY <1>16, Zenon DEF AbortInboundTask, Drop
  <1>17. ASSUME NEW i \in Inst, Bind(i) PROVE TypeOK'
    BY <1>17 DEF Bind
  <1>18. ASSUME NEW i \in Inst, MarkReady(i) PROVE TypeOK'
    BY <1>18, Zenon DEF MarkReady
  <1>19. ASSUME NEW i \in Inst, StartFails(i) PROVE TypeOK'
    BY <1>19 DEF StartFails, Fault
  <1>20. ASSUME NEW i \in Inst, Crashes(i) PROVE TypeOK'
    BY <1>20 DEF Crashes, Fault
  <1>21. ASSUME NEW i \in Inst, HearStop(i) PROVE TypeOK'
    BY <1>21 DEF HearStop
  <1>22. ASSUME NEW i \in Inst, End(i) PROVE TypeOK'
    BY <1>22, ZenonT(30) DEF End
  <1>23. ASSUME NEW i \in Inst, StopTimeout(i) PROVE TypeOK'
    BY <1>23 DEF StopTimeout, Fault
  <1>24. ASSUME NEW i \in Inst, StopRetired(i) PROVE TypeOK'
    BY <1>24 DEF StopRetired
  <1>25. ASSUME NEW i \in Inst, JoinRetired(i) PROVE TypeOK'
    BY <1>25, Zenon DEF JoinRetired
  <1>26. CASE UNCHANGED vars
    BY <1>26, Zenon DEF vars
  <1> HIDE DEF TypeOK, OwnerInv
  <1> QED
    BY <1>1, <1>2, <1>3, <1>4, <1>5, <1>6, <1>7, <1>8, <1>9, <1>10, <1>11, <1>12, <1>13, <1>14,
        <1>15, <1>16, <1>17, <1>18, <1>19, <1>20, <1>21, <1>22, <1>23, <1>24, <1>25,
        <1>26, Zenon DEF Next, InstStep, RunStep


\* The instances stay apart, the candidate is what its launch made it and the
\* active one is told to stop only for an update of its own address.
LEMMA InboundRoles ==
    TypeOK /\ OwnerInv /\ CandidateInv /\ ListenerInv /\ [Next]_vars
    => (OwnerInv /\ CandidateInv /\ ListenerInv)'
  <1> SUFFICES ASSUME TypeOK, OwnerInv, CandidateInv, ListenerInv, [Next]_vars
               PROVE  (OwnerInv /\ CandidateInv /\ ListenerInv)'
    BY Zenon
  <1> USE NodeAssumption DEF TypeOK, OwnerInv, CandidateInv, ListenerInv, SameAddress,
          panelVars, runVars, instVars, None
  <1>1. ASSUME NEW c \in Config, ChangeConfig(c) PROVE (OwnerInv /\ CandidateInv /\ ListenerInv)'
    BY <1>1, Zenon DEF ChangeConfig
  <1>2. CASE ChangeUsers
    BY <1>2, Zenon DEF ChangeUsers
  <1>3. CASE Shutdown
    BY <1>3, Zenon DEF Shutdown
  <1>4. CASE RunInbound
    BY <1>4 DEF RunInbound, Launch, FreshSlot, Free
  <1>5. CASE LaunchReady
    BY <1>5, Zenon DEF LaunchReady, Drop
  <1>6. CASE LaunchFails
    BY <1>6, Zenon DEF LaunchFails, Fault, Drop
  <1>7. CASE Restore
    BY <1>7 DEF Restore, Launch, FreshSlot, Free
  <1>8. CASE SyncUsers
    BY <1>8, Zenon DEF SyncUsers, Fault
  <1>9. CASE SyncReturns
    BY <1>9, Zenon DEF SyncReturns
  <1>10. CASE KeepConfig
    BY <1>10, Zenon DEF KeepConfig, Fault
  <1>11. CASE BeginUpdate
    BY <1>11, Zenon DEF BeginUpdate
  <1>12. CASE Replace
    <2>1. PICK i \in Free :
             /\ cand' = i /\ why' = "update" /\ pc' = "launch"
             /\ st' = [st EXCEPT ![i] = "starting"]
             /\ cfg' = [cfg EXCEPT ![i] = next] /\ list' = [list EXCEPT ![i] = users]
             /\ stop' = [stop EXCEPT ![i] = FALSE] /\ aborted' = [aborted EXCEPT ![i] = FALSE]
      BY <1>12, Zenon DEF Replace, Launch, FreshSlot
    <2>2. i \in Inst /\ i # active /\ i \notin retired /\ st[i] = "free"
      BY Zenon DEF Free, Ended
    <2>3. cand = None
      BY <1>12, Zenon DEF Replace
    <2> QED
      BY <1>12, <2>1, <2>2, <2>3, Zenon DEF Replace
  <1>13. CASE HearShutdown
    BY <1>13, Zenon DEF HearShutdown
  <1>14. CASE FinalStop
    BY <1>14, Zenon DEF FinalStop
  <1>15. CASE Return
    BY <1>15, Zenon DEF Return
  <1>16. CASE AbortInboundTask
    BY <1>16, Zenon DEF AbortInboundTask, Drop
  <1>17. ASSUME NEW i \in Inst, Bind(i) PROVE (OwnerInv /\ CandidateInv /\ ListenerInv)'
    BY <1>17, Zenon DEF Bind
  <1>18. ASSUME NEW i \in Inst, MarkReady(i) PROVE (OwnerInv /\ CandidateInv /\ ListenerInv)'
    BY <1>18, Zenon DEF MarkReady
  <1>19. ASSUME NEW i \in Inst, StartFails(i) PROVE (OwnerInv /\ CandidateInv /\ ListenerInv)'
    BY <1>19, Zenon DEF StartFails, Fault
  <1>20. ASSUME NEW i \in Inst, Crashes(i) PROVE (OwnerInv /\ CandidateInv /\ ListenerInv)'
    BY <1>20, Zenon DEF Crashes, Fault
  <1>21. ASSUME NEW i \in Inst, HearStop(i) PROVE (OwnerInv /\ CandidateInv /\ ListenerInv)'
    BY <1>21, Zenon DEF HearStop
  <1>22. ASSUME NEW i \in Inst, End(i) PROVE (OwnerInv /\ CandidateInv /\ ListenerInv)'
    BY <1>22, Zenon DEF End
  <1>23. ASSUME NEW i \in Inst, StopTimeout(i) PROVE (OwnerInv /\ CandidateInv /\ ListenerInv)'
    BY <1>23, Zenon DEF StopTimeout, Fault
  <1>24. ASSUME NEW i \in Inst, StopRetired(i) PROVE (OwnerInv /\ CandidateInv /\ ListenerInv)'
    BY <1>24, Zenon DEF StopRetired
  <1>25. ASSUME NEW i \in Inst, JoinRetired(i) PROVE (OwnerInv /\ CandidateInv /\ ListenerInv)'
    BY <1>25, Zenon DEF JoinRetired
  <1>26. CASE UNCHANGED vars
    BY <1>26, Zenon DEF vars
  <1> HIDE DEF TypeOK, OwnerInv
  <1> QED
    BY <1>1, <1>2, <1>3, <1>4, <1>5, <1>6, <1>7, <1>8, <1>9, <1>10, <1>11, <1>12, <1>13, <1>14,
        <1>15, <1>16, <1>17, <1>18, <1>19, <1>20, <1>21, <1>22, <1>23, <1>24, <1>25,
        <1>26, Zenon DEF Next, InstStep, RunStep


\* No instance is left running unowned.
LEMMA InboundOwned == InboundInv /\ [Next]_vars => NoOrphan'
  <1> SUFFICES ASSUME InboundInv, [Next]_vars PROVE NoOrphan'
    BY Zenon
  <1> USE NodeAssumption DEF InboundInv, TypeOK, OwnerInv, CandidateInv, NoOrphan, Ended,
          panelVars, runVars, instVars, None
  <1>1. ASSUME NEW c \in Config, ChangeConfig(c) PROVE NoOrphan'
    BY <1>1, Zenon DEF ChangeConfig
  <1>2. CASE ChangeUsers
    BY <1>2, Zenon DEF ChangeUsers
  <1>3. CASE Shutdown
    BY <1>3, Zenon DEF Shutdown
  <1>4. CASE RunInbound
    BY <1>4, ZenonT(30) DEF RunInbound, Launch, FreshSlot, Free
  <1>5. CASE LaunchReady
    <2>1. CASE why = "start"
      BY <1>5, <2>1, Zenon DEF LaunchReady
    <2>2. CASE why = "update"
      BY <1>5, <2>2, Zenon DEF LaunchReady
    <2>3. CASE why = "restore"
      BY <1>5, <2>3, ZenonT(30) DEF LaunchReady, Drop
    <2> QED
      BY <2>1, <2>2, <2>3, Zenon
  <1>6. CASE LaunchFails
    BY <1>6, Zenon DEF LaunchFails, Fault, Drop
  <1>7. CASE Restore
    <2>1. PICK i \in Free :
             /\ cand' = i /\ why' = "restore" /\ pc' = "launch"
             /\ st' = [st EXCEPT ![i] = "starting"]
             /\ cfg' = [cfg EXCEPT ![i] = info] /\ list' = [list EXCEPT ![i] = users]
             /\ stop' = [stop EXCEPT ![i] = FALSE] /\ aborted' = [aborted EXCEPT ![i] = FALSE]
      BY <1>7, Zenon DEF Restore, Launch, FreshSlot
    <2>2. i \in Inst /\ i # active /\ i \notin retired /\ st[i] = "free"
      BY Zenon DEF Free, Ended
    <2>3. cand = None
      BY <1>7, Zenon DEF Restore
    <2> QED
      BY <1>7, <2>1, <2>2, <2>3, Zenon DEF Restore
  <1>8. CASE SyncUsers
    BY <1>8, Zenon DEF SyncUsers, Fault
  <1>9. CASE SyncReturns
    BY <1>9, Zenon DEF SyncReturns
  <1>10. CASE KeepConfig
    BY <1>10, Zenon DEF KeepConfig, Fault
  <1>11. CASE BeginUpdate
    BY <1>11, Zenon DEF BeginUpdate
  <1>12. CASE Replace
    <2>1. PICK i \in Free :
             /\ cand' = i /\ why' = "update" /\ pc' = "launch"
             /\ st' = [st EXCEPT ![i] = "starting"]
             /\ cfg' = [cfg EXCEPT ![i] = next] /\ list' = [list EXCEPT ![i] = users]
             /\ stop' = [stop EXCEPT ![i] = FALSE] /\ aborted' = [aborted EXCEPT ![i] = FALSE]
      BY <1>12, Zenon DEF Replace, Launch, FreshSlot
    <2>2. i \in Inst /\ i # active /\ i \notin retired /\ st[i] = "free"
      BY Zenon DEF Free, Ended
    <2>3. cand = None
      BY <1>12, Zenon DEF Replace
    <2> QED
      BY <1>12, <2>1, <2>2, <2>3, Zenon DEF Replace
  <1>13. CASE HearShutdown
    BY <1>13, Zenon DEF HearShutdown
  <1>14. CASE FinalStop
    BY <1>14, Zenon DEF FinalStop
  <1>15. CASE Return
    BY <1>15, Zenon DEF Return
  <1>16. CASE AbortInboundTask
    BY <1>16, Zenon DEF AbortInboundTask, Drop
  <1>17. ASSUME NEW i \in Inst, Bind(i) PROVE NoOrphan'
    BY <1>17, Zenon DEF Bind
  <1>18. ASSUME NEW i \in Inst, MarkReady(i) PROVE NoOrphan'
    BY <1>18, Zenon DEF MarkReady
  <1>19. ASSUME NEW i \in Inst, StartFails(i) PROVE NoOrphan'
    BY <1>19, Zenon DEF StartFails, Fault
  <1>20. ASSUME NEW i \in Inst, Crashes(i) PROVE NoOrphan'
    BY <1>20, Zenon DEF Crashes, Fault
  <1>21. ASSUME NEW i \in Inst, HearStop(i) PROVE NoOrphan'
    BY <1>21, Zenon DEF HearStop
  <1>22. ASSUME NEW i \in Inst, End(i) PROVE NoOrphan'
    BY <1>22, Zenon DEF End
  <1>23. ASSUME NEW i \in Inst, StopTimeout(i) PROVE NoOrphan'
    BY <1>23, Zenon DEF StopTimeout, Fault
  <1>24. ASSUME NEW i \in Inst, StopRetired(i) PROVE NoOrphan'
    BY <1>24, Zenon DEF StopRetired
  <1>25. ASSUME NEW i \in Inst, JoinRetired(i) PROVE NoOrphan'
    BY <1>25, Zenon DEF JoinRetired
  <1>26. CASE UNCHANGED vars
    BY <1>26, Zenon DEF vars
  <1> HIDE DEF TypeOK, OwnerInv
  <1> QED
    BY <1>1, <1>2, <1>3, <1>4, <1>5, <1>6, <1>7, <1>8, <1>9, <1>10, <1>11, <1>12, <1>13, <1>14,
        <1>15, <1>16, <1>17, <1>18, <1>19, <1>20, <1>21, <1>22, <1>23, <1>24, <1>25,
        <1>26, ZenonT(30) DEF Next, InstStep, RunStep


\* The configuration, the routes and the users stay those of the active instance.
LEMMA InboundServes == InboundInv /\ [Next]_vars => (ServesItsConfig /\ UsersCurrent)'
  <1> SUFFICES ASSUME InboundInv, [Next]_vars PROVE (ServesItsConfig /\ UsersCurrent)'
    BY Zenon
  <1> USE NodeAssumption DEF InboundInv, TypeOK, OwnerInv, CandidateInv, ServesItsConfig, UsersCurrent,
          panelVars, runVars, instVars, None
  <1>1. ASSUME NEW c \in Config, ChangeConfig(c) PROVE (ServesItsConfig /\ UsersCurrent)'
    BY <1>1, Zenon DEF ChangeConfig
  <1>2. CASE ChangeUsers
    BY <1>2, Zenon DEF ChangeUsers
  <1>3. CASE Shutdown
    BY <1>3, Zenon DEF Shutdown
  <1>4. CASE RunInbound
    BY <1>4, Zenon DEF RunInbound, Launch, FreshSlot, Free
  <1>5. CASE LaunchReady
    BY <1>5, Zenon DEF LaunchReady, Drop
  <1>6. CASE LaunchFails
    BY <1>6, Zenon DEF LaunchFails, Fault, Drop
  <1>7. CASE Restore
    BY <1>7 DEF Restore, Launch, FreshSlot, Free
  <1>8. CASE SyncUsers
    BY <1>8, Zenon DEF SyncUsers, Fault
  <1>9. CASE SyncReturns
    BY <1>9, Zenon DEF SyncReturns
  <1>10. CASE KeepConfig
    BY <1>10, Zenon DEF KeepConfig, Fault
  <1>11. CASE BeginUpdate
    BY <1>11, Zenon DEF BeginUpdate
  <1>12. CASE Replace
    BY <1>12, Zenon DEF Replace, Launch, FreshSlot, Free
  <1>13. CASE HearShutdown
    BY <1>13, Zenon DEF HearShutdown
  <1>14. CASE FinalStop
    BY <1>14, Zenon DEF FinalStop
  <1>15. CASE Return
    BY <1>15, Zenon DEF Return
  <1>16. CASE AbortInboundTask
    BY <1>16, Zenon DEF AbortInboundTask, Drop
  <1>17. ASSUME NEW i \in Inst, Bind(i) PROVE (ServesItsConfig /\ UsersCurrent)'
    BY <1>17, Zenon DEF Bind
  <1>18. ASSUME NEW i \in Inst, MarkReady(i) PROVE (ServesItsConfig /\ UsersCurrent)'
    BY <1>18, Zenon DEF MarkReady
  <1>19. ASSUME NEW i \in Inst, StartFails(i) PROVE (ServesItsConfig /\ UsersCurrent)'
    BY <1>19, Zenon DEF StartFails, Fault
  <1>20. ASSUME NEW i \in Inst, Crashes(i) PROVE (ServesItsConfig /\ UsersCurrent)'
    BY <1>20, Zenon DEF Crashes, Fault
  <1>21. ASSUME NEW i \in Inst, HearStop(i) PROVE (ServesItsConfig /\ UsersCurrent)'
    BY <1>21, Zenon DEF HearStop
  <1>22. ASSUME NEW i \in Inst, End(i) PROVE (ServesItsConfig /\ UsersCurrent)'
    BY <1>22, Zenon DEF End
  <1>23. ASSUME NEW i \in Inst, StopTimeout(i) PROVE (ServesItsConfig /\ UsersCurrent)'
    BY <1>23, Zenon DEF StopTimeout, Fault
  <1>24. ASSUME NEW i \in Inst, StopRetired(i) PROVE (ServesItsConfig /\ UsersCurrent)'
    BY <1>24, Zenon DEF StopRetired
  <1>25. ASSUME NEW i \in Inst, JoinRetired(i) PROVE (ServesItsConfig /\ UsersCurrent)'
    BY <1>25, Zenon DEF JoinRetired
  <1>26. CASE UNCHANGED vars
    BY <1>26, Zenon DEF vars
  <1> HIDE DEF TypeOK, OwnerInv
  <1> QED
    BY <1>1, <1>2, <1>3, <1>4, <1>5, <1>6, <1>7, <1>8, <1>9, <1>10, <1>11, <1>12, <1>13, <1>14,
        <1>15, <1>16, <1>17, <1>18, <1>19, <1>20, <1>21, <1>22, <1>23, <1>24, <1>25,
        <1>26, ZenonT(30) DEF Next, InstStep, RunStep

\* The inbound task of any node: no instance is left running unowned, what the
\* active one serves, the routes in the router and the users belong together,
\* and a failed update keeps the listener, whatever is cancelled, times out,
\* fails or crashes in whatever order.
THEOREM InboundTaskSound == Spec => []InboundSound
  <1>1. Init => InboundInv
    <2> SUFFICES ASSUME Init PROVE InboundInv
      BY Zenon
    <2>0. MaxChanges \in Nat /\ MaxUserLists \in Nat /\ MaxFaults \in Nat /\ FirstConfig \in Config
      BY NodeAssumption, Zenon
    <2>1. TypeOK
      <3>1. /\ st \in [Inst -> {"free", "starting", "ready", "stopping"}]
            /\ cfg \in [Inst -> Config] /\ list \in [Inst -> 0..MaxUserLists]
        BY <2>0 DEF Init
      <3>2. bound \in [Inst -> BOOLEAN] /\ stop \in [Inst -> BOOLEAN] /\ aborted \in [Inst -> BOOLEAN]
        BY Zenon DEF Init
      <3>3. /\ panel \in Config /\ panelUsers \in 0..MaxUserLists /\ users \in 0..MaxUserLists
            /\ changes \in 0..MaxChanges /\ faults \in 0..MaxFaults
        BY <2>0 DEF Init
      <3>4. {info, next, routes} \subseteq Config /\ {active, cand} \subseteq Inst \cup {None} /\ retired \subseteq Inst
        BY <2>0, Zenon DEF Init
      <3>5. {down, shutdown, deaf} \subseteq BOOLEAN
        BY Zenon DEF Init
      <3> QED
        BY <3>1, <3>2, <3>3, <3>4, <3>5, Zenon DEF Init, TypeOK
    <2>2. OwnerInv /\ CandidateInv /\ ListenerInv
      BY Zenon DEF Init, OwnerInv, CandidateInv, ListenerInv
    <2>3. NoOrphan /\ ServesItsConfig /\ UsersCurrent
      BY Zenon DEF Init, NoOrphan, Ended, ServesItsConfig, UsersCurrent
    <2> QED
      BY <2>1, <2>2, <2>3, Zenon DEF InboundInv
  <1>2. InboundInv /\ [Next]_vars => InboundInv'
    BY InboundType, InboundRoles, InboundOwned, InboundServes, Zenon DEF InboundInv
  <1>3. InboundInv => InboundSound
    BY Zenon DEF InboundInv, InboundSound, ListenerInv, KeepsListener
  <1> QED
    BY <1>1, <1>2, <1>3, PTL DEF Spec

-----------------------------------------------------------------------------
(* The routes.                                                             *)

\* As long as no two reloads were under way at once, at most one is, and what it
\* is about to store has the panel's present routes.
OneReload ==
    ~overlap =>
        /\ \A r, s \in Routes!Task : step[r] # "idle" /\ step[s] # "idle" => r = s
        /\ \A r \in Routes!Task : step[r] = "store" => text[r].panel = nodeInfo

RouteInv == Routes!TypeOK /\ OneReload /\ Routes!PanelRoutesInForce

\* A panel update, a tick of the watcher, a download and each part of a reload
\* keep the state of the reloads well typed.
LEMMA RouteType == Routes!TypeOK /\ Routes!Next => Routes!TypeOK'
  <1> SUFFICES ASSUME Routes!TypeOK, Routes!Next PROVE Routes!TypeOK'
    BY Zenon
  <1> USE ControlAssumption DEF Routes!TypeOK, Routes!Task, Routes!Unseen, Routes!Begin, Routes!Fault,
          Routes!Text
  <1>1. CASE Routes!EditFile
    BY <1>1 DEF Routes!EditFile
  <1>2. CASE Routes!EditRemote
    BY <1>2 DEF Routes!EditRemote
  <1>3. CASE Routes!ApplyNodeRoutes
    BY <1>3 DEF Routes!ApplyNodeRoutes
  <1>4. CASE Routes!LocalWatch
    BY <1>4, Zenon DEF Routes!LocalWatch
  <1>5. CASE Routes!RulesSync
    <2>1. UNCHANGED <<useUrl, routesFile, remote, nodeInfo, router, routesTime, first>>
      BY <1>5, Zenon DEF Routes!RulesSync
    <2>2. CASE Routes!Begin("sync", "merge") /\ text' = [text EXCEPT !["sync"] = Routes!Text("url", remote)]
               /\ UNCHANGED routeFaults
      BY <2>1, <2>2
    <2>3. CASE Routes!Fault /\ Routes!Begin("sync", "load") /\ UNCHANGED text
      BY <2>1, <2>3
    <2>4. CASE Routes!Fault /\ UNCHANGED <<step, text, overlap>>
      BY <2>1, <2>4
    <2> QED
      BY <1>5, <2>2, <2>3, <2>4, Zenon DEF Routes!RulesSync
  <1>6. ASSUME NEW r \in Routes!Task, Routes!LoadFromFile(r) PROVE Routes!TypeOK'
    BY <1>6 DEF Routes!LoadFromFile
  <1>7. ASSUME NEW r \in Routes!Task, Routes!ImportPanelRoutes(r) PROVE Routes!TypeOK'
    BY <1>7, Zenon DEF Routes!ImportPanelRoutes
  <1>8. ASSUME NEW r \in Routes!Task, Routes!Store(r) PROVE Routes!TypeOK'
    BY <1>8 DEF Routes!Store
  <1> HIDE DEF Routes!TypeOK, Routes!Task
  <1> QED
    BY <1>1, <1>2, <1>3, <1>4, <1>5, <1>6, <1>7, <1>8, Zenon DEF Routes!Next, Routes!Step

\* import_panel_routes takes the description of the node as it is, and a panel
\* update that follows before the routes are stored is a second reload.
LEMMA RouteStep ==
    RouteInv /\ Routes!Next => (OneReload /\ Routes!PanelRoutesInForce)'
  <1> SUFFICES ASSUME RouteInv, Routes!Next PROVE (OneReload /\ Routes!PanelRoutesInForce)'
    BY Zenon
  <1> USE DEF RouteInv, Routes!TypeOK, OneReload, Routes!PanelRoutesInForce, Routes!Quiet, Routes!Task,
          Routes!Begin
  <1>1. CASE Routes!EditFile
    BY <1>1, Zenon DEF Routes!EditFile
  <1>2. CASE Routes!EditRemote
    BY <1>2, Zenon DEF Routes!EditRemote
  <1>3. CASE Routes!ApplyNodeRoutes
    BY <1>3, Zenon DEF Routes!ApplyNodeRoutes
  <1>4. CASE Routes!LocalWatch
    BY <1>4, ZenonT(30) DEF Routes!LocalWatch
  <1>5. CASE Routes!RulesSync
    <2>1. UNCHANGED <<useUrl, routesFile, remote, nodeInfo, router, routesTime, first>>
      BY <1>5, Zenon DEF Routes!RulesSync
    <2>2. CASE Routes!Begin("sync", "merge") /\ text' = [text EXCEPT !["sync"] = Routes!Text("url", remote)]
               /\ UNCHANGED routeFaults
      BY <2>1, <2>2, Zenon DEF Routes!Fault
    <2>3. CASE Routes!Fault /\ Routes!Begin("sync", "load") /\ UNCHANGED text
      BY <2>1, <2>3, Zenon DEF Routes!Fault
    <2>4. CASE Routes!Fault /\ UNCHANGED <<step, text, overlap>>
      BY <2>1, <2>4, Zenon DEF Routes!Fault
    <2> QED
      BY <1>5, <2>2, <2>3, <2>4, Zenon DEF Routes!RulesSync
  <1>6. ASSUME NEW r \in Routes!Task, Routes!LoadFromFile(r)
        PROVE  (OneReload /\ Routes!PanelRoutesInForce)'
    BY <1>6, Zenon DEF Routes!LoadFromFile
  <1>7. ASSUME NEW r \in Routes!Task, Routes!ImportPanelRoutes(r)
        PROVE  (OneReload /\ Routes!PanelRoutesInForce)'
    BY <1>7, Zenon DEF Routes!ImportPanelRoutes
  <1>8. ASSUME NEW r \in Routes!Task, Routes!Store(r)
        PROVE  (OneReload /\ Routes!PanelRoutesInForce)'
    BY <1>8, Zenon DEF Routes!Store
  <1> HIDE DEF RouteInv, Routes!Task
  <1> QED
    BY <1>1, <1>2, <1>3, <1>4, <1>5, <1>6, <1>7, <1>8, Zenon DEF Routes!Next, Routes!Step

-----------------------------------------------------------------------------
(* The lists.                                                              *)

\* A watcher has noted only times that were, the content it is about to put in
\* force is not older than the time it will note, and the newest content is in
\* force or missed, or some watcher has not noted it.
ListInv ==
    /\ missed \subseteq 0..listFile
    /\ \A n \in Node :
          /\ listTime[n] \in 0..listFile \cup {Lists!Unseen}
          /\ seen[n] \in 0..listFile
          /\ watcher[n] = "reload" => content[n] \in seen[n]..listFile
    /\ \/ listFile \in missed
       \/ blockList = listFile
       \/ \E n \in Node : listTime[n] # listFile

\* A tick, a read and a reload of a watcher, and an edit, keep the state of the
\* watchers well typed.
LEMMA ListType == Lists!TypeOK /\ Lists!Next => Lists!TypeOK'
  <1> SUFFICES ASSUME Lists!TypeOK, Lists!Next PROVE Lists!TypeOK'
    BY Zenon
  <1>0. MaxEdits \in Nat /\ MaxFaults \in Nat
    BY ControlAssumption, NodeAssumption, Zenon
  <1> USE <1>0 DEF Lists!TypeOK, Lists!Unseen
  <1>1. CASE Lists!Edit
    BY <1>1 DEF Lists!Edit
  <1>2. ASSUME NEW n \in Node, Lists!StartWatch(n) PROVE Lists!TypeOK'
    BY <1>2, Zenon DEF Lists!StartWatch
  <1>3. ASSUME NEW n \in Node, Lists!CheckTime(n) PROVE Lists!TypeOK'
    BY <1>3, Zenon DEF Lists!CheckTime
  <1>4. ASSUME NEW n \in Node, Lists!ReadFile(n) PROVE Lists!TypeOK'
    <2>1. CASE content' = [content EXCEPT ![n] = listFile] /\ UNCHANGED <<listTime, listFaults, missed>>
      BY <1>4, <2>1, Zenon DEF Lists!ReadFile
    <2>2. CASE /\ listTime' = [listTime EXCEPT ![n] = seen[n]] /\ missed' = missed \cup {seen[n]}
               /\ listFaults < MaxFaults /\ listFaults' = listFaults + 1 /\ UNCHANGED content
      <3>0. listFaults' \in 0..MaxFaults
        BY <2>2
      <3>1. missed' \subseteq 0..MaxEdits
        BY <2>2, Zenon
      <3>2. listTime' \in [Node -> 0..MaxEdits \cup {Lists!Unseen}]
        BY <2>2, Zenon
      <3> QED
        BY <1>4, <2>2, <3>0, <3>1, <3>2, Zenon DEF Lists!ReadFile
    <2> QED
      BY <1>4, <2>1, <2>2, Zenon DEF Lists!ReadFile
  <1>5. ASSUME NEW n \in Node, Lists!Reload(n) PROVE Lists!TypeOK'
    BY <1>5, Zenon DEF Lists!Reload
  <1> HIDE DEF Lists!TypeOK
  <1> QED
    BY <1>1, <1>2, <1>3, <1>4, <1>5, Zenon DEF Lists!Next, Lists!Watcher

\* The content is read after the time that is noted for it, so that a reload
\* with an old content leaves its watcher behind.
LEMMA ListStep == Lists!TypeOK /\ ListInv /\ Lists!Next => ListInv'
  <1> SUFFICES ASSUME Lists!TypeOK, ListInv, Lists!Next PROVE ListInv'
    BY Zenon
  <1>0. MaxEdits \in Nat /\ Node # {}
    BY ControlAssumption, Zenon
  <1> USE <1>0 DEF Lists!TypeOK, ListInv, Lists!Unseen
  <1>1. CASE Lists!Edit
    BY <1>1 DEF Lists!Edit
  <1>2. ASSUME NEW n \in Node, Lists!StartWatch(n) PROVE ListInv'
    BY <1>2, Zenon DEF Lists!StartWatch
  <1>3. ASSUME NEW n \in Node, Lists!CheckTime(n) PROVE ListInv'
    <2>0. watcher[n] = "watch" /\ UNCHANGED <<listFile, blockList, content>>
      BY <1>3, Zenon DEF Lists!CheckTime
    <2>1. CASE listTime[n] # Lists!Unseen /\ listFile > listTime[n]
      <3>1. /\ watcher' = [watcher EXCEPT ![n] = "read"] /\ seen' = [seen EXCEPT ![n] = listFile]
            /\ UNCHANGED <<listTime, missed>>
        BY <1>3, <2>1, Zenon DEF Lists!CheckTime
      <3> QED
        BY <2>0, <3>1
    <2>2. CASE listTime[n] = Lists!Unseen
      <3>1. /\ listTime' = [listTime EXCEPT ![n] = listFile] /\ missed' = missed \cup {listFile}
            /\ UNCHANGED <<watcher, seen>>
        BY <1>3, <2>2, Zenon DEF Lists!CheckTime
      <3> QED
        BY <2>0, <3>1
    <2>3. CASE listTime[n] = listFile
      <3>1. /\ listTime' = [listTime EXCEPT ![n] = listFile] /\ missed' = missed
            /\ UNCHANGED <<watcher, seen>>
        BY <1>3, <2>3 DEF Lists!CheckTime
      <3> QED
        BY <2>0, <2>3, <3>1, Zenon
    <2> QED
      BY <2>1, <2>2, <2>3
  <1>4. ASSUME NEW n \in Node, Lists!ReadFile(n) PROVE ListInv'
    <2>1. CASE content' = [content EXCEPT ![n] = listFile] /\ UNCHANGED <<listTime, missed>>
      BY <1>4, <2>1 DEF Lists!ReadFile
    <2>2. CASE /\ listTime' = [listTime EXCEPT ![n] = seen[n]] /\ missed' = missed \cup {seen[n]}
               /\ watcher' = [watcher EXCEPT ![n] = "watch"] /\ UNCHANGED content
      BY <1>4, <2>2, Zenon DEF Lists!ReadFile
    <2> QED
      BY <1>4, <2>1, <2>2, Zenon DEF Lists!ReadFile
  <1>5. ASSUME NEW n \in Node, Lists!Reload(n) PROVE ListInv'
    BY <1>5 DEF Lists!Reload
  <1> QED
    BY <1>1, <1>2, <1>3, <1>4, <1>5, Zenon DEF Lists!Next, Lists!Watcher

\* The reloads of any number of nodes: reloads that follow one another leave
\* the newest panel routes in force, and no order of the watchers' looks, reads
\* and reloads hides an edit of a list.
THEOREM ReloadsKeptSound == ControlSafety => []ReloadsSound
  <1> DEFINE RInv == RouteInv
             LInv == Lists!TypeOK /\ ListInv
  <1>1. ControlInit => RInv /\ LInv
    <2>1. ControlInit => RInv
      <3> SUFFICES ASSUME Routes!Init PROVE RouteInv
        BY Zenon DEF ControlInit
      <3>1. Routes!TypeOK
        <4>1. MaxEdits \in Nat /\ MaxUpdates \in Nat /\ MaxRouteFaults \in Nat
          BY ControlAssumption, Zenon
        <4>2. useUrl \in BOOLEAN /\ overlap \in BOOLEAN
          BY Zenon DEF Routes!Init
        <4>3. [panel |-> 0, from |-> "file", text |-> 0]
                \in [panel : 0..MaxUpdates, from : {"file", "url", "default"}, text : 0..MaxEdits]
          BY <4>1
        <4> QED
          BY <4>1, <4>2, <4>3 DEF Routes!Init, Routes!TypeOK, Routes!Text, Routes!Task, Routes!Unseen
      <3>2. OneReload /\ Routes!PanelRoutesInForce
        BY Zenon DEF Routes!Init, Routes!Text, Routes!Task, OneReload, Routes!PanelRoutesInForce
      <3> QED
        BY <3>1, <3>2, Zenon DEF RouteInv
    <2>2. ControlInit => LInv
      BY ControlAssumption, NodeAssumption DEF ControlInit, Lists!Init, Lists!TypeOK, Lists!Unseen,
          ListInv
    <2> QED
      BY <2>1, <2>2, Zenon
  <1>2. RInv /\ LInv /\ [ControlNext]_all => RInv' /\ LInv'
    <2> SUFFICES ASSUME RInv, LInv, [ControlNext]_all PROVE RInv' /\ LInv'
      BY Zenon
    <2>1. UNCHANGED routeVars => RInv'
      BY DEF routeVars, RouteInv, Routes!TypeOK, OneReload, Routes!PanelRoutesInForce, Routes!Quiet
    <2>2. UNCHANGED listVars => LInv'
      BY Zenon DEF listVars, Lists!TypeOK, ListInv
    <2>3. Routes!Next => RInv'
      BY RouteType, RouteStep, Zenon DEF RouteInv
    <2>4. Lists!Next => LInv'
      BY ListType, ListStep, Zenon
    <2> QED
      BY <2>1, <2>2, <2>3, <2>4, Zenon DEF ControlNext, OfInbound, OfRoutes, OfLists, all
  <1>3. RInv /\ LInv => ReloadsSound
    BY ControlAssumption, Zenon DEF ReloadsSound, RouteInv, ListInv, Lists!NoHiddenEdit
  <1> QED
    BY <1>1, <1>2, <1>3, PTL DEF ControlSafety

-----------------------------------------------------------------------------
(* DecoyHandshake: the client's handshake with the decoy.                  *)

VeilSpec == (VeilInit \/ VeilNone) /\ [][VeilNext]_veil

AllKinds == {"hello", "badhello", "junk", "more", "retry", "hs", "ccs", "badccs", "app", "data"}
DecoyKinds == AllKinds \ {"junk", "badccs"}
Phases == {"chello", "shello", "till17", "client13", "tls12", "st-hello", "st-server", "st-frames",
           "fallback", "relay", "refused", "none"}
Open == Phases \ {"fallback", "relay", "refused", "none"}
Flows == {"initial", "ckeVerified", "fullClientCcs", "fullServerCcs", "fullFinished",
          "resumeServerCcs", "resumeFinished", "resumeClientCcs", "client0x17", "reject"}
VeilRec ==
    [phase : Phases, knows : BOOLEAN, tls13 : BOOLEAN, strict : BOOLEAN,
     kinds : [Ends -> Seq(AllKinds)], base : [Ends -> Nat], cursor : [Ends -> Nat],
     part : [Ends -> BOOLEAN], out : [Ends -> Seq(Nat)], held : [Ends -> Seq(Nat)],
     framed : BOOLEAN, eof : BOOLEAN, ccs : [Ends -> BOOLEAN], seen : Nat, counter : Nat,
     flow : Flows, curve : BOOLEAN, marked : SUBSET Nat]

\* What one side sent has gone to the other up to base.
Sent(v) == \A p \in Ends : v.out[p] = Ids(0, v.base[p]) /\ v.base[p] <= Len_(v, p)
\* What has been looked at lies before the cursor, and when all of it has, it has
\* gone on.
Aligned(v) ==
    \A p \in Ends :
        /\ v.base[p] <= v.cursor[p] /\ v.cursor[p] <= Len_(v, p)
        /\ v.cursor[p] = Len_(v, p) => v.base[p] = v.cursor[p]
Steady(v) ==
    /\ v \in VeilRec /\ Sent(v) /\ Aligned(v) /\ \A p \in Ends : v.held[p] = <<>>
    /\ v.kinds["decoy"] \in Seq(DecoyKinds)

\* Sequences joined, and sequences that are the same.
LEMMA Joined ==
  ASSUME NEW S, NEW s \in Seq(S), NEW t \in Seq(S)
  PROVE  /\ s \o t \in Seq(S) /\ Len(s \o t) = Len(s) + Len(t)
         /\ \A i \in 1..(Len(s) + Len(t)) : (s \o t)[i] = IF i <= Len(s) THEN s[i] ELSE t[i - Len(s)]
  OBVIOUS
LEMMA SameSeq ==
  ASSUME NEW S, NEW s \in Seq(S), NEW t \in Seq(S), Len(s) = Len(t), \A i \in 1..Len(s) : s[i] = t[i]
  PROVE  s = t
  OBVIOUS

\* Numbers in a row: how many, and which.
LEMMA IdsAre ==
  ASSUME NEW lo \in Nat, NEW hi \in Nat, lo <= hi
  PROVE  /\ Ids(lo, hi) \in Seq(Nat) /\ Len(Ids(lo, hi)) = hi - lo
         /\ \A i \in 1..(hi - lo) : Ids(lo, hi)[i] = lo + i
  <1>1. hi - lo \in Nat /\ \A i \in 1..(hi - lo) : lo + i \in Nat
    OBVIOUS
  <1> QED
    BY <1>1 DEF Ids

\* They join up.
LEMMA IdsJoin ==
  ASSUME NEW lo \in Nat, NEW mid \in Nat, NEW hi \in Nat, lo <= mid, mid <= hi
  PROVE  Ids(lo, mid) \o Ids(mid, hi) = Ids(lo, hi)
  <1> DEFINE A == Ids(lo, mid)
             B == Ids(mid, hi)
             C == Ids(lo, hi)
  <1>1. /\ A \in Seq(Nat) /\ Len(A) = mid - lo /\ \A i \in 1..(mid - lo) : A[i] = lo + i
        /\ B \in Seq(Nat) /\ Len(B) = hi - mid /\ \A i \in 1..(hi - mid) : B[i] = mid + i
    BY IdsAre, Zenon
  <1>2. C \in Seq(Nat) /\ Len(C) = hi - lo /\ \A i \in 1..(hi - lo) : C[i] = lo + i
    <2>1. lo <= hi
      OBVIOUS
    <2> QED
      BY <2>1, IdsAre, Zenon
  <1> HIDE DEF A, B, C
  <1>3. /\ A \o B \in Seq(Nat) /\ Len(A \o B) = hi - lo
        /\ \A i \in 1..(hi - lo) : (A \o B)[i] = lo + i
    <2>1. /\ A \o B \in Seq(Nat) /\ Len(A \o B) = Len(A) + Len(B)
          /\ \A i \in 1..(Len(A) + Len(B)) : (A \o B)[i] = IF i <= Len(A) THEN A[i] ELSE B[i - Len(A)]
      BY <1>1, Joined, Zenon
    <2>2. Len(A) + Len(B) = hi - lo
      BY <1>1
    <2>3. ASSUME NEW i \in 1..(hi - lo) PROVE (A \o B)[i] = lo + i
      <3>1. CASE i <= mid - lo
        BY <2>1, <2>2, <3>1, <1>1
      <3>2. CASE ~(i <= mid - lo)
        <4>1. i - (mid - lo) \in 1..(hi - mid) /\ mid + (i - (mid - lo)) = lo + i
          BY <3>2
        <4> QED
          BY <2>1, <2>2, <3>2, <4>1, <1>1, Zenon
      <3> QED
        BY <3>1, <3>2, Zenon
    <2> QED
      BY <2>1, <2>2, <2>3, Zenon
  <1>4. A \o B = C
    BY <1>2, <1>3, SameSeq, Zenon
  <1> QED
    BY <1>4, Zenon DEF A, B, C

\* One more number.
LEMMA IdsNext ==
  ASSUME NEW n \in Nat
  PROVE  /\ <<n + 1>> = Ids(n, n + 1)
         /\ Append(Ids(0, n), n + 1) = Ids(0, n + 1)
         /\ Ids(n, n) = <<>>
  <1>1. <<n + 1>> = Ids(n, n + 1)
    <2>1. Ids(n, n + 1) \in Seq(Nat) /\ Len(Ids(n, n + 1)) = 1 /\ Ids(n, n + 1)[1] = n + 1
      <3>1. n <= n + 1 /\ n + 1 \in Nat /\ (n + 1) - n = 1
        OBVIOUS
      <3>2. /\ Ids(n, n + 1) \in Seq(Nat) /\ Len(Ids(n, n + 1)) = (n + 1) - n
            /\ \A i \in 1..((n + 1) - n) : Ids(n, n + 1)[i] = n + i
        BY <3>1, IdsAre, Zenon
      <3> QED
        BY <3>1, <3>2
    <2>2. <<n + 1>> \in Seq(Nat) /\ Len(<<n + 1>>) = 1 /\ <<n + 1>>[1] = n + 1
      OBVIOUS
    <2> QED
      BY <2>1, <2>2, SameSeq
  <1>2. Ids(0, n) \in Seq(Nat) /\ 0 <= n /\ n <= n + 1 /\ n + 1 \in Nat /\ 0 \in Nat
    BY IdsAre
  <1>3. Ids(0, n) \o Ids(n, n + 1) = Ids(0, n + 1)
    BY <1>2, IdsJoin, Zenon
  <1>4. Append(Ids(0, n), n + 1) = Ids(0, n) \o <<n + 1>>
    BY <1>2
  <1>5. Ids(n, n) = <<>>
    <2>1. Ids(n, n) \in Seq(Nat) /\ Len(Ids(n, n)) = 0
      BY IdsAre
    <2> QED
      BY <2>1
  <1> QED
    BY <1>1, <1>3, <1>4, <1>5, Zenon

\* Two states of a handshake that differ in what has been read and carried only.
Alike(v, w) ==
    /\ w.phase = v.phase /\ w.knows = v.knows /\ w.tls13 = v.tls13 /\ w.strict = v.strict
    /\ w.flow = v.flow /\ w.marked = v.marked
\* ShadowTLS passes on each record by itself.
Prompt(v) == \A p \in Ends : v.base[p] = v.cursor[p]

\* decode adds whole records behind those that have gone on.
LEMMA Decodes ==
  ASSUME NEW v, Steady(v), NEW p \in Ends, ~HasNext(v, p), NEW w \in Decode(v, p)
  PROVE  /\ Steady(w) /\ Alike(v, w) /\ HasNext(w, p) /\ (Prompt(v) => Prompt(w)) /\ w.eof = v.eof
         /\ w.cursor[p] = Len_(v, p)
         /\ \A q \in Ends : q # p => w.cursor[q] = v.cursor[q] /\ w.kinds[q] = v.kinds[q]
  <1>0. v \in VeilRec /\ Sent(v) /\ Aligned(v) /\ \A q \in Ends : v.held[q] = <<>>
    BY Zenon DEF Steady
  <1>1. PICK b \in UNION {[1..n -> Kinds(v, p)] : n \in 1..Batch}, more \in BOOLEAN :
           w = Decoded(v, p, b, more)
    BY DEF Decode
  <1>n. PICK n \in 1..Batch : b \in [1..n -> Kinds(v, p)]
    BY Zenon
  <1>2. b \in Seq(AllKinds) /\ Len(b) = n /\ n \in Nat /\ n > 0
    <2>1. Kinds(v, p) \subseteq AllKinds
      BY Zenon DEF Kinds, FirstRecords, Later, AllKinds
    <2>2. n \in Nat /\ n > 0
      BY VeilAssumption
    <2> QED
      BY <1>n, <2>1, <2>2
  <1> DEFINE K == v.kinds[p] \o b
             L == Len_(v, p)
             F == v.framed /\ \A i \in 1..Len(b) : RecordOk(p, L + i, b[i])
  <1>3. v.kinds[p] \in Seq(AllKinds) /\ L \in Nat /\ L = Len(v.kinds[p])
    BY <1>0 DEF VeilRec, Len_
  <1>4. K \in Seq(AllKinds) /\ Len(K) = L + n
    <2>1. K \in Seq(AllKinds) /\ Len(K) = Len(v.kinds[p]) + Len(b)
      BY <1>2, <1>3, Joined, Zenon
    <2> QED
      BY <2>1, <1>2, <1>3, Zenon
  <1>5. w = [v EXCEPT !.kinds[p] = K, !.part[p] = more, !.base[p] = L, !.cursor[p] = L, !.framed = F]
    BY <1>1, Zenon DEF Decoded
  <1>6. F \in BOOLEAN
    BY Zenon
  <1> HIDE DEF K, L, F
  <1>7. /\ w \in VeilRec /\ Alike(v, w) /\ w.eof = v.eof /\ w.held = v.held /\ w.out = v.out
        /\ w.kinds = [v.kinds EXCEPT ![p] = K] /\ w.base = [v.base EXCEPT ![p] = L]
        /\ w.cursor = [v.cursor EXCEPT ![p] = L]
    BY <1>0, <1>3, <1>4, <1>5, <1>6, ZenonT(30) DEF VeilRec, Alike
  <1>8. ASSUME NEW q \in Ends
        PROVE  /\ w.held[q] = <<>> /\ w.out[q] = Ids(0, w.base[q]) /\ w.base[q] <= Len_(w, q)
               /\ w.base[q] <= w.cursor[q] /\ w.cursor[q] <= Len_(w, q)
               /\ w.cursor[q] = Len_(w, q) => w.base[q] = w.cursor[q]
               /\ v.base[q] = v.cursor[q] => w.base[q] = w.cursor[q]
    <2>1. v.kinds \in [Ends -> Seq(AllKinds)] /\ v.base \in [Ends -> Nat] /\ v.cursor \in [Ends -> Nat]
      BY <1>0, Zenon DEF VeilRec
    <2>2. CASE q = p
      <3>1. w.base[p] = L /\ w.cursor[p] = L /\ Len_(w, p) = L + n
        BY <1>4, <1>7, <2>1, Zenon DEF Len_
      <3>2. v.base[p] = L
        BY <1>0, <2>1 DEF HasNext, Aligned, L, Len_
      <3> QED
        BY <1>0, <1>2, <1>3, <1>7, <2>2, <3>1, <3>2 DEF Sent
    <2>3. CASE q # p
      <3>1. w.base[q] = v.base[q] /\ w.cursor[q] = v.cursor[q] /\ Len_(w, q) = Len_(v, q)
        BY <1>7, <2>1, <2>3, Zenon DEF Len_
      <3> QED
        BY <1>0, <1>7, <3>1, Zenon DEF Sent, Aligned
    <2> QED
      BY <2>2, <2>3, Zenon
  <1>9. HasNext(w, p)
    <2>1. v.kinds \in [Ends -> Seq(AllKinds)] /\ v.cursor \in [Ends -> Nat]
      BY <1>0, Zenon DEF VeilRec
    <2> QED
      BY <1>2, <1>3, <1>4, <1>7, <2>1 DEF HasNext, Len_
  <1>10. w.kinds["decoy"] \in Seq(DecoyKinds)
    <2>0. v.kinds["decoy"] \in Seq(DecoyKinds) /\ v.kinds \in [Ends -> Seq(AllKinds)] /\ "decoy" \in Ends
      BY <1>0, Zenon DEF Steady, VeilRec, Ends
    <2>1. CASE p = "decoy"
      <3>1. Kinds(v, p) \subseteq DecoyKinds
        BY <2>1, Zenon DEF Kinds, FirstRecords, Later, DecoyKinds, AllKinds
      <3>2. b \in Seq(DecoyKinds)
        BY <3>1, <1>n, <1>2
      <3>3. v.kinds[p] \o b \in Seq(DecoyKinds)
        BY <3>2, <2>0, <2>1, Joined, Zenon
      <3> QED
        BY <3>3, <2>0, <2>1, <1>7, Zenon DEF K
    <2>2. CASE p # "decoy"
      BY <2>0, <2>2, <1>7, Zenon
    <2> QED
      BY <2>1, <2>2, Zenon
  <1>11. /\ w.cursor[p] = Len_(v, p)
         /\ \A q \in Ends : q # p => w.cursor[q] = v.cursor[q] /\ w.kinds[q] = v.kinds[q]
    BY <1>0, <1>7, Zenon DEF VeilRec, L
  <1> QED
    BY <1>7, <1>8, <1>9, <1>10, <1>11, Zenon DEF Steady, Sent, Aligned, Prompt

\* A read brings a record, or the stream cannot be read any more.
LEMMA Reads ==
  ASSUME NEW v, Steady(v), NEW p \in Ends, NEW w \in ReadFromStream(v, p)
  PROVE  Steady(w) /\ Alike(v, w) /\ (Prompt(v) => Prompt(w)) /\ (~w.eof => HasNext(w, p))
  <1>1. CASE HasNext(v, p)
    BY <1>1, Zenon DEF ReadFromStream, Alike
  <1>2. CASE ~HasNext(v, p) /\ w \in Decode(v, p)
    BY <1>2, Decodes, Zenon
  <1>3. CASE w = [v EXCEPT !.eof = TRUE]
    <2>0. v \in VeilRec
      BY Zenon DEF Steady
    <2>1. /\ w \in VeilRec /\ Alike(v, w) /\ w.eof /\ w.held = v.held /\ w.out = v.out
          /\ w.kinds = v.kinds /\ w.base = v.base /\ w.cursor = v.cursor
      BY <1>3, <2>0, Zenon DEF VeilRec, Alike
    <2> QED
      BY <2>1 DEF Steady, Sent, Aligned, Prompt, Len_
  <1> QED
    BY <1>1, <1>2, <1>3, Zenon DEF ReadFromStream

\* What does not touch the records keeps them in order.
LEMMA Keeps ==
  ASSUME NEW v, Steady(v), NEW w \in VeilRec, w.held = v.held, w.out = v.out,
         w.kinds = v.kinds, w.base = v.base, w.cursor = v.cursor
  PROVE  Steady(w) /\ (Prompt(v) => Prompt(w)) /\ \A p \in Ends : HasNext(v, p) => HasNext(w, p)
  BY Zenon DEF Steady, Sent, Aligned, Prompt, HasNext, Len_

\* A record that has been looked at goes on with the last of those read with it.
LEMMA Carries ==
  ASSUME NEW v, Steady(v), NEW p \in Ends, HasNext(v, p), NEW w, w = Carry(NextRecord(v, p), p)
  PROVE  Steady(w) /\ Alike(v, w) /\ (HasNext(w, p) \/ w.base[p] = w.cursor[p]) /\ w.kinds = v.kinds
         /\ w.cursor[p] = v.cursor[p] + 1
         /\ \A q \in Ends : q # p => w.base[q] = v.base[q] /\ w.cursor[q] = v.cursor[q]
  <1>0. v \in VeilRec /\ Sent(v) /\ Aligned(v) /\ \A q \in Ends : v.held[q] = <<>>
    BY Zenon DEF Steady
  <1> DEFINE n == NextRecord(v, p)
             c == v.cursor[p] + 1
             L == Len_(v, p)
  <1>1. /\ v.kinds \in [Ends -> Seq(AllKinds)] /\ v.base \in [Ends -> Nat] /\ v.cursor \in [Ends -> Nat]
        /\ v.out \in [Ends -> Seq(Nat)]
    BY <1>0, Zenon DEF VeilRec
  <1>2. L \in Nat /\ L = Len(v.kinds[p]) /\ c \in Nat /\ c <= L /\ v.base[p] \in Nat /\ v.base[p] <= L
        /\ v.out[p] = Ids(0, v.base[p])
    BY <1>0, <1>1 DEF HasNext, Len_, Sent
  <1>3. n = [v EXCEPT !.cursor[p] = c]
    BY Zenon DEF NextRecord
  <1> HIDE DEF n, c
  <1>4. /\ n \in VeilRec /\ Alike(v, n) /\ n.held = v.held /\ n.out = v.out /\ n.kinds = v.kinds
        /\ n.base = v.base /\ n.cursor = [v.cursor EXCEPT ![p] = c]
    BY <1>0, <1>2, <1>3, Zenon DEF VeilRec, Alike
  <1>5. n.cursor[p] = c /\ Len_(n, p) = L
    BY <1>1, <1>4, Zenon DEF Len_
  <1>6. w = IF c < L THEN n
            ELSE [n EXCEPT !.out[p] = @ \o Ids(n.base[p], Len_(n, p)), !.base[p] = Len_(n, p)]
    BY <1>5, Zenon DEF Carry, HasNext, n
  <1>7. CASE c < L
    <2>1. w = n
      BY <1>6, <1>7, Zenon
    <2>2. ASSUME NEW q \in Ends
          PROVE  /\ n.base[q] <= n.cursor[q] /\ n.cursor[q] <= Len_(n, q)
                 /\ n.cursor[q] = Len_(n, q) => n.base[q] = n.cursor[q]
                 /\ n.out[q] = Ids(0, n.base[q]) /\ n.base[q] <= Len_(n, q)
      <3>1. CASE q = p
        BY <3>1, <1>0, <1>1, <1>2, <1>4, <1>5, <1>7 DEF Sent, Aligned, c
      <3>2. CASE q # p
        BY <3>2, <1>0, <1>1, <1>4, Zenon DEF Sent, Aligned, Len_
      <3> QED
        BY <3>1, <3>2, ZenonT(30)
    <2>3. Steady(n) /\ HasNext(n, p)
      BY <2>2, <1>0, <1>4, <1>5, <1>7, ZenonT(30) DEF Steady, Sent, Aligned, HasNext
    <2> QED
      BY <2>1, <2>3, <1>1, <1>4, <1>5, Zenon DEF c
  <1>8. CASE ~(c < L)
    <2>0. c = L
      BY <1>2, <1>8
    <2> DEFINE o == v.out[p] \o Ids(v.base[p], L)
    <2>1. o = Ids(0, L) /\ o \in Seq(Nat)
      <3>1. 0 \in Nat /\ 0 <= v.base[p] /\ 0 <= L
        BY <1>2
      <3>2. Ids(0, v.base[p]) \o Ids(v.base[p], L) = Ids(0, L)
        BY ONLY <3>1, <1>2, IdsJoin, Zenon
      <3>3. Ids(0, L) \in Seq(Nat)
        BY ONLY <3>1, <1>2, IdsAre, Zenon
      <3> QED
        BY ONLY <3>2, <3>3, <1>2, Zenon DEF o
    <2>2. w = [n EXCEPT !.out[p] = o, !.base[p] = L]
      BY <1>4, <1>5, <1>6, <1>8, Zenon
    <2> HIDE DEF o, L
    <2>3. /\ w \in VeilRec /\ Alike(n, w) /\ w.held = n.held /\ w.kinds = n.kinds
          /\ w.cursor = n.cursor /\ w.out = [n.out EXCEPT ![p] = o] /\ w.base = [n.base EXCEPT ![p] = L]
      <3>1. /\ n.out \in [Ends -> Seq(Nat)] /\ n.base \in [Ends -> Nat]
            /\ [n.out EXCEPT ![p] = o] \in [Ends -> Seq(Nat)] /\ [n.base EXCEPT ![p] = L] \in [Ends -> Nat]
        BY <1>2, <1>4, <2>1, Zenon DEF VeilRec
      <3>2. w = [n EXCEPT !.out = [n.out EXCEPT ![p] = o], !.base = [n.base EXCEPT ![p] = L]]
        BY <2>2, Zenon
      <3> QED
        BY <1>4, <3>1, <3>2, ZenonT(30) DEF VeilRec, Alike
    <2>4. ASSUME NEW q \in Ends
          PROVE  /\ w.base[q] <= w.cursor[q] /\ w.cursor[q] <= Len_(w, q)
                 /\ w.cursor[q] = Len_(w, q) => w.base[q] = w.cursor[q]
                 /\ w.out[q] = Ids(0, w.base[q]) /\ w.base[q] <= Len_(w, q)
      <3>1. CASE q = p
        <4>1. w.base[p] = L /\ w.cursor[p] = L /\ w.out[p] = Ids(0, L) /\ Len_(w, p) = L
          BY <1>1, <1>4, <1>5, <2>0, <2>1, <2>3, ZenonT(30) DEF Len_
        <4> QED
          BY <3>1, <4>1, <1>2
      <3>2. CASE q # p
        BY <3>2, <1>0, <1>1, <1>4, <2>3, SMTT(30) DEF Sent, Aligned, Len_
      <3> QED
        BY <3>1, <3>2, Zenon
    <2>5. Steady(w)
      BY <2>3, <2>4, <1>0, <1>4, SMTT(30) DEF Steady, Sent, Aligned
    <2>6. Alike(v, w) /\ w.base[p] = w.cursor[p]
      BY <1>1, <1>4, <1>5, <2>0, <2>3 DEF Alike
    <2> QED
      BY <2>3, <2>5, <2>6, <1>1, <1>4, <1>5, SMTT(30) DEF c
  <1> QED
    BY <1>7, <1>8, Zenon

\* The TLS 1.2 flow: who got past its start knows the password, and the node's
\* proof is in one record from the end of the server's part on.
Finished == {"fullFinished", "resumeFinished", "resumeClientCcs"}
FlowOk(v) ==
    /\ v.flow \in Flows \ {"client0x17", "reject"}
    /\ v.flow \notin {"initial", "resumeServerCcs"} => v.knows
    /\ IF v.flow \in Finished THEN Single(v.marked) ELSE v.marked = {}
\* What each phase has established.
Proved(v) ==
    /\ v.phase \in {"st-hello", "st-server", "st-frames"} => Prompt(v)
    /\ v.phase = "st-hello" => ~HasNext(v, "client")
    /\ v.phase \in {"st-hello", "st-server"} => ~HasNext(v, "decoy")
    /\ v.phase \in {"till17", "client13", "st-server", "st-frames"} => v.knows
    /\ v.phase \in {"chello", "shello"} => v.flow = "initial"
    /\ v.phase \in {"chello", "shello", "till17"} => v.marked = {}
    /\ v.phase = "client13" => Single(v.marked)
    /\ v.phase = "tls12" => FlowOk(v)
VeilInv ==
    /\ veil \in VeilRec /\ Sent(veil)
    /\ veil.phase \in Open => Steady(veil) /\ Proved(veil)
    /\ VeilKept

\* One record marked is one.
LEMMA OneMark == ASSUME NEW v, v.marked = {}, NEW n PROVE Single(v.marked \cup {n})
  BY Zenon DEF Single

\* What is still held of a stream follows on what has gone on.
LEMMA HandsOn ==
  ASSUME NEW v \in VeilRec, Sent(v), NEW p \in Ends
  PROVE  /\ Buffered(v, p) \in Seq(Nat)
         /\ Ids(0, v.base[p]) \o Buffered(v, p) = Ids(0, Len_(v, p) + (IF v.part[p] THEN 1 ELSE 0))
  <1> DEFINE b == v.base[p]
             L == Len_(v, p)
  <1>1. b \in Nat /\ L \in Nat /\ b <= L /\ 0 \in Nat /\ 0 <= b /\ L + 1 \in Nat /\ L <= L + 1 /\ b <= L + 1
    BY DEF VeilRec, Sent, Len_
  <1>2. Buffered(v, p) = Ids(b, L) \o IF v.part[p] THEN <<L + 1>> ELSE <<>>
    BY Zenon DEF Buffered
  <1> HIDE DEF b, L
  <1>3. /\ Ids(b, L) \in Seq(Nat) /\ Ids(b, L + 1) \in Seq(Nat)
        /\ Ids(0, b) \o Ids(b, L) = Ids(0, L) /\ Ids(0, b) \o Ids(b, L + 1) = Ids(0, L + 1)
    BY ONLY <1>1, IdsAre, IdsJoin, Zenon
  <1>4. CASE v.part[p]
    <2>1. Ids(b, L) \o <<L + 1>> = Ids(b, L + 1)
      <3>1. <<L + 1>> = Ids(L, L + 1)
        BY ONLY <1>1, IdsNext, Zenon
      <3>2. Ids(b, L) \o Ids(L, L + 1) = Ids(b, L + 1)
        BY ONLY <1>1, IdsJoin, Zenon
      <3> QED
        BY <3>1, <3>2, Zenon
    <2>2. Buffered(v, p) = Ids(b, L + 1)
      BY <1>2, <1>4, <2>1, Zenon
    <2> QED
      BY <1>3, <1>4, <2>2, Zenon DEF b, L
  <1>5. CASE ~v.part[p]
    <2>1. Buffered(v, p) = Ids(b, L)
      BY <1>2, <1>3, <1>5
    <2>2. L + 0 = L
      BY <1>1
    <2> QED
      BY <1>3, <1>5, <2>1, <2>2, Zenon DEF b, L
  <1> QED
    BY <1>4, <1>5, Zenon

\* Whoever is left to the decoy has everything read so far handed on.
LEMMA FallsBack ==
  ASSUME NEW v \in VeilRec, Sent(v), veil' = Fallback(v)
  PROVE  VeilInv'
  <1>1. \A p \in Ends : Buffered(v, p) \in Seq(Nat)
          /\ Ids(0, v.base[p]) \o Buffered(v, p) = Ids(0, Len_(v, p) + (IF v.part[p] THEN 1 ELSE 0))
    BY HandsOn, Zenon
  <1> DEFINE h == [p \in Ends |-> Buffered(v, p)]
  <1>2. h \in [Ends -> Seq(Nat)] /\ \A p \in Ends : h[p] = Buffered(v, p)
    BY <1>1, Zenon
  <1>3. veil' = [v EXCEPT !.phase = "fallback", !.held = h]
    BY Zenon DEF Fallback
  <1> HIDE DEF h
  <1>4. /\ veil' \in VeilRec /\ veil'.phase = "fallback" /\ veil'.held = h /\ veil'.out = v.out
        /\ veil'.kinds = v.kinds /\ veil'.base = v.base /\ veil'.part = v.part
    BY <1>2, <1>3, Zenon DEF VeilRec, Phases
  <1>5. Sent(veil')
    BY <1>4, Zenon DEF Sent, Len_
  <1>6. VeilKept'
    <2>1. \A p \in Ends : veil'.out[p] = Ids(0, veil'.base[p])
      BY <1>5, Zenon DEF Sent
    <2>2. \A p \in Ends : veil'.out[p] \o veil'.held[p]
                          = Ids(0, Len_(veil', p) + (IF veil'.part[p] THEN 1 ELSE 0))
      BY <2>1, <1>1, <1>2, <1>4, Zenon DEF Len_
    <2> QED
      BY <2>1, <2>2, <1>4, Zenon DEF VeilKept, Len_
  <1> QED
    BY <1>4, <1>5, <1>6, Zenon DEF VeilInv, Open, Sent, Len_

\* A handshake that goes on, and one that ShadowTLS ends.
LEMMA GoesOn ==
  ASSUME NEW w, Steady(w), Proved(w), w.phase \in Open, veil' = w
  PROVE  VeilInv'
  <1>1. w \in VeilRec /\ Sent(w) /\ w.phase \notin {"fallback", "relay"}
    BY Zenon DEF Steady, Open
  <1>2. VeilKept'
    BY <1>1, Zenon DEF VeilKept, Sent
  <1> QED
    BY <1>1, <1>2, Zenon DEF VeilInv, Steady, Sent, Aligned, Proved, FlowOk, Prompt, HasNext, Len_
LEMMA Refuses ==
  ASSUME NEW v, Steady(v), veil' = Refuse(v)
  PROVE  VeilInv'
  <1>1. /\ veil' \in VeilRec /\ veil'.phase = "refused" /\ veil'.out = v.out /\ veil'.kinds = v.kinds
        /\ veil'.base = v.base
    BY Zenon DEF Steady, VeilRec, Refuse, Phases
  <1>2. Sent(veil')
    BY <1>1, Zenon DEF Steady, Sent, Len_
  <1>3. VeilKept'
    BY <1>1, <1>2, Zenon DEF VeilKept, Sent
  <1> QED
    BY <1>1, <1>2, <1>3, Zenon DEF VeilInv, Open, Sent, Len_

\* The phase moves on.
LEMMA Turns ==
  ASSUME NEW v, Steady(v), NEW to \in Phases, NEW w, w = [v EXCEPT !.phase = to]
  PROVE  /\ Steady(w) /\ (Prompt(v) => Prompt(w)) /\ w.phase = to /\ w.knows = v.knows
         /\ w.flow = v.flow /\ w.marked = v.marked /\ w.kinds = v.kinds /\ w.cursor = v.cursor
  <1>1. /\ w \in VeilRec /\ w.held = v.held /\ w.out = v.out /\ w.kinds = v.kinds
        /\ w.base = v.base /\ w.cursor = v.cursor /\ w.phase = to /\ w.knows = v.knows
        /\ w.flow = v.flow /\ w.marked = v.marked
    BY Zenon DEF Steady, VeilRec
  <1> QED
    BY <1>1, Keeps, Zenon

\* The handshake so far.
LEMMA Underway ==
  ASSUME VeilInv, veil.phase \in Open \ {"st-hello", "st-server"}, NEW p \in Ends, NEW v \in ReadFromStream(veil, p)
  PROVE  Steady(v) /\ v \in VeilRec /\ Sent(v) /\ Proved(v) /\ v.phase = veil.phase /\ (~v.eof => HasNext(v, p))
  <1>1. Steady(veil) /\ Proved(veil)
    BY Zenon DEF VeilInv
  <1>2. Steady(v) /\ Alike(veil, v) /\ (Prompt(veil) => Prompt(v)) /\ (~v.eof => HasNext(v, p))
    BY <1>1, Reads, Zenon
  <1> QED
    BY <1>1, <1>2, Zenon DEF Steady, Alike, Proved, FlowOk

\* try_read_client_hello
LEMMA VeilByClientHello == ASSUME VeilInv, TryReadClientHello PROVE VeilInv'
  <1>0. veil.phase = "chello" /\ "client" \in Ends /\ "chello" \in Open /\ "shello" \in Open /\ "shello" \in Phases
    BY Zenon DEF TryReadClientHello, Ends, Open, Phases
  <1>1. PICK v \in ReadFromStream(veil, "client") :
          veil' = IF ~Readable(v, "client") \/ Peek(v, "client") \notin Handshake
                  THEN Fallback(v)
                  ELSE IF ~ParsesClientHello(Peek(v, "client")) THEN Fallback(NextRecord(v, "client"))
                  ELSE [Carry(NextRecord(v, "client"), "client") EXCEPT !.phase = "shello"]
    BY Zenon DEF TryReadClientHello
  <1>2. Steady(v) /\ v \in VeilRec /\ Sent(v) /\ Proved(v) /\ v.phase = "chello" /\ (~v.eof => HasNext(v, "client"))
    BY <1>0, Underway, Zenon
  <1>3. CASE veil' = Fallback(v)
    BY <1>2, <1>3, FallsBack, Zenon
  <1>4. CASE veil' = Fallback(NextRecord(v, "client"))
    <2> DEFINE n == NextRecord(v, "client")
    <2>1. v.cursor["client"] + 1 \in Nat
      BY <1>0, <1>2 DEF VeilRec
    <2>2. n \in VeilRec /\ n.out = v.out /\ n.kinds = v.kinds /\ n.base = v.base
      BY <1>0, <1>2, <2>1, Zenon DEF NextRecord, VeilRec
    <2>3. Sent(n)
      BY <1>2, <2>2, Zenon DEF Sent, Len_
    <2> HIDE DEF n
    <2> QED
      BY <1>4, <2>2, <2>3, FallsBack, Zenon DEF n
  <1>5. CASE /\ Readable(v, "client")
             /\ veil' = [Carry(NextRecord(v, "client"), "client") EXCEPT !.phase = "shello"]
    <2> DEFINE c == Carry(NextRecord(v, "client"), "client")
    <2>1. HasNext(v, "client")
      BY <1>2, <1>5, Zenon DEF Readable
    <2>2. Steady(c) /\ Alike(v, c)
      BY <1>0, <1>2, <2>1, Carries, Zenon
    <2> HIDE DEF c
    <2>3. veil' = [c EXCEPT !.phase = "shello"]
      BY <1>5, Zenon DEF c
    <2>4. /\ Steady(veil') /\ veil'.phase = "shello" /\ veil'.knows = c.knows
          /\ veil'.flow = c.flow /\ veil'.marked = c.marked
      BY <1>0, <2>2, <2>3, Turns
    <2>5. Proved(veil')
      BY <1>2, <2>2, <2>4, Zenon DEF Proved, Alike
    <2> QED
      BY <1>0, <2>4, <2>5, GoesOn, Zenon
  <1> QED
    BY <1>1, <1>3, <1>4, <1>5, Zenon

\* try_read_server_hello
LEMMA VeilByServerHello == ASSUME VeilInv, TryReadServerHello PROVE VeilInv'
  <1>0. /\ veil.phase = "shello" /\ "decoy" \in Ends /\ {"shello", "tls12", "till17"} \subseteq Open
        /\ {"shello", "tls12", "till17"} \subseteq Phases
    BY Zenon DEF TryReadServerHello, Ends, Open, Phases
  <1>1. PICK v \in ReadFromStream(veil, "decoy") :
          veil' = IF ~Readable(v, "decoy") \/ Peek(v, "decoy") \notin Handshake
                       \/ ~ParsesServerHello(Peek(v, "decoy"))
                  THEN Fallback(v)
                  ELSE LET w == IF Peek(v, "decoy") = "more" THEN v ELSE NextRecord(v, "decoy")
                           c == Carry(w, "decoy")
                       IN  IF ~v.tls13 THEN [c EXCEPT !.phase = "tls12"]
                           ELSE IF SessionIdOk(v) THEN [c EXCEPT !.phase = "till17"]
                           ELSE Fallback(c)
    BY Zenon DEF TryReadServerHello
  <1>2. Steady(v) /\ v \in VeilRec /\ Sent(v) /\ Proved(v) /\ v.phase = "shello" /\ (~v.eof => HasNext(v, "decoy"))
    BY <1>0, Underway, Zenon
  <1>3. CASE veil' = Fallback(v)
    BY <1>2, <1>3, FallsBack, Zenon
  <1>4. CASE Readable(v, "decoy") /\ veil' # Fallback(v)
    <2> DEFINE c == Carry(IF Peek(v, "decoy") = "more" THEN v ELSE NextRecord(v, "decoy"), "decoy")
    <2>1. HasNext(v, "decoy")
      BY <1>2, <1>4, Zenon DEF Readable
    <2>2. Steady(c) /\ Alike(v, c)
      <3>1. CASE Peek(v, "decoy") = "more"
        <4>1. c = v
          BY <3>1, <2>1, Zenon DEF Carry
        <4> QED
          BY <4>1, <1>2, Zenon DEF Alike
      <3>2. CASE Peek(v, "decoy") # "more"
        <4>1. c = Carry(NextRecord(v, "decoy"), "decoy")
          BY <3>2, Zenon
        <4> HIDE DEF c
        <4> QED
          BY <4>1, <1>0, <1>2, <2>1, Carries, Zenon
      <3> QED
        BY <3>1, <3>2, Zenon
    <2>3. \/ veil' = [c EXCEPT !.phase = "tls12"]
          \/ v.knows /\ veil' = [c EXCEPT !.phase = "till17"]
          \/ veil' = Fallback(c)
      BY <1>1, <1>4, Zenon DEF SessionIdOk
    <2> HIDE DEF c
    <2>4. CASE veil' = Fallback(c)
      BY <2>2, <2>4, FallsBack, Zenon DEF Steady
    <2>5. ASSUME NEW to \in {"tls12", "till17"}, veil' = [c EXCEPT !.phase = to], to = "till17" => v.knows
          PROVE  VeilInv'
      <3>1. to \in Open /\ to \in Phases
        BY <1>0, <2>5, Zenon
      <3>2. /\ Steady(veil') /\ veil'.phase = to /\ veil'.knows = c.knows
            /\ veil'.flow = c.flow /\ veil'.marked = c.marked
        BY <2>2, <2>5, <3>1, Turns
      <3>3. Proved(veil')
        BY <1>2, <2>2, <2>5, <3>2, Zenon DEF Proved, Alike, FlowOk, Flows, Finished
      <3> QED
        BY <3>1, <3>2, <3>3, GoesOn, Zenon
    <2> QED
      BY <2>3, <2>4, <2>5, Zenon
  <1> QED
    BY <1>1, <1>3, <1>4, Zenon

\* A record is looked at, something about the handshake is noted, and the record
\* goes on.
LEMMA Passes ==
  ASSUME NEW v, Steady(v), NEW u \in VeilRec, u.held = v.held, u.out = v.out, u.kinds = v.kinds,
         u.base = v.base, u.cursor = v.cursor, NEW p \in Ends, HasNext(v, p),
         NEW w, w = Carry(NextRecord(u, p), p)
  PROVE  Steady(w) /\ Alike(u, w)
  <1>1. Steady(u) /\ HasNext(u, p)
    BY Keeps, Zenon
  <1> QED
    BY <1>1, Carries, Zenon

\* The node takes over a stream from a client that proved itself.
LEMMA TakesOver ==
  ASSUME NEW v, Steady(v), v.knows, Peek(v, "client") \in AppData, Single(v.marked),
         veil' = [v EXCEPT !.phase = "relay"]
  PROVE  VeilInv'
  <1>0. "relay" \in Phases /\ "client" \in Ends
    BY Zenon DEF Phases, Ends
  <1>1. /\ Steady(veil') /\ veil'.phase = "relay" /\ veil'.knows = v.knows
        /\ veil'.marked = v.marked /\ veil'.kinds = v.kinds /\ veil'.cursor = v.cursor
    BY ONLY <1>0, Steady(v), veil' = [v EXCEPT !.phase = "relay"], Turns
  <1>2. veil' \in VeilRec /\ Sent(veil') /\ veil'.held["client"] = <<>>
    BY <1>0, <1>1, Zenon DEF Steady
  <1>3. VeilKept'
    BY <1>1, <1>2, Zenon DEF VeilKept, Sent, Peek
  <1> QED
    BY <1>1, <1>2, <1>3, Zenon DEF VeilInv, Open, Sent, Len_

\* try_read_tls13_till_first_0x17
LEMMA VeilByTill17 == ASSUME VeilInv, TryReadTls13TillFirst0x17 PROVE VeilInv'
  <1>0. veil.phase = "till17" /\ "decoy" \in Ends /\ {"till17", "client13"} \subseteq Open \cap Phases
        /\ "till17" \in Open \ {"st-hello", "st-server"}
    BY Zenon DEF TryReadTls13TillFirst0x17, Ends, Open, Phases
  <1> DEFINE P(v) == NextRecord([v EXCEPT !.ccs["decoy"] = TRUE], "decoy")
             Q(v) == NextRecord(PrepareServerAuth(v), "decoy")
  <1>1. PICK v \in ReadFromStream(veil, "decoy") :
          \/ veil' = Fallback(v)
          \/ Readable(v, "decoy") /\ veil' = Carry(P(v), "decoy")
          \/ Readable(v, "decoy") /\ veil' = [Carry(Q(v), "decoy") EXCEPT !.phase = "client13"]
    BY Zenon DEF TryReadTls13TillFirst0x17
  <1>2. Steady(v) /\ v \in VeilRec /\ Sent(v) /\ Proved(v) /\ v.phase = "till17" /\ (~v.eof => HasNext(v, "decoy"))
    BY <1>0, Underway, Zenon
  <1>3. CASE veil' = Fallback(v)
    BY <1>2, <1>3, FallsBack, Zenon
  <1>4. CASE Readable(v, "decoy") /\ veil' = Carry(P(v), "decoy")
    <2> DEFINE u == [v EXCEPT !.ccs["decoy"] = TRUE]
    <2>1. /\ u \in VeilRec /\ u.held = v.held /\ u.out = v.out /\ u.kinds = v.kinds
          /\ u.base = v.base /\ u.cursor = v.cursor /\ Alike(v, u)
      BY <1>0, <1>2, Zenon DEF VeilRec, Alike
    <2>2. veil' = Carry(NextRecord(u, "decoy"), "decoy") /\ HasNext(v, "decoy")
      BY <1>2, <1>4, Zenon DEF Readable
    <2> HIDE DEF u
    <2>3. Steady(veil') /\ Alike(u, veil')
      BY <1>0, <1>2, <2>1, <2>2, Passes, Zenon
    <2>4. Proved(veil') /\ veil'.phase \in Open
      BY <1>0, <1>2, <2>1, <2>3, Zenon DEF Proved, Alike
    <2> QED
      BY <2>3, <2>4, GoesOn, Zenon
  <1>5. CASE Readable(v, "decoy") /\ veil' = [Carry(Q(v), "decoy") EXCEPT !.phase = "client13"]
    <2> DEFINE u == PrepareServerAuth(v)
               m == v.marked \cup {v.cursor["decoy"] + 1}
               c == Carry(NextRecord(u, "decoy"), "decoy")
    <2>0. m \in SUBSET Nat /\ Single(m)
      <3>1. v.marked = {} /\ v.cursor["decoy"] + 1 \in Nat
        BY <1>0, <1>2 DEF VeilRec, Proved
      <3>2. Single(m)
        BY <3>1, OneMark, Zenon
      <3> QED
        BY <3>1, <3>2, Zenon
    <2>1. u = [v EXCEPT !.marked = m]
      BY Zenon DEF PrepareServerAuth
    <2>2. veil' = [c EXCEPT !.phase = "client13"] /\ HasNext(v, "decoy")
      BY <1>2, <1>5, Zenon DEF Readable
    <2> HIDE DEF u, m
    <2>3. /\ u \in VeilRec /\ u.held = v.held /\ u.out = v.out /\ u.kinds = v.kinds
          /\ u.base = v.base /\ u.cursor = v.cursor /\ u.marked = m /\ u.knows = v.knows
      BY <1>0, <1>2, <2>0, <2>1, Zenon DEF VeilRec
    <2>4. Steady(c) /\ Alike(u, c)
      BY <1>0, <1>2, <2>2, <2>3, Passes, Zenon
    <2> HIDE DEF c
    <2>5. Steady(veil') /\ veil'.phase = "client13" /\ veil'.knows = c.knows /\ veil'.marked = c.marked
      BY <1>0, <2>2, <2>4, Turns
    <2>6. Proved(veil')
      BY <1>2, <2>0, <2>3, <2>4, <2>5, Zenon DEF Proved, Alike
    <2> QED
      BY <1>0, <2>5, <2>6, GoesOn, Zenon
  <1> QED
    BY <1>1, <1>3, <1>4, <1>5, Zenon

\* try_read_tl13_till_client_application_data, the client's branch
LEMMA VeilByClient13 == ASSUME VeilInv, Client13 PROVE VeilInv'
  <1>0. veil.phase = "client13" /\ "client" \in Ends /\ "client13" \in Open \ {"st-hello", "st-server"}
    BY Zenon DEF Client13, Ends, Open, Phases
  <1> DEFINE P(v) == [v EXCEPT !.ccs["client"] = TRUE]
             Q(v) == [v EXCEPT !.seen = 1]
  <1>1. PICK v \in ReadFromStream(veil, "client") :
          \/ veil' = Fallback(v)
          \/ Readable(v, "client") /\ veil' = Carry(NextRecord(P(v), "client"), "client")
          \/ Readable(v, "client") /\ veil' = Carry(NextRecord(Q(v), "client"), "client")
          \/ Peek(v, "client") \in AppData /\ veil' = [v EXCEPT !.phase = "relay"]
    BY Zenon DEF Client13
  <1>2. Steady(v) /\ v \in VeilRec /\ Sent(v) /\ Proved(v) /\ v.phase = "client13" /\ (~v.eof => HasNext(v, "client"))
    BY <1>0, Underway, Zenon
  <1>3. CASE veil' = Fallback(v)
    BY <1>2, <1>3, FallsBack, Zenon
  <1>4. CASE Peek(v, "client") \in AppData /\ veil' = [v EXCEPT !.phase = "relay"]
    BY <1>2, <1>4, TakesOver, Zenon DEF Proved
  <1>5. ASSUME NEW u, u = P(v) \/ u = Q(v), Readable(v, "client"),
               veil' = Carry(NextRecord(u, "client"), "client")
        PROVE  VeilInv'
    <2>1. /\ u \in VeilRec /\ u.held = v.held /\ u.out = v.out /\ u.kinds = v.kinds
          /\ u.base = v.base /\ u.cursor = v.cursor /\ Alike(v, u)
      <3>1. CASE u = P(v)
        BY <3>1, <1>0, <1>2, Zenon DEF VeilRec, Alike
      <3>2. CASE u = Q(v)
        BY <3>2, <1>0, <1>2, Zenon DEF VeilRec, Alike
      <3> QED
        BY <3>1, <3>2, <1>5, Zenon
    <2>2. HasNext(v, "client")
      BY <1>2, <1>5, Zenon DEF Readable
    <2>3. Steady(veil') /\ Alike(u, veil')
      BY <1>0, <1>2, <1>5, <2>1, <2>2, Passes, Zenon
    <2>4. Proved(veil') /\ veil'.phase \in Open
      BY <1>0, <1>2, <2>1, <2>3, Zenon DEF Proved, Alike
    <2> QED
      BY <2>3, <2>4, GoesOn, Zenon
  <1> QED
    BY <1>1, <1>3, <1>4, <1>5, Zenon

\* and the decoy's
LEMMA VeilByDecoy13 == ASSUME VeilInv, Decoy13 PROVE VeilInv'
  <1>0. veil.phase = "client13" /\ "decoy" \in Ends /\ "client13" \in Open \ {"st-hello", "st-server"}
    BY Zenon DEF Decoy13, Ends, Open, Phases
  <1>1. PICK v \in ReadFromStream(veil, "decoy") :
          veil' = IF ~Readable(v, "decoy") THEN Fallback(v)
                  ELSE Carry(NextRecord([v EXCEPT !.counter = @ + v.seen], "decoy"), "decoy")
    BY Zenon DEF Decoy13
  <1>2. Steady(v) /\ v \in VeilRec /\ Sent(v) /\ Proved(v) /\ v.phase = "client13" /\ (~v.eof => HasNext(v, "decoy"))
    BY <1>0, Underway, Zenon
  <1>3. CASE ~Readable(v, "decoy")
    BY <1>1, <1>2, <1>3, FallsBack, Zenon
  <1>4. CASE Readable(v, "decoy")
    <2> DEFINE u == [v EXCEPT !.counter = @ + v.seen]
    <2>0. v.counter + v.seen \in Nat
      BY <1>2 DEF VeilRec
    <2>1. /\ u \in VeilRec /\ u.held = v.held /\ u.out = v.out /\ u.kinds = v.kinds
          /\ u.base = v.base /\ u.cursor = v.cursor /\ Alike(v, u)
      BY <1>0, <1>2, <2>0, Zenon DEF VeilRec, Alike
    <2>2. veil' = Carry(NextRecord(u, "decoy"), "decoy") /\ HasNext(v, "decoy")
      BY <1>1, <1>2, <1>4, Zenon DEF Readable
    <2> HIDE DEF u
    <2>3. Steady(veil') /\ Alike(u, veil')
      BY <1>0, <1>2, <2>1, <2>2, Passes, Zenon
    <2>4. Proved(veil') /\ veil'.phase \in Open
      BY <1>0, <1>2, <2>1, <2>3, Zenon DEF Proved, Alike
    <2> QED
      BY <2>3, <2>4, GoesOn, Zenon
  <1> QED
    BY <1>3, <1>4, Zenon

\* handle_tls12_outbound: the node's proof goes into the record that finishes the
\* server's part, and into no other.
LEMMA Outbound ==
  ASSUME NEW v, Steady(v), FlowOk(v), HasNext(v, "decoy"), NEW w, w = HandleTls12Outbound(v)
  PROVE  /\ w \in VeilRec /\ w.held = v.held /\ w.out = v.out /\ w.kinds = v.kinds
         /\ w.base = v.base /\ w.cursor = v.cursor /\ w.phase = v.phase /\ w.knows = v.knows
         /\ w.flow = "reject" \/ FlowOk(w)
  <1> DEFINE kind == Peek(v, "decoy")
             f == IF kind \in Handshake THEN Server0x16(v.flow)
                  ELSE IF kind = "ccs" THEN CcsFromServer(v.flow)
                  ELSE IF ServerFinished(v.flow) THEN v.flow ELSE "reject"
             x == [v EXCEPT !.flow = f]
             m == v.marked \cup {v.cursor["decoy"] + 1}
  <1>0. v \in VeilRec /\ "decoy" \in Ends
    BY Zenon DEF Steady, Ends
  <1>1. v.cursor["decoy"] + 1 \in Nat /\ v.counter + 1 \in Nat /\ m \in SUBSET Nat
    BY <1>0 DEF VeilRec
  <1>2. f \in Flows \ {"client0x17"}
    BY Zenon DEF FlowOk, Flows, Server0x16, CcsFromServer, ServerFinished
  <1>3. w = IF kind \in AppData THEN [x EXCEPT !.counter = @ + 1]
            ELSE IF kind = "ccs" \/ f = "reject" THEN x
            ELSE IF ~ServerFinished(f) THEN [x EXCEPT !.curve = TRUE]
            ELSE IF f = "resumeFinished" /\ ~TicketOk(v) THEN [x EXCEPT !.flow = "reject"]
            ELSE PrepareServerAuth(x)
    BY Zenon DEF HandleTls12Outbound
  <1>k. kind \in DecoyKinds
    <2>1. v.kinds["decoy"] \in Seq(DecoyKinds) /\ v.cursor["decoy"] \in Nat
      BY <1>0, Zenon DEF Steady, VeilRec
    <2>2. v.cursor["decoy"] + 1 \in 1..Len(v.kinds["decoy"])
      BY <2>1 DEF HasNext, Len_
    <2> QED
      BY <2>1, <2>2 DEF Peek
  \* Where the flow stays out of its end, or at it, nothing is marked.
  <1>4. /\ kind \in AppData /\ f # "reject" => f = v.flow
        /\ kind \notin AppData /\ f # "reject" /\ (kind = "ccs" \/ ~ServerFinished(f)) =>
             (f \in Finished <=> v.flow \in Finished) /\ (f \notin {"initial", "resumeServerCcs"} => v.knows)
        /\ kind \notin AppData /\ kind # "ccs" /\ ServerFinished(f) =>
             v.flow \notin Finished /\ (f = "fullFinished" => v.knows) /\ f \in Finished
    <2>1. CASE kind \in AppData
      BY <2>1, Zenon DEF AppData, Handshake, ServerFinished
    <2>2. CASE kind = "ccs"
      <3>1. f = CcsFromServer(v.flow) /\ kind \notin AppData
        BY <2>2, Zenon DEF Handshake, AppData
      <3> QED
        BY <2>2, <3>1, Zenon DEF FlowOk, Flows, Finished, CcsFromServer
    <2>3. CASE kind \in Handshake
      <3>1. f = Server0x16(v.flow) /\ kind \notin AppData /\ kind # "ccs"
        BY <2>3, Zenon DEF Handshake, AppData
      <3> HIDE DEF f, kind
      <3> QED
        BY <3>1, Zenon DEF FlowOk, Flows, Finished, Server0x16, ServerFinished
    <2> QED
      BY <2>1, <2>2, <2>3, <1>k, Zenon DEF DecoyKinds, AllKinds, Handshake, AppData
  <1> HIDE DEF f, kind, m
  <1>5. /\ x \in VeilRec /\ x.held = v.held /\ x.out = v.out /\ x.kinds = v.kinds /\ x.base = v.base
        /\ x.cursor = v.cursor /\ x.phase = v.phase /\ x.knows = v.knows /\ x.flow = f /\ x.marked = v.marked
        /\ x.counter = v.counter
    BY <1>0, <1>2, Zenon DEF VeilRec
  <1> HIDE DEF x
  <1>6. CASE kind \in AppData
    <2>1. w = [x EXCEPT !.counter = v.counter + 1]
      BY <1>3, <1>5, <1>6, Zenon
    <2>2. /\ w \in VeilRec /\ w.held = v.held /\ w.out = v.out /\ w.kinds = v.kinds /\ w.base = v.base
          /\ w.cursor = v.cursor /\ w.phase = v.phase /\ w.knows = v.knows /\ w.flow = f /\ w.marked = v.marked
      BY <1>1, <1>5, <2>1, ZenonT(30) DEF VeilRec
    <2> QED
      BY <2>2, <1>4, <1>6, Zenon DEF FlowOk
  <1>7. CASE kind \notin AppData /\ (kind = "ccs" \/ f = "reject" \/ ~ServerFinished(f))
    <2>1. w = x \/ w = [x EXCEPT !.curve = TRUE]
      BY <1>3, <1>7, Zenon
    <2>2. /\ w \in VeilRec /\ w.held = v.held /\ w.out = v.out /\ w.kinds = v.kinds /\ w.base = v.base
          /\ w.cursor = v.cursor /\ w.phase = v.phase /\ w.knows = v.knows /\ w.flow = f /\ w.marked = v.marked
      <3>1. CASE w = x
        BY <3>1, <1>5, Zenon
      <3>2. CASE w = [x EXCEPT !.curve = TRUE]
        BY <3>2, <1>5, Zenon DEF VeilRec
      <3> QED
        BY <2>1, <3>1, <3>2, Zenon
    <2> QED
      BY <2>2, <1>2, <1>4, <1>7, Zenon DEF FlowOk
  <1>8. CASE kind \notin AppData /\ kind # "ccs" /\ ServerFinished(f) /\ f = "resumeFinished" /\ ~v.knows
    <2>1. w = [x EXCEPT !.flow = "reject"]
      BY <1>3, <1>8, Zenon DEF TicketOk
    <2>2. "reject" \in Flows
      BY Zenon DEF Flows
    <2> QED
      BY <2>1, <2>2, <1>5, Zenon DEF VeilRec
  <1>9. CASE kind \notin AppData /\ kind # "ccs" /\ ServerFinished(f) /\ ~(f = "resumeFinished" /\ ~v.knows)
    <2>0. f # "reject"
      BY <1>9, Zenon DEF ServerFinished
    <2>1. w = [x EXCEPT !.marked = m]
      BY <1>3, <1>5, <1>9, <2>0, Zenon DEF PrepareServerAuth, TicketOk, m
    <2>2. /\ w \in VeilRec /\ w.held = v.held /\ w.out = v.out /\ w.kinds = v.kinds /\ w.base = v.base
          /\ w.cursor = v.cursor /\ w.phase = v.phase /\ w.knows = v.knows /\ w.flow = f /\ w.marked = m
      BY <1>1, <1>5, <2>1, ZenonT(30) DEF VeilRec
    <2>3. v.marked = {} /\ Single(m)
      <3>1. v.marked = {}
        BY <1>4, <1>9, Zenon DEF FlowOk
      <3> QED
        BY <3>1, OneMark, Zenon DEF m
    <2>4. v.knows /\ f \in Finished
      BY <1>4, <1>9, Zenon DEF ServerFinished
    <2> QED
      BY <2>0, <2>2, <2>3, <2>4, <1>2, Zenon DEF FlowOk
  <1> QED
    BY <1>6, <1>7, <1>8, <1>9, Zenon

\* handle_tls12_inbound: the client's application data ends the handshake only
\* after the server's part.
LEMMA Inbound ==
  ASSUME NEW v, Steady(v), FlowOk(v), NEW w, w = HandleTls12Inbound(v)
  PROVE  /\ w \in VeilRec /\ w.held = v.held /\ w.out = v.out /\ w.kinds = v.kinds
         /\ w.base = v.base /\ w.cursor = v.cursor /\ w.phase = v.phase /\ w.knows = v.knows
         /\ w.marked = v.marked
         /\ \/ w.flow = "reject" \/ FlowOk(w)
            \/ w.flow = "client0x17" /\ w.knows /\ Single(w.marked) /\ Peek(w, "client") \in AppData
  <1> DEFINE kind == Peek(v, "client")
             g == CASE kind = "ccs" -> CcsFromClient(v.flow)
                    [] kind \in Handshake /\ v.flow = "initial" ->
                         IF v.curve /\ KeyExchangeOk(v) THEN "ckeVerified" ELSE "reject"
                    [] kind \in Handshake /\ v.flow # "initial" -> v.flow
                    [] kind \in AppData -> Client0x17(v.flow)
                    [] OTHER -> "reject"
  <1>0. v \in VeilRec /\ "client" \in Ends
    BY Zenon DEF Steady, Ends
  <1>1. w = [v EXCEPT !.flow = g]
    BY Zenon DEF HandleTls12Inbound
  <1>2. \/ kind = "ccs" /\ g = CcsFromClient(v.flow)
        \/ kind \in Handshake /\ v.flow = "initial" /\ g = "ckeVerified" /\ v.knows
        \/ kind \in Handshake /\ v.flow # "initial" /\ g = v.flow
        \/ kind \in AppData /\ g = Client0x17(v.flow)
        \/ g = "reject"
    BY Zenon DEF Handshake, AppData, KeyExchangeOk
  <1> HIDE DEF g, kind
  <1>3. /\ g \in Flows
        /\ \/ g = "reject"
           \/ /\ g # "client0x17" /\ (g \notin {"initial", "resumeServerCcs"} => v.knows)
              /\ g \in Finished <=> v.flow \in Finished
           \/ g = "client0x17" /\ kind \in AppData /\ v.flow \in Finished /\ v.knows
    BY <1>2, Zenon DEF FlowOk, Flows, Finished, CcsFromClient, Client0x17
  <1>4. /\ w \in VeilRec /\ w.held = v.held /\ w.out = v.out /\ w.kinds = v.kinds
        /\ w.base = v.base /\ w.cursor = v.cursor /\ w.phase = v.phase /\ w.knows = v.knows
        /\ w.marked = v.marked /\ w.flow = g
    BY <1>0, <1>1, <1>3, Zenon DEF VeilRec
  <1>5. Peek(w, "client") = kind
    BY <1>4, Zenon DEF Peek, kind
  <1> QED
    BY <1>3, <1>4, <1>5, Zenon DEF FlowOk

\* try_read_tls12_till_client_application_data
LEMMA VeilByTls12 == ASSUME VeilInv, NEW p \in Ends, Tls12(p) PROVE VeilInv'
  <1>0. veil.phase = "tls12" /\ "tls12" \in Open \ {"st-hello", "st-server"}
    BY Zenon DEF Tls12, Open, Phases
  <1>1. PICK v \in ReadFromStream(veil, p) :
          LET w == IF p = "decoy" THEN HandleTls12Outbound(v) ELSE HandleTls12Inbound(v)
          IN  veil' = IF ~Readable(v, p) THEN Fallback(v)
                      ELSE IF w.flow = "reject" THEN Fallback(w)
                      ELSE IF w.flow = "client0x17" THEN [w EXCEPT !.phase = "relay"]
                      ELSE Carry(NextRecord(w, p), p)
    BY Zenon DEF Tls12
  <1>2. Steady(v) /\ v \in VeilRec /\ Sent(v) /\ Proved(v) /\ v.phase = "tls12" /\ (~v.eof => HasNext(v, p))
    BY <1>0, Underway, Zenon
  <1>3. CASE ~Readable(v, p)
    BY <1>1, <1>2, <1>3, FallsBack, Zenon
  <1>4. CASE Readable(v, p)
    <2> DEFINE w == IF p = "decoy" THEN HandleTls12Outbound(v) ELSE HandleTls12Inbound(v)
    <2>1. HasNext(v, p) /\ FlowOk(v)
      BY <1>2, <1>4, Zenon DEF Readable, Proved
    <2>2. /\ w \in VeilRec /\ w.held = v.held /\ w.out = v.out /\ w.kinds = v.kinds
          /\ w.base = v.base /\ w.cursor = v.cursor /\ w.phase = v.phase /\ w.knows = v.knows
          /\ \/ w.flow = "reject" \/ FlowOk(w)
             \/ w.flow = "client0x17" /\ w.knows /\ Single(w.marked) /\ Peek(w, "client") \in AppData
      <3>1. CASE p = "decoy"
        <4>1. w = HandleTls12Outbound(v)
          BY <3>1, Zenon
        <4> HIDE DEF w
        <4> QED
          BY <3>1, <4>1, <1>2, <2>1, Outbound, Zenon
      <3>2. CASE p # "decoy"
        <4>1. w = HandleTls12Inbound(v)
          BY <3>2, Zenon
        <4> HIDE DEF w
        <4> QED
          BY <4>1, <1>2, <2>1, Inbound, Zenon
      <3> QED
        BY <3>1, <3>2, Zenon
    <2>3. veil' = IF w.flow = "reject" THEN Fallback(w)
                  ELSE IF w.flow = "client0x17" THEN [w EXCEPT !.phase = "relay"]
                  ELSE Carry(NextRecord(w, p), p)
      BY <1>1, <1>4, Zenon
    <2> HIDE DEF w
    <2>4. Steady(w)
      BY <1>2, <2>2, Keeps, Zenon
    <2>5. CASE w.flow = "reject"
      <3>1. veil' = Fallback(w)
        BY <2>3, <2>5, Zenon
      <3> QED
        BY <2>4, <3>1, FallsBack, Zenon DEF Steady
    <2>6. CASE w.flow = "client0x17"
      <3>1. veil' = [w EXCEPT !.phase = "relay"]
        BY <2>3, <2>6, Zenon
      <3>2. w.knows /\ Single(w.marked) /\ Peek(w, "client") \in AppData
        BY <2>2, <2>6, Zenon DEF FlowOk
      <3> QED
        BY <2>4, <3>1, <3>2, TakesOver, Zenon
    <2>7. CASE w.flow # "reject" /\ w.flow # "client0x17"
      <3>1. veil' = Carry(NextRecord(w, p), p) /\ FlowOk(w)
        BY <2>2, <2>3, <2>7, Zenon
      <3>2. Steady(veil') /\ Alike(w, veil')
        BY <1>2, <2>1, <2>2, <3>1, Passes, Zenon
      <3>3. Proved(veil') /\ veil'.phase \in Open
        BY <1>0, <1>2, <2>2, <3>1, <3>2, Zenon DEF Proved, Alike, FlowOk
      <3> QED
        BY <3>2, <3>3, GoesOn, Zenon
    <2> QED
      BY <2>5, <2>6, <2>7, Zenon
  <1> QED
    BY <1>3, <1>4, Zenon

\* ShadowTLS reads the two hellos as one record each.
LEMMA OneRecord ==
  ASSUME Steady(veil), Prompt(veil), NEW p \in Ends, ~HasNext(veil, p), NEW v \in ReadRecord(veil, p)
  PROVE  /\ Steady(v) /\ Alike(veil, v)
         /\ ~v.eof => LET w == Carry(NextRecord(v, p), p)
                      IN  /\ Steady(w) /\ Alike(veil, w) /\ Prompt(w)
                          /\ \A q \in Ends : q # p /\ ~HasNext(veil, q) => ~HasNext(w, q)
  <1>1. CASE v = [veil EXCEPT !.eof = TRUE]
    <2>1. /\ v \in VeilRec /\ Alike(veil, v) /\ v.held = veil.held /\ v.out = veil.out
          /\ v.kinds = veil.kinds /\ v.base = veil.base /\ v.cursor = veil.cursor /\ v.eof
      BY <1>1, Zenon DEF Steady, VeilRec, Alike
    <2> QED
      BY <2>1, Keeps, Zenon
  <1>2. CASE v \in Decode(veil, p) /\ Len_(v, p) = Len_(veil, p) + 1
    <2> DEFINE w == Carry(NextRecord(v, p), p)
    <2>1. /\ Steady(v) /\ Alike(veil, v) /\ HasNext(v, p) /\ Prompt(v) /\ v.cursor[p] = Len_(veil, p)
          /\ \A q \in Ends : q # p => v.cursor[q] = veil.cursor[q] /\ v.kinds[q] = veil.kinds[q]
      BY <1>2, Decodes, ZenonT(30)
    <2>2. /\ Steady(w) /\ Alike(v, w) /\ (HasNext(w, p) \/ w.base[p] = w.cursor[p]) /\ w.kinds = v.kinds
          /\ w.cursor[p] = v.cursor[p] + 1
          /\ \A q \in Ends : q # p => w.base[q] = v.base[q] /\ w.cursor[q] = v.cursor[q]
      BY <2>1, Carries, SMTT(30)
    <2> HIDE DEF w
    <2>3. w.base[p] = w.cursor[p]
      <3>1. Len_(w, p) = Len_(veil, p) + 1 /\ w.cursor[p] = Len_(veil, p) + 1 /\ Len_(veil, p) \in Nat
        BY <1>2, <2>1, <2>2 DEF Len_, Steady, VeilRec
      <3> QED
        BY <3>1, <2>2, SMTT(30) DEF HasNext
    <2>4. Prompt(w)
      BY <2>1, <2>2, <2>3, Zenon DEF Prompt
    <2>5. \A q \in Ends : q # p /\ ~HasNext(veil, q) => ~HasNext(w, q)
      BY <2>1, <2>2, Zenon DEF HasNext, Len_
    <2>6. Alike(veil, w)
      BY <2>1, <2>2, Zenon DEF Alike
    <2> QED
      BY <2>1, <2>2, <2>4, <2>5, <2>6, Zenon DEF w
  <1> QED
    BY <1>1, <1>2, Zenon DEF ReadRecord

\* ShadowTLS: the client's hello
LEMMA VeilByShadowHello == ASSUME VeilInv, ShadowHello PROVE VeilInv'
  <1>0. veil.phase = "st-hello" /\ {"client", "decoy"} \subseteq Ends /\ "client" # "decoy"
        /\ {"st-hello", "st-server"} \subseteq Open \cap Phases
    BY Zenon DEF ShadowHello, Ends, Open, Phases
  <1>1. PICK v \in ReadRecord(veil, "client") :
          LET w == Carry(NextRecord(v, "client"), "client")
          IN  veil' = IF ~Whole(v, "client") THEN Refuse(v)
                      ELSE IF VerifyHello(v) THEN [w EXCEPT !.phase = "st-server"] ELSE Fallback(w)
    BY Zenon DEF ShadowHello
  <1> DEFINE w == Carry(NextRecord(v, "client"), "client")
  <1>2. Steady(veil) /\ Prompt(veil) /\ ~HasNext(veil, "client") /\ ~HasNext(veil, "decoy")
    BY <1>0, Zenon DEF VeilInv, Proved
  <1>3. /\ Steady(v) /\ Alike(veil, v)
        /\ ~v.eof => Steady(w) /\ Alike(veil, w) /\ Prompt(w) /\ ~HasNext(w, "decoy")
    BY <1>0, <1>2, OneRecord, Zenon
  <1>4. veil' = IF ~Whole(v, "client") THEN Refuse(v)
                ELSE IF VerifyHello(v) THEN [w EXCEPT !.phase = "st-server"] ELSE Fallback(w)
    BY <1>1, Zenon
  <1> HIDE DEF w
  <1>5. CASE ~Whole(v, "client")
    BY <1>3, <1>4, <1>5, Refuses, Zenon
  <1>6. CASE Whole(v, "client") /\ ~VerifyHello(v)
    <2>1. Steady(w) /\ veil' = Fallback(w)
      BY <1>3, <1>4, <1>6, Zenon DEF Whole
    <2> QED
      BY <2>1, FallsBack, Zenon DEF Steady
  <1>7. CASE Whole(v, "client") /\ VerifyHello(v)
    <2>1. Steady(w) /\ Alike(veil, w) /\ Prompt(w) /\ ~HasNext(w, "decoy") /\ v.knows
          /\ veil' = [w EXCEPT !.phase = "st-server"]
      BY <1>3, <1>4, <1>7, Zenon DEF Whole, VerifyHello
    <2>2. /\ Steady(veil') /\ Prompt(veil') /\ veil'.phase = "st-server" /\ veil'.knows = w.knows
          /\ veil'.kinds = w.kinds /\ veil'.cursor = w.cursor
      BY <1>0, <2>1, Turns
    <2>3. Proved(veil')
      BY <1>3, <2>1, <2>2, Zenon DEF Proved, Alike, HasNext, Len_
    <2> QED
      BY <1>0, <2>2, <2>3, GoesOn, Zenon
  <1> QED
    BY <1>5, <1>6, <1>7, Zenon

\* and the server's
LEMMA VeilByShadowServerHello == ASSUME VeilInv, ShadowServerHello PROVE VeilInv'
  <1>0. veil.phase = "st-server" /\ "decoy" \in Ends
        /\ {"st-server", "st-frames"} \subseteq Open \cap Phases
    BY Zenon DEF ShadowServerHello, Ends, Open, Phases
  <1>1. PICK v \in ReadRecord(veil, "decoy") :
          LET w == Carry(NextRecord(v, "decoy"), "decoy")
          IN  veil' = IF ~Whole(v, "decoy") THEN Refuse(v)
                      ELSE IF Peek(v, "decoy") \in {"hello", "more"} /\ (v.strict => Strict13(v))
                           THEN [w EXCEPT !.phase = "st-frames"] ELSE Fallback(w)
    BY Zenon DEF ShadowServerHello
  <1> DEFINE w == Carry(NextRecord(v, "decoy"), "decoy")
  <1>2. Steady(veil) /\ Prompt(veil) /\ ~HasNext(veil, "decoy") /\ veil.knows
    BY <1>0, Zenon DEF VeilInv, Proved
  <1>3. Steady(v) /\ Alike(veil, v) /\ (~v.eof => Steady(w) /\ Alike(veil, w) /\ Prompt(w))
    BY <1>0, <1>2, OneRecord, Zenon
  <1>4. \/ veil' = Refuse(v)
        \/ ~v.eof /\ veil' = [w EXCEPT !.phase = "st-frames"]
        \/ ~v.eof /\ veil' = Fallback(w)
    BY <1>1, Zenon DEF Whole
  <1> HIDE DEF w
  <1>5. CASE veil' = Refuse(v)
    BY <1>3, <1>5, Refuses, Zenon
  <1>6. CASE ~v.eof /\ veil' = Fallback(w)
    BY <1>3, <1>6, FallsBack, Zenon DEF Steady
  <1>7. CASE ~v.eof /\ veil' = [w EXCEPT !.phase = "st-frames"]
    <2>1. Steady(w) /\ Alike(veil, w) /\ Prompt(w) /\ veil' = [w EXCEPT !.phase = "st-frames"]
      BY <1>3, <1>7, Zenon
    <2>2. Steady(veil') /\ Prompt(veil') /\ veil'.phase = "st-frames" /\ veil'.knows = w.knows
      BY <1>0, <2>1, Turns
    <2>3. Proved(veil')
      BY <1>2, <2>1, <2>2, Zenon DEF Proved, Alike
    <2> QED
      BY <1>0, <2>2, <2>3, GoesOn, Zenon
  <1> QED
    BY <1>4, <1>5, <1>6, <1>7, Zenon

\* A frame of ShadowTLS goes on by itself.
LEMMA OneFrame ==
  ASSUME NEW v, Steady(v), Prompt(v), NEW p \in Ends, HasNext(v, p), NEW w, w = One(v, p)
  PROVE  Steady(w) /\ Prompt(w) /\ Alike(v, w)
  <1>0. v \in VeilRec /\ Sent(v) /\ Aligned(v)
    BY Zenon DEF Steady
  <1> DEFINE c == v.cursor[p] + 1
             o == Append(v.out[p], c)
  <1>1. /\ v.kinds \in [Ends -> Seq(AllKinds)] /\ v.base \in [Ends -> Nat] /\ v.cursor \in [Ends -> Nat]
        /\ v.out \in [Ends -> Seq(Nat)] /\ v.base[p] = v.cursor[p] /\ v.out[p] = Ids(0, v.cursor[p])
        /\ v.cursor[p] \in Nat
    BY <1>0, Zenon DEF VeilRec, Prompt, Sent
  <1>2. o = Ids(0, c) /\ o \in Seq(Nat) /\ c \in Nat /\ c <= Len_(v, p)
    <2>1. Append(Ids(0, v.cursor[p]), v.cursor[p] + 1) = Ids(0, v.cursor[p] + 1)
      BY ONLY <1>1, IdsNext, ZenonT(30)
    <2>2. c \in Nat /\ 0 \in Nat /\ 0 <= c
      BY <1>1
    <2>3. Ids(0, c) \in Seq(Nat)
      BY ONLY <2>2, IdsAre, ZenonT(30)
    <2>4. c <= Len_(v, p)
      BY <1>1 DEF HasNext, Len_
    <2> QED
      BY <1>1, <2>1, <2>2, <2>3, <2>4, Zenon
  <1>3. w = [v EXCEPT !.cursor[p] = c, !.out[p] = o, !.base[p] = c]
    BY <1>0, <1>1, Zenon DEF One, NextRecord, VeilRec
  <1> HIDE DEF c, o
  <1>4. /\ w \in VeilRec /\ Alike(v, w) /\ w.held = v.held /\ w.kinds = v.kinds
        /\ w.cursor = [v.cursor EXCEPT ![p] = c] /\ w.base = [v.base EXCEPT ![p] = c]
        /\ w.out = [v.out EXCEPT ![p] = o]
    <2>1. /\ [v.cursor EXCEPT ![p] = c] \in [Ends -> Nat] /\ [v.base EXCEPT ![p] = c] \in [Ends -> Nat]
          /\ [v.out EXCEPT ![p] = o] \in [Ends -> Seq(Nat)]
      BY <1>1, <1>2, Zenon
    <2>2. w = [v EXCEPT !.cursor = [v.cursor EXCEPT ![p] = c], !.out = [v.out EXCEPT ![p] = o],
                        !.base = [v.base EXCEPT ![p] = c]]
      BY <1>3, Zenon
    <2> QED
      BY <1>0, <2>1, <2>2, ZenonT(30) DEF VeilRec, Alike
  <1>5. ASSUME NEW q \in Ends
        PROVE  /\ w.base[q] = w.cursor[q] /\ w.cursor[q] <= Len_(w, q) /\ w.out[q] = Ids(0, w.base[q])
               /\ w.base[q] \in Nat
    <2>1. CASE q = p
      BY <2>1, <1>1, <1>2, <1>4 DEF Len_
    <2>2. CASE q # p
      BY <2>2, <1>0, <1>1, <1>4, Zenon DEF Len_, Prompt, Sent
    <2> QED
      BY <2>1, <2>2, Zenon
  <1>6. Sent(w) /\ Aligned(w) /\ Prompt(w)
    BY <1>5 DEF Sent, Aligned, Prompt
  <1> QED
    BY <1>4, <1>6, Zenon DEF Steady

\* The client's first frame with a good tag: the node has all of it.
LEMMA FirstData ==
  ASSUME NEW v, Steady(v), Prompt(v), HasNext(v, "client"), v.knows, Peek(v, "client") = "data",
         veil' = [v EXCEPT !.phase = "relay", !.held["client"] = Buffered(v, "client")]
  PROVE  VeilInv'
  <1>0. v \in VeilRec /\ Sent(v) /\ "client" \in Ends /\ "relay" \in Phases
    BY Zenon DEF Steady, Ends, Phases
  <1> DEFINE b == Buffered(v, "client")
  <1>1. /\ b \in Seq(Nat)
        /\ Ids(0, v.base["client"]) \o b = Ids(0, Len_(v, "client") + (IF v.part["client"] THEN 1 ELSE 0))
    BY <1>0, HandsOn, Zenon
  <1>2. b # <<>>
    <2> DEFINE i == Ids(v.base["client"], Len_(v, "client"))
               t == IF v.part["client"] THEN <<Len_(v, "client") + 1>> ELSE <<>>
    <2>1. v.base["client"] \in Nat /\ Len_(v, "client") \in Nat /\ v.base["client"] < Len_(v, "client")
      BY <1>0 DEF VeilRec, Prompt, HasNext, Len_
    <2>2. i \in Seq(Nat) /\ Len(i) > 0
      <3>1. v.base["client"] <= Len_(v, "client") /\ Len_(v, "client") - v.base["client"] > 0
        BY <2>1
      <3>2. i \in Seq(Nat) /\ Len(i) = Len_(v, "client") - v.base["client"]
        BY ONLY <2>1, <3>1, IdsAre, Zenon
      <3> QED
        BY <3>1, <3>2, Zenon
    <2>3. t \in Seq(Nat)
      BY <2>1
    <2>4. b = i \o t
      BY Zenon DEF Buffered
    <2> HIDE DEF i, t, b
    <2>5. Len(b) = Len(i) + Len(t) /\ Len(t) \in Nat /\ Len(i) \in Nat
      BY <2>2, <2>3, <2>4, Joined
    <2> QED
      BY <2>2, <2>5
  <1> HIDE DEF b
  <1>3. /\ veil' \in VeilRec /\ veil'.phase = "relay" /\ veil'.knows = v.knows /\ veil'.out = v.out
        /\ veil'.kinds = v.kinds /\ veil'.base = v.base /\ veil'.part = v.part /\ veil'.cursor = v.cursor
        /\ veil'.held["client"] = b
    <2>1. v.held \in [Ends -> Seq(Nat)] /\ [v.held EXCEPT !["client"] = b] \in [Ends -> Seq(Nat)]
      BY <1>0, <1>1, Zenon DEF VeilRec
    <2>2. veil' = [v EXCEPT !.phase = "relay", !.held = [v.held EXCEPT !["client"] = b]]
      BY Zenon DEF b
    <2> DEFINE h == [v.held EXCEPT !["client"] = b]
    <2>3. h \in [Ends -> Seq(Nat)] /\ h["client"] = b /\ veil' = [v EXCEPT !.phase = "relay", !.held = h]
      BY <1>0, <2>1, <2>2, Zenon
    <2> HIDE DEF h
    <2> QED
      BY <1>0, <2>3, ZenonT(30) DEF VeilRec
  <1>4. Sent(veil')
    BY <1>0, <1>3, Zenon DEF Sent, Len_
  <1>5. VeilKept'
    <2>1. \A p \in Ends : veil'.out[p] = Ids(0, veil'.base[p])
      BY <1>4, Zenon DEF Sent
    <2>2. Peek(veil', "client") \in AppData
      BY <1>3, Zenon DEF Peek, AppData
    <2>3. veil'.out["client"] \o veil'.held["client"]
          = Ids(0, Len_(veil', "client") + (IF veil'.part["client"] THEN 1 ELSE 0))
      BY <2>1, <1>0, <1>1, <1>3, Zenon DEF Len_
    <2> QED
      BY <2>1, <2>2, <2>3, <1>2, <1>3, Zenon DEF VeilKept, Peek, Len_
  <1> QED
    BY <1>3, <1>4, <1>5, Zenon DEF VeilInv, Open, Sent, Len_

\* ShadowTLS: the frames after the hellos
LEMMA VeilByShadowFrame == ASSUME VeilInv, NEW p \in Ends, ShadowFrame(p) PROVE VeilInv'
  <1>0. veil.phase = "st-frames" /\ "st-frames" \in Open \ {"st-hello", "st-server"}
    BY Zenon DEF ShadowFrame, Open, Phases
  <1> DEFINE M(v) == [v EXCEPT !.marked = @ \cup {v.cursor[p] + 1}]
  <1>1. PICK v \in ReadFromStream(veil, p) :
          \/ veil' = Refuse(v)
          \/ /\ ~v.eof /\ p = "client" /\ Peek(v, p) = "data"
             /\ veil' = [v EXCEPT !.phase = "relay", !.held["client"] = Buffered(v, "client")]
          \/ ~v.eof /\ veil' = One(M(v), p)
          \/ ~v.eof /\ veil' = One(v, p)
    BY Zenon DEF ShadowFrame, Whole
  <1>2. Steady(v) /\ v \in VeilRec /\ Proved(v) /\ v.phase = "st-frames" /\ (~v.eof => HasNext(v, p))
    BY <1>0, Underway, Zenon
  <1>3. Prompt(v) /\ v.knows
    BY <1>2, Zenon DEF Proved
  <1>4. CASE veil' = Refuse(v)
    BY <1>2, <1>4, Refuses, Zenon
  <1>5. CASE /\ ~v.eof /\ p = "client" /\ Peek(v, p) = "data"
             /\ veil' = [v EXCEPT !.phase = "relay", !.held["client"] = Buffered(v, "client")]
    BY <1>2, <1>3, <1>5, FirstData, Zenon
  <1>6. ASSUME NEW u, ~v.eof, u = v \/ u = M(v), veil' = One(u, p) PROVE VeilInv'
    <2>1. Steady(u) /\ Prompt(u) /\ HasNext(u, p) /\ u.phase = "st-frames" /\ u.knows
      <3>1. CASE u = v
        BY <3>1, <1>2, <1>3, <1>6, Zenon
      <3>2. CASE u = M(v)
        <4> DEFINE m == v.marked \cup {v.cursor[p] + 1}
        <4>1. m \in SUBSET Nat
          BY <1>2 DEF VeilRec
        <4>2. u = [v EXCEPT !.marked = m]
          BY <3>2, Zenon
        <4> HIDE DEF m
        <4>3. /\ u \in VeilRec /\ u.held = v.held /\ u.out = v.out /\ u.kinds = v.kinds
              /\ u.base = v.base /\ u.cursor = v.cursor /\ u.phase = v.phase /\ u.knows = v.knows
          BY <1>2, <4>1, <4>2, Zenon DEF VeilRec
        <4> QED
          BY <4>3, <1>2, <1>3, <1>6, Keeps, Zenon
      <3> QED
        BY <3>1, <3>2, <1>6, Zenon
    <2>2. Steady(veil') /\ Prompt(veil') /\ Alike(u, veil')
      BY <1>6, <2>1, OneFrame, Zenon
    <2>3. Proved(veil') /\ veil'.phase \in Open
      BY <1>0, <2>1, <2>2, Zenon DEF Proved, Alike
    <2> QED
      BY <2>2, <2>3, GoesOn, Zenon
  <1> QED
    BY <1>1, <1>4, <1>5, <1>6, Zenon

\* The handshake with the decoy (accept and try_handshake of ResTLS, accept of
\* ShadowTLS): each side gets the other's records once, in order and without a gap;
\* whoever is left to the decoy has every byte already read handed on; and the node
\* takes a stream over only from a client that knows the password, at a record of
\* application data, with its own proof in exactly one record.  For any number of
\* records on either side and in one read.
THEOREM VeilKeptHolds == VeilSpec => []VeilKept
  <1>1. VeilInit \/ VeilNone => VeilInv
    <2> SUFFICES ASSUME NEW phase \in {"chello", "st-hello", "none"}, NEW knows \in BOOLEAN,
                        NEW tls13 \in BOOLEAN, NEW strict \in BOOLEAN,
                        veil = Veiled(phase, knows, tls13, strict)
                 PROVE  VeilInv
      BY Zenon DEF VeilInit, VeilNone
    <2>0. /\ <<>> \in Seq(AllKinds) /\ <<>> \in Seq(Nat) /\ <<>> \in Seq(DecoyKinds) /\ Len(<<>>) = 0
          /\ Ids(0, 0) = <<>> /\ "initial" \in Flows /\ phase \in Phases
          /\ "decoy" \in Ends /\ "client" \in Ends
      <3>1. Ids(0, 0) = <<>>
        BY IdsNext, Zenon
      <3> QED
        BY <3>1 DEF Flows, Phases, Ends
    <2>1. /\ veil.phase = phase /\ veil.kinds = [p \in Ends |-> <<>>] /\ veil.base = [p \in Ends |-> 0]
          /\ veil.cursor = [p \in Ends |-> 0] /\ veil.out = [p \in Ends |-> <<>>]
          /\ veil.held = [p \in Ends |-> <<>>] /\ veil.flow = "initial" /\ veil.marked = {}
      BY Zenon DEF Veiled
    <2>2. veil \in VeilRec
      BY <2>0, Zenon DEF Veiled, VeilRec
    <2>3. Sent(veil) /\ Aligned(veil) /\ Prompt(veil) /\ \A p \in Ends : veil.held[p] = <<>> /\ ~HasNext(veil, p)
      BY <2>0, <2>1 DEF Sent, Aligned, Prompt, HasNext, Len_
    <2>4. Steady(veil)
      BY <2>0, <2>1, <2>2, <2>3, Zenon DEF Steady
    <2>5. Proved(veil)
      BY <2>0, <2>1, <2>3, Zenon DEF Proved
    <2>6. VeilKept
      BY <2>1, <2>3, Zenon DEF VeilKept, Sent
    <2> QED
      BY <2>2, <2>3, <2>4, <2>5, <2>6, Zenon DEF VeilInv
  <1>2. VeilInv /\ [VeilNext]_veil => VeilInv'
    <2> SUFFICES ASSUME VeilInv, [VeilNext]_veil PROVE VeilInv'
      BY ZenonT(30)
    <2>1. CASE UNCHANGED veil
      BY <2>1, ZenonT(30) DEF VeilInv, Sent, Steady, Aligned, Proved, Prompt, FlowOk, VeilKept,
          HasNext, Peek, Len_
    <2> QED
      BY <2>1, VeilByClientHello, VeilByServerHello, VeilByTill17, VeilByClient13, VeilByDecoy13,
         VeilByTls12, VeilByShadowFrame, VeilByShadowHello, VeilByShadowServerHello, Zenon DEF VeilNext
  <1>3. VeilInv => VeilKept
    BY Zenon DEF VeilInv
  <1> QED
    BY <1>1, <1>2, <1>3, PTL DEF VeilSpec

=============================================================================
