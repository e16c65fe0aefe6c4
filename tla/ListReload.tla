----------------------------- MODULE ListReload -----------------------------
(***************************************************************************)
(* The block list (and, alike, the white list) of AuditController, read    *)
(* from a local file.  MasterServer::run loads it once, then starts the    *)
(* nodes; every node, when the panel has described it, runs a watcher that *)
(* compares the file's modification time and reloads the one controller    *)
(* all nodes share (src/proxy/server.rs, src/proxy/node.rs).               *)
(*                                                                         *)
(* A content is its version number, which is also its modification time.   *)
(***************************************************************************)
EXTENDS Naturals

CONSTANTS
    Node,
    MaxEdits,   \* bound on edits of the file
    MaxFaults   \* bound on reads of the file that fail

Unseen == MaxEdits + 1

VARIABLES
    file,       \* version of the file
    list,       \* version the controller holds
    pc,         \* of each node: "boot", "watch", "read", "reload"
    last,       \* last_block_mtime
    seen,       \* the modification time the watcher has just read
    content,    \* the version it has just read
    faults,
    missed      \* history: versions whose time was noted but not their content

vars == <<file, list, pc, last, seen, content, faults, missed>>

Init ==
    /\ file = 0
    /\ list = 0
    /\ pc = [n \in Node |-> "boot"]
    /\ last = [n \in Node |-> Unseen]
    /\ seen = [n \in Node |-> 0]
    /\ content = [n \in Node |-> 0]
    /\ faults = 0
    /\ missed = {}

-----------------------------------------------------------------------------
Edit ==
    /\ file < MaxEdits
    /\ file' = file + 1
    /\ UNCHANGED <<list, pc, last, seen, content, faults, missed>>

\* The panel has described the node and its watcher is spawned.
StartWatch(n) ==
    /\ pc[n] = "boot"
    /\ pc' = [pc EXCEPT ![n] = "watch"]
    /\ UNCHANGED <<file, list, last, seen, content, faults, missed>>

\* A tick of the watcher: the file is newer than at the last tick, or not.
CheckTime(n) ==
    /\ pc[n] = "watch"
    /\ IF last[n] # Unseen /\ file > last[n]
       THEN /\ pc' = [pc EXCEPT ![n] = "read"]
            /\ seen' = [seen EXCEPT ![n] = file]
            /\ UNCHANGED <<last, missed>>
       ELSE /\ last' = [last EXCEPT ![n] = file]
            /\ missed' = IF last[n] = Unseen THEN missed \cup {file} ELSE missed
            /\ UNCHANGED <<pc, seen>>
    /\ UNCHANGED <<file, list, content, faults>>

\* The content is read; when that fails the new time is noted all the same.
ReadFile(n) ==
    /\ pc[n] = "read"
    /\ \/ /\ pc' = [pc EXCEPT ![n] = "reload"]
          /\ content' = [content EXCEPT ![n] = file]
          /\ UNCHANGED <<last, faults, missed>>
       \/ /\ faults < MaxFaults
          /\ faults' = faults + 1
          /\ pc' = [pc EXCEPT ![n] = "watch"]
          /\ last' = [last EXCEPT ![n] = seen[n]]
          /\ missed' = missed \cup {seen[n]}
          /\ UNCHANGED content
    /\ UNCHANGED <<file, list, seen>>

\* Variant with a defect: the time is read again after the reload.
ReloadNotesNow(n) ==
    /\ pc[n] = "reload"
    /\ list' = content[n]
    /\ last' = [last EXCEPT ![n] = file]
    /\ pc' = [pc EXCEPT ![n] = "watch"]
    /\ UNCHANGED <<file, seen, content, faults, missed>>

\* reload_block_list, and the time of before the read is noted.
Reload(n) ==
    /\ pc[n] = "reload"
    /\ list' = content[n]
    /\ last' = [last EXCEPT ![n] = seen[n]]
    /\ pc' = [pc EXCEPT ![n] = "watch"]
    /\ UNCHANGED <<file, seen, content, faults, missed>>

Watcher(n) == StartWatch(n) \/ CheckTime(n) \/ ReadFile(n) \/ Reload(n)

Next == Edit \/ \E n \in Node : Watcher(n)

Spec == Init /\ [][Next]_vars

-----------------------------------------------------------------------------
\* The type invariant of the list reloading.
TypeOK ==
    /\ file \in 0..MaxEdits
    /\ list \in 0..MaxEdits
    /\ pc \in [Node -> {"boot", "watch", "read", "reload"}]
    /\ last \in [Node -> 0..MaxEdits \cup {Unseen}]
    /\ seen \in [Node -> 0..MaxEdits]
    /\ content \in [Node -> 0..MaxEdits]
    /\ faults \in 0..MaxFaults
    /\ missed \subseteq 0..MaxEdits

\* When every watcher has noted the newest time, the newest content is in
\* force, unless it was written before a watcher's first look or could not be
\* read: no order of the nodes' reads and reloads hides an edit.
NoHiddenEdit ==
    (\A n \in Node : pc[n] = "watch" /\ last[n] = file) =>
        list = file \/ file \in missed

\* The newest content is in force, with two exceptions: it was written before
\* a watcher's first look, which only notes the time, or a watcher could not
\* read it.
ListCurrent == list = file \/ file \in missed
=============================================================================
