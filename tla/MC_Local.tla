------------------------------ MODULE MC_Local ------------------------------
(* Instances of LocalTransaction for TLC.                                  *)
EXTENDS LocalTransaction

CONSTANTS f, d, p1, p2, op1, op2

MCIds == 1 .. 4
MCOriginals == {f, d}
MCTrees == {d, 3}
MCPaths == {p1, p2}
MCOps == {op1, op2}
MCOpPath == [op \in MCOps |-> IF op = op1 THEN p1 ELSE p2]

Empty == [p \in MCPaths |-> Void]
Filled == [p \in MCPaths |-> IF p = p1 THEN f ELSE d]

Scene(kinds, ids, ops, dest, links, maxCrashes, maxErrors) ==
    [kinds |-> kinds, ids |-> ids, ops |-> ops, dest |-> dest, links |-> links,
     maxCrashes |-> maxCrashes, maxErrors |-> maxErrors, maxFaults |-> 2]

(* Two uploads on two paths with deletions, one in flight while the        *)
(* running service recovers the unknown result of the other, and with one  *)
(* of them attempted twice; without anchors, renames and new directories   *)
(* beside an upload; replacements of a file and of a tree by WebDAV PUT,   *)
(* COPY and MOVE, and copies in the browser, with deletions.               *)
MCScenes == {
    Scene({"new", "delete"}, {1, 2}, MCOps, Empty, TRUE, 2, 1),
    Scene({"new"}, {1, 2, 4}, MCOps, Empty, TRUE, 1, 0),
    Scene({"new", "rename", "mkdir"}, {1, 2, 3}, {op1}, Empty, FALSE, 2, 1),
    Scene({"put", "move", "copy"}, {1, 3}, {}, Filled, TRUE, 2, 1),
    Scene({"move", "delete"}, {1, 3}, {}, Filled, TRUE, 2, 1),
    Scene({"put", "delete"}, {1}, {}, Filled, TRUE, 2, 1),
    Scene({"copy", "copynew", "delete"}, {1, 3}, {}, Filled, TRUE, 2, 1)}

=============================================================================
