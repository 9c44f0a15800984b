-------------------------- MODULE MC_FileRequests --------------------------
(* Instances of FileRequests for TLC.                                      *)
EXTENDS FileRequests

CONSTANTS l1, l2, w1, w2, r1

MCListers == {l1, l2}
MCWriters == {w1, w2}
MCReaders == {r1}

ByName == [accepts |-> {1, 2, 3}, sort |-> "name", direction |-> "asc"]
BySize == [accepts |-> {1, 2, 3}, sort |-> "size", direction |-> "desc"]
MCKeys == {ByName, BySize}
KeysOf(a, b) == l1 :> a @@ l2 :> b

(* A directory 3 and the files of the given names. *)
Holding(names) == [n \in {1, 2, 3} |->
    [v |-> 0, here |-> n \in names \cup {3}, size |-> IF n = 3 THEN 0 ELSE n, at |-> 1]]

Ask(op, n, cond, size) ==
    [op |-> op, n |-> n, to |-> 1, cond |-> cond, size |-> size, over |-> FALSE]
Transfer(op, n, to, over) ==
    [op |-> op, n |-> n, to |-> to, cond |-> "always", size |-> 1, over |-> over]
AsksOf(a, b) == w1 :> a @@ w2 :> b
Budget(aborts, errors, ticks, foreign, breaks, edits) ==
    "aborts" :> aborts @@ "errors" :> errors @@ "ticks" :> ticks @@ "foreign" :> foreign
    @@ "breaks" :> breaks @@ "edits" :> edits

(* Two traversals of one snapshot and a move; two of different ones; one   *)
(* with changes and a foreign one.  Two conditional writes and a foreign   *)
(* one; transfers over a file and deletions of it.  A download, then an    *)
(* archive, with changes of the file.                                      *)
Nobody == KeysOf({}, {})
MCCasts == {
    [clients |-> {}, keys |-> KeysOf({ByName}, {ByName}), initial |-> Holding({2}),
     budget |-> Budget(1, 0, 0, 0, 0, 0), asks |-> AsksOf({Ask("move", 2, "always", 1)}, {})],
    [clients |-> {}, keys |-> KeysOf({ByName}, {BySize}), initial |-> Holding({2}),
     budget |-> Budget(1, 0, 0, 0, 0, 0), asks |-> AsksOf({}, {})],
    [clients |-> {}, keys |-> KeysOf({}, MCKeys), initial |-> Holding({1, 2}),
     budget |-> Budget(1, 1, 0, 1, 0, 0),
     asks |-> AsksOf({Ask("put", 1, "always", 2), Ask("delete", 2, "always", 1),
                      Ask("delete", 3, "always", 1)}, {})],
    [clients |-> {}, keys |-> Nobody, initial |-> Holding({2}),
     budget |-> Budget(0, 0, 1, 1, 0, 0),
     asks |-> AsksOf({Ask("put", 2, c, 1) : c \in Conditions},
                     {Ask("put", 2, "match", 2), Ask("put", 2, "absent", 2),
                      Ask("delete", 2, "always", 1), Ask("new", 1, "always", 1)})],
    [clients |-> {}, keys |-> Nobody, initial |-> Holding({1, 2}),
     budget |-> Budget(0, 0, 0, 1, 0, 0),
     asks |-> AsksOf({Transfer(op, 2, 1, over) : op \in {"davmove", "davcopy"}, over \in BOOLEAN},
                     {Ask("delete", 1, "always", 1), Transfer("copy", 2, 1, FALSE)})],
    [clients |-> {}, keys |-> Nobody, initial |-> Holding({2}),
     budget |-> Budget(0, 0, 0, 1, 0, 0),
     asks |-> AsksOf({Ask("delete", 3, "always", 1)}, {Ask("mkdir", 3, "always", 1)})],
    [clients |-> {r1}, keys |-> Nobody, initial |-> Holding({2}),
     budget |-> Budget(0, 0, 1, 0, 1, 0),
     asks |-> AsksOf({Ask("put", 2, "always", 2)}, {Ask("put", 2, "always", 3)})],
    [clients |-> {Packer}, keys |-> Nobody, initial |-> Holding({1, 2}),
     budget |-> Budget(0, 0, 1, 0, 1, 1),
     asks |-> AsksOf({Ask("put", 2, "always", 2), Ask("delete", 1, "always", 1)}, {})]}

=============================================================================
