------------------------------ MODULE S3Contract ------------------------------
(***************************************************************************)
(* What the object-storage backend promises its callers, with no remote    *)
(* store, journal, gate or worker: a file changes only by an operation     *)
(* somebody asked for, each operation takes effect at most once, and an    *)
(* answer is a promise about the rest of the execution.  S3Transactions    *)
(* implements it.                                                          *)
(*                                                                         *)
(* A move is not atomic (file_move_transaction.rs: "S3 moves are not       *)
(* atomic"): the destination appears first, then the source goes away.     *)
(***************************************************************************)
EXTENDS Naturals

CONSTANTS Ops,       \* operations, each started at most once
          Files,     \* relative paths
          Strangers, \* writers of objects the backend did not write
          None       \* no object, no expectation

Modes == {"put", "create", "cond", "copy", "move", "delete"}
Writers == Ops \cup Strangers
Plans == [mode : Modes, from : Files, to : Files, expects : Writers \cup {None}]

VARIABLES content,   \* [Files -> who wrote the visible body, or None]
          effect,    \* [Ops -> "no" | "half" (a move's copy) | "yes"]
          plan,      \* [Ops -> None or what was asked: mode, from, to]
          answer     \* [Ops -> "none" | "committed" | "failed" | "unknown"]

vars == <<content, effect, plan, answer>>

Init == /\ content \in [Files -> Strangers \cup {None}]
        /\ effect = [o \in Ops |-> "no"]
        /\ plan = [o \in Ops |-> None]
        /\ answer = [o \in Ops |-> "none"]

Ask(o) == /\ plan[o] = None
          /\ \E p \in Plans : plan' = [plan EXCEPT ![o] = p]
          /\ UNCHANGED <<content, effect, answer>>

(* An operation told "failed" is over: it never takes effect afterwards.   *)
MayAct(o) == plan[o] # None /\ answer[o] # "failed"

(* A conditional upload replaces exactly the object its caller named.      *)
Replace(o) == /\ MayAct(o)
              /\ effect[o] = "no"
              /\ plan[o].mode \in {"put", "create", "cond"}
              /\ plan[o].mode = "create" => content[plan[o].to] = None
              /\ plan[o].mode = "cond" => content[plan[o].to] = plan[o].expects
              /\ content' = [content EXCEPT ![plan[o].to] = o]
              /\ effect' = [effect EXCEPT ![o] = "yes"]
              /\ UNCHANGED <<plan, answer>>

(* A copy, or the first half of a move, never replaces another body; a     *)
(* move adopts a destination that already holds the body of its source,    *)
(* and an unfinished move is copied once more when its destination is gone.*)
Duplicate(o) == /\ MayAct(o)
                /\ \/ plan[o].mode = "copy" /\ effect[o] = "no"
                   \/ plan[o].mode = "move" /\ effect[o] \in {"no", "half"}
                /\ content[plan[o].from] # None
                /\ content[plan[o].to] \in {None, content[plan[o].from]}
                /\ content' = [content EXCEPT ![plan[o].to] = content[plan[o].from]]
                /\ effect' = [effect EXCEPT ![o] = IF plan[o].mode = "copy" THEN "yes" ELSE "half"]
                /\ UNCHANGED <<plan, answer>>

(* The source of a move goes away only while its body is at the target.    *)
(* Recovery of a move whose journal outlived it may remove the source once *)
(* more, when it holds that body again (see RecoveryUndoesNoResult).       *)
Remove(o) == /\ MayAct(o)
             /\ \/ plan[o].mode = "delete" /\ effect[o] = "no"
                \/ /\ plan[o].mode = "move" /\ effect[o] \in {"half", "yes"}
                   /\ content[plan[o].to] = content[plan[o].from]
             /\ content[plan[o].from] # None
             /\ content' = [content EXCEPT ![plan[o].from] = None]
             /\ effect' = [effect EXCEPT ![o] = "yes"]
             /\ UNCHANGED <<plan, answer>>

Answer(o, r) == /\ answer[o] = "none"
                /\ r = "committed" => effect[o] = "yes"
                /\ r = "failed" => effect[o] = "no"
                /\ answer' = [answer EXCEPT ![o] = r]
                /\ UNCHANGED <<content, effect, plan>>

(* Another client of the bucket stores an object of its own where a        *)
(* conditional upload is under way.                                        *)
Foreign(f) == /\ \E o \in Ops : /\ plan[o] # None /\ plan[o].mode = "cond" /\ plan[o].to = f
                                /\ answer[o] = "none"
              /\ \E w \in Strangers : content' = [content EXCEPT ![f] = w]
              /\ UNCHANGED <<effect, plan, answer>>

Next == \/ \E o \in Ops : \/ Ask(o) \/ Replace(o) \/ Duplicate(o) \/ Remove(o)
                          \/ \E r \in {"committed", "failed", "unknown"} : Answer(o, r)
        \/ \E f \in Files : Foreign(f)

Spec == Init /\ [][Next]_vars
===============================================================================
