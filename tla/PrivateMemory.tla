---------------------------- MODULE PrivateMemory ----------------------------
(***************************************************************************)
(* What the kernel promises of memory to user programs: every process has  *)
(* the pages of the user space to itself.  They hold the image and zeros   *)
(* at first and what the process stored later; a page counts as used from  *)
(* its first access; an access outside the user space is the end of the    *)
(* machine; memory runs out only after CAPACITY pages are used.            *)
(***************************************************************************)
EXTENDS Integers, FiniteSets

CONSTANTS Users, Pages, Offsets, Data, CAPACITY,
          InitialPage(_),   \* what a page holds before the process stores into it
          InitiallyUsed     \* the pages of the image

VARIABLES
  umem,      \* umem[p][v]: what page v of process p holds
  used,      \* the pairs of a process and a page it has used
  turn,      \* the process that executes
  loaded,    \* the last word it loaded or executed
  modified,  \* the pairs whose page of the image is no more as it was
  machine    \* "ok", or what it ended of: "nomem", "badaddr"

vars == <<umem, used, turn, loaded, modified, machine>>
NOBODY == 0

Init ==
  /\ umem = [p \in Users |-> [v \in Pages |-> InitialPage(v)]]
  /\ used = Users \X InitiallyUsed
  /\ turn = NOBODY
  /\ loaded = 0
  /\ modified = {}
  /\ machine = "ok"

Dispatch(p) ==
  /\ machine = "ok"
  /\ turn' = p /\ loaded' = 0
  /\ UNCHANGED <<umem, used, machine, modified>>

Runs(p) == machine = "ok" /\ turn = p

FirstTouch(p, v) ==
  /\ Runs(p) /\ <<p, v>> \notin used
  /\ used' = used \cup {<<p, v>>}
  /\ UNCHANGED <<umem, turn, loaded, machine, modified>>

Load(p, v, i) ==
  /\ Runs(p) /\ <<p, v>> \in used
  /\ loaded' = umem[p][v][i]
  /\ UNCHANGED <<umem, used, turn, machine, modified>>

Store(p, v, i, word) ==
  /\ Runs(p) /\ <<p, v>> \in used
  /\ umem' = [umem EXCEPT ![p][v][i] = word]
  /\ modified' = modified \cup {u \in {<<p, v>>} : v \in InitiallyUsed /\ umem' # umem}
  /\ UNCHANGED <<used, turn, loaded, machine>>

(* What is executed is the image; nothing is promised of instructions that *)
(* a program writes itself, or of the pages it gets later.                 *)
Fetch(p, v, i) ==
  /\ Runs(p) /\ <<p, v>> \in used
  /\ loaded' \in IF v \in InitiallyUsed /\ <<p, v>> \notin modified
                 THEN {umem[p][v][i]} ELSE Nat
  /\ UNCHANGED <<umem, used, turn, modified, machine>>

RunOut(p, v) ==
  /\ Runs(p) /\ <<p, v>> \notin used
  /\ Cardinality(used) >= CAPACITY
  /\ machine' = "nomem"
  /\ UNCHANGED <<umem, used, turn, loaded, modified>>

BadAddress(p) ==
  /\ Runs(p)
  /\ machine' = "badaddr"
  /\ UNCHANGED <<umem, used, turn, loaded, modified>>

Next ==
  \/ \E p \in Users \cup {NOBODY} : Dispatch(p)
  \/ \E p \in Users :
       \/ BadAddress(p)
       \/ \E v \in Pages :
            \/ FirstTouch(p, v) \/ RunOut(p, v)
            \/ \E i \in Offsets : Load(p, v, i) \/ Fetch(p, v, i) \/ \E word \in Data : Store(p, v, i, word)

Spec == Init /\ [][Next]_vars
=============================================================================
