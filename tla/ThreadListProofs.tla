-------------------------- MODULE ThreadListProofs --------------------------
(***************************************************************************)
(* Proofs about the list of threads, for every number of threads and of    *)
(* nodes: its types, its memory, and that its functions are atomic.        *)
(***************************************************************************)
EXTENDS ThreadListSpec, Sums, SequenceTheorems

Pointers == Nodes \cup {NULL}
Contents == [next : Pointers \cup {Garbage}, data : Given \cup {NULL}]
Inserts == {"insert", "insert_no_mutex"}

(* The types of the list and of the threads inside its functions.          *)
HeapTypes ==
  /\ exists \in BOOLEAN
  /\ head \in Pointers
  /\ node \in [Nodes -> Contents \cup {Free}]

ThreadTypes ==
  /\ pc \in [Procs -> {"idle", "malloc", "lock", "unlock", "read", "publish", "link",
                       "start", "walk", "mark", "unlink", "fetch", "release", "return"}]
  /\ mutex \in Procs \cup {Nobody}
  /\ call \in [Procs -> [fn : Functions \cup {"none"}, data : Data \cup {NULL}]]
  /\ reg \in [Procs -> [new : Pointers, old : Pointers, temp : Pointers, prev : Pointers]]
  /\ copy \in [Procs -> Pointers]

Types == HeapTypes /\ ThreadTypes

(* The places of each function.                                            *)
PlaceIn(fn, at) ==
  \/ fn = "none" /\ at = "idle"
  \/ fn = "insert" /\ at \in {"malloc", "lock", "read", "publish", "link", "unlock", "return"}
  \/ fn = "insert_no_mutex" /\ at \in {"malloc", "read", "publish", "link", "return"}
  \/ fn = "set_status" /\ at \in {"lock", "start", "walk", "mark", "unlock", "return"}
  \/ fn = "set_status_no_mutex" /\ at \in {"start", "walk", "mark", "return"}
  \/ fn = "print" /\ at \in {"lock", "start", "walk", "unlock", "return"}
  \/ fn = "remove" /\ at \in {"start", "walk", "lock", "unlink", "unlock", "return"}
  \/ fn = "remove_no_mutex" /\ at \in {"start", "walk", "unlink", "return"}
  \/ fn = "free_list" /\ at \in {"start", "release", "return"}
  \/ fn \in {"get", "get_by_fd"}
       /\ at \in {"start", "walk", "malloc", "lock", "fetch", "unlock", "return"}
  \/ fn = "get_no_mutex" /\ at \in {"start", "walk", "malloc", "fetch", "return"}

(* Where a function has the mutex.                                         *)
LockedIn(fn, at) ==
  \/ at = "unlock"
  \/ fn = "insert" /\ at \in {"read", "publish", "link"}
  \/ fn \in {"set_status", "print"} /\ at \in {"start", "walk", "mark"}
  \/ fn = "remove" /\ at = "unlink"
  \/ fn \in {"get", "get_by_fd"} /\ at = "fetch"

(* Whether a function has a node that is not in the list.                  *)
NewIn(fn, at, new) ==
  /\ fn \in Inserts => (new # NULL <=> at \in {"lock", "read", "publish"})
  /\ fn \in Gets => /\ at \in {"start", "walk", "malloc"} => new = NULL
                    /\ at \in {"lock", "fetch"} => new # NULL
  /\ fn \notin Inserts \cup Gets => new = NULL

Controlled(p) ==
  /\ PlaceIn(call[p].fn, pc[p])
  /\ mutex = p <=> LockedIn(call[p].fn, pc[p])
  /\ NewIn(call[p].fn, pc[p], reg[p].new)
  /\ pc[p] \notin {"idle", "return"} => exists
  /\ pc[p] = "idle" => call[p] = NoCall
  /\ pc[p] # "idle" => call[p].data \in Data /\ copy[p] = NULL

(* The contract: two threads in the library are both in guarded functions. *)
Contract ==
  \A p, q \in Procs :
    p # q /\ pc[p] # "idle" /\ pc[q] # "idle" => call[p].fn \in Guarded /\ call[q].fn \in Guarded

Control == Contract /\ \A p \in Procs : Controlled(p)

-----------------------------------------------------------------------------
(* The nodes of the list, in order: a chain of n different nodes.          *)
First(n, s) == IF n = 0 THEN NULL ELSE s[1]
After(n, s, i) == IF i = n THEN NULL ELSE s[i + 1]
On(n, s, a) == \E i \in 1 .. n : s[i] = a

Chained(n, s) ==
  /\ \A i, j \in 1 .. n : s[i] = s[j] => i = j
  /\ \A i \in 1 .. n : /\ node[s[i]] # Free /\ node[s[i]].next = After(n, s, i)
                        /\ node[s[i]].data \in Given

Headed(n, s) ==
  /\ ~exists => n = 0
  /\ exists /\ (\A p \in Procs : pc[p] \notin {"link", "release"}) => head = First(n, s)

(* The node outside of the list that belongs to a thread: the copy it was  *)
(* given, the head that is not linked yet, or the node it has just made.   *)
Owned(p) ==
  CASE pc[p] = "idle" -> copy[p]
    [] pc[p] = "link" -> head
    [] OTHER -> reg[p].new

Accounted(n, s) ==
  /\ \A a \in Nodes : node[a] # Free <=> On(n, s, a) \/ \E p \in Procs : Owned(p) = a
  /\ \A p \in Procs : ~On(n, s, Owned(p))
  /\ \A p, q \in Procs : Owned(p) # NULL /\ Owned(p) = Owned(q) => p = q

(* A thread that has walked to the i-th node has passed those before.      *)
Passed(p, s, i) == \A j \in 1 .. i - 1 : ~Matches(p, node[s[j]].data)
Cursor(p, s, i) ==
  /\ reg[p].temp = s[i] /\ reg[p].prev = s[IF i = 1 THEN 1 ELSE i - 1]
  /\ Passed(p, s, i)
Finds(p, n, s) ==
  \E i \in 1 .. n : Cursor(p, s, i) /\ Matches(p, node[s[i]].data)

HasFound(fn, at) ==
  \/ at \in {"mark", "unlink", "fetch"}
  \/ fn \in Gets \cup {"remove"} /\ at \in {"malloc", "lock"}

Placed(p, n, s) ==
  /\ pc[p] \in {"publish", "link"} => reg[p].old = First(n, s)
  /\ pc[p] = "link" => head # NULL
  /\ pc[p] \in {"lock", "read", "publish"} /\ call[p].fn \in Inserts =>
       node[reg[p].new].data = call[p].data
  /\ pc[p] = "link" => node[head].data = call[p].data
  /\ pc[p] = "release" => reg[p].temp = First(n, s)
  /\ pc[p] = "walk" =>
       \/ \E i \in 1 .. n : Cursor(p, s, i)
       \/ reg[p].temp = NULL /\ Passed(p, s, n + 1)
  /\ HasFound(call[p].fn, pc[p]) => Finds(p, n, s)

Shape(n, s) ==
  /\ Chained(n, s) /\ Headed(n, s) /\ Accounted(n, s)
  /\ \A p \in Procs : Placed(p, n, s)

Shaped == \E n \in Nat : \E s \in [1 .. n -> Nodes] : Shape(n, s)

(* The inductive invariant.                                                *)
Inv == Types /\ Control /\ Shaped

-----------------------------------------------------------------------------
(* The contract and the mutex: two threads do not use the list's pointers  *)
(* at once.                                                                *)
Using(p) == pc[p] # "idle" /\ (call[p].fn \in Guarded => mutex = p)

LEMMA Exclusive ==
  ASSUME Types, Control, NEW p \in Procs, NEW q \in Procs, Using(p), Using(q)
  PROVE  p = q
  <1> SUFFICES ASSUME p # q PROVE FALSE
    OBVIOUS
  <1>1. call[p].fn \in Guarded /\ call[q].fn \in Guarded
    BY DEF Control, Contract, Using
  <1>2. mutex = p /\ mutex = q
    BY <1>1 DEF Using
  <1>3. QED
    BY <1>2

(* Whoever is at a place where pointers are used has the right to.         *)
LEMMA UsingPlaces ==
  ASSUME Types, Control, NEW p \in Procs,
         \/ pc[p] \in {"read", "publish", "link", "start", "walk", "mark", "unlink", "fetch",
                       "release", "unlock"}
         \/ pc[p] # "idle" /\ call[p].fn \notin Guarded
  PROVE  Using(p)
  <1>1. CASE pc[p] # "idle" /\ call[p].fn \notin Guarded
    BY <1>1 DEF Using
  <1>2. CASE pc[p] \in {"read", "publish", "link", "start", "walk", "mark", "unlink", "fetch",
                        "release", "unlock"}
    <2>1. PlaceIn(call[p].fn, pc[p]) /\ (mutex = p <=> LockedIn(call[p].fn, pc[p]))
      BY DEF Control, Controlled
    <2>2. call[p].fn \in Guarded => LockedIn(call[p].fn, pc[p])
      BY <1>2, <2>1 DEF PlaceIn, LockedIn, Guarded
    <2>3. QED
      BY <1>2, <2>1, <2>2 DEF Using
  <1>3. QED
    BY <1>1, <1>2

(* While one thread uses the list, the others are outside, or in a guarded *)
(* function before its lock or after its end.                              *)
LEMMA OthersWait ==
  ASSUME Types, Control, NEW p \in Procs, Using(p), NEW q \in Procs, q # p
  PROVE  /\ pc[q] \in {"idle", "malloc", "lock", "return"}
         /\ pc[q] # "idle" => call[q].fn \in Guarded /\ call[p].fn \in Guarded
         /\ ~HasFound(call[q].fn, pc[q])
  <1>1. ~Using(q)
    BY Exclusive
  <1>2. pc[q] \in {"idle", "malloc", "lock", "return"}
    BY <1>1, UsingPlaces DEF Types, ThreadTypes
  <1>3. pc[q] # "idle" => call[q].fn \in Guarded
    BY <1>1 DEF Using
  <1>4. pc[q] # "idle" => call[p].fn \in Guarded
    BY DEF Control, Contract, Using
  <1>5. ~HasFound(call[q].fn, pc[q])
    BY <1>2, <1>3 DEF HasFound, Guarded, Gets
  <1>6. QED
    BY <1>2, <1>3, <1>4, <1>5

(* A step of one thread keeps the control of all if it keeps its own.      *)
LEMMA ControlStep ==
  ASSUME Control, NEW p \in Procs, Controlled(p)',
         \A q \in Procs \ {p} :
           /\ pc'[q] = pc[q] /\ call'[q] = call[q] /\ reg'[q].new = reg[q].new
           /\ copy'[q] = copy[q]
           /\ mutex' = q <=> mutex = q
           /\ exists => exists' \/ pc[q] \in {"idle", "return"},
         \/ pc'[p] = "idle"
         \/ pc[p] # "idle" /\ call'[p].fn = call[p].fn
         \/ \A q \in Procs \ {p} :
              pc[q] = "idle" \/ (call'[p].fn \in Guarded /\ call[q].fn \in Guarded)
  PROVE  Control'
  <1>1. ASSUME NEW q \in Procs \ {p} PROVE Controlled(q)'
    <2>1. Controlled(q)
      BY DEF Control
    <2>2. pc'[q] \notin {"idle", "return"} => exists'
      BY <2>1 DEF Controlled
    <2>3. QED
      BY <2>1, <2>2 DEF Controlled
  <1>2. ASSUME NEW q \in Procs, NEW r \in Procs, q # r, pc'[q] # "idle", pc'[r] # "idle"
        PROVE  call'[q].fn \in Guarded /\ call'[r].fn \in Guarded
    <2>1. pc[q] # "idle" /\ pc[r] # "idle" => call[q].fn \in Guarded /\ call[r].fn \in Guarded
      BY <1>2 DEF Control, Contract
    <2>2. CASE q = p
      BY <1>2, <2>1, <2>2
    <2>3. CASE r = p
      BY <1>2, <2>1, <2>3
    <2>4. CASE q # p /\ r # p
      BY <1>2, <2>1, <2>4
    <2>5. QED
      BY <2>2, <2>3, <2>4
  <1>3. Guarded' = Guarded
    BY DEF Guarded
  <1>4. QED
    BY <1>1, <1>2, <1>3 DEF Control, Contract

-----------------------------------------------------------------------------
(* What allocated memory holds.                                            *)
LEMMA ContentsAre ==
  ASSUME Types, NEW a \in Nodes, node[a] # Free
  PROVE  /\ node[a] \in Contents
         /\ node[a] = [next |-> node[a].next, data |-> node[a].data]
  <1>1. node[a] \in Contents
    BY DEF Types, HeapTypes
  <1>2. QED
    BY <1>1 DEF Contents

LEMMA ContentsAllocated ==
  ASSUME NEW c \in Contents
  PROVE  c # Free
  BY ThreadListSpecAssumption DEF Contents, Pointers

LEMMA NullIsNoNode == NULL \notin Nodes
  BY ThreadListAssumption

LEMMA LiveNodes ==
  ASSUME NEW a \in Nodes
  PROVE  a \in Live <=> node[a] # Free
  BY ThreadListAssumption DEF Live

LEMMA ListLive == ll \in Live <=> exists
  BY ThreadListAssumption DEF Live

(* The nodes of the chain.                                                 *)
LEMMA ChainNodes ==
  ASSUME Types, NEW n \in Nat, NEW s \in [1 .. n -> Nodes], Chained(n, s), NEW i \in 1 .. n
  PROVE  /\ s[i] \in Nodes /\ node[s[i]] \in Contents /\ node[s[i]] # Free
         /\ node[s[i]].next = After(n, s, i) /\ After(n, s, i) \in Pointers
         /\ node[s[i]].data \in Given
         /\ s[i] # NULL
  <1>1. s[i] \in Nodes
    OBVIOUS
  <1>2. /\ node[s[i]] # Free /\ node[s[i]].next = After(n, s, i)
        /\ node[s[i]].data \in Given
    BY DEF Chained
  <1>3. After(n, s, i) \in Pointers
    BY DEF After, Pointers
  <1>4. QED
    BY <1>1, <1>2, <1>3, ContentsAre, NullIsNoNode

LEMMA FirstType ==
  ASSUME NEW n \in Nat, NEW s \in [1 .. n -> Nodes]
  PROVE  First(n, s) \in Pointers /\ (n # 0 => First(n, s) = s[1] /\ s[1] \in Nodes)
  BY DEF First, Pointers

(* Setting the status of data again changes nothing.                       *)
LEMMA MarkedType ==
  ASSUME NEW d \in Given
  PROVE  [d EXCEPT !.completion = TRUE] \in Given
  <1>1. CASE d \in Data
    BY <1>1 DEF Given
  <1>2. CASE \E e \in Data : d = [e EXCEPT !.completion = TRUE]
    <2>1. PICK e \in Data : d = [e EXCEPT !.completion = TRUE]
      BY <1>2
    <2>2. [d EXCEPT !.completion = TRUE] = d
      BY <2>1
    <2>3. QED
      BY <2>2
  <1>3. QED
    BY <1>1, <1>2 DEF Given

(* A thread that has found a node has a node of the chain.                 *)
LEMMA FoundNodes ==
  ASSUME Types, NEW n \in Nat, NEW s \in [1 .. n -> Nodes], Chained(n, s),
         NEW p \in Procs, Finds(p, n, s)
  PROVE  \E i \in 1 .. n :
           /\ Cursor(p, s, i) /\ Matches(p, node[s[i]].data)
           /\ reg[p].temp = s[i] /\ s[i] \in Nodes /\ node[s[i]] \in Contents
           /\ node[s[i]] # Free
           /\ node[s[i]].next = After(n, s, i) /\ node[s[i]].next \in Pointers
           /\ node[s[i]].data \in Given /\ s[i] # NULL
           /\ reg[p].prev = s[IF i = 1 THEN 1 ELSE i - 1]
           /\ reg[p].prev \in Nodes /\ node[reg[p].prev] # Free
  <1>1. PICK i \in 1 .. n : Cursor(p, s, i) /\ Matches(p, node[s[i]].data)
    BY DEF Finds
  <1>2. reg[p].temp = s[i] /\ reg[p].prev = s[IF i = 1 THEN 1 ELSE i - 1]
    BY <1>1 DEF Cursor
  <1>3. (IF i = 1 THEN 1 ELSE i - 1) \in 1 .. n
    OBVIOUS
  <1>4. reg[p].prev \in Nodes /\ node[reg[p].prev] # Free
    BY <1>2, <1>3, ChainNodes
  <1>5. QED
    BY <1>1, <1>2, <1>4, ChainNodes

-----------------------------------------------------------------------------
(* Another thread's step leaves what a thread knows of the list, if it     *)
(* leaves the nodes.                                                       *)
LEMMA StillPlaced ==
  ASSUME NEW n \in Nat, NEW s \in [1 .. n -> Nodes], NEW q \in Procs, Placed(q, n, s),
         UNCHANGED <<head, node>>, pc'[q] = pc[q], call'[q] = call[q], reg'[q] = reg[q]
  PROVE  Placed(q, n, s)'
  <1>1. \A d : Matches(q, d)' <=> Matches(q, d)
    BY DEF Matches
  <1>2. \A i : Passed(q, s, i)' <=> Passed(q, s, i)
    BY <1>1 DEF Passed
  <1>3. \A i : Cursor(q, s, i)' <=> Cursor(q, s, i)
    BY <1>2 DEF Cursor
  <1>4. Finds(q, n, s)' <=> Finds(q, n, s)
    BY <1>1, <1>3 DEF Finds
  <1>5. QED
    BY <1>2, <1>3, <1>4 DEF Placed, HasFound, First, Inserts, Gets

(* A step that leaves the memory alone keeps its shape.                    *)
LEMMA StillShape ==
  ASSUME NEW n \in Nat, NEW s \in [1 .. n -> Nodes], Shape(n, s), NEW p \in Procs,
         UNCHANGED heap, Placed(p, n, s)', pc[p] \notin {"link", "release"},
         \A q \in Procs : Owned(q)' = Owned(q),
         \A q \in Procs \ {p} : pc'[q] = pc[q] /\ call'[q] = call[q] /\ reg'[q] = reg[q]
  PROVE  Shape(n, s)'
  <1>1. Chained(n, s)'
    BY DEF Shape, Chained, After, heap
  <1>2. Headed(n, s)'
    <2>1. (\A q \in Procs : pc'[q] \notin {"link", "release"}) =>
             \A q \in Procs : pc[q] \notin {"link", "release"}
      OBVIOUS
    <2>2. QED
      BY <2>1 DEF Shape, Headed, First, heap
  <1>3. Accounted(n, s)'
    BY DEF Shape, Accounted, On, heap
  <1>4. \A q \in Procs : Placed(q, n, s)'
    BY StillPlaced DEF Shape, heap
  <1>5. QED
    BY <1>1, <1>2, <1>3, <1>4 DEF Shape

(* What a goto changes.                                                    *)
LEMMA GotoOthers ==
  ASSUME Types, NEW p \in Procs, NEW at, Goto(p, at)
  PROVE  pc'[p] = at /\ \A q \in Procs \ {p} : pc'[q] = pc[q]
  BY DEF Goto, Types, ThreadTypes

LEMMA RegOthers ==
  ASSUME Types, NEW p \in Procs, NEW r, reg' = [reg EXCEPT ![p] = r]
  PROVE  reg'[p] = r /\ \A q \in Procs \ {p} : reg'[q] = reg[q]
  BY DEF Types, ThreadTypes

-----------------------------------------------------------------------------
(* The steps that leave the memory alone.                                  *)
LEMMA CallInv ==
  ASSUME Types, Control, NEW n \in Nat, NEW s \in [1 .. n -> Nodes], Shape(n, s),
         NEW p \in Procs, Call(p)
  PROVE  Types' /\ Control' /\ Shape(n, s)'
  <1>1. PICK fn \in Functions, data \in Data :
          /\ exists /\ copy[p] = NULL
          /\ \A q \in Procs \ {p} : pc[q] = "idle" \/ (fn \in Guarded /\ call[q].fn \in Guarded)
          /\ Enter(p, fn, data)
          /\ UNCHANGED copy
    BY DEF Call
  <1>2. /\ pc[p] = "idle" /\ Goto(p, Entry[fn]) /\ UNCHANGED <<heap, mutex, reg, copy>>
        /\ call' = [call EXCEPT ![p] = [fn |-> fn, data |-> data]]
    BY <1>1 DEF Enter, Step
  <1>3. /\ pc'[p] = Entry[fn] /\ call'[p].fn = fn /\ call'[p].data = data
        /\ \A q \in Procs \ {p} : pc'[q] = pc[q] /\ call'[q] = call[q]
    BY <1>2, GotoOthers DEF Types, ThreadTypes
  <1>4. /\ fn \in {"insert", "insert_no_mutex", "set_status", "print", "set_status_no_mutex",
                   "remove", "remove_no_mutex", "free_list", "get", "get_by_fd",
                   "get_no_mutex"}
        /\ fn \in Inserts => Entry[fn] = "malloc"
        /\ fn \in {"set_status", "print"} => Entry[fn] = "lock"
        /\ fn \notin {"insert", "insert_no_mutex", "set_status", "print"} => Entry[fn] = "start"
    BY DEF Functions, Entry, Inserts
  <1>5. reg[p].new = NULL /\ mutex # p /\ call[p].fn = "none"
    <2>1. Controlled(p)
      BY DEF Control
    <2>2. QED
      BY <1>2, <2>1 DEF Controlled, PlaceIn, NewIn, LockedIn, Inserts, Gets
  <1>6. Types'
    <2>1. HeapTypes'
      BY <1>2 DEF Types, HeapTypes, heap
    <2>2. pc' \in [Procs -> {"idle", "malloc", "lock", "unlock", "read", "publish", "link",
                             "start", "walk", "mark", "unlink", "fetch", "release", "return"}]
      BY <1>2, <1>4 DEF Types, ThreadTypes, Goto, Inserts
    <2>3. call' \in [Procs -> [fn : Functions \cup {"none"}, data : Data \cup {NULL}]]
      BY <1>2 DEF Types, ThreadTypes
    <2>4. QED
      BY <1>2, <2>1, <2>2, <2>3 DEF Types, ThreadTypes
  <1>7. Controlled(p)'
    <2>1. PlaceIn(fn, Entry[fn]) /\ ~LockedIn(fn, Entry[fn])
      BY <1>4 DEF PlaceIn, LockedIn, Inserts
    <2>2. NewIn(fn, Entry[fn], NULL)
      BY <1>4 DEF NewIn, Inserts, Gets
    <2>3. pc'[p] # "idle"
      BY <1>3, <1>4 DEF Inserts
    <2>4. QED
      BY <1>1, <1>2, <1>3, <1>5, <2>1, <2>2, <2>3 DEF Controlled, heap
  <1>8. Control'
    <2>1. exists' = exists
      BY <1>2 DEF heap
    <2>2. QED
      BY <1>1, <1>2, <1>3, <1>7, <2>1, ControlStep
  <1>9. Placed(p, n, s)'
    <2>1. /\ pc'[p] \notin {"publish", "link", "release", "walk"}
          /\ ~HasFound(call'[p].fn, pc'[p])
          /\ ~(pc'[p] \in {"lock", "read", "publish"} /\ call'[p].fn \in Inserts)
      BY <1>3, <1>4 DEF HasFound, Inserts, Gets
    <2>2. Inserts' = Inserts
      BY DEF Inserts
    <2>3. QED
      BY <2>1, <2>2 DEF Placed, HasFound, Gets
  <1>10. \A q \in Procs : Owned(q)' = Owned(q)
    <2>1. Owned(p)' = Owned(p)
      BY <1>1, <1>2, <1>3, <1>4, <1>5 DEF Owned, Inserts
    <2>2. ASSUME NEW q \in Procs \ {p} PROVE Owned(q)' = Owned(q)
      BY <1>2, <1>3 DEF Owned, heap
    <2>3. QED
      BY <2>1, <2>2
  <1>11. Shape(n, s)'
    BY <1>2, <1>3, <1>9, <1>10, StillShape
  <1>12. QED
    BY <1>6, <1>8, <1>11

LEMMA LockInv ==
  ASSUME Types, Control, NEW n \in Nat, NEW s \in [1 .. n -> Nodes], Shape(n, s),
         NEW p \in Procs, Lock(p), UNCHANGED copy
  PROVE  Types' /\ Control' /\ Shape(n, s)'
  <1> DEFINE there == AfterLock[call[p].fn]
  <1>1. /\ pc[p] = "lock" /\ Goto(p, there) /\ mutex = Nobody /\ mutex' = p
        /\ UNCHANGED <<heap, call, reg, copy>>
    BY DEF Lock, Step
  <1>2. Controlled(p) /\ Nobody \notin Procs
    BY ThreadListAssumption DEF Control
  <1>3. call[p].fn \in {"insert", "set_status", "print", "remove", "get", "get_by_fd"}
    BY <1>1, <1>2 DEF Controlled, PlaceIn
  <1>4. /\ call[p].fn = "insert" => there = "read"
        /\ call[p].fn \in {"set_status", "print"} => there = "start"
        /\ call[p].fn = "remove" => there = "unlink"
        /\ call[p].fn \in {"get", "get_by_fd"} => there = "fetch"
    BY <1>3 DEF AfterLock
  <1> HIDE DEF there
  <1>5. pc'[p] = there /\ \A q \in Procs \ {p} : pc'[q] = pc[q]
    BY <1>1, GotoOthers
  <1>6. Types'
    <2>1. HeapTypes'
      BY <1>1 DEF Types, HeapTypes, heap
    <2>2. pc' \in [Procs -> {"idle", "malloc", "lock", "unlock", "read", "publish", "link",
                             "start", "walk", "mark", "unlink", "fetch", "release", "return"}]
      BY <1>1, <1>3, <1>4 DEF Types, ThreadTypes, Goto
    <2>3. QED
      BY <1>1, <2>1, <2>2 DEF Types, ThreadTypes
  <1>7. Controlled(p)'
    <2>1. PlaceIn(call[p].fn, there) /\ LockedIn(call[p].fn, there)
      BY <1>3, <1>4 DEF PlaceIn, LockedIn
    <2>2. NewIn(call[p].fn, there, reg[p].new)
      BY <1>1, <1>2, <1>3, <1>4 DEF Controlled, NewIn, Inserts, Gets
    <2>3. exists /\ call[p].data \in Data /\ copy[p] = NULL
      BY <1>1, <1>2 DEF Controlled
    <2>4. pc'[p] # "idle"
      BY <1>3, <1>4, <1>5
    <2>5. QED
      BY <1>1, <1>5, <2>1, <2>2, <2>3, <2>4 DEF Controlled, heap
  <1>8. Control'
    <2>1. exists' = exists /\ \A q \in Procs \ {p} : mutex' = q <=> mutex = q
      BY <1>1, <1>2 DEF heap
    <2>2. QED
      BY <1>1, <1>5, <1>7, <2>1, ControlStep
  <1>9. Placed(p, n, s)'
    <2>1. Placed(p, n, s)
      BY DEF Shape
    <2>2. HasFound(call[p].fn, there) => HasFound(call[p].fn, "lock")
      BY <1>3, <1>4 DEF HasFound, Gets
    <2>3. Finds(p, n, s)' <=> Finds(p, n, s)
      BY <1>1 DEF Finds, Cursor, Passed, Matches, heap
    <2>4. /\ there \notin {"publish", "link", "release", "walk"}
          /\ HasFound(call'[p].fn, pc'[p]) <=> HasFound(call[p].fn, there)
      BY <1>1, <1>3, <1>4, <1>5 DEF HasFound, Gets
    <2>5. QED
      BY <1>1, <1>5, <2>1, <2>2, <2>3, <2>4 DEF Placed, heap, Inserts, HasFound, Gets
  <1>10. \A q \in Procs : Owned(q)' = Owned(q)
    <2>1. Owned(p)' = Owned(p)
      BY <1>1, <1>3, <1>4, <1>5 DEF Owned
    <2>2. ASSUME NEW q \in Procs \ {p} PROVE Owned(q)' = Owned(q)
      BY <1>1, <1>5 DEF Owned, heap
    <2>3. QED
      BY <2>1, <2>2
  <1>11. Shape(n, s)'
    BY <1>1, <1>5, <1>9, <1>10, StillShape
  <1>12. QED
    BY <1>6, <1>8, <1>11

LEMMA UnlockInv ==
  ASSUME Types, Control, NEW n \in Nat, NEW s \in [1 .. n -> Nodes], Shape(n, s),
         NEW p \in Procs, Unlock(p), UNCHANGED copy
  PROVE  Types' /\ Control' /\ Shape(n, s)'
  <1>1. /\ pc[p] = "unlock" /\ Goto(p, "return") /\ mutex' = Nobody
        /\ UNCHANGED <<heap, call, reg, copy>>
    BY DEF Unlock, Step
  <1>2. Controlled(p) /\ Nobody \notin Procs
    BY ThreadListAssumption DEF Control
  <1>3. pc'[p] = "return" /\ \A q \in Procs \ {p} : pc'[q] = pc[q]
    BY <1>1, GotoOthers
  <1>4. mutex = p /\ call[p].fn \in {"insert", "set_status", "print", "remove", "get", "get_by_fd"}
    BY <1>1, <1>2 DEF Controlled, PlaceIn, LockedIn
  <1>5. Types'
    BY <1>1 DEF Types, HeapTypes, ThreadTypes, heap, Goto
  <1>6. Controlled(p)'
    <2>1. PlaceIn(call[p].fn, "return") /\ ~LockedIn(call[p].fn, "return")
      BY <1>4 DEF PlaceIn, LockedIn
    <2>2. NewIn(call[p].fn, "return", reg[p].new)
      BY <1>1, <1>2, <1>4 DEF Controlled, NewIn, Inserts, Gets
    <2>3. call[p].data \in Data /\ copy[p] = NULL
      BY <1>1, <1>2 DEF Controlled
    <2>4. QED
      BY <1>1, <1>2, <1>3, <2>1, <2>2, <2>3 DEF Controlled, heap
  <1>7. Control'
    <2>1. exists' = exists /\ \A q \in Procs \ {p} : mutex' = q <=> mutex = q
      BY <1>1, <1>2, <1>4 DEF heap
    <2>2. QED
      BY <1>1, <1>3, <1>6, <2>1, ControlStep
  <1>8. Placed(p, n, s)'
    BY <1>3 DEF Placed, HasFound
  <1>9. \A q \in Procs : Owned(q)' = Owned(q)
    <2>1. Owned(p)' = Owned(p)
      BY <1>1, <1>3 DEF Owned
    <2>2. ASSUME NEW q \in Procs \ {p} PROVE Owned(q)' = Owned(q)
      BY <1>1, <1>3 DEF Owned, heap
    <2>3. QED
      BY <2>1, <2>2
  <1>10. Shape(n, s)'
    BY <1>1, <1>3, <1>8, <1>9, StillShape
  <1>11. QED
    BY <1>5, <1>7, <1>10

LEMMA ReceiveInv ==
  ASSUME Types, Control, NEW n \in Nat, NEW s \in [1 .. n -> Nodes], Shape(n, s),
         NEW p \in Procs, Receive(p)
  PROVE  Types' /\ Control' /\ Shape(n, s)'
  <1>1. /\ pc[p] = "return" /\ Goto(p, "idle") /\ UNCHANGED <<heap, mutex>>
        /\ call' = [call EXCEPT ![p] = NoCall]
        /\ reg' = [reg EXCEPT ![p] = NoPointers]
        /\ copy' = [copy EXCEPT ![p] = IF call[p].fn \in Gets THEN reg[p].new ELSE NULL]
    BY DEF Receive, Return, Step
  <1>2. Controlled(p)
    BY DEF Control
  <1>3. /\ pc'[p] = "idle" /\ call'[p].fn = "none" /\ reg'[p].new = NULL
        /\ call'[p] = NoCall
        /\ copy'[p] = IF call[p].fn \in Gets THEN reg[p].new ELSE NULL
        /\ \A q \in Procs \ {p} :
             pc'[q] = pc[q] /\ call'[q] = call[q] /\ reg'[q] = reg[q] /\ copy'[q] = copy[q]
    BY <1>1, GotoOthers, RegOthers DEF Types, ThreadTypes, NoCall, NoPointers
  <1>4. mutex # p
    BY <1>1, <1>2 DEF Controlled, LockedIn
  <1>5. Types'
    <2>1. reg[p].new \in Pointers
      BY DEF Types, ThreadTypes
    <2>2. NoPointers \in [new : Pointers, old : Pointers, temp : Pointers, prev : Pointers]
      BY DEF NoPointers, Pointers
    <2>3. NoCall \in [fn : Functions \cup {"none"}, data : Data \cup {NULL}]
      BY DEF NoCall
    <2>4. copy' \in [Procs -> Pointers]
      BY <1>1, <2>1 DEF Types, ThreadTypes, Pointers
    <2>5. reg' \in [Procs -> [new : Pointers, old : Pointers, temp : Pointers, prev : Pointers]]
      BY <1>1, <2>2 DEF Types, ThreadTypes
    <2>6. call' \in [Procs -> [fn : Functions \cup {"none"}, data : Data \cup {NULL}]]
      BY <1>1, <2>3 DEF Types, ThreadTypes
    <2>7. QED
      BY <1>1, <2>4, <2>5, <2>6 DEF Types, HeapTypes, ThreadTypes, heap, Goto
  <1>6. Controlled(p)'
    <2>1. PlaceIn("none", "idle") /\ ~LockedIn("none", "idle") /\ NewIn("none", "idle", NULL)
      BY DEF PlaceIn, LockedIn, NewIn, Inserts, Gets
    <2>2. QED
      BY <1>1, <1>3, <1>4, <2>1 DEF Controlled
  <1>7. Control'
    <2>1. exists' = exists /\ mutex' = mutex
      BY <1>1 DEF heap
    <2>2. QED
      BY <1>3, <1>6, <2>1, ControlStep
  <1>8. Placed(p, n, s)'
    BY <1>3 DEF Placed, HasFound
  <1>9. \A q \in Procs : Owned(q)' = Owned(q)
    <2>1. call[p].fn \notin Gets => reg[p].new = NULL
      BY <1>1, <1>2 DEF Controlled, NewIn
    <2>2. Owned(p)' = Owned(p)
      BY <1>1, <1>3, <2>1 DEF Owned
    <2>3. ASSUME NEW q \in Procs \ {p} PROVE Owned(q)' = Owned(q)
      BY <1>1, <1>3 DEF Owned, heap
    <2>4. QED
      BY <2>2, <2>3
  <1>10. Shape(n, s)'
    BY <1>1, <1>3, <1>8, <1>9, StillShape
  <1>11. QED
    BY <1>5, <1>7, <1>10

LEMMA ReadInv ==
  ASSUME Types, Control, NEW n \in Nat, NEW s \in [1 .. n -> Nodes], Shape(n, s),
         NEW p \in Procs, Read(p), UNCHANGED copy
  PROVE  Types' /\ Control' /\ Shape(n, s)'
  <1>1. /\ pc[p] = "read" /\ Goto(p, "publish") /\ UNCHANGED <<heap, mutex, call, copy>>
        /\ reg' = [reg EXCEPT ![p].old = head]
    BY DEF Read, Step
  <1>2. Controlled(p) /\ call[p].fn \in Inserts /\ exists
    BY <1>1 DEF Control, Controlled, PlaceIn, Inserts
  <1>3. /\ pc'[p] = "publish" /\ reg'[p].old = head /\ reg'[p].new = reg[p].new
        /\ \A q \in Procs \ {p} : pc'[q] = pc[q] /\ reg'[q] = reg[q]
    BY <1>1, GotoOthers DEF Types, ThreadTypes
  <1>4. Types'
    BY <1>1 DEF Types, HeapTypes, ThreadTypes, heap, Goto
  <1>5. Controlled(p)'
    BY <1>1, <1>2, <1>3 DEF Controlled, PlaceIn, LockedIn, NewIn, Inserts, Gets, heap
  <1>6. Control'
    <2>1. exists' = exists /\ mutex' = mutex
      BY <1>1 DEF heap
    <2>2. QED
      BY <1>1, <1>3, <1>5, <2>1, ControlStep
  <1>7. head = First(n, s)
    <2>1. Using(p)
      BY <1>1, UsingPlaces
    <2>2. \A q \in Procs : pc[q] \notin {"link", "release"}
      BY <1>1, <2>1, OthersWait
    <2>3. QED
      BY <1>2, <2>2 DEF Shape, Headed
  <1>8. Placed(p, n, s)'
    <2>1. node[reg[p].new].data = call[p].data
      BY <1>1, <1>2 DEF Shape, Placed
    <2>2. QED
      BY <1>1, <1>2, <1>3, <1>7, <2>1 DEF Placed, HasFound, First, heap
  <1>9. \A q \in Procs : Owned(q)' = Owned(q)
    <2>1. Owned(p)' = Owned(p)
      BY <1>1, <1>3 DEF Owned
    <2>2. ASSUME NEW q \in Procs \ {p} PROVE Owned(q)' = Owned(q)
      BY <1>1, <1>3 DEF Owned, heap
    <2>3. QED
      BY <2>1, <2>2
  <1>10. Shape(n, s)'
    BY <1>1, <1>3, <1>8, <1>9, StillShape
  <1>11. QED
    BY <1>4, <1>6, <1>10

LEMMA StartInv ==
  ASSUME Types, Control, NEW n \in Nat, NEW s \in [1 .. n -> Nodes], Shape(n, s),
         NEW p \in Procs, Start(p), UNCHANGED copy
  PROVE  Types' /\ Control' /\ Shape(n, s)'
  <1> DEFINE there == IF call[p].fn = "free_list" THEN "release" ELSE "walk"
  <1>1. /\ pc[p] = "start" /\ Goto(p, there) /\ UNCHANGED <<heap, mutex, call, copy>>
        /\ reg' = [reg EXCEPT ![p].temp = head, ![p].prev = head]
    BY DEF Start, Step
  <1>2. Controlled(p) /\ exists
    BY <1>1 DEF Control, Controlled
  <1>3. /\ pc'[p] = there /\ reg'[p].temp = head /\ reg'[p].prev = head
        /\ reg'[p].new = reg[p].new
        /\ \A q \in Procs \ {p} : pc'[q] = pc[q] /\ reg'[q] = reg[q]
    BY <1>1, GotoOthers DEF Types, ThreadTypes
  <1>4. Types'
    <2>1. reg' \in [Procs -> [new : Pointers, old : Pointers, temp : Pointers, prev : Pointers]]
      <3>1. head \in Pointers
        BY DEF Types, HeapTypes
      <3> DEFINE g == [reg[p] EXCEPT !.temp = head, !.prev = head]
      <3>2. reg' = [reg EXCEPT ![p] = g]
        BY <1>1
      <3>3. g \in [new : Pointers, old : Pointers, temp : Pointers, prev : Pointers]
        BY <3>1 DEF Types, ThreadTypes
      <3> HIDE DEF g
      <3>4. QED
        BY <3>2, <3>3 DEF Types, ThreadTypes
    <2>2. there \in {"release", "walk"}
      OBVIOUS
    <2>3. pc' \in [Procs -> {"idle", "malloc", "lock", "unlock", "read", "publish", "link",
                             "start", "walk", "mark", "unlink", "fetch", "release", "return"}]
      BY <1>1, <2>2 DEF Types, ThreadTypes, Goto
    <2>4. QED
      BY <1>1, <2>1, <2>3 DEF Types, HeapTypes, ThreadTypes, heap
  <1>5. Controlled(p)'
    BY <1>1, <1>2, <1>3 DEF Controlled, PlaceIn, LockedIn, NewIn, Inserts, Gets, heap
  <1>6. Control'
    <2>1. exists' = exists /\ mutex' = mutex
      BY <1>1 DEF heap
    <2>2. QED
      BY <1>1, <1>3, <1>5, <2>1, ControlStep
  <1>7. head = First(n, s)
    <2>1. Using(p)
      BY <1>1, UsingPlaces
    <2>2. \A q \in Procs : pc[q] \notin {"link", "release"}
      BY <1>1, <2>1, OthersWait
    <2>3. QED
      BY <1>2, <2>2 DEF Shape, Headed
  <1>8. Placed(p, n, s)'
    <2>1. n = 0 => reg'[p].temp = NULL /\ Passed(p, s, n + 1)'
      BY <1>3, <1>7 DEF First, Passed
    <2>2. n # 0 => 1 \in 1 .. n /\ Cursor(p, s, 1)'
      BY <1>3, <1>7 DEF First, Passed, Cursor
    <2>3. \/ \E i \in 1 .. n : Cursor(p, s, i)'
          \/ reg'[p].temp = NULL /\ Passed(p, s, n + 1)'
      BY <2>1, <2>2
    <2>4. QED
      BY <1>3, <1>7, <2>3 DEF Placed, HasFound, First
  <1>9. \A q \in Procs : Owned(q)' = Owned(q)
    <2>1. Owned(p)' = Owned(p)
      BY <1>1, <1>3 DEF Owned
    <2>2. ASSUME NEW q \in Procs \ {p} PROVE Owned(q)' = Owned(q)
      BY <1>1, <1>3 DEF Owned, heap
    <2>3. QED
      BY <2>1, <2>2
  <1>10. Shape(n, s)'
    BY <1>1, <1>3, <1>8, <1>9, StillShape
  <1>11. QED
    BY <1>4, <1>6, <1>10

(* Where a function goes last.                                             *)
LEMMA FinishIs ==
  ASSUME NEW fn, NEW locked \in BOOLEAN
  PROVE  /\ Finish(fn, locked) =
              IF locked /\ fn \in {"insert", "set_status", "print", "remove", "get", "get_by_fd"}
              THEN "unlock" ELSE "return"
         /\ Finish(fn, locked) \in {"unlock", "return"}
  BY DEF Finish, AfterLock

(* A step to the end of a function, by a thread that has the mutex exactly *)
(* if the function unlocks it.                                             *)
LEMMA FinishControl ==
  ASSUME Types, Control, NEW p \in Procs, NEW locked \in BOOLEAN,
         Goto(p, Finish(call[p].fn, locked)), UNCHANGED <<mutex, call, copy>>,
         pc[p] \in {"link", "walk", "mark", "unlink", "fetch"},
         pc[p] = "walk" => (locked <=> mutex = p), pc[p] # "walk" => locked,
         exists' = exists, \A q \in Procs : reg'[q].new = reg[q].new
  PROVE  Control' /\ pc'[p] \in {"unlock", "return"} /\ \A q \in Procs \ {p} : pc'[q] = pc[q]
  <1> DEFINE there == Finish(call[p].fn, locked)
  <1>1. pc'[p] = there /\ \A q \in Procs \ {p} : pc'[q] = pc[q]
    BY GotoOthers
  <1>2. /\ there = IF locked /\ call[p].fn \in {"insert", "set_status", "print", "remove",
                                              "get", "get_by_fd"}
                   THEN "unlock" ELSE "return"
        /\ there \in {"unlock", "return"}
    BY FinishIs
  <1> HIDE DEF there
  <1>3. Controlled(p)
    BY DEF Control
  <1>4. PlaceIn(call[p].fn, there)
    BY <1>2, <1>3 DEF Controlled, PlaceIn
  <1>5. mutex = p <=> LockedIn(call[p].fn, there)
    BY <1>2, <1>3 DEF Controlled, PlaceIn, LockedIn
  <1>6. NewIn(call[p].fn, there, reg[p].new)
    BY <1>2, <1>3 DEF Controlled, PlaceIn, NewIn, Inserts, Gets
  <1>7. exists /\ call[p].data \in Data /\ copy[p] = NULL
    BY <1>3 DEF Controlled
  <1>8. Controlled(p)'
    BY <1>1, <1>2, <1>4, <1>5, <1>6, <1>7 DEF Controlled
  <1>9. Control'
    BY <1>1, <1>8, ControlStep
  <1>10. QED
    BY <1>1, <1>2, <1>9

LEMMA FinishTypes ==
  ASSUME Types, NEW p \in Procs, NEW locked \in BOOLEAN,
         Goto(p, Finish(call[p].fn, locked)), UNCHANGED <<mutex, call, copy>>, HeapTypes',
         reg' \in [Procs -> [new : Pointers, old : Pointers, temp : Pointers, prev : Pointers]]
  PROVE  Types'
  <1>1. Finish(call[p].fn, locked) \in {"unlock", "return"}
    BY FinishIs
  <1>2. pc' \in [Procs -> {"idle", "malloc", "lock", "unlock", "read", "publish", "link",
                           "start", "walk", "mark", "unlink", "fetch", "release", "return"}]
    BY <1>1 DEF Types, ThreadTypes, Goto
  <1>3. QED
    BY <1>2 DEF Types, ThreadTypes

LEMMA WalkedTypes ==
  ASSUME Types, NEW p \in Procs, NEW a \in Pointers, NEW b \in Pointers,
         reg' = [reg EXCEPT ![p].prev = a, ![p].temp = b]
  PROVE  reg' \in [Procs -> [new : Pointers, old : Pointers, temp : Pointers, prev : Pointers]]
  BY DEF Types, ThreadTypes

LEMMA WalkInv ==
  ASSUME Types, Control, NEW n \in Nat, NEW s \in [1 .. n -> Nodes], Shape(n, s),
         NEW p \in Procs, Walk(p), UNCHANGED copy
  PROVE  Types' /\ Control' /\ Shape(n, s)'
  <1> DEFINE at == reg[p].temp
  <1>1. /\ pc[p] = "walk" /\ UNCHANGED <<heap, mutex, call, copy>>
        /\ \/ /\ at = NULL
              /\ Goto(p, Finish(call[p].fn, mutex = p))
              /\ UNCHANGED reg
           \/ /\ at # NULL /\ Matches(p, node[at].data)
              /\ Goto(p, AfterMatch[call[p].fn])
              /\ UNCHANGED reg
           \/ /\ at # NULL /\ ~Matches(p, node[at].data)
              /\ reg' = [reg EXCEPT ![p].prev = at, ![p].temp = node[at].next]
              /\ UNCHANGED pc
    BY DEF Walk, Step
  <1>2. Controlled(p) /\ exists
    BY <1>1 DEF Control, Controlled
  <1>3. HeapTypes' /\ exists' = exists
    BY <1>1 DEF Types, HeapTypes, heap
  <1>4. \/ \E i \in 1 .. n : Cursor(p, s, i)
        \/ reg[p].temp = NULL /\ Passed(p, s, n + 1)
    BY <1>1 DEF Shape, Placed
  <1>5. CASE /\ at = NULL
             /\ Goto(p, Finish(call[p].fn, mutex = p))
             /\ UNCHANGED reg
    <2>1. Types'
      BY <1>1, <1>3, <1>5, FinishTypes DEF Types, ThreadTypes
    <2>2. Control' /\ pc'[p] \in {"unlock", "return"} /\ \A q \in Procs \ {p} : pc'[q] = pc[q]
      BY <1>1, <1>3, <1>5, FinishControl
    <2>3. Placed(p, n, s)'
      BY <2>2 DEF Placed, HasFound
    <2>4. \A q \in Procs : Owned(q)' = Owned(q)
      BY <1>1, <1>5, <2>2 DEF Owned, heap
    <2>5. Shape(n, s)'
      BY <1>1, <1>5, <2>2, <2>3, <2>4, StillShape
    <2>6. QED
      BY <2>1, <2>2, <2>5
  <1>6. CASE /\ at # NULL /\ Matches(p, node[at].data)
             /\ Goto(p, AfterMatch[call[p].fn])
             /\ UNCHANGED reg
    <2> DEFINE there == AfterMatch[call[p].fn]
    <2>1. call[p].fn \in {"remove", "remove_no_mutex", "set_status", "set_status_no_mutex",
                          "get", "get_by_fd", "get_no_mutex"}
      BY <1>1, <1>2, <1>6 DEF Controlled, PlaceIn, Matches
    <2>2. /\ call[p].fn = "remove" => there = "lock"
          /\ call[p].fn = "remove_no_mutex" => there = "unlink"
          /\ call[p].fn \in {"set_status", "set_status_no_mutex"} => there = "mark"
          /\ call[p].fn \in Gets => there = "malloc"
      BY <2>1 DEF AfterMatch, Gets
    <2>3. pc'[p] = there /\ \A q \in Procs \ {p} : pc'[q] = pc[q]
      BY <1>6, GotoOthers
    <2> HIDE DEF there
    <2>4. there \in {"lock", "unlink", "mark", "malloc"}
      BY <2>1, <2>2 DEF Gets
    <2>5. pc' \in [Procs -> {"idle", "malloc", "lock", "unlock", "read", "publish", "link",
                             "start", "walk", "mark", "unlink", "fetch", "release", "return"}]
      BY <1>6, <2>4 DEF Types, ThreadTypes, Goto, there
    <2>6. Types'
      BY <1>1, <1>3, <1>6, <2>5 DEF Types, ThreadTypes
    <2>7. Controlled(p)'
      <3>1. PlaceIn(call[p].fn, there)
        BY <2>1, <2>2 DEF PlaceIn, Gets
      <3>2. mutex = p <=> LockedIn(call[p].fn, there)
        BY <1>1, <1>2, <2>1, <2>2 DEF Controlled, LockedIn, Gets
      <3>3. NewIn(call[p].fn, there, reg[p].new)
        BY <1>1, <1>2, <2>1, <2>2 DEF Controlled, NewIn, Gets, Inserts
      <3>4. call[p].data \in Data /\ copy[p] = NULL
        BY <1>1, <1>2 DEF Controlled
      <3>5. QED
        BY <1>1, <1>2, <1>3, <1>6, <2>3, <2>4, <3>1, <3>2, <3>3, <3>4 DEF Controlled
    <2>8. Control'
      BY <1>1, <1>3, <1>6, <2>3, <2>7, ControlStep
    <2>9. Placed(p, n, s)'
      <3>1. PICK i \in 1 .. n : Cursor(p, s, i)
        BY <1>4, <1>6
      <3>2. Matches(p, node[s[i]].data)
        BY <1>6, <3>1 DEF Cursor
      <3>3. Finds(p, n, s)
        BY <3>1, <3>2 DEF Finds
      <3>4. Finds(p, n, s)' <=> Finds(p, n, s)
        BY <1>1, <1>6 DEF Finds, Cursor, Passed, Matches, heap
      <3>5. call'[p].fn \notin Inserts
        BY <1>1, <2>1 DEF Inserts
      <3>6. QED
        BY <2>3, <2>4, <3>3, <3>4, <3>5 DEF Placed, Inserts
    <2>10. \A q \in Procs : Owned(q)' = Owned(q)
      BY <1>1, <1>6, <2>3, <2>4 DEF Owned, heap
    <2>11. Shape(n, s)'
      BY <1>1, <1>6, <2>3, <2>9, <2>10, StillShape
    <2>12. QED
      BY <2>6, <2>8, <2>11
  <1>7. CASE /\ at # NULL /\ ~Matches(p, node[at].data)
             /\ reg' = [reg EXCEPT ![p].prev = at, ![p].temp = node[at].next]
             /\ UNCHANGED pc
    <2>1. PICK i \in 1 .. n : Cursor(p, s, i)
      BY <1>4, <1>7
    <2>2. /\ at = s[i] /\ node[at].next = After(n, s, i) /\ node[at].next \in Pointers
          /\ at \in Pointers
      BY <2>1, ChainNodes DEF Cursor, Shape, Pointers
    <2>3. /\ reg'[p].temp = After(n, s, i) /\ reg'[p].prev = s[i] /\ reg'[p].new = reg[p].new
          /\ \A q \in Procs \ {p} : reg'[q] = reg[q]
      BY <1>7, <2>2 DEF Types, ThreadTypes
    <2>4. reg' \in [Procs -> [new : Pointers, old : Pointers, temp : Pointers, prev : Pointers]]
      BY <1>7, <2>2, WalkedTypes
    <2>5. Types'
      BY <1>1, <1>3, <1>7, <2>4 DEF Types, ThreadTypes
    <2>6. Control'
      BY <1>1, <1>2, <1>3, <1>7, <2>3, ControlStep DEF Controlled
    <2>7. Placed(p, n, s)'
      <3>1. \A d : Matches(p, d)' <=> Matches(p, d)
        BY <1>1 DEF Matches
      <3>2. \A j \in 1 .. i : ~Matches(p, node'[s[j]].data)
        BY <1>1, <1>7, <2>1, <2>2 DEF Cursor, Passed, heap
      <3>3. Passed(p, s, i + 1)'
        BY <3>1, <3>2 DEF Passed
      <3>4. CASE i = n
        BY <1>1, <1>7, <2>3, <3>3, <3>4 DEF Placed, HasFound, After
      <3>5. CASE i # n
        <4>1. i + 1 \in 1 .. n /\ After(n, s, i) = s[i + 1] /\ i + 1 # 1 /\ (i + 1) - 1 = i
          BY <3>5 DEF After
        <4>2. Cursor(p, s, i + 1)'
          BY <2>3, <3>3, <4>1 DEF Cursor
        <4>3. QED
          BY <1>1, <1>7, <4>1, <4>2 DEF Placed, HasFound
      <3>6. QED
        BY <3>4, <3>5
    <2>8. \A q \in Procs : Owned(q)' = Owned(q)
      BY <1>1, <1>7, <2>3 DEF Owned, heap
    <2>9. Shape(n, s)'
      BY <1>1, <1>7, <2>3, <2>7, <2>8, StillShape
    <2>10. QED
      BY <2>5, <2>6, <2>9
  <1>8. QED
    BY <1>1, <1>5, <1>6, <1>7

-----------------------------------------------------------------------------
(* What a thread knows when the nodes of the list and its own keep their   *)
(* data.                                                                   *)
LEMMA PlacedFrame ==
  ASSUME NEW n \in Nat, NEW s \in [1 .. n -> Nodes], NEW q \in Procs, Placed(q, n, s),
         pc'[q] = pc[q], call'[q] = call[q], reg'[q] = reg[q], pc[q] = "link" => head' = head,
         \A i \in 1 .. n : node'[s[i]].data = node[s[i]].data,
         pc[q] = "link" => node'[head].data = node[head].data,
         pc[q] \in {"lock", "read", "publish"} /\ call[q].fn \in Inserts =>
           node'[reg[q].new].data = node[reg[q].new].data
  PROVE  Placed(q, n, s)'
  <1>1. \A d : Matches(q, d)' <=> Matches(q, d)
    BY DEF Matches
  <1>2. \A i \in 1 .. n + 1 : Passed(q, s, i)' <=> Passed(q, s, i)
    <2>1. \A i \in 1 .. n + 1 : \A j \in 1 .. i - 1 :
             Matches(q, node[s[j]].data)' <=> Matches(q, node[s[j]].data)
      BY DEF Matches
    <2>2. QED
      BY <2>1 DEF Passed
  <1>3. \A i \in 1 .. n : Cursor(q, s, i)' <=> Cursor(q, s, i)
    BY <1>2 DEF Cursor
  <1>4. Finds(q, n, s)' <=> Finds(q, n, s)
    <2>1. \A i \in 1 .. n : Matches(q, node[s[i]].data)' <=> Matches(q, node[s[i]].data)
      BY DEF Matches
    <2>2. QED
      BY <1>3, <2>1 DEF Finds
  <1>5. Passed(q, s, n + 1)' <=> Passed(q, s, n + 1)
    BY <1>2
  <1>6. (\E i \in 1 .. n : Cursor(q, s, i))' <=> (\E i \in 1 .. n : Cursor(q, s, i))
    BY <1>3
  <1>7. HasFound(call[q].fn, pc[q])' <=> HasFound(call[q].fn, pc[q])
    BY DEF HasFound, Gets
  <1>8. Inserts' = Inserts /\ First(n, s)' = First(n, s)
    BY DEF Inserts, First
  <1>9. QED
    BY <1>4, <1>5, <1>6, <1>7, <1>8 DEF Placed

(* A thread that waits knows nothing of the list.                          *)
LEMMA WaitingPlaced ==
  ASSUME NEW n \in Nat, NEW s \in [1 .. n -> Nodes], NEW q \in Procs,
         pc'[q] \in {"idle", "malloc", "lock", "unlock", "return"},
         ~HasFound(call'[q].fn, pc'[q]),
         pc'[q] = "lock" /\ call'[q].fn \in Inserts =>
           node'[reg'[q].new].data = call'[q].data
  PROVE  Placed(q, n, s)'
  BY DEF Placed, HasFound, Inserts, Gets

(* What belongs to a thread is allocated and not in the list.              *)
LEMMA OwnedNodes ==
  ASSUME Types, Control, NEW n \in Nat, NEW s \in [1 .. n -> Nodes], Shape(n, s),
         NEW q \in Procs
  PROVE  /\ Owned(q) \in Pointers
         /\ Owned(q) # NULL => Owned(q) \in Nodes /\ node[Owned(q)] # Free
         /\ \A i \in 1 .. n : s[i] # Owned(q)
         /\ pc[q] \in {"lock", "read", "publish"} /\ call[q].fn \in Inserts =>
              reg[q].new = Owned(q) /\ Owned(q) # NULL
         /\ pc[q] = "link" => head = Owned(q) /\ Owned(q) # NULL
  <1>1. Owned(q) \in Pointers
    BY DEF Types, HeapTypes, ThreadTypes, Owned
  <1>2. Owned(q) # NULL => Owned(q) \in Nodes /\ node[Owned(q)] # Free
    BY <1>1 DEF Shape, Accounted, Pointers
  <1>3. \A i \in 1 .. n : s[i] # Owned(q)
    BY DEF Shape, Accounted, On
  <1>4. pc[q] \in {"lock", "read", "publish"} /\ call[q].fn \in Inserts =>
          reg[q].new = Owned(q) /\ Owned(q) # NULL
    BY DEF Control, Controlled, NewIn, Owned
  <1>5. pc[q] = "link" => head = Owned(q) /\ Owned(q) # NULL
    BY DEF Shape, Placed, Owned
  <1>6. QED
    BY <1>1, <1>2, <1>3, <1>4, <1>5

(* malloc: a node that was free is the thread's.                           *)
LEMMA MallocInv ==
  ASSUME Types, Control, NEW n \in Nat, NEW s \in [1 .. n -> Nodes], Shape(n, s),
         NEW p \in Procs, Malloc(p), UNCHANGED copy
  PROVE  Types' /\ Control' /\ Shape(n, s)'
  <1> DEFINE there == AfterMalloc[call[p].fn]
             c == IF call[p].fn \in Gets THEN [next |-> NULL, data |-> NULL]
                  ELSE [next |-> Garbage, data |-> call[p].data]
  <1>1. PICK a \in Nodes \ Live :
          /\ pc[p] = "malloc" /\ Goto(p, there) /\ UNCHANGED <<exists, head, mutex, call, copy>>
          /\ node' = [node EXCEPT ![a] = c]
          /\ reg' = [reg EXCEPT ![p].new = a]
    BY DEF Malloc, Step
  <1>2. Controlled(p)
    BY DEF Control
  <1>3. /\ call[p].fn \in {"insert", "insert_no_mutex", "get", "get_by_fd", "get_no_mutex"}
        /\ call[p].data \in Data /\ exists /\ copy[p] = NULL /\ reg[p].new = NULL
        /\ mutex # p
    BY <1>1, <1>2 DEF Controlled, PlaceIn, NewIn, LockedIn, Inserts, Gets
  <1>4. /\ call[p].fn \in {"insert", "get", "get_by_fd"} => there = "lock"
        /\ call[p].fn = "insert_no_mutex" => there = "read"
        /\ call[p].fn = "get_no_mutex" => there = "fetch"
    BY <1>3 DEF AfterMalloc
  <1>5. c \in Contents /\ (call[p].fn \in Inserts => c.data = call[p].data)
    BY <1>3 DEF Contents, Pointers, Given, Inserts, Gets
  <1> HIDE DEF there, c
  <1>6. /\ a \in Nodes /\ node[a] = Free /\ node'[a] = c /\ c # Free
        /\ \A b \in Nodes \ {a} : node'[b] = node[b]
    BY <1>1, <1>5, LiveNodes, ContentsAllocated DEF Types, HeapTypes
  <1>7. /\ pc'[p] = there /\ reg'[p].new = a /\ reg'[p].temp = reg[p].temp
        /\ reg'[p].prev = reg[p].prev
        /\ \A q \in Procs \ {p} : pc'[q] = pc[q] /\ reg'[q] = reg[q]
    BY <1>1, GotoOthers DEF Types, ThreadTypes
  <1>8. Types'
    <2>1. pc' \in [Procs -> {"idle", "malloc", "lock", "unlock", "read", "publish", "link",
                             "start", "walk", "mark", "unlink", "fetch", "release", "return"}]
      BY <1>1, <1>3, <1>4 DEF Types, ThreadTypes, Goto
    <2>2. reg' \in [Procs -> [new : Pointers, old : Pointers, temp : Pointers, prev : Pointers]]
      BY <1>1 DEF Types, ThreadTypes, Pointers
    <2>3. node' \in [Nodes -> Contents \cup {Free}]
      BY <1>1, <1>5 DEF Types, HeapTypes
    <2>4. QED
      BY <1>1, <2>1, <2>2, <2>3 DEF Types, HeapTypes, ThreadTypes
  <1>9. Controlled(p)'
    <2>2. PlaceIn(call[p].fn, there) /\ ~LockedIn(call[p].fn, there)
      BY <1>3, <1>4 DEF PlaceIn, LockedIn
    <2>3. NewIn(call[p].fn, there, a)
      BY <1>3, <1>4, <1>6, NullIsNoNode DEF NewIn, Inserts, Gets
    <2>4. pc'[p] # "idle"
      BY <1>3, <1>4, <1>7
    <2>5. QED
      BY <1>1, <1>3, <1>7, <2>2, <2>3, <2>4 DEF Controlled
  <1>10. Control'
    BY <1>1, <1>7, <1>9, ControlStep
  <1>11. \A i \in 1 .. n : s[i] # a /\ node'[s[i]] = node[s[i]]
    BY <1>6, ChainNodes DEF Shape
  <1>12. Chained(n, s)'
    BY <1>11 DEF Shape, Chained, After
  <1>13. Headed(n, s)'
    <2>1. pc[p] \notin {"link", "release"} /\ pc'[p] \notin {"link", "release"}
      BY <1>1, <1>3, <1>4, <1>7
    <2>2. (\A q \in Procs : pc'[q] \notin {"link", "release"}) =>
             \A q \in Procs : pc[q] \notin {"link", "release"}
      BY <1>7, <2>1
    <2>3. QED
      BY <1>1, <2>2 DEF Shape, Headed, First
  <1>14. /\ Owned(p)' = a /\ Owned(p) = NULL
         /\ \A q \in Procs \ {p} : Owned(q)' = Owned(q) /\ Owned(q) # a
    <2>1. Owned(p)' = a /\ Owned(p) = NULL
      BY <1>1, <1>3, <1>4, <1>7 DEF Owned
    <2>2. ASSUME NEW q \in Procs \ {p} PROVE Owned(q)' = Owned(q) /\ Owned(q) # a
      <3>1. Owned(q)' = Owned(q)
        BY <1>1, <1>7 DEF Owned
      <3>2. QED
        BY <1>6, <3>1, OwnedNodes, NullIsNoNode
    <2>3. QED
      BY <2>1, <2>2
  <1>15. Accounted(n, s)'
    <2>1. ASSUME NEW b \in Nodes
          PROVE  node'[b] # Free <=> On(n, s, b) \/ \E q \in Procs : Owned(q)' = b
      <3>1. node[b] # Free <=> On(n, s, b) \/ \E q \in Procs : Owned(q) = b
        BY DEF Shape, Accounted
      <3>2. CASE b = a
        BY <1>6, <1>14, <3>2
      <3>3. CASE b # a
        BY <1>6, <1>14, <3>1, <3>3, NullIsNoNode
      <3>4. QED
        BY <3>2, <3>3
    <2>2. \A q \in Procs : ~On(n, s, Owned(q)')
      BY <1>11, <1>14 DEF Shape, Accounted, On
    <2>3. \A q, r \in Procs : Owned(q)' # NULL /\ Owned(q)' = Owned(r)' => q = r
      BY <1>14 DEF Shape, Accounted
    <2>4. QED
      BY <2>1, <2>2, <2>3 DEF Accounted, On
  <1>16. ASSUME NEW q \in Procs \ {p} PROVE Placed(q, n, s)'
    <2>1. Placed(q, n, s)
      BY DEF Shape
    <2>2. Owned(q) \in Nodes => node'[Owned(q)] = node[Owned(q)]
      BY <1>6, <1>14
    <2>3. /\ pc[q] = "link" => node'[head].data = node[head].data
          /\ pc[q] \in {"lock", "read", "publish"} /\ call[q].fn \in Inserts =>
               node'[reg[q].new].data = node[reg[q].new].data
      BY <2>2, OwnedNodes
    <2>4. QED
      BY <1>1, <1>7, <1>11, <2>1, <2>3, PlacedFrame
  <1>17. Placed(p, n, s)'
    <2>1. CASE call[p].fn \in Inserts
      <3>1. ~HasFound(call'[p].fn, pc'[p])
        BY <1>1, <1>4, <1>7, <2>1 DEF HasFound, Inserts, Gets
      <3>2. node'[reg'[p].new].data = call'[p].data
        BY <1>1, <1>5, <1>6, <1>7, <2>1
      <3>3. QED
        BY <1>1, <1>4, <1>7, <2>1, <3>1, <3>2 DEF Placed, Inserts, HasFound, Gets
    <2>2. CASE call[p].fn \in Gets
      <3>1. Finds(p, n, s)
        BY <1>1, <2>2 DEF Shape, Placed, HasFound
      <3>2. PICK i \in 1 .. n : Cursor(p, s, i) /\ Matches(p, node[s[i]].data)
        BY <3>1 DEF Finds
      <3>3. \A j \in 1 .. n : Matches(p, node[s[j]].data)' <=> Matches(p, node[s[j]].data)
        BY <1>1, <1>11 DEF Matches
      <3>4. Passed(p, s, i)'
        <4>1. \A j \in 1 .. i - 1 : j \in 1 .. n
          OBVIOUS
        <4>2. QED
          BY <3>2, <3>3, <4>1 DEF Passed, Cursor
      <3>5. Cursor(p, s, i)'
        BY <1>7, <3>2, <3>4 DEF Cursor
      <3>6. Finds(p, n, s)'
        BY <3>2, <3>3, <3>5 DEF Finds
      <3>7. call'[p].fn \notin Inserts
        BY <1>1, <2>2 DEF Gets, Inserts
      <3>8. pc'[p] \in {"lock", "fetch"}
        BY <1>4, <1>7, <2>2 DEF Gets
      <3>9. QED
        BY <3>6, <3>7, <3>8 DEF Placed, Inserts
    <2>3. QED
      BY <1>3, <2>1, <2>2 DEF Inserts, Gets
  <1>18. Shape(n, s)'
    BY <1>12, <1>13, <1>15, <1>16, <1>17 DEF Shape
  <1>19. QED
    BY <1>8, <1>10, <1>18

(* The threads that wait while p changes the list.                         *)
LEMMA OthersPlaced ==
  ASSUME Types, Control, NEW n \in Nat, NEW s \in [1 .. n -> Nodes], Shape(n, s),
         NEW p \in Procs, Using(p), NEW q \in Procs, q # p,
         pc'[q] = pc[q], call'[q] = call[q], reg'[q] = reg[q],
         Owned(q) \in Nodes => node'[Owned(q)] = node[Owned(q)],
         NEW m \in Nat, NEW t \in [1 .. m -> Nodes]
  PROVE  Placed(q, m, t)'
  <1>1. pc[q] \in {"idle", "malloc", "lock", "return"} /\ ~HasFound(call[q].fn, pc[q])
    BY OthersWait
  <1>2. pc[q] = "lock" /\ call[q].fn \in Inserts =>
          reg[q].new = Owned(q) /\ Owned(q) \in Nodes
    BY OwnedNodes
  <1>3. pc[q] = "lock" /\ call[q].fn \in Inserts => node[reg[q].new].data = call[q].data
    BY DEF Shape, Placed
  <1>4. pc'[q] = "lock" /\ call'[q].fn \in Inserts => node'[reg'[q].new].data = call'[q].data
    BY <1>2, <1>3
  <1>5. QED
    BY <1>1, <1>4, WaitingPlaced

(* publish: the new node is the head, and still the thread's.              *)
LEMMA PublishInv ==
  ASSUME Types, Control, NEW n \in Nat, NEW s \in [1 .. n -> Nodes], Shape(n, s),
         NEW p \in Procs, Publish(p), UNCHANGED copy
  PROVE  Types' /\ Control' /\ Shape(n, s)'
  <1>1. /\ pc[p] = "publish" /\ Goto(p, "link") /\ UNCHANGED <<exists, node, mutex, call, copy>>
        /\ head' = reg[p].new /\ reg' = [reg EXCEPT ![p].new = NULL]
    BY DEF Publish, Step
  <1>2. Controlled(p) /\ call[p].fn \in Inserts
    BY <1>1 DEF Control, Controlled, PlaceIn, Inserts
  <1>3. /\ pc'[p] = "link" /\ reg'[p].new = NULL /\ reg'[p].old = reg[p].old
        /\ \A q \in Procs \ {p} : pc'[q] = pc[q] /\ reg'[q] = reg[q]
    BY <1>1, GotoOthers DEF Types, ThreadTypes
  <1>4. /\ reg[p].new \in Nodes /\ Owned(p) = reg[p].new /\ reg[p].new # NULL
        /\ node[reg[p].new].data = call[p].data /\ reg[p].old = First(n, s)
    BY <1>1, <1>2, OwnedNodes DEF Shape, Placed
  <1>5. Types'
    <2>1. NULL \in Pointers /\ reg[p].new \in Pointers
      BY <1>4 DEF Pointers
    <2>2. reg' \in [Procs -> [new : Pointers, old : Pointers, temp : Pointers, prev : Pointers]]
      BY <1>1, <2>1 DEF Types, ThreadTypes
    <2>3. pc' \in [Procs -> {"idle", "malloc", "lock", "unlock", "read", "publish", "link",
                             "start", "walk", "mark", "unlink", "fetch", "release", "return"}]
      BY <1>1 DEF Types, ThreadTypes, Goto
    <2>4. QED
      BY <1>1, <2>1, <2>2, <2>3 DEF Types, HeapTypes, ThreadTypes
  <1>6. Controlled(p)'
    BY <1>1, <1>2, <1>3 DEF Controlled, PlaceIn, LockedIn, NewIn, Inserts, Gets
  <1>7. Control'
    BY <1>1, <1>3, <1>6, ControlStep
  <1>8. Using(p)
    BY <1>1, UsingPlaces
  <1>9. \A q \in Procs : Owned(q)' = Owned(q)
    <2>1. Owned(p)' = Owned(p)
      BY <1>1, <1>3, <1>4 DEF Owned
    <2>2. ASSUME NEW q \in Procs \ {p} PROVE Owned(q)' = Owned(q)
      <3>1. pc[q] # "link"
        BY <1>8, OthersWait
      <3>2. QED
        BY <1>1, <1>3, <3>1 DEF Owned
    <2>3. QED
      BY <2>1, <2>2
  <1>10. Chained(n, s)'
    BY <1>1 DEF Shape, Chained, After
  <1>11. Headed(n, s)'
    BY <1>1, <1>3 DEF Shape, Headed
  <1>12. Accounted(n, s)'
    BY <1>1, <1>9 DEF Shape, Accounted, On
  <1>13. ASSUME NEW q \in Procs \ {p} PROVE Placed(q, n, s)'
    BY <1>1, <1>3, <1>8, OthersPlaced
  <1>14. Placed(p, n, s)'
    <2>1. head' # NULL /\ node'[head'].data = call'[p].data
      BY <1>1, <1>4
    <2>2. reg'[p].old = First(n, s)'
      BY <1>3, <1>4 DEF First
    <2>3. QED
      BY <1>3, <2>1, <2>2 DEF Placed, HasFound
  <1>15. Shape(n, s)'
    BY <1>10, <1>11, <1>12, <1>13, <1>14 DEF Shape
  <1>16. QED
    BY <1>5, <1>7, <1>15

(* A step that changes the data of one node and ends the function.         *)
LEMMA DataShape ==
  ASSUME Types, Control, NEW n \in Nat, NEW s \in [1 .. n -> Nodes], Shape(n, s),
         NEW p \in Procs, Using(p), UNCHANGED <<exists, head, reg, copy, call>>,
         pc[p] \notin {"idle", "link", "release"}, pc'[p] \in {"unlock", "return"},
         \A q \in Procs \ {p} : pc'[q] = pc[q],
         NEW a \in Nodes, node[a] # Free, node'[a] # Free, node'[a].next = node[a].next,
         \A b \in Nodes \ {a} : node'[b] = node[b],
         On(n, s, a) => node'[a].data \in Given,
         \A q \in Procs \ {p} : Owned(q) # a
  PROVE  Shape(n, s)'
  <1>1. ASSUME NEW i \in 1 .. n
        PROVE  /\ node'[s[i]] # Free /\ node'[s[i]].next = node[s[i]].next
               /\ node'[s[i]].data \in Given
    <2>1. s[i] \in Nodes /\ node[s[i]] # Free /\ node[s[i]].data \in Given
      BY ChainNodes DEF Shape
    <2>2. CASE s[i] = a
      BY <2>2 DEF On
    <2>3. CASE s[i] # a
      BY <2>1, <2>3
    <2>4. QED
      BY <2>2, <2>3
  <1>2. Chained(n, s)'
    BY <1>1 DEF Shape, Chained, After
  <1>3. Headed(n, s)'
    <2>1. (\A q \in Procs : pc'[q] \notin {"link", "release"}) =>
             \A q \in Procs : pc[q] \notin {"link", "release"}
      OBVIOUS
    <2>2. QED
      BY <2>1 DEF Shape, Headed, First
  <1>4. \A q \in Procs : Owned(q)' = Owned(q)
    <2>1. Owned(p)' = Owned(p)
      BY DEF Owned
    <2>2. ASSUME NEW q \in Procs \ {p} PROVE Owned(q)' = Owned(q)
      BY DEF Owned
    <2>3. QED
      BY <2>1, <2>2
  <1>5. Accounted(n, s)'
    <2>1. \A b \in Nodes : node'[b] # Free <=> node[b] # Free
      OBVIOUS
    <2>2. QED
      BY <1>4, <2>1 DEF Shape, Accounted, On
  <1>6. ASSUME NEW q \in Procs \ {p} PROVE Placed(q, n, s)'
    <2>1. Owned(q) \in Nodes => node'[Owned(q)] = node[Owned(q)]
      OBVIOUS
    <2>2. QED
      BY <2>1, OthersPlaced
  <1>7. Placed(p, n, s)'
    BY DEF Placed, HasFound
  <1>8. QED
    BY <1>2, <1>3, <1>5, <1>6, <1>7 DEF Shape

(* mark: the status of the node that was found is set.                     *)
LEMMA MarkInv ==
  ASSUME Types, Control, NEW n \in Nat, NEW s \in [1 .. n -> Nodes], Shape(n, s),
         NEW p \in Procs, Mark(p), UNCHANGED copy
  PROVE  Types' /\ Control' /\ Shape(n, s)'
  <1> DEFINE at == reg[p].temp
             d == [node[at].data EXCEPT !.completion = TRUE]
  <1>1. /\ pc[p] = "mark" /\ Goto(p, Finish(call[p].fn, TRUE))
        /\ UNCHANGED <<exists, head, mutex, call, reg, copy>>
        /\ node' = [node EXCEPT ![at].data.completion = TRUE]
    BY DEF Mark, Step
  <1>2. Finds(p, n, s) /\ Chained(n, s)
    BY <1>1 DEF Shape, Placed, HasFound
  <1>3. PICK i \in 1 .. n :
          /\ at = s[i] /\ at \in Nodes /\ node[at] \in Contents /\ node[at] # Free
          /\ node[at].data \in Given
    BY <1>2, FoundNodes
  <1>4. d \in Given
    BY <1>3, MarkedType
  <1>5. node' = [node EXCEPT ![at] = [node[at] EXCEPT !.data = d]]
    BY <1>1
  <1> HIDE DEF at, d
  <1>6. /\ node'[at] = [node[at] EXCEPT !.data = d]
        /\ \A b \in Nodes \ {at} : node'[b] = node[b]
    BY <1>3, <1>5 DEF Types, HeapTypes
  <1>7. node'[at] \in Contents /\ node'[at].next = node[at].next /\ node'[at].data = d
    BY <1>3, <1>4, <1>6 DEF Contents
  <1>8. HeapTypes'
    <2>1. node' \in [Nodes -> Contents \cup {Free}]
      BY <1>5, <1>6, <1>7 DEF Types, HeapTypes
    <2>2. QED
      BY <1>1, <2>1 DEF Types, HeapTypes
  <1>9. Types'
    BY <1>1, <1>8, FinishTypes DEF Types, ThreadTypes
  <1>10. Control' /\ pc'[p] \in {"unlock", "return"} /\ \A q \in Procs \ {p} : pc'[q] = pc[q]
    BY <1>1, FinishControl
  <1>11. Using(p)
    BY <1>1, UsingPlaces
  <1>12. \A q \in Procs : Owned(q) # at
    BY <1>3, OwnedNodes
  <1>13. node'[at] # Free
    BY <1>7, ContentsAllocated
  <1>14. Shape(n, s)'
    <2>1. node'[at].data \in Given /\ pc[p] \notin {"idle", "link", "release"}
      BY <1>1, <1>4, <1>7
    <2>2. at \in Nodes /\ node[at] # Free /\ node'[at].next = node[at].next
      BY <1>3, <1>7
    <2>3. UNCHANGED <<exists, head, reg, copy, call>>
      BY <1>1
    <2>4. QED
      BY <1>6, <1>10, <1>11, <1>12, <1>13, <2>1, <2>2, <2>3, DataShape
  <1>15. QED
    BY <1>9, <1>10, <1>14

(* fetch: the data is copied into the thread's own node.                   *)
LEMMA FetchInv ==
  ASSUME Types, Control, NEW n \in Nat, NEW s \in [1 .. n -> Nodes], Shape(n, s),
         NEW p \in Procs, Fetch(p), UNCHANGED copy
  PROVE  Types' /\ Control' /\ Shape(n, s)'
  <1> DEFINE new == reg[p].new
             d == node[reg[p].temp].data
  <1>1. /\ pc[p] = "fetch" /\ Goto(p, Finish(call[p].fn, TRUE))
        /\ UNCHANGED <<exists, head, mutex, call, reg, copy>>
        /\ node' = [node EXCEPT ![new].data = d]
    BY DEF Fetch, Step
  <1>2. Finds(p, n, s) /\ Chained(n, s)
    BY <1>1 DEF Shape, Placed, HasFound
  <1>3. d \in Given
    BY <1>2, FoundNodes
  <1>4. new = Owned(p) /\ new # NULL
    BY <1>1 DEF Control, Controlled, PlaceIn, NewIn, Gets, Owned
  <1>5. new \in Nodes /\ node[new] # Free /\ node[new] \in Contents
    BY <1>4, OwnedNodes, ContentsAre
  <1> HIDE DEF new, d
  <1>6. node' = [node EXCEPT ![new] = [node[new] EXCEPT !.data = d]]
    BY <1>1
  <1>7. /\ node'[new] = [node[new] EXCEPT !.data = d]
        /\ \A b \in Nodes \ {new} : node'[b] = node[b]
    BY <1>5, <1>6 DEF Types, HeapTypes
  <1>8. node'[new] \in Contents /\ node'[new].next = node[new].next /\ node'[new].data = d
    BY <1>3, <1>5, <1>7 DEF Contents
  <1>9. HeapTypes'
    <2>1. node' \in [Nodes -> Contents \cup {Free}]
      BY <1>6, <1>7, <1>8 DEF Types, HeapTypes
    <2>2. QED
      BY <1>1, <2>1 DEF Types, HeapTypes
  <1>10. Types'
    BY <1>1, <1>9, FinishTypes DEF Types, ThreadTypes
  <1>11. Control' /\ pc'[p] \in {"unlock", "return"} /\ \A q \in Procs \ {p} : pc'[q] = pc[q]
    BY <1>1, FinishControl
  <1>12. Using(p)
    BY <1>1, UsingPlaces
  <1>13. \A q \in Procs \ {p} : Owned(q) # new
    BY <1>4 DEF Shape, Accounted
  <1>14. node'[new] # Free
    BY <1>8, ContentsAllocated
  <1>15. Shape(n, s)'
    BY <1>1, <1>3, <1>5, <1>7, <1>8, <1>11, <1>12, <1>13, <1>14, DataShape
  <1>16. QED
    BY <1>10, <1>11, <1>15

(* A caller frees its copy.                                                *)
LEMMA FreeCopyInv ==
  ASSUME Types, Control, NEW n \in Nat, NEW s \in [1 .. n -> Nodes], Shape(n, s),
         NEW p \in Procs, FreeCopy(p)
  PROVE  Types' /\ Control' /\ Shape(n, s)'
  <1> DEFINE a == copy[p]
  <1>1. /\ pc[p] = "idle" /\ a # NULL /\ UNCHANGED <<exists, head, mutex, pc, call, reg>>
        /\ node' = [node EXCEPT ![a] = Free] /\ copy' = [copy EXCEPT ![p] = NULL]
    BY DEF FreeCopy
  <1>2. Owned(p) = a /\ a \in Nodes /\ node[a] # Free
    <2>1. Owned(p) = a
      BY <1>1 DEF Owned
    <2>2. QED
      BY <1>1, <2>1, OwnedNodes
  <1> HIDE DEF a
  <1>3. /\ node'[a] = Free /\ \A b \in Nodes \ {a} : node'[b] = node[b]
        /\ copy'[p] = NULL /\ \A q \in Procs \ {p} : copy'[q] = copy[q]
    BY <1>1, <1>2 DEF Types, HeapTypes, ThreadTypes
  <1>4. Types'
    BY <1>1 DEF Types, HeapTypes, ThreadTypes, Pointers
  <1>5. Control'
    <2>1. Controlled(p)'
      BY <1>1, <1>3 DEF Control, Controlled
    <2>2. QED
      BY <1>1, <1>3, <2>1, ControlStep
  <1>6. /\ Owned(p)' = NULL
        /\ \A q \in Procs \ {p} : Owned(q)' = Owned(q) /\ Owned(q) # a
    <2>1. Owned(p)' = NULL
      BY <1>1, <1>3 DEF Owned
    <2>2. ASSUME NEW q \in Procs \ {p} PROVE Owned(q)' = Owned(q) /\ Owned(q) # a
      <3>1. Owned(q)' = Owned(q)
        BY <1>1, <1>3 DEF Owned
      <3>2. Owned(q) # a
        BY <1>2, NullIsNoNode DEF Shape, Accounted
      <3>3. QED
        BY <3>1, <3>2
    <2>3. QED
      BY <2>1, <2>2
  <1>7. \A i \in 1 .. n : s[i] # a /\ node'[s[i]] = node[s[i]]
    BY <1>2, <1>3, OwnedNodes
  <1>8. Chained(n, s)'
    BY <1>7 DEF Shape, Chained, After
  <1>9. Headed(n, s)'
    BY <1>1 DEF Shape, Headed, First
  <1>10. Accounted(n, s)'
    <2>1. ASSUME NEW b \in Nodes
          PROVE  node'[b] # Free <=> On(n, s, b) \/ \E q \in Procs : Owned(q)' = b
      <3>1. node[b] # Free <=> On(n, s, b) \/ \E q \in Procs : Owned(q) = b
        BY DEF Shape, Accounted
      <3>2. CASE b = a
        BY <1>3, <1>6, <1>7, <3>2, NullIsNoNode DEF On
      <3>3. CASE b # a
        BY <1>2, <1>3, <1>6, <3>1, <3>3, NullIsNoNode
      <3>4. QED
        BY <3>2, <3>3
    <2>2. \A q \in Procs : ~On(n, s, Owned(q)')
      BY <1>6, ChainNodes DEF Shape, Accounted, On
    <2>3. \A q, r \in Procs : Owned(q)' # NULL /\ Owned(q)' = Owned(r)' => q = r
      BY <1>6 DEF Shape, Accounted
    <2>4. QED
      BY <2>1, <2>2, <2>3 DEF Accounted, On
  <1>11. ASSUME NEW q \in Procs PROVE Placed(q, n, s)'
    <2>1. CASE q = p
      BY <1>1, <2>1 DEF Placed, HasFound
    <2>2. CASE q # p
      <3>1. Owned(q) \in Nodes => node'[Owned(q)] = node[Owned(q)]
        BY <1>3, <1>6, <2>2
      <3>2. /\ pc[q] = "link" => node'[head].data = node[head].data
            /\ pc[q] \in {"lock", "read", "publish"} /\ call[q].fn \in Inserts =>
                 node'[reg[q].new].data = node[reg[q].new].data
        BY <3>1, OwnedNodes
      <3>3. Placed(q, n, s)
        BY DEF Shape
      <3>4. QED
        BY <1>1, <1>7, <3>2, <3>3, PlacedFrame
    <2>3. QED
      BY <2>1, <2>2
  <1>12. Shape(n, s)'
    BY <1>8, <1>9, <1>10, <1>11 DEF Shape
  <1>13. QED
    BY <1>4, <1>5, <1>12

LEMMA InitListInv ==
  ASSUME Types, Control, NEW n \in Nat, NEW s \in [1 .. n -> Nodes], Shape(n, s),
         init_linked_list
  PROVE  Types' /\ Control' /\ Shape(n, s)'
  <1>1. /\ ~exists /\ (\A p \in Procs : pc[p] = "idle")
        /\ exists' = TRUE /\ head' = NULL /\ mutex' = Nobody
        /\ UNCHANGED <<node, pc, call, reg, copy>>
    BY DEF init_linked_list
  <1>2. n = 0
    BY <1>1 DEF Shape, Headed
  <1>3. Types'
    BY <1>1 DEF Types, HeapTypes, ThreadTypes, Pointers
  <1>4. Control'
    <2>1. ASSUME NEW p \in Procs PROVE Controlled(p)'
      <3>1. Controlled(p) /\ Nobody \notin Procs
        BY ThreadListAssumption DEF Control
      <3>2. call[p].fn = "none" /\ ~LockedIn("none", "idle")
        BY <1>1, <3>1 DEF Controlled, PlaceIn, LockedIn
      <3>3. QED
        BY <1>1, <3>1, <3>2 DEF Controlled
    <2>2. Contract'
      BY <1>1 DEF Contract
    <2>3. QED
      BY <2>1, <2>2 DEF Control
  <1>5. \A p \in Procs : Owned(p)' = Owned(p)
    BY <1>1 DEF Owned
  <1>6. Chained(n, s)' /\ Headed(n, s)'
    BY <1>1, <1>2 DEF Chained, Headed, First
  <1>7. Accounted(n, s)'
    BY <1>1, <1>5 DEF Shape, Accounted, On
  <1>8. \A p \in Procs : Placed(p, n, s)'
    BY <1>1 DEF Placed, HasFound
  <1>9. QED
    BY <1>3, <1>4, <1>6, <1>7, <1>8 DEF Shape

-----------------------------------------------------------------------------
(* The steps that change the chain.                                        *)
Longer(n, s, a) == [i \in 1 .. n + 1 |-> IF i = 1 THEN a ELSE s[i - 1]]
Cut(n, s, i) == [j \in 1 .. n - 1 |-> IF j < i THEN s[j] ELSE s[j + 1]]

LEMMA LongerChain ==
  ASSUME Types, NEW n \in Nat, NEW s \in [1 .. n -> Nodes], Chained(n, s),
         NEW a \in Nodes, \A i \in 1 .. n : s[i] # a,
         node'[a] # Free, node'[a].next = First(n, s), node'[a].data \in Given,
         \A b \in Nodes \ {a} : node'[b] = node[b]
  PROVE  /\ Longer(n, s, a) \in [1 .. n + 1 -> Nodes]
         /\ Chained(n + 1, Longer(n, s, a))'
         /\ First(n + 1, Longer(n, s, a)) = a
         /\ \A b : On(n + 1, Longer(n, s, a), b) <=> On(n, s, b) \/ b = a
  <1> DEFINE t == Longer(n, s, a)
  <1>1. t \in [1 .. n + 1 -> Nodes]
    BY DEF Longer
  <1>2. t[1] = a /\ \A i \in 1 .. n : t[i + 1] = s[i]
    BY DEF Longer
  <1>3. \A i \in 1 .. n + 1 : i = 1 \/ (i - 1 \in 1 .. n /\ t[i] = s[i - 1])
    BY DEF Longer
  <1> HIDE DEF t
  <1>4. \A i, j \in 1 .. n + 1 : t[i] = t[j] => i = j
    BY <1>2, <1>3 DEF Chained
  <1>5. ASSUME NEW i \in 1 .. n + 1
        PROVE  /\ node'[t[i]] # Free /\ node'[t[i]].next = After(n + 1, t, i)
               /\ node'[t[i]].data \in Given
    <2>1. CASE i = 1
      <3>1. First(n, s) = After(n + 1, t, 1)
        BY <1>2 DEF First, After
      <3>2. QED
        BY <1>2, <2>1, <3>1
    <2>2. CASE i # 1
      <3>1. i - 1 \in 1 .. n /\ t[i] = s[i - 1]
        BY <1>3, <2>2
      <3>2. node'[t[i]] = node[s[i - 1]]
        BY <3>1
      <3>3. After(n, s, i - 1) = After(n + 1, t, i)
        <4>1. CASE i = n + 1
          BY <4>1 DEF After
        <4>2. CASE i # n + 1
          <5>1. i \in 1 .. n /\ (i - 1) + 1 = i
            BY <4>2
          <5>2. QED
            BY <1>2, <4>2, <5>1 DEF After
        <4>3. QED
          BY <4>1, <4>2
      <3>4. QED
        BY <3>1, <3>2, <3>3, ChainNodes
    <2>3. QED
      BY <2>1, <2>2
  <1>6. Chained(n + 1, t)'
    BY <1>4, <1>5 DEF Chained, After, t, Longer
  <1>7. First(n + 1, t) = a
    BY <1>2 DEF First
  <1>8. ASSUME NEW b PROVE On(n + 1, t, b) <=> On(n, s, b) \/ b = a
    <2>1. 1 \in 1 .. n + 1 /\ \A i \in 1 .. n : i + 1 \in 1 .. n + 1
      OBVIOUS
    <2>2. ASSUME On(n + 1, t, b) PROVE On(n, s, b) \/ b = a
      <3>1. PICK i \in 1 .. n + 1 : t[i] = b
        BY <2>2 DEF On
      <3>2. QED
        BY <1>2, <1>3, <3>1 DEF On
    <2>3. ASSUME On(n, s, b) PROVE On(n + 1, t, b)
      <3>1. PICK i \in 1 .. n : s[i] = b
        BY <2>3 DEF On
      <3>2. QED
        BY <1>2, <2>1, <3>1 DEF On
    <2>4. On(n + 1, t, a)
      BY <1>2, <2>1 DEF On
    <2>5. QED
      BY <2>2, <2>3, <2>4
  <1>9. QED
    BY <1>1, <1>6, <1>7, <1>8 DEF t

LEMMA CutChain ==
  ASSUME Types, NEW n \in Nat, NEW s \in [1 .. n -> Nodes], Chained(n, s), NEW i \in 1 .. n,
         node'[s[i]] = Free,
         i # 1 => /\ node'[s[i - 1]] # Free /\ node'[s[i - 1]].next = After(n, s, i)
                  /\ node'[s[i - 1]].data = node[s[i - 1]].data,
         \A b \in Nodes \ {s[i]} : (i # 1 => b # s[i - 1]) => node'[b] = node[b]
  PROVE  /\ n - 1 \in Nat /\ Cut(n, s, i) \in [1 .. n - 1 -> Nodes]
         /\ Chained(n - 1, Cut(n, s, i))'
         /\ First(n - 1, Cut(n, s, i)) = IF i = 1 THEN After(n, s, 1) ELSE s[1]
         /\ \A b : On(n - 1, Cut(n, s, i), b) <=> On(n, s, b) /\ b # s[i]
  <1> DEFINE t == Cut(n, s, i)
  <1>1. n - 1 \in Nat /\ t \in [1 .. n - 1 -> Nodes]
    BY DEF Cut
  <1>2. /\ \A j \in 1 .. n - 1 : j < i => t[j] = s[j] /\ j \in 1 .. n
        /\ \A j \in 1 .. n - 1 : ~(j < i) => t[j] = s[j + 1] /\ j + 1 \in 1 .. n
    BY DEF Cut
  <1> HIDE DEF t
  <1>3. \A j, k \in 1 .. n - 1 : t[j] = t[k] => j = k
    <2>1. \A j, k \in 1 .. n : s[j] = s[k] => j = k
      BY DEF Chained
    <2>2. QED
      BY <1>2, <2>1
  <1>4. ASSUME NEW j \in 1 .. n - 1
        PROVE  /\ t[j] # s[i] /\ node'[t[j]] # Free /\ node'[t[j]].next = After(n - 1, t, j)
               /\ node'[t[j]].data \in Given
    <2>1. CASE j < i - 1
      <3>1. t[j] = s[j] /\ j \in 1 .. n /\ j + 1 \in 1 .. n - 1 /\ j + 1 < i /\ j # n /\ j # n - 1
        BY <1>2, <2>1
      <3>2. t[j + 1] = s[j + 1]
        BY <1>2, <3>1
      <3>3. s[j] # s[i] /\ (i # 1 => i - 1 \in 1 .. n /\ s[j] # s[i - 1])
        BY <2>1, <3>1 DEF Chained
      <3>4. node'[s[j]] = node[s[j]]
        BY <3>1, <3>3
      <3>5. After(n, s, j) = After(n - 1, t, j)
        BY <3>1, <3>2 DEF After
      <3>6. QED
        BY <3>1, <3>3, <3>4, <3>5, ChainNodes
    <2>2. CASE j = i - 1
      <3>1. t[j] = s[j] /\ j \in 1 .. n /\ i # 1 /\ s[j] = s[i - 1]
        BY <1>2, <2>2
      <3>2. s[j] # s[i]
        BY <2>2, <3>1 DEF Chained
      <3>3. After(n, s, i) = After(n - 1, t, j)
        <4>1. CASE i = n
          BY <2>2, <4>1 DEF After
        <4>2. CASE i # n
          <5>1. i \in 1 .. n - 1 /\ j + 1 = i /\ j # n - 1
            BY <2>2, <4>2
          <5>2. t[i] = s[i + 1]
            BY <1>2, <5>1
          <5>3. QED
            BY <4>2, <5>1, <5>2 DEF After
        <4>3. QED
          BY <4>1, <4>2
      <3>4. node[s[j]].data \in Given
        BY <3>1, ChainNodes
      <3>5. QED
        BY <3>1, <3>2, <3>3, <3>4
    <2>3. CASE j >= i
      <3>1. t[j] = s[j + 1] /\ j + 1 \in 1 .. n /\ ~(j < i)
        BY <1>2, <2>3
      <3>2. s[j + 1] # s[i] /\ (i # 1 => i - 1 \in 1 .. n /\ s[j + 1] # s[i - 1])
        BY <2>3, <3>1 DEF Chained
      <3>3. node'[s[j + 1]] = node[s[j + 1]]
        BY <3>1, <3>2
      <3>4. After(n, s, j + 1) = After(n - 1, t, j)
        <4>1. CASE j = n - 1
          BY <4>1 DEF After
        <4>2. CASE j # n - 1
          <5>1. j + 1 \in 1 .. n - 1 /\ ~(j + 1 < i) /\ j + 1 # n
            BY <2>3, <4>2
          <5>2. t[j + 1] = s[(j + 1) + 1]
            BY <1>2, <5>1
          <5>3. QED
            BY <4>2, <5>1, <5>2 DEF After
        <4>3. QED
          BY <4>1, <4>2
      <3>5. QED
        BY <3>1, <3>2, <3>3, <3>4, ChainNodes
    <2>4. QED
      BY <2>1, <2>2, <2>3
  <1>5. Chained(n - 1, t)'
    BY <1>3, <1>4 DEF Chained, After, t, Cut
  <1>6. First(n - 1, t) = IF i = 1 THEN After(n, s, 1) ELSE s[1]
    <2>1. CASE n = 1
      BY <2>1 DEF First, After
    <2>2. CASE n # 1
      <3>1. 1 \in 1 .. n - 1 /\ n - 1 # 0
        BY <2>2
      <3>2. t[1] = IF i = 1 THEN s[2] ELSE s[1]
        BY <1>2, <3>1
      <3>3. QED
        BY <2>2, <3>1, <3>2 DEF First, After
    <2>3. QED
      BY <2>1, <2>2
  <1>7. ASSUME NEW b PROVE On(n - 1, t, b) <=> On(n, s, b) /\ b # s[i]
    <2>1. ASSUME On(n - 1, t, b) PROVE On(n, s, b) /\ b # s[i]
      <3>1. PICK j \in 1 .. n - 1 : t[j] = b
        BY <2>1 DEF On
      <3>2. QED
        BY <1>2, <1>4, <3>1 DEF On
    <2>2. ASSUME On(n, s, b), b # s[i] PROVE On(n - 1, t, b)
      <3>1. PICK j \in 1 .. n : s[j] = b
        BY <2>2 DEF On
      <3>2. CASE j < i
        <4>1. j \in 1 .. n - 1 /\ t[j] = b
          BY <1>2, <3>1, <3>2
        <4>2. QED
          BY <4>1 DEF On
      <3>3. CASE j > i
        <4>1. j - 1 \in 1 .. n - 1 /\ ~(j - 1 < i) /\ (j - 1) + 1 = j
          BY <3>3
        <4>2. t[j - 1] = b
          BY <1>2, <3>1, <4>1
        <4>3. QED
          BY <4>1, <4>2 DEF On
      <3>4. QED
        BY <2>2, <3>1, <3>2, <3>3
    <2>3. QED
      BY <2>1, <2>2
  <1>8. QED
    BY <1>1, <1>5, <1>6, <1>7 DEF t

(* link: the head gets its next pointer, and is in the list.               *)
LEMMA LinkInv ==
  ASSUME Types, Control, NEW n \in Nat, NEW s \in [1 .. n -> Nodes], Shape(n, s),
         NEW p \in Procs, Link(p), UNCHANGED copy
  PROVE  /\ Types' /\ Control'
         /\ \E t \in [1 .. n + 1 -> Nodes] : Shape(n + 1, t)' /\ t = Longer(n, s, head)
  <1>0. PICK a \in Nodes : a = head
    BY OwnedNodes DEF Link, Step
  <1> DEFINE t == Longer(n, s, a)
  <1>1. /\ pc[p] = "link" /\ Goto(p, Finish(call[p].fn, TRUE))
        /\ UNCHANGED <<exists, head, mutex, call, reg, copy>>
        /\ node' = [node EXCEPT ![a].next = reg[p].old]
    BY <1>0 DEF Link, Step
  <1>2. /\ a = Owned(p) /\ a # NULL /\ a \in Nodes /\ node[a] # Free /\ node[a] \in Contents
        /\ \A i \in 1 .. n : s[i] # a
    BY <1>0, <1>1, OwnedNodes, ContentsAre
  <1>3. reg[p].old = First(n, s) /\ node[a].data = call[p].data
    BY <1>0, <1>1 DEF Shape, Placed
  <1>4. call[p].data \in Given /\ exists /\ reg[p].new = NULL
    BY <1>1 DEF Control, Controlled, PlaceIn, NewIn, Inserts, Given
  <1>5. First(n, s) \in Pointers
    BY FirstType
  <1>6. node' = [node EXCEPT ![a] = [node[a] EXCEPT !.next = First(n, s)]]
    BY <1>1, <1>3
  <1>7. /\ node'[a] = [node[a] EXCEPT !.next = First(n, s)]
        /\ \A b \in Nodes \ {a} : node'[b] = node[b]
    BY <1>2, <1>6 DEF Types, HeapTypes
  <1>8. /\ node'[a] \in Contents /\ node'[a].next = First(n, s)
        /\ node'[a].data = node[a].data
    BY <1>2, <1>5, <1>7 DEF Contents
  <1>9. HeapTypes'
    <2>1. node' \in [Nodes -> Contents \cup {Free}]
      BY <1>6, <1>7, <1>8 DEF Types, HeapTypes
    <2>2. QED
      BY <1>1, <2>1 DEF Types, HeapTypes
  <1>10. Types'
    BY <1>1, <1>9, FinishTypes DEF Types, ThreadTypes
  <1>11. Control' /\ pc'[p] \in {"unlock", "return"} /\ \A q \in Procs \ {p} : pc'[q] = pc[q]
    BY <1>1, FinishControl
  <1>12. Using(p)
    BY <1>1, UsingPlaces
  <1>13. /\ t \in [1 .. n + 1 -> Nodes] /\ Chained(n + 1, t)' /\ First(n + 1, t) = a
         /\ \A b : On(n + 1, t, b) <=> On(n, s, b) \/ b = a
    <2>1. node'[a] # Free /\ node'[a].data \in Given
      BY <1>3, <1>4, <1>8, ContentsAllocated
    <2>2. Chained(n, s)
      BY DEF Shape
    <2>3. /\ \A i \in 1 .. n : s[i] # a
          /\ \A b \in Nodes \ {a} : node'[b] = node[b]
      BY <1>2, <1>7
    <2>4. node'[a].next = First(n, s)
      BY <1>8
    <2>5. QED
      BY <2>1, <2>2, <2>3, <2>4, LongerChain
  <1> HIDE DEF t
  <1>14. head' = a
    BY <1>0, <1>1
  <1>15. Headed(n + 1, t)'
    BY <1>1, <1>4, <1>13, <1>14 DEF Headed, First
  <1>16. /\ Owned(p)' = NULL
         /\ \A q \in Procs \ {p} : Owned(q)' = Owned(q) /\ Owned(q) # a
    <2>1. Owned(p)' = NULL
      BY <1>1, <1>4, <1>11 DEF Owned
    <2>2. ASSUME NEW q \in Procs \ {p} PROVE Owned(q)' = Owned(q) /\ Owned(q) # a
      <3>1. Owned(q)' = Owned(q)
        BY <1>1, <1>11 DEF Owned
      <3>2. Owned(q) # a
        BY <1>2 DEF Shape, Accounted
      <3>3. QED
        BY <3>1, <3>2
    <2>3. QED
      BY <2>1, <2>2
  <1>17. Accounted(n + 1, t)'
    <2>1. ASSUME NEW b \in Nodes
          PROVE  node'[b] # Free <=> On(n + 1, t, b) \/ \E q \in Procs : Owned(q)' = b
      <3>1. node[b] # Free <=> On(n, s, b) \/ \E q \in Procs : Owned(q) = b
        BY DEF Shape, Accounted
      <3>2. CASE b = a
        BY <1>8, <1>13, <3>2, ContentsAllocated
      <3>3. CASE b # a
        BY <1>2, <1>7, <1>13, <1>16, <3>1, <3>3, NullIsNoNode
      <3>4. QED
        BY <3>2, <3>3
    <2>2. ASSUME NEW q \in Procs PROVE ~On(n + 1, t, Owned(q)')
      <3>1. CASE q = p
        <4>1. ~On(n, s, NULL)
          BY ChainNodes DEF Shape, On
        <4>2. QED
          BY <1>2, <1>13, <1>16, <3>1, <4>1
      <3>2. CASE q # p
        BY <1>13, <1>16, <3>2 DEF Shape, Accounted
      <3>3. QED
        BY <3>1, <3>2
    <2>3. \A q, r \in Procs : Owned(q)' # NULL /\ Owned(q)' = Owned(r)' => q = r
      BY <1>16 DEF Shape, Accounted
    <2>4. QED
      BY <2>1, <2>2, <2>3 DEF Accounted, On, t, Longer
  <1>18. ASSUME NEW q \in Procs PROVE Placed(q, n + 1, t)'
    <2>1. CASE q = p
      BY <1>11, <2>1 DEF Placed, HasFound
    <2>2. CASE q # p
      <3>1. Owned(q) \in Nodes => node'[Owned(q)] = node[Owned(q)]
        BY <1>7, <1>16, <2>2
      <3>2. n + 1 \in Nat
        OBVIOUS
      <3>3. \A m \in Nat : \A u \in [1 .. m -> Nodes] : Placed(q, m, u)'
        BY <1>1, <1>11, <1>12, <2>2, <3>1, OthersPlaced
      <3>4. QED
        BY <1>13, <3>2, <3>3
    <2>3. QED
      BY <2>1, <2>2
  <1>19. QED
    <2>1. Shape(n + 1, t)'
      BY <1>13, <1>15, <1>17, <1>18 DEF Shape
    <2>2. QED
      BY <1>0, <1>10, <1>11, <1>13, <2>1 DEF t

(* The memory without the i-th node.                                       *)
LEMMA CutShape ==
  ASSUME Types, Control, NEW n \in Nat, NEW s \in [1 .. n -> Nodes], Shape(n, s),
         NEW p \in Procs, Using(p), NEW i \in 1 .. n, NEW t \in [1 .. n - 1 -> Nodes],
         \A b : On(n - 1, t, b) <=> On(n, s, b) /\ b # s[i],
         Chained(n - 1, t)', Headed(n - 1, t)', Placed(p, n - 1, t)',
         \A q \in Procs \ {p} : pc'[q] = pc[q] /\ call'[q] = call[q] /\ reg'[q] = reg[q],
         \A q \in Procs : Owned(q)' = Owned(q),
         node'[s[i]] = Free, \A b \in Nodes \ {s[i]} : node'[b] # Free <=> node[b] # Free,
         \A b \in Nodes : ~On(n, s, b) => node'[b] = node[b]
  PROVE  Shape(n - 1, t)'
  <1>1. n - 1 \in Nat
    OBVIOUS
  <1>2. Accounted(n - 1, t)'
    <2>1. ASSUME NEW b \in Nodes
          PROVE  node'[b] # Free <=> On(n - 1, t, b) \/ \E q \in Procs : Owned(q)' = b
      <3>1. node[b] # Free <=> On(n, s, b) \/ \E q \in Procs : Owned(q) = b
        BY DEF Shape, Accounted
      <3>2. \A q \in Procs : Owned(q) # s[i]
        BY OwnedNodes
      <3>3. CASE b = s[i]
        BY <3>2, <3>3
      <3>4. CASE b # s[i]
        BY <3>1, <3>4
      <3>5. QED
        BY <3>3, <3>4
    <2>2. \A q \in Procs : ~On(n - 1, t, Owned(q)')
      BY DEF Shape, Accounted
    <2>3. \A q, r \in Procs : Owned(q)' # NULL /\ Owned(q)' = Owned(r)' => q = r
      BY DEF Shape, Accounted
    <2>4. QED
      BY <2>1, <2>2, <2>3 DEF Accounted, On
  <1>3. ASSUME NEW q \in Procs \ {p} PROVE Placed(q, n - 1, t)'
    <2>1. Owned(q) \in Nodes => node'[Owned(q)] = node[Owned(q)]
      BY DEF Shape, Accounted
    <2>2. QED
      BY <1>1, <2>1, OthersPlaced
  <1>4. QED
    BY <1>2, <1>3 DEF Shape

(* unlink: the node that was found leaves the list and is freed.           *)
LEMMA UnlinkInv ==
  ASSUME Types, Control, NEW n \in Nat, NEW s \in [1 .. n -> Nodes], Shape(n, s),
         NEW p \in Procs, Unlink(p), UNCHANGED copy
  PROVE  /\ Types' /\ Control' /\ n - 1 \in Nat
         /\ \E i \in 1 .. n :
              /\ Cursor(p, s, i) /\ Matches(p, node[s[i]].data)
              /\ \E t \in [1 .. n - 1 -> Nodes] : Shape(n - 1, t)' /\ t = Cut(n, s, i)
  <1>1. Finds(p, n, s) /\ Chained(n, s)
    BY DEF Shape, Placed, HasFound, Unlink, Step
  <1>2. PICK i \in 1 .. n :
          /\ Cursor(p, s, i) /\ Matches(p, node[s[i]].data)
          /\ reg[p].temp = s[i] /\ s[i] \in Nodes
          /\ node[s[i]].next = After(n, s, i) /\ node[s[i]].next \in Pointers
          /\ reg[p].prev = s[IF i = 1 THEN 1 ELSE i - 1]
          /\ reg[p].prev \in Nodes /\ node[reg[p].prev] # Free
    BY <1>1, FoundNodes
  <1> DEFINE k == IF i = 1 THEN 1 ELSE i - 1
             t == Cut(n, s, i)
  <1>3. k \in 1 .. n /\ (s[k] = s[i] <=> i = 1)
    BY <1>1 DEF Chained
  <1>4. /\ pc[p] = "unlink" /\ Goto(p, Finish(call[p].fn, TRUE))
        /\ UNCHANGED <<exists, mutex, call, reg, copy>>
        /\ IF s[k] = s[i]
           THEN head' = After(n, s, i) /\ node' = [node EXCEPT ![s[i]] = Free]
           ELSE /\ node' = [node EXCEPT ![s[k]].next = After(n, s, i), ![s[i]] = Free]
                /\ UNCHANGED head
    BY <1>2 DEF Unlink, Step
  <1>5. After(n, s, i) \in Pointers /\ s[k] \in Nodes /\ node[s[k]] \in Contents
    BY <1>2, <1>3, ContentsAre
  <1> HIDE DEF k
  <1>6. /\ node'[s[i]] = Free
        /\ node' \in [Nodes -> Contents \cup {Free}]
        /\ i # 1 => /\ node'[s[k]] \in Contents /\ node'[s[k]].next = After(n, s, i)
                    /\ node'[s[k]].data = node[s[k]].data
        /\ \A b \in Nodes \ {s[i]} : (i # 1 => b # s[k]) => node'[b] = node[b]
    <2>1. CASE i = 1
      <3>1. node' = [node EXCEPT ![s[i]] = Free]
        BY <1>3, <1>4, <2>1
      <3>2. QED
        BY <1>2, <2>1, <3>1 DEF Types, HeapTypes
    <2>2. CASE i # 1
      <3> DEFINE c == [node[s[k]] EXCEPT !.next = After(n, s, i)]
      <3>1. node' = [node EXCEPT ![s[k]].next = After(n, s, i), ![s[i]] = Free]
        BY <1>3, <1>4, <2>2
      <3>2. c \in Contents /\ c.next = After(n, s, i) /\ c.data = node[s[k]].data
        BY <1>5 DEF Contents
      <3>3. node' = [node EXCEPT ![s[k]] = c, ![s[i]] = Free]
        BY <3>1
      <3> HIDE DEF c
      <3>4. /\ node'[s[i]] = Free /\ node'[s[k]] = c
            /\ \A b \in Nodes : b # s[i] /\ b # s[k] => node'[b] = node[b]
        BY <1>2, <1>3, <1>5, <2>2, <3>3 DEF Types, HeapTypes
      <3>5. node' \in [Nodes -> Contents \cup {Free}]
        BY <3>2, <3>3 DEF Types, HeapTypes
      <3>6. QED
        BY <2>2, <3>2, <3>4, <3>5
    <2>3. QED
      BY <2>1, <2>2
  <1>7. i # 1 => k = i - 1
    BY DEF k
  <1>8. HeapTypes'
    <2>1. head' \in Pointers
      BY <1>4, <1>5 DEF Types, HeapTypes
    <2>2. QED
      BY <1>4, <1>6, <2>1 DEF Types, HeapTypes
  <1>9. Types'
    BY <1>4, <1>8, FinishTypes DEF Types, ThreadTypes
  <1>10. Control' /\ pc'[p] \in {"unlock", "return"} /\ \A q \in Procs \ {p} : pc'[q] = pc[q]
    BY <1>4, FinishControl
  <1>11. Using(p) /\ exists
    BY <1>4, UsingPlaces DEF Control, Controlled
  <1>12. /\ n - 1 \in Nat /\ t \in [1 .. n - 1 -> Nodes] /\ Chained(n - 1, t)'
         /\ First(n - 1, t) = IF i = 1 THEN After(n, s, 1) ELSE s[1]
         /\ \A b : On(n - 1, t, b) <=> On(n, s, b) /\ b # s[i]
    <2>1. i # 1 => node'[s[k]] # Free
      BY <1>6, ContentsAllocated
    <2>2. i # 1 => /\ node'[s[i - 1]] # Free /\ node'[s[i - 1]].next = After(n, s, i)
                   /\ node'[s[i - 1]].data = node[s[i - 1]].data
      BY <1>6, <1>7, <2>1
    <2>3. \A b \in Nodes \ {s[i]} : (i # 1 => b # s[i - 1]) => node'[b] = node[b]
      BY <1>6, <1>7
    <2>4. QED
      BY <1>1, <1>6, <2>2, <2>3, CutChain
  <1> HIDE DEF t
  <1>13. Headed(n - 1, t)'
    <2>1. \A q \in Procs : pc[q] \notin {"link", "release"}
      BY <1>4, <1>11, OthersWait
    <2>2. head = First(n, s) /\ First(n, s) = s[1]
      BY <1>11, <2>1 DEF Shape, Headed, First
    <2>3. head' = First(n - 1, t)
      BY <1>3, <1>4, <1>12, <2>2
    <2>4. First(n - 1, t)' = First(n - 1, t)
      BY DEF First, t, Cut
    <2>5. QED
      BY <1>4, <1>11, <2>3, <2>4 DEF Headed
  <1>14. Placed(p, n - 1, t)'
    BY <1>10 DEF Placed, HasFound
  <1>15. \A q \in Procs : Owned(q)' = Owned(q)
    <2>1. Owned(p)' = Owned(p)
      BY <1>4, <1>10 DEF Owned
    <2>2. ASSUME NEW q \in Procs \ {p} PROVE Owned(q)' = Owned(q)
      <3>1. pc[q] # "link"
        BY <1>11, OthersWait
      <3>2. QED
        BY <1>4, <1>10, <3>1 DEF Owned
    <2>3. QED
      BY <2>1, <2>2
  <1>16. /\ \A b \in Nodes \ {s[i]} : node'[b] # Free <=> node[b] # Free
         /\ \A b \in Nodes : ~On(n, s, b) => node'[b] = node[b]
    <2>1. i # 1 => node'[s[k]] # Free /\ node[s[k]] # Free
      BY <1>5, <1>6, ContentsAllocated
    <2>2. On(n, s, s[i]) /\ On(n, s, s[k])
      BY <1>3 DEF On
    <2>3. QED
      BY <1>6, <2>1, <2>2
  <1>17. Shape(n - 1, t)'
    BY <1>4, <1>6, <1>10, <1>11, <1>12, <1>13, <1>14, <1>15, <1>16, CutShape
  <1>18. QED
    BY <1>2, <1>9, <1>10, <1>12, <1>17 DEF t

(* release: the first node is freed, or at the end the list.               *)
LEMMA ReleaseInv ==
  ASSUME Types, Control, NEW n \in Nat, NEW s \in [1 .. n -> Nodes], Shape(n, s),
         NEW p \in Procs, Release(p), UNCHANGED copy
  PROVE  /\ Types' /\ Control'
         /\ \E m \in Nat : \E t \in [1 .. m -> Nodes] : Shape(m, t)'
  <1>1. /\ pc[p] = "release" /\ UNCHANGED <<head, mutex, call, copy>>
        /\ reg[p].temp = First(n, s) /\ Chained(n, s)
    BY DEF Release, Step, Shape, Placed
  <1>2. Using(p) /\ exists /\ Controlled(p) /\ call[p].fn = "free_list"
    BY <1>1, UsingPlaces DEF Control, Controlled, PlaceIn
  <1>3. CASE reg[p].temp # NULL
    <2>1. PICK i \in 1 .. n : i = 1 /\ reg[p].temp = s[i]
      BY <1>1, <1>3 DEF First
    <2> DEFINE t == Cut(n, s, i)
    <2>2. /\ s[i] \in Nodes /\ node[s[i]].next = After(n, s, i)
          /\ After(n, s, i) \in Pointers
      BY <1>1, <2>1, ChainNodes
    <2>3. /\ reg' = [reg EXCEPT ![p].temp = After(n, s, i)]
          /\ node' = [node EXCEPT ![s[i]] = Free] /\ UNCHANGED <<exists, pc>>
      BY <1>3, <2>1, <2>2 DEF Release
    <2>4. /\ reg'[p].temp = After(n, s, i) /\ reg'[p].new = reg[p].new
          /\ \A q \in Procs \ {p} : reg'[q] = reg[q]
          /\ node'[s[i]] = Free /\ \A b \in Nodes \ {s[i]} : node'[b] = node[b]
      BY <2>2, <2>3 DEF Types, HeapTypes, ThreadTypes
    <2>5. Types'
      <3>1. reg' \in [Procs -> [new : Pointers, old : Pointers, temp : Pointers, prev : Pointers]]
        BY <2>2, <2>3 DEF Types, ThreadTypes
      <3>2. node' \in [Nodes -> Contents \cup {Free}]
        BY <2>3 DEF Types, HeapTypes
      <3>3. QED
        BY <1>1, <2>3, <3>1, <3>2 DEF Types, HeapTypes, ThreadTypes
    <2>6. Control'
      <3>1. Controlled(p)'
        BY <1>1, <1>2, <2>3, <2>4 DEF Controlled
      <3>2. QED
        BY <1>1, <2>3, <2>4, <3>1, ControlStep
    <2>7. /\ n - 1 \in Nat /\ t \in [1 .. n - 1 -> Nodes] /\ Chained(n - 1, t)'
          /\ First(n - 1, t) = After(n, s, i)
          /\ \A b : On(n - 1, t, b) <=> On(n, s, b) /\ b # s[i]
      <3>1. \A b \in Nodes \ {s[i]} : (i # 1 => b # s[i - 1]) => node'[b] = node[b]
        BY <2>4
      <3>2. First(n - 1, t) = (IF i = 1 THEN After(n, s, 1) ELSE s[1]) =>
              First(n - 1, t) = After(n, s, i)
        BY <2>1
      <3>3. Chained(n, s) /\ node'[s[i]] = Free
        BY <2>1, <2>4 DEF Shape
      <3>4. i # 1 => /\ node'[s[i - 1]] # Free /\ node'[s[i - 1]].next = After(n, s, i)
                     /\ node'[s[i - 1]].data = node[s[i - 1]].data
        BY <2>1
      <3>5. /\ n - 1 \in Nat /\ t \in [1 .. n - 1 -> Nodes] /\ Chained(n - 1, t)'
            /\ First(n - 1, t) = IF i = 1 THEN After(n, s, 1) ELSE s[1]
            /\ \A b : On(n - 1, t, b) <=> On(n, s, b) /\ b # s[i]
        BY <3>1, <3>3, <3>4, CutChain
      <3> HIDE DEF t
      <3>6. QED
        BY <3>2, <3>5
    <2> HIDE DEF t
    <2>8. First(n - 1, t)' = First(n - 1, t)
      BY DEF First, t, Cut
    <2>9. Headed(n - 1, t)'
      BY <1>1, <1>2, <2>3 DEF Headed
    <2>10. Placed(p, n - 1, t)'
      BY <1>1, <2>3, <2>4, <2>7, <2>8 DEF Placed, HasFound
    <2>11. \A q \in Procs : Owned(q)' = Owned(q)
      BY <1>1, <2>3, <2>4 DEF Owned
    <2>12. \A b \in Nodes : ~On(n, s, b) => node'[b] = node[b]
      BY <2>1, <2>4 DEF On
    <2>13. Shape(n - 1, t)'
      <3>1. /\ \A q \in Procs \ {p} : pc'[q] = pc[q] /\ call'[q] = call[q] /\ reg'[q] = reg[q]
            /\ \A b \in Nodes \ {s[i]} : node'[b] # Free <=> node[b] # Free
        BY <1>1, <2>3, <2>4
      <3>2. QED
        BY <1>2, <2>4, <2>7, <2>9, <2>10, <2>11, <2>12, <3>1, CutShape
    <2>14. QED
      BY <2>5, <2>6, <2>7, <2>13
  <1>4. CASE reg[p].temp = NULL
    <2>1. n = 0
      BY <1>1, <1>4, FirstType, NullIsNoNode
    <2>2. exists' = FALSE /\ Goto(p, "return") /\ UNCHANGED <<reg, node>>
      BY <1>4 DEF Release
    <2>3. pc'[p] = "return" /\ \A q \in Procs \ {p} : pc'[q] = pc[q]
      BY <2>2, GotoOthers
    <2>4. \A q \in Procs \ {p} : pc[q] = "idle"
      BY <1>2, OthersWait DEF Guarded
    <2>5. Types'
      BY <1>1, <2>2 DEF Types, HeapTypes, ThreadTypes, Goto
    <2>6. Control'
      <3>1. Controlled(p)'
        BY <1>1, <1>2, <2>2, <2>3 DEF Controlled, PlaceIn, LockedIn, NewIn, Inserts, Gets
      <3>2. QED
        BY <1>1, <2>2, <2>3, <2>4, <3>1, ControlStep
    <2>7. \A q \in Procs : Owned(q)' = Owned(q)
      <3>1. Owned(p)' = Owned(p)
        BY <1>1, <2>2, <2>3 DEF Owned
      <3>2. \A q \in Procs \ {p} : Owned(q)' = Owned(q)
        BY <1>1, <2>3, <2>4 DEF Owned
      <3>3. QED
        BY <3>1, <3>2
    <2>8. Chained(n, s)' /\ Headed(n, s)'
      BY <2>1, <2>2 DEF Chained, Headed
    <2>9. Accounted(n, s)'
      BY <2>2, <2>7 DEF Shape, Accounted, On
    <2>10. \A q \in Procs : Placed(q, n, s)'
      BY <2>3, <2>4 DEF Placed, HasFound
    <2>11. Shape(n, s)'
      BY <2>8, <2>9, <2>10 DEF Shape
    <2>12. QED
      BY <2>5, <2>6, <2>11
  <1>5. QED
    BY <1>3, <1>4

-----------------------------------------------------------------------------
LEMMA InitInv == Init => Inv
  <1> SUFFICES ASSUME Init PROVE Inv
    OBVIOUS
  <1>1. /\ ~exists /\ head = NULL /\ node = [a \in Nodes |-> Free] /\ mutex = Nobody
        /\ pc = [p \in Procs |-> "idle"] /\ call = [p \in Procs |-> NoCall]
        /\ reg = [p \in Procs |-> NoPointers] /\ copy = [p \in Procs |-> NULL]
    BY DEF Init, ListInit
  <1>2. Types
    <2>1. HeapTypes
      BY <1>1 DEF Init, HeapTypes, Pointers
    <2>2. NoPointers \in [new : Pointers, old : Pointers, temp : Pointers, prev : Pointers]
      BY DEF NoPointers, Pointers
    <2>3. NoCall \in [fn : Functions \cup {"none"}, data : Data \cup {NULL}]
      BY DEF NoCall
    <2>4. QED
      BY <1>1, <2>1, <2>2, <2>3 DEF Types, ThreadTypes, Pointers
  <1>3. Control
    <2>1. ASSUME NEW p \in Procs PROVE Controlled(p)
      <3>1. pc[p] = "idle" /\ call[p].fn = "none" /\ reg[p].new = NULL /\ mutex # p
        BY <1>1, ThreadListAssumption DEF NoCall, NoPointers
      <3>2. call[p] = NoCall /\ copy[p] = NULL
        BY <1>1
      <3>3. QED
        BY <3>1, <3>2 DEF Controlled, PlaceIn, LockedIn, NewIn, Inserts, Gets
    <2>2. Contract
      BY <1>1 DEF Contract
    <2>3. QED
      BY <2>1, <2>2 DEF Control
  <1>4. Shaped
    <2> DEFINE s == [i \in 1 .. 0 |-> NULL]
    <2>1. s \in [1 .. 0 -> Nodes]
      OBVIOUS
    <2>2. Chained(0, s) /\ Headed(0, s)
      BY <1>1 DEF Chained, Headed
    <2>3. \A p \in Procs : Owned(p) = NULL
      BY <1>1 DEF Owned
    <2>4. Accounted(0, s)
      <3>1. \A p, q \in Procs : Owned(p) # NULL /\ Owned(p) = Owned(q) => p = q
        BY <2>3
      <3>2. \A a \in Nodes : node[a] = Free
        BY <1>1
      <3>3. QED
        BY <2>3, <3>1, <3>2, NullIsNoNode DEF Accounted, On
    <2>5. \A p \in Procs : Placed(p, 0, s)
      BY <1>1 DEF Placed, HasFound
    <2>6. QED
      BY <2>1, <2>2, <2>4, <2>5 DEF Shaped, Shape
  <1>5. QED
    BY <1>2, <1>3, <1>4 DEF Inv

LEMMA StepInv ==
  ASSUME Inv, Next
  PROVE  Inv'
  <1>0. PICK n \in Nat : \E s \in [1 .. n -> Nodes] : Shape(n, s)
    BY DEF Inv, Shaped
  <1>1. PICK s \in [1 .. n -> Nodes] : Shape(n, s)
    BY <1>0
  <1>2. Types /\ Control
    BY DEF Inv
  <1>3. ASSUME Shape(n, s)' PROVE Shaped'
    BY <1>3 DEF Shaped
  <1>4. CASE init_linked_list
    BY <1>1, <1>2, <1>3, <1>4, InitListInv DEF Inv
  <1>5. ASSUME NEW p \in Procs, Call(p) \/ Receive(p) \/ FreeCopy(p) PROVE Inv'
    BY <1>1, <1>2, <1>3, <1>5, CallInv, ReceiveInv, FreeCopyInv DEF Inv
  <1>6. ASSUME NEW p \in Procs, Run(p), UNCHANGED copy PROVE Inv'
    <2>1. CASE Malloc(p) \/ Lock(p) \/ Unlock(p) \/ Read(p) \/ Publish(p)
      BY <1>1, <1>2, <1>3, <1>6, <2>1, MallocInv, LockInv, UnlockInv, ReadInv, PublishInv
         DEF Inv
    <2>2. CASE Start(p) \/ Walk(p) \/ Mark(p) \/ Fetch(p)
      BY <1>1, <1>2, <1>3, <1>6, <2>2, StartInv, WalkInv, MarkInv, FetchInv DEF Inv
    <2>3. CASE Link(p)
      <3>1. Types' /\ Control' /\ \E t \in [1 .. n + 1 -> Nodes] : Shape(n + 1, t)'
        BY <1>1, <1>2, <1>6, <2>3, LinkInv
      <3>2. n + 1 \in Nat
        OBVIOUS
      <3>3. QED
        BY <3>1, <3>2 DEF Inv, Shaped
    <2>4. CASE Unlink(p)
      <3>1. /\ Types' /\ Control' /\ n - 1 \in Nat
            /\ \E t \in [1 .. n - 1 -> Nodes] : Shape(n - 1, t)'
        BY <1>1, <1>2, <1>6, <2>4, UnlinkInv
      <3>2. QED
        BY <3>1 DEF Inv, Shaped
    <2>5. CASE Release(p)
      BY <1>1, <1>2, <1>6, <2>5, ReleaseInv DEF Inv, Shaped
    <2>6. QED
      BY <1>6, <2>1, <2>2, <2>3, <2>4, <2>5 DEF Run
  <1>7. QED
    BY <1>4, <1>5, <1>6 DEF Next

LEMMA NextInv == Inv /\ [Next]_vars => Inv'
  <1> SUFFICES ASSUME Inv, [Next]_vars PROVE Inv'
    OBVIOUS
  <1>1. CASE Next
    BY <1>1, StepInv
  <1>2. CASE UNCHANGED vars
    <2> USE <1>2 DEF vars, listvars, heap
    <2>1. Types' /\ Control'
      <3>1. Types'
        BY DEF Inv, Types, HeapTypes, ThreadTypes
      <3>2. \A p \in Procs : Controlled(p)'
        BY DEF Inv, Control, Controlled
      <3>3. Contract'
        BY DEF Inv, Control, Contract
      <3>4. QED
        BY <3>1, <3>2, <3>3 DEF Control
    <2>0. PICK n \in Nat : \E s \in [1 .. n -> Nodes] : Shape(n, s)
      BY DEF Inv, Shaped
    <2>2. PICK s \in [1 .. n -> Nodes] : Shape(n, s)
      BY <2>0
    <2>3. Chained(n, s)' /\ Headed(n, s)'
      BY <2>2 DEF Shape, Chained, Headed, After, First
    <2>4. Accounted(n, s)'
      <3>1. \A p \in Procs : Owned(p)' = Owned(p)
        BY DEF Owned
      <3>2. QED
        BY <2>2, <3>1 DEF Shape, Accounted, On
    <2>5. \A p \in Procs : Placed(p, n, s)'
      BY <2>2, StillPlaced DEF Shape
    <2>6. Shape(n, s)'
      BY <2>3, <2>4, <2>5 DEF Shape
    <2>7. QED
      BY <2>1, <2>6 DEF Inv, Shaped
  <1>3. QED
    BY <1>1, <1>2

LEMMA InvHolds == Spec => []Inv
  BY InitInv, NextInv, PTL DEF Spec

(* The types of the list's state: head and the threads' pointers are       *)
(* always NULL or the address of a node, never a next pointer that was not *)
(* set (linkedlist.c), in whatever order guarded functions run.            *)
THEOREM TypesHold == Spec => []TypeOK
  <1>1. Inv => TypeOK
    BY DEF Inv, Types, HeapTypes, ThreadTypes, TypeOK, Pointers
  <1>2. QED
    BY <1>1, InvHolds, PTL

-----------------------------------------------------------------------------
(* What a loop over next pointers meets from the first node on is the      *)
(* chain.                                                                  *)
LEMMA ChainLength ==
  ASSUME NEW n \in Nat, NEW s \in [1 .. n -> Nodes], Chained(n, s)
  PROVE  Cardinality(Nodes) \in Nat /\ n <= Cardinality(Nodes)
  <1>1. IsFiniteSet(Nodes) /\ Cardinality(Nodes) \in Nat
    BY ThreadListAssumption, FS_CardinalityType
  <1>2. s \in Injection(1 .. n, Nodes)
    BY DEF Chained, Injection, IsInjective
  <1>3. Cardinality(1 .. n) <= Cardinality(Nodes)
    BY <1>1, <1>2, FS_Injection
  <1>4. Cardinality(1 .. n) = n
    BY FS_Interval
  <1>5. QED
    BY <1>1, <1>3, <1>4

LEMMA NodesFromIs ==
  ASSUME Types, NEW n \in Nat, NEW s \in [1 .. n -> Nodes], Chained(n, s)
  PROVE  NodesFrom(First(n, s)) = s
  <1> DEFINE C == Cardinality(Nodes)
             a == First(n, s)
             Steps(f) == f = [k \in 0 .. C |->
                                IF k = 0 THEN a
                                ELSE IF f[k - 1] \in Nodes \cap Live
                                     THEN node[f[k - 1]].next ELSE NULL]
             w == [k \in 0 .. C |-> IF k < n THEN s[k + 1] ELSE NULL]
             at == CHOOSE f : Steps(f)
  <1>1. C \in Nat /\ n <= C
    BY ChainLength
  <1>2. \A k \in 0 .. C : w[k] \in Nodes \cap Live <=> k < n
    <2>1. ASSUME NEW k \in 0 .. C, k < n PROVE w[k] \in Nodes \cap Live
      <3>1. k + 1 \in 1 .. n
        BY <2>1
      <3>2. s[k + 1] \in Nodes /\ node[s[k + 1]] # Free
        BY <3>1, ChainNodes
      <3>3. QED
        BY <2>1, <3>2, LiveNodes
    <2>2. ASSUME NEW k \in 0 .. C, ~(k < n) PROVE w[k] \notin Nodes
      BY <2>2, NullIsNoNode
    <2>3. QED
      BY <2>1, <2>2
  <1>3. ASSUME NEW k \in 0 .. C
        PROVE  w[k] = IF k = 0 THEN a
                      ELSE IF w[k - 1] \in Nodes \cap Live THEN node[w[k - 1]].next ELSE NULL
    <2>1. CASE k = 0
      BY <2>1 DEF First
    <2>2. CASE k # 0
      <3>1. k - 1 \in 0 .. C /\ (k - 1) + 1 = k
        BY <1>1, <2>2
      <3>2. CASE k - 1 < n
        <4>1. k \in 1 .. n
          BY <2>2, <3>1, <3>2
        <4>2. w[k - 1] = s[k]
          BY <3>1, <3>2
        <4>3. node[s[k]].next = After(n, s, k)
          BY <4>1, ChainNodes
        <4>4. w[k] = After(n, s, k)
          BY <4>1 DEF After
        <4>5. QED
          BY <1>2, <2>2, <3>1, <3>2, <4>2, <4>3, <4>4
      <3>3. CASE ~(k - 1 < n)
        <4>1. ~(k < n)
          BY <1>1, <3>1, <3>3
        <4>2. QED
          BY <1>2, <2>2, <3>1, <3>3, <4>1
      <3>4. QED
        BY <3>2, <3>3
    <2>3. QED
      BY <2>1, <2>2
  <1>4. Steps(w)
    BY <1>3
  <1> HIDE DEF w
  <1>5. Steps(at)
    BY <1>4
  <1> HIDE DEF at
  <1>6. \A k \in 0 .. C : at[k] = w[k]
    <2> DEFINE Bad == {k \in 0 .. C : at[k] # w[k]}
    <2> SUFFICES ASSUME Bad # {} PROVE FALSE
      OBVIOUS
    <2>1. PICK k \in Bad : \A j \in Bad : k <= j
      <3>1. Bad \in SUBSET Nat
        BY <1>1
      <3>2. QED
        BY <3>1, LeastNumber
    <2>2. k # 0
      BY <1>3, <1>5, <2>1
    <2>3. k \in 0 .. C /\ k - 1 \in 0 .. C /\ ~(k <= k - 1)
      BY <1>1, <2>1, <2>2
    <2>4. k - 1 \notin Bad
      <3> HIDE DEF Bad
      <3>1. QED
        BY <2>1, <2>3
    <2>5. at[k - 1] = w[k - 1]
      BY <2>3, <2>4
    <2>6. at[k] = w[k]
      BY <1>3, <1>5, <2>2, <2>3, <2>5
    <2>7. QED
      BY <2>1, <2>6
  <1> DEFINE N == {k \in 0 .. C : at[k] \in Nodes \cap Live}
  <1>7. N = 0 .. n - 1
    BY <1>1, <1>2, <1>6
  <1>8. Cardinality(N) = n
    <2>1. Cardinality(0 .. n - 1) = n
      BY FS_Interval
    <2>2. QED
      BY <1>7, <2>1
  <1>9. NodesFrom(a) = [i \in 1 .. Cardinality(N) |-> at[i - 1]]
    BY DEF NodesFrom, at
  <1>10. \A i \in 1 .. n : at[i - 1] = s[i]
    <2>1. ASSUME NEW i \in 1 .. n PROVE at[i - 1] = s[i]
      <3>1. i - 1 \in 0 .. C /\ i - 1 < n /\ (i - 1) + 1 = i
        BY <1>1
      <3>2. QED
        BY <1>6, <3>1 DEF w
    <2>2. QED
      BY <2>1
  <1>11. QED
    <2> HIDE DEF N
    <2>1. QED
      BY <1>8, <1>9, <1>10

(* The memory as the list's users see it.                                  *)
LEMMA LinkedIs ==
  ASSUME Types, Control, NEW n \in Nat, NEW s \in [1 .. n -> Nodes], Shape(n, s)
  PROVE  /\ ~exists \/ Releasing # {} => Linked = << >>
         /\ exists /\ Releasing = {} /\ ~InsertLinks => Linked = s
         /\ exists /\ Releasing = {} /\ InsertLinks => Linked = <<head>> \o s
         /\ \A p \in Releasing : NodesFrom(reg[p].temp) = s
         /\ InsertLinks => head \in Nodes
  <1>1. Chained(n, s)
    BY DEF Shape
  <1>2. NodesFrom(First(n, s)) = s
    BY <1>1, NodesFromIs
  <1>3. ASSUME exists, Releasing = {}, ~InsertLinks PROVE Linked = s
    <2>1. head = First(n, s)
      BY <1>3 DEF Shape, Headed, Releasing, InsertLinks
    <2>2. QED
      BY <1>2, <1>3, <2>1 DEF Linked
  <1>4. ASSUME exists, Releasing = {}, InsertLinks PROVE Linked = <<head>> \o s
    <2> DEFINE p == CHOOSE p \in Procs : pc[p] = "link"
    <2>1. p \in Procs /\ pc[p] = "link"
      BY <1>4 DEF InsertLinks
    <2> HIDE DEF p
    <2>2. reg[p].old = First(n, s)
      BY <2>1 DEF Shape, Placed
    <2>3. Linked = <<head>> \o NodesFrom(reg[p].old)
      BY <1>4 DEF Linked, p
    <2>4. QED
      BY <1>2, <2>2, <2>3
  <1>5. ASSUME NEW p \in Releasing PROVE NodesFrom(reg[p].temp) = s
    <2>1. reg[p].temp = First(n, s)
      BY <1>5 DEF Shape, Placed, Releasing
    <2>2. QED
      BY <1>2, <2>1
  <1>6. InsertLinks => head \in Nodes
    BY OwnedNodes DEF InsertLinks
  <1>7. ~exists \/ Releasing # {} => Linked = << >>
    BY DEF Linked
  <1>8. QED
    BY <1>3, <1>4, <1>5, <1>6, <1>7

LEMMA RangeIs ==
  ASSUME NEW n \in Nat, NEW s \in [1 .. n -> Nodes], NEW a
  PROVE  /\ \A b : b \in Range(s) <=> On(n, s, b)
         /\ \A b : b \in Range(<<a>> \o s) <=> On(n, s, b) \/ b = a
  <1>1. \A b : b \in Range(s) <=> On(n, s, b)
    BY DEF Range, On
  <1>2. s \in Seq(Nodes) /\ Len(s) = n
    <2>1. s \in Seq(Nodes)
      OBVIOUS
    <2>2. QED
      BY <2>1, LenProperties
  <1>3. /\ <<a>> \in Seq({a} \cup Nodes) /\ s \in Seq({a} \cup Nodes)
        /\ Len(<<a>>) = 1 /\ <<a>>[1] = a
    BY <1>2
  <1>4. /\ Len(<<a>> \o s) = 1 + n /\ <<a>> \o s \in Seq({a} \cup Nodes)
        /\ \A i \in 1 .. 1 + n : (<<a>> \o s)[i] = IF i <= 1 THEN <<a>>[i] ELSE s[i - 1]
    BY <1>2, <1>3, ConcatProperties
  <1>5. DOMAIN (<<a>> \o s) = 1 .. 1 + n
    BY <1>4, LenProperties
  <1>6. (<<a>> \o s)[1] = a /\ \A i \in 1 .. n : (<<a>> \o s)[i + 1] = s[i]
    BY <1>3, <1>4
  <1>7. ASSUME NEW b \in Range(<<a>> \o s) PROVE On(n, s, b) \/ b = a
    <2>1. PICK i \in 1 .. 1 + n : b = (<<a>> \o s)[i]
      BY <1>5, <1>7 DEF Range
    <2>2. CASE i = 1
      BY <1>6, <2>1, <2>2
    <2>3. CASE i # 1
      <3>1. i - 1 \in 1 .. n /\ (i - 1) + 1 = i
        BY <2>3
      <3>2. QED
        BY <1>6, <2>1, <3>1 DEF On
    <2>4. QED
      BY <2>2, <2>3
  <1>8. a \in Range(<<a>> \o s)
    <2>1. 1 \in 1 .. 1 + n
      OBVIOUS
    <2>2. QED
      BY <1>5, <1>6, <2>1 DEF Range
  <1>9. ASSUME NEW b, On(n, s, b) PROVE b \in Range(<<a>> \o s)
    <2>1. PICK i \in 1 .. n : s[i] = b
      BY <1>9 DEF On
    <2>2. i + 1 \in 1 .. 1 + n
      OBVIOUS
    <2>3. QED
      BY <1>5, <1>6, <2>1, <2>2 DEF Range
  <1>10. QED
    BY <1>1, <1>7, <1>8, <1>9

(* No thread is about to touch memory that is not allocated.               *)
LEMMA AllSound ==
  ASSUME Types, Control, NEW n \in Nat, NEW s \in [1 .. n -> Nodes], Shape(n, s),
         NEW p \in Procs
  PROVE  Sound(p)
  <1>1. Controlled(p) /\ Placed(p, n, s) /\ Chained(n, s)
    BY DEF Control, Shape
  <1>2. pc[p] \notin {"idle", "return"} => ll \in Live
    BY <1>1, ListLive DEF Controlled
  <1>3. CASE pc[p] \in {"lock", "read", "publish", "start", "unlock"}
    <2>1. Touches(p) = {ll}
      BY <1>3 DEF Touches
    <2>2. QED
      BY <1>2, <1>3, <2>1 DEF Sound
  <1>4. CASE pc[p] = "link"
    <2>1. head \in Live
      BY <1>4, OwnedNodes, LiveNodes
    <2>2. Touches(p) = {ll, head}
      BY <1>4 DEF Touches
    <2>3. QED
      BY <1>2, <1>4, <2>1, <2>2 DEF Sound
  <1>5. CASE pc[p] = "walk"
    <2>1. reg[p].temp # NULL => reg[p].temp \in Live
      <3>1. ASSUME NEW i \in 1 .. n, Cursor(p, s, i) PROVE reg[p].temp \in Live
        BY <1>1, <3>1, ChainNodes, LiveNodes DEF Cursor
      <3>2. QED
        BY <1>1, <1>5, <3>1 DEF Placed
    <2>2. Touches(p) = {reg[p].temp} \ {NULL}
      BY <1>5 DEF Touches
    <2>3. QED
      BY <2>1, <2>2 DEF Sound
  <1>6. CASE pc[p] = "release"
    <2>1. reg[p].temp = First(n, s)
      BY <1>1, <1>6 DEF Placed
    <2>2. CASE n = 0
      <3>1. Touches(p) = {ll}
        BY <1>6, <2>1, <2>2 DEF Touches, First
      <3>2. QED
        BY <1>2, <1>6, <3>1 DEF Sound
    <2>3. CASE n # 0
      <3>1. 1 \in 1 .. n
        BY <2>3
      <3>2. reg[p].temp = s[1] /\ s[1] \in Live /\ s[1] # NULL
        BY <1>1, <2>1, <2>3, <3>1, ChainNodes, LiveNodes DEF First
      <3>3. Touches(p) = {s[1]}
        BY <1>6, <3>2 DEF Touches
      <3>4. QED
        BY <3>2, <3>3 DEF Sound
    <2>4. QED
      BY <2>2, <2>3
  <1>7. CASE pc[p] \in {"unlink", "mark", "fetch"}
    <2>1. Finds(p, n, s)
      BY <1>1, <1>7 DEF Placed, HasFound
    <2>2. reg[p].temp \in Live /\ reg[p].prev \in Live
      BY <1>1, <2>1, FoundNodes, LiveNodes
    <2>3. Touches(p) \subseteq {ll, reg[p].temp, reg[p].prev}
      BY <1>7 DEF Touches
    <2>4. QED
      BY <1>2, <1>7, <2>2, <2>3 DEF Sound
  <1>8. CASE pc[p] \in {"idle", "malloc", "return"}
    <2>1. Touches(p) = {}
      BY <1>8 DEF Touches
    <2>2. QED
      BY <2>1 DEF Sound
  <1>9. QED
    BY <1>3, <1>4, <1>5, <1>6, <1>7, <1>8 DEF Types, ThreadTypes

LEMMA MemoryIs ==
  ASSUME Inv
  PROVE  ListMemory
  <1>0. PICK n \in Nat : \E s \in [1 .. n -> Nodes] : Shape(n, s)
    BY DEF Inv, Shaped
  <1>1. PICK s \in [1 .. n -> Nodes] : Shape(n, s)
    BY <1>0
  <1>2. Types /\ Control
    BY DEF Inv
  <1> DEFINE out(p) == IF pc[p] = "idle" THEN copy[p] ELSE reg[p].new
             R == UNION {Range(NodesFrom(reg[p].temp)) : p \in Releasing}
             O == {out(p) : p \in Procs} \ {NULL}
  <1>3. \A p \in Procs : Sound(p)
    BY <1>1, <1>2, AllSound
  <1>4. \A b : b \in Live \ {ll} <=> b \in Nodes /\ node[b] # Free
    BY ThreadListAssumption DEF Live
  <1>5. \A b : b \in Nodes /\ node[b] # Free <=>
                On(n, s, b) \/ b \in {Owned(p) : p \in Procs} \ {NULL}
    <2>1. \A p \in Procs : Owned(p) # NULL => Owned(p) \in Nodes
      BY <1>1, <1>2, OwnedNodes
    <2>2. \A b : On(n, s, b) => b \in Nodes
      BY DEF On
    <2>3. \A b \in Nodes : node[b] # Free <=> On(n, s, b) \/ \E p \in Procs : Owned(p) = b
      BY <1>1 DEF Shape, Accounted
    <2>4. QED
      BY <2>1, <2>2, <2>3, NullIsNoNode
  <1>6. \A p \in Procs : pc[p] # "link" => Owned(p) = out(p)
    BY DEF Owned
  <1>7. \A p \in Procs : pc[p] = "link" => Owned(p) = head /\ out(p) = NULL
    BY <1>2 DEF Owned, Control, Controlled, PlaceIn, NewIn, Inserts
  <1>8. \A b : b \in R <=> Releasing # {} /\ On(n, s, b)
    <2>1. \A p \in Releasing : NodesFrom(reg[p].temp) = s
      BY <1>1, <1>2, LinkedIs
    <2>2. \A b : b \in Range(s) <=> On(n, s, b)
      BY RangeIs
    <2>3. \A p \in Releasing : \A b : b \in Range(NodesFrom(reg[p].temp)) <=> On(n, s, b)
      BY <2>1, <2>2
    <2>4. QED
      BY <2>3
  <1> HIDE DEF out, R
  <1>9. \A b : On(n, s, b) \/ b \in {Owned(p) : p \in Procs} \ {NULL}
               <=> b \in Range(Linked) \cup R \cup O
    <2>1. \A b : b \in Range(<< >>) <=> FALSE
      BY DEF Range
    <2>2. CASE ~exists
      <3>1. n = 0 /\ Linked = << >>
        BY <1>1, <1>2, <2>2, LinkedIs DEF Shape, Headed
      <3>2. \A b : ~On(n, s, b)
        BY <3>1 DEF On
      <3>3. \A p \in Procs : Owned(p) = out(p)
        BY <1>2, <1>6, <2>2 DEF Control, Controlled
      <3>4. QED
        BY <1>8, <2>1, <3>1, <3>2, <3>3
    <2>3. CASE exists /\ Releasing # {}
      <3>1. Linked = << >>
        BY <1>1, <1>2, <2>3, LinkedIs
      <3>2. PICK p \in Procs : pc[p] = "release"
        BY <2>3 DEF Releasing
      <3>3. \A q \in Procs : pc[q] # "link"
        BY <1>2, <3>2, UsingPlaces, OthersWait
      <3>4. \A q \in Procs : Owned(q) = out(q)
        BY <1>6, <3>3
      <3>5. QED
        BY <1>8, <2>1, <2>3, <3>1, <3>4
    <2>4. CASE exists /\ Releasing = {} /\ ~InsertLinks
      <3>1. Linked = s /\ \A b : b \in Range(s) <=> On(n, s, b)
        BY <1>1, <1>2, <2>4, LinkedIs, RangeIs
      <3>2. \A q \in Procs : Owned(q) = out(q)
        BY <1>6, <2>4 DEF InsertLinks
      <3>3. QED
        BY <1>8, <2>4, <3>1, <3>2
    <2>5. CASE exists /\ Releasing = {} /\ InsertLinks
      <3>1. Linked = <<head>> \o s /\ head \in Nodes
        BY <1>1, <1>2, <2>5, LinkedIs
      <3>2. \A b : b \in Range(Linked) <=> On(n, s, b) \/ b = head
        BY <3>1, RangeIs
      <3>3. PICK p \in Procs : pc[p] = "link"
        BY <2>5 DEF InsertLinks
      <3>4. \A q \in Procs \ {p} : pc[q] # "link"
        BY <1>2, <3>3, UsingPlaces, OthersWait
      <3>5. /\ Owned(p) = head /\ out(p) = NULL /\ head # NULL
            /\ \A q \in Procs \ {p} : Owned(q) = out(q)
        BY <1>6, <1>7, <3>1, <3>3, <3>4, NullIsNoNode
      <3>6. QED
        BY <1>8, <2>5, <3>2, <3>5
    <2>6. QED
      BY <2>2, <2>3, <2>4, <2>5
  <1>10. Live \ {ll} = Range(Linked) \cup R \cup O
    BY <1>4, <1>5, <1>9
  <1>11. QED
    BY <1>3, <1>10 DEF ListMemory, out, R

(* However guarded functions interleave, and whatever is called alone, no  *)
(* thread follows a dangling pointer or frees twice, and no node is lost:  *)
(* every allocated one is in the list, on its way in or out, or a copy     *)
(* that its caller still has to free (linkedlist.c, linkedlist.h:43).      *)
THEOREM ListMemoryHolds == Spec => []ListMemory
  <1>1. Inv => ListMemory
    BY MemoryIs
  <1>2. QED
    BY <1>1, InvHolds, PTL

-----------------------------------------------------------------------------
(* The abstract list.                                                      *)
Datas == [i \in DOMAIN Linked |-> node[Linked[i]].data]
Values(n, s) == [i \in 1 .. n |-> node[s[i]].data]
View(n, s) ==
  IF ~exists \/ Releasing # {} THEN << >>
  ELSE IF InsertLinks THEN <<node[head].data>> \o Values(n, s)
       ELSE Values(n, s)

(* Whatever shape the memory has, it shows the data in the chain's order.  *)
Shown == \A n \in Nat : \A s \in [1 .. n -> Nodes] : Shape(n, s) => Datas = View(n, s)

LEMMA PrefixedIs ==
  ASSUME NEW n \in Nat, NEW v, v = [i \in 1 .. n |-> v[i]], NEW a
  PROVE  <<a>> \o v = [i \in 1 .. n + 1 |-> IF i = 1 THEN a ELSE v[i - 1]]
  <1> DEFINE S == {a} \cup {v[i] : i \in 1 .. n}
             w == [i \in 1 .. n + 1 |-> IF i = 1 THEN a ELSE v[i - 1]]
             u == <<a>> \o v
  <1>1. v \in [1 .. n -> S]
    <2>1. \A i \in 1 .. n : v[i] \in S
      OBVIOUS
    <2>2. QED
      BY <2>1
  <1>2. v \in Seq(S) /\ Len(v) = n
    <2>1. v \in Seq(S)
      BY <1>1
    <2>2. QED
      BY <1>1, <2>1, LenProperties
  <1>3. <<a>> \in Seq(S) /\ Len(<<a>>) = 1 /\ <<a>>[1] = a
    OBVIOUS
  <1>4. /\ u \in Seq(S) /\ Len(u) = 1 + n
        /\ \A i \in 1 .. 1 + n : u[i] = IF i <= 1 THEN <<a>>[i] ELSE v[i - 1]
    BY <1>2, <1>3, ConcatProperties
  <1> HIDE DEF u
  <1>5. DOMAIN u = 1 .. n + 1 /\ u = [i \in DOMAIN u |-> u[i]]
    BY <1>4, LenProperties
  <1>6. \A i \in 1 .. n + 1 : u[i] = w[i]
    <2>1. ASSUME NEW i \in 1 .. n + 1 PROVE u[i] = w[i]
      <3>1. i \in 1 .. 1 + n
        OBVIOUS
      <3>2. w[i] = IF i = 1 THEN a ELSE v[i - 1]
        OBVIOUS
      <3> HIDE DEF w
      <3>3. u[i] = IF i <= 1 THEN <<a>>[i] ELSE v[i - 1]
        BY <1>4, <3>1
      <3>4. CASE i = 1
        <4>1. u[1] = <<a>>[1]
          BY <3>3, <3>4
        <4>2. u[1] = a /\ w[1] = a
          BY <1>3, <3>2, <3>4, <4>1
        <4>3. QED
          BY <3>4, <4>2
      <3>5. CASE i # 1
        <4>1. ~(i <= 1)
          BY <3>5
        <4>2. u[i] = v[i - 1]
          BY <3>3, <4>1, Zenon
        <4>3. QED
          BY <3>2, <3>5, <4>2, Zenon
      <3>6. QED
        BY <3>4, <3>5
    <2>2. QED
      BY <2>1
  <1>7. u = w
    BY <1>5, <1>6
  <1>8. QED
    BY <1>7 DEF u

LEMMA ShownIs ==
  ASSUME Inv
  PROVE  Shown
  <1> SUFFICES ASSUME NEW n \in Nat, NEW s \in [1 .. n -> Nodes], Shape(n, s)
               PROVE  Datas = View(n, s)
    BY DEF Shown
  <1>1. /\ ~exists \/ Releasing # {} => Linked = << >>
        /\ exists /\ Releasing = {} /\ ~InsertLinks => Linked = s
        /\ exists /\ Releasing = {} /\ InsertLinks => Linked = <<head>> \o s
    BY LinkedIs DEF Inv
  <1>2. CASE ~exists \/ Releasing # {}
    BY <1>1, <1>2 DEF Datas, View
  <1>3. CASE exists /\ Releasing = {} /\ ~InsertLinks
    BY <1>1, <1>3 DEF Datas, View, Values
  <1>4. CASE exists /\ Releasing = {} /\ InsertLinks
    <2> DEFINE t == [i \in 1 .. n + 1 |-> IF i = 1 THEN head ELSE s[i - 1]]
               d == [i \in 1 .. n + 1 |-> IF i = 1 THEN node[head].data
                                          ELSE Values(n, s)[i - 1]]
    <2>1. Linked = t
      BY <1>1, <1>4, PrefixedIs
    <2>2. View(n, s) = d
      <3>1. Values(n, s) = [i \in 1 .. n |-> Values(n, s)[i]]
        BY DEF Values
      <3>2. View(n, s) = <<node[head].data>> \o Values(n, s)
        BY <1>4 DEF View
      <3>3. QED
        BY <3>1, <3>2, PrefixedIs
    <2>3. Datas = [i \in 1 .. n + 1 |-> node[t[i]].data]
      BY <2>1 DEF Datas
    <2>4. \A i \in 1 .. n + 1 : node[t[i]].data = d[i]
      BY DEF Values
    <2>5. QED
      BY <2>2, <2>3, <2>4
  <1>5. QED
    BY <1>2, <1>3, <1>4

-----------------------------------------------------------------------------
(* Steps that the abstract list does not see.                              *)
LEMMA OtherAnswers ==
  ASSUME Types, Control, NEW q \in Procs, pc'[q] = pc[q], call'[q] = call[q],
         reg'[q] = reg[q], Owned(q) \in Nodes => node'[Owned(q)] = node[Owned(q)]
  PROVE  answer'[q] = answer[q]
  <1>1. reg[q].new \in Pointers /\ Controlled(q)
    BY DEF Types, ThreadTypes, Control
  <1>2. CASE pc[q] \in {"link", "unlock", "release", "return"} /\ call[q].fn \in Gets
             /\ reg[q].new # NULL
    <2>1. pc[q] # "link"
      BY <1>1, <1>2 DEF Controlled, PlaceIn, Gets
    <2>2. Owned(q) = reg[q].new /\ reg[q].new \in Nodes
      BY <1>1, <1>2, <2>1 DEF Owned, Pointers
    <2>3. node'[reg[q].new].data = node[reg[q].new].data
      BY <2>2
    <2>4. QED
      BY <1>2, <2>3 DEF answer, Gets
  <1>3. CASE ~(pc[q] \in {"link", "unlock", "release", "return"} /\ call[q].fn \in Gets
               /\ reg[q].new # NULL)
    BY <1>3 DEF answer, Gets
  <1>4. QED
    BY <1>2, <1>3

LEMMA SameAnswers ==
  ASSUME \A q \in Procs : answer'[q] = answer[q]
  PROVE  answer' = answer
  BY DEF answer

LEMMA Stutters ==
  ASSUME UNCHANGED call, Datas' = Datas, answer' = answer
  PROVE  UNCHANGED List!vars
  BY DEF List!vars, Datas

(* The data shown is the same when the chain and its data are.             *)
LEMMA SameView ==
  ASSUME NEW n \in Nat, NEW s \in [1 .. n -> Nodes],
         Shape(n, s), Shape(n, s)', Shown, Shown',
         exists' = exists, head' = head,
         \A q \in Procs : pc'[q] = pc[q] \/ {pc[q], pc'[q]} \cap {"link", "release"} = {},
         \A i \in 1 .. n : node'[s[i]].data = node[s[i]].data,
         InsertLinks => node'[head].data = node[head].data
  PROVE  Datas' = Datas
  <1>1. Datas = View(n, s)
    BY DEF Shown
  <1>2. Datas' = View(n, s)'
    BY DEF Shown
  <1>3. Values(n, s)' = Values(n, s)
    BY DEF Values
  <1>4. (InsertLinks' <=> InsertLinks) /\ Releasing' = Releasing
    <2>1. \A q \in Procs : (pc'[q] = "link" <=> pc[q] = "link")
                           /\ (pc'[q] = "release" <=> pc[q] = "release")
      OBVIOUS
    <2>2. QED
      BY <2>1 DEF InsertLinks, Releasing
  <1>5. View(n, s)' = View(n, s)
    BY <1>3, <1>4 DEF View
  <1>6. QED
    BY <1>1, <1>2, <1>5

(* A step of p that changes at most its own node.                          *)
LEMMA QuietStep ==
  ASSUME Types, Control, NEW n \in Nat, NEW s \in [1 .. n -> Nodes],
         Shape(n, s), Shape(n, s)', Shown, Shown', NEW p \in Procs,
         UNCHANGED <<exists, head, call>>,
         {pc[p], pc'[p]} \cap {"link", "release"} = {},
         \A q \in Procs \ {p} : pc'[q] = pc[q] /\ reg'[q] = reg[q],
         \A b \in Nodes : node[b] # Free /\ b # Owned(p) => node'[b] = node[b]
  PROVE  Datas' = Datas /\ \A q \in Procs \ {p} : answer'[q] = answer[q]
  <1>1. \A i \in 1 .. n : node'[s[i]] = node[s[i]]
    BY ChainNodes, OwnedNodes DEF Shape
  <1>2. ASSUME NEW q \in Procs \ {p}, Owned(q) \in Nodes
        PROVE  node'[Owned(q)] = node[Owned(q)]
    <2>1. node[Owned(q)] # Free
      BY <1>2, OwnedNodes, NullIsNoNode
    <2>2. Owned(q) # Owned(p)
      BY <1>2, NullIsNoNode DEF Shape, Accounted
    <2>3. QED
      BY <1>2, <2>1, <2>2
  <1>3. InsertLinks => node'[head] = node[head]
    <2>1. ASSUME NEW q \in Procs, pc[q] = "link" PROVE node'[head] = node[head]
      <3>1. q # p /\ head = Owned(q) /\ Owned(q) \in Nodes
        BY <2>1, OwnedNodes
      <3>2. QED
        BY <1>2, <3>1
    <2>2. QED
      BY <2>1 DEF InsertLinks
  <1>4. Datas' = Datas
    <2>1. \A q \in Procs : pc'[q] = pc[q] \/ {pc[q], pc'[q]} \cap {"link", "release"} = {}
      OBVIOUS
    <2>2. QED
      BY <1>1, <1>3, <2>1, SameView
  <1>5. \A q \in Procs \ {p} : answer'[q] = answer[q]
    BY <1>2, OtherAnswers
  <1>6. QED
    BY <1>4, <1>5

(* ... and its own answer stays what it was.                               *)
LEMMA QuietStutters ==
  ASSUME Types, Control, NEW n \in Nat, NEW s \in [1 .. n -> Nodes],
         Shape(n, s), Shape(n, s)', Shown, Shown', NEW p \in Procs,
         UNCHANGED <<exists, head, call>>,
         {pc[p], pc'[p]} \cap {"link", "release"} = {},
         \A q \in Procs \ {p} : pc'[q] = pc[q] /\ reg'[q] = reg[q],
         \A b \in Nodes : node[b] # Free /\ b # Owned(p) => node'[b] = node[b],
         answer'[p] = answer[p]
  PROVE  UNCHANGED List!vars
  <1>1. Datas' = Datas /\ \A q \in Procs \ {p} : answer'[q] = answer[q]
    BY QuietStep
  <1>2. \A q \in Procs : answer'[q] = answer[q]
    BY <1>1
  <1>3. answer' = answer
    BY <1>2, SameAnswers
  <1>4. QED
    BY <1>1, <1>3, Stutters

-----------------------------------------------------------------------------
(* Steps at which a call takes effect.                                     *)
LEMMA Takes ==
  ASSUME Types, Control, NEW p \in Procs,
         pc[p] \notin {"idle", "link", "unlock", "release", "return"},
         UNCHANGED call, Datas' = List!Effect(call[p]),
         answer'[p] = List!Result(call[p]),
         \A q \in Procs \ {p} : answer'[q] = answer[q]
  PROVE  List!Take(p)
  <1>1. call[p] # NoCall
    <2>1. PlaceIn(call[p].fn, pc[p])
      BY DEF Control, Controlled
    <2>2. call[p].fn # "none"
      BY <2>1 DEF PlaceIn
    <2>3. QED
      BY <2>2 DEF NoCall
  <1>2. answer[p] = Garbage
    BY DEF answer
  <1>3. answer' = [answer EXCEPT ![p] = List!Result(call[p])]
    <2>1. answer = [q \in Procs |-> answer[q]] /\ answer' = [q \in Procs |-> answer'[q]]
      BY DEF answer
    <2> DEFINE e == [answer EXCEPT ![p] = List!Result(call[p])]
    <2>2. e = [q \in Procs |-> IF q = p THEN List!Result(call[p]) ELSE answer[q]]
      BY <2>1
    <2>3. \A q \in Procs : answer'[q] = e[q]
      BY <2>2
    <2>4. QED
      BY <2>1, <2>2, <2>3
  <1>4. QED
    BY <1>1, <1>2, <1>3 DEF List!Take, Datas

(* While p works on the list, its data is what the chain's nodes hold.     *)
LEMMA PlainView ==
  ASSUME Types, Control, NEW n \in Nat, NEW s \in [1 .. n -> Nodes], Shape(n, s), Shown,
         NEW p \in Procs,
         pc[p] \in {"read", "publish", "start", "walk", "mark", "unlink", "fetch"}
  PROVE  Datas = Values(n, s)
  <1>1. Using(p)
    BY UsingPlaces
  <1>2. exists
    BY DEF Control, Controlled
  <1>3. \A q \in Procs : pc[q] # "link" /\ pc[q] # "release"
    BY <1>1, OthersWait
  <1>4. ~InsertLinks /\ Releasing = {}
    BY <1>3 DEF InsertLinks, Releasing
  <1>5. Datas = View(n, s)
    BY DEF Shown
  <1>6. QED
    BY <1>2, <1>4, <1>5 DEF View

(* A function matches by the key that the abstract list looks for.         *)
LEMMA MatchesKey ==
  ASSUME NEW p \in Procs, call[p].fn \notin {"print", "free_list"}, NEW d
  PROVE  Matches(p, d) <=> d[List!Key(call[p].fn)] = call[p].data[List!Key(call[p].fn)]
  <1>1. CASE call[p].fn = "get_by_fd"
    BY <1>1 DEF Matches, List!Key
  <1>2. CASE call[p].fn # "get_by_fd"
    BY <1>2 DEF Matches, List!Key
  <1>3. QED
    BY <1>1, <1>2

FirstMatch(p, n, s) == {i \in 1 .. n : Matches(p, node[s[i]].data) /\ Passed(p, s, i)}

LEMMA FirstIs ==
  ASSUME NEW n \in Nat, NEW s \in [1 .. n -> Nodes], Datas = Values(n, s),
         NEW p \in Procs, call[p].fn \notin {"print", "free_list"}
  PROVE  List!First(call[p]) = FirstMatch(p, n, s)
  <1> DEFINE hit(v, i) ==
               v[i][List!Key(call[p].fn)] = call[p].data[List!Key(call[p].fn)]
  <1>1. List!First(call[p]) =
          {i \in DOMAIN Datas : hit(Datas, i) /\ \A j \in 1 .. i - 1 : ~hit(Datas, j)}
    BY DEF List!First, Datas
  <1>2. DOMAIN Datas = 1 .. n /\ \A i \in 1 .. n : Datas[i] = node[s[i]].data
    BY DEF Values
  <1>3. \A i \in 1 .. n : hit(Datas, i) <=> Matches(p, node[s[i]].data)
    BY <1>2, MatchesKey
  <1>4. \A i \in 1 .. n : \A j \in 1 .. i - 1 : j \in 1 .. n
    OBVIOUS
  <1> HIDE DEF hit
  <1>5. QED
    BY <1>1, <1>2, <1>3, <1>4 DEF FirstMatch, Passed

LEMMA FoundFirst ==
  ASSUME NEW n \in Nat, NEW s \in [1 .. n -> Nodes], Datas = Values(n, s),
         NEW p \in Procs, call[p].fn \notin {"print", "free_list"},
         NEW i \in 1 .. n, Cursor(p, s, i), Matches(p, node[s[i]].data)
  PROVE  /\ List!First(call[p]) = {i} /\ (CHOOSE j \in List!First(call[p]) : TRUE) = i
  <1> DEFINE hit(j) == Matches(p, node[s[j]].data)
  <1>1. List!First(call[p]) = {k \in 1 .. n : hit(k) /\ \A j \in 1 .. k - 1 : ~hit(j)}
    <2>1. List!First(call[p]) = FirstMatch(p, n, s)
      BY FirstIs
    <2>2. QED
      BY <2>1 DEF FirstMatch, Passed
  <1>2. hit(i) /\ \A j \in 1 .. i - 1 : ~hit(j)
    BY DEF Cursor, Passed
  <1> HIDE DEF hit
  <1>3. ASSUME NEW k \in 1 .. n, hit(k), \A j \in 1 .. k - 1 : ~hit(j)
        PROVE  k = i
    BY <1>2, <1>3
  <1>4. List!First(call[p]) = {i}
    BY <1>1, <1>2, <1>3
  <1>5. QED
    BY <1>4

LEMMA NoFirst ==
  ASSUME NEW n \in Nat, NEW s \in [1 .. n -> Nodes], Datas = Values(n, s),
         NEW p \in Procs, call[p].fn \notin {"print", "free_list"}, Passed(p, s, n + 1)
  PROVE  List!First(call[p]) = {}
  <1>1. \A i \in 1 .. n : ~Matches(p, node[s[i]].data)
    BY DEF Passed
  <1>2. List!First(call[p]) = FirstMatch(p, n, s)
    BY FirstIs
  <1>3. QED
    BY <1>1, <1>2 DEF FirstMatch

-----------------------------------------------------------------------------
(* The steps before a call takes effect, and those after it.               *)
LEMMA LockStutters ==
  ASSUME Types, Control, NEW n \in Nat, NEW s \in [1 .. n -> Nodes], Shape(n, s),
         Shown, Shown', NEW p \in Procs, Lock(p), UNCHANGED copy
  PROVE  UNCHANGED List!vars
  <1>1. /\ pc[p] = "lock" /\ Goto(p, AfterLock[call[p].fn]) /\ UNCHANGED <<heap, call, reg>>
    BY DEF Lock, Step
  <1>2. Shape(n, s)'
    BY LockInv
  <1>3. pc'[p] = AfterLock[call[p].fn] /\ \A q \in Procs \ {p} : pc'[q] = pc[q]
    BY <1>1, GotoOthers
  <1>4. pc'[p] \in {"read", "start", "unlink", "fetch"}
    <2>1. PlaceIn(call[p].fn, "lock")
      BY <1>1 DEF Control, Controlled
    <2>2. call[p].fn \in {"insert", "set_status", "print", "remove", "get", "get_by_fd"}
      BY <2>1 DEF PlaceIn
    <2>3. QED
      BY <1>3, <2>2 DEF AfterLock
  <1>5. answer'[p] = answer[p]
    BY <1>1, <1>4 DEF answer
  <1>6. UNCHANGED <<exists, head, call, node, reg>>
    BY <1>1 DEF heap
  <1>7. {pc[p], pc'[p]} \cap {"link", "release"} = {}
    BY <1>1, <1>4
  <1>8. /\ \A q \in Procs \ {p} : pc'[q] = pc[q] /\ reg'[q] = reg[q]
        /\ \A b \in Nodes : node[b] # Free /\ b # Owned(p) => node'[b] = node[b]
    BY <1>3, <1>6
  <1>9. QED
    BY <1>2, <1>5, <1>6, <1>7, <1>8, QuietStutters

LEMMA UnlockStutters ==
  ASSUME Types, Control, NEW n \in Nat, NEW s \in [1 .. n -> Nodes], Shape(n, s),
         Shown, Shown', NEW p \in Procs, Unlock(p), UNCHANGED copy
  PROVE  UNCHANGED List!vars
  <1>1. /\ pc[p] = "unlock" /\ Goto(p, "return") /\ UNCHANGED <<exists, head, node, call, reg>>
    BY DEF Unlock, Step, heap
  <1>2. Shape(n, s)'
    BY UnlockInv
  <1>3. pc'[p] = "return" /\ \A q \in Procs \ {p} : pc'[q] = pc[q]
    BY <1>1, GotoOthers
  <1>4. answer'[p] = answer[p]
    BY <1>1, <1>3 DEF answer
  <1>5. {pc[p], pc'[p]} \cap {"link", "release"} = {}
    BY <1>1, <1>3
  <1>6. /\ \A q \in Procs \ {p} : pc'[q] = pc[q] /\ reg'[q] = reg[q]
        /\ \A b \in Nodes : node[b] # Free /\ b # Owned(p) => node'[b] = node[b]
        /\ UNCHANGED <<exists, head, call>>
    BY <1>1, <1>3
  <1>7. QED
    BY <1>2, <1>4, <1>5, <1>6, QuietStutters

LEMMA ReadStutters ==
  ASSUME Types, Control, NEW n \in Nat, NEW s \in [1 .. n -> Nodes], Shape(n, s),
         Shown, Shown', NEW p \in Procs, Read(p), UNCHANGED copy
  PROVE  UNCHANGED List!vars
  <1>1. /\ pc[p] = "read" /\ Goto(p, "publish") /\ UNCHANGED <<exists, head, node, call>>
        /\ reg' = [reg EXCEPT ![p].old = head]
    BY DEF Read, Step, heap
  <1>2. Shape(n, s)'
    BY ReadInv
  <1>3. pc'[p] = "publish" /\ \A q \in Procs \ {p} : pc'[q] = pc[q]
    BY <1>1, GotoOthers
  <1>4. answer'[p] = answer[p]
    BY <1>1, <1>3 DEF answer
  <1>5. {pc[p], pc'[p]} \cap {"link", "release"} = {}
    BY <1>1, <1>3
  <1>6. \A q \in Procs \ {p} : pc'[q] = pc[q] /\ reg'[q] = reg[q]
    BY <1>1, <1>3 DEF Types, ThreadTypes
  <1>7. /\ \A b \in Nodes : node[b] # Free /\ b # Owned(p) => node'[b] = node[b]
        /\ UNCHANGED <<exists, head, call>>
    BY <1>1
  <1>8. QED
    BY <1>2, <1>4, <1>5, <1>6, <1>7, QuietStutters

LEMMA MallocStutters ==
  ASSUME Types, Control, NEW n \in Nat, NEW s \in [1 .. n -> Nodes], Shape(n, s),
         Shown, Shown', NEW p \in Procs, Malloc(p), UNCHANGED copy
  PROVE  UNCHANGED List!vars
  <1>1. /\ pc[p] = "malloc" /\ Goto(p, AfterMalloc[call[p].fn])
        /\ UNCHANGED <<exists, head, call>>
    BY DEF Malloc, Step
  <1>2. PICK a \in Nodes \ Live :
          /\ \E c : node' = [node EXCEPT ![a] = c]
          /\ reg' = [reg EXCEPT ![p].new = a]
    BY DEF Malloc
  <1>3. Shape(n, s)'
    BY MallocInv
  <1>4. pc'[p] = AfterMalloc[call[p].fn] /\ \A q \in Procs \ {p} : pc'[q] = pc[q]
    BY <1>1, GotoOthers
  <1>5. pc'[p] \in {"lock", "read", "fetch"}
    <2>1. PlaceIn(call[p].fn, "malloc")
      BY <1>1 DEF Control, Controlled
    <2>2. call[p].fn \in {"insert", "insert_no_mutex", "get", "get_by_fd", "get_no_mutex"}
      BY <2>1 DEF PlaceIn
    <2>3. QED
      BY <1>4, <2>2 DEF AfterMalloc
  <1>6. answer'[p] = answer[p]
    BY <1>1, <1>5 DEF answer
  <1>7. {pc[p], pc'[p]} \cap {"link", "release"} = {}
    BY <1>1, <1>5
  <1>8. \A q \in Procs \ {p} : pc'[q] = pc[q] /\ reg'[q] = reg[q]
    BY <1>2, <1>4 DEF Types, ThreadTypes
  <1>9. ASSUME NEW b \in Nodes, node[b] # Free PROVE node'[b] = node[b]
    <2>1. b # a
      BY <1>2, <1>9, LiveNodes
    <2>2. QED
      BY <1>2, <2>1 DEF Types, HeapTypes
  <1>10. \A b \in Nodes : node[b] # Free /\ b # Owned(p) => node'[b] = node[b]
    BY <1>9
  <1>11. QED
    BY <1>1, <1>3, <1>6, <1>7, <1>8, <1>10, QuietStutters

LEMMA FreeCopyStutters ==
  ASSUME Types, Control, NEW n \in Nat, NEW s \in [1 .. n -> Nodes], Shape(n, s),
         Shown, Shown', NEW p \in Procs, FreeCopy(p)
  PROVE  UNCHANGED List!vars
  <1>1. /\ pc[p] = "idle" /\ node' = [node EXCEPT ![copy[p]] = Free]
        /\ UNCHANGED <<exists, head, call, pc, reg>>
    BY DEF FreeCopy
  <1>2. Shape(n, s)'
    BY FreeCopyInv
  <1>3. answer'[p] = answer[p]
    BY <1>1 DEF answer
  <1>4. {pc[p], pc'[p]} \cap {"link", "release"} = {}
    BY <1>1
  <1>5. Owned(p) = copy[p]
    BY <1>1 DEF Owned
  <1>6. /\ \A b \in Nodes : node[b] # Free /\ b # Owned(p) => node'[b] = node[b]
        /\ \A q \in Procs \ {p} : pc'[q] = pc[q] /\ reg'[q] = reg[q]
        /\ UNCHANGED <<exists, head, call>>
    BY <1>1, <1>5 DEF Types, HeapTypes
  <1>7. QED
    BY <1>2, <1>3, <1>4, <1>6, QuietStutters

-----------------------------------------------------------------------------
(* The loop: a call that finds nothing takes effect at the end of the list.*)
LEMMA NothingFound ==
  ASSUME NEW n \in Nat, NEW s \in [1 .. n -> Nodes], Datas = Values(n, s),
         NEW p \in Procs, PlaceIn(call[p].fn, "walk"), Passed(p, s, n + 1)
  PROVE  List!Effect(call[p]) = Datas /\ List!Result(call[p]) = NULL
  <1>1. Datas = [i \in DOMAIN Datas |-> Datas[i]]
    BY DEF Datas
  <1>2. CASE call[p].fn = "print"
    BY <1>2 DEF List!Effect, List!Result, Datas
  <1>3. CASE call[p].fn # "print"
    <2>1. call[p].fn \in {"set_status", "set_status_no_mutex", "remove", "remove_no_mutex",
                          "get", "get_by_fd", "get_no_mutex"}
      BY <1>3 DEF PlaceIn
    <2>2. List!First(call[p]) = {}
      BY <2>1, NoFirst
    <2>3. List!Result(call[p]) = NULL
      BY <2>2 DEF List!Result
    <2>4. CASE call[p].fn \in {"set_status", "set_status_no_mutex"}
      <3>1. List!Effect(call[p]) =
              [i \in DOMAIN Datas |-> IF i \in List!First(call[p])
                                      THEN [Datas[i] EXCEPT !.completion = TRUE]
                                      ELSE Datas[i]]
        BY <2>4 DEF List!Effect, Datas
      <3>2. QED
        BY <1>1, <2>2, <2>3, <3>1
    <2>5. CASE call[p].fn \in {"remove", "remove_no_mutex"}
      BY <2>2, <2>3, <2>5 DEF List!Effect, Datas
    <2>6. CASE call[p].fn \in {"get", "get_by_fd", "get_no_mutex"}
      BY <2>3, <2>6 DEF List!Effect, Datas
    <2>7. QED
      BY <2>1, <2>4, <2>5, <2>6
  <1>4. QED
    BY <1>2, <1>3

LEMMA WalkRefines ==
  ASSUME Types, Control, NEW n \in Nat, NEW s \in [1 .. n -> Nodes], Shape(n, s),
         Shown, Shown', NEW p \in Procs, Walk(p), UNCHANGED copy
  PROVE  List!Take(p) \/ UNCHANGED List!vars
  <1> DEFINE at == reg[p].temp
  <1>1. /\ pc[p] = "walk" /\ UNCHANGED <<exists, head, node, call>>
        /\ \/ /\ at = NULL
              /\ Goto(p, Finish(call[p].fn, mutex = p))
              /\ UNCHANGED reg
           \/ /\ at # NULL
              /\ Goto(p, AfterMatch[call[p].fn])
              /\ UNCHANGED reg
              /\ Matches(p, node[at].data)
           \/ /\ at # NULL
              /\ reg' = [reg EXCEPT ![p].prev = at, ![p].temp = node[at].next]
              /\ UNCHANGED pc
    BY DEF Walk, Step, heap
  <1>2. Shape(n, s)'
    BY WalkInv
  <1>3. PlaceIn(call[p].fn, "walk") /\ (call[p].fn \in Gets => reg[p].new = NULL)
    BY <1>1 DEF Control, Controlled, NewIn
  <1>4. UNCHANGED <<exists, head, call>>
        /\ \A b \in Nodes : node[b] # Free /\ b # Owned(p) => node'[b] = node[b]
    BY <1>1
  <1>5. CASE at = NULL /\ Goto(p, Finish(call[p].fn, mutex = p)) /\ UNCHANGED reg
    <2>1. Finish(call[p].fn, mutex = p) \in {"unlock", "return"}
      BY FinishIs
    <2>2. pc'[p] \in {"unlock", "return"} /\ \A q \in Procs \ {p} : pc'[q] = pc[q]
      BY <1>5, <2>1, GotoOthers
    <2>3. {pc[p], pc'[p]} \cap {"link", "release"} = {}
      BY <1>1, <2>2
    <2>4. \A q \in Procs \ {p} : pc'[q] = pc[q] /\ reg'[q] = reg[q]
      BY <1>5, <2>2
    <2>5. Datas' = Datas /\ \A q \in Procs \ {p} : answer'[q] = answer[q]
      BY <1>2, <1>4, <2>3, <2>4, QuietStep
    <2>6. answer'[p] = NULL
      BY <1>1, <1>3, <1>5, <2>2 DEF answer
    <2>7. Passed(p, s, n + 1)
      <3>1. \/ \E i \in 1 .. n : Cursor(p, s, i)
            \/ Passed(p, s, n + 1)
        BY <1>1 DEF Shape, Placed
      <3>2. \A i \in 1 .. n : s[i] # at
        BY <1>5, NullIsNoNode
      <3>3. QED
        BY <3>1, <3>2 DEF Cursor
    <2>8. Datas = Values(n, s)
      BY <1>1, PlainView
    <2>9. List!Effect(call[p]) = Datas /\ List!Result(call[p]) = NULL
      BY <1>3, <2>7, <2>8, NothingFound
    <2>10. QED
      BY <1>1, <2>5, <2>6, <2>9, Takes
  <1>6. CASE /\ at # NULL /\ Matches(p, node[at].data)
             /\ Goto(p, AfterMatch[call[p].fn]) /\ UNCHANGED reg
    <2>1. pc'[p] = AfterMatch[call[p].fn] /\ \A q \in Procs \ {p} : pc'[q] = pc[q]
      BY <1>6, GotoOthers
    <2>2. call[p].fn # "print"
      BY <1>6 DEF Matches
    <2>3. pc'[p] \in {"lock", "unlink", "mark", "malloc"}
      BY <1>3, <2>1, <2>2 DEF AfterMatch, PlaceIn
    <2>4. answer'[p] = answer[p]
      BY <1>1, <2>3 DEF answer
    <2>5. {pc[p], pc'[p]} \cap {"link", "release"} = {}
      BY <1>1, <2>3
    <2>6. \A q \in Procs \ {p} : pc'[q] = pc[q] /\ reg'[q] = reg[q]
      BY <1>6, <2>1
    <2>7. QED
      BY <1>2, <1>4, <2>4, <2>5, <2>6, QuietStutters
  <1>7. CASE /\ reg' = [reg EXCEPT ![p].prev = at, ![p].temp = node[at].next]
             /\ UNCHANGED pc
    <2>1. \A q \in Procs \ {p} : pc'[q] = pc[q] /\ reg'[q] = reg[q]
      BY <1>7 DEF Types, ThreadTypes
    <2>2. answer'[p] = answer[p] /\ {pc[p], pc'[p]} \cap {"link", "release"} = {}
      BY <1>1, <1>7 DEF answer
    <2>3. QED
      BY <1>2, <1>4, <2>1, <2>2, QuietStutters
  <1>8. QED
    BY <1>1, <1>5, <1>6, <1>7

(* free_list takes effect as soon as it starts.                            *)
LEMMA StartRefines ==
  ASSUME Types, Control, NEW n \in Nat, NEW s \in [1 .. n -> Nodes], Shape(n, s),
         Shown, Shown', NEW p \in Procs, Start(p), UNCHANGED copy
  PROVE  List!Take(p) \/ UNCHANGED List!vars
  <1> DEFINE there == IF call[p].fn = "free_list" THEN "release" ELSE "walk"
  <1>1. /\ pc[p] = "start" /\ UNCHANGED <<exists, head, node, call>>
        /\ reg' = [reg EXCEPT ![p].temp = head, ![p].prev = head]
        /\ Goto(p, there)
    BY DEF Start, Step, heap
  <1>2. Shape(n, s)'
    BY StartInv
  <1>3. pc'[p] = there /\ \A q \in Procs \ {p} : pc'[q] = pc[q] /\ reg'[q] = reg[q]
    BY <1>1, GotoOthers DEF Types, ThreadTypes
  <1>4. CASE call[p].fn # "free_list"
    <2>1. pc'[p] = "walk"
      BY <1>3, <1>4
    <2>2. answer'[p] = answer[p] /\ {pc[p], pc'[p]} \cap {"link", "release"} = {}
      BY <1>1, <2>1 DEF answer
    <2>3. UNCHANGED <<exists, head, call>>
          /\ \A b \in Nodes : node[b] # Free /\ b # Owned(p) => node'[b] = node[b]
      BY <1>1
    <2>4. \A q \in Procs \ {p} : pc'[q] = pc[q] /\ reg'[q] = reg[q]
      BY <1>3
    <2>5. QED
      BY <1>2, <2>2, <2>3, <2>4, QuietStutters
  <1>5. CASE call[p].fn = "free_list"
    <2>1. pc'[p] = "release"
      BY <1>3, <1>5
    <2>2. Datas' = << >>
      <3>1. Releasing' # {}
        BY <2>1 DEF Releasing
      <3>2. View(n, s)' = << >>
        BY <3>1 DEF View
      <3>3. Datas' = View(n, s)'
        BY <1>2 DEF Shown
      <3>4. QED
        BY <3>2, <3>3
    <2>3. answer'[p] = NULL
      BY <1>1, <1>5, <2>1 DEF answer, Gets
    <2>4. ASSUME NEW q \in Procs \ {p} PROVE answer'[q] = answer[q]
      BY <1>1, <1>3, OtherAnswers
    <2>5. List!Effect(call[p]) = << >> /\ List!Result(call[p]) = NULL
      BY <1>5 DEF List!Effect, List!Result
    <2>6. QED
      BY <1>1, <2>2, <2>3, <2>4, <2>5, Takes
  <1>6. QED
    BY <1>4, <1>5

-----------------------------------------------------------------------------
(* The data shown after a step to the end of a function.                   *)
LEMMA ViewAfter ==
  ASSUME Types, Control, Shown', NEW p \in Procs, Using(p), exists',
         pc'[p] \notin {"link", "release"}, \A q \in Procs \ {p} : pc'[q] = pc[q],
         NEW m \in Nat, NEW t \in [1 .. m -> Nodes], Shape(m, t)'
  PROVE  Datas' = Values(m, t)'
  <1>1. \A q \in Procs : pc'[q] # "link" /\ pc'[q] # "release"
    BY OthersWait
  <1>2. ~InsertLinks' /\ Releasing' = {}
    BY <1>1 DEF InsertLinks, Releasing
  <1>3. Datas' = View(m, t)'
    BY DEF Shown
  <1>4. QED
    BY <1>2, <1>3 DEF View

(* insert takes effect when its node is published.                         *)
LEMMA PublishTakes ==
  ASSUME Types, Control, NEW n \in Nat, NEW s \in [1 .. n -> Nodes], Shape(n, s),
         Shown, Shown', NEW p \in Procs, Publish(p), UNCHANGED copy
  PROVE  List!Take(p)
  <1>1. /\ pc[p] = "publish" /\ Goto(p, "link") /\ UNCHANGED <<exists, node, call>>
        /\ head' = reg[p].new /\ reg' = [reg EXCEPT ![p].new = NULL]
    BY DEF Publish, Step
  <1>2. Shape(n, s)'
    BY PublishInv
  <1>3. pc'[p] = "link" /\ \A q \in Procs \ {p} : pc'[q] = pc[q] /\ reg'[q] = reg[q]
    BY <1>1, GotoOthers DEF Types, ThreadTypes
  <1>4. exists /\ call[p].fn \in Inserts
    BY <1>1 DEF Control, Controlled, PlaceIn, Inserts
  <1>5. node[reg[p].new].data = call[p].data
    BY <1>1, <1>4 DEF Shape, Placed
  <1>6. Datas = Values(n, s)
    BY <1>1, PlainView
  <1>7. Datas' = <<call[p].data>> \o Values(n, s)
    <2>1. Using(p)
      BY <1>1, UsingPlaces
    <2>2. Releasing' = {} /\ InsertLinks'
      <3>1. \A q \in Procs : pc'[q] # "release"
        BY <1>3, <2>1, OthersWait
      <3>2. QED
        BY <1>3, <3>1 DEF Releasing, InsertLinks
    <2>3. Datas' = View(n, s)'
      BY <1>2 DEF Shown
    <2>4. View(n, s)' = <<node'[head'].data>> \o Values(n, s)'
      BY <1>1, <1>4, <2>2 DEF View
    <2>5. Values(n, s)' = Values(n, s)
      BY <1>1 DEF Values
    <2>6. node'[head'].data = call[p].data
      BY <1>1, <1>5
    <2>7. QED
      BY <2>3, <2>4, <2>5, <2>6
  <1>8. List!Effect(call[p]) = <<call[p].data>> \o Datas /\ List!Result(call[p]) = NULL
    BY <1>4 DEF List!Effect, List!Result, Datas, Inserts
  <1>9. answer'[p] = NULL
    BY <1>1, <1>3, <1>4 DEF answer, Inserts, Gets
  <1>10. \A q \in Procs \ {p} : answer'[q] = answer[q]
    BY <1>1, <1>3, OtherAnswers
  <1>11. QED
    BY <1>1, <1>6, <1>7, <1>8, <1>9, <1>10, Takes

(* set_status takes effect when the status of the node is set.             *)
LEMMA MarkTakes ==
  ASSUME Types, Control, NEW n \in Nat, NEW s \in [1 .. n -> Nodes], Shape(n, s),
         Shown, Shown', NEW p \in Procs, Mark(p), UNCHANGED copy
  PROVE  List!Take(p)
  <1> DEFINE at == reg[p].temp
             d == [node[at].data EXCEPT !.completion = TRUE]
  <1>1. /\ pc[p] = "mark" /\ Goto(p, Finish(call[p].fn, TRUE))
        /\ UNCHANGED <<exists, head, call, reg>>
        /\ node' = [node EXCEPT ![at].data.completion = TRUE]
    BY DEF Mark, Step
  <1>2. Finds(p, n, s) /\ Chained(n, s)
    BY <1>1 DEF Shape, Placed, HasFound
  <1>3. PICK k \in 1 .. n :
          /\ Cursor(p, s, k) /\ Matches(p, node[s[k]].data)
          /\ at = s[k] /\ at \in Nodes /\ node[at] \in Contents
    BY <1>2, FoundNodes
  <1>4. node' = [node EXCEPT ![at] = [node[at] EXCEPT !.data = d]]
    BY <1>1
  <1>5. exists /\ call[p].fn \in {"set_status", "set_status_no_mutex"}
    BY <1>1 DEF Control, Controlled, PlaceIn
  <1>6. Datas = Values(n, s)
    BY <1>1, PlainView
  <1>7. Using(p)
    BY <1>1, UsingPlaces
  <1>8. pc'[p] \in {"unlock", "return"} /\ \A q \in Procs \ {p} : pc'[q] = pc[q]
    <2>1. Finish(call[p].fn, TRUE) \in {"unlock", "return"}
      BY FinishIs
    <2>2. QED
      BY <1>1, <2>1, GotoOthers
  <1>9. Datas' = Values(n, s)'
    <2>1. Shape(n, s)' /\ exists'
      BY <1>1, <1>5, MarkInv
    <2>2. QED
      BY <1>7, <1>8, <2>1, ViewAfter
  <1>10. List!First(call[p]) = {k}
    BY <1>3, <1>5, <1>6, FoundFirst
  <1>11. List!Effect(call[p]) =
           [i \in DOMAIN Datas |-> IF i \in List!First(call[p])
                                   THEN [Datas[i] EXCEPT !.completion = TRUE]
                                   ELSE Datas[i]]
    BY <1>5 DEF List!Effect, Datas
  <1> HIDE DEF at
  <1>12. ASSUME NEW i \in 1 .. n
         PROVE  node'[s[i]].data = IF i \in List!First(call[p])
                                   THEN [Datas[i] EXCEPT !.completion = TRUE] ELSE Datas[i]
    <2>1. Datas[i] = node[s[i]].data /\ s[i] \in Nodes
      BY <1>6 DEF Values
    <2>2. CASE i = k
      <3>1. node'[s[i]].data = d
        <4> HIDE DEF d
        <4>1. node'[at] = [node[at] EXCEPT !.data = d]
          BY <1>3, <1>4 DEF Types, HeapTypes
        <4>2. node'[at].data = d
          BY <1>3, <4>1 DEF Contents
        <4>3. QED
          BY <1>3, <2>2, <4>2
      <3>2. QED
        BY <1>3, <1>10, <2>1, <2>2, <3>1
    <2>3. CASE i # k
      <3>1. s[i] # at
        BY <1>2, <1>3, <2>3 DEF Chained
      <3>2. node'[s[i]] = node[s[i]]
        BY <1>4, <2>1, <3>1 DEF Types, HeapTypes
      <3>3. QED
        BY <1>10, <2>1, <2>3, <3>2
    <2>4. QED
      BY <2>2, <2>3
  <1>13. Datas' = List!Effect(call[p])
    <2>1. Datas' = [i \in 1 .. n |-> node'[s[i]].data]
      BY <1>9 DEF Values
    <2>2. DOMAIN Datas = 1 .. n
      BY <1>6 DEF Values
    <2>3. QED
      BY <1>11, <1>12, <2>1, <2>2
  <1>14. List!Result(call[p]) = NULL /\ answer'[p] = NULL
    BY <1>1, <1>5, <1>8 DEF List!Result, answer, Gets
  <1>15. \A q \in Procs \ {p} : answer'[q] = answer[q]
    <2>1. \A q \in Procs \ {p} : Owned(q) # at
      BY <1>3, OwnedNodes
    <2>2. \A b \in Nodes \ {at} : node'[b] = node[b]
      BY <1>4 DEF Types, HeapTypes
    <2>3. ASSUME NEW q \in Procs \ {p} PROVE answer'[q] = answer[q]
      BY <1>1, <1>8, <2>1, <2>2, OtherAnswers
    <2>4. QED
      BY <2>3
  <1>16. QED
    BY <1>1, <1>13, <1>14, <1>15, Takes

(* get takes effect when the data of the node is copied.                   *)
LEMMA FetchTakes ==
  ASSUME Types, Control, NEW n \in Nat, NEW s \in [1 .. n -> Nodes], Shape(n, s),
         Shown, Shown', NEW p \in Procs, Fetch(p), UNCHANGED copy
  PROVE  List!Take(p)
  <1> DEFINE new == reg[p].new
             d == node[reg[p].temp].data
  <1>1. /\ pc[p] = "fetch" /\ Goto(p, Finish(call[p].fn, TRUE))
        /\ UNCHANGED <<exists, head, call, reg>>
        /\ node' = [node EXCEPT ![new].data = d]
    BY DEF Fetch, Step
  <1>2. Finds(p, n, s) /\ Chained(n, s)
    BY <1>1 DEF Shape, Placed, HasFound
  <1>3. PICK k \in 1 .. n :
          Cursor(p, s, k) /\ Matches(p, node[s[k]].data) /\ reg[p].temp = s[k]
    BY <1>2, FoundNodes
  <1>4. call[p].fn \in Gets /\ new # NULL
    BY <1>1 DEF Control, Controlled, PlaceIn, NewIn, Gets
  <1>5. new = Owned(p)
    BY <1>1 DEF Owned
  <1>6. new \in Nodes /\ node[new] # Free
    BY <1>4, <1>5, OwnedNodes
  <1>7. node[new] \in Contents
    BY <1>6, ContentsAre
  <1>8. node' = [node EXCEPT ![new] = [node[new] EXCEPT !.data = d]]
    BY <1>1
  <1> HIDE DEF d, new
  <1>9. node'[new].data = d /\ \A b \in Nodes \ {new} : node'[b] = node[b]
    <2>1. node'[new] = [node[new] EXCEPT !.data = d]
      BY <1>6, <1>8 DEF Types, HeapTypes
    <2>2. node'[new].data = d
      BY <1>7, <2>1 DEF Contents
    <2>3. QED
      BY <1>8, <2>2 DEF Types, HeapTypes
  <1>10. pc'[p] \in {"unlock", "return"} /\ \A q \in Procs \ {p} : pc'[q] = pc[q]
    <2>1. Finish(call[p].fn, TRUE) \in {"unlock", "return"}
      BY FinishIs
    <2>2. QED
      BY <1>1, <2>1, GotoOthers
  <1>11. Datas' = Datas /\ \A q \in Procs \ {p} : answer'[q] = answer[q]
    <2>1. {pc[p], pc'[p]} \cap {"link", "release"} = {}
      BY <1>1, <1>10
    <2>2. /\ \A q \in Procs \ {p} : pc'[q] = pc[q] /\ reg'[q] = reg[q]
          /\ UNCHANGED <<exists, head, call>>
      BY <1>1, <1>10
    <2>3. \A b \in Nodes : node[b] # Free /\ b # Owned(p) => node'[b] = node[b]
      BY <1>5, <1>9
    <2>4. Shape(n, s)'
      BY FetchInv
    <2>5. QED
      BY <2>1, <2>2, <2>3, <2>4, QuietStep
  <1>12. answer'[p] = d
    BY <1>1, <1>4, <1>9, <1>10 DEF answer, new
  <1>13. Datas = Values(n, s)
    BY <1>1, PlainView
  <1>14. List!First(call[p]) = {k} /\ (CHOOSE i \in List!First(call[p]) : TRUE) = k
    BY <1>3, <1>4, <1>13, FoundFirst DEF Gets
  <1>15. Datas[k] = d
    BY <1>3, <1>13 DEF Values, d
  <1>16. List!Effect(call[p]) = Datas
    BY <1>4 DEF List!Effect, Datas, Gets
  <1>17. List!Result(call[p]) = d
    <2>1. List!Result(call[p]) = Datas[CHOOSE i \in List!First(call[p]) : TRUE]
      BY <1>4, <1>14 DEF List!Result, Datas, Gets
    <2>2. QED
      BY <1>14, <1>15, <2>1
  <1>18. QED
    BY <1>1, <1>11, <1>12, <1>16, <1>17, Takes

-----------------------------------------------------------------------------
(* A call and its return.                                                  *)
LEMMA CallInvokes ==
  ASSUME Types, Control, NEW n \in Nat, NEW s \in [1 .. n -> Nodes], Shape(n, s),
         Shown, Shown', NEW p \in Procs, Call(p)
  PROVE  List!Invoke(p)
  <1>1. PICK fn \in Functions, data \in Data : Enter(p, fn, data)
    BY DEF Call
  <1>2. /\ pc[p] = "idle" /\ UNCHANGED <<exists, head, node, reg>>
        /\ call' = [call EXCEPT ![p] = [fn |-> fn, data |-> data]]
        /\ Goto(p, Entry[fn])
    BY <1>1 DEF Enter, Step, heap
  <1>3. Shape(n, s)'
    BY CallInv
  <1>4. pc'[p] = Entry[fn] /\ \A q \in Procs \ {p} : pc'[q] = pc[q] /\ call'[q] = call[q]
    BY <1>2, GotoOthers DEF Types, ThreadTypes
  <1>5. pc'[p] \in {"malloc", "lock", "start"}
    BY <1>4 DEF Entry, Functions
  <1>6. Datas' = Datas
    <2>1. \A q \in Procs : pc'[q] = pc[q] \/ {pc[q], pc'[q]} \cap {"link", "release"} = {}
      BY <1>2, <1>4, <1>5
    <2>2. \A i \in 1 .. n : node'[s[i]].data = node[s[i]].data
      BY <1>2
    <2>3. exists' = exists /\ head' = head /\ (InsertLinks => node'[head].data = node[head].data)
      BY <1>2
    <2>4. QED
      BY <1>3, <2>1, <2>2, <2>3, SameView
  <1>7. answer' = answer
    <2>1. answer'[p] = answer[p]
      BY <1>2, <1>5 DEF answer
    <2>2. ASSUME NEW q \in Procs \ {p} PROVE answer'[q] = answer[q]
      BY <1>2, <1>4, OtherAnswers
    <2>3. QED
      BY <2>1, <2>2, SameAnswers
  <1>8. call[p] = NoCall
    BY <1>2 DEF Control, Controlled
  <1>9. [fn |-> fn, data |-> data] \in [fn : Functions, data : Data]
    OBVIOUS
  <1>10. QED
    BY <1>2, <1>6, <1>7, <1>8, <1>9 DEF List!Invoke, Datas

LEMMA ReceiveReturns ==
  ASSUME Types, Control, NEW n \in Nat, NEW s \in [1 .. n -> Nodes], Shape(n, s),
         Shown, Shown', NEW p \in Procs, Receive(p)
  PROVE  List!Return(p)
  <1>1. /\ pc[p] = "return" /\ Goto(p, "idle") /\ UNCHANGED <<exists, head, node>>
        /\ call' = [call EXCEPT ![p] = NoCall] /\ reg' = [reg EXCEPT ![p] = NoPointers]
    BY DEF Receive, Return, Step, heap
  <1>2. Shape(n, s)'
    BY ReceiveInv
  <1>3. pc'[p] = "idle" /\ \A q \in Procs \ {p} : pc'[q] = pc[q]
    BY <1>1, GotoOthers
  <1>4. \A q \in Procs \ {p} : call'[q] = call[q] /\ reg'[q] = reg[q]
    BY <1>1 DEF Types, ThreadTypes
  <1>5. Datas' = Datas
    <2>1. \A q \in Procs : pc'[q] = pc[q] \/ {pc[q], pc'[q]} \cap {"link", "release"} = {}
      BY <1>1, <1>3
    <2>2. \A i \in 1 .. n : node'[s[i]].data = node[s[i]].data
      BY <1>1
    <2>3. exists' = exists /\ head' = head /\ (InsertLinks => node'[head].data = node[head].data)
      BY <1>1
    <2>4. QED
      BY <1>2, <2>1, <2>2, <2>3, SameView
  <1>6. answer[p] # Garbage
    <2>1. CASE call[p].fn \in Gets /\ reg[p].new # NULL
      <3>1. answer[p] = node[reg[p].new].data
        BY <1>1, <2>1 DEF answer
      <3>2. Owned(p) = reg[p].new
        BY <1>1 DEF Owned
      <3>3. reg[p].new \in Nodes /\ node[reg[p].new] # Free
        BY <2>1, <3>2, OwnedNodes
      <3>4. node[reg[p].new] \in Contents
        BY <3>3, ContentsAre
      <3>5. node[reg[p].new].data \in Given \cup {NULL}
        BY <3>4 DEF Contents
      <3>6. QED
        BY <3>1, <3>5, ThreadListSpecAssumption, ThreadListAssumption
    <2>2. CASE ~(call[p].fn \in Gets /\ reg[p].new # NULL)
      <3>1. answer[p] = NULL
        BY <1>1, <2>2 DEF answer
      <3>2. QED
        BY <3>1, ThreadListAssumption
    <2>3. QED
      BY <2>1, <2>2
  <1>7. answer' = [answer EXCEPT ![p] = Garbage]
    <2>1. answer = [q \in Procs |-> answer[q]] /\ answer' = [q \in Procs |-> answer'[q]]
      BY DEF answer
    <2>2. answer'[p] = Garbage
      BY <1>3 DEF answer
    <2>3. ASSUME NEW q \in Procs \ {p} PROVE answer'[q] = answer[q]
      BY <1>1, <1>3, <1>4, OtherAnswers
    <2> DEFINE e == [answer EXCEPT ![p] = Garbage]
    <2>4. e = [q \in Procs |-> IF q = p THEN Garbage ELSE answer[q]]
      BY <2>1
    <2>5. \A q \in Procs : answer'[q] = e[q]
      BY <2>2, <2>3, <2>4
    <2>6. QED
      BY <2>1, <2>4, <2>5
  <1>8. QED
    BY <1>1, <1>5, <1>6, <1>7 DEF List!Return, Datas

(* A new list is empty, as no list is.                                     *)
LEMMA InitListStutters ==
  ASSUME Types, Control, NEW n \in Nat, NEW s \in [1 .. n -> Nodes], Shape(n, s),
         Shown, Shown', init_linked_list
  PROVE  UNCHANGED List!vars
  <1>1. /\ ~exists /\ (\A p \in Procs : pc[p] = "idle") /\ UNCHANGED <<node, pc, call, reg>>
    BY DEF init_linked_list
  <1>2. n = 0
    BY <1>1 DEF Shape, Headed
  <1>3. Datas = << >>
    <2>1. Datas = View(n, s)
      BY DEF Shown
    <2>2. QED
      BY <1>1, <2>1 DEF View
  <1>4. Datas' = << >>
    <2>1. Shape(n, s)'
      BY InitListInv
    <2>2. Datas' = View(n, s)'
      BY <2>1 DEF Shown
    <2>3. ~InsertLinks'
      BY <1>1 DEF InsertLinks
    <2>4. Values(n, s)' = << >>
      BY <1>2 DEF Values
    <2>5. QED
      BY <2>2, <2>3, <2>4 DEF View
  <1>5. answer' = answer
    BY <1>1 DEF answer
  <1>6. QED
    BY <1>1, <1>3, <1>4, <1>5, Stutters

(* A list that is being freed is gone.                                     *)
LEMMA ReleaseStutters ==
  ASSUME Types, Control, NEW n \in Nat, NEW s \in [1 .. n -> Nodes], Shape(n, s),
         Shown, Shown', NEW p \in Procs, Release(p), UNCHANGED copy
  PROVE  UNCHANGED List!vars
  <1>1. /\ pc[p] = "release" /\ UNCHANGED <<head, call>>
        /\ \/ /\ reg[p].temp # NULL
              /\ reg' = [reg EXCEPT ![p].temp = node[reg[p].temp].next]
              /\ node' = [node EXCEPT ![reg[p].temp] = Free]
              /\ UNCHANGED <<exists, pc>>
           \/ /\ reg[p].temp = NULL
              /\ exists' = FALSE
              /\ Goto(p, "return")
              /\ UNCHANGED <<reg, node>>
    BY DEF Release, Step
  <1>2. Datas = << >>
    <2>1. Datas = View(n, s) /\ Releasing # {}
      BY <1>1 DEF Shown, Releasing
    <2>2. QED
      BY <2>1 DEF View
  <1>3. Datas' = << >>
    <2>0. PICK m \in Nat : \E t \in [1 .. m -> Nodes] : Shape(m, t)'
      BY ReleaseInv
    <2>1. PICK t \in [1 .. m -> Nodes] : Shape(m, t)'
      BY <2>0
    <2>2. Datas' = View(m, t)'
      BY <2>1 DEF Shown
    <2>3. ~exists' \/ Releasing' # {}
      BY <1>1 DEF Releasing
    <2>4. QED
      BY <2>2, <2>3 DEF View
  <1>4. call[p].fn = "free_list"
    BY <1>1 DEF Control, Controlled, PlaceIn
  <1>5. /\ pc'[p] \in {"release", "return"}
        /\ \A q \in Procs \ {p} : pc'[q] = pc[q] /\ reg'[q] = reg[q]
    <2>1. CASE UNCHANGED <<exists, pc>> /\ reg' = [reg EXCEPT ![p].temp = node[reg[p].temp].next]
      BY <1>1, <2>1 DEF Types, ThreadTypes
    <2>2. CASE Goto(p, "return") /\ UNCHANGED reg
      BY <2>2, GotoOthers
    <2>3. QED
      BY <1>1, <2>1, <2>2
  <1>6. answer' = answer
    <2>1. answer'[p] = answer[p]
      BY <1>1, <1>4, <1>5 DEF answer, Gets
    <2>2. ASSUME NEW q \in Procs \ {p} PROVE answer'[q] = answer[q]
      <3>1. pc[q] = "idle"
        BY <1>1, <1>4 DEF Control, Contract, Guarded
      <3>2. QED
        BY <1>5, <3>1 DEF answer
    <2>3. QED
      BY <2>1, <2>2, SameAnswers
  <1>7. QED
    BY <1>1, <1>2, <1>3, <1>6, Stutters

(* The node that was published keeps its place when it is linked.          *)
LEMMA LinkStutters ==
  ASSUME Types, Control, NEW n \in Nat, NEW s \in [1 .. n -> Nodes], Shape(n, s),
         Shown, Shown', NEW p \in Procs, Link(p), UNCHANGED copy
  PROVE  UNCHANGED List!vars
  <1>1. /\ pc[p] = "link" /\ Goto(p, Finish(call[p].fn, TRUE))
        /\ UNCHANGED <<exists, head, call, reg>>
        /\ node' = [node EXCEPT ![head].next = reg[p].old]
    BY DEF Link, Step
  <1>2. PICK a \in Nodes : a = head /\ node[a] \in Contents /\ Owned(p) = a
    <2>1. head = Owned(p) /\ Owned(p) # NULL
      BY <1>1, OwnedNodes
    <2>2. head \in Nodes /\ node[head] # Free
      BY <2>1, OwnedNodes
    <2>3. QED
      BY <2>1, <2>2, ContentsAre
  <1>3. /\ node'[a].data = node[a].data
        /\ \A b \in Nodes \ {a} : node'[b] = node[b]
    <2>1. node' = [node EXCEPT ![a] = [node[a] EXCEPT !.next = reg[p].old]]
      BY <1>1, <1>2
    <2>2. node'[a] = [node[a] EXCEPT !.next = reg[p].old]
      BY <2>1 DEF Types, HeapTypes
    <2>3. node'[a].data = node[a].data
      BY <1>2, <2>2 DEF Contents
    <2>4. QED
      BY <2>1, <2>3 DEF Types, HeapTypes
  <1>4. pc'[p] \in {"unlock", "return"} /\ \A q \in Procs \ {p} : pc'[q] = pc[q]
    <2>1. Finish(call[p].fn, TRUE) \in {"unlock", "return"}
      BY FinishIs
    <2>2. QED
      BY <1>1, <2>1, GotoOthers
  <1>5. Using(p)
    BY <1>1, UsingPlaces
  <1>6. exists /\ call[p].fn \in Inserts
    BY <1>1 DEF Control, Controlled, PlaceIn, Inserts
  <1>7. PICK t \in [1 .. n + 1 -> Nodes] : Shape(n + 1, t)' /\ t = Longer(n, s, head)
    BY LinkInv
  <1> DEFINE d == [i \in 1 .. n + 1 |-> IF i = 1 THEN node[a].data ELSE Values(n, s)[i - 1]]
  <1>8. Datas = d
    <2>1. Datas = View(n, s)
      BY DEF Shown
    <2>2. Releasing = {} /\ InsertLinks
      <3>1. \A q \in Procs : pc[q] # "release"
        BY <1>1, <1>5, OthersWait
      <3>2. QED
        BY <1>1, <3>1 DEF Releasing, InsertLinks
    <2>3. View(n, s) = <<node[a].data>> \o Values(n, s)
      BY <1>2, <1>6, <2>2 DEF View
    <2>4. Values(n, s) = [i \in 1 .. n |-> Values(n, s)[i]]
      BY DEF Values
    <2>5. QED
      BY <2>1, <2>3, <2>4, PrefixedIs
  <1>9. Datas' = [i \in 1 .. n + 1 |-> node'[t[i]].data]
    <2>1. n + 1 \in Nat /\ exists'
      BY <1>1, <1>6
    <2>2. Datas' = Values(n + 1, t)'
      BY <1>4, <1>5, <1>7, <2>1, ViewAfter
    <2>3. QED
      BY <2>2 DEF Values
  <1>10. ASSUME NEW i \in 1 .. n + 1 PROVE node'[t[i]].data = d[i]
    <2>1. t[i] = IF i = 1 THEN a ELSE s[i - 1]
      BY <1>2, <1>7 DEF Longer
    <2>2. CASE i = 1
      BY <1>3, <2>1, <2>2
    <2>3. CASE i # 1
      <3>1. i - 1 \in 1 .. n
        BY <2>3
      <3>2. s[i - 1] \in Nodes /\ s[i - 1] # a
        BY <1>2, <3>1, OwnedNodes
      <3>3. d[i] = node[s[i - 1]].data
        BY <2>3, <3>1 DEF Values
      <3>4. QED
        BY <1>3, <2>1, <2>3, <3>2, <3>3
    <2>4. QED
      BY <2>2, <2>3
  <1>11. Datas' = Datas
    BY <1>8, <1>9, <1>10
  <1>12. answer' = answer
    <2>1. answer'[p] = answer[p]
      BY <1>1, <1>4, <1>6 DEF answer, Inserts, Gets
    <2>2. ASSUME NEW q \in Procs \ {p} PROVE answer'[q] = answer[q]
      <3>1. Owned(q) # a
        BY <1>2, NullIsNoNode DEF Shape, Accounted
      <3>2. Owned(q) \in Nodes => node'[Owned(q)] = node[Owned(q)]
        BY <1>3, <3>1
      <3>3. QED
        BY <1>1, <1>4, <3>2, OtherAnswers
    <2>3. QED
      BY <2>1, <2>2, SameAnswers
  <1>13. QED
    BY <1>1, <1>11, <1>12, Stutters

-----------------------------------------------------------------------------
(* A sequence without its k-th element.                                    *)
LEMMA PartIs ==
  ASSUME NEW S, NEW v, NEW l \in Int, NEW m \in Int, l - 1 <= m, \A i \in l .. m : v[i] \in S
  PROVE  /\ SubSeq(v, l, m) \in Seq(S) /\ Len(SubSeq(v, l, m)) = m - (l - 1)
         /\ \A j \in 1 .. m - (l - 1) : SubSeq(v, l, m)[j] = v[(l - 1) + j]
  <1>1. /\ SubSeq(v, l, m) \in Seq(S)
        /\ Len(SubSeq(v, l, m)) = IF l <= m THEN m - l + 1 ELSE 0
        /\ \A j \in 1 .. m - l + 1 : SubSeq(v, l, m)[j] = v[l + j - 1]
    BY SubSeqProperties
  <1>2. QED
    BY <1>1

LEMMA RemovedIs ==
  ASSUME NEW S, NEW n \in Nat, NEW v \in [1 .. n -> S], NEW k \in 1 .. n
  PROVE  SubSeq(v, 1, k - 1) \o SubSeq(v, k + 1, Len(v)) =
           [j \in 1 .. n - 1 |-> IF j < k THEN v[j] ELSE v[j + 1]]
  <1> DEFINE a == SubSeq(v, 1, k - 1)
             b == SubSeq(v, k + 1, n)
             u == a \o b
             w == [j \in 1 .. n - 1 |-> IF j < k THEN v[j] ELSE v[j + 1]]
  <1>1. \A i \in 1 .. n : v[i] \in S
    OBVIOUS
  <1>2. Len(v) = n
    <2>1. v \in Seq(S)
      OBVIOUS
    <2>2. QED
      BY <2>1, LenProperties
  <1>3. a \in Seq(S) /\ Len(a) = k - 1 /\ \A j \in 1 .. k - 1 : a[j] = v[j]
    <2>1. PICK l \in Int, m \in Int : l = 1 /\ m = k - 1
      OBVIOUS
    <2>2. l - 1 <= m /\ \A i \in l .. m : v[i] \in S
      BY <1>1, <2>1
    <2>3. a = SubSeq(v, l, m)
      BY <2>1
    <2> HIDE DEF a
    <2>4. /\ a \in Seq(S) /\ Len(a) = m - (l - 1)
          /\ \A j \in 1 .. m - (l - 1) : a[j] = v[(l - 1) + j]
      BY <2>2, <2>3, PartIs
    <2>5. QED
      BY <2>1, <2>4
  <1>4. b \in Seq(S) /\ Len(b) = n - k /\ \A j \in 1 .. n - k : b[j] = v[k + j]
    <2>1. PICK l \in Int : l = k + 1
      OBVIOUS
    <2>2. l - 1 <= n /\ (\A i \in l .. n : v[i] \in S) /\ n \in Int
      BY <1>1, <2>1
    <2>3. b = SubSeq(v, l, n)
      BY <2>1
    <2> HIDE DEF b
    <2>4. /\ b \in Seq(S) /\ Len(b) = n - (l - 1)
          /\ \A j \in 1 .. n - (l - 1) : b[j] = v[(l - 1) + j]
      BY <2>2, <2>3, PartIs
    <2>5. QED
      BY <2>1, <2>4
  <1> HIDE DEF a, b
  <1>5. /\ u \in Seq(S) /\ Len(u) = n - 1
        /\ \A j \in 1 .. n - 1 : u[j] = IF j <= k - 1 THEN a[j] ELSE b[j - (k - 1)]
    <2>1. /\ u \in Seq(S) /\ Len(u) = Len(a) + Len(b)
          /\ \A j \in 1 .. Len(a) + Len(b) : u[j] = IF j <= Len(a) THEN a[j] ELSE b[j - Len(a)]
      BY <1>3, <1>4, ConcatProperties
    <2>2. Len(a) + Len(b) = n - 1
      BY <1>3, <1>4
    <2> HIDE DEF u
    <2>3. QED
      BY <1>3, <2>1, <2>2
  <1> HIDE DEF u
  <1>6. DOMAIN u = 1 .. n - 1 /\ u = [j \in DOMAIN u |-> u[j]]
    BY <1>5, LenProperties
  <1>7. ASSUME NEW j \in 1 .. n - 1 PROVE u[j] = IF j < k THEN v[j] ELSE v[j + 1]
    <2>1. u[j] = IF j <= k - 1 THEN a[j] ELSE b[j - (k - 1)]
      BY <1>5
    <2>2. CASE j < k
      <3>1. j <= k - 1 /\ a[j] = v[j]
        <4>1. j <= k - 1 /\ j \in 1 .. k - 1
          BY <2>2
        <4>2. QED
          BY <1>3, <4>1
      <3>2. QED
        BY <2>1, <2>2, <3>1
    <2>3. CASE ~(j < k)
      <3>1. /\ ~(j <= k - 1) /\ j - (k - 1) \in 1 .. n - k
            /\ k + (j - (k - 1)) = j + 1
        BY <2>3
      <3>2. b[j - (k - 1)] = v[j + 1]
        BY <1>4, <3>1
      <3>3. QED
        BY <2>1, <2>3, <3>1, <3>2
    <2>4. QED
      BY <2>2, <2>3
  <1>8. u = w
    BY <1>6, <1>7
  <1>9. QED
    BY <1>2, <1>8 DEF u, a, b

(* remove takes effect when its node is taken out.                         *)
LEMMA UnlinkTakes ==
  ASSUME Types, Control, NEW n \in Nat, NEW s \in [1 .. n -> Nodes], Shape(n, s),
         Shown, Shown', NEW p \in Procs, Unlink(p), UNCHANGED copy
  PROVE  List!Take(p)
  <1> DEFINE at == reg[p].temp
             prev == reg[p].prev
  <1>1. /\ pc[p] = "unlink" /\ Goto(p, Finish(call[p].fn, TRUE))
        /\ UNCHANGED <<exists, call, reg>>
        /\ \/ node' = [node EXCEPT ![at] = Free]
           \/ node' = [node EXCEPT ![prev].next = node[at].next, ![at] = Free]
    BY DEF Unlink, Step
  <1>2. Finds(p, n, s) /\ Chained(n, s)
    BY <1>1 DEF Shape, Placed, HasFound
  <1>3. n - 1 \in Nat
    BY UnlinkInv
  <1>4. PICK k \in 1 .. n :
          /\ Cursor(p, s, k) /\ Matches(p, node[s[k]].data)
          /\ \E t \in [1 .. n - 1 -> Nodes] : Shape(n - 1, t)' /\ t = Cut(n, s, k)
    BY UnlinkInv
  <1>5. PICK t \in [1 .. n - 1 -> Nodes] : Shape(n - 1, t)' /\ t = Cut(n, s, k)
    BY <1>4
  <1>6. at = s[k] /\ prev = s[IF k = 1 THEN 1 ELSE k - 1]
    BY <1>4 DEF Cursor
  <1>7. exists /\ call[p].fn \in {"remove", "remove_no_mutex"}
    BY <1>1 DEF Control, Controlled, PlaceIn
  <1>8. Datas = Values(n, s)
    BY <1>1, PlainView
  <1>9. Using(p)
    BY <1>1, UsingPlaces
  <1>10. pc'[p] \in {"unlock", "return"} /\ \A q \in Procs \ {p} : pc'[q] = pc[q]
    <2>1. Finish(call[p].fn, TRUE) \in {"unlock", "return"}
      BY FinishIs
    <2>2. QED
      BY <1>1, <2>1, GotoOthers
  <1>11. Datas' = [j \in 1 .. n - 1 |-> node'[t[j]].data]
    <2>1. exists'
      BY <1>1, <1>7
    <2>2. Datas' = Values(n - 1, t)'
      BY <1>3, <1>5, <1>9, <1>10, <2>1, ViewAfter
    <2>3. QED
      BY <2>2 DEF Values
  <1>12. prev \in Nodes /\ node[prev] \in Contents /\ at \in Nodes
    <2>1. (IF k = 1 THEN 1 ELSE k - 1) \in 1 .. n
      OBVIOUS
    <2>2. QED
      BY <1>2, <1>6, <2>1, ChainNodes
  <1> HIDE DEF at, prev
  <1>13. /\ \A b \in Nodes \ {at} : node'[b].data = node[b].data
         /\ \A b \in Nodes \ {at, prev} : node'[b] = node[b]
    <2>1. CASE node' = [node EXCEPT ![at] = Free]
      BY <2>1 DEF Types, HeapTypes
    <2>2. CASE node' = [node EXCEPT ![prev].next = node[at].next, ![at] = Free]
      <3> DEFINE c == [node[prev] EXCEPT !.next = node[at].next]
      <3>1. c.data = node[prev].data
        BY <1>12 DEF Contents
      <3>2. node' = [node EXCEPT ![prev] = c, ![at] = Free]
        BY <2>2
      <3> HIDE DEF c
      <3>3. \A b \in Nodes \ {at} : node'[b] = IF b = prev THEN c ELSE node[b]
        BY <3>2 DEF Types, HeapTypes
      <3>4. QED
        BY <3>1, <3>3
    <2>3. QED
      BY <1>1, <2>1, <2>2 DEF at, prev
  <1>14. ASSUME NEW j \in 1 .. n - 1
         PROVE  node'[t[j]].data = IF j < k THEN Datas[j] ELSE Datas[j + 1]
    <2>1. PICK i \in 1 .. n : i = (IF j < k THEN j ELSE j + 1) /\ i # k
      OBVIOUS
    <2>2. t[j] = s[i]
      BY <1>5, <2>1 DEF Cut
    <2>3. s[i] \in Nodes /\ s[i] # at
      BY <1>2, <1>6, <2>1 DEF Chained
    <2>4. node'[t[j]].data = node[s[i]].data
      BY <1>13, <2>2, <2>3
    <2>5. Datas[i] = node[s[i]].data
      BY <1>8 DEF Values
    <2>6. QED
      BY <2>1, <2>4, <2>5
  <1>15. List!First(call[p]) = {k} /\ (CHOOSE i \in List!First(call[p]) : TRUE) = k
    BY <1>4, <1>7, <1>8, FoundFirst
  <1>16. List!Effect(call[p]) =
           SubSeq(Datas, 1, k - 1) \o SubSeq(Datas, k + 1, Len(Datas))
    <2>1. List!Effect(call[p]) = List!RemoveAt(Datas, CHOOSE i \in List!First(call[p]) : TRUE)
      BY <1>7, <1>15 DEF List!Effect, Datas
    <2>2. List!Effect(call[p]) = List!RemoveAt(Datas, k)
      BY <1>15, <2>1
    <2>3. QED
      BY <2>2 DEF List!RemoveAt
  <1>17. Datas' = List!Effect(call[p])
    <2>1. Datas \in [1 .. n -> Given]
      BY <1>2, <1>8 DEF Values, Chained
    <2>2. List!Effect(call[p]) =
            [j \in 1 .. n - 1 |-> IF j < k THEN Datas[j] ELSE Datas[j + 1]]
      BY <1>16, <2>1, RemovedIs
    <2>3. QED
      BY <1>11, <1>14, <2>2
  <1>18. List!Result(call[p]) = NULL /\ answer'[p] = NULL
    BY <1>1, <1>7, <1>10 DEF List!Result, answer, Gets
  <1>19. \A q \in Procs \ {p} : answer'[q] = answer[q]
    <2>1. \A q \in Procs \ {p} : Owned(q) # at /\ Owned(q) # prev
      <3>1. (IF k = 1 THEN 1 ELSE k - 1) \in 1 .. n
        OBVIOUS
      <3>2. ASSUME NEW q \in Procs PROVE \A i \in 1 .. n : s[i] # Owned(q)
        BY OwnedNodes
      <3>3. QED
        BY <1>6, <3>1, <3>2
    <2>2. ASSUME NEW q \in Procs \ {p} PROVE answer'[q] = answer[q]
      BY <1>1, <1>10, <1>13, <2>1, OtherAnswers
    <2>3. QED
      BY <2>2
  <1>20. QED
    BY <1>1, <1>17, <1>18, <1>19, Takes

-----------------------------------------------------------------------------
(* Every step of the list is a step of the abstract one, or none.          *)
LEMMA StepRefines ==
  ASSUME Inv, Shown, Shown', Next
  PROVE  List!Next \/ UNCHANGED List!vars
  <1>0. PICK n \in Nat : \E s \in [1 .. n -> Nodes] : Shape(n, s)
    BY DEF Inv, Shaped
  <1>1. PICK s \in [1 .. n -> Nodes] : Shape(n, s)
    BY <1>0
  <1>2. Types /\ Control
    BY DEF Inv
  <1>3. CASE init_linked_list
    BY <1>1, <1>2, <1>3, InitListStutters
  <1>4. ASSUME NEW p \in Procs, Call(p) \/ Receive(p) \/ FreeCopy(p)
        PROVE  List!Next \/ UNCHANGED List!vars
    BY <1>1, <1>2, <1>4, CallInvokes, ReceiveReturns, FreeCopyStutters DEF List!Next
  <1>5. ASSUME NEW p \in Procs, Run(p), UNCHANGED copy
        PROVE  List!Next \/ UNCHANGED List!vars
    <2>1. CASE Malloc(p) \/ Lock(p) \/ Unlock(p) \/ Read(p) \/ Link(p) \/ Release(p)
      BY <1>1, <1>2, <1>5, <2>1, MallocStutters, LockStutters, UnlockStutters, ReadStutters,
         LinkStutters, ReleaseStutters
    <2>2. CASE Publish(p) \/ Mark(p) \/ Unlink(p) \/ Fetch(p)
      <3>1. List!Take(p)
        BY <1>1, <1>2, <1>5, <2>2, PublishTakes, MarkTakes, UnlinkTakes, FetchTakes
      <3>2. QED
        BY <3>1 DEF List!Next
    <2>3. CASE Start(p) \/ Walk(p)
      <3>1. List!Take(p) \/ UNCHANGED List!vars
        BY <1>1, <1>2, <1>5, <2>3, StartRefines, WalkRefines
      <3>2. QED
        BY <3>1 DEF List!Next
    <2>4. QED
      BY <1>5, <2>1, <2>2, <2>3 DEF Run
  <1>6. QED
    BY <1>3, <1>4, <1>5 DEF Next

(* Under the contract the functions of linkedlist.c are atomic: whatever   *)
(* the threads' steps, each call takes effect in one of them, on a         *)
(* sequence of data, newest first, and returns what it found there.        *)
THEOREM AtomicListHolds == Spec => AtomicList
  <1>1. Init => List!Init
    <2> SUFFICES ASSUME Init PROVE List!Init
      OBVIOUS
    <2>1. Linked = << >>
      BY DEF Init, Linked
    <2>2. answer = [p \in Procs |-> Garbage]
      BY DEF Init, ListInit, answer
    <2>3. QED
      BY <2>1, <2>2 DEF List!Init, Init, ListInit
  <1>2. Inv /\ Inv' /\ [Next]_vars => [List!Next]_(List!vars)
    <2> SUFFICES ASSUME Inv, Inv', [Next]_vars PROVE List!Next \/ UNCHANGED List!vars
      BY DEF List!vars
    <2>1. Inv => Shown
      BY ShownIs
    <2>2. Shown
      BY <2>1
    <2>3. Inv' => Shown'
      BY ShownIs, PTL
    <2>4. Shown'
      BY <2>3
    <2>5. CASE Next
      BY <2>2, <2>4, <2>5, StepRefines
    <2>6. CASE UNCHANGED vars
      <3>1. UNCHANGED <<exists, node, pc, call, reg, head>>
        BY <2>6 DEF vars, listvars, heap
      <3>2. Linked' = Linked
        BY <3>1 DEF Linked, NodesFrom, Releasing, InsertLinks, Live
      <3>3. Datas' = Datas
        BY <3>1, <3>2 DEF Datas
      <3>4. answer' = answer
        BY <3>1 DEF answer
      <3>5. QED
        BY <3>1, <3>3, <3>4, Stutters
    <2>7. QED
      BY <2>5, <2>6
  <1>3. QED
    BY <1>1, <1>2, InvHolds, PTL DEF Spec, AtomicList, List!Spec
=============================================================================
