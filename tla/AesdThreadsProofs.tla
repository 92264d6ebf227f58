-------------------------- MODULE AesdThreadsProofs --------------------------
(***************************************************************************)
(* Proofs about the server's threads, for every number of connections,     *)
(* nodes and thread ids.                                                   *)
(***************************************************************************)
EXTENDS AesdThreads, FiniteSetTheorems, TLAPS

Pointers == Nodes \cup {NULL, Garbage}
Contents == [next : Pointers, data : Descriptions]

(* The functions of the list that the server calls: none takes the mutex.  *)
Called == {"insert_no_mutex", "set_status_no_mutex", "remove_no_mutex", "free_list"}

(* The types of the list and of the threads inside its functions.          *)
ListTypes ==
  /\ exists \in BOOLEAN
  /\ head \in Pointers
  /\ node \in [Nodes -> Contents \cup {Free}]
  /\ pc \in [Procs -> {"idle", "malloc", "read", "publish", "link", "start", "walk",
                       "mark", "unlink", "release", "return"}]
  /\ call \in [Procs -> [fn : Called \cup {"none"}, data : Descriptions \cup {NULL}]]
  /\ reg \in [Procs -> [new : Pointers, old : Pointers, temp : Pointers, prev : Pointers]]

(* Which function a place belongs to.                                      *)
ListControl ==
  \A p \in Procs :
    /\ pc[p] \in {"malloc", "read", "publish", "link"} =>
         call[p].fn = "insert_no_mutex" /\ call[p].data \in Descriptions
    /\ pc[p] \in {"start", "walk", "mark", "unlink", "release"} =>
         call[p].fn \in Called \ {"insert_no_mutex"}

(* Where threads are outside of the list's functions.                      *)
Stations ==
  {"none", "main", "listen", "make_list", "start_joiner", "accept", "serve", "end",
   "insert", "status", "unlock", "signal_lock", "signal", "ended", "lock", "wait",
   "head", "next", "store", "join", "remove", "free", "free_buffer", "free_list", "exit"}

(* The types of the rest, and who has the list's mutex.                    *)
ThreadTypes == TypeOK /\ at \in [Procs -> Stations]

TypeInv == ListTypes /\ ListControl /\ ThreadTypes

-----------------------------------------------------------------------------
EndedConns == {c \in Conns : at[c] = "ended"}

(* The joiner has been woken, and has not joined anybody yet.              *)
Woken == signalled \/ at[Joiner] \in {"unlock", "head", "next", "store", "join"}

Starting == {"main", "listen", "make_list", "start_joiner"}

(* Each wake-up is good for one thread that has ended: the threads not     *)
(* joined are those whose signal was lost, and one more from a wake-up to  *)
(* its join; unasked wake-ups only make them fewer.  The joiner is started *)
(* once.                                                                   *)
JoinCount ==
  /\ at[Listener] \in Starting => at[Joiner] = "none"
  /\ IsFiniteSet(EndedConns)
  /\ lost \subseteq EndedConns /\ joined \subseteq EndedConns
  /\ signalled => at[Joiner] = "wait"
  /\ Cardinality(EndedConns \ joined) <= Cardinality(lost) + (IF Woken THEN 1 ELSE 0)

-----------------------------------------------------------------------------
(* The list's functions keep the types.                                    *)
LEMMA AllocatedTypes ==
  ASSUME ListTypes, NEW a \in Pointers, a \in Live
  PROVE  /\ a \in Nodes /\ node[a] \in Contents
         /\ node[a].next \in Pointers /\ node[a].data \in Descriptions
  <1>1. a # ll
    BY ThreadListAssumption DEF Pointers
  <1>2. a \in Nodes /\ node[a] # Free
    BY <1>1 DEF Live
  <1>3. node[a] \in Contents
    BY <1>2 DEF ListTypes
  <1>4. QED
    BY <1>2, <1>3 DEF Contents

(* A thread goes to another place of the same function.                    *)
LEMMA GotoTypes ==
  ASSUME ListTypes, ListControl, NEW p \in Procs, NEW s, Goto(p, s), UNCHANGED call,
         \/ /\ s \in {"malloc", "read", "publish", "link"}
            /\ call[p].fn = "insert_no_mutex" /\ call[p].data \in Descriptions
         \/ /\ s \in {"start", "walk", "mark", "unlink", "release"}
            /\ call[p].fn \in Called \ {"insert_no_mutex"}
         \/ s \in {"idle", "return"},
         exists' \in BOOLEAN, head' \in Pointers,
         node' \in [Nodes -> Contents \cup {Free}],
         reg' \in [Procs -> [new : Pointers, old : Pointers, temp : Pointers, prev : Pointers]]
  PROVE  ListTypes' /\ ListControl'
  <1>1. ListTypes'
    BY DEF ListTypes, Goto
  <1>2. ListControl'
    BY DEF ListTypes, ListControl, Goto
  <1>3. QED
    BY <1>1, <1>2

LEMMA FinishReturns ==
  ASSUME NEW fn \in Called, NEW locked
  PROVE  Finish(fn, locked) = "return"
  BY DEF Called, Finish, AfterLock

LEMMA RunTypes ==
  ASSUME ListTypes, ListControl, NEW p \in Procs, Run(p)
  PROVE  ListTypes' /\ ListControl' /\ UNCHANGED <<mutex, call>>
  <1> USE DEF Step
  <1>1. CASE Malloc(p)
    <2>1. /\ call[p].fn = "insert_no_mutex" /\ call[p].data \in Descriptions
          /\ Goto(p, "read")
      BY <1>1 DEF Malloc, ListControl, AfterMalloc
    <2>2. PICK a \in Nodes \ Live :
            /\ node' = [node EXCEPT ![a] = [next |-> Garbage, data |-> call[p].data]]
            /\ reg' = [reg EXCEPT ![p].new = a]
      BY <1>1, <2>1 DEF Malloc, Gets
    <2>3. [next |-> Garbage, data |-> call[p].data] \in Contents
      BY <2>1 DEF Contents, Pointers
    <2>4. /\ node' \in [Nodes -> Contents \cup {Free}]
          /\ reg' \in [Procs -> [new : Pointers, old : Pointers, temp : Pointers,
                                   prev : Pointers]]
      BY <2>2, <2>3, ZenonT(40) DEF ListTypes, Pointers
    <2>5. QED
      BY <1>1, <2>1, <2>4, GotoTypes DEF Malloc, ListTypes
  <1>2. CASE Lock(p) \/ Unlock(p) \/ Fetch(p)
    BY <1>2 DEF Lock, Unlock, Fetch, ListTypes
  <1>3. CASE Read(p)
    BY <1>3, GotoTypes DEF Read, ListTypes, ListControl, heap
  <1>4. CASE Publish(p)
    BY <1>4, GotoTypes, ZenonT(40) DEF Publish, ListTypes, ListControl, Pointers
  <1>5. CASE Link(p)
    <2>1. head \in Nodes /\ node[head] \in Contents
      BY <1>5, AllocatedTypes DEF Link, Sound, Touches, ListTypes
    <2>2. node' \in [Nodes -> Contents \cup {Free}]
      BY <1>5, <2>1 DEF Link, ListTypes, Contents
    <2>3. Goto(p, "return")
      BY <1>5, FinishReturns DEF Link, ListControl, Called
    <2>4. QED
      BY <1>5, <2>2, <2>3, GotoTypes DEF Link, ListTypes
  <1>6. CASE Start(p)
    <2>1. call[p].fn \in Called \ {"insert_no_mutex"}
      BY <1>6 DEF Start, ListControl
    <2>2. QED
      BY <1>6, <2>1, GotoTypes, ZenonT(40) DEF Start, ListTypes, heap
  <1>7. CASE Walk(p)
    <2>1. call[p].fn \in Called \ {"insert_no_mutex"}
      BY <1>7 DEF Walk, ListControl
    <2>2. CASE reg[p].temp = NULL
      BY <1>7, <2>1, <2>2, FinishReturns, GotoTypes DEF Walk, ListTypes, heap
    <2>3. CASE reg[p].temp # NULL
      <3>1. reg[p].temp \in Nodes /\ node[reg[p].temp].next \in Pointers
        BY <1>7, <2>3, AllocatedTypes DEF Walk, Sound, Touches, ListTypes
      <3>2. CASE Matches(p, node[reg[p].temp].data)
        <4>1. call[p].fn # "free_list"
          BY <3>2 DEF Matches
        <4>2. AfterMatch[call[p].fn] \in {"mark", "unlink"}
          BY <2>1, <4>1 DEF AfterMatch, Called
        <4>3. Goto(p, AfterMatch[call[p].fn]) /\ UNCHANGED <<reg, heap, mutex, call>>
          BY <1>7, <2>3, <3>2 DEF Walk
        <4>4. QED
          BY <2>1, <4>2, <4>3, GotoTypes DEF ListTypes, heap
      <3>3. CASE ~Matches(p, node[reg[p].temp].data)
        <4>1. /\ reg' = [reg EXCEPT ![p].prev = reg[p].temp,
                                     ![p].temp = node[reg[p].temp].next]
              /\ UNCHANGED <<pc, heap, mutex, call>>
          BY <1>7, <2>3, <3>3 DEF Walk
        <4>2. QED
          BY <3>1, <4>1 DEF ListTypes, ListControl, heap
      <3>4. QED
        BY <3>2, <3>3
    <2>4. QED
      BY <2>2, <2>3
  <1>8. CASE Mark(p)
    <2> DEFINE a == reg[p].temp
    <2>1. a \in Nodes /\ node[a] \in Contents
      BY <1>8, AllocatedTypes DEF Mark, Sound, Touches, ListTypes
    <2>2. node' \in [Nodes -> Contents \cup {Free}]
      BY <1>8, <2>1 DEF Mark, ListTypes, Contents, Descriptions
    <2>3. Goto(p, "return")
      BY <1>8, FinishReturns DEF Mark, ListControl, Called
    <2>4. QED
      BY <1>8, <2>2, <2>3, GotoTypes DEF Mark, ListTypes
  <1>9. CASE Unlink(p)
    <2> DEFINE a == reg[p].temp
               b == reg[p].prev
    <2>1. a \in Nodes /\ node[a] \in Contents /\ node[a].next \in Pointers
      BY <1>9, AllocatedTypes DEF Unlink, Sound, Touches, ListTypes
    <2>2. b # a => b \in Nodes /\ node[b] \in Contents
      BY <1>9, AllocatedTypes DEF Unlink, Sound, Touches, ListTypes
    <2>3. head' \in Pointers /\ node' \in [Nodes -> Contents \cup {Free}]
      BY <1>9, <2>1, <2>2 DEF Unlink, ListTypes, Contents
    <2>4. Goto(p, "return")
      BY <1>9, FinishReturns DEF Unlink, ListControl, Called
    <2>5. QED
      BY <1>9, <2>3, <2>4, GotoTypes DEF Unlink, ListTypes
  <1>10. CASE Release(p)
    <2> DEFINE a == reg[p].temp
    <2>1. CASE a # NULL
      <3>1. a \in Nodes /\ node[a].next \in Pointers
        BY <1>10, <2>1, AllocatedTypes DEF Release, Sound, Touches, ListTypes
      <3>2. /\ node' \in [Nodes -> Contents \cup {Free}]
            /\ reg' \in [Procs -> [new : Pointers, old : Pointers, temp : Pointers,
                                     prev : Pointers]]
        BY <1>10, <2>1, <3>1 DEF Release, ListTypes
      <3>3. UNCHANGED <<exists, head, mutex, pc, call>>
        BY <1>10, <2>1 DEF Release
      <3>4. QED
        BY <3>2, <3>3 DEF ListTypes, ListControl
    <2>2. CASE a = NULL
      BY <1>10, <2>2, GotoTypes DEF Release, ListTypes
    <2>3. QED
      BY <2>1, <2>2
  <1>11. QED
    BY <1>1, <1>2, <1>3, <1>4, <1>5, <1>6, <1>7, <1>8, <1>9, <1>10 DEF Run

LEMMA ReturnTypes ==
  ASSUME ListTypes, ListControl, NEW p \in Procs, Return(p)
  PROVE  ListTypes' /\ ListControl'
  <1>1. NoCall \in [fn : Called \cup {"none"}, data : Descriptions \cup {NULL}]
    BY DEF NoCall
  <1>2. NoPointers \in [new : Pointers, old : Pointers, temp : Pointers, prev : Pointers]
    BY DEF NoPointers, Pointers
  <1>3. ListTypes'
    BY <1>1, <1>2 DEF Return, Goto, ListTypes, heap
  <1>4. ListControl'
    BY DEF Return, Goto, ListTypes, ListControl
  <1>5. QED
    BY <1>3, <1>4

LEMMA EnterTypes ==
  ASSUME ListTypes, ListControl, NEW p \in Procs, NEW fn \in Called,
         NEW data \in Descriptions \cup {NULL},
         fn = "insert_no_mutex" => data \in Descriptions,
         Enter(p, fn, data)
  PROVE  ListTypes' /\ ListControl' /\ UNCHANGED <<heap, mutex, reg>>
  <1>1. /\ Entry[fn] \in {"malloc", "start"}
        /\ Entry[fn] = "malloc" <=> fn = "insert_no_mutex"
    BY DEF Called, Entry
  <1>2. ListTypes'
    BY <1>1 DEF Enter, Goto, ListTypes, heap
  <1>3. ListControl'
    BY <1>1 DEF Enter, Goto, ListTypes, ListControl
  <1>4. QED
    BY <1>2, <1>3 DEF Enter

LEMMA StillTypes ==
  ASSUME ListTypes, ListControl, UNCHANGED <<exists, node, pc, call, reg>>, head' \in Pointers
  PROVE  ListTypes' /\ ListControl'
  BY DEF ListTypes, ListControl

(* A description is one.                                                   *)
LEMMA DescribedType ==
  ASSUME TypeOK, NEW c \in Conns
  PROVE  Described(c) \in Descriptions
  BY DEF TypeOK, Described, Descriptions

-----------------------------------------------------------------------------
LEMMA InitTypes == Init => TypeInv
  <1> SUFFICES ASSUME Init PROVE TypeInv
    OBVIOUS
  <1>1. ListTypes
    <2>1. NoCall \in [fn : Called \cup {"none"}, data : Descriptions \cup {NULL}]
      BY DEF NoCall
    <2>2. NoPointers \in [new : Pointers, old : Pointers, temp : Pointers, prev : Pointers]
      BY DEF NoPointers, Pointers
    <2>3. QED
      BY <2>1, <2>2 DEF Init, ListInit, ListTypes, Pointers
  <1>2. ListControl
    BY DEF Init, ListInit, ListControl
  <1>3. ThreadTypes
    <2>1. TypeOK
      BY AesdThreadsAssumption, ThreadListAssumption DEF Init, ListInit, TypeOK
    <2>2. QED
      BY <2>1 DEF Init, ThreadTypes, Stations
  <1>4. QED
    BY <1>1, <1>2, <1>3 DEF TypeInv

(* main and socket_listen.                                                 *)
LEMMA SetUpTypes ==
  ASSUME TypeInv,
         Main \/ Leave \/ Listen \/ MakeList \/ StartJoiner \/ \E c \in Conns : Accept(c)
  PROVE  TypeInv'
  <1> USE AesdThreadsAssumption DEF Move, TypeInv, ThreadTypes, Stations, TypeOK
  <1>1. CASE Main
    BY <1>1, StillTypes DEF Main, ListTypes, listvars, heap, joining, signals, faults
  <1>2. CASE Leave
    BY <1>2, StillTypes DEF Leave, ListTypes, listvars, heap, joining, faults
  <1>3. CASE Listen
    BY <1>3, StillTypes DEF Listen, ListTypes, listvars, heap, joining, signals, faults
  <1>4. CASE MakeList
    <2>1. ListTypes' /\ ListControl'
      BY <1>4 DEF MakeList, ListTypes, ListControl, Pointers
    <2>2. QED
      BY <1>4, <2>1 DEF MakeList, joining, signals, faults
  <1>5. CASE StartJoiner
    <2>1. ListTypes' /\ ListControl'
      BY <1>5, StillTypes DEF StartJoiner, Pointers
    <2>2. QED
      BY <1>5, <2>1 DEF StartJoiner, joining, signals, faults
  <1>6. ASSUME NEW c \in Conns, Accept(c) PROVE TypeInv'
    BY <1>6, StillTypes DEF Accept, ListTypes, listvars, heap, joining, signals, faults
  <1>7. QED
    BY <1>1, <1>2, <1>3, <1>4, <1>5, <1>6

LEMMA ConnectionTypes ==
  ASSUME TypeInv, NEW c \in Conns, connection(c)
  PROVE  TypeInv'
  <1> USE AesdThreadsAssumption, ThreadListAssumption
  <1> USE DEF Move, TypeInv, ThreadTypes, Stations, TypeOK, heap, joining, signals, faults
  <1>1. CASE Serve(c)
    BY <1>1, StillTypes DEF Serve, ListTypes, listvars
  <1>2. CASE EndLock(c)
    <2>1. ListTypes' /\ ListControl'
      BY <1>2, StillTypes DEF EndLock, ListTypes
    <2>2. \A d \in Conns : mutex' = d <=> at'[d] \in {"insert", "status", "unlock"}
      BY <1>2 DEF EndLock
    <2>3. QED
      BY <1>2, <2>1, <2>2 DEF EndLock
  <1>3. CASE EndInsert(c)
    <2>1. ListTypes' /\ ListControl' /\ UNCHANGED <<heap, mutex, reg>>
      BY <1>3, EnterTypes, DescribedType DEF EndInsert, Called
    <2>2. QED
      BY <1>3, <2>1 DEF EndInsert
  <1>4. CASE EndStatus(c)
    <2>1. ListTypes' /\ ListControl' /\ UNCHANGED <<heap, mutex, reg>>
      BY <1>4, EnterTypes, DescribedType DEF EndStatus, Called
    <2>2. QED
      BY <1>4, <2>1 DEF EndStatus
  <1>5. CASE EndUnlock(c)
    <2>1. ListTypes' /\ ListControl'
      BY <1>5, StillTypes DEF EndUnlock, ListTypes
    <2>2. \A d \in Conns : mutex' = d <=> at'[d] \in {"insert", "status", "unlock"}
      BY <1>5 DEF EndUnlock
    <2>3. QED
      BY <1>5, <2>1, <2>2 DEF EndUnlock
  <1>6. CASE SignalLock(c)
    BY <1>6, StillTypes DEF SignalLock, ListTypes, listvars
  <1>7. CASE Signal(c)
    <2>1. ListTypes' /\ ListControl'
      BY <1>7, StillTypes DEF Signal, ListTypes, listvars
    <2>2. /\ signalled' = TRUE \/ signalled' = signalled
          /\ lost' = lost \/ lost' = lost \cup {c}
      BY <1>7, Zenon DEF Signal
    <2>3. QED
      BY <1>7, <2>1, <2>2, ZenonT(40) DEF Signal, listvars
  <1>8. QED
    BY <1>1, <1>2, <1>3, <1>4, <1>5, <1>6, <1>7 DEF connection

LEMMA JoinerTypes ==
  ASSUME TypeInv, joining_thread_handler \/ JoinerWakeUnasked
  PROVE  TypeInv'
  <1> USE AesdThreadsAssumption, ThreadListAssumption
  <1> USE DEF Move, TypeInv, ThreadTypes, Stations, TypeOK, heap, joining, signals, faults
  <1>1. CASE JoinerWait
    BY <1>1, StillTypes DEF JoinerWait, ListTypes, listvars
  <1>2. CASE JoinerWake
    BY <1>2, StillTypes DEF JoinerWake, ListTypes, listvars
  <1>3. CASE JoinerUnlock
    BY <1>3, StillTypes DEF JoinerUnlock, ListTypes, listvars
  <1>4. CASE JoinerHead
    BY <1>4, StillTypes DEF JoinerHead, ListTypes, listvars
  <1>5. CASE JoinerNext
    <2>1. node[head].next \in Pointers
      BY <1>5, AllocatedTypes DEF JoinerNext, ListTypes
    <2>2. ListTypes' /\ ListControl'
      BY <1>5, StillTypes DEF JoinerNext, ListTypes, listvars
    <2>3. QED
      BY <1>5, <2>1, <2>2 DEF JoinerNext, Pointers, listvars
  <1>6. CASE JoinerStore
    <2>1. ListTypes' /\ ListControl'
      BY <1>6, StillTypes DEF JoinerStore, Pointers
    <2>2. QED
      BY <1>6, <2>1 DEF JoinerStore, Pointers
  <1>7. CASE JoinerJoin
    <2>1. ListTypes' /\ ListControl'
      BY <1>7, StillTypes DEF JoinerJoin, ListTypes, listvars
    <2>2. joined' \subseteq Conns
      BY <1>7 DEF JoinerJoin, Named
    <2>3. QED
      BY <1>7, <2>1, <2>2 DEF JoinerJoin, listvars
  <1>8. CASE JoinerRemove
    <2>1. node[old_head].data \in Descriptions
      BY <1>8, AllocatedTypes DEF JoinerRemove, Pointers
    <2>2. ListTypes' /\ ListControl' /\ UNCHANGED <<heap, mutex, reg>>
      BY <1>8, <2>1, EnterTypes DEF JoinerRemove, Called
    <2>3. QED
      BY <1>8, <2>2 DEF JoinerRemove
  <1>9. CASE JoinerFree
    <2>1. node' \in [Nodes -> Contents \cup {Free}]
      BY <1>9 DEF JoinerFree, ListTypes
    <2>2. ListTypes' /\ ListControl'
      BY <1>9, <2>1 DEF JoinerFree, ListTypes, ListControl
    <2>3. QED
      BY <1>9, <2>2 DEF JoinerFree
  <1>10. CASE JoinerWakeUnasked
    BY <1>10, StillTypes DEF JoinerWakeUnasked, ListTypes, listvars
  <1>11. QED
    BY <1>1, <1>2, <1>3, <1>4, <1>5, <1>6, <1>7, <1>8, <1>9, <1>10
    DEF joining_thread_handler

LEMMA HandlerTypes ==
  ASSUME TypeInv, NEW h \in Handlers,
         signal_handler(h) \/ \E p \in Procs : SignalArrives(h, p)
  PROVE  TypeInv'
  <1> USE AesdThreadsAssumption, ThreadListAssumption
  <1> USE DEF Move, TypeInv, ThreadTypes, Stations, TypeOK, heap, joining, signals, faults
  <1>1. CASE HandlerFree(h)
    <2>1. to_write' \in {to_write, "freed"}
      BY <1>1, Zenon DEF HandlerFree
    <2>2. ListTypes' /\ ListControl'
      BY <1>1, StillTypes DEF HandlerFree, ListTypes, listvars
    <2>3. QED
      BY <1>1, <2>1, <2>2 DEF HandlerFree, listvars
  <1>2. CASE HandlerList(h)
    <2>1. ListTypes' /\ ListControl' /\ UNCHANGED <<heap, mutex, reg>>
      BY <1>2, EnterTypes DEF HandlerList, Called
    <2>2. QED
      BY <1>2, <2>1 DEF HandlerList
  <1>3. CASE HandlerExit(h)
    BY <1>3, StillTypes DEF HandlerExit, ListTypes, listvars
  <1>4. ASSUME NEW p \in Procs, SignalArrives(h, p) PROVE TypeInv'
    <2>1. PICK what \in {"nothing", "heap", "log"} : inside' = [inside EXCEPT ![h] = what]
      BY <1>4, Zenon DEF SignalArrives
    <2>2. ListTypes' /\ ListControl'
      BY <1>4, StillTypes DEF SignalArrives, ListTypes, listvars
    <2>3. QED
      BY <1>4, <2>1, <2>2 DEF SignalArrives, listvars
  <1>5. QED
    BY <1>1, <1>2, <1>3, <1>4 DEF signal_handler

LEMMA CrashTypes ==
  ASSUME TypeInv, NEW p \in Procs, Crash(p)
  PROVE  TypeInv'
  BY StillTypes
  DEF Crash, TypeInv, ListTypes, ThreadTypes, TypeOK, listvars, heap, joining, signals

LEMMA InListTypes ==
  ASSUME TypeInv, NEW p \in Procs, InList(p)
  PROVE  TypeInv'
  <1>1. ListTypes' /\ ListControl' /\ UNCHANGED mutex
    BY RunTypes, ReturnTypes DEF InList, Return, TypeInv
  <1>2. QED
    BY <1>1 DEF InList, TypeInv, ListTypes, ThreadTypes, TypeOK, Pointers, joining, signals, faults

LEMMA NextTypes == TypeInv /\ [Next]_vars => TypeInv'
  <1>1. ASSUME TypeInv, UNCHANGED vars PROVE TypeInv'
    BY <1>1, StillTypes
    DEF TypeInv, ListTypes, ThreadTypes, TypeOK, vars, listvars, heap, joining, signals, faults
  <1>2. QED
    BY <1>1, SetUpTypes, ConnectionTypes, JoinerTypes, HandlerTypes, CrashTypes,
       InListTypes DEF Next

LEMMA TypeInvHolds == Spec => []TypeInv
  BY InitTypes, NextTypes, PTL DEF Spec

(* No thread of the server holds the list's mutex but a connection that    *)
(* enters itself, and it holds it throughout (socket_core.c:142-146,       *)
(* 200-204): none of the other calls of the list's functions takes it.     *)
THEOREM TypesHold == Spec => []TypeOK
  <1>1. TypeInv => TypeOK
    BY DEF TypeInv, ThreadTypes
  <1>2. QED
    BY <1>1, TypeInvHolds, PTL

-----------------------------------------------------------------------------
(* Steps that end no connection's thread, wake nobody and join nobody.     *)
LEMMA StillCount ==
  ASSUME JoinCount, \A c \in Conns : at'[c] = "ended" <=> at[c] = "ended",
         UNCHANGED <<signalled, lost, joined>>,
         signalled => at'[Joiner] = "wait", Woken' <=> Woken,
         at'[Listener] \in Starting => at'[Joiner] = "none"
  PROVE  JoinCount'
  <1>1. EndedConns' = EndedConns
    BY DEF EndedConns
  <1>2. QED
    BY <1>1 DEF JoinCount

LEMMA InitCount == Init => JoinCount
  <1> SUFFICES ASSUME Init PROVE JoinCount
    OBVIOUS
  <1>1. /\ EndedConns = {} /\ ~Woken /\ lost = {} /\ joined = {} /\ ~signalled
        /\ at[Joiner] = "none"
    BY AesdThreadsAssumption DEF Init, EndedConns, Woken
  <1>2. QED
    BY <1>1, FS_EmptySet DEF JoinCount

(* A thread ends: either it wakes the joiner, or its signal is lost.       *)
LEMMA SignalCount ==
  ASSUME TypeInv, JoinCount, NEW c \in Conns, Signal(c)
  PROVE  JoinCount'
  <1>1. /\ at[c] = "signal" /\ at' = [at EXCEPT ![c] = "ended"] /\ c # Joiner
        /\ at \in [Procs -> Stations] /\ c \in Procs /\ Joiner \in Procs
    BY AesdThreadsAssumption DEF Signal, Move, TypeInv, ThreadTypes
  <1>2. EndedConns' = EndedConns \cup {c} /\ c \notin EndedConns
    BY <1>1, AesdThreadsAssumption DEF EndedConns
  <1>3. /\ joined' = joined /\ joined \subseteq EndedConns /\ lost \subseteq EndedConns
        /\ at'[Listener] \in Starting => at'[Joiner] = "none"
    BY <1>1, AesdThreadsAssumption DEF Signal, JoinCount
  <1>4. EndedConns' \ joined' = (EndedConns \ joined) \cup {c}
    BY <1>2, <1>3
  <1>5. /\ IsFiniteSet(EndedConns') /\ IsFiniteSet(EndedConns \ joined)
        /\ IsFiniteSet(lost)
    BY <1>2, <1>3, FS_AddElement, FS_Subset DEF JoinCount
  <1>6. Cardinality(EndedConns' \ joined') = Cardinality(EndedConns \ joined) + 1
    BY <1>2, <1>4, <1>5, FS_AddElement
  <1>7. Cardinality(lost) \in Nat /\ Cardinality(EndedConns \ joined) \in Nat
    BY <1>5, FS_CardinalityType
  <1>8. CASE Waiting
    <2>1. ~Woken /\ Woken' /\ signalled' /\ at'[Joiner] = "wait" /\ lost' = lost
      BY <1>1, <1>8 DEF Signal, Waiting, Woken
    <2>2. QED
      BY <1>2, <1>3, <1>5, <1>6, <1>7, <2>1 DEF JoinCount
  <1>9. CASE ~Waiting
    <2>1. lost' = lost \cup {c} /\ UNCHANGED signalled /\ at'[Joiner] = at[Joiner]
      BY <1>1, <1>9 DEF Signal
    <2>2. Woken' <=> Woken
      BY <2>1 DEF Woken
    <2>3. Cardinality(lost') = Cardinality(lost) + 1
      BY <1>2, <1>3, <1>5, <2>1, FS_AddElement
    <2>4. QED
      BY <1>2, <1>3, <1>5, <1>6, <1>7, <2>1, <2>2, <2>3 DEF JoinCount
  <1>10. QED
    BY <1>8, <1>9

(* pthread_join takes one of the threads that have ended.                  *)
LEMMA JoinerJoinCount ==
  ASSUME TypeInv, JoinCount, JoinerJoin
  PROVE  JoinCount'
  <1>1. PICK c \in Conns \ joined : at[c] = "ended" /\ joined' = joined \cup {c}
    BY DEF JoinerJoin, Named
  <1>2. /\ at[Joiner] = "join" /\ at' = [at EXCEPT ![Joiner] = "remove"]
        /\ at \in [Procs -> Stations] /\ Joiner \in Procs /\ Joiner \notin Conns
        /\ Conns \subseteq Procs
    BY AesdThreadsAssumption DEF JoinerJoin, Move, TypeInv, ThreadTypes
  <1>3. EndedConns' = EndedConns /\ c \in EndedConns \ joined
    BY <1>1, <1>2 DEF EndedConns
  <1>4. /\ Woken /\ ~Woken' /\ ~signalled /\ ~signalled' /\ lost' = lost
        /\ at'[Listener] \notin Starting
    BY <1>2, AesdThreadsAssumption DEF JoinerJoin, Woken, JoinCount
  <1>5. EndedConns' \ joined' = (EndedConns \ joined) \ {c}
    BY <1>1, <1>3
  <1>6. IsFiniteSet(EndedConns \ joined) /\ IsFiniteSet(lost)
    BY FS_Subset DEF JoinCount
  <1>7. /\ Cardinality(EndedConns' \ joined') = Cardinality(EndedConns \ joined) - 1
        /\ Cardinality(EndedConns \ joined) \in Nat /\ Cardinality(lost) \in Nat
    BY <1>3, <1>5, <1>6, FS_RemoveElement, FS_CardinalityType, ZenonT(40)
  <1>8. QED
    BY <1>1, <1>3, <1>4, <1>7 DEF JoinCount

(* The joiner wakes, asked or not: it may now join one thread.             *)
LEMMA JoinerWakeCount ==
  ASSUME TypeInv, JoinCount, JoinerWake \/ JoinerWakeUnasked
  PROVE  JoinCount'
  <1>1. /\ at[Joiner] = "wait" /\ at' = [at EXCEPT ![Joiner] = "unlock"]
        /\ at \in [Procs -> Stations] /\ Joiner \in Procs /\ Joiner \notin Conns
        /\ Conns \subseteq Procs /\ Joiner # Listener
    BY AesdThreadsAssumption
    DEF JoinerWake, JoinerWakeUnasked, Move, TypeInv, ThreadTypes
  <1>2. /\ UNCHANGED <<lost, joined>> /\ ~signalled' /\ Woken'
        /\ at'[Listener] \notin Starting
    BY <1>1 DEF JoinerWake, JoinerWakeUnasked, Woken, JoinCount, TypeInv, ThreadTypes,
                TypeOK, joining
  <1>3. EndedConns' = EndedConns
    BY <1>1 DEF EndedConns
  <1>4. Cardinality(EndedConns \ joined) \in Nat /\ Cardinality(lost) \in Nat
    BY FS_Subset, FS_CardinalityType DEF JoinCount
  <1>5. QED
    BY <1>2, <1>3, <1>4 DEF JoinCount

LEMMA NextCount == TypeInv /\ JoinCount /\ [Next]_vars => JoinCount'
  <1> SUFFICES ASSUME TypeInv, JoinCount, [Next]_vars PROVE JoinCount'
    OBVIOUS
  <1>0. /\ at \in [Procs -> Stations] /\ Conns \subseteq Procs
        /\ {Joiner, Listener} \cup Handlers \subseteq Procs
    BY AesdThreadsAssumption DEF TypeInv, ThreadTypes
  <1>1. CASE Main \/ Leave \/ \E c \in Conns : Accept(c)
    <2>1. CASE Main \/ Leave
      BY <1>0, <2>1, StillCount, AesdThreadsAssumption
      DEF Main, Leave, Move, Starting, Woken, JoinCount, joining
    <2>2. ASSUME NEW c \in Conns, Accept(c) PROVE JoinCount'
      BY <1>0, <2>2, StillCount, AesdThreadsAssumption
      DEF Accept, Move, Woken, JoinCount, joining
    <2>3. QED
      BY <1>1, <2>1, <2>2
  <1>2. CASE Listen \/ MakeList \/ StartJoiner
    <2>1. CASE Listen \/ MakeList
      BY <1>0, <2>1, StillCount, AesdThreadsAssumption
      DEF Listen, MakeList, Move, Starting, Woken, JoinCount, joining
    <2>2. CASE StartJoiner
      BY <1>0, <2>2, StillCount, AesdThreadsAssumption
      DEF StartJoiner, Starting, Woken, JoinCount, joining
    <2>3. QED
      BY <1>2, <2>1, <2>2
  <1>3. ASSUME NEW c \in Conns, connection(c) PROVE JoinCount'
    BY <1>0, <1>3, StillCount, SignalCount, AesdThreadsAssumption
    DEF connection, Serve, EndLock, EndInsert, EndStatus, EndUnlock, SignalLock, Move,
        Woken, JoinCount, joining
  <1>4. CASE joining_thread_handler
    <2>1. CASE JoinerWake
      BY <2>1, JoinerWakeCount
    <2>2. CASE JoinerJoin
      BY <2>2, JoinerJoinCount
    <2>3. CASE JoinerWait \/ JoinerUnlock \/ JoinerHead \/ JoinerNext \/ JoinerStore
      BY <1>0, <2>3, StillCount, AesdThreadsAssumption
      DEF JoinerWait, JoinerUnlock, JoinerHead, JoinerNext, JoinerStore, Move, Woken,
          JoinCount, joining
    <2>4. CASE JoinerRemove \/ JoinerFree
      BY <1>0, <2>4, StillCount, AesdThreadsAssumption
      DEF JoinerRemove, JoinerFree, Move, Woken, JoinCount, joining
    <2>5. QED
      BY <1>4, <2>1, <2>2, <2>3, <2>4 DEF joining_thread_handler
  <1>5. ASSUME NEW h \in Handlers, signal_handler(h) \/ \E p \in Procs : SignalArrives(h, p)
        PROVE  JoinCount'
    <2>1. CASE HandlerFree(h) \/ HandlerList(h) \/ HandlerExit(h)
      BY <1>0, <2>1, StillCount, AesdThreadsAssumption
      DEF HandlerFree, HandlerList, HandlerExit, Move, Woken, JoinCount, joining
    <2>2. ASSUME NEW p \in Procs, SignalArrives(h, p) PROVE JoinCount'
      BY <1>0, <2>2, StillCount, AesdThreadsAssumption
      DEF SignalArrives, Woken, JoinCount, joining
    <2>3. QED
      BY <1>5, <2>1, <2>2 DEF signal_handler
  <1>6. CASE JoinerWakeUnasked
    BY <1>6, JoinerWakeCount
  <1>7. CASE \E p \in Procs : InList(p) \/ Crash(p)
    BY <1>7, StillCount DEF InList, Crash, Woken, JoinCount, joining
  <1>8. CASE UNCHANGED vars
    BY <1>8, StillCount DEF vars, Woken, JoinCount, joining
  <1>9. QED
    BY <1>1, <1>2, <1>3, <1>4, <1>5, <1>6, <1>7, <1>8 DEF Next

(* With any number of connections, and however their ends, the joiner, its *)
(* unasked wake-ups and signals interleave: whenever the joiner waits, the *)
(* threads that have ended and are not joined are at most as many as the   *)
(* signals that were lost (socket_core.c:65, 148, 206).                    *)
THEOREM UnjoinedHolds == Spec => []UnjoinedWereLost
  <1>1. ASSUME JoinCount PROVE UnjoinedWereLost
    <2>1. ASSUME Waiting PROVE ~Woken
      BY <2>1 DEF Waiting, Woken
    <2>2. Cardinality(lost) \in Nat /\ Cardinality(EndedConns \ joined) \in Nat
      BY <1>1, FS_Subset, FS_CardinalityType DEF JoinCount
    <2>3. QED
      BY <1>1, <2>1, <2>2 DEF JoinCount, UnjoinedWereLost, EndedConns
  <1>2. QED
    BY <1>1, InitTypes, InitCount, NextTypes, NextCount, PTL DEF Spec

-----------------------------------------------------------------------------
(* What breaks the list: nothing but a signal, the joiner's work while a   *)
(* connection is in the list, and its unasked wake-up on an empty one.     *)
(* Until then the list, but for a node that is being inserted, is a        *)
(* sequence s of n nodes of different threads, and a node that left it is  *)
(* the joiner's alone.                                                     *)

(* A connection's node has been in the list.                               *)
Has(c) ==
  \/ at[c] \in {"unlock", "signal_lock", "signal", "ended"}
  \/ at[c] = "status" /\ pc[c] \in {"return", "idle"}

Tid(a) == node[a].data.thread_id

(* A thread inside the list's functions has just called them.              *)
Callers ==
  /\ pc[Listener] = "idle" /\ \A h \in Handlers : pc[h] = "idle"
  /\ pc[Joiner] # "idle" =>
       /\ at[Joiner] = "free" /\ call[Joiner].fn = "remove_no_mutex"
       /\ pc[Joiner] \in {"start", "walk", "return"}
  /\ \A c \in Conns :
       pc[c] # "idle" =>
         /\ call[c].data = Described(c)
         /\ \/ /\ at[c] = "status" /\ call[c].fn = "insert_no_mutex"
               /\ pc[c] \in {"malloc", "read", "publish", "link", "return"}
            \/ /\ at[c] = "unlock" /\ call[c].fn = "set_status_no_mutex"
               /\ pc[c] \in {"start", "walk", "mark", "return"}

(* The list and the buffer are there before a thread that uses them, and   *)
(* the joiner has the list to itself.                                      *)
Places ==
  /\ at[Listener] \in Starting \cup {"accept", "ended"}
  /\ at[Listener] = "start_joiner" => exists
  /\ at[Listener] = "accept" => at[Joiner] # "none"
  /\ at[Joiner] \in {"none", "lock", "wait", "unlock", "head"} \/ InPass
  /\ at[Joiner] = "none" => \A c \in Conns : at[c] = "none"
  /\ at[Joiner] # "none" => exists
  /\ InPass => mutex = Nobody
  /\ \A c \in Conns : at[c] \in {"none", "serve", "end", "insert", "status", "unlock",
                                 "signal_lock", "signal", "ended"}
  /\ to_write # "freed"

(* Threads that can be joined have different ids.                          *)
Unique ==
  /\ \A c \in Conns : at[c] = "none" => id[c] = NULL
  /\ \A c, d \in Conns \ joined : id[c] = id[d] /\ at[c] # "none" /\ at[d] # "none" => c = d
  /\ \A c \in Conns : at[c] # "none" => id[c] # NULL

(* The sequence s of n nodes is the list but for a node that was published *)
(* and not linked: no two belong to the same thread.                       *)
Chained(n, s) ==
  /\ \A i \in 1 .. n :
       /\ node[s[i]] # Free
       /\ node[s[i]].next = IF i < n THEN s[i + 1] ELSE NULL
  /\ \A i, j \in 1 .. n : Tid(s[i]) = Tid(s[j]) => i = j

First(n, s) == IF n = 0 THEN NULL ELSE s[1]

Headed(n, s) ==
  /\ at[Joiner] = "none" => n = 0
  /\ at[Joiner] # "none" /\ (\A c \in Conns : pc[c] # "link") => head = First(n, s)

(* Each node in it is that of a thread that can be joined.                 *)
Owner(a) == \E c \in Conns \ joined : Has(c) /\ id[c] = Tid(a)
Owned(n, s) == \A i \in 1 .. n : Owner(s[i])

(* A node outside of the list.                                             *)
Aside(a, n, s) == a \in Nodes /\ node[a] # Free /\ \A i \in 1 .. n : s[i] # a

(* What a connection that enters itself has in the list, step by step.     *)
Inserting(c, n, s) ==
  /\ pc[c] \in {"read", "publish"} => Aside(reg[c].new, n, s) /\ Tid(reg[c].new) = id[c]
  /\ pc[c] = "link" => Aside(head, n, s) /\ Tid(head) = id[c]
  /\ pc[c] \in {"publish", "link"} => reg[c].old = First(n, s)
  /\ at[c] \in {"status", "unlock"} /\ Has(c) => n > 0 /\ Tid(s[1]) = id[c]
  /\ pc[c] \in {"walk", "mark"} => reg[c].temp = s[1]
  /\ at[c] \in {"signal_lock", "signal"} =>
       \/ \E i \in 1 .. n : Tid(s[i]) = id[c]
       \/ at[Joiner] = "join" /\ Tid(old_head) = id[c]

(* What the joiner has to do, step by step.                                *)
Joining(n, s) ==
  /\ signalled \/ at[Joiner] \in {"next", "store"} => n > 0
  /\ at[Joiner] \in {"unlock", "head"} => n > 0 \/ \E c \in Conns : pc[c] = "link"
  /\ at[Joiner] \in {"next", "store"} => old_head = head
  /\ at[Joiner] = "store" => new_head = node[head].next
  /\ at[Joiner] \in {"join", "remove", "free"} =>
       Aside(old_head, n, s) /\ \A i \in 1 .. n : Tid(s[i]) # Tid(old_head)
  /\ at[Joiner] = "join" => Owner(old_head)
  /\ pc[Joiner] # "idle" => call[Joiner].data.thread_id = Tid(old_head)
  /\ pc[Joiner] = "walk" => reg[Joiner].temp = NULL \/ \E i \in 1 .. n : reg[Joiner].temp = s[i]

Shape(n, s) ==
  /\ Chained(n, s) /\ Headed(n, s) /\ Owned(n, s) /\ Joining(n, s)
  /\ \A c \in Conns : Inserting(c, n, s)
-----------------------------------------------------------------------------
Shaped == \E n \in Nat : \E s \in [1 .. n -> Nodes] : Shape(n, s)

Sane == ~fault /\ ~raced /\ ~SignalCame /\ Callers /\ Places /\ Unique

(* The inductive invariant while nobody races and no signal came.          *)
CalmInv == raced \/ SignalCame \/ (Sane /\ Shaped)

(* What the lemmas below need to know of the types.                        *)
Kinds ==
  /\ at \in [Procs -> Stations] /\ Conns \subseteq Procs
  /\ {Joiner, Listener} \cup Handlers \subseteq Procs \ Conns
  /\ Joiner # Listener /\ {Joiner, Listener} \cap Handlers = {}
  /\ pc \in [Procs -> {"idle", "malloc", "read", "publish", "link", "start", "walk",
                       "mark", "unlink", "release", "return"}]
  /\ call \in [Procs -> [fn : Called \cup {"none"}, data : Descriptions \cup {NULL}]]
  /\ reg \in [Procs -> [new : Pointers, old : Pointers, temp : Pointers, prev : Pointers]]
  /\ node \in [Nodes -> Contents \cup {Free}] /\ Free \notin Contents
  /\ id \in [Conns -> Ids \cup {NULL}] /\ Nobody \notin Procs
  /\ \A c \in Conns : mutex = c <=> at[c] \in {"insert", "status", "unlock"}
  /\ {NULL, Garbage, ll} \cap Nodes = {}
  /\ {fault, raced, signalled, exists} \subseteq BOOLEAN

LEMMA KindsHold == TypeInv => Kinds
  BY AesdThreadsAssumption, ThreadListAssumption
  DEF TypeInv, ListTypes, ThreadTypes, TypeOK, Kinds, Contents, Pointers

(* Nobody is inside the list's functions but the one that has the mutex,   *)
(* or the joiner.                                                          *)
LEMMA Alone ==
  ASSUME Kinds, Callers, Places, NEW c \in Conns, pc[c] # "idle" \/ mutex = c
  PROVE  /\ mutex = c /\ at[c] \in {"insert", "status", "unlock"}
         /\ ~InPass /\ at[Joiner] \in {"lock", "wait", "unlock", "head"}
         /\ pc[Joiner] = "idle"
         /\ \A d \in Conns \ {c} : pc[d] = "idle" /\ at[d] \notin {"insert", "status", "unlock"}
  <1>1. mutex = c /\ at[c] \in {"insert", "status", "unlock"}
    BY DEF Kinds, Callers
  <1>2. mutex # Nobody /\ at[c] # "none"
    BY <1>1 DEF Kinds
  <1>3. ~InPass /\ at[Joiner] \in {"lock", "wait", "unlock", "head"}
    BY <1>2 DEF Places
  <1>4. pc[Joiner] = "idle"
    BY <1>3 DEF Callers
  <1>5. ASSUME NEW d \in Conns \ {c}
        PROVE  pc[d] = "idle" /\ at[d] \notin {"insert", "status", "unlock"}
    BY <1>1 DEF Kinds, Callers
  <1>6. QED
    BY <1>1, <1>3, <1>4, <1>5

(* main and socket_listen set up the server: there is no list yet.         *)
LEMMA StartSane ==
  ASSUME TypeInv, JoinCount, Sane, NEW n \in Nat, NEW s \in [1 .. n -> Nodes], Shape(n, s),
         Main \/ Listen \/ MakeList \/ StartJoiner
  PROVE  Sane' /\ Shape(n, s)'
  <1>0. Kinds
    BY KindsHold
  <1>1. /\ at[Listener] \in Starting /\ at[Joiner] = "none" /\ n = 0
        /\ \A c \in Conns : at[c] = "none" /\ pc[c] = "idle"
        /\ pc[Joiner] = "idle" /\ ~signalled
    BY <1>0 DEF Main, Listen, MakeList, StartJoiner, Move, Starting, JoinCount, Sane,
                Places, Callers, Shape, Headed
  <1>2. /\ UNCHANGED <<pc, call, reg, id, joined, node, mutex, fault, raced, signalled>>
        /\ \A p \in Procs \ {Listener, Joiner} : at'[p] = at[p]
        /\ \/ at'[Joiner] = "none"
           \/ at'[Joiner] = "lock" /\ head' = NULL /\ exists'
        /\ at'[Listener] = "accept" => at'[Joiner] # "none"
        /\ at'[Listener] \in Starting \cup {"accept"}
        /\ at'[Listener] = "start_joiner" => exists'
        /\ to_write' # "freed"
    BY <1>0, <1>1, ThreadListAssumption
    DEF Main, Listen, MakeList, StartJoiner, Move, Starting, Kinds, listvars, heap,
        joining, faults, Live, Sane, Places
  <1>3. Callers' /\ Unique' /\ ~SignalCame'
    BY <1>0, <1>1, <1>2 DEF Sane, Callers, Described, Unique, SignalCame, Kinds
  <1>4. Places'
    BY <1>0, <1>1, <1>2 DEF Sane, Places, InPass, Kinds
  <1>5. Chained(n, s)' /\ Headed(n, s)' /\ Owned(n, s)'
    BY <1>1, <1>2 DEF Chained, Headed, Owned, First
  <1>6. Joining(n, s)' /\ \A c \in Conns : Inserting(c, n, s)'
    BY <1>0, <1>1, <1>2 DEF Joining, Inserting, Has, Kinds
  <1>7. QED
    BY <1>2, <1>3, <1>4, <1>5, <1>6 DEF Sane, Shape

LEMMA LeaveSane ==
  ASSUME TypeInv, JoinCount, Sane, NEW n \in Nat, NEW s \in [1 .. n -> Nodes], Shape(n, s),
         Leave
  PROVE  Sane' /\ Shape(n, s)'
  <1>0. Kinds
    BY KindsHold
  <1>1. /\ UNCHANGED <<exists, head, node, mutex, pc, call, reg, id, joined, signalled,
                       old_head, new_head, to_write, fault, raced>>
        /\ \A p \in Procs \ {Listener} : at'[p] = at[p]
        /\ at'[Listener] = "ended"
    BY <1>0 DEF Leave, Move, Kinds, listvars, heap, joining, faults
  <1>2. \A c \in Conns : (Has(c)' <=> Has(c)) /\ Described(c)' = Described(c)
    BY <1>0, <1>1 DEF Has, Described, Kinds
  <1>3. Callers' /\ Unique' /\ ~SignalCame'
    BY <1>0, <1>1, <1>2 DEF Sane, Callers, Unique, SignalCame, Kinds
  <1>4. Places'
    BY <1>0, <1>1 DEF Sane, Places, InPass, Kinds, Starting
  <1>5. Chained(n, s)' /\ Headed(n, s)' /\ Owned(n, s)'
    BY <1>0, <1>1, <1>2 DEF Shape, Chained, Headed, Owned, Owner, First, Tid, Kinds
  <1>6. Joining(n, s)'
    BY <1>0, <1>1, <1>2 DEF Shape, Joining, Aside, Owner, Tid, Kinds
  <1>7. \A c \in Conns : Inserting(c, n, s)'
    BY <1>0, <1>1, <1>2 DEF Shape, Inserting, Aside, First, Tid, Kinds
  <1>8. QED
    BY <1>1, <1>3, <1>4, <1>5, <1>6, <1>7 DEF Sane, Shape

(* A thread starts with an id that no thread has that can be joined.       *)
LEMMA AcceptSane ==
  ASSUME TypeInv, JoinCount, Sane, NEW n \in Nat, NEW s \in [1 .. n -> Nodes], Shape(n, s),
         NEW c \in Conns, Accept(c)
  PROVE  Sane' /\ Shape(n, s)'
  <1>0. Kinds
    BY KindsHold
  <1>1. PICK t \in Ids : /\ \A d \in Conns \ joined : id[d] # t
                         /\ id' = [id EXCEPT ![c] = t]
    BY DEF Accept
  <1>2. /\ UNCHANGED <<exists, head, node, mutex, pc, call, reg, joined, signalled,
                       old_head, new_head, to_write, fault, raced>>
        /\ at[c] = "none" /\ pc[c] = "idle" /\ at' = [at EXCEPT ![c] = "serve"]
        /\ at[Joiner] # "none"
    BY <1>0 DEF Accept, Move, Kinds, listvars, heap, joining, faults, Sane, Places
  <1>3. c \notin joined /\ t # NULL
    BY <1>1, <1>2 DEF JoinCount, EndedConns, Sane, Unique
  <1>4. /\ \A d \in Conns : Has(d)' <=> Has(d)
        /\ ~Has(c)
        /\ \A d \in Conns \ {c} : id'[d] = id[d] /\ at'[d] = at[d]
        /\ at'[Joiner] = at[Joiner] /\ at'[Listener] = at[Listener]
        /\ \A h \in Handlers : at'[h] = at[h]
        /\ at'[c] = "serve" /\ id'[c] = t
    BY <1>0, <1>1, <1>2 DEF Has, Kinds
  <1>5. Callers'
    BY <1>0, <1>2, <1>4 DEF Sane, Callers, Described, Kinds
  <1>6. Unique'
    BY <1>1, <1>2, <1>3, <1>4 DEF Sane, Unique
  <1>7. ~SignalCame' /\ Places'
    BY <1>2, <1>4 DEF Sane, SignalCame, Places, InPass
  <1>8. Chained(n, s)' /\ Headed(n, s)'
    BY <1>2, <1>4 DEF Shape, Chained, Headed, First, Tid
  <1>9. \A a : Owner(a) => Owner(a)'
    BY <1>2, <1>4 DEF Owner, Tid
  <1>10. Owned(n, s)' /\ Joining(n, s)'
    BY <1>2, <1>4, <1>9 DEF Shape, Owned, Joining, Aside, Tid
  <1>11. \A d \in Conns : Inserting(d, n, s)'
    BY <1>0, <1>2, <1>4 DEF Shape, Inserting, Aside, First, Tid, Has
  <1>12. QED
    BY <1>2, <1>5, <1>6, <1>7, <1>8, <1>10, <1>11 DEF Sane, Shape

-----------------------------------------------------------------------------
(* A connection goes on between the list's functions.                      *)
LEMMA ConnMove ==
  ASSUME TypeInv, Sane, NEW n \in Nat, NEW s \in [1 .. n -> Nodes], Shape(n, s),
         NEW c \in Conns, NEW there, pc[c] = "idle", at' = [at EXCEPT ![c] = there],
         UNCHANGED <<heap, pc, call, reg, id, joined, old_head, new_head, to_write>>,
         UNCHANGED <<fault, raced>>,
         \/ at[c] = "serve" /\ there = "end"
         \/ at[c] = "end" /\ there = "insert"
         \/ at[c] = "unlock" /\ there = "signal_lock"
         \/ at[c] = "signal_lock" /\ there = "signal"
         \/ at[c] = "signal" /\ there = "ended",
         InPass => mutex' = Nobody, signalled' => n > 0
  PROVE  Sane' /\ Shape(n, s)'
  <1>0. Kinds
    BY KindsHold
  <1>1. /\ UNCHANGED <<exists, head, node>>
        /\ \A d \in Conns : Has(d)' <=> Has(d)
        /\ \A d \in Conns : Described(d)' = Described(d)
        /\ \A p \in Procs \ {c} : at'[p] = at[p]
        /\ at'[c] = there /\ at'[Joiner] = at[Joiner] /\ at'[Listener] = at[Listener]
        /\ at[c] # "none" /\ there # "none"
        /\ UNCHANGED InPass
    BY <1>0 DEF heap, Has, Described, Kinds, InPass
  <1>2. Callers' /\ Unique' /\ ~SignalCame'
    BY <1>0, <1>1 DEF Sane, Callers, Unique, SignalCame, Kinds
  <1>3. Places'
    BY <1>0, <1>1 DEF Sane, Places, Kinds
  <1>4. Chained(n, s)' /\ Headed(n, s)' /\ Owned(n, s)'
    BY <1>1 DEF Shape, Chained, Headed, Owned, Owner, First, Tid
  <1>5. Joining(n, s)'
    BY <1>1 DEF Shape, Joining, Aside, Owner, Tid
  <1>6. ASSUME NEW d \in Conns PROVE Inserting(d, n, s)'
    <2>1. CASE d = c
      <3>1. Inserting(c, n, s)
        BY DEF Shape
      <3>2. n > 0 /\ Tid(s[1]) = id[c] => \E i \in 1 .. n : Tid(s[i]) = id[c]
        OBVIOUS
      <3>3. QED
        BY <1>1, <2>1, <3>1, <3>2 DEF Inserting, Tid, Has
    <2>2. CASE d # c
      <3>1. Inserting(d, n, s) /\ at'[d] = at[d]
        BY <1>0, <1>1, <2>2 DEF Shape, Kinds
      <3>2. QED
        BY <1>1, <3>1 DEF Inserting, Aside, First, Tid
    <2>3. QED
      BY <2>1, <2>2
  <1>7. QED
    BY <1>2, <1>3, <1>4, <1>5, <1>6 DEF Sane, Shape

LEMMA ConnMoves ==
  ASSUME TypeInv, Sane, NEW n \in Nat, NEW s \in [1 .. n -> Nodes], Shape(n, s), ~raced',
         NEW c \in Conns,
         Serve(c) \/ EndLock(c) \/ EndUnlock(c) \/ SignalLock(c) \/ Signal(c)
  PROVE  Sane' /\ Shape(n, s)'
  <1>0. Kinds /\ (signalled => n > 0) /\ (InPass => mutex = Nobody)
    BY KindsHold DEF Shape, Joining, Sane, Places
  <1>1. CASE Serve(c)
    BY <1>0, <1>1, ConnMove DEF Serve, Move, listvars, joining, faults
  <1>2. CASE EndLock(c)
    <2>1. UNCHANGED <<fault, raced>> /\ ~InPass
      BY <1>0, <1>2 DEF EndLock, Sane, Kinds
    <2>2. QED
      BY <1>0, <1>2, <2>1, ConnMove DEF EndLock, Move, joining
  <1>5. CASE SignalLock(c)
    BY <1>0, <1>5, ConnMove DEF SignalLock, Move, listvars, joining, faults
  <1>3. CASE EndUnlock(c)
    BY <1>0, <1>3, ConnMove DEF EndUnlock, Move, joining, faults
  <1>4. CASE Signal(c)
    <2>1. signalled' => n > 0
      <3>1. CASE Waiting
        <4>1. \E i \in 1 .. n : Tid(s[i]) = id[c]
          BY <1>4, <3>1 DEF Signal, Move, Waiting, Shape, Inserting
        <4>2. QED
          BY <4>1
      <3>2. CASE ~Waiting
        BY <1>0, <1>4, <3>2 DEF Signal
      <3>3. QED
        BY <3>1, <3>2
    <2>2. QED
      BY <1>0, <1>4, <2>1, ConnMove DEF Signal, Move, listvars, heap, faults
  <1>6. QED
    BY <1>1, <1>2, <1>3, <1>4, <1>5

(* A connection calls insert_element_to_linked_list_no_mutex.              *)
LEMMA EndInsertSane ==
  ASSUME TypeInv, Sane, NEW n \in Nat, NEW s \in [1 .. n -> Nodes], Shape(n, s),
         NEW c \in Conns, EndInsert(c) \/ EndStatus(c)
  PROVE  Sane' /\ Shape(n, s)'
  <1>0. Kinds
    BY KindsHold
  <1>1. /\ UNCHANGED <<exists, head, node, mutex, reg, id, joined, signalled, old_head,
                       new_head, to_write, fault, raced>>
        /\ pc[c] = "idle"
        /\ \/ /\ at[c] = "insert" /\ at' = [at EXCEPT ![c] = "status"]
              /\ pc' = [pc EXCEPT ![c] = "malloc"]
              /\ call' = [call EXCEPT ![c] = [fn |-> "insert_no_mutex", data |-> Described(c)]]
           \/ /\ at[c] = "status" /\ at' = [at EXCEPT ![c] = "unlock"]
              /\ pc' = [pc EXCEPT ![c] = "start"]
              /\ call' = [call EXCEPT ![c] = [fn |-> "set_status_no_mutex",
                                              data |-> Described(c)]]
    BY DEF EndInsert, EndStatus, Move, Enter, Step, Goto, Entry, heap, joining, faults
  <1>2. /\ \A p \in Procs \ {c} : at'[p] = at[p] /\ pc'[p] = pc[p] /\ call'[p] = call[p]
        /\ \/ /\ at[c] = "insert" /\ at'[c] = "status" /\ pc'[c] = "malloc"
              /\ call'[c] = [fn |-> "insert_no_mutex", data |-> Described(c)]
           \/ /\ at[c] = "status" /\ at'[c] = "unlock" /\ pc'[c] = "start"
              /\ call'[c] = [fn |-> "set_status_no_mutex", data |-> Described(c)]
        /\ at'[Joiner] = at[Joiner] /\ at'[Listener] = at[Listener]
        /\ pc'[Joiner] = pc[Joiner] /\ call'[Joiner] = call[Joiner]
    BY <1>0, <1>1 DEF Kinds
  <1>12. \A d \in Conns :
            /\ Has(d)' <=> Has(d)
            /\ at'[d] = "none" <=> at[d] = "none"
            /\ Described(d)' = Described(d)
    BY <1>0, <1>1, <1>2 DEF Has, Described, Kinds
  <1>3. Callers'
    <2>1. Callers
      BY DEF Sane
    <2>2. pc'[Listener] = "idle" /\ \A h \in Handlers : pc'[h] = "idle"
      BY <1>0, <1>2, <2>1 DEF Callers, Kinds
    <2>3. ASSUME NEW d \in Conns \ {c}
          PROVE  at'[d] = at[d] /\ pc'[d] = pc[d] /\ call'[d] = call[d]
      BY <1>0, <1>2 DEF Kinds
    <2>4. QED
      BY <1>2, <1>12, <2>1, <2>2, <2>3 DEF Callers
  <1>4. Unique'
    BY <1>1, <1>12 DEF Sane, Unique
  <1>10. ~SignalCame'
    BY <1>0, <1>2 DEF Sane, SignalCame, Kinds
  <1>11. Places'
    <2>1. \A d \in Conns \ {c} : at'[d] = at[d]
      BY <1>0, <1>2 DEF Kinds
    <2>2. QED
      BY <1>1, <1>2, <1>12, <2>1 DEF Sane, Places, InPass
  <1>5. Chained(n, s)' /\ Owned(n, s)'
    BY <1>1, <1>12 DEF Shape, Chained, Owned, Owner, Tid
  <1>6. Headed(n, s)'
    <2>1. (\A d \in Conns : pc'[d] # "link") => \A d \in Conns : pc[d] # "link"
      BY <1>0, <1>1, <1>2 DEF Kinds
    <2>2. QED
      BY <1>1, <1>2, <2>1 DEF Shape, Headed, First
  <1>7. Joining(n, s)'
    <2>1. (\E d \in Conns : pc[d] = "link") => \E d \in Conns : pc'[d] = "link"
      BY <1>0, <1>1, <1>2 DEF Kinds
    <2>2. QED
      BY <1>1, <1>2, <1>12, <2>1 DEF Shape, Joining, Aside, Owner, Tid
  <1>8. ASSUME NEW d \in Conns PROVE Inserting(d, n, s)'
    <2>1. CASE d = c
      BY <1>1, <1>2, <2>1 DEF Shape, Inserting, Tid, Has
    <2>2. CASE d # c
      <3>1. Inserting(d, n, s) /\ at'[d] = at[d] /\ pc'[d] = pc[d]
        BY <1>0, <1>2, <2>2 DEF Shape, Kinds
      <3>2. QED
        BY <1>1, <1>2, <1>12, <3>1 DEF Inserting, Aside, First, Tid
    <2>3. QED
      BY <2>1, <2>2
  <1>9. QED
    BY <1>1, <1>3, <1>4, <1>5, <1>6, <1>7, <1>8, <1>10, <1>11 DEF Sane, Shape


-----------------------------------------------------------------------------
(* What a step of connection c inside the list's functions leaves alone.   *)
StepsTo(c, there) ==
  /\ pc' = [pc EXCEPT ![c] = there]
  /\ UNCHANGED <<exists, mutex, at, id, joined, signalled, old_head, new_head, to_write>>
  /\ UNCHANGED <<fault, raced>>

LEMMA StepSane ==
  ASSUME Kinds, Sane, NEW c \in Conns, pc[c] # "idle", NEW there, StepsTo(c, there),
         UNCHANGED call,
         \/ at[c] = "status" /\ there \in {"read", "publish", "link", "return"}
         \/ at[c] = "unlock" /\ there \in {"walk", "mark", "return"}
  PROVE  Sane'
  <1>1. /\ pc'[c] = there /\ \A p \in Procs \ {c} : pc'[p] = pc[p]
        /\ UNCHANGED <<exists, mutex, at, id, joined, to_write, fault, raced, call>>
    BY DEF StepsTo, Kinds
  <1>2. Callers'
    <2>1. pc'[Listener] = "idle" /\ pc'[Joiner] = pc[Joiner] /\ \A h \in Handlers : pc'[h] = "idle"
      BY <1>1 DEF Sane, Callers, Kinds
    <2>2. \A d \in Conns : Described(d)' = Described(d)
      BY <1>1 DEF Described
    <2>3. \A d \in Conns \ {c} : pc'[d] = pc[d]
      BY <1>1 DEF Kinds
    <2>4. QED
      BY <1>1, <2>1, <2>2, <2>3 DEF Sane, Callers
  <1>3. Unique' /\ ~SignalCame' /\ Places'
    BY <1>1 DEF Sane, Unique, SignalCame, Places, InPass
  <1>4. QED
    BY <1>1, <1>2, <1>3 DEF Sane

(* A connection in the list's functions is alone there: it may change the  *)
(* list from s to t.                                                       *)
LEMMA StepShape ==
  ASSUME Kinds, Sane, NEW c \in Conns, pc[c] # "idle", NEW there, StepsTo(c, there),
         NEW n \in Nat, NEW s \in [1 .. n -> Nodes], Shape(n, s),
         NEW m \in Nat, NEW t \in [1 .. m -> Nodes],
         n > 0 => m > 0, pc[c] = "link" => m > 0,
         \A i \in 1 .. n : \E j \in 1 .. m : Tid(t[j])' = Tid(s[i]),
         Chained(m, t)', Headed(m, t)', Owned(m, t)', Inserting(c, m, t)'
  PROVE  Shape(m, t)'
  <1>1. /\ pc'[c] = there /\ \A p \in Procs \ {c} : pc'[p] = pc[p]
        /\ UNCHANGED <<at, id, signalled>>
    BY DEF StepsTo, Kinds
  <1>2. /\ at[Joiner] \in {"lock", "wait", "unlock", "head"} /\ pc'[Joiner] = "idle"
        /\ \A d \in Conns \ {c} : /\ pc[d] = "idle" /\ pc'[d] = "idle"
                                  /\ at[d] \notin {"insert", "status", "unlock"}
    BY <1>1, Alone DEF Sane, Kinds
  <1>3. Joining(m, t)'
    <2>1. signalled => n > 0
      BY DEF Shape, Joining
    <2>2. at[Joiner] \in {"unlock", "head"} => n > 0 \/ pc[c] = "link"
      BY <1>2 DEF Shape, Joining
    <2>3. QED
      BY <1>1, <1>2, <2>1, <2>2 DEF Joining
  <1>4. ASSUME NEW d \in Conns \ {c} PROVE Inserting(d, m, t)'
    <2>1. at[d] \in {"signal_lock", "signal"} => \E i \in 1 .. n : Tid(s[i]) = id[d]
      BY <1>2 DEF Shape, Inserting
    <2>2. at[d] \in {"signal_lock", "signal"} => \E j \in 1 .. m : Tid(t[j])' = id[d]
      BY <2>1
    <2>3. QED
      BY <1>1, <1>2, <2>2 DEF Inserting, Tid
  <1>5. QED
    BY <1>3, <1>4 DEF Shape

(* The list itself stays.                                                  *)
LEMMA SameShape ==
  ASSUME Kinds, Sane, NEW c \in Conns, pc[c] # "idle", NEW there, StepsTo(c, there),
         pc[c] # "link", NEW n \in Nat, NEW s \in [1 .. n -> Nodes], Shape(n, s),
         \A i \in 1 .. n : /\ node'[s[i]] # Free /\ node'[s[i]].next = node[s[i]].next
                           /\ Tid(s[i])' = Tid(s[i]),
         there = "link" \/ UNCHANGED head, Has(c) => Has(c)', Inserting(c, n, s)'
  PROVE  Shape(n, s)'
  <1>1. /\ pc'[c] = there /\ \A p \in Procs \ {c} : pc'[p] = pc[p]
        /\ UNCHANGED <<at, id, joined, signalled>>
    BY DEF StepsTo, Kinds
  <1>2. Chained(n, s)'
    BY DEF Shape, Chained, Tid
  <1>3. Headed(n, s)'
    <2>1. \A d \in Conns : pc[d] # "link"
      BY Alone DEF Sane
    <2>2. there = "link" => ~ \A d \in Conns : pc'[d] # "link"
      BY <1>1
    <2>3. QED
      BY <1>1, <2>1, <2>2 DEF Shape, Headed, First
  <1>4. \A d \in Conns : Has(d) => Has(d)'
    BY <1>1 DEF Has, Kinds
  <1>5. Owned(n, s)'
    BY <1>1, <1>4 DEF Shape, Owned, Owner, Tid
  <1>6. \A i \in 1 .. n : \E j \in 1 .. n : Tid(s[j])' = Tid(s[i])
    OBVIOUS
  <1>7. QED
    BY <1>2, <1>3, <1>5, <1>6, StepShape

(* The steps of insert_element_to_linked_list_no_mutex.                    *)
LEMMA InsertShape ==
  ASSUME TypeInv, Sane, NEW c \in Conns, Malloc(c) \/ Read(c) \/ Publish(c),
         UNCHANGED <<at, id, joining, to_write, faults>>,
         NEW n \in Nat, NEW s \in [1 .. n -> Nodes], Shape(n, s)
  PROVE  Sane' /\ Shape(n, s)'
  <1>0. Kinds /\ c \in Procs
    BY KindsHold DEF Kinds
  <1> USE DEF Step
  <1>1. /\ at[c] = "status" /\ call[c].fn = "insert_no_mutex" /\ call[c].data = Described(c)
        /\ ~Has(c) /\ pc[c] # "idle" /\ pc[c] # "link"
    <2>1. pc[c] \in {"malloc", "read", "publish"}
      BY DEF Malloc, Read, Publish
    <2>2. at[c] = "status" /\ call[c].fn = "insert_no_mutex" /\ call[c].data = Described(c)
      BY <2>1 DEF Sane, Callers
    <2>3. QED
      BY <1>0, <2>1, <2>2 DEF Has, Kinds
  <1>2. CASE Malloc(c)
    <2>1. AfterMalloc[call[c].fn] = "read" /\ call[c].fn \notin Gets
      BY <1>1 DEF AfterMalloc, Gets
    <2>2. PICK a \in Nodes \ Live :
            /\ node' = [node EXCEPT ![a] = [next |-> Garbage, data |-> Described(c)]]
            /\ reg' = [reg EXCEPT ![c].new = a]
      BY <1>1, <1>2, <2>1 DEF Malloc
    <2>3. StepsTo(c, "read") /\ UNCHANGED <<head, call>>
      BY <1>2, <2>1 DEF Malloc, StepsTo, Goto, joining, faults
    <2>4. Sane'
      BY <1>0, <1>1, <2>3, StepSane
    <2>5. node[a] = Free /\ a \in Nodes
      BY <2>2 DEF Live
    <2>6. /\ node'[a] = [next |-> Garbage, data |-> Described(c)] /\ node'[a] # Free
          /\ \A b \in Nodes \ {a} : node'[b] = node[b]
          /\ Tid(a)' = id[c] /\ reg'[c].new = a
      <3>1. node'[a] = [next |-> Garbage, data |-> Described(c)] /\ reg'[c].new = a
        BY <1>0, <2>2, <2>5 DEF Kinds
      <3>2. node'[a] # Free
        <4>1. [next |-> Garbage, data |-> Described(c)] \in Contents
          BY DescribedType DEF TypeInv, ThreadTypes, Contents, Pointers
        <4>2. QED
          BY <1>0, <3>1, <4>1 DEF Kinds
      <3>3. QED
        BY <1>0, <2>2, <3>1, <3>2 DEF Kinds, Tid, Described
    <2>7. ASSUME NEW i \in 1 .. n
          PROVE  s[i] # a /\ node'[s[i]] = node[s[i]] /\ node[s[i]] # Free
      BY <2>5, <2>6 DEF Shape, Chained
    <2>8. Inserting(c, n, s)'
      BY <1>0, <1>1, <2>3, <2>5, <2>6, <2>7 DEF Inserting, StepsTo, Aside, Has, Kinds
    <2>9. QED
      BY <1>0, <1>1, <2>3, <2>4, <2>7, <2>8, SameShape DEF Tid
  <1>3. CASE Read(c)
    <2>1. StepsTo(c, "publish") /\ UNCHANGED <<head, node, call>>
      BY <1>3 DEF Read, StepsTo, Goto, joining, faults, heap
    <2>2. Sane'
      BY <1>0, <1>1, <2>1, StepSane
    <2>3. head = First(n, s)
      BY <1>0, <1>1, Alone DEF Sane, Shape, Headed
    <2>4. reg'[c].old = head /\ reg'[c].new = reg[c].new
      BY <1>0, <1>3 DEF Read, Kinds
    <2>5. Aside(reg[c].new, n, s) /\ Tid(reg[c].new) = id[c]
      BY <1>3 DEF Read, Shape, Inserting
    <2>6. Inserting(c, n, s)'
      BY <1>0, <1>1, <2>1, <2>3, <2>4, <2>5
      DEF Inserting, StepsTo, Aside, Has, First, Tid, Kinds
    <2>7. QED
      BY <1>0, <1>1, <2>1, <2>2, <2>6, SameShape DEF Tid, Shape, Chained
  <1>4. CASE Publish(c)
    <2>1. StepsTo(c, "link") /\ UNCHANGED <<node, call>>
      BY <1>4 DEF Publish, StepsTo, Goto, joining, faults
    <2>2. Sane'
      BY <1>0, <1>1, <2>1, StepSane
    <2>3. head' = reg[c].new /\ reg'[c].old = reg[c].old
      BY <1>0, <1>4 DEF Publish, Kinds
    <2>4. /\ Aside(reg[c].new, n, s) /\ Tid(reg[c].new) = id[c]
          /\ reg[c].old = First(n, s)
      BY <1>4 DEF Publish, Shape, Inserting
    <2>5. Inserting(c, n, s)'
      BY <1>0, <1>1, <2>1, <2>3, <2>4
      DEF Inserting, StepsTo, Aside, Has, First, Tid, Kinds
    <2>6. QED
      BY <1>0, <1>1, <2>1, <2>2, <2>5, SameShape DEF Tid, Shape, Chained
  <1>5. QED
    BY <1>2, <1>3, <1>4

(* The node that was published becomes the first of the list.              *)
LEMMA LinkShape ==
  ASSUME TypeInv, JoinCount, Sane, NEW c \in Conns, Link(c),
         UNCHANGED <<at, id, joining, to_write, faults>>,
         NEW n \in Nat, NEW s \in [1 .. n -> Nodes], Shape(n, s)
  PROVE  Sane' /\ Shaped'
  <1>0. Kinds /\ c \in Procs
    BY KindsHold DEF Kinds
  <1>1. /\ pc[c] = "link" /\ at[c] = "status" /\ call[c].fn = "insert_no_mutex" /\ ~Has(c)
    BY <1>0 DEF Link, Step, Sane, Callers, Has, Kinds
  <1>2. StepsTo(c, "return") /\ UNCHANGED <<head, call, reg>>
    BY <1>1, FinishReturns DEF Link, Called, StepsTo, Goto, joining, faults
  <1>3. Sane'
    BY <1>0, <1>1, <1>2, StepSane
  <1>4. /\ Aside(head, n, s) /\ Tid(head) = id[c] /\ reg[c].old = First(n, s)
        /\ head \in Nodes /\ node[head] \in Contents
    <2>1. /\ Aside(head, n, s) /\ Tid(head) = id[c] /\ reg[c].old = First(n, s)
      BY <1>1 DEF Shape, Inserting
    <2>2. QED
      BY <1>0, <2>1 DEF Aside, Kinds
  <1>5. /\ node'[head] # Free /\ node'[head].next = First(n, s) /\ Tid(head)' = id[c]
        /\ \A a \in Nodes \ {head} : node'[a] = node[a]
    <2>1. node' = [node EXCEPT ![head] = [node[head] EXCEPT !.next = First(n, s)]]
      BY <1>4 DEF Link
    <2>2. [node[head] EXCEPT !.next = First(n, s)] \in Contents
      BY <1>0, <1>4 DEF Contents, First, Pointers
    <2>3. node'[head] = [node[head] EXCEPT !.next = First(n, s)]
      BY <1>0, <1>4, <2>1 DEF Kinds
    <2>4. QED
      BY <1>0, <1>2, <1>4, <2>1, <2>2, <2>3 DEF Kinds, Contents, Tid
  <1>6. PICK t \in [1 .. n + 1 -> Nodes] :
          /\ t[1] = head
          /\ \A i \in 1 .. n : t[i + 1] = s[i]
          /\ \A i \in 1 .. n + 1 : i = 1 \/ \E j \in 1 .. n : i = j + 1
    <2> DEFINE u == [i \in 1 .. n + 1 |-> IF i = 1 THEN head ELSE s[i - 1]]
    <2>1. ASSUME NEW i \in 1 .. n + 1 PROVE i = 1 \/ \E j \in 1 .. n : i = j + 1
      <3>1. CASE i # 1
        <4>1. i - 1 \in 1 .. n /\ i = (i - 1) + 1
          BY <3>1
        <4>2. QED
          BY <4>1
      <3>2. QED
        BY <3>1
    <2>2. u \in [1 .. n + 1 -> Nodes] /\ u[1] = head /\ \A i \in 1 .. n : u[i + 1] = s[i]
      BY <1>4
    <2>3. QED
      BY <2>1, <2>2
  <1>7. \A i \in 1 .. n : s[i] # head /\ node'[s[i]] = node[s[i]] /\ Tid(s[i])' = Tid(s[i])
    BY <1>4, <1>5 DEF Aside, Tid
  <1>8. \A i \in 1 .. n : Tid(s[i]) # id[c]
    <2>1. ASSUME NEW i \in 1 .. n, Tid(s[i]) = id[c] PROVE FALSE
      <3>1. PICK d \in Conns \ joined : Has(d) /\ id[d] = id[c]
        BY <2>1 DEF Shape, Owned, Owner
      <3>2. c \notin joined
        BY <1>1 DEF JoinCount, EndedConns
      <3>3. at[d] # "none"
        BY <3>1 DEF Has
      <3>4. QED
        BY <1>1, <3>1, <3>2, <3>3 DEF Sane, Unique
    <2>2. QED
      BY <2>1
  <1>9. Chained(n + 1, t)'
    <2>1. ASSUME NEW i \in 1 .. n + 1
          PROVE  /\ node'[t[i]] # Free
                 /\ node'[t[i]].next = IF i < n + 1 THEN t[i + 1] ELSE NULL
      <3>1. CASE i = 1
        BY <1>5, <1>6, <3>1 DEF First
      <3>2. CASE i # 1
        <4>1. PICK j \in 1 .. n : i = j + 1
          BY <1>6, <3>2
        <4>2. t[i] = s[j] /\ node'[s[j]] = node[s[j]]
          BY <1>6, <1>7, <4>1
        <4>3. /\ node[s[j]] # Free
              /\ node[s[j]].next = IF j < n THEN s[j + 1] ELSE NULL
          BY DEF Shape, Chained
        <4>4. j < n => t[i + 1] = s[j + 1]
          BY <1>6, <4>1
        <4>5. QED
          BY <4>1, <4>2, <4>3, <4>4
      <3>3. QED
        BY <3>1, <3>2
    <2>2. ASSUME NEW i \in 1 .. n + 1, NEW j \in 1 .. n + 1, Tid(t[i])' = Tid(t[j])'
          PROVE  i = j
      <3>1. ASSUME NEW k \in 2 .. n + 1 PROVE Tid(t[k])' = Tid(s[k - 1]) /\ k - 1 \in 1 .. n
        <4>1. k - 1 \in 1 .. n /\ t[k] = s[k - 1]
          BY <1>6
        <4>2. QED
          BY <1>7, <4>1
      <3>2. Tid(t[1])' = id[c]
        BY <1>2, <1>5, <1>6 DEF Tid
      <3>3. CASE i = 1 \/ j = 1
        <4>1. i # 1 => Tid(t[i])' # id[c]
          BY <1>8, <3>1
        <4>2. j # 1 => Tid(t[j])' # id[c]
          BY <1>8, <3>1
        <4>3. QED
          BY <2>2, <3>2, <3>3, <4>1, <4>2
      <3>4. CASE i # 1 /\ j # 1
        <4>1. /\ Tid(s[i - 1]) = Tid(s[j - 1])
              /\ i - 1 \in 1 .. n /\ j - 1 \in 1 .. n
          BY <2>2, <3>1, <3>4
        <4>2. i - 1 = j - 1
          BY <4>1 DEF Shape, Chained
        <4>3. QED
          BY <4>2
      <3>5. QED
        BY <3>3, <3>4
    <2>3. QED
      BY <2>1, <2>2 DEF Chained
  <1>10. Headed(n + 1, t)'
    <2>1. at[Joiner] # "none"
      BY <1>0, <1>1, Alone DEF Sane
    <2>2. n + 1 # 0 /\ head' = t[1] /\ at'[Joiner] = at[Joiner]
      BY <1>2, <1>6 DEF StepsTo
    <2>3. QED
      BY <2>1, <2>2 DEF Headed, First
  <1>11. Has(c)' /\ \A d \in Conns : Has(d) => Has(d)'
    BY <1>0, <1>1, <1>2 DEF Has, StepsTo, Kinds
  <1>12. Owned(n + 1, t)'
    <2>1. c \in Conns \ joined
      BY <1>1 DEF JoinCount, EndedConns
    <2>2. Owner(t[1])'
      BY <1>2, <1>5, <1>6, <1>11, <2>1 DEF Owner, StepsTo, Tid
    <2>3. ASSUME NEW i \in 1 .. n PROVE Owner(s[i])'
      <3>1. PICK d \in Conns \ joined : Has(d) /\ id[d] = Tid(s[i])
        BY DEF Shape, Owned, Owner
      <3>2. QED
        BY <1>2, <1>7, <1>11, <3>1 DEF Owner, StepsTo
    <2>4. QED
      BY <1>6, <2>2, <2>3 DEF Owned
  <1>13. Inserting(c, n + 1, t)'
    BY <1>0, <1>1, <1>2, <1>5, <1>6 DEF Inserting, StepsTo, Kinds
  <1>14. \A i \in 1 .. n : \E j \in 1 .. n + 1 : Tid(t[j])' = Tid(s[i])
    <2>1. ASSUME NEW i \in 1 .. n PROVE i + 1 \in 1 .. n + 1 /\ Tid(t[i + 1])' = Tid(s[i])
      BY <1>6, <1>7
    <2>2. QED
      BY <2>1
  <1>15. Shape(n + 1, t)'
    <2>1. n + 1 \in Nat /\ n + 1 > 0 /\ pc[c] # "idle"
      BY <1>1
    <2>2. QED
      BY <1>0, <1>2, <1>9, <1>10, <1>12, <1>13, <1>14, <2>1, StepShape
  <1>16. QED
    BY <1>3, <1>6, <1>15 DEF Shaped

(* The steps of set_status_no_mutex, which finds its node at once.         *)
LEMMA StatusShape ==
  ASSUME TypeInv, Sane, NEW c \in Conns, Start(c) \/ Walk(c) \/ Mark(c),
         UNCHANGED <<at, id, joining, to_write, faults>>,
         NEW n \in Nat, NEW s \in [1 .. n -> Nodes], Shape(n, s)
  PROVE  Sane' /\ Shape(n, s)'
  <1>0. Kinds /\ c \in Procs
    BY KindsHold DEF Kinds
  <1> USE DEF Step
  <1>1. /\ at[c] = "unlock" /\ call[c].fn = "set_status_no_mutex"
        /\ call[c].data = Described(c) /\ Has(c) /\ pc[c] # "idle" /\ pc[c] # "link"
    <2>1. pc[c] \in {"start", "walk", "mark"}
      BY DEF Start, Walk, Mark
    <2>2. QED
      BY <2>1 DEF Sane, Callers, Has
  <1>2. n > 0 /\ s[1] \in Nodes /\ Tid(s[1]) = id[c] /\ node[s[1]] # Free
    BY <1>1 DEF Shape, Inserting, Chained
  <1>3. CASE Start(c)
    <2>1. /\ StepsTo(c, "walk") /\ UNCHANGED <<head, node, call>>
          /\ reg' = [reg EXCEPT ![c].temp = head, ![c].prev = head]
      BY <1>1, <1>3 DEF Start, StepsTo, Goto, joining, faults, heap
    <2>2. Sane'
      BY <1>0, <1>1, <2>1, StepSane
    <2>3. head = s[1]
      BY <1>0, <1>1, <1>2, Alone DEF Sane, Shape, Headed, First
    <2>4. reg'[c].temp = s[1]
      BY <1>0, <2>1, <2>3 DEF Kinds
    <2>5. Inserting(c, n, s)'
      BY <1>0, <1>1, <1>2, <2>1, <2>4 DEF Inserting, StepsTo, Tid, Kinds
    <2>6. QED
      BY <1>0, <1>1, <2>1, <2>2, <2>5, SameShape DEF Tid, Shape, Chained, Has, StepsTo
  <1>4. CASE Walk(c)
    <2>1. reg[c].temp = s[1]
      BY <1>4 DEF Walk, Shape, Inserting
    <2>2. s[1] # NULL /\ Matches(c, node[s[1]].data)
      BY <1>0, <1>1, <1>2 DEF Matches, Described, Tid, Kinds
    <2>3. /\ StepsTo(c, "mark") /\ UNCHANGED <<head, node, call, reg>>
      BY <1>1, <1>4, <2>1, <2>2 DEF Walk, AfterMatch, StepsTo, Goto, joining, faults, heap
    <2>4. Sane'
      BY <1>0, <1>1, <2>3, StepSane
    <2>5. Inserting(c, n, s)'
      BY <1>0, <1>1, <1>2, <2>1, <2>3 DEF Inserting, StepsTo, Tid, Kinds
    <2>6. QED
      BY <1>0, <1>1, <2>3, <2>4, <2>5, SameShape DEF Tid, Shape, Chained, Has, StepsTo
  <1>5. CASE Mark(c)
    <2>1. reg[c].temp = s[1]
      BY <1>5 DEF Mark, Shape, Inserting
    <2>2. /\ StepsTo(c, "return") /\ UNCHANGED <<head, call, reg>>
          /\ node' = [node EXCEPT ![s[1]].data.completion = TRUE]
      BY <1>1, <1>5, <2>1, FinishReturns DEF Mark, Called, StepsTo, Goto, joining, faults
    <2>3. Sane'
      BY <1>0, <1>1, <2>2, StepSane
    <2>4. node[s[1]] \in Contents
      BY <1>0, <1>2 DEF Kinds
    <2>5. /\ node'[s[1]] = [node[s[1]] EXCEPT !.data.completion = TRUE]
          /\ \A a \in Nodes \ {s[1]} : node'[a] = node[a]
      BY <1>0, <1>2, <2>2 DEF Kinds
    <2>6. /\ node'[s[1]] \in Contents /\ node'[s[1]].next = node[s[1]].next
          /\ node'[s[1]].data.thread_id = node[s[1]].data.thread_id
      BY <2>4, <2>5 DEF Contents, Descriptions
    <2>7. ASSUME NEW i \in 1 .. n
          PROVE  /\ node'[s[i]] # Free /\ node'[s[i]].next = node[s[i]].next
                 /\ Tid(s[i])' = Tid(s[i])
      <3>1. CASE s[i] = s[1]
        BY <1>0, <2>6, <3>1 DEF Kinds, Tid
      <3>2. CASE s[i] # s[1]
        BY <2>5, <3>2 DEF Tid, Shape, Chained
      <3>3. QED
        BY <3>1, <3>2
    <2>8. Inserting(c, n, s)'
      BY <1>0, <1>1, <1>2, <2>2, <2>6 DEF Inserting, StepsTo, Tid, Kinds
    <2>9. Has(c)'
      BY <1>1, <2>2 DEF Has, StepsTo
    <2>10. QED
      BY <1>0, <1>1, <2>2, <2>3, <2>7, <2>8, <2>9, SameShape
  <1>6. QED
    BY <1>3, <1>4, <1>5

(* A connection leaves the list's functions.                               *)
LEMMA ReturnShape ==
  ASSUME TypeInv, Sane, NEW c \in Conns, Return(c),
         UNCHANGED <<at, id, joining, to_write, faults>>,
         NEW n \in Nat, NEW s \in [1 .. n -> Nodes], Shape(n, s)
  PROVE  Sane' /\ Shape(n, s)'
  <1>0. Kinds /\ c \in Procs
    BY KindsHold DEF Kinds
  <1>1. /\ pc[c] = "return" /\ Has(c) /\ at[c] \in {"status", "unlock"}
        /\ StepsTo(c, "idle") /\ UNCHANGED <<head, node>>
        /\ \A p \in Procs \ {c} : call'[p] = call[p]
    BY <1>0 DEF Return, Step, Goto, StepsTo, joining, faults, heap, Sane, Callers, Has, Kinds
  <1>2. n > 0 /\ Tid(s[1]) = id[c]
    BY <1>1 DEF Shape, Inserting
  <1>3. Has(c)' /\ pc'[c] = "idle" /\ \A p \in Procs \ {c} : pc'[p] = pc[p]
    BY <1>0, <1>1 DEF Has, StepsTo, Kinds
  <1>4. Inserting(c, n, s)'
    BY <1>1, <1>2, <1>3 DEF Inserting, StepsTo, Tid
  <1>5. Shape(n, s)'
    BY <1>0, <1>1, <1>3, <1>4, SameShape DEF Tid, Shape, Chained
  <1>6. Callers'
    <2>1. pc'[Listener] = "idle" /\ \A h \in Handlers : pc'[h] = "idle"
      BY <1>0, <1>3 DEF Sane, Callers, Kinds
    <2>2. pc'[Joiner] = pc[Joiner] /\ call'[Joiner] = call[Joiner]
      BY <1>0, <1>1, <1>3 DEF Kinds
    <2>3. \A d \in Conns : Described(d)' = Described(d)
      BY <1>1 DEF Described, StepsTo
    <2>4. \A d \in Conns \ {c} : pc'[d] = pc[d] /\ call'[d] = call[d]
      BY <1>0, <1>1, <1>3 DEF Kinds
    <2>5. QED
      BY <1>1, <1>3, <2>1, <2>2, <2>3, <2>4 DEF Sane, Callers, StepsTo
  <1>7. Unique' /\ ~SignalCame' /\ Places'
    BY <1>1 DEF Sane, Unique, SignalCame, Places, InPass, StepsTo
  <1>8. QED
    BY <1>1, <1>5, <1>6, <1>7 DEF Sane, StepsTo

LEMMA ConnInList ==
  ASSUME TypeInv, JoinCount, Sane, Shaped, NEW c \in Conns, InList(c)
  PROVE  Sane' /\ Shaped'
  <1>0. PICK n \in Nat : \E s \in [1 .. n -> Nodes] : Shape(n, s)
    BY DEF Shaped
  <1>1. PICK s \in [1 .. n -> Nodes] : Shape(n, s)
    BY <1>0
  <1>2. Kinds /\ (Run(c) \/ Return(c)) /\ UNCHANGED <<at, id, joining, to_write, faults>>
    BY KindsHold DEF InList
  <1>3. pc[c] \in {"idle", "malloc", "read", "publish", "link", "start", "walk", "mark", "return"}
    BY <1>2 DEF Sane, Callers
  <1>4. \/ Malloc(c) \/ Read(c) \/ Publish(c) \/ Link(c) \/ Start(c) \/ Walk(c) \/ Mark(c)
        \/ Return(c)
    BY <1>2, <1>3 DEF Run, Step, Lock, Unlock, Unlink, Fetch, Release
  <1>5. CASE Link(c)
    BY <1>1, <1>2, <1>5, LinkShape
  <1>6. CASE ~Link(c)
    <2>1. Sane' /\ Shape(n, s)'
      BY <1>1, <1>2, <1>4, <1>6, InsertShape, StatusShape, ReturnShape
    <2>2. QED
      BY <2>1 DEF Shaped
  <1>7. QED
    BY <1>5, <1>6

-----------------------------------------------------------------------------
(* While the joiner is at work on the list nobody else is.                 *)
LEMMA PassAlone ==
  ASSUME Kinds, Callers, Places, mutex = Nobody
  PROVE  \A c \in Conns : pc[c] = "idle" /\ at[c] \notin {"insert", "status", "unlock"}
  <1>1. ASSUME NEW c \in Conns PROVE at[c] \notin {"insert", "status", "unlock"}
    BY DEF Kinds
  <1>2. QED
    BY <1>1 DEF Callers

(* The joiner goes on between two places where the list stays.             *)
LEMMA JoinerMove ==
  ASSUME Kinds, Sane, NEW n \in Nat, NEW s \in [1 .. n -> Nodes], Shape(n, s),
         NEW there, pc[Joiner] = "idle", at' = [at EXCEPT ![Joiner] = there],
         UNCHANGED <<heap, mutex, pc, call, reg, id, joined, to_write>>,
         UNCHANGED <<fault, raced>>,
         at[Joiner] \in {"lock", "wait", "unlock", "head", "next"},
         there \in {"wait", "unlock", "head", "next", "store"},
         there \in {"next", "store"} => mutex = Nobody, Joining(n, s)'
  PROVE  Sane' /\ Shape(n, s)'
  <1>1. /\ UNCHANGED <<exists, head, node>>
        /\ at'[Joiner] = there /\ \A p \in Procs \ {Joiner} : at'[p] = at[p]
        /\ at'[Listener] = at[Listener] /\ \A c \in Conns : at'[c] = at[c]
        /\ \A c \in Conns : Has(c)' <=> Has(c)
        /\ \A c \in Conns : Described(c)' = Described(c)
    BY DEF heap, Has, Described, Kinds
  <1>2. Callers' /\ Unique'
    BY <1>1 DEF Sane, Callers, Unique
  <1>3. ~SignalCame'
    BY <1>1 DEF Sane, SignalCame, Kinds
  <1>4. Places'
    BY <1>1 DEF Sane, Places, InPass
  <1>5. Chained(n, s)' /\ Headed(n, s)' /\ Owned(n, s)'
    BY <1>1 DEF Shape, Chained, Headed, Owned, Owner, First, Tid
  <1>6. \A c \in Conns : Inserting(c, n, s)'
    BY <1>1 DEF Shape, Inserting, Aside, First, Tid
  <1>7. QED
    BY <1>2, <1>3, <1>4, <1>5, <1>6 DEF Sane, Shape

LEMMA JoinerMoves ==
  ASSUME TypeInv, JoinCount, Sane, NEW n \in Nat, NEW s \in [1 .. n -> Nodes], Shape(n, s),
         ~raced',
         \/ JoinerWait \/ JoinerWake \/ JoinerWakeUnasked \/ JoinerUnlock \/ JoinerHead
         \/ JoinerNext
  PROVE  Sane' /\ Shape(n, s)'
  <1>0. /\ Kinds /\ Joining(n, s) /\ Joiner \in Procs
        /\ (\A c \in Conns : pc[c] # "link") /\ at[Joiner] # "none" => head = First(n, s)
    BY KindsHold DEF Shape, Headed, Kinds
  <1>1. CASE JoinerWait
    <2>1. Joining(n, s)'
      BY <1>0, <1>1
      DEF JoinerWait, Move, listvars, heap, joining, Joining, Aside, Owner, Has, Tid, Kinds
    <2>2. QED
      BY <1>0, <1>1, <2>1, JoinerMove DEF JoinerWait, Move, listvars, joining, faults
  <1>2. CASE JoinerWake
    <2>1. Joining(n, s)'
      BY <1>0, <1>2
      DEF JoinerWake, Move, listvars, heap, Joining, Aside, Owner, Has, Tid, Kinds
    <2>2. QED
      BY <1>0, <1>2, <2>1, JoinerMove DEF JoinerWake, Move, listvars, faults
  <1>3. CASE JoinerWakeUnasked
    <2>1. UNCHANGED raced /\ head # NULL
      BY <1>0, <1>3 DEF JoinerWakeUnasked, Sane, Kinds
    <2>2. n > 0 \/ \E c \in Conns : pc[c] = "link"
      BY <1>0, <1>3, <2>1 DEF JoinerWakeUnasked, Move, First
    <2>3. Joining(n, s)'
      BY <1>0, <1>3, <2>2
      DEF JoinerWakeUnasked, Move, listvars, heap, joining, Joining, Aside, Owner, Has, Tid,
          Kinds
    <2>4. QED
      BY <1>0, <1>3, <2>1, <2>3, JoinerMove DEF JoinerWakeUnasked, Move, listvars, joining
  <1>4. CASE JoinerUnlock
    <2>1. Joining(n, s)'
      BY <1>0, <1>4
      DEF JoinerUnlock, Move, listvars, heap, joining, Joining, Aside, Owner, Has, Tid, Kinds
    <2>2. QED
      BY <1>0, <1>4, <2>1, JoinerMove DEF JoinerUnlock, Move, listvars, joining, faults
  <1>5. CASE JoinerHead
    <2>1. UNCHANGED raced /\ mutex = Nobody
      BY <1>0, <1>5 DEF JoinerHead, Sane, Kinds
    <2>2. n > 0
      BY <1>0, <1>5, <2>1, PassAlone DEF JoinerHead, Move, Joining, Sane
    <2>3. Joining(n, s)'
      BY <1>0, <1>5, <2>2 DEF JoinerHead, Move, listvars, heap, Joining, Kinds
    <2>4. QED
      BY <1>0, <1>5, <2>1, <2>3, JoinerMove DEF JoinerHead, Move, listvars
  <1>6. CASE JoinerNext
    <2>1. mutex = Nobody
      BY <1>6 DEF JoinerNext, Move, Sane, Places, InPass
    <2>2. Joining(n, s)'
      BY <1>0, <1>6 DEF JoinerNext, Move, listvars, heap, Joining, Kinds
    <2>3. QED
      BY <1>0, <1>6, <2>1, <2>2, JoinerMove DEF JoinerNext, Move, listvars, faults
  <1>7. QED
    BY <1>1, <1>2, <1>3, <1>4, <1>5, <1>6

(* What all further steps of the joiner leave alone.                       *)
LEMMA PassSane ==
  ASSUME Kinds, Sane, InPass, NEW there, at' = [at EXCEPT ![Joiner] = there],
         there \in {"join", "remove", "free", "lock"},
         UNCHANGED <<exists, mutex, id, to_write, fault, raced>>,
         joined \subseteq joined', \A c \in Conns : pc'[c] = pc[c],
         pc'[Listener] = pc[Listener], \A h \in Handlers : pc'[h] = pc[h],
         pc'[Joiner] # "idle" =>
           /\ there = "free" /\ call'[Joiner].fn = "remove_no_mutex"
           /\ pc'[Joiner] \in {"start", "walk", "return"}
  PROVE  /\ Sane' /\ \A c \in Conns : Has(c)' <=> Has(c)
         /\ \A c \in Conns : at'[c] = at[c] /\ pc'[c] = "idle"
         /\ \A c \in Conns : at[c] \notin {"insert", "status", "unlock"}
  <1>1. mutex = Nobody
    BY DEF Sane, Places
  <1>2. \A c \in Conns : pc[c] = "idle" /\ at[c] \notin {"insert", "status", "unlock"}
    BY <1>1, PassAlone DEF Sane
  <1>3. /\ at'[Joiner] = there /\ at'[Listener] = at[Listener]
        /\ \A c \in Conns : at'[c] = at[c]
        /\ \A h \in Handlers : at'[h] = at[h]
    BY DEF Kinds
  <1>4. Callers'
    BY <1>2, <1>3 DEF Sane, Callers
  <1>5. Unique'
    BY <1>3 DEF Sane, Unique
  <1>6. ~SignalCame'
    BY <1>3 DEF Sane, SignalCame
  <1>7. Places'
    BY <1>1, <1>3 DEF Sane, Places, InPass
  <1>8. QED
    BY <1>2, <1>3, <1>4, <1>5, <1>6, <1>7 DEF Sane, Has

(* The first node leaves the list, and the joiner has it.                  *)
LEMMA StoreShape ==
  ASSUME TypeInv, JoinCount, Sane, JoinerStore,
         NEW n \in Nat, NEW s \in [1 .. n -> Nodes], Shape(n, s)
  PROVE  Sane' /\ Shaped'
  <1>0. Kinds
    BY KindsHold
  <1>1. /\ at[Joiner] = "store" /\ at' = [at EXCEPT ![Joiner] = "join"] /\ head' = new_head
        /\ UNCHANGED <<exists, node, mutex, pc, call, reg, id, joined, signalled, old_head,
                       to_write, fault, raced>>
        /\ InPass /\ pc[Joiner] = "idle"
    BY DEF JoinerStore, Move, joining, faults, InPass
  <1>2. /\ Sane' /\ \A c \in Conns : Has(c)' <=> Has(c)
        /\ \A c \in Conns : at'[c] = at[c] /\ pc'[c] = "idle"
        /\ \A c \in Conns : at[c] \notin {"insert", "status", "unlock"}
    BY <1>0, <1>1, PassSane
  <1>3. n > 0 /\ old_head = s[1] /\ new_head = node[s[1]].next /\ ~signalled
        /\ at'[Joiner] = "join"
    <2>1. at'[Joiner] = "join" /\ \A c \in Conns : pc[c] # "link"
      BY <1>0, <1>1, <1>2 DEF Kinds
    <2>2. QED
      BY <1>1, <2>1 DEF JoinCount, Shape, Joining, Headed, First
  <1>4. PICK t \in [1 .. n - 1 -> Nodes] : \A i \in 1 .. n - 1 : t[i] = s[i + 1]
    <2>1. [i \in 1 .. n - 1 |-> s[i + 1]] \in [1 .. n - 1 -> Nodes]
      BY <1>3
    <2>2. QED
      BY <2>1
  <1>5. n - 1 \in Nat /\ \A i \in 1 .. n - 1 : i + 1 \in 1 .. n
    BY <1>3
  <1>6. Chained(n - 1, t)'
    <2>1. ASSUME NEW i \in 1 .. n - 1
          PROVE  node'[t[i]] # Free /\ node'[t[i]].next = IF i < n - 1 THEN t[i + 1] ELSE NULL
      <3>1. /\ node[s[i + 1]] # Free
            /\ node[s[i + 1]].next = IF i + 1 < n THEN s[i + 1 + 1] ELSE NULL
        BY <1>5 DEF Shape, Chained
      <3>2. i < n - 1 => i + 1 < n /\ t[i + 1] = s[i + 1 + 1]
        BY <1>4
      <3>3. QED
        BY <1>1, <1>4, <3>1, <3>2
    <2>2. ASSUME NEW i \in 1 .. n - 1, NEW j \in 1 .. n - 1, Tid(t[i])' = Tid(t[j])'
          PROVE  i = j
      <3>1. Tid(s[i + 1]) = Tid(s[j + 1])
        BY <1>1, <1>4, <2>2 DEF Tid
      <3>2. i + 1 = j + 1
        BY <1>5, <3>1 DEF Shape, Chained
      <3>3. QED
        BY <3>2
    <2>3. QED
      BY <2>1, <2>2 DEF Chained
  <1>7. Headed(n - 1, t)'
    <2>1. new_head = IF 1 < n THEN s[2] ELSE NULL
      BY <1>3 DEF Shape, Chained
    <2>2. 1 < n => t[1] = s[2]
      BY <1>4
    <2>3. QED
      BY <1>1, <1>3, <2>1, <2>2 DEF Headed, First
  <1>8. \A i \in 1 .. n : Owner(s[i])'
    BY <1>1, <1>2 DEF Shape, Owned, Owner, Tid
  <1>9. Owned(n - 1, t)'
    BY <1>4, <1>5, <1>8 DEF Owned
  <1>10. ASSUME NEW i \in 1 .. n - 1 PROVE t[i] # old_head /\ Tid(t[i]) # Tid(old_head)
    <2>1. Tid(s[i + 1]) # Tid(s[1])
      BY <1>3, <1>5 DEF Shape, Chained
    <2>2. QED
      BY <1>3, <1>4, <2>1
  <1>11. Joining(n - 1, t)'
    <2>1. Aside(old_head, n - 1, t)'
      BY <1>1, <1>3, <1>10 DEF Aside, Shape, Chained
    <2>2. Owner(old_head)'
      BY <1>1, <1>3, <1>8 DEF Owner, Tid
    <2>3. QED
      BY <1>1, <1>3, <1>10, <2>1, <2>2 DEF Joining, Tid
  <1>12. ASSUME NEW c \in Conns PROVE Inserting(c, n - 1, t)'
    <2>1. CASE at[c] \in {"signal_lock", "signal"}
      <3>1. PICK i \in 1 .. n : Tid(s[i]) = id[c]
        BY <1>1, <2>1 DEF Shape, Inserting
      <3>2. CASE i = 1
        BY <1>1, <1>2, <1>3, <2>1, <3>1, <3>2 DEF Inserting, Tid
      <3>3. CASE i # 1
        <4>1. i - 1 \in 1 .. n - 1 /\ t[i - 1] = s[i]
          BY <1>4, <3>3
        <4>2. QED
          BY <1>1, <1>2, <2>1, <3>1, <4>1 DEF Inserting, Tid
      <3>4. QED
        BY <3>2, <3>3
    <2>2. CASE at[c] \notin {"signal_lock", "signal"}
      BY <1>1, <1>2, <2>2 DEF Inserting
    <2>3. QED
      BY <2>1, <2>2
  <1>13. Shape(n - 1, t)'
    BY <1>6, <1>7, <1>9, <1>11, <1>12 DEF Shape
  <1>14. QED
    BY <1>2, <1>5, <1>13 DEF Shaped

(* The thread that is joined is not that of a node in the list.            *)
LEMMA JoinShape ==
  ASSUME TypeInv, JoinCount, Sane, JoinerJoin,
         NEW n \in Nat, NEW s \in [1 .. n -> Nodes], Shape(n, s)
  PROVE  Sane' /\ Shape(n, s)'
  <1>0. Kinds
    BY KindsHold
  <1>1. PICK c \in Conns \ joined : /\ id[c] = Tid(old_head) /\ at[c] = "ended"
                                    /\ joined' = joined \cup {c}
    BY DEF JoinerJoin, Named, Tid
  <1>2. /\ at[Joiner] = "join" /\ at' = [at EXCEPT ![Joiner] = "remove"]
        /\ UNCHANGED <<exists, head, node, mutex, pc, call, reg, id, signalled, old_head,
                       to_write, fault, raced>>
        /\ InPass /\ pc[Joiner] = "idle" /\ at'[Joiner] = "remove"
    BY <1>0 DEF JoinerJoin, Move, listvars, heap, faults, InPass, Kinds
  <1>3. /\ Sane' /\ \A d \in Conns : Has(d)' <=> Has(d)
        /\ \A d \in Conns : at'[d] = at[d] /\ pc'[d] = "idle"
        /\ \A d \in Conns : at[d] \notin {"insert", "status", "unlock"}
    BY <1>0, <1>1, <1>2, PassSane
  <1>4. \A i \in 1 .. n : Tid(s[i]) # id[c]
    BY <1>1, <1>2 DEF Shape, Joining
  <1>5. Chained(n, s)' /\ Headed(n, s)'
    <2>1. \A d \in Conns : pc[d] # "link"
      BY <1>2, <1>3
    <2>2. QED
      BY <1>2, <2>1 DEF Shape, Chained, Headed, First, Tid
  <1>6. Owned(n, s)'
    BY <1>1, <1>2, <1>3, <1>4 DEF Shape, Owned, Owner, Tid
  <1>7. Joining(n, s)'
    BY <1>2 DEF Shape, Joining, Aside, Tid
  <1>8. ASSUME NEW d \in Conns PROVE Inserting(d, n, s)'
    <2>1. CASE at[d] \in {"signal_lock", "signal"}
      <3>1. d \notin joined /\ d # c
        BY <1>1, <2>1 DEF JoinCount, EndedConns
      <3>2. id[d] # id[c]
        BY <1>1, <2>1, <3>1 DEF Sane, Unique
      <3>3. \E i \in 1 .. n : Tid(s[i]) = id[d]
        BY <1>1, <2>1, <3>2 DEF Shape, Inserting
      <3>4. QED
        BY <1>2, <1>3, <2>1, <3>3 DEF Inserting, Tid
    <2>2. CASE at[d] \notin {"signal_lock", "signal"}
      BY <1>2, <1>3, <2>2 DEF Inserting
    <2>3. QED
      BY <2>1, <2>2
  <1>9. QED
    BY <1>3, <1>5, <1>6, <1>7, <1>8 DEF Shape

(* The joiner, past its join, in a list that stays.                        *)
LEMMA PassShape ==
  ASSUME Kinds, Sane, InPass, NEW n \in Nat, NEW s \in [1 .. n -> Nodes], Shape(n, s),
         at[Joiner] \in {"remove", "free"}, at'[Joiner] # "none",
         UNCHANGED <<head, id, joined, signalled>>,
         \A i \in 1 .. n : node'[s[i]] = node[s[i]],
         \A c \in Conns : Has(c)' <=> Has(c),
         \A c \in Conns : at'[c] = at[c] /\ pc'[c] = "idle",
         \A c \in Conns : at[c] \notin {"insert", "status", "unlock"},
         Joining(n, s)'
  PROVE  Shape(n, s)'
  <1>1. \A c \in Conns : pc[c] # "link"
    BY PassAlone DEF Sane, Places
  <1>2. \A i \in 1 .. n : Tid(s[i])' = Tid(s[i])
    BY DEF Tid
  <1>3. Chained(n, s)'
    <2>1. Chained(n, s)
      BY DEF Shape
    <2>2. \A i \in 1 .. n : node'[s[i]] # Free /\ node'[s[i]].next = node[s[i]].next
      BY <2>1 DEF Chained
    <2>3. QED
      BY <1>2, <2>1, <2>2 DEF Chained
  <1>4. Headed(n, s)'
    BY <1>1 DEF Shape, Headed, First
  <1>5. Owned(n, s)'
    BY <1>2 DEF Shape, Owned, Owner, Tid
  <1>6. ASSUME NEW c \in Conns PROVE Inserting(c, n, s)'
    <2>1. at[c] \in {"signal_lock", "signal"} => \E i \in 1 .. n : Tid(s[i]) = id[c]
      BY DEF Shape, Inserting
    <2>2. at[c] \in {"signal_lock", "signal"} => \E i \in 1 .. n : Tid(s[i])' = id[c]
      BY <1>2, <2>1
    <2>3. QED
      BY <2>2 DEF Inserting, Tid
  <1>7. QED
    BY <1>3, <1>4, <1>5, <1>6 DEF Shape

LEMMA RemoveShape ==
  ASSUME TypeInv, Sane, JoinerRemove \/ JoinerFree,
         NEW n \in Nat, NEW s \in [1 .. n -> Nodes], Shape(n, s)
  PROVE  Sane' /\ Shape(n, s)'
  <1>0. Kinds /\ Joiner \in Procs
    BY KindsHold DEF Kinds
  <1>1. CASE JoinerRemove
    <2>1. /\ at[Joiner] = "remove" /\ at' = [at EXCEPT ![Joiner] = "free"]
          /\ UNCHANGED <<exists, head, node, mutex, reg, id, joined, signalled, old_head,
                         to_write, fault, raced>>
          /\ pc' = [pc EXCEPT ![Joiner] = "start"] /\ InPass
          /\ call' = [call EXCEPT ![Joiner] =
                        [fn |-> "remove_no_mutex", data |-> node[old_head].data]]
      BY <1>1 DEF JoinerRemove, Move, Enter, Goto, Entry, heap, joining, faults, InPass
    <2>2. /\ at'[Joiner] = "free" /\ pc'[Joiner] = "start"
          /\ call'[Joiner] = [fn |-> "remove_no_mutex", data |-> node[old_head].data]
          /\ \A p \in Procs \ {Joiner} : pc'[p] = pc[p]
      BY <1>0, <2>1 DEF Kinds
    <2>3. /\ \A c \in Conns : pc'[c] = pc[c]
          /\ pc'[Listener] = pc[Listener] /\ \A h \in Handlers : pc'[h] = pc[h]
      BY <1>0, <2>2 DEF Kinds
    <2>4. /\ Sane' /\ \A c \in Conns : Has(c)' <=> Has(c)
          /\ \A c \in Conns : at'[c] = at[c] /\ pc'[c] = "idle"
          /\ \A c \in Conns : at[c] \notin {"insert", "status", "unlock"}
      <3>1. /\ call'[Joiner].fn = "remove_no_mutex" /\ joined \subseteq joined'
            /\ pc'[Joiner] \in {"start", "walk", "return"}
        BY <2>1, <2>2
      <3>2. QED
        BY <1>0, <2>1, <2>3, <3>1, PassSane
    <2>5. Joining(n, s)'
      BY <2>1, <2>2 DEF Shape, Joining, Aside, Tid
    <2>6. QED
      BY <1>0, <2>1, <2>2, <2>4, <2>5, PassShape
  <1>2. CASE JoinerFree
    <2>1. /\ at[Joiner] = "free" /\ at' = [at EXCEPT ![Joiner] = "lock"]
          /\ UNCHANGED <<exists, head, mutex, pc, reg, call, id, joined, signalled,
                         to_write, fault, raced>>
          /\ node' = [node EXCEPT ![old_head] = Free]
          /\ pc[Joiner] = "idle" /\ InPass /\ at'[Joiner] = "lock"
      BY <1>0, <1>2 DEF JoinerFree, Move, joining, faults, InPass, Kinds
    <2>2. /\ Sane' /\ \A c \in Conns : Has(c)' <=> Has(c)
          /\ \A c \in Conns : at'[c] = at[c] /\ pc'[c] = "idle"
          /\ \A c \in Conns : at[c] \notin {"insert", "status", "unlock"}
      BY <1>0, <2>1, PassSane
    <2>3. \A i \in 1 .. n : node'[s[i]] = node[s[i]]
      BY <1>0, <2>1 DEF Shape, Joining, Aside, Kinds
    <2>4. Joining(n, s)'
      BY <2>1 DEF Shape, Joining
    <2>5. QED
      BY <1>0, <2>1, <2>2, <2>3, <2>4, PassShape
  <1>3. QED
    BY <1>1, <1>2

(* remove_element_from_linked_list_no_mutex does not find the node: only   *)
(* the joiner frees it.                                                    *)
LEMMA JoinerInList ==
  ASSUME TypeInv, Sane, InList(Joiner),
         NEW n \in Nat, NEW s \in [1 .. n -> Nodes], Shape(n, s)
  PROVE  Sane' /\ Shape(n, s)'
  <1>0. Kinds /\ Joiner \in Procs
    BY KindsHold DEF Kinds
  <1>1. /\ pc[Joiner] \in {"start", "walk", "return"} /\ at[Joiner] = "free"
        /\ call[Joiner].fn = "remove_no_mutex" /\ InPass
        /\ UNCHANGED <<at, id, joined, signalled, old_head, to_write, fault, raced>>
        /\ Start(Joiner) \/ Walk(Joiner) \/ Return(Joiner)
    <2>1. pc[Joiner] # "idle"
      BY DEF InList, Run, Return, Step, Malloc, Lock, Unlock, Read, Publish, Link, Start,
             Walk, Mark, Unlink, Fetch, Release
    <2>2. /\ pc[Joiner] \in {"start", "walk", "return"} /\ at[Joiner] = "free"
          /\ call[Joiner].fn = "remove_no_mutex"
      BY <2>1 DEF Sane, Callers
    <2>3. Start(Joiner) \/ Walk(Joiner) \/ Return(Joiner)
      BY <2>2 DEF InList, Run, Step, Malloc, Lock, Unlock, Read, Publish, Link, Mark,
                  Unlink, Fetch, Release
    <2>4. QED
      BY <2>2, <2>3 DEF InList, InPass, joining, faults
  <1>2. /\ Aside(old_head, n, s) /\ call[Joiner].data.thread_id = Tid(old_head)
        /\ \A i \in 1 .. n : Tid(s[i]) # Tid(old_head)
    BY <1>1 DEF Shape, Joining
  <1>3. /\ UNCHANGED <<exists, head, node, mutex>>
        /\ pc'[Joiner] \in {"start", "walk", "return", "idle"}
        /\ pc'[Joiner] # "idle" => UNCHANGED call
        /\ \A p \in Procs \ {Joiner} : pc'[p] = pc[p]
        /\ pc'[Joiner] = "walk" =>
             reg'[Joiner].temp = NULL \/ \E i \in 1 .. n : reg'[Joiner].temp = s[i]
    <2>1. CASE Start(Joiner)
      <3>1. head = First(n, s)
        BY <1>1, PassAlone, <1>0 DEF Sane, Places, Shape, Headed
      <3>2. /\ UNCHANGED <<exists, head, node, mutex, call>>
            /\ pc' = [pc EXCEPT ![Joiner] = "walk"]
            /\ reg' = [reg EXCEPT ![Joiner].temp = head, ![Joiner].prev = head]
        BY <1>1, <2>1 DEF Start, Goto, heap
      <3>3. reg'[Joiner].temp = head
        BY <1>0, <3>2 DEF Kinds
      <3>4. QED
        BY <1>0, <3>1, <3>2, <3>3 DEF Kinds, First
    <2>2. CASE Walk(Joiner)
      <3>1. UNCHANGED <<exists, head, node, mutex, call>>
        BY <2>2 DEF Walk, heap
      <3>2. CASE reg[Joiner].temp = NULL
        <4>1. pc' = [pc EXCEPT ![Joiner] = "return"]
          BY <1>1, <2>2, <3>2, FinishReturns DEF Walk, Called, Goto
        <4>2. QED
          BY <1>0, <3>1, <4>1 DEF Kinds
      <3>3. CASE reg[Joiner].temp # NULL
        <4>1. PICK i \in 1 .. n : reg[Joiner].temp = s[i]
          BY <2>2, <3>3 DEF Walk, Step, Shape, Joining
        <4>2. ~Matches(Joiner, node[s[i]].data)
          BY <1>1, <1>2 DEF Matches, Tid
        <4>3. UNCHANGED pc /\ reg' = [reg EXCEPT ![Joiner].prev = s[i],
                                                 ![Joiner].temp = node[s[i]].next]
          BY <2>2, <3>3, <4>1, <4>2 DEF Walk
        <4>4. reg'[Joiner].temp = node[s[i]].next
          BY <1>0, <4>3 DEF Kinds
        <4>5. node[s[i]].next = NULL \/ \E j \in 1 .. n : node[s[i]].next = s[j]
          <5>1. node[s[i]].next = IF i < n THEN s[i + 1] ELSE NULL
            BY DEF Shape, Chained
          <5>2. i < n => i + 1 \in 1 .. n
            OBVIOUS
          <5>3. QED
            BY <5>1, <5>2
        <4>6. QED
          BY <1>1, <3>1, <4>3, <4>4, <4>5
      <3>4. QED
        BY <3>2, <3>3
    <2>3. CASE Return(Joiner)
      BY <1>0, <2>3 DEF Return, Goto, heap, Kinds
    <2>4. QED
      BY <1>1, <2>1, <2>2, <2>3
  <1>4. /\ \A c \in Conns : pc'[c] = pc[c]
        /\ pc'[Listener] = pc[Listener] /\ \A h \in Handlers : pc'[h] = pc[h]
    BY <1>0, <1>3 DEF Kinds
  <1>5. at' = [at EXCEPT ![Joiner] = "free"]
    BY <1>0, <1>1 DEF Kinds
  <1>6. pc'[Joiner] # "idle" =>
          call'[Joiner].fn = "remove_no_mutex" /\ pc'[Joiner] \in {"start", "walk", "return"}
    BY <1>1, <1>3
  <1>7. /\ Sane' /\ \A c \in Conns : Has(c)' <=> Has(c)
        /\ \A c \in Conns : at'[c] = at[c] /\ pc'[c] = "idle"
        /\ \A c \in Conns : at[c] \notin {"insert", "status", "unlock"}
    BY <1>0, <1>1, <1>3, <1>4, <1>5, <1>6, PassSane
  <1>8. Joining(n, s)'
    BY <1>1, <1>2, <1>3 DEF Shape, Joining, Aside, Tid
  <1>9. QED
    BY <1>0, <1>1, <1>3, <1>7, <1>8, PassShape

-----------------------------------------------------------------------------
(* All that a thread is about to touch is there.                           *)
LEMMA NoCrash ==
  ASSUME TypeInv, Sane, Shaped, NEW p \in Procs
  PROVE  ~Crash(p)
  <1>0. PICK n \in Nat : \E s \in [1 .. n -> Nodes] : Shape(n, s)
    BY DEF Shaped
  <1>1. PICK s \in [1 .. n -> Nodes] : Shape(n, s)
    BY <1>0
  <1>2. Kinds /\ Callers /\ Places /\ Unique
    BY KindsHold DEF Sane
  <1>3. /\ exists => ll \in Live
        /\ \A a \in Nodes : node[a] # Free => a \in Live
        /\ \A i \in 1 .. n : s[i] \in Live
    BY <1>1 DEF Live, Shape, Chained
  <1>4. ~SignalCame
    BY DEF Sane
  <1>5. CASE p \in Handlers
    <2>1. at[p] = "none" /\ pc[p] = "idle"
      BY <1>2, <1>4, <1>5 DEF SignalCame, Callers
    <2>2. QED
      BY <2>1 DEF Crash, Uses, Sound, Touches
  <1>6. CASE p = Listener
    <2>1. pc[p] = "idle" /\ at[p] \in Starting \cup {"accept", "ended"}
      BY <1>2, <1>6 DEF Callers, Places
    <2>2. at[p] = "start_joiner" => ll \in Live
      BY <1>2, <1>3, <1>6 DEF Places
    <2>3. QED
      BY <2>1, <2>2 DEF Crash, Uses, Sound, Touches, Starting
  <1>7. CASE p \in Conns
    <2>1. at[p] # "none" => ll \in Live
      BY <1>2, <1>3, <1>7 DEF Places
    <2>2. CASE pc[p] = "idle"
      <3>1. at[p] \in {"none", "serve", "end", "insert", "status", "unlock", "signal_lock",
                       "signal", "ended"}
        BY <1>2, <1>7 DEF Places
      <3>2. Uses(p) \subseteq Live
        BY <2>1, <3>1 DEF Uses
      <3>3. Sound(p)
        BY <2>2 DEF Sound, Touches
      <3>4. to_write # "freed"
        BY <1>2 DEF Places
      <3>5. QED
        BY <3>1, <3>2, <3>3, <3>4 DEF Crash
    <2>3. CASE pc[p] # "idle"
      <3>1. /\ pc[p] \in {"malloc", "read", "publish", "link", "start", "walk", "mark", "return"}
            /\ at[p] \in {"status", "unlock"}
            /\ pc[p] \in {"walk", "mark"} => at[p] = "unlock"
        BY <1>2, <1>7, <2>3 DEF Callers
      <3>2. ll \in Live
        BY <2>1, <3>1
      <3>3. pc[p] = "link" => head \in Live
        BY <1>1, <1>3, <1>7 DEF Shape, Inserting, Aside
      <3>4. pc[p] \in {"walk", "mark"} => reg[p].temp \in Live
        <4>1. ASSUME pc[p] \in {"walk", "mark"} PROVE n > 0 /\ reg[p].temp = s[1]
          BY <1>1, <1>7, <3>1, <4>1 DEF Shape, Inserting, Has
        <4>2. QED
          BY <1>3, <4>1
      <3>5. Sound(p)
        BY <3>1, <3>2, <3>3, <3>4 DEF Sound, Touches
      <3>6. QED
        BY <2>3, <3>5 DEF Crash
    <2>4. QED
      BY <2>2, <2>3
  <1>8. CASE p = Joiner
    <2>1. at[p] # "none" => ll \in Live
      BY <1>2, <1>3, <1>8 DEF Places
    <2>2. at[p] \in {"join", "remove", "free"} => old_head \in Live
      BY <1>1, <1>3, <1>8 DEF Shape, Joining, Aside
    <2>3. CASE pc[p] = "idle"
      <3>1. at[p] \in {"none", "lock", "wait", "unlock", "head", "next", "store", "join",
                       "remove", "free"}
        BY <1>2, <1>8 DEF Places, InPass
      <3>2. at[p] = "next" => head \in Live
        <4>1. ASSUME at[p] = "next" PROVE n > 0 /\ head = s[1]
          <5>1. InPass /\ at[Joiner] # "none"
            BY <1>8, <4>1 DEF InPass
          <5>2. \A c \in Conns : pc[c] # "link"
            BY <1>2, <5>1, PassAlone DEF Places
          <5>3. QED
            BY <1>1, <1>8, <4>1, <5>1, <5>2 DEF Shape, Joining, Headed, First
        <4>2. QED
          BY <1>3, <4>1
      <3>3. Uses(p) \subseteq Live
        BY <2>1, <2>2, <3>1, <3>2 DEF Uses
      <3>4. at[p] = "join" => Named(node[old_head].data.thread_id) # {}
        BY <1>1, <1>8 DEF Shape, Joining, Owner, Named, Tid
      <3>5. Sound(p)
        BY <2>3 DEF Sound, Touches
      <3>6. QED
        BY <3>1, <3>3, <3>4, <3>5 DEF Crash
    <2>4. CASE pc[p] # "idle"
      <3>1. pc[p] \in {"start", "walk", "return"} /\ at[p] = "free"
        BY <1>2, <1>8, <2>4 DEF Callers
      <3>2. ll \in Live
        BY <2>1, <3>1
      <3>3. pc[p] = "walk" => reg[p].temp = NULL \/ reg[p].temp \in Live
        BY <1>1, <1>3, <1>8 DEF Shape, Joining
      <3>4. Sound(p)
        BY <3>1, <3>2, <3>3 DEF Sound, Touches
      <3>5. QED
        BY <2>4, <3>4 DEF Crash
    <2>5. QED
      BY <2>3, <2>4
  <1>9. QED
    BY <1>5, <1>6, <1>7, <1>8, AesdThreadsAssumption

(* From a state without a race and without a signal, to a next one.        *)
LEMMA NextSane ==
  ASSUME TypeInv, JoinCount, Sane, Shaped, Next, ~raced', ~SignalCame'
  PROVE  Sane' /\ Shaped'
  <1>0. PICK n \in Nat : \E s \in [1 .. n -> Nodes] : Shape(n, s)
    BY DEF Shaped
  <1>1. PICK s \in [1 .. n -> Nodes] : Shape(n, s)
    BY <1>0
  <1>2. Shape(n, s)' => Shaped'
    BY DEF Shaped
  <1>3. CASE Main \/ Leave \/ Listen \/ MakeList \/ StartJoiner
    BY <1>1, <1>2, <1>3, StartSane, LeaveSane
  <1>4. ASSUME NEW c \in Conns, Accept(c) \/ connection(c) PROVE Sane' /\ Shaped'
    BY <1>1, <1>2, <1>4, AcceptSane, ConnMoves, EndInsertSane DEF connection
  <1>5. CASE joining_thread_handler \/ JoinerWakeUnasked
    BY <1>1, <1>2, <1>5, JoinerMoves, StoreShape, JoinShape, RemoveShape
    DEF joining_thread_handler
  <1>6. ASSUME NEW h \in Handlers PROVE ~signal_handler(h)
    <2>1. at[h] = "none"
      BY DEF Sane, SignalCame
    <2>2. QED
      BY <2>1 DEF signal_handler, HandlerFree, HandlerList, HandlerExit, Move
  <1>7. ASSUME NEW h \in Handlers, NEW p \in Procs PROVE ~SignalArrives(h, p)
    <2>1. SignalArrives(h, p) => at'[h] = "free_buffer"
      BY KindsHold DEF SignalArrives, Kinds
    <2>2. QED
      BY <2>1 DEF SignalCame
  <1>8. ASSUME NEW p \in Procs, InList(p) PROVE Sane' /\ Shaped'
    <2>1. pc[p] # "idle"
      BY <1>8 DEF InList, Run, Return, Step, Malloc, Lock, Unlock, Read, Publish, Link,
                  Start, Walk, Mark, Unlink, Fetch, Release
    <2>2. p \in Conns \/ p = Joiner
      BY <2>1, AesdThreadsAssumption DEF Sane, Callers
    <2>3. QED
      BY <1>1, <1>2, <1>8, <2>2, ConnInList, JoinerInList
  <1>9. \A p \in Procs : ~Crash(p)
    BY NoCrash
  <1>10. QED
    BY <1>3, <1>4, <1>5, <1>6, <1>7, <1>8, <1>9 DEF Next

LEMMA InitCalm == Init => CalmInv
  <1> SUFFICES ASSUME Init PROVE Sane /\ Shaped
    BY DEF CalmInv
  <1>0. Kinds
    BY InitTypes, KindsHold
  <1>1. /\ \A p \in Procs : at[p] = IF p = Listener THEN "main" ELSE "none"
        /\ \A p \in Procs : pc[p] = "idle"
        /\ \A c \in Conns : id[c] = NULL
        /\ ~fault /\ ~raced /\ ~signalled /\ to_write = "none" /\ mutex = Nobody
    BY <1>0 DEF Init, ListInit, Kinds
  <1>2. /\ at[Listener] = "main" /\ at[Joiner] = "none" /\ \A c \in Conns : at[c] = "none"
        /\ \A h \in Handlers : at[h] = "none"
        /\ pc[Listener] = "idle" /\ pc[Joiner] = "idle" /\ \A c \in Conns : pc[c] = "idle"
        /\ \A h \in Handlers : pc[h] = "idle"
    BY <1>0, <1>1 DEF Kinds
  <1>3. Sane
    BY <1>1, <1>2 DEF Sane, SignalCame, Callers, Places, Starting, Unique, InPass
  <1>4. [i \in 1 .. 0 |-> NULL] \in [1 .. 0 -> Nodes]
    OBVIOUS
  <1>5. \A s \in [1 .. 0 -> Nodes] : Shape(0, s)
    BY <1>1, <1>2
    DEF Shape, Chained, Headed, Owned, Joining, Inserting, Has
  <1>6. \E s \in [1 .. 0 -> Nodes] : Shape(0, s)
    BY <1>4, <1>5
  <1>7. QED
    BY <1>3, <1>6 DEF Shaped

(* What was raced stays raced, and a signal that came has come.            *)
LEMMA MoveStays ==
  ASSUME Kinds, NEW h \in Handlers, at[h] # "none", NEW p, NEW here, NEW there,
         Move(p, here, there), there # "none"
  PROVE  at'[h] # "none"
  BY DEF Kinds, Move

LEMMA RacedStays ==
  ASSUME raced, Next PROVE raced'
  <1>1. CASE Main \/ Leave \/ Listen \/ MakeList \/ StartJoiner
    BY <1>1 DEF Main, Leave, Listen, MakeList, StartJoiner, faults
  <1>2. ASSUME NEW c \in Conns, Accept(c) \/ connection(c) PROVE raced'
    BY <1>2 DEF connection, Accept, Serve, EndLock, EndInsert, EndStatus, EndUnlock,
                SignalLock, Signal, faults
  <1>3. CASE joining_thread_handler \/ JoinerWakeUnasked
    BY <1>3 DEF joining_thread_handler, JoinerWait, JoinerWake, JoinerWakeUnasked,
                JoinerUnlock, JoinerHead, JoinerNext, JoinerStore, JoinerJoin,
                JoinerRemove, JoinerFree, faults
  <1>4. ASSUME NEW h \in Handlers, signal_handler(h) \/ \E p \in Procs : SignalArrives(h, p)
        PROVE  raced'
    BY <1>4 DEF signal_handler, HandlerFree, HandlerList, HandlerExit, SignalArrives, faults
  <1>5. ASSUME NEW p \in Procs, InList(p) \/ Crash(p) PROVE raced'
    BY <1>5 DEF InList, Crash, faults
  <1>6. QED
    BY <1>1, <1>2, <1>3, <1>4, <1>5 DEF Next

LEMMA SignalStays ==
  ASSUME TypeInv, SignalCame, Next PROVE SignalCame'
  <1>0. Kinds
    BY KindsHold
  <1>1. PICK h \in Handlers : at[h] # "none"
    BY DEF SignalCame
  <1> SUFFICES at'[h] # "none"
    BY DEF SignalCame
  <1>2. CASE Main \/ Leave \/ Listen \/ MakeList
    BY <1>0, <1>1, <1>2, MoveStays DEF Main, Leave, Listen, MakeList
  <1>3. CASE StartJoiner
    BY <1>0, <1>1, <1>3 DEF StartJoiner, Kinds
  <1>4. ASSUME NEW c \in Conns, Accept(c) \/ connection(c) PROVE at'[h] # "none"
    BY <1>0, <1>1, <1>4, MoveStays
    DEF connection, Accept, Serve, EndLock, EndInsert, EndStatus, EndUnlock, SignalLock,
        Signal
  <1>5. CASE joining_thread_handler \/ JoinerWakeUnasked
    BY <1>0, <1>1, <1>5, MoveStays
    DEF joining_thread_handler, JoinerWait, JoinerWake, JoinerWakeUnasked, JoinerUnlock,
        JoinerHead, JoinerNext, JoinerStore, JoinerJoin, JoinerRemove, JoinerFree
  <1>6. ASSUME NEW g \in Handlers, signal_handler(g) PROVE at'[h] # "none"
    BY <1>0, <1>1, <1>6, MoveStays DEF signal_handler, HandlerFree, HandlerList, HandlerExit
  <1>7. ASSUME NEW g \in Handlers, NEW p \in Procs, SignalArrives(g, p) PROVE at'[h] # "none"
    BY <1>0, <1>1, <1>7 DEF SignalArrives, Kinds
  <1>8. ASSUME NEW p \in Procs, InList(p) \/ Crash(p) PROVE at'[h] # "none"
    BY <1>1, <1>8 DEF InList, Crash
  <1>9. QED
    BY <1>2, <1>3, <1>4, <1>5, <1>6, <1>7, <1>8 DEF Next

LEMMA NextCalm == TypeInv /\ JoinCount /\ CalmInv /\ [Next]_vars => CalmInv'
  <1> SUFFICES ASSUME TypeInv, JoinCount, CalmInv, [Next]_vars PROVE CalmInv'
    OBVIOUS
  <1>1. CASE Next /\ (raced \/ SignalCame)
    BY <1>1, RacedStays, SignalStays DEF CalmInv
  <1>2. CASE UNCHANGED vars
    <2>1. UNCHANGED <<exists, head, node, mutex, pc, call, reg, at, id, signalled, joined,
                      old_head, new_head, to_write, fault, raced>>
      BY <1>2 DEF vars, listvars, heap, joining, faults
    <2>2. (SignalCame' <=> SignalCame) /\ (Sane' <=> Sane)
      BY <2>1 DEF SignalCame, Sane, Callers, Described, Places, InPass, Unique
    <2>3. ASSUME NEW n \in Nat, NEW s \in [1 .. n -> Nodes], Shape(n, s) PROVE Shape(n, s)'
      BY <2>1, <2>3 DEF Shape, Chained, Headed, Owned, Owner, Joining, Inserting, Aside, First,
                  Has, Tid
    <2>4. Shaped => Shaped'
      BY <2>3 DEF Shaped
    <2>5. QED
      BY <2>1, <2>2, <2>4 DEF CalmInv
  <1>3. CASE Sane /\ Shaped /\ Next
    BY <1>3, NextSane DEF CalmInv
  <1>4. QED
    BY <1>1, <1>2, <1>3 DEF CalmInv

(* With any number of connections, nodes and thread ids: as long as no     *)
(* signal comes and the joiner neither works on the list while a           *)
(* connection is in it nor wakes up unasked on an empty list               *)
(* (socket_core.c:65-73), no thread follows a dangling pointer, frees a    *)
(* node twice or joins a thread that is not there.                         *)
THEOREM FaultNeedsRaceHolds == Spec => []FaultNeedsRace
  <1>1. CalmInv => FaultNeedsRace
    BY DEF CalmInv, Sane, FaultNeedsRace
  <1>2. QED
    BY <1>1, InitTypes, InitCount, InitCalm, NextTypes, NextCount, NextCalm, PTL DEF Spec
=============================================================================
