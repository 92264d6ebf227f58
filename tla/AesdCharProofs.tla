--------------------------- MODULE AesdCharProofs ---------------------------
(***************************************************************************)
(* Proofs about the driver, for every set of threads, files, blocks,       *)
(* payloads and every number of lines kept.                                *)
(***************************************************************************)
EXTENDS AesdChar, RingProofs

(* The part of TypeOK that speaks of the mutex and of where threads are.   *)
LockTypes == pc \in [Procs -> Steps] /\ lock \in Procs \cup {Nobody}

(* The inductive invariant: LockDiscipline with the types it needs.        *)
LockInv == LockTypes /\ LockDiscipline

(* A thread takes the free mutex and becomes critical.                     *)
LEMMA Acquire ==
  ASSUME LockInv, NEW p \in Procs, NEW s \in Critical,
         lock = Nobody, lock' = p, pc' = [pc EXCEPT ![p] = s]
  PROVE  LockInv'
  BY AesdAssumption DEF LockInv, LockTypes, LockDiscipline, Critical, Steps

(* A critical thread gives the mutex back and is no longer critical.       *)
LEMMA Release ==
  ASSUME LockInv, NEW p \in Procs, NEW s \in Steps \ Critical,
         pc[p] \in Critical, lock' = Nobody, pc' = [pc EXCEPT ![p] = s]
  PROVE  LockInv'
  BY AesdAssumption DEF LockInv, LockTypes, LockDiscipline

(* A thread moves without crossing the border of its critical section.     *)
LEMMA Move ==
  ASSUME LockInv, NEW p \in Procs, NEW s \in Steps,
         pc[p] \in Critical <=> s \in Critical,
         UNCHANGED lock, pc' = [pc EXCEPT ![p] = s]
  PROVE  LockInv'
  BY DEF LockInv, LockTypes, LockDiscipline

LEMMA Still ==
  ASSUME LockInv, UNCHANGED <<lock, pc>>
  PROVE  LockInv'
  BY DEF LockInv, LockTypes, LockDiscipline

LEMMA InitLock == Init => LockInv
  BY AesdAssumption DEF Init, LockInv, LockTypes, LockDiscipline, Steps, Critical

(* A call enters its handler, or returns before it needs the mutex.        *)
LEMMA EnterLock ==
  ASSUME LockInv, NEW p \in Procs, NEW c, NEW s \in Steps \ Critical, Enter(p, c, s)
  PROVE  LockInv'
  <1>1. pc[p] \notin Critical /\ UNCHANGED lock /\ pc' = [pc EXCEPT ![p] = s]
    BY DEF Enter, Critical
  <1>2. QED
    BY <1>1, Move

(* A signal ends the wait for the mutex.                                   *)
LEMMA InterruptedLock ==
  ASSUME LockInv, NEW p \in Procs,
         NEW s \in {"read_lock", "write_lock", "lseek_lock", "ioctl_lock"},
         Interrupted(p, s)
  PROVE  LockInv'
  <1>1. /\ pc[p] \notin Critical /\ UNCHANGED lock
        /\ pc' = [pc EXCEPT ![p] = "done"]
        /\ "done" \in Steps /\ "done" \notin Critical
    BY DEF Interrupted, Critical, Steps
  <1>2. QED
    BY <1>1, Move

LEMMA TakeLockLock ==
  ASSUME LockInv, NEW p \in Procs, NEW from, NEW s \in Critical, TakeLock(p, from, s)
  PROVE  LockInv'
  BY Acquire DEF TakeLock

(* The returns that unlock.                                                *)
LEMMA UnlockLock ==
  ASSUME LockInv, NEW p \in Procs, NEW ret, NEW data, pc[p] \in Critical,
         UnlockAndReturn(p, ret, data)
  PROVE  LockInv'
  <1>1. "done" \in Steps \ Critical
    BY DEF Critical, Steps
  <1>2. QED
    BY <1>1, Release DEF UnlockAndReturn

LEMMA ReadLock ==
  ASSUME LockInv, NEW p \in Procs, aesd_read(p)
  PROVE  LockInv'
  <1>1. ASSUME NEW f \in Files, NEW n \in Counts, ReadEnter(p, f, n) PROVE LockInv'
    <2>1. "read_lock" \in Steps \ Critical
      BY DEF Critical, Steps
    <2>2. QED
      BY <1>1, <2>1, EnterLock DEF ReadEnter, EnterHandler
  <1>2. CASE TakeLock(p, "read_lock", "read")
    BY <1>2, TakeLockLock DEF Critical
  <1>3. CASE Interrupted(p, "read_lock")
    BY <1>3, InterruptedLock
  <1>4. CASE ReadBody(p)
    BY <1>4, UnlockLock DEF ReadBody, Critical
  <1>5. QED
    BY <1>1, <1>2, <1>3, <1>4 DEF aesd_read

LEMMA WriteLockInv ==
  ASSUME LockInv, NEW p \in Procs, aesd_write(p)
  PROVE  LockInv'
  <1>1. ASSUME NEW f \in Files, NEW buf \in Payloads, WriteEnter(p, f, buf) PROVE LockInv'
    <2>1. {"write_lock", "done"} \subseteq Steps \ Critical
      BY DEF Critical, Steps
    <2>2. \E s \in {"write_lock", "done"} : \E c : Enter(p, c, s)
      BY <1>1 DEF WriteEnter, EnterHandler, EnterAndReturn
    <2>3. QED
      BY <2>1, <2>2, EnterLock
  <1>2. CASE WriteLock(p)
    BY <1>2, TakeLockLock DEF WriteLock, Critical
  <1>3. CASE Interrupted(p, "write_lock")
    BY <1>3, InterruptedLock
  <1>4. CASE pc[p] \in Critical /\ \E ret : FreeAndReturn(p, ret)
    BY <1>4, UnlockLock DEF FreeAndReturn
  <1>5. CASE WriteStage(p)
    <2>1. pc[p] \in Critical /\ "lines" \in Steps /\ "lines" \in Critical
      BY <1>5 DEF WriteStage, Critical, Steps
    <2>2. CASE \E ret : FreeAndReturn(p, ret)
      BY <1>4, <2>1, <2>2
    <2>3. CASE pc' = [pc EXCEPT ![p] = "lines"] /\ UNCHANGED lock
      BY <2>1, <2>3, Move
    <2>4. QED
      BY <1>5, <2>2, <2>3 DEF WriteStage
  <1>6. CASE WriteLine(p)
    <2>1. pc[p] \in Critical
      BY <1>6 DEF WriteLine, Critical
    <2>2. JoinFails(p) \/ UNCHANGED <<lock, pc>>
      BY <1>6 DEF WriteLine
    <2>3. QED
      BY <1>4, <2>1, <2>2, Still DEF JoinFails
  <1>7. CASE WriteTail(p)
    <2>1. pc[p] \in Critical
      BY <1>7 DEF WriteTail, Critical
    <2>2. \E ret : FreeAndReturn(p, ret)
      BY <1>7 DEF WriteTail, JoinFails
    <2>3. QED
      BY <1>4, <2>1, <2>2
  <1>8. QED
    BY <1>1, <1>2, <1>3, <1>5, <1>6, <1>7 DEF aesd_write

LEMMA LseekLock ==
  ASSUME LockInv, NEW p \in Procs, aesd_lseek(p)
  PROVE  LockInv'
  <1>1. ASSUME NEW f \in Files, NEW s \in Seeks, LseekEnter(p, f, s) PROVE LockInv'
    <2>1. "lseek_lock" \in Steps \ Critical
      BY DEF Critical, Steps
    <2>2. QED
      BY <1>1, <2>1, EnterLock DEF LseekEnter, EnterHandler
  <1>2. CASE TakeLock(p, "lseek_lock", "size")
    BY <1>2, TakeLockLock DEF Critical
  <1>3. CASE Interrupted(p, "lseek_lock")
    BY <1>3, InterruptedLock
  <1>4. CASE LseekSize(p)
    <2>1. "apply" \in Steps \ Critical /\ pc[p] \in Critical
      BY <1>4 DEF LseekSize, Critical, Steps
    <2>2. QED
      BY <1>4, <2>1, Release DEF LseekSize
  <1>5. CASE LseekApply(p)
    <2>1. /\ pc[p] \notin Critical /\ "done" \in Steps /\ "done" \notin Critical
          /\ UNCHANGED lock /\ pc' = [pc EXCEPT ![p] = "done"]
      BY <1>5 DEF LseekApply, Critical, Steps
    <2>2. QED
      BY <2>1, Move
  <1>6. QED
    BY <1>1, <1>2, <1>3, <1>4, <1>5 DEF aesd_lseek

LEMMA IoctlLock ==
  ASSUME LockInv, NEW p \in Procs, aesd_ioctl(p)
  PROVE  LockInv'
  <1>1. ASSUME NEW f \in Files, NEW to \in SeekTos, IoctlEnter(p, f, to) PROVE LockInv'
    <2>1. {"ioctl_lock", "done"} \subseteq Steps \ Critical
      BY DEF Critical, Steps
    <2>2. \E s \in {"ioctl_lock", "done"} : \E c : Enter(p, c, s)
      BY <1>1 DEF IoctlEnter, EnterHandler, EnterAndReturn
    <2>3. QED
      BY <2>1, <2>2, EnterLock
  <1>2. CASE TakeLock(p, "ioctl_lock", "adjust")
    BY <1>2, TakeLockLock DEF Critical
  <1>3. CASE Interrupted(p, "ioctl_lock")
    BY <1>3, InterruptedLock
  <1>4. CASE IoctlAdjust(p)
    BY <1>4, UnlockLock DEF IoctlAdjust, Critical
  <1>5. QED
    BY <1>1, <1>2, <1>3, <1>4 DEF aesd_ioctl

LEMMA NextLock == LockInv /\ [Next]_vars => LockInv'
  <1> SUFFICES ASSUME LockInv, [Next]_vars PROVE LockInv'
    OBVIOUS
  <1>1. ASSUME NEW p \in Procs, SysReturn(p) PROVE LockInv'
    <2>1. /\ pc[p] \notin Critical /\ "idle" \in Steps /\ "idle" \notin Critical
          /\ UNCHANGED lock /\ pc' = [pc EXCEPT ![p] = "idle"]
      BY <1>1 DEF SysReturn, Critical, Steps
    <2>2. QED
      BY <2>1, Move
  <1>2. CASE \E f \in Files : aesd_open(f) \/ aesd_release(f)
    BY <1>2, Still DEF aesd_open, aesd_release
  <1>3. CASE aesd_init_module \/ aesd_cleanup_module
    BY <1>3, Still DEF aesd_init_module, aesd_cleanup_module
  <1>4. CASE UNCHANGED vars
    BY <1>4, Still DEF vars
  <1>5. QED
    BY <1>1, <1>2, <1>3, <1>4, ReadLock, WriteLockInv, LseekLock, IoctlLock DEF Next

(* For any number of threads the mutex is held by exactly the thread that  *)
(* is inside a critical section of aesd_read, aesd_write, aesd_lseek or    *)
(* adjust_aesd_file_offset: no return path of main.c keeps it, and nobody  *)
(* is inside without it.                                                   *)
THEOREM LockDisciplineHolds == Spec => []LockDiscipline
  <1>1. LockInv => LockDiscipline
    BY DEF LockInv
  <1>2. QED
    BY <1>1, InitLock, NextLock, PTL DEF Spec

(* So two threads are never inside at once: what the unlocked accesses to  *)
(* c_buffer and partial_buffer between lock and unlock rely on.            *)
THEOREM MutualExclusion ==
  Spec => [](\A p, q \in Procs : pc[p] \in Critical /\ pc[q] \in Critical => p = q)
  <1>1. LockDiscipline =>
          \A p, q \in Procs : pc[p] \in Critical /\ pc[q] \in Critical => p = q
    BY DEF LockDiscipline
  <1>2. QED
    BY <1>1, LockDisciplineHolds, PTL

-----------------------------------------------------------------------------
(* The state of a thread: what its system call is known to be at each      *)
(* step, that its file stays open while it runs, and that only a writer    *)
(* between two lines holds a copy of its buffer.                           *)
CallAt ==
  [s \in Steps \ {"idle", "done"} |->
     IF s \in {"read_lock", "read"} THEN "read"
     ELSE IF s \in {"write_lock", "stage", "lines"} THEN "write"
     ELSE IF s \in {"lseek_lock", "size", "apply"} THEN "lseek"
     ELSE "ioctl"]

InCall(p) ==
  /\ pc[p] # "idle" => /\ loaded /\ call[p] \in Calls
                       /\ f_pos[call[p].file] # NULL
  /\ pc[p] \in DOMAIN CallAt => call[p].op = CallAt[pc[p]]
  /\ IF pc[p] = "lines" THEN /\ allocated_memory[p] # NULL
                             /\ start[p] <= Len(call[p].buf)
                        ELSE allocated_memory[p] = NULL /\ start[p] = 0

(* A line: its only newline is its last byte.  Part of one: no newline.    *)
Line(s, n) ==
  /\ s \in Seq(Bytes) /\ Len(s) = n /\ n \in Nat \ {0} /\ s[n] = NL
  /\ \A k \in 1 .. n - 1 : s[k] # NL

PartOfLine(s, n) ==
  s \in Seq(Bytes) /\ Len(s) = n /\ n \in Nat \ {0} /\ \A k \in 1 .. n : s[k] # NL

(* What the pointers of a loaded module point at.                          *)
Pointers ==
  /\ \A i \in Slots : c_buffer.entry[i].buffptr # NULL =>
        Line(heap[c_buffer.entry[i].buffptr], c_buffer.entry[i].size)
  /\ IF partial_buffer.buffptr = NULL
       THEN partial_buffer.size = 0
       ELSE PartOfLine(heap[partial_buffer.buffptr], partial_buffer.size)
  /\ \A p \in Procs : pc[p] = "lines" => heap[allocated_memory[p]] = call[p].buf

(* No two of them are equal.                                               *)
Distinct ==
  /\ \A i, j \in Slots : /\ c_buffer.entry[i].buffptr # NULL
                         /\ c_buffer.entry[i].buffptr = c_buffer.entry[j].buffptr
                         => i = j
  /\ \A i \in Slots : c_buffer.entry[i].buffptr # NULL =>
        c_buffer.entry[i].buffptr # partial_buffer.buffptr
  /\ \A p \in Procs : allocated_memory[p] # NULL =>
        /\ allocated_memory[p] # partial_buffer.buffptr
        /\ \A i \in Slots : allocated_memory[p] # c_buffer.entry[i].buffptr

(* and every block in use is the target of one.                            *)
Reachable(b) ==
  \/ \E i \in Slots : b = c_buffer.entry[i].buffptr
  \/ b = partial_buffer.buffptr
  \/ \E p \in Procs : b = allocated_memory[p]

Memory ==
  /\ loaded => /\ Pointers /\ Distinct
               /\ \A b \in Addrs : heap[b] # Free => Reachable(b)
  /\ ~loaded => \A b \in Addrs : heap[b] = Free
  /\ region = loaded

(* The inductive invariant of the driver.                                  *)
DriverInv ==
  /\ TypeOK /\ LockDiscipline
  /\ \A p \in Procs : InCall(p)
  /\ Ring(c_buffer)
  /\ Memory

-----------------------------------------------------------------------------
Answers == [ret : Int, data : Seq(Bytes)]

LEMMA NullIsNone == NULL \notin Nat /\ NULL \notin Addrs
  BY AesdAssumption

LEMMA CallFields ==
  ASSUME NEW c \in Calls
  PROVE  /\ c.file \in Files
         /\ c.op = "read" => c.pos \in Nat /\ c.count \in Nat
         /\ c.op = "write" => c.pos \in Nat /\ c.buf \in Seq(Bytes)
         /\ c.op = "lseek" => c.seek.off \in Int
         /\ c.op = "ioctl" => c.to.write_cmd \in Nat /\ c.to.write_cmd_offset \in Nat
  BY AesdAssumption DEF Calls

(* The system call that each step belongs to.                              *)
LEMMA CallAtIs ==
  /\ DOMAIN CallAt = Steps \ {"idle", "done"}
  /\ \A s \in {"read_lock", "read"} : CallAt[s] = "read"
  /\ \A s \in {"write_lock", "stage", "lines"} : CallAt[s] = "write"
  /\ \A s \in {"lseek_lock", "size", "apply"} : CallAt[s] = "lseek"
  /\ \A s \in {"ioctl_lock", "adjust"} : CallAt[s] = "ioctl"
  BY DEF CallAt, Steps

(* What the invariant says of a thread that is in a system call.           *)
LEMMA InCallIs ==
  ASSUME DriverInv, NEW p \in Procs, pc[p] # "idle"
  PROVE  /\ loaded /\ call[p] \in Calls /\ call[p].file \in Files
         /\ f_pos[call[p].file] \in Nat
         /\ pc[p] \in DOMAIN CallAt => call[p].op = CallAt[pc[p]]
         /\ pc[p] # "lines" => allocated_memory[p] = NULL /\ start[p] = 0
  <1>1. /\ loaded /\ call[p] \in Calls /\ f_pos[call[p].file] # NULL
        /\ pc[p] \in DOMAIN CallAt => call[p].op = CallAt[pc[p]]
        /\ pc[p] # "lines" => allocated_memory[p] = NULL /\ start[p] = 0
    BY DEF DriverInv, InCall
  <1>2. call[p].file \in Files
    BY <1>1, CallFields
  <1>3. f_pos \in [Files -> Nat \cup {NULL}]
    BY DEF DriverInv, TypeOK
  <1>4. QED
    BY <1>1, <1>2, <1>3

(* The pointers stay what they are while no thread touches the device.     *)
LEMMA MemoryStays ==
  ASSUME Memory, UNCHANGED <<module, dev, allocated_memory>>,
         \A q \in Procs : pc'[q] = "lines" => pc[q] = "lines" /\ call'[q] = call[q]
  PROVE  Memory'
  <1>1. /\ loaded' = loaded /\ region' = region /\ c_buffer' = c_buffer
        /\ partial_buffer' = partial_buffer /\ heap' = heap
        /\ allocated_memory' = allocated_memory
    BY DEF module, dev
  <1>2. Pointers => Pointers'
    BY <1>1 DEF Pointers
  <1>3. Distinct => Distinct'
    BY <1>1 DEF Distinct
  <1>4. \A b \in Addrs : Reachable(b) => Reachable(b)'
    BY <1>1 DEF Reachable
  <1>5. QED
    BY <1>1, <1>2, <1>3, <1>4 DEF Memory

(* A step of thread p that leaves the device and the copies alone.         *)
LEMMA ThreadStep ==
  ASSUME DriverInv, LockInv', UNCHANGED <<module, dev, allocated_memory, start>>,
         NEW p \in Procs, pc[p] # "lines",
         NEW s \in Steps, s # "lines", pc' = [pc EXCEPT ![p] = s],
         NEW c \in Calls \cup {NoCall}, call' = [call EXCEPT ![p] = c],
         s # "idle" => loaded /\ c \in Calls /\ f_pos'[c.file] # NULL,
         s \in DOMAIN CallAt => c.op = CallAt[s],
         f_pos' \in [Files -> Nat \cup {NULL}],
         \A f \in Files : f_pos[f] # NULL => f_pos'[f] # NULL,
         total_size' \in [Procs -> Nat], answer' \in [Procs -> Answers],
         before' \in Seq(Bytes)
  PROVE  DriverInv'
  <1>1. /\ loaded' = loaded /\ region' = region /\ c_buffer' = c_buffer
        /\ partial_buffer' = partial_buffer /\ heap' = heap
        /\ allocated_memory' = allocated_memory /\ start' = start
    BY DEF module, dev
  <1>2. /\ pc \in [Procs -> Steps] /\ call \in [Procs -> Calls \cup {NoCall}]
        /\ call' \in [Procs -> Calls \cup {NoCall}]
    BY DEF DriverInv, TypeOK
  <1>3. TypeOK'
    BY <1>1, <1>2 DEF DriverInv, TypeOK, LockInv, LockTypes, Answers
  <1>4. LockDiscipline' /\ Ring(c_buffer')
    BY <1>1 DEF LockInv, DriverInv
  <1>5. ASSUME NEW q \in Procs PROVE InCall(q)'
    <2>1. InCall(q)
      BY DEF DriverInv
    <2>2. CASE q = p
      <3>1. pc'[p] = s /\ call'[p] = c
        BY <1>2
      <3>2. allocated_memory[p] = NULL /\ start[p] = 0
        BY <2>1, <2>2 DEF InCall
      <3>3. QED
        BY <1>1, <2>2, <3>1, <3>2 DEF InCall
    <2>3. CASE q # p
      <3>1. pc'[q] = pc[q] /\ call'[q] = call[q]
        BY <1>2, <2>3
      <3>2. pc[q] # "idle" => call[q].file \in Files
        BY InCallIs
      <3>3. QED
        BY <1>1, <2>1, <3>1, <3>2 DEF InCall
    <2>4. QED
      BY <2>2, <2>3
  <1>6. Memory'
    <2>1. \A q \in Procs : pc'[q] = "lines" => pc[q] = "lines" /\ call'[q] = call[q]
      BY <1>2
    <2>2. QED
      BY <2>1, MemoryStays DEF DriverInv
  <1>7. QED
    BY <1>3, <1>4, <1>5, <1>6 DEF DriverInv

LEMMA DriverLock == DriverInv => LockInv
  BY DEF DriverInv, TypeOK, LockInv, LockTypes

(* The variables that calls and returns change, and their types.           *)
LEMMA ThreadTypes ==
  ASSUME DriverInv
  PROVE  /\ f_pos \in [Files -> Nat \cup {NULL}] /\ pc \in [Procs -> Steps]
         /\ call \in [Procs -> Calls \cup {NoCall}]
         /\ total_size \in [Procs -> Nat] /\ answer \in [Procs -> Answers]
         /\ before \in Seq(Bytes)
  BY DEF DriverInv, TypeOK, Answers

LEMMA AnswerRet ==
  ASSUME DriverInv, NEW p \in Procs, NEW ret \in Int
  PROVE  [answer EXCEPT ![p].ret = ret] \in [Procs -> Answers]
  <1>1. answer \in [Procs -> [ret : Int, data : Seq(Bytes)]]
    BY ThreadTypes DEF Answers
  <1>2. [answer[p] EXCEPT !.ret = ret] \in [ret : Int, data : Seq(Bytes)]
    BY <1>1
  <1>3. QED
    BY <1>1, <1>2 DEF Answers

LEMMA AnswerWith ==
  ASSUME DriverInv, NEW p \in Procs, NEW ret \in Int, NEW data \in Seq(Bytes)
  PROVE  [answer EXCEPT ![p] = [ret |-> ret, data |-> data]] \in [Procs -> Answers]
  <1>1. [ret |-> ret, data |-> data] \in Answers
    BY DEF Answers
  <1>2. QED
    BY <1>1, ThreadTypes

LEMMA EnterStep ==
  ASSUME DriverInv, LockInv', NEW p \in Procs, NEW c \in Calls, NEW s \in Steps,
         s \notin {"idle", "lines"}, s \in DOMAIN CallAt => c.op = CallAt[s],
         Enter(p, c, s), answer' \in [Procs -> Answers]
  PROVE  DriverInv'
  <1>1. /\ loaded /\ pc[p] = "idle" /\ f_pos[c.file] # NULL
        /\ pc' = [pc EXCEPT ![p] = s] /\ call' = [call EXCEPT ![p] = c]
        /\ UNCHANGED <<module, dev, f_pos, allocated_memory, start, total_size, before>>
    BY DEF Enter, locals
  <1>2. QED
    BY <1>1, ThreadTypes, ThreadStep

(* A step that changes neither the call nor the file positions.            *)
LEMMA HandlerStep ==
  ASSUME DriverInv, LockInv', NEW p \in Procs, NEW s \in Steps,
         pc[p] \notin {"idle", "lines"}, s \notin {"idle", "lines"},
         s \in DOMAIN CallAt => call[p].op = CallAt[s],
         pc' = [pc EXCEPT ![p] = s],
         UNCHANGED <<module, dev, f_pos, call, allocated_memory, start>>,
         total_size' \in [Procs -> Nat], answer' \in [Procs -> Answers],
         before' \in Seq(Bytes)
  PROVE  DriverInv'
  <1> DEFINE c == call[p]
  <1>1. loaded /\ c \in Calls /\ c.file \in Files /\ f_pos'[c.file] # NULL
    BY InCallIs, AesdAssumption
  <1>2. call' = [call EXCEPT ![p] = c]
    BY ThreadTypes
  <1> HIDE DEF c
  <1>3. s \in DOMAIN CallAt => c.op = CallAt[s]
    BY DEF c
  <1>4. /\ UNCHANGED <<module, dev, allocated_memory, start>>
        /\ pc[p] # "lines" /\ s # "lines" /\ c \in Calls \cup {NoCall}
        /\ s # "idle" => loaded /\ c \in Calls /\ f_pos'[c.file] # NULL
    BY <1>1
  <1>5. /\ f_pos' \in [Files -> Nat \cup {NULL}]
        /\ \A f \in Files : f_pos[f] # NULL => f_pos'[f] # NULL
    BY ThreadTypes
  <1>6. QED
    BY <1>2, <1>3, <1>4, <1>5, ThreadStep, ZenonT(40)

LEMMA TakeLockStep ==
  ASSUME DriverInv, LockInv', NEW p \in Procs, NEW from \in Steps, NEW to \in Steps,
         from \notin {"idle", "lines", "done"}, to \notin {"idle", "lines", "done"},
         CallAt[from] = CallAt[to], TakeLock(p, from, to), before' \in Seq(Bytes)
  PROVE  DriverInv'
  <1>1. pc[p] = from /\ from \in DOMAIN CallAt
    BY CallAtIs DEF TakeLock
  <1>2. call[p].op = CallAt[to]
    BY <1>1, InCallIs
  <1>3. /\ pc' = [pc EXCEPT ![p] = to] /\ total_size' = total_size /\ answer' = answer
        /\ UNCHANGED <<module, dev, f_pos, call, allocated_memory, start>>
    BY DEF TakeLock, locals
  <1>4. QED
    BY <1>1, <1>2, <1>3, ThreadTypes, HandlerStep

LEMMA InterruptedStep ==
  ASSUME DriverInv, LockInv', NEW p \in Procs,
         NEW from \in Steps, from \notin {"idle", "lines", "done"}, Interrupted(p, from)
  PROVE  DriverInv'
  <1>1. "done" \in Steps /\ "done" \notin DOMAIN CallAt /\ "done" \notin {"idle", "lines"}
    BY CallAtIs DEF Steps
  <1>2. -ERESTARTSYS \in Int
    BY DEF ERESTARTSYS
  <1>3. answer' \in [Procs -> Answers]
    BY <1>2, AnswerRet DEF Interrupted
  <1>4. /\ pc[p] = from /\ pc' = [pc EXCEPT ![p] = "done"] /\ total_size' = total_size
        /\ UNCHANGED <<module, dev, f_pos, call, allocated_memory, start>>
        /\ before' = before
    BY DEF Interrupted, locals
  <1>5. QED
    BY <1>1, <1>3, <1>4, ThreadTypes, HandlerStep

(* aesd_read copies bytes of the one line that its position is in.         *)
LEMMA ReadBytesType ==
  ASSUME DriverInv, loaded, NEW c, c.pos \in Nat, c.count \in Nat
  PROVE  ReadBytes(c) \in Seq(Bytes)
  <1> DEFINE found == aesd_circular_buffer_find_entry_offset_for_fpos(c_buffer, c.pos)
             entry == c_buffer.entry[found.slot]
             count == IF c.count + found.offset >= entry.size
                        THEN entry.size - found.offset ELSE c.count
  <1>1. ReadBytes(c) = IF found = NULL THEN << >>
                       ELSE SubSeq(heap[entry.buffptr], found.offset + 1, found.offset + count)
    BY DEF ReadBytes
  <1>2. \/ found = NULL
        \/ /\ found.slot \in Slots /\ Occupied(entry)
           /\ found.offset \in Nat /\ found.offset < entry.size
    BY FindType DEF DriverInv
  <1> HIDE DEF found
  <1>3. CASE found = NULL
    BY <1>1, <1>3, EmptySeq
  <1>4. CASE found # NULL
    <2>1. entry.buffptr # NULL /\ entry.size \in Nat
      BY <1>2, <1>4 DEF Occupied
    <2>2. Line(heap[entry.buffptr], entry.size)
      BY <1>2, <1>4, <2>1 DEF DriverInv, Memory, Pointers
    <2>3. heap[entry.buffptr] \in Seq(Bytes) /\ Len(heap[entry.buffptr]) = entry.size
      BY <2>2 DEF Line
    <2> HIDE DEF entry
    <2>4. /\ found.offset + 1 \in 1 .. entry.size + 1
          /\ found.offset + count \in (found.offset + 1) - 1 .. entry.size
      BY <1>2, <1>4, <2>1
    <2> HIDE DEF count
    <2>5. SubSeq(heap[entry.buffptr], found.offset + 1, found.offset + count) \in Seq(Bytes)
      BY <2>3, <2>4, SubSeqProperties
    <2>6. QED
      BY <1>1, <1>4, <2>5
  <1>5. QED
    BY <1>3, <1>4

LEMMA ReadStep ==
  ASSUME DriverInv, NEW p \in Procs, aesd_read(p)
  PROVE  DriverInv'
  <1>0. LockInv'
    BY DriverLock, ReadLock
  <1>1. ASSUME NEW f \in Files, NEW n \in Counts, ReadEnter(p, f, n) PROVE DriverInv'
    <2> DEFINE c == [op |-> "read", file |-> f, pos |-> f_pos[f], count |-> n]
    <2>1. Enter(p, c, "read_lock") /\ answer' = answer
      BY <1>1 DEF ReadEnter, EnterHandler
    <2>2. f_pos[f] \in Nat
      BY <2>1, ThreadTypes DEF Enter
    <2>3. c \in Calls /\ c.op = "read"
      BY <2>2 DEF Calls
    <2> HIDE DEF c
    <2>4. /\ "read_lock" \in Steps /\ "read_lock" \notin {"idle", "lines"}
          /\ c.op = CallAt["read_lock"]
      BY <2>3, CallAtIs DEF Steps
    <2>5. QED
      BY <1>0, <2>1, <2>3, <2>4, ThreadTypes, EnterStep
  <1>2. CASE TakeLock(p, "read_lock", "read") /\ UNCHANGED before
    <2>1. {"read_lock", "read"} \subseteq Steps /\ CallAt["read_lock"] = CallAt["read"]
      BY CallAtIs DEF Steps
    <2>2. before' \in Seq(Bytes)
      BY <1>2, ThreadTypes
    <2>3. QED
      BY <1>0, <1>2, <2>1, <2>2, TakeLockStep
  <1>3. CASE Interrupted(p, "read_lock")
    BY <1>0, <1>3, InterruptedStep DEF Steps
  <1>4. CASE ReadBody(p)
    <2> DEFINE data == ReadBytes(call[p])
    <2>1. /\ pc[p] = "read" /\ UNCHANGED <<module, dev, f_pos, call, allocated_memory, start>>
          /\ total_size' = total_size /\ before' = before /\ pc' = [pc EXCEPT ![p] = "done"]
      BY <1>4 DEF ReadBody, UnlockAndReturn, locals
    <2>2. loaded /\ call[p] \in Calls /\ call[p].op = "read"
      BY <2>1, InCallIs, CallAtIs DEF Steps
    <2>3. call[p].pos \in Nat /\ call[p].count \in Nat
      BY <2>2, CallFields
    <2>4. data \in Seq(Bytes) /\ Len(data) \in Int /\ << >> \in Seq(Bytes) /\ -EFAULT \in Int
      <3>1. data \in Seq(Bytes)
        BY <2>2, <2>3, ReadBytesType
      <3>2. QED
        BY <3>1, LenProperties, EmptySeq DEF EFAULT
    <2>5. \/ answer' = [answer EXCEPT ![p] = [ret |-> Len(data), data |-> data]]
          \/ answer' = [answer EXCEPT ![p] = [ret |-> -EFAULT, data |-> << >>]]
      BY <1>4 DEF ReadBody, UnlockAndReturn
    <2> HIDE DEF data
    <2>6. answer' \in [Procs -> Answers]
      <3>1. \E ret \in Int, d \in Seq(Bytes) :
               answer' = [answer EXCEPT ![p] = [ret |-> ret, data |-> d]]
        BY <2>4, <2>5
      <3>2. QED
        BY <3>1, AnswerWith
    <2>7. "done" \in Steps /\ "done" \notin DOMAIN CallAt
      BY CallAtIs DEF Steps
    <2>8. QED
      BY <1>0, <2>1, <2>6, <2>7, ThreadTypes, HandlerStep
  <1>5. QED
    BY <1>1, <1>2, <1>3, <1>4 DEF aesd_read

LEMMA SeekType ==
  ASSUME NEW pos \in Nat, NEW seek, seek.off \in Int, NEW size \in Nat
  PROVE  fixed_size_llseek(pos, seek, size) \in Int
  BY DEF fixed_size_llseek, EINVAL

(* A step that returns with the position of the call's file moved.         *)
LEMMA PositionStep ==
  ASSUME DriverInv, LockInv', NEW p \in Procs, pc[p] \notin {"idle", "lines"},
         NEW pos \in Nat, f_pos' = [f_pos EXCEPT ![call[p].file] = pos],
         pc' = [pc EXCEPT ![p] = "done"],
         UNCHANGED <<module, dev, call, allocated_memory, start>>,
         total_size' \in [Procs -> Nat], answer' \in [Procs -> Answers],
         before' \in Seq(Bytes)
  PROVE  DriverInv'
  <1> DEFINE c == call[p]
  <1>1. loaded /\ c \in Calls /\ c.file \in Files
    BY InCallIs
  <1>2. call' = [call EXCEPT ![p] = c]
    BY ThreadTypes
  <1> HIDE DEF c
  <1>3. f_pos' = [f_pos EXCEPT ![c.file] = pos] /\ f_pos \in [Files -> Nat \cup {NULL}]
    BY ThreadTypes DEF c
  <1>4. /\ f_pos' \in [Files -> Nat \cup {NULL}] /\ f_pos'[c.file] # NULL
        /\ \A f \in Files : f_pos[f] # NULL => f_pos'[f] # NULL
    BY <1>1, <1>3, NullIsNone
  <1>5. "done" \in Steps /\ "done" # "lines" /\ "done" \notin DOMAIN CallAt
    BY CallAtIs DEF Steps
  <1>6. UNCHANGED <<module, dev, allocated_memory, start>> /\ pc[p] # "lines"
    OBVIOUS
  <1>7. QED
    BY <1>1, <1>2, <1>4, <1>5, <1>6, ThreadStep

LEMMA LseekStep ==
  ASSUME DriverInv, NEW p \in Procs, aesd_lseek(p)
  PROVE  DriverInv'
  <1>0. LockInv'
    BY DriverLock, LseekLock
  <1>1. ASSUME NEW f \in Files, NEW sk \in Seeks, LseekEnter(p, f, sk) PROVE DriverInv'
    <2> DEFINE c == [op |-> "lseek", file |-> f, seek |-> sk]
    <2>1. Enter(p, c, "lseek_lock") /\ answer' = answer
      BY <1>1 DEF LseekEnter, EnterHandler
    <2>2. c \in Calls /\ c.op = "lseek"
      BY DEF Calls
    <2> HIDE DEF c
    <2>3. /\ "lseek_lock" \in Steps /\ "lseek_lock" \notin {"idle", "lines"}
          /\ c.op = CallAt["lseek_lock"]
      BY <2>2, CallAtIs DEF Steps
    <2>4. QED
      BY <1>0, <2>1, <2>2, <2>3, ThreadTypes, EnterStep
  <1>2. CASE TakeLock(p, "lseek_lock", "size") /\ UNCHANGED before
    <2>1. {"lseek_lock", "size"} \subseteq Steps /\ CallAt["lseek_lock"] = CallAt["size"]
      BY CallAtIs DEF Steps
    <2>2. before' \in Seq(Bytes)
      BY <1>2, ThreadTypes
    <2>3. QED
      BY <1>0, <1>2, <2>1, <2>2, TakeLockStep
  <1>3. CASE Interrupted(p, "lseek_lock")
    BY <1>0, <1>3, InterruptedStep DEF Steps
  <1>4. CASE LseekSize(p)
    <2>1. /\ pc[p] = "size" /\ UNCHANGED <<module, dev, f_pos, call, allocated_memory, start>>
          /\ answer' = answer /\ before' = before /\ pc' = [pc EXCEPT ![p] = "apply"]
          /\ total_size' = [total_size EXCEPT ![p] = get_total_size(c_buffer)]
      BY <1>4 DEF LseekSize
    <2>2. get_total_size(c_buffer) \in Nat
      BY SizeType DEF DriverInv
    <2>3. total_size' \in [Procs -> Nat]
      BY <2>1, <2>2, ThreadTypes
    <2>4. /\ "size" \in DOMAIN CallAt /\ "apply" \in Steps
          /\ CallAt["apply"] = CallAt["size"]
      BY CallAtIs DEF Steps
    <2>5. call[p].op = CallAt["apply"]
      BY <2>1, <2>4, InCallIs
    <2>6. QED
      BY <1>0, <2>1, <2>3, <2>4, <2>5, ThreadTypes, HandlerStep
  <1>5. CASE LseekApply(p)
    <2> DEFINE f == call[p].file
               pos == fixed_size_llseek(f_pos[f], call[p].seek, total_size[p])
               new == IF pos < 0 THEN f_pos[f] ELSE pos
    <2>1. /\ pc[p] = "apply" /\ UNCHANGED <<module, dev, call, allocated_memory, start>>
          /\ f_pos' = [f_pos EXCEPT ![f] = IF pos < 0 THEN @ ELSE pos]
          /\ answer' = [answer EXCEPT ![p].ret = pos]
          /\ total_size' = total_size /\ before' = before /\ pc' = [pc EXCEPT ![p] = "done"]
      BY <1>5 DEF LseekApply, locals
    <2>2. call[p] \in Calls /\ call[p].op = "lseek" /\ f \in Files /\ f_pos[f] \in Nat
      BY <2>1, InCallIs, CallAtIs DEF Steps
    <2>3. call[p].seek.off \in Int /\ total_size[p] \in Nat
      BY <2>2, CallFields, ThreadTypes
    <2>4. pos \in Int
      BY <2>2, <2>3, SeekType
    <2> HIDE DEF pos
    <2>5. new \in Nat /\ f_pos' = [f_pos EXCEPT ![f] = new]
      BY <2>1, <2>2, <2>4, ThreadTypes
    <2>6. answer' \in [Procs -> Answers]
      BY <2>1, <2>4, AnswerRet
    <2> HIDE DEF new
    <2>7. f_pos' = [f_pos EXCEPT ![call[p].file] = new]
      BY <2>5
    <2> HIDE DEF f
    <2>8. QED
      BY <1>0, <2>1, <2>5, <2>6, <2>7, ThreadTypes, PositionStep
  <1>6. QED
    BY <1>1, <1>2, <1>3, <1>4, <1>5 DEF aesd_lseek

LEMMA IoctlStep ==
  ASSUME DriverInv, NEW p \in Procs, aesd_ioctl(p)
  PROVE  DriverInv'
  <1>0. LockInv'
    BY DriverLock, IoctlLock
  <1>1. ASSUME NEW f \in Files, NEW to \in SeekTos, IoctlEnter(p, f, to) PROVE DriverInv'
    <2> DEFINE c == [op |-> "ioctl", file |-> f, to |-> to]
    <2>1. \/ Enter(p, c, "ioctl_lock") /\ answer' = answer
          \/ \E ret \in {-ENOTTY, -EFAULT} :
                Enter(p, c, "done") /\ answer' = [answer EXCEPT ![p].ret = ret]
      BY <1>1 DEF IoctlEnter, EnterHandler, EnterAndReturn
    <2>2. c \in Calls /\ c.op = "ioctl"
      BY DEF Calls
    <2> HIDE DEF c
    <2>3. /\ "ioctl_lock" \in Steps /\ "ioctl_lock" \notin {"idle", "lines"}
          /\ c.op = CallAt["ioctl_lock"]
          /\ "done" \in Steps /\ "done" \notin {"idle", "lines"} /\ "done" \notin DOMAIN CallAt
      BY <2>2, CallAtIs DEF Steps
    <2>4. CASE Enter(p, c, "ioctl_lock") /\ answer' = answer
      BY <1>0, <2>2, <2>3, <2>4, ThreadTypes, EnterStep
    <2>5. ASSUME NEW ret \in {-ENOTTY, -EFAULT}, Enter(p, c, "done"),
                 answer' = [answer EXCEPT ![p].ret = ret]
          PROVE  DriverInv'
      <3>1. ret \in Int
        BY DEF ENOTTY, EFAULT
      <3>2. answer' \in [Procs -> Answers]
        BY <2>5, <3>1, AnswerRet
      <3>3. QED
        BY <1>0, <2>2, <2>3, <2>5, <3>2, EnterStep
    <2>6. QED
      BY <2>1, <2>4, <2>5
  <1>2. CASE TakeLock(p, "ioctl_lock", "adjust") /\ UNCHANGED before
    <2>1. {"ioctl_lock", "adjust"} \subseteq Steps /\ CallAt["ioctl_lock"] = CallAt["adjust"]
      BY CallAtIs DEF Steps
    <2>2. before' \in Seq(Bytes)
      BY <1>2, ThreadTypes
    <2>3. QED
      BY <1>0, <1>2, <2>1, <2>2, TakeLockStep
  <1>3. CASE Interrupted(p, "ioctl_lock")
    BY <1>0, <1>3, InterruptedStep DEF Steps
  <1>4. CASE IoctlAdjust(p)
    <2> DEFINE f == call[p].file
               to == call[p].to
               pos == adjust_aesd_file_offset(c_buffer, to.write_cmd, to.write_cmd_offset)
               new == IF pos = NULL THEN f_pos[f] ELSE pos
               ret == IF pos = NULL THEN -EINVAL ELSE pos
    <2>1. /\ pc[p] = "adjust" /\ UNCHANGED <<module, dev, call, allocated_memory, start>>
          /\ f_pos' = [f_pos EXCEPT ![f] = IF pos = NULL THEN @ ELSE pos]
          /\ answer' = [answer EXCEPT ![p] = [ret |-> ret, data |-> << >>]]
          /\ total_size' = total_size /\ before' = before /\ pc' = [pc EXCEPT ![p] = "done"]
      BY <1>4 DEF IoctlAdjust, UnlockAndReturn, locals
    <2>2. call[p] \in Calls /\ call[p].op = "ioctl" /\ f \in Files /\ f_pos[f] \in Nat
      BY <2>1, InCallIs, CallAtIs DEF Steps
    <2>3. to.write_cmd \in Nat /\ to.write_cmd_offset \in Nat
      BY <2>2, CallFields
    <2>4. pos = NULL \/ pos \in Nat
      BY <2>3, AdjustType DEF DriverInv
    <2> HIDE DEF pos
    <2>5. new \in Nat /\ f_pos' = [f_pos EXCEPT ![f] = new] /\ ret \in Int
      BY <2>1, <2>2, <2>4, ThreadTypes DEF EINVAL
    <2> HIDE DEF ret
    <2>6. << >> \in Seq(Bytes)
      BY EmptySeq
    <2>7. answer' \in [Procs -> Answers]
      BY <2>1, <2>5, <2>6, AnswerWith
    <2> HIDE DEF new
    <2>8. f_pos' = [f_pos EXCEPT ![call[p].file] = new]
      BY <2>5
    <2> HIDE DEF f
    <2>9. QED
      BY <1>0, <2>1, <2>5, <2>7, <2>8, ThreadTypes, PositionStep
  <1>5. QED
    BY <1>1, <1>2, <1>3, <1>4 DEF aesd_ioctl

LEMMA ReturnStep ==
  ASSUME DriverInv, NEW p \in Procs, SysReturn(p)
  PROVE  DriverInv'
  <1> DEFINE c == call[p]
             ret == answer[p].ret
  <1>1. /\ pc[p] = "done" /\ pc' = [pc EXCEPT ![p] = "idle"]
        /\ call' = [call EXCEPT ![p] = NoCall] /\ answer' = [answer EXCEPT ![p] = NoAnswer]
        /\ total_size' = [total_size EXCEPT ![p] = 0] /\ before' = before
        /\ UNCHANGED <<module, dev, allocated_memory, start>> /\ lock' = lock
    BY DEF SysReturn
  <1>2. \/ c.op = "read" /\ ret >= 0 /\ f_pos' = [f_pos EXCEPT ![c.file] = c.pos + ret]
        \/ c.op = "write" /\ f_pos' = [f_pos EXCEPT ![c.file] = c.pos]
        \/ f_pos' = f_pos
    BY DEF SysReturn
  <1>3. LockInv'
    <2>1. /\ pc[p] \notin Critical /\ "idle" \in Steps /\ "idle" \notin Critical
      BY <1>1 DEF Critical, Steps
    <2>2. QED
      BY <1>1, <2>1, DriverLock, Move
  <1>4. c \in Calls /\ c.file \in Files
    BY <1>1, InCallIs
  <1>5. c.op \in {"read", "write"} => c.pos \in Nat
    BY <1>4, CallFields
  <1>6. ret \in Int /\ f_pos \in [Files -> Nat \cup {NULL}]
    BY ThreadTypes DEF Answers
  <1> HIDE DEF c, ret
  <1>7. f_pos' = f_pos \/ \E pos \in Nat : f_pos' = [f_pos EXCEPT ![c.file] = pos]
    <2>1. CASE c.op = "read" /\ ret >= 0 /\ f_pos' = [f_pos EXCEPT ![c.file] = c.pos + ret]
      <3>1. c.pos + ret \in Nat
        BY <1>5, <1>6, <2>1
      <3>2. QED
        BY <2>1, <3>1
    <2>2. QED
      BY <1>2, <1>5, <2>1
  <1>8. /\ f_pos' \in [Files -> Nat \cup {NULL}]
        /\ \A f \in Files : f_pos[f] # NULL => f_pos'[f] # NULL
    BY <1>4, <1>6, <1>7, NullIsNone
  <1>9. NoAnswer \in Answers /\ 0 \in Nat
    BY EmptySeq DEF NoAnswer, Answers
  <1>10. answer' \in [Procs -> Answers] /\ total_size' \in [Procs -> Nat]
    BY <1>1, <1>9, ThreadTypes
  <1>11. /\ "idle" \in Steps /\ "idle" # "lines" /\ "idle" \notin DOMAIN CallAt
         /\ pc[p] # "lines" /\ NoCall \in Calls \cup {NoCall}
    BY <1>1, CallAtIs DEF Steps
  <1>12. QED
    BY <1>1, <1>3, <1>8, <1>10, <1>11, ThreadTypes, ThreadStep

(* Opening a file, and closing one that no thread is using.                *)
LEMMA FileStep ==
  ASSUME DriverInv, f_pos' \in [Files -> Nat \cup {NULL}],
         UNCHANGED <<module, lock, dev, pc, call, locals, answer, before>>,
         \A p \in Procs : pc[p] # "idle" => f_pos'[call[p].file] # NULL
  PROVE  DriverInv'
  <1>1. /\ loaded' = loaded /\ region' = region /\ lock' = lock /\ c_buffer' = c_buffer
        /\ partial_buffer' = partial_buffer /\ heap' = heap /\ pc' = pc /\ call' = call
        /\ allocated_memory' = allocated_memory /\ start' = start
        /\ total_size' = total_size /\ answer' = answer /\ before' = before
    BY DEF module, dev, locals
  <1>2. TypeOK'
    BY <1>1 DEF DriverInv, TypeOK
  <1>3. LockDiscipline' /\ Ring(c_buffer')
    BY <1>1 DEF DriverInv, LockDiscipline
  <1>4. ASSUME NEW p \in Procs PROVE InCall(p)'
    BY <1>1 DEF DriverInv, InCall
  <1>5. Memory'
    BY <1>1, MemoryStays DEF DriverInv
  <1>6. QED
    BY <1>2, <1>3, <1>4, <1>5 DEF DriverInv

LEMMA OpenStep ==
  ASSUME DriverInv, NEW f \in Files, aesd_open(f) \/ aesd_release(f)
  PROVE  DriverInv'
  <1>1. f_pos \in [Files -> Nat \cup {NULL}]
    BY ThreadTypes
  <1>2. /\ f_pos' \in [Files -> Nat \cup {NULL}]
        /\ UNCHANGED <<module, lock, dev, pc, call, locals, answer, before>>
    BY <1>1 DEF aesd_open, aesd_release
  <1>3. ASSUME NEW p \in Procs, pc[p] # "idle" PROVE f_pos'[call[p].file] # NULL
    <2>1. call[p].file \in Files /\ f_pos[call[p].file] # NULL
      BY <1>3, InCallIs, NullIsNone
    <2>2. CASE aesd_open(f)
      BY <1>1, <2>1, <2>2, NullIsNone DEF aesd_open
    <2>3. CASE aesd_release(f)
      <3>1. f # call[p].file
        BY <1>3, <2>3 DEF aesd_release
      <3>2. QED
        BY <1>1, <2>1, <2>3, <3>1 DEF aesd_release
    <2>4. QED
      BY <2>2, <2>3
  <1>4. QED
    BY <1>2, <1>3, FileStep

-----------------------------------------------------------------------------
(* The lines and the partial line as sequences.                            *)
LEMMA LineBytesAre ==
  ASSUME DriverInv, loaded
  PROVE  /\ EntryCount(c_buffer) \in Nat
         /\ LineBytes \in [1 .. EntryCount(c_buffer) -> Seq(Bytes)]
         /\ \A k \in 1 .. EntryCount(c_buffer) : \E n : Line(LineBytes[k], n)
  <1>1. EntryCount(c_buffer) \in 0 .. MAX
    BY CommandsAre DEF DriverInv
  <1>2. ASSUME NEW k \in 1 .. EntryCount(c_buffer)
        PROVE  LineBytes[k] \in Seq(Bytes) /\ \E n : Line(LineBytes[k], n)
    <2> DEFINE x == CommandSlot(c_buffer, k - 1)
               e == c_buffer.entry[x]
    <2>1. k - 1 \in Slots /\ k - 1 < EntryCount(c_buffer)
      BY <1>1, MAXAssumption DEF Slots
    <2>2. x \in Slots /\ Occupied(e)
      BY <2>1, CommandsAre DEF DriverInv
    <2>3. LineBytes[k] = SubSeq(heap[e.buffptr], 1, e.size)
      BY DEF LineBytes, Window, Stored
    <2> HIDE DEF x
    <2>4. Line(heap[e.buffptr], e.size)
      BY <2>2 DEF DriverInv, Memory, Pointers, Occupied
    <2> HIDE DEF e
    <2>5. heap[e.buffptr] \in Seq(Bytes) /\ Len(heap[e.buffptr]) = e.size
      BY <2>4 DEF Line
    <2>6. LineBytes[k] = heap[e.buffptr]
      BY <2>3, <2>5, SubSeqFull
    <2>7. QED
      BY <2>4, <2>5, <2>6
  <1>3. LineBytes = [k \in 1 .. EntryCount(c_buffer) |-> LineBytes[k]]
    BY DEF LineBytes
  <1>4. QED
    BY <1>1, <1>2, <1>3

LEMMA PartialBytesAre ==
  ASSUME DriverInv, loaded
  PROVE  /\ PartialBytes \in Seq(Bytes) /\ Len(PartialBytes) = partial_buffer.size
         /\ \A k \in 1 .. Len(PartialBytes) : PartialBytes[k] # NL
         /\ partial_buffer.size \in Nat
         /\ partial_buffer.size = 0 <=> partial_buffer.buffptr = NULL
  <1>1. IF partial_buffer.buffptr = NULL
          THEN partial_buffer.size = 0
          ELSE PartOfLine(heap[partial_buffer.buffptr], partial_buffer.size)
    BY DEF DriverInv, Memory, Pointers
  <1>2. CASE partial_buffer.buffptr = NULL
    <2>1. partial_buffer.size = 0
      BY <1>1, <1>2
    <2>2. PartialBytes = << >>
      BY <2>1 DEF PartialBytes
    <2>3. QED
      BY <1>2, <2>1, <2>2, EmptySeq
  <1>3. CASE partial_buffer.buffptr # NULL
    <2> DEFINE s == heap[partial_buffer.buffptr]
               n == partial_buffer.size
    <2>1. s \in Seq(Bytes) /\ Len(s) = n /\ n \in Nat \ {0} /\ \A k \in 1 .. n : s[k] # NL
      BY <1>1, <1>3 DEF PartOfLine
    <2>2. SubSeq(s, 1, n) = s
      BY <2>1, SubSeqFull
    <2>3. PartialBytes = s
      BY <2>1, <2>2 DEF PartialBytes, Stored
    <2>4. QED
      BY <1>3, <2>1, <2>3
  <1>4. QED
    BY <1>2, <1>3

LEMMA ContentsType ==
  ASSUME DriverInv, loaded
  PROVE  Contents \in Seq(Bytes)
  <1>1. FlattenSeq(LineBytes) \in Seq(Bytes)
    BY LineBytesAre, FlattenType
  <1>2. PartialBytes \in Seq(Bytes)
    BY PartialBytesAre
  <1>3. QED
    BY <1>1, <1>2, ConcatProperties DEF Contents

-----------------------------------------------------------------------------
(* What joining a partial line with bytes of the copy gives: a line when   *)
(* the bytes end at their first newline, part of a line without one.       *)
LEMMA SliceIs ==
  ASSUME NEW buf \in Seq(Bytes), NEW first \in Nat, NEW last \in Nat,
         first <= last, last < Len(buf)
  PROVE  LET t == SubSeq(buf, first + 1, last + 1)
         IN  /\ t \in Seq(Bytes) /\ Len(t) = (last - first) + 1
             /\ \A i \in 1 .. (last - first) + 1 :
                   first + i \in 1 .. Len(buf) /\ t[i] = buf[first + i]
  <1> DEFINE m == first + 1
             n == last + 1
  <1>1. /\ m \in Int /\ n \in Int /\ m <= n /\ n - m + 1 = (last - first) + 1
        /\ m .. n \subseteq 1 .. Len(buf) /\ Len(buf) \in Nat
        /\ \A i \in 1 .. (last - first) + 1 : m + i - 1 = first + i /\ first + i \in 1 .. Len(buf)
    BY LenProperties
  <1>2. \A i \in m .. n : buf[i] \in Bytes
    BY <1>1, ElementOfSeq
  <1> HIDE DEF m, n
  <1>3. /\ SubSeq(buf, m, n) \in Seq(Bytes)
        /\ Len(SubSeq(buf, m, n)) = IF m <= n THEN n - m + 1 ELSE 0
        /\ \A i \in 1 .. n - m + 1 : SubSeq(buf, m, n)[i] = buf[m + i - 1]
    BY <1>1, <1>2, SubSeqProperties
  <1>4. /\ SubSeq(buf, m, n) \in Seq(Bytes)
        /\ Len(SubSeq(buf, m, n)) = (last - first) + 1
        /\ \A i \in 1 .. (last - first) + 1 :
              first + i \in 1 .. Len(buf) /\ SubSeq(buf, m, n)[i] = buf[first + i]
    BY <1>1, <1>3
  <1>5. QED
    BY <1>4 DEF m, n

(* t is s followed by buf[first + 1 .. last + 1], n bytes in all.          *)
IsJoin(t, n, s, buf, first, last) ==
  /\ t \in Seq(Bytes) /\ Len(t) = n /\ n \in Nat \ {0}
  /\ \A i \in 1 .. n : \/ i \in 1 .. Len(s) /\ t[i] = s[i]
                       \/ \E j \in first .. last : t[i] = buf[j + 1] /\ (i = n <=> j = last)
  /\ t[n] = buf[last + 1]

LEMMA JoinIs ==
  ASSUME NEW s \in Seq(Bytes), NEW buf \in Seq(Bytes), NEW first \in Nat, NEW last \in Nat,
         first <= last, last < Len(buf)
  PROVE  IsJoin(s \o SubSeq(buf, first + 1, last + 1), Len(s) + last - first + 1,
                s, buf, first, last)
  <1> DEFINE u == SubSeq(buf, first + 1, last + 1)
             l == Len(s)
             n == Len(s) + last - first + 1
  <1>1. /\ u \in Seq(Bytes) /\ Len(u) = (last - first) + 1
        /\ \A i \in 1 .. (last - first) + 1 : u[i] = buf[first + i]
    BY SliceIs
  <1>2. l \in Nat
    BY LenProperties
  <1> HIDE DEF u
  <1>3. /\ s \o u \in Seq(Bytes) /\ Len(s \o u) = l + Len(u)
        /\ \A i \in 1 .. l + Len(u) : (s \o u)[i] = IF i <= l THEN s[i] ELSE u[i - l]
    BY <1>1, ConcatProperties
  <1> DEFINE t == s \o u
  <1> HIDE DEF t, l
  <1>4. n = l + Len(u) /\ n \in Nat \ {0}
    BY <1>1, <1>2 DEF l
  <1>5. /\ t \in Seq(Bytes) /\ Len(t) = n
        /\ \A i \in 1 .. n : t[i] = IF i <= l THEN s[i] ELSE u[i - l]
    BY <1>3, <1>4 DEF t
  <1> HIDE DEF n
  <1>6. \A i \in 1 .. n : i > l =>
           /\ i - l \in 1 .. (last - first) + 1 /\ (first + (i - l)) - 1 \in first .. last
           /\ ((first + (i - l)) - 1) + 1 = first + (i - l)
           /\ i = n <=> (first + (i - l)) - 1 = last
    BY <1>1, <1>2, <1>4
  <1>7. \A i \in 1 .. n : i > l => t[i] = buf[((first + (i - l)) - 1) + 1]
    BY <1>1, <1>2, <1>5, <1>6
  <1>8. \A i \in 1 .. n : i <= l => i \in 1 .. l /\ t[i] = s[i]
    BY <1>2, <1>5
  <1>9. ASSUME NEW i \in 1 .. n
        PROVE  \/ i \in 1 .. l /\ t[i] = s[i]
               \/ \E j \in first .. last : t[i] = buf[j + 1] /\ (i = n <=> j = last)
    <2>1. i <= l \/ i > l
      BY <1>2
    <2>2. QED
      BY <1>6, <1>7, <1>8, <2>1
  <1>10. t[n] = buf[last + 1]
    <2>1. n \in 1 .. n /\ n > l
      BY <1>1, <1>2, <1>4
    <2>2. (first + (n - l)) - 1 = last
      BY <1>6, <2>1
    <2>3. QED
      BY <1>7, <2>1, <2>2
  <1>11. IsJoin(t, n, s, buf, first, last)
    BY <1>4, <1>5, <1>9, <1>10 DEF IsJoin, l
  <1>12. QED
    BY <1>11 DEF t, u, n, l

LEMMA JoinLine ==
  ASSUME NEW s \in Seq(Bytes), \A i \in 1 .. Len(s) : s[i] # NL,
         NEW buf \in Seq(Bytes), NEW first \in Nat, NEW last \in Nat,
         first <= last, last < Len(buf),
         buf[last + 1] = NL, \A j \in first .. last : buf[j + 1] = NL => j = last
  PROVE  Line(s \o SubSeq(buf, first + 1, last + 1), Len(s) + last - first + 1)
  <1> DEFINE t == s \o SubSeq(buf, first + 1, last + 1)
             n == Len(s) + last - first + 1
  <1>1. IsJoin(t, n, s, buf, first, last)
    BY JoinIs
  <1> HIDE DEF t, n
  <1>2. \A i \in 1 .. n - 1 : i \in 1 .. n /\ i # n
    BY <1>1 DEF IsJoin
  <1>3. \A i \in 1 .. n - 1 : t[i] # NL
    BY <1>1, <1>2 DEF IsJoin
  <1>4. Line(t, n)
    BY <1>1, <1>3 DEF Line, IsJoin
  <1>5. QED
    BY <1>4 DEF t, n

LEMMA JoinPart ==
  ASSUME NEW s \in Seq(Bytes), \A i \in 1 .. Len(s) : s[i] # NL,
         NEW buf \in Seq(Bytes), NEW first \in Nat, first < Len(buf),
         \A j \in first .. Len(buf) - 1 : buf[j + 1] # NL
  PROVE  PartOfLine(s \o SubSeq(buf, first + 1, (Len(buf) - 1) + 1), Len(s) + Len(buf) - first)
  <1> DEFINE last == Len(buf) - 1
             t == s \o SubSeq(buf, first + 1, last + 1)
             n == Len(s) + last - first + 1
  <1>1. last \in Nat /\ first <= last /\ last < Len(buf) /\ n = Len(s) + Len(buf) - first
    BY LenProperties
  <1>2. \A j \in first .. last : buf[j + 1] # NL
    OBVIOUS
  <1> HIDE DEF last
  <1>3. IsJoin(t, n, s, buf, first, last)
    BY <1>1, JoinIs
  <1> HIDE DEF t, n
  <1>4. \A i \in 1 .. n : t[i] # NL
    BY <1>2, <1>3 DEF IsJoin
  <1>5. PartOfLine(t, n)
    BY <1>3, <1>4 DEF PartOfLine, IsJoin
  <1>6. QED
    BY <1>1, <1>5 DEF t, last

-----------------------------------------------------------------------------
(* While a thread is inside, no other thread holds a copy of its buffer.   *)
LEMMA OnlyWriter ==
  ASSUME DriverInv, NEW p \in Procs, pc[p] \in Critical
  PROVE  \A q \in Procs : q # p => pc[q] # "lines" /\ allocated_memory[q] = NULL
  <1>1. \A q \in Procs : q # p => pc[q] \notin Critical
    BY DEF DriverInv, LockDiscipline
  <1>2. "lines" \in Critical
    BY DEF Critical
  <1>3. \A q \in Procs : pc[q] # "lines" => allocated_memory[q] = NULL
    BY DEF DriverInv, InCall
  <1>4. QED
    BY <1>1, <1>2, <1>3

(* Every pointer of a loaded module is NULL or points at a block in use.   *)
InUse(b) == b \in Addrs /\ heap[b] \in Seq(Bytes) /\ heap[b] # Free

LEMMA OldPointers ==
  ASSUME DriverInv, loaded
  PROVE  /\ heap \in [Addrs -> Seq(Bytes) \cup {Free}]
         /\ \A i \in Slots : c_buffer.entry[i].buffptr # NULL => InUse(c_buffer.entry[i].buffptr)
         /\ partial_buffer.buffptr # NULL => InUse(partial_buffer.buffptr)
         /\ \A q \in Procs : pc[q] = "lines" =>
               /\ InUse(allocated_memory[q]) /\ heap[allocated_memory[q]] = call[q].buf
               /\ call[q].buf \in Seq(Bytes)
  <1>1. /\ heap \in [Addrs -> Seq(Bytes) \cup {Free}] /\ allocated_memory \in [Procs -> Block]
        /\ \A i \in Slots : c_buffer.entry[i].buffptr \in Block
        /\ partial_buffer.buffptr \in Block
    BY DEF DriverInv, TypeOK, Entry
  <1>2. Pointers /\ Free \notin Seq(Bytes)
    BY AesdAssumption DEF DriverInv, Memory
  <1>3. \A i \in Slots : c_buffer.entry[i].buffptr # NULL => InUse(c_buffer.entry[i].buffptr)
    BY <1>1, <1>2 DEF Pointers, Line, InUse, Block
  <1>4. partial_buffer.buffptr # NULL => InUse(partial_buffer.buffptr)
    BY <1>1, <1>2 DEF Pointers, PartOfLine, InUse, Block
  <1>5. ASSUME NEW q \in Procs, pc[q] = "lines"
        PROVE  /\ InUse(allocated_memory[q]) /\ heap[allocated_memory[q]] = call[q].buf
               /\ call[q].buf \in Seq(Bytes)
    <2>1. call[q] \in Calls /\ call[q].op = "write"
      BY <1>5, InCallIs, CallAtIs DEF Steps
    <2>2. call[q].buf \in Seq(Bytes)
      BY <2>1, CallFields
    <2>3. allocated_memory[q] # NULL
      BY <1>5 DEF DriverInv, InCall
    <2>4. QED
      BY <1>1, <1>2, <1>5, <2>2, <2>3 DEF Pointers, InUse, Block
  <1>6. QED
    BY <1>1, <1>3, <1>4, <1>5

(* aesd_write copies the user's buffer into a fresh block.                 *)
LEMMA MemoryStage ==
  ASSUME DriverInv, NEW p \in Procs, pc[p] = "stage", loaded,
         NEW a \in Addrs, heap[a] = Free, heap' = [heap EXCEPT ![a] = call[p].buf],
         allocated_memory' = [allocated_memory EXCEPT ![p] = a],
         pc' = [pc EXCEPT ![p] = "lines"],
         UNCHANGED <<loaded, region, c_buffer, partial_buffer, call>>
  PROVE  Memory'
  <1>1. /\ pc \in [Procs -> Steps] /\ allocated_memory \in [Procs -> Block]
        /\ heap \in [Addrs -> Seq(Bytes) \cup {Free}]
        /\ Pointers /\ Distinct /\ \A b \in Addrs : heap[b] # Free => Reachable(b)
    BY DEF DriverInv, TypeOK, Memory
  <1>2. \A q \in Procs : q # p => pc[q] # "lines" /\ allocated_memory[q] = NULL
    BY OnlyWriter DEF Critical
  <1>3. \A b \in Addrs : InUse(b) => b # a /\ heap'[b] = heap[b]
    BY <1>1 DEF InUse
  <1>4. /\ \A i \in Slots : c_buffer.entry[i].buffptr # NULL => InUse(c_buffer.entry[i].buffptr)
        /\ partial_buffer.buffptr # NULL => InUse(partial_buffer.buffptr)
    BY OldPointers
  <1>5. /\ heap'[a] = call[p].buf /\ allocated_memory'[p] = a
        /\ \A q \in Procs : q # p => pc'[q] # "lines" /\ allocated_memory'[q] = NULL
        /\ allocated_memory[p] = NULL /\ a # NULL
    BY <1>1, <1>2, NullIsNone DEF DriverInv, InCall
  <1>6. Pointers'
    BY <1>1, <1>3, <1>4, <1>5 DEF Pointers, InUse
  <1>7. Distinct'
    BY <1>1, <1>3, <1>4, <1>5 DEF Distinct, InUse
  <1>8. ASSUME NEW b \in Addrs, heap'[b] # Free PROVE Reachable(b)'
    <2>1. CASE b = a
      BY <1>5, <2>1 DEF Reachable
    <2>2. CASE b # a
      <3>1. Reachable(b)
        BY <1>1, <1>8, <2>2
      <3>2. b # NULL
        BY NullIsNone
      <3>3. QED
        BY <1>2, <1>5, <3>1, <3>2 DEF Reachable
    <2>3. QED
      BY <2>1, <2>2
  <1>9. QED
    BY <1>6, <1>7, <1>8 DEF DriverInv, Memory

(* It frees the copy, and the device stays as it was.                      *)
LEMMA MemoryDrop ==
  ASSUME DriverInv, NEW p \in Procs, pc[p] = "lines", loaded,
         heap' = kfree({allocated_memory[p]}, heap),
         allocated_memory' = [allocated_memory EXCEPT ![p] = NULL],
         pc' = [pc EXCEPT ![p] = "done"],
         UNCHANGED <<loaded, region, c_buffer, partial_buffer, call>>
  PROVE  Memory'
  <1>1. /\ pc \in [Procs -> Steps] /\ allocated_memory \in [Procs -> Block]
        /\ Pointers /\ Distinct /\ \A b \in Addrs : heap[b] # Free => Reachable(b)
    BY DEF DriverInv, TypeOK, Memory
  <1>2. \A q \in Procs : q # p => pc[q] # "lines" /\ allocated_memory[q] = NULL
    BY OnlyWriter DEF Critical
  <1>3. \A b \in Addrs : heap'[b] = IF b = allocated_memory[p] THEN Free ELSE heap[b]
    BY DEF kfree
  <1>4. /\ \A i \in Slots : c_buffer.entry[i].buffptr # NULL => c_buffer.entry[i].buffptr \in Addrs
        /\ partial_buffer.buffptr # NULL => partial_buffer.buffptr \in Addrs
    BY OldPointers DEF InUse
  <1>5. /\ allocated_memory[p] # NULL
        /\ \A q \in Procs : pc'[q] # "lines" /\ allocated_memory'[q] = NULL
    BY <1>1, <1>2 DEF DriverInv, InCall
  <1>6. Pointers'
    BY <1>1, <1>3, <1>4, <1>5 DEF Pointers, Distinct
  <1>7. Distinct'
    BY <1>1, <1>5 DEF Distinct
  <1>8. ASSUME NEW b \in Addrs, heap'[b] # Free PROVE Reachable(b)'
    <2>1. b # allocated_memory[p] /\ Reachable(b)
      BY <1>1, <1>3, <1>8
    <2>2. b # NULL
      BY NullIsNone
    <2>3. QED
      BY <1>2, <2>1, <2>2 DEF Reachable
  <1>9. QED
    BY <1>6, <1>7, <1>8 DEF DriverInv, Memory

(* It stores a line in slot x: the partial line that was joined and the    *)
(* entry that was in the slot are freed.                                   *)
LEMMA MemoryLine ==
  ASSUME DriverInv, NEW p \in Procs, pc[p] = "lines", loaded,
         NEW x \in Slots, NEW a \in Addrs, heap[a] = Free, NEW v, NEW n, Line(v, n),
         \A b \in Addrs : heap'[b] =
            IF b = a THEN v
            ELSE IF b = partial_buffer.buffptr \/ b = c_buffer.entry[x].buffptr THEN Free
            ELSE heap[b],
         \A i \in Slots : c_buffer'.entry[i] =
            IF i = x THEN [buffptr |-> a, size |-> n] ELSE c_buffer.entry[i],
         partial_buffer' = NoEntry,
         UNCHANGED <<loaded, region, pc, call, allocated_memory>>
  PROVE  Memory'
  <1>1. Pointers /\ Distinct /\ \A b \in Addrs : heap[b] # Free => Reachable(b)
    BY DEF DriverInv, Memory
  <1>2. \A q \in Procs : q # p => pc[q] # "lines" /\ allocated_memory[q] = NULL
    BY OnlyWriter DEF Critical
  <1>3. /\ \A i \in Slots : c_buffer.entry[i].buffptr # NULL =>
             c_buffer.entry[i].buffptr \in Addrs /\ c_buffer.entry[i].buffptr # a
        /\ partial_buffer.buffptr # NULL =>
             partial_buffer.buffptr \in Addrs /\ partial_buffer.buffptr # a
        /\ allocated_memory[p] \in Addrs /\ allocated_memory[p] # a
    BY OldPointers DEF InUse
  <1>4. partial_buffer'.buffptr = NULL /\ partial_buffer'.size = 0 /\ a # NULL
    BY NullIsNone DEF NoEntry
  <1>5. /\ c_buffer'.entry[x].buffptr = a /\ c_buffer'.entry[x].size = n
        /\ \A i \in Slots : i # x => c_buffer'.entry[i] = c_buffer.entry[i]
    OBVIOUS
  <1>6. Pointers'
    <2>1. ASSUME NEW i \in Slots, c_buffer'.entry[i].buffptr # NULL
          PROVE  Line(heap'[c_buffer'.entry[i].buffptr], c_buffer'.entry[i].size)
      <3>1. CASE i = x
        BY <1>5, <3>1
      <3>2. CASE i # x
        <4>1. /\ c_buffer'.entry[i] = c_buffer.entry[i]
              /\ c_buffer.entry[i].buffptr # NULL
          BY <1>5, <2>1, <3>2
        <4>2. /\ c_buffer.entry[i].buffptr # partial_buffer.buffptr
              /\ c_buffer.entry[i].buffptr # c_buffer.entry[x].buffptr
          BY <1>1, <3>2, <4>1 DEF Distinct
        <4>3. heap'[c_buffer.entry[i].buffptr] = heap[c_buffer.entry[i].buffptr]
          BY <1>3, <4>1, <4>2
        <4>4. QED
          BY <1>1, <4>1, <4>3 DEF Pointers
      <3>3. QED
        BY <3>1, <3>2
    <2>2. heap'[allocated_memory[p]] = call[p].buf
      <3>1. /\ allocated_memory[p] # partial_buffer.buffptr
            /\ allocated_memory[p] # c_buffer.entry[x].buffptr
        BY <1>1, <1>3, NullIsNone DEF Distinct
      <3>2. QED
        BY <1>1, <1>3, <3>1 DEF Pointers
    <2>3. QED
      BY <1>2, <1>4, <2>1, <2>2 DEF Pointers
  <1>7. Distinct'
    BY <1>1, <1>2, <1>3, <1>4, <1>5 DEF Distinct
  <1>8. ASSUME NEW b \in Addrs, heap'[b] # Free PROVE Reachable(b)'
    <2>1. CASE b = a
      BY <1>5, <2>1 DEF Reachable
    <2>2. CASE b # a
      <3>1. /\ b # partial_buffer.buffptr /\ b # c_buffer.entry[x].buffptr
            /\ Reachable(b)
        BY <1>1, <1>8, <2>2
      <3>2. CASE \E i \in Slots : b = c_buffer.entry[i].buffptr
        BY <1>5, <3>1, <3>2 DEF Reachable
      <3>3. CASE \E q \in Procs : b = allocated_memory[q]
        BY <3>3 DEF Reachable
      <3>4. QED
        BY <3>1, <3>2, <3>3 DEF Reachable
    <2>3. QED
      BY <2>1, <2>2
  <1>9. QED
    BY <1>6, <1>7, <1>8 DEF DriverInv, Memory

(* It keeps the bytes behind the last line: the partial line that was      *)
(* joined and the copy are freed.                                          *)
LEMMA MemoryTail ==
  ASSUME DriverInv, NEW p \in Procs, pc[p] = "lines", loaded,
         NEW a \in Addrs, heap[a] = Free, NEW v, NEW n, PartOfLine(v, n),
         \A b \in Addrs : heap'[b] =
            IF b = a THEN v
            ELSE IF b = partial_buffer.buffptr \/ b = allocated_memory[p] THEN Free
            ELSE heap[b],
         partial_buffer' = [buffptr |-> a, size |-> n],
         allocated_memory' = [allocated_memory EXCEPT ![p] = NULL],
         pc' = [pc EXCEPT ![p] = "done"],
         UNCHANGED <<loaded, region, c_buffer, call>>
  PROVE  Memory'
  <1>1. /\ pc \in [Procs -> Steps] /\ allocated_memory \in [Procs -> Block]
        /\ Pointers /\ Distinct /\ \A b \in Addrs : heap[b] # Free => Reachable(b)
    BY DEF DriverInv, TypeOK, Memory
  <1>2. \A q \in Procs : q # p => pc[q] # "lines" /\ allocated_memory[q] = NULL
    BY OnlyWriter DEF Critical
  <1>3. /\ \A i \in Slots : c_buffer.entry[i].buffptr # NULL =>
             c_buffer.entry[i].buffptr \in Addrs /\ c_buffer.entry[i].buffptr # a
        /\ allocated_memory[p] \in Addrs /\ allocated_memory[p] # a
    BY OldPointers DEF InUse
  <1>4. /\ partial_buffer'.buffptr = a /\ partial_buffer'.size = n /\ a # NULL
        /\ \A q \in Procs : pc'[q] # "lines" /\ allocated_memory'[q] = NULL
    BY <1>1, <1>2, NullIsNone
  <1>5. \A i \in Slots : c_buffer.entry[i].buffptr # NULL =>
          heap'[c_buffer.entry[i].buffptr] = heap[c_buffer.entry[i].buffptr]
    BY <1>1, <1>3, NullIsNone DEF Distinct
  <1>6. Pointers'
    BY <1>1, <1>4, <1>5 DEF Pointers
  <1>7. Distinct'
    BY <1>1, <1>3, <1>4 DEF Distinct
  <1>8. ASSUME NEW b \in Addrs, heap'[b] # Free PROVE Reachable(b)'
    <2>1. CASE b = a
      BY <1>4, <2>1 DEF Reachable
    <2>2. CASE b # a
      <3>1. /\ b # partial_buffer.buffptr /\ b # allocated_memory[p] /\ b # NULL
            /\ Reachable(b)
        BY <1>1, <1>8, <2>2, NullIsNone
      <3>2. QED
        BY <1>2, <3>1 DEF Reachable
    <2>3. QED
      BY <2>1, <2>2
  <1>9. QED
    BY <1>6, <1>7, <1>8 DEF DriverInv, Memory

Buffers == [entry : [Slots -> Entry], in_offs : Slots, out_offs : Slots, full : BOOLEAN]
Heaps == [Addrs -> Seq(Bytes) \cup {Free}]

(* A step of a writer, from what it does to the memory.                    *)
LEMMA WriterStep ==
  ASSUME DriverInv, LockInv', Memory', NEW p \in Procs, pc[p] \in {"stage", "lines"},
         NEW s \in {"lines", "done"}, pc' = [pc EXCEPT ![p] = s],
         NEW m \in Block, allocated_memory' = [allocated_memory EXCEPT ![p] = m],
         NEW n \in Nat, start' = [start EXCEPT ![p] = n],
         IF s = "lines" THEN m # NULL /\ n <= Len(call[p].buf) ELSE m = NULL /\ n = 0,
         UNCHANGED <<loaded, region, f_pos, call, total_size>>,
         answer' \in [Procs -> Answers], before' \in Seq(Bytes),
         c_buffer' \in Buffers, partial_buffer' \in Entry, heap' \in Heaps, Ring(c_buffer')
  PROVE  DriverInv'
  <1>1. /\ pc \in [Procs -> Steps] /\ allocated_memory \in [Procs -> Block]
        /\ start \in [Procs -> Nat] /\ loaded \in BOOLEAN /\ region \in BOOLEAN
        /\ f_pos \in [Files -> Nat \cup {NULL}] /\ call \in [Procs -> Calls \cup {NoCall}]
        /\ total_size \in [Procs -> Nat]
    BY DEF DriverInv, TypeOK
  <1>2. allocated_memory' \in [Procs -> Block] /\ start' \in [Procs -> Nat]
    BY <1>1
  <1>3. TypeOK'
    BY <1>1, <1>2 DEF TypeOK, LockInv, LockTypes, Answers, Buffers, Heaps
  <1>4. LockDiscipline'
    BY DEF LockInv
  <1>5. ASSUME NEW q \in Procs PROVE InCall(q)'
    <2>1. CASE q = p
      <3>1. /\ pc'[p] = s /\ allocated_memory'[p] = m /\ start'[p] = n /\ pc[p] # "idle"
        BY <1>1
      <3>2. loaded /\ call[p] \in Calls /\ f_pos[call[p].file] # NULL /\ call[p].op = "write"
        BY <3>1, InCallIs, CallAtIs, NullIsNone DEF Steps
      <3>3. s \in DOMAIN CallAt => CallAt[s] = "write"
        BY CallAtIs
      <3>4. QED
        BY <2>1, <3>1, <3>2, <3>3 DEF InCall
    <2>2. CASE q # p
      <3>1. pc'[q] = pc[q] /\ allocated_memory'[q] = allocated_memory[q] /\ start'[q] = start[q]
        BY <1>1, <2>2
      <3>2. InCall(q)
        BY DEF DriverInv
      <3>3. QED
        BY <3>1, <3>2 DEF InCall
    <2>3. QED
      BY <2>1, <2>2
  <1>6. QED
    BY <1>3, <1>4, <1>5 DEF DriverInv

(* The returns of aesd_write, from what they do to the memory.             *)
LEMMA WriterReturns ==
  ASSUME DriverInv, LockInv', Memory', NEW p \in Procs, pc[p] = "lines",
         NEW ret \in Int, FreeAndReturn(p, ret), UNCHANGED <<module, f_pos, call, c_buffer>>,
         partial_buffer' \in Entry, heap' \in Heaps
  PROVE  DriverInv'
  <1>1. /\ pc' = [pc EXCEPT ![p] = "done"]
        /\ allocated_memory' = [allocated_memory EXCEPT ![p] = NULL]
        /\ start' = [start EXCEPT ![p] = 0] /\ before' = << >> /\ total_size' = total_size
        /\ answer' = [answer EXCEPT ![p] = [ret |-> ret, data |-> << >>]]
        /\ loaded' = loaded /\ region' = region /\ f_pos' = f_pos /\ call' = call
        /\ c_buffer' = c_buffer
    BY DEF FreeAndReturn, UnlockAndReturn, module
  <1>2. << >> \in Seq(Bytes) /\ NULL \in Block /\ 0 \in Nat
    BY EmptySeq DEF Block
  <1>3. answer' \in [Procs -> Answers]
    BY <1>1, <1>2, AnswerWith
  <1>4. c_buffer' \in Buffers /\ Ring(c_buffer')
    BY <1>1 DEF DriverInv, TypeOK, Buffers
  <1>5. before' \in Seq(Bytes) /\ pc[p] \in {"stage", "lines"} /\ "done" \in {"lines", "done"} /\ "done" # "lines"
    BY <1>1, <1>2
  <1>6. QED
    BY <1>1, <1>2, <1>3, <1>4, <1>5, WriterStep

(* kmalloc failed on the way: what is left behind is the device as it was. *)
LEMMA JoinFailsStep ==
  ASSUME DriverInv, LockInv', NEW p \in Procs, pc[p] = "lines", JoinFails(p),
         UNCHANGED <<module, f_pos, call>>
  PROVE  DriverInv'
  <1>1. FreeAndReturn(p, -ENOMEM) /\ c_buffer' = c_buffer /\ -ENOMEM \in Int
    BY DEF JoinFails, ENOMEM
  <1>2. loaded
    BY InCallIs
  <1>3. partial_buffer \in Entry /\ heap \in Heaps
    BY DEF DriverInv, TypeOK, Heaps
  <1>4. partial_buffer' = partial_buffer
    <2>1. partial_buffer.size = 0 => partial_buffer.buffptr = NULL
      BY <1>2, PartialBytesAre
    <2>2. partial_buffer' = [partial_buffer EXCEPT !.buffptr = partial_buffer.buffptr]
      BY <2>1 DEF JoinFails
    <2>3. QED
      BY <1>3, <2>2 DEF Entry
  <1>5. heap' = kfree({allocated_memory[p]}, heap)
    BY DEF JoinFails
  <1>6. heap' \in Heaps
    BY <1>3, <1>5 DEF kfree, Heaps
  <1>7. /\ allocated_memory' = [allocated_memory EXCEPT ![p] = NULL]
        /\ pc' = [pc EXCEPT ![p] = "done"]
        /\ UNCHANGED <<loaded, region, call>>
    BY <1>1 DEF FreeAndReturn, UnlockAndReturn, module
  <1>8. Memory'
    BY <1>1, <1>2, <1>4, <1>5, <1>7, MemoryDrop
  <1>9. QED
    BY <1>1, <1>3, <1>4, <1>6, <1>8, WriterReturns

LEMMA WriteEnterStep ==
  ASSUME DriverInv, LockInv', NEW p \in Procs, NEW f \in Files, NEW buf \in Payloads,
         WriteEnter(p, f, buf)
  PROVE  DriverInv'
  <1> DEFINE c == [op |-> "write", file |-> f, pos |-> f_pos[f], buf |-> buf]
  <1>1. \/ Enter(p, c, "write_lock") /\ answer' = answer
        \/ Enter(p, c, "done") /\ answer' = [answer EXCEPT ![p].ret = 0]
    BY DEF WriteEnter, EnterHandler, EnterAndReturn
  <1>2. f_pos[f] \in Nat
    BY <1>1, ThreadTypes DEF Enter
  <1>3. c \in Calls /\ c.op = "write"
    BY <1>2 DEF Calls
  <1> HIDE DEF c
  <1>4. /\ "write_lock" \in Steps /\ "write_lock" \notin {"idle", "lines"}
        /\ c.op = CallAt["write_lock"]
        /\ "done" \in Steps /\ "done" \notin {"idle", "lines"} /\ "done" \notin DOMAIN CallAt
    BY <1>3, CallAtIs DEF Steps
  <1>5. CASE Enter(p, c, "write_lock") /\ answer' = answer
    BY <1>3, <1>4, <1>5, ThreadTypes, EnterStep
  <1>6. CASE Enter(p, c, "done") /\ answer' = [answer EXCEPT ![p].ret = 0]
    <2>1. answer' \in [Procs -> Answers]
      BY <1>6, AnswerRet
    <2>2. QED
      BY <1>3, <1>4, <1>6, <2>1, EnterStep
  <1>7. QED
    BY <1>1, <1>5, <1>6

LEMMA WriteStageStep ==
  ASSUME DriverInv, LockInv', NEW p \in Procs, WriteStage(p)
  PROVE  DriverInv'
  <1>1. /\ pc[p] = "stage" /\ UNCHANGED <<module, c_buffer, partial_buffer, f_pos, call>>
        /\ loaded' = loaded /\ region' = region
    BY DEF WriteStage, module
  <1>2. loaded /\ allocated_memory[p] = NULL /\ start[p] = 0 /\ call[p] \in Calls
        /\ call[p].op = "write"
    BY <1>1, InCallIs, CallAtIs DEF Steps
  <1>3. call[p].buf \in Seq(Bytes)
    BY <1>2, CallFields
  <1>4. /\ allocated_memory \in [Procs -> Block] /\ start \in [Procs -> Nat] /\ heap \in Heaps
        /\ c_buffer \in Buffers /\ partial_buffer \in Entry /\ Ring(c_buffer)
    BY DEF DriverInv, TypeOK, Heaps, Buffers
  <1>5. ASSUME NEW ret \in {-ENOMEM, -EFAULT}, FreeAndReturn(p, ret), UNCHANGED heap
        PROVE  DriverInv'
    <2>1. /\ pc' = [pc EXCEPT ![p] = "done"] /\ total_size' = total_size /\ before' = << >>
          /\ answer' = [answer EXCEPT ![p] = [ret |-> ret, data |-> << >>]]
          /\ allocated_memory' = [allocated_memory EXCEPT ![p] = NULL]
          /\ start' = [start EXCEPT ![p] = 0]
      BY <1>5 DEF FreeAndReturn, UnlockAndReturn
    <2>2. allocated_memory' = allocated_memory /\ start' = start
      BY <1>2, <1>4, <2>1
    <2>3. << >> \in Seq(Bytes) /\ ret \in Int
      BY EmptySeq DEF ENOMEM, EFAULT
    <2>4. answer' \in [Procs -> Answers]
      BY <2>1, <2>3, AnswerWith
    <2>5. "done" \in Steps /\ "done" \notin DOMAIN CallAt
      BY CallAtIs DEF Steps
    <2>6. UNCHANGED <<module, dev, f_pos, call, allocated_memory, start>>
      BY <1>1, <1>5, <2>2 DEF dev
    <2>7. QED
      BY <1>1, <2>1, <2>3, <2>4, <2>5, <2>6, ThreadTypes, HandlerStep
  <1>6. ASSUME NEW a \in Addrs, kmalloc(a), heap' = [heap EXCEPT ![a] = call[p].buf],
               allocated_memory' = [allocated_memory EXCEPT ![p] = a],
               pc' = [pc EXCEPT ![p] = "lines"],
               UNCHANGED <<lock, start, total_size, answer, before>>
        PROVE  DriverInv'
    <2>1. heap[a] = Free /\ a \in Block /\ a # NULL
      BY <1>6, NullIsNone DEF kmalloc, Block
    <2>2. heap' \in Heaps
      BY <1>3, <1>4, <1>6 DEF Heaps
    <2>3. start' = [start EXCEPT ![p] = 0] /\ 0 <= Len(call[p].buf)
      BY <1>2, <1>3, <1>4, <1>6, LenProperties
    <2>4. Memory'
      BY <1>1, <1>2, <1>6, <2>1, MemoryStage
    <2>5. /\ c_buffer' \in Buffers /\ Ring(c_buffer') /\ partial_buffer' \in Entry
          /\ answer' \in [Procs -> Answers] /\ before' \in Seq(Bytes)
      BY <1>1, <1>4, <1>6, ThreadTypes
    <2>6. "lines" \in {"lines", "done"} /\ 0 \in Nat /\ pc[p] \in {"stage", "lines"}
      BY <1>1
    <2>7. UNCHANGED <<loaded, region, f_pos, call, total_size>>
      BY <1>1, <1>6
    <2>8. QED
      BY <1>6, <2>1, <2>2, <2>3, <2>4, <2>5, <2>6, <2>7, WriterStep
  <1>7. QED
    BY <1>5, <1>6 DEF WriteStage

(* The next line end, as the loop of aesd_write meets it.                  *)
LEMMA LineEndsAre ==
  ASSUME DriverInv, NEW p \in Procs, pc[p] = "lines"
  PROVE  LET buf == call[p].buf
         IN  /\ buf \in Seq(Bytes) /\ Len(buf) \in Nat /\ heap[allocated_memory[p]] = buf
             /\ start[p] \in Nat /\ start[p] <= Len(buf)
             /\ LineEnds(p) = {j \in start[p] .. Len(buf) - 1 : buf[j + 1] = NL}
             /\ LineEnds(p) # {} =>
                  /\ Min(LineEnds(p)) \in Nat /\ start[p] <= Min(LineEnds(p))
                  /\ Min(LineEnds(p)) < Len(buf) /\ buf[Min(LineEnds(p)) + 1] = NL
                  /\ \A j \in start[p] .. Min(LineEnds(p)) :
                        buf[j + 1] = NL => j = Min(LineEnds(p))
  <1> DEFINE buf == call[p].buf
  <1>1. loaded
    BY InCallIs
  <1>2. buf \in Seq(Bytes) /\ heap[allocated_memory[p]] = buf
    BY <1>1, OldPointers
  <1>3. start[p] \in Nat /\ start[p] <= Len(buf)
    BY DEF DriverInv, TypeOK, InCall
  <1>4. LineEnds(p) = {j \in start[p] .. Len(buf) - 1 : buf[j + 1] = NL}
    BY <1>2 DEF LineEnds
  <1>5. Len(buf) \in Nat
    BY <1>2, LenProperties
  <1> HIDE DEF buf
  <1> DEFINE E == LineEnds(p)
  <1>6. ASSUME E # {}
        PROVE  /\ Min(E) \in Nat /\ start[p] <= Min(E)
               /\ Min(E) < Len(buf) /\ buf[Min(E) + 1] = NL
               /\ \A j \in start[p] .. Min(E) : buf[j + 1] = NL => j = Min(E)
    <2>1. E \in SUBSET Nat
      BY <1>3, <1>4, <1>5
    <2> HIDE DEF E
    <2>2. Min(E) \in E /\ \A j \in E : Min(E) <= j
      BY <1>6, <2>1, MinIs
    <2> DEFINE e == Min(E)
    <2> HIDE DEF e
    <2>3. e \in E /\ \A j \in E : e <= j
      BY <2>2 DEF e
    <2>4. e \in Nat /\ start[p] <= e /\ e < Len(buf) /\ buf[e + 1] = NL
      BY <1>3, <1>4, <1>5, <2>3 DEF E
    <2>5. ASSUME NEW j \in start[p] .. e, buf[j + 1] = NL PROVE j = e
      <3>1. j \in start[p] .. Len(buf) - 1
        BY <1>3, <1>5, <2>4
      <3>2. j \in E
        BY <1>4, <2>5, <3>1 DEF E
      <3>3. e <= j
        BY <2>3, <3>2
      <3>4. QED
        BY <1>3, <2>4, <3>3
    <2>6. QED
      BY <2>4, <2>5 DEF e
  <1>7. QED
    BY <1>2, <1>3, <1>4, <1>5, <1>6 DEF buf

(* One line becomes an entry.                                              *)
LEMMA WriteLineStep ==
  ASSUME DriverInv, LockInv', NEW p \in Procs, WriteLine(p)
  PROVE  DriverInv'
  <1> DEFINE end  == Min(LineEnds(p))
             old  == overwritten_entry(c_buffer)
             gone == OldPartial \cup (IF old = NULL THEN {} ELSE {old.buffptr})
             x    == c_buffer.in_offs
             v    == Joined(p, end)
             n    == partial_buffer.size + end - start[p] + 1
             buf  == call[p].buf
  <1>1. pc[p] = "lines" /\ LineEnds(p) # {} /\ UNCHANGED <<module, f_pos, call>>
    BY DEF WriteLine
  <1>2. loaded /\ loaded' = loaded /\ region' = region
    BY <1>1, InCallIs DEF module
  <1>3. CASE JoinFails(p)
    BY <1>1, <1>3, JoinFailsStep
  <1>4. ASSUME NEW a \in Block, kmalloc(a), a # NULL,
               heap' = [kfree(gone, heap) EXCEPT ![a] = v],
               c_buffer' = aesd_circular_buffer_add_entry(c_buffer, [buffptr |-> a, size |-> n]),
               partial_buffer' = NoEntry, start' = [start EXCEPT ![p] = end + 1],
               UNCHANGED <<lock, pc, answer, allocated_memory, total_size, before>>
        PROVE  DriverInv'
    <2> DEFINE e == [buffptr |-> a, size |-> n]
    <2>1. a \in Addrs /\ heap[a] = Free
      BY <1>4 DEF kmalloc, Block
    <2>2. /\ buf \in Seq(Bytes) /\ Len(buf) \in Nat /\ heap[allocated_memory[p]] = buf
          /\ start[p] \in Nat /\ start[p] <= Len(buf)
          /\ end \in Nat /\ start[p] <= end /\ end < Len(buf) /\ buf[end + 1] = NL
          /\ \A j \in start[p] .. end : buf[j + 1] = NL => j = end
      BY <1>1, LineEndsAre
    <2>3. /\ PartialBytes \in Seq(Bytes) /\ Len(PartialBytes) = partial_buffer.size
          /\ \A k \in 1 .. Len(PartialBytes) : PartialBytes[k] # NL
          /\ partial_buffer.size = 0 <=> partial_buffer.buffptr = NULL
      BY <1>2, PartialBytesAre
    <2>4. v = PartialBytes \o SubSeq(buf, start[p] + 1, end + 1)
      BY <2>2 DEF Joined
    <2>5. /\ c_buffer \in Buffers /\ heap \in Heaps /\ Ring(c_buffer) /\ x \in Slots
          /\ allocated_memory \in [Procs -> Block] /\ start \in [Procs -> Nat]
          /\ pc \in [Procs -> Steps]
      BY DEF DriverInv, TypeOK, Buffers, Heaps
    <2> HIDE DEF end, v, buf
    <2>6. Line(v, n)
      <3> DEFINE s == PartialBytes
                 first == start[p]
      <3>1. n = Len(s) + end - first + 1
        BY <2>3
      <3>2. /\ s \in Seq(Bytes) /\ first \in Nat /\ v = s \o SubSeq(buf, first + 1, end + 1)
            /\ \A k \in 1 .. Len(s) : s[k] # NL
        BY <2>2, <2>3, <2>4
      <3> HIDE DEF s, n
      <3>3. Line(s \o SubSeq(buf, first + 1, end + 1), Len(s) + end - first + 1)
        BY <2>2, <3>2, JoinLine
      <3>4. QED
        BY <3>1, <3>2, <3>3
    <2>7. n \in Nat \ {0} /\ v \in Seq(Bytes)
      BY <2>6 DEF Line
    <2> HIDE DEF n
    <2>8. e \in Entry /\ Occupied(e) /\ NoEntry \in Entry
      BY <1>4, <2>7 DEF Entry, Occupied, NoEntry, Block
    <2>9. \A b \in Addrs : b \in gone <=> b = partial_buffer.buffptr \/ b = c_buffer.entry[x].buffptr
      <3>1. \A b \in Addrs : b \in OldPartial <=> b = partial_buffer.buffptr
        BY <2>3, NullIsNone DEF OldPartial
      <3>2. CASE c_buffer.full
        <4>1. old = c_buffer.entry[x] /\ old \in Entry
          BY <2>5, <3>2 DEF overwritten_entry, Buffers
        <4>2. old # NULL
          BY <4>1, AesdAssumption DEF Entry, Block
        <4>3. QED
          BY <3>1, <4>1, <4>2
      <3>3. CASE ~c_buffer.full
        <4>1. old = NULL
          BY <3>3 DEF overwritten_entry
        <4>2. c_buffer.entry[x] = NoEntry
          <5>1. ~(x < x)
            BY <2>5 DEF Slots
          <5>2. QED
            BY <2>5, <3>3, <5>1 DEF Ring
        <4>3. c_buffer.entry[x].buffptr = NULL
          BY <4>2 DEF NoEntry
        <4>4. QED
          BY <3>1, <4>1, <4>3, NullIsNone
      <3>4. QED
        BY <3>2, <3>3
    <2> HIDE DEF gone
    <2>10. \A b \in Addrs : heap'[b] =
              IF b = a THEN v
              ELSE IF b = partial_buffer.buffptr \/ b = c_buffer.entry[x].buffptr THEN Free
              ELSE heap[b]
      BY <1>4, <2>1, <2>9 DEF kfree
    <2>11. heap' \in Heaps
      BY <1>4, <2>5, <2>7 DEF kfree, Heaps
    <2>12. /\ c_buffer' \in Buffers
           /\ \A i \in Slots : c_buffer'.entry[i] = IF i = x THEN e ELSE c_buffer.entry[i]
      <3>1. NextSlot(c_buffer.in_offs) \in Slots /\ NextSlot(c_buffer.out_offs) \in Slots
        BY <2>5, NextSlotIs DEF Ring
      <3> HIDE DEF e
      <3>2. QED
        BY <1>4, <2>5, <2>8, <3>1 DEF aesd_circular_buffer_add_entry, Buffers, e
    <2>13. Ring(c_buffer')
      BY <1>4, <2>5, <2>8, RingAdd
    <2> HIDE DEF x
    <2>14. Memory'
      <3>1. UNCHANGED <<loaded, region, pc, call, allocated_memory>>
        BY <1>1, <1>2, <1>4
      <3>2. QED
        BY <1>1, <1>2, <1>4, <2>1, <2>5, <2>6, <2>10, <2>12, <3>1, MemoryLine
    <2>15. /\ pc' = [pc EXCEPT ![p] = "lines"] /\ "lines" \in {"lines", "done"}
           /\ pc[p] \in {"stage", "lines"}
      BY <1>1, <1>4, <2>5
    <2>16. /\ allocated_memory' = [allocated_memory EXCEPT ![p] = allocated_memory[p]]
           /\ allocated_memory[p] \in Block /\ allocated_memory[p] # NULL
      BY <1>1, <1>4, <2>5 DEF DriverInv, InCall
    <2>17. end + 1 \in Nat /\ end + 1 <= Len(call[p].buf)
      BY <2>2 DEF buf
    <2>18. /\ UNCHANGED <<loaded, region, f_pos, call, total_size>>
           /\ answer' \in [Procs -> Answers] /\ before' \in Seq(Bytes) /\ partial_buffer' \in Entry
      BY <1>1, <1>2, <1>4, <2>8, ThreadTypes
    <2>19. QED
      BY <1>4, <2>11, <2>12, <2>13, <2>14, <2>15, <2>16, <2>17, <2>18, WriterStep
  <1>5. QED
    BY <1>3, <1>4 DEF WriteLine

(* The loop is over: nothing is left, or what is left joins the partial    *)
(* line.                                                                   *)
LEMMA WriteTailStep ==
  ASSUME DriverInv, LockInv', NEW p \in Procs, WriteTail(p)
  PROVE  DriverInv'
  <1> DEFINE buf   == call[p].buf
             count == Len(buf)
             mem   == allocated_memory[p]
             v     == Joined(p, count - 1)
             n     == partial_buffer.size + count - start[p]
  <1>1. pc[p] = "lines" /\ LineEnds(p) = {} /\ UNCHANGED <<module, f_pos, call>>
    BY DEF WriteTail
  <1>2. loaded /\ loaded' = loaded /\ region' = region
    BY <1>1, InCallIs DEF module
  <1>3. /\ buf \in Seq(Bytes) /\ count \in Nat /\ heap[mem] = buf
        /\ start[p] \in Nat /\ start[p] <= count
        /\ LineEnds(p) = {j \in start[p] .. count - 1 : buf[j + 1] = NL}
    BY <1>1, LineEndsAre
  <1>4. heap \in Heaps /\ partial_buffer \in Entry /\ count \in Int
    BY <1>3 DEF DriverInv, TypeOK, Heaps
  <1>5. ASSUME NEW ret \in Int, FreeAndReturn(p, ret)
        PROVE  /\ allocated_memory' = [allocated_memory EXCEPT ![p] = NULL]
               /\ pc' = [pc EXCEPT ![p] = "done"]
    BY <1>5 DEF FreeAndReturn, UnlockAndReturn
  <1>6. CASE JoinFails(p)
    BY <1>1, <1>6, JoinFailsStep
  <1>7. ASSUME FreeAndReturn(p, count), heap' = kfree({mem}, heap),
               UNCHANGED <<c_buffer, partial_buffer>>
        PROVE  DriverInv'
    <2>1. heap' \in Heaps
      BY <1>4, <1>7 DEF kfree, Heaps
    <2>2. Memory'
      BY <1>1, <1>2, <1>4, <1>5, <1>7, MemoryDrop
    <2>3. QED
      BY <1>1, <1>4, <1>7, <2>1, <2>2, WriterReturns
  <1>8. ASSUME NEW a \in Block, kmalloc(a), a # NULL, start[p] < count,
               FreeAndReturn(p, count),
               heap' = [kfree(OldPartial \cup {mem}, heap) EXCEPT ![a] = v],
               partial_buffer' = [buffptr |-> a, size |-> n], UNCHANGED c_buffer
        PROVE  DriverInv'
    <2>1. a \in Addrs /\ heap[a] = Free
      BY <1>8 DEF kmalloc, Block
    <2>2. /\ PartialBytes \in Seq(Bytes) /\ Len(PartialBytes) = partial_buffer.size
          /\ \A k \in 1 .. Len(PartialBytes) : PartialBytes[k] # NL
          /\ partial_buffer.size = 0 <=> partial_buffer.buffptr = NULL
      BY <1>2, PartialBytesAre
    <2>3. v = PartialBytes \o SubSeq(buf, start[p] + 1, (count - 1) + 1)
      BY <1>3 DEF Joined
    <2>4. \A j \in start[p] .. count - 1 : buf[j + 1] # NL
      BY <1>1, <1>3
    <2> HIDE DEF v, buf
    <2>5. PartOfLine(v, n)
      <3> DEFINE s == PartialBytes
                 first == start[p]
      <3>1. n = Len(s) + Len(buf) - first
        BY <2>2
      <3>2. /\ s \in Seq(Bytes) /\ v = s \o SubSeq(buf, first + 1, (Len(buf) - 1) + 1)
            /\ \A k \in 1 .. Len(s) : s[k] # NL
        BY <2>2, <2>3
      <3>3. /\ first \in Nat /\ first < Len(buf)
            /\ \A j \in first .. Len(buf) - 1 : buf[j + 1] # NL
        BY <1>3, <1>8, <2>4
      <3> HIDE DEF s, n, first
      <3>4. PartOfLine(s \o SubSeq(buf, first + 1, (Len(buf) - 1) + 1), Len(s) + Len(buf) - first)
        BY <1>3, <3>2, <3>3, JoinPart
      <3>5. QED
        BY <3>1, <3>2, <3>4
    <2>6. n \in Nat /\ v \in Seq(Bytes)
      BY <2>5 DEF PartOfLine
    <2> HIDE DEF n, count
    <2>7. partial_buffer' \in Entry
      BY <1>8, <2>6 DEF Entry
    <2>8. \A b \in Addrs : b \in OldPartial <=> b = partial_buffer.buffptr
      BY <2>2, NullIsNone DEF OldPartial
    <2>9. \A b \in Addrs : heap'[b] =
             IF b = a THEN v
             ELSE IF b = partial_buffer.buffptr \/ b = allocated_memory[p] THEN Free
             ELSE heap[b]
      BY <1>8, <2>1, <2>8 DEF kfree
    <2>10. heap' \in Heaps
      BY <1>4, <1>8, <2>6 DEF kfree, Heaps
    <2>11. /\ allocated_memory' = [allocated_memory EXCEPT ![p] = NULL]
           /\ pc' = [pc EXCEPT ![p] = "done"]
           /\ UNCHANGED <<loaded, region, c_buffer, call>>
      BY <1>1, <1>2, <1>4, <1>5, <1>8
    <2>12. Memory'
      <3>1. partial_buffer' = [buffptr |-> a, size |-> n] /\ pc[p] = "lines" /\ loaded
        BY <1>1, <1>2, <1>8
      <3>2. QED
        BY <2>1, <2>5, <2>9, <2>11, <3>1, MemoryTail, ZenonT(40)
    <2>13. UNCHANGED <<module, f_pos, call, c_buffer>>
      BY <1>1, <1>8
    <2>14. QED
      BY <1>1, <1>4, <1>8, <2>7, <2>10, <2>12, <2>13, WriterReturns
  <1>9. QED
    BY <1>6, <1>7, <1>8 DEF WriteTail

LEMMA WriteStep ==
  ASSUME DriverInv, NEW p \in Procs, aesd_write(p)
  PROVE  DriverInv'
  <1>0. LockInv'
    BY DriverLock, WriteLockInv
  <1>1. CASE \E f \in Files, buf \in Payloads : WriteEnter(p, f, buf)
    BY <1>0, <1>1, WriteEnterStep
  <1>2. CASE WriteLock(p)
    <2>1. /\ "write_lock" \in Steps /\ "stage" \in Steps
          /\ CallAt["write_lock"] = CallAt["stage"]
      BY CallAtIs DEF Steps
    <2>2. TakeLock(p, "write_lock", "stage") /\ before' = Contents /\ pc[p] = "write_lock"
      BY <1>2 DEF WriteLock, TakeLock
    <2>3. loaded
      BY <2>2, InCallIs
    <2>4. before' \in Seq(Bytes)
      BY <2>2, <2>3, ContentsType
    <2>5. QED
      BY <1>0, <2>1, <2>2, <2>4, TakeLockStep
  <1>3. CASE Interrupted(p, "write_lock")
    BY <1>0, <1>3, InterruptedStep DEF Steps
  <1>4. QED
    BY <1>0, <1>1, <1>2, <1>3, WriteStageStep, WriteLineStep, WriteTailStep DEF aesd_write

-----------------------------------------------------------------------------
(* Loading and unloading.  Neither runs while a thread is in a call.       *)
LEMMA NobodyInside ==
  ASSUME DriverInv, ~loaded \/ \A f \in Files : f_pos[f] = NULL
  PROVE  \A p \in Procs : pc[p] = "idle" /\ allocated_memory[p] = NULL
  <1> SUFFICES ASSUME NEW p \in Procs
               PROVE  pc[p] = "idle" /\ allocated_memory[p] = NULL
    OBVIOUS
  <1>1. pc[p] = "idle"
    BY InCallIs, NullIsNone
  <1>2. InCall(p)
    BY DEF DriverInv
  <1>3. QED
    BY <1>1, <1>2 DEF InCall

(* A step of the module itself, from what it does to the memory.           *)
LEMMA ModuleStep ==
  ASSUME DriverInv, Memory', \A p \in Procs : pc[p] = "idle",
         UNCHANGED <<lock, f_pos, pc, call, locals, answer, before>>,
         loaded' \in BOOLEAN, region' \in BOOLEAN,
         c_buffer' \in Buffers, Ring(c_buffer'), partial_buffer' \in Entry, heap' \in Heaps
  PROVE  DriverInv'
  <1>1. /\ lock' = lock /\ f_pos' = f_pos /\ pc' = pc /\ call' = call
        /\ allocated_memory' = allocated_memory /\ start' = start
        /\ total_size' = total_size /\ answer' = answer /\ before' = before
    BY DEF locals
  <1>2. TypeOK'
    BY <1>1 DEF DriverInv, TypeOK, Buffers, Heaps
  <1>3. LockDiscipline'
    BY <1>1 DEF DriverInv, LockDiscipline
  <1>4. ASSUME NEW p \in Procs PROVE InCall(p)'
    BY <1>1 DEF DriverInv, InCall
  <1>5. QED
    BY <1>2, <1>3, <1>4 DEF DriverInv

LEMMA EmptyRing ==
  /\ aesd_circular_buffer_init \in Buffers /\ Ring(aesd_circular_buffer_init)
  /\ NoEntry \in Entry /\ NoEntry.buffptr = NULL /\ NoEntry.size = 0
  /\ \A i \in Slots : aesd_circular_buffer_init.entry[i] = NoEntry
  BY RingInit, MAXAssumption
     DEF aesd_circular_buffer_init, Buffers, Entry, Block, NoEntry, Slots

LEMMA LoadStep ==
  ASSUME DriverInv, aesd_init_module
  PROVE  DriverInv'
  <1>1. /\ ~loaded /\ UNCHANGED <<lock, heap, f_pos, pc, call, locals, answer, before>>
        /\ allocated_memory' = allocated_memory
    BY DEF aesd_init_module, locals
  <1>2. \A p \in Procs : pc[p] = "idle" /\ allocated_memory[p] = NULL
    BY <1>1, NobodyInside
  <1>3. /\ \A b \in Addrs : heap[b] = Free
        /\ region = loaded /\ heap \in Heaps
        /\ c_buffer \in Buffers /\ partial_buffer \in Entry /\ Ring(c_buffer)
        /\ loaded \in BOOLEAN
    BY <1>1 DEF DriverInv, Memory, TypeOK, Heaps, Buffers
  <1>4. CASE UNCHANGED <<module, c_buffer, partial_buffer>>
    <2>1. loaded' = loaded /\ region' = region
      BY <1>4 DEF module
    <2>2. Memory'
      BY <1>1, <1>3, <2>1 DEF Memory
    <2>3. QED
      BY <1>1, <1>2, <1>3, <1>4, <2>1, <2>2, ModuleStep
  <1>5. ASSUME NEW err \in BOOLEAN, loaded' = ~err, region' = ~err,
               c_buffer' = aesd_circular_buffer_init, partial_buffer' = NoEntry
        PROVE  DriverInv'
    <2>1. /\ \A i \in Slots : c_buffer'.entry[i].buffptr = NULL
          /\ partial_buffer'.buffptr = NULL /\ partial_buffer'.size = 0
          /\ \A p \in Procs : pc'[p] # "lines" /\ allocated_memory'[p] = NULL
      BY <1>1, <1>2, <1>5, EmptyRing
    <2>2. Pointers'
      BY <2>1 DEF Pointers
    <2>3. Distinct'
      BY <2>1 DEF Distinct
    <2>4. Memory'
      BY <1>1, <1>3, <1>5, <2>2, <2>3 DEF Memory
    <2>5. /\ loaded' \in BOOLEAN /\ region' \in BOOLEAN /\ heap' \in Heaps
          /\ c_buffer' \in Buffers /\ Ring(c_buffer') /\ partial_buffer' \in Entry
          /\ UNCHANGED <<lock, f_pos, pc, call, locals, answer, before>>
      BY <1>1, <1>3, <1>5, EmptyRing
    <2>6. QED
      BY <1>2, <2>4, <2>5, ModuleStep
  <1>6. QED
    BY <1>4, <1>5 DEF aesd_init_module

LEMMA UnloadStep ==
  ASSUME DriverInv, aesd_cleanup_module
  PROVE  DriverInv'
  <1>1. /\ loaded /\ \A f \in Files : f_pos[f] = NULL
        /\ heap' = kfree(DeviceBlocks, heap) /\ c_buffer' = aesd_trim(c_buffer)
        /\ loaded' = FALSE /\ region' = FALSE /\ partial_buffer' = partial_buffer
        /\ UNCHANGED <<lock, f_pos, pc, call, locals, answer, before>>
    BY DEF aesd_cleanup_module
  <1>2. \A p \in Procs : pc[p] = "idle" /\ allocated_memory[p] = NULL
    BY <1>1, NobodyInside
  <1>3. /\ heap \in Heaps /\ partial_buffer \in Entry /\ Ring(c_buffer)
        /\ \A b \in Addrs : heap[b] # Free => Reachable(b)
    BY <1>1 DEF DriverInv, Memory, TypeOK, Heaps
  <1>4. ASSUME NEW b \in Addrs PROVE heap'[b] = Free
    <2>1. heap'[b] = IF b \in DeviceBlocks THEN Free ELSE heap[b]
      BY <1>1 DEF kfree
    <2>2. heap[b] # Free => b \in DeviceBlocks
      BY <1>2, <1>3, NullIsNone DEF Reachable, DeviceBlocks
    <2>3. QED
      BY <2>1, <2>2
  <1>5. Memory'
    BY <1>1, <1>4 DEF Memory
  <1>6. heap' \in Heaps
    BY <1>1, <1>3 DEF kfree, Heaps
  <1>7. c_buffer' \in Buffers /\ Ring(c_buffer')
    BY <1>1, <1>3, RingTrim, EmptyRing
  <1>8. QED
    BY <1>1, <1>2, <1>3, <1>5, <1>6, <1>7, ModuleStep

LEMMA InitDriver == Init => DriverInv
  <1> SUFFICES ASSUME Init PROVE DriverInv
    OBVIOUS
  <1>1. /\ NoAnswer \in [ret : Int, data : Seq(Bytes)] /\ NULL \in Block
        /\ << >> \in Seq(Bytes) /\ "idle" \in Steps
    BY EmptySeq DEF NoAnswer, Block, Steps
  <1>2. c_buffer \in Buffers /\ partial_buffer \in Entry /\ Ring(c_buffer)
    BY EmptyRing DEF Init
  <1>3. TypeOK
    BY <1>1, <1>2 DEF Init, TypeOK, Buffers
  <1>4. LockDiscipline
    BY InitLock DEF LockInv
  <1>5. ASSUME NEW p \in Procs PROVE InCall(p)
    BY CallAtIs DEF Init, InCall, Steps
  <1>6. Memory
    BY DEF Init, Memory
  <1>7. QED
    BY <1>2, <1>3, <1>4, <1>5, <1>6 DEF DriverInv

LEMMA NextDriver == DriverInv /\ [Next]_vars => DriverInv'
  <1> SUFFICES ASSUME DriverInv, [Next]_vars PROVE DriverInv'
    OBVIOUS
  <1>1. CASE \E p \in Procs : aesd_read(p) \/ aesd_write(p) \/ aesd_lseek(p)
                               \/ aesd_ioctl(p) \/ SysReturn(p)
    BY <1>1, ReadStep, WriteStep, LseekStep, IoctlStep, ReturnStep
  <1>2. CASE \E f \in Files : aesd_open(f) \/ aesd_release(f)
    BY <1>2, OpenStep
  <1>3. CASE aesd_init_module \/ aesd_cleanup_module
    BY <1>3, LoadStep, UnloadStep
  <1>4. CASE UNCHANGED vars
    <2>1. /\ UNCHANGED <<module, lock, dev, pc, call, locals, answer, before>> /\ f_pos' = f_pos
      BY <1>4 DEF vars
    <2>2. \A p \in Procs : pc[p] # "idle" => f_pos'[call[p].file] # NULL
      BY <2>1, InCallIs, NullIsNone
    <2>3. QED
      BY <2>1, <2>2, ThreadTypes, FileStep
  <1>5. QED
    BY <1>1, <1>2, <1>3, <1>4 DEF Next

-----------------------------------------------------------------------------
(* The owners of MemoryOwned, one kind at a time.                          *)
LEMMA EntryOwner ==
  ASSUME NEW i \in Slots, c_buffer.entry[i].buffptr # NULL
  PROVE  <<"entry", i>> \in Owners /\ Owned(<<"entry", i>>) = c_buffer.entry[i]
  BY DEF Owners, Owned

LEMMA PartialOwner ==
  ASSUME partial_buffer.buffptr # NULL
  PROVE  <<"partial", 0>> \in Owners /\ Owned(<<"partial", 0>>) = partial_buffer
  BY DEF Owners, Owned

LEMMA CopyOwner ==
  ASSUME NEW p \in Procs, allocated_memory[p] # NULL
  PROVE  /\ <<"copy", p>> \in Owners
         /\ Owned(<<"copy", p>>).buffptr = allocated_memory[p]
         /\ Owned(<<"copy", p>>).size = Len(call[p].buf)
  BY DEF Owners, Owned

LEMMA OwnerIs ==
  ASSUME NEW o \in Owners
  PROVE  \/ \E i \in Slots : o = <<"entry", i>> /\ c_buffer.entry[i].buffptr # NULL
         \/ o = <<"partial", 0>> /\ partial_buffer.buffptr # NULL
         \/ \E p \in Procs : o = <<"copy", p>> /\ allocated_memory[p] # NULL
  BY DEF Owners

LEMMA DriverMemory == DriverInv => MemoryOwned
  <1> SUFFICES ASSUME DriverInv PROVE MemoryOwned
    OBVIOUS
  <1>1. ASSUME loaded
        PROVE  /\ {b \in Addrs : heap[b] # Free} = {Owned(o).buffptr : o \in Owners}
               /\ \A o1, o2 \in Owners : Owned(o1).buffptr = Owned(o2).buffptr => o1 = o2
               /\ \A o \in Owners : Len(heap[Owned(o).buffptr]) = Owned(o).size
    <2>1. Pointers /\ Distinct /\ \A b \in Addrs : heap[b] # Free => Reachable(b)
      BY <1>1 DEF DriverInv, Memory
    <2>2. /\ \A i \in Slots : c_buffer.entry[i].buffptr # NULL => InUse(c_buffer.entry[i].buffptr)
          /\ partial_buffer.buffptr # NULL => InUse(partial_buffer.buffptr)
      BY <1>1, OldPointers
    <2>3. \A p \in Procs : allocated_memory[p] # NULL =>
             /\ pc[p] = "lines" /\ InUse(allocated_memory[p])
             /\ heap[allocated_memory[p]] = call[p].buf
      <3>1. \A p \in Procs : allocated_memory[p] # NULL => pc[p] = "lines"
        BY DEF DriverInv, InCall
      <3>2. QED
        BY <1>1, <3>1, OldPointers
    <2>4. \A p, q \in Procs : allocated_memory[p] # NULL /\ allocated_memory[q] # NULL => p = q
      <3>1. \A p \in Procs : allocated_memory[p] # NULL => pc[p] \in Critical
        BY <2>3 DEF Critical
      <3>2. QED
        BY <3>1, OnlyWriter
    <2>5. ASSUME NEW o \in Owners
          PROVE  /\ InUse(Owned(o).buffptr)
                 /\ Len(heap[Owned(o).buffptr]) = Owned(o).size
      <3>1. CASE \E i \in Slots : o = <<"entry", i>> /\ c_buffer.entry[i].buffptr # NULL
        BY <2>1, <2>2, <3>1, EntryOwner DEF Pointers, Line
      <3>2. CASE o = <<"partial", 0>> /\ partial_buffer.buffptr # NULL
        BY <2>1, <2>2, <3>2, PartialOwner DEF Pointers, PartOfLine
      <3>3. CASE \E p \in Procs : o = <<"copy", p>> /\ allocated_memory[p] # NULL
        BY <2>3, <3>3, CopyOwner
      <3>4. QED
        BY <3>1, <3>2, <3>3, OwnerIs
    <2>6. ASSUME NEW o1 \in Owners, NEW o2 \in Owners, Owned(o1).buffptr = Owned(o2).buffptr
          PROVE  o1 = o2
      <3> DEFINE IsEntry(o)   == \E i \in Slots : /\ o = <<"entry", i>>
                                                  /\ c_buffer.entry[i].buffptr # NULL
                                                  /\ Owned(o).buffptr = c_buffer.entry[i].buffptr
                 IsPartial(o) == /\ o = <<"partial", 0>> /\ partial_buffer.buffptr # NULL
                                 /\ Owned(o).buffptr = partial_buffer.buffptr
                 IsCopy(o)    == \E p \in Procs : /\ o = <<"copy", p>>
                                                  /\ allocated_memory[p] # NULL
                                                  /\ Owned(o).buffptr = allocated_memory[p]
      <3>1. ASSUME NEW o \in Owners PROVE IsEntry(o) \/ IsPartial(o) \/ IsCopy(o)
        <4>1. CASE \E i \in Slots : o = <<"entry", i>> /\ c_buffer.entry[i].buffptr # NULL
          BY <4>1, EntryOwner
        <4>2. CASE o = <<"partial", 0>> /\ partial_buffer.buffptr # NULL
          BY <4>2, PartialOwner
        <4>3. CASE \E p \in Procs : o = <<"copy", p>> /\ allocated_memory[p] # NULL
          BY <4>3, CopyOwner
        <4>4. QED
          BY <4>1, <4>2, <4>3, OwnerIs
      <3>2. CASE IsEntry(o1)
        <4>1. ~IsPartial(o2) /\ ~IsCopy(o2)
          BY <2>1, <2>6, <3>2 DEF Distinct
        <4>2. IsEntry(o2)
          BY <3>1, <4>1
        <4>3. QED
          BY <2>1, <2>6, <3>2, <4>2 DEF Distinct
      <3>3. CASE IsPartial(o1)
        <4>1. ~IsEntry(o2) /\ ~IsCopy(o2)
          BY <2>1, <2>6, <3>3 DEF Distinct
        <4>2. QED
          BY <3>1, <3>3, <4>1
      <3>4. CASE IsCopy(o1)
        <4>1. ~IsEntry(o2) /\ ~IsPartial(o2)
          BY <2>1, <2>6, <3>4 DEF Distinct
        <4>2. IsCopy(o2)
          BY <3>1, <4>1
        <4>3. QED
          BY <2>4, <3>4, <4>2
      <3>5. QED
        BY <3>1, <3>2, <3>3, <3>4
    <2>7. ASSUME NEW b \in Addrs, heap[b] # Free PROVE \E o \in Owners : b = Owned(o).buffptr
      <3>1. Reachable(b) /\ b # NULL
        BY <2>1, <2>7, NullIsNone
      <3>2. CASE \E i \in Slots : b = c_buffer.entry[i].buffptr
        BY <3>1, <3>2, EntryOwner
      <3>3. CASE b = partial_buffer.buffptr
        BY <3>1, <3>3, PartialOwner
      <3>4. CASE \E p \in Procs : b = allocated_memory[p]
        BY <3>1, <3>4, CopyOwner
      <3>5. QED
        BY <3>1, <3>2, <3>3, <3>4 DEF Reachable
    <2>8. {b \in Addrs : heap[b] # Free} = {Owned(o).buffptr : o \in Owners}
      BY <2>5, <2>7 DEF InUse
    <2>9. QED
      BY <2>5, <2>6, <2>8
  <1>2. QED
    BY <1>1 DEF DriverInv, Memory, MemoryOwned

LEMMA DriverLines == DriverInv => EntriesAreLines
  <1> SUFFICES ASSUME DriverInv, loaded
               PROVE  /\ \A k \in DOMAIN LineBytes :
                           {i \in DOMAIN LineBytes[k] : LineBytes[k][i] = NL} = {Len(LineBytes[k])}
                      /\ NL \notin Range(PartialBytes)
    BY DEF EntriesAreLines
  <1>1. ASSUME NEW k \in DOMAIN LineBytes
        PROVE  {i \in DOMAIN LineBytes[k] : LineBytes[k][i] = NL} = {Len(LineBytes[k])}
    <2> DEFINE s == LineBytes[k]
    <2>1. PICK n : Line(s, n)
      BY LineBytesAre
    <2> HIDE DEF s
    <2>2. s \in Seq(Bytes) /\ Len(s) = n /\ n \in Nat \ {0} /\ s[n] = NL
          /\ \A j \in 1 .. n - 1 : s[j] # NL
      BY <2>1 DEF Line
    <2>3. DOMAIN s = 1 .. n
      BY <2>2, LenProperties
    <2>4. {i \in 1 .. n : s[i] = NL} = {n}
      BY <2>2
    <2>5. QED
      BY <2>2, <2>3, <2>4 DEF s
  <1>2. NL \notin Range(PartialBytes)
    <2>1. DOMAIN PartialBytes = 1 .. Len(PartialBytes)
      BY PartialBytesAre, LenProperties
    <2>2. QED
      BY <2>1, PartialBytesAre DEF Range
  <1>3. QED
    BY <1>1, <1>2

-----------------------------------------------------------------------------
LEMMA DriverInvHolds == Spec => []DriverInv
  BY InitDriver, NextDriver, PTL DEF Spec

(* The driver's state keeps its types for every number of threads, files,  *)
(* blocks and lines: every file position, size and return value the        *)
(* handlers compute is a number of the right sign, what a read returns are *)
(* bytes, and the indices of the ring stay inside it.                      *)
THEOREM TypesHold == Spec => []TypeOK
  <1>1. DriverInv => TypeOK
    BY DEF DriverInv
  <1>2. QED
    BY <1>1, DriverInvHolds, PTL

(* Kernel memory is never leaked, freed twice or used after it was freed,  *)
(* whichever allocations and user copies fail, however many threads write, *)
(* and over any number of loads and unloads of the module.                 *)
THEOREM MemoryOwnedHolds == Spec => []MemoryOwned
  BY DriverInvHolds, DriverMemory, PTL

(* Every entry of the ring is one whole line and the partial buffer never  *)
(* holds a newline, for every way writes of any bytes are cut.             *)
THEOREM EntriesAreLinesHolds == Spec => []EntriesAreLines
  BY DriverInvHolds, DriverLines, PTL

-----------------------------------------------------------------------------
(***************************************************************************)
(* The rest of the module shows that the driver implements CommandLog, in  *)
(* four parts: what CommandLog keeps of a sequence of bytes; what the ring *)
(* and the partial line hold, as such a sequence, and what aesd_read and   *)
(* the seeks find in it; what one line more and a longer partial line make *)
(* of it; and how far each system call has come, step by step.             *)
(***************************************************************************)

(* The words of CommandLog in which the refinement is argued: line ends,   *)
(* those behind n, and a sequence without its first m bytes.               *)
Ends(s) == AtomicLog!Ends(s)
After(s, n) == AtomicLog!EndsAfter(s, n)
Drop(s, m) == SubSeq(s, m + 1, Len(s))

(* The lines that the log no longer keeps.                                 *)
Old(s) == {e \in Ends(s) : Cardinality(After(s, e)) >= MAX}

LEMMA LogWords ==
  ASSUME NEW s, NEW n
  PROVE  /\ Ends(s) = {i \in DOMAIN s : s[i] = NL}
         /\ After(s, n) = {e \in Ends(s) : e > n}
         /\ AtomicLog!Complete(s) = SubSeq(s, 1, Max(Ends(s) \cup {0}))
         /\ AtomicLog!Recent(s) = Drop(s, Max(Old(s) \cup {0}))
  <1>1. Ends(s) = {i \in DOMAIN s : s[i] = NL} /\ After(s, n) = {e \in Ends(s) : e > n}
    BY DEF Ends, After, AtomicLog!Ends, AtomicLog!EndsAfter
  <1>2. AtomicLog!Complete(s) = SubSeq(s, 1, Max(Ends(s) \cup {0}))
    BY DEF Ends, AtomicLog!Complete, AtomicLog!Max, Max
  <1>3. AtomicLog!Recent(s) = Drop(s, Max(Old(s) \cup {0}))
    BY DEF Ends, After, Old, Drop, AtomicLog!Recent, AtomicLog!Max, Max,
           AtomicLog!Cardinality, Cardinality
  <1>4. QED
    BY <1>1, <1>2, <1>3

LEMMA BytesAtIs ==
  ASSUME NEW s, NEW n, NEW o
  PROVE  AtomicLog!BytesAt(s, n, o) =
           IF n >= Len(AtomicLog!Complete(s)) THEN << >>
           ELSE SubSeq(s, n + 1, Min({n + o, Min(After(s, n))}))
  BY DEF After, AtomicLog!BytesAt, AtomicLog!Min, Min

LEMMA PositionsAre ==
  ASSUME NEW s, NEW n, NEW o
  PROVE  AtomicLog!Positions(s, n, o) =
           {b + o : b \in {e \in Ends(s) \cup {0} :
                             /\ Cardinality(Ends(s) \ After(s, e)) = n
                             /\ After(s, e) # {}
                             /\ e + o < Min(After(s, e))}}
  BY DEF Ends, After, AtomicLog!Positions, AtomicLog!Min, Min,
         AtomicLog!Cardinality, Cardinality

LEMMA DropIs ==
  ASSUME NEW s \in Seq(Bytes), NEW m \in 0 .. Len(s)
  PROVE  /\ Drop(s, m) \in Seq(Bytes) /\ Len(Drop(s, m)) = Len(s) - m
         /\ \A i \in 1 .. Len(s) - m : Drop(s, m)[i] = s[m + i]
  <1> DEFINE a == m + 1
             n == Len(s)
  <1>1. n \in Nat /\ a \in Int /\ a \in 1 .. n + 1
    BY LenProperties
  <1>2. \A i \in a .. n : s[i] \in Bytes
    BY <1>1, ElementOfSeq
  <1>3. /\ n - a + 1 = n - m /\ (IF a <= n THEN n - a + 1 ELSE 0) = n - m
        /\ \A i \in 1 .. n - m : a + i - 1 = m + i
    BY <1>1
  <1> HIDE DEF a, n
  <1>4. /\ SubSeq(s, a, n) \in Seq(Bytes)
        /\ Len(SubSeq(s, a, n)) = IF a <= n THEN n - a + 1 ELSE 0
        /\ \A i \in 1 .. n - a + 1 : SubSeq(s, a, n)[i] = s[a + i - 1]
    BY <1>1, <1>2, SubSeqProperties
  <1>5. /\ SubSeq(s, a, n) \in Seq(Bytes) /\ Len(SubSeq(s, a, n)) = n - m
        /\ \A i \in 1 .. n - m : SubSeq(s, a, n)[i] = s[m + i]
    BY <1>3, <1>4
  <1>6. QED
    BY <1>5 DEF a, n, Drop

(* The line ends of a sequence of bytes, and those behind one.             *)
LEMMA EndsAre ==
  ASSUME NEW s \in Seq(Bytes)
  PROVE  /\ Len(s) \in Nat /\ Ends(s) = {i \in 1 .. Len(s) : s[i] = NL}
         /\ Ends(s) \in SUBSET (1 .. Len(s)) /\ IsFiniteSet(Ends(s))
         /\ \A n : /\ After(s, n) = {e \in Ends(s) : e > n}
                   /\ After(s, n) \in SUBSET (1 .. Len(s)) /\ IsFiniteSet(After(s, n))
                   /\ Cardinality(After(s, n)) \in Nat
                   /\ Cardinality(After(s, n)) <= Cardinality(Ends(s))
         /\ Cardinality(Ends(s)) \in Nat
  <1>1. Len(s) \in Nat /\ DOMAIN s = 1 .. Len(s)
    BY LenProperties
  <1>2. Ends(s) = {i \in 1 .. Len(s) : s[i] = NL} /\ Ends(s) \in SUBSET (1 .. Len(s))
    BY <1>1, LogWords
  <1>3. IsFiniteSet(1 .. Len(s))
    BY <1>1, FS_Interval
  <1>4. IsFiniteSet(Ends(s))
    BY <1>2, <1>3, FS_Subset
  <1>5. ASSUME NEW n
        PROVE  /\ After(s, n) = {e \in Ends(s) : e > n}
               /\ After(s, n) \in SUBSET (1 .. Len(s)) /\ IsFiniteSet(After(s, n))
               /\ Cardinality(After(s, n)) \in Nat
               /\ Cardinality(After(s, n)) <= Cardinality(Ends(s))
    <2>1. After(s, n) = {e \in Ends(s) : e > n}
      BY LogWords
    <2>2. After(s, n) \in SUBSET Ends(s)
      BY <2>1
    <2>3. IsFiniteSet(After(s, n)) /\ Cardinality(After(s, n)) <= Cardinality(Ends(s))
      BY <1>4, <2>2, FS_Subset
    <2>4. QED
      BY <1>2, <2>1, <2>2, <2>3, FS_CardinalityType
  <1>6. QED
    BY <1>1, <1>2, <1>4, <1>5, FS_CardinalityType

(* What Recent leaves out ends at the last line that is not kept.          *)
LEMMA RecentIs ==
  ASSUME NEW s \in Seq(Bytes)
  PROVE  LET m == Max(Old(s) \cup {0})
         IN  /\ AtomicLog!Recent(s) = Drop(s, m)
             /\ m \in Old(s) \cup {0} /\ m \in 0 .. Len(s)
             /\ \A e \in Old(s) : e <= m
  <1>1. Len(s) \in Nat /\ Ends(s) \in SUBSET (1 .. Len(s))
    BY EndsAre
  <1>2. Old(s) \cup {0} \in SUBSET (0 .. Len(s)) /\ Old(s) \cup {0} # {}
    BY <1>1 DEF Old
  <1> DEFINE O == Old(s) \cup {0}
  <1> HIDE DEF O
  <1>3. Max(O) \in O /\ \A y \in O : y <= Max(O)
    BY <1>1, <1>2, MaxIs DEF O
  <1>4. QED
    BY <1>2, <1>3, LogWords DEF O

(* Sets of the same size.                                                  *)
LEMMA SameSize ==
  ASSUME NEW S, NEW T, IsFiniteSet(S), NEW f \in [S -> T],
         \A x, y \in S : f[x] = f[y] => x = y, \A t \in T : \E x \in S : f[x] = t
  PROVE  IsFiniteSet(T) /\ Cardinality(T) = Cardinality(S)
  <1>1. f \in Bijection(S, T)
    BY DEF Bijection, Injection, Surjection, IsInjective
  <1>2. ExistsBijection(S, T)
    BY <1>1 DEF ExistsBijection
  <1>3. QED
    BY <1>2, FS_Bijection

(* Dropping bytes shifts the line ends, and no line gets more or fewer     *)
(* lines behind it.                                                        *)
LEMMA DropEnds ==
  ASSUME NEW s \in Seq(Bytes), NEW m \in 0 .. Len(s)
  PROVE  /\ \A i \in Nat \ {0} : i \in Ends(Drop(s, m)) <=> m + i \in Ends(s)
         /\ \A e \in Nat : Cardinality(After(Drop(s, m), e)) = Cardinality(After(s, m + e))
  <1> DEFINE t == Drop(s, m)
  <1>1. /\ t \in Seq(Bytes) /\ Len(t) = Len(s) - m /\ Len(s) \in Nat
        /\ \A i \in 1 .. Len(s) - m : t[i] = s[m + i]
    BY DropIs, LenProperties
  <1> HIDE DEF t
  <1>2. /\ Ends(s) = {i \in 1 .. Len(s) : s[i] = NL}
        /\ Ends(t) = {i \in 1 .. Len(t) : t[i] = NL} /\ Len(t) \in Nat
    BY <1>1, EndsAre
  <1>3. ASSUME NEW i \in Nat \ {0} PROVE i \in Ends(t) <=> m + i \in Ends(s)
    <2>1. i \in 1 .. Len(t) <=> m + i \in 1 .. Len(s)
      BY <1>1, <1>2
    <2>2. i \in 1 .. Len(t) => t[i] = s[m + i]
      BY <1>1, <1>2
    <2>3. QED
      BY <1>2, <2>1, <2>2
  <1>4. ASSUME NEW e \in Nat PROVE Cardinality(After(t, e)) = Cardinality(After(s, m + e))
    <2> DEFINE S == After(t, e)
               T == After(s, m + e)
               f == [x \in S |-> m + x]
    <2>1. /\ S = {x \in Ends(t) : x > e} /\ T = {x \in Ends(s) : x > m + e}
          /\ IsFiniteSet(S) /\ S \in SUBSET (1 .. Len(t)) /\ T \in SUBSET (1 .. Len(s))
      BY <1>1, EndsAre
    <2>2. ASSUME NEW x \in S PROVE m + x \in T
      <3>1. x \in Nat \ {0} /\ x > e /\ x \in Ends(t)
        BY <1>2, <2>1
      <3>2. m + x \in Ends(s) /\ m + x > m + e
        BY <1>3, <3>1
      <3>3. QED
        BY <2>1, <3>2
    <2>3. ASSUME NEW y \in T PROVE \E x \in S : f[x] = y
      <3>1. y \in 1 .. Len(s) /\ y > m + e /\ y \in Ends(s)
        BY <2>1
      <3>2. y - m \in Nat \ {0} /\ y - m > e /\ m + (y - m) = y
        BY <1>1, <3>1
      <3>3. y - m \in Ends(t)
        BY <1>3, <3>1, <3>2
      <3>4. y - m \in S
        BY <2>1, <3>2, <3>3
      <3>5. QED
        BY <3>2, <3>4
    <2>4. \A x, y \in S : f[x] = f[y] => x = y
      BY <1>2, <2>1
    <2>5. f \in [S -> T]
      BY <2>2
    <2> HIDE DEF S, T, f
    <2>6. QED
      BY <2>1, <2>3, <2>4, <2>5, SameSize DEF S, T
  <1>5. QED
    BY <1>3, <1>4 DEF t

(* Lines that are not kept anyway may be dropped first;                    *)
LEMMA CutRecent ==
  ASSUME NEW s \in Seq(Bytes), NEW m \in Old(s) \cup {0}
  PROVE  m \in 0 .. Len(s) /\ AtomicLog!Recent(Drop(s, m)) = AtomicLog!Recent(s)
  <1> DEFINE t == Drop(s, m)
             a == Max(Old(s) \cup {0})
             b == Max(Old(t) \cup {0})
  <1>1. Len(s) \in Nat /\ Ends(s) \in SUBSET (1 .. Len(s)) /\ m \in 0 .. Len(s)
    BY EndsAre DEF Old
  <1>2. /\ t \in Seq(Bytes) /\ Len(t) = Len(s) - m
        /\ \A i \in 1 .. Len(s) - m : t[i] = s[m + i]
    BY <1>1, DropIs
  <1>3. /\ \A i \in Nat \ {0} : i \in Ends(t) <=> m + i \in Ends(s)
        /\ \A e \in Nat : Cardinality(After(t, e)) = Cardinality(After(s, m + e))
    BY <1>1, DropEnds
  <1>4. \A i \in Nat \ {0} : i \in Old(t) <=> m + i \in Old(s)
    BY <1>3 DEF Old
  <1>5. /\ AtomicLog!Recent(s) = Drop(s, a) /\ a \in Old(s) \cup {0} /\ a \in 0 .. Len(s)
        /\ \A e \in Old(s) : e <= a
    BY RecentIs
  <1> HIDE DEF t
  <1>6. /\ AtomicLog!Recent(t) = Drop(t, b) /\ b \in Old(t) \cup {0} /\ b \in 0 .. Len(t)
        /\ \A e \in Old(t) : e <= b
    BY <1>2, RecentIs
  <1> HIDE DEF a, b
  <1>7. a = m + b
    <2>1. m <= a
      BY <1>1, <1>5
    <2>2. m + b <= a
      <3>1. CASE b = 0
        BY <1>1, <2>1, <3>1
      <3>2. CASE b # 0
        <4>1. b \in Nat \ {0} /\ b \in Old(t)
          BY <1>1, <1>2, <1>6, <3>2
        <4>2. QED
          BY <1>4, <1>5, <4>1
      <3>3. QED
        BY <3>1, <3>2
    <2>3. a <= m + b
      <3>1. CASE a = m
        BY <1>1, <1>2, <1>6, <3>1
      <3>2. CASE a # m
        <4>1. a - m \in Nat \ {0} /\ m + (a - m) = a /\ a \in Old(s)
          BY <1>1, <1>5, <2>1, <3>2
        <4>2. a - m \in Old(t)
          BY <1>4, <4>1
        <4>3. a - m <= b
          BY <1>6, <4>2
        <4>4. QED
          BY <1>1, <1>2, <1>5, <1>6, <4>3
      <3>3. QED
        BY <3>1, <3>2
    <2>4. QED
      BY <1>1, <1>2, <1>5, <1>6, <2>2, <2>3
  <1>8. /\ Drop(s, a) \in Seq(Bytes) /\ Len(Drop(s, a)) = Len(s) - a
        /\ \A i \in 1 .. Len(s) - a : Drop(s, a)[i] = s[a + i]
    BY <1>5, DropIs
  <1>9. /\ Drop(t, b) \in Seq(Bytes) /\ Len(Drop(t, b)) = Len(t) - b
        /\ \A i \in 1 .. Len(t) - b : Drop(t, b)[i] = t[b + i]
    BY <1>2, <1>6, DropIs
  <1>10. Len(t) - b = Len(s) - a
    BY <1>1, <1>2, <1>5, <1>6, <1>7
  <1>11. ASSUME NEW i \in 1 .. Len(s) - a PROVE Drop(t, b)[i] = Drop(s, a)[i]
    <2>1. b + i \in 1 .. Len(s) - m /\ m + (b + i) = a + i
      BY <1>1, <1>2, <1>5, <1>6, <1>7
    <2>2. t[b + i] = s[a + i]
      BY <1>2, <2>1
    <2>3. QED
      BY <1>8, <1>9, <1>10, <2>2
  <1>12. Drop(t, b) = Drop(s, a)
    <2> DEFINE u == Drop(t, b)
               v == Drop(s, a)
    <2>1. u \in Seq(Bytes) /\ v \in Seq(Bytes) /\ Len(u) = Len(v) /\ Len(u) = Len(s) - a
      BY <1>8, <1>9, <1>10
    <2>2. \A i \in 1 .. Len(u) : u[i] = v[i]
      BY <1>11, <2>1
    <2> HIDE DEF u, v
    <2>3. u = v
      BY <2>1, <2>2, SeqEqual
    <2>4. QED
      BY <2>3 DEF u, v
  <1>13. QED
    BY <1>1, <1>5, <1>6, <1>12 DEF t

(* with no more than MAX lines, all are kept;                              *)
LEMMA RecentAll ==
  ASSUME NEW s \in Seq(Bytes), Cardinality(Ends(s)) <= MAX
  PROVE  AtomicLog!Recent(s) = s
  <1>1. ASSUME NEW e \in Old(s) PROVE FALSE
    <2>1. /\ e \in Ends(s) /\ Cardinality(After(s, e)) >= MAX /\ IsFiniteSet(Ends(s))
          /\ After(s, e) = {i \in Ends(s) : i > e} /\ Ends(s) \in SUBSET (1 .. Len(s))
          /\ Cardinality(After(s, e)) \in Nat /\ Cardinality(Ends(s)) \in Nat
          /\ Cardinality(After(s, e)) <= Cardinality(Ends(s)) /\ Len(s) \in Nat
      BY EndsAre DEF Old
    <2>2. Cardinality(After(s, e)) = Cardinality(Ends(s))
      BY <2>1, MAXAssumption
    <2>3. After(s, e) \in SUBSET Ends(s)
      BY <2>1
    <2>4. After(s, e) = Ends(s)
      BY <2>1, <2>2, <2>3, FS_Subset
    <2>5. e > e /\ e \in Nat
      BY <2>1, <2>4
    <2>6. QED
      BY <2>5
  <1>2. Old(s) \cup {0} = {0}
    BY <1>1
  <1>3. Max(Old(s) \cup {0}) = 0 /\ AtomicLog!Recent(s) = Drop(s, Max(Old(s) \cup {0}))
    BY <1>2, RecentIs
  <1>4. Drop(s, 0) = SubSeq(s, 1, Len(s))
    <2>1. 0 + 1 = 1
      OBVIOUS
    <2>2. QED
      BY <2>1, Zenon DEF Drop
  <1>5. QED
    BY <1>3, <1>4, SubSeqFull

(* more bytes behind a line that is not kept do not bring it back,         *)
LEMMA OldStays ==
  ASSUME NEW s \in Seq(Bytes), NEW t \in Seq(Bytes)
  PROVE  Old(s) \subseteq Old(s \o t)
  <1> DEFINE u == s \o t
  <1>1. /\ u \in Seq(Bytes) /\ Len(u) = Len(s) + Len(t) /\ Len(s) \in Nat /\ Len(t) \in Nat
        /\ \A i \in 1 .. Len(s) + Len(t) : u[i] = IF i <= Len(s) THEN s[i] ELSE t[i - Len(s)]
    BY ConcatProperties, LenProperties
  <1> HIDE DEF u
  <1>2. Ends(s) = {i \in 1 .. Len(s) : s[i] = NL} /\ Ends(u) = {i \in 1 .. Len(u) : u[i] = NL}
    BY <1>1, EndsAre
  <1>3. Ends(s) \subseteq Ends(u)
    BY <1>1, <1>2
  <1>4. ASSUME NEW e \in Old(s) PROVE e \in Old(u)
    <2>1. /\ After(s, e) = {i \in Ends(s) : i > e} /\ After(u, e) = {i \in Ends(u) : i > e}
          /\ IsFiniteSet(After(u, e)) /\ Cardinality(After(s, e)) \in Nat
          /\ Cardinality(After(u, e)) \in Nat
      BY <1>1, EndsAre
    <2>2. After(s, e) \in SUBSET After(u, e)
      BY <1>3, <2>1
    <2>3. Cardinality(After(s, e)) <= Cardinality(After(u, e))
      BY <2>1, <2>2, FS_Subset
    <2>4. e \in Ends(s) /\ Cardinality(After(s, e)) >= MAX
      BY DEF Old
    <2>5. Cardinality(After(u, e)) >= MAX
      BY <2>1, <2>3, <2>4, MAXAssumption
    <2>6. QED
      BY <1>3, <2>4, <2>5 DEF Old
  <1>5. QED
    BY <1>4 DEF u

LEMMA DropConcat ==
  ASSUME NEW s \in Seq(Bytes), NEW t \in Seq(Bytes), NEW m \in 0 .. Len(s)
  PROVE  Drop(s, m) \o t = Drop(s \o t, m)
  <1> DEFINE u == s \o t
             d == Drop(s, m)
             v == d \o t
             w == Drop(u, m)
  <1>1. /\ u \in Seq(Bytes) /\ Len(u) = Len(s) + Len(t) /\ Len(s) \in Nat /\ Len(t) \in Nat
        /\ \A i \in 1 .. Len(s) + Len(t) : u[i] = IF i <= Len(s) THEN s[i] ELSE t[i - Len(s)]
    BY ConcatProperties, LenProperties
  <1>2. /\ d \in Seq(Bytes) /\ Len(d) = Len(s) - m
        /\ \A i \in 1 .. Len(s) - m : d[i] = s[m + i]
    BY DropIs
  <1> HIDE DEF u, d
  <1>3. /\ v \in Seq(Bytes) /\ Len(v) = Len(d) + Len(t)
        /\ \A i \in 1 .. Len(d) + Len(t) : v[i] = IF i <= Len(d) THEN d[i] ELSE t[i - Len(d)]
    BY <1>2, ConcatProperties
  <1>4. m \in 0 .. Len(u)
    BY <1>1
  <1>5. /\ w \in Seq(Bytes) /\ Len(w) = Len(u) - m
        /\ \A i \in 1 .. Len(u) - m : w[i] = u[m + i]
    BY <1>1, <1>4, DropIs
  <1> HIDE DEF v, w
  <1>6. Len(v) = Len(w) /\ Len(v) \in Nat
    BY <1>1, <1>2, <1>3, <1>5
  <1>7. ASSUME NEW i \in 1 .. Len(v) PROVE v[i] = w[i]
    <2>1. w[i] = u[m + i] /\ m + i \in 1 .. Len(s) + Len(t)
      BY <1>1, <1>5, <1>6
    <2>2. CASE i <= Len(d)
      <3>1. v[i] = d[i] /\ d[i] = s[m + i] /\ m + i <= Len(s)
        BY <1>1, <1>2, <1>3, <2>2
      <3>2. QED
        BY <1>1, <2>1, <3>1
    <2>3. CASE ~(i <= Len(d))
      <3>1. v[i] = t[i - Len(d)] /\ ~(m + i <= Len(s)) /\ i - Len(d) = (m + i) - Len(s)
        BY <1>1, <1>2, <1>3, <2>3
      <3>2. QED
        BY <1>1, <2>1, <3>1
    <2>4. QED
      BY <2>2, <2>3
  <1>8. v = w
    BY <1>3, <1>5, <1>6, <1>7, SeqEqual
  <1>9. QED
    BY <1>8 DEF u, d, v, w

(* so what is kept of s is all of s that matters to what is written next.  *)
LEMMA RecentConcat ==
  ASSUME NEW s \in Seq(Bytes), NEW t \in Seq(Bytes)
  PROVE  /\ AtomicLog!Recent(s) \in Seq(Bytes)
         /\ AtomicLog!Recent(AtomicLog!Recent(s) \o t) = AtomicLog!Recent(s \o t)
  <1> DEFINE m == Max(Old(s) \cup {0})
             u == s \o t
  <1>1. AtomicLog!Recent(s) = Drop(s, m) /\ m \in Old(s) \cup {0} /\ m \in 0 .. Len(s)
    BY RecentIs
  <1>2. u \in Seq(Bytes) /\ Old(s) \subseteq Old(u)
    BY ConcatProperties, OldStays
  <1> HIDE DEF m
  <1>3. Drop(s, m) \o t = Drop(u, m)
    BY <1>1, DropConcat
  <1> HIDE DEF u
  <1>4. m \in Old(u) \cup {0}
    BY <1>1, <1>2
  <1>5. AtomicLog!Recent(Drop(u, m)) = AtomicLog!Recent(u)
    BY <1>2, <1>4, CutRecent
  <1>6. Drop(s, m) \in Seq(Bytes)
    BY <1>1, DropIs
  <1>7. QED
    BY <1>1, <1>3, <1>5, <1>6 DEF u

-----------------------------------------------------------------------------
(* The k-th line of the device, as its entry and the heap hold it.         *)
LEMMA LineOf ==
  ASSUME DriverInv, loaded, NEW k \in 1 .. EntryCount(c_buffer)
  PROVE  LET x == CommandSlot(c_buffer, k - 1)
             e == c_buffer.entry[x]
         IN  /\ k - 1 \in Slots /\ x \in Slots /\ Occupied(e)
             /\ LineBytes[k] = heap[e.buffptr] /\ Line(LineBytes[k], e.size)
  <1> DEFINE x == CommandSlot(c_buffer, k - 1)
             e == c_buffer.entry[x]
  <1>1. EntryCount(c_buffer) \in 0 .. MAX
    BY CommandsAre DEF DriverInv
  <1>2. k - 1 \in Slots /\ k - 1 < EntryCount(c_buffer)
    BY <1>1, MAXAssumption DEF Slots
  <1>3. x \in Slots /\ Occupied(e)
    BY <1>2, CommandsAre DEF DriverInv
  <1>4. LineBytes[k] = SubSeq(heap[e.buffptr], 1, e.size)
    BY DEF LineBytes, Window, Stored
  <1> HIDE DEF x
  <1>5. Line(heap[e.buffptr], e.size)
    BY <1>3 DEF DriverInv, Memory, Pointers, Occupied
  <1> HIDE DEF e
  <1>6. heap[e.buffptr] \in Seq(Bytes) /\ Len(heap[e.buffptr]) = e.size
    BY <1>5 DEF Line
  <1>7. LineBytes[k] = heap[e.buffptr]
    BY <1>4, <1>6, SubSeqFull
  <1>8. QED
    BY <1>2, <1>3, <1>5, <1>7 DEF x, e

(* Sequences put one after the other, none included.                       *)
LEMMA FlattenLies ==
  ASSUME NEW n \in Nat, NEW q \in [1 .. n -> Seq(Bytes)], NEW L, CountsUp(L, n, q)
  PROVE  /\ FlattenSeq(q) \in Seq(Bytes) /\ Len(FlattenSeq(q)) = L[n] /\ L[n] \in Nat
         /\ \A k \in 1 .. n : \A o \in 1 .. Len(q[k]) : FlattenSeq(q)[L[k - 1] + o] = q[k][o]
  <1>0. n \in 0 .. n
    OBVIOUS
  <1>1. FlattenSeq(q) \in Seq(Bytes) /\ L[n] \in Nat
    BY <1>0, FlattenType DEF CountsUp
  <1>2. CASE n = 0
    <2>1. Len(q) = 0 /\ q \in Seq(Seq(Bytes))
      BY <1>2, FunctionIsSeq
    <2>2. q = << >>
      BY <2>1, EmptySeq
    <2>3. FlattenSeq(q) = << >>
      BY <2>1, <2>2 DEF FlattenSeq
    <2>4. Len(FlattenSeq(q)) = 0 /\ L[n] = 0
      BY <1>2, <2>3, EmptySeq DEF CountsUp
    <2>5. QED
      BY <1>1, <1>2, <2>4
  <1>3. CASE n # 0
    <2>1. Concatenates(FlattenSeq(q), n, q, L)
      BY <1>3, FlattenIs
    <2>2. QED
      BY <1>1, <2>1 DEF Concatenates, Length
  <1>4. QED
    BY <1>2, <1>3

(* Which of them a position is in.                                         *)
LEMMA Located ==
  ASSUME NEW n \in Nat, NEW L, L[0] = 0, \A k \in 0 .. n : L[k] \in Nat,
         NEW i \in Nat \ {0}, i <= L[n]
  PROVE  \E k \in 1 .. n : L[k - 1] < i /\ i <= L[k]
  <1> DEFINE S == {k \in 0 .. n : i <= L[k]}
  <1>1. S \in SUBSET Nat /\ S # {}
    OBVIOUS
  <1>2. PICK k \in S : \A j \in S : k <= j
    <2> HIDE DEF S
    <2>1. QED
      BY <1>1, LeastNumber
  <1>3. k \in 1 .. n /\ i <= L[k]
    BY <1>2
  <1>4. k - 1 \in 0 .. n /\ ~(k <= k - 1)
    BY <1>3
  <1>5. k - 1 \notin S
    <2> HIDE DEF S
    <2>1. QED
      BY <1>2, <1>4
  <1>6. L[k - 1] < i
    BY <1>4, <1>5
  <1>7. QED
    BY <1>3, <1>6

(* Where the lines and the partial line lie in Contents.                   *)
Laid(L, n) ==
  /\ Offsets(c_buffer, L)
  /\ Len(Contents) = L[n] + Len(PartialBytes)
  /\ \A k \in 1 .. n :
        /\ Len(LineBytes[k]) \in Nat \ {0} /\ L[k] = L[k - 1] + Len(LineBytes[k])
        /\ \A o \in 1 .. Len(LineBytes[k]) : Contents[L[k - 1] + o] = LineBytes[k][o]
  /\ \A o \in 1 .. Len(PartialBytes) : Contents[L[n] + o] = PartialBytes[o]
  /\ \A k \in 0 .. n : L[k] \in Nat
  /\ \A i, j \in 0 .. n : i < j => L[i] < L[j]

LEMMA LinesLie ==
  ASSUME DriverInv, loaded, NEW L, Offsets(c_buffer, L)
  PROVE  Laid(L, EntryCount(c_buffer)) /\ CountsUp(L, EntryCount(c_buffer), LineBytes)
  <1> DEFINE n == EntryCount(c_buffer)
             q == LineBytes
             F == FlattenSeq(q)
             P == PartialBytes
  <1>1. /\ n \in 0 .. MAX /\ MAX \in Nat /\ Slots = 0 .. MAX - 1
        /\ q \in [1 .. n -> Seq(Bytes)]
    BY CommandsAre, LineBytesAre, MAXAssumption DEF DriverInv, Slots
  <1>2. /\ L \in [0 .. MAX -> Nat] /\ L[0] = 0
        /\ \A k \in Slots : L[k + 1] = L[k] + c_buffer.entry[CommandSlot(c_buffer, k)].size
        /\ \A i, j \in 0 .. MAX : i <= j => L[i] <= L[j]
    BY DEF Offsets
  <1>3. ASSUME NEW k \in 1 .. n
        PROVE  Len(q[k]) \in Nat \ {0} /\ L[k] = L[k - 1] + Len(q[k])
    <2> DEFINE e == c_buffer.entry[CommandSlot(c_buffer, k - 1)]
    <2>1. k - 1 \in Slots /\ Line(q[k], e.size)
      BY LineOf
    <2>2. Len(q[k]) = e.size /\ e.size \in Nat \ {0}
      BY <2>1 DEF Line
    <2>3. (k - 1) + 1 = k
      BY <1>1
    <2>4. L[k] = L[k - 1] + e.size
      BY <1>2, <2>1, <2>3
    <2>5. QED
      BY <2>2, <2>4
  <1>4. P \in Seq(Bytes) /\ Len(P) \in Nat
    BY PartialBytesAre
  <1>5. Contents = F \o P
    BY DEF Contents
  <1> HIDE DEF n, q, F, P
  <1>6. \A k \in 0 .. n : L[k] \in Nat
    BY <1>1, <1>2
  <1>7. CountsUp(L, n, q)
    <2>1. \A i, j \in 0 .. n : i <= j => L[i] <= L[j]
      BY <1>1, <1>2
    <2>2. QED
      BY <1>2, <1>3, <1>6, <2>1 DEF CountsUp, Length
  <1>8. /\ F \in Seq(Bytes) /\ Len(F) = L[n] /\ L[n] \in Nat
        /\ \A k \in 1 .. n : \A o \in 1 .. Len(q[k]) : F[L[k - 1] + o] = q[k][o]
    <2>1. n \in Nat /\ q \in [1 .. n -> Seq(Bytes)]
      BY <1>1
    <2>2. QED
      <3>1. FlattenSeq(q) \in Seq(Bytes) /\ Len(FlattenSeq(q)) = L[n] /\ L[n] \in Nat
        BY <1>7, <2>1, FlattenLies
      <3>2. \A k \in 1 .. n : \A o \in 1 .. Len(q[k]) : FlattenSeq(q)[L[k - 1] + o] = q[k][o]
        BY <1>7, <2>1, FlattenLies
      <3>3. QED
        BY <3>1, <3>2 DEF F
  <1>9. /\ Contents \in Seq(Bytes) /\ Len(Contents) = Len(F) + Len(P)
        /\ \A i \in 1 .. Len(F) + Len(P) : Contents[i] = IF i <= Len(F) THEN F[i] ELSE P[i - Len(F)]
    BY <1>4, <1>5, <1>8, ConcatProperties
  <1>10. ASSUME NEW k \in 1 .. n, NEW o \in 1 .. Len(q[k])
         PROVE  Contents[L[k - 1] + o] = q[k][o]
    <2>1. k - 1 \in 0 .. n /\ k \in 0 .. n /\ n \in 0 .. n
      BY <1>1
    <2>2. L[k] <= L[n] /\ L[k] \in Nat /\ L[k - 1] \in Nat /\ L[k] = L[k - 1] + Len(q[k])
      BY <1>1, <1>2, <1>3, <1>6, <2>1
    <2>3. Len(q[k]) \in Nat
      BY <1>3
    <2>4. L[k - 1] + o \in 1 .. Len(F) + Len(P) /\ L[k - 1] + o <= Len(F)
      BY <1>4, <1>8, <2>2, <2>3
    <2>5. QED
      BY <1>8, <1>9, <2>4
  <1>11. ASSUME NEW o \in 1 .. Len(P) PROVE Contents[L[n] + o] = P[o]
    <2>1. L[n] + o \in 1 .. Len(F) + Len(P) /\ ~(L[n] + o <= Len(F)) /\ (L[n] + o) - Len(F) = o
      BY <1>4, <1>8
    <2>2. QED
      BY <1>9, <2>1
  <1>12. ASSUME NEW i \in 0 .. n, NEW j \in 0 .. n, i < j PROVE L[i] < L[j]
    <2>1. i + 1 \in 1 .. n /\ (i + 1) - 1 = i /\ i + 1 \in 0 .. MAX /\ j \in 0 .. MAX /\ i + 1 <= j
      BY <1>1, <1>12
    <2>2. L[i + 1] = L[i] + Len(q[i + 1]) /\ Len(q[i + 1]) \in Nat \ {0} /\ L[i + 1] <= L[j]
      BY <1>2, <1>3, <2>1
    <2>3. L[i] \in Nat /\ L[j] \in Nat
      BY <1>6
    <2>4. QED
      BY <2>2, <2>3
  <1>13. Laid(L, n)
    BY <1>3, <1>6, <1>8, <1>9, <1>10, <1>11, <1>12 DEF Laid, q, P
  <1>14. QED
    BY <1>7, <1>13 DEF n, q

(* The newlines of Contents are the last bytes of the lines,               *)
LEMMA ContentsEnds ==
  ASSUME DriverInv, loaded, NEW L, Laid(L, EntryCount(c_buffer))
  PROVE  Ends(Contents) = {L[k] : k \in 1 .. EntryCount(c_buffer)}
  <1> DEFINE n == EntryCount(c_buffer)
             q == LineBytes
             P == PartialBytes
             C == Contents
  <1>1. n \in Nat /\ C \in Seq(Bytes) /\ Ends(C) = {i \in 1 .. Len(C) : C[i] = NL}
    BY LineBytesAre, ContentsType, EndsAre
  <1>2. \A k \in 1 .. n : /\ Len(q[k]) \in Nat \ {0} /\ q[k][Len(q[k])] = NL
                          /\ \A o \in 1 .. Len(q[k]) : q[k][o] = NL => o = Len(q[k])
    <2> SUFFICES ASSUME NEW k \in 1 .. n
                 PROVE  /\ Len(q[k]) \in Nat \ {0} /\ q[k][Len(q[k])] = NL
                        /\ \A o \in 1 .. Len(q[k]) : q[k][o] = NL => o = Len(q[k])
      OBVIOUS
    <2>1. PICK z : Line(q[k], z)
      BY LineBytesAre
    <2>2. Len(q[k]) = z /\ z \in Nat \ {0} /\ q[k][z] = NL /\ \A o \in 1 .. z - 1 : q[k][o] # NL
      BY <2>1 DEF Line
    <2>3. QED
      BY <2>2
  <1>3. Len(P) \in Nat /\ \A o \in 1 .. Len(P) : P[o] # NL
    BY PartialBytesAre
  <1>4. /\ Len(C) = L[n] + Len(P) /\ L[0] = 0
        /\ \A k \in 1 .. n :
              /\ L[k] = L[k - 1] + Len(q[k])
              /\ \A o \in 1 .. Len(q[k]) : C[L[k - 1] + o] = q[k][o]
        /\ \A o \in 1 .. Len(P) : C[L[n] + o] = P[o]
        /\ \A k \in 0 .. n : L[k] \in Nat
        /\ \A i, j \in 0 .. n : i < j => L[i] < L[j]
    BY DEF Laid, Offsets
  <1> HIDE DEF n, q, P, C
  <1>5. ASSUME NEW k \in 1 .. n PROVE L[k] \in Ends(C)
    <2>1. k - 1 \in 0 .. n /\ k \in 0 .. n /\ n \in 0 .. n
      BY <1>1
    <2>2. L[k - 1] \in Nat /\ L[k] = L[k - 1] + Len(q[k]) /\ Len(q[k]) \in Nat \ {0} /\ L[n] \in Nat
      BY <1>2, <1>4, <2>1
    <2>3. L[k] <= L[n]
      <3>1. k = n \/ k < n
        BY <1>1
      <3>2. QED
        BY <1>4, <2>1, <2>2, <3>1
    <2>4. Len(q[k]) \in 1 .. Len(q[k])
      BY <2>2
    <2>5. C[L[k]] = NL
      BY <1>2, <1>4, <2>2, <2>4
    <2>6. L[k] \in 1 .. Len(C)
      BY <1>3, <1>4, <2>2, <2>3
    <2>7. QED
      BY <1>1, <2>5, <2>6
  <1>6. ASSUME NEW i \in Ends(C) PROVE \E k \in 1 .. n : i = L[k]
    <2>1. i \in 1 .. Len(C) /\ C[i] = NL /\ i \in Nat \ {0} /\ L[n] \in Nat /\ n \in 0 .. n
      BY <1>1, <1>4
    <2>2. CASE i <= L[n]
      <3>1. PICK k \in 1 .. n : L[k - 1] < i /\ i <= L[k]
        BY <1>1, <1>4, <2>1, <2>2, Located
      <3>2. /\ k - 1 \in 0 .. n /\ L[k - 1] \in Nat /\ L[k] = L[k - 1] + Len(q[k])
            /\ Len(q[k]) \in Nat
        BY <1>1, <1>2, <1>4
      <3>3. i - L[k - 1] \in 1 .. Len(q[k]) /\ L[k - 1] + (i - L[k - 1]) = i
        BY <2>1, <3>1, <3>2
      <3>4. q[k][i - L[k - 1]] = NL
        BY <1>4, <2>1, <3>3
      <3>5. i - L[k - 1] = Len(q[k])
        BY <1>2, <3>3, <3>4
      <3>6. i = L[k]
        BY <2>1, <3>2, <3>5
      <3>7. QED
        BY <3>6
    <2>3. CASE ~(i <= L[n])
      <3>1. i - L[n] \in 1 .. Len(P) /\ L[n] + (i - L[n]) = i
        BY <1>3, <1>4, <2>1, <2>3
      <3>2. P[i - L[n]] = NL
        BY <1>4, <2>1, <3>1
      <3>3. QED
        BY <1>3, <3>1, <3>2
    <2>4. QED
      BY <2>2, <2>3
  <1>7. QED
    BY <1>5, <1>6 DEF n, C

(* so line k has the others behind it, and Complete reaches to the last.   *)
LEMMA LineCounts ==
  ASSUME DriverInv, loaded, NEW L, Laid(L, EntryCount(c_buffer))
  PROVE  LET n == EntryCount(c_buffer)
             C == Contents
         IN  /\ Cardinality(Ends(C)) = n /\ n \in 0 .. MAX
             /\ Len(AtomicLog!Complete(C)) = L[n]
             /\ \A k \in 0 .. n : /\ After(C, L[k]) = {L[j] : j \in k + 1 .. n}
                                  /\ Cardinality(Ends(C) \ After(C, L[k])) = k
             /\ \A k \in 0 .. n - 1 : \A i \in Nat :
                   L[k] <= i /\ i < L[k + 1] => After(C, i) # {} /\ Min(After(C, i)) = L[k + 1]
  <1> DEFINE n == EntryCount(c_buffer)
             C == Contents
  <1>1. n \in 0 .. MAX /\ MAX \in Nat
    BY CommandsAre, MAXAssumption DEF DriverInv
  <1>2. C \in Seq(Bytes) /\ Ends(C) = {L[k] : k \in 1 .. n}
    BY ContentsType, ContentsEnds
  <1>3. /\ \A k \in 0 .. n : L[k] \in Nat
        /\ \A i, j \in 0 .. n : i < j => L[i] < L[j]
        /\ L[0] = 0
    BY DEF Laid, Offsets
  <1> HIDE DEF n, C
  <1>4. ASSUME NEW k \in 0 .. n
        PROVE  Cardinality({L[j] : j \in 1 .. k}) = k
    <2> DEFINE S == 1 .. k
               T == {L[j] : j \in 1 .. k}
               f == [j \in S |-> L[j]]
    <2>1. IsFiniteSet(S) /\ Cardinality(S) = k
      BY <1>1, FS_Interval
    <2>2. f \in [S -> T] /\ \A t \in T : \E x \in S : f[x] = t
      OBVIOUS
    <2>3. ASSUME NEW x \in S, NEW y \in S, f[x] = f[y] PROVE x = y
      <3>1. x \in 0 .. n /\ y \in 0 .. n /\ L[x] = L[y] /\ x \in Nat /\ y \in Nat
        BY <1>1, <2>3
      <3>2. ~(x < y) /\ ~(y < x)
        BY <1>3, <3>1
      <3>3. QED
        BY <3>1, <3>2
    <2> HIDE DEF S, T, f
    <2>4. Cardinality(T) = Cardinality(S)
      BY <2>1, <2>2, <2>3, SameSize
    <2>5. QED
      BY <2>1, <2>4 DEF T
  <1>5. Cardinality(Ends(C)) = n
    <2>1. n \in 0 .. n
      BY <1>1
    <2>2. QED
      BY <1>2, <1>4, <2>1
  <1>6. \A i : After(C, i) = {e \in Ends(C) : e > i}
    BY <1>2, EndsAre
  <1>7. ASSUME NEW k \in 0 .. n
        PROVE  /\ After(C, L[k]) = {L[j] : j \in k + 1 .. n}
               /\ Ends(C) \ After(C, L[k]) = {L[j] : j \in 1 .. k}
    <2>1. ASSUME NEW j \in 1 .. n PROVE L[j] > L[k] <=> j > k
      <3>1. j \in 0 .. n /\ j \in Nat /\ k \in Nat /\ L[j] \in Nat /\ L[k] \in Nat
        BY <1>1, <1>3
      <3>2. (j > k => L[k] < L[j]) /\ (j < k => L[j] < L[k])
        BY <1>3, <3>1
      <3>3. QED
        BY <3>1, <3>2
    <2>2. After(C, L[k]) = {e \in {L[j] : j \in 1 .. n} : e > L[k]}
      BY <1>2, <1>6
    <2>3. \A j : j \in k + 1 .. n <=> j \in 1 .. n /\ j > k
      BY <1>1
    <2>4. \A j : j \in 1 .. k <=> j \in 1 .. n /\ ~(j > k)
      BY <1>1
    <2>5. \A e : e \in After(C, L[k]) <=> \E j \in 1 .. n : e = L[j] /\ j > k
      BY <2>1, <2>2
    <2>6. \A e : e \in Ends(C) \ After(C, L[k]) <=> \E j \in 1 .. n : e = L[j] /\ ~(j > k)
      BY <1>2, <2>1, <2>2
    <2>7. After(C, L[k]) = {L[j] : j \in k + 1 .. n}
      BY <2>3, <2>5
    <2>8. Ends(C) \ After(C, L[k]) = {L[j] : j \in 1 .. k}
      BY <2>4, <2>6
    <2>9. QED
      BY <2>7, <2>8
  <1>8. Len(AtomicLog!Complete(C)) = L[n]
    <2> DEFINE E == Ends(C) \cup {0}
    <2>1. Len(C) \in Nat /\ Ends(C) \in SUBSET (1 .. Len(C)) /\ \A i \in 1 .. Len(C) : C[i] \in Bytes
      BY <1>2, EndsAre, ElementOfSeq
    <2>2. E \in SUBSET (0 .. Len(C)) /\ E # {}
      BY <2>1
    <2>3. L[n] \in E /\ \A e \in E : e <= L[n]
      <3>1. n \in 0 .. n /\ L[n] \in Nat
        BY <1>1, <1>3
      <3>2. L[n] \in E
        <4>1. n = 0 \/ n \in 1 .. n
          BY <1>1
        <4>2. QED
          BY <1>2, <1>3, <4>1
      <3>3. ASSUME NEW k \in 1 .. n PROVE L[k] <= L[n]
        <4>1. k \in 0 .. n /\ L[k] \in Nat /\ (k = n \/ k < n)
          BY <1>1, <1>3
        <4>2. QED
          BY <1>3, <3>1, <4>1
      <3>4. QED
        BY <1>2, <3>1, <3>2, <3>3
    <2> HIDE DEF E
    <2>4. Max(E) \in E /\ \A e \in E : e <= Max(E)
      BY <2>1, <2>2, MaxIs
    <2>5. Max(E) = L[n] /\ L[n] \in 0 .. Len(C)
      <3>1. L[n] \in 0 .. Len(C) /\ Max(E) \in 0 .. Len(C)
        BY <2>2, <2>3, <2>4
      <3>2. L[n] <= Max(E) /\ Max(E) <= L[n]
        BY <2>3, <2>4
      <3>3. QED
        BY <2>1, <3>1, <3>2
    <2>6. AtomicLog!Complete(C) = SubSeq(C, 1, Max(E))
      BY LogWords DEF E
    <2> DEFINE m == Max(E)
    <2>7. m \in Int /\ \A i \in 1 .. m : C[i] \in Bytes
      BY <2>1, <2>5
    <2> HIDE DEF m
    <2>8. Len(SubSeq(C, 1, m)) = IF 1 <= m THEN m - 1 + 1 ELSE 0
      BY <2>7, SubSeqProperties
    <2>9. QED
      BY <2>1, <2>5, <2>6, <2>8 DEF m
  <1>9. ASSUME NEW k \in 0 .. n - 1, NEW i \in Nat, L[k] <= i, i < L[k + 1]
        PROVE  After(C, i) # {} /\ Min(After(C, i)) = L[k + 1]
    <2> DEFINE A == After(C, i)
    <2>1. A = {e \in Ends(C) : e > i}
      BY <1>6
    <2>2. k + 1 \in 1 .. n /\ k \in 0 .. n /\ k + 1 \in 0 .. n
      BY <1>1
    <2>3. L[k + 1] \in A
      BY <1>2, <1>3, <1>9, <2>1, <2>2
    <2>4. ASSUME NEW e \in A PROVE L[k + 1] <= e /\ e \in Nat
      <3>1. PICK j \in 1 .. n : e = L[j] /\ L[j] > i
        BY <1>2, <2>1
      <3>2. j \in 0 .. n /\ L[j] \in Nat /\ L[k] \in Nat /\ L[k + 1] \in Nat /\ j \in Nat /\ k \in Nat
        BY <1>1, <1>3, <2>2
      <3>3. ~(j < k) /\ j # k
        BY <1>3, <1>9, <2>2, <3>1, <3>2
      <3>4. j = k + 1 \/ k + 1 < j
        BY <3>2, <3>3
      <3>5. QED
        BY <1>3, <2>2, <3>1, <3>2, <3>4
    <2> HIDE DEF A
    <2>5. A \in SUBSET Nat /\ A # {}
      BY <2>3, <2>4
    <2>6. Min(A) \in A /\ \A y \in A : Min(A) <= y
      BY <2>5, MinIs
    <2>7. Min(A) = L[k + 1]
      BY <2>3, <2>4, <2>6
    <2>8. QED
      BY <2>3, <2>7 DEF A
  <1>10. QED
    BY <1>1, <1>4, <1>5, <1>7, <1>8, <1>9 DEF n, C

-----------------------------------------------------------------------------
(* What the handlers compute under the lock is what the log would answer:  *)
(* the size,                                                               *)
LEMMA SizeIs ==
  ASSUME DriverInv, loaded
  PROVE  get_total_size(c_buffer) = Len(AtomicLog!Complete(Contents))
  <1>1. Ring(c_buffer)
    BY DEF DriverInv
  <1>2. PICK L : Offsets(c_buffer, L)
    BY <1>1, OffsetsExist
  <1>3. get_total_size(c_buffer) = L[MAX] /\ L[MAX] = L[EntryCount(c_buffer)]
    BY <1>1, <1>2, NewPosIs, OffsetsEnd
  <1>4. Laid(L, EntryCount(c_buffer))
    BY <1>2, LinesLie
  <1>5. QED
    BY <1>3, <1>4, LineCounts

(* the position of a byte of a command,                                    *)
LEMMA SeekIs ==
  ASSUME DriverInv, loaded, NEW c \in Nat, NEW o \in Nat
  PROVE  LET at  == AtomicLog!Positions(Contents, c, o)
             pos == adjust_aesd_file_offset(c_buffer, c, o)
         IN  \/ at = {} /\ pos = NULL
             \/ pos \in at /\ pos # NULL
  <1> DEFINE b == c_buffer
             n == EntryCount(b)
             C == Contents
             at == AtomicLog!Positions(C, c, o)
             pos == adjust_aesd_file_offset(b, c, o)
  <1>1. Ring(b)
    BY DEF DriverInv
  <1>2. PICK L : Offsets(b, L)
    BY <1>1, OffsetsExist
  <1>3. Laid(L, n)
    BY <1>2, LinesLie
  <1>4. /\ n \in 0 .. MAX /\ MAX \in Nat /\ Slots = 0 .. MAX - 1
        /\ \A k \in 0 .. n : /\ After(C, L[k]) = {L[j] : j \in k + 1 .. n}
                             /\ Cardinality(Ends(C) \ After(C, L[k])) = k
        /\ \A k \in 0 .. n - 1 : \A i \in Nat :
              L[k] <= i /\ i < L[k + 1] => After(C, i) # {} /\ Min(After(C, i)) = L[k + 1]
    <2>1. /\ \A k \in 0 .. n : /\ After(C, L[k]) = {L[j] : j \in k + 1 .. n}
                               /\ Cardinality(Ends(C) \ After(C, L[k])) = k
          /\ \A k \in 0 .. n - 1 : \A i \in Nat :
                L[k] <= i /\ i < L[k + 1] => After(C, i) # {} /\ Min(After(C, i)) = L[k + 1]
      BY <1>3, LineCounts, Zenon
    <2>2. n \in 0 .. MAX
      BY <1>1, CommandsAre
    <2>3. MAX \in Nat /\ Slots = 0 .. MAX - 1
      BY MAXAssumption DEF Slots
    <2>4. QED
      BY <2>1, <2>2, <2>3, Zenon
  <1>5. /\ L[0] = 0 /\ \A k \in 0 .. n : L[k] \in Nat
        /\ \A i, j \in 0 .. n : i < j => L[i] < L[j]
        /\ \A k \in Slots : L[k + 1] = L[k] + b.entry[CommandSlot(b, k)].size
    BY <1>3 DEF Laid, Offsets
  <1>6. Ends(C) \cup {0} = {L[k] : k \in 0 .. n}
    <2>1. Ends(C) = {L[k] : k \in 1 .. n}
      BY <1>3, ContentsEnds
    <2>2. \A k : k \in 0 .. n <=> k = 0 \/ k \in 1 .. n
      BY <1>4
    <2>3. QED
      BY <1>5, <2>1, <2>2
  <1>7. at = {x + o : x \in {e \in Ends(C) \cup {0} :
                               /\ Cardinality(Ends(C) \ After(C, e)) = c
                               /\ After(C, e) # {}
                               /\ e + o < Min(After(C, e))}}
    BY PositionsAre, Zenon
  <1>8. \A k \in Slots : IF k < n THEN Occupied(b.entry[CommandSlot(b, k)])
                                  ELSE b.entry[CommandSlot(b, k)] = NoEntry
    BY <1>1, CommandsAre
  <1>9. \A k \in 0 .. MAX : new_pos(b, k) = L[k]
    BY <1>1, <1>2, NewPosIs
  <1>10. pos = IF \/ c >= MAX
                  \/ \E i \in 0 .. c - 1 : b.entry[CommandSlot(b, i)] = NoEntry
                  \/ b.entry[CommandSlot(b, c)].buffptr = NULL
                  \/ o >= b.entry[CommandSlot(b, c)].size
                 THEN NULL ELSE new_pos(b, c) + o
    BY DEF adjust_aesd_file_offset
  <1> HIDE DEF n, C, at, pos, b
  <1>11. CASE ~(c < n)
    <2>1. ASSUME NEW e \in Ends(C) \cup {0}, Cardinality(Ends(C) \ After(C, e)) = c,
                 After(C, e) # {}
          PROVE  FALSE
      <3>1. PICK k \in 0 .. n : e = L[k]
        BY <1>6, <2>1
      <3>2. k = c /\ After(C, e) = {L[j] : j \in k + 1 .. n}
        BY <1>4, <2>1, <3>1
      <3>3. k + 1 .. n = {}
        BY <1>4, <1>11, <3>2
      <3>4. QED
        BY <2>1, <3>2, <3>3
    <2>2. at = {}
      BY <1>7, <2>1
    <2>3. c < MAX => c \in Slots /\ b.entry[CommandSlot(b, c)].buffptr = NULL
      BY <1>4, <1>8, <1>11 DEF NoEntry
    <2>4. pos = NULL
      BY <1>4, <1>10, <2>3
    <2>5. QED
      BY <2>2, <2>4 DEF at, pos, b, C
  <1>12. CASE c < n
    <2> DEFINE t == b.entry[CommandSlot(b, c)]
    <2>1. /\ c \in Slots /\ c \in 0 .. n /\ c \in 0 .. n - 1 /\ c \in 0 .. MAX
          /\ c + 1 \in 0 .. n /\ ~(c >= MAX)
          /\ \A i \in 0 .. c - 1 : i \in Slots /\ i < n
      BY <1>4, <1>12
    <2>2. Occupied(t) /\ \A i \in 0 .. c - 1 : Occupied(b.entry[CommandSlot(b, i)])
      BY <1>8, <1>12, <2>1
    <2>3. t.buffptr # NULL /\ t.size \in Nat \ {0} /\ L[c + 1] = L[c] + t.size
      BY <1>5, <2>1, <2>2 DEF Occupied
    <2>4. ~ \E i \in 0 .. c - 1 : b.entry[CommandSlot(b, i)] = NoEntry
      BY <2>2 DEF Occupied, NoEntry
    <2>5. pos = IF o >= t.size THEN NULL ELSE L[c] + o
      BY <1>9, <1>10, <2>1, <2>3, <2>4
    <2>6. L[c] \in Nat /\ L[c + 1] \in Nat /\ L[c] < L[c + 1]
      BY <1>5, <2>1, <2>3
    <2>7. /\ After(C, L[c]) # {} /\ Min(After(C, L[c])) = L[c + 1]
          /\ Cardinality(Ends(C) \ After(C, L[c])) = c
          /\ L[c] \in Ends(C) \cup {0}
      BY <1>4, <1>6, <2>1, <2>6
    <2>8. CASE o >= t.size
      <3>1. ASSUME NEW e \in Ends(C) \cup {0}, Cardinality(Ends(C) \ After(C, e)) = c,
                   e + o < Min(After(C, e))
            PROVE  FALSE
        <4>1. PICK k \in 0 .. n : e = L[k]
          BY <1>6, <3>1
        <4>2. k = c
          BY <1>4, <3>1, <4>1
        <4>3. L[c] + o < L[c + 1]
          BY <2>7, <3>1, <4>1, <4>2
        <4>4. QED
          BY <2>3, <2>6, <2>8, <4>3
      <3>2. at = {}
        BY <1>7, <3>1
      <3>3. QED
        BY <2>5, <2>8, <3>2 DEF at, pos, b, C
    <2>9. CASE ~(o >= t.size)
      <3>1. L[c] + o < L[c + 1] /\ L[c] + o \in Nat
        BY <2>3, <2>6, <2>9
      <3>2. L[c] + o \in at
        BY <1>7, <2>7, <3>1
      <3>3. pos = L[c] + o /\ pos # NULL
        BY <2>5, <2>9, <3>1, NullIsNone
      <3>4. QED
        BY <3>2, <3>3 DEF at, pos, b, C
    <2>10. QED
      BY <2>8, <2>9
  <1>13. QED
    BY <1>11, <1>12

(* and the bytes at a position.                                            *)
LEMMA ReadIs ==
  ASSUME DriverInv, loaded, NEW c, c.pos \in Nat, c.count \in Nat
  PROVE  ReadBytes(c) = AtomicLog!BytesAt(Contents, c.pos, c.count)
  <1> DEFINE b == c_buffer
             n == EntryCount(b)
             C == Contents
             found == aesd_circular_buffer_find_entry_offset_for_fpos(b, c.pos)
  <1>1. Ring(b)
    BY DEF DriverInv
  <1>2. PICK L : Offsets(b, L)
    BY <1>1, OffsetsExist
  <1>3. Laid(L, n)
    BY <1>2, LinesLie
  <1>4. /\ n \in 0 .. MAX /\ MAX \in Nat /\ Slots = 0 .. MAX - 1
        /\ Len(AtomicLog!Complete(C)) = L[n]
        /\ \A k \in 0 .. n - 1 : \A i \in Nat :
              L[k] <= i /\ i < L[k + 1] => After(C, i) # {} /\ Min(After(C, i)) = L[k + 1]
    BY <1>3, LineCounts, MAXAssumption DEF Slots
  <1>5. \A k \in 0 .. n : L[k] \in Nat
    BY <1>3 DEF Laid
  <1>6. AtomicLog!BytesAt(C, c.pos, c.count) =
          IF c.pos >= L[n] THEN << >>
          ELSE SubSeq(C, c.pos + 1, Min({c.pos + c.count, Min(After(C, c.pos))}))
    BY <1>4, BytesAtIs, Zenon
  <1>7. L[n] \in Nat
    <2>1. n \in 0 .. n
      BY <1>4
    <2>2. QED
      BY <1>5, <2>1
  <1>8. CASE c.pos >= L[n]
    <2>1. found = NULL
      BY <1>1, <1>2, <1>7, <1>8, FindNone
    <2>2. ReadBytes(c) = << >>
      BY <2>1 DEF ReadBytes
    <2>3. QED
      BY <1>6, <1>8, <2>2
  <1>9. CASE ~(c.pos >= L[n])
    <2>1. PICK k \in Slots : /\ k < n /\ L[k] <= c.pos /\ c.pos - L[k] \in Nat
                             /\ c.pos - L[k] < b.entry[CommandSlot(b, k)].size
      <3>1. c.pos < L[n]
        BY <1>7, <1>9
      <3>2. QED
        BY <1>1, <1>2, <3>1, CommandOf
    <2> DEFINE o == c.pos - L[k]
               x == CommandSlot(b, k)
               s == heap[b.entry[x].buffptr]
               size == b.entry[x].size
    <2>2. k + 1 \in 1 .. n /\ (k + 1) - 1 = k /\ k \in 0 .. n /\ k + 1 \in 0 .. n /\ k \in 0 .. n - 1
      BY <1>4, <2>1
    <2>3. x \in Slots /\ LineBytes[k + 1] = s /\ Line(s, size)
      <3>1. /\ CommandSlot(b, (k + 1) - 1) \in Slots
            /\ LineBytes[k + 1] = heap[b.entry[CommandSlot(b, (k + 1) - 1)].buffptr]
            /\ Line(LineBytes[k + 1], b.entry[CommandSlot(b, (k + 1) - 1)].size)
        BY <2>2, LineOf
      <3>2. QED
        BY <2>2, <3>1
    <2>4. s \in Seq(Bytes) /\ Len(s) = size /\ size \in Nat \ {0}
      BY <2>3 DEF Line
    <2>5. /\ L[k + 1] = L[k] + size /\ L[k] \in Nat
          /\ \A i \in 1 .. size : C[L[k] + i] = s[i]
      <3>1. /\ L[k + 1] = L[(k + 1) - 1] + Len(LineBytes[k + 1])
            /\ \A i \in 1 .. Len(LineBytes[k + 1]) : C[L[(k + 1) - 1] + i] = LineBytes[k + 1][i]
        BY <1>3, <2>2 DEF Laid
      <3>2. QED
        BY <1>5, <2>2, <2>3, <2>4, <3>1
    <2>6. o \in Nat /\ o < size /\ L[k] + o = c.pos
      BY <2>1, <2>5
    <2>7. found = [slot |-> x, offset |-> o]
      <3>1. aesd_circular_buffer_find_entry_offset_for_fpos(b, L[k] + o)
              = [slot |-> CommandSlot(b, k), offset |-> o]
        <4> HIDE DEF o
        <4>1. QED
          BY <1>1, <1>2, <2>1, <2>6, FindIs
      <3>2. QED
        BY <2>6, <3>1
    <2>8. found # NULL
      BY <2>3, <2>6, <2>7, AesdAssumption DEF Slots
    <2> DEFINE count == IF c.count + o >= size THEN size - o ELSE c.count
               h == o + count
    <2>9. ReadBytes(c) = SubSeq(s, o + 1, h)
      <3>1. found.slot = x /\ found.offset = o
        BY <2>7
      <3> HIDE DEF found, x, o
      <3>2. QED
        BY <2>8, <3>1 DEF ReadBytes, found
    <2> DEFINE last == Min({c.pos + c.count, Min(After(C, c.pos))})
    <2>10. AtomicLog!BytesAt(C, c.pos, c.count) = SubSeq(C, c.pos + 1, last)
      BY <1>6, <1>9
    <2>11. last = L[k] + h
      <3>1. L[k] <= c.pos /\ c.pos < L[k + 1] /\ L[k + 1] \in Nat
        BY <2>1, <2>4, <2>5, <2>6
      <3>2. Min(After(C, c.pos)) = L[k + 1]
        BY <1>4, <2>2, <3>1
      <3> DEFINE y == c.pos + c.count
                 z == L[k + 1]
      <3>3. y \in Nat /\ z \in Nat
        BY <3>1
      <3> HIDE DEF y, z
      <3>4. Min({y, z}) = IF y <= z THEN y ELSE z
        <4>1. {y, z} \in SUBSET Nat /\ {y, z} # {}
          BY <3>3
        <4>2. Min({y, z}) \in {y, z} /\ \A w \in {y, z} : Min({y, z}) <= w
          BY <4>1, MinIs
        <4>3. QED
          BY <3>3, <4>2
      <3>5. last = IF y <= z THEN y ELSE z
        BY <3>2, <3>4 DEF y, z
      <3>6. y = L[k] + (o + c.count) /\ z = L[k] + size
        BY <2>5, <2>6 DEF y, z
      <3> HIDE DEF last, size, o
      <3>7. h = IF c.count + o >= size THEN size ELSE o + c.count
        BY <2>4, <2>6
      <3>8. QED
        BY <2>4, <2>5, <2>6, <3>5, <3>6, <3>7
    <2>12. h \in Nat /\ o <= h /\ h <= size
      BY <2>4, <2>6
    <2> HIDE DEF o, x, s, size, count, h, last, b, C, n, found
    <2>13. \A i \in o + 1 .. h : s[i] \in Bytes
      <3>1. \A i \in o + 1 .. h : i \in 1 .. Len(s)
        BY <2>4, <2>6, <2>12
      <3>2. QED
        BY <2>4, <3>1, ElementOfSeq
    <2> DEFINE p == c.pos + 1
               l == L[k] + h
               f == o + 1
    <2>14. p \in Int /\ l \in Int /\ f \in Int /\ l - p + 1 = h - o /\ h - f + 1 = h - o
           /\ (p <= l <=> f <= h)
      BY <2>5, <2>6, <2>12
    <2>15. \A i \in p .. l : C[i] \in Bytes /\ C[i] = s[i - L[k]]
      <3> SUFFICES ASSUME NEW i \in p .. l PROVE C[i] \in Bytes /\ C[i] = s[i - L[k]]
        OBVIOUS
      <3>0. i \in Int /\ L[k] + o + 1 <= i /\ i <= L[k] + h
        BY <2>5, <2>6, <2>12
      <3> DEFINE a == L[k]
      <3> HIDE DEF a
      <3>a. a \in Nat /\ a + o + 1 <= i /\ i <= a + h /\ i \in Int
        BY <2>5, <3>0 DEF a
      <3>b. o \in Nat /\ h \in Nat /\ h <= size /\ size \in Nat
        BY <2>4, <2>6, <2>12
      <3>c. i - a \in o + 1 .. h /\ i - a \in 1 .. size /\ a + (i - a) = i
        BY <3>a, <3>b
      <3>1. i - L[k] \in o + 1 .. h /\ i - L[k] \in 1 .. size /\ L[k] + (i - L[k]) = i
        BY <3>c DEF a
      <3>2. QED
        BY <2>5, <2>13, <3>1
    <2>16. \A i \in 1 .. h - o : p + i - 1 \in p .. l /\ (p + i - 1) - L[k] = f + i - 1
      BY <2>5, <2>6, <2>12
    <2> HIDE DEF p, l
    <2>17. /\ SubSeq(C, p, l) \in Seq(Bytes)
           /\ Len(SubSeq(C, p, l)) = IF p <= l THEN l - p + 1 ELSE 0
           /\ \A i \in 1 .. l - p + 1 : SubSeq(C, p, l)[i] = C[p + i - 1]
      BY <2>14, <2>15, SubSeqProperties
    <2>18. \A i \in f .. h : s[i] \in Bytes
      BY <2>13
    <2> HIDE DEF f
    <2>19. /\ SubSeq(s, f, h) \in Seq(Bytes)
           /\ Len(SubSeq(s, f, h)) = IF f <= h THEN h - f + 1 ELSE 0
           /\ \A i \in 1 .. h - f + 1 : SubSeq(s, f, h)[i] = s[f + i - 1]
      <3>1. h \in Int
        BY <2>12
      <3>2. QED
        BY <2>14, <2>18, <3>1, SubSeqProperties
    <2> DEFINE u == SubSeq(C, p, l)
               v == SubSeq(s, f, h)
    <2>20. Len(u) = Len(v) /\ (Len(u) = h - o \/ Len(u) = 0)
      BY <2>14, <2>17, <2>19
    <2>21. ASSUME NEW i \in 1 .. Len(u) PROVE v[i] = u[i]
      <3>0. h - o \in Nat
        BY <2>6, <2>12
      <3>1. i \in 1 .. h - o
        <4> DEFINE m == Len(u)
                   d == h - o
        <4>1. i \in 1 .. m /\ (m = d \/ m = 0) /\ d \in Nat
          BY <2>20, <3>0
        <4> HIDE DEF m, d
        <4>2. i \in 1 .. d
          BY <4>1
        <4>3. QED
          BY <4>2 DEF d
      <3>2. p + i - 1 \in p .. l /\ (p + i - 1) - L[k] = f + i - 1
        BY <2>16, <3>1
      <3>3. C[p + i - 1] = s[f + i - 1]
        BY <2>15, <3>2
      <3>4. u[i] = C[p + i - 1] /\ v[i] = s[f + i - 1]
        BY <2>14, <2>17, <2>19, <3>1
      <3>5. QED
        BY <3>3, <3>4
    <2>22. u \in Seq(Bytes) /\ v \in Seq(Bytes)
      BY <2>17, <2>19
    <2> HIDE DEF u, v
    <2>23. v = u
      BY <2>20, <2>21, <2>22, SeqEqual
    <2>24. QED
      BY <2>9, <2>10, <2>11, <2>23 DEF u, v, C, f, p, l
  <1>10. QED
    BY <1>8, <1>9

(* The device never holds more lines than the log keeps.                   *)
KeepsAll == AtomicLog!Recent(Contents) = Contents

LEMMA ContentsKept == DriverInv /\ loaded => KeepsAll
  <1> SUFFICES ASSUME DriverInv, loaded PROVE KeepsAll
    OBVIOUS
  <1>1. PICK L : Offsets(c_buffer, L)
    BY OffsetsExist DEF DriverInv
  <1>2. Laid(L, EntryCount(c_buffer))
    BY <1>1, LinesLie
  <1>3. EntryCount(c_buffer) \in 0 .. MAX
    BY CommandsAre DEF DriverInv
  <1>4. Cardinality(Ends(Contents)) = EntryCount(c_buffer)
    BY <1>2, LineCounts, Zenon
  <1>5. Cardinality(Ends(Contents)) <= MAX
    BY <1>3, <1>4, MAXAssumption
  <1>6. QED
    BY <1>5, ContentsType, RecentAll DEF KeepsAll

LEMMA ContentsKeptNext == DriverInv' /\ loaded' => KeepsAll'
  BY ContentsKept, PTL

-----------------------------------------------------------------------------
(* The commands after aesd_circular_buffer_add_entry: those before, less   *)
(* the oldest of a full ring, then the new one.                            *)
LEMMA SlotsAdd ==
  ASSUME NEW b, Ring(b), NEW e, NEW c, c = aesd_circular_buffer_add_entry(b, e),
         NEW d, d = IF b.full THEN 1 ELSE 0
  PROVE  /\ EntryCount(b) \in 0 .. MAX /\ d \in 0 .. EntryCount(b)
         /\ EntryCount(c) = (EntryCount(b) - d) + 1 /\ EntryCount(c) \in 1 .. MAX
         /\ c.entry[CommandSlot(c, EntryCount(c) - 1)] = e
         /\ \A k \in 1 .. EntryCount(b) - d :
               /\ (k + d) - 1 \in Slots /\ CommandSlot(b, (k + d) - 1) \in Slots
               /\ CommandSlot(b, (k + d) - 1) # b.in_offs
               /\ c.entry[CommandSlot(c, k - 1)] = b.entry[CommandSlot(b, (k + d) - 1)]
  <1> DEFINE in == NextSlot(b.in_offs)
             out == IF b.full THEN NextSlot(b.out_offs) ELSE b.out_offs
             entries == [b.entry EXCEPT ![b.in_offs] = e]
             n == EntryCount(b)
             m == EntryCount(c)
             x == b.in_offs
  <1>1. /\ x \in Slots /\ b.out_offs \in Slots /\ b.full \in BOOLEAN /\ DOMAIN b.entry = Slots
        /\ n \in 0 .. MAX /\ MAX \in Nat \ {0} /\ Slots = 0 .. MAX - 1
    <2>1. x \in Slots /\ b.out_offs \in Slots /\ b.full \in BOOLEAN /\ DOMAIN b.entry = Slots
      BY DEF Ring
    <2>2. n \in 0 .. MAX
      BY CommandsAre
    <2>3. MAX \in Nat \ {0} /\ Slots = 0 .. MAX - 1
      BY MAXAssumption DEF Slots
    <2>4. QED
      BY <2>1, <2>2, <2>3
  <1>2. /\ c.entry = entries /\ c.in_offs = in /\ c.out_offs = out
        /\ c.full \in BOOLEAN /\ (c.full <=> b.full \/ in = out)
    BY DEF aesd_circular_buffer_add_entry
  <1>3. in \in Slots /\ out \in Slots /\ in = (IF x = MAX - 1 THEN 0 ELSE x + 1)
    BY <1>1, NextSlotIs
  <1>4. \A i \in Slots : entries[i] = IF i = x THEN e ELSE b.entry[i]
    BY <1>1
  <1>5. \A k \in Slots : /\ CommandSlot(b, k) = IF k + b.out_offs < MAX THEN k + b.out_offs
                                                ELSE k + b.out_offs - MAX
                         /\ CommandSlot(b, k) \in Slots
    BY <1>1, CommandSlotIs
  <1>6. \A k \in Slots : /\ CommandSlot(c, k) = IF k + out < MAX THEN k + out
                                                ELSE k + out - MAX
                         /\ CommandSlot(c, k) \in Slots
    BY <1>2, <1>3, CommandSlotIs
  <1> HIDE DEF entries
  <1>7. CASE b.full
    <2>1. /\ x = b.out_offs /\ n = MAX /\ d = 1 /\ m = MAX /\ c.full
          /\ out = IF x = MAX - 1 THEN 0 ELSE x + 1
      BY <1>1, <1>2, <1>3, <1>7 DEF Ring, EntryCount
    <2> HIDE DEF out, in, n, m, x
    <2>2. MAX - 1 \in Slots /\ CommandSlot(c, MAX - 1) = x
      BY <1>1, <1>6, <2>1
    <2>3. ASSUME NEW k \in 1 .. MAX - 1
          PROVE  /\ k \in Slots /\ k - 1 \in Slots /\ CommandSlot(b, k) # x
                 /\ CommandSlot(c, k - 1) = CommandSlot(b, k)
      <3>1. k \in Slots /\ k - 1 \in Slots
        BY <1>1
      <3>2. CommandSlot(b, k) = IF k + x < MAX THEN k + x ELSE k + x - MAX
        BY <1>5, <2>1, <3>1
      <3>3. CommandSlot(c, k - 1) = IF (k - 1) + out < MAX THEN (k - 1) + out
                                    ELSE (k - 1) + out - MAX
        BY <1>6, <3>1
      <3>4. /\ MAX \in Nat \ {0} /\ x \in 0 .. MAX - 1 /\ k \in 1 .. MAX - 1
            /\ out = IF x = MAX - 1 THEN 0 ELSE x + 1
        BY <1>1, <2>1
      <3>5. CommandSlot(b, k) # x
        BY <3>2, <3>4
      <3>6. CommandSlot(c, k - 1) = CommandSlot(b, k)
        <4>1. CASE x = MAX - 1
          BY <3>2, <3>3, <3>4, <4>1
        <4>2. CASE x # MAX - 1
          BY <3>2, <3>3, <3>4, <4>2
        <4>3. QED
          BY <4>1, <4>2
      <3>7. QED
        BY <3>1, <3>5, <3>6
    <2>4. c.entry[CommandSlot(c, m - 1)] = e
      BY <1>1, <1>2, <1>4, <2>1, <2>2
    <2>5. ASSUME NEW k \in 1 .. n - d
          PROVE  /\ (k + d) - 1 \in Slots /\ CommandSlot(b, (k + d) - 1) \in Slots
                 /\ CommandSlot(b, (k + d) - 1) # x
                 /\ c.entry[CommandSlot(c, k - 1)] = b.entry[CommandSlot(b, (k + d) - 1)]
      <3>1. k \in 1 .. MAX - 1 /\ (k + d) - 1 = k
        BY <1>1, <2>1
      <3>2. QED
        BY <1>2, <1>4, <1>5, <2>3, <3>1
    <2>6. d \in 0 .. n /\ m = (n - d) + 1 /\ m \in 1 .. MAX
      BY <1>1, <2>1
    <2>7. QED
      BY <1>1, <2>4, <2>5, <2>6 DEF n, m, x
  <1>8. CASE ~b.full
    <2>1. b.out_offs = 0 /\ out = 0 /\ n = x /\ d = 0
      BY <1>1, <1>8 DEF Ring, EntryCount
    <2>2. m = n + 1
      <3>1. CASE x = MAX - 1
        <4>1. in = 0 /\ c.full
          BY <1>2, <1>3, <2>1, <3>1
        <4>2. m = MAX
          BY <4>1 DEF EntryCount
        <4>3. QED
          BY <1>1, <2>1, <3>1, <4>2
      <3>2. CASE x # MAX - 1
        <4>1. in = x + 1 /\ ~c.full /\ c.in_offs = x + 1 /\ c.out_offs = 0
          BY <1>1, <1>2, <1>3, <1>8, <2>1, <3>2
        <4>2. m = x + 1
          BY <1>1, <4>1 DEF EntryCount
        <4>3. QED
          BY <2>1, <4>2
      <3>3. QED
        BY <3>1, <3>2
    <2> HIDE DEF out, in, n, m, x
    <2>3. \A k \in Slots : CommandSlot(c, k) = k /\ CommandSlot(b, k) = k
      BY <1>1, <1>5, <1>6, <2>1
    <2>4. d \in 0 .. n /\ m = (n - d) + 1 /\ m \in 1 .. MAX /\ m - 1 = x /\ x \in Slots
      BY <1>1, <2>1, <2>2
    <2>5. c.entry[CommandSlot(c, m - 1)] = e
      BY <1>2, <1>4, <2>3, <2>4
    <2>6. ASSUME NEW k \in 1 .. n - d
          PROVE  /\ (k + d) - 1 \in Slots /\ CommandSlot(b, (k + d) - 1) \in Slots
                 /\ CommandSlot(b, (k + d) - 1) # x
                 /\ c.entry[CommandSlot(c, k - 1)] = b.entry[CommandSlot(b, (k + d) - 1)]
      <3>1. k - 1 \in Slots /\ (k + d) - 1 = k - 1 /\ k - 1 # x
        BY <1>1, <2>1
      <3>2. QED
        BY <1>2, <1>4, <2>3, <3>1
    <2>7. QED
      BY <1>1, <2>4, <2>5, <2>6 DEF n, m, x
  <1>9. QED
    BY <1>1, <1>7, <1>8

(* The lines of the device after such a step.                              *)
LEMMA LinesAdd ==
  ASSUME DriverInv, loaded, NEW e, NEW v \in Seq(Bytes), Len(v) = e.size,
         c_buffer' = aesd_circular_buffer_add_entry(c_buffer, e), heap'[e.buffptr] = v,
         \A i \in Slots : i # c_buffer.in_offs /\ c_buffer.entry[i].buffptr # NULL =>
            heap'[c_buffer.entry[i].buffptr] = heap[c_buffer.entry[i].buffptr],
         NEW d, d = IF c_buffer.full THEN 1 ELSE 0
  PROVE  LET n == EntryCount(c_buffer)
         IN  /\ n \in 0 .. MAX /\ d \in 0 .. n
             /\ LineBytes' \in [1 .. (n - d) + 1 -> Seq(Bytes)]
             /\ \A k \in 1 .. n - d : k + d \in 1 .. n /\ LineBytes'[k] = LineBytes[k + d]
             /\ LineBytes'[(n - d) + 1] = v
  <1> DEFINE b == c_buffer
             c == aesd_circular_buffer_add_entry(b, e)
             n == EntryCount(b)
             m == EntryCount(c)
  <1>1. Ring(b)
    BY DEF DriverInv
  <1>2. /\ n \in 0 .. MAX /\ d \in 0 .. n /\ m = (n - d) + 1 /\ m \in 1 .. MAX
        /\ c.entry[CommandSlot(c, m - 1)] = e
        /\ \A k \in 1 .. n - d :
              /\ (k + d) - 1 \in Slots /\ CommandSlot(b, (k + d) - 1) \in Slots
              /\ CommandSlot(b, (k + d) - 1) # b.in_offs
              /\ c.entry[CommandSlot(c, k - 1)] = b.entry[CommandSlot(b, (k + d) - 1)]
    <2> HIDE DEF c
    <2>1. c = aesd_circular_buffer_add_entry(b, e)
      BY DEF c
    <2>2. QED
      BY <1>1, <2>1, SlotsAdd
  <1>3. c_buffer' = c
    OBVIOUS
  <1>4. LineBytes' = [k \in 1 .. m |-> SubSeq(heap'[c.entry[CommandSlot(c, k - 1)].buffptr], 1,
                                              c.entry[CommandSlot(c, k - 1)].size)]
    <2> HIDE DEF c
    <2>1. QED
      BY <1>3 DEF LineBytes, Stored, Window
  <1> HIDE DEF c, m, n
  <1>5. ASSUME NEW k \in 1 .. n - d
        PROVE  k + d \in 1 .. n /\ LineBytes'[k] = LineBytes[k + d] /\ LineBytes[k + d] \in Seq(Bytes)
    <2> DEFINE y == CommandSlot(b, (k + d) - 1)
               f == b.entry[y]
    <2>1. k + d \in 1 .. n /\ k \in 1 .. m /\ MAX \in Nat
      BY <1>2, MAXAssumption
    <2>2. y \in Slots /\ y # b.in_offs /\ c.entry[CommandSlot(c, k - 1)] = f
      BY <1>2
    <2>3. Occupied(f) /\ LineBytes[k + d] = heap[f.buffptr] /\ Line(LineBytes[k + d], f.size)
      BY <2>1, LineOf DEF n
    <2>4. heap'[f.buffptr] = heap[f.buffptr]
      <3> HIDE DEF y
      <3>1. QED
        BY <2>2, <2>3 DEF Occupied
    <2>5. LineBytes'[k] = SubSeq(heap[f.buffptr], 1, f.size)
      <3> HIDE DEF f
      <3>1. QED
        BY <1>4, <2>1, <2>2, <2>4
    <2>6. LineBytes[k + d] \in Seq(Bytes) /\ Len(LineBytes[k + d]) = f.size
      BY <2>3 DEF Line
    <2> HIDE DEF f
    <2>7. SubSeq(LineBytes[k + d], 1, f.size) = LineBytes[k + d]
      BY <2>6, SubSeqFull
    <2>8. QED
      BY <2>1, <2>3, <2>5, <2>6, <2>7
  <1>6. LineBytes'[m] = v
    <2>1. m \in 1 .. m
      BY <1>2
    <2>2. LineBytes'[m] = SubSeq(v, 1, e.size)
      BY <1>2, <1>4, <2>1
    <2>3. QED
      BY <2>2, SubSeqFull
  <1>7. LineBytes' \in [1 .. m -> Seq(Bytes)]
    <2>1. \A k \in 1 .. m : k \in 1 .. n - d \/ k = m
      BY <1>2
    <2>2. \A k \in 1 .. m : LineBytes'[k] \in Seq(Bytes)
      BY <1>5, <1>6, <2>1
    <2>3. LineBytes' = [k \in 1 .. m |-> LineBytes'[k]]
      BY <1>4
    <2>4. QED
      BY <2>2, <2>3
  <1>8. QED
    BY <1>2, <1>5, <1>6, <1>7 DEF n

-----------------------------------------------------------------------------
(* Lines q and a rest P, laid out in C; d lines go, and P with t behind it *)
(* becomes a line: the lines r.                                            *)
Layout(C, L, n, q, P) ==
  /\ n \in Nat /\ q \in [1 .. n -> Seq(Bytes)] /\ CountsUp(L, n, q)
  /\ C \in Seq(Bytes) /\ P \in Seq(Bytes) /\ Len(C) = L[n] + Len(P)
  /\ \A k \in 1 .. n : \A o \in 1 .. Len(q[k]) : C[L[k - 1] + o] = q[k][o]
  /\ \A o \in 1 .. Len(P) : C[L[n] + o] = P[o]

Shifted(r, q, n, d, P, t) ==
  /\ t \in Seq(Bytes) /\ r \in [1 .. (n - d) + 1 -> Seq(Bytes)]
  /\ \A k \in 1 .. n - d : r[k] = q[k + d]
  /\ r[(n - d) + 1] = P \o t

CutBehind(r, C, t, m) == m \in 0 .. Len(C) /\ FlattenSeq(r) = Drop(C \o t, m)

LEMMA LayoutShift ==
  ASSUME NEW n, NEW d \in 0 .. n, NEW q, NEW L, NEW C, NEW P, Layout(C, L, n, q, P),
         NEW t \in Seq(Bytes), NEW r \in [1 .. (n - d) + 1 -> Seq(Bytes)],
         \A k \in 1 .. n - d : r[k] = q[k + d],
         r[(n - d) + 1] = P \o t
  PROVE  CutBehind(r, C, t, L[d])
  <1> DEFINE m == (n - d) + 1
             v == P \o t
             U == C \o t
             X == Drop(U, L[d])
             a == L[d]
             z == L[n]
             c == Len(C)
             p == Len(P)
             l == Len(t)
             K == [k \in 0 .. m |-> IF k < m THEN L[k + d] - a ELSE (z - a) + (p + l)]
             F == FlattenSeq(r)
  <1>1. /\ n \in Nat /\ d \in Nat /\ m \in Nat \ {0} /\ d <= n /\ m = (n - d) + 1
        /\ C \in Seq(Bytes) /\ P \in Seq(Bytes)
        /\ Len(C) \in Nat /\ Len(P) \in Nat /\ Len(t) \in Nat /\ Len(C) = L[n] + Len(P)
        /\ \A k \in 1 .. n : Len(q[k]) \in Nat
    <2>1. n \in Nat /\ C \in Seq(Bytes) /\ P \in Seq(Bytes) /\ Len(C) = L[n] + Len(P)
          /\ q \in [1 .. n -> Seq(Bytes)]
      BY DEF Layout
    <2>2. \A k \in 1 .. n : Len(q[k]) \in Nat
      BY <2>1, LenProperties
    <2>3. QED
      BY <2>1, <2>2, LenProperties
  <1>2. /\ L[0] = 0 /\ \A k \in 0 .. n : L[k] \in Nat
        /\ \A k \in 1 .. n : L[k] = L[k - 1] + Len(q[k])
        /\ \A i, j \in 0 .. n : i <= j => L[i] <= L[j]
    BY DEF Layout, CountsUp, Length
  <1>3. /\ v \in Seq(Bytes) /\ Len(v) = Len(P) + Len(t)
        /\ \A i \in 1 .. Len(P) + Len(t) : v[i] = IF i <= Len(P) THEN P[i] ELSE t[i - Len(P)]
    BY <1>1, ConcatProperties
  <1>4. /\ U \in Seq(Bytes) /\ Len(U) = Len(C) + Len(t)
        /\ \A i \in 1 .. Len(C) + Len(t) : U[i] = IF i <= Len(C) THEN C[i] ELSE t[i - Len(C)]
    BY <1>1, ConcatProperties
  <1> HIDE DEF v, U
  <1>5. /\ a \in Nat /\ z \in Nat /\ c \in Nat /\ p \in Nat /\ l \in Nat
        /\ a <= z /\ c = z + p /\ Len(U) = c + l /\ Len(v) = p + l
    <2>1. d \in 0 .. n /\ n \in 0 .. n
      BY <1>1
    <2>2. L[d] \in Nat /\ L[n] \in Nat /\ L[d] <= L[n]
      BY <1>1, <1>2, <2>1
    <2>3. QED
      BY <1>1, <1>3, <1>4, <2>2
  <1> HIDE DEF a, z, c, p, l
  <1>6. /\ X \in Seq(Bytes) /\ Len(X) = (c + l) - a /\ a \in 0 .. c
        /\ \A i \in 1 .. (c + l) - a : X[i] = U[a + i]
    <2>1. a \in 0 .. Len(U) /\ a \in 0 .. c
      BY <1>5
    <2>2. Drop(U, a) \in Seq(Bytes) /\ Len(Drop(U, a)) = Len(U) - a
          /\ \A i \in 1 .. Len(U) - a : Drop(U, a)[i] = U[a + i]
      BY <1>4, <2>1, DropIs
    <2>3. QED
      BY <1>5, <2>1, <2>2 DEF a
  <1>7. /\ \A k \in 0 .. m - 1 : k + d \in 0 .. n /\ K[k] = L[k + d] - a /\ K[k] \in Nat
        /\ K[m] = (z - a) + (p + l) /\ K[m - 1] = z - a /\ K[m] \in Nat
    <2>1. K[m] = (z - a) + (p + l) /\ (z - a) + (p + l) \in Nat
      BY <1>1, <1>5
    <2>2. ASSUME NEW k \in 0 .. m - 1
          PROVE  k + d \in 0 .. n /\ K[k] = L[k + d] - a /\ K[k] \in Nat
      <3>1. k + d \in 0 .. n /\ k \in 0 .. m /\ k < m /\ d <= k + d /\ d \in 0 .. n
        BY <1>1
      <3>2. K[k] = L[k + d] - a
        BY <3>1
      <3>3. L[k + d] \in Nat /\ a <= L[k + d]
        BY <1>2, <3>1 DEF a
      <3>4. QED
        BY <1>5, <3>1, <3>2, <3>3
    <2>3. m - 1 \in 0 .. m - 1 /\ (m - 1) + d = n
      BY <1>1
    <2>4. K[m - 1] = z - a
      BY <2>2, <2>3 DEF z
    <2> HIDE DEF K, m
    <2>5. QED
      BY <2>1, <2>2, <2>4
  <1>8. \A k \in 1 .. m : k \in 1 .. n - d \/ k = m
    BY <1>1
  <1> HIDE DEF K, m, F, X
  <1>9. ASSUME NEW k \in 1 .. m PROVE K[k] = K[k - 1] + Len(r[k])
    <2>1. CASE k \in 1 .. n - d
      <3>1. k \in 0 .. m - 1 /\ k - 1 \in 0 .. m - 1 /\ (k - 1) + d = (k + d) - 1 /\ k + d \in 1 .. n
        BY <1>1, <2>1
      <3>2. K[k] = L[k + d] - a /\ K[k - 1] = L[(k + d) - 1] - a /\ (k + d) - 1 \in 0 .. n
        BY <1>7, <3>1
      <3>3. L[k + d] = L[(k + d) - 1] + Len(q[k + d]) /\ r[k] = q[k + d]
        BY <1>2, <2>1, <3>1
      <3>4. L[(k + d) - 1] \in Nat /\ Len(q[k + d]) \in Nat
        BY <1>1, <1>2, <3>1, <3>2
      <3>5. QED
        BY <1>5, <3>2, <3>3, <3>4
    <2>2. CASE k = m
      <3>1. r[k] = v
        BY <2>2 DEF v, m
      <3>2. Len(r[k]) = p + l
        BY <1>5, <3>1
      <3>3. QED
        BY <1>7, <2>2, <3>2
    <2>3. QED
      BY <1>8, <2>1, <2>2
  <1>10. \A k \in 0 .. m : K[k] \in Nat
    <2>1. \A k \in 0 .. m : k \in 0 .. m - 1 \/ k = m
      BY <1>1
    <2>2. QED
      BY <1>7, <2>1
  <1>11. K[0] = 0
    <2>1. 0 \in 0 .. m - 1 /\ 0 + d = d
      BY <1>1
    <2>2. K[0] = a - a
      BY <1>7, <2>1 DEF a
    <2>3. QED
      BY <1>5, <2>2
  <1>12. \A i, j \in 0 .. m : i <= j => K[i] <= K[j]
    <2> SUFFICES ASSUME NEW i \in 0 .. m, NEW j \in 0 .. m, i <= j PROVE K[i] <= K[j]
      OBVIOUS
    <2>1. CASE j # m
      <3>1. i \in 0 .. m - 1 /\ j \in 0 .. m - 1 /\ i + d <= j + d
        BY <1>1, <2>1
      <3>2. /\ i + d \in 0 .. n /\ j + d \in 0 .. n
            /\ K[i] = L[i + d] - a /\ K[j] = L[j + d] - a
        BY <1>7, <3>1
      <3>3. L[i + d] <= L[j + d] /\ L[i + d] \in Nat /\ L[j + d] \in Nat
        BY <1>2, <3>1, <3>2
      <3>4. QED
        BY <1>5, <3>2, <3>3
    <2>2. CASE j = m /\ i # m
      <3>1. i \in 0 .. m - 1 /\ n \in 0 .. n
        BY <1>1, <2>2
      <3>2. i + d \in 0 .. n /\ K[i] = L[i + d] - a /\ i + d <= n
        BY <1>1, <1>7, <3>1
      <3>3. L[i + d] <= z /\ L[i + d] \in Nat
        BY <1>2, <3>1, <3>2 DEF z
      <3>4. K[j] = (z - a) + (p + l)
        BY <1>7, <2>2
      <3>5. QED
        BY <1>5, <3>2, <3>3, <3>4
    <2>3. CASE j = m /\ i = m
      BY <1>7, <2>3
    <2>4. QED
      BY <2>1, <2>2, <2>3
  <1>13. CountsUp(K, m, r)
    BY <1>9, <1>10, <1>11, <1>12 DEF CountsUp, Length
  <1>14. r \in [1 .. m -> Seq(Bytes)]
    BY DEF m
  <1>15. /\ F \in Seq(Bytes) /\ Len(F) = K[m]
         /\ \A k \in 1 .. m : \A o \in 1 .. Len(r[k]) : F[K[k - 1] + o] = r[k][o]
    <2>1. m \in Nat
      BY <1>1
    <2>2. FlattenSeq(r) \in Seq(Bytes) /\ Len(FlattenSeq(r)) = K[m]
      BY <1>13, <1>14, <2>1, FlattenLies
    <2>3. \A k \in 1 .. m : \A o \in 1 .. Len(r[k]) : FlattenSeq(r)[K[k - 1] + o] = r[k][o]
      <3>1. Concatenates(FlattenSeq(r), m, r, K)
        BY <1>1, <1>13, <1>14, FlattenIs
      <3>2. QED
        BY <3>1 DEF Concatenates, Length
    <2>4. QED
      BY <2>2, <2>3 DEF F
  <1>16. Len(X) = K[m] /\ Len(F) = K[m] /\ a + K[m] = c + l
    BY <1>5, <1>6, <1>7, <1>15
  <1>17. ASSUME NEW k \in 1 .. m, NEW o \in 1 .. Len(r[k])
         PROVE  X[K[k - 1] + o] = r[k][o]
    <2> DEFINE y == L[(k - 1) + d]
               g == K[k - 1]
               w == Len(r[k])
               h == K[m]
    <2>1. (k - 1) + d \in 0 .. n /\ g = y - a /\ y \in Nat /\ g \in Nat
      <3>1. k - 1 \in 0 .. m - 1
        BY <1>1
      <3>2. QED
        BY <1>2, <1>7, <3>1
    <2>2. g + w <= h /\ w \in Nat /\ h \in Nat
      <3>1. k \in 0 .. m /\ m \in 0 .. m /\ k <= m
        BY <1>1
      <3>2. K[k] <= K[m] /\ K[k] = K[k - 1] + Len(r[k])
        BY <1>9, <1>12, <3>1
      <3>3. QED
        BY <1>7, <1>14, <3>2, LenProperties
    <2>3. o \in 1 .. w /\ h = (c + l) - a /\ a + h = c + l
      BY <1>5, <1>6, <1>16
    <2> HIDE DEF y, g, w, h
    <2>4. g + o \in 1 .. h /\ a + (g + o) = y + o /\ y + o \in 1 .. c + l
      BY <1>5, <2>1, <2>2, <2>3
    <2>5. X[g + o] = U[y + o]
      <3> DEFINE i == g + o
      <3>1. i \in 1 .. (c + l) - a
        BY <2>3, <2>4
      <3> HIDE DEF i
      <3>2. X[i] = U[a + i]
        BY <1>6, <3>1
      <3>3. QED
        BY <2>4, <3>2 DEF i
    <2>6. U[y + o] = IF y + o <= c THEN C[y + o] ELSE t[(y + o) - c]
      BY <1>4, <2>4 DEF c, l
    <2>7. CASE k \in 1 .. n - d
      <3>1. k + d \in 1 .. n /\ (k - 1) + d = (k + d) - 1 /\ k + d \in 0 .. n /\ n \in 0 .. n
            /\ k + d <= n
        BY <1>1, <2>7
      <3>2. r[k] = q[k + d]
        BY <2>7
      <3>3. C[y + o] = q[k + d][o]
        BY <3>1, <3>2 DEF Layout, y
      <3>4. y + o <= c
        <4>1. L[k + d] = y + w /\ L[k + d] <= z
          BY <1>2, <3>1, <3>2 DEF y, w, z
        <4>2. QED
          BY <1>5, <2>1, <2>2, <2>3, <4>1
      <3>5. QED
        BY <2>5, <2>6, <3>2, <3>3, <3>4 DEF g
    <2>8. CASE k = m
      <3>1. (k - 1) + d = n /\ r[k] = v
        BY <1>1, <2>8 DEF v, m
      <3>2. y = z /\ o \in 1 .. p + l
        BY <1>5, <3>1 DEF y, z
      <3>3. v[o] = IF o <= p THEN P[o] ELSE t[o - p]
        BY <1>3, <3>2 DEF p, l
      <3>4. CASE o <= p
        <4>1. y + o <= c /\ o \in 1 .. p
          BY <1>5, <3>2, <3>4
        <4>2. C[y + o] = P[o]
          BY <3>1, <4>1 DEF Layout, y, p
        <4>3. QED
          BY <2>5, <2>6, <3>1, <3>3, <3>4, <4>1, <4>2 DEF g
      <3>5. CASE ~(o <= p)
        <4>1. ~(y + o <= c) /\ (y + o) - c = o - p
          BY <1>5, <3>2, <3>5
        <4>2. QED
          BY <2>5, <2>6, <3>1, <3>3, <3>5, <4>1 DEF g
      <3>6. QED
        BY <3>4, <3>5
    <2>9. QED
      BY <1>8, <2>7, <2>8
  <1>18. ASSUME NEW i \in 1 .. Len(F) PROVE F[i] = X[i]
    <2>1. i \in Nat \ {0} /\ i <= K[m] /\ m \in Nat
      BY <1>1, <1>7, <1>16
    <2>2. PICK k \in 1 .. m : K[k - 1] < i /\ i <= K[k]
      BY <1>10, <1>11, <2>1, Located
    <2>3. K[k] = K[k - 1] + Len(r[k]) /\ K[k - 1] \in Nat /\ Len(r[k]) \in Nat
      <3>1. k - 1 \in 0 .. m
        BY <1>1
      <3>2. QED
        BY <1>9, <1>10, <1>14, <3>1, LenProperties
    <2> DEFINE o == i - K[k - 1]
    <2>4. o \in 1 .. Len(r[k]) /\ K[k - 1] + o = i
      BY <2>1, <2>2, <2>3
    <2> HIDE DEF o
    <2>5. F[K[k - 1] + o] = r[k][o] /\ X[K[k - 1] + o] = r[k][o]
      BY <1>15, <1>17, <2>4
    <2>6. QED
      BY <2>4, <2>5
  <1>19. F = X
    BY <1>6, <1>15, <1>16, <1>18, SeqEqual
  <1>20. QED
    BY <1>6, <1>19 DEF F, X, U, a, c, CutBehind

LEMMA LayoutNext ==
  ASSUME NEW n, NEW d, NEW q, NEW L, NEW C, NEW P, NEW t, NEW r,
         Layout(C, L, n, q, P) /\ d \in 0 .. n /\ Shifted(r, q, n, d, P, t)
  PROVE  CutBehind(r, C, t, L[d])
  <1>1. /\ d \in 0 .. n /\ t \in Seq(Bytes) /\ r \in [1 .. (n - d) + 1 -> Seq(Bytes)]
        /\ \A k \in 1 .. n - d : r[k] = q[k + d]
        /\ r[(n - d) + 1] = P \o t
    BY DEF Shifted
  <1>2. QED
    BY <1>1, LayoutShift, Zenon

-----------------------------------------------------------------------------
(* When a line is added to a full ring, the oldest line is one that the    *)
(* log no longer keeps.                                                    *)
LEMMA OldestGoes ==
  ASSUME DriverInv, loaded, c_buffer.full, NEW L, Laid(L, EntryCount(c_buffer)),
         NEW t \in Seq(Bytes), NEW l, l = Len(t), l # 0, t[l] = NL
  PROVE  L[1] \in Old(Contents \o t)
  <1> DEFINE C == Contents
             U == C \o t
             c == Len(C)
             a == L[1]
             A == After(C, a)
             B == After(U, a)
  <1>1. EntryCount(c_buffer) = MAX /\ MAX \in Nat /\ 1 \in 0 .. MAX /\ 1 \in 1 .. MAX
    BY MAXAssumption DEF EntryCount
  <1>2. C \in Seq(Bytes) /\ c \in Nat /\ l \in Nat
    BY ContentsType, LenProperties
  <1>3. Ends(C) = {L[k] : k \in 1 .. MAX}
    BY <1>1, ContentsEnds
  <1>4. Cardinality(Ends(C)) = MAX
    BY <1>1, LineCounts, Zenon
  <1>5. Cardinality(Ends(C) \ A) = 1
    BY <1>1, LineCounts, Zenon
  <1>6. /\ U \in Seq(Bytes) /\ Len(U) = c + l
        /\ \A i \in 1 .. c + l : U[i] = IF i <= c THEN C[i] ELSE t[i - c]
    BY <1>2, ConcatProperties
  <1> HIDE DEF C, U, c, a
  <1>7. /\ Ends(C) = {i \in 1 .. c : C[i] = NL} /\ IsFiniteSet(Ends(C))
        /\ A = {e \in Ends(C) : e > a} /\ Cardinality(A) \in Nat /\ IsFiniteSet(A)
        /\ A \in SUBSET (1 .. c)
    BY <1>2, EndsAre DEF c
  <1>8. /\ Ends(U) = {i \in 1 .. c + l : U[i] = NL}
        /\ B = {e \in Ends(U) : e > a} /\ IsFiniteSet(B) /\ Cardinality(B) \in Nat
    BY <1>6, EndsAre
  <1>9. a \in Ends(C)
    BY <1>1, <1>3 DEF a
  <1>10. Ends(C) \subseteq Ends(U)
    BY <1>2, <1>6, <1>7, <1>8
  <1>11. c + l \in Ends(U)
    <2>1. c + l \in 1 .. c + l /\ ~(c + l <= c) /\ (c + l) - c = l
      BY <1>2
    <2>2. QED
      BY <1>6, <1>8, <2>1
  <1>12. c + l \in B /\ c + l \notin A
    BY <1>2, <1>7, <1>8, <1>9, <1>11
  <1> HIDE DEF A, B
  <1>13. A \cup {c + l} \in SUBSET B
    BY <1>7, <1>8, <1>10, <1>12
  <1>14. Cardinality(A) = MAX - 1
    <2>1. Ends(C) \cap A = A
      BY <1>7
    <2>2. Cardinality(Ends(C) \ A) = Cardinality(Ends(C)) - Cardinality(Ends(C) \cap A)
      BY <1>7, FS_Difference
    <2>3. 1 = MAX - Cardinality(A)
      BY <1>4, <1>5, <2>1, <2>2
    <2>4. Cardinality(A) \in Nat
      BY <1>7
    <2>5. QED
      BY <1>1, <2>3, <2>4
  <1>15. Cardinality(A \cup {c + l}) = Cardinality(A) + 1
    BY <1>7, <1>12, FS_AddElement
  <1>16. Cardinality(A \cup {c + l}) <= Cardinality(B)
    BY <1>8, <1>13, FS_Subset
  <1>17. Cardinality(B) >= MAX
    BY <1>1, <1>8, <1>14, <1>15, <1>16
  <1>18. QED
    BY <1>9, <1>10, <1>17 DEF Old, B, U, C, a

(* The device after a line was added: the bytes t behind its old contents, *)
(* less lines that the log does not keep either.                           *)
LEMMA LineAdded ==
  ASSUME DriverInv, loaded, NEW t \in Seq(Bytes), NEW l, l = Len(t), l # 0, t[l] = NL,
         NEW e, e.size = Len(PartialBytes \o t),
         c_buffer' = aesd_circular_buffer_add_entry(c_buffer, e),
         heap'[e.buffptr] = PartialBytes \o t, partial_buffer' = NoEntry,
         \A i \in Slots : i # c_buffer.in_offs /\ c_buffer.entry[i].buffptr # NULL =>
            heap'[c_buffer.entry[i].buffptr] = heap[c_buffer.entry[i].buffptr]
  PROVE  Contents \o t \in Seq(Bytes)
         /\ \E m \in Old(Contents \o t) \cup {0} : Contents' = Drop(Contents \o t, m)
  <1> DEFINE C == Contents
             P == PartialBytes
             q == LineBytes
             n == EntryCount(c_buffer)
             d == IF c_buffer.full THEN 1 ELSE 0
             v == P \o t
  <1>0. PICK r : r = LineBytes'
    OBVIOUS
  <1>1. C \in Seq(Bytes) /\ P \in Seq(Bytes) /\ v \in Seq(Bytes) /\ C \o t \in Seq(Bytes)
    <2>1. C \in Seq(Bytes) /\ P \in Seq(Bytes)
      BY ContentsType, PartialBytesAre
    <2>2. QED
      BY <2>1, ConcatProperties
  <1>2. PICK L : Offsets(c_buffer, L)
    BY OffsetsExist DEF DriverInv
  <1>3. Laid(L, n) /\ CountsUp(L, n, q)
    BY <1>2, LinesLie
  <1>4. /\ n \in 0 .. MAX /\ d \in 0 .. n /\ r \in [1 .. (n - d) + 1 -> Seq(Bytes)]
        /\ \A k \in 1 .. n - d : r[k] = q[k + d]
        /\ r[(n - d) + 1] = v
    <2> HIDE DEF d
    <2>1. d = IF c_buffer.full THEN 1 ELSE 0
      BY DEF d
    <2> HIDE DEF v
    <2>2. v \in Seq(Bytes) /\ Len(v) = e.size /\ heap'[e.buffptr] = v
      BY <1>1 DEF v
    <2>3. QED
      BY <1>0, <2>1, <2>2, LinesAdd, ZenonT(40)
  <1>5. n \in Nat /\ q \in [1 .. n -> Seq(Bytes)]
    BY LineBytesAre
  <1>6. Layout(C, L, n, q, P)
    <2> HIDE DEF C, P, q, n
    <2>1. QED
      BY <1>1, <1>3, <1>5 DEF Layout, Laid, C, P, q
  <1>7. FlattenSeq(r) = Drop(C \o t, L[d]) /\ L[d] \in 0 .. Len(C)
    <2> HIDE DEF C, P, q, n, d
    <2>1. Shifted(r, q, n, d, P, t)
      BY <1>4 DEF Shifted, v
    <2>2. Layout(C, L, n, q, P) /\ d \in 0 .. n /\ Shifted(r, q, n, d, P, t)
      BY <1>4, <1>6, <2>1
    <2>3. CutBehind(r, C, t, L[d])
      BY <2>2, LayoutNext, Zenon
    <2>4. QED
      BY <2>3, Zenon DEF CutBehind
  <1>8. L[d] \in Old(C \o t) \cup {0}
    <2>1. CASE c_buffer.full
      BY <1>3, <2>1, OldestGoes
    <2>2. CASE ~c_buffer.full
      BY <1>2, <2>2 DEF Offsets
    <2>3. QED
      BY <2>1, <2>2
  <1>9. PartialBytes' = << >>
    BY DEF PartialBytes, NoEntry
  <1>10. Drop(C \o t, L[d]) \in Seq(Bytes)
    <2>1. L[d] \in 0 .. Len(C \o t)
      BY <1>1, <1>7, ConcatProperties, LenProperties
    <2> HIDE DEF C, d
    <2>2. QED
      BY <1>1, <2>1, DropIs
  <1>11. Contents' = Drop(C \o t, L[d])
    <2>1. Contents' = FlattenSeq(r) \o << >>
      BY <1>0, <1>9 DEF Contents
    <2> HIDE DEF C, d
    <2>2. QED
      BY <1>7, <1>10, <2>1, ConcatEmptySeq
  <1>12. QED
    BY <1>1, <1>8, <1>11

-----------------------------------------------------------------------------
(* The lines, and all of the contents, while their bytes stay.             *)
LEMMA LinesStay ==
  ASSUME DriverInv, loaded, c_buffer' = c_buffer,
         \A i \in Slots : c_buffer.entry[i].buffptr # NULL =>
            heap'[c_buffer.entry[i].buffptr] = heap[c_buffer.entry[i].buffptr]
  PROVE  LineBytes' = LineBytes
  <1> DEFINE n == EntryCount(c_buffer)
  <1>1. LineBytes = [k \in 1 .. n |-> LineBytes[k]]
    BY DEF LineBytes
  <1>2. LineBytes' = [k \in 1 .. n |-> LineBytes'[k]]
    BY DEF LineBytes
  <1>3. ASSUME NEW k \in 1 .. n PROVE LineBytes'[k] = LineBytes[k]
    <2> DEFINE e == c_buffer.entry[CommandSlot(c_buffer, k - 1)]
    <2>1. CommandSlot(c_buffer, k - 1) \in Slots /\ e.buffptr # NULL
      BY LineOf DEF Occupied
    <2>2. heap'[e.buffptr] = heap[e.buffptr]
      BY <2>1
    <2>3. LineBytes[k] = SubSeq(heap[e.buffptr], 1, e.size)
      BY DEF LineBytes, Window, Stored
    <2>4. LineBytes'[k] = SubSeq(heap'[e.buffptr], 1, e.size)
      BY DEF LineBytes, Window, Stored
    <2> HIDE DEF e
    <2>5. QED
      BY <2>2, <2>3, <2>4
  <1> HIDE DEF n
  <1>4. QED
    BY <1>1, <1>2, <1>3

LEMMA ContentsStay ==
  ASSUME DriverInv, loaded, c_buffer' = c_buffer,
         \A i \in Slots : c_buffer.entry[i].buffptr # NULL =>
            heap'[c_buffer.entry[i].buffptr] = heap[c_buffer.entry[i].buffptr],
         partial_buffer'.size = partial_buffer.size,
         partial_buffer.size # 0 =>
            /\ partial_buffer' = partial_buffer
            /\ heap'[partial_buffer.buffptr] = heap[partial_buffer.buffptr]
  PROVE  Contents' = Contents
  <1>1. LineBytes' = LineBytes
    BY LinesStay
  <1>2. PartialBytes' = PartialBytes
    BY DEF PartialBytes, Stored
  <1>3. QED
    BY <1>1, <1>2 DEF Contents

LEMMA ContentsSame ==
  ASSUME UNCHANGED dev
  PROVE  Contents' = Contents
  <1>1. c_buffer' = c_buffer /\ partial_buffer' = partial_buffer /\ heap' = heap
    BY DEF dev
  <1>2. LineBytes' = LineBytes
    BY <1>1 DEF LineBytes, Stored
  <1>3. PartialBytes' = PartialBytes
    BY <1>1 DEF PartialBytes, Stored
  <1>4. QED
    BY <1>2, <1>3 DEF Contents

(* The writer's own blocks are none of these.                              *)
LEMMA CopyStaged ==
  ASSUME DriverInv, loaded, NEW a \in Addrs, heap[a] = Free, NEW v,
         heap' = [heap EXCEPT ![a] = v], UNCHANGED <<c_buffer, partial_buffer>>
  PROVE  Contents' = Contents
  <1>1. \A b : InUse(b) => heap'[b] = heap[b]
    BY DEF InUse, DriverInv, TypeOK
  <1>2. \A i \in Slots : c_buffer.entry[i].buffptr # NULL =>
           heap'[c_buffer.entry[i].buffptr] = heap[c_buffer.entry[i].buffptr]
    BY <1>1, OldPointers
  <1>3. partial_buffer.size # 0 => heap'[partial_buffer.buffptr] = heap[partial_buffer.buffptr]
    BY <1>1, OldPointers, PartialBytesAre
  <1>4. QED
    BY <1>2, <1>3, ContentsStay

LEMMA CopyFreed ==
  ASSUME DriverInv, NEW p \in Procs, pc[p] = "lines",
         heap' = kfree({allocated_memory[p]}, heap), c_buffer' = c_buffer,
         partial_buffer'.size = partial_buffer.size,
         partial_buffer.size # 0 => partial_buffer' = partial_buffer
  PROVE  Contents' = Contents
  <1> DEFINE m == allocated_memory[p]
  <1>1. loaded /\ m # NULL
    BY InCallIs DEF DriverInv, InCall
  <1>2. /\ m # partial_buffer.buffptr
        /\ \A i \in Slots : m # c_buffer.entry[i].buffptr
    BY <1>1 DEF DriverInv, Memory, Distinct
  <1> HIDE DEF m
  <1>3. \A b : InUse(b) /\ b # m => heap'[b] = heap[b]
    BY DEF InUse, kfree, m
  <1>4. \A i \in Slots : c_buffer.entry[i].buffptr # NULL =>
           heap'[c_buffer.entry[i].buffptr] = heap[c_buffer.entry[i].buffptr]
    BY <1>1, <1>2, <1>3, OldPointers
  <1>5. partial_buffer.size # 0 => heap'[partial_buffer.buffptr] = heap[partial_buffer.buffptr]
    BY <1>1, <1>2, <1>3, OldPointers, PartialBytesAre
  <1>6. QED
    BY <1>1, <1>4, <1>5, ContentsStay

(* aesd_write after its loop: the bytes behind the last line end.          *)
LEMMA TailJoined ==
  ASSUME DriverInv, NEW p \in Procs, pc[p] = "lines", start[p] < Len(call[p].buf),
         NEW a \in Addrs, heap[a] = Free, c_buffer' = c_buffer,
         heap' = [kfree(OldPartial \cup {allocated_memory[p]}, heap)
                    EXCEPT ![a] = Joined(p, Len(call[p].buf) - 1)],
         partial_buffer' = [buffptr |-> a,
                            size |-> partial_buffer.size + Len(call[p].buf) - start[p]]
  PROVE  LET t == SubSeq(call[p].buf, start[p] + 1, Len(call[p].buf))
         IN  /\ Contents \in Seq(Bytes) /\ t \in Seq(Bytes)
             /\ Contents' = Contents \o t
  <1> DEFINE buf == call[p].buf
             c == Len(buf)
             s == start[p]
             m == allocated_memory[p]
             t == SubSeq(buf, s + 1, c)
             v == Joined(p, c - 1)
             P == PartialBytes
             F == FlattenSeq(LineBytes)
             w == partial_buffer.size
  <1>1. loaded /\ m # NULL
    BY InCallIs DEF DriverInv, InCall
  <1>2. buf \in Seq(Bytes) /\ c \in Nat /\ heap[m] = buf /\ s \in Nat /\ s < c
    BY LineEndsAre
  <1>3. /\ P \in Seq(Bytes) /\ Len(P) = partial_buffer.size /\ partial_buffer.size \in Nat
        /\ partial_buffer.size = 0 <=> partial_buffer.buffptr = NULL
    BY <1>1, PartialBytesAre
  <1> HIDE DEF buf, s, m
  <1>4. t \in Seq(Bytes) /\ Len(t) = c - s
    <2> DEFINE l == c - 1
    <2>0. l = c - 1 /\ c \in Nat /\ s \in Nat /\ s < c
      BY <1>2
    <2> HIDE DEF l, c
    <2>1. l \in Nat /\ s <= l /\ l < c /\ l + 1 = c /\ (l - s) + 1 = c - s
      BY <2>0
    <2>2. SubSeq(buf, s + 1, l + 1) \in Seq(Bytes) /\ Len(SubSeq(buf, s + 1, l + 1)) = (l - s) + 1
      BY <1>2, <2>1, SliceIs DEF c
    <2>3. QED
      BY <2>1, <2>2
  <1>5. v = P \o t
    <2>1. (c - 1) + 1 = c
      BY <1>2
    <2>2. v = P \o SubSeq(buf, s + 1, (c - 1) + 1)
      BY <1>2 DEF Joined, s, m, buf
    <2> HIDE DEF v, P, c
    <2>3. QED
      BY <2>1, <2>2
  <1> HIDE DEF v, t, P, c, w
  <1>6. v \in Seq(Bytes) /\ Len(v) = Len(P) + Len(t)
    BY <1>3, <1>4, <1>5, ConcatProperties
  <1>7. PartialBytes' = v
    <2>1. heap'[a] = v
      BY DEF kfree, v, c, buf
    <2>0. partial_buffer'.buffptr = a /\ partial_buffer'.size = w + (c - s)
      BY DEF w, c, s, buf
    <2>2. partial_buffer'.buffptr = a /\ partial_buffer'.size = Len(v) /\ Len(v) # 0
      <3>1. w \in Nat /\ Len(v) = w + (c - s) /\ c \in Nat /\ s \in Nat /\ s < c
        BY <1>2, <1>3, <1>4, <1>6 DEF w
      <3>2. QED
        BY <2>0, <3>1
    <2>3. PartialBytes' = SubSeq(v, 1, Len(v))
      BY <2>1, <2>2 DEF PartialBytes, Stored
    <2>4. QED
      BY <1>6, <2>3, SubSeqFull
  <1>8. LineBytes' = LineBytes
    <2>1. /\ \A i \in Slots : m # c_buffer.entry[i].buffptr
          /\ \A i \in Slots : c_buffer.entry[i].buffptr # NULL =>
                c_buffer.entry[i].buffptr # partial_buffer.buffptr
      BY <1>1 DEF DriverInv, Memory, Distinct, m
    <2>2. \A b : InUse(b) /\ b # m /\ b # partial_buffer.buffptr => heap'[b] = heap[b]
      BY DEF InUse, kfree, OldPartial, m
    <2>3. \A i \in Slots : c_buffer.entry[i].buffptr # NULL =>
             heap'[c_buffer.entry[i].buffptr] = heap[c_buffer.entry[i].buffptr]
      BY <1>1, <2>1, <2>2, OldPointers
    <2>4. QED
      BY <1>1, <2>3, LinesStay
  <1>9. Contents' = F \o (P \o t)
    BY <1>5, <1>7, <1>8 DEF Contents
  <1>10. F \in Seq(Bytes)
    BY <1>1, LineBytesAre, FlattenType
  <1>11. F \o (P \o t) = (F \o P) \o t
    <2> HIDE DEF F
    <2>1. QED
      BY <1>3, <1>4, <1>10, ConcatAssociative
  <1>12. Contents \in Seq(Bytes) /\ Contents = F \o P
    BY <1>1, ContentsType DEF Contents, P
  <1> HIDE DEF F
  <1>13. QED
    BY <1>4, <1>9, <1>11, <1>12 DEF t, c, s, buf

(* and inside the loop: one line more.                                     *)
LEMMA LineJoined ==
  ASSUME DriverInv, NEW p \in Procs, pc[p] = "lines", LineEnds(p) # {},
         NEW a \in Addrs, heap[a] = Free, NEW end, end = Min(LineEnds(p)),
         NEW gone,
         gone = OldPartial \cup (IF overwritten_entry(c_buffer) = NULL THEN {}
                                 ELSE {overwritten_entry(c_buffer).buffptr}),
         heap' = [kfree(gone, heap) EXCEPT ![a] = Joined(p, end)],
         c_buffer' = aesd_circular_buffer_add_entry(c_buffer,
            [buffptr |-> a, size |-> partial_buffer.size + end - start[p] + 1]),
         partial_buffer' = NoEntry
  PROVE  LET t == SubSeq(call[p].buf, start[p] + 1, end + 1)
             U == Contents \o t
         IN  /\ Contents \in Seq(Bytes) /\ t \in Seq(Bytes) /\ U \in Seq(Bytes)
             /\ \E m \in Old(U) \cup {0} : Contents' = Drop(U, m)
  <1> DEFINE buf == call[p].buf
             s == start[p]
             t == SubSeq(buf, s + 1, end + 1)
             P == PartialBytes
             z == partial_buffer.size
             n == z + end - s + 1
             e == [buffptr |-> a, size |-> n]
             x == c_buffer.in_offs
             l == Len(t)
  <1>1. loaded
    BY InCallIs
  <1>2. /\ buf \in Seq(Bytes) /\ Len(buf) \in Nat /\ heap[allocated_memory[p]] = buf
        /\ s \in Nat /\ end \in Nat /\ s <= end /\ end < Len(buf) /\ buf[end + 1] = NL
    BY LineEndsAre
  <1>3. P \in Seq(Bytes) /\ Len(P) = z /\ z \in Nat
    BY <1>1, PartialBytesAre
  <1> HIDE DEF buf, s
  <1>4. /\ t \in Seq(Bytes) /\ Len(t) = (end - s) + 1
        /\ \A i \in 1 .. (end - s) + 1 : t[i] = buf[s + i]
    BY <1>2, SliceIs
  <1> HIDE DEF t
  <1>5. l = (end - s) + 1 /\ l \in Nat /\ l # 0 /\ t[l] = NL
    <2>1. /\ (end - s) + 1 \in 1 .. (end - s) + 1 /\ s + ((end - s) + 1) = end + 1
          /\ (end - s) + 1 \in Nat /\ (end - s) + 1 # 0
      BY <1>2
    <2>2. t[(end - s) + 1] = NL
      BY <1>2, <1>4, <2>1
    <2>3. QED
      BY <1>4, <2>1, <2>2
  <1> HIDE DEF l, z
  <1>6. P \o t \in Seq(Bytes) /\ Len(P \o t) = z + l
    BY <1>3, <1>4, ConcatProperties DEF l
  <1>7. n = z + l
    BY <1>2, <1>3, <1>5
  <1> HIDE DEF n
  <1>8. Joined(p, end) = P \o t
    BY <1>2 DEF Joined, t, s
  <1>9. heap'[a] = P \o t
    BY <1>8 DEF kfree
  <1>10. \A b \in gone : b = partial_buffer.buffptr \/ b = c_buffer.entry[x].buffptr
    BY DEF OldPartial, overwritten_entry
  <1>11. x \in Slots
    BY DEF DriverInv, TypeOK
  <1>12. \A i \in Slots : i # x /\ c_buffer.entry[i].buffptr # NULL =>
            heap'[c_buffer.entry[i].buffptr] = heap[c_buffer.entry[i].buffptr]
    <2> HIDE DEF x
    <2>1. \A i \in Slots : c_buffer.entry[i].buffptr # NULL =>
             /\ c_buffer.entry[i].buffptr # partial_buffer.buffptr
             /\ i # x => c_buffer.entry[i].buffptr # c_buffer.entry[x].buffptr
      BY <1>1, <1>11 DEF DriverInv, Memory, Distinct
    <2>2. \A b : InUse(b) /\ b \notin gone => heap'[b] = heap[b]
      BY DEF InUse, kfree
    <2>3. QED
      BY <1>1, <1>10, <2>1, <2>2, OldPointers
  <1>13. e.size = Len(P \o t) /\ e.buffptr = a
    BY <1>6, <1>7
  <1>14. c_buffer' = aesd_circular_buffer_add_entry(c_buffer, e) /\ heap'[e.buffptr] = P \o t
    BY <1>9, <1>13 DEF n, z, s
  <1> HIDE DEF e, x
  <1>15. Contents \o t \in Seq(Bytes)
         /\ \E m \in Old(Contents \o t) \cup {0} : Contents' = Drop(Contents \o t, m)
    BY <1>1, <1>4, <1>5, <1>12, <1>13, <1>14, LineAdded DEF l, P, x
  <1>16. QED
    BY <1>1, <1>4, <1>15, ContentsType DEF t, s, buf

-----------------------------------------------------------------------------
(* A log to which the first s bytes of a buffer were added, and then those *)
(* up to n.                                                                *)
LEMMA PrefixType ==
  ASSUME NEW buf \in Seq(Bytes), NEW n \in Nat, n <= Len(buf)
  PROVE  SubSeq(buf, 1, n) \in Seq(Bytes)
  <1>1. Len(buf) \in Nat /\ \A i \in 1 .. n : i \in 1 .. Len(buf)
    BY LenProperties
  <1>2. \A i \in 1 .. n : buf[i] \in Bytes
    BY <1>1, ElementOfSeq
  <1>3. 1 \in Int /\ n \in Int
    OBVIOUS
  <1>4. QED
    BY <1>2, <1>3, SubSeqProperties

LEMMA JoinThree ==
  \A x, y, z \in Seq(Bytes) : (x \o y) \o z = x \o (y \o z)
  BY ConcatAssociative

LEMMA RecentGrows ==
  ASSUME NEW b \in Seq(Bytes), NEW x \in Seq(Bytes), NEW t \in Seq(Bytes)
  PROVE  AtomicLog!Recent(AtomicLog!Recent(b \o x) \o t) = AtomicLog!Recent(b \o (x \o t))
  <1>1. b \o x \in Seq(Bytes) /\ (b \o x) \o t = b \o (x \o t)
    BY JoinThree, ConcatProperties
  <1>2. AtomicLog!Recent(AtomicLog!Recent(b \o x) \o t) = AtomicLog!Recent((b \o x) \o t)
    BY <1>1, RecentConcat
  <1>3. QED
    BY <1>1, <1>2

Grows(b, buf, s, n, c, t) ==
  /\ b \in Seq(Bytes) /\ buf \in Seq(Bytes) /\ s \in Nat /\ n \in Nat
  /\ s <= n /\ n <= Len(buf) /\ c = AtomicLog!Recent(b \o SubSeq(buf, 1, s))
  /\ t \in Seq(Bytes) /\ t = SubSeq(buf, s + 1, n)

LEMMA LogGrows ==
  ASSUME NEW b, NEW buf, NEW s, NEW n, NEW c, NEW t, Grows(b, buf, s, n, c, t)
  PROVE  AtomicLog!Recent(c \o t) = AtomicLog!Recent(b \o SubSeq(buf, 1, n))
  <1> USE DEF Grows
  <1> DEFINE x == SubSeq(buf, 1, s)
  <1>1. Len(buf) \in Nat /\ s <= Len(buf)
    BY LenProperties
  <1>2. x \in Seq(Bytes)
    BY <1>1, PrefixType
  <1>3. x \o t = SubSeq(buf, 1, n)
    <2>1. /\ 1 \in 1 .. Len(buf) + 1 /\ s \in 1 - 1 .. Len(buf) /\ n \in s .. Len(buf)
      BY <1>1
    <2>2. QED
      BY <2>1, ConcatAdjacentSubSeq
  <1>4. c = AtomicLog!Recent(b \o x)
    OBVIOUS
  <1> HIDE DEF x
  <1>5. AtomicLog!Recent(AtomicLog!Recent(b \o x) \o t) = AtomicLog!Recent(b \o (x \o t))
    BY <1>2, RecentGrows, Zenon
  <1>6. QED
    BY <1>3, <1>4, <1>5, Zenon

-----------------------------------------------------------------------------
(* How far each thread has come, beyond DriverInv: a writer with the lock  *)
(* has added to the device, since it took the lock, its leading lines up   *)
(* to start and nothing else.                                              *)
Writing == {"stage", "lines"}

Progress(p) ==
  /\ pc[p] = "idle" => call[p] = NoCall
  /\ pc[p] # "done" => answer[p] = NoAnswer
  /\ pc[p] \in Writing \cup {"write_lock"} => call[p].buf # << >>
  /\ pc[p] = "stage" => before = Contents
  /\ pc[p] = "lines" =>
       /\ start[p] \in Ends(call[p].buf) \cup {0}
       /\ Contents = AtomicLog!Recent(before \o SubSeq(call[p].buf, 1, start[p]))

AtomInv == \A p \in Procs : Progress(p)

(* The refinement mapping of AtomicLog.                                    *)
LogOf ==
  IF ~loaded THEN << >>
  ELSE IF \E p \in Procs : pc[p] \in Writing THEN before
  ELSE Contents

ThreadReply(p) ==
  IF ~Answered(p) THEN NULL
  ELSE IF call[p].op = "lseek" /\ answer[p].ret # -ERESTARTSYS
    THEN [ret |-> total_size[p], data |-> << >>]
    ELSE answer[p]

ReplyOf == [p \in Procs |-> ThreadReply(p)]

(* A step of the driver: a step of the log, or none.                       *)
Follows == AtomicLog!Next \/ UNCHANGED <<LogOf, call, ReplyOf>>

LEMMA FollowsIs == Follows => [AtomicLog!Next]_(AtomicLog!vars)
  BY DEF Follows, AtomicLog!vars, LogOf, ReplyOf, ThreadReply, Writing

(* The steps of CommandLog under the mapping.                              *)
LEMMA StepInvoke ==
  ASSUME NEW p \in Procs, call[p] = NoCall, NEW c \in Calls, call \in [Procs -> Calls \cup {NoCall}],
         call' = [call EXCEPT ![p] = c], LogOf' = LogOf, ReplyOf' = ReplyOf
  PROVE  Follows
  <1>1. AtomicLog!Begin(p)
    BY DEF AtomicLog!Begin, LogOf, Writing
  <1>2. AtomicLog!Invoke(p)
    BY <1>1 DEF AtomicLog!Invoke, ReplyOf, ThreadReply
  <1>3. QED
    BY <1>2 DEF Follows, AtomicLog!Next

LEMMA StepRefuse ==
  ASSUME NEW p \in Procs, call[p] = NoCall, NEW c \in Calls, call \in [Procs -> Calls \cup {NoCall}],
         call' = [call EXCEPT ![p] = c], LogOf' = LogOf, NEW ret \in {0, -14, -25},
         IF ret = 0 THEN c.op = "write" /\ c.buf = << >> ELSE c.op = "ioctl",
         ReplyOf' = [ReplyOf EXCEPT ![p] = [ret |-> ret, data |-> << >>]]
  PROVE  Follows
  <1>1. AtomicLog!Begin(p)
    BY DEF AtomicLog!Begin, LogOf, Writing
  <1>2. call'[p] = c
    OBVIOUS
  <1>3. AtomicLog!Refuse(p)
    BY <1>1, <1>2 DEF AtomicLog!Refuse, ReplyOf, ThreadReply
  <1>4. QED
    BY <1>3 DEF Follows, AtomicLog!Next

LEMMA StepAccept ==
  ASSUME NEW p \in Procs, call[p].op = "write", ThreadReply(p) = NULL, call' = call,
         ReplyOf' = [ReplyOf EXCEPT ![p] = [ret |-> Len(call[p].buf), data |-> << >>]],
         LogOf' = AtomicLog!Recent(LogOf \o call[p].buf)
  PROVE  Follows
  <1>1. AtomicLog!Pending(p, "write") /\ AtomicLog!Reply(p, Len(call[p].buf), << >>)
    BY DEF AtomicLog!Pending, AtomicLog!Reply, ReplyOf, ThreadReply
  <1>2. AtomicLog!Accept(p)
    BY <1>1 DEF AtomicLog!Accept, LogOf, Writing
  <1>3. QED
    BY <1>2 DEF Follows, AtomicLog!Next

LEMMA StepAcceptLines ==
  ASSUME NEW p \in Procs, call[p].op = "write", ThreadReply(p) = NULL, call' = call,
         ReplyOf' = [ReplyOf EXCEPT ![p] = [ret |-> -12, data |-> << >>]],
         NEW n \in Ends(call[p].buf) \cup {0}, n < Len(call[p].buf),
         LogOf' = AtomicLog!Recent(LogOf \o SubSeq(call[p].buf, 1, n))
  PROVE  Follows
  <1>1. AtomicLog!Pending(p, "write") /\ AtomicLog!Reply(p, -12, << >>)
    BY DEF AtomicLog!Pending, AtomicLog!Reply, ReplyOf, ThreadReply
  <1>2. AtomicLog!AcceptLines(p)
    BY <1>1 DEF AtomicLog!AcceptLines, LogOf, Writing, Ends
  <1>3. QED
    BY <1>2 DEF Follows, AtomicLog!Next

LEMMA StepFetch ==
  ASSUME NEW p \in Procs, call[p].op = "read", ThreadReply(p) = NULL, call' = call,
         NEW bytes, bytes = AtomicLog!BytesAt(LogOf, call[p].pos, call[p].count),
         ReplyOf' = [ReplyOf EXCEPT ![p] = [ret |-> Len(bytes), data |-> bytes]],
         LogOf' = LogOf
  PROVE  Follows
  <1>1. AtomicLog!Pending(p, "read")
    BY DEF AtomicLog!Pending, ThreadReply
  <1>2. AtomicLog!Fetch(p)
    BY <1>1 DEF AtomicLog!Fetch, AtomicLog!Reply, LogOf, Writing, ReplyOf, ThreadReply
  <1>3. QED
    BY <1>2 DEF Follows, AtomicLog!Next

LEMMA StepSize ==
  ASSUME NEW p \in Procs, call[p].op = "lseek", ThreadReply(p) = NULL, call' = call,
         NEW size, size = Len(AtomicLog!Complete(LogOf)),
         ReplyOf' = [ReplyOf EXCEPT ![p] = [ret |-> size, data |-> << >>]],
         LogOf' = LogOf
  PROVE  Follows
  <1>1. AtomicLog!Pending(p, "lseek")
    BY DEF AtomicLog!Pending, ThreadReply
  <1>2. AtomicLog!Size(p)
    BY <1>1 DEF AtomicLog!Size, AtomicLog!Reply, LogOf, Writing, ReplyOf, ThreadReply
  <1>3. QED
    BY <1>2 DEF Follows, AtomicLog!Next

LEMMA StepSeekTo ==
  ASSUME NEW p \in Procs, call[p].op = "ioctl", ThreadReply(p) = NULL, call' = call,
         NEW at, at = AtomicLog!Positions(LogOf, call[p].to.write_cmd, call[p].to.write_cmd_offset),
         NEW ret, ret \in IF at = {} THEN {-22} ELSE at,
         ReplyOf' = [ReplyOf EXCEPT ![p] = [ret |-> ret, data |-> << >>]],
         LogOf' = LogOf
  PROVE  Follows
  <1>1. AtomicLog!Pending(p, "ioctl") /\ AtomicLog!Reply(p, ret, << >>)
    BY DEF AtomicLog!Pending, AtomicLog!Reply, ReplyOf, ThreadReply
  <1>2. AtomicLog!SeekTo(p)
    BY <1>1 DEF AtomicLog!SeekTo, LogOf, Writing
  <1>3. QED
    BY <1>2 DEF Follows, AtomicLog!Next

LEMMA StepInterrupted ==
  ASSUME NEW p \in Procs, call[p].op \in {"read", "write", "lseek", "ioctl"},
         ThreadReply(p) = NULL, call' = call, LogOf' = LogOf,
         ReplyOf' = [ReplyOf EXCEPT ![p] = [ret |-> -512, data |-> << >>]]
  PROVE  Follows
  <1>0. PICK op \in {"read", "write", "lseek", "ioctl"} : call[p].op = op
    OBVIOUS
  <1>1. AtomicLog!Pending(p, op) /\ AtomicLog!Reply(p, -512, << >>)
    BY <1>0 DEF AtomicLog!Pending, AtomicLog!Reply, ReplyOf, ThreadReply
  <1>2. AtomicLog!Fail(p)
    BY <1>0, <1>1 DEF AtomicLog!Fail, LogOf, Writing
  <1>3. QED
    BY <1>2 DEF Follows, AtomicLog!Next

LEMMA StepFault ==
  ASSUME NEW p \in Procs, call[p].op \in {"read", "write"},
         ThreadReply(p) = NULL, call' = call, LogOf' = LogOf,
         ReplyOf' = [ReplyOf EXCEPT ![p] = [ret |-> -14, data |-> << >>]]
  PROVE  Follows
  <1>0. PICK op \in {"read", "write"} : call[p].op = op
    OBVIOUS
  <1>1. AtomicLog!Pending(p, op) /\ AtomicLog!Reply(p, -14, << >>)
    BY <1>0 DEF AtomicLog!Pending, AtomicLog!Reply, ReplyOf, ThreadReply
  <1>2. AtomicLog!Fail(p)
    BY <1>0, <1>1 DEF AtomicLog!Fail, LogOf, Writing
  <1>3. QED
    BY <1>2 DEF Follows, AtomicLog!Next

LEMMA StepReturn ==
  ASSUME NEW p \in Procs, ThreadReply(p) # NULL, LogOf' = LogOf,
         call' = [call EXCEPT ![p] = NoCall], ReplyOf' = [ReplyOf EXCEPT ![p] = NULL]
  PROVE  Follows
  <1>1. AtomicLog!Return(p)
    BY DEF AtomicLog!Return, LogOf, Writing, ReplyOf, ThreadReply
  <1>2. QED
    BY <1>1 DEF Follows, AtomicLog!Next

LEMMA StepUnload ==
  ASSUME \A p \in Procs : call[p] = NoCall, LogOf' = << >>, UNCHANGED <<call, ReplyOf>>
  PROVE  Follows
  <1>1. AtomicLog!Unload
    BY DEF AtomicLog!Unload, LogOf, Writing, ReplyOf, ThreadReply
  <1>2. QED
    BY <1>1 DEF Follows, AtomicLog!Next

-----------------------------------------------------------------------------
(* A step of thread p leaves the other threads where they are,             *)
Others(p) ==
  \A q \in Procs : q # p =>
    /\ pc'[q] = pc[q] /\ call'[q] = call[q] /\ answer'[q] = answer[q]
    /\ start'[q] = start[q] /\ total_size'[q] = total_size[q]

LEMMA ReplyMoves ==
  ASSUME NEW p \in Procs, Others(p), NEW r, r = ThreadReply(p)'
  PROVE  ReplyOf' = [ReplyOf EXCEPT ![p] = r]
  <1>1. ASSUME NEW q \in Procs, q # p PROVE ThreadReply(q)' = ThreadReply(q)
    BY <1>1 DEF Others, ThreadReply, Answered
  <1>2. QED
    BY <1>1 DEF ReplyOf

(* and none of them writes while p holds the lock.                         *)
LEMMA OnlyHolder ==
  ASSUME DriverInv
  PROVE  /\ \A p \in Procs : pc[p] \in Critical =>
               \A q \in Procs : q # p => pc[q] \notin Writing
         /\ lock = Nobody => \A q \in Procs : pc[q] \notin Writing
         /\ Writing \subseteq Critical
  BY AesdAssumption DEF DriverInv, LockDiscipline, Writing, Critical

LEMMA OthersProgress ==
  ASSUME AtomInv, NEW p \in Procs, Others(p),
         UNCHANGED <<dev, before>> \/ \A q \in Procs : q # p => pc[q] \notin Writing,
         Progress(p)'
  PROVE  AtomInv'
  <1>1. ASSUME NEW q \in Procs, q # p PROVE Progress(q)'
    <2>1. Progress(q) /\ pc'[q] = pc[q] /\ call'[q] = call[q] /\ answer'[q] = answer[q]
          /\ start'[q] = start[q]
      BY <1>1 DEF AtomInv, Others
    <2>2. CASE UNCHANGED <<dev, before>>
      <3>1. Contents' = Contents /\ before' = before
        BY <2>2, ContentsSame
      <3>2. QED
        BY <2>1, <3>1 DEF Progress
    <2>3. CASE pc[q] \notin Writing
      BY <2>1, <2>3 DEF Progress, Writing
    <2>4. QED
      BY <1>1, <2>2, <2>3
  <1>2. QED
    BY <1>1 DEF AtomInv

(* The log while nobody begins or ends writing.                            *)
LEMMA LogQuiet ==
  ASSUME UNCHANGED <<loaded, dev, before>>,
         \A q \in Procs : pc'[q] \in Writing <=> pc[q] \in Writing
  PROVE  LogOf' = LogOf
  <1>1. Contents' = Contents
    BY ContentsSame
  <1>2. QED
    BY <1>1 DEF LogOf

(* Thread p goes on without touching the device or writing.                *)
LEMMA QuietStep ==
  ASSUME AtomInv, NEW p \in Procs, Others(p), UNCHANGED <<loaded, dev, before>>,
         pc[p] \notin Writing, pc'[p] \notin Writing, Progress(p)'
  PROVE  AtomInv' /\ LogOf' = LogOf
  <1>1. AtomInv'
    BY OthersProgress
  <1>2. \A q \in Procs : pc'[q] \in Writing <=> pc[q] \in Writing
    BY DEF Others
  <1>3. QED
    BY <1>1, <1>2, LogQuiet

LEMMA AllTypes ==
  ASSUME DriverInv
  PROVE  /\ pc \in [Procs -> Steps] /\ call \in [Procs -> Calls \cup {NoCall}]
         /\ start \in [Procs -> Nat] /\ total_size \in [Procs -> Nat]
         /\ answer \in [Procs -> Answers] /\ before \in Seq(Bytes)
         /\ f_pos \in [Files -> Nat \cup {NULL}]
  BY DEF DriverInv, TypeOK, Answers

(* Once at "done", or before any answer, Progress says little.             *)
LEMMA ProgressDone ==
  ASSUME NEW p, pc'[p] = "done"
  PROVE  Progress(p)'
  BY DEF Progress, Writing

LEMMA ProgressOn ==
  ASSUME NEW p, answer'[p] = NoAnswer, pc'[p] \notin Writing \cup {"idle", "write_lock"}
  PROVE  Progress(p)'
  BY DEF Progress, Writing

-----------------------------------------------------------------------------
(* One lemma per kind of step: the invariant holds again, and the log does *)
(* what the step does.  First the start of a system call.                  *)
Refined == AtomInv' /\ Follows

LEMMA Unanswered ==
  ASSUME NEW p \in Procs, pc[p] \notin {"done", "apply"}
  PROVE  ThreadReply(p) = NULL /\ ReplyOf[p] = NULL
  BY DEF ThreadReply, Answered, ReplyOf

LEMMA SameReply ==
  ASSUME NEW p \in Procs, Others(p), ThreadReply(p)' = ThreadReply(p)
  PROVE  ReplyOf' = ReplyOf
  <1>1. ReplyOf' = [ReplyOf EXCEPT ![p] = ThreadReply(p)]
    BY ReplyMoves
  <1>2. QED
    BY <1>1 DEF ReplyOf

LEMMA EnterRefined ==
  ASSUME DriverInv, AtomInv, NEW p \in Procs, NEW c \in Calls,
         NEW s \in {"read_lock", "write_lock", "lseek_lock", "ioctl_lock"},
         s = "write_lock" => c.buf # << >>, EnterHandler(p, c, s)
  PROVE  Refined
  <1>1. /\ pc[p] = "idle" /\ pc' = [pc EXCEPT ![p] = s] /\ call' = [call EXCEPT ![p] = c]
        /\ UNCHANGED <<loaded, dev, start, total_size, before, answer>>
    BY DEF EnterHandler, Enter, locals, module
  <1>2. call[p] = NoCall /\ answer[p] = NoAnswer
    BY <1>1 DEF AtomInv, Progress
  <1>3. pc'[p] = s /\ call'[p] = c /\ answer'[p] = NoAnswer
    BY <1>1, <1>2, AllTypes
  <1>4. Others(p)
    BY <1>1, AllTypes DEF Others
  <1>5. Progress(p)'
    BY <1>3 DEF Progress, Writing
  <1>6. AtomInv' /\ LogOf' = LogOf
    BY <1>1, <1>3, <1>4, <1>5, QuietStep DEF Writing
  <1>7. ThreadReply(p)' = NULL /\ ThreadReply(p) = NULL
    BY <1>1, <1>3 DEF ThreadReply, Answered
  <1>8. ReplyOf' = ReplyOf
    BY <1>4, <1>7, SameReply
  <1>9. Follows
    BY <1>1, <1>2, <1>6, <1>8, AllTypes, StepInvoke
  <1>10. QED
    BY <1>6, <1>9 DEF Refined

LEMMA RefuseRefined ==
  ASSUME DriverInv, AtomInv, NEW p \in Procs, NEW c \in Calls, NEW ret \in {0, -14, -25},
         IF ret = 0 THEN c.op = "write" /\ c.buf = << >> ELSE c.op = "ioctl",
         EnterAndReturn(p, c, ret)
  PROVE  Refined
  <1>1. /\ pc[p] = "idle" /\ pc' = [pc EXCEPT ![p] = "done"] /\ call' = [call EXCEPT ![p] = c]
        /\ answer' = [answer EXCEPT ![p].ret = ret]
        /\ UNCHANGED <<loaded, dev, start, total_size, before>>
    BY DEF EnterAndReturn, Enter, locals, module
  <1>2. call[p] = NoCall /\ answer[p] = NoAnswer
    BY <1>1 DEF AtomInv, Progress
  <1>3. pc'[p] = "done" /\ call'[p] = c /\ answer'[p] = [ret |-> ret, data |-> << >>]
    BY <1>1, <1>2, AllTypes DEF NoAnswer
  <1>4. Others(p)
    BY <1>1, AllTypes DEF Others
  <1>5. AtomInv' /\ LogOf' = LogOf
    BY <1>1, <1>3, <1>4, ProgressDone, QuietStep DEF Writing
  <1>6. ThreadReply(p)' = [ret |-> ret, data |-> << >>]
    BY <1>3 DEF ThreadReply, Answered
  <1>7. ReplyOf' = [ReplyOf EXCEPT ![p] = [ret |-> ret, data |-> << >>]]
    BY <1>4, <1>6, ReplyMoves
  <1>8. Follows
    BY <1>1, <1>2, <1>5, <1>7, AllTypes, StepRefuse
  <1>9. QED
    BY <1>5, <1>8 DEF Refined

(* Waiting for the lock, in vain or not.                                   *)
LEMMA InterruptedRefined ==
  ASSUME DriverInv, AtomInv, NEW p \in Procs,
         NEW s \in {"read_lock", "write_lock", "lseek_lock", "ioctl_lock"}, Interrupted(p, s)
  PROVE  Refined
  <1> DEFINE op == call[p].op
  <1>1. /\ pc[p] = s /\ pc' = [pc EXCEPT ![p] = "done"]
        /\ answer' = [answer EXCEPT ![p].ret = -512]
        /\ call' = call /\ UNCHANGED <<loaded, dev, start, total_size, before>>
    BY DEF Interrupted, locals, module, ERESTARTSYS
  <1>2. answer[p] = NoAnswer
    BY <1>1 DEF AtomInv, Progress
  <1>3. op \in {"read", "write", "lseek", "ioctl"}
    BY <1>1, InCallIs, CallAtIs DEF Steps
  <1>4. pc'[p] = "done" /\ answer'[p] = [ret |-> -512, data |-> << >>]
    BY <1>1, <1>2, AllTypes DEF NoAnswer
  <1>5. Others(p)
    BY <1>1, AllTypes DEF Others
  <1>6. AtomInv' /\ LogOf' = LogOf
    BY <1>1, <1>4, <1>5, ProgressDone, QuietStep DEF Writing
  <1>7. ThreadReply(p)' = [ret |-> -512, data |-> << >>] /\ ThreadReply(p) = NULL
    BY <1>1, <1>4 DEF ThreadReply, Answered, ERESTARTSYS
  <1>8. ReplyOf' = [ReplyOf EXCEPT ![p] = [ret |-> -512, data |-> << >>]]
    BY <1>5, <1>7, ReplyMoves
  <1>9. Follows
    <2>1. call' = call /\ LogOf' = LogOf /\ ThreadReply(p) = NULL
      BY <1>1, <1>6, <1>7
    <2>2. QED
      BY <1>3, <1>8, <2>1, StepInterrupted
  <1>10. QED
    BY <1>6, <1>9 DEF Refined

LEMMA TakeLockRefined ==
  ASSUME DriverInv, AtomInv, NEW p \in Procs,
         NEW from \in {"read_lock", "lseek_lock", "ioctl_lock"},
         NEW to \in {"read", "size", "adjust"}, TakeLock(p, from, to), UNCHANGED before
  PROVE  Refined
  <1>1. /\ pc[p] = from /\ pc' = [pc EXCEPT ![p] = to] /\ call' = call
        /\ UNCHANGED <<loaded, dev, start, total_size, before, answer>>
    BY DEF TakeLock, locals, module
  <1>2. answer[p] = NoAnswer
    BY <1>1 DEF AtomInv, Progress
  <1>3. pc'[p] = to /\ answer'[p] = NoAnswer
    BY <1>1, <1>2, AllTypes
  <1>4. Others(p)
    BY <1>1, AllTypes DEF Others
  <1>5. AtomInv' /\ LogOf' = LogOf
    BY <1>1, <1>3, <1>4, ProgressOn, QuietStep DEF Writing
  <1>6. ThreadReply(p)' = NULL /\ ThreadReply(p) = NULL
    BY <1>1, <1>3 DEF ThreadReply, Answered
  <1>7. ReplyOf' = ReplyOf
    BY <1>4, <1>6, SameReply
  <1>8. QED
    BY <1>1, <1>5, <1>7 DEF Refined, Follows

(* The device seen by a thread that holds the lock and is not writing.     *)
LEMMA HolderLog ==
  ASSUME DriverInv, NEW p \in Procs, pc[p] \in {"read", "size", "adjust"}
  PROVE  loaded /\ LogOf = Contents
  <1>1. loaded
    BY InCallIs
  <1>2. pc[p] \in Critical /\ pc[p] \notin Writing
    BY DEF Critical, Writing
  <1>3. \A q \in Procs : pc[q] \notin Writing
    BY <1>2, OnlyHolder
  <1>4. QED
    BY <1>1, <1>3 DEF LogOf

(* aesd_read                                                               *)
LEMMA ReadBodyRefined ==
  ASSUME DriverInv, AtomInv, NEW p \in Procs, ReadBody(p)
  PROVE  Refined
  <1> DEFINE c == call[p]
  <1>0. PICK bytes : bytes = ReadBytes(c)
    OBVIOUS
  <1>1. /\ pc[p] = "read" /\ pc' = [pc EXCEPT ![p] = "done"] /\ call' = call
        /\ \/ answer' = [answer EXCEPT ![p] = [ret |-> Len(bytes), data |-> bytes]]
           \/ answer' = [answer EXCEPT ![p] = [ret |-> -14, data |-> << >>]]
        /\ UNCHANGED <<loaded, dev, start, total_size, before>>
    BY <1>0 DEF ReadBody, UnlockAndReturn, locals, module, EFAULT
  <1>2. c \in Calls /\ c.op = "read" /\ loaded
    BY <1>1, InCallIs, CallAtIs DEF Steps
  <1>3. c.pos \in Nat /\ c.count \in Nat
    BY <1>2, CallFields
  <1> HIDE DEF c
  <1>4. LogOf = Contents
    BY <1>1, HolderLog
  <1>5. bytes = AtomicLog!BytesAt(LogOf, c.pos, c.count)
    BY <1>0, <1>2, <1>3, <1>4, ReadIs
  <1>6. pc'[p] = "done" /\ Others(p)
    BY <1>1, AllTypes DEF Others
  <1>7. AtomInv' /\ LogOf' = LogOf
    BY <1>1, <1>6, ProgressDone, QuietStep DEF Writing
  <1>8. ThreadReply(p) = NULL
    BY <1>1, Unanswered
  <1>9. ThreadReply(p)' = answer'[p]
    BY <1>1, <1>2, <1>6 DEF ThreadReply, Answered, c
  <1>10. CASE answer' = [answer EXCEPT ![p] = [ret |-> Len(bytes), data |-> bytes]]
    <2>1. ThreadReply(p)' = [ret |-> Len(bytes), data |-> bytes]
      BY <1>9, <1>10, AllTypes
    <2>2. ReplyOf' = [ReplyOf EXCEPT ![p] = [ret |-> Len(bytes), data |-> bytes]]
      BY <1>6, <2>1, ReplyMoves
    <2>3. Follows
      BY <1>1, <1>2, <1>5, <1>7, <1>8, <2>2, StepFetch DEF c
    <2>4. QED
      BY <1>7, <2>3 DEF Refined
  <1>11. CASE answer' = [answer EXCEPT ![p] = [ret |-> -14, data |-> << >>]]
    <2>1. ThreadReply(p)' = [ret |-> -14, data |-> << >>]
      BY <1>9, <1>11, AllTypes
    <2>2. ReplyOf' = [ReplyOf EXCEPT ![p] = [ret |-> -14, data |-> << >>]]
      BY <1>6, <2>1, ReplyMoves
    <2>3. Follows
      BY <1>1, <1>2, <1>7, <1>8, <2>2, StepFault DEF c
    <2>4. QED
      BY <1>7, <2>3 DEF Refined
  <1>12. QED
    BY <1>1, <1>10, <1>11

LEMMA ReadRefined ==
  ASSUME DriverInv, AtomInv, NEW p \in Procs, aesd_read(p)
  PROVE  Refined
  <1>1. ASSUME NEW f \in Files, NEW n \in Counts, ReadEnter(p, f, n) PROVE Refined
    <2> DEFINE c == [op |-> "read", file |-> f, pos |-> f_pos[f], count |-> n]
    <2>1. EnterHandler(p, c, "read_lock")
      BY <1>1 DEF ReadEnter
    <2>2. f_pos[f] \in Nat
      BY <2>1, ThreadTypes DEF EnterHandler, Enter
    <2>3. c \in Calls
      BY <2>2 DEF Calls
    <2> HIDE DEF c
    <2>4. QED
      BY <2>1, <2>3, EnterRefined
  <1>2. CASE TakeLock(p, "read_lock", "read") /\ UNCHANGED before
    BY <1>2, TakeLockRefined
  <1>3. CASE Interrupted(p, "read_lock")
    BY <1>3, InterruptedRefined
  <1>4. CASE ReadBody(p)
    BY <1>4, ReadBodyRefined
  <1>5. QED
    BY <1>1, <1>2, <1>3, <1>4 DEF aesd_read

(* aesd_lseek: the size it read counts, whatever it makes of it later.     *)
LEMMA LseekSizeRefined ==
  ASSUME DriverInv, AtomInv, NEW p \in Procs, LseekSize(p)
  PROVE  Refined
  <1>0. PICK size : size = get_total_size(c_buffer)
    OBVIOUS
  <1>1. /\ pc[p] = "size" /\ pc' = [pc EXCEPT ![p] = "apply"] /\ call' = call
        /\ total_size' = [total_size EXCEPT ![p] = size]
        /\ UNCHANGED <<loaded, dev, start, answer, before>>
    BY <1>0 DEF LseekSize, module
  <1>2. call[p].op = "lseek" /\ loaded
    BY <1>1, InCallIs, CallAtIs DEF Steps
  <1>3. LogOf = Contents
    BY <1>1, HolderLog
  <1>4. size = Len(AtomicLog!Complete(LogOf))
    BY <1>0, <1>2, <1>3, SizeIs
  <1>5. /\ pc'[p] = "apply" /\ Others(p) /\ total_size'[p] = size
        /\ answer'[p] = NoAnswer
    BY <1>1, AllTypes DEF Others, AtomInv, Progress
  <1>6. AtomInv' /\ LogOf' = LogOf
    BY <1>1, <1>5, ProgressOn, QuietStep DEF Writing
  <1>7. ThreadReply(p) = NULL
    BY <1>1, Unanswered
  <1>8. ThreadReply(p)' = [ret |-> size, data |-> << >>]
    BY <1>1, <1>2, <1>5 DEF ThreadReply, Answered, NoAnswer, ERESTARTSYS
  <1>9. ReplyOf' = [ReplyOf EXCEPT ![p] = [ret |-> size, data |-> << >>]]
    BY <1>5, <1>8, ReplyMoves
  <1>10. Follows
    BY <1>1, <1>2, <1>4, <1>6, <1>7, <1>9, StepSize
  <1>11. QED
    BY <1>6, <1>10 DEF Refined

LEMMA SeekOutcome ==
  ASSUME NEW pos \in Nat, NEW seek, seek.off \in Int, NEW size \in Nat
  PROVE  fixed_size_llseek(pos, seek, size) # -ERESTARTSYS
  BY DEF fixed_size_llseek, EINVAL, ERESTARTSYS

LEMMA LseekApplyRefined ==
  ASSUME DriverInv, AtomInv, NEW p \in Procs, LseekApply(p)
  PROVE  Refined
  <1> DEFINE f == call[p].file
  <1>0. PICK pos : pos = fixed_size_llseek(f_pos[f], call[p].seek, total_size[p])
    OBVIOUS
  <1>1. /\ pc[p] = "apply" /\ pc' = [pc EXCEPT ![p] = "done"] /\ call' = call
        /\ answer' = [answer EXCEPT ![p].ret = pos]
        /\ UNCHANGED <<loaded, dev, start, total_size, before>>
    BY <1>0 DEF LseekApply, module, locals
  <1>2. call[p] \in Calls /\ call[p].op = "lseek" /\ f_pos[f] \in Nat
    BY <1>1, InCallIs, CallAtIs DEF Steps
  <1>3. call[p].seek.off \in Int /\ total_size[p] \in Nat
    BY <1>2, CallFields, AllTypes
  <1>4. pos # -ERESTARTSYS
    BY <1>0, <1>2, <1>3, SeekOutcome
  <1>5. /\ pc'[p] = "done" /\ Others(p) /\ answer[p] = NoAnswer
    BY <1>1, AllTypes DEF Others, AtomInv, Progress
  <1>6. answer'[p].ret = pos
    BY <1>1, <1>5, AllTypes DEF NoAnswer
  <1>7. AtomInv' /\ LogOf' = LogOf
    BY <1>1, <1>5, ProgressDone, QuietStep DEF Writing
  <1>8. ThreadReply(p) = [ret |-> total_size[p], data |-> << >>]
    BY <1>1, <1>2, <1>5 DEF ThreadReply, Answered, NoAnswer, ERESTARTSYS
  <1>9. ThreadReply(p)' = [ret |-> total_size[p], data |-> << >>]
    BY <1>1, <1>2, <1>4, <1>5, <1>6 DEF ThreadReply, Answered
  <1>10. ReplyOf' = ReplyOf
    BY <1>5, <1>8, <1>9, SameReply
  <1>11. QED
    BY <1>1, <1>7, <1>10 DEF Refined, Follows

LEMMA LseekRefined ==
  ASSUME DriverInv, AtomInv, NEW p \in Procs, aesd_lseek(p)
  PROVE  Refined
  <1>1. ASSUME NEW f \in Files, NEW sk \in Seeks, LseekEnter(p, f, sk) PROVE Refined
    <2> DEFINE c == [op |-> "lseek", file |-> f, seek |-> sk]
    <2>1. EnterHandler(p, c, "lseek_lock") /\ c \in Calls
      BY <1>1 DEF LseekEnter, Calls
    <2> HIDE DEF c
    <2>2. QED
      BY <2>1, EnterRefined
  <1>2. CASE TakeLock(p, "lseek_lock", "size") /\ UNCHANGED before
    BY <1>2, TakeLockRefined
  <1>3. CASE Interrupted(p, "lseek_lock")
    BY <1>3, InterruptedRefined
  <1>4. QED
    BY <1>1, <1>2, <1>3, LseekSizeRefined, LseekApplyRefined DEF aesd_lseek

(* aesd_ioctl                                                              *)
LEMMA IoctlAdjustRefined ==
  ASSUME DriverInv, AtomInv, NEW p \in Procs, IoctlAdjust(p)
  PROVE  Refined
  <1> DEFINE c == call[p].to.write_cmd
             o == call[p].to.write_cmd_offset
             pos == adjust_aesd_file_offset(c_buffer, c, o)
  <1>0. PICK ret : ret = IF pos = NULL THEN -22 ELSE pos
    OBVIOUS
  <1>1. /\ pc[p] = "adjust" /\ pc' = [pc EXCEPT ![p] = "done"] /\ call' = call
        /\ answer' = [answer EXCEPT ![p] = [ret |-> ret, data |-> << >>]]
        /\ UNCHANGED <<loaded, dev, start, total_size, before>>
    BY <1>0 DEF IoctlAdjust, UnlockAndReturn, module, locals, EINVAL
  <1>2. call[p] \in Calls /\ call[p].op = "ioctl" /\ loaded
    BY <1>1, InCallIs, CallAtIs DEF Steps
  <1>3. c \in Nat /\ o \in Nat
    BY <1>2, CallFields
  <1>4. LogOf = Contents
    BY <1>1, HolderLog
  <1>5. PICK at : at = AtomicLog!Positions(LogOf, c, o)
    OBVIOUS
  <1> HIDE DEF c, o
  <1>6. \/ at = {} /\ pos = NULL
        \/ pos \in at /\ pos # NULL
    BY <1>2, <1>3, <1>4, <1>5, SeekIs
  <1>7. ret \in IF at = {} THEN {-22} ELSE at
    <2> HIDE DEF pos
    <2>1. QED
      BY <1>0, <1>6
  <1>8. pc'[p] = "done" /\ Others(p) /\ answer'[p] = [ret |-> ret, data |-> << >>]
    BY <1>1, AllTypes DEF Others
  <1>9. AtomInv' /\ LogOf' = LogOf
    BY <1>1, <1>8, ProgressDone, QuietStep DEF Writing
  <1>10. ThreadReply(p) = NULL
    BY <1>1, Unanswered
  <1>11. ThreadReply(p)' = [ret |-> ret, data |-> << >>]
    BY <1>1, <1>2, <1>8 DEF ThreadReply, Answered
  <1>12. ReplyOf' = [ReplyOf EXCEPT ![p] = [ret |-> ret, data |-> << >>]]
    BY <1>8, <1>11, ReplyMoves
  <1>13. Follows
    <2>1. at = AtomicLog!Positions(LogOf, call[p].to.write_cmd, call[p].to.write_cmd_offset)
      BY <1>5 DEF c, o
    <2>2. QED
      BY <1>1, <1>2, <1>7, <1>9, <1>10, <1>12, <2>1, StepSeekTo
  <1>14. QED
    BY <1>9, <1>13 DEF Refined

LEMMA IoctlRefined ==
  ASSUME DriverInv, AtomInv, NEW p \in Procs, aesd_ioctl(p)
  PROVE  Refined
  <1>1. ASSUME NEW f \in Files, NEW to \in SeekTos, IoctlEnter(p, f, to) PROVE Refined
    <2> DEFINE c == [op |-> "ioctl", file |-> f, to |-> to]
    <2>1. /\ \/ EnterHandler(p, c, "ioctl_lock")
             \/ \E ret \in {-25, -14} : EnterAndReturn(p, c, ret)
          /\ c \in Calls /\ c.op = "ioctl"
      BY <1>1 DEF IoctlEnter, Calls, ENOTTY, EFAULT
    <2> HIDE DEF c
    <2>2. CASE EnterHandler(p, c, "ioctl_lock")
      BY <2>1, <2>2, EnterRefined
    <2>3. ASSUME NEW ret \in {-25, -14}, EnterAndReturn(p, c, ret) PROVE Refined
      <3>1. ret \in {0, -14, -25} /\ ret # 0
        OBVIOUS
      <3>2. IF ret = 0 THEN c.op = "write" /\ c.buf = << >> ELSE c.op = "ioctl"
        BY <2>1, <3>1
      <3>3. QED
        BY <2>1, <2>3, <3>1, <3>2, RefuseRefined
    <2>4. QED
      BY <2>1, <2>2, <2>3
  <1>2. CASE TakeLock(p, "ioctl_lock", "adjust") /\ UNCHANGED before
    BY <1>2, TakeLockRefined
  <1>3. CASE Interrupted(p, "ioctl_lock")
    BY <1>3, InterruptedRefined
  <1>4. QED
    BY <1>1, <1>2, <1>3, IoctlAdjustRefined DEF aesd_ioctl

(* The return to user space,                                               *)
LEMMA ReturnRefined ==
  ASSUME DriverInv, AtomInv, NEW p \in Procs, SysReturn(p)
  PROVE  Refined
  <1>1. /\ pc[p] = "done" /\ pc' = [pc EXCEPT ![p] = "idle"]
        /\ call' = [call EXCEPT ![p] = NoCall] /\ answer' = [answer EXCEPT ![p] = NoAnswer]
        /\ total_size' = [total_size EXCEPT ![p] = 0]
        /\ UNCHANGED <<loaded, dev, start, before>>
    BY DEF SysReturn, module
  <1>2. /\ pc'[p] = "idle" /\ call'[p] = NoCall /\ answer'[p] = NoAnswer /\ Others(p)
    BY <1>1, AllTypes DEF Others
  <1>3. Progress(p)'
    BY <1>2 DEF Progress, Writing
  <1>4. AtomInv' /\ LogOf' = LogOf
    BY <1>1, <1>2, <1>3, QuietStep DEF Writing
  <1>5. ThreadReply(p) # NULL
    <2>1. answer[p] \in Answers /\ [ret |-> total_size[p], data |-> << >>] \in Answers
      <3>1. total_size[p] \in Int /\ << >> \in Seq(Bytes)
        BY AllTypes, EmptySeq
      <3>2. QED
        BY <3>1, AllTypes DEF Answers
    <2>2. NULL \notin Answers
      BY AesdAssumption DEF Answers
    <2>3. QED
      BY <1>1, <2>1, <2>2 DEF ThreadReply, Answered
  <1>6. ThreadReply(p)' = NULL
    BY <1>2 DEF ThreadReply, Answered
  <1>7. ReplyOf' = [ReplyOf EXCEPT ![p] = NULL]
    BY <1>2, <1>6, ReplyMoves
  <1>8. Follows
    BY <1>1, <1>4, <1>5, <1>7, StepReturn
  <1>9. QED
    BY <1>4, <1>8 DEF Refined

(* and what no thread does.                                                *)
LEMMA StillRefined ==
  ASSUME AtomInv, UNCHANGED <<loaded, dev, pc, call, start, total_size, answer, before>>
  PROVE  Refined
  <1>1. Contents' = Contents
    BY ContentsSame
  <1>2. AtomInv'
    BY <1>1 DEF AtomInv, Progress
  <1>3. LogOf' = LogOf
    BY LogQuiet
  <1>4. ReplyOf' = ReplyOf
    BY DEF ReplyOf, ThreadReply, Answered
  <1>5. QED
    BY <1>2, <1>3, <1>4 DEF Refined, Follows

LEMMA ModuleRefined ==
  ASSUME DriverInv, AtomInv, aesd_init_module \/ aesd_cleanup_module
  PROVE  Refined
  <1>1. /\ pc' = pc /\ call' = call /\ answer' = answer /\ before' = before
        /\ total_size' = total_size
    BY DEF aesd_init_module, aesd_cleanup_module, locals
  <1>2. \A p \in Procs : pc[p] = "idle"
    BY NobodyInside DEF aesd_init_module, aesd_cleanup_module
  <1>3. AtomInv'
    BY <1>1, <1>2 DEF AtomInv, Progress, Writing
  <1>4. \A p \in Procs : call[p] = NoCall
    BY <1>2 DEF AtomInv, Progress
  <1>5. ReplyOf' = ReplyOf
    BY <1>1 DEF ReplyOf, ThreadReply, Answered
  <1>6. LogOf' = << >>
    <2>1. CASE ~loaded'
      BY <2>1 DEF LogOf
    <2>2. CASE loaded'
      <3>1. ~loaded /\ c_buffer' = aesd_circular_buffer_init /\ partial_buffer' = NoEntry
        BY <2>2 DEF aesd_init_module, aesd_cleanup_module, module
      <3>2. EntryCount(c_buffer') = 0
        BY <3>1, MAXAssumption DEF EntryCount, aesd_circular_buffer_init
      <3>3. LineBytes' = [k \in 1 .. EntryCount(c_buffer') |-> LineBytes'[k]]
        BY DEF LineBytes
      <3>4. LineBytes' = << >>
        BY <3>2, <3>3
      <3>5. FlattenSeq(LineBytes') = << >>
        BY <3>4 DEF FlattenSeq
      <3>6. PartialBytes' = << >>
        BY <3>1 DEF PartialBytes, NoEntry
      <3>7. Contents' = << >> \o << >>
        BY <3>5, <3>6 DEF Contents
      <3>8. Contents' = << >>
        BY <3>7, EmptySeq, ConcatEmptySeq
      <3>9. QED
        BY <1>1, <1>2, <2>2, <3>8 DEF LogOf, Writing
    <2>3. QED
      BY <2>1, <2>2
  <1>7. Follows
    BY <1>1, <1>4, <1>5, <1>6, StepUnload
  <1>8. QED
    BY <1>3, <1>7 DEF Refined

-----------------------------------------------------------------------------
(* aesd_write: the log that a writer found, and its return.                *)
LEMMA WriterIs ==
  ASSUME DriverInv, NEW p \in Procs, pc[p] \in Writing
  PROVE  /\ loaded /\ LogOf = before /\ call[p].op = "write"
         /\ call[p].buf \in Seq(Bytes) /\ before \in Seq(Bytes)
         /\ \A q \in Procs : q # p => pc[q] \notin Writing
  <1>1. pc[p] \in {"stage", "lines"}
    BY DEF Writing
  <1>2. loaded /\ call[p] \in Calls /\ call[p].op = "write"
    BY <1>1, InCallIs, CallAtIs DEF Steps
  <1>3. \A q \in Procs : q # p => pc[q] \notin Writing
    BY OnlyHolder
  <1>4. LogOf = before
    BY <1>2 DEF LogOf
  <1>5. QED
    BY <1>2, <1>3, <1>4, CallFields, AllTypes

LEMMA WriterLeaves ==
  ASSUME DriverInv, AtomInv, NEW p \in Procs, pc[p] \in Writing, NEW ret,
         pc' = [pc EXCEPT ![p] = "done"],
         answer' = [answer EXCEPT ![p] = [ret |-> ret, data |-> << >>]],
         start' = [start EXCEPT ![p] = 0], UNCHANGED <<loaded, call, total_size>>
  PROVE  /\ AtomInv' /\ LogOf' = Contents' /\ ThreadReply(p) = NULL
         /\ ReplyOf' = [ReplyOf EXCEPT ![p] = [ret |-> ret, data |-> << >>]]
  <1>1. /\ loaded /\ call[p].op = "write"
        /\ \A q \in Procs : q # p => pc[q] \notin Writing
    BY WriterIs
  <1>2. Others(p) /\ pc'[p] = "done" /\ answer'[p] = [ret |-> ret, data |-> << >>]
    BY AllTypes DEF Others
  <1>3. AtomInv'
    BY <1>1, <1>2, ProgressDone, OthersProgress
  <1>4. \A q \in Procs : pc'[q] \notin Writing
    BY <1>1, <1>2 DEF Others, Writing
  <1>5. LogOf' = Contents'
    BY <1>1, <1>4 DEF LogOf
  <1>6. ThreadReply(p) = NULL
    BY Unanswered DEF Writing
  <1>7. ThreadReply(p)' = [ret |-> ret, data |-> << >>]
    BY <1>1, <1>2 DEF ThreadReply, Answered
  <1>8. ReplyOf' = [ReplyOf EXCEPT ![p] = [ret |-> ret, data |-> << >>]]
    BY <1>2, <1>7, ReplyMoves
  <1>9. QED
    BY <1>3, <1>5, <1>6, <1>8

LEMMA WriteEnterRefined ==
  ASSUME DriverInv, AtomInv, NEW p \in Procs, NEW f \in Files, NEW buf \in Payloads,
         WriteEnter(p, f, buf)
  PROVE  Refined
  <1> DEFINE c == [op |-> "write", file |-> f, pos |-> f_pos[f], buf |-> buf]
  <1>1. /\ IF buf = << >> THEN EnterAndReturn(p, c, 0) ELSE EnterHandler(p, c, "write_lock")
        /\ c.op = "write" /\ c.buf = buf
    BY DEF WriteEnter
  <1>2. f_pos[f] \in Nat
    BY <1>1, ThreadTypes DEF EnterAndReturn, EnterHandler, Enter
  <1>3. c \in Calls
    BY <1>2 DEF Calls
  <1> HIDE DEF c
  <1>4. CASE buf = << >>
    BY <1>1, <1>3, <1>4, RefuseRefined
  <1>5. CASE buf # << >>
    BY <1>1, <1>3, <1>5, EnterRefined
  <1>6. QED
    BY <1>4, <1>5

LEMMA WriteLockRefined ==
  ASSUME DriverInv, AtomInv, NEW p \in Procs, WriteLock(p)
  PROVE  Refined
  <1>1. /\ pc[p] = "write_lock" /\ pc' = [pc EXCEPT ![p] = "stage"] /\ call' = call
        /\ lock = Nobody /\ before' = Contents
        /\ UNCHANGED <<loaded, dev, start, total_size, answer>>
    BY DEF WriteLock, TakeLock, locals, module
  <1>2. /\ pc'[p] = "stage" /\ Others(p) /\ loaded
        /\ \A q \in Procs : pc[q] \notin Writing
    BY <1>1, AllTypes, InCallIs, OnlyHolder DEF Others
  <1>3. Contents' = Contents
    BY <1>1, ContentsSame
  <1>4. answer'[p] = NoAnswer /\ call'[p].buf # << >>
    BY <1>1 DEF AtomInv, Progress
  <1>5. Progress(p)'
    BY <1>1, <1>2, <1>3, <1>4 DEF Progress, Writing
  <1>6. AtomInv'
    BY <1>2, <1>5, OthersProgress
  <1>7. LogOf = Contents
    BY <1>2 DEF LogOf
  <1>8. LogOf' = Contents
    BY <1>1, <1>2 DEF LogOf, Writing
  <1>9. ThreadReply(p) = NULL /\ ThreadReply(p)' = NULL
    BY <1>1, <1>2 DEF ThreadReply, Answered
  <1>10. ReplyOf' = ReplyOf
    BY <1>2, <1>9, SameReply
  <1>11. QED
    BY <1>1, <1>6, <1>7, <1>8, <1>10 DEF Refined, Follows

(* Out of memory: the lines stored so far are in the log.                  *)
LEMMA WriterGivesUp ==
  ASSUME DriverInv, AtomInv, NEW p \in Procs, pc[p] \in Writing, FreeAndReturn(p, -ENOMEM),
         UNCHANGED <<loaded, call>>, NEW n \in Ends(call[p].buf) \cup {0},
         n < Len(call[p].buf),
         Contents' = AtomicLog!Recent(before \o SubSeq(call[p].buf, 1, n))
  PROVE  Refined
  <1>0. PICK ret : ret = -12
    OBVIOUS
  <1>1. /\ pc' = [pc EXCEPT ![p] = "done"]
        /\ answer' = [answer EXCEPT ![p] = [ret |-> ret, data |-> << >>]]
        /\ start' = [start EXCEPT ![p] = 0] /\ total_size' = total_size
    BY <1>0 DEF FreeAndReturn, UnlockAndReturn, ENOMEM
  <1>2. /\ AtomInv' /\ LogOf' = Contents' /\ ThreadReply(p) = NULL
        /\ ReplyOf' = [ReplyOf EXCEPT ![p] = [ret |-> ret, data |-> << >>]]
    BY <1>1, WriterLeaves
  <1>3. ReplyOf' = [ReplyOf EXCEPT ![p] = [ret |-> -12, data |-> << >>]]
    BY <1>0, <1>2
  <1>4. LogOf = before /\ call[p].op = "write"
    BY WriterIs
  <1>5. LogOf' = AtomicLog!Recent(LogOf \o SubSeq(call[p].buf, 1, n))
    BY <1>2, <1>4
  <1>6. call' = call
    OBVIOUS
  <1>7. Follows
    BY <1>2, <1>3, <1>4, <1>5, <1>6, StepAcceptLines
  <1>8. QED
    BY <1>2, <1>7 DEF Refined

(* The copy of the user's buffer.                                          *)
LEMMA NothingYet ==
  ASSUME NEW buf \in Seq(Bytes), NEW b \in Seq(Bytes), AtomicLog!Recent(b) = b
  PROVE  b = AtomicLog!Recent(b \o SubSeq(buf, 1, 0))
  <1>1. SubSeq(buf, 1, 0) = << >>
    OBVIOUS
  <1>2. b \o << >> = b
    BY EmptySeq, ConcatEmptySeq
  <1>3. QED
    BY <1>1, <1>2

LEMMA WriteStageRefined ==
  ASSUME DriverInv, AtomInv, NEW p \in Procs, WriteStage(p)
  PROVE  Refined
  <1> DEFINE buf == call[p].buf
  <1>1. /\ pc[p] = "stage" /\ pc[p] \in Writing /\ call' = call /\ loaded' = loaded
        /\ UNCHANGED <<c_buffer, partial_buffer>>
    BY DEF WriteStage, module, Writing
  <1>2. /\ loaded /\ LogOf = before /\ call[p].op = "write"
        /\ buf \in Seq(Bytes) /\ before \in Seq(Bytes)
        /\ \A q \in Procs : q # p => pc[q] \notin Writing
    BY <1>1, WriterIs
  <1>3. before = Contents /\ buf # << >> /\ answer[p] = NoAnswer
    BY <1>1 DEF AtomInv, Progress
  <1>4. AtomicLog!Recent(before) = before
    BY <1>2, <1>3, ContentsKept DEF KeepsAll
  <1>5. before = AtomicLog!Recent(before \o SubSeq(buf, 1, 0))
    BY <1>2, <1>4, NothingYet
  <1>6. ASSUME FreeAndReturn(p, -ENOMEM), heap' = heap PROVE Refined
    <2>1. Contents' = Contents
      BY <1>1, <1>6, ContentsSame DEF dev
    <2>2. Contents' = AtomicLog!Recent(before \o SubSeq(buf, 1, 0))
      BY <1>3, <1>5, <2>1
    <2>3. 0 < Len(buf) /\ 0 \in Ends(buf) \cup {0}
      <3>1. Len(buf) \in Nat /\ Len(buf) # 0
        BY <1>2, <1>3, EmptySeq, LenProperties
      <3>2. QED
        BY <3>1
    <2>4. QED
      BY <1>1, <1>6, <2>2, <2>3, WriterGivesUp
  <1>7. ASSUME FreeAndReturn(p, -EFAULT), heap' = heap PROVE Refined
    <2>0. PICK ret : ret = -14
      OBVIOUS
    <2>1. /\ pc' = [pc EXCEPT ![p] = "done"]
          /\ answer' = [answer EXCEPT ![p] = [ret |-> ret, data |-> << >>]]
          /\ start' = [start EXCEPT ![p] = 0] /\ total_size' = total_size
      BY <1>7, <2>0 DEF FreeAndReturn, UnlockAndReturn, EFAULT
    <2>2. /\ AtomInv' /\ LogOf' = Contents' /\ ThreadReply(p) = NULL
          /\ ReplyOf' = [ReplyOf EXCEPT ![p] = [ret |-> ret, data |-> << >>]]
      BY <1>1, <2>1, WriterLeaves
    <2>3. ReplyOf' = [ReplyOf EXCEPT ![p] = [ret |-> -14, data |-> << >>]]
      BY <2>0, <2>2
    <2>4. Contents' = Contents
      BY <1>1, <1>7, ContentsSame DEF dev
    <2>5. LogOf' = LogOf
      BY <1>2, <1>3, <2>2, <2>4
    <2>6. call[p].op \in {"read", "write"} /\ ThreadReply(p) = NULL
      BY <1>2, <2>2
    <2>7. Follows
      BY <1>1, <2>3, <2>5, <2>6, StepFault
    <2>8. QED
      BY <2>2, <2>7 DEF Refined
  <1>8. ASSUME NEW a \in Addrs, heap[a] = Free, heap' = [heap EXCEPT ![a] = buf],
               pc' = [pc EXCEPT ![p] = "lines"],
               UNCHANGED <<start, total_size, answer, before>>
        PROVE  Refined
    <2>1. Contents' = Contents
      BY <1>1, <1>2, <1>8, CopyStaged
    <2>2. pc'[p] = "lines" /\ Others(p) /\ start'[p] = 0
      BY <1>1, <1>8, AllTypes, InCallIs DEF Others
    <2>3. Contents' = AtomicLog!Recent(before' \o SubSeq(buf, 1, 0))
      BY <1>3, <1>5, <1>8, <2>1
    <2>4. Progress(p)'
      BY <1>1, <1>3, <1>8, <2>2, <2>3 DEF Progress
    <2>5. AtomInv'
      BY <1>2, <2>2, <2>4, OthersProgress
    <2>6. LogOf' = before
      BY <1>1, <1>2, <1>8, <2>2 DEF LogOf, Writing
    <2>7. ThreadReply(p) = NULL /\ ThreadReply(p)' = NULL
      BY <1>1, <2>2 DEF ThreadReply, Answered
    <2>8. ReplyOf' = ReplyOf
      BY <2>2, <2>7, SameReply
    <2>9. QED
      BY <1>1, <1>2, <2>5, <2>6, <2>8 DEF Refined, Follows
  <1>9. QED
    <2>1. \/ FreeAndReturn(p, -ENOMEM) /\ heap' = heap
          \/ FreeAndReturn(p, -EFAULT) /\ heap' = heap
          \/ \E a \in Addrs :
               /\ kmalloc(a) /\ heap' = [heap EXCEPT ![a] = call[p].buf]
               /\ pc' = [pc EXCEPT ![p] = "lines"]
               /\ UNCHANGED <<start, total_size, answer, before>>
      BY DEF WriteStage, FreeAndReturn, UnlockAndReturn
    <2>2. \A a \in Addrs : kmalloc(a) => heap[a] = Free
      BY AesdAssumption DEF kmalloc
    <2>3. QED
      BY <1>6, <1>7, <1>8, <2>1, <2>2

(* One line of the buffer joins the ring.                                  *)
LEMMA JoinFailsRefined ==
  ASSUME DriverInv, AtomInv, NEW p \in Procs, pc[p] = "lines", JoinFails(p),
         start[p] < Len(call[p].buf), UNCHANGED <<loaded, call>>
  PROVE  Refined
  <1>1. pc[p] \in Writing
    BY DEF Writing
  <1>2. /\ start[p] \in Ends(call[p].buf) \cup {0}
        /\ Contents = AtomicLog!Recent(before \o SubSeq(call[p].buf, 1, start[p]))
    BY DEF AtomInv, Progress
  <1>3. /\ FreeAndReturn(p, -ENOMEM) /\ heap' = kfree({allocated_memory[p]}, heap)
        /\ c_buffer' = c_buffer
        /\ partial_buffer' = [partial_buffer EXCEPT
             !.buffptr = IF partial_buffer.size = 0 THEN NULL ELSE @]
    BY DEF JoinFails
  <1>4. /\ partial_buffer'.size = partial_buffer.size
        /\ partial_buffer.size # 0 => partial_buffer' = partial_buffer
    <2>1. partial_buffer \in [buffptr : Block, size : Nat]
      BY DEF DriverInv, TypeOK, Entry
    <2>2. QED
      BY <1>3, <2>1
  <1>5. Contents' = Contents
    BY <1>3, <1>4, CopyFreed
  <1>6. Contents' = AtomicLog!Recent(before \o SubSeq(call[p].buf, 1, start[p]))
    BY <1>2, <1>5
  <1>7. QED
    BY <1>1, <1>2, <1>3, <1>6, WriterGivesUp

LEMMA CutJoined ==
  ASSUME NEW U \in Seq(Bytes), NEW m \in Old(U) \cup {0}, NEW C, C = Drop(U, m),
         AtomicLog!Recent(C) = C
  PROVE  C = AtomicLog!Recent(U)
  BY CutRecent

LEMMA LineProgress ==
  ASSUME DriverInv, AtomInv, DriverInv', NEW p \in Procs, pc[p] = "lines", LineEnds(p) # {},
         NEW end, end = Min(LineEnds(p)), loaded' = loaded,
         LET U == Contents \o SubSeq(call[p].buf, start[p] + 1, end + 1)
         IN  /\ SubSeq(call[p].buf, start[p] + 1, end + 1) \in Seq(Bytes)
             /\ U \in Seq(Bytes)
             /\ \E m \in Old(U) \cup {0} : Contents' = Drop(U, m)
  PROVE  /\ end + 1 \in Ends(call[p].buf)
         /\ Contents' = AtomicLog!Recent(before \o SubSeq(call[p].buf, 1, end + 1))
  <1> DEFINE buf == call[p].buf
             s == start[p]
             U == Contents \o SubSeq(buf, s + 1, end + 1)
  <1>1. /\ buf \in Seq(Bytes) /\ Len(buf) \in Nat
        /\ s \in Nat /\ end \in Nat /\ s <= end /\ end < Len(buf) /\ buf[end + 1] = NL
    BY LineEndsAre
  <1>2. loaded /\ before \in Seq(Bytes)
    BY InCallIs, AllTypes
  <1>3. KeepsAll'
    BY <1>2, ContentsKeptNext
  <1>4. PICK C : C = Contents'
    OBVIOUS
  <1>5. AtomicLog!Recent(C) = C
    BY <1>3, <1>4 DEF KeepsAll
  <1>6. Contents = AtomicLog!Recent(before \o SubSeq(buf, 1, s))
    BY DEF AtomInv, Progress
  <1>7. C = AtomicLog!Recent(U)
    <2>1. U \in Seq(Bytes) /\ \E m \in Old(U) \cup {0} : C = Drop(U, m)
      BY <1>4
    <2> HIDE DEF U
    <2>2. QED
      BY <1>5, <2>1, CutJoined
  <1>8. SubSeq(buf, s + 1, end + 1) \in Seq(Bytes)
    OBVIOUS
  <1> HIDE DEF buf, s
  <1>9. end + 1 \in Ends(buf)
    <2>1. end + 1 \in 1 .. Len(buf)
      BY <1>1
    <2>2. QED
      BY <1>1, <2>1, EndsAre
  <1>10. end + 1 \in Nat /\ s <= end + 1 /\ end + 1 <= Len(buf)
    BY <1>1
  <1>11. AtomicLog!Recent(U) = AtomicLog!Recent(before \o SubSeq(buf, 1, end + 1))
    <2>1. PICK n : n = end + 1
      OBVIOUS
    <2>2. PICK t : t = SubSeq(buf, s + 1, n)
      OBVIOUS
    <2>3. n \in Nat /\ s <= n /\ n <= Len(buf) /\ t \in Seq(Bytes)
      BY <1>8, <1>10, <2>1, <2>2
    <2>4. AtomicLog!Recent(Contents \o t) = AtomicLog!Recent(before \o SubSeq(buf, 1, n))
      <3>1. PICK c, b, u, k : c = Contents /\ b = before /\ u = buf /\ k = s
        OBVIOUS
      <3>2. /\ b \in Seq(Bytes) /\ u \in Seq(Bytes) /\ k \in Nat /\ k <= n /\ n <= Len(u)
            /\ c = AtomicLog!Recent(b \o SubSeq(u, 1, k)) /\ t = SubSeq(u, k + 1, n)
        BY <1>1, <1>2, <1>6, <2>2, <2>3, <3>1
      <3>3. Grows(b, u, k, n, c, t)
        BY <2>3, <3>2 DEF Grows
      <3>4. AtomicLog!Recent(c \o t) = AtomicLog!Recent(b \o SubSeq(u, 1, n))
        BY <3>3, LogGrows
      <3>5. QED
        BY <3>1, <3>4
    <2>5. QED
      BY <2>1, <2>2, <2>4
  <1>12. QED
    BY <1>4, <1>7, <1>9, <1>11 DEF buf

LEMMA WriteLineRefined ==
  ASSUME DriverInv, AtomInv, DriverInv', NEW p \in Procs, WriteLine(p)
  PROVE  Refined
  <1> DEFINE end  == Min(LineEnds(p))
             old  == overwritten_entry(c_buffer)
             gone == OldPartial \cup (IF old = NULL THEN {} ELSE {old.buffptr})
  <1>1. /\ pc[p] = "lines" /\ LineEnds(p) # {} /\ UNCHANGED <<loaded, call>>
    BY DEF WriteLine, module
  <1>2. PICK a \in Block :
          /\ kmalloc(a)
          /\ \/ a = NULL /\ JoinFails(p)
             \/ /\ a # NULL
                /\ heap' = [kfree(gone, heap) EXCEPT ![a] = Joined(p, end)]
                /\ c_buffer' = aesd_circular_buffer_add_entry(c_buffer,
                     [buffptr |-> a, size |-> partial_buffer.size + end - start[p] + 1])
                /\ partial_buffer' = NoEntry
                /\ start' = [start EXCEPT ![p] = end + 1]
                /\ UNCHANGED <<pc, answer, total_size, before>>
    BY DEF WriteLine
  <1>3. CASE a = NULL
    <2>1. JoinFails(p)
      BY <1>2, <1>3
    <2>2. start[p] < Len(call[p].buf)
      BY <1>1, LineEndsAre
    <2>3. QED
      BY <1>1, <2>1, <2>2, JoinFailsRefined
  <1>4. CASE a # NULL
    <2>1. a \in Addrs /\ heap[a] = Free
      BY <1>2, <1>4 DEF kmalloc
    <2>2. /\ heap' = [kfree(gone, heap) EXCEPT ![a] = Joined(p, end)]
          /\ c_buffer' = aesd_circular_buffer_add_entry(c_buffer,
               [buffptr |-> a, size |-> partial_buffer.size + end - start[p] + 1])
          /\ partial_buffer' = NoEntry
      BY <1>2, <1>4
    <2>3. start' = [start EXCEPT ![p] = end + 1] /\ UNCHANGED <<pc, answer, total_size, before>>
      BY <1>2, <1>4
    <2>4. LET U == Contents \o SubSeq(call[p].buf, start[p] + 1, end + 1)
          IN  /\ SubSeq(call[p].buf, start[p] + 1, end + 1) \in Seq(Bytes)
              /\ U \in Seq(Bytes)
              /\ \E m \in Old(U) \cup {0} : Contents' = Drop(U, m)
      BY <1>1, <2>1, <2>2, LineJoined
    <2>5. /\ end + 1 \in Ends(call[p].buf)
          /\ Contents' = AtomicLog!Recent(before \o SubSeq(call[p].buf, 1, end + 1))
      BY <1>1, <2>4, LineProgress
    <2>6. /\ LogOf = before /\ loaded /\ \A q \in Procs : q # p => pc[q] \notin Writing
      BY <1>1, WriterIs DEF Writing
    <2> HIDE DEF end
    <2>7. Others(p) /\ start'[p] = end + 1
      BY <1>1, <2>3, AllTypes DEF Others
    <2>8. answer[p] = NoAnswer /\ call[p].buf # << >>
      BY <1>1 DEF AtomInv, Progress, Writing
    <2>9. Contents' = AtomicLog!Recent(before' \o SubSeq(call'[p].buf, 1, start'[p]))
      BY <1>1, <2>3, <2>5, <2>7
    <2>10. Progress(p)'
      BY <1>1, <2>3, <2>5, <2>7, <2>8, <2>9 DEF Progress
    <2>11. AtomInv'
      BY <2>6, <2>7, <2>10, OthersProgress
    <2>12. LogOf' = before
      BY <1>1, <2>3, <2>6 DEF LogOf, Writing
    <2>13. ThreadReply(p) = NULL /\ ThreadReply(p)' = NULL
      BY <1>1, <2>3 DEF ThreadReply, Answered
    <2>14. ReplyOf' = ReplyOf
      BY <2>7, <2>13, SameReply
    <2>15. QED
      BY <1>1, <2>6, <2>11, <2>12, <2>14 DEF Refined, Follows
  <1>5. QED
    BY <1>3, <1>4

(* The end of the buffer: all of it is in the log.                         *)
LEMMA WriterSucceeds ==
  ASSUME DriverInv, AtomInv, NEW p \in Procs, pc[p] = "lines",
         FreeAndReturn(p, Len(call[p].buf)), UNCHANGED <<loaded, call>>,
         Contents' = AtomicLog!Recent(before \o SubSeq(call[p].buf, 1, Len(call[p].buf)))
  PROVE  Refined
  <1>0. PICK ret : ret = Len(call[p].buf)
    OBVIOUS
  <1>1. /\ pc' = [pc EXCEPT ![p] = "done"] /\ pc[p] \in Writing
        /\ answer' = [answer EXCEPT ![p] = [ret |-> ret, data |-> << >>]]
        /\ start' = [start EXCEPT ![p] = 0] /\ total_size' = total_size
    BY <1>0 DEF FreeAndReturn, UnlockAndReturn, Writing
  <1>2. /\ AtomInv' /\ LogOf' = Contents' /\ ThreadReply(p) = NULL
        /\ ReplyOf' = [ReplyOf EXCEPT ![p] = [ret |-> ret, data |-> << >>]]
    BY <1>1, WriterLeaves
  <1>3. ReplyOf' = [ReplyOf EXCEPT ![p] = [ret |-> Len(call[p].buf), data |-> << >>]]
    BY <1>0, <1>2
  <1>4. LogOf = before /\ call[p].op = "write" /\ call[p].buf \in Seq(Bytes)
    BY <1>1, WriterIs
  <1>5. SubSeq(call[p].buf, 1, Len(call[p].buf)) = call[p].buf
    BY <1>4, SubSeqFull
  <1>6. LogOf' = AtomicLog!Recent(LogOf \o call[p].buf)
    BY <1>2, <1>4, <1>5
  <1>7. call' = call
    OBVIOUS
  <1>8. Follows
    BY <1>2, <1>3, <1>4, <1>6, <1>7, StepAccept
  <1>9. QED
    BY <1>2, <1>8 DEF Refined

LEMMA WriteTailRefined ==
  ASSUME DriverInv, AtomInv, DriverInv', NEW p \in Procs, WriteTail(p)
  PROVE  Refined
  <1> DEFINE buf == call[p].buf
             s == start[p]
             mem == allocated_memory[p]
  <1>1. pc[p] = "lines" /\ UNCHANGED <<loaded, call>>
    BY DEF WriteTail, module
  <1>2. Contents = AtomicLog!Recent(before \o SubSeq(buf, 1, s))
    BY <1>1 DEF AtomInv, Progress
  <1>3. CASE /\ s = Len(buf) /\ FreeAndReturn(p, Len(buf)) /\ heap' = kfree({mem}, heap)
             /\ UNCHANGED <<c_buffer, partial_buffer>>
    <2>1. Contents' = Contents
      BY <1>1, <1>3, CopyFreed
    <2>2. Contents' = AtomicLog!Recent(before \o SubSeq(buf, 1, Len(buf)))
      BY <1>2, <1>3, <2>1
    <2>3. QED
      BY <1>1, <1>3, <2>2, WriterSucceeds
  <1>4. CASE s < Len(buf) /\ JoinFails(p)
    BY <1>1, <1>4, JoinFailsRefined
  <1>5. ASSUME NEW a \in Addrs, heap[a] = Free, s < Len(buf), FreeAndReturn(p, Len(buf)),
               heap' = [kfree(OldPartial \cup {mem}, heap)
                          EXCEPT ![a] = Joined(p, Len(buf) - 1)],
               partial_buffer' = [buffptr |-> a,
                                  size |-> partial_buffer.size + Len(buf) - s],
               c_buffer' = c_buffer
        PROVE  Refined
    <2>1. /\ SubSeq(buf, s + 1, Len(buf)) \in Seq(Bytes)
          /\ Contents' = Contents \o SubSeq(buf, s + 1, Len(buf))
      BY <1>1, <1>5, TailJoined
    <2>2. /\ buf \in Seq(Bytes) /\ before \in Seq(Bytes) /\ loaded
          /\ s \in Nat /\ s <= Len(buf) /\ Len(buf) \in Nat
      BY <1>1, LineEndsAre, AllTypes, InCallIs
    <2>3. KeepsAll'
      BY <1>1, <2>2, ContentsKeptNext
    <2>4. PICK c, b, u, k, t : /\ c = Contents /\ b = before /\ u = buf /\ k = s
                               /\ t = SubSeq(u, k + 1, Len(u))
      OBVIOUS
    <2>5. Grows(b, u, k, Len(u), c, t)
      BY <1>2, <2>1, <2>2, <2>4 DEF Grows
    <2>6. AtomicLog!Recent(c \o t) = AtomicLog!Recent(b \o SubSeq(u, 1, Len(u)))
      BY <2>5, LogGrows
    <2>7. PICK d : d = Contents'
      OBVIOUS
    <2>8. AtomicLog!Recent(d) = d /\ d = c \o t
      BY <2>1, <2>3, <2>4, <2>7 DEF KeepsAll
    <2>9. d = AtomicLog!Recent(b \o SubSeq(u, 1, Len(u)))
      BY <2>6, <2>8
    <2>10. Contents' = AtomicLog!Recent(before \o SubSeq(buf, 1, Len(buf)))
      BY <2>4, <2>7, <2>9
    <2>11. QED
      BY <1>1, <1>5, <2>10, WriterSucceeds
  <1>6. QED
    <2>1. \/ /\ s = Len(buf) /\ FreeAndReturn(p, Len(buf)) /\ heap' = kfree({mem}, heap)
             /\ UNCHANGED <<c_buffer, partial_buffer>>
          \/ /\ s < Len(buf)
             /\ \E a \in Block :
                  /\ kmalloc(a)
                  /\ \/ a = NULL /\ JoinFails(p)
                     \/ /\ a # NULL
                        /\ FreeAndReturn(p, Len(buf))
                        /\ heap' = [kfree(OldPartial \cup {mem}, heap)
                                     EXCEPT ![a] = Joined(p, Len(buf) - 1)]
                        /\ partial_buffer' =
                             [buffptr |-> a, size |-> partial_buffer.size + Len(buf) - s]
                        /\ UNCHANGED c_buffer
      BY DEF WriteTail
    <2>2. \A a \in Block : kmalloc(a) /\ a # NULL => a \in Addrs /\ heap[a] = Free
      BY DEF kmalloc
    <2>3. QED
      BY <1>3, <1>4, <1>5, <2>1, <2>2

LEMMA WriteRefined ==
  ASSUME DriverInv, AtomInv, DriverInv', NEW p \in Procs, aesd_write(p)
  PROVE  Refined
  <1>1. CASE \E f \in Files, buf \in Payloads : WriteEnter(p, f, buf)
    BY <1>1, WriteEnterRefined
  <1>2. CASE Interrupted(p, "write_lock")
    BY <1>2, InterruptedRefined
  <1>3. QED
    BY <1>1, <1>2, WriteLockRefined, WriteStageRefined, WriteLineRefined, WriteTailRefined
       DEF aesd_write

-----------------------------------------------------------------------------
(* The refinement: the driver starts as an empty log, and every step of it *)
(* is one of the log's or none.                                            *)
LEMMA InitRefined ==
  ASSUME Init
  PROVE  AtomInv /\ AtomicLog!Init
  <1>1. AtomInv
    BY DEF Init, AtomInv, Progress, Writing
  <1>2. LogOf = << >>
    BY DEF Init, LogOf
  <1>3. ReplyOf = [p \in Procs |-> NULL]
    BY DEF Init, ReplyOf, ThreadReply, Answered
  <1>4. AtomicLog!Init
    BY <1>2, <1>3 DEF Init, AtomicLog!Init, LogOf, ReplyOf, ThreadReply, Writing
  <1>5. QED
    BY <1>1, <1>4

LEMMA NextRefined ==
  ASSUME DriverInv, AtomInv, DriverInv', [Next]_vars
  PROVE  Refined
  <1>1. ASSUME NEW p \in Procs,
               \/ aesd_read(p) \/ aesd_write(p)
               \/ aesd_lseek(p) \/ aesd_ioctl(p)
               \/ SysReturn(p)
        PROVE  Refined
    BY <1>1, ReadRefined, WriteRefined, LseekRefined, IoctlRefined, ReturnRefined
  <1>2. ASSUME NEW f \in Files, aesd_open(f) \/ aesd_release(f)
        PROVE  Refined
    <2>1. UNCHANGED <<loaded, dev, pc, call, start, total_size, answer, before>>
      BY <1>2 DEF aesd_open, aesd_release, module, locals
    <2>2. QED
      BY <2>1, StillRefined
  <1>3. CASE aesd_init_module \/ aesd_cleanup_module
    BY <1>3, ModuleRefined
  <1>4. CASE UNCHANGED vars
    <2>1. UNCHANGED <<loaded, dev, pc, call, start, total_size, answer, before>>
      BY <1>4 DEF vars, module, locals, dev
    <2>2. QED
      BY <2>1, StillRefined
  <1>5. QED
    BY <1>1, <1>2, <1>3, <1>4 DEF Next

(* The system calls of concurrent threads are atomic: every behaviour of   *)
(* the driver, whichever of its allocations and user copies fail and       *)
(* wherever a signal or an unload comes between, is one of a log of bytes  *)
(* to which each call is a single step, for any number of threads, files,  *)
(* blocks and lines kept.                                                  *)
THEOREM AtomicDeviceHolds == Spec => AtomicDevice
  <1>1. Init => AtomInv /\ AtomicLog!Init
    BY InitRefined
  <1>2. DriverInv /\ AtomInv /\ DriverInv' /\ [Next]_vars =>
          AtomInv' /\ [AtomicLog!Next]_(AtomicLog!vars)
    BY NextRefined, FollowsIs DEF Refined
  <1>3. QED
    BY <1>1, <1>2, DriverInvHolds, PTL DEF Spec, AtomicDevice, AtomicLog!Spec
=============================================================================
