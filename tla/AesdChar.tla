------------------------------ MODULE AesdChar ------------------------------
(***************************************************************************)
(* The character device driver aesd-char-driver/main.c: threads that call  *)
(* read, write, llseek and ioctl on open files of /dev/aesdchar, the       *)
(* driver's mutex, the circular buffer of complete lines, the partial line *)
(* that waits for its end, the kernel memory they own, and the loading and *)
(* unloading of the module.                                                *)
(*                                                                         *)
(* A handler is split where other threads can run between two of its       *)
(* steps or where it can return.  The kernel around the driver (VFS, slab, *)
(* user copies, mutex) is modelled from how main.c uses it.                *)
(***************************************************************************)
EXTENDS CircularBuffer, SequencesExt

CONSTANTS
  Procs,     \* threads in system calls
  Files,     \* struct file objects
  Addrs,     \* blocks kmalloc can hand out
  Free,      \* content of a block that is not allocated
  Nobody,    \* "the mutex is not held"
  NL,        \* END_CHARACTER
  Bytes,     \* the byte values, NL included
  Payloads,  \* user buffers passed to write
  Counts,    \* byte counts passed to read
  Seeks,     \* [off, whence] passed to llseek
  SeekTos    \* [write_cmd, write_cmd_offset] passed to ioctl

CONSTANTS
  MaxPartial \* bound: no newline-less write on a partial line this long

ASSUME AesdAssumption ==
  /\ NULL \notin Addrs \cup Nat
  /\ NULL \notin [buffptr : Addrs \cup {NULL}, size : Nat]
  /\ NULL \notin [slot : Nat, offset : Nat] \cup [ret : Int, data : Seq(Bytes)]
  /\ Nobody \notin Procs
  /\ NL \in Bytes
  /\ Free \notin Seq(Bytes)
  /\ Payloads \subseteq Seq(Bytes)
  /\ Counts \subseteq Nat
  /\ Seeks \subseteq [off : Int,
                      whence : {"SEEK_SET", "SEEK_CUR", "SEEK_END", "SEEK_DATA"}]
  /\ SeekTos \subseteq [write_cmd : Nat, write_cmd_offset : Nat]
  /\ MaxPartial \in Nat

(* The error codes the handlers return negated.                            *)
ENOMEM == 12
EFAULT == 14
EINVAL == 22
ENOTTY == 25
ERESTARTSYS == 512

VARIABLES
  loaded,            \* the module is in the kernel and its cdev is live
  region,            \* the character device region is registered
  lock,              \* holder of aesd_device.lock
  c_buffer,          \* aesd_device.c_buffer
  partial_buffer,    \* aesd_device.partial_buffer
  heap,              \* what each block holds, or Free
  f_pos,             \* f_pos of each open file, NULL for one not open
  pc,                \* where each thread is
  call,              \* arguments of each thread's system call
  allocated_memory,  \* aesd_write: the copy of the user's buffer
  start,             \* aesd_write: first byte not yet stored
  total_size,        \* aesd_lseek: the size it read under the lock
  answer,            \* what the handler returns and has copied to the user
  before             \* history: Contents when the writer took the lock

dev     == <<c_buffer, partial_buffer, heap>>
locals  == <<allocated_memory, start, total_size>>
module  == <<loaded, region>>
vars    == <<module, lock, dev, f_pos, pc, call, locals, answer, before>>

NoCall   == [op |-> "none"]
NoAnswer == [ret |-> 0, data |-> << >>]

Calls ==
  [op : {"read"}, file : Files, pos : Nat, count : Counts]
    \cup [op : {"write"}, file : Files, pos : Nat, buf : Payloads]
    \cup [op : {"lseek"}, file : Files, seek : Seeks]
    \cup [op : {"ioctl"}, file : Files, to : SeekTos]

Steps == {"idle", "done",
          "read_lock", "read",
          "write_lock", "stage", "lines",
          "lseek_lock", "size", "apply",
          "ioctl_lock", "adjust"}

(* The steps that run with aesd_device.lock held.                          *)
Critical == {"read", "stage", "lines", "size", "adjust"}

Init ==
  /\ loaded = FALSE /\ region = FALSE
  /\ lock = Nobody
  /\ c_buffer = aesd_circular_buffer_init
  /\ partial_buffer = NoEntry
  /\ heap = [a \in Addrs |-> Free]
  /\ f_pos = [f \in Files |-> NULL]
  /\ pc = [p \in Procs |-> "idle"]
  /\ call = [p \in Procs |-> NoCall]
  /\ allocated_memory = [p \in Procs |-> NULL]
  /\ start = [p \in Procs |-> 0]
  /\ total_size = [p \in Procs |-> 0]
  /\ answer = [p \in Procs |-> NoAnswer]
  /\ before = << >>

-----------------------------------------------------------------------------
(* What the device holds: the complete lines, oldest first, then the       *)
(* partial line.                                                           *)
Stored(entry) == SubSeq(heap[entry.buffptr], 1, entry.size)
PartialBytes == IF partial_buffer.size = 0 THEN << >> ELSE Stored(partial_buffer)
LineBytes == [k \in 1 .. EntryCount(c_buffer) |-> Stored(Window(c_buffer)[k])]
Contents == FlattenSeq(LineBytes) \o PartialBytes

(* kmalloc returns any free block or, whenever it likes, NULL.             *)
kmalloc(a) == a = NULL \/ (a \in Addrs /\ heap[a] = Free)
Block == Addrs \cup {NULL}

kfree(blocks, mem) ==
  [a \in Addrs |-> IF a \in blocks THEN Free ELSE mem[a]]

-----------------------------------------------------------------------------
(* The start of a system call: the VFS hands read and write a copy of the  *)
(* file position, and (for a character device) takes no lock on it.        *)
Enter(p, c, step) ==
  /\ loaded /\ pc[p] = "idle" /\ f_pos[c.file] # NULL
  /\ pc' = [pc EXCEPT ![p] = step]
  /\ call' = [call EXCEPT ![p] = c]
  /\ UNCHANGED <<module, lock, dev, f_pos, locals, before>>

(* A handler that goes on to take the lock, and one that returns at once.  *)
EnterHandler(p, c, step) == Enter(p, c, step) /\ UNCHANGED answer
EnterAndReturn(p, c, ret) ==
  Enter(p, c, "done") /\ answer' = [answer EXCEPT ![p].ret = ret]

(* mutex_lock_interruptible: the lock, or -ERESTARTSYS when a signal comes *)
(* first.                                                                  *)
TakeLock(p, from, to) ==
  /\ pc[p] = from /\ lock = Nobody
  /\ lock' = p
  /\ pc' = [pc EXCEPT ![p] = to]
  /\ UNCHANGED <<module, dev, f_pos, call, locals, answer>>

Interrupted(p, from) ==
  /\ pc[p] = from
  /\ pc' = [pc EXCEPT ![p] = "done"]
  /\ answer' = [answer EXCEPT ![p].ret = -ERESTARTSYS]
  /\ UNCHANGED <<module, lock, dev, f_pos, call, locals, before>>

(* mutex_unlock, then return ret with data copied to the user.             *)
UnlockAndReturn(p, ret, data) ==
  /\ lock' = Nobody
  /\ pc' = [pc EXCEPT ![p] = "done"]
  /\ answer' = [answer EXCEPT ![p] = [ret |-> ret, data |-> data]]

(* Back in user space.  The VFS stores the position of a read or write     *)
(* that did not fail back into the file; only read has moved it.           *)
SysReturn(p) ==
  LET c   == call[p]
      ret == answer[p].ret
  IN  /\ pc[p] = "done"
      /\ f_pos' = CASE c.op = "read" /\ ret >= 0  -> [f_pos EXCEPT ![c.file] = c.pos + ret]
                    [] c.op = "write" /\ ret >= 0 -> [f_pos EXCEPT ![c.file] = c.pos]
                    [] OTHER                      -> f_pos
      /\ pc' = [pc EXCEPT ![p] = "idle"]
      /\ call' = [call EXCEPT ![p] = NoCall]
      /\ answer' = [answer EXCEPT ![p] = NoAnswer]
      /\ total_size' = [total_size EXCEPT ![p] = 0]
      /\ UNCHANGED <<module, lock, dev, allocated_memory, start, before>>

-----------------------------------------------------------------------------
(* aesd_read: at most one line, from the position to the line's end.       *)
ReadEnter(p, f, n) ==
  EnterHandler(p, [op |-> "read", file |-> f, pos |-> f_pos[f], count |-> n],
               "read_lock")

(* Mutant of ReadBytes: entry_offset is not added to the source address.   *)
ReadBytes_FromLineStart(c) ==
  LET found == aesd_circular_buffer_find_entry_offset_for_fpos(c_buffer, c.pos)
      entry == c_buffer.entry[found.slot]
  IN  IF found = NULL THEN << >>
      ELSE SubSeq(heap[entry.buffptr], 1, Min({c.count, entry.size - found.offset}))

(* The bytes aesd_read copies once it holds the lock.                      *)
ReadBytes(c) ==
  LET found == aesd_circular_buffer_find_entry_offset_for_fpos(c_buffer, c.pos)
      entry == c_buffer.entry[found.slot]
      count == IF c.count + found.offset >= entry.size
                 THEN entry.size - found.offset ELSE c.count
  IN  IF found = NULL THEN << >>
      ELSE SubSeq(heap[entry.buffptr], found.offset + 1, found.offset + count)

ReadBody(p) ==
  /\ pc[p] = "read"
  /\ \/ UnlockAndReturn(p, Len(ReadBytes(call[p])), ReadBytes(call[p]))
     \/ /\ ReadBytes(call[p]) # << >>
        /\ UnlockAndReturn(p, -EFAULT, << >>)      \* copy_to_user failed
  /\ UNCHANGED <<module, dev, f_pos, call, locals, before>>

aesd_read(p) ==
  \/ \E f \in Files, n \in Counts : ReadEnter(p, f, n)
  \/ TakeLock(p, "read_lock", "read") /\ UNCHANGED before
  \/ Interrupted(p, "read_lock")
  \/ ReadBody(p)

-----------------------------------------------------------------------------
(* aesd_write.                                                             *)
WriteEnter(p, f, buf) ==
  LET c == [op |-> "write", file |-> f, pos |-> f_pos[f], buf |-> buf]
  IN  /\ NL \in Range(buf) \/ partial_buffer.size < MaxPartial
      /\ IF buf = << >> THEN EnterAndReturn(p, c, 0)
                        ELSE EnterHandler(p, c, "write_lock")

WriteLock(p) ==
  /\ TakeLock(p, "write_lock", "stage")
  /\ before' = Contents

(* Mutant of FreeAndReturn: mutex_unlock missing on the way out.           *)
FreeAndReturn_KeepsLock(p, ret) ==
  /\ UNCHANGED lock
  /\ pc' = [pc EXCEPT ![p] = "done"]
  /\ answer' = [answer EXCEPT ![p].ret = ret]
  /\ allocated_memory' = [allocated_memory EXCEPT ![p] = NULL]
  /\ start' = [start EXCEPT ![p] = 0]
  /\ before' = << >>
  /\ UNCHANGED total_size

(* Every return of aesd_write that holds the lock: its locals go out of    *)
(* scope, the copy of the user's buffer is freed by the caller.            *)
FreeAndReturn(p, ret) ==
  /\ UnlockAndReturn(p, ret, << >>)
  /\ allocated_memory' = [allocated_memory EXCEPT ![p] = NULL]
  /\ start' = [start EXCEPT ![p] = 0]
  /\ before' = << >>
  /\ UNCHANGED total_size

(* The copy of the user's buffer.  kmalloc or copy_from_user may fail; the *)
(* latter frees the block just allocated.                                  *)
WriteStage(p) ==
  /\ pc[p] = "stage"
  /\ \/ \E ret \in {-ENOMEM, -EFAULT} : FreeAndReturn(p, ret) /\ UNCHANGED heap
     \/ \E a \in Addrs :
          /\ kmalloc(a)
          /\ heap' = [heap EXCEPT ![a] = call[p].buf]
          /\ allocated_memory' = [allocated_memory EXCEPT ![p] = a]
          /\ pc' = [pc EXCEPT ![p] = "lines"]
          /\ UNCHANGED <<lock, start, total_size, answer, before>>
  /\ UNCHANGED <<module, c_buffer, partial_buffer, f_pos, call>>

(* Mutant of LineEnds: the loop stops one byte early.                      *)
LineEnds_OffByOne(p) ==
  {j \in start[p] .. Len(call[p].buf) - 2 :
      heap[allocated_memory[p]][j + 1] = NL}

(* The positions of the line ends not yet handled, counted from 0.         *)
LineEnds(p) ==
  {j \in start[p] .. Len(call[p].buf) - 1 :
      heap[allocated_memory[p]][j + 1] = NL}

(* The partial line with the bytes from start to last of the copy added.   *)
Joined(p, last) ==
  PartialBytes \o SubSeq(heap[allocated_memory[p]], start[p] + 1, last + 1)

(* Mutant of JoinFails: the failed allocation is reported as success.      *)
JoinFails_Silently(p) ==
  /\ FreeAndReturn(p, Len(call[p].buf))
  /\ heap' = kfree({allocated_memory[p]}, heap)
  /\ UNCHANGED <<c_buffer, partial_buffer>>

(* kmalloc for the joined line failed: aesd_write returns what it has      *)
(* stored so far as -ENOMEM.  With no partial line the NULL goes straight  *)
(* into partial_buffer.buffptr.                                            *)
JoinFails(p) ==
  /\ FreeAndReturn(p, -ENOMEM)
  /\ heap' = kfree({allocated_memory[p]}, heap)
  /\ partial_buffer' = [partial_buffer EXCEPT
       !.buffptr = IF partial_buffer.size = 0 THEN NULL ELSE @]
  /\ UNCHANGED c_buffer

(* The old block of a partial line that was joined.                        *)
OldPartial == IF partial_buffer.size = 0 THEN {} ELSE {partial_buffer.buffptr}

(* One line end met by the loop: the line, with the partial line in front, *)
(* becomes an entry; the entry it displaces is freed.                      *)
WriteLine(p) ==
  LET end  == Min(LineEnds(p))
      old  == overwritten_entry(c_buffer)
      gone == OldPartial \cup (IF old = NULL THEN {} ELSE {old.buffptr})
  IN  /\ pc[p] = "lines" /\ LineEnds(p) # {}
      /\ \E a \in Block :
           /\ kmalloc(a)
           /\ \/ a = NULL /\ JoinFails(p)
              \/ /\ a # NULL
                 /\ heap' = [kfree(gone, heap) EXCEPT ![a] = Joined(p, end)]
                 /\ c_buffer' = aesd_circular_buffer_add_entry(c_buffer,
                      [buffptr |-> a,
                       size |-> partial_buffer.size + end - start[p] + 1])
                 /\ partial_buffer' = NoEntry
                 /\ start' = [start EXCEPT ![p] = end + 1]
                 /\ UNCHANGED <<lock, pc, answer, allocated_memory, total_size, before>>
      /\ UNCHANGED <<module, f_pos, call>>

(* After the loop: bytes behind the last line end join the partial line.   *)
WriteTail(p) ==
  LET count == Len(call[p].buf)
      mem   == allocated_memory[p]
  IN  /\ pc[p] = "lines" /\ LineEnds(p) = {}
      /\ \/ /\ start[p] = count
            /\ FreeAndReturn(p, count)
            /\ heap' = kfree({mem}, heap)
            /\ UNCHANGED <<c_buffer, partial_buffer>>
         \/ /\ start[p] < count
            /\ \E a \in Block :
                 /\ kmalloc(a)
                 /\ \/ a = NULL /\ JoinFails(p)
                    \/ /\ a # NULL
                       /\ FreeAndReturn(p, count)
                       /\ heap' = [kfree(OldPartial \cup {mem}, heap)
                                    EXCEPT ![a] = Joined(p, count - 1)]
                       /\ partial_buffer' =
                            [buffptr |-> a,
                             size |-> partial_buffer.size + count - start[p]]
                       /\ UNCHANGED c_buffer
      /\ UNCHANGED <<module, f_pos, call>>

aesd_write(p) ==
  \/ \E f \in Files, buf \in Payloads : WriteEnter(p, f, buf)
  \/ WriteLock(p)
  \/ Interrupted(p, "write_lock")
  \/ WriteStage(p)
  \/ WriteLine(p)
  \/ WriteTail(p)

-----------------------------------------------------------------------------
(* fixed_size_llseek: the position, or -EINVAL.                            *)
fixed_size_llseek(pos, seek, size) ==
  LET target == CASE seek.whence = "SEEK_SET" -> seek.off
                  [] seek.whence = "SEEK_CUR" -> pos + seek.off
                  [] seek.whence = "SEEK_END" -> size + seek.off
                  [] OTHER                    -> -1
  IN  IF seek = [off |-> 0, whence |-> "SEEK_CUR"] THEN pos
      ELSE IF target \in 0 .. size THEN target ELSE -EINVAL

LseekEnter(p, f, s) ==
  EnterHandler(p, [op |-> "lseek", file |-> f, seek |-> s], "lseek_lock")

(* Mutant of LseekSize: returns without mutex_unlock.                      *)
LseekSize_KeepsLock(p) ==
  /\ pc[p] = "size"
  /\ total_size' = [total_size EXCEPT ![p] = get_total_size(c_buffer)]
  /\ pc' = [pc EXCEPT ![p] = "apply"]
  /\ UNCHANGED <<module, lock, dev, f_pos, call, allocated_memory, start, answer, before>>

(* The size is read under the lock and used after it is given back.        *)
LseekSize(p) ==
  /\ pc[p] = "size"
  /\ total_size' = [total_size EXCEPT ![p] = get_total_size(c_buffer)]
  /\ lock' = Nobody
  /\ pc' = [pc EXCEPT ![p] = "apply"]
  /\ UNCHANGED <<module, dev, f_pos, call, allocated_memory, start, answer, before>>

LseekApply(p) ==
  LET f   == call[p].file
      pos == fixed_size_llseek(f_pos[f], call[p].seek, total_size[p])
  IN  /\ pc[p] = "apply"
      /\ f_pos' = [f_pos EXCEPT ![f] = IF pos < 0 THEN @ ELSE pos]
      /\ pc' = [pc EXCEPT ![p] = "done"]
      /\ answer' = [answer EXCEPT ![p].ret = pos]
      /\ UNCHANGED <<module, lock, dev, call, locals, before>>

aesd_lseek(p) ==
  \/ \E f \in Files, s \in Seeks : LseekEnter(p, f, s)
  \/ TakeLock(p, "lseek_lock", "size") /\ UNCHANGED before
  \/ Interrupted(p, "lseek_lock")
  \/ LseekSize(p)
  \/ LseekApply(p)

-----------------------------------------------------------------------------
(* aesd_ioctl: an unknown command and an unreadable argument return before *)
(* the lock is taken.                                                      *)
IoctlEnter(p, f, to) ==
  LET c == [op |-> "ioctl", file |-> f, to |-> to]
  IN  \/ EnterHandler(p, c, "ioctl_lock")
      \/ \E ret \in {-ENOTTY, -EFAULT} : EnterAndReturn(p, c, ret)

IoctlAdjust(p) ==
  LET to  == call[p].to
      pos == adjust_aesd_file_offset(c_buffer, to.write_cmd, to.write_cmd_offset)
  IN  /\ pc[p] = "adjust"
      /\ f_pos' = [f_pos EXCEPT ![call[p].file] = IF pos = NULL THEN @ ELSE pos]
      /\ UnlockAndReturn(p, IF pos = NULL THEN -EINVAL ELSE pos, << >>)
      /\ UNCHANGED <<module, dev, call, locals, before>>

aesd_ioctl(p) ==
  \/ \E f \in Files, to \in SeekTos : IoctlEnter(p, f, to)
  \/ TakeLock(p, "ioctl_lock", "adjust") /\ UNCHANGED before
  \/ Interrupted(p, "ioctl_lock")
  \/ IoctlAdjust(p)

-----------------------------------------------------------------------------
(* Opening and closing files.  The VFS releases a file only when no system *)
(* call is using it.                                                       *)
aesd_open(f) ==
  /\ loaded /\ f_pos[f] = NULL
  /\ f_pos' = [f_pos EXCEPT ![f] = 0]
  /\ UNCHANGED <<module, lock, dev, pc, call, locals, answer, before>>

aesd_release(f) ==
  /\ f_pos[f] # NULL
  /\ f \notin {call[p].file : p \in {q \in Procs : pc[q] # "idle"}}
  /\ f_pos' = [f_pos EXCEPT ![f] = NULL]
  /\ UNCHANGED <<module, lock, dev, pc, call, locals, answer, before>>

(* Loading the module.  alloc_chrdev_region may fail, with nothing done;   *)
(* then the device is zeroed, and when cdev_add fails the region is given  *)
(* back.                                                                   *)
aesd_init_module ==
  /\ ~loaded
  /\ \/ UNCHANGED <<module, c_buffer, partial_buffer>>
     \/ /\ \E err \in BOOLEAN : loaded' = ~err /\ region' = ~err
        /\ c_buffer' = aesd_circular_buffer_init
        /\ partial_buffer' = NoEntry
  /\ UNCHANGED <<lock, heap, f_pos, pc, call, locals, answer, before>>

(* Mutant of DeviceBlocks: the partial line is forgotten.                  *)
DeviceBlocks_NoPartial == {c_buffer.entry[i].buffptr : i \in Slots}

(* What aesd_cleanup_module passes to kfree, through aesd_trim and itself. *)
DeviceBlocks ==
  {c_buffer.entry[i].buffptr : i \in Slots} \cup {partial_buffer.buffptr}

(* Unloading it, which the kernel refuses while a file is open: the lines  *)
(* and the partial line are freed, the pointer to the latter stays behind. *)
aesd_cleanup_module ==
  /\ loaded /\ lock = Nobody /\ \A f \in Files : f_pos[f] = NULL
  /\ heap' = kfree(DeviceBlocks, heap)
  /\ c_buffer' = aesd_trim(c_buffer)
  /\ loaded' = FALSE /\ region' = FALSE
  /\ UNCHANGED <<lock, partial_buffer, f_pos, pc, call, locals, answer, before>>

Next ==
  \/ \E p \in Procs : \/ aesd_read(p) \/ aesd_write(p)
                      \/ aesd_lseek(p) \/ aesd_ioctl(p)
                      \/ SysReturn(p)
  \/ \E f \in Files : aesd_open(f) \/ aesd_release(f)
  \/ aesd_init_module
  \/ aesd_cleanup_module

Spec == Init /\ [][Next]_vars

(* The scheduler runs every thread that can run, and the kernel mutex is   *)
(* handed to every waiter in turn.  No signal is ever promised, and nobody *)
(* has to open files, make calls or load the module.                       *)
LockSteps(p) ==
  \/ TakeLock(p, "read_lock", "read") /\ UNCHANGED before
  \/ WriteLock(p)
  \/ TakeLock(p, "lseek_lock", "size") /\ UNCHANGED before
  \/ TakeLock(p, "ioctl_lock", "adjust") /\ UNCHANGED before

RunSteps(p) ==
  \/ ReadBody(p) \/ WriteStage(p) \/ WriteLine(p) \/ WriteTail(p)
  \/ LseekSize(p) \/ LseekApply(p) \/ IoctlAdjust(p) \/ SysReturn(p)

Fairness == \A p \in Procs : WF_vars(RunSteps(p)) /\ SF_vars(LockSteps(p))

FairSpec == Spec /\ Fairness

-----------------------------------------------------------------------------
Entry == [buffptr : Block, size : Nat]

(* The types of the device, the kernel's and the threads' state.           *)
TypeOK ==
  /\ loaded \in BOOLEAN /\ region \in BOOLEAN
  /\ lock \in Procs \cup {Nobody}
  /\ c_buffer \in [entry : [Slots -> Entry],
                   in_offs : Slots, out_offs : Slots, full : BOOLEAN]
  /\ partial_buffer \in Entry
  /\ heap \in [Addrs -> Seq(Bytes) \cup {Free}]
  /\ f_pos \in [Files -> Nat \cup {NULL}]
  /\ pc \in [Procs -> Steps]
  /\ call \in [Procs -> Calls \cup {NoCall}]
  /\ allocated_memory \in [Procs -> Block]
  /\ start \in [Procs -> Nat]
  /\ total_size \in [Procs -> Nat]
  /\ answer \in [Procs -> [ret : Int, data : Seq(Bytes)]]
  /\ before \in Seq(Bytes)

(* The mutex is held by exactly the thread that is between its             *)
(* mutex_lock_interruptible and one of the handler's many unlocking        *)
(* returns; so at most one thread touches the buffers, and no error path   *)
(* keeps the lock.                                                         *)
LockDiscipline ==
  \A p \in Procs : pc[p] \in Critical <=> lock = p

(* The pointers through which a block can still be freed: the ring's       *)
(* entries, the partial line, the writer's copy of its buffer.             *)
Owners ==
  {<<"entry", i>> : i \in {s \in Slots : c_buffer.entry[s].buffptr # NULL}}
    \cup (IF partial_buffer.buffptr = NULL THEN {} ELSE {<<"partial", 0>>})
    \cup {<<"copy", p>> : p \in {q \in Procs : allocated_memory[q] # NULL}}

Owned(o) ==
  CASE o[1] = "entry"   -> c_buffer.entry[o[2]]
    [] o[1] = "partial" -> partial_buffer
    [] o[1] = "copy"    -> [buffptr |-> allocated_memory[o[2]],
                            size |-> Len(call[o[2]].buf)]

(* Kernel memory: every allocated block has exactly one owner, which knows *)
(* its size, and no owner points at freed memory: no leak, no double free, *)
(* no use after free through all the error returns, evictions and reloads. *)
(* An unloaded module leaves neither memory nor its device region behind.  *)
MemoryOwned ==
  /\ loaded =>
       /\ {a \in Addrs : heap[a] # Free} = {Owned(o).buffptr : o \in Owners}
       /\ \A o1, o2 \in Owners :
            Owned(o1).buffptr = Owned(o2).buffptr => o1 = o2
       /\ \A o \in Owners : Len(heap[Owned(o).buffptr]) = Owned(o).size
  /\ ~loaded => \A a \in Addrs : heap[a] = Free
  /\ region = loaded

(* Every entry of the ring is one whole line, newline last, and what waits *)
(* in the partial buffer has no newline: what makes a read stop at a line  *)
(* end and a seek by command number count lines, however the writes were   *)
(* cut and whichever of their allocations failed.                          *)
EntriesAreLines ==
  loaded =>
    /\ \A k \in DOMAIN LineBytes :
         {i \in DOMAIN LineBytes[k] : LineBytes[k][i] = NL} = {Len(LineBytes[k])}
    /\ NL \notin Range(PartialBytes)

(* The device as an atomic log: while a writer is between two lines of its *)
(* buffer, the log is still what it was when it took the lock.             *)
Answered(p) == pc[p] = "done" \/ pc[p] = "apply"

AtomicLog ==
  INSTANCE CommandLog WITH
    log <- IF ~loaded THEN << >>
           ELSE IF \E p \in Procs : pc[p] \in {"stage", "lines"} THEN before
           ELSE Contents,
    NoReply <- NULL,
    reply <- [p \in Procs |->
                IF ~Answered(p) THEN NULL
                ELSE IF call[p].op = "lseek" /\ answer[p].ret # -ERESTARTSYS
                  THEN [ret |-> total_size[p], data |-> << >>]
                  ELSE answer[p]]

(* Reads, writes and seeks by concurrent threads behave as if each were    *)
(* one step on a log of bytes of which the last MAX lines are kept: a read *)
(* returns the bytes that stand at its position and never part of a        *)
(* concurrent write; a write enters as a whole, or on -ENOMEM as some of   *)
(* its leading lines; any other failure leaves no trace.                   *)
AtomicDevice == AtomicLog!Spec

(* Every system call returns, whatever the other threads are doing and     *)
(* whichever allocations and copies fail.                                  *)
CallsReturn == \A p \in Procs : pc[p] # "idle" ~> pc[p] = "idle"
=============================================================================
