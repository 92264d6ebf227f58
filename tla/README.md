# A verification of the AESD character device and its users

The repository holds a Linux character device driver that remembers the last
ten lines written to it (`aesd-char-driver/`), a multi-threaded socket server
that serves that device (`server/`), and a few course programs. This directory
models the parts that keep state, checks the models with TLC on small instances
and proves the central facts with TLAPS for every size.

## 1. Inventory

| part | state | operations | what is hard |
|---|---|---|---|
| circular buffer, `aesd-circular-buffer.c` | ten entries (pointer, size), `in_offs`, `out_offs`, `full` | `init`, `add_entry`, `find_entry_offset_for_fpos`; `aesd_trim`, `get_total_size`, `adjust_aesd_file_offset` of `main.c` compute on it | wrapping, full against empty, the lookup scanning from `in_offs` and the seek from `out_offs`, handing back the right entry to free |
| driver, `main.c` | the mutex, the ring, the partial line, kernel memory, each open file's position, threads in system calls | `open`, `release`, `read`, `write`, `llseek`, `ioctl`, load, unload | concurrent calls, fifteen unlocks, memory owned by three kinds of pointers, allocation failing half-way through a write, the size used after the unlock, the VFS copying the position |
| server connections, `socket_core.c` | `to_write` (the reply all connections share), `reply_mutex`, `file_mutex`, the one device file | `connection_handler`, `socket_listen` | the shared buffer reallocated by one thread while another writes it out, seek and read on a shared position, clients that reset |
| thread list, `linkedlist.c`, `joining_thread_handler` | the list of finished threads, its mutex, a condition variable | insert, remove, set status, get, print, free; take the head, join | nodes published before they are linked, walks without the mutex, a joiner that does not take it, signals sent while the joiner is busy, spurious wake-ups, ids that are used again |
| set-up and signal handling, `aesdsocket.c`, `signal_handler.c` | - | starts the server; frees the shared buffer and the list, exits | runs on top of a thread that uses both, during set-up too, and on top of itself |
| timer, `aesdsocket.c` | - | appends a date every 10 s (build without the device only) | same shared buffer, which it does not enlarge |
| system call wrappers, `systemcalls.c` | two processes | `do_system`, `do_exec`, `do_exec_redirect` | failures in parent or child |
| scripts, `finder-app`, `queue.h`, experiments | none worth a model | - | - |

How they interact: a connection appends what it received to `to_write`, sends
the whole of it back, and writes it to the device through one shared file; or,
on a seek request, calls the device's `ioctl` and reads from there to the end.
Every device call goes through the VFS into a handler of `main.c`, which takes
the device's mutex, works on the ring, and returns.

What makes each part correct:

* *ring*: it is a first-in first-out window over the last ten commands, and all
  the ways to number its bytes agree;
* *driver*: to its users it is one log of bytes on which every call is atomic,
  whatever fails inside; memory has exactly one owner; every call returns;
* *server*: replies contain whole messages in one common order; seek and read
  are not separated; every client that ends its message is served;
* *thread list*: a sequence on which every function is atomic; every finished
  thread is joined once and its node freed once; no thread is kept from ending.

`PROJECT.json` lists every hazard at its line with the properties aimed at it.

## 2. Modules

* `CircularBuffer` - the ring as a record, every C function on it as an
  operator with the C name. Loops are written as what they compute: the lookup
  is decided by the first iteration that gives up or hits (`ScanGivesUp`,
  `ScanHits`), the sums are a recursive function and folds. An `..._OffByOne`
  or similar definition marked *Mutant* is a wrong version of the definition
  below it; the runs reject each of them.
* `CircularBufferSpec` - the ring as a state machine (`Add`, `Trim`) and its
  properties. The queries are checked in every state rather than being actions.
* `CommandWindow` - what the ring promises: a queue of at most `MAX` commands.
* `AesdChar` - the driver. Each handler is split where another thread can run
  or where it can return early:

  | code | actions |
  |---|---|
  | `aesd_read` | `ReadEnter`, lock or signal, `ReadBody` |
  | `aesd_write` | `WriteEnter`, `WriteLock` or signal, `WriteStage` (copy of the user's buffer), `WriteLine` (once per newline), `WriteTail` |
  | `aesd_lseek` | `LseekEnter`, lock or signal, `LseekSize`, `LseekApply` (after the unlock) |
  | `aesd_ioctl`, `adjust_aesd_file_offset` | `IoctlEnter`, lock or signal, `IoctlAdjust` |
  | `aesd_open`, `aesd_release`, `aesd_init_module`, `aesd_cleanup_module` | same names |

  `heap` maps blocks to the bytes they hold or to `Free`; `kmalloc` may return
  any free block or fail at any time. The VFS is modelled from how the driver
  uses it: read and write get a copy of the file position at entry (`call.pos`)
  and a call that did not fail stores it back at the end (`SysReturn`), without
  any lock, as the kernel does for character devices. `before` is a history
  variable: what the device held when the writer took the lock.
* `CommandLog` - what the driver promises: one log of bytes; every call takes
  effect in one step between its start and its return. Lines, positions and
  evictions are defined on the log alone by looking for newlines (`LineLog`), so
  nothing of the ring, the partial line or the memory is in it.
* `AesdSocket` - the server's connections and the timer, over the log of
  `LineLog`: what the driver is shown to implement is what the server is
  checked against. `build` tells the program with `USE_AESD_CHAR_DEVICE` (what
  the Makefile builds) from the one with a regular file, where the seek's
  `ioctl` fails and `printing_time` runs. One thread per connection,
  `connection_handler` split at every mutex, system call and byte of `strcat`:

  | `socket_core.c` | actions |
  |---|---|
  | 101-175, the loop around `read` | `ReadText`, `ReadSeek`, `ReadEnd` |
  | 118-141, a seek request | `SeekLock`, `SeekIoctl`, `SeekRead` (repeated), `SeekDone` |
  | 177-186, the reply, under `reply_mutex` | `ReplyLock`, `ReplyGrow`, `ReplyStrcat` (per byte), `ReplySend` |
  | 197-199, the store, under `file_mutex` | `StoreLock`, `StoreArgs`, `StoreWrite` |
  | 281-321, `socket_listen` | `Accept` |
  | `aesdsocket.c` 24-42, `printing_time` | `TimerLock`, `TimerStrcat` (per byte), `TimerUnlock`, `TimerStore` |

  The store reads `to_write` without `reply_mutex`. So the length may be one of
  a `strcat` half done (`Lengths`), and the buffer may be reallocated between
  the call and the kernel's copy (`dangling`); bytes from such memory are
  `junk`. The same stands for the bytes behind a local buffer that `realloc`
  enlarged and nothing terminates: `strcat` reads on to the next NUL, and
  `ReplyGrow` appends any number of bytes from `Tails`. A client may reset its connection: `read`
  fails, and `send`, which does not ask for `MSG_NOSIGNAL`, may raise SIGPIPE.
  Once that has ended the process, or `strcat` has written behind the
  allocation, the model stops (`down`).
* `ThreadList` - the functions of `linkedlist.c`, step by step. They share a
  few steps (malloc, lock, start, walk, unlock ...); four tables (`Entry`,
  `AfterMalloc`, `AfterLock`, `AfterMatch`) say in which order a function takes
  them, which is where the functions differ: `insert` locks after malloc,
  `remove` only once it has found its node, the `_no_mutex` versions never.
  Nodes are addresses with contents or `Free`; `Touches` names the memory a
  thread's next step uses, and a thread about to touch dead memory takes no
  step.
* `ThreadSeq` - what the list promises: a sequence, newest first, on which each
  call takes effect in one step.
* `ThreadListSpec` - the list as a library. Threads make any calls under the
  contract the code needs: `insert`, `set_status` and `print` do everything
  under the mutex and are called at any time; the others follow pointers
  without it, and whoever calls one of them is alone. Freeing the list and
  starting again, and the copies the `get` functions give to their callers, are
  part of it.
* `AesdThreads` - the life of the server's threads over `ThreadList`, where the
  server breaks that contract:

  | code | actions |
  |---|---|
  | `main`, `socket_listen` | `Main`, `Listen`, `MakeList` (the head is not set), `StartJoiner`, `Accept`; `Leave` when set-up, `getaddrinfo` or `poll` fails |
  | `socket_core.c` 143-150 and 201-208 | `EndLock`, `EndInsert`, `EndStatus`, `EndUnlock`, `SignalLock`, `Signal` |
  | `joining_thread_handler` | `JoinerWait` to `JoinerFree`, one per access to the list; `JoinerWakeUnasked` for a wake-up that nobody asked for |
  | `signal_handler` | `SignalArrives` (at any time and on any thread, perhaps inside malloc, free or syslog; a second signal on top of the first or beside it), `HandlerFree`, `HandlerList`, `HandlerExit`, for each frame in `Handlers` |

  Serving, which `AesdSocket` models, is one step here. A pointer that is
  followed or freed after its memory is gone, the reply buffer used or freed a
  second time, and a join of a thread that does not exist, are undefined:
  `Crash` sets `fault` and the model stops. `raced` is a history variable: the
  joiner was in the list together with a connection, or woke up unasked and
  found the list empty.
* `SystemCalls` - `do_system`, `do_exec` and `do_exec_redirect` as a parent and
  a child process whose steps interleave; each system call may fail. `Wait`
  blocks until the child is gone, `WaitFails` is `waitpid` returning -1. A child
  that returns into the program of its caller (`stray`) is followed until that
  program ends, with any exit code.
* `CircularBufferProofs`, `AesdCharProofs`, `AesdSocketProofs`,
  `ThreadListProofs`, `AesdThreadsProofs`, `SystemCallsProofs` - theorems, one
  module per component. They rest on `Sums` (least elements; the sums that loops
  and folds compute) and `RingProofs` (what each function of the ring returns).
* `MCCircularBuffer`, `MCAesdChar`, `MCAesdSocket`, `MCThreadList`,
  `MCAesdThreads` - values of the constants for TLC.

## 3. Runs

| run | shows | bounds |
|---|---|---|
| `ring` | the ring keeps the most recent commands; lookup, seek and size agree | the code's own 10 slots; commands of 1 and 2 bytes, so that slot, command number and position all differ; every order of adds and trims |
| `writers` | lock, memory, lines, atomicity with two writers | 2 lines kept, 5 blocks (2 lines, partial line, copy, new line: what one writer can hold at once); payloads: empty, part of a line, a line, line end and part of the next, two lines |
| `readers` | read, write, llseek, ioctl on one shared file | 2 lines kept, lines of 2 and 3 bytes, reads of 2 bytes (less than a line, exactly one, more than is left), seeks from start, position and end, seeks to existing, short and missing commands |
| `returns` | every call returns | 1 line kept, 3 blocks, one call of each kind |
| `server` | seek and read are one unit, replies are one history, room in the reply buffer | 3 connections, 0 or 6 bytes (more than any buffer has room for) behind an unterminated message, a buffer of 4 bytes and 2 bytes of slack for the code's 1024 and 500; clients that send one line, two lines, more than one buffer, or a seek request; 3 lines kept |
| `server_served` | every client that ends its message is served; dates do not break into messages | both builds, 2 connections, 2 dates of 2 bytes in a buffer of 4 (so that dates alone overflow it); clients that may reset, one whose message fills the buffer exactly and who waits for ever, a seek |
| `list` | every function of the list is atomic and loses no memory | 2 threads, 3 nodes, 3 descriptions of threads such that ids and descriptors match different nodes; any number of calls |
| `threads` | what breaks the list, who is not joined, that connections end and that signals end the process | 2 connections, 2 nodes, 2 ids; any number of spurious wake-ups; 2 signals at any time and on any thread while one of the connections, one node and one id are in use (`Bounded`) |
| `wrappers` | what `do_exec`, `do_exec_redirect` and `do_system` return; all three return | exit codes 0, 1, 2 and being killed; 3 descriptors |
| `signal_exit` | a signal does not always end the server | 1 connection, 1 signal at any time |
| `system_status`, `redirect_output` | two statements of the doc comments in `systemcalls.c` are wrong | as `wrappers` |

In the driver's runs `MaxPartial` is the only bound on behaviours: a newline-less write is offered
only while the partial line is shorter than it. It is enough because the code
distinguishes an empty partial line from one that is not, and lines of more
bytes differ only in length. The number of calls, evictions, failures and
reloads is not bounded. Threads and blocks are interchangeable, which the
`writers` and `readers` runs use as symmetry; the fairness run uses none.

Fairness (`FairSpec`): every thread that can run does (the kernel schedules
it), and a thread waiting for the mutex gets it if the mutex is free again and
again (the kernel mutex hands itself over to the longest waiter). No signal is
promised, so a call is not allowed to return only because somebody interrupts
it; nobody is obliged to make calls.

For the server, weak fairness of every connection's thread is enough: a thread
takes each mutex at most once, so nobody can be overtaken for ever. Accepting
is not promised. The server's runs may stop (`CHECK_DEADLOCK FALSE`): after all
connections are served nothing is left to do. A short buffer keeps every
comparison of the code (less than, equal to and more than `BUFFER_SIZE`, text
shorter or longer than the local buffer) within reach of a few bytes; `send`
without waiting takes all, half or nothing. `MaxTicks` bounds how often the
timer fires. For the wrappers, both processes are scheduled and a command ends;
`waitpid` may fail but nothing makes it, so a caller returns because its child
has ended. 

For the list, `Room` bounds the nodes in use: calls that allocate are made while
there is memory for all of them. Deadlock is checked: no sequence of calls under
the contract gets stuck. For the threads, two connections are enough for each
of the cases that matter: a signal sent while the joiner is busy, a thread
joined before it has signalled, an id used again between `pthread_join` and the
removal by id. Two frames of the signal handler are all there can be on one
thread: each signal blocks itself while its handler runs. `Bounded` only holds
back signals and connections, which nothing forces to come. Weak fairness of each
thread is enough: a connection takes each mutex once, and the joiner takes
`thread_join_mutex` once for every wake-up that finds a node, of which there are
as many as connections. Neither a spurious wake-up nor a signal is ever forced
to come. The server may stop, so these runs do not check for deadlock;
`ThreadsEnd` and `SignalsEnd` do what it would.

The properties:

* `RingShape` - full with both indices equal, or not full with `out_offs` 0 and
  exactly the slots below `in_offs` in use. It is why the scan from `in_offs`
  is right although the oldest entry is at `out_offs`.
* `FindFollowsWriteOrder`, `SeekAgreesWithFind` - the three numberings agree.
* `KeepsMostRecent` - refinement of `CommandWindow`.
* `LockDiscipline` - the mutex is held exactly inside the critical sections.
* `MemoryOwned` - each allocated block has one owner that knows its size; an
  unloaded module leaves nothing behind.
* `EntriesAreLines` - an entry is one line, the partial line has no newline.
* `AtomicDevice` - refinement of `CommandLog`. It also states precisely what
  -ENOMEM means: some leading complete lines of the buffer were stored, never a
  piece of a line. A caller that repeats the call stores those lines twice.
* `CallsReturn` - liveness.

* `SeekReadsToEnd` - what the comment at `socket_core.c:118` asks for, on the
  file position that all connections share.
* `RepliesAreHistory` - every message stands unbroken in one history, and every
  reply is a beginning of it that ends with the client's message at the latest.
* `OverflowNeedsHistory` - the growth before `strcat` is enough while less than
  `BUFFER_SIZE` bytes have been said and the message ends in its local buffer.
  It is not enough otherwise: an overflow is reachable, because nothing
  terminates a local buffer that was enlarged (`socket_core.c:155-167`), because
  `to_write` is not enlarged once its text is as long as the local buffer
  (`socket_core.c:178`), and because the timer does not enlarge it at all: 25
  dates without a connection in between are too much for its 1024 bytes.
* `ClientsServed` - liveness. A client whose message is a multiple of
  `BUFFER_SIZE` long and who waits for the reply is not among the clients that
  end their message: the server waits for more, as does the client. Clients
  read what they are sent; one that does not could stop everybody, since the
  seek's `send` waits with `file_mutex` held.
* `AtomicList` - refinement of `ThreadSeq`, with a node in the list from the
  moment it is published. `ListMemory` - no dangling pointer is about to be
  followed; each allocated node is in the list, in a call or a caller's copy.
* `FaultNeedsRace` - until a signal comes, nothing faults unless the joiner was
  in the list, whose mutex it does not take, together with a connection, or woke
  up on an empty list. In all other interleavings, with any number of threads
  waiting to be joined, signals lost and ids used again, each node is freed once
  although two calls free, and a thread that is joined is there.
* `UnjoinedWereLost` - in all interleavings, until one of them faults, the
  joiner is behind by at most the number of signals that found it busy: a
  wake-up never joins nobody.
* `SignalsEnd` - liveness: a signal that does not interrupt malloc, free or
  syslog ends the process, by `exit` or by a fault in what it frees.
* `ThreadsEnd` - liveness: no connection is kept from ending by the list's mutex
  or by the joiner, also when it waits for a thread that has not signalled yet.
* `ExecResultIsRight` - `do_exec` returns what its doc comment says,
  `do_exec_redirect` too once the command was started; `do_system` errs only in
  one direction.

Undefined behaviour is reachable in `AesdThreads`, and three properties say how
far. When ends overlap, the joiner stores the successor it has read
(`socket_core.c:70`) between the two stores of an insertion
(`linkedlist.c:42-43`), which then follows NULL; or a removal by an id that is
used again takes the node of a live thread, whose signal then wakes the joiner
on an empty list. A spurious wake-up, which `socket_core.c:65` does not guard
against, follows the NULL head of an empty list at once. A signal during set-up
finds `linked_list` still NULL (`signal_handler.c:28`), later ones free what the
thread below them or a second signal uses. No doc or comment of the repository
claims the contrary, so none of this has a run of its own.

Findings. `system_status`: `do_system` compares a wait status with an exit code
and so returns true for commands that fail. `redirect_output`: the parent's own
`open` truncates the output of a fast child. `signal_exit`: the handler says
"Caught signal, exiting" and calls `syslog` and `free`, which wait for a lock
when the signal came inside syslog, or inside malloc, realloc or free.

Plain from the text and without a run:

* `aesd-circular-buffer.c:42` says `in_offs` can never be greater than
  `out_offs`; it is after the first add, and until the ring is full. The code is
  right for another reason (`RingShape`).
* `socket_core.c:171` calls a read shorter than the buffer the end of the
  message; a line that arrives in two pieces is cut after the first.
* `systemcalls.c:155` says `do_exec_redirect` behaves like `do_exec`; a child
  whose `dup2` fails returns into its caller's program (`stray`), and when that
  ends with 0 the parent reports the success of a command that never ran.
* `do_exec_redirect` never closes the file in the parent, contrary to
  `systemcalls.c:132`.
* Two writes without a newline in a row take the branch of `aesd_write` that
  `main.c:234` says "shouldn't normally happen" (correctly: `AtomicDevice`
  covers it).

Known and without a run, since nothing in the repository claims the contrary:
the overflow of the reply buffer after `BUFFER_SIZE` bytes, the local buffer
without a terminating NUL after its first enlargement, and the store of a
buffer that another thread reallocates.

## 4. Proofs

Each theorem is `Spec => []P` for a property `P` that a run checks, or a
refinement; it holds for every value of the constants that satisfies the
assumptions. Every inductive invariant was first checked by TLC on the
instances of the runs.

**Ring** (`CircularBufferProofs`, for every `MAX` from 1 to 256 and every set of
commands with at least one byte).

* `RingShapeHolds`, `TypesHold`: `TypeOK /\ RingShape` is inductive as it
  stands; the step is proved for `Add` by the cases full, about to be full, and
  neither, from the arithmetic of `NextSlot`.
* `RingImplementsWindow`: the window of a ring that is not full is slots 0 to
  `in_offs` - 1 (`WindowNotFull`), of a full ring all slots from `out_offs` on
  (`WindowFull`); an add is then an append, and on a full ring an append to the
  tail, element by element (`AddRefines`).
* `FindFollowsWriteOrderHolds`, `SeekAgreesWithFindHolds`: all three numberings
  are compared with one function `L`, where `L[k]` is the number of bytes before
  command k (`Offsets`). The scan from `in_offs` first crosses the empty slots,
  which add nothing, and then the commands in order (`ScanOrder`), so its
  `accumulation` is `L` shifted (`AccumulationFollows`), its early return is
  never taken, and the first iteration that hits is the right one (`FindIs`,
  `FindNone`). The folds of `new_pos` and `get_total_size` are `L` at the
  command number and at the end, in whatever order they take the slots
  (`NewPosIs`), and the concatenation has byte o of command k at `L[k] + o`
  (`PlacesAre`).

**Driver** (`AesdCharProofs`, for any number of threads, files, blocks and lines
kept, any payloads, counts and seeks).

* `LockDisciplineHolds`, `MutualExclusion`: the invariant adds the types of `pc`
  and `lock`; one lemma for each way to cross the border of a critical section
  (`Acquire`, `Release`, `Move`), one for each handler.
* `TypesHold`, `MemoryOwnedHolds`, `EntriesAreLinesHolds`: one invariant,
  `DriverInv`. Besides the types and the lock discipline it says
  - `InCall` - which system call a thread's step belongs to, that its file is
    open and the module loaded until it returns (so nothing runs inside while
    the module is unloaded), and that only a writer between two lines has a copy
    of its buffer;
  - `Ring` - the shape the functions of `RingProofs` need: without it a lookup, a
    size or a seek could be anything (`FindType`, `SizeType`, `AdjustType`), and
    a displaced entry would not be exactly the one handed back (`RingAdd`);
  - `Memory` - what each pointer points at (`Pointers`: an entry at a line of its
    size, the partial buffer at part of one, the copy at the user's bytes), that
    no two are equal (`Distinct`), and that every block in use is the target of
    one (`Reachable`). `EntriesAreLines` is a part of `Pointers`; it cannot be
    separated from ownership, because a block that two pointers share could be
    freed under one of them.

  Steps that leave the device alone go through one lemma (`ThreadStep`); the four
  things a writer does to memory have one each (`MemoryStage`, `MemoryLine`,
  `MemoryTail`, `MemoryDrop`), in all of which the lock says that no other thread
  has a copy (`OnlyWriter`). `JoinLine` and `JoinPart` are what joining the
  partial line with a stretch of the buffer gives.
* `AtomicDeviceHolds`: the driver implements `CommandLog`, step by step. The
  argument has four parts.
  - *What `CommandLog` keeps.* `Recent` cuts off the lines that have `MAX` line
    ends behind them. It may be applied at any time: to a log from which some of
    those lines are gone already (`CutRecent`), and before or after more bytes
    are added (`RecentConcat`). So the lines of one buffer may enter one by one,
    each displacing an old one, and the result is that of the whole buffer
    entering at once (`LogGrows`).
  - *What the device holds.* By `Ring` and `Memory`, line k of the ring stands at
    `L[k]` in `Contents` (`LinesLie`, with the `L` of the ring's proofs), the line
    ends of `Contents` are the ends of the entries (`ContentsEnds`), and hence
    the read, the size and the seek by command find what `CommandLog` defines on
    bytes (`ReadIs`, `SizeIs`, `SeekIs`).
  - *What a write does to it.* A line that is added is appended and, on a full
    ring, the first line goes (`LineAdded`, `LineJoined`); the bytes behind the
    last line end are appended (`TailJoined`); the copy of the buffer comes and
    goes unseen (`CopyStaged`, `CopyFreed`).
  - *How far each call has come.* `DriverInv` does not say what a writer has done
    since it took the lock; `AtomInv` does: `Contents` is `before`, the log it
    found, with its leading lines up to `start` added, and there is no answer
    before the last step. While it writes, the log is `before`; it takes the whole
    buffer on success and the lines up to `start` on -ENOMEM, in the step that
    gives the lock back. An `lseek` takes effect when it reads the size, though
    it uses it after the unlock.

**Server** (`AesdSocketProofs`, for any number of connections, any clients, any
buffer size and slack, both builds). One invariant, `SocketInv`, carries
`TypesHold`, `SeekReadsToEndHolds`, `OverflowNeedsHistoryHolds` and
`RepliesAreHistoryHolds`:

* `Mutexes` - each mutex is held by exactly the thread inside its section; all
  the rest leans on it;
* `Reading` - what was read and the size of the local buffer, so that the next
  chunk and its NUL still fit;
* `Room` - while a thread is inside `strcat`, what is left to copy fits, unless
  the history was already `BUFFER_SIZE` long when it started or the message has
  no NUL in its local buffer;
* `History` - what stands where: a thread inside `strcat` has copied a beginning
  of its message to the end of `to_write`, one past it has its message
  somewhere in `to_write`, which only grows, and a reply is a beginning of it;
* `Seeks` - between `ioctl` and the last read, the bytes sent are those from
  `from` up to the shared position, which moves only under `file_mutex`
  (`ReadOn`: one more read extends that stretch).

**List** (`ThreadListProofs`, for any number of threads, nodes and descriptions
of threads). `TypesHold`, `ListMemoryHolds` and `AtomicListHolds` rest on one
invariant, `Inv`:

* `Control` - which places belong to which function, where it has the mutex and
  where it has a node of its own; and the contract, that two threads inside the
  library are both in guarded functions. From it, at most one thread is *using*
  the list (`Exclusive`) while every other one is outside, before its lock or
  past its end (`OthersWait`);
* `Shape(n, s)` - some sequence `s` of `n` different nodes is the list: each is
  allocated, holds data and points to the next one, the last to `NULL`, and
  `head` is the first, except between publishing and linking a node and while
  the list is freed (`Chained`, `Headed`). Every allocated node is on it or
  belongs to exactly one thread (`Accounted`). A thread that walks is at the
  i-th node with `prev` behind it, and none of the nodes before matched; one
  that has found its node still has the first match (`Placed`).

Neither the types nor `ListMemory` is inductive: that a walk meets only live
nodes needs the whole chain, that a node found before the lock (`remove`, `get`)
is still there needs the contract, and that an unlink leaves a chain needs
`prev`. The sequence is a witness that each step carries on: the same one, one
longer (`LinkInv`), one without its i-th node (`UnlinkInv`, `ReleaseInv`), which
takes the place of an induction along `next`; `NodesFromIs` shows once that
following the pointers, as `NodesFrom` does, gives this sequence. There is one
lemma per action for the invariant and one for the refinement: an insert takes
effect when it publishes its node, though the node is linked only one step
later; `remove`, `set_status` and `get` when they unlink, set or copy, long after
they have found the node; a search without a match at the end of the list, and
freeing as soon as it starts.

**Threads** (`AesdThreadsProofs`, for any number of connections, nodes, ids,
signals and unasked wake-ups).

* `TypesHold`: who holds the list's mutex, and what a pointer may be, which is
  what a step of `ThreadList` may be relied on to keep.
* `UnjoinedHolds`: `JoinCount` counts in every state: ended and not joined are
  at most the lost signals, and one more while the joiner is awake. Hence the
  finiteness of the ended connections is part of it.
* `FaultNeedsRaceHolds`: the invariant `CalmInv` says that, unless the joiner
  raced or a signal came, the list is a sequence `s` of `n` nodes of different
  threads, none of them joined (`Chained`, `Headed`, `Owned`), but for the node
  that one connection is publishing and linking (`Inserting`) and the one that
  the joiner has taken off (`Joining`), which no thread but the joiner can find:
  so `remove_element_from_linked_list_no_mutex` finds nothing and the node is
  freed once. That ids of threads not yet joined differ (`Unique`) is what makes
  the removal by id harmless. The steps change `s` by its first node only
  (`LinkShape`, `StoreShape`); `NoCrash` concludes that nothing a thread is about
  to touch is gone.

**Wrappers** (`SystemCallsProofs`, for every set of exit codes and every limit
on descriptors). `TypesHold`, `ExecResultHolds`: the invariant says which pairs
of places the two processes may be at (`TwoProcesses`), that `executed` and how
the child ended belong together (`Command`), and what `result` stands for once
the parent has waited (`Report`).

Assumptions, each evaluated by TLC in the runs: `MAXAssumption` (the indices are
`uint8_t`), `EntriesAssumption` (the driver adds no empty command: the shortest
line is its newline), `AesdAssumption` (`NULL` is neither a block, a position, an
entry, a result of the lookup nor an answer), `ThreadListAssumption`, `ThreadListSpecAssumption`,
`AesdThreadsAssumption` (the constants are different things of the right types,
there are finitely many nodes), `SocketAssumption` (the same, and: a `read`
returns between 1 and `BUFFER_SIZE` bytes, a date is not empty, the slack that
is added when the buffer grows is not 0), `SystemCallsAssumption` (an exit code
has 8 bits).

Induction over data. The induction theorems of the library cannot be
instantiated, but their argument can be made by hand: a set of numbers that is
not empty has a least one (`LeastNumber`), a set of finite sets a smallest one
(`LeastSubset`), both from the well-foundedness of strict inclusion among finite
sets. What a loop, a fold or `FlattenSeq` computes is proved by looking at the
least number, or the smallest set, where the claim fails.

Only model-checked: `CallsReturn`, `ClientsServed`, `ThreadsEnd` and
`SignalsEnd` (liveness, out of the prover's reach). Every other property of a
passing run is a theorem.

## 5. Not modelled, and the plan

The models and the proofs are complete as planned.

Not modelled in the server: `malloc`, `realloc` and `open` of the device that
fail (the results are used unchecked: the process dies at the next access, or
every store fails silently, which `StoreWrite` allows); clients that never read;
the addresses of clients and the log. `printing_time` calls
`pthread_cond_timedwait` without holding `timer_mutex`, which POSIX leaves
undefined; the model takes it to wait.

Left out for good: the load and init scripts, `finder-app` and the image
scripts (no state, no concurrency), `queue.h` (vendored and unused),
`aesdsocket_exp.c`, `file_redirect.c`, `threading.c` and the test scaffolding
(not part of the program). Within the driver: debug printing, and the widths of
`size_t` and `loff_t`, which no reachable size approaches.
