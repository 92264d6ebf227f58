----------------------------- MODULE AesdSocket -----------------------------
(***************************************************************************)
(* The connections of server/socket_core.c: one thread per connection, the *)
(* reply buffer to_write and the file temp_file_fd that all of them share, *)
(* and the two mutexes that guard them.  In the build with                 *)
(* USE_AESD_CHAR_DEVICE the file is the character device; in the other it  *)
(* is a regular file, and the thread of printing_time (aesdsocket.c) adds  *)
(* the time to both buffer and file.                                       *)
(*                                                                         *)
(* The device is the atomic log that the driver is shown to implement      *)
(* (AtomicDevice of AesdChar).  What follows a connection's close, the     *)
(* list of finished threads and their joining, is modelled in AesdThreads. *)
(***************************************************************************)
EXTENDS LineLog, SequencesExt

CONSTANTS
  Conns,        \* connections, each with its thread
  Timer,        \* the thread of printing_time
  Builds,       \* which builds: "device", "file"
  Date,         \* the text of a date
  MaxTicks,     \* how often the timer fires
  Nobody,       \* "the mutex is not held"
  NULL,         \* "no seek", "no position"
  BUFFER_SIZE,  \* bytes of one read, and of a fresh buffer
  Slack,        \* the 500 bytes added when to_write grows
  Bytes,
  junk,         \* a byte read from memory nobody initialised or owns
  Tails,        \* how many of those stand before the next NUL
  Clients       \* what clients do: [chunks, closes, resets]

(* A chunk is what one read() of the socket returns; one that holds a seek *)
(* request carries its numbers.  A client closes its side, resets the      *)
(* connection at any time, or keeps it open and waits for the reply; it    *)
(* takes what it is sent.                                                  *)
ASSUME SocketAssumption ==
  /\ Nobody \notin Conns \cup {Timer} /\ Timer \notin Conns
  /\ Builds \subseteq {"device", "file"} /\ MaxTicks \in Nat
  /\ junk \in Bytes /\ Date \in Seq(Bytes) /\ Date # << >>
  /\ BUFFER_SIZE \in Nat \ {0} /\ Slack \in Nat \ {0}
  /\ 0 \in Tails /\ Tails \subseteq Nat
  /\ NULL \notin Clients \cup Nat
  /\ \A cl \in Clients :
       /\ cl.closes \in BOOLEAN /\ cl.resets \in BOOLEAN
       /\ cl.chunks \in Seq([data : Seq(Bytes),
                            seek : {NULL} \cup [write_cmd : Nat, offset : Nat]])
       /\ \A i \in DOMAIN cl.chunks : Len(cl.chunks[i].data) \in 1 .. BUFFER_SIZE

VARIABLES
  build,        \* how the program was built
  pc,           \* where each thread is
  client,       \* the client of each connection
  nread,        \* chunks read from it so far
  local,        \* to_write_local; the timer's date
  size,         \* size: what is allocated for to_write_local
  copied,       \* how much of it strcat has appended
  to_write,     \* the text in the shared reply buffer
  capacity,     \* what is allocated for it
  down,         \* what brought the process down: an overflow, SIGPIPE
  length,       \* connection in write(): the length it passed
  dangling,     \* connections in write() whose buffer was reallocated
  reply_mutex, file_mutex,
  log, f_pos,   \* contents of the file, and the position of temp_file_fd
  from,         \* position the ioctl of a seek request returned
  sent,         \* what the client was sent
  ticks         \* times the timer has fired

Threads == Conns \cup {Timer}
shared == <<to_write, capacity, down>>
config == <<build, ticks>>
mutexes == <<reply_mutex, file_mutex>>
device == <<log, f_pos>>
input == <<client, nread, local, size>>
vars == <<config, pc, input, copied, shared, length, dangling, mutexes, device, from, sent>>

Init ==
  /\ build \in Builds /\ ticks = 0
  /\ pc = [t \in Threads |-> IF t = Timer /\ build = "file" THEN "wait" ELSE "none"]
  /\ client = [c \in Conns |-> NULL]
  /\ nread = [c \in Conns |-> 0]
  /\ local = [t \in Threads |-> IF t = Timer THEN Date ELSE << >>]
  /\ size = [c \in Conns |-> BUFFER_SIZE]
  /\ copied = [t \in Threads |-> 0]
  /\ to_write = << >> /\ capacity = BUFFER_SIZE /\ down = "no"
  /\ length = [c \in Conns |-> 0]
  /\ dangling = {}
  /\ reply_mutex = Nobody /\ file_mutex = Nobody
  /\ log = << >> /\ f_pos = 0
  /\ from = [c \in Conns |-> NULL]
  /\ sent = [c \in Conns |-> << >>]

Goto(c, step) == pc' = [pc EXCEPT ![c] = step]

(* socket_listen accepts a connection and starts its thread; when          *)
(* pthread_create fails the connection is only logged.                     *)
Accept(c) ==
  /\ pc[c] = "none"
  /\ \E cl \in Clients : client' = [client EXCEPT ![c] = cl]
  /\ \E step \in {"read", "dropped"} : Goto(c, step)
  /\ UNCHANGED <<config, nread, local, size, copied, shared, length, dangling,
                 mutexes, device, from, sent>>

-----------------------------------------------------------------------------
(* The loop that reads the request.                                        *)
Chunk(c) == client[c].chunks[nread[c] + 1]

(* A seek request is seen only while the (zeroed, then reused) buffer has  *)
(* a NUL in it: a chunk that fills it takes the NUL away for good.         *)
IsSeek(c) ==
  /\ Chunk(c).seek # NULL
  /\ Len(Chunk(c).data) < BUFFER_SIZE /\ size[c] = BUFFER_SIZE

(* Mutant of grown_size: no room is left for the terminating NUL.          *)
grown_size_OffByOne(c, count) == IF size[c] < count THEN 2 * size[c] ELSE size[c]

grown_size(c, count) == IF size[c] <= count THEN 2 * size[c] ELSE size[c]

(* A chunk of text: to_write_local doubles when it would be full.  A chunk *)
(* shorter than the buffer is taken for the end of the message.            *)
ReadText(c) ==
  LET count == Len(local[c]) + Len(Chunk(c).data)
  IN  /\ pc[c] = "read" /\ nread[c] < Len(client[c].chunks) /\ ~IsSeek(c)
      /\ local' = [local EXCEPT ![c] = @ \o Chunk(c).data]
      /\ size' = [size EXCEPT ![c] = grown_size(c, count)]
      /\ nread' = [nread EXCEPT ![c] = @ + 1]
      /\ Goto(c, IF Len(Chunk(c).data) < BUFFER_SIZE THEN "reply" ELSE "read")
      /\ UNCHANGED <<config, client, copied, shared, length, dangling, mutexes,
                     device, from, sent>>

ReadSeek(c) ==
  /\ pc[c] = "read" /\ nread[c] < Len(client[c].chunks) /\ IsSeek(c)
  /\ Goto(c, "seek")
  /\ UNCHANGED <<config, input, copied, shared, length, dangling, mutexes,
                 device, from, sent>>

(* End of file, or ECONNRESET, which takes what was not read yet with it.  *)
(* A client that neither sends nor closes keeps us in read().              *)
ReadEnd(c) ==
  /\ pc[c] = "read"
  /\ \/ nread[c] = Len(client[c].chunks) /\ client[c].closes
     \/ client[c].resets
  /\ Goto(c, "reply")
  /\ UNCHANGED <<config, input, copied, shared, length, dangling, mutexes,
                 device, from, sent>>

-----------------------------------------------------------------------------
(* A seek request: ioctl, then read and send to the end of the device, in  *)
(* one critical section of file_mutex.                                     *)

(* Mutant of SeekLock: the mutex is not taken.                             *)
SeekLock_Unguarded(c) ==
  /\ pc[c] = "seek"
  /\ Goto(c, "ioctl")
  /\ UNCHANGED <<config, input, copied, shared, length, dangling, mutexes,
                 device, from, sent>>

SeekLock(c) ==
  /\ pc[c] = "seek" /\ file_mutex = Nobody
  /\ file_mutex' = c
  /\ Goto(c, "ioctl")
  /\ UNCHANGED <<config, input, copied, shared, length, dangling, reply_mutex,
                 device, from, sent>>

(* The ioctl fails with ENOTTY on a regular file.                          *)
SeekIoctl(c) ==
  LET to == Chunk(c).seek
      at == IF build = "device" THEN Positions(log, to.write_cmd, to.offset) ELSE {}
  IN  /\ pc[c] = "ioctl"
      /\ \/ /\ at = {}                 \* an error, only logged
            /\ Goto(c, "sought")
            /\ UNCHANGED <<f_pos, from>>
         \/ \E pos \in at :
              /\ f_pos' = pos
              /\ from' = [from EXCEPT ![c] = pos]
              /\ Goto(c, "stream")
      /\ UNCHANGED <<config, input, copied, shared, length, dangling, mutexes, log, sent>>

(* send() to a client that has reset its connection may raise SIGPIPE,     *)
(* which nobody handles or blocks; otherwise its result is not looked at.  *)
Send(c) == \/ UNCHANGED down
           \/ client[c].resets /\ down' = "SIGPIPE"

SeekRead(c) ==
  LET bytes == BytesAt(log, f_pos, BUFFER_SIZE)
  IN  /\ pc[c] = "stream"
      /\ IF bytes = << >> THEN UNCHANGED down ELSE Send(c)
      /\ f_pos' = f_pos + Len(bytes)
      /\ sent' = [sent EXCEPT ![c] = @ \o bytes]
      /\ Goto(c, IF bytes = << >> THEN "sought" ELSE "stream")
      /\ UNCHANGED <<config, input, copied, to_write, capacity, length, dangling,
                     mutexes, log, from>>

(* Mutant of SeekDone: the mutex is not given back.                        *)
SeekDone_KeepsLock(c) ==
  /\ pc[c] = "sought"
  /\ Goto(c, "seek_done")
  /\ UNCHANGED <<config, input, copied, shared, length, dangling, mutexes,
                 device, from, sent>>

SeekDone(c) ==
  /\ pc[c] = "sought"
  /\ file_mutex' = Nobody
  /\ Goto(c, "seek_done")
  /\ UNCHANGED <<config, input, copied, shared, length, dangling, reply_mutex,
                 device, from, sent>>

-----------------------------------------------------------------------------
(* A text message: under reply_mutex it is appended to to_write and all of *)
(* to_write is sent back.                                                  *)

(* Mutant of ReplyLock: the mutex is not taken.                            *)
ReplyLock_Unguarded(c) ==
  /\ pc[c] = "reply"
  /\ Goto(c, "grow")
  /\ UNCHANGED <<config, input, copied, shared, length, dangling, mutexes,
                 device, from, sent>>

ReplyLock(c) ==
  /\ pc[c] = "reply" /\ reply_mutex = Nobody
  /\ reply_mutex' = c
  /\ Goto(c, "grow")
  /\ UNCHANGED <<config, input, copied, shared, length, dangling, file_mutex,
                 device, from, sent>>

(* Mutant of grown_capacity: only the message's size is asked for.         *)
grown_capacity_OnlySize(c) ==
  IF Len(to_write) < size[c] THEN size[c] ELSE capacity

grown_capacity(c) ==
  IF Len(to_write) < size[c] THEN size[c] + Len(to_write) + Slack ELSE capacity

(* to_write is enlarged only while its text is shorter than the local      *)
(* buffer.  realloc may move it, under the feet of threads in write().  A  *)
(* local buffer that was enlarged is not terminated: strcat will also copy *)
(* whatever follows the message up to the next NUL, inside the allocation  *)
(* or beyond it.                                                           *)
ReplyGrow(c) ==
  /\ pc[c] = "grow"
  /\ capacity' = grown_capacity(c)
  /\ \/ UNCHANGED dangling
     \/ /\ Len(to_write) < size[c]
        /\ dangling' = dangling \cup {d \in Conns : pc[d] = "write"}
  /\ \E n \in IF size[c] > BUFFER_SIZE THEN Tails ELSE {0} :
       LET text == local[c] \o [i \in 1 .. n |-> junk]
       IN  /\ local' = [local EXCEPT ![c] = text]
           /\ Goto(c, IF text = << >> THEN "send" ELSE "strcat")
  /\ UNCHANGED <<config, client, nread, size, copied, to_write, down, length,
                 mutexes, device, from, sent>>

(* One byte of strcat.  Writing past the capacity (the terminating NUL     *)
(* needs a byte too) corrupts the heap, after which nothing is known.      *)
Strcat(t) ==
  /\ pc[t] = "strcat"
  /\ to_write' = Append(to_write, local[t][copied[t] + 1])
  /\ down' = IF Len(to_write) + 2 > capacity THEN "overflow" ELSE down
  /\ copied' = [copied EXCEPT ![t] = @ + 1]

ReplyStrcat(c) ==
  /\ Strcat(c)
  /\ Goto(c, IF copied[c] + 1 = Len(local[c]) THEN "send" ELSE "strcat")
  /\ UNCHANGED <<config, input, capacity, length, dangling, mutexes, device, from, sent>>

(* send() with MSG_DONTWAIT takes what fits into the socket's buffer: all, *)
(* a part (its half stands for any) or, when it would block, nothing.      *)
Sendable(s) == {SubSeq(s, 1, n) : n \in {0, Len(s) \div 2, Len(s)}}

ReplySend(c) ==
  /\ pc[c] = "send"
  /\ Send(c)
  /\ \E reply \in Sendable(to_write) : sent' = [sent EXCEPT ![c] = reply]
  /\ reply_mutex' = Nobody
  /\ Goto(c, "store")
  /\ UNCHANGED <<config, input, copied, to_write, capacity, length, dangling,
                 file_mutex, device, from>>

(* Then, under file_mutex only, to_write as it is now goes to the device:  *)
(* its address and length are taken first, the kernel copies afterwards.   *)
StoreLock(c) ==
  /\ pc[c] = "store" /\ file_mutex = Nobody
  /\ file_mutex' = c
  /\ Goto(c, "args")
  /\ UNCHANGED <<config, input, copied, shared, length, dangling, reply_mutex,
                 device, from, sent>>

(* strlen races with a strcat of somebody else, who has overwritten the    *)
(* old NUL and has not put the new one: it may run on into what follows.   *)
Lengths ==
  IF \E t \in Threads : pc[t] = "strcat" /\ copied[t] > 0
  THEN {Len(to_write) + n : n \in Tails} ELSE {Len(to_write)}

StoreArgs(c) ==
  /\ pc[c] = "args"
  /\ \E n \in Lengths : length' = [length EXCEPT ![c] = n]
  /\ Goto(c, "write")
  /\ UNCHANGED <<config, input, copied, shared, dangling, mutexes, device, from, sent>>

(* What the kernel finds at the address: the text or, when the buffer has  *)
(* been freed by realloc, the text that is still there or something else.  *)
Source(c) ==
  {[i \in 1 .. length[c] |-> IF i \in DOMAIN to_write THEN to_write[i] ELSE junk]}
    \cup (IF c \in dangling THEN {[i \in 1 .. length[c] |-> junk]} ELSE {})

(* The device takes all of it, or some leading lines, or nothing; a file   *)
(* whose disk is full, any part.  The result of write() is not looked at.  *)
Stored(bytes) ==
  IF build = "device"
  THEN {Recent(log \o SubSeq(bytes, 1, n)) : n \in Ends(bytes) \cup {0, Len(bytes)}}
  ELSE {log \o part : part \in Sendable(bytes)}

StoreWrite(c) ==
  /\ pc[c] = "write"
  /\ \E bytes \in Source(c) : log' \in Stored(bytes)
  /\ f_pos' = IF build = "device" THEN f_pos ELSE Len(log')
  /\ file_mutex' = Nobody
  /\ dangling' = dangling \ {c}
  /\ length' = [length EXCEPT ![c] = 0]
  /\ Goto(c, "done")
  /\ UNCHANGED <<config, input, copied, shared, reply_mutex, from, sent>>

-----------------------------------------------------------------------------
(* printing_time, every ten seconds, in the build without the device: the  *)
(* date goes to the end of to_write, which is not enlarged for it, and to  *)
(* the file.                                                               *)

(* Mutant of TimerLock: the mutex is not taken.                            *)
TimerLock_Unguarded ==
  /\ pc[Timer] = "wait" /\ ticks < MaxTicks
  /\ ticks' = ticks + 1
  /\ Goto(Timer, "strcat")
  /\ UNCHANGED <<build, input, copied, shared, length, dangling, mutexes,
                 device, from, sent>>

TimerLock ==
  /\ pc[Timer] = "wait" /\ ticks < MaxTicks
  /\ reply_mutex = Nobody
  /\ reply_mutex' = Timer
  /\ ticks' = ticks + 1
  /\ Goto(Timer, "strcat")
  /\ UNCHANGED <<build, input, copied, shared, length, dangling, file_mutex,
                 device, from, sent>>

TimerStrcat ==
  /\ Strcat(Timer)
  /\ Goto(Timer, IF copied[Timer] + 1 = Len(Date) THEN "unlock" ELSE "strcat")
  /\ UNCHANGED <<config, input, capacity, length, dangling, mutexes, device,
                 from, sent>>

TimerUnlock ==
  /\ pc[Timer] = "unlock"
  /\ reply_mutex' = Nobody
  /\ Goto(Timer, "store")
  /\ UNCHANGED <<config, input, copied, shared, length, dangling, file_mutex,
                 device, from, sent>>

(* All of lock, open, write, close and unlock: only connections that hold  *)
(* file_mutex see the file.  An open or write that fails is logged; a date *)
(* is too short to be written in part.                                     *)
TimerStore ==
  /\ pc[Timer] = "store" /\ file_mutex = Nobody
  /\ log' \in {log, log \o Date}
  /\ copied' = [copied EXCEPT ![Timer] = 0]
  /\ Goto(Timer, "wait")
  /\ UNCHANGED <<config, input, shared, length, dangling, mutexes, f_pos, from, sent>>

-----------------------------------------------------------------------------
printing_time == TimerLock \/ TimerStrcat \/ TimerUnlock \/ TimerStore

connection_handler(c) ==
  \/ ReadText(c) \/ ReadSeek(c) \/ ReadEnd(c)
  \/ SeekLock(c) \/ SeekIoctl(c) \/ SeekRead(c) \/ SeekDone(c)
  \/ ReplyLock(c) \/ ReplyGrow(c) \/ ReplyStrcat(c) \/ ReplySend(c)
  \/ StoreLock(c) \/ StoreArgs(c) \/ StoreWrite(c)

Up == down = "no"
Next ==
  /\ Up
  /\ \/ \E c \in Conns : Accept(c) \/ connection_handler(c)
     \/ printing_time

Spec == Init /\ [][Next]_vars

(* Threads that can run do.  A connection takes each mutex at most once    *)
(* and the timer ten seconds apart, so waiting needs no stronger fairness. *)
FairSpec ==
  /\ Spec
  /\ \A c \in Conns : WF_vars(Up /\ connection_handler(c))
  /\ WF_vars(Up /\ printing_time)

-----------------------------------------------------------------------------
(* The types of the connections' and the shared state; what a connection   *)
(* reads, with a NUL behind it, fits into what it allocated for it.        *)
TypeOK ==
  /\ build \in Builds /\ ticks \in 0 .. MaxTicks
  /\ pc \in [Threads -> {"wait", "none", "dropped", "read", "seek", "ioctl",
                         "stream", "sought", "seek_done", "reply", "grow",
                         "strcat", "send", "store", "args", "write", "done", "unlock"}]
  /\ client \in [Conns -> Clients \cup {NULL}]
  /\ \A c \in Conns : client[c] # NULL => nread[c] \in 0 .. Len(client[c].chunks)
  /\ size \in [Conns -> Nat] /\ length \in [Conns -> Nat]
  /\ \A c \in Conns : pc[c] \in {"read", "reply"} => Len(local[c]) < size[c]
  /\ \A t \in Threads : copied[t] \in 0 .. Len(local[t])
  /\ capacity \in Nat /\ down \in {"no", "overflow", "SIGPIPE"}
  /\ dangling \subseteq Conns
  /\ reply_mutex \in Threads \cup {Nobody} /\ file_mutex \in Conns \cup {Nobody}
  /\ f_pos \in Nat
  /\ from \in [Conns -> Nat \cup {NULL}]

(* "seek + read must be one critical section ... no other thread may move  *)
(* it again before we finish reading from that position"                   *)
(* (socket_core.c:118-120): when a seek request has been served, the       *)
(* client has been sent exactly the device's bytes from the position it    *)
(* asked for to the end, although all connections share one file position  *)
(* and others store to the device.                                         *)
SeekReadsToEnd ==
  \A c \in Conns :
    pc[c] = "sought" =>
      sent[c] = IF from[c] = NULL THEN << >>
                ELSE SubSeq(log, from[c] + 1, Len(Complete(log)))

(* All clients see one history.  Each message stands in it unbroken, as    *)
(* its connection received it; a reply is a beginning of the history that  *)
(* stops with the client's own message at the latest, and whatever is said *)
(* later comes behind.  So of any two replies one begins with the other.   *)
RepliesAreHistory ==
  \A c \in Conns :
    pc[c] \in {"store", "args", "write", "done"} =>
      /\ IsPrefix(sent[c], to_write)
      /\ \E n \in Max({Len(sent[c]), Len(local[c])}) .. Len(to_write) :
           SubSeq(to_write, n - Len(local[c]) + 1, n) = local[c]

(* A connection overflows the shared buffer only under a message that was  *)
(* appended to BUFFER_SIZE or more bytes of text, or whose own buffer was  *)
(* enlarged and has no NUL in all of its bytes: else the growth before     *)
(* each strcat leaves room for what it copies (socket_core.c:155-183).     *)
(* The timer, which never enlarges it (aesdsocket.c:31), overflows it only *)
(* with a date that makes the text as long as that.                        *)
Unterminated(c) == size[c] > BUFFER_SIZE /\ Len(local[c]) >= size[c]
OverflowNeedsHistory ==
  \A t \in Threads :
    down = "overflow" /\ reply_mutex = t =>
      LET before == Len(to_write) - copied[t]
      IN  \/ before + (IF t = Timer THEN Len(Date) ELSE 0) >= BUFFER_SIZE
          \/ t \in Conns /\ Unterminated(t)

(* Every accepted connection whose client ends its message is served to    *)
(* the end, provided that all clients read what they are sent: whatever    *)
(* else the others and the timer do, unless the process goes down, no path *)
(* keeps a mutex, and no two threads wait for each other                   *)
(* (socket_core.c:121-135, 177-199, aesdsocket.c:30-42).                   *)
EndsMessage(c) ==
  \/ client[c].closes \/ client[c].resets
  \/ \E i \in DOMAIN client[c].chunks : \/ Len(client[c].chunks[i].data) < BUFFER_SIZE
                                        \/ client[c].chunks[i].seek # NULL
ClientsServed ==
  \A c \in Conns :
    (pc[c] = "read" /\ EndsMessage(c)) ~> (pc[c] \in {"done", "seek_done"} \/ ~Up)
=============================================================================
