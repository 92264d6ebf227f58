-------------------------- MODULE AesdSocketProofs --------------------------
(***************************************************************************)
(* Proofs about the connections, for every number of connections, every    *)
(* buffer size and everything clients send.                                *)
(***************************************************************************)
EXTENDS AesdSocket, Sums, SequenceTheorems

-----------------------------------------------------------------------------
(* What the operators on the log return, for every log.                    *)
LEMMA EndsAre ==
  ASSUME NEW S, NEW s \in Seq(S)
  PROVE  Ends(s) \subseteq 1 .. Len(s)
  BY LenProperties DEF Ends

(* The complete lines reach to the last newline.                           *)
LEMMA CompleteIs ==
  ASSUME NEW S, NEW s \in Seq(S)
  PROVE  /\ Len(Complete(s)) \in 0 .. Len(s)
         /\ Len(Complete(s)) \in Ends(s) \cup {0}
         /\ \A e \in Ends(s) : e <= Len(Complete(s))
  <1> DEFINE m == Max(Ends(s) \cup {0})
  <1>1. Len(s) \in Nat /\ \A i \in 1 .. Len(s) : s[i] \in S
    BY LenProperties, ElementOfSeq
  <1>2. Ends(s) \cup {0} \in SUBSET (0 .. Len(s)) /\ Ends(s) \cup {0} # {}
    BY <1>1, EndsAre
  <1>3. m \in Ends(s) \cup {0} /\ \A y \in Ends(s) \cup {0} : y <= m
    BY <1>1, <1>2, MaxIs
  <1>4. m \in 0 .. Len(s) /\ m \in Int
    BY <1>1, <1>2, <1>3
  <1>5. Len(SubSeq(s, 1, m)) = IF 1 <= m THEN m - 1 + 1 ELSE 0
    <2>1. \A i \in 1 .. m : s[i] \in S
      BY <1>1, <1>4
    <2>2. QED
      BY <1>4, <2>1, SubSeqProperties
  <1>6. Len(Complete(s)) = m
    BY <1>4, <1>5 DEF Complete
  <1>7. QED
    BY <1>3, <1>4, <1>6

(* What is kept of a log is a log.                                         *)
LEMMA RecentType ==
  ASSUME NEW S, NEW s \in Seq(S)
  PROVE  Recent(s) \in Seq(S)
  <1> DEFINE old == {e \in Ends(s) : Cardinality(EndsAfter(s, e)) >= MAX}
             m == Max(old \cup {0})
  <1>1. Len(s) \in Nat /\ \A i \in 1 .. Len(s) : s[i] \in S
    BY LenProperties, ElementOfSeq
  <1>2. old \cup {0} \in SUBSET (0 .. Len(s)) /\ old \cup {0} # {}
    BY <1>1, EndsAre
  <1>3. m \in 0 .. Len(s)
    BY <1>1, <1>2, MaxIs
  <1> HIDE DEF m
  <1>4. SubSeq(s, m + 1, Len(s)) \in Seq(S)
    <2>1. \A i \in m + 1 .. Len(s) : s[i] \in S
      BY <1>1, <1>3
    <2>2. m + 1 \in Int /\ Len(s) \in Int
      BY <1>1, <1>3
    <2>3. QED
      BY <2>1, <2>2, SubSeqProperties
  <1>5. QED
    BY <1>4 DEF Recent, m

(* A read before the end of the complete lines returns the bytes from the  *)
(* position on, at least one, and none beyond that end.                    *)
LEMMA BytesAtIs ==
  ASSUME NEW S, NEW s \in Seq(S), NEW pos \in Nat, NEW count \in Nat \ {0},
         pos < Len(Complete(s))
  PROVE  \E e \in pos + 1 .. Len(Complete(s)) : BytesAt(s, pos, count) = SubSeq(s, pos + 1, e)
  <1> DEFINE L == Len(Complete(s))
             after == EndsAfter(s, pos)
             last == Min(after)
             e == Min({pos + count, last})
  <1>1. Len(s) \in Nat /\ L \in 0 .. Len(s) /\ L \in Ends(s)
    BY CompleteIs, LenProperties
  <1>2. L \in after /\ after \in SUBSET Nat
    BY <1>1, EndsAre DEF EndsAfter
  <1>3. last \in after /\ last <= L
    BY <1>2, MinIs
  <1>4. last \in Nat /\ last > pos
    BY <1>2, <1>3 DEF EndsAfter
  <1> HIDE DEF last, L
  <1>5. e \in {pos + count, last} /\ e <= last
    <2>1. {pos + count, last} \in SUBSET Nat /\ {pos + count, last} # {}
      BY <1>4
    <2>2. QED
      BY <2>1, MinIs
  <1>6. e \in pos + 1 .. L
    BY <1>1, <1>3, <1>4, <1>5
  <1>7. BytesAt(s, pos, count) = SubSeq(s, pos + 1, e)
    <2>1. ~(pos >= Len(Complete(s)))
      BY <1>1 DEF L
    <2>2. QED
      BY <2>1, Zenon DEF BytesAt, last
  <1>8. QED
    BY <1>6, <1>7 DEF L

(* A position that the ioctl can be asked for lies in a complete line.     *)
LEMMA PositionsAre ==
  ASSUME NEW S, NEW s \in Seq(S), NEW n, NEW o \in Nat, NEW pos \in Positions(s, n, o)
  PROVE  pos \in Nat /\ pos < Len(Complete(s))
  <1>1. PICK b \in Ends(s) \cup {0} :
          /\ EndsAfter(s, b) # {} /\ b + o < Min(EndsAfter(s, b)) /\ pos = b + o
    BY DEF Positions
  <1>2. Len(s) \in Nat /\ b \in Nat /\ EndsAfter(s, b) \in SUBSET Nat
    BY EndsAre, LenProperties DEF EndsAfter
  <1>3. Min(EndsAfter(s, b)) \in EndsAfter(s, b)
    BY <1>1, <1>2, MinIs
  <1>4. /\ Min(EndsAfter(s, b)) <= Len(Complete(s)) /\ Len(Complete(s)) \in Nat
        /\ Min(EndsAfter(s, b)) \in Nat
    BY <1>2, <1>3, CompleteIs DEF EndsAfter
  <1>5. QED
    BY <1>1, <1>2, <1>4

(* Reading on from pos continues what was read from start to pos.          *)
LEMMA ReadOn ==
  ASSUME NEW S, NEW s \in Seq(S), NEW start \in Nat, NEW pos \in Nat, NEW count \in Nat \ {0},
         start <= pos, pos <= Len(Complete(s))
  PROVE  /\ BytesAt(s, pos, count) \in Seq(S) /\ Len(BytesAt(s, pos, count)) \in Nat
         /\ pos + Len(BytesAt(s, pos, count)) <= Len(Complete(s))
         /\ SubSeq(s, start + 1, pos) \o BytesAt(s, pos, count)
              = SubSeq(s, start + 1, pos + Len(BytesAt(s, pos, count)))
         /\ BytesAt(s, pos, count) = << >> =>
              pos + Len(BytesAt(s, pos, count)) = Len(Complete(s))
  <1> DEFINE bytes == BytesAt(s, pos, count)
             L == Len(Complete(s))
  <1>0. Len(s) \in Nat /\ L \in 0 .. Len(s) /\ \A i \in 1 .. Len(s) : s[i] \in S
    BY CompleteIs, LenProperties, ElementOfSeq
  <1> HIDE DEF L, bytes
  <1>1. CASE pos >= L
    <2>1. bytes = << >>
      BY <1>1 DEF BytesAt, L, bytes
    <2>2. \A i \in start + 1 .. pos : s[i] \in S
      BY <1>0 DEF L
    <2>3. SubSeq(s, start + 1, pos) \in Seq(S)
      BY <2>2, SubSeqProperties
    <2>4. bytes \in Seq(S) /\ Len(bytes) = 0
      BY <2>1, EmptySeq
    <2>5. SubSeq(s, start + 1, pos) \o bytes = SubSeq(s, start + 1, pos)
      BY <2>1, <2>3, ConcatEmptySeq
    <2>6. pos + Len(bytes) = pos /\ pos = L
      BY <1>0, <1>1, <2>4 DEF L
    <2>7. SubSeq(s, start + 1, pos + Len(bytes)) = SubSeq(s, start + 1, pos)
      BY <2>6, Zenon
    <2>8. Len(bytes) \in Nat
      BY <2>4
    <2>9. pos + Len(bytes) = Len(Complete(s)) /\ pos + Len(bytes) <= Len(Complete(s))
      BY <1>0, <2>6 DEF L
    <2>10. QED
      BY <2>4, <2>5, <2>7, <2>8, <2>9, Zenon DEF bytes
  <1>2. CASE pos < L
    <2>1. PICK e \in pos + 1 .. L : bytes = SubSeq(s, pos + 1, e)
      BY <1>2, BytesAtIs DEF L, bytes
    <2>2. \A i \in pos + 1 .. e : s[i] \in S
      BY <1>0, <2>1
    <2>3. bytes \in Seq(S) /\ Len(bytes) = IF pos + 1 <= e THEN e - (pos + 1) + 1 ELSE 0
      BY <1>0, <2>1, <2>2, SubSeqProperties
    <2>4. Len(bytes) \in Nat \ {0} /\ pos + Len(bytes) = e /\ e <= L
      BY <1>0, <2>1, <2>3
    <2>5. bytes # << >>
      BY <2>4, EmptySeq
    <2>6. /\ start + 1 \in 1 .. Len(s) + 1 /\ pos \in (start + 1) - 1 .. Len(s)
          /\ e \in pos .. Len(s)
      BY <1>0, <2>1 DEF L
    <2>7. SubSeq(s, start + 1, pos) \o bytes = SubSeq(s, start + 1, e)
      BY <2>1, <2>6, ConcatAdjacentSubSeq
    <2>8. SubSeq(s, start + 1, pos + Len(bytes)) = SubSeq(s, start + 1, e)
      BY <2>4, Zenon
    <2>9. Len(bytes) \in Nat /\ pos + Len(bytes) <= Len(Complete(s))
      BY <1>0, <2>4 DEF L
    <2>10. QED
      BY <2>3, <2>5, <2>7, <2>8, <2>9, Zenon DEF bytes
  <1>3. QED
    BY <1>0, <1>1, <1>2

-----------------------------------------------------------------------------
(* Where a connection, and the timer, can be.                              *)
ConnSteps ==
  {"none", "dropped", "read", "seek", "ioctl", "stream", "sought", "seek_done", "reply",
   "grow", "strcat", "send", "store", "args", "write", "done"}
TimerSteps == {"none", "wait", "strcat", "unlock", "store"}

(* Who holds the mutexes: a thread has reply_mutex exactly while it may    *)
(* use to_write and its capacity, and file_mutex exactly while it may use  *)
(* the shared file position.                                               *)
Mutexes ==
  /\ \A c \in Conns : reply_mutex = c <=> pc[c] \in {"grow", "strcat", "send"}
  /\ reply_mutex = Timer <=> pc[Timer] \in {"strcat", "unlock"}
  /\ \A c \in Conns :
       file_mutex = c <=> pc[c] \in {"ioctl", "stream", "sought", "args", "write"}
  /\ reply_mutex \in Threads \cup {Nobody} /\ file_mutex \in Conns \cup {Nobody}
  /\ pc \in [Threads -> ConnSteps \cup TimerSteps]
  /\ pc[Timer] \in TimerSteps /\ \A c \in Conns : pc[c] \in ConnSteps

(* The types of the rest.                                                  *)
DataTypes ==
  /\ build \in Builds /\ ticks \in 0 .. MaxTicks
  /\ client \in [Conns -> Clients \cup {NULL}]
  /\ nread \in [Conns -> Nat]
  /\ local \in [Threads -> Seq(Bytes)] /\ local[Timer] = Date
  /\ size \in [Conns -> Nat] /\ length \in [Conns -> Nat]
  /\ copied \in [Threads -> Nat]
  /\ to_write \in Seq(Bytes) /\ log \in Seq(Bytes)
  /\ capacity \in Nat /\ down \in {"no", "overflow", "SIGPIPE"}
  /\ dangling \subseteq Conns
  /\ f_pos \in Nat /\ from \in [Conns -> Nat \cup {NULL}]
  /\ sent \in [Conns -> Seq(Bytes)]

(* What is read, and how much of it is copied.                             *)
ReadBy(c) ==
  /\ IF pc[c] = "none" THEN nread[c] = 0 ELSE client[c] \in Clients
  /\ client[c] \in Clients => nread[c] <= Len(client[c].chunks)
  /\ pc[c] \in {"seek", "ioctl"} =>
       nread[c] < Len(client[c].chunks) /\ Chunk(c).seek # NULL
  /\ size[c] >= BUFFER_SIZE
  /\ pc[c] \in {"none", "read", "reply", "grow"} => Len(local[c]) < size[c]
  /\ pc[c] \notin {"strcat", "send", "store", "args", "write", "done"} => copied[c] = 0
  /\ pc[c] = "strcat" => copied[c] < Len(local[c])
  /\ copied[c] <= Len(local[c])

Reading ==
  /\ \A c \in Conns : ReadBy(c)
  /\ pc[Timer] \in {"none", "wait"} => copied[Timer] = 0
  /\ pc[Timer] = "strcat" => copied[Timer] < Len(Date)
  /\ copied[Timer] <= Len(Date)

(* Room for what is being appended, unless the text was long already or    *)
(* the local buffer has no NUL.                                            *)
Room ==
  /\ capacity >= BUFFER_SIZE
  /\ \A c \in Conns :
       pc[c] = "strcat" /\ ~Unterminated(c) /\ Len(to_write) - copied[c] < BUFFER_SIZE =>
         capacity > Len(to_write) - copied[c] + Len(local[c])

(* The k bytes of to_write up to the n-th are the first k that t appends.  *)
Stands(t, n, k) ==
  /\ k <= n
  /\ \A i \in 1 .. k : to_write[n - k + i] = local[t][i]

(* What of a connection's message is in to_write, and what it has sent.    *)
Told(c) ==
  /\ Len(sent[c]) <= Len(to_write)
  /\ \A i \in 1 .. Len(sent[c]) : sent[c][i] = to_write[i]
  /\ \E n \in Len(sent[c]) .. Len(to_write) : Stands(c, n, Len(local[c]))

Said(c) ==
  /\ pc[c] = "strcat" => Stands(c, Len(to_write), copied[c])
  /\ pc[c] = "send" => Stands(c, Len(to_write), Len(local[c]))
  /\ pc[c] \in {"store", "args", "write", "done"} => Told(c)

History == \A c \in Conns : Said(c)

(* A seek request in progress: what was sent is what lies between the      *)
(* position asked for and the shared position.                             *)
Seeks ==
  \A c \in Conns :
    /\ pc[c] \in {"none", "read", "seek", "ioctl"} => sent[c] = << >> /\ from[c] = NULL
    /\ pc[c] = "stream" =>
         /\ from[c] \in Nat /\ from[c] <= f_pos /\ f_pos <= Len(Complete(log))
         /\ sent[c] = SubSeq(log, from[c] + 1, f_pos)

(* The inductive invariant.                                                *)
SocketInv ==
  /\ Mutexes /\ DataTypes /\ Reading /\ Room /\ History /\ Seeks
  /\ SeekReadsToEnd /\ OverflowNeedsHistory

-----------------------------------------------------------------------------

(* The types and sizes that the steps below rest on.                       *)
LEMMA Sizes ==
  ASSUME SocketInv
  PROVE  /\ Len(to_write) \in Nat /\ Len(log) \in Nat /\ Len(Date) \in Nat
         /\ \A t \in Threads : Len(local[t]) \in Nat /\ local[t] \in Seq(Bytes)
         /\ \A c \in Conns : Len(sent[c]) \in Nat /\ sent[c] \in Seq(Bytes)
         /\ \A c \in Conns : Len(local[c]) \in Nat /\ local[c] \in Seq(Bytes)
         /\ \A c \in Conns : client[c] \in Clients => Len(client[c].chunks) \in Nat
  <1>1. to_write \in Seq(Bytes) /\ log \in Seq(Bytes) /\ Date \in Seq(Bytes)
    BY SocketAssumption DEF SocketInv, DataTypes
  <1>2. \A t \in Threads : local[t] \in Seq(Bytes)
    BY DEF SocketInv, DataTypes
  <1>3. \A c \in Conns : sent[c] \in Seq(Bytes) /\ local[c] \in Seq(Bytes)
    BY DEF SocketInv, DataTypes, Threads
  <1>4. \A cl \in Clients : Len(cl.chunks) \in Nat
    BY SocketAssumption, LenProperties
  <1>5. QED
    BY <1>1, <1>2, <1>3, <1>4, LenProperties

(* What the next read of the socket returns.                               *)
LEMMA ChunkIs ==
  ASSUME SocketInv, NEW c \in Conns, client[c] \in Clients, nread[c] < Len(client[c].chunks)
  PROVE  /\ Chunk(c) \in [data : Seq(Bytes), seek : {NULL} \cup [write_cmd : Nat, offset : Nat]]
         /\ Len(Chunk(c).data) \in 1 .. BUFFER_SIZE
  <1>0. nread[c] \in Nat /\ Len(client[c].chunks) \in Nat
    BY Sizes DEF SocketInv, DataTypes
  <1>1. nread[c] + 1 \in 1 .. Len(client[c].chunks)
    BY <1>0
  <1>2. client[c].chunks \in Seq([data : Seq(Bytes), seek : {NULL} \cup [write_cmd : Nat, offset : Nat]])
    BY SocketAssumption
  <1>3. nread[c] + 1 \in DOMAIN client[c].chunks
    BY <1>1, <1>2, LenProperties
  <1>4. QED
    BY <1>1, <1>2, <1>3, ElementOfSeq, SocketAssumption DEF Chunk

(* A step that leaves the texts alone leaves what is said about them.      *)
LEMMA SameSaid ==
  ASSUME SocketInv, NEW c \in Conns, UNCHANGED to_write,
         local'[c] = local[c], copied'[c] = copied[c], sent'[c] = sent[c],
         \/ pc'[c] = pc[c]
         \/ /\ pc[c] \in {"store", "args", "write", "done"}
            /\ pc'[c] \in {"store", "args", "write", "done"}
  PROVE  Said(c)'
  <1>1. \A n, k : Stands(c, n, k)' <=> Stands(c, n, k)
    BY DEF Stands
  <1>2. Told(c)' <=> Told(c)
    <2>1. \A n : Stands(c, n, Len(local[c]))' <=> Stands(c, n, Len(local[c]))
      BY <1>1
    <2>2. QED
      BY <2>1 DEF Told
  <1>3. /\ Stands(c, Len(to_write), copied[c])' <=> Stands(c, Len(to_write), copied[c])
        /\ Stands(c, Len(to_write), Len(local[c]))' <=> Stands(c, Len(to_write), Len(local[c]))
    BY <1>1
  <1>4. QED
    BY <1>2, <1>3 DEF SocketInv, History, Said

(* So does a byte appended by somebody else.                               *)
LEMMA LaterSaid ==
  ASSUME SocketInv, NEW c \in Conns, NEW x \in Bytes, to_write' = Append(to_write, x),
         local'[c] = local[c], sent'[c] = sent[c],
         pc'[c] = pc[c], pc[c] \notin {"strcat", "send"}
  PROVE  Said(c)'
  <1>0. to_write \in Seq(Bytes) /\ Len(to_write) \in Nat /\ Len(sent[c]) \in Nat
        /\ Len(local[c]) \in Nat
    BY Sizes DEF SocketInv, DataTypes
  <1>1. /\ Len(to_write') = Len(to_write) + 1
        /\ \A i \in 1 .. Len(to_write) : to_write'[i] = to_write[i]
    BY <1>0, AppendProperties
  <1>2. ASSUME Told(c) PROVE Told(c)'
    <2>1. PICK n \in Len(sent[c]) .. Len(to_write) : Stands(c, n, Len(local[c]))
      BY <1>2 DEF Told
    <2>2. Stands(c, n, Len(local[c]))'
      <3>1. n \in Nat /\ Len(local[c]) <= n /\ n <= Len(to_write)
        BY <1>0, <2>1 DEF Stands
      <3>2. ASSUME NEW i \in 1 .. Len(local[c])
            PROVE  to_write'[n - Len(local[c]) + i] = local'[c][i]
        <4>1. n - Len(local[c]) + i \in 1 .. Len(to_write)
          BY <1>0, <3>1
        <4>2. to_write[n - Len(local[c]) + i] = local[c][i]
          BY <2>1 DEF Stands
        <4>3. QED
          BY <1>1, <4>1, <4>2
      <3>3. QED
        BY <3>1, <3>2 DEF Stands
    <2>3. n \in Len(sent'[c]) .. Len(to_write')
      BY <1>0, <1>1, <2>1
    <2>4. Len(sent'[c]) <= Len(to_write') /\ \A i \in 1 .. Len(sent'[c]) : sent'[c][i] = to_write'[i]
      BY <1>0, <1>1, <1>2 DEF Told
    <2>5. QED
      BY <2>2, <2>3, <2>4 DEF Told
  <1>3. QED
    BY <1>2 DEF SocketInv, History, Said

LEMMA SameHistory ==
  ASSUME SocketInv, UNCHANGED to_write,
         \A c \in Conns :
            \/ pc'[c] \notin {"strcat", "send", "store", "args", "write", "done"}
            \/ /\ local'[c] = local[c] /\ copied'[c] = copied[c] /\ sent'[c] = sent[c]
               /\ \/ pc'[c] = pc[c]
                  \/ /\ pc[c] \in {"store", "args", "write", "done"}
                     /\ pc'[c] \in {"store", "args", "write", "done"}
  PROVE  History'
  <1> SUFFICES ASSUME NEW c \in Conns PROVE Said(c)'
    BY DEF History
  <1>1. CASE pc'[c] \notin {"strcat", "send", "store", "args", "write", "done"}
    BY <1>1 DEF Said
  <1>2. CASE pc'[c] \in {"strcat", "send", "store", "args", "write", "done"}
    BY <1>2, SameSaid
  <1>3. QED
    BY <1>1, <1>2

(* One byte more in to_write.                                              *)
LEMMA StrcatIs ==
  ASSUME SocketInv, NEW t \in Threads, Strcat(t), pc[t] = "strcat",
         t = Timer \/ t \in Conns
  PROVE  /\ copied[t] \in Nat /\ copied[t] < Len(local[t])
         /\ local[t][copied[t] + 1] \in Bytes
         /\ to_write' = Append(to_write, local[t][copied[t] + 1])
         /\ to_write' \in Seq(Bytes) /\ Len(to_write') = Len(to_write) + 1
         /\ \A i \in 1 .. Len(to_write) : to_write'[i] = to_write[i]
         /\ to_write'[Len(to_write) + 1] = local[t][copied[t] + 1]
         /\ copied'[t] = copied[t] + 1 /\ \A u \in Threads \ {t} : copied'[u] = copied[u]
         /\ copied' \in [Threads -> Nat]
         /\ down' = IF Len(to_write) + 2 > capacity THEN "overflow" ELSE down
  <1>1. copied \in [Threads -> Nat] /\ to_write \in Seq(Bytes) /\ local[t] \in Seq(Bytes)
    BY DEF SocketInv, DataTypes
  <1>2. copied[t] < Len(local[t])
    <2>1. CASE t = Timer
      BY <2>1 DEF SocketInv, Reading, DataTypes
    <2>2. CASE t \in Conns
      BY <2>2 DEF SocketInv, Reading, ReadBy
    <2>3. QED
      BY <2>1, <2>2
  <1>3. copied[t] + 1 \in 1 .. Len(local[t])
    BY <1>1, <1>2, LenProperties
  <1>4. local[t][copied[t] + 1] \in Bytes
    BY <1>1, <1>3, ElementOfSeq
  <1>5. /\ to_write' = Append(to_write, local[t][copied[t] + 1])
        /\ copied' = [copied EXCEPT ![t] = copied[t] + 1]
        /\ down' = IF Len(to_write) + 2 > capacity THEN "overflow" ELSE down
    BY DEF Strcat
  <1>6. /\ to_write' \in Seq(Bytes) /\ Len(to_write') = Len(to_write) + 1
        /\ \A i \in 1 .. Len(to_write) : to_write'[i] = to_write[i]
        /\ to_write'[Len(to_write) + 1] = local[t][copied[t] + 1]
    BY <1>1, <1>4, <1>5, AppendProperties
  <1>7. QED
    BY <1>1, <1>2, <1>4, <1>5, <1>6

(* What send and write take of a text is a beginning of it.                *)
LEMMA SendableIs ==
  ASSUME NEW S, NEW s \in Seq(S), NEW r \in Sendable(s)
  PROVE  r \in Seq(S) /\ Len(r) \in Nat /\ Len(r) <= Len(s) /\ \A i \in 1 .. Len(r) : r[i] = s[i]
  <1>1. Len(s) \in Nat /\ \A i \in 1 .. Len(s) : s[i] \in S
    BY LenProperties, ElementOfSeq
  <1>2. PICK n \in {0, Len(s) \div 2, Len(s)} : r = SubSeq(s, 1, n)
    BY DEF Sendable
  <1>3. n \in 0 .. Len(s)
    BY <1>1, <1>2
  <1>4. \A i \in 1 .. n : s[i] \in S
    BY <1>1, <1>3
  <1>5. /\ r \in Seq(S) /\ Len(r) = (IF 1 <= n THEN n - 1 + 1 ELSE 0)
        /\ \A i \in 1 .. n - 1 + 1 : r[i] = s[1 + i - 1]
    BY <1>2, <1>3, <1>4, SubSeqProperties
  <1>6. Len(r) = n
    BY <1>3, <1>5
  <1>7. \A i \in 1 .. n : r[i] = s[i]
    BY <1>3, <1>5
  <1>8. QED
    BY <1>1, <1>3, <1>5, <1>6, <1>7

(* What write() finds at the address it was given, and what the device and *)
(* the file then hold.                                                     *)
LEMMA SourceType ==
  ASSUME NEW c \in Conns, to_write \in Seq(Bytes), length[c] \in Nat, NEW bytes \in Source(c)
  PROVE  bytes \in Seq(Bytes)
  <1>1. junk \in Bytes /\ Len(to_write) \in Nat /\ DOMAIN to_write = 1 .. Len(to_write)
    BY SocketAssumption, LenProperties
  <1>2. \A i \in 1 .. Len(to_write) : to_write[i] \in Bytes
    BY ElementOfSeq
  <1>3. \A i \in 1 .. length[c] : (IF i \in DOMAIN to_write THEN to_write[i] ELSE junk) \in Bytes
    BY <1>1, <1>2
  <1>4. CASE bytes = [i \in 1 .. length[c] |-> IF i \in DOMAIN to_write THEN to_write[i] ELSE junk]
    BY <1>3, <1>4
  <1>5. CASE bytes = [i \in 1 .. length[c] |-> junk]
    BY <1>1, <1>5
  <1>6. QED
    BY <1>4, <1>5 DEF Source

LEMMA StoredType ==
  ASSUME log \in Seq(Bytes), NEW bytes \in Seq(Bytes), NEW new \in Stored(bytes)
  PROVE  new \in Seq(Bytes)
  <1>0. Len(bytes) \in Nat /\ \A i \in 1 .. Len(bytes) : bytes[i] \in Bytes
    BY LenProperties, ElementOfSeq
  <1>1. CASE build = "device"
    <2>1. PICK n \in Ends(bytes) \cup {0, Len(bytes)} : new = Recent(log \o SubSeq(bytes, 1, n))
      BY <1>1 DEF Stored
    <2>2. n \in 0 .. Len(bytes)
      BY <1>0, <2>1, EndsAre
    <2>3. \A i \in 1 .. n : bytes[i] \in Bytes
      BY <1>0, <2>2
    <2>4. SubSeq(bytes, 1, n) \in Seq(Bytes)
      BY <2>2, <2>3, SubSeqProperties
    <2>5. log \o SubSeq(bytes, 1, n) \in Seq(Bytes)
      BY <2>4, ConcatProperties
    <2>6. QED
      BY <2>1, <2>5, RecentType
  <1>2. CASE build # "device"
    <2>1. PICK part \in Sendable(bytes) : new = log \o part
      BY <1>2 DEF Stored
    <2>2. part \in Seq(Bytes)
      BY SendableIs
    <2>3. QED
      BY <2>1, <2>2, ConcatProperties
  <1>3. QED
    BY <1>1, <1>2

(* A text with n bytes behind it.                                          *)
LEMMA WithTail ==
  ASSUME NEW s \in Seq(Bytes), NEW n \in Nat, NEW text, text = s \o [i \in 1 .. n |-> junk]
  PROVE  /\ text \in Seq(Bytes) /\ Len(text) \in Nat
         /\ Len(text) = Len(s) + n
         /\ text = << >> => Len(text) = 0
         /\ text # << >> => Len(text) > 0
  <1>1. [i \in 1 .. n |-> junk] \in Seq(Bytes) /\ Len([i \in 1 .. n |-> junk]) = n
    <2>1. junk \in Bytes
      BY SocketAssumption
    <2>2. QED
      BY <2>1
  <1>2. text \in Seq(Bytes) /\ Len(text) = Len(s) + n /\ Len(s) \in Nat
    BY <1>1, ConcatProperties, LenProperties
  <1>3. Len(text) \in Nat
    BY <1>2
  <1>4. text = << >> => Len(text) = 0
    BY EmptySeq
  <1>5. text # << >> => Len(text) > 0
    <2>1. text # << >> => Len(text) \in Nat \ {0}
      BY <1>2, EmptySeq
    <2>2. QED
      BY <2>1
  <1>6. QED
    BY <1>2, <1>3, <1>4, <1>5

-----------------------------------------------------------------------------
(* Nobody is connected, nothing is said.                                   *)
LEMMA InitSocket == Init => SocketInv
  <1> SUFFICES ASSUME Init PROVE SocketInv
    OBVIOUS
  <1> USE SocketAssumption
  <1>1. /\ Timer \in Threads /\ Conns \subseteq Threads /\ BUFFER_SIZE \in Nat
        /\ \A t \in Threads : t \in Conns \/ t = Timer
    BY DEF Threads
  <1>2. << >> \in Seq(Bytes) /\ Len(<< >>) = 0
    BY EmptySeq
  <1>3. /\ \A c \in Conns : pc[c] = "none" /\ client[c] = NULL /\ nread[c] = 0 /\ local[c] = << >>
             /\ size[c] = BUFFER_SIZE /\ copied[c] = 0 /\ length[c] = 0 /\ from[c] = NULL
             /\ sent[c] = << >>
        /\ pc[Timer] \in {"none", "wait"} /\ local[Timer] = Date /\ copied[Timer] = 0
        /\ to_write = << >> /\ log = << >> /\ down = "no" /\ capacity = BUFFER_SIZE
        /\ reply_mutex = Nobody /\ file_mutex = Nobody
    BY <1>1 DEF Init
  <1>4. pc \in [Threads -> ConnSteps \cup TimerSteps]
    BY <1>1 DEF Init, ConnSteps, TimerSteps
  <1>5. Mutexes
    BY <1>1, <1>3, <1>4 DEF Mutexes, ConnSteps, TimerSteps
  <1>6. DataTypes
    <2>1. local \in [Threads -> Seq(Bytes)] /\ copied \in [Threads -> Nat]
      BY <1>2 DEF Init
    <2>2. /\ client \in [Conns -> Clients \cup {NULL}] /\ nread \in [Conns -> Nat]
          /\ size \in [Conns -> Nat] /\ length \in [Conns -> Nat]
          /\ from \in [Conns -> Nat \cup {NULL}]
      BY DEF Init
    <2>3. sent \in [Conns -> Seq(Bytes)]
      BY <1>2 DEF Init
    <2>4. build \in Builds /\ ticks \in 0 .. MaxTicks /\ dangling \subseteq Conns /\ f_pos \in Nat
      BY DEF Init
    <2>5. QED
      BY <1>2, <1>3, <2>1, <2>2, <2>3, <2>4 DEF DataTypes
  <1>7. Reading
    <2>1. Len(Date) \in Nat
      BY LenProperties
    <2>2. ASSUME NEW c \in Conns PROVE ReadBy(c)
      BY <1>1, <1>2, <1>3 DEF ReadBy
    <2>3. QED
      BY <1>3, <2>1, <2>2 DEF Reading
  <1>8. Room
    BY <1>1, <1>2, <1>3 DEF Room, Unterminated
  <1>9. History
    BY <1>3 DEF History, Said
  <1>10. Seeks /\ SeekReadsToEnd /\ OverflowNeedsHistory
    BY <1>3 DEF Seeks, SeekReadsToEnd, OverflowNeedsHistory
  <1>11. QED
    BY <1>5, <1>6, <1>7, <1>8, <1>9, <1>10 DEF SocketInv

(* A step that changes nothing.                                            *)
LEMMA StutterKeeps == SocketInv /\ UNCHANGED vars => SocketInv'
  <1> SUFFICES ASSUME SocketInv, UNCHANGED vars PROVE SocketInv'
    OBVIOUS
  <1>1. UNCHANGED <<build, ticks, pc, client, nread, local, size, copied, to_write, capacity,
                    down, length, dangling, reply_mutex, file_mutex, log, f_pos, from, sent>>
    BY DEF vars, config, input, shared, mutexes, device
  <1>2. History'
    BY <1>1, SameHistory
  <1>3. Mutexes' /\ DataTypes' /\ Room' /\ Seeks'
    BY <1>1 DEF SocketInv, Mutexes, DataTypes, Room, Unterminated, Seeks
  <1>4. Reading'
    BY <1>1 DEF SocketInv, Reading, ReadBy, Chunk
  <1>5. SeekReadsToEnd' /\ OverflowNeedsHistory'
    BY <1>1 DEF SocketInv, SeekReadsToEnd, OverflowNeedsHistory, Unterminated
  <1>6. QED
    BY <1>2, <1>3, <1>4, <1>5 DEF SocketInv

-----------------------------------------------------------------------------
(* A new connection has read and sent nothing.                             *)
LEMMA AcceptKeeps ==
  ASSUME SocketInv, Up, NEW c \in Conns, Accept(c)
  PROVE  SocketInv'
  <1> USE SocketAssumption DEF SocketInv
  <1>0. /\ pc \in [Threads -> ConnSteps \cup TimerSteps] /\ Conns \subseteq Threads
        /\ Timer \in Threads /\ down = "no"
    BY DEF Mutexes, Threads, Up
  <1>1. /\ pc[c] = "none" /\ pc'[c] \in {"read", "dropped"}
        /\ \A d \in Threads \ {c} : pc'[d] = pc[d]
        /\ pc' \in [Threads -> ConnSteps \cup TimerSteps]
        /\ client'[c] \in Clients /\ \A d \in Conns \ {c} : client'[d] = client[d]
        /\ client' \in [Conns -> Clients \cup {NULL}]
        /\ UNCHANGED <<build, ticks, nread, local, size, copied, to_write,
                         capacity, down, length, dangling, reply_mutex, file_mutex, log,
                         f_pos, from, sent>>
    BY <1>0 DEF Accept, Goto, ConnSteps, TimerSteps, config, shared, mutexes, device, input, DataTypes
  <1>2. Mutexes'
    BY <1>0, <1>1 DEF Mutexes, Threads, ConnSteps, TimerSteps
  <1>3. DataTypes'
    BY <1>0, <1>1 DEF DataTypes
  <1>4. Reading'
    <2>1. ASSUME NEW d \in Conns, d # c PROVE ReadBy(d)'
      BY <1>0, <1>1, <2>1 DEF Reading, ReadBy, Chunk
    <2>2. ReadBy(c)'
      <3>1. ReadBy(c) /\ nread'[c] = nread[c] /\ local'[c] = local[c] /\ size'[c] = size[c]
            /\ copied'[c] = copied[c]
        BY <1>1 DEF Reading
      <3>2. QED
        BY <1>1, <3>1 DEF ReadBy, Chunk
    <2>3. QED
      BY <1>0, <1>1, <2>1, <2>2 DEF Reading
  <1>5. Room'
    BY <1>0, <1>1 DEF Room, Unterminated
  <1>6. History'
    BY <1>0, <1>1, SameHistory
  <1>7. Seeks'
    BY <1>0, <1>1 DEF Seeks
  <1>8. SeekReadsToEnd'
    BY <1>0, <1>1 DEF SeekReadsToEnd
  <1>9. OverflowNeedsHistory'
    BY <1>0, <1>1 DEF OverflowNeedsHistory, Unterminated
  <1>10. QED
    BY <1>2, <1>3, <1>4, <1>5, <1>6, <1>7, <1>8, <1>9

(* to_write_local has doubled before it could be full: what is read, with  *)
(* its NUL, still fits.                                                    *)
LEMMA ReadTextKeeps ==
  ASSUME SocketInv, Up, NEW c \in Conns, ReadText(c)
  PROVE  SocketInv'
  <1> USE SocketAssumption DEF SocketInv
  <1>0. /\ pc \in [Threads -> ConnSteps \cup TimerSteps] /\ Conns \subseteq Threads
        /\ Timer \in Threads /\ down = "no"
    BY DEF Mutexes, Threads, Up
  <1> DEFINE data == Chunk(c).data
             count == Len(local[c]) + Len(data)
  <1>a. /\ client[c] \in Clients /\ nread[c] \in Nat /\ nread[c] < Len(client[c].chunks)
        /\ Len(client[c].chunks) \in Nat
    BY <1>0, Sizes DEF ReadText, Reading, ReadBy, DataTypes
  <1>b. data \in Seq(Bytes) /\ Len(data) \in 1 .. BUFFER_SIZE
    BY <1>a, ChunkIs
  <1> HIDE DEF data
  <1>c. /\ local[c] \in Seq(Bytes) /\ Len(local[c]) \in Nat /\ size[c] \in Nat
        /\ Len(local[c]) < size[c] /\ BUFFER_SIZE <= size[c]
    BY <1>0, Sizes DEF ReadText, Reading, ReadBy, DataTypes
  <1>d. local[c] \o data \in Seq(Bytes) /\ Len(local[c] \o data) = count
    BY <1>b, <1>c, ConcatProperties
  <1>e. grown_size(c, count) \in Nat /\ count < grown_size(c, count) /\ BUFFER_SIZE <= grown_size(c, count)
    BY <1>b, <1>c DEF grown_size
  <1>f. /\ local' = [local EXCEPT ![c] = local[c] \o data]
        /\ size' = [size EXCEPT ![c] = grown_size(c, count)]
        /\ nread' = [nread EXCEPT ![c] = nread[c] + 1]
    BY DEF ReadText, data
  <1>1. /\ pc[c] = "read" /\ pc'[c] \in {"read", "reply"}
        /\ \A d \in Threads \ {c} : pc'[d] = pc[d]
        /\ pc' \in [Threads -> ConnSteps \cup TimerSteps]
        /\ local'[c] \in Seq(Bytes) /\ Len(local'[c]) < size'[c] /\ Len(local'[c]) \in Nat
        /\ size'[c] \in Nat /\ size'[c] >= BUFFER_SIZE /\ nread'[c] = nread[c] + 1
        /\ local' \in [Threads -> Seq(Bytes)] /\ size' \in [Conns -> Nat] /\ nread' \in [Conns -> Nat]
        /\ \A d \in Threads \ {c} : local'[d] = local[d]
        /\ \A d \in Conns \ {c} : size'[d] = size[d]
        /\ \A d \in Conns \ {c} : nread'[d] = nread[d]
        /\ UNCHANGED <<build, ticks, client, copied, to_write, capacity,
                         down, length, dangling, reply_mutex, file_mutex, log, f_pos, from,
                         sent>>
    <2>1. /\ pc[c] = "read" /\ pc'[c] \in {"read", "reply"}
          /\ \A d \in Threads \ {c} : pc'[d] = pc[d]
          /\ pc' \in [Threads -> ConnSteps \cup TimerSteps]
      BY <1>0 DEF ReadText, Goto, ConnSteps
    <2>2. /\ local'[c] = local[c] \o data /\ \A d \in Threads \ {c} : local'[d] = local[d]
          /\ local' \in [Threads -> Seq(Bytes)]
      BY <1>0, <1>d, <1>f DEF DataTypes
    <2>3. /\ size'[c] = grown_size(c, count) /\ \A d \in Conns \ {c} : size'[d] = size[d]
          /\ size' \in [Conns -> Nat]
      BY <1>0, <1>e, <1>f DEF DataTypes
    <2>4. /\ nread'[c] = nread[c] + 1 /\ \A d \in Conns \ {c} : nread'[d] = nread[d]
          /\ nread' \in [Conns -> Nat]
      BY <1>0, <1>f DEF DataTypes
    <2>5. QED
      BY <1>b, <1>c, <1>d, <1>e, <2>1, <2>2, <2>3, <2>4, SMTT(40) DEF ReadText, config, shared, mutexes, device
  <1>2. Mutexes'
    BY <1>0, <1>1, ZenonT(40) DEF Mutexes, Threads, ConnSteps, TimerSteps
  <1>3. DataTypes'
    BY <1>0, <1>1 DEF DataTypes, Threads
  <1>4. Reading'
    <2>1. ASSUME NEW d \in Conns, d # c PROVE ReadBy(d)'
      BY <1>0, <1>1, <2>1, ZenonT(40) DEF Reading, ReadBy, Chunk
    <2>2. ReadBy(c)'
      <3>1. copied[c] = 0
        BY <1>1 DEF Reading, ReadBy
      <3>2. QED
        BY <1>1, <1>a, <3>1, SMTT(40) DEF ReadBy
    <2>3. QED
      BY <1>0, <1>1, <2>1, <2>2 DEF Reading
  <1>5. Room'
    BY <1>0, <1>1 DEF Room, Unterminated
  <1>6. History'
    BY <1>0, <1>1, SameHistory
  <1>7. Seeks'
    BY <1>0, <1>1 DEF Seeks
  <1>8. SeekReadsToEnd'
    BY <1>0, <1>1 DEF SeekReadsToEnd
  <1>9. OverflowNeedsHistory'
    BY <1>0, <1>1 DEF OverflowNeedsHistory, Unterminated
  <1>10. QED
    BY <1>2, <1>3, <1>4, <1>5, <1>6, <1>7, <1>8, <1>9

(* From here on the chunk not yet read is the seek request.                *)
LEMMA ReadSeekKeeps ==
  ASSUME SocketInv, Up, NEW c \in Conns, ReadSeek(c)
  PROVE  SocketInv'
  <1> USE SocketAssumption DEF SocketInv
  <1>0. /\ pc \in [Threads -> ConnSteps \cup TimerSteps] /\ Conns \subseteq Threads
        /\ Timer \in Threads /\ down = "no"
    BY DEF Mutexes, Threads, Up
  <1>1. /\ pc[c] = "read" /\ pc'[c] = "seek"
        /\ \A d \in Threads \ {c} : pc'[d] = pc[d]
        /\ pc' \in [Threads -> ConnSteps \cup TimerSteps]
        /\ nread[c] < Len(client[c].chunks) /\ Chunk(c).seek # NULL
        /\ UNCHANGED <<build, ticks, client, nread, local, size, copied,
                         to_write, capacity, down, length, dangling, reply_mutex,
                         file_mutex, log, f_pos, from, sent>>
    BY <1>0 DEF ReadSeek, Goto, ConnSteps, TimerSteps, config, shared, mutexes, device, input, IsSeek
  <1>2. Mutexes'
    BY <1>0, <1>1 DEF Mutexes, Threads, ConnSteps, TimerSteps
  <1>3. DataTypes'
    BY <1>0, <1>1 DEF DataTypes
  <1>4. Reading'
    BY <1>0, <1>1 DEF Reading, ReadBy, Chunk
  <1>5. Room'
    BY <1>0, <1>1 DEF Room, Unterminated
  <1>6. History'
    BY <1>0, <1>1, SameHistory
  <1>7. Seeks'
    BY <1>0, <1>1 DEF Seeks
  <1>8. SeekReadsToEnd'
    BY <1>0, <1>1 DEF SeekReadsToEnd
  <1>9. OverflowNeedsHistory'
    BY <1>0, <1>1 DEF OverflowNeedsHistory, Unterminated
  <1>10. QED
    BY <1>2, <1>3, <1>4, <1>5, <1>6, <1>7, <1>8, <1>9

(* End of the message: nothing but the step changes.                       *)
LEMMA ReadEndKeeps ==
  ASSUME SocketInv, Up, NEW c \in Conns, ReadEnd(c)
  PROVE  SocketInv'
  <1> USE SocketAssumption DEF SocketInv
  <1>0. /\ pc \in [Threads -> ConnSteps \cup TimerSteps] /\ Conns \subseteq Threads
        /\ Timer \in Threads /\ down = "no"
    BY DEF Mutexes, Threads, Up
  <1>1. /\ pc[c] = "read" /\ pc'[c] = "reply"
        /\ \A d \in Threads \ {c} : pc'[d] = pc[d]
        /\ pc' \in [Threads -> ConnSteps \cup TimerSteps]
        /\ UNCHANGED <<build, ticks, client, nread, local, size, copied,
                         to_write, capacity, down, length, dangling, reply_mutex,
                         file_mutex, log, f_pos, from, sent>>
    BY <1>0 DEF ReadEnd, Goto, ConnSteps, TimerSteps, config, shared, mutexes, device, input
  <1>2. Mutexes'
    BY <1>0, <1>1 DEF Mutexes, Threads, ConnSteps, TimerSteps
  <1>3. DataTypes'
    BY <1>0, <1>1 DEF DataTypes
  <1>4. Reading'
    BY <1>0, <1>1 DEF Reading, ReadBy, Chunk
  <1>5. Room'
    BY <1>0, <1>1 DEF Room, Unterminated
  <1>6. History'
    BY <1>0, <1>1, SameHistory
  <1>7. Seeks'
    BY <1>0, <1>1 DEF Seeks
  <1>8. SeekReadsToEnd'
    BY <1>0, <1>1 DEF SeekReadsToEnd
  <1>9. OverflowNeedsHistory'
    BY <1>0, <1>1 DEF OverflowNeedsHistory, Unterminated
  <1>10. QED
    BY <1>2, <1>3, <1>4, <1>5, <1>6, <1>7, <1>8, <1>9

(* file_mutex was free, so nobody is using the file position.              *)
LEMMA SeekLockKeeps ==
  ASSUME SocketInv, Up, NEW c \in Conns, SeekLock(c)
  PROVE  SocketInv'
  <1> USE SocketAssumption DEF SocketInv
  <1>0. /\ pc \in [Threads -> ConnSteps \cup TimerSteps] /\ Conns \subseteq Threads
        /\ Timer \in Threads /\ down = "no"
    BY DEF Mutexes, Threads, Up
  <1>1. /\ pc[c] = "seek" /\ pc'[c] = "ioctl"
        /\ \A d \in Threads \ {c} : pc'[d] = pc[d]
        /\ pc' \in [Threads -> ConnSteps \cup TimerSteps]
        /\ file_mutex = Nobody /\ file_mutex' = c
        /\ UNCHANGED <<build, ticks, client, nread, local, size, copied,
                         to_write, capacity, down, length, dangling, reply_mutex, log,
                         f_pos, from, sent>>
    BY <1>0 DEF SeekLock, Goto, ConnSteps, TimerSteps, config, shared, mutexes, device, input
  <1>2. Mutexes'
    BY <1>0, <1>1 DEF Mutexes, Threads, ConnSteps, TimerSteps
  <1>3. DataTypes'
    BY <1>0, <1>1 DEF DataTypes
  <1>4. Reading'
    BY <1>0, <1>1 DEF Reading, ReadBy, Chunk
  <1>5. Room'
    BY <1>0, <1>1 DEF Room, Unterminated
  <1>6. History'
    BY <1>0, <1>1, SameHistory
  <1>7. Seeks'
    BY <1>0, <1>1 DEF Seeks
  <1>8. SeekReadsToEnd'
    BY <1>0, <1>1 DEF SeekReadsToEnd
  <1>9. OverflowNeedsHistory'
    BY <1>0, <1>1 DEF OverflowNeedsHistory, Unterminated
  <1>10. QED
    BY <1>2, <1>3, <1>4, <1>5, <1>6, <1>7, <1>8, <1>9

(* The holder of file_mutex moves the shared position, and nobody else is  *)
(* streaming from it.                                                      *)
LEMMA SeekIoctlKeeps ==
  ASSUME SocketInv, Up, NEW c \in Conns, SeekIoctl(c)
  PROVE  SocketInv'
  <1> USE SocketAssumption DEF SocketInv
  <1>0. /\ pc \in [Threads -> ConnSteps \cup TimerSteps] /\ Conns \subseteq Threads
        /\ Timer \in Threads /\ down = "no"
    BY DEF Mutexes, Threads, Up
  <1>a. Chunk(c).seek.offset \in Nat
    <2>1. pc[c] = "ioctl"
      BY DEF SeekIoctl
    <2>2. client[c] \in Clients /\ nread[c] < Len(client[c].chunks) /\ Chunk(c).seek # NULL
      BY <2>1 DEF Reading, ReadBy
    <2>3. QED
      BY <2>2, ChunkIs
  <1>b. log \in Seq(Bytes) /\ from \in [Conns -> Nat \cup {NULL}]
    BY DEF DataTypes
  <1>1. /\ pc[c] = "ioctl" /\ pc'[c] \in {"sought", "stream"}
        /\ \A d \in Threads \ {c} : pc'[d] = pc[d]
        /\ pc' \in [Threads -> ConnSteps \cup TimerSteps]
        /\ \/ pc'[c] = "sought" /\ f_pos' = f_pos /\ from' = from
           \/ /\ pc'[c] = "stream" /\ f_pos' \in Nat /\ f_pos' < Len(Complete(log))
              /\ from'[c] = f_pos' /\ \A d \in Conns \ {c} : from'[d] = from[d]
        /\ from' \in [Conns -> Nat \cup {NULL}]
        /\ UNCHANGED <<build, ticks, client, nread, local, size, copied,
                         to_write, capacity, down, length, dangling, reply_mutex,
                         file_mutex, log, sent>>
    <2> DEFINE at == IF build = "device" THEN Positions(log, Chunk(c).seek.write_cmd, Chunk(c).seek.offset)
                     ELSE {}
    <2>1. /\ pc[c] = "ioctl"
          /\ UNCHANGED <<build, ticks, client, nread, local, size, copied, to_write, capacity,
                         down, length, dangling, reply_mutex, file_mutex, log, sent>>
          /\ \/ Goto(c, "sought") /\ UNCHANGED <<f_pos, from>>
             \/ \E pos \in at : f_pos' = pos /\ from' = [from EXCEPT ![c] = pos] /\ Goto(c, "stream")
      BY DEF SeekIoctl, config, shared, mutexes, input
    <2>2. \A pos \in at : pos \in Nat /\ pos < Len(Complete(log))
      BY <1>a, <1>b, PositionsAre
    <2>3. CASE Goto(c, "sought") /\ UNCHANGED <<f_pos, from>>
      BY <1>0, <1>b, <2>1, <2>3 DEF Goto, ConnSteps
    <2>4. ASSUME NEW pos \in at, f_pos' = pos /\ from' = [from EXCEPT ![c] = pos] /\ Goto(c, "stream")
          PROVE  /\ pc'[c] = "stream" /\ \A d \in Threads \ {c} : pc'[d] = pc[d]
                 /\ pc' \in [Threads -> ConnSteps \cup TimerSteps]
                 /\ f_pos' \in Nat /\ f_pos' < Len(Complete(log))
                 /\ from'[c] = f_pos' /\ \A d \in Conns \ {c} : from'[d] = from[d]
                 /\ from' \in [Conns -> Nat \cup {NULL}]
      BY <1>0, <1>b, <2>2, <2>4 DEF Goto, ConnSteps
    <2>5. QED
      BY <2>1, <2>3, <2>4
  <1>2. Mutexes'
    BY <1>0, <1>1 DEF Mutexes, Threads, ConnSteps, TimerSteps
  <1>3. DataTypes'
    BY <1>0, <1>1 DEF DataTypes
  <1>4. Reading'
    BY <1>0, <1>1 DEF Reading, ReadBy, Chunk
  <1>5. Room'
    BY <1>0, <1>1 DEF Room, Unterminated
  <1>6. History'
    BY <1>0, <1>1, SameHistory
  <1>7. Seeks'
    <2>1. sent[c] = << >> /\ from[c] = NULL
      BY <1>1 DEF Seeks
    <2>2. Len(Complete(log)) \in Nat
      BY <1>b, CompleteIs, Sizes
    <2>3. ASSUME pc'[c] = "stream" PROVE sent[c] = SubSeq(log, f_pos' + 1, f_pos')
      BY <1>1, <2>1, <2>3, SubSeqEmpty
    <2>4. \A d \in Conns \ {c} : pc[d] # "stream"
      BY <1>1 DEF Mutexes
    <2>5. CASE pc'[c] = "sought"
      BY <1>0, <1>1, <2>4, <2>5 DEF Seeks
    <2>6. CASE pc'[c] = "stream"
      BY <1>0, <1>1, <2>2, <2>3, <2>4, <2>6 DEF Seeks
    <2>7. QED
      BY <1>1, <2>5, <2>6
  <1>8. SeekReadsToEnd'
    <2>1. sent[c] = << >> /\ from[c] = NULL
      BY <1>1 DEF Seeks
    <2>2. \A d \in Conns \ {c} : pc[d] # "sought"
      BY <1>1 DEF Mutexes
    <2>3. QED
      BY <1>0, <1>1, <2>1, <2>2 DEF SeekReadsToEnd
  <1>9. OverflowNeedsHistory'
    BY <1>0, <1>1 DEF OverflowNeedsHistory, Unterminated
  <1>10. QED
    BY <1>2, <1>3, <1>4, <1>5, <1>6, <1>7, <1>8, <1>9

(* What is sent continues what was sent, and the last read finds the end.  *)
LEMMA SeekReadKeeps ==
  ASSUME SocketInv, Up, NEW c \in Conns, SeekRead(c)
  PROVE  SocketInv'
  <1> USE SocketAssumption DEF SocketInv
  <1>0. /\ pc \in [Threads -> ConnSteps \cup TimerSteps] /\ Conns \subseteq Threads
        /\ Timer \in Threads /\ down = "no"
    BY DEF Mutexes, Threads, Up
  <1> DEFINE bytes == BytesAt(log, f_pos, BUFFER_SIZE)
  <1>a. /\ pc[c] = "stream"
        /\ f_pos' = f_pos + Len(bytes) /\ sent' = [sent EXCEPT ![c] = sent[c] \o bytes]
        /\ Goto(c, IF bytes = << >> THEN "sought" ELSE "stream")
        /\ down' \in {"no", "SIGPIPE"}
    BY <1>0 DEF SeekRead, Send
  <1>b. /\ log \in Seq(Bytes) /\ sent[c] \in Seq(Bytes) /\ f_pos \in Nat
        /\ Len(Complete(log)) \in 0 .. Len(log) /\ Len(log) \in Nat
    BY CompleteIs, Sizes DEF DataTypes
  <1>c. /\ from[c] \in Nat /\ from[c] <= f_pos /\ f_pos <= Len(Complete(log))
        /\ sent[c] = SubSeq(log, from[c] + 1, f_pos)
    BY <1>a DEF Seeks
  <1>d. /\ bytes \in Seq(Bytes) /\ f_pos' \in Nat /\ from[c] <= f_pos' /\ f_pos' <= Len(Complete(log))
        /\ sent[c] \o bytes = SubSeq(log, from[c] + 1, f_pos')
        /\ bytes = << >> => f_pos' = Len(Complete(log))
    <2>1. /\ bytes \in Seq(Bytes) /\ Len(bytes) \in Nat /\ f_pos + Len(bytes) <= Len(Complete(log))
          /\ SubSeq(log, from[c] + 1, f_pos) \o bytes = SubSeq(log, from[c] + 1, f_pos + Len(bytes))
          /\ bytes = << >> => f_pos + Len(bytes) = Len(Complete(log))
      <3>1. BUFFER_SIZE \in Nat \ {0} /\ log \in Seq(Bytes) /\ f_pos \in Nat
        BY <1>b
      <3> HIDE SocketAssumption DEF SocketInv
      <3>2. from[c] \in Nat /\ from[c] <= f_pos /\ f_pos <= Len(Complete(log))
        BY <1>c
      <3>3. \A start \in Nat : start <= f_pos /\ f_pos <= Len(Complete(log)) =>
              /\ bytes \in Seq(Bytes) /\ Len(bytes) \in Nat /\ f_pos + Len(bytes) <= Len(Complete(log))
              /\ SubSeq(log, start + 1, f_pos) \o bytes = SubSeq(log, start + 1, f_pos + Len(bytes))
              /\ bytes = << >> => f_pos + Len(bytes) = Len(Complete(log))
        BY <3>1, ReadOn, SMTT(20)
      <3>4. QED
        BY <3>2, <3>3, Zenon
    <2>a. Len(bytes) \in Nat /\ f_pos + Len(bytes) <= Len(Complete(log))
      BY <2>1
    <2>b. from[c] \in Nat /\ from[c] <= f_pos
      BY <1>c
    <2> HIDE DEF bytes, SocketInv
    <2>2. f_pos' = f_pos + Len(bytes)
      BY <1>a
    <2>3. f_pos' \in Nat /\ from[c] <= f_pos' /\ f_pos' <= Len(Complete(log))
      BY <1>b, <2>a, <2>b, <2>2
    <2>4. QED
      BY <1>c, <2>1, <2>2, <2>3, Zenon
  <1>e. sent[c] \o bytes \in Seq(Bytes)
    BY <1>b, <1>d, ConcatProperties
  <1> HIDE DEF bytes
  <1>1. /\ pc[c] = "stream" /\ pc'[c] \in {"sought", "stream"}
        /\ \A d \in Threads \ {c} : pc'[d] = pc[d]
        /\ pc' \in [Threads -> ConnSteps \cup TimerSteps]
        /\ pc'[c] = "sought" => f_pos' = Len(Complete(log))
        /\ f_pos' \in Nat /\ from[c] \in Nat /\ from[c] <= f_pos' /\ f_pos' <= Len(Complete(log))
        /\ sent'[c] = SubSeq(log, from[c] + 1, f_pos') /\ \A d \in Conns \ {c} : sent'[d] = sent[d]
        /\ sent' \in [Conns -> Seq(Bytes)]
        /\ down' \in {"no", "SIGPIPE"}
        /\ UNCHANGED <<build, ticks, client, nread, local, size, copied,
                         to_write, capacity, length, dangling, reply_mutex, file_mutex,
                         log, from>>
    <2>1. /\ pc'[c] = (IF bytes = << >> THEN "sought" ELSE "stream")
          /\ \A d \in Threads \ {c} : pc'[d] = pc[d]
          /\ pc' \in [Threads -> ConnSteps \cup TimerSteps]
      BY <1>0, <1>a DEF Goto, ConnSteps
    <2>2. /\ sent'[c] = sent[c] \o bytes /\ \A d \in Conns \ {c} : sent'[d] = sent[d]
          /\ sent' \in [Conns -> Seq(Bytes)]
      BY <1>a, <1>e DEF DataTypes
    <2>3. QED
      BY <1>a, <1>c, <1>d, <2>1, <2>2 DEF SeekRead, config, mutexes, input
  <1>2. Mutexes'
    BY <1>0, <1>1 DEF Mutexes, Threads, ConnSteps, TimerSteps
  <1>3. DataTypes'
    BY <1>0, <1>1 DEF DataTypes
  <1>4. Reading'
    BY <1>0, <1>1, ZenonT(40) DEF Reading, ReadBy, Chunk
  <1>5. Room'
    BY <1>0, <1>1 DEF Room, Unterminated
  <1>6. History'
    BY <1>0, <1>1, SameHistory
  <1>7. Seeks'
    <2>1. \A d \in Conns \ {c} : pc[d] # "stream"
      BY <1>1 DEF Mutexes
    <2>2. QED
      BY <1>0, <1>1, <2>1 DEF Seeks
  <1>8. SeekReadsToEnd'
    <2>1. \A d \in Conns \ {c} : pc[d] # "sought"
      BY <1>1 DEF Mutexes
    <2>2. ASSUME pc'[c] = "sought"
          PROVE  from'[c] # NULL /\ sent'[c] = SubSeq(log', from'[c] + 1, Len(Complete(log')))
      BY <1>1, <2>2
    <2>3. QED
      BY <1>0, <1>1, <2>1, <2>2 DEF SeekReadsToEnd
  <1>9. OverflowNeedsHistory'
    BY <1>0, <1>1 DEF OverflowNeedsHistory, Unterminated
  <1>10. QED
    BY <1>2, <1>3, <1>4, <1>5, <1>6, <1>7, <1>8, <1>9

(* The mutex is given back when the request has been served.               *)
LEMMA SeekDoneKeeps ==
  ASSUME SocketInv, Up, NEW c \in Conns, SeekDone(c)
  PROVE  SocketInv'
  <1> USE SocketAssumption DEF SocketInv
  <1>0. /\ pc \in [Threads -> ConnSteps \cup TimerSteps] /\ Conns \subseteq Threads
        /\ Timer \in Threads /\ down = "no"
    BY DEF Mutexes, Threads, Up
  <1>1. /\ pc[c] = "sought" /\ pc'[c] = "seek_done"
        /\ \A d \in Threads \ {c} : pc'[d] = pc[d]
        /\ pc' \in [Threads -> ConnSteps \cup TimerSteps]
        /\ file_mutex' = Nobody
        /\ UNCHANGED <<build, ticks, client, nread, local, size, copied,
                         to_write, capacity, down, length, dangling, reply_mutex, log,
                         f_pos, from, sent>>
    BY <1>0 DEF SeekDone, Goto, ConnSteps, TimerSteps, config, shared, mutexes, device, input
  <1>2. Mutexes'
    BY <1>0, <1>1 DEF Mutexes, Threads, ConnSteps, TimerSteps
  <1>3. DataTypes'
    BY <1>0, <1>1 DEF DataTypes
  <1>4. Reading'
    BY <1>0, <1>1 DEF Reading, ReadBy, Chunk
  <1>5. Room'
    BY <1>0, <1>1 DEF Room, Unterminated
  <1>6. History'
    BY <1>0, <1>1, SameHistory
  <1>7. Seeks'
    BY <1>0, <1>1 DEF Seeks
  <1>8. SeekReadsToEnd'
    BY <1>0, <1>1 DEF SeekReadsToEnd
  <1>9. OverflowNeedsHistory'
    BY <1>0, <1>1 DEF OverflowNeedsHistory, Unterminated
  <1>10. QED
    BY <1>2, <1>3, <1>4, <1>5, <1>6, <1>7, <1>8, <1>9

(* reply_mutex was free, so nobody is appending to to_write.               *)
LEMMA ReplyLockKeeps ==
  ASSUME SocketInv, Up, NEW c \in Conns, ReplyLock(c)
  PROVE  SocketInv'
  <1> USE SocketAssumption DEF SocketInv
  <1>0. /\ pc \in [Threads -> ConnSteps \cup TimerSteps] /\ Conns \subseteq Threads
        /\ Timer \in Threads /\ down = "no"
    BY DEF Mutexes, Threads, Up
  <1>1. /\ pc[c] = "reply" /\ pc'[c] = "grow"
        /\ \A d \in Threads \ {c} : pc'[d] = pc[d]
        /\ pc' \in [Threads -> ConnSteps \cup TimerSteps]
        /\ reply_mutex = Nobody /\ reply_mutex' = c
        /\ UNCHANGED <<build, ticks, client, nread, local, size, copied,
                         to_write, capacity, down, length, dangling, file_mutex, log,
                         f_pos, from, sent>>
    BY <1>0 DEF ReplyLock, Goto, ConnSteps, TimerSteps, config, shared, mutexes, device, input
  <1>2. Mutexes'
    BY <1>0, <1>1 DEF Mutexes, Threads, ConnSteps, TimerSteps
  <1>3. DataTypes'
    BY <1>0, <1>1 DEF DataTypes
  <1>4. Reading'
    BY <1>0, <1>1 DEF Reading, ReadBy, Chunk
  <1>5. Room'
    BY <1>0, <1>1 DEF Room, Unterminated
  <1>6. History'
    BY <1>0, <1>1, SameHistory
  <1>7. Seeks'
    BY <1>0, <1>1 DEF Seeks
  <1>8. SeekReadsToEnd'
    BY <1>0, <1>1 DEF SeekReadsToEnd
  <1>9. OverflowNeedsHistory'
    BY <1>0, <1>1 DEF OverflowNeedsHistory, Unterminated
  <1>10. QED
    BY <1>2, <1>3, <1>4, <1>5, <1>6, <1>7, <1>8, <1>9

(* After the growth there is room for the message, unless the text is long *)
(* already; nothing of the message is in to_write yet.                     *)
LEMMA ReplyGrowKeeps ==
  ASSUME SocketInv, Up, NEW c \in Conns, ReplyGrow(c)
  PROVE  SocketInv'
  <1> USE SocketAssumption DEF SocketInv
  <1>0. /\ pc \in [Threads -> ConnSteps \cup TimerSteps] /\ Conns \subseteq Threads
        /\ Timer \in Threads /\ down = "no"
    BY DEF Mutexes, Threads, Up
  <1>a. /\ Len(to_write) \in Nat /\ local \in [Threads -> Seq(Bytes)] /\ local[c] \in Seq(Bytes)
        /\ size[c] \in Nat /\ size[c] >= BUFFER_SIZE /\ capacity \in Nat /\ capacity >= BUFFER_SIZE
        /\ Len(local[c]) \in Nat /\ Len(local[c]) < size[c] /\ copied[c] = 0
        /\ dangling \subseteq Conns
    BY <1>0, Sizes DEF ReplyGrow, DataTypes, Reading, ReadBy, Room
  <1>b. PICK n \in IF size[c] > BUFFER_SIZE THEN Tails ELSE {0} :
          LET text == local[c] \o [i \in 1 .. n |-> junk]
          IN  /\ local' = [local EXCEPT ![c] = text]
              /\ Goto(c, IF text = << >> THEN "send" ELSE "strcat")
    BY DEF ReplyGrow
  <1> DEFINE text == local[c] \o [i \in 1 .. n |-> junk]
  <1>c. n \in Nat /\ (n = 0 \/ size[c] > BUFFER_SIZE)
    BY <1>b
  <1>d. /\ text \in Seq(Bytes) /\ Len(text) \in Nat /\ Len(text) = Len(local[c]) + n
        /\ text = << >> => Len(text) = 0
        /\ text # << >> => Len(text) > 0
    BY <1>a, <1>c, WithTail
  <1> HIDE DEF text
  <1>e. /\ capacity' \in Nat /\ capacity' >= BUFFER_SIZE
        /\ \/ size[c] > BUFFER_SIZE /\ Len(text) >= size[c]
           \/ Len(to_write) < BUFFER_SIZE => capacity' > Len(to_write) + Len(text)
    <2>1. capacity' = IF Len(to_write) < size[c] THEN size[c] + Len(to_write) + Slack ELSE capacity
      BY DEF ReplyGrow, grown_capacity
    <2>2. QED
      BY <1>a, <1>c, <1>d, <2>1, SMTT(40)
  <1>1. /\ pc[c] = "grow" /\ pc'[c] \in {"send", "strcat"}
        /\ \A d \in Threads \ {c} : pc'[d] = pc[d]
        /\ pc' \in [Threads -> ConnSteps \cup TimerSteps]
        /\ local'[c] = text /\ \A d \in Threads \ {c} : local'[d] = local[d]
        /\ local' \in [Threads -> Seq(Bytes)] /\ Len(text) \in Nat
        /\ capacity' \in Nat /\ capacity' >= BUFFER_SIZE
        /\ \/ size[c] > BUFFER_SIZE /\ Len(text) >= size[c]
           \/ Len(to_write) < BUFFER_SIZE => capacity' > Len(to_write) + Len(text)
        /\ copied[c] = 0
        /\ pc'[c] = "send" => Len(text) = 0
        /\ pc'[c] = "strcat" => Len(text) > 0
        /\ dangling' \subseteq Conns
        /\ UNCHANGED <<build, ticks, client, nread, size, copied,
                         to_write, down, length, reply_mutex, file_mutex, log, f_pos, from,
                         sent>>
    <2>1. /\ pc[c] = "grow" /\ pc'[c] = (IF text = << >> THEN "send" ELSE "strcat")
          /\ \A d \in Threads \ {c} : pc'[d] = pc[d]
          /\ pc' \in [Threads -> ConnSteps \cup TimerSteps]
      BY <1>0, <1>b DEF ReplyGrow, Goto, ConnSteps, text
    <2>2. /\ local'[c] = text /\ \A d \in Threads \ {c} : local'[d] = local[d]
          /\ local' \in [Threads -> Seq(Bytes)]
      BY <1>0, <1>a, <1>b, <1>d DEF text
    <2>3. dangling' \subseteq Conns
      BY <1>a DEF ReplyGrow
    <2>4. /\ pc'[c] \in {"send", "strcat"}
          /\ pc'[c] = "send" => Len(text) = 0
          /\ pc'[c] = "strcat" => Len(text) > 0
      BY <1>d, <2>1
    <2>5. QED
      BY <1>a, <1>d, <1>e, <2>1, <2>2, <2>3, <2>4 DEF ReplyGrow, config, mutexes, device
  <1>2. Mutexes'
    BY <1>0, <1>1, SMTT(40) DEF Mutexes, Threads, ConnSteps, TimerSteps
  <1>3. DataTypes'
    BY <1>0, <1>1 DEF DataTypes
  <1>4. Reading'
    <2>1. ASSUME NEW d \in Conns, d # c PROVE ReadBy(d)'
      BY <1>0, <1>1, <2>1 DEF Reading, ReadBy, Chunk
    <2>2. ReadBy(c)'
      BY <1>1 DEF Reading, ReadBy, Chunk
    <2>3. QED
      BY <1>0, <1>1, <2>1, <2>2 DEF Reading
  <1>5. Room'
    <2>1. \A d \in Conns : pc'[d] = "strcat" => d = c
      BY <1>0, <1>1 DEF Mutexes
    <2>2. Len(to_write) - copied[c] = Len(to_write)
      BY <1>a
    <2>3. QED
      BY <1>1, <2>1, <2>2 DEF Room, Unterminated
  <1>6. History'
    <2>1. ASSUME NEW d \in Conns, d # c PROVE Said(d)'
      <3>1. /\ pc'[d] = pc[d] /\ local'[d] = local[d] /\ copied'[d] = copied[d] /\ sent'[d] = sent[d]
            /\ to_write' = to_write
        BY <1>0, <1>1, <2>1
      <3>2. QED
        BY <3>1, SameSaid
    <2>2. Stands(c, Len(to_write), 0)'
      BY <1>1, <1>a DEF Stands
    <2>3. Said(c)'
      BY <1>1, <2>2 DEF Said
    <2>4. QED
      BY <2>1, <2>3 DEF History
  <1>7. Seeks'
    BY <1>0, <1>1 DEF Seeks
  <1>8. SeekReadsToEnd'
    BY <1>0, <1>1 DEF SeekReadsToEnd
  <1>9. OverflowNeedsHistory'
    BY <1>0, <1>1 DEF OverflowNeedsHistory, Unterminated
  <1>10. QED
    BY <1>2, <1>3, <1>4, <1>5, <1>6, <1>7, <1>8, <1>9

(* The message stands at the end of to_write as far as it is copied; the   *)
(* text before it, all that others have said and been sent, is untouched.  *)
LEMMA ReplyStrcatKeeps ==
  ASSUME SocketInv, Up, NEW c \in Conns, ReplyStrcat(c)
  PROVE  SocketInv'
  <1> USE SocketAssumption DEF SocketInv
  <1>0. /\ pc \in [Threads -> ConnSteps \cup TimerSteps] /\ Conns \subseteq Threads
        /\ Timer \in Threads /\ down = "no"
    BY DEF Mutexes, Threads, Up
  <1>a. /\ copied[c] \in Nat /\ copied[c] < Len(local[c])
        /\ local[c][copied[c] + 1] \in Bytes
        /\ to_write' = Append(to_write, local[c][copied[c] + 1])
        /\ to_write' \in Seq(Bytes) /\ Len(to_write') = Len(to_write) + 1
        /\ \A i \in 1 .. Len(to_write) : to_write'[i] = to_write[i]
        /\ to_write'[Len(to_write) + 1] = local[c][copied[c] + 1]
        /\ copied'[c] = copied[c] + 1 /\ \A d \in Threads \ {c} : copied'[d] = copied[d]
        /\ copied' \in [Threads -> Nat]
        /\ down' = IF Len(to_write) + 2 > capacity THEN "overflow" ELSE down
    BY <1>0, StrcatIs DEF ReplyStrcat, Strcat
  <1>b. /\ Len(to_write) \in Nat /\ Len(local[c]) \in Nat /\ capacity \in Nat
        /\ \A d \in Conns : length[d] \in Nat
    BY <1>0, Sizes DEF DataTypes
  <1>1. /\ pc[c] = "strcat" /\ pc'[c] = IF copied[c] + 1 = Len(local[c]) THEN "send" ELSE "strcat"
        /\ \A d \in Threads \ {c} : pc'[d] = pc[d]
        /\ pc' \in [Threads -> ConnSteps \cup TimerSteps]
        /\ to_write' = Append(to_write, local[c][copied[c] + 1])
        /\ to_write' \in Seq(Bytes) /\ Len(to_write') = Len(to_write) + 1
        /\ copied[c] \in Nat /\ copied[c] < Len(local[c])
        /\ copied'[c] = copied[c] + 1 /\ \A d \in Threads \ {c} : copied'[d] = copied[d]
        /\ copied' \in [Threads -> Nat]
        /\ down' = IF Len(to_write) + 2 > capacity THEN "overflow" ELSE down
        /\ UNCHANGED <<build, ticks, client, nread, local, size, capacity,
                         length, dangling, reply_mutex, file_mutex, log, f_pos, from,
                         sent>>
    <2>1. /\ pc[c] = "strcat" /\ pc'[c] = IF copied[c] + 1 = Len(local[c]) THEN "send" ELSE "strcat"
          /\ \A d \in Threads \ {c} : pc'[d] = pc[d]
          /\ pc' \in [Threads -> ConnSteps \cup TimerSteps]
      BY <1>0 DEF ReplyStrcat, Strcat, Goto, ConnSteps
    <2>2. QED
      BY <1>a, <2>1 DEF ReplyStrcat, config, input, mutexes, device
  <1>2. Mutexes'
    BY <1>0, <1>1, ZenonT(40) DEF Mutexes, Threads, ConnSteps, TimerSteps
  <1>3. DataTypes'
    BY <1>0, <1>1 DEF DataTypes
  <1>4. Reading'
    <2>1. ASSUME NEW d \in Conns, d # c PROVE ReadBy(d)'
      BY <1>0, <1>1, <2>1 DEF Reading, ReadBy, Chunk
    <2>2. ReadBy(c)'
      <3>1. ReadBy(c)
        BY DEF Reading
      <3>2. client'[c] = client[c] /\ nread'[c] = nread[c] /\ size'[c] = size[c] /\ local'[c] = local[c]
        BY <1>1
      <3> HIDE SocketAssumption DEF SocketInv
      <3>3. copied'[c] <= Len(local[c])
        BY <1>a, <1>b
      <3>4. pc'[c] = "strcat" => copied'[c] < Len(local[c])
        BY <1>1, <1>a, <1>b, <3>3
      <3>5. QED
        BY <1>1, <3>1, <3>2, <3>3, <3>4 DEF ReadBy
    <2>3. QED
      BY <1>0, <1>1, <2>1, <2>2 DEF Reading
  <1>5. Room'
    <2>2. \A d \in Conns : pc'[d] = "strcat" => d = c
      BY <1>0, <1>1 DEF Mutexes
    <2>3. /\ Len(to_write') - copied'[c] = Len(to_write) - copied[c]
          /\ local'[c] = local[c] /\ capacity' = capacity
      <3>1. local'[c] = local[c] /\ capacity' = capacity
        BY <1>1
      <3>2. Len(to_write') = Len(to_write) + 1 /\ copied'[c] = copied[c] + 1 /\ copied[c] \in Nat
        BY <1>1
      <3>3. Len(to_write) \in Nat
        BY <1>b
      <3> HIDE SocketAssumption DEF SocketInv
      <3>4. QED
        BY <3>1, <3>2, <3>3
    <2>4. QED
      BY <1>1, <2>2, <2>3, SMTT(40) DEF Room, Unterminated
  <1>6. History'
    <2>1. ASSUME NEW d \in Conns, d # c PROVE Said(d)'
      <3>1. pc[d] \notin {"strcat", "send"}
        BY <1>1, <2>1 DEF Mutexes
      <3>2. pc'[d] = pc[d] /\ local'[d] = local[d] /\ sent'[d] = sent[d]
        BY <1>0, <1>1, <2>1
      <3>3. QED
        BY <1>1, <1>a, <3>1, <3>2, LaterSaid
    <2>2. Stands(c, Len(to_write), copied[c])'
      <3>1. Stands(c, Len(to_write), copied[c])
        BY <1>1 DEF History, Said
      <3>2. copied[c] <= Len(to_write)
        BY <3>1 DEF Stands
      <3>3. ASSUME NEW i \in 1 .. copied[c] + 1
            PROVE  to_write'[Len(to_write') - (copied[c] + 1) + i] = local[c][i]
        <4>1. Len(to_write') - (copied[c] + 1) + i = Len(to_write) - copied[c] + i
          <5> HIDE SocketAssumption DEF SocketInv
          <5>1. Len(to_write') = Len(to_write) + 1 /\ copied[c] \in Nat
            BY <1>a
          <5>2. QED
            BY <1>b, <5>1
        <4>2. CASE i = copied[c] + 1
          <5>1. Len(to_write) - copied[c] + i = Len(to_write) + 1
            BY <1>a, <1>b, <4>2
          <5>2. QED
            BY <1>a, <4>1, <4>2, <5>1
        <4>3. CASE i # copied[c] + 1
          <5>1. i \in 1 .. copied[c] /\ Len(to_write) - copied[c] + i \in 1 .. Len(to_write)
            BY <1>a, <1>b, <3>2, <4>3
          <5>2. to_write[Len(to_write) - copied[c] + i] = local[c][i]
            BY <3>1, <5>1 DEF Stands
          <5>3. QED
            BY <1>a, <4>1, <5>1, <5>2
        <4>4. QED
          BY <4>2, <4>3
      <3>4. copied'[c] <= Len(to_write')
        BY <1>a, <1>b, <3>2
      <3>5. QED
        BY <1>1, <3>3, <3>4 DEF Stands
    <2>3. Said(c)'
      BY <1>1, <2>2 DEF Said
    <2>4. QED
      BY <2>1, <2>3 DEF History
  <1>7. Seeks'
    BY <1>0, <1>1 DEF Seeks
  <1>8. SeekReadsToEnd'
    BY <1>0, <1>1 DEF SeekReadsToEnd
  <1>9. OverflowNeedsHistory'
    <2>1. ASSUME down' = "overflow", ~Unterminated(c)
          PROVE  Len(to_write') - copied'[c] >= BUFFER_SIZE
      <3>1. Len(to_write) + 2 > capacity
        BY <1>0, <1>a, <2>1
      <3>2. \/ Len(to_write) - copied[c] >= BUFFER_SIZE
            \/ capacity > Len(to_write) - copied[c] + Len(local[c])
        <4>1. pc[c] = "strcat" /\ BUFFER_SIZE \in Nat
          BY <1>1
        <4>2. QED
          BY <1>a, <1>b, <2>1, <4>1 DEF Room
      <3>3. BUFFER_SIZE \in Nat
        OBVIOUS
      <3> HIDE SocketAssumption DEF SocketInv
      <3>4. QED
        BY <1>a, <1>b, <3>1, <3>2, <3>3
    <2>2. \A t \in Threads : reply_mutex' = t => t = c
      BY <1>1 DEF Mutexes
    <2>3. c # Timer /\ Len(to_write') \in Nat /\ copied'[c] \in Nat /\ BUFFER_SIZE \in Nat
      BY <1>0, <1>a, <1>b
    <2>4. ASSUME down' = "overflow", ~Unterminated(c)
          PROVE  Len(to_write') - copied'[c] + (IF c = Timer THEN Len(Date) ELSE 0) >= BUFFER_SIZE
      BY <2>1, <2>3, <2>4
    <2>5. Unterminated(c)' <=> Unterminated(c)
      BY <1>1 DEF Unterminated
    <2>6. QED
      BY <2>2, <2>4, <2>5 DEF OverflowNeedsHistory
  <1>10. QED
    BY <1>2, <1>3, <1>4, <1>5, <1>6, <1>7, <1>8, <1>9

(* The message stands whole at the end of to_write, a beginning of which   *)
(* is sent.                                                                *)
LEMMA ReplySendKeeps ==
  ASSUME SocketInv, Up, NEW c \in Conns, ReplySend(c)
  PROVE  SocketInv'
  <1> USE SocketAssumption DEF SocketInv
  <1>0. /\ pc \in [Threads -> ConnSteps \cup TimerSteps] /\ Conns \subseteq Threads
        /\ Timer \in Threads /\ down = "no"
    BY DEF Mutexes, Threads, Up
  <1>a. to_write \in Seq(Bytes) /\ sent \in [Conns -> Seq(Bytes)] /\ Len(to_write) \in Nat
    BY Sizes DEF DataTypes
  <1>b. PICK reply \in Sendable(to_write) : sent' = [sent EXCEPT ![c] = reply]
    BY DEF ReplySend
  <1>c. /\ reply \in Seq(Bytes) /\ Len(reply) \in Nat /\ Len(reply) <= Len(to_write)
        /\ \A i \in 1 .. Len(reply) : reply[i] = to_write[i]
    BY <1>a, SendableIs
  <1>d. /\ sent'[c] = reply /\ \A d \in Conns \ {c} : sent'[d] = sent[d]
        /\ sent' \in [Conns -> Seq(Bytes)]
    BY <1>a, <1>b, <1>c
  <1>1. /\ pc[c] = "send" /\ pc'[c] = "store"
        /\ \A d \in Threads \ {c} : pc'[d] = pc[d]
        /\ pc' \in [Threads -> ConnSteps \cup TimerSteps]
        /\ sent'[c] = reply /\ \A d \in Conns \ {c} : sent'[d] = sent[d]
        /\ sent' \in [Conns -> Seq(Bytes)]
        /\ reply_mutex' = Nobody /\ down' \in {"no", "SIGPIPE"}
        /\ UNCHANGED <<build, ticks, client, nread, local, size, copied,
                         to_write, capacity, length, dangling, file_mutex, log, f_pos,
                         from>>
    <2>1. /\ pc[c] = "send" /\ pc'[c] = "store" /\ \A d \in Threads \ {c} : pc'[d] = pc[d]
          /\ pc' \in [Threads -> ConnSteps \cup TimerSteps]
      BY <1>0 DEF ReplySend, Goto, ConnSteps
    <2>2. QED
      BY <1>0, <1>d, <2>1 DEF ReplySend, Send, config, input, device
  <1>2. Mutexes'
    BY <1>0, <1>1, ZenonT(40) DEF Mutexes, Threads, ConnSteps, TimerSteps
  <1>3. DataTypes'
    BY <1>0, <1>1 DEF DataTypes
  <1>4. Reading'
    BY <1>0, <1>1 DEF Reading, ReadBy, Chunk
  <1>5. Room'
    BY <1>0, <1>1 DEF Room, Unterminated
  <1>6. History'
    <2>1. ASSUME NEW d \in Conns, d # c PROVE Said(d)'
      <3>1. /\ pc'[d] = pc[d] /\ local'[d] = local[d] /\ copied'[d] = copied[d] /\ sent'[d] = sent[d]
            /\ to_write' = to_write
        BY <1>0, <1>1, <2>1
      <3>2. QED
        BY <3>1, SameSaid
    <2>2. Told(c)'
      <3>1. Stands(c, Len(to_write), Len(local[c]))
        BY <1>1 DEF History, Said
      <3>2. Stands(c, Len(to_write), Len(local[c]))'
        BY <1>1, <3>1 DEF Stands
      <3>3. sent'[c] = reply /\ to_write' = to_write
        BY <1>1
      <3> HIDE SocketAssumption DEF SocketInv
      <3>4. Len(to_write') \in Len(sent'[c]) .. Len(to_write')
        BY <1>a, <1>c, <3>3
      <3>5. Len(sent'[c]) <= Len(to_write') /\ \A i \in 1 .. Len(sent'[c]) : sent'[c][i] = to_write'[i]
        BY <1>c, <3>3
      <3>6. QED
        BY <3>2, <3>4, <3>5 DEF Told
    <2>3. Said(c)'
      BY <1>1, <2>2 DEF Said
    <2>4. QED
      BY <2>1, <2>3 DEF History
  <1>7. Seeks'
    BY <1>0, <1>1 DEF Seeks
  <1>8. SeekReadsToEnd'
    BY <1>0, <1>1 DEF SeekReadsToEnd
  <1>9. OverflowNeedsHistory'
    BY <1>0, <1>1 DEF OverflowNeedsHistory, Unterminated
  <1>10. QED
    BY <1>2, <1>3, <1>4, <1>5, <1>6, <1>7, <1>8, <1>9

(* file_mutex was free.                                                    *)
LEMMA StoreLockKeeps ==
  ASSUME SocketInv, Up, NEW c \in Conns, StoreLock(c)
  PROVE  SocketInv'
  <1> USE SocketAssumption DEF SocketInv
  <1>0. /\ pc \in [Threads -> ConnSteps \cup TimerSteps] /\ Conns \subseteq Threads
        /\ Timer \in Threads /\ down = "no"
    BY DEF Mutexes, Threads, Up
  <1>1. /\ pc[c] = "store" /\ pc'[c] = "args"
        /\ \A d \in Threads \ {c} : pc'[d] = pc[d]
        /\ pc' \in [Threads -> ConnSteps \cup TimerSteps]
        /\ file_mutex = Nobody /\ file_mutex' = c
        /\ UNCHANGED <<build, ticks, client, nread, local, size, copied,
                         to_write, capacity, down, length, dangling, reply_mutex, log,
                         f_pos, from, sent>>
    BY <1>0 DEF StoreLock, Goto, ConnSteps, TimerSteps, config, shared, mutexes, device, input
  <1>2. Mutexes'
    BY <1>0, <1>1 DEF Mutexes, Threads, ConnSteps, TimerSteps
  <1>3. DataTypes'
    BY <1>0, <1>1 DEF DataTypes
  <1>4. Reading'
    BY <1>0, <1>1 DEF Reading, ReadBy, Chunk
  <1>5. Room'
    BY <1>0, <1>1 DEF Room, Unterminated
  <1>6. History'
    BY <1>0, <1>1, SameHistory
  <1>7. Seeks'
    BY <1>0, <1>1 DEF Seeks
  <1>8. SeekReadsToEnd'
    BY <1>0, <1>1 DEF SeekReadsToEnd
  <1>9. OverflowNeedsHistory'
    BY <1>0, <1>1 DEF OverflowNeedsHistory, Unterminated
  <1>10. QED
    BY <1>2, <1>3, <1>4, <1>5, <1>6, <1>7, <1>8, <1>9

(* strlen stops one byte behind the text at the latest.                    *)
LEMMA StoreArgsKeeps ==
  ASSUME SocketInv, Up, NEW c \in Conns, StoreArgs(c)
  PROVE  SocketInv'
  <1> USE SocketAssumption DEF SocketInv
  <1>0. /\ pc \in [Threads -> ConnSteps \cup TimerSteps] /\ Conns \subseteq Threads
        /\ Timer \in Threads /\ down = "no"
    BY DEF Mutexes, Threads, Up
  <1>a. Len(to_write) \in Nat /\ length \in [Conns -> Nat]
    BY Sizes DEF DataTypes
  <1>b. \A n \in Lengths : n \in Nat
    BY <1>a DEF Lengths
  <1>1. /\ pc[c] = "args" /\ pc'[c] = "write"
        /\ \A d \in Threads \ {c} : pc'[d] = pc[d]
        /\ pc' \in [Threads -> ConnSteps \cup TimerSteps]
        /\ length' \in [Conns -> Nat]
        /\ UNCHANGED <<build, ticks, client, nread, local, size, copied,
                         to_write, capacity, down, dangling, reply_mutex, file_mutex, log,
                         f_pos, from, sent>>
    BY <1>0, <1>a, <1>b DEF StoreArgs, Goto, ConnSteps, TimerSteps, config, shared, mutexes, device, input
  <1>2. Mutexes'
    BY <1>0, <1>1 DEF Mutexes, Threads, ConnSteps, TimerSteps
  <1>3. DataTypes'
    BY <1>0, <1>1 DEF DataTypes
  <1>4. Reading'
    BY <1>0, <1>1 DEF Reading, ReadBy, Chunk
  <1>5. Room'
    BY <1>0, <1>1 DEF Room, Unterminated
  <1>6. History'
    BY <1>0, <1>1, SameHistory
  <1>7. Seeks'
    BY <1>0, <1>1 DEF Seeks
  <1>8. SeekReadsToEnd'
    BY <1>0, <1>1 DEF SeekReadsToEnd
  <1>9. OverflowNeedsHistory'
    BY <1>0, <1>1 DEF OverflowNeedsHistory, Unterminated
  <1>10. QED
    BY <1>2, <1>3, <1>4, <1>5, <1>6, <1>7, <1>8, <1>9

(* The log changes while the holder of file_mutex writes: no seek is being *)
(* served.                                                                 *)
LEMMA StoreWriteKeeps ==
  ASSUME SocketInv, Up, NEW c \in Conns, StoreWrite(c)
  PROVE  SocketInv'
  <1> USE SocketAssumption DEF SocketInv
  <1>0. /\ pc \in [Threads -> ConnSteps \cup TimerSteps] /\ Conns \subseteq Threads
        /\ Timer \in Threads /\ down = "no"
    BY DEF Mutexes, Threads, Up
  <1>a. /\ to_write \in Seq(Bytes) /\ log \in Seq(Bytes) /\ Len(to_write) \in Nat
        /\ length \in [Conns -> Nat] /\ dangling \subseteq Conns
        /\ f_pos \in Nat
    BY Sizes DEF DataTypes, Room
  <1>b. PICK bytes \in Source(c) : log' \in Stored(bytes)
    BY DEF StoreWrite
  <1>c. bytes \in Seq(Bytes)
    BY <1>a, <1>b, SourceType
  <1>d. log' \in Seq(Bytes) /\ Len(log') \in Nat
    <2>1. log' \in Seq(Bytes)
      BY <1>a, <1>b, <1>c, StoredType
    <2>2. QED
      BY <2>1, LenProperties
  <1>1. /\ pc[c] = "write" /\ pc'[c] = "done"
        /\ \A d \in Threads \ {c} : pc'[d] = pc[d]
        /\ pc' \in [Threads -> ConnSteps \cup TimerSteps]
        /\ log' \in Seq(Bytes) /\ f_pos' \in Nat /\ file_mutex' = Nobody /\ dangling' \subseteq Conns
        /\ length'[c] = 0 /\ \A d \in Conns \ {c} : length'[d] = length[d]
        /\ length' \in [Conns -> Nat]
        /\ UNCHANGED <<build, ticks, client, nread, local, size, copied,
                         to_write, capacity, down, reply_mutex, from, sent>>
    <2>1. /\ pc[c] = "write" /\ pc'[c] = "done" /\ \A d \in Threads \ {c} : pc'[d] = pc[d]
          /\ pc' \in [Threads -> ConnSteps \cup TimerSteps]
      BY <1>0 DEF StoreWrite, Goto, ConnSteps
    <2>2. /\ length'[c] = 0 /\ \A d \in Conns \ {c} : length'[d] = length[d]
          /\ length' \in [Conns -> Nat]
      BY <1>a DEF StoreWrite
    <2>3. f_pos' \in Nat /\ dangling' \subseteq Conns
      BY <1>a, <1>d DEF StoreWrite
    <2>4. QED
      BY <1>d, <2>1, <2>2, <2>3 DEF StoreWrite, config, input, shared
  <1>2. Mutexes'
    <2>1. \A d \in Conns \ {c} : pc'[d] = pc[d]
      BY <1>0, <1>1
    <2>2. pc'[Timer] = pc[Timer] /\ c \notin {Nobody, Timer}
      BY <1>0, <1>1
    <2>3. \A d \in Conns : file_mutex' = d <=> pc'[d] \in {"ioctl", "stream", "sought", "args", "write"}
      BY <1>1, <2>1 DEF Mutexes
    <2>4. \A d \in Conns : reply_mutex' = d <=> pc'[d] \in {"grow", "strcat", "send"}
      BY <1>1, <2>1 DEF Mutexes
    <2>5. QED
      BY <1>1, <2>1, <2>2, <2>3, <2>4 DEF Mutexes, ConnSteps
  <1>3. DataTypes'
    BY <1>0, <1>1 DEF DataTypes
  <1>4. Reading'
    BY <1>0, <1>1 DEF Reading, ReadBy, Chunk
  <1>5. Room'
    BY <1>0, <1>1, <1>a, SMTT(60) DEF Room, Unterminated
  <1>6. History'
    BY <1>0, <1>1, SameHistory
  <1>7. Seeks'
    <2>1. \A d \in Conns : pc'[d] \notin {"stream", "sought"}
      BY <1>0, <1>1 DEF Mutexes
    <2>2. QED
      BY <1>0, <1>1, <2>1 DEF Seeks
  <1>8. SeekReadsToEnd'
    <2>1. \A d \in Conns : pc'[d] \notin {"stream", "sought"}
      BY <1>0, <1>1 DEF Mutexes
    <2>2. QED
      BY <1>0, <1>1, <2>1 DEF SeekReadsToEnd
  <1>9. OverflowNeedsHistory'
    BY <1>0, <1>1 DEF OverflowNeedsHistory, Unterminated
  <1>10. QED
    BY <1>2, <1>3, <1>4, <1>5, <1>6, <1>7, <1>8, <1>9

(* The timer takes reply_mutex when nobody appends.                        *)
LEMMA TimerLockKeeps ==
  ASSUME SocketInv, Up, TimerLock
  PROVE  SocketInv'
  <1> USE SocketAssumption DEF SocketInv
  <1>0. /\ pc \in [Threads -> ConnSteps \cup TimerSteps] /\ Conns \subseteq Threads
        /\ Timer \in Threads /\ down = "no"
    BY DEF Mutexes, Threads, Up
  <1>1. /\ pc[Timer] = "wait" /\ pc'[Timer] = "strcat"
        /\ \A d \in Threads \ {Timer} : pc'[d] = pc[d]
        /\ pc' \in [Threads -> ConnSteps \cup TimerSteps]
        /\ reply_mutex = Nobody /\ reply_mutex' = Timer /\ ticks < MaxTicks /\ ticks' = ticks + 1
        /\ UNCHANGED <<build, client, nread, local, size, copied,
                         to_write, capacity, down, length, dangling, file_mutex, log,
                         f_pos, from, sent>>
    BY <1>0 DEF TimerLock, Goto, ConnSteps, TimerSteps, config, shared, mutexes, device, input
  <1>2. Mutexes'
    BY <1>0, <1>1 DEF Mutexes, Threads, ConnSteps, TimerSteps
  <1>3. DataTypes'
    BY <1>0, <1>1 DEF DataTypes
  <1>4. Reading'
    BY <1>0, <1>1 DEF Reading, ReadBy, Chunk
  <1>5. Room'
    BY <1>0, <1>1 DEF Room, Unterminated
  <1>6. History'
    BY <1>0, <1>1, SameHistory
  <1>7. Seeks'
    BY <1>0, <1>1 DEF Seeks
  <1>8. SeekReadsToEnd'
    BY <1>0, <1>1 DEF SeekReadsToEnd
  <1>9. OverflowNeedsHistory'
    BY <1>0, <1>1 DEF OverflowNeedsHistory, Unterminated
  <1>10. QED
    BY <1>2, <1>3, <1>4, <1>5, <1>6, <1>7, <1>8, <1>9

(* The date comes behind what others have said; to_write has room for a    *)
(* text shorter than a fresh buffer.                                       *)
LEMMA TimerStrcatKeeps ==
  ASSUME SocketInv, Up, TimerStrcat
  PROVE  SocketInv'
  <1> USE SocketAssumption DEF SocketInv
  <1>0. /\ pc \in [Threads -> ConnSteps \cup TimerSteps] /\ Conns \subseteq Threads
        /\ Timer \in Threads /\ down = "no"
    BY DEF Mutexes, Threads, Up
  <1>a. /\ copied[Timer] \in Nat /\ copied[Timer] < Len(local[Timer])
        /\ local[Timer][copied[Timer] + 1] \in Bytes
        /\ to_write' = Append(to_write, local[Timer][copied[Timer] + 1])
        /\ to_write' \in Seq(Bytes) /\ Len(to_write') = Len(to_write) + 1
        /\ \A i \in 1 .. Len(to_write) : to_write'[i] = to_write[i]
        /\ to_write'[Len(to_write) + 1] = local[Timer][copied[Timer] + 1]
        /\ copied'[Timer] = copied[Timer] + 1 /\ \A d \in Threads \ {Timer} : copied'[d] = copied[d]
        /\ copied' \in [Threads -> Nat]
        /\ down' = IF Len(to_write) + 2 > capacity THEN "overflow" ELSE down
    BY <1>0, StrcatIs DEF TimerStrcat, Strcat
  <1>b. /\ Len(to_write) \in Nat /\ Len(local[Timer]) \in Nat /\ capacity \in Nat
        /\ \A d \in Conns : length[d] \in Nat
    BY <1>0, Sizes DEF DataTypes
  <1>1. /\ pc[Timer] = "strcat" /\ pc'[Timer] \in {"unlock", "strcat"}
        /\ \A d \in Threads \ {Timer} : pc'[d] = pc[d]
        /\ pc' \in [Threads -> ConnSteps \cup TimerSteps]
        /\ to_write' = Append(to_write, local[Timer][copied[Timer] + 1])
        /\ to_write' \in Seq(Bytes) /\ Len(to_write') = Len(to_write) + 1
        /\ copied[Timer] \in Nat /\ copied[Timer] < Len(local[Timer])
        /\ copied'[Timer] = copied[Timer] + 1 /\ \A d \in Threads \ {Timer} : copied'[d] = copied[d]
        /\ copied' \in [Threads -> Nat]
        /\ down' = IF Len(to_write) + 2 > capacity THEN "overflow" ELSE down
        /\ pc'[Timer] = "strcat" => copied[Timer] + 1 # Len(Date)
        /\ UNCHANGED <<build, ticks, client, nread, local, size, capacity,
                         length, dangling, reply_mutex, file_mutex, log, f_pos, from,
                         sent>>
    <2>1. /\ pc[Timer] = "strcat" /\ pc'[Timer] \in {"unlock", "strcat"}
          /\ pc'[Timer] = "strcat" => copied[Timer] + 1 # Len(Date)
          /\ \A d \in Threads \ {Timer} : pc'[d] = pc[d]
          /\ pc' \in [Threads -> ConnSteps \cup TimerSteps]
      BY <1>0 DEF TimerStrcat, Strcat, Goto, TimerSteps
    <2>2. QED
      BY <1>a, <2>1 DEF TimerStrcat, config, input, mutexes, device
  <1>2. Mutexes'
    <2>1. \A d \in Conns : pc'[d] = pc[d]
      BY <1>0, <1>1
    <2>2. QED
      BY <1>1, <2>1 DEF Mutexes, TimerSteps
  <1>3. DataTypes'
    BY <1>0, <1>1 DEF DataTypes
  <1>4. Reading'
    <2>1. ASSUME NEW d \in Conns PROVE ReadBy(d)'
      <3>1. ReadBy(d) /\ pc'[d] = pc[d] /\ copied'[d] = copied[d]
        BY <1>0, <1>1 DEF Reading
      <3>2. QED
        BY <1>1, <3>1 DEF ReadBy, Chunk
    <2>2. /\ pc'[Timer] = "strcat" => copied'[Timer] < Len(Date)
          /\ copied'[Timer] <= Len(Date)
      <3>1. local[Timer] = Date
        BY DEF DataTypes
      <3>2. copied[Timer] \in Nat /\ copied[Timer] < Len(Date) /\ copied'[Timer] = copied[Timer] + 1
        BY <1>1, <3>1
      <3>3. Len(Date) \in Nat
        BY <1>b, <3>1
      <3>4. pc'[Timer] = "strcat" => copied[Timer] + 1 # Len(Date)
        BY <1>1
      <3> HIDE SocketAssumption DEF SocketInv
      <3>5. QED
        BY <3>2, <3>3, <3>4
    <2>3. QED
      BY <1>1, <2>1, <2>2 DEF Reading
  <1>5. Room'
    BY <1>0, <1>1, <1>b, SMTT(40) DEF Room, Unterminated, Mutexes
  <1>6. History'
    <2>1. ASSUME NEW d \in Conns PROVE Said(d)'
      <3>1. pc[d] \notin {"strcat", "send"}
        BY <1>1, <2>1 DEF Mutexes
      <3>2. pc'[d] = pc[d] /\ local'[d] = local[d] /\ sent'[d] = sent[d]
        BY <1>0, <1>1, <2>1
      <3>3. QED
        BY <1>1, <1>a, <3>1, <3>2, LaterSaid
    <2>2. QED
      BY <2>1 DEF History
  <1>7. Seeks'
    BY <1>0, <1>1 DEF Seeks
  <1>8. SeekReadsToEnd'
    BY <1>0, <1>1 DEF SeekReadsToEnd
  <1>9. OverflowNeedsHistory'
    BY <1>0, <1>1, <1>b DEF OverflowNeedsHistory, Unterminated, Mutexes, Room, DataTypes
  <1>10. QED
    BY <1>2, <1>3, <1>4, <1>5, <1>6, <1>7, <1>8, <1>9

(* The date is complete.                                                   *)
LEMMA TimerUnlockKeeps ==
  ASSUME SocketInv, Up, TimerUnlock
  PROVE  SocketInv'
  <1> USE SocketAssumption DEF SocketInv
  <1>0. /\ pc \in [Threads -> ConnSteps \cup TimerSteps] /\ Conns \subseteq Threads
        /\ Timer \in Threads /\ down = "no"
    BY DEF Mutexes, Threads, Up
  <1>1. /\ pc[Timer] = "unlock" /\ pc'[Timer] = "store"
        /\ \A d \in Threads \ {Timer} : pc'[d] = pc[d]
        /\ pc' \in [Threads -> ConnSteps \cup TimerSteps]
        /\ reply_mutex' = Nobody
        /\ UNCHANGED <<build, ticks, client, nread, local, size, copied,
                         to_write, capacity, down, length, dangling, file_mutex, log,
                         f_pos, from, sent>>
    BY <1>0 DEF TimerUnlock, Goto, ConnSteps, TimerSteps, config, shared, mutexes, device, input
  <1>2. Mutexes'
    BY <1>0, <1>1 DEF Mutexes, Threads, ConnSteps, TimerSteps
  <1>3. DataTypes'
    BY <1>0, <1>1 DEF DataTypes
  <1>4. Reading'
    BY <1>0, <1>1 DEF Reading, ReadBy, Chunk
  <1>5. Room'
    BY <1>0, <1>1 DEF Room, Unterminated
  <1>6. History'
    BY <1>0, <1>1, SameHistory
  <1>7. Seeks'
    BY <1>0, <1>1 DEF Seeks
  <1>8. SeekReadsToEnd'
    BY <1>0, <1>1 DEF SeekReadsToEnd
  <1>9. OverflowNeedsHistory'
    BY <1>0, <1>1 DEF OverflowNeedsHistory, Unterminated
  <1>10. QED
    BY <1>2, <1>3, <1>4, <1>5, <1>6, <1>7, <1>8, <1>9

(* The timer changes the log when nobody has file_mutex.                   *)
LEMMA TimerStoreKeeps ==
  ASSUME SocketInv, Up, TimerStore
  PROVE  SocketInv'
  <1> USE SocketAssumption DEF SocketInv
  <1>0. /\ pc \in [Threads -> ConnSteps \cup TimerSteps] /\ Conns \subseteq Threads
        /\ Timer \in Threads /\ down = "no"
    BY DEF Mutexes, Threads, Up
  <1>a. log \in Seq(Bytes) /\ Date \in Seq(Bytes) /\ copied \in [Threads -> Nat]
    BY DEF DataTypes
  <1>b. log' \in Seq(Bytes)
    <2>1. log' \in {log, log \o Date}
      BY DEF TimerStore
    <2> HIDE SocketAssumption DEF SocketInv
    <2>2. log \o Date \in Seq(Bytes)
      BY <1>a, ConcatProperties
    <2>3. QED
      BY <1>a, <2>1, <2>2
  <1>1. /\ pc[Timer] = "store" /\ pc'[Timer] = "wait"
        /\ \A d \in Threads \ {Timer} : pc'[d] = pc[d]
        /\ pc' \in [Threads -> ConnSteps \cup TimerSteps]
        /\ log' \in Seq(Bytes) /\ file_mutex = Nobody
        /\ copied'[Timer] = 0 /\ \A d \in Threads \ {Timer} : copied'[d] = copied[d]
        /\ copied' \in [Threads -> Nat]
        /\ UNCHANGED <<build, ticks, client, nread, local, size, to_write,
                         capacity, down, length, dangling, reply_mutex, file_mutex, f_pos,
                         from, sent>>
    <2>1. /\ pc[Timer] = "store" /\ pc'[Timer] = "wait" /\ \A d \in Threads \ {Timer} : pc'[d] = pc[d]
          /\ pc' \in [Threads -> ConnSteps \cup TimerSteps]
      BY <1>0 DEF TimerStore, Goto, TimerSteps
    <2>2. /\ copied'[Timer] = 0 /\ \A d \in Threads \ {Timer} : copied'[d] = copied[d]
          /\ copied' \in [Threads -> Nat]
      BY <1>0, <1>a DEF TimerStore
    <2>3. QED
      BY <1>b, <2>1, <2>2 DEF TimerStore, config, input, shared, mutexes
  <1>2. Mutexes'
    <2>1. \A d \in Conns : pc'[d] = pc[d]
      BY <1>0, <1>1
    <2>2. QED
      BY <1>1, <2>1 DEF Mutexes, TimerSteps
  <1>3. DataTypes'
    BY <1>0, <1>1 DEF DataTypes
  <1>4. Reading'
    <2>1. ASSUME NEW d \in Conns PROVE ReadBy(d)'
      <3>1. ReadBy(d) /\ pc'[d] = pc[d] /\ copied'[d] = copied[d]
        BY <1>0, <1>1 DEF Reading
      <3>2. QED
        BY <1>1, <3>1 DEF ReadBy, Chunk
    <2>2. Len(Date) \in Nat
      BY Sizes
    <2>3. QED
      BY <1>1, <2>1, <2>2 DEF Reading
  <1>5. Room'
    <2>1. \A d \in Conns : pc'[d] = pc[d] /\ copied'[d] = copied[d]
      BY <1>0, <1>1
    <2>2. QED
      BY <1>1, <2>1 DEF Room, Unterminated
  <1>6. History'
    BY <1>0, <1>1, SameHistory
  <1>7. Seeks'
    <2>1. \A d \in Conns : pc'[d] \notin {"stream", "sought"}
      BY <1>0, <1>1 DEF Mutexes
    <2>2. QED
      BY <1>0, <1>1, <2>1 DEF Seeks
  <1>8. SeekReadsToEnd'
    <2>1. \A d \in Conns : pc'[d] \notin {"stream", "sought"}
      BY <1>0, <1>1 DEF Mutexes
    <2>2. QED
      BY <1>0, <1>1, <2>1 DEF SeekReadsToEnd
  <1>9. OverflowNeedsHistory'
    BY <1>0, <1>1 DEF OverflowNeedsHistory, Unterminated
  <1>10. QED
    BY <1>2, <1>3, <1>4, <1>5, <1>6, <1>7, <1>8, <1>9

LEMMA NextSocket == SocketInv /\ [Next]_vars => SocketInv'
  <1> SUFFICES ASSUME SocketInv, [Next]_vars PROVE SocketInv'
    OBVIOUS
  <1>1. ASSUME Up, NEW c \in Conns, Accept(c) PROVE SocketInv'
    BY <1>1, AcceptKeeps
  <1>2. ASSUME Up, NEW c \in Conns, ReadText(c) PROVE SocketInv'
    BY <1>2, ReadTextKeeps
  <1>3. ASSUME Up, NEW c \in Conns, ReadSeek(c) PROVE SocketInv'
    BY <1>3, ReadSeekKeeps
  <1>4. ASSUME Up, NEW c \in Conns, ReadEnd(c) PROVE SocketInv'
    BY <1>4, ReadEndKeeps
  <1>5. ASSUME Up, NEW c \in Conns, SeekLock(c) PROVE SocketInv'
    BY <1>5, SeekLockKeeps
  <1>6. ASSUME Up, NEW c \in Conns, SeekIoctl(c) PROVE SocketInv'
    BY <1>6, SeekIoctlKeeps
  <1>7. ASSUME Up, NEW c \in Conns, SeekRead(c) PROVE SocketInv'
    BY <1>7, SeekReadKeeps
  <1>8. ASSUME Up, NEW c \in Conns, SeekDone(c) PROVE SocketInv'
    BY <1>8, SeekDoneKeeps
  <1>9. ASSUME Up, NEW c \in Conns, ReplyLock(c) PROVE SocketInv'
    BY <1>9, ReplyLockKeeps
  <1>10. ASSUME Up, NEW c \in Conns, ReplyGrow(c) PROVE SocketInv'
    BY <1>10, ReplyGrowKeeps
  <1>11. ASSUME Up, NEW c \in Conns, ReplyStrcat(c) PROVE SocketInv'
    BY <1>11, ReplyStrcatKeeps
  <1>12. ASSUME Up, NEW c \in Conns, ReplySend(c) PROVE SocketInv'
    BY <1>12, ReplySendKeeps
  <1>13. ASSUME Up, NEW c \in Conns, StoreLock(c) PROVE SocketInv'
    BY <1>13, StoreLockKeeps
  <1>14. ASSUME Up, NEW c \in Conns, StoreArgs(c) PROVE SocketInv'
    BY <1>14, StoreArgsKeeps
  <1>15. ASSUME Up, NEW c \in Conns, StoreWrite(c) PROVE SocketInv'
    BY <1>15, StoreWriteKeeps
  <1>16. ASSUME Up, TimerLock PROVE SocketInv'
    BY <1>16, TimerLockKeeps
  <1>17. ASSUME Up, TimerStrcat PROVE SocketInv'
    BY <1>17, TimerStrcatKeeps
  <1>18. ASSUME Up, TimerUnlock PROVE SocketInv'
    BY <1>18, TimerUnlockKeeps
  <1>19. ASSUME Up, TimerStore PROVE SocketInv'
    BY <1>19, TimerStoreKeeps
  <1>20. CASE UNCHANGED vars
    BY <1>20, StutterKeeps
  <1>21. QED
    BY <1>1, <1>2, <1>3, <1>4, <1>5, <1>6, <1>7, <1>8, <1>9, <1>10,
       <1>11, <1>12, <1>13, <1>14, <1>15, <1>16, <1>17, <1>18, <1>19, <1>20 DEF Next, connection_handler, printing_time

LEMMA SocketInvHolds == Spec => []SocketInv
  <1>1. Init => SocketInv
    BY InitSocket
  <1>2. SocketInv /\ [Next]_vars => SocketInv'
    BY NextSocket
  <1>3. QED
    BY <1>1, <1>2, PTL DEF Spec

-----------------------------------------------------------------------------
(* The types of the state, and: what a connection reads always fits, with  *)
(* its NUL, into to_write_local, however the client cuts its message into  *)
(* chunks (socket_core.c:152-172).                                         *)
THEOREM TypesHold == Spec => []TypeOK
  <1>1. SocketInv => TypeOK
    <2> SUFFICES ASSUME SocketInv PROVE TypeOK
      OBVIOUS
    <2>1. \A t \in Threads : copied[t] \in 0 .. Len(local[t])
      <3>1. \A c \in Conns : copied[c] <= Len(local[c])
        BY DEF SocketInv, Reading, ReadBy
      <3>2. copied[Timer] <= Len(local[Timer])
        BY DEF SocketInv, Reading, DataTypes
      <3>3. \A t \in Threads : copied[t] \in Nat /\ Len(local[t]) \in Nat
        BY Sizes DEF SocketInv, DataTypes
      <3>4. QED
        BY <3>1, <3>2, <3>3 DEF Threads
    <2>2. \A c \in Conns : client[c] # NULL => nread[c] \in 0 .. Len(client[c].chunks)
      <3>1. \A c \in Conns : nread[c] \in Nat /\ client[c] \in Clients \cup {NULL}
        BY DEF SocketInv, DataTypes
      <3>2. \A c \in Conns : client[c] \in Clients =>
               nread[c] <= Len(client[c].chunks) /\ Len(client[c].chunks) \in Nat
        BY Sizes DEF SocketInv, Reading, ReadBy
      <3>3. QED
        BY <3>1, <3>2
    <2>3. \A c \in Conns : pc[c] \in {"read", "reply"} => Len(local[c]) < size[c]
      BY DEF SocketInv, Reading, ReadBy
    <2>4. pc \in [Threads -> {"wait", "none", "dropped", "read", "seek", "ioctl",
                         "stream", "sought", "seek_done", "reply", "grow",
                         "strcat", "send", "store", "args", "write", "done", "unlock"}]
      BY DEF SocketInv, Mutexes, ConnSteps, TimerSteps
    <2>5. reply_mutex \in Threads \cup {Nobody} /\ file_mutex \in Conns \cup {Nobody}
      BY DEF SocketInv, Mutexes
    <2>6. QED
      BY <2>1, <2>2, <2>3, <2>4, <2>5 DEF SocketInv, DataTypes, TypeOK
  <1>2. QED
    BY <1>1, SocketInvHolds, PTL

(* A served seek request has been sent exactly the device's bytes from the *)
(* position asked for to the end, whatever the other connections do with   *)
(* the one file position all of them share (socket_core.c:118-135).        *)
THEOREM SeekReadsToEndHolds == Spec => []SeekReadsToEnd
  <1>1. SocketInv => SeekReadsToEnd
    BY DEF SocketInv
  <1>2. QED
    BY <1>1, SocketInvHolds, PTL

(* The reply buffer overflows only under a message that was appended to    *)
(* BUFFER_SIZE or more bytes or has no NUL in its enlarged local buffer,   *)
(* or a date that makes the text that long: the growth before strcat       *)
(* (socket_core.c:178-183) suffices for every shorter history, whatever    *)
(* the sizes of the messages and whatever follows them in memory.          *)
THEOREM OverflowNeedsHistoryHolds == Spec => []OverflowNeedsHistory
  <1>1. SocketInv => OverflowNeedsHistory
    BY DEF SocketInv
  <1>2. QED
    BY <1>1, SocketInvHolds, PTL

(* From the bytes to the texts.                                            *)
LEMMA ToldIsHistory ==
  ASSUME SocketInv, NEW c \in Conns, Told(c)
  PROVE  /\ IsPrefix(sent[c], to_write)
         /\ \E n \in Max({Len(sent[c]), Len(local[c])}) .. Len(to_write) :
              SubSeq(to_write, n - Len(local[c]) + 1, n) = local[c]
  <1> DEFINE s == sent[c]
             m == local[c]
             h == to_write
  <1>0. /\ s \in Seq(Bytes) /\ m \in Seq(Bytes) /\ h \in Seq(Bytes)
        /\ Len(s) \in Nat /\ Len(m) \in Nat /\ Len(h) \in Nat
        /\ \A i \in 1 .. Len(h) : h[i] \in Bytes
    BY Sizes, ElementOfSeq DEF SocketInv, DataTypes
  <1>1. Len(s) <= Len(h) /\ \A i \in 1 .. Len(s) : s[i] = h[i]
    BY DEF Told
  <1>2. PICK n \in Len(s) .. Len(h) : Len(m) <= n /\ \A i \in 1 .. Len(m) : h[n - Len(m) + i] = m[i]
    BY DEF Told, Stands
  <1> HIDE DEF s, m, h
  <1>3. SubSeq(s, 1, Len(s)) = SubSeq(h, 1, Len(s))
    <2>1. \A i \in 1 .. Len(s) : h[i] \in Bytes
      BY <1>0, <1>1
    <2>2. /\ SubSeq(h, 1, Len(s)) \in Seq(Bytes)
          /\ Len(SubSeq(h, 1, Len(s))) = (IF 1 <= Len(s) THEN Len(s) - 1 + 1 ELSE 0)
          /\ \A i \in 1 .. Len(s) - 1 + 1 : SubSeq(h, 1, Len(s))[i] = h[1 + i - 1]
      BY <1>0, <2>1, SubSeqProperties
    <2>3. Len(SubSeq(h, 1, Len(s))) = Len(s)
      BY <1>0, <2>2
    <2>4. \A i \in 1 .. Len(s) : SubSeq(h, 1, Len(s))[i] = h[i]
      BY <1>0, <2>2
    <2>5. s = SubSeq(h, 1, Len(s))
      BY <1>0, <1>1, <2>2, <2>3, <2>4, SeqEqual
    <2>6. SubSeq(s, 1, Len(s)) = s
      BY <1>0, SubSeqFull
    <2>7. QED
      BY <2>5, <2>6
  <1>4. IsPrefix(s, h)
    BY <1>1, <1>3 DEF IsPrefix
  <1>5. Max({Len(s), Len(m)}) <= n /\ Max({Len(s), Len(m)}) \in Nat /\ n \in Nat /\ n <= Len(h)
    <2>1. n \in Nat /\ Len(s) <= n /\ n <= Len(h) /\ Len(m) <= n
      BY <1>0, <1>2
    <2>2. {Len(s), Len(m)} \in SUBSET (0 .. n) /\ {Len(s), Len(m)} # {}
      BY <1>0, <2>1
    <2>3. Max({Len(s), Len(m)}) \in {Len(s), Len(m)}
      BY <2>1, <2>2, MaxIs
    <2>4. QED
      BY <1>0, <2>1, <2>3
  <1>6. SubSeq(h, n - Len(m) + 1, n) = m
    <2> DEFINE b == n - Len(m) + 1
    <2>1. b \in Int /\ n \in Int /\ b >= 1 /\ n - b + 1 = Len(m)
      BY <1>0, <1>2, <1>5
    <2>2. \A i \in b .. n : h[i] \in Bytes
      BY <1>0, <1>5, <2>1
    <2>3. \A i \in 1 .. Len(m) : h[b + i - 1] = m[i]
      <3>1. ASSUME NEW i \in 1 .. Len(m) PROVE b + i - 1 = n - Len(m) + i
        BY <1>0, <1>5
      <3>2. QED
        BY <1>2, <3>1
    <2> HIDE DEF b
    <2>4. /\ SubSeq(h, b, n) \in Seq(Bytes)
          /\ Len(SubSeq(h, b, n)) = (IF b <= n THEN n - b + 1 ELSE 0)
          /\ \A i \in 1 .. n - b + 1 : SubSeq(h, b, n)[i] = h[b + i - 1]
      BY <2>1, <2>2, SubSeqProperties
    <2>5. Len(SubSeq(h, b, n)) = Len(m)
      BY <1>0, <2>1, <2>4
    <2>6. \A i \in 1 .. Len(m) : SubSeq(h, b, n)[i] = m[i]
      BY <2>1, <2>3, <2>4
    <2>7. SubSeq(h, b, n) = m
      BY <1>0, <2>4, <2>5, <2>6, SeqEqual
    <2>8. QED
      BY <2>7 DEF b
  <1>7. n \in Max({Len(s), Len(m)}) .. Len(h)
    BY <1>0, <1>5
  <1>8. QED
    BY <1>4, <1>6, <1>7 DEF s, m, h

(* All clients see one history: each message stands in to_write unbroken,  *)
(* each reply is a beginning of it, and only what was said before or with  *)
(* a client's message is in its reply (socket_core.c:177-190).             *)
THEOREM RepliesAreHistoryHolds == Spec => []RepliesAreHistory
  <1>1. SocketInv => RepliesAreHistory
    <2> SUFFICES ASSUME SocketInv, NEW c \in Conns,
                        pc[c] \in {"store", "args", "write", "done"}
                 PROVE  /\ IsPrefix(sent[c], to_write)
                        /\ \E n \in Max({Len(sent[c]), Len(local[c])}) .. Len(to_write) :
                             SubSeq(to_write, n - Len(local[c]) + 1, n) = local[c]
      BY DEF RepliesAreHistory
    <2>1. Told(c)
      BY DEF SocketInv, History, Said
    <2>2. QED
      BY <2>1, ToldIsHistory
  <1>2. QED
    BY <1>1, SocketInvHolds, PTL
=============================================================================
