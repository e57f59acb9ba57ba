----------------------------- MODULE BioProofs ------------------------------
(***************************************************************************)
(* Proofs about Bio, for every number of buffers, sectors and processes:   *)
(* the cache and the driver keep their books, and, when the drive reports  *)
(* no read error, every sector has one current contents.                   *)
(***************************************************************************)
EXTENDS Bio, TLAPS

OnQueue(b) == \E i \in 1 .. Len(queue) : queue[i] = b

(* BioInv again, sorted by what it speaks of: a buffer, a process, ... *)
BufOK(b) ==
  /\ flags[b] # {} => sector[b] # NoSector
  /\ "B_DIRTY" \in flags[b] => "B_VALID" \in flags[b]
  /\ sector[b] # NoSector => flags[b] \cap {"B_BUSY", "B_VALID"} # {}

ProcOK(p) ==
  /\ Holds(p) => at[p] \in Buf /\ "B_BUSY" \in flags[at[p]]
  /\ pc[p] = "bsleep" => at[p] \in Buf /\ "B_BUSY" \in flags[at[p]] /\ sector[at[p]] = want[p]
  /\ pc[p] \in {"rsleep", "rw"} => ~InSync(at[p])
  /\ pc[p] \in {"have", "changed"} => "B_VALID" \in flags[at[p]]
  /\ pc[p] = "bget" => want[p] \in Sector

(* ... the holders ... *)
Owners ==
  /\ \A p, q \in Proc : Holds(p) /\ Holds(q) /\ at[p] = at[q] => p = q
  /\ \A b \in Buf : "B_BUSY" \in flags[b] => \E p \in Proc : Holds(p) /\ at[p] = b

(* ... and the queue. *)
Requests ==
  /\ \A i, j \in 1 .. Len(queue) : queue[i] = queue[j] => i = j
  /\ \A b \in Buf : OnQueue(b) <=> Waiting(b)
  /\ drv = "idle" <=> queue = <<>>

Books ==
  /\ TypeOK /\ OneBufPerSector /\ OnlyNoBuffers
  /\ \A b \in Buf : BufOK(b)
  /\ \A p \in Proc : ProcOK(p)
  /\ Owners /\ Requests

LEMMA BooksIs ==
  Books <=> TypeOK /\ OneBufPerSector /\ Exclusive /\ QueueExact /\ NoLostWakeup /\ FlagsInv /\ OnlyNoBuffers
<1>1. Requests <=> QueueExact
  BY Zenon DEF Requests, QueueExact, OnQueue
<1>2. (\A b \in Buf : BufOK(b)) /\ (\A p \in Proc : ProcOK(p)) /\ Owners => Exclusive /\ NoLostWakeup /\ FlagsInv
  BY Zenon DEF BufOK, ProcOK, Owners, Exclusive, NoLostWakeup, FlagsInv
<1>3. Exclusive /\ NoLostWakeup /\ FlagsInv => (\A b \in Buf : BufOK(b)) /\ Owners
  BY Zenon DEF BufOK, Owners, Exclusive, NoLostWakeup, FlagsInv
<1>4. Exclusive /\ NoLostWakeup /\ FlagsInv => \A p \in Proc : ProcOK(p)
  BY Zenon DEF ProcOK, Exclusive, NoLostWakeup, FlagsInv
<1> QED BY <1>1, <1>2, <1>3, <1>4, Zenon DEF Books

-----------------------------------------------------------------------------
(* What an assignment to one element of an array changes *)
LEMMA FunAt ==
  ASSUME NEW D, NEW R, NEW f \in [D -> R], NEW d \in D, NEW v
  PROVE  /\ [f EXCEPT ![d] = v][d] = v
         /\ \A e \in D : e # d => [f EXCEPT ![d] = v][e] = f[e]
OBVIOUS

LEMMA FunType ==
  ASSUME NEW D, NEW R, NEW f \in [D -> R], NEW d \in D, NEW v \in R
  PROVE  [f EXCEPT ![d] = v] \in [D -> R]
OBVIOUS

(* What follows for a buffer that nobody has ... *)
LEMMA FreeBuffer ==
  ASSUME Books, NEW b \in Buf, "B_BUSY" \notin flags[b]
  PROVE  /\ ~OnQueue(b)
         /\ \A q \in Proc : Holds(q) \/ pc[q] = "bsleep" => at[q] # b
<1>1. \A q \in Proc : Holds(q) \/ pc[q] = "bsleep" => at[q] # b
  BY Zenon DEF Books, ProcOK
<1>2. ~Waiting(b)
  BY <1>1, Zenon DEF Waiting, Holds
<1> QED BY <1>1, <1>2, Zenon DEF Books, Requests

(* ... and for one whose holder is not in iderw()'s loop *)
LEMMA HeldBuffer ==
  ASSUME Books, NEW p \in Proc, pc[p] \in {"rw", "have", "changed"}
  PROVE  /\ at[p] \in Buf /\ "B_BUSY" \in flags[at[p]] /\ sector[at[p]] \in Sector
         /\ ~OnQueue(at[p])
         /\ \A q \in Proc : Holds(q) /\ q # p => at[q] # at[p]
<1>1. Holds(p)
  BY Zenon DEF Holds
<1>2. at[p] \in Buf /\ "B_BUSY" \in flags[at[p]]
  BY <1>1, Zenon DEF Books, ProcOK
<1>3. sector[at[p]] \in Sector \cup {NoSector} /\ sector[at[p]] # NoSector
  BY <1>2, Zenon DEF Books, TypeOK, BufOK
<1>4. \A q \in Proc : Holds(q) /\ q # p => at[q] # at[p]
  BY <1>1, Zenon DEF Books, Owners
<1>5. \A q \in Proc : pc[q] \in {"rsleep", "rcheck"} => q # p /\ Holds(q)
  BY Zenon DEF Holds
<1>6. ~Waiting(at[p])
  BY <1>4, <1>5, Zenon DEF Waiting
<1>7. ~OnQueue(at[p])
  BY <1>2, <1>6, Zenon DEF Books, Requests
<1> QED BY <1>2, <1>3, <1>4, <1>7, Zenon

(* The request that the drive works on *)
LEMMA HeadBuffer ==
  ASSUME Books, drv # "idle"
  PROVE  /\ queue # <<>> /\ Head(queue) \in Buf /\ OnQueue(Head(queue)) /\ Waiting(Head(queue))
         /\ "B_BUSY" \in flags[Head(queue)] /\ sector[Head(queue)] \in Sector
         /\ \A q \in Proc : Holds(q) /\ at[q] = Head(queue) => pc[q] \in {"rsleep", "rcheck"}
<1> DEFINE b == Head(queue)
<1>1. queue # <<>> /\ queue \in Seq(Buf)
  BY Zenon DEF Books, Requests, TypeOK
<1>2. b \in Buf /\ OnQueue(b)
  BY <1>1 DEF OnQueue
<1>3. Waiting(b)
  BY <1>2, Zenon DEF Books, Requests
<1>4. PICK p \in Proc : at[p] = b /\ pc[p] \in {"rsleep", "rcheck"}
  BY <1>3, Zenon DEF Waiting
<1>5. Holds(p)
  BY <1>4, Zenon DEF Holds
<1>6. "B_BUSY" \in flags[b]
  BY <1>4, <1>5, Zenon DEF Books, ProcOK
<1>7. sector[b] \in Sector \cup {NoSector} /\ sector[b] # NoSector
  BY <1>2, <1>6, Zenon DEF Books, TypeOK, BufOK
<1>8. \A q \in Proc : Holds(q) /\ at[q] = b => q = p
  BY <1>4, <1>5, Zenon DEF Books, Owners
<1> QED BY <1>1, <1>2, <1>3, <1>4, <1>6, <1>7, <1>8, Zenon

-----------------------------------------------------------------------------
(* What leaves the books of a process, of the holders and of the queue alone *)
LEMMA ProcKept ==
  ASSUME NEW q \in Proc, ProcOK(q),
         pc'[q] = pc[q], at'[q] = at[q], want'[q] = want[q],
         Holds(q) => flags'[at[q]] = flags[at[q]],
         pc[q] = "bsleep" => "B_BUSY" \in flags'[at[q]] /\ sector'[at[q]] = sector[at[q]]
  PROVE  ProcOK(q)'
<1>1. Holds(q)' <=> Holds(q)
  BY Zenon DEF Holds
<1>2. Holds(q) => (InSync(at[q])' <=> InSync(at[q]))
  BY Zenon DEF InSync
<1>3. pc[q] \in {"rsleep", "rw", "have", "changed"} => Holds(q)
  BY Zenon DEF Holds
<1> QED BY <1>1, <1>2, <1>3, Zenon DEF ProcOK

LEMMA OwnersKept ==
  ASSUME Owners,
         \A q \in Proc : (Holds(q)' <=> Holds(q)) /\ (Holds(q) => at'[q] = at[q]),
         \A b \in Buf : "B_BUSY" \in flags'[b] => "B_BUSY" \in flags[b]
  PROVE  Owners'
BY Zenon DEF Owners

(* A process whose request is in the queue *)
Asks(q) == pc[q] \in {"rsleep", "rcheck"} /\ ~InSync(at[q])

LEMMA RequestsKept ==
  ASSUME Requests, queue' = queue, drv' = "idle" <=> drv = "idle",
         \A q \in Proc : (Asks(q)' <=> Asks(q)) /\ (Asks(q) => at'[q] = at[q])
  PROVE  Requests'
<1>1. \A b \in Buf : OnQueue(b)' <=> OnQueue(b)
  BY Zenon DEF OnQueue
<1>2. \A b \in Buf : Waiting(b)' <=> Waiting(b)
  BY Zenon DEF Waiting, Asks
<1>3. \A b \in Buf : OnQueue(b)' <=> Waiting(b)'
  BY <1>1, <1>2, Zenon DEF Requests
<1>4. \A i, j \in 1 .. Len(queue') : queue'[i] = queue'[j] => i = j
  <2>1. \A i, j \in 1 .. Len(queue) : queue[i] = queue[j] => i = j
    BY Zenon DEF Requests
  <2> QED BY <2>1, Zenon
<1>5. drv' = "idle" <=> queue' = <<>>
  BY Zenon DEF Requests
<1> QED BY <1>3, <1>4, <1>5, Zenon DEF Requests

-----------------------------------------------------------------------------
(* One lemma per action: the books stay right. *)
LEMMA TakeFacts ==
  ASSUME Books, NEW p \in Proc, NEW s \in Sector, NEW b \in Buf, Enters(p, s), Take(p, s, b)
  PROVE  /\ ~Holds(p) /\ ~Asks(p) /\ pc[p] # "bsleep"
         /\ at'[p] = b /\ want'[p] = NoSector
         /\ pc'[p] = IF "B_VALID" \in flags'[b] THEN "have" ELSE "rw"
         /\ \A q \in Proc : q # p => pc'[q] = pc[q] /\ at'[q] = at[q] /\ want'[q] = want[q]
         /\ pc' \in [Proc -> Location] /\ at' \in [Proc -> Buf \cup {NoBuf}]
         /\ want' \in [Proc -> Sector \cup {NoSector}]
<1>1. pc[p] = "idle" \/ pc[p] = "bget"
  BY Zenon DEF Enters
<1>2. ~Holds(p) /\ ~Asks(p) /\ pc[p] # "bsleep"
  BY <1>1, Zenon DEF Holds, Asks
<1>3. /\ pc \in [Proc -> Location] /\ at \in [Proc -> Buf \cup {NoBuf}]
      /\ want \in [Proc -> Sector \cup {NoSector}]
  BY Zenon DEF Books, TypeOK
<1>4. at'[p] = b /\ \A q \in Proc : q # p => at'[q] = at[q]
  BY <1>3, FunAt, Zenon DEF Take
<1>5. want'[p] = NoSector /\ \A q \in Proc : q # p => want'[q] = want[q]
  BY <1>3, FunAt, Zenon DEF Take
<1>6. /\ pc'[p] = IF "B_VALID" \in flags'[b] THEN "have" ELSE "rw"
      /\ \A q \in Proc : q # p => pc'[q] = pc[q]
  BY <1>3, FunAt, Zenon DEF Take
<1>7. pc' \in [Proc -> Location]
  <2>1. (IF "B_VALID" \in flags'[b] THEN "have" ELSE "rw") \in Location
    BY Zenon DEF Location
  <2> QED BY <1>3, <2>1, FunType, Zenon DEF Take
<1>8. at' \in [Proc -> Buf \cup {NoBuf}] /\ want' \in [Proc -> Sector \cup {NoSector}]
  BY <1>3, FunType, Zenon DEF Take
<1> QED BY <1>2, <1>4, <1>5, <1>6, <1>7, <1>8, Zenon

LEMMA TakenFacts ==
  ASSUME Books, NEW p \in Proc, NEW s \in Sector, NEW b \in Buf, Enters(p, s), Take(p, s, b)
  PROVE  /\ ~Holds(p) /\ at'[p] = b /\ pc'[p] \in {"have", "rw"}
         /\ \A q \in Proc : q # p => pc'[q] = pc[q] /\ at'[q] = at[q]
<1>1. pc'[p] = IF "B_VALID" \in flags'[b] THEN "have" ELSE "rw"
  BY TakeFacts, Zenon
<1>2. ~Holds(p) /\ at'[p] = b /\ \A q \in Proc : q # p => pc'[q] = pc[q] /\ at'[q] = at[q]
  BY TakeFacts, Zenon
<1> QED BY <1>1, <1>2, Zenon

(* bget() takes a free buffer b, whose flags become F: nobody else is       *)
(* concerned.                                                               *)
LEMMA TakeStep ==
  ASSUME Books, NEW p \in Proc, NEW s \in Sector, NEW b \in Buf, Enters(p, s), Take(p, s, b),
         "B_BUSY" \notin flags[b], "B_BUSY" \in flags'[b], sector'[b] = s,
         "B_VALID" \notin flags'[b] => ~InSync(b)',
         "B_DIRTY" \in flags'[b] => "B_VALID" \in flags'[b],
         \A c \in Buf : c # b => flags'[c] = flags[c] /\ sector'[c] = sector[c],
         queue' = queue, drv' = drv
  PROVE  (\A c \in Buf : BufOK(c)') /\ (\A q \in Proc : ProcOK(q)') /\ Owners' /\ Requests'
<1>0. /\ ~Holds(p) /\ ~Asks(p) /\ pc[p] # "bsleep"
      /\ at'[p] = b /\ want'[p] = NoSector
      /\ pc'[p] = IF "B_VALID" \in flags'[b] THEN "have" ELSE "rw"
      /\ \A q \in Proc : q # p => pc'[q] = pc[q] /\ at'[q] = at[q] /\ want'[q] = want[q]
  BY TakeFacts, Zenon
<1>1. ~OnQueue(b) /\ \A q \in Proc : Holds(q) \/ pc[q] = "bsleep" => at[q] # b
  BY FreeBuffer, Zenon
<1>2. \A c \in Buf : BufOK(c)'
  <2>1. BufOK(b)'
    BY BioAssumption, Zenon DEF BufOK
  <2>2. ASSUME NEW c \in Buf, c # b PROVE BufOK(c)'
    BY <2>2, Zenon DEF Books, BufOK
  <2> QED BY <2>1, <2>2, Zenon
<1>3. \A q \in Proc : q # p => (Holds(q)' <=> Holds(q))
  BY <1>0, Zenon DEF Holds
<1>4. Holds(p)' /\ ~Asks(p)'
  BY <1>0, Zenon DEF Holds, Asks
<1>5. \A q \in Proc : ProcOK(q)'
  <2>1. ProcOK(p)'
    <3>1. pc'[p] \notin {"bsleep", "rsleep", "bget"} /\ pc'[p] \in {"have", "rw"}
      BY <1>0, Zenon
    <3>2. pc'[p] = "rw" => ~InSync(at[p])'
      BY <1>0, Zenon DEF InSync
    <3>3. pc'[p] \in {"have", "changed"} => "B_VALID" \in flags'[at'[p]]
      BY <1>0, Zenon
    <3> QED BY <1>0, <3>1, <3>2, <3>3, Zenon DEF ProcOK
  <2>2. ASSUME NEW q \in Proc, q # p PROVE ProcOK(q)'
    <3>1. ProcOK(q)
      BY Zenon DEF Books
    <3>2. Holds(q) \/ pc[q] = "bsleep" => at[q] \in Buf /\ at[q] # b
      BY <1>1, <3>1, Zenon DEF ProcOK
    <3>3. pc[q] = "bsleep" => "B_BUSY" \in flags[at[q]]
      BY <3>1, Zenon DEF ProcOK
    <3> QED BY <1>0, <2>2, <3>1, <3>2, <3>3, ProcKept, Zenon
  <2> QED BY <2>1, <2>2, Zenon
<1>6. Owners'
  <2>1. \A q, r \in Proc : Holds(q)' /\ Holds(r)' /\ at'[q] = at'[r] => q = r
    <3>1. \A q, r \in Proc : Holds(q) /\ Holds(r) /\ at[q] = at[r] => q = r
      BY Zenon DEF Books, Owners
    <3>2. \A q \in Proc : q # p /\ Holds(q)' => Holds(q) /\ at'[q] = at[q] /\ at[q] # b
      BY <1>0, <1>1, <1>3, Zenon
    <3> QED BY <1>0, <3>1, <3>2, Zenon
  <2>2. \A c \in Buf : "B_BUSY" \in flags'[c] => \E q \in Proc : Holds(q)' /\ at'[q] = c
    <3>1. ASSUME NEW c \in Buf, c # b, "B_BUSY" \in flags'[c] PROVE \E q \in Proc : Holds(q)' /\ at'[q] = c
      <4>1. PICK q \in Proc : Holds(q) /\ at[q] = c
        BY <3>1, Zenon DEF Books, Owners
      <4> QED BY <1>0, <1>3, <4>1, Zenon
    <3> QED BY <1>0, <1>4, <3>1, Zenon
  <2> QED BY <2>1, <2>2, Zenon DEF Owners
<1>7. Requests'
  <2>1. \A q \in Proc : pc[q] \in {"rsleep", "rcheck"} => Holds(q) /\ at[q] \in Buf /\ at[q] # b
    BY <1>1, Zenon DEF Holds, Books, ProcOK
  <2>2. \A q \in Proc : pc[q] \in {"rsleep", "rcheck"} => (InSync(at[q])' <=> InSync(at[q]))
    <3>1. ASSUME NEW q \in Proc, pc[q] \in {"rsleep", "rcheck"} PROVE InSync(at[q])' <=> InSync(at[q])
      <4>1. q # p /\ at[q] \in Buf /\ at[q] # b
        BY <1>0, <2>1, <3>1, Zenon
      <4>2. at'[q] = at[q] /\ flags'[at[q]] = flags[at[q]]
        BY <1>0, <4>1, Zenon
      <4> QED BY <4>2, Zenon DEF InSync
    <3> QED BY <3>1, Zenon
  <2>3. \A q \in Proc : (Asks(q)' <=> Asks(q)) /\ (Asks(q) => at'[q] = at[q])
    BY <1>0, <1>4, <2>2, Zenon DEF Asks
  <2>4. Requests
    BY Zenon DEF Books
  <2> QED BY <2>3, <2>4, RequestsKept, Zenon
<1> QED BY <1>2, <1>5, <1>6, <1>7, Zenon

LEMMA BgetHitStep ==
  ASSUME Books, NEW p \in Proc, NEW s \in Sector, NEW b \in Buf, BgetHit(p, s, b)
  PROVE  Books'
<1>1. /\ Enters(p, s) /\ sector[b] = s /\ "B_BUSY" \notin flags[b] /\ Take(p, s, b) /\ ~panicked
      /\ place' = place /\ sector' = sector /\ data' = data /\ queue' = queue /\ disk' = disk
      /\ drv' = drv /\ panicked' = panicked
  BY Zenon DEF BgetHit, Enters, drive
<1>2. flags \in [Buf -> SUBSET Flag]
  BY Zenon DEF Books, TypeOK
<1>3. /\ flags'[b] = flags[b] \cup {"B_BUSY"} /\ \A c \in Buf : c # b => flags'[c] = flags[c]
      /\ flags' \in [Buf -> SUBSET Flag]
  BY <1>2 DEF BgetHit, Flag
<1>4. "B_DIRTY" \in flags[b] => "B_VALID" \in flags[b]
  BY Zenon DEF Books, BufOK
<1>5. "B_VALID" \notin flags'[b] => ~InSync(b)'
  BY Zenon DEF InSync
<1>6. (\A c \in Buf : BufOK(c)') /\ (\A q \in Proc : ProcOK(q)') /\ Owners' /\ Requests'
  BY <1>1, <1>3, <1>4, <1>5, TakeStep, Zenon
<1>7. TypeOK'
  BY <1>1, <1>3, TakeFacts, Zenon DEF Books, TypeOK
<1>8. OneBufPerSector' /\ OnlyNoBuffers'
  BY <1>1, Zenon DEF Books, OneBufPerSector, OnlyNoBuffers
<1> QED BY <1>6, <1>7, <1>8, Zenon DEF Books

LEMMA BgetRecycleStep ==
  ASSUME Books, NEW p \in Proc, NEW s \in Sector, NEW b \in Buf, BgetRecycle(p, s, b)
  PROVE  Books'
<1>1. /\ Enters(p, s) /\ Uncached(p, s) /\ Recyclable(b) /\ Take(p, s, b) /\ ~panicked
      /\ place' = place /\ data' = data /\ queue' = queue /\ disk' = disk
      /\ drv' = drv /\ panicked' = panicked
  BY Zenon DEF BgetRecycle, Enters, drive
<1>2. flags \in [Buf -> SUBSET Flag] /\ sector \in [Buf -> Sector \cup {NoSector}]
  BY Zenon DEF Books, TypeOK
<1>3. /\ flags'[b] = {"B_BUSY"} /\ \A c \in Buf : c # b => flags'[c] = flags[c]
      /\ flags' \in [Buf -> SUBSET Flag]
  BY <1>2 DEF BgetRecycle, Flag, Recycled
<1>4. /\ sector'[b] = s /\ \A c \in Buf : c # b => sector'[c] = sector[c]
      /\ sector' \in [Buf -> Sector \cup {NoSector}]
  BY <1>2 DEF BgetRecycle
<1>5. "B_VALID" \notin flags'[b] /\ "B_DIRTY" \notin flags'[b] /\ "B_BUSY" \in flags'[b]
  BY <1>3
<1>6. ~InSync(b)' /\ "B_BUSY" \notin flags[b]
  BY <1>1, <1>5, Zenon DEF InSync, Recyclable
<1>7. (\A c \in Buf : BufOK(c)') /\ (\A q \in Proc : ProcOK(q)') /\ Owners' /\ Requests'
  BY <1>1, <1>3, <1>4, <1>5, <1>6, TakeStep, Zenon
<1>8. TypeOK'
  BY <1>1, <1>3, <1>4, TakeFacts, Zenon DEF Books, TypeOK
<1>9. OneBufPerSector' /\ OnlyNoBuffers'
  BY <1>1, <1>4, Zenon DEF Books, OneBufPerSector, OnlyNoBuffers, Uncached
<1> QED BY <1>7, <1>8, <1>9, Zenon DEF Books

LEMMA BgetSleepStep ==
  ASSUME Books, NEW p \in Proc, NEW s \in Sector, NEW b \in Buf, BgetSleep(p, s, b)
  PROVE  Books'
<1>1. /\ pc[p] = "idle" \/ pc[p] = "bget"
      /\ sector[b] = s /\ "B_BUSY" \in flags[b] /\ ~panicked
      /\ place' = place /\ sector' = sector /\ flags' = flags /\ data' = data
      /\ queue' = queue /\ disk' = disk /\ drv' = drv /\ panicked' = panicked
  BY Zenon DEF BgetSleep, Enters, drive, bufs
<1>2. /\ pc \in [Proc -> Location] /\ at \in [Proc -> Buf \cup {NoBuf}]
      /\ want \in [Proc -> Sector \cup {NoSector}]
  BY Zenon DEF Books, TypeOK
<1>3. /\ pc'[p] = "bsleep" /\ want'[p] = s /\ at'[p] = b
      /\ \A q \in Proc : q # p => pc'[q] = pc[q] /\ at'[q] = at[q] /\ want'[q] = want[q]
  BY <1>2, FunAt, Zenon DEF BgetSleep
<1>4. /\ pc' \in [Proc -> Location] /\ at' \in [Proc -> Buf \cup {NoBuf}]
      /\ want' \in [Proc -> Sector \cup {NoSector}]
  BY <1>2, FunType, Zenon DEF BgetSleep, Location
<1>5. TypeOK'
  BY <1>1, <1>4, Zenon DEF Books, TypeOK
<1>6. OneBufPerSector' /\ OnlyNoBuffers' /\ \A c \in Buf : BufOK(c)'
  BY <1>1, Zenon DEF Books, OneBufPerSector, OnlyNoBuffers, BufOK
<1>7. ~Holds(p) /\ ~Asks(p) /\ ~Holds(p)' /\ ~Asks(p)'
  BY <1>1, <1>3, Zenon DEF Holds, Asks
<1>8. \A q \in Proc : q # p => (Holds(q)' <=> Holds(q)) /\ (Asks(q)' <=> Asks(q))
  BY <1>1, <1>3, Zenon DEF Holds, Asks, InSync
<1>9. ASSUME NEW q \in Proc PROVE ProcOK(q)'
  <2>1. CASE q = p
    BY <1>1, <1>3, <1>7, <2>1, Zenon DEF ProcOK
  <2>2. CASE q # p
    <3>1. ProcOK(q) /\ (pc[q] = "bsleep" => "B_BUSY" \in flags[at[q]])
      BY Zenon DEF Books, ProcOK
    <3> QED BY <1>1, <1>3, <2>2, <3>1, ProcKept, Zenon
  <2> QED BY <2>1, <2>2, Zenon
<1>10. Owners'
  BY <1>1, <1>3, <1>7, <1>8, OwnersKept, Zenon DEF Books
<1>11. Requests'
  BY <1>1, <1>3, <1>7, <1>8, RequestsKept, Zenon DEF Books
<1> QED BY <1>5, <1>6, <1>9, <1>10, <1>11, Zenon DEF Books

LEMMA BgetPanicStep ==
  ASSUME Books, NEW p \in Proc, NEW s \in Sector, BgetPanic(p, s)
  PROVE  Books'
<1>1. /\ \A c \in Buf : ~Recyclable(c)
      /\ place' = place /\ sector' = sector /\ flags' = flags /\ data' = data
      /\ queue' = queue /\ disk' = disk /\ drv' = drv /\ pc' = pc /\ want' = want /\ at' = at
      /\ panicked' = TRUE
  BY Zenon DEF BgetPanic, bufs, drive
<1>2. OnlyNoBuffers'
  BY <1>1, Zenon DEF OnlyNoBuffers, Recyclable
<1>3. TypeOK'
  BY <1>1, Zenon DEF Books, TypeOK
<1>4. OneBufPerSector' /\ (\A b \in Buf : BufOK(b)') /\ Owners'
  BY <1>1, Zenon DEF Books, OneBufPerSector, BufOK, Owners, Holds
<1>5. \A q \in Proc : ProcOK(q)'
  BY <1>1, Zenon DEF Books, ProcOK, Holds, InSync
<1>6. Requests'
  <2>1. \A q \in Proc : Asks(q)' <=> Asks(q)
    BY <1>1, Zenon DEF Asks, InSync
  <2> QED BY <1>1, <2>1, RequestsKept, Zenon DEF Books
<1> QED BY <1>2, <1>3, <1>4, <1>5, <1>6, Zenon DEF Books

-----------------------------------------------------------------------------
(* iderw() appends a buffer to the queue, ideintr() takes the first one off. *)
LEMMA Enqueue ==
  ASSUME NEW b \in Buf, queue \in Seq(Buf), queue' = Append(queue, b), ~OnQueue(b),
         \A i, j \in 1 .. Len(queue) : queue[i] = queue[j] => i = j
  PROVE  /\ queue' \in Seq(Buf) /\ queue' # <<>>
         /\ \A c \in Buf : OnQueue(c)' <=> OnQueue(c) \/ c = b
         /\ \A i, j \in 1 .. Len(queue') : queue'[i] = queue'[j] => i = j
         /\ queue # <<>> => Head(queue') = Head(queue)
<1>1. /\ queue' \in Seq(Buf) /\ queue' # <<>> /\ Len(queue) \in Nat /\ Len(queue') = Len(queue) + 1
      /\ queue'[Len(queue) + 1] = b
      /\ \A i \in 1 .. Len(queue) : queue'[i] = queue[i]
      /\ queue # <<>> => Head(queue') = Head(queue)
  OBVIOUS
<1>2. \A i \in 1 .. Len(queue') : i \in 1 .. Len(queue) \/ i = Len(queue) + 1
  BY <1>1
<1>3. \A i \in 1 .. Len(queue) : i \in 1 .. Len(queue') /\ queue[i] # b
  BY <1>1 DEF OnQueue
<1>4. Len(queue) + 1 \in 1 .. Len(queue')
  BY <1>1
<1>5. \A i, j \in 1 .. Len(queue') : queue'[i] = queue'[j] => i = j
  <2>1. TAKE i, j \in 1 .. Len(queue')
  <2>2. CASE i \in 1 .. Len(queue) /\ j \in 1 .. Len(queue)
    BY <1>1, <2>2, Zenon
  <2>3. CASE i = Len(queue) + 1 \/ j = Len(queue) + 1
    <3>1. queue'[i] = b \/ queue'[j] = b
      BY <1>1, <2>3, Zenon
    <3>2. queue'[i] = b => i = Len(queue) + 1
      BY <1>1, <1>2, <1>3, Zenon
    <3>3. queue'[j] = b => j = Len(queue) + 1
      BY <1>1, <1>2, <1>3, Zenon
    <3> QED BY <3>1, <3>2, <3>3, Zenon
  <2> QED BY <1>2, <2>2, <2>3, Zenon
<1>6. \A c \in Buf : OnQueue(c)' <=> OnQueue(c) \/ c = b
  BY <1>1, <1>2, <1>3, <1>4, Zenon DEF OnQueue
<1> QED BY <1>1, <1>5, <1>6, Zenon

LEMMA Dequeue ==
  ASSUME queue \in Seq(Buf), queue # <<>>, queue' = Tail(queue),
         \A i, j \in 1 .. Len(queue) : queue[i] = queue[j] => i = j
  PROVE  /\ queue' \in Seq(Buf)
         /\ \A c \in Buf : OnQueue(c)' <=> OnQueue(c) /\ c # Head(queue)
         /\ \A i, j \in 1 .. Len(queue') : queue'[i] = queue'[j] => i = j
<1>1. /\ queue' \in Seq(Buf) /\ Len(queue) \in Nat /\ Len(queue) # 0 /\ Len(queue') = Len(queue) - 1
      /\ \A i \in 1 .. Len(queue') : queue'[i] = queue[i + 1]
      /\ Head(queue) = queue[1]
  OBVIOUS
<1>2. \A i \in 1 .. Len(queue') : i + 1 \in 1 .. Len(queue) /\ i + 1 # 1
  BY <1>1
<1>3. \A i \in 1 .. Len(queue) : i = 1 \/ \E j \in 1 .. Len(queue') : i = j + 1
  <2>1. TAKE i \in 1 .. Len(queue)
  <2>2. CASE i # 1
    <3>1. i - 1 \in 1 .. Len(queue') /\ i = (i - 1) + 1
      BY <1>1, <2>2
    <3> QED BY <3>1, Zenon
  <2> QED BY <2>2
<1>4. \A i, j \in 1 .. Len(queue') : queue'[i] = queue'[j] => i = j
  <2>1. TAKE i, j \in 1 .. Len(queue')
  <2>2. queue'[i] = queue'[j] => i + 1 = j + 1
    BY <1>1, <1>2, Zenon
  <2> QED BY <2>2, <1>1
<1>5. \A c \in Buf : OnQueue(c)' => OnQueue(c) /\ c # Head(queue)
  <2>1. 1 \in 1 .. Len(queue)
    BY <1>1
  <2>2. SUFFICES ASSUME NEW c \in Buf, NEW i \in 1 .. Len(queue'), queue'[i] = c
                 PROVE  OnQueue(c) /\ c # Head(queue)
    BY Zenon DEF OnQueue
  <2>3. i + 1 \in 1 .. Len(queue) /\ i + 1 # 1 /\ queue[i + 1] = c
    BY <1>1, <1>2, <2>2, Zenon
  <2>4. c # queue[1]
    BY <2>1, <2>3, Zenon
  <2> QED BY <1>1, <2>3, <2>4, Zenon DEF OnQueue
<1>6. \A c \in Buf : OnQueue(c) /\ c # Head(queue) => OnQueue(c)'
  <2>1. SUFFICES ASSUME NEW c \in Buf, NEW i \in 1 .. Len(queue), queue[i] = c, c # Head(queue)
                 PROVE  OnQueue(c)'
    BY Zenon DEF OnQueue
  <2>2. PICK j \in 1 .. Len(queue') : i = j + 1
    BY <1>1, <1>3, <2>1, Zenon
  <2> QED BY <1>1, <2>1, <2>2, Zenon DEF OnQueue
<1> QED BY <1>1, <1>4, <1>5, <1>6, Zenon

-----------------------------------------------------------------------------
(* A step that moves at most a process, and leaves alone who holds what *)
LEMMA QuietStep ==
  ASSUME Books, TypeOK', ~panicked', sector' = sector, flags' = flags, queue' = queue,
         drv' = "idle" <=> drv = "idle", at' = at, want' = want,
         \A q \in Proc : /\ (Holds(q)' <=> Holds(q)) /\ (Asks(q)' <=> Asks(q))
                         /\ pc'[q] = pc[q] \/ ProcOK(q)'
  PROVE  Books'
<1>1. OneBufPerSector' /\ OnlyNoBuffers' /\ \A c \in Buf : BufOK(c)'
  BY Zenon DEF Books, OneBufPerSector, OnlyNoBuffers, BufOK
<1>2. ASSUME NEW q \in Proc PROVE ProcOK(q)'
  <2>1. CASE pc'[q] = pc[q]
    <3>1. ProcOK(q) /\ (pc[q] = "bsleep" => "B_BUSY" \in flags[at[q]])
      BY Zenon DEF Books, ProcOK
    <3> QED BY <2>1, <3>1, ProcKept, Zenon
  <2> QED BY <2>1, Zenon
<1>3. Owners'
  BY OwnersKept, Zenon DEF Books
<1>4. Requests'
  BY RequestsKept, Zenon DEF Books
<1> QED BY <1>1, <1>2, <1>3, <1>4, Zenon DEF Books

LEMMA IderwCheckStep ==
  ASSUME Books, NEW p \in Proc, IderwCheck(p)
  PROVE  Books'
<1>1. /\ pc[p] = "rcheck" /\ ~panicked
      /\ place' = place /\ sector' = sector /\ flags' = flags /\ data' = data
      /\ queue' = queue /\ disk' = disk /\ drv' = drv /\ want' = want /\ at' = at
      /\ panicked' = panicked
  BY Zenon DEF IderwCheck, drive, bufs
<1>2. pc \in [Proc -> Location]
  BY Zenon DEF Books, TypeOK
<1> DEFINE l == IF InSync(at[p]) THEN "have" ELSE "rsleep"
<1>3. pc'[p] = l /\ \A q \in Proc : q # p => pc'[q] = pc[q]
  BY <1>2, FunAt, Zenon DEF IderwCheck
<1>4. pc' \in [Proc -> Location]
  <2>1. l \in Location
    BY Zenon DEF Location
  <2> QED BY <1>2, <2>1, FunType, Zenon DEF IderwCheck
<1>5. InSync(at[p])' <=> InSync(at[p])
  BY <1>1, Zenon DEF InSync
<1>6. InSync(at[p]) => "B_VALID" \in flags[at[p]]
  BY Zenon DEF InSync
<1>7. (pc'[p] = "have" /\ InSync(at[p])) \/ (pc'[p] = "rsleep" /\ ~InSync(at[p]))
  BY <1>3, Zenon
<1>8. (Holds(p)' <=> Holds(p)) /\ (Asks(p)' <=> Asks(p))
  BY <1>1, <1>5, <1>7, Zenon DEF Holds, Asks
<1>9. at[p] \in Buf /\ "B_BUSY" \in flags[at[p]]
  BY <1>1, Zenon DEF Books, ProcOK, Holds
<1>10. ProcOK(p)'
  BY <1>1, <1>5, <1>6, <1>7, <1>9, Zenon DEF ProcOK
<1>11. \A q \in Proc : q # p => (Holds(q)' <=> Holds(q)) /\ (Asks(q)' <=> Asks(q))
  BY <1>1, <1>3, Zenon DEF Holds, Asks, InSync
<1>12. TypeOK'
  BY <1>1, <1>4, Zenon DEF Books, TypeOK
<1> QED BY <1>1, <1>3, <1>8, <1>10, <1>11, <1>12, QuietStep, Zenon

LEMMA KillStep ==
  ASSUME Books, NEW p \in Proc, Kill(p)
  PROVE  Books'
<1>1. /\ pc[p] \in {"bsleep", "rsleep"} /\ ~panicked
      /\ place' = place /\ sector' = sector /\ flags' = flags /\ data' = data
      /\ queue' = queue /\ disk' = disk /\ drv' = drv /\ want' = want /\ at' = at
      /\ panicked' = panicked
  BY Zenon DEF Kill, drive, bufs
<1>2. pc \in [Proc -> Location]
  BY Zenon DEF Books, TypeOK
<1>3. /\ pc'[p] = IF pc[p] = "bsleep" THEN "bget" ELSE "rcheck"
      /\ \A q \in Proc : q # p => pc'[q] = pc[q]
      /\ pc' \in [Proc -> Location]
  BY <1>2 DEF Kill, Location
<1>4. (pc[p] = "bsleep" /\ pc'[p] = "bget") \/ (pc[p] = "rsleep" /\ pc'[p] = "rcheck")
  BY <1>1, <1>3, Zenon
<1>5. (Holds(p)' <=> Holds(p)) /\ (Asks(p)' <=> Asks(p))
  BY <1>1, <1>4, Zenon DEF Holds, Asks, InSync
<1>6. ProcOK(p)'
  <2>1. CASE pc[p] = "bsleep" /\ pc'[p] = "bget"
    <3>1. /\ at[p] \in Buf /\ flags[at[p]] # {} /\ sector[at[p]] = want[p]
      BY <2>1, Zenon DEF Books, ProcOK
    <3>2. sector[at[p]] \in Sector \cup {NoSector} /\ sector[at[p]] # NoSector
      BY <3>1, Zenon DEF Books, TypeOK, BufOK
    <3> QED BY <1>1, <2>1, <3>1, <3>2, Zenon DEF ProcOK, Holds
  <2>2. CASE pc[p] = "rsleep" /\ pc'[p] = "rcheck"
    <3>1. at[p] \in Buf /\ "B_BUSY" \in flags[at[p]]
      BY <2>2, Zenon DEF Books, ProcOK, Holds
    <3> QED BY <1>1, <2>2, <3>1, Zenon DEF ProcOK
  <2> QED BY <1>4, <2>1, <2>2, Zenon
<1>7. \A q \in Proc : q # p => (Holds(q)' <=> Holds(q)) /\ (Asks(q)' <=> Asks(q))
  BY <1>1, <1>3, Zenon DEF Holds, Asks, InSync
<1>8. TypeOK'
  BY <1>1, <1>3, Zenon DEF Books, TypeOK
<1> QED BY <1>1, <1>3, <1>5, <1>6, <1>7, <1>8, QuietStep, Zenon

LEMMA DriveDoneStep ==
  ASSUME Books, DriveDone
  PROVE  Books'
<1>1. /\ drv = "working" /\ drv' = "done" /\ ~panicked
      /\ place' = place /\ sector' = sector /\ flags' = flags /\ data' = data
      /\ queue' = queue /\ pc' = pc /\ want' = want /\ at' = at /\ panicked' = panicked
  BY Zenon DEF DriveDone, bufs
<1>2. Head(queue) \in Buf /\ sector[Head(queue)] \in Sector
  BY <1>1, HeadBuffer, Zenon
<1>3. disk \in [Sector -> Data] /\ data \in [Buf -> Data]
  BY Zenon DEF Books, TypeOK
<1>4. disk' \in [Sector -> Data]
  BY <1>2, <1>3 DEF DriveDone
<1>5. TypeOK'
  BY <1>1, <1>4, Zenon DEF Books, TypeOK
<1>6. \A q \in Proc : (Holds(q)' <=> Holds(q)) /\ (Asks(q)' <=> Asks(q))
  BY <1>1, Zenon DEF Holds, Asks, InSync
<1> QED BY <1>1, <1>5, <1>6, QuietStep, Zenon

LEMMA ChangeStep ==
  ASSUME Books, NEW p \in Proc, NEW v \in Data, Change(p, v)
  PROVE  Books'
<1>1. /\ pc[p] = "have" /\ ~panicked
      /\ place' = place /\ sector' = sector /\ flags' = flags
      /\ queue' = queue /\ disk' = disk /\ drv' = drv /\ want' = want /\ at' = at
      /\ panicked' = panicked
  BY Zenon DEF Change, drive
<1>2. pc \in [Proc -> Location] /\ data \in [Buf -> Data]
  BY Zenon DEF Books, TypeOK
<1>3. at[p] \in Buf /\ "B_BUSY" \in flags[at[p]] /\ "B_VALID" \in flags[at[p]]
  BY <1>1, Zenon DEF Books, ProcOK, Holds
<1>4. pc'[p] = "changed" /\ \A q \in Proc : q # p => pc'[q] = pc[q]
  BY <1>2, FunAt, Zenon DEF Change
<1>5. pc' \in [Proc -> Location] /\ data' \in [Buf -> Data]
  BY <1>2, <1>3, FunType, Zenon DEF Change, Location
<1>6. (Holds(p)' <=> Holds(p)) /\ (Asks(p)' <=> Asks(p))
  BY <1>1, <1>4, Zenon DEF Holds, Asks
<1>7. ProcOK(p)'
  BY <1>1, <1>3, <1>4, Zenon DEF ProcOK
<1>8. \A q \in Proc : q # p => (Holds(q)' <=> Holds(q)) /\ (Asks(q)' <=> Asks(q))
  BY <1>1, <1>4, Zenon DEF Holds, Asks, InSync
<1>9. TypeOK'
  BY <1>1, <1>5, Zenon DEF Books, TypeOK
<1> QED BY <1>1, <1>4, <1>6, <1>7, <1>8, <1>9, QuietStep, Zenon

LEMMA WaitingIs == \A c \in Buf : Waiting(c) <=> \E q \in Proc : Asks(q) /\ at[q] = c
BY Zenon DEF Waiting, Asks

LEMMA IderwStep ==
  ASSUME Books, NEW p \in Proc, Iderw(p)
  PROVE  Books' /\ ~panicked'
<1>1. /\ pc[p] = "rw" /\ queue' = Append(queue, at[p])
      /\ drv' = IF queue = <<>> THEN "working" ELSE drv
      /\ place' = place /\ sector' = sector /\ flags' = flags /\ data' = data
      /\ disk' = disk /\ want' = want /\ at' = at
  BY Zenon DEF Iderw, bufs
<1>2. /\ at[p] \in Buf /\ "B_BUSY" \in flags[at[p]] /\ ~OnQueue(at[p])
  BY <1>1, HeldBuffer, Zenon
<1>3. ~InSync(at[p])
  BY <1>1, Zenon DEF Books, ProcOK
<1>4. panicked' = FALSE
  BY <1>2, <1>3 DEF Iderw
<1>5. pc \in [Proc -> Location] /\ queue \in Seq(Buf) /\ drv \in {"idle", "working", "done"}
  BY Zenon DEF Books, TypeOK
<1>6. pc'[p] = "rsleep" /\ \A q \in Proc : q # p => pc'[q] = pc[q]
  BY <1>5, FunAt, Zenon DEF Iderw
<1>7. pc' \in [Proc -> Location]
  BY <1>5, FunType, Zenon DEF Iderw, Location
<1>8. \A i, j \in 1 .. Len(queue) : queue[i] = queue[j] => i = j
  BY Zenon DEF Books, Requests
<1>9. /\ queue' \in Seq(Buf) /\ queue' # <<>>
      /\ \A c \in Buf : OnQueue(c)' <=> OnQueue(c) \/ c = at[p]
      /\ \A i, j \in 1 .. Len(queue') : queue'[i] = queue'[j] => i = j
  BY <1>1, <1>2, <1>5, <1>8, Enqueue, Zenon
<1>10. drv' \in {"idle", "working", "done"} /\ drv' # "idle"
  BY <1>1, <1>5, Zenon DEF Books, Requests
<1>11. TypeOK'
  BY <1>1, <1>4, <1>7, <1>9, <1>10, Zenon DEF Books, TypeOK
<1>12. OneBufPerSector' /\ OnlyNoBuffers' /\ \A c \in Buf : BufOK(c)'
  BY <1>1, <1>4, Zenon DEF Books, OneBufPerSector, OnlyNoBuffers, BufOK
<1>13. \A q \in Proc : Holds(q)' <=> Holds(q)
  BY <1>1, <1>6, Zenon DEF Holds
<1>14. \A q \in Proc : Asks(q)' <=> Asks(q) \/ q = p
  BY <1>1, <1>3, <1>6, Zenon DEF Asks, InSync
<1>15. ASSUME NEW q \in Proc PROVE ProcOK(q)'
  <2>1. CASE q = p
    <3>1. ~InSync(at[p])'
      BY <1>1, <1>3, Zenon DEF InSync
    <3> QED BY <1>1, <1>2, <1>6, <2>1, <3>1, Zenon DEF ProcOK
  <2>2. CASE q # p
    <3>1. ProcOK(q) /\ (pc[q] = "bsleep" => "B_BUSY" \in flags[at[q]])
      BY Zenon DEF Books, ProcOK
    <3> QED BY <1>1, <1>6, <2>2, <3>1, ProcKept, Zenon
  <2> QED BY <2>1, <2>2, Zenon
<1>16. Owners'
  BY <1>1, <1>13, OwnersKept, Zenon DEF Books
<1>17. Requests'
  <2>1. \A c \in Buf : OnQueue(c) <=> \E q \in Proc : Asks(q) /\ at[q] = c
    BY WaitingIs, Zenon DEF Books, Requests
  <2>2. \A c \in Buf : OnQueue(c)' <=> \E q \in Proc : Asks(q)' /\ at'[q] = c
    BY <1>1, <1>9, <1>14, <2>1, Zenon
  <2>3. \A c \in Buf : Waiting(c)' <=> \E q \in Proc : Asks(q)' /\ at'[q] = c
    BY Zenon DEF Waiting, Asks
  <2>4. \A c \in Buf : OnQueue(c)' <=> Waiting(c)'
    BY <2>2, <2>3, Zenon
  <2> QED BY <1>9, <1>10, <2>4, Zenon DEF Requests
<1> QED BY <1>4, <1>11, <1>12, <1>15, <1>16, <1>17, Zenon DEF Books

(* bwrite() and log_write() *)
LEMMA MarkStep ==
  ASSUME Books, NEW p \in Proc, pc[p] \in {"have", "changed"}, ~panicked, panicked' = panicked,
         flags' = MarkDirty(at[p]), NEW l \in {"rw", "have"}, pc' = [pc EXCEPT ![p] = l],
         UNCHANGED <<place, sector, data, drive, want, at>>
  PROVE  Books'
<1>1. /\ place' = place /\ sector' = sector /\ data' = data
      /\ queue' = queue /\ disk' = disk /\ drv' = drv /\ want' = want /\ at' = at
  BY Zenon DEF drive
<1>2. /\ pc \in [Proc -> Location] /\ flags \in [Buf -> SUBSET Flag]
  BY Zenon DEF Books, TypeOK
<1>3. /\ at[p] \in Buf /\ "B_BUSY" \in flags[at[p]] /\ sector[at[p]] \in Sector
      /\ \A q \in Proc : Holds(q) /\ q # p => at[q] # at[p]
  BY HeldBuffer, Zenon
<1>4. /\ pc'[p] = l /\ \A q \in Proc : q # p => pc'[q] = pc[q]
  BY <1>2, FunAt, Zenon
<1>5. l \in Location
  BY Zenon DEF Location
<1>6. pc' \in [Proc -> Location]
  BY <1>2, <1>5, FunType, Zenon
<1>7. /\ flags'[at[p]] = flags[at[p]] \cup {"B_DIRTY"}
      /\ \A c \in Buf : c # at[p] => flags'[c] = flags[c]
      /\ flags' \in [Buf -> SUBSET Flag]
  BY <1>2, <1>3 DEF MarkDirty, Flag
<1>8. TypeOK'
  BY <1>1, <1>6, <1>7, Zenon DEF Books, TypeOK
<1>9. "B_VALID" \in flags[at[p]]
  BY Zenon DEF Books, ProcOK
<1>10. "B_VALID" \in flags'[at[p]] /\ "B_DIRTY" \in flags'[at[p]] /\ "B_BUSY" \in flags'[at[p]]
  BY <1>3, <1>7, <1>9, Zenon
<1>11. ~InSync(at[p])'
  <2>1. "B_DIRTY" \in flags'[at[p]] \cap {"B_VALID", "B_DIRTY"} /\ "B_DIRTY" \notin {"B_VALID"}
    BY <1>10, Zenon
  <2> QED BY <1>1, <2>1, Zenon DEF InSync
<1>12. OneBufPerSector' /\ OnlyNoBuffers'
  BY <1>1, Zenon DEF Books, OneBufPerSector, OnlyNoBuffers
<1>13. ASSUME NEW c \in Buf PROVE BufOK(c)'
  <2>1. CASE c = at[p]
    BY <1>1, <1>3, <1>10, <2>1, BioAssumption, Zenon DEF BufOK
  <2>2. CASE c # at[p]
    BY <1>1, <1>7, <2>2, Zenon DEF Books, BufOK
  <2> QED BY <2>1, <2>2, Zenon
<1>14. ASSUME NEW q \in Proc PROVE ProcOK(q)'
  <2>1. CASE q = p
    <3>1. l # "bsleep" /\ l # "rsleep" /\ l # "bget"
      BY Zenon
    <3> QED BY <1>1, <1>3, <1>4, <1>10, <1>11, <2>1, <3>1, Zenon DEF ProcOK
  <2>2. CASE q # p
    <3>1. ProcOK(q)
      BY Zenon DEF Books
    <3>2. pc[q] = "bsleep" => at[q] \in Buf /\ "B_BUSY" \in flags[at[q]]
      BY <3>1, Zenon DEF ProcOK
    <3>3. pc[q] = "bsleep" => "B_BUSY" \in flags'[at[q]]
      BY <1>7, <1>10, <3>2, Zenon
    <3>4. Holds(q) => flags'[at[q]] = flags[at[q]]
      BY <1>3, <1>7, <2>2, <3>1, Zenon DEF ProcOK
    <3> QED BY <1>1, <1>4, <2>2, <3>1, <3>3, <3>4, ProcKept, Zenon
  <2> QED BY <2>1, <2>2, Zenon
<1>15. \A q \in Proc : Holds(q)' <=> Holds(q)
  BY <1>4, Zenon DEF Holds
<1>16. Owners'
  <2>1. \A c \in Buf : "B_BUSY" \in flags'[c] => "B_BUSY" \in flags[c]
    BY <1>3, <1>7, Zenon
  <2> QED BY <1>1, <1>15, <2>1, OwnersKept, Zenon DEF Books
<1>17. ASSUME NEW q \in Proc PROVE Asks(q)' <=> Asks(q)
  <2>1. CASE q = p
    BY <1>4, <2>1, Zenon DEF Asks
  <2>2. CASE q # p
    <3>1. pc[q] \in {"rsleep", "rcheck"} => flags'[at'[q]] = flags[at[q]]
      BY <1>1, <1>3, <1>7, <2>2, Zenon DEF Holds, Books, ProcOK
    <3> QED BY <1>4, <2>2, <3>1, Zenon DEF Asks, InSync
  <2> QED BY <2>1, <2>2, Zenon
<1>18. Requests'
  BY <1>1, <1>17, RequestsKept, Zenon DEF Books
<1> QED BY <1>8, <1>12, <1>13, <1>14, <1>16, <1>18, Zenon DEF Books

(* wakeup() moves the sleepers of a buffer, and nobody else. *)
LEMMA WakeupAt ==
  ASSUME Books, NEW b
  PROVE  /\ Wakeup(b, pc) \in [Proc -> Location]
         /\ \A q \in Proc : at[q] = b /\ pc[q] = "bsleep" => Wakeup(b, pc)[q] = "bget"
         /\ \A q \in Proc : at[q] = b /\ pc[q] = "rsleep" => Wakeup(b, pc)[q] = "rcheck"
         /\ \A q \in Proc : at[q] # b \/ pc[q] \notin {"bsleep", "rsleep"} => Wakeup(b, pc)[q] = pc[q]
<1>1. pc \in [Proc -> Location]
  BY Zenon DEF Books, TypeOK
<1> QED BY <1>1 DEF Wakeup, Location

(* A sleeper of bget() looks for a sector. *)
LEMMA SleeperWants ==
  ASSUME Books, NEW q \in Proc, pc[q] = "bsleep"
  PROVE  want[q] \in Sector
<1>1. at[q] \in Buf /\ flags[at[q]] # {} /\ sector[at[q]] = want[q]
  BY Zenon DEF Books, ProcOK
<1>2. sector[at[q]] \in Sector \cup {NoSector} /\ sector[at[q]] # NoSector
  BY <1>1, Zenon DEF Books, TypeOK, BufOK
<1> QED BY <1>1, <1>2, Zenon

LEMMA IdeintrStep ==
  ASSUME Books, NEW err \in ReadErrors, Ideintr(err)
  PROVE  Books'
<1> DEFINE b == Head(queue)
<1>1. /\ ~panicked /\ drv = "done" /\ queue' = Tail(queue) /\ drv' = StartNext(Tail(queue))
      /\ flags' = [flags EXCEPT ![b] = Transferred(b)] /\ pc' = Wakeup(b, pc)
      /\ place' = place /\ sector' = sector /\ disk' = disk /\ want' = want /\ at' = at
      /\ panicked' = panicked
  BY Zenon DEF Ideintr
<1>2. /\ queue # <<>> /\ b \in Buf /\ "B_BUSY" \in flags[b] /\ sector[b] \in Sector
      /\ \A q \in Proc : Holds(q) /\ at[q] = b => pc[q] \in {"rsleep", "rcheck"}
  BY <1>1, HeadBuffer, Zenon
<1>3. /\ flags \in [Buf -> SUBSET Flag] /\ data \in [Buf -> Data] /\ disk \in [Sector -> Data]
      /\ queue \in Seq(Buf)
  BY Zenon DEF Books, TypeOK
<1>4. /\ flags'[b] = Transferred(b) /\ \A c \in Buf : c # b => flags'[c] = flags[c]
      /\ flags' \in [Buf -> SUBSET Flag]
  BY <1>1, <1>2, <1>3 DEF Transferred, Flag
<1>5. /\ "B_BUSY" \in flags'[b] /\ "B_VALID" \in flags'[b] /\ "B_DIRTY" \notin flags'[b]
  BY <1>2, <1>4 DEF Transferred
<1>6. flags'[b] \cap {"B_VALID", "B_DIRTY"} = {"B_VALID"}
  BY <1>5
<1>7. data' \in [Buf -> Data]
  BY <1>2, <1>3 DEF Ideintr
<1>8. /\ pc' \in [Proc -> Location]
      /\ \A q \in Proc : at[q] = b /\ pc[q] = "bsleep" => pc'[q] = "bget"
      /\ \A q \in Proc : at[q] = b /\ pc[q] = "rsleep" => pc'[q] = "rcheck"
      /\ \A q \in Proc : at[q] # b \/ pc[q] \notin {"bsleep", "rsleep"} => pc'[q] = pc[q]
  BY <1>1, WakeupAt, Zenon
<1>9. \A i, j \in 1 .. Len(queue) : queue[i] = queue[j] => i = j
  BY Zenon DEF Books, Requests
<1>10. /\ queue' \in Seq(Buf)
       /\ \A c \in Buf : OnQueue(c)' <=> OnQueue(c) /\ c # b
       /\ \A i, j \in 1 .. Len(queue') : queue'[i] = queue'[j] => i = j
  BY <1>1, <1>2, <1>3, <1>9, Dequeue, Zenon
<1>11. drv' \in {"idle", "working", "done"} /\ (drv' = "idle" <=> queue' = <<>>)
  BY <1>1, Zenon DEF StartNext
<1>12. TypeOK'
  BY <1>1, <1>4, <1>7, <1>8, <1>10, <1>11, Zenon DEF Books, TypeOK
<1>13. OneBufPerSector' /\ OnlyNoBuffers'
  BY <1>1, Zenon DEF Books, OneBufPerSector, OnlyNoBuffers
<1>14. ASSUME NEW c \in Buf PROVE BufOK(c)'
  <2>1. CASE c = b
    BY <1>1, <1>2, <1>5, <2>1, BioAssumption, Zenon DEF BufOK
  <2>2. CASE c # b
    BY <1>1, <1>4, <2>2, Zenon DEF Books, BufOK
  <2> QED BY <2>1, <2>2, Zenon
<1>15. ASSUME NEW q \in Proc PROVE ProcOK(q)'
  <2>1. ProcOK(q)
    BY Zenon DEF Books
  <2>2. CASE at[q] = b
    <3>1. CASE pc[q] = "bsleep"
      BY <1>1, <1>8, <2>2, <3>1, SleeperWants, Zenon DEF ProcOK, Holds
    <3>2. CASE Holds(q)
      <4>1. pc'[q] = "rcheck"
        BY <1>2, <1>8, <2>2, <3>2, Zenon
      <4> QED BY <1>1, <1>2, <1>5, <2>2, <4>1, Zenon DEF ProcOK
    <3>3. CASE pc[q] # "bsleep" /\ ~Holds(q)
      <4>1. pc'[q] = pc[q]
        BY <1>8, <3>3, Zenon DEF Holds
      <4> QED BY <1>1, <2>1, <3>3, <4>1, ProcKept, Zenon
    <3> QED BY <3>1, <3>2, <3>3, Zenon
  <2>3. CASE at[q] # b
    <3>1. (Holds(q) \/ pc[q] = "bsleep") => at[q] \in Buf
      BY <2>1, Zenon DEF ProcOK
    <3>2. (Holds(q) \/ pc[q] = "bsleep") => flags'[at[q]] = flags[at[q]]
      BY <1>4, <2>3, <3>1, Zenon
    <3>3. pc[q] = "bsleep" => "B_BUSY" \in flags[at[q]]
      BY <2>1, Zenon DEF ProcOK
    <3> QED BY <1>1, <1>8, <2>1, <2>3, <3>2, <3>3, ProcKept, Zenon
  <2> QED BY <2>2, <2>3, Zenon
<1>16. \A q \in Proc : Holds(q)' <=> Holds(q)
  BY <1>8, Zenon DEF Holds
<1>17. Owners'
  <2>1. \A c \in Buf : "B_BUSY" \in flags'[c] => "B_BUSY" \in flags[c]
    BY <1>2, <1>4, Zenon
  <2> QED BY <1>1, <1>16, <2>1, OwnersKept, Zenon DEF Books
<1>18. ASSUME NEW q \in Proc PROVE Asks(q)' <=> Asks(q) /\ at[q] # b
  <2>1. CASE at[q] = b
    BY <1>1, <1>6, <2>1, Zenon DEF Asks, InSync
  <2>2. CASE at[q] # b
    <3>1. pc'[q] = pc[q]
      BY <1>8, <2>2, Zenon
    <3>2. pc[q] \in {"rsleep", "rcheck"} => flags'[at'[q]] = flags[at[q]]
      BY <1>1, <1>4, <2>2, Zenon DEF Holds, Books, ProcOK
    <3> QED BY <2>2, <3>1, <3>2, Zenon DEF Asks, InSync
  <2> QED BY <2>1, <2>2, Zenon
<1>19. Requests'
  <2>1. \A c \in Buf : OnQueue(c) <=> \E q \in Proc : Asks(q) /\ at[q] = c
    BY WaitingIs, Zenon DEF Books, Requests
  <2>2. \A c \in Buf : OnQueue(c)' <=> \E q \in Proc : Asks(q)' /\ at'[q] = c
    BY <1>1, <1>10, <1>18, <2>1, Zenon
  <2>3. \A c \in Buf : Waiting(c)' <=> \E q \in Proc : Asks(q)' /\ at'[q] = c
    BY Zenon DEF Waiting, Asks
  <2>4. \A c \in Buf : OnQueue(c)' <=> Waiting(c)'
    BY <2>2, <2>3, Zenon
  <2> QED BY <1>10, <1>11, <2>4, Zenon DEF Requests
<1> QED BY <1>12, <1>13, <1>14, <1>15, <1>17, <1>19, Zenon DEF Books

LEMMA BrelseStep ==
  ASSUME Books, NEW p \in Proc, Brelse(p), Cardinality(Buf) \in Nat
  PROVE  Books'
<1>1. /\ pc[p] = "have" /\ ~panicked /\ place' = MoveToFront(at[p])
      /\ sector' = sector /\ data' = data /\ queue' = queue /\ disk' = disk /\ drv' = drv
      /\ want' = want /\ panicked' = panicked
  BY Zenon DEF Brelse, drive
<1>2. /\ pc \in [Proc -> Location] /\ flags \in [Buf -> SUBSET Flag]
      /\ at \in [Proc -> Buf \cup {NoBuf}] /\ place \in [Buf -> 1 .. Cardinality(Buf)]
  BY Zenon DEF Books, TypeOK
<1>3. /\ at[p] \in Buf /\ "B_BUSY" \in flags[at[p]] /\ sector[at[p]] \in Sector
      /\ \A q \in Proc : Holds(q) /\ q # p => at[q] # at[p]
  BY <1>1, HeldBuffer, Zenon
<1>4. "B_VALID" \in flags[at[p]]
  BY <1>1, Zenon DEF Books, ProcOK
<1>5. place' \in [Buf -> 1 .. Cardinality(Buf)]
  BY <1>1, <1>2, <1>3 DEF MoveToFront
<1>6. at'[p] = NoBuf /\ \A q \in Proc : q # p => at'[q] = at[q]
  BY <1>2, FunAt, Zenon DEF Brelse
<1>7. at' \in [Proc -> Buf \cup {NoBuf}]
  BY <1>2, FunType, Zenon DEF Brelse
<1>8. /\ flags'[at[p]] = flags[at[p]] \ {"B_BUSY"}
      /\ \A c \in Buf : c # at[p] => flags'[c] = flags[c]
      /\ flags' \in [Buf -> SUBSET Flag]
  BY <1>2, <1>3 DEF Brelse
<1>9. "B_VALID" \in flags'[at[p]] /\ "B_BUSY" \notin flags'[at[p]]
  BY <1>4, <1>8, Zenon
<1>10. /\ pc' \in [Proc -> Location] /\ pc'[p] = "idle"
       /\ \A q \in Proc : q # p => pc'[q] = Wakeup(at[p], pc)[q]
  <2>1. Wakeup(at[p], pc) \in [Proc -> Location] /\ "idle" \in Location
    BY WakeupAt, Zenon DEF Location
  <2> QED BY <2>1, FunAt, FunType, Zenon DEF Brelse
<1>11. /\ \A q \in Proc : q # p /\ at[q] = at[p] /\ pc[q] = "bsleep" => pc'[q] = "bget"
       /\ \A q \in Proc : q # p /\ (at[q] # at[p] \/ pc[q] # "bsleep") => pc'[q] = pc[q]
  <2>1. \A q \in Proc : q # p /\ pc[q] = "rsleep" => at[q] # at[p]
    BY <1>3, Zenon DEF Holds
  <2>2. /\ \A q \in Proc : at[q] = at[p] /\ pc[q] = "bsleep" => Wakeup(at[p], pc)[q] = "bget"
        /\ \A q \in Proc : at[q] # at[p] \/ pc[q] \notin {"bsleep", "rsleep"} => Wakeup(at[p], pc)[q] = pc[q]
    BY WakeupAt, Zenon
  <2>3. ASSUME NEW q \in Proc, q # p, at[q] # at[p] \/ pc[q] # "bsleep" PROVE pc'[q] = pc[q]
    <3>1. at[q] # at[p] \/ pc[q] \notin {"bsleep", "rsleep"}
      BY <2>1, <2>3, Zenon
    <3> QED BY <1>10, <2>2, <2>3, <3>1, Zenon
  <2> QED BY <1>10, <2>2, <2>3, Zenon
<1>12. TypeOK'
  BY <1>1, <1>5, <1>7, <1>8, <1>10, Zenon DEF Books, TypeOK
<1>13. OneBufPerSector' /\ OnlyNoBuffers'
  BY <1>1, Zenon DEF Books, OneBufPerSector, OnlyNoBuffers
<1>14. ASSUME NEW c \in Buf PROVE BufOK(c)'
  <2>1. CASE c = at[p]
    BY <1>1, <1>3, <1>9, <2>1, BioAssumption, Zenon DEF BufOK
  <2>2. CASE c # at[p]
    BY <1>1, <1>8, <2>2, Zenon DEF Books, BufOK
  <2> QED BY <2>1, <2>2, Zenon
<1>15. ASSUME NEW q \in Proc PROVE ProcOK(q)'
  <2>1. CASE q = p
    BY <1>10, <2>1, Zenon DEF ProcOK, Holds
  <2>2. CASE q # p /\ pc[q] = "bsleep" /\ at[q] = at[p]
    BY <1>1, <1>11, <2>2, SleeperWants, Zenon DEF ProcOK, Holds
  <2>3. CASE q # p /\ (at[q] # at[p] \/ pc[q] # "bsleep")
    <3>1. ProcOK(q) /\ pc'[q] = pc[q] /\ at'[q] = at[q]
      BY <1>6, <1>11, <2>3, Zenon DEF Books
    <3>2. Holds(q) => at[q] # at[p]
      BY <1>3, <2>3, Zenon
    <3>3. (Holds(q) \/ pc[q] = "bsleep") => at[q] \in Buf
      BY <3>1, Zenon DEF ProcOK
    <3>4. (Holds(q) \/ pc[q] = "bsleep") => flags'[at[q]] = flags[at[q]]
      BY <1>8, <2>3, <3>2, <3>3, Zenon
    <3>5. pc[q] = "bsleep" => "B_BUSY" \in flags[at[q]]
      BY <3>1, Zenon DEF ProcOK
    <3> QED BY <1>1, <3>1, <3>4, <3>5, ProcKept, Zenon
  <2> QED BY <2>1, <2>2, <2>3, Zenon
<1>16. ~Holds(p)' /\ ~Asks(p)' /\ ~Asks(p)
  BY <1>1, <1>10, Zenon DEF Holds, Asks
<1>17. \A q \in Proc : q # p => (Holds(q)' <=> Holds(q))
  BY <1>11, Zenon DEF Holds
<1>18. Owners'
  <2>1. \A q, r \in Proc : Holds(q)' /\ Holds(r)' /\ at'[q] = at'[r] => q = r
    <3>1. \A q, r \in Proc : Holds(q) /\ Holds(r) /\ at[q] = at[r] => q = r
      BY Zenon DEF Books, Owners
    <3>2. \A q \in Proc : Holds(q)' => Holds(q) /\ at'[q] = at[q]
      BY <1>6, <1>16, <1>17, Zenon
    <3> QED BY <3>1, <3>2, Zenon
  <2>2. ASSUME NEW c \in Buf, "B_BUSY" \in flags'[c] PROVE \E q \in Proc : Holds(q)' /\ at'[q] = c
    <3>1. c # at[p] /\ "B_BUSY" \in flags[c]
      BY <1>8, <1>9, <2>2, Zenon
    <3>2. PICK q \in Proc : Holds(q) /\ at[q] = c
      BY <3>1, Zenon DEF Books, Owners
    <3> QED BY <1>6, <1>17, <3>1, <3>2, Zenon
  <2> QED BY <2>1, <2>2, Zenon DEF Owners
<1>19. ASSUME NEW q \in Proc PROVE (Asks(q)' <=> Asks(q)) /\ (Asks(q) => at'[q] = at[q])
  <2>1. CASE q = p
    BY <1>16, <2>1, Zenon
  <2>2. CASE q # p
    <3>1. pc[q] \in {"rsleep", "rcheck"} => flags'[at'[q]] = flags[at[q]]
      BY <1>3, <1>6, <1>8, <2>2, Zenon DEF Holds, Books, ProcOK
    <3>2. pc'[q] \in {"rsleep", "rcheck"} <=> pc[q] \in {"rsleep", "rcheck"}
      BY <1>11, <2>2, Zenon
    <3> QED BY <1>6, <2>2, <3>1, <3>2, Zenon DEF Asks, InSync
  <2> QED BY <2>1, <2>2, Zenon
<1>20. Requests'
  BY <1>1, <1>19, RequestsKept, Zenon DEF Books
<1> QED BY <1>12, <1>13, <1>14, <1>15, <1>18, <1>20, Zenon DEF Books

-----------------------------------------------------------------------------
LEMMA InitBooks == Init => Books
<1>1. SUFFICES ASSUME Init PROVE Books
  OBVIOUS
<1>2. TypeOK
  <2>1. /\ sector \in [Buf -> Sector \cup {NoSector}] /\ flags \in [Buf -> SUBSET Flag]
        /\ pc \in [Proc -> Location] /\ want \in [Proc -> Sector \cup {NoSector}]
        /\ at \in [Proc -> Buf \cup {NoBuf}]
    BY <1>1 DEF Init, Location
  <2>2. queue \in Seq(Buf)
    BY <1>1 DEF Init
  <2>3. drv \in {"idle", "working", "done"} /\ panicked \in BOOLEAN
    BY <1>1, Zenon DEF Init
  <2>4. place \in [Buf -> 1 .. Cardinality(Buf)] /\ data \in [Buf -> Data] /\ disk \in [Sector -> Data]
    BY <1>1, Zenon DEF Init
  <2> QED BY <2>1, <2>2, <2>3, <2>4, Zenon DEF TypeOK
<1>3. \A b \in Buf : flags[b] = {} /\ sector[b] = NoSector
  BY <1>1 DEF Init
<1>4. \A p \in Proc : pc[p] = "idle"
  BY <1>1 DEF Init
<1>5. \A p \in Proc : ~Holds(p) /\ ~Asks(p) /\ ProcOK(p)
  BY <1>4, Zenon DEF Holds, Asks, ProcOK
<1>6. OneBufPerSector /\ OnlyNoBuffers /\ Owners /\ \A b \in Buf : BufOK(b)
  BY <1>1, <1>3, <1>5, Zenon DEF OneBufPerSector, OnlyNoBuffers, Owners, BufOK, Init
<1>7. Len(queue) = 0 /\ queue = <<>> /\ drv = "idle"
  BY <1>1 DEF Init
<1>8. \A i \in 1 .. Len(queue) : FALSE
  BY <1>7
<1>9. Requests
  BY <1>5, <1>7, <1>8, WaitingIs, Zenon DEF Requests, OnQueue
<1> QED BY <1>2, <1>5, <1>6, <1>9, Zenon DEF Books

LEMMA StutterBooks ==
  ASSUME Books, UNCHANGED vars
  PROVE  Books'
<1>1. /\ place' = place /\ sector' = sector /\ flags' = flags /\ data' = data /\ queue' = queue
      /\ disk' = disk /\ drv' = drv /\ pc' = pc /\ want' = want /\ at' = at /\ panicked' = panicked
  BY Zenon DEF vars
<1>2. TypeOK' /\ OneBufPerSector' /\ OnlyNoBuffers'
  BY <1>1, Zenon DEF Books, TypeOK, OneBufPerSector, OnlyNoBuffers, Recyclable
<1>3. \A b \in Buf : BufOK(b)'
  BY <1>1, Zenon DEF Books, BufOK
<1>4. \A q \in Proc : (Holds(q)' <=> Holds(q)) /\ (Asks(q)' <=> Asks(q))
  BY <1>1, Zenon DEF Holds, Asks, InSync
<1>5. \A q \in Proc : ProcOK(q)'
  BY <1>1, Zenon DEF Books, ProcOK, Holds, InSync
<1>6. Owners' /\ Requests'
  BY <1>1, <1>4, OwnersKept, RequestsKept, Zenon DEF Books
<1> QED BY <1>2, <1>3, <1>5, <1>6, Zenon DEF Books

LEMMA NextBooks ==
  ASSUME Books, [Next]_vars, Cardinality(Buf) \in Nat
  PROVE  Books'
<1>1. ASSUME NEW p \in Proc, Step(p) PROVE Books'
  <2>1. ASSUME Bget(p) PROVE Books'
    <3>1. PICK s \in Sector : \/ \E b \in Buf : BgetHit(p, s, b) \/ BgetSleep(p, s, b) \/ BgetRecycle(p, s, b)
                              \/ BgetPanic(p, s)
      BY <2>1, Zenon DEF Bget
    <3> QED BY <3>1, BgetHitStep, BgetSleepStep, BgetRecycleStep, BgetPanicStep, Zenon
  <2>2. ASSUME Bwrite(p) PROVE Books'
    <3>1. "rw" \in {"rw", "have"}
      BY Zenon
    <3> QED BY <2>2, <3>1, MarkStep, Zenon DEF Bwrite
  <2>3. ASSUME LogWrite(p) PROVE Books'
    <3>1. "have" \in {"rw", "have"} /\ "changed" \in {"have", "changed"}
      BY Zenon
    <3> QED BY <2>3, <3>1, MarkStep, Zenon DEF LogWrite
  <2> QED BY <1>1, <2>1, <2>2, <2>3, IderwStep, IderwCheckStep, BrelseStep, ChangeStep, Zenon DEF Step
<1>2. ASSUME Device PROVE Books'
  BY <1>2, DriveDoneStep, IdeintrStep, Zenon DEF Device
<1>3. ASSUME UNCHANGED vars PROVE Books'
  BY <1>3, StutterBooks, Zenon
<1> QED BY <1>1, <1>2, <1>3, KillStep, Zenon DEF Next, Spin

-----------------------------------------------------------------------------
(* Coherent, for one buffer ... *)
Changing(b) == \E p \in Proc : pc[p] = "changed" /\ at[p] = b

CleanOK(b) ==
  "B_VALID" \in flags[b] /\ "B_DIRTY" \notin flags[b] /\ ~Changing(b) => data[b] = disk[sector[b]]

(* ... and for the write that the drive has done *)
Written ==
  drv = "done" /\ "B_DIRTY" \in flags[Head(queue)] => disk[sector[Head(queue)]] = data[Head(queue)]

LEMMA CoherentIs == Coherent <=> Written /\ \A b \in Buf : CleanOK(b)
BY Zenon DEF Coherent, CleanOK, Changing, Written

LEMMA CoherentNext == Coherent' <=> Written' /\ \A b \in Buf : CleanOK(b)'
BY Zenon DEF Coherent, CleanOK, Changing, Written

LEMMA InitCoherent == Init => Coherent
<1>1. SUFFICES ASSUME Init PROVE Written /\ \A b \in Buf : CleanOK(b)
  BY CoherentIs, Zenon
<1>2. drv # "done" /\ \A b \in Buf : flags[b] = {}
  BY <1>1 DEF Init
<1> QED BY <1>2, Zenon DEF Written, CleanOK

(* A buffer that the step neither reads, writes nor recycles stays coherent. *)
LEMMA CleanKept ==
  ASSUME NEW b \in Buf, CleanOK(b), sector'[b] = sector[b], data'[b] = data[b],
         disk'[sector[b]] = disk[sector[b]],
         flags'[b] \cap {"B_VALID", "B_DIRTY"} = flags[b] \cap {"B_VALID", "B_DIRTY"},
         Changing(b) => Changing(b)'
  PROVE  CleanOK(b)'
<1>1. ("B_VALID" \in flags'[b] <=> "B_VALID" \in flags[b]) /\ ("B_DIRTY" \in flags'[b] <=> "B_DIRTY" \in flags[b])
  BY Zenon
<1> QED BY <1>1, Zenon DEF CleanOK

(* What the abstract store sees: the contents of a sector ... *)
CurrentIs(s) ==
  /\ \A b \in Buf : sector[b] = s /\ "B_VALID" \in flags[b] => Current[s] = data[b]
  /\ (\A b \in Buf : sector[b] = s => "B_VALID" \notin flags[b]) => Current[s] = disk[s]

CurrentExact == \A s \in Sector : CurrentIs(s)

LEMMA CurrentAt == Books => CurrentExact
<1> SUFFICES ASSUME Books, NEW s \in Sector PROVE CurrentIs(s)
  BY Zenon DEF CurrentExact
<1> DEFINE P(b) == sector[b] = s /\ "B_VALID" \in flags[b]
<1>1. Current[s] = IF \E b \in Buf : P(b) THEN data[CHOOSE b \in Buf : P(b)] ELSE disk[s]
  BY Zenon DEF Current
<1>2. \A b, c \in Buf : P(b) /\ P(c) => b = c
  BY BioAssumption, Zenon DEF Books, OneBufPerSector
<1>3. ASSUME NEW b \in Buf, P(b) PROVE Current[s] = data[b]
  <2>1. (CHOOSE c \in Buf : P(c)) \in Buf /\ P(CHOOSE c \in Buf : P(c))
    BY <1>3, Zenon
  <2>2. (CHOOSE c \in Buf : P(c)) = b
    BY <1>2, <1>3, <2>1, Zenon
  <2> QED BY <1>1, <1>3, <2>2, Zenon
<1> QED BY <1>1, <1>3, Zenon DEF CurrentIs

LEMMA CurrentAtNext == Books' => CurrentExact'
BY CurrentAt, PTL

(* ... and who has it *)
HolderIs(s) ==
  /\ \A p \in Proc : Holds(p) /\ sector[at[p]] = s => Holder[s] = p
  /\ (\A p \in Proc : Holds(p) => sector[at[p]] # s) => Holder[s] = NoProc

HolderExact == \A s \in Sector : HolderIs(s)

LEMMA HolderAt == Books => HolderExact
<1> SUFFICES ASSUME Books, NEW s \in Sector PROVE HolderIs(s)
  BY Zenon DEF HolderExact
<1> DEFINE P(p) == Holds(p) /\ sector[at[p]] = s
<1>1. Holder[s] = IF \E p \in Proc : P(p) THEN CHOOSE p \in Proc : P(p) ELSE NoProc
  BY Zenon DEF Holder
<1>2. \A p, q \in Proc : P(p) /\ P(q) => p = q
  <2>1. \A p \in Proc : P(p) => at[p] \in Buf
    BY Zenon DEF Books, ProcOK
  <2>2. \A p, q \in Proc : P(p) /\ P(q) => at[p] = at[q]
    BY <2>1, BioAssumption, Zenon DEF Books, OneBufPerSector
  <2> QED BY <2>2, Zenon DEF Books, Owners
<1>3. ASSUME NEW p \in Proc, P(p) PROVE Holder[s] = p
  <2>1. (CHOOSE q \in Proc : P(q)) \in Proc /\ P(CHOOSE q \in Proc : P(q))
    BY <1>3, Zenon
  <2> QED BY <1>1, <1>2, <1>3, <2>1, Zenon
<1> QED BY <1>1, <1>3, Zenon DEF HolderIs

LEMMA HolderAtNext == Books' => HolderExact'
BY HolderAt, PTL

(* Two states with the same contents, and with the same holders *)
LEMMA SameCurrent ==
  ASSUME \A s \in Sector : Current'[s] = Current[s]
  PROVE  Current' = Current
<1>1. Current = [s \in Sector |-> Current[s]] /\ Current' = [s \in Sector |-> Current'[s]]
  BY Zenon DEF Current
<1> QED BY <1>1, Zenon

LEMMA SameHolder ==
  ASSUME \A s \in Sector : Holder'[s] = Holder[s]
  PROVE  Holder' = Holder
<1>1. Holder = [s \in Sector |-> Holder[s]] /\ Holder' = [s \in Sector |-> Holder'[s]]
  BY Zenon DEF Holder
<1> QED BY <1>1, Zenon

LEMMA CurrentKept ==
  ASSUME Books, Books', data' = data, disk' = disk, sector' = sector,
         \A b \in Buf : "B_VALID" \in flags'[b] <=> "B_VALID" \in flags[b]
  PROVE  Current' = Current
<1>1. ASSUME NEW s \in Sector PROVE Current'[s] = Current[s]
  <2>1. CurrentIs(s) /\ CurrentIs(s)'
    BY CurrentAt, CurrentAtNext, Zenon DEF CurrentExact
  <2>2. ASSUME NEW b \in Buf, sector[b] = s, "B_VALID" \in flags[b] PROVE Current'[s] = Current[s]
    <3>1. Current[s] = data[b] /\ Current'[s] = data'[b]
      BY <2>1, <2>2, Zenon DEF CurrentIs
    <3> QED BY <3>1, Zenon
  <2>3. ASSUME \A b \in Buf : sector[b] = s => "B_VALID" \notin flags[b] PROVE Current'[s] = Current[s]
    <3>1. Current[s] = disk[s] /\ Current'[s] = disk'[s]
      BY <2>1, <2>3, Zenon DEF CurrentIs
    <3> QED BY <3>1, Zenon
  <2> QED BY <2>2, <2>3, Zenon
<1> QED BY <1>1, SameCurrent, Zenon

LEMMA HolderKept ==
  ASSUME Books, Books', sector' = sector,
         \A q \in Proc : (Holds(q)' <=> Holds(q)) /\ (Holds(q) => at'[q] = at[q])
  PROVE  Holder' = Holder
<1>1. ASSUME NEW s \in Sector PROVE Holder'[s] = Holder[s]
  <2>1. HolderIs(s) /\ HolderIs(s)'
    BY HolderAt, HolderAtNext, Zenon DEF HolderExact
  <2> QED BY <2>1, Zenon DEF HolderIs
<1> QED BY <1>1, SameHolder, Zenon

LEMMA CurrentSet ==
  ASSUME NEW s \in Sector, NEW v, Current'[s] = v, \A t \in Sector : t # s => Current'[t] = Current[t]
  PROVE  Current' = [Current EXCEPT ![s] = v]
<1>1. DOMAIN Current = Sector /\ Current = [t \in Sector |-> Current[t]]
  BY Zenon DEF Current
<1>2. Current' = [t \in Sector |-> Current'[t]]
  BY Zenon DEF Current
<1>3. \A t \in Sector : Current'[t] = [Current EXCEPT ![s] = v][t]
  BY <1>1
<1>4. [Current EXCEPT ![s] = v] = [t \in Sector |-> [Current EXCEPT ![s] = v][t]]
  BY <1>1
<1> QED BY <1>2, <1>3, <1>4, Zenon

LEMMA HolderSet ==
  ASSUME NEW s \in Sector, NEW v, Holder'[s] = v, \A t \in Sector : t # s => Holder'[t] = Holder[t]
  PROVE  Holder' = [Holder EXCEPT ![s] = v]
<1>1. DOMAIN Holder = Sector /\ Holder = [t \in Sector |-> Holder[t]]
  BY Zenon DEF Holder
<1>2. Holder' = [t \in Sector |-> Holder'[t]]
  BY Zenon DEF Holder
<1>3. \A t \in Sector : Holder'[t] = [Holder EXCEPT ![s] = v][t]
  BY <1>1
<1>4. [Holder EXCEPT ![s] = v] = [t \in Sector |-> [Holder EXCEPT ![s] = v][t]]
  BY <1>1
<1> QED BY <1>2, <1>3, <1>4, Zenon

LEMMA HolderTaken ==
  ASSUME Books, Books', NEW p \in Proc, NEW s \in Sector, ~Holds(p), Holds(p)', sector'[at'[p]] = s,
         \A q \in Proc : q # p => (Holds(q)' <=> Holds(q)),
         \A q \in Proc : q # p /\ Holds(q) => sector'[at'[q]] = sector[at[q]] /\ sector[at[q]] # s
  PROVE  Holder[s] = NoProc /\ Holder' = [Holder EXCEPT ![s] = p]
<1>1. \A t \in Sector : HolderIs(t) /\ HolderIs(t)'
  BY HolderAt, HolderAtNext, Zenon DEF HolderExact
<1>2. Holder[s] = NoProc
  <2>1. \A q \in Proc : Holds(q) => sector[at[q]] # s
    BY Zenon
  <2> QED BY <1>1, <2>1, Zenon DEF HolderIs
<1>3. Holder'[s] = p
  BY <1>1, Zenon DEF HolderIs
<1>4. ASSUME NEW t \in Sector, t # s PROVE Holder'[t] = Holder[t]
  <2>1. ASSUME NEW q \in Proc, Holds(q), sector[at[q]] = t PROVE Holder'[t] = Holder[t]
    <3>1. q # p /\ Holds(q)' /\ sector'[at'[q]] = t
      BY <2>1, Zenon
    <3> QED BY <1>1, <2>1, <3>1, Zenon DEF HolderIs
  <2>2. ASSUME \A q \in Proc : Holds(q) => sector[at[q]] # t PROVE Holder'[t] = Holder[t]
    <3>1. \A q \in Proc : Holds(q)' => sector'[at'[q]] # t
      BY <1>4, <2>2, Zenon
    <3>2. Holder[t] = NoProc
      BY <1>1, <2>2, Zenon DEF HolderIs
    <3>3. Holder'[t] = NoProc
      BY <1>1, <3>1, Zenon DEF HolderIs
    <3> QED BY <3>2, <3>3, Zenon
  <2> QED BY <2>1, <2>2, Zenon
<1> QED BY <1>2, <1>3, <1>4, HolderSet, Zenon

LEMMA HolderFreed ==
  ASSUME Books, Books', NEW p \in Proc, NEW s \in Sector, Holds(p), ~Holds(p)', sector' = sector,
         sector[at[p]] = s,
         \A q \in Proc : q # p => (Holds(q)' <=> Holds(q)) /\ at'[q] = at[q]
  PROVE  Holder[s] = p /\ Holder' = [Holder EXCEPT ![s] = NoProc]
<1>1. \A t \in Sector : HolderIs(t) /\ HolderIs(t)'
  BY HolderAt, HolderAtNext, Zenon DEF HolderExact
<1>2. Holder[s] = p
  BY <1>1, Zenon DEF HolderIs
<1>3. ASSUME NEW q \in Proc, Holds(q), sector[at[q]] = s PROVE q = p
  <2>1. Holder[s] = q
    BY <1>1, <1>3, Zenon DEF HolderIs
  <2> QED BY <1>2, <2>1, Zenon
<1>4. Holder'[s] = NoProc
  <2>1. \A q \in Proc : Holds(q)' => sector'[at'[q]] # s
    BY <1>3, Zenon
  <2> QED BY <1>1, <2>1, Zenon DEF HolderIs
<1>5. ASSUME NEW t \in Sector, t # s PROVE Holder'[t] = Holder[t]
  <2>1. ASSUME NEW q \in Proc, Holds(q), sector[at[q]] = t PROVE Holder'[t] = Holder[t]
    <3>1. q # p /\ Holds(q)' /\ sector'[at'[q]] = t
      BY <1>5, <2>1, Zenon
    <3> QED BY <1>1, <2>1, <3>1, Zenon DEF HolderIs
  <2>2. ASSUME \A q \in Proc : Holds(q) => sector[at[q]] # t PROVE Holder'[t] = Holder[t]
    <3>1. \A q \in Proc : Holds(q)' => sector'[at'[q]] # t
      BY <2>2, Zenon
    <3>2. Holder[t] = NoProc
      BY <1>1, <2>2, Zenon DEF HolderIs
    <3>3. Holder'[t] = NoProc
      BY <1>1, <3>1, Zenon DEF HolderIs
    <3> QED BY <3>2, <3>3, Zenon
  <2> QED BY <2>1, <2>2, Zenon
<1> QED BY <1>2, <1>4, <1>5, HolderSet, Zenon

(* A step that changes neither the contents of a buffer or of the disk nor   *)
(* the flags that say which of the two counts                               *)
LEMMA CoherentKept ==
  ASSUME Books, Coherent, data' = data, disk' = disk, sector' = sector,
         \A b \in Buf : /\ "B_VALID" \in flags'[b] <=> "B_VALID" \in flags[b]
                        /\ "B_DIRTY" \in flags'[b] <=> "B_DIRTY" \in flags[b]
                        /\ Changing(b) => Changing(b)',
         drv' = "done" => drv = "done" /\ Head(queue') = Head(queue)
  PROVE  Coherent'
<1>1. Written /\ \A b \in Buf : CleanOK(b)
  BY CoherentIs, Zenon
<1>2. \A b \in Buf : CleanOK(b)'
  BY <1>1, Zenon DEF CleanOK
<1>3. Written'
  <2>1. drv = "done" => Head(queue) \in Buf
    BY HeadBuffer, Zenon
  <2> QED BY <1>1, <2>1, Zenon DEF Written
<1> QED BY <1>2, <1>3, CoherentNext, Zenon

-----------------------------------------------------------------------------
(* One lemma per action: the contents stay coherent, and the abstract store  *)
(* stutters or takes one step.                                               *)
Idle == Current' = Current /\ Holder' = Holder

LEMMA BgetHitContents ==
  ASSUME Books, Coherent, Books', NEW p \in Proc, NEW s \in Sector, NEW b \in Buf, BgetHit(p, s, b)
  PROVE  Coherent' /\ BS!Acquire(p, s)
<1>1. /\ Enters(p, s) /\ sector[b] = s /\ "B_BUSY" \notin flags[b] /\ Take(p, s, b)
      /\ sector' = sector /\ data' = data /\ queue' = queue /\ disk' = disk /\ drv' = drv
  BY Zenon DEF BgetHit, drive
<1>2. /\ ~Holds(p) /\ at'[p] = b /\ pc'[p] \in {"have", "rw"}
      /\ \A q \in Proc : q # p => pc'[q] = pc[q] /\ at'[q] = at[q]
  BY <1>1, TakenFacts, Zenon
<1>3. flags \in [Buf -> SUBSET Flag]
  BY Zenon DEF Books, TypeOK
<1>4. /\ flags'[b] = flags[b] \cup {"B_BUSY"} /\ \A c \in Buf : c # b => flags'[c] = flags[c]
  BY <1>3 DEF BgetHit
<1>5. \A c \in Buf : /\ "B_VALID" \in flags'[c] <=> "B_VALID" \in flags[c]
                     /\ "B_DIRTY" \in flags'[c] <=> "B_DIRTY" \in flags[c]
  BY <1>4
<1>6. pc[p] # "changed"
  BY <1>2, Zenon DEF Holds
<1>7. \A c \in Buf : Changing(c) => Changing(c)'
  BY <1>2, <1>6, Zenon DEF Changing
<1>8. Coherent'
  BY <1>1, <1>5, <1>7, CoherentKept, Zenon
<1>9. Current' = Current
  BY <1>1, <1>5, CurrentKept, Zenon
<1>10. Holds(p)' /\ \A q \in Proc : q # p => (Holds(q)' <=> Holds(q))
  BY <1>2, Zenon DEF Holds
<1>11. \A q \in Proc : q # p /\ Holds(q) => sector'[at'[q]] = sector[at[q]] /\ sector[at[q]] # s
  <2>1. \A q \in Proc : Holds(q) => at[q] \in Buf /\ at[q] # b
    BY <1>1, FreeBuffer, Zenon DEF Books, ProcOK
  <2>2. \A c \in Buf : c # b => sector[c] # s
    BY <1>1, BioAssumption, Zenon DEF Books, OneBufPerSector
  <2> QED BY <1>1, <1>2, <2>1, <2>2, Zenon
<1>12. Holder[s] = NoProc /\ Holder' = [Holder EXCEPT ![s] = p]
  <2>1. sector'[at'[p]] = s
    BY <1>1, <1>2, Zenon
  <2> QED BY <1>2, <1>10, <1>11, <2>1, HolderTaken, Zenon
<1> QED BY <1>8, <1>9, <1>12, Zenon DEF BS!Acquire

LEMMA BgetRecycleContents ==
  ASSUME Books, Coherent, Books', NEW p \in Proc, NEW s \in Sector, NEW b \in Buf, BgetRecycle(p, s, b)
  PROVE  Coherent' /\ BS!Acquire(p, s)
<1>1. /\ Enters(p, s) /\ Uncached(p, s) /\ Recyclable(b) /\ Take(p, s, b)
      /\ data' = data /\ queue' = queue /\ disk' = disk /\ drv' = drv
  BY Zenon DEF BgetRecycle, drive
<1>2. /\ ~Holds(p) /\ at'[p] = b /\ pc'[p] \in {"have", "rw"}
      /\ \A q \in Proc : q # p => pc'[q] = pc[q] /\ at'[q] = at[q]
  BY <1>1, TakenFacts, Zenon
<1>3. flags \in [Buf -> SUBSET Flag] /\ sector \in [Buf -> Sector \cup {NoSector}]
  BY Zenon DEF Books, TypeOK
<1>4. /\ flags'[b] = {"B_BUSY"} /\ \A c \in Buf : c # b => flags'[c] = flags[c]
      /\ sector'[b] = s /\ \A c \in Buf : c # b => sector'[c] = sector[c]
  BY <1>3 DEF BgetRecycle, Recycled
<1>5. "B_VALID" \notin flags'[b]
  BY <1>4
<1>6. "B_BUSY" \notin flags[b] /\ "B_DIRTY" \notin flags[b]
  BY <1>1, Zenon DEF Recyclable
<1>7. /\ ~OnQueue(b) /\ \A q \in Proc : Holds(q) => at[q] # b
  BY <1>6, FreeBuffer, Zenon
<1>8. \A c \in Buf : sector[c] # s
  BY <1>1, Zenon DEF Uncached
<1>9. Written /\ \A c \in Buf : CleanOK(c)
  BY CoherentIs, Zenon
<1>10. \A q \in Proc : pc[q] = "changed" => q # p /\ Holds(q)
  BY <1>2, Zenon DEF Holds
<1>11. Coherent'
  <2>1. \A c \in Buf : Changing(c) => Changing(c)'
    BY <1>2, <1>10, Zenon DEF Changing
  <2>2. ASSUME NEW c \in Buf PROVE CleanOK(c)'
    <3>1. CASE c = b
      BY <1>5, <3>1, Zenon DEF CleanOK
    <3>2. CASE c # b
      BY <1>1, <1>4, <1>9, <2>1, <3>2, CleanKept, Zenon
    <3> QED BY <3>1, <3>2, Zenon
  <2>3. Written'
    <3>1. drv = "done" => Head(queue) \in Buf /\ Head(queue) # b
      BY <1>7, HeadBuffer, Zenon
    <3> QED BY <1>1, <1>4, <1>9, <3>1, Zenon DEF Written
  <2> QED BY <2>2, <2>3, CoherentNext, Zenon
<1>12. ASSUME NEW t \in Sector PROVE Current'[t] = Current[t]
  <2>1. CurrentIs(t) /\ CurrentIs(t)'
    BY CurrentAt, CurrentAtNext, Zenon DEF CurrentExact
  <2>2. ASSUME NEW c \in Buf, sector[c] = t, "B_VALID" \in flags[c], c # b PROVE Current'[t] = Current[t]
    <3>1. Current[t] = data[c] /\ Current'[t] = data'[c]
      BY <1>4, <2>1, <2>2, Zenon DEF CurrentIs
    <3> QED BY <1>1, <3>1, Zenon
  <2>3. ASSUME \A c \in Buf : c # b /\ sector[c] = t => "B_VALID" \notin flags[c]
        PROVE  Current'[t] = Current[t]
    <3>1. Current'[t] = disk[t]
      <4>1. \A c \in Buf : sector'[c] = t => "B_VALID" \notin flags'[c]
        BY <1>4, <1>5, <2>3, Zenon
      <4> QED BY <1>1, <2>1, <4>1, Zenon DEF CurrentIs
    <3>2. CASE sector[b] = t /\ "B_VALID" \in flags[b]
      (* The buffer that is recycled is clean: the disk has its contents. *)
      <4>1. ~Changing(b)
        BY <1>7, <1>10, Zenon DEF Changing
      <4>2. Current[t] = data[b] /\ data[b] = disk[t]
        BY <1>6, <1>9, <2>1, <3>2, <4>1, Zenon DEF CurrentIs, CleanOK
      <4> QED BY <3>1, <4>2, Zenon
    <3>3. CASE ~(sector[b] = t /\ "B_VALID" \in flags[b])
      <4>1. \A c \in Buf : sector[c] = t => "B_VALID" \notin flags[c]
        BY <2>3, <3>3, Zenon
      <4> QED BY <2>1, <3>1, <4>1, Zenon DEF CurrentIs
    <3> QED BY <3>2, <3>3, Zenon
  <2> QED BY <2>2, <2>3, Zenon
<1>13. Current' = Current
  BY <1>12, SameCurrent, Zenon
<1>14. Holds(p)' /\ \A q \in Proc : q # p => (Holds(q)' <=> Holds(q))
  BY <1>2, Zenon DEF Holds
<1>15. \A q \in Proc : q # p /\ Holds(q) => sector'[at'[q]] = sector[at[q]] /\ sector[at[q]] # s
  <2>1. \A q \in Proc : Holds(q) => at[q] \in Buf
    BY Zenon DEF Books, ProcOK
  <2> QED BY <1>2, <1>4, <1>7, <1>8, <2>1, Zenon
<1>16. Holder[s] = NoProc /\ Holder' = [Holder EXCEPT ![s] = p]
  <2>1. sector'[at'[p]] = s
    BY <1>2, <1>4, Zenon
  <2> QED BY <1>2, <1>14, <1>15, <2>1, HolderTaken, Zenon
<1> QED BY <1>11, <1>13, <1>16, Zenon DEF BS!Acquire

(* bget() that sleeps or panics, iderw(), its loop, and kill() *)
LEMMA PlainContents ==
  ASSUME Books, Coherent, Books', data' = data, disk' = disk, sector' = sector, flags' = flags,
         drv' = "done" => drv = "done" /\ Head(queue') = Head(queue),
         \A q \in Proc : (Holds(q)' <=> Holds(q)) /\ (Holds(q) => at'[q] = at[q]),
         \A q \in Proc : pc[q] = "changed" => pc'[q] = "changed"
  PROVE  Coherent' /\ Idle
<1>1. \A q \in Proc : pc[q] = "changed" => at'[q] = at[q]
  BY Zenon DEF Holds
<1>2. \A c \in Buf : Changing(c) => Changing(c)'
  BY <1>1, Zenon DEF Changing
<1>3. Coherent'
  BY <1>2, CoherentKept, Zenon
<1>4. Current' = Current
  BY CurrentKept, Zenon
<1>5. Holder' = Holder
  BY HolderKept, Zenon
<1> QED BY <1>3, <1>4, <1>5, Zenon DEF Idle

LEMMA PlainSteps ==
  ASSUME Books, Coherent, Books', NEW p \in Proc,
         \/ \E s \in Sector : BgetPanic(p, s) \/ \E b \in Buf : BgetSleep(p, s, b)
         \/ Iderw(p) \/ IderwCheck(p) \/ Kill(p)
  PROVE  Coherent' /\ Idle
<1>1. /\ pc \in [Proc -> Location] /\ at \in [Proc -> Buf \cup {NoBuf}]
  BY Zenon DEF Books, TypeOK
<1>2. ASSUME NEW s \in Sector, BgetPanic(p, s) PROVE Coherent' /\ Idle
  <2>1. /\ sector' = sector /\ flags' = flags /\ data' = data /\ queue' = queue /\ disk' = disk
        /\ drv' = drv /\ pc' = pc /\ at' = at
    BY <1>2, Zenon DEF BgetPanic, bufs, drive
  <2>2. \A q \in Proc : Holds(q)' <=> Holds(q)
    BY <2>1, Zenon DEF Holds
  <2> QED BY <2>1, <2>2, PlainContents, Zenon
<1>3. ASSUME NEW s \in Sector, NEW b \in Buf, BgetSleep(p, s, b) PROVE Coherent' /\ Idle
  <2>1. /\ sector' = sector /\ flags' = flags /\ data' = data /\ queue' = queue /\ disk' = disk
        /\ drv' = drv /\ pc[p] \in {"idle", "bget"}
    BY <1>3, Zenon DEF BgetSleep, Enters, bufs, drive
  <2>2. pc'[p] = "bsleep" /\ \A q \in Proc : q # p => pc'[q] = pc[q] /\ at'[q] = at[q]
    BY <1>1, <1>3, FunAt, Zenon DEF BgetSleep
  <2>3. ~Holds(p) /\ pc[p] # "changed" /\ \A q \in Proc : Holds(q)' <=> Holds(q)
    BY <2>1, <2>2, Zenon DEF Holds
  <2> QED BY <2>1, <2>2, <2>3, PlainContents, Zenon
<1>4. ASSUME Iderw(p) PROVE Coherent' /\ Idle
  <2>1. /\ sector' = sector /\ flags' = flags /\ data' = data /\ queue' = Append(queue, at[p])
        /\ disk' = disk /\ drv' = (IF queue = <<>> THEN "working" ELSE drv) /\ pc[p] = "rw" /\ at' = at
    BY <1>4, Zenon DEF Iderw, bufs
  <2>2. pc'[p] = "rsleep" /\ \A q \in Proc : q # p => pc'[q] = pc[q]
    BY <1>1, <1>4, FunAt, Zenon DEF Iderw
  <2>3. pc[p] # "changed" /\ \A q \in Proc : Holds(q)' <=> Holds(q)
    BY <2>1, <2>2, Zenon DEF Holds
  <2>4. drv' = "done" => drv = "done" /\ Head(queue') = Head(queue)
    <3>1. at[p] \in Buf /\ queue \in Seq(Buf)
      BY <2>1, HeldBuffer, Zenon DEF Books, TypeOK
    <3>2. queue # <<>> => Head(queue') = Head(queue)
      BY <2>1, <3>1
    <3> QED BY <2>1, <3>2, Zenon
  <2> QED BY <2>1, <2>2, <2>3, <2>4, PlainContents, Zenon
<1>5. ASSUME IderwCheck(p) \/ Kill(p) PROVE Coherent' /\ Idle
  <2>1. /\ sector' = sector /\ flags' = flags /\ data' = data /\ queue' = queue
        /\ disk' = disk /\ drv' = drv /\ at' = at
    BY <1>5, Zenon DEF IderwCheck, Kill, bufs, drive
  <2>2. /\ \/ pc[p] \in {"rsleep", "rcheck"} /\ pc'[p] \in {"have", "rsleep", "rcheck"}
           \/ pc[p] = "bsleep" /\ pc'[p] = "bget"
        /\ \A q \in Proc : q # p => pc'[q] = pc[q]
    BY <1>1, <1>5 DEF IderwCheck, Kill
  <2>3. pc[p] # "changed" /\ \A q \in Proc : Holds(q)' <=> Holds(q)
    BY <2>2, Zenon DEF Holds
  <2> QED BY <2>1, <2>2, <2>3, PlainContents, Zenon
<1> QED BY <1>2, <1>3, <1>4, <1>5, Zenon

LEMMA DriveDoneContents ==
  ASSUME Books, Coherent, Books', DriveDone
  PROVE  Coherent' /\ Idle
<1>1. /\ drv = "working" /\ drv' = "done"
      /\ sector' = sector /\ flags' = flags /\ data' = data /\ queue' = queue /\ pc' = pc /\ at' = at
  BY Zenon DEF DriveDone, bufs
<1>2. PICK b \in Buf : b = Head(queue)
  BY <1>1, HeadBuffer, Zenon
<1>3. sector[b] \in Sector
  BY <1>1, <1>2, HeadBuffer, Zenon
<1>4. disk \in [Sector -> Data]
  BY Zenon DEF Books, TypeOK
<1>5. /\ "B_DIRTY" \in flags[b] => disk'[sector[b]] = data[b]
      /\ "B_DIRTY" \notin flags[b] => disk' = disk
      /\ \A t \in Sector : t # sector[b] => disk'[t] = disk[t]
  BY <1>2, <1>3, <1>4 DEF DriveDone
<1>6. "B_DIRTY" \in flags[b] => "B_VALID" \in flags[b]
  BY Zenon DEF Books, BufOK
<1>7. \A c \in Buf : c # b => sector[c] # sector[b]
  BY <1>3, BioAssumption, Zenon DEF Books, OneBufPerSector
<1>8. Coherent'
  <2>1. \A c \in Buf : Changing(c)' <=> Changing(c)
    BY <1>1, Zenon DEF Changing
  <2>2. \A c \in Buf : CleanOK(c)
    BY CoherentIs, Zenon
  <2>3. ASSUME NEW c \in Buf PROVE CleanOK(c)'
    <3>1. CASE c = b /\ "B_DIRTY" \in flags[b]
      BY <1>1, <3>1, Zenon DEF CleanOK
    <3>2. CASE c = b /\ "B_DIRTY" \notin flags[b]
      BY <1>1, <1>5, <2>1, <2>2, <3>2, CleanKept, Zenon
    <3>3. CASE c # b
      <4>1. CASE sector[c] \in Sector
        BY <1>1, <1>5, <1>7, <2>1, <2>2, <3>3, <4>1, CleanKept, Zenon
      <4>2. CASE sector[c] \notin Sector
        <5>1. sector[c] = NoSector /\ flags[c] = {}
          BY <4>2, Zenon DEF Books, TypeOK, BufOK
        <5> QED BY <1>1, <5>1, Zenon DEF CleanOK
      <4> QED BY <4>1, <4>2, Zenon
    <3> QED BY <3>1, <3>2, <3>3, Zenon
  <2>4. Written'
    BY <1>1, <1>2, <1>5, Zenon DEF Written
  <2> QED BY <2>3, <2>4, CoherentNext, Zenon
<1>9. ASSUME NEW t \in Sector PROVE Current'[t] = Current[t]
  <2>1. CurrentIs(t) /\ CurrentIs(t)'
    BY CurrentAt, CurrentAtNext, Zenon DEF CurrentExact
  <2>2. ASSUME NEW c \in Buf, sector[c] = t, "B_VALID" \in flags[c] PROVE Current'[t] = Current[t]
    <3>1. Current[t] = data[c] /\ Current'[t] = data'[c]
      BY <1>1, <2>1, <2>2, Zenon DEF CurrentIs
    <3> QED BY <1>1, <3>1, Zenon
  <2>3. ASSUME \A c \in Buf : sector[c] = t => "B_VALID" \notin flags[c] PROVE Current'[t] = Current[t]
    <3>1. Current[t] = disk[t] /\ Current'[t] = disk'[t]
      BY <1>1, <2>1, <2>3, Zenon DEF CurrentIs
    <3>2. disk'[t] = disk[t]
      BY <1>5, <1>6, <2>3, Zenon
    <3> QED BY <3>1, <3>2, Zenon
  <2> QED BY <2>2, <2>3, Zenon
<1>10. Current' = Current
  BY <1>9, SameCurrent, Zenon
<1>11. \A q \in Proc : (Holds(q)' <=> Holds(q)) /\ at'[q] = at[q]
  BY <1>1, Zenon DEF Holds
<1>12. Holder' = Holder
  BY <1>1, <1>11, HolderKept, Zenon
<1> QED BY <1>8, <1>10, <1>12, Zenon DEF Idle

(* A transfer without error: the buffer and the disk agree afterwards, and a *)
(* sector that was not in memory has the contents it had on the disk.        *)
LEMMA IdeintrContents ==
  ASSUME Books, Coherent, Books', Ideintr(FALSE)
  PROVE  Coherent' /\ Idle
<1>1. PICK b \in Buf : b = Head(queue)
  <2>1. drv = "done"
    BY Zenon DEF Ideintr
  <2> QED BY <2>1, HeadBuffer, Zenon
<1>2. /\ drv = "done" /\ drv' = StartNext(Tail(queue)) /\ flags' = [flags EXCEPT ![b] = Transferred(b)]
      /\ pc' = Wakeup(b, pc) /\ sector' = sector /\ disk' = disk /\ at' = at
      /\ data' = IF "B_DIRTY" \in flags[b] \/ FALSE THEN data ELSE [data EXCEPT ![b] = disk[sector[b]]]
  BY <1>1, Zenon DEF Ideintr
<1>3. /\ sector[b] \in Sector /\ Waiting(b)
      /\ \A q \in Proc : Holds(q) /\ at[q] = b => pc[q] \in {"rsleep", "rcheck"}
  BY <1>1, <1>2, HeadBuffer, Zenon
<1>4. flags \in [Buf -> SUBSET Flag] /\ data \in [Buf -> Data] /\ disk \in [Sector -> Data]
  BY Zenon DEF Books, TypeOK
<1>5. /\ flags'[b] = (flags[b] \cup {"B_VALID"}) \ {"B_DIRTY"}
      /\ \A c \in Buf : c # b => flags'[c] = flags[c]
  BY <1>2, <1>4 DEF Transferred
<1>6. "B_VALID" \in flags'[b] /\ "B_DIRTY" \notin flags'[b]
  BY <1>5
<1>7. /\ "B_DIRTY" \in flags[b] => data'[b] = data[b]
      /\ "B_DIRTY" \notin flags[b] => data'[b] = disk[sector[b]]
      /\ \A c \in Buf : c # b => data'[c] = data[c]
  BY <1>2, <1>4
<1>8. "B_DIRTY" \in flags[b] <=> "B_VALID" \in flags[b]
  <2>1. ~InSync(b)
    BY <1>3, Zenon DEF Waiting
  <2>2. "B_VALID" \in flags[b] => "B_DIRTY" \in flags[b]
    BY <1>4, <2>1 DEF InSync
  <2> QED BY <2>2, Zenon DEF Books, BufOK
<1>9. Written /\ \A c \in Buf : CleanOK(c)
  BY CoherentIs, Zenon
<1>10. data'[b] = disk[sector[b]]
  BY <1>1, <1>2, <1>7, <1>9, Zenon DEF Written
<1>11. \A q \in Proc : pc[q] \notin {"bsleep", "rsleep"} => pc'[q] = pc[q]
  BY <1>2, WakeupAt, Zenon
<1>12. Coherent'
  <2>1. \A c \in Buf : Changing(c) => Changing(c)'
    BY <1>2, <1>11, Zenon DEF Changing
  <2>2. ASSUME NEW c \in Buf PROVE CleanOK(c)'
    <3>1. CASE c = b
      BY <1>2, <1>10, <3>1, Zenon DEF CleanOK
    <3>2. CASE c # b
      BY <1>2, <1>5, <1>7, <1>9, <2>1, <3>2, CleanKept, Zenon
    <3> QED BY <3>1, <3>2, Zenon
  <2>3. Written'
    BY <1>2, Zenon DEF Written, StartNext
  <2> QED BY <2>2, <2>3, CoherentNext, Zenon
<1>13. ASSUME NEW t \in Sector PROVE Current'[t] = Current[t]
  <2>1. CurrentIs(t) /\ CurrentIs(t)'
    BY CurrentAt, CurrentAtNext, Zenon DEF CurrentExact
  <2>2. ASSUME NEW c \in Buf, c # b, sector[c] = t, "B_VALID" \in flags[c] PROVE Current'[t] = Current[t]
    <3>1. Current[t] = data[c] /\ Current'[t] = data'[c]
      BY <1>2, <1>5, <2>1, <2>2, Zenon DEF CurrentIs
    <3> QED BY <1>7, <2>2, <3>1, Zenon
  <2>3. CASE sector[b] = t
    <3>1. Current'[t] = data'[b]
      BY <1>2, <1>6, <2>1, <2>3, Zenon DEF CurrentIs
    <3>2. CASE "B_DIRTY" \in flags[b]
      BY <1>7, <1>8, <2>1, <2>3, <3>1, <3>2, Zenon DEF CurrentIs
    <3>3. CASE "B_DIRTY" \notin flags[b]
      <4>1. \A c \in Buf : sector[c] = t => c = b
        BY <1>3, <2>3, BioAssumption, Zenon DEF Books, OneBufPerSector
      <4>2. Current[t] = disk[t]
        BY <1>8, <2>1, <3>3, <4>1, Zenon DEF CurrentIs
      <4> QED BY <1>10, <2>3, <3>1, <4>2, Zenon
    <3> QED BY <3>2, <3>3, Zenon
  <2>4. ASSUME sector[b] # t, \A c \in Buf : sector[c] = t => "B_VALID" \notin flags[c]
        PROVE  Current'[t] = Current[t]
    <3>1. \A c \in Buf : sector'[c] = t => "B_VALID" \notin flags'[c]
      BY <1>2, <1>5, <2>4, Zenon
    <3> QED BY <1>2, <2>1, <2>4, <3>1, Zenon DEF CurrentIs
  <2> QED BY <2>2, <2>3, <2>4, Zenon
<1>14. Current' = Current
  BY <1>13, SameCurrent, Zenon
<1>15. \A q \in Proc : (Holds(q)' <=> Holds(q)) /\ at'[q] = at[q]
  <2>1. /\ \A q \in Proc : at[q] = b /\ pc[q] = "bsleep" => pc'[q] = "bget"
        /\ \A q \in Proc : at[q] = b /\ pc[q] = "rsleep" => pc'[q] = "rcheck"
        /\ \A q \in Proc : at[q] # b => pc'[q] = pc[q]
    BY <1>2, WakeupAt, Zenon
  <2>2. \A q \in Proc : pc[q] = "rsleep" => pc'[q] \in {"rsleep", "rcheck"}
    BY <2>1, Zenon
  <2>3. \A q \in Proc : pc[q] = "bsleep" => pc'[q] \in {"bsleep", "bget"}
    BY <2>1, Zenon
  <2> QED BY <1>2, <1>11, <2>2, <2>3, Zenon DEF Holds
<1>16. Holder' = Holder
  BY <1>2, <1>15, HolderKept, Zenon
<1> QED BY <1>12, <1>14, <1>16, Zenon DEF Idle

LEMMA ChangeContents ==
  ASSUME Books, Coherent, Books', NEW p \in Proc, NEW v \in Data, Change(p, v)
  PROVE  Coherent' /\ \E s \in Sector : BS!Change(p, s, v)
<1>1. /\ pc[p] = "have" /\ sector' = sector /\ flags' = flags
      /\ queue' = queue /\ disk' = disk /\ drv' = drv /\ at' = at
  BY Zenon DEF Change, drive
<1>2. PICK b \in Buf : b = at[p]
  BY <1>1, HeldBuffer, Zenon
<1>3. /\ sector[b] \in Sector /\ ~OnQueue(b) /\ "B_VALID" \in flags[b] /\ Holds(p)
  BY <1>1, <1>2, HeldBuffer, Zenon DEF Books, ProcOK, Holds
<1>4. pc \in [Proc -> Location] /\ data \in [Buf -> Data]
  BY Zenon DEF Books, TypeOK
<1>5. pc'[p] = "changed" /\ \A q \in Proc : q # p => pc'[q] = pc[q]
  BY <1>4, FunAt, Zenon DEF Change
<1>6. data'[b] = v /\ \A c \in Buf : c # b => data'[c] = data[c]
  BY <1>2, <1>4, FunAt, Zenon DEF Change
<1>7. Coherent'
  <2>1. Written /\ \A c \in Buf : CleanOK(c)
    BY CoherentIs, Zenon
  <2>2. Changing(b)' /\ \A c \in Buf : Changing(c) => Changing(c)'
    BY <1>1, <1>2, <1>5, Zenon DEF Changing
  <2>3. ASSUME NEW c \in Buf PROVE CleanOK(c)'
    <3>1. CASE c = b
      BY <2>2, <3>1, Zenon DEF CleanOK
    <3>2. CASE c # b
      BY <1>1, <1>6, <2>1, <2>2, <3>2, CleanKept, Zenon
    <3> QED BY <3>1, <3>2, Zenon
  <2>4. Written'
    <3>1. drv = "done" => Head(queue) \in Buf /\ Head(queue) # b
      BY <1>3, HeadBuffer, Zenon
    <3> QED BY <1>1, <1>6, <2>1, <3>1, Zenon DEF Written
  <2> QED BY <2>3, <2>4, CoherentNext, Zenon
<1>8. \A t \in Sector : CurrentIs(t) /\ CurrentIs(t)'
  BY CurrentAt, CurrentAtNext, Zenon DEF CurrentExact
<1>9. PICK s \in Sector : s = sector[b]
  BY <1>3, Zenon
<1>10. Current'[s] = v
  BY <1>1, <1>3, <1>6, <1>8, <1>9, Zenon DEF CurrentIs
<1>11. ASSUME NEW t \in Sector, t # s PROVE Current'[t] = Current[t]
  <2>1. \A c \in Buf : sector[c] = t => data'[c] = data[c]
    BY <1>6, <1>9, <1>11, Zenon
  <2>2. ASSUME NEW c \in Buf, sector[c] = t, "B_VALID" \in flags[c] PROVE Current'[t] = Current[t]
    <3>1. Current[t] = data[c] /\ Current'[t] = data'[c]
      BY <1>1, <1>8, <2>2, Zenon DEF CurrentIs
    <3> QED BY <2>1, <2>2, <3>1, Zenon
  <2>3. ASSUME \A c \in Buf : sector[c] = t => "B_VALID" \notin flags[c] PROVE Current'[t] = Current[t]
    <3>1. Current[t] = disk[t] /\ Current'[t] = disk'[t]
      BY <1>1, <1>8, <2>3, Zenon DEF CurrentIs
    <3> QED BY <1>1, <3>1, Zenon
  <2> QED BY <2>2, <2>3, Zenon
<1>12. Current' = [Current EXCEPT ![s] = v]
  BY <1>10, <1>11, CurrentSet, Zenon
<1>13. Holder[s] = p
  <2>1. HolderIs(s)
    BY HolderAt, Zenon DEF HolderExact
  <2> QED BY <1>2, <1>3, <1>9, <2>1, Zenon DEF HolderIs
<1>14. Holder' = Holder
  <2>1. \A q \in Proc : (Holds(q)' <=> Holds(q)) /\ at'[q] = at[q]
    BY <1>1, <1>5, Zenon DEF Holds
  <2> QED BY <1>1, <2>1, HolderKept, Zenon
<1> QED BY <1>7, <1>12, <1>13, <1>14, Zenon DEF BS!Change

LEMMA MarkContents ==
  ASSUME Books, Coherent, Books', NEW p \in Proc, Bwrite(p) \/ LogWrite(p)
  PROVE  Coherent' /\ Idle
<1>1. /\ pc[p] \in {"changed", "have"} /\ sector' = sector /\ data' = data
      /\ queue' = queue /\ disk' = disk /\ drv' = drv /\ at' = at
  BY Zenon DEF Bwrite, LogWrite, drive
<1>2. PICK b \in Buf : b = at[p]
  BY <1>1, HeldBuffer, Zenon
<1>3. "B_VALID" \in flags[b] /\ ~OnQueue(b)
  BY <1>1, <1>2, HeldBuffer, Zenon DEF Books, ProcOK
<1>4. pc \in [Proc -> Location] /\ flags \in [Buf -> SUBSET Flag]
  BY Zenon DEF Books, TypeOK
<1>5. pc'[p] \in {"rw", "have"} /\ \A q \in Proc : q # p => pc'[q] = pc[q]
  BY <1>4 DEF Bwrite, LogWrite
<1>6. flags'[b] = flags[b] \cup {"B_DIRTY"} /\ \A c \in Buf : c # b => flags'[c] = flags[c]
  BY <1>2, <1>4 DEF Bwrite, LogWrite, MarkDirty
<1>7. "B_DIRTY" \in flags'[b] /\ \A c \in Buf : "B_VALID" \in flags'[c] <=> "B_VALID" \in flags[c]
  BY <1>6
<1>8. Coherent'
  <2>1. Written /\ \A c \in Buf : CleanOK(c)
    BY CoherentIs, Zenon
  <2>2. \A c \in Buf : c # b /\ Changing(c) => Changing(c)'
    BY <1>1, <1>2, <1>5, Zenon DEF Changing
  <2>3. ASSUME NEW c \in Buf PROVE CleanOK(c)'
    <3>1. CASE c = b
      BY <1>7, <3>1, Zenon DEF CleanOK
    <3>2. CASE c # b
      BY <1>1, <1>6, <2>1, <2>2, <3>2, CleanKept, Zenon
    <3> QED BY <3>1, <3>2, Zenon
  <2>4. Written'
    <3>1. drv = "done" => Head(queue) \in Buf /\ Head(queue) # b
      BY <1>3, HeadBuffer, Zenon
    <3> QED BY <1>1, <1>6, <2>1, <3>1, Zenon DEF Written
  <2> QED BY <2>3, <2>4, CoherentNext, Zenon
<1>9. Current' = Current
  BY <1>1, <1>7, CurrentKept, Zenon
<1>10. \A q \in Proc : (Holds(q)' <=> Holds(q)) /\ at'[q] = at[q]
  BY <1>1, <1>5, Zenon DEF Holds
<1>11. Holder' = Holder
  BY <1>1, <1>10, HolderKept, Zenon
<1> QED BY <1>8, <1>9, <1>11, Zenon DEF Idle

LEMMA BrelseContents ==
  ASSUME Books, Coherent, Books', NEW p \in Proc, Brelse(p)
  PROVE  Coherent' /\ \E s \in Sector : BS!Release(p, s)
<1>1. /\ pc[p] = "have" /\ sector' = sector /\ data' = data /\ queue' = queue /\ disk' = disk /\ drv' = drv
  BY Zenon DEF Brelse, drive
<1>2. PICK b \in Buf : b = at[p]
  BY <1>1, HeldBuffer, Zenon
<1>3. sector[b] \in Sector
  BY <1>1, <1>2, HeldBuffer, Zenon
<1>4. /\ pc \in [Proc -> Location] /\ flags \in [Buf -> SUBSET Flag] /\ at \in [Proc -> Buf \cup {NoBuf}]
  BY Zenon DEF Books, TypeOK
<1>5. \A q \in Proc : q # p => at'[q] = at[q]
  BY <1>4, FunAt, Zenon DEF Brelse
<1>6. flags'[b] = flags[b] \ {"B_BUSY"} /\ \A c \in Buf : c # b => flags'[c] = flags[c]
  BY <1>2, <1>4 DEF Brelse
<1>7. \A c \in Buf : /\ "B_VALID" \in flags'[c] <=> "B_VALID" \in flags[c]
                     /\ "B_DIRTY" \in flags'[c] <=> "B_DIRTY" \in flags[c]
  BY <1>6
<1>8. pc'[p] = "idle" /\ \A q \in Proc : q # p => pc'[q] = Wakeup(b, pc)[q]
  <2>1. Wakeup(b, pc) \in [Proc -> Location]
    BY WakeupAt, Zenon
  <2> QED BY <1>2, <2>1, FunAt, Zenon DEF Brelse
<1>9. /\ \A q \in Proc : q # p /\ at[q] = b /\ pc[q] = "bsleep" => pc'[q] = "bget"
      /\ \A q \in Proc : q # p /\ at[q] = b /\ pc[q] = "rsleep" => pc'[q] = "rcheck"
      /\ \A q \in Proc : q # p /\ (at[q] # b \/ pc[q] \notin {"bsleep", "rsleep"}) => pc'[q] = pc[q]
  <2>1. /\ \A q \in Proc : at[q] = b /\ pc[q] = "bsleep" => Wakeup(b, pc)[q] = "bget"
        /\ \A q \in Proc : at[q] = b /\ pc[q] = "rsleep" => Wakeup(b, pc)[q] = "rcheck"
        /\ \A q \in Proc : at[q] # b \/ pc[q] \notin {"bsleep", "rsleep"} => Wakeup(b, pc)[q] = pc[q]
    BY WakeupAt, Zenon
  <2> QED BY <1>8, <2>1, Zenon
<1>10. \A c \in Buf : Changing(c) => Changing(c)'
  BY <1>1, <1>5, <1>9, Zenon DEF Changing
<1>11. Coherent'
  BY <1>1, <1>7, <1>10, CoherentKept, Zenon
<1>12. Current' = Current
  BY <1>1, <1>7, CurrentKept, Zenon
<1>13. Holds(p) /\ ~Holds(p)' /\ \A q \in Proc : q # p => (Holds(q)' <=> Holds(q))
  BY <1>1, <1>8, <1>9, Zenon DEF Holds
<1>14. PICK s \in Sector : sector[at[p]] = s
  BY <1>2, <1>3, Zenon
<1>15. \A q \in Proc : q # p => (Holds(q)' <=> Holds(q)) /\ at'[q] = at[q]
  BY <1>5, <1>13, Zenon
<1>16. Holder[s] = p /\ Holder' = [Holder EXCEPT ![s] = NoProc]
  BY <1>1, <1>13, <1>14, <1>15, HolderFreed, Zenon
<1> QED BY <1>11, <1>12, <1>16, Zenon DEF BS!Release

-----------------------------------------------------------------------------
LEMMA NextContents ==
  ASSUME Books, Coherent, Books', TRUE \notin ReadErrors, [Next]_vars
  PROVE  Coherent' /\ [BS!SNext]_(BS!svars)
<1>1. ASSUME Idle PROVE [BS!SNext]_(BS!svars)
  BY <1>1, Zenon DEF Idle, BS!svars
<1>2. ASSUME NEW p \in Proc, Step(p) PROVE Coherent' /\ [BS!SNext]_(BS!svars)
  <2>1. ASSUME NEW s \in Sector, NEW b \in Buf, BgetHit(p, s, b) \/ BgetRecycle(p, s, b)
        PROVE  Coherent' /\ BS!SNext
    BY <2>1, BgetHitContents, BgetRecycleContents, Zenon DEF BS!SNext
  <2>2. ASSUME NEW v \in Data, Change(p, v) PROVE Coherent' /\ BS!SNext
    BY <2>2, ChangeContents, Zenon DEF BS!SNext
  <2>3. ASSUME Brelse(p) PROVE Coherent' /\ BS!SNext
    BY <2>3, BrelseContents, Zenon DEF BS!SNext
  <2>4. ASSUME \/ \E s \in Sector : BgetPanic(p, s) \/ \E b \in Buf : BgetSleep(p, s, b)
               \/ Iderw(p) \/ IderwCheck(p)
        PROVE  Coherent' /\ Idle
    BY <2>4, PlainSteps, Zenon
  <2>5. ASSUME Bwrite(p) \/ LogWrite(p) PROVE Coherent' /\ Idle
    BY <2>5, MarkContents, Zenon
  <2> QED BY <1>1, <1>2, <2>1, <2>2, <2>3, <2>4, <2>5, Zenon DEF Step, Bget
<1>3. ASSUME NEW p \in Proc, Kill(p) PROVE Coherent' /\ Idle
  BY <1>3, PlainSteps, Zenon
<1>4. ASSUME Device PROVE Coherent' /\ Idle
  <2>1. ASSUME NEW err \in ReadErrors, Ideintr(err) PROVE Coherent' /\ Idle
    <3>1. err = FALSE
      BY BioAssumption
    <3> QED BY <2>1, <3>1, IdeintrContents, Zenon
  <2> QED BY <1>4, <2>1, DriveDoneContents, Zenon DEF Device
<1>5. ASSUME UNCHANGED vars PROVE Coherent' /\ Idle
  <2>1. /\ sector' = sector /\ flags' = flags /\ data' = data /\ queue' = queue /\ disk' = disk
        /\ drv' = drv /\ pc' = pc /\ at' = at
    BY <1>5, Zenon DEF vars
  <2>2. \A q \in Proc : Holds(q)' <=> Holds(q)
    BY <2>1, Zenon DEF Holds
  <2> QED BY <2>1, <2>2, PlainContents, Zenon
<1> QED BY <1>1, <1>2, <1>3, <1>4, <1>5, Zenon DEF Next, Spin

LEMMA InitContents == Init => BS!SInit
<1>1. SUFFICES ASSUME Init PROVE BS!SInit
  OBVIOUS
<1>2. Books
  BY <1>1, InitBooks, Zenon
<1>3. \A b \in Buf : flags[b] = {}
  BY <1>1 DEF Init
<1>4. \A q \in Proc : ~Holds(q)
  BY <1>1 DEF Init, Holds
<1>5. \A t \in Sector : CurrentIs(t) /\ HolderIs(t)
  BY <1>2, CurrentAt, HolderAt, Zenon DEF CurrentExact, HolderExact
<1>6. \A t \in Sector : Current[t] = disk[t] /\ Holder[t] = NoProc
  BY <1>3, <1>4, <1>5, Zenon DEF CurrentIs, HolderIs
<1>7. Current = [t \in Sector |-> Current[t]] /\ Holder = [t \in Sector |-> Holder[t]]
  BY Zenon DEF Current, Holder
<1>8. disk \in [Sector -> Data]
  BY <1>2, Zenon DEF Books, TypeOK
<1>9. Current \in [Sector -> Data]
  BY <1>6, <1>7, <1>8
<1>10. Holder = [t \in Sector |-> NoProc]
  BY <1>6, <1>7, Zenon
<1> QED BY <1>9, <1>10, Zenon DEF BS!SInit

-----------------------------------------------------------------------------
(* FS_CardinalityType, needed once: brelse()'s list has a length. *)
INSTANCE FiniteSetTheorems

LEMMA NBUF == Cardinality(Buf) \in Nat
BY BioAssumption, FS_CardinalityType, Zenon

(* The cache and the driver keep their books, read errors or not: one       *)
(* buffer per sector, one holder per buffer, a queue of exactly the pending *)
(* requests, no forgotten sleeper and no panic but "bget: no buffers"       *)
(* (bio.c, ide.c).                                                          *)
THEOREM SpecBooks == Spec => []Books
<1>1. Books /\ [Next]_vars => Books'
  BY NextBooks, NBUF, Zenon
<1> QED BY <1>1, InitBooks, PTL DEF Spec

(* BioInv: with a drive that reports no read error, a clean buffer also     *)
(* holds what the disk holds, so bget() loses nothing when it recycles one  *)
(* (bio.c:80-90).  ideintr() marks a buffer valid after a failed read       *)
(* (ide.c:106-111), whose contents nothing is known about.                  *)
THEOREM BioBooks == ASSUME TRUE \notin ReadErrors PROVE Spec => []BioInv
<1>1. Books /\ Coherent /\ [Next]_vars => (Books /\ Coherent)'
  <2>1. Books /\ [Next]_vars => Books'
    BY NextBooks, NBUF, Zenon
  <2> QED BY <2>1, NextContents, Zenon
<1>2. Init => Books /\ Coherent
  BY InitBooks, InitCoherent, Zenon
<1>3. Books /\ Coherent => BioInv
  BY BooksIs, Zenon DEF BioInv
<1> QED BY <1>1, <1>2, <1>3, PTL DEF Spec

(* OneContents: the cache and the driver implement a store with one current *)
(* contents and at most one holder per sector (bio.c:8-14).                 *)
THEOREM BioOneContents == ASSUME TRUE \notin ReadErrors PROVE Spec => OneContents
<1>1. Books /\ Coherent /\ [Next]_vars => (Books /\ Coherent)' /\ [BS!SNext]_(BS!svars)
  <2>1. Books /\ [Next]_vars => Books'
    BY NextBooks, NBUF, Zenon
  <2> QED BY <2>1, NextContents, Zenon
<1>2. Init => Books /\ Coherent /\ BS!SInit
  BY InitBooks, InitCoherent, InitContents, Zenon
<1> QED BY <1>1, <1>2, PTL DEF Spec, OneContents, BS!SSpec

=============================================================================
