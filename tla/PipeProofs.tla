----------------------------- MODULE PipeProofs -----------------------------
(***************************************************************************)
(* Proofs about a pipe, for any processes, messages, capacity and width of *)
(* its counters: its page is not used after kfree(), nobody sleeps in it   *)
(* without a reason, and it implements one bounded FIFO of bytes.          *)
(***************************************************************************)
EXTENDS Pipe, TLAPS

Reading == {"read", "rsleep", "rasleep"}
Writing == {"write", "wsleep", "wasleep"}

Holders(f) == {p \in Proc : f[p]}

TypeOK ==
  /\ nread \in 0 .. Modulus - 1 /\ nwrite \in 0 .. Modulus - 1
  /\ data \in [0 .. PIPESIZE - 1 -> Byte]
  /\ readopen \in BOOLEAN /\ writeopen \in BOOLEAN /\ freed \in BOOLEAN
  /\ plock \in Proc \cup {NoProc}
  /\ rref \in Nat /\ wref \in Nat
  /\ rd \in [Proc -> BOOLEAN] /\ wr \in [Proc -> BOOLEAN] /\ killed \in [Proc -> BOOLEAN]
  /\ pc \in [Proc -> Locations]
  /\ todo \in [Proc -> Seq(Byte)]
  /\ want \in [Proc -> Nat]

(* The reference counts are exact, whoever is in a pipe operation has a     *)
(* descriptor, and pipeclose() of an end comes once, after the last one.    *)
Ends ==
  /\ rref = Cardinality(Holders(rd)) /\ wref = Cardinality(Holders(wr))
  /\ \A p \in Proc :
       /\ pc[p] \in Reading => rd[p]
       /\ pc[p] \in Writing => wr[p]
       /\ pc[p] = "rclose" => rref = 0 /\ readopen
       /\ pc[p] = "wclose" => wref = 0 /\ writeopen
  /\ \A p, q \in Proc : pc[p] = pc[q] /\ pc[p] \in {"rclose", "wclose"} => p = q
  /\ ~readopen => rref = 0
  /\ ~writeopen => wref = 0
  /\ freed => ~readopen /\ ~writeopen

(* p->lock is with the one who is about to sleep. *)
Locked == \A p \in Proc : pc[p] \in {"rsleep", "wsleep"} => plock = p

(* A writer sleeps, or is about to, on a full pipe with a reader. *)
WritersWait == \A p \in Proc : pc[p] \in {"wsleep", "wasleep"} => space = 0 /\ readopen

(* The pipe never holds more than it can, and who reads asks for a byte. *)
Bounded ==
  /\ count <= PIPESIZE
  /\ \A p \in Proc : pc[p] \in Reading => want[p] # 0

IInv == TypeOK /\ Ends /\ Locked /\ WritersWait /\ Bounded

(* A reader sleeps, or is about to, on an empty pipe with a writer. *)
ReadersWait == \A p \in Proc : pc[p] \in {"rsleep", "rasleep"} => Empty /\ writeopen

(* Nobody who can write is killed, now or later. *)
WritersLive == \A p \in Proc : wr[p] => ~killed[p] /\ p \notin Killable

-----------------------------------------------------------------------------
(* Arithmetic of % *)

LEMMA DivMod == ASSUME NEW m \in Int, 0 < m, NEW a \in Int
  PROVE a % m \in 0 .. m - 1 /\ a = m * (a \div m) + (a % m) /\ a \div m \in Int
<1>1. a % m \in 0 .. m - 1
  BY SMT
<1>2. a \div m \in Int
  BY SMT
<1>3. a = m * (a \div m) + (a % m)
  BY SMT
<1> QED BY <1>1, <1>2, <1>3, Zenon
LEMMA Uniq == ASSUME NEW m \in Int, 0 < m, NEW q \in Int, NEW s \in Int, NEW r \in 0 .. m-1, NEW t \in 0 .. m-1,
   m * q + r = m * s + t PROVE r = t /\ q = s
<1>1. m * (q - s) = t - r
  OBVIOUS
<1>2. CASE q - s >= 1
  <2>1. m * (q - s) >= m
    BY <1>2
  <2> QED BY <2>1, <1>1
<1>3. CASE q - s <= -1
  <2>1. m * (q - s) <= -m
    BY <1>3
  <2> QED BY <2>1, <1>1
<1> QED BY <1>1, <1>2, <1>3
LEMMA ModIs == ASSUME NEW m \in Int, 0 < m, NEW q \in Int, NEW r \in 0 .. m-1
  PROVE (m * q + r) % m = r
<1>1. m * q + r \in Int OBVIOUS
<1> QED BY <1>1, DivMod, Uniq
LEMMA ModWrap == ASSUME NEW m \in Int, 0 < m, NEW a \in Int, -m <= a, a < 2 * m
  PROVE a % m = IF a < 0 THEN a + m ELSE IF a < m THEN a ELSE a - m
<1>1. CASE a < 0
  BY <1>1, ModIs, m * (-1) + (a + m) = a, a + m \in 0 .. m - 1
<1>2. CASE 0 <= a /\ a < m
  BY <1>2, ModIs
<1>3. CASE a >= m
  BY <1>3, ModIs
<1> QED BY <1>1, <1>2, <1>3
LEMMA ModMod ==
  ASSUME NEW m \in Int, 0 < m, NEW M \in Int, 0 < M, M % m = 0, NEW a \in Int
  PROVE  (a % M) % m = a % m
<1>1. PICK c \in Int : M = m * c
  BY DivMod
<1>2. PICK q \in Int, r \in Int : a = M * q + r /\ r = a % M
  BY DivMod
<1>3. PICK s \in Int, t \in 0 .. m - 1 : r = m * s + t /\ t = r % m
  BY DivMod, Zenon
<1>4. a = m * (c * q + s) + t
  <2>1. M * q = m * (c * q)
    BY <1>1
  <2>2. m * (c * q + s) = m * (c * q) + m * s
    OBVIOUS
  <2>3. a = M * q + r /\ r = m * s + t
    BY <1>2, <1>3, Zenon
  <2> QED BY <2>1, <2>2, <2>3
<1>5. a % m = t
  <2>1. c * q + s \in Int
    OBVIOUS
  <2> QED BY <2>1, <1>4, ModIs, Zenon
<1> QED BY <1>2, <1>3, <1>5, Zenon
LEMMA ModDistinct == ASSUME NEW m \in Int, 0 < m, NEW a \in Int, NEW b \in Int, a < b, b < a + m
  PROVE a % m # b % m
<1> SUFFICES ASSUME a % m = b % m PROVE FALSE OBVIOUS
<1>1. m * (b \div m - a \div m) = b - a
  BY DivMod
<1>2. b \div m - a \div m \in Int
  BY DivMod
<1>3. CASE b \div m - a \div m >= 1
  <2>1. m * (b \div m - a \div m) >= m
    BY <1>2, <1>3
  <2> QED BY <2>1, <1>1
<1>4. CASE b \div m - a \div m <= 0
  <2>1. m * (b \div m - a \div m) <= 0
    BY <1>2, <1>4
  <2> QED BY <2>1, <1>1
<1> QED BY <1>2, <1>3, <1>4

LEMMA ModAdd == ASSUME NEW m \in Int, 0 < m, NEW a \in Int PROVE (a + m) % m = a % m
<1>1. PICK q \in Int, r \in 0 .. m - 1 : a = m * q + r
  BY DivMod, Zenon
<1>2. a + m = m * (q + 1) + r
  BY <1>1
<1>3. q + 1 \in Int
  OBVIOUS
<1> QED BY <1>1, <1>2, <1>3, ModIs

-----------------------------------------------------------------------------
(* The counters of the ring *)

Dist(r, w) == (w - r) % Modulus

LEMMA Sizes == PIPESIZE \in Int /\ 0 < PIPESIZE /\ Modulus \in Int /\ PIPESIZE < Modulus /\ 0 < Modulus
BY PipeAssumption

LEMMA WrapIs ==
  ASSUME NEW a \in 0 .. Modulus - 1, NEW n \in 0 .. PIPESIZE
  PROVE  (a + n) % Modulus = IF a + n < Modulus THEN a + n ELSE a + n - Modulus
<1>1. a + n \in Int /\ 0 <= a + n /\ -Modulus <= a + n /\ a + n < 2 * Modulus
  BY Sizes
<1> QED BY <1>1, Sizes, ModWrap

LEMMA DistIs ==
  ASSUME NEW r \in 0 .. Modulus - 1, NEW w \in 0 .. Modulus - 1
  PROVE  Dist(r, w) = IF w < r THEN w - r + Modulus ELSE w - r
<1>1. w - r \in Int /\ -Modulus <= w - r /\ w - r < 2 * Modulus
  BY Sizes
<1> QED BY <1>1, Sizes, ModWrap DEF Dist

(* What is stored and what is free add up to PIPESIZE. *)
LEMMA RingSpace ==
  ASSUME NEW r \in 0 .. Modulus - 1, NEW w \in 0 .. Modulus - 1, Dist(r, w) <= PIPESIZE
  PROVE  /\ Dist(r, w) \in 0 .. PIPESIZE
         /\ (r + PIPESIZE - w) % Modulus = PIPESIZE - Dist(r, w)
         /\ Dist(r, w) = 0 <=> r = w
<1>1. r + PIPESIZE - w \in Int /\ -Modulus <= r + PIPESIZE - w /\ r + PIPESIZE - w < 2 * Modulus
  BY Sizes
<1>2. (r + PIPESIZE - w) % Modulus =
        IF r + PIPESIZE - w < 0 THEN r + PIPESIZE - w + Modulus
        ELSE IF r + PIPESIZE - w < Modulus THEN r + PIPESIZE - w ELSE r + PIPESIZE - w - Modulus
  BY <1>1, Sizes, ModWrap
<1>3. Dist(r, w) = IF w < r THEN w - r + Modulus ELSE w - r
  BY DistIs, Zenon
<1>4. Dist(r, w) \in 0 .. PIPESIZE
  BY <1>3, Sizes
<1>5. (r + PIPESIZE - w) % Modulus = PIPESIZE - Dist(r, w)
  BY <1>2, <1>3, Sizes
<1> QED BY <1>3, <1>4, <1>5, Sizes

LEMMA RingRead ==
  ASSUME NEW r \in 0 .. Modulus - 1, NEW w \in 0 .. Modulus - 1, NEW n \in 0 .. Dist(r, w),
         Dist(r, w) <= PIPESIZE
  PROVE  /\ (r + n) % Modulus \in 0 .. Modulus - 1
         /\ Dist((r + n) % Modulus, w) = Dist(r, w) - n
<1>1. Dist(r, w) \in 0 .. PIPESIZE
  BY RingSpace, Zenon
<1>2. (r + n) % Modulus = IF r + n < Modulus THEN r + n ELSE r + n - Modulus
  <2>1. n \in 0 .. PIPESIZE
    BY <1>1, Sizes
  <2> QED BY <2>1, WrapIs, Zenon
<1>3. (r + n) % Modulus \in 0 .. Modulus - 1
  BY <1>1, <1>2, Sizes
<1>4. Dist(r, w) = IF w < r THEN w - r + Modulus ELSE w - r
  BY DistIs, Zenon
<1>5. Dist((r + n) % Modulus, w) =
        IF w < (r + n) % Modulus THEN w - ((r + n) % Modulus) + Modulus ELSE w - ((r + n) % Modulus)
  BY <1>3, DistIs, Zenon
<1> QED BY <1>1, <1>2, <1>3, <1>4, <1>5, Sizes

LEMMA RingWrite ==
  ASSUME NEW r \in 0 .. Modulus - 1, NEW w \in 0 .. Modulus - 1, Dist(r, w) <= PIPESIZE,
         NEW n \in 0 .. PIPESIZE - Dist(r, w)
  PROVE  /\ (w + n) % Modulus \in 0 .. Modulus - 1
         /\ Dist(r, (w + n) % Modulus) = Dist(r, w) + n
<1>1. Dist(r, w) \in 0 .. PIPESIZE
  BY RingSpace, Zenon
<1>2. (w + n) % Modulus = IF w + n < Modulus THEN w + n ELSE w + n - Modulus
  <2>1. n \in 0 .. PIPESIZE
    BY <1>1, Sizes
  <2> QED BY <2>1, WrapIs, Zenon
<1>3. (w + n) % Modulus \in 0 .. Modulus - 1
  BY <1>1, <1>2, Sizes
<1>4. Dist(r, w) = IF w < r THEN w - r + Modulus ELSE w - r
  BY DistIs, Zenon
<1>5. Dist(r, (w + n) % Modulus) =
        IF (w + n) % Modulus < r THEN ((w + n) % Modulus) - r + Modulus ELSE ((w + n) % Modulus) - r
  BY <1>3, DistIs, Zenon
<1> QED BY <1>1, <1>2, <1>3, <1>4, <1>5, Sizes

-----------------------------------------------------------------------------
(* Steps *)

(* What the proofs use of Cardinality: proved last, from FiniteSetTheorems. *)
Counted ==
  \A f \in [Proc -> BOOLEAN] :
    /\ Cardinality(Holders(f)) \in Nat
    /\ Cardinality(Holders(f)) = 0 => \A p \in Proc : ~f[p]
    /\ \A p \in Proc : f[p] =>
         /\ Cardinality(Holders(f)) # 0
         /\ Cardinality(Holders([f EXCEPT ![p] = FALSE])) = Cardinality(Holders(f)) - 1

(* What a step by p may do to the others: wake them. *)
Others(p) ==
  \A q \in Proc \ {p} :
    \/ pc'[q] = pc[q]
    \/ pc[q] = "rasleep" /\ pc'[q] = "read"
    \/ pc[q] = "wasleep" /\ pc'[q] = "write"

(* Where each action leaves the processes *)
LEMMA MoveFacts ==
  ASSUME pc \in [Proc -> Locations], NEW p \in Proc, NEW l \in Locations,
         pc' = [pc EXCEPT ![p] = l]
  PROVE  pc' \in [Proc -> Locations] /\ pc'[p] = l /\ \A q \in Proc \ {p} : pc'[q] = pc[q]
BY Zenon

LEMMA WakeReadersFacts ==
  ASSUME pc \in [Proc -> Locations], NEW p \in Proc, NEW l \in Locations,
         pc' = [WakeReaders(pc) EXCEPT ![p] = l]
  PROVE  /\ pc' \in [Proc -> Locations] /\ pc'[p] = l
         /\ \A q \in Proc \ {p} : pc'[q] = IF pc[q] = "rasleep" THEN "read" ELSE pc[q]
<1>1. "read" \in Locations
  BY Zenon DEF Locations
<1> QED BY <1>1, Zenon DEF WakeReaders, Wakeup

LEMMA WakeWritersFacts ==
  ASSUME pc \in [Proc -> Locations], NEW p \in Proc, NEW l \in Locations,
         pc' = [WakeWriters(pc) EXCEPT ![p] = l]
  PROVE  /\ pc' \in [Proc -> Locations] /\ pc'[p] = l
         /\ \A q \in Proc \ {p} : pc'[q] = IF pc[q] = "wasleep" THEN "write" ELSE pc[q]
<1>1. "write" \in Locations
  BY Zenon DEF Locations
<1> QED BY <1>1, Zenon DEF WakeWriters, Wakeup

(* A step that leaves the files and the two ends alone preserves Ends. *)
LEMMA EndsStep ==
  ASSUME TypeOK, Ends, NEW p \in Proc, Others(p), UNCHANGED files,
         UNCHANGED <<readopen, writeopen, freed>>,
         pc'[p] \in Reading => rd[p],
         pc'[p] \in Writing => wr[p],
         pc'[p] \in {"rclose", "wclose"} => pc'[p] = pc[p]
  PROVE  Ends'
<1>. /\ rref' = rref /\ wref' = wref /\ rd' = rd /\ wr' = wr
     /\ readopen' = readopen /\ writeopen' = writeopen /\ freed' = freed
  BY Zenon DEF files
<1>1. Holders(rd)' = Holders(rd) /\ Holders(wr)' = Holders(wr)
  BY Zenon DEF Holders
<1>2. ASSUME NEW q \in Proc
      PROVE  /\ pc'[q] \in Reading => rd[q]
             /\ pc'[q] \in Writing => wr[q]
             /\ pc'[q] \in {"rclose", "wclose"} => pc'[q] = pc[q]
  <2>1. CASE q = p
    BY <2>1, Zenon
  <2>2. CASE q # p
    BY <2>2, Zenon DEF Others, Ends, Reading, Writing
  <2> QED BY <2>1, <2>2, Zenon
<1>3. /\ \A q \in Proc :
           /\ pc'[q] = "rclose" => rref = 0 /\ readopen
           /\ pc'[q] = "wclose" => wref = 0 /\ writeopen
      /\ \A q, r \in Proc : pc'[q] = pc'[r] /\ pc'[q] \in {"rclose", "wclose"} => q = r
  BY <1>2, Zenon DEF Ends
<1>4. rref' = Cardinality(Holders(rd)') /\ wref' = Cardinality(Holders(wr)')
  BY <1>1, Zenon DEF Ends
<1>5. (~readopen' => rref' = 0) /\ (~writeopen' => wref' = 0) /\ (freed' => ~readopen' /\ ~writeopen')
  BY DEF Ends
<1> QED BY <1>2, <1>3, <1>4, <1>5 DEF Ends, Reading, Writing

LEMMA LockedStep ==
  ASSUME IInv, NEW p \in Proc, Others(p), plock' = plock,
         pc'[p] \in {"rsleep", "wsleep"} => pc'[p] = pc[p]
  PROVE  Locked'
BY Zenon DEF IInv, Locked, Others

(* A step that leaves the ring alone: writers sleep on for the same reason. *)
LEMMA RestStep ==
  ASSUME IInv, NEW p \in Proc, Others(p), nread' = nread, nwrite' = nwrite, readopen' = readopen,
         pc'[p] \in {"wsleep", "wasleep"} => pc[p] \in {"wsleep", "wasleep"},
         pc'[p] \in Reading => want'[p] # 0,
         \A q \in Proc \ {p} : want'[q] = want[q]
  PROVE  WritersWait' /\ Bounded'
<1>1. \A q \in Proc : pc'[q] \in {"wsleep", "wasleep"} => pc[q] \in {"wsleep", "wasleep"}
  BY Zenon DEF Others
<1>2. \A q \in Proc \ {p} : pc'[q] \in Reading => pc[q] \in Reading
  BY Zenon DEF Others, Reading
<1>3. count' = count /\ space' = space
  BY Zenon DEF count, space
<1>4. WritersWait'
  BY <1>1, <1>3, Zenon DEF IInv, WritersWait
<1>5. Bounded'
  BY <1>2, <1>3, Zenon DEF IInv, Bounded, Reading
<1> QED BY <1>4, <1>5, Zenon

LEMMA CallReadStep == ASSUME IInv, NEW p \in Proc, NEW n \in ReadSizes, CallRead(p, n) PROVE IInv'
<1>. TypeOK /\ Ends
  BY Zenon DEF IInv
<1>1. n \in Nat /\ n # 0
  BY PipeAssumption, Zenon
<1>2. /\ pc'[p] = "read" /\ Others(p) /\ rd[p] /\ want'[p] = n /\ \A q \in Proc \ {p} : want'[q] = want[q]
      /\ nread' = nread /\ nwrite' = nwrite /\ readopen' = readopen /\ plock' = plock
  BY Zenon DEF CallRead, Goto, TypeOK, Others, pipe
<1>3. TypeOK'
  BY <1>1, Zenon DEF CallRead, Goto, TypeOK, pipe, files, Locations
<1>4. Ends'
  BY <1>2, EndsStep, Zenon DEF CallRead, pipe, Writing
<1>5. Locked'
  BY <1>2, LockedStep, Zenon
<1>6. WritersWait' /\ Bounded'
  BY <1>1, <1>2, RestStep, Zenon
<1> QED BY <1>3, <1>4, <1>5, <1>6, Zenon DEF IInv

LEMMA CallWriteStep == ASSUME IInv, NEW p \in Proc, NEW m \in Messages, CallWrite(p, m) PROVE IInv'
<1>. TypeOK /\ Ends
  BY Zenon DEF IInv
<1>1. m \in Seq(Byte)
  BY PipeAssumption, Zenon
<1>2. /\ pc'[p] = "write" /\ Others(p) /\ wr[p] /\ want' = want
      /\ nread' = nread /\ nwrite' = nwrite /\ readopen' = readopen /\ plock' = plock
  BY Zenon DEF CallWrite, Goto, TypeOK, Others, pipe
<1>3. TypeOK'
  BY <1>1, Zenon DEF CallWrite, Goto, TypeOK, pipe, files, Locations
<1>4. Ends'
  BY <1>2, EndsStep, Zenon DEF CallWrite, pipe, Reading
<1>5. Locked'
  BY <1>2, LockedStep, Zenon
<1>6. WritersWait' /\ Bounded'
  BY <1>1, <1>2, RestStep, Zenon DEF Reading
<1> QED BY <1>3, <1>4, <1>5, <1>6, Zenon DEF IInv

(* A step that takes p out of the pipe's code, or keeps it out *)
LEMMA LeaveStep ==
  ASSUME IInv, NEW p \in Proc, NEW l \in {"user", "sysret", "exit", "dead"}, Goto(p, l),
         UNCHANGED <<pipe, plock, files, killed, todo>>,
         want' \in [Proc -> Nat], \A q \in Proc \ {p} : want'[q] = want[q]
  PROVE  IInv'
<1>. TypeOK /\ Ends
  BY Zenon DEF IInv
<1>1. /\ pc'[p] = l /\ Others(p) /\ l \in Locations
      /\ nread' = nread /\ nwrite' = nwrite /\ readopen' = readopen /\ plock' = plock
  BY Zenon DEF Goto, TypeOK, Others, pipe, Locations
<1>2. l \notin Reading /\ l \notin Writing /\ l \notin {"rclose", "wclose"}
  BY Zenon DEF Reading, Writing
<1>3. TypeOK'
  BY <1>1, Zenon DEF Goto, TypeOK, pipe, files
<1>4. Ends'
  BY <1>1, <1>2, EndsStep, Zenon DEF pipe
<1>5. Locked'
  BY <1>1, LockedStep, Zenon
<1>6. WritersWait' /\ Bounded'
  BY <1>1, <1>2, RestStep, Zenon
<1> QED BY <1>3, <1>4, <1>5, <1>6, Zenon DEF IInv

LEMMA QuietSteps ==
  ASSUME IInv, NEW p \in Proc, SysRet(p) \/ Exit(p) \/ TrapExit(p) \/ Die(p)
  PROVE  IInv'
<1>. want \in [Proc -> Nat]
  BY Zenon DEF IInv, TypeOK
<1>1. CASE SysRet(p)
  <2>1. want' \in [Proc -> Nat] /\ \A q \in Proc \ {p} : want'[q] = want[q]
    BY <1>1, Zenon DEF SysRet
  <2>2. UNCHANGED <<pipe, plock, files, killed, todo>>
    BY <1>1, Zenon DEF SysRet
  <2>3. CASE killed[p]
    <3>1. Goto(p, "exit")
      BY <1>1, <2>3, Zenon DEF SysRet
    <3> QED BY <2>1, <2>2, <3>1, LeaveStep, Zenon
  <2>4. CASE ~killed[p]
    <3>1. Goto(p, "user")
      BY <1>1, <2>4, Zenon DEF SysRet
    <3> QED BY <2>1, <2>2, <3>1, LeaveStep, Zenon
  <2> QED BY <2>3, <2>4, Zenon
<1>2. CASE Exit(p)
  BY <1>2, LeaveStep, Zenon DEF Exit
<1>3. CASE TrapExit(p)
  BY <1>3, LeaveStep, Zenon DEF TrapExit
<1>4. CASE Die(p)
  BY <1>4, LeaveStep, Zenon DEF Die
<1> QED BY <1>1, <1>2, <1>3, <1>4, Zenon

LEMMA ReadWaitStep == ASSUME IInv, NEW p \in Proc, ReadWait(p) PROVE IInv'
<1>. TypeOK /\ Ends
  BY Zenon DEF IInv
<1>1. CASE killed[p]
  <2>1. Goto(p, "sysret") /\ UNCHANGED <<pipe, plock, files, killed, todo>> /\ want' = want
    BY <1>1, Zenon DEF ReadWait
  <2> QED BY <2>1, LeaveStep, Zenon DEF TypeOK
<1>2. CASE ~killed[p]
  <2>1. /\ pc[p] = "read" /\ pc'[p] = "rsleep" /\ Others(p) /\ plock = NoProc /\ plock' = p /\ want' = want
        /\ nread' = nread /\ nwrite' = nwrite /\ readopen' = readopen
    BY <1>2, Zenon DEF ReadWait, Goto, TypeOK, Others, pipe
  <2>2. rd[p] /\ want[p] # 0
    BY <2>1, Zenon DEF IInv, Ends, Bounded, Reading
  <2>3. TypeOK'
    BY <1>2, Zenon DEF ReadWait, Goto, TypeOK, pipe, files, Locations
  <2>4. Ends'
    BY <2>1, <2>2, EndsStep, Zenon DEF ReadWait, pipe, Writing
  <2>5. Locked'
    BY <2>1, PipeAssumption, Zenon DEF IInv, Locked, Others
  <2>6. WritersWait' /\ Bounded'
    BY <2>1, <2>2, RestStep, Zenon
  <2> QED BY <2>3, <2>4, <2>5, <2>6, Zenon DEF IInv
<1> QED BY <1>1, <1>2, Zenon

LEMMA SleepStep ==
  ASSUME IInv, NEW p \in Proc, Sleep(p, "rsleep", "rasleep") \/ Sleep(p, "wsleep", "wasleep")
  PROVE  IInv'
<1>. TypeOK /\ Ends
  BY Zenon DEF IInv
<1>1. /\ \/ pc[p] = "rsleep" /\ pc'[p] = "rasleep"
         \/ pc[p] = "wsleep" /\ pc'[p] = "wasleep"
      /\ \A q \in Proc \ {p} : pc'[q] = pc[q]
      /\ Others(p) /\ plock' = NoProc /\ want' = want
      /\ nread' = nread /\ nwrite' = nwrite /\ readopen' = readopen
  BY Zenon DEF Sleep, Goto, TypeOK, Others, pipe
<1>2. /\ pc[p] = "rsleep" => rd[p] /\ want[p] # 0
      /\ pc[p] = "wsleep" => wr[p]
  BY Zenon DEF IInv, Ends, Bounded, Reading, Writing
<1>3. plock = p /\ \A q \in Proc \ {p} : pc[q] \notin {"rsleep", "wsleep"}
  BY <1>1, Zenon DEF IInv, Locked
<1>4. TypeOK'
  BY Zenon DEF Sleep, Goto, TypeOK, pipe, files, Locations
<1>5. Ends'
  <2>1. UNCHANGED files /\ UNCHANGED <<readopen, writeopen, freed>>
    BY Zenon DEF Sleep, pipe
  <2>2. /\ pc'[p] \in Reading => rd[p]
        /\ pc'[p] \in Writing => wr[p]
        /\ pc'[p] \notin {"rclose", "wclose"}
    BY <1>1, <1>2, Zenon DEF Reading, Writing
  <2> QED BY <1>1, <2>1, <2>2, EndsStep, Zenon
<1>6. Locked'
  BY <1>1, <1>3, Zenon DEF Locked
<1>7. WritersWait' /\ Bounded'
  <2>1. pc'[p] \in Reading => want'[p] # 0
    BY <1>1, <1>2, Zenon DEF Reading
  <2> QED BY <1>1, <2>1, RestStep, Zenon
<1> QED BY <1>4, <1>5, <1>6, <1>7, Zenon DEF IInv

LEMMA KillStep == ASSUME IInv, NEW p \in Proc, Kill(p) PROVE IInv'
<1>. TypeOK /\ Ends
  BY Zenon DEF IInv
<1>1. /\ \/ pc'[p] = pc[p]
         \/ pc[p] = "rasleep" /\ pc'[p] = "read"
         \/ pc[p] = "wasleep" /\ pc'[p] = "write"
      /\ Others(p) /\ plock' = plock /\ want' = want /\ pc' \in [Proc -> Locations]
      /\ nread' = nread /\ nwrite' = nwrite /\ readopen' = readopen
  BY Zenon DEF Kill, TypeOK, Others, pipe, Locations
<1>2. /\ pc'[p] \in Reading => rd[p] /\ want'[p] # 0
      /\ pc'[p] \in Writing => wr[p]
  BY <1>1, Zenon DEF IInv, Ends, Bounded, Reading, Writing
<1>3. TypeOK'
  BY <1>1, Zenon DEF Kill, TypeOK, pipe, files
<1>4. Ends'
  <2>1. UNCHANGED files /\ UNCHANGED <<readopen, writeopen, freed>>
    BY Zenon DEF Kill, pipe
  <2> QED BY <1>1, <1>2, <2>1, EndsStep, Zenon
<1>5. Locked'
  BY <1>1, LockedStep, Zenon
<1>6. WritersWait' /\ Bounded'
  BY <1>1, <1>2, RestStep, Zenon
<1> QED BY <1>3, <1>4, <1>5, <1>6, Zenon DEF IInv

LEMMA CloseReadStep == ASSUME Counted, IInv, NEW p \in Proc, CloseRead(p) PROVE IInv'
<1>. TypeOK /\ Ends
  BY Zenon DEF IInv
<1>1. /\ rd[p] /\ rd' = [rd EXCEPT ![p] = FALSE] /\ rref' = rref - 1 /\ wr' = wr /\ wref' = wref
      /\ nread' = nread /\ nwrite' = nwrite /\ readopen' = readopen /\ writeopen' = writeopen /\ freed' = freed
      /\ plock' = plock /\ want' = want
  BY Zenon DEF CloseRead, pipe
<1>2. /\ pc'[p] \in {"exit", "sysret"} \/ (pc'[p] = "rclose" /\ rref = 1)
      /\ pc' \in [Proc -> Locations] /\ \A q \in Proc \ {p} : pc'[q] = pc[q]
  BY Zenon DEF CloseRead, Goto, AfterClose, TypeOK, Locations
<1>3. rref \in Nat \ {0} /\ rref' = Cardinality(Holders(rd)')
  <2>1. rref = Cardinality(Holders(rd)) /\ Holders(rd)' = Holders([rd EXCEPT ![p] = FALSE])
    BY <1>1, Zenon DEF Ends, Holders
  <2> QED BY <1>1, <2>1, Zenon DEF TypeOK, Counted
<1>4. TypeOK'
  <2>1. rref' \in Nat
    BY <1>1, <1>3
  <2>2. rd' \in [Proc -> BOOLEAN]
    BY <1>1, Zenon DEF TypeOK
  <2> QED BY <1>1, <1>2, <2>1, <2>2, Zenon DEF CloseRead, TypeOK, pipe
<1>5. Ends'
  <2>1. readopen /\ (\A q \in Proc : pc[q] # "rclose") /\ rref # 0
    BY <1>3, Zenon DEF Ends
  <2>2. ASSUME NEW q \in Proc
        PROVE  /\ pc'[q] \in Reading => rd'[q]
               /\ pc'[q] \in Writing => wr'[q]
               /\ pc'[q] = "rclose" => q = p /\ rref = 1
               /\ pc'[q] = "wclose" => pc[q] = "wclose"
    <3>1. CASE q = p
      BY <3>1, <1>2, Zenon DEF Reading, Writing
    <3>2. CASE q # p
      BY <3>2, <1>1, <1>2, <2>1, Zenon DEF Ends, TypeOK
    <3> QED BY <3>1, <3>2, Zenon
  <2>3. /\ \A q \in Proc :
             /\ pc'[q] = "rclose" => rref' = 0 /\ readopen'
             /\ pc'[q] = "wclose" => wref' = 0 /\ writeopen'
        /\ \A q, r \in Proc : pc'[q] = pc'[r] /\ pc'[q] \in {"rclose", "wclose"} => q = r
    BY <1>1, <2>1, <2>2 DEF Ends
  <2>4. /\ wref' = Cardinality(Holders(wr)')
        /\ (~readopen' => rref' = 0) /\ (~writeopen' => wref' = 0) /\ (freed' => ~readopen' /\ ~writeopen')
    BY <1>1, <2>1, Zenon DEF Ends, Holders
  <2> QED BY <1>3, <2>2, <2>3, <2>4, Zenon DEF Ends, Reading, Writing
<1>6. Others(p)
  BY <1>2, Zenon DEF Others
<1>7. Locked'
  BY <1>1, <1>2, <1>6, LockedStep, Zenon
<1>8. WritersWait' /\ Bounded'
  BY <1>1, <1>2, <1>6, RestStep, Zenon DEF Reading
<1> QED BY <1>4, <1>5, <1>7, <1>8, Zenon DEF IInv

LEMMA CloseWriteStep == ASSUME Counted, IInv, NEW p \in Proc, CloseWrite(p) PROVE IInv'
<1>. TypeOK /\ Ends
  BY Zenon DEF IInv
<1>1. /\ wr[p] /\ wr' = [wr EXCEPT ![p] = FALSE] /\ wref' = wref - 1 /\ rd' = rd /\ rref' = rref
      /\ nread' = nread /\ nwrite' = nwrite /\ readopen' = readopen /\ writeopen' = writeopen /\ freed' = freed
      /\ plock' = plock /\ want' = want
  BY Zenon DEF CloseWrite, pipe
<1>2. /\ pc'[p] \in {"exit", "sysret"} \/ (pc'[p] = "wclose" /\ wref = 1)
      /\ pc' \in [Proc -> Locations] /\ \A q \in Proc \ {p} : pc'[q] = pc[q]
  BY Zenon DEF CloseWrite, Goto, AfterClose, TypeOK, Locations
<1>3. wref \in Nat \ {0} /\ wref' = Cardinality(Holders(wr)')
  <2>1. wref = Cardinality(Holders(wr)) /\ Holders(wr)' = Holders([wr EXCEPT ![p] = FALSE])
    BY <1>1, Zenon DEF Ends, Holders
  <2> QED BY <1>1, <2>1, Zenon DEF TypeOK, Counted
<1>4. TypeOK'
  <2>1. wref' \in Nat
    BY <1>1, <1>3
  <2>2. wr' \in [Proc -> BOOLEAN]
    BY <1>1, Zenon DEF TypeOK
  <2> QED BY <1>1, <1>2, <2>1, <2>2, Zenon DEF CloseWrite, TypeOK, pipe
<1>5. Ends'
  <2>1. writeopen /\ (\A q \in Proc : pc[q] # "wclose") /\ wref # 0
    BY <1>3, Zenon DEF Ends
  <2>2. ASSUME NEW q \in Proc
        PROVE  /\ pc'[q] \in Writing => wr'[q]
               /\ pc'[q] \in Reading => rd'[q]
               /\ pc'[q] = "wclose" => q = p /\ wref = 1
               /\ pc'[q] = "rclose" => pc[q] = "rclose"
    <3>1. CASE q = p
      BY <3>1, <1>2, Zenon DEF Reading, Writing
    <3>2. CASE q # p
      BY <3>2, <1>1, <1>2, <2>1, Zenon DEF Ends, TypeOK
    <3> QED BY <3>1, <3>2, Zenon
  <2>3. /\ \A q \in Proc :
             /\ pc'[q] = "wclose" => wref' = 0 /\ writeopen'
             /\ pc'[q] = "rclose" => rref' = 0 /\ readopen'
        /\ \A q, r \in Proc : pc'[q] = pc'[r] /\ pc'[q] \in {"rclose", "wclose"} => q = r
    BY <1>1, <2>1, <2>2 DEF Ends
  <2>4. /\ rref' = Cardinality(Holders(rd)')
        /\ (~writeopen' => wref' = 0) /\ (~readopen' => rref' = 0) /\ (freed' => ~readopen' /\ ~writeopen')
    BY <1>1, <2>1, Zenon DEF Ends, Holders
  <2> QED BY <1>3, <2>2, <2>3, <2>4, Zenon DEF Ends, Reading, Writing
<1>6. Others(p)
  BY <1>2, Zenon DEF Others
<1>7. Locked'
  BY <1>1, <1>2, <1>6, LockedStep, Zenon
<1>8. WritersWait' /\ Bounded'
  BY <1>1, <1>2, <1>6, RestStep, Zenon DEF Reading
<1> QED BY <1>4, <1>5, <1>7, <1>8, Zenon DEF IInv

LEMMA PipeCloseReadStep == ASSUME IInv, NEW p \in Proc, PipeCloseRead(p) PROVE IInv'
<1>. TypeOK /\ Ends
  BY Zenon DEF IInv
<1>1. /\ pc[p] = "rclose" /\ plock = NoProc /\ plock' = plock /\ want' = want
      /\ rref' = rref /\ wref' = wref /\ rd' = rd /\ wr' = wr
      /\ nread' = nread /\ nwrite' = nwrite /\ ~readopen' /\ writeopen' = writeopen /\ (freed' <=> ~writeopen)
  BY Zenon DEF PipeCloseRead, files
<1>2. /\ pc' \in [Proc -> Locations] /\ pc'[p] \in {"exit", "sysret"}
      /\ \A q \in Proc \ {p} : pc'[q] = IF pc[q] = "wasleep" THEN "write" ELSE pc[q]
  <2>1. AfterClose(p) \in Locations /\ AfterClose(p) \in {"exit", "sysret"}
    BY Zenon DEF AfterClose, Locations
  <2> QED BY <2>1, WakeWritersFacts, Zenon DEF PipeCloseRead, TypeOK
<1>3. Others(p)
  BY <1>2, Zenon DEF Others
<1>4. TypeOK'
  BY <1>1, <1>2, Zenon DEF PipeCloseRead, TypeOK, files
<1>5. rref = 0 /\ \A q \in Proc \ {p} : pc[q] # "rclose"
  BY <1>1, Zenon DEF Ends
<1>6. Ends'
  <2>1. ASSUME NEW q \in Proc
        PROVE  /\ pc'[q] \in Reading => rd[q]
               /\ pc'[q] \in Writing => wr[q]
               /\ pc'[q] # "rclose"
               /\ pc'[q] = "wclose" => pc[q] = "wclose"
    <3>1. CASE q = p
      BY <3>1, <1>2, Zenon DEF Reading, Writing
    <3>2. CASE q # p
      BY <3>2, <1>2, <1>5, Zenon DEF Ends, Reading, Writing
    <3> QED BY <3>1, <3>2, Zenon
  <2>2. /\ \A q \in Proc : pc'[q] = "wclose" => wref = 0 /\ writeopen
        /\ \A q, r \in Proc : pc'[q] = pc'[r] /\ pc'[q] = "wclose" => q = r
    BY <2>1, Zenon DEF Ends
  <2>3. rref' = Cardinality(Holders(rd)') /\ wref' = Cardinality(Holders(wr)')
    BY <1>1, Zenon DEF Ends, Holders
  <2>4. ~writeopen' => wref' = 0
    BY <1>1, Zenon DEF Ends
  <2> QED BY <1>1, <1>5, <2>1, <2>2, <2>3, <2>4, Zenon DEF Ends, Reading, Writing
<1>7. Locked'
  BY <1>1, <1>2, <1>3, LockedStep, Zenon
<1>8. WritersWait'
  <2>1. \A q \in Proc : pc'[q] \notin {"wsleep", "wasleep"}
    BY <1>1, <1>2, PipeAssumption, Zenon DEF IInv, Locked
  <2> QED BY <2>1, Zenon DEF WritersWait
<1>9. Bounded'
  <2>1. \A q \in Proc : pc'[q] \in Reading => pc[q] \in Reading
    BY <1>2, Zenon DEF Reading
  <2>2. count' = count
    BY <1>1, Zenon DEF count
  <2> QED BY <1>1, <2>1, <2>2, Zenon DEF IInv, Bounded, Reading
<1> QED BY <1>4, <1>6, <1>7, <1>8, <1>9, Zenon DEF IInv

LEMMA PipeCloseWriteStep == ASSUME IInv, NEW p \in Proc, PipeCloseWrite(p) PROVE IInv'
<1>. TypeOK /\ Ends
  BY Zenon DEF IInv
<1>1. /\ pc[p] = "wclose" /\ plock = NoProc /\ plock' = plock /\ want' = want
      /\ rref' = rref /\ wref' = wref /\ rd' = rd /\ wr' = wr
      /\ nread' = nread /\ nwrite' = nwrite /\ ~writeopen' /\ readopen' = readopen /\ (freed' <=> ~readopen)
  BY Zenon DEF PipeCloseWrite, files
<1>2. /\ pc' \in [Proc -> Locations] /\ pc'[p] \in {"exit", "sysret"}
      /\ \A q \in Proc \ {p} : pc'[q] = IF pc[q] = "rasleep" THEN "read" ELSE pc[q]
  <2>1. AfterClose(p) \in Locations /\ AfterClose(p) \in {"exit", "sysret"}
    BY Zenon DEF AfterClose, Locations
  <2> QED BY <2>1, WakeReadersFacts, Zenon DEF PipeCloseWrite, TypeOK
<1>3. Others(p)
  BY <1>2, Zenon DEF Others
<1>4. TypeOK'
  BY <1>1, <1>2, Zenon DEF PipeCloseWrite, TypeOK, files
<1>5. wref = 0 /\ \A q \in Proc \ {p} : pc[q] # "wclose"
  BY <1>1, Zenon DEF Ends
<1>6. Ends'
  <2>1. ASSUME NEW q \in Proc
        PROVE  /\ pc'[q] \in Reading => rd[q]
               /\ pc'[q] \in Writing => wr[q]
               /\ pc'[q] # "wclose"
               /\ pc'[q] = "rclose" => pc[q] = "rclose"
    <3>1. CASE q = p
      BY <3>1, <1>2, Zenon DEF Reading, Writing
    <3>2. CASE q # p
      BY <3>2, <1>2, <1>5, Zenon DEF Ends, Reading, Writing
    <3> QED BY <3>1, <3>2, Zenon
  <2>2. /\ \A q \in Proc : pc'[q] = "rclose" => rref = 0 /\ readopen
        /\ \A q, r \in Proc : pc'[q] = pc'[r] /\ pc'[q] = "rclose" => q = r
    BY <2>1, Zenon DEF Ends
  <2>3. rref' = Cardinality(Holders(rd)') /\ wref' = Cardinality(Holders(wr)')
    BY <1>1, Zenon DEF Ends, Holders
  <2>4. ~readopen' => rref' = 0
    BY <1>1, Zenon DEF Ends
  <2> QED BY <1>1, <1>5, <2>1, <2>2, <2>3, <2>4, Zenon DEF Ends, Reading, Writing
<1>7. Locked'
  BY <1>1, <1>2, <1>3, LockedStep, Zenon
<1>8. WritersWait' /\ Bounded'
  BY <1>1, <1>2, <1>3, RestStep, Zenon DEF Reading
<1> QED BY <1>4, <1>6, <1>7, <1>8, Zenon DEF IInv

(* How far piperead() and pipewrite() get *)
LEMMA CountFacts ==
  ASSUME IInv
  PROVE  /\ count \in 0 .. PIPESIZE /\ space = PIPESIZE - count /\ (Empty <=> count = 0)
         /\ count = Dist(nread, nwrite) /\ space \in 0 .. PIPESIZE
<1>1. count = Dist(nread, nwrite) /\ space = (nread + PIPESIZE - nwrite) % Modulus
  BY Zenon DEF count, space, Dist
<1>2. nread \in 0 .. Modulus - 1 /\ nwrite \in 0 .. Modulus - 1 /\ count <= PIPESIZE
  BY Zenon DEF IInv, TypeOK, Bounded
<1>3. count \in 0 .. PIPESIZE /\ space = PIPESIZE - count /\ (count = 0 <=> nread = nwrite)
  BY <1>1, <1>2, RingSpace, Zenon
<1>4. space \in 0 .. PIPESIZE
  BY <1>3, Sizes
<1> QED BY <1>1, <1>3, <1>4, Zenon DEF Empty

LEMMA ReadFacts ==
  ASSUME IInv, NEW p \in Proc, Read(p)
  PROVE  \E n \in 0 .. count :
           /\ got' = [got EXCEPT ![p] = SubSeq(contents, 1, n)]
           /\ nread' = (nread + n) % Modulus /\ nread' \in 0 .. Modulus - 1
           /\ count' = count - n
           /\ n = 0 => count = 0 /\ ~writeopen
<1>. DEFINE n == IF want[p] < count THEN want[p] ELSE count
<1>1. /\ got' = [got EXCEPT ![p] = SubSeq(contents, 1, n)] /\ nread' = (nread + n) % Modulus
      /\ pc[p] = "read" /\ ~(Empty /\ writeopen) /\ nwrite' = nwrite
  BY Zenon DEF Read
<1>2. want[p] \in Nat /\ want[p] # 0
  BY <1>1, Zenon DEF IInv, TypeOK, Bounded, Reading
<1>3. n \in 0 .. count /\ (n = 0 => count = 0)
  BY <1>2, CountFacts, Sizes
<1>4. nread' \in 0 .. Modulus - 1 /\ Dist(nread', nwrite) = Dist(nread, nwrite) - n
  <2>. HIDE DEF n
  <2>1. nread \in 0 .. Modulus - 1 /\ nwrite \in 0 .. Modulus - 1
    BY Zenon DEF IInv, TypeOK
  <2>2. n \in 0 .. Dist(nread, nwrite) /\ Dist(nread, nwrite) <= PIPESIZE
    BY <1>3, CountFacts, Sizes
  <2> QED BY <1>1, <2>1, <2>2, RingRead, Zenon
<1>5. count' = count - n
  BY <1>1, <1>4, CountFacts, Zenon DEF count, Dist
<1>6. count = 0 => ~writeopen
  BY <1>1, CountFacts, Zenon
<1> QED BY <1>1, <1>3, <1>4, <1>5, <1>6, Zenon

LEMMA ReadStep == ASSUME IInv, NEW p \in Proc, Read(p) PROVE IInv'
<1>. TypeOK /\ Ends
  BY Zenon DEF IInv
<1>1. PICK n \in 0 .. count : nread' \in 0 .. Modulus - 1 /\ count' = count - n
  BY ReadFacts, Zenon
<1>2. /\ pc[p] = "read" /\ plock = NoProc /\ plock' = plock /\ want' = want
      /\ UNCHANGED files /\ UNCHANGED <<readopen, writeopen, freed>>
  BY Zenon DEF Read
<1>3. /\ pc' \in [Proc -> Locations] /\ pc'[p] = "sysret"
      /\ \A q \in Proc \ {p} : pc'[q] = IF pc[q] = "wasleep" THEN "write" ELSE pc[q]
  <2>1. "sysret" \in Locations /\ pc \in [Proc -> Locations]
    BY Zenon DEF Locations, TypeOK
  <2> QED BY <2>1, WakeWritersFacts, Zenon DEF Read
<1>4. Others(p)
  BY <1>3, Zenon DEF Others
<1>5. TypeOK'
  BY <1>1, <1>3, Zenon DEF Read, TypeOK, files
<1>6. Ends'
  BY <1>2, <1>3, <1>4, EndsStep, Zenon DEF Reading, Writing
<1>7. Locked'
  BY <1>2, <1>3, <1>4, LockedStep, Zenon
<1>8. WritersWait'
  <2>1. \A q \in Proc : pc'[q] \notin {"wsleep", "wasleep"}
    BY <1>2, <1>3, PipeAssumption, Zenon DEF IInv, Locked
  <2> QED BY <2>1, Zenon DEF WritersWait
<1>9. Bounded'
  <2>1. count' <= PIPESIZE
    BY <1>1, CountFacts, Sizes
  <2>2. \A q \in Proc : pc'[q] \in Reading => pc[q] \in Reading
    BY <1>3, Zenon DEF Reading
  <2> QED BY <1>2, <2>1, <2>2, Zenon DEF IInv, Bounded, Reading
<1> QED BY <1>5, <1>6, <1>7, <1>8, <1>9, Zenon DEF IInv

(* Write(p) with its n in view, and the three ways it ends *)
LEMMA WriteFacts ==
  ASSUME IInv, NEW p \in Proc, Write(p)
  PROVE  \E n \in 0 .. PIPESIZE - count :
           /\ n <= Len(todo[p])
           /\ data' = Stored(SubSeq(todo[p], 1, n))
           /\ nwrite' = (nwrite + n) % Modulus /\ nwrite' \in 0 .. Modulus - 1
           /\ count' = count + n
           /\ todo' \in [Proc -> Seq(Byte)]
           /\ \/ pc' = [pc EXCEPT ![p] = "sysret"] /\ (~readopen \/ killed[p]) /\ plock' = NoProc
              \/ pc' = [WakeReaders(pc) EXCEPT ![p] = "sysret"] /\ plock' = NoProc
              \/ /\ pc' = [WakeReaders(pc) EXCEPT ![p] = "wsleep"] /\ plock' = p
                 /\ readopen /\ count' = PIPESIZE
<1>. DEFINE n == IF Len(todo[p]) < space THEN Len(todo[p]) ELSE space
            rest == SubSeq(todo[p], n + 1, Len(todo[p]))
            stop == rest # <<>> /\ (~readopen \/ killed[p])
<1>1. /\ data' = Stored(SubSeq(todo[p], 1, n)) /\ nwrite' = (nwrite + n) % Modulus
      /\ todo' = [todo EXCEPT ![p] = IF stop THEN <<>> ELSE rest]
      /\ pc' = IF stop THEN [pc EXCEPT ![p] = "sysret"]
               ELSE [WakeReaders(pc) EXCEPT ![p] = IF rest = <<>> THEN "sysret" ELSE "wsleep"]
      /\ plock' = (IF rest # <<>> /\ ~stop THEN p ELSE NoProc)
      /\ nread' = nread
  BY Zenon DEF Write
<1>2. todo \in [Proc -> Seq(Byte)] /\ todo[p] \in Seq(Byte) /\ Len(todo[p]) \in Nat
  BY DEF IInv, TypeOK
<1>3. n \in 0 .. PIPESIZE - count /\ n <= Len(todo[p]) /\ (n = Len(todo[p]) \/ n = PIPESIZE - count)
  BY <1>2, CountFacts, Sizes
<1>4. rest \in Seq(Byte) /\ (n = Len(todo[p]) => rest = <<>>)
  <2>. HIDE DEF n
  <2> QED BY <1>2, <1>3, CountFacts, Sizes
<1>. HIDE DEF n, rest
<1>5. nwrite' \in 0 .. Modulus - 1 /\ Dist(nread, nwrite') = Dist(nread, nwrite) + n
  <2>1. nread \in 0 .. Modulus - 1 /\ nwrite \in 0 .. Modulus - 1
    BY Zenon DEF IInv, TypeOK
  <2>2. n \in 0 .. PIPESIZE - Dist(nread, nwrite) /\ Dist(nread, nwrite) <= PIPESIZE
    BY <1>3, CountFacts, Sizes
  <2> QED BY <1>1, <2>1, <2>2, RingWrite, Zenon
<1>6. count' = count + n
  BY <1>1, <1>5, CountFacts, Zenon DEF count, Dist
<1>7. todo' \in [Proc -> Seq(Byte)]
  BY <1>1, <1>2, <1>4
<1>8. rest # <<>> => count' = PIPESIZE
  BY <1>3, <1>4, <1>6, CountFacts, Sizes
<1>9. \/ pc' = [pc EXCEPT ![p] = "sysret"] /\ (~readopen \/ killed[p]) /\ plock' = NoProc
      \/ pc' = [WakeReaders(pc) EXCEPT ![p] = "sysret"] /\ plock' = NoProc
      \/ /\ pc' = [WakeReaders(pc) EXCEPT ![p] = "wsleep"] /\ plock' = p
         /\ readopen /\ count' = PIPESIZE
  <2>1. CASE rest = <<>>
    BY <1>1, <2>1, Zenon
  <2>2. CASE rest # <<>> /\ (~readopen \/ killed[p])
    BY <1>1, <2>2, Zenon
  <2>3. CASE rest # <<>> /\ ~(~readopen \/ killed[p])
    BY <1>1, <1>8, <2>3, Zenon
  <2> QED BY <2>1, <2>2, <2>3, Zenon
<1> QED BY <1>1, <1>3, <1>5, <1>6, <1>7, <1>9, Zenon

(* What a store leaves in the ring are bytes. *)
LEMMA StoredType ==
  ASSUME TypeOK, NEW s \in Seq(Byte)
  PROVE  Stored(s) \in [0 .. PIPESIZE - 1 -> Byte]
<1>1. ASSUME NEW i \in 0 .. PIPESIZE - 1,
             \E k \in 1 .. Len(s) : ((nwrite + k - 1) % Modulus) % PIPESIZE = i
      PROVE  s[CHOOSE k \in 1 .. Len(s) : ((nwrite + k - 1) % Modulus) % PIPESIZE = i] \in Byte
  <2>1. (CHOOSE k \in 1 .. Len(s) : ((nwrite + k - 1) % Modulus) % PIPESIZE = i) \in 1 .. Len(s)
    BY <1>1, Zenon
  <2> QED BY <2>1
<1>2. ASSUME NEW i \in 0 .. PIPESIZE - 1 PROVE data[i] \in Byte
  BY Zenon DEF TypeOK
<1> QED BY <1>1, <1>2, Zenon DEF Stored

LEMMA WriteStep == ASSUME IInv, NEW p \in Proc, Write(p) PROVE IInv'
<1>. TypeOK /\ Ends
  BY Zenon DEF IInv
<1>1. PICK n \in 0 .. PIPESIZE - count :
           /\ n <= Len(todo[p])
           /\ data' = Stored(SubSeq(todo[p], 1, n))
           /\ nwrite' \in 0 .. Modulus - 1
           /\ count' = count + n
           /\ todo' \in [Proc -> Seq(Byte)]
           /\ \/ pc' = [pc EXCEPT ![p] = "sysret"] /\ (~readopen \/ killed[p]) /\ plock' = NoProc
              \/ pc' = [WakeReaders(pc) EXCEPT ![p] = "sysret"] /\ plock' = NoProc
              \/ /\ pc' = [WakeReaders(pc) EXCEPT ![p] = "wsleep"] /\ plock' = p
                 /\ readopen /\ count' = PIPESIZE
  BY WriteFacts, Zenon
<1>2. /\ pc[p] = "write" /\ plock = NoProc /\ want' = want /\ nread' = nread
      /\ UNCHANGED files /\ UNCHANGED <<readopen, writeopen, freed>> /\ readopen' = readopen
      /\ killed' = killed
  BY Zenon DEF Write
<1>3. /\ pc' \in [Proc -> Locations] /\ Others(p)
      /\ pc'[p] = "sysret" \/ (pc'[p] = "wsleep" /\ plock' = p /\ readopen /\ count' = PIPESIZE)
      /\ plock' \in Proc \cup {NoProc}
  <2>1. "sysret" \in Locations /\ "wsleep" \in Locations /\ pc \in [Proc -> Locations]
    BY Zenon DEF Locations, TypeOK
  <2>2. CASE pc' = [pc EXCEPT ![p] = "sysret"] /\ plock' = NoProc
    BY <2>1, <2>2, MoveFacts, Zenon DEF Others
  <2>3. CASE pc' = [WakeReaders(pc) EXCEPT ![p] = "sysret"] /\ plock' = NoProc
    BY <2>1, <2>3, WakeReadersFacts, Zenon DEF Others
  <2>4. CASE pc' = [WakeReaders(pc) EXCEPT ![p] = "wsleep"] /\ plock' = p /\ readopen /\ count' = PIPESIZE
    BY <2>1, <2>4, WakeReadersFacts, Zenon DEF Others
  <2> QED BY <1>1, <2>2, <2>3, <2>4, Zenon
<1>4. wr[p] /\ \A q \in Proc : pc[q] \notin {"rsleep", "wsleep"}
  BY <1>2, PipeAssumption, Zenon DEF IInv, Ends, Locked, Writing
<1>5. TypeOK'
  <2>1. SubSeq(todo[p], 1, n) \in Seq(Byte)
    <3>1. todo[p] \in Seq(Byte) /\ n \in 0 .. Len(todo[p])
      BY <1>1, CountFacts, Sizes DEF TypeOK
    <3> QED BY <3>1
  <2>2. data' \in [0 .. PIPESIZE - 1 -> Byte]
    BY <1>1, <2>1, StoredType, Zenon
  <2> QED BY <1>1, <1>2, <1>3, <2>2, Zenon DEF TypeOK, files
<1>6. Ends'
  BY <1>2, <1>3, <1>4, EndsStep, Zenon DEF Reading, Writing
<1>7. Locked'
  <2>1. \A q \in Proc \ {p} : pc'[q] \notin {"rsleep", "wsleep"}
    BY <1>3, <1>4, Zenon DEF Others
  <2> QED BY <1>3, <2>1, Zenon DEF Locked
<1>8. count' \in 0 .. PIPESIZE /\ Bounded'
  <2>1. count' \in 0 .. PIPESIZE
    BY <1>1, CountFacts, Sizes
  <2>2. \A q \in Proc : pc'[q] \in Reading => pc[q] \in Reading
    BY <1>3, Zenon DEF Reading, Others
  <2>3. count' <= PIPESIZE
    BY <2>1, Sizes
  <2> QED BY <1>2, <2>1, <2>2, <2>3, Zenon DEF IInv, Bounded, Reading
<1>9. space' = PIPESIZE - count'
  <2>1. count' = Dist(nread, nwrite') /\ space' = (nread + PIPESIZE - nwrite') % Modulus
    BY <1>2, Zenon DEF count, space, Dist
  <2>2. nread \in 0 .. Modulus - 1 /\ nwrite' \in 0 .. Modulus - 1 /\ Dist(nread, nwrite') <= PIPESIZE
    BY <1>1, <1>8, <2>1, Sizes DEF TypeOK
  <2> QED BY <2>1, <2>2, RingSpace, Zenon
<1>10. WritersWait'
  <2>1. ASSUME NEW q \in Proc, pc'[q] \in {"wsleep", "wasleep"} PROVE count' = PIPESIZE /\ readopen
    <3>1. CASE q = p
      BY <1>3, <2>1, <3>1, Zenon
    <3>2. CASE q # p
      <4>1. pc[q] \in {"wsleep", "wasleep"}
        BY <1>3, <2>1, <3>2, Zenon DEF Others
      <4>2. space = 0 /\ readopen
        BY <4>1, Zenon DEF IInv, WritersWait
      <4> QED BY <1>1, <4>2, CountFacts, Sizes
    <3> QED BY <3>1, <3>2, Zenon
  <2>2. PIPESIZE - PIPESIZE = 0
    BY Sizes
  <2> QED BY <1>2, <1>9, <2>1, <2>2 DEF WritersWait
<1> QED BY <1>5, <1>6, <1>7, <1>8, <1>10, Zenon DEF IInv

LEMMA InitIInv == Counted /\ Init => IInv
<1> SUFFICES ASSUME Counted, Init PROVE IInv
  OBVIOUS
<1>1. /\ nread = 0 /\ nwrite = 0 /\ readopen = TRUE /\ writeopen = TRUE /\ freed = FALSE /\ plock = NoProc
      /\ rref = Cardinality(Readers) /\ wref = Cardinality(Writers)
      /\ rd = [p \in Proc |-> p \in Readers] /\ wr = [p \in Proc |-> p \in Writers]
      /\ killed = [p \in Proc |-> FALSE] /\ pc = [p \in Proc |-> "user"]
      /\ todo = [p \in Proc |-> <<>>] /\ want = [p \in Proc |-> 0]
  BY Zenon DEF Init
<1>2. Holders(rd) = Readers /\ Holders(wr) = Writers
  BY <1>1, PipeAssumption, Zenon DEF Holders
<1>3. rref \in Nat /\ wref \in Nat
  <2>1. rd \in [Proc -> BOOLEAN] /\ wr \in [Proc -> BOOLEAN]
    BY <1>1
  <2> QED BY <1>1, <1>2, <2>1, Zenon DEF Counted
<1>4. TypeOK
  <2>1. data \in [0 .. PIPESIZE - 1 -> Byte]
    <3>. DEFINE zero == CHOOSE b \in Byte : TRUE
    <3>1. zero \in Byte
      BY PipeAssumption, Zenon
    <3>2. data \in [0 .. PIPESIZE - 1 -> {zero}]
      BY Zenon DEF Init
    <3>. HIDE DEF zero
    <3>3. \A i \in 0 .. PIPESIZE - 1 : data[i] \in Byte
      BY <3>1, <3>2, Zenon
    <3> QED BY <3>2, <3>3, Zenon
  <2>2. nread \in 0 .. Modulus - 1 /\ nwrite \in 0 .. Modulus - 1
    BY <1>1, Sizes
  <2>3. rd \in [Proc -> BOOLEAN] /\ wr \in [Proc -> BOOLEAN] /\ killed \in [Proc -> BOOLEAN]
    BY <1>1
  <2>5. pc \in [Proc -> Locations]
    BY <1>1, Zenon DEF Locations
  <2>4. todo \in [Proc -> Seq(Byte)] /\ want \in [Proc -> Nat]
    BY <1>1
  <2> QED BY <1>1, <1>3, <2>1, <2>2, <2>3, <2>4, <2>5, Zenon DEF TypeOK
<1>5. Ends
  BY <1>1, <1>2, Zenon DEF Ends, Reading, Writing
<1>6. Locked /\ WritersWait
  BY <1>1, Zenon DEF Locked, WritersWait
<1>7. Bounded
  <2>1. count = 0
    <3>1. 0 \in 0 .. Modulus - 1
      BY Sizes
    <3>2. Dist(0, 0) = 0
      BY <3>1, DistIs, Sizes
    <3> QED BY <1>1, <3>2, Zenon DEF count, Dist
  <2> QED BY <1>1, <2>1, Sizes DEF Bounded, Reading
<1> QED BY <1>4, <1>5, <1>6, <1>7, Zenon DEF IInv

LEMMA StutterIInv == IInv /\ UNCHANGED vars => IInv'
<1> SUFFICES ASSUME IInv, UNCHANGED vars PROVE IInv'
  OBVIOUS
<1> USE DEF IInv, vars
<1>1. TypeOK'
  BY Zenon DEF TypeOK
<1>2. Ends'
  BY Zenon DEF Ends, Holders, Reading, Writing
<1>3. Locked' /\ WritersWait' /\ Bounded'
  BY Zenon DEF Locked, WritersWait, Bounded, space, count, Reading
<1> QED BY <1>1, <1>2, <1>3, Zenon

LEMMA NextIInv == Counted /\ IInv /\ [Next]_vars => IInv'
<1> SUFFICES ASSUME Counted, IInv, [Next]_vars PROVE IInv'
  OBVIOUS
<1>1. ASSUME NEW p \in Proc, KernelStep(p) PROVE IInv'
  BY <1>1, ReadWaitStep, ReadStep, WriteStep, SleepStep, QuietSteps, PipeCloseReadStep,
     PipeCloseWriteStep, CloseReadStep, CloseWriteStep, Zenon DEF KernelStep
<1>2. ASSUME NEW p \in Proc, UserStep(p) PROVE IInv'
  BY <1>2, CallReadStep, CallWriteStep, CloseReadStep, CloseWriteStep, QuietSteps, Zenon DEF UserStep
<1>3. ASSUME NEW p \in Proc, Kill(p) PROVE IInv'
  BY <1>3, KillStep, Zenon
<1>4. CASE Idle \/ UNCHANGED vars
  BY <1>4, StutterIInv, Zenon DEF Idle
<1> QED BY <1>1, <1>2, <1>3, <1>4, Zenon DEF Next

-----------------------------------------------------------------------------
(* Sleepers.  pipewrite() returns -1 for a killed writer without a wakeup   *)
(* of the readers (pipe.c:85): a reader may then sleep beside bytes, so     *)
(* these results are for writers that are not killed.                       *)

LEMMA WritersLiveStep == IInv /\ WritersLive /\ [Next]_vars => WritersLive'
<1> SUFFICES ASSUME IInv, WritersLive, [Next]_vars PROVE WritersLive'
  OBVIOUS
<1>. rd \in [Proc -> BOOLEAN] /\ wr \in [Proc -> BOOLEAN] /\ killed \in [Proc -> BOOLEAN]
  BY Zenon DEF IInv, TypeOK
<1>1. ASSUME NEW p \in Proc, CloseWrite(p) PROVE WritersLive'
  <2>1. killed' = killed /\ \A q \in Proc : wr'[q] => wr[q]
    BY <1>1, Zenon DEF CloseWrite
  <2> QED BY <2>1, Zenon DEF WritersLive
<1>2. ASSUME NEW p \in Proc, Kill(p) PROVE WritersLive'
  <2>1. wr' = wr /\ p \in Killable /\ \A q \in Proc \ {p} : killed'[q] = killed[q]
    BY <1>2, Zenon DEF Kill, files
  <2>2. ~wr[p]
    BY <2>1, Zenon DEF WritersLive
  <2>3. ASSUME NEW q \in Proc, wr'[q] PROVE ~killed'[q] /\ q \notin Killable
    <3>1. q # p /\ wr[q]
      BY <2>1, <2>2, <2>3, Zenon
    <3> QED BY <2>1, <3>1, Zenon DEF WritersLive
  <2> QED BY <2>3, Zenon DEF WritersLive
<1>3. CASE wr' = wr /\ killed' = killed
  BY <1>3, Zenon DEF WritersLive
<1>4. ASSUME NEW p \in Proc, KernelStep(p) \/ UserStep(p)
      PROVE  CloseWrite(p) \/ (wr' = wr /\ killed' = killed)
  BY <1>4, Zenon DEF KernelStep, UserStep, ReadWait, Read, Write, Sleep, SysRet, PipeCloseRead, PipeCloseWrite,
     TrapExit, Die, CloseRead, CallRead, CallWrite, Exit, files
<1>5. CASE Idle \/ UNCHANGED vars
  BY <1>3, <1>5, Zenon DEF Idle, vars
<1> QED BY <1>1, <1>2, <1>3, <1>4, <1>5, Zenon DEF Next

(* A step that leaves the ring and the write end alone *)
LEMMA ReadersStay ==
  ASSUME ReadersWait, NEW p \in Proc, Others(p), nread' = nread, nwrite' = nwrite, writeopen' = writeopen,
         pc'[p] \in {"rsleep", "rasleep"} => pc[p] \in {"rsleep", "rasleep"} \/ (Empty /\ writeopen)
  PROVE  ReadersWait'
<1>1. \A q \in Proc : pc'[q] \in {"rsleep", "rasleep"} => Empty /\ writeopen
  BY Zenon DEF ReadersWait, Others
<1> QED BY <1>1, Zenon DEF ReadersWait, Empty

LEMMA ReadersWaitStep == Counted /\ IInv /\ ReadersWait /\ WritersLive /\ [Next]_vars => ReadersWait'
<1> SUFFICES ASSUME Counted, IInv, ReadersWait, WritersLive, [Next]_vars PROVE ReadersWait'
  OBVIOUS
<1>. TypeOK
  BY Zenon DEF IInv
<1>1. ASSUME NEW p \in Proc, Read(p) PROVE ReadersWait'
  <2>1. ~(Empty /\ writeopen) /\ pc' = [WakeWriters(pc) EXCEPT ![p] = "sysret"]
    BY <1>1, Zenon DEF Read
  <2>2. pc'[p] = "sysret" /\ \A q \in Proc \ {p} : pc'[q] = IF pc[q] = "wasleep" THEN "write" ELSE pc[q]
    BY <2>1, WakeWritersFacts, Zenon DEF TypeOK, Locations
  <2>3. \A q \in Proc : pc'[q] \notin {"rsleep", "rasleep"}
    BY <2>1, <2>2 DEF ReadersWait
  <2> QED BY <2>3, Zenon DEF ReadersWait
<1>2. ASSUME NEW p \in Proc, Write(p) PROVE ReadersWait'
  <2>1. \/ pc' = [pc EXCEPT ![p] = "sysret"] /\ (~readopen \/ killed[p])
        \/ pc' = [WakeReaders(pc) EXCEPT ![p] = "sysret"]
        \/ pc' = [WakeReaders(pc) EXCEPT ![p] = "wsleep"]
    BY <1>2, WriteFacts, Zenon
  <2>2. pc[p] = "write" /\ plock = NoProc
    BY <1>2, Zenon DEF Write
  <2>3. wr[p] /\ ~killed[p] /\ \A q \in Proc : pc[q] \notin {"rsleep", "wsleep"}
    BY <2>2, PipeAssumption, Zenon DEF IInv, Ends, Locked, WritersLive, Writing
  <2>4. "sysret" \in Locations /\ "wsleep" \in Locations /\ pc \in [Proc -> Locations]
    BY Zenon DEF TypeOK, Locations
  <2>5. CASE pc' = [pc EXCEPT ![p] = "sysret"] /\ ~readopen
    <3>1. \A q \in Proc : ~rd[q]
      <4>1. Cardinality(Holders(rd)) = 0
        BY <2>5, Zenon DEF IInv, Ends
      <4> QED BY <4>1, Zenon DEF Counted, TypeOK
    <3>2. \A q \in Proc : pc[q] \notin Reading
      BY <3>1, Zenon DEF IInv, Ends
    <3>3. \A q \in Proc : pc'[q] \notin {"rsleep", "rasleep"}
      BY <2>4, <2>5, <3>2, MoveFacts, Zenon DEF Reading
    <3> QED BY <3>3, Zenon DEF ReadersWait
  <2>6. ASSUME NEW l \in {"sysret", "wsleep"}, pc' = [WakeReaders(pc) EXCEPT ![p] = l] PROVE ReadersWait'
    <3>1. pc'[p] = l /\ \A q \in Proc \ {p} : pc'[q] = IF pc[q] = "rasleep" THEN "read" ELSE pc[q]
      BY <2>4, <2>6, WakeReadersFacts, Zenon
    <3>2. \A q \in Proc : pc'[q] \notin {"rsleep", "rasleep"}
      BY <2>3, <3>1, Zenon
    <3> QED BY <3>2, Zenon DEF ReadersWait
  <2> QED BY <2>1, <2>3, <2>5, <2>6, Zenon
<1>3. ASSUME NEW p \in Proc, PipeCloseWrite(p) PROVE ReadersWait'
  <2>1. plock = NoProc /\ pc' = [WakeReaders(pc) EXCEPT ![p] = AfterClose(p)]
    BY <1>3, Zenon DEF PipeCloseWrite
  <2>2. AfterClose(p) \in {"exit", "sysret"} /\ AfterClose(p) \in Locations
    BY Zenon DEF AfterClose, Locations
  <2>3. pc'[p] \in {"exit", "sysret"} /\ \A q \in Proc \ {p} : pc'[q] = IF pc[q] = "rasleep" THEN "read" ELSE pc[q]
    BY <2>1, <2>2, WakeReadersFacts, Zenon DEF TypeOK
  <2>4. \A q \in Proc : pc'[q] \notin {"rsleep", "rasleep"}
    BY <2>1, <2>3, PipeAssumption DEF IInv, Locked
  <2> QED BY <2>4, Zenon DEF ReadersWait
<1>4. ASSUME NEW p \in Proc, PipeCloseRead(p) PROVE ReadersWait'
  <2>1. AfterClose(p) \in {"exit", "sysret"} /\ AfterClose(p) \in Locations
    BY Zenon DEF AfterClose, Locations
  <2>2. pc'[p] \in {"exit", "sysret"} /\ \A q \in Proc \ {p} : pc'[q] = IF pc[q] = "wasleep" THEN "write" ELSE pc[q]
    BY <1>4, <2>1, WakeWritersFacts, Zenon DEF PipeCloseRead, TypeOK
  <2>3. Others(p)
    BY <2>2, Zenon DEF Others
  <2> QED BY <1>4, <2>2, <2>3, ReadersStay, Zenon DEF PipeCloseRead
<1>5. ASSUME NEW p \in Proc, Kill(p) PROVE ReadersWait'
  <2>1. /\ \/ pc'[p] = pc[p] \/ pc'[p] \in {"read", "write"}
        /\ Others(p) /\ nread' = nread /\ nwrite' = nwrite /\ writeopen' = writeopen
    BY <1>5, Zenon DEF Kill, TypeOK, Others, pipe, Locations
  <2> QED BY <2>1, ReadersStay, Zenon
<1>6. ASSUME NEW p \in Proc, NEW l \in Locations, Goto(p, l), UNCHANGED pipe,
             l \in {"rsleep", "rasleep"} => pc[p] \in {"rsleep", "rasleep"} \/ (Empty /\ writeopen)
      PROVE  ReadersWait'
  <2>1. pc'[p] = l /\ Others(p)
    BY <1>6, Zenon DEF Goto, TypeOK, Others
  <2>2. nread' = nread /\ nwrite' = nwrite /\ writeopen' = writeopen
    BY <1>6, Zenon DEF pipe
  <2> QED BY <1>6, <2>1, <2>2, ReadersStay, Zenon
<1>7. ASSUME NEW p \in Proc, CloseRead(p) \/ CloseWrite(p) PROVE ReadersWait'
  <2>1. \E l \in {"exit", "sysret", "rclose", "wclose"} : Goto(p, l)
    BY <1>7, Zenon DEF CloseRead, CloseWrite, AfterClose
  <2>2. UNCHANGED pipe
    BY <1>7, Zenon DEF CloseRead, CloseWrite
  <2> QED BY <2>1, <2>2, <1>6, Zenon DEF Locations
<1>8. ASSUME NEW p \in Proc, SysRet(p) \/ Exit(p) \/ TrapExit(p) \/ Die(p) PROVE ReadersWait'
  <2>1. \E l \in {"user", "exit", "dead"} : Goto(p, l)
    BY <1>8, Zenon DEF SysRet, Exit, TrapExit, Die
  <2>2. UNCHANGED pipe
    BY <1>8, Zenon DEF SysRet, Exit, TrapExit, Die
  <2> QED BY <2>1, <2>2, <1>6, Zenon DEF Locations
<1>9. ASSUME NEW p \in Proc, ReadWait(p) PROVE ReadersWait'
  <2>1. Empty /\ writeopen /\ UNCHANGED pipe /\ \E l \in {"rsleep", "sysret"} : Goto(p, l)
    BY <1>9, Zenon DEF ReadWait
  <2> QED BY <2>1, <1>6, Zenon DEF Locations
<1>10. ASSUME NEW p \in Proc, Sleep(p, "rsleep", "rasleep") \/ Sleep(p, "wsleep", "wasleep") PROVE ReadersWait'
  BY <1>10, <1>6, Zenon DEF Sleep, Locations
<1>11. ASSUME NEW p \in Proc, NEW n, CallRead(p, n) \/ CallWrite(p, n) PROVE ReadersWait'
  BY <1>11, <1>6, Zenon DEF CallRead, CallWrite, Locations
<1>12. ASSUME NEW p \in Proc, KernelStep(p) \/ UserStep(p) PROVE ReadersWait'
  BY <1>1, <1>2, <1>3, <1>4, <1>7, <1>8, <1>9, <1>10, <1>11, <1>12, Zenon DEF KernelStep, UserStep
<1>13. CASE Idle \/ UNCHANGED vars
  BY <1>13 DEF Idle, vars, ReadersWait, Empty
<1> QED BY <1>5, <1>12, <1>13, Zenon DEF Next

-----------------------------------------------------------------------------
(* The ring as a FIFO *)

Pos(x) == (x % Modulus) % PIPESIZE

LEMMA PosIs == ASSUME NEW x \in Int PROVE Pos(x) = x % PIPESIZE /\ Pos(x) \in 0 .. PIPESIZE - 1
<1>1. Modulus % PIPESIZE = 0
  BY PipeAssumption, Zenon
<1>2. Pos(x) = x % PIPESIZE
  BY <1>1, Sizes, ModMod, Zenon DEF Pos
<1>3. x % PIPESIZE \in 0 .. PIPESIZE - 1
  BY Sizes, DivMod, Zenon
<1> QED BY <1>2, <1>3, Zenon

(* Positions less than PIPESIZE apart are different places of the ring. *)
LEMMA PosDistinct ==
  ASSUME NEW x \in Int, NEW y \in Int, x < y, y < x + PIPESIZE
  PROVE  Pos(x) # Pos(y)
BY PosIs, Sizes, ModDistinct, Zenon

(* The counters may wrap around: the place does not change by it. *)
LEMMA PosWrap ==
  ASSUME NEW a \in 0 .. Modulus - 1, NEW n \in 0 .. PIPESIZE, NEW k \in Int
  PROVE  Pos(((a + n) % Modulus) + k) = Pos(a + n + k)
<1>1. (a + n) % Modulus = IF a + n < Modulus THEN a + n ELSE a + n - Modulus
  BY WrapIs, Zenon
<1>2. (a + n - Modulus + k + Modulus) % Modulus = (a + n - Modulus + k) % Modulus
  <2>1. a + n - Modulus + k \in Int
    BY Sizes
  <2> QED BY <2>1, Sizes, ModAdd, Zenon
<1>3. a + n - Modulus + k + Modulus = a + n + k
  BY Sizes
<1>4. CASE a + n < Modulus
  BY <1>1, <1>4, Zenon
<1>5. CASE ~(a + n < Modulus)
  <2>1. (a + n) % Modulus = a + n - Modulus
    BY <1>1, <1>5, Zenon
  <2> QED BY <1>2, <1>3, <2>1, Zenon DEF Pos
<1> QED BY <1>4, <1>5, Zenon

LEMMA ContentsFacts ==
  ASSUME IInv
  PROVE  /\ contents \in Seq(Byte) /\ Len(contents) = count
         /\ contents = [k \in 1 .. count |-> data[Pos(nread + k - 1)]]
<1>1. contents = [k \in 1 .. count |-> data[Pos(nread + k - 1)]]
  BY Zenon DEF contents, Waiting, Pos
<1>2. count \in Nat
  BY CountFacts, Sizes
<1>3. ASSUME NEW k \in 1 .. count PROVE data[Pos(nread + k - 1)] \in Byte
  <2>1. nread + k - 1 \in Int /\ data \in [0 .. PIPESIZE - 1 -> Byte]
    BY <1>2, Sizes DEF IInv, TypeOK
  <2> QED BY <2>1, PosIs, Zenon
<1> QED BY <1>1, <1>2, <1>3

LEMMA SeqIs == ASSUME NEW S, NEW q \in Seq(S) PROVE q = [k \in 1 .. Len(q) |-> q[k]]
OBVIOUS

LEMMA PrefixIs ==
  ASSUME NEW S, NEW q \in Seq(S), NEW n \in 0 .. Len(q)
  PROVE  SubSeq(q, 1, n) \in Seq(S) /\ Len(SubSeq(q, 1, n)) = n /\ SubSeq(q, 1, n) \in [1 .. n -> S]
<1>1. SubSeq(q, 1, n) \in Seq(S) /\ Len(SubSeq(q, 1, n)) = n
  OBVIOUS
<1>2. \A r \in Seq(S) : Len(r) = n => r \in [1 .. n -> S]
  OBVIOUS
<1> QED BY <1>1, <1>2, Zenon

LEMMA ConcatIs ==
  ASSUME NEW S, NEW s \in Seq(S), NEW t \in Seq(S)
  PROVE  s \o t = [k \in 1 .. Len(s) + Len(t) |-> IF k <= Len(s) THEN s[k] ELSE t[k - Len(s)]]
<1>1. s \o t \in Seq(S) /\ Len(s \o t) = Len(s) + Len(t)
  OBVIOUS
<1>2. ASSUME NEW k \in 1 .. Len(s) + Len(t) PROVE (s \o t)[k] = IF k <= Len(s) THEN s[k] ELSE t[k - Len(s)]
  OBVIOUS
<1>3. s \o t = [k \in 1 .. Len(s \o t) |-> (s \o t)[k]]
  BY <1>1, SeqIs, Zenon
<1> QED BY <1>1, <1>2, <1>3, Zenon

(* pipewrite() appends, *)
LEMMA Appended ==
  ASSUME IInv, NEW s \in Seq(Byte), Len(s) <= PIPESIZE - count, data' = Stored(s), nread' = nread,
         count' = count + Len(s)
  PROVE  contents' = contents \o s
<1>. DEFINE n == Len(s)
<1>1. count \in 0 .. PIPESIZE /\ n \in 0 .. PIPESIZE - count /\ nread \in 0 .. Modulus - 1
  BY CountFacts, Sizes DEF IInv, TypeOK
<1>2. ASSUME NEW j \in 1 .. n PROVE Pos(nwrite + j - 1) = Pos(nread + count + j - 1)
  <2>1. nwrite = (nread + count) % Modulus
    <3>1. nwrite \in 0 .. Modulus - 1 /\ count = IF nwrite < nread THEN nwrite - nread + Modulus ELSE nwrite - nread
      BY CountFacts, DistIs, Zenon DEF IInv, TypeOK
    <3>2. (nread + count) % Modulus = IF nread + count < Modulus THEN nread + count ELSE nread + count - Modulus
      BY <1>1, WrapIs, Zenon
    <3> QED BY <1>1, <3>1, <3>2, Sizes
  <2>2. j - 1 \in Int
    BY <1>1
  <2>3. Pos(((nread + count) % Modulus) + (j - 1)) = Pos(nread + count + (j - 1))
    BY <1>1, <2>2, PosWrap, Zenon
  <2>4. nwrite + j - 1 = nwrite + (j - 1) /\ nread + count + j - 1 = nread + count + (j - 1)
    BY <1>1, Sizes, Zenon DEF IInv, TypeOK
  <2> QED BY <2>1, <2>3, <2>4, Zenon
<1>3. ASSUME NEW j \in 1 .. n PROVE data'[Pos(nread + count + j - 1)] = s[j]
  <2>. DEFINE i == Pos(nwrite + j - 1)
  <2>1. i \in 0 .. PIPESIZE - 1
    <3>1. nwrite + j - 1 \in Int
      BY <1>1, Sizes DEF IInv, TypeOK
    <3> QED BY <3>1, PosIs, Zenon
  <2>2. ASSUME NEW k \in 1 .. n, Pos(nwrite + k - 1) = i PROVE k = j
    <3>1. nwrite + k - 1 \in Int /\ nwrite + j - 1 \in Int
      BY <1>1, Sizes DEF IInv, TypeOK
    <3>2. CASE k < j
      <4>1. nwrite + k - 1 < nwrite + j - 1 /\ nwrite + j - 1 < nwrite + k - 1 + PIPESIZE
        BY <1>1, <3>2, Sizes DEF IInv, TypeOK
      <4> QED BY <2>2, <3>1, <4>1, PosDistinct, Zenon
    <3>3. CASE j < k
      <4>1. nwrite + j - 1 < nwrite + k - 1 /\ nwrite + k - 1 < nwrite + j - 1 + PIPESIZE
        BY <1>1, <3>3, Sizes DEF IInv, TypeOK
      <4> QED BY <2>2, <3>1, <4>1, PosDistinct, Zenon
    <3> QED BY <1>1, <3>2, <3>3
  <2>3. (CHOOSE k \in 1 .. n : Pos(nwrite + k - 1) = i) = j
    <3>. HIDE DEF i, n
    <3>1. Pos(nwrite + j - 1) = i
      BY Zenon DEF i
    <3> QED BY <2>2, <3>1, Zenon
  <2>4. data'[i] = s[j]
    BY <2>1, <2>3, Zenon DEF Stored, Pos
  <2> QED BY <1>2, <2>4, Zenon
<1>4. ASSUME NEW k \in 1 .. count PROVE data'[Pos(nread + k - 1)] = data[Pos(nread + k - 1)]
  <2>1. nread + k - 1 \in Int
    BY <1>1, Sizes
  <2>2. ASSUME NEW j \in 1 .. n PROVE Pos(nwrite + j - 1) # Pos(nread + k - 1)
    <3>1. /\ nread + count + j - 1 \in Int /\ nread + k - 1 < nread + count + j - 1
          /\ nread + count + j - 1 < nread + k - 1 + PIPESIZE
      BY <1>1, Sizes
    <3> QED BY <1>2, <2>1, <3>1, PosDistinct, Zenon
  <2>3. Pos(nread + k - 1) \in 0 .. PIPESIZE - 1
    BY <2>1, PosIs, Zenon
  <2> QED BY <2>2, <2>3, Zenon DEF Stored, Pos
<1>5. contents' = [k \in 1 .. count + n |-> data'[Pos(nread + k - 1)]]
  BY Zenon DEF contents, Waiting, Pos
<1>. HIDE DEF n
<1>6. ASSUME NEW k \in 1 .. count + n
      PROVE  data'[Pos(nread + k - 1)] = IF k <= count THEN contents[k] ELSE s[k - count]
  <2>1. CASE k <= count
    <3>1. k \in 1 .. count
      BY <1>1, <2>1
    <3> QED BY <1>4, <2>1, <3>1, ContentsFacts, Zenon
  <2>2. CASE ~(k <= count)
    <3>1. k - count \in 1 .. n /\ nread + count + (k - count) - 1 = nread + k - 1
      BY <1>1, <2>2, Sizes
    <3> QED BY <1>3, <2>2, <3>1, Zenon
  <2> QED BY <2>1, <2>2, Zenon
<1>7. contents \o s = [k \in 1 .. count + n |-> IF k <= count THEN contents[k] ELSE s[k - count]]
  <2>1. contents \in Seq(Byte) /\ Len(contents) = count
    BY ContentsFacts, Zenon
  <2>2. contents \o s = [k \in 1 .. Len(contents) + Len(s) |->
                            IF k <= Len(contents) THEN contents[k] ELSE s[k - Len(contents)]]
    BY <2>1, ConcatIs, Zenon
  <2> QED BY <2>1, <2>2, Zenon DEF n
<1> QED BY <1>5, <1>6, <1>7, Zenon

(* ... and piperead() takes from the head. *)
LEMMA Taken ==
  ASSUME IInv, NEW n \in 0 .. count, nread' = (nread + n) % Modulus, data' = data, count' = count - n
  PROVE  contents' = SubSeq(contents, n + 1, Len(contents))
<1>1. count \in 0 .. PIPESIZE /\ n \in 0 .. PIPESIZE /\ nread \in 0 .. Modulus - 1
  BY CountFacts, Sizes DEF IInv, TypeOK
<1>2. contents' = [k \in 1 .. count - n |-> data[Pos(((nread + n) % Modulus) + k - 1)]]
  BY Zenon DEF contents, Waiting, Pos
<1>3. ASSUME NEW k \in 1 .. count - n
      PROVE  data[Pos(((nread + n) % Modulus) + k - 1)] = contents[n + k]
  <2>1. k - 1 \in Int /\ n + k \in 1 .. count /\ nread + n + (k - 1) = nread + (n + k) - 1
    BY <1>1, Sizes
  <2>2. Pos(((nread + n) % Modulus) + (k - 1)) = Pos(nread + n + (k - 1))
    BY <1>1, <2>1, PosWrap, Zenon
  <2>3. ((nread + n) % Modulus) + k - 1 = ((nread + n) % Modulus) + (k - 1)
    <3>1. (nread + n) % Modulus \in Int
      BY <1>1, Sizes, DivMod
    <3> QED BY <2>1, <3>1, Zenon
  <2> QED BY <2>1, <2>2, <2>3, ContentsFacts, Zenon
<1>4. SubSeq(contents, n + 1, Len(contents)) = [k \in 1 .. count - n |-> contents[n + k]]
  <2>1. contents \in Seq(Byte) /\ Len(contents) = count
    BY ContentsFacts, Zenon
  <2> QED BY <1>1, <2>1, Sizes
<1> QED BY <1>2, <1>3, <1>4, Zenon

LEMMA RefineRead == ASSUME IInv, NEW p \in Proc, Read(p) PROVE [F!FNext]_(F!fvars)
<1>1. PICK n \in 0 .. count :
        /\ got' = [got EXCEPT ![p] = SubSeq(contents, 1, n)]
        /\ nread' = (nread + n) % Modulus
        /\ count' = count - n
        /\ n = 0 => count = 0 /\ ~writeopen
  BY ReadFacts, Zenon
<1>2. data' = data /\ writeopen' = writeopen
  BY Zenon DEF Read
<1>3. contents' = SubSeq(contents, n + 1, Len(contents))
  BY <1>1, <1>2, Taken, Zenon
<1>4. contents \in Seq(Byte) /\ Len(contents) = count /\ count \in Nat
  BY ContentsFacts, CountFacts, Sizes
<1>5. CASE n = 0
  <2>1. contents = <<>> /\ contents' = <<>> /\ SubSeq(contents, 1, n) = <<>>
    BY <1>1, <1>3, <1>4, <1>5
  <2>2. F!EndOfFile(p)
    BY <1>1, <1>2, <1>5, <2>1, Zenon DEF F!EndOfFile
  <2> QED BY <2>2, Zenon DEF F!FNext
<1>6. CASE n # 0
  <2>1. n \in 1 .. Len(contents)
    BY <1>4, <1>6
  <2>2. F!Get(p)
    BY <1>1, <1>2, <1>3, <2>1, Zenon DEF F!Get
  <2> QED BY <2>2, Zenon DEF F!FNext
<1> QED BY <1>5, <1>6, Zenon

LEMMA RefineWrite == ASSUME Counted, IInv, NEW p \in Proc, Write(p) PROVE [F!FNext]_(F!fvars)
<1>1. PICK n \in 0 .. PIPESIZE - count :
        /\ n <= Len(todo[p])
        /\ data' = Stored(SubSeq(todo[p], 1, n))
        /\ count' = count + n
  BY WriteFacts, Zenon
<1>2. nread' = nread /\ writeopen' = writeopen /\ got' = got /\ pc[p] = "write"
  BY Zenon DEF Write
<1>3. writeopen
  <2>1. wr[p] /\ wr \in [Proc -> BOOLEAN]
    BY <1>2, Zenon DEF IInv, Ends, Writing, TypeOK
  <2>2. wref # 0
    BY <2>1, Zenon DEF IInv, Ends, Counted
  <2> QED BY <2>2, Zenon DEF IInv, Ends
<1>. DEFINE s == SubSeq(todo[p], 1, n)
<1>4. s \in Seq(Byte) /\ Len(s) = n /\ s \in [1 .. n -> Byte]
  <2>1. todo[p] \in Seq(Byte) /\ n \in 0 .. Len(todo[p])
    BY <1>1, CountFacts, Sizes DEF IInv, TypeOK
  <2> QED BY <2>1, PrefixIs, Zenon
<1>5. contents' = contents \o s
  <2>. HIDE DEF s
  <2>1. Len(s) <= PIPESIZE - count
    BY <1>1, <1>4, CountFacts, Sizes
  <2>2. data' = Stored(s)
    BY <1>1, Zenon DEF s
  <2> QED BY <1>1, <1>2, <1>4, <2>1, <2>2, Appended, Zenon
<1>. HIDE DEF s
<1>6. contents \in Seq(Byte) /\ Len(contents) = count /\ count \in Nat
  BY ContentsFacts, CountFacts, Sizes
<1>7. CASE n = 0
  <2>1. contents' = contents
    BY <1>4, <1>5, <1>6, <1>7
  <2> QED BY <1>2, <2>1, Zenon DEF F!fvars
<1>8. CASE n # 0
  <2>1. n \in 1 .. PIPESIZE - Len(contents)
    BY <1>6, <1>8, Sizes
  <2>2. F!Put
    BY <1>2, <1>3, <1>4, <1>5, <2>1, Zenon DEF F!Put
  <2> QED BY <2>2, Zenon DEF F!FNext
<1> QED BY <1>7, <1>8, Zenon

LEMMA RefineQuiet ==
  ASSUME UNCHANGED <<nread, nwrite, data, writeopen, got>>
  PROVE  UNCHANGED (F!fvars)
<1>1. contents' = contents
  BY Zenon DEF contents, count, Waiting
<1> QED BY <1>1, Zenon DEF F!fvars

LEMMA RefineNext == ASSUME Counted, IInv, [Next]_vars PROVE [F!FNext]_(F!fvars)
<1>1. ASSUME NEW p \in Proc, SysRet(p) PROVE F!FNext
  <2>1. contents' = contents /\ writeopen' = writeopen /\ got' = [got EXCEPT ![p] = NoResult]
    BY <1>1, Zenon DEF SysRet, pipe, contents, count, Waiting
  <2> QED BY <2>1, Zenon DEF F!FNext, F!Return
<1>2. ASSUME NEW p \in Proc, PipeCloseWrite(p) PROVE F!FNext
  <2>1. contents' = contents /\ writeopen' = FALSE /\ got' = got
    BY <1>2, Zenon DEF PipeCloseWrite, contents, count, Waiting
  <2> QED BY <2>1, Zenon DEF F!FNext, F!End
<1>3. ASSUME NEW p \in Proc, KernelStep(p) PROVE [F!FNext]_(F!fvars)
  <2>1. CASE ReadWait(p) \/ Sleep(p, "rsleep", "rasleep") \/ Sleep(p, "wsleep", "wasleep") \/ TrapExit(p)
             \/ Die(p) \/ PipeCloseRead(p) \/ CloseRead(p) \/ CloseWrite(p)
    <3>1. UNCHANGED <<nread, nwrite, data, writeopen, got>>
      BY <2>1, Zenon DEF ReadWait, Sleep, TrapExit, Die, PipeCloseRead, CloseRead, CloseWrite, pipe
    <3> QED BY <3>1, RefineQuiet, Zenon
  <2> QED BY <1>1, <1>2, <1>3, <2>1, RefineRead, RefineWrite, Zenon DEF KernelStep
<1>4. ASSUME NEW p \in Proc, UserStep(p) \/ Kill(p) PROVE UNCHANGED (F!fvars)
  <2>1. UNCHANGED <<nread, nwrite, data, writeopen, got>>
    BY <1>4, Zenon DEF UserStep, CallRead, CallWrite, CloseRead, CloseWrite, Exit, Kill, pipe
  <2> QED BY <2>1, RefineQuiet, Zenon
<1>5. CASE Idle \/ UNCHANGED vars
  <2>1. UNCHANGED <<nread, nwrite, data, writeopen, got>>
    BY <1>5, Zenon DEF Idle, vars
  <2> QED BY <2>1, RefineQuiet, Zenon
<1> QED BY <1>3, <1>4, <1>5, Zenon DEF Next

LEMMA RefineInit == Counted /\ Init => F!FInit
<1> SUFFICES ASSUME Counted, Init PROVE F!FInit
  OBVIOUS
<1>1. nread = nwrite /\ writeopen = TRUE /\ got = [p \in Proc |-> NoResult]
  BY Zenon DEF Init
<1>2. contents = <<>>
  <2>1. IInv
    BY InitIInv, Zenon
  <2>2. count = 0
    BY <1>1, <2>1, CountFacts, Zenon DEF Empty
  <2> QED BY <2>1, <2>2, ContentsFacts
<1> QED BY <1>1, <1>2, Zenon DEF F!FInit

-----------------------------------------------------------------------------
(* The theorems *)

INSTANCE FiniteSetTheorems

LEMMA HoldersCounted == Counted
<1> SUFFICES ASSUME NEW f \in [Proc -> BOOLEAN]
             PROVE  /\ Cardinality(Holders(f)) \in Nat
                    /\ Cardinality(Holders(f)) = 0 => \A p \in Proc : ~f[p]
                    /\ \A p \in Proc : f[p] =>
                         /\ Cardinality(Holders(f)) # 0
                         /\ Cardinality(Holders([f EXCEPT ![p] = FALSE])) = Cardinality(Holders(f)) - 1
  BY Zenon DEF Counted
<1>1. IsFiniteSet(Holders(f))
  BY PipeAssumption, FS_Subset, Zenon DEF Holders
<1>2. Cardinality(Holders(f)) \in Nat
  BY <1>1, FS_CardinalityType, Zenon
<1>3. Cardinality(Holders(f)) = 0 <=> Holders(f) = {}
  BY <1>1, FS_EmptySet, Zenon
<1>4. ASSUME NEW p \in Proc, f[p]
      PROVE  Cardinality(Holders([f EXCEPT ![p] = FALSE])) = Cardinality(Holders(f)) - 1
  <2>1. Holders([f EXCEPT ![p] = FALSE]) = Holders(f) \ {p} /\ p \in Holders(f)
    BY <1>4, Zenon DEF Holders
  <2> QED BY <1>1, <2>1, FS_RemoveElement, Zenon
<1> QED BY <1>2, <1>3, <1>4, Zenon DEF Holders

LEMMA SpecIInv == Spec => []IInv
<1>1. Init => IInv
  BY InitIInv, HoldersCounted, Zenon
<1>2. IInv /\ [Next]_vars => IInv'
  BY NextIInv, HoldersCounted, Zenon
<1> QED BY <1>1, <1>2, PTL DEF Spec

(* Whoever closes, dies or is killed in whatever order: the page goes to    *)
(* kfree() after the last use (pipe.c, pipeclose(); file.c, fileclose()).   *)
THEOREM PipeNoUseAfterFree == Spec => []NoUseAfterFree
<1>1. IInv => NoUseAfterFree
  <2> SUFFICES ASSUME IInv, freed, NEW p \in Proc
               PROVE  ~rd[p] /\ ~wr[p] /\ pc[p] \in {"user", "sysret", "exit", "dead"}
    BY Zenon DEF NoUseAfterFree
  <2>1. ~readopen /\ ~writeopen /\ rref = 0 /\ wref = 0
    BY Zenon DEF IInv, Ends
  <2>2. Cardinality(Holders(rd)) = 0 /\ Cardinality(Holders(wr)) = 0
    BY <2>1, Zenon DEF IInv, Ends
  <2>3. ~rd[p] /\ ~wr[p]
    BY <2>2, HoldersCounted, Zenon DEF Counted, IInv, TypeOK
  <2>4. pc[p] \notin Reading /\ pc[p] \notin Writing /\ pc[p] # "rclose" /\ pc[p] # "wclose"
    BY <2>1, <2>3, Zenon DEF IInv, Ends
  <2>5. pc[p] \in Locations
    BY Zenon DEF IInv, TypeOK
  <2> QED BY <2>3, <2>4, <2>5, Zenon DEF Locations, Reading, Writing
<1> QED BY <1>1, SpecIInv, PTL

(* No wakeup is lost in either direction, whoever closes, is killed or      *)
(* sleeps again, as long as no writer is killed (pipe.c:85).                *)
THEOREM PipeSleeperHasReason ==
  ASSUME Killable \cap Writers = {}
  PROVE  Spec => []SleeperHasReason
<1>1. Init => ReadersWait /\ WritersLive
  <2> SUFFICES ASSUME Init PROVE ReadersWait /\ WritersLive
    OBVIOUS
  <2>1. /\ \A p \in Proc : pc[p] = "user" /\ killed[p] = FALSE
        /\ \A p \in Proc : wr[p] <=> p \in Writers
    BY Zenon DEF Init
  <2> QED BY <2>1, Zenon DEF ReadersWait, WritersLive
<1>2. IInv /\ ReadersWait /\ WritersLive /\ [Next]_vars => ReadersWait' /\ WritersLive'
  BY ReadersWaitStep, WritersLiveStep, HoldersCounted, Zenon
<1>3. IInv /\ ReadersWait => SleeperHasReason
  <2> SUFFICES ASSUME IInv, ReadersWait PROVE SleeperHasReason
    OBVIOUS
  <2>1. ReaderHasReason
    BY Zenon DEF ReadersWait, ReaderHasReason
  <2>2. ~(space = 0 /\ Empty)
    BY CountFacts, Sizes
  <2>3. WriterHasReason
    BY <2>1, <2>2, Zenon DEF IInv, WritersWait, WriterHasReason, ReaderHasReason
  <2> QED BY <2>1, <2>3, Zenon DEF SleeperHasReason
<1> QED BY <1>1, <1>2, <1>3, SpecIInv, PTL DEF Spec

(* Reads get what was written, in order, no byte twice and none lost, and   *)
(* end of file only after the last byte, also where the counters wrap.      *)
THEOREM PipeIsFifo == Spec => IsFifo
<1>1. Init => F!FInit
  BY RefineInit, HoldersCounted, Zenon
<1>2. IInv /\ [Next]_vars => [F!FNext]_(F!fvars)
  BY RefineNext, HoldersCounted, Zenon
<1> QED BY <1>1, <1>2, SpecIInv, PTL DEF Spec, IsFifo, F!FSpec

=============================================================================
