----------------------------- MODULE LogProofs -----------------------------
(***************************************************************************)
(* Proofs about the write-ahead log, for any processes, sectors, contents, *)
(* log capacity and number of crashes: the invariant LogInv, the           *)
(* write-ahead rule, and that the log implements atomic transactions.      *)
(***************************************************************************)
EXTENDS Log, TLAPS

IInv == TypeOK /\ LogInv

(* The header loops copy exactly the first n entries. *)
LEMMA CopyHeaderFacts ==
  ASSUME NEW from \in Header, NEW to \in Header
  PROVE  /\ CopyHeader(from, to) \in Header
         /\ CopyHeader(from, to).n = from.n
         /\ \A i \in 1 .. from.n : CopyHeader(from, to).sector[i] = from.sector[i]
BY LogAssumption DEF CopyHeader, Header

LEMMA ZeroHeaderFacts == ZeroHeader \in Header /\ ZeroHeader.n = 0
BY LogAssumption DEF ZeroHeader, Header

LEMMA GoodEmpty == ASSUME NEW h, h.n = 0 PROVE GoodHeader(h) /\ Logged(h) = {}
BY DEF GoodHeader, Logged

LEMMA GoodCopy ==
  ASSUME NEW h \in Header, NEW g \in Header, h.n = g.n, GoodHeader(h),
         \A i \in 1 .. h.n : g.sector[i] = h.sector[i]
  PROVE  GoodHeader(g) /\ Logged(g) = Logged(h)
BY DEF GoodHeader, Header, Logged

LEMMA InitIInv == Init => IInv
<1> SUFFICES ASSUME Init PROVE IInv
  OBVIOUS
<1>1. TypeOK
  <2>1. busy \in BOOLEAN
    BY Zenon DEF Init
  <2>2. pc \in [Proc -> Location]
    BY Zenon DEF Init, Location
  <2> QED BY <2>1, <2>2, ZeroHeaderFacts, LogAssumption DEF Init, TypeOK
<1>2. LogInv
  BY ZeroHeaderFacts, GoodEmpty, Zenon
  DEF Init, LogInv, OneWriter, Booting, Quiet, Collecting, Installing, Inside
<1> QED BY <1>1, <1>2, Zenon DEF IInv

LEMMA ReadHeadIInv == IInv /\ ReadHead => IInv'
<1> SUFFICES ASSUME IInv, ReadHead PROVE IInv'
  OBVIOUS
<1> USE DEF IInv, ReadHead, disks, caches
<1>1. lh' \in Header /\ lh'.n = dhead.n /\ \A i \in 1 .. lh'.n : lh'.sector[i] = dhead.sector[i]
  BY CopyHeaderFacts DEF TypeOK
<1>2. TypeOK'
  BY <1>1, Zenon DEF TypeOK
<1>3. GoodHeader(dhead)' /\ GoodHeader(lh)'
  BY <1>1, GoodCopy DEF LogInv, TypeOK, GoodHeader, Slot
<1>4. OneWriter' /\ Quiet' /\ Collecting' /\ Installing'
  BY Zenon DEF LogInv, OneWriter, Booting, Quiet, Collecting, Installing, Inside
<1>5. Booting'
  BY <1>1 DEF LogInv, Booting, SameHeader, InstalledPrefix, TypeOK, Header
<1> QED BY <1>2, <1>3, <1>4, <1>5, Zenon DEF LogInv

(* Installing one more block extends the installed prefix, wherever it is done. *)
LEMMA InstallOneFacts ==
  ASSUME IInv, InstallOne, SameHeader, InstalledPrefix
  PROVE  /\ disk' \in [Sector -> Data] /\ buf' \in [Sector -> Data] /\ pinned' \subseteq Sector
         /\ tail' \in 0 .. LOGSIZE
         /\ tail + 1 \in 1 .. lh.n /\ tail + 1 \in Slot /\ lh.sector[tail + 1] \in Sector
         /\ InstalledPrefix' /\ SameHeader'
<1> USE DEF IInv, InstallOne
<1>1. tail + 1 \in 1 .. lh.n /\ lh.n \in 0 .. LOGSIZE /\ tail + 1 \in 0 .. LOGSIZE
  BY LogAssumption DEF TypeOK, Header
<1>2. tail + 1 \in Slot /\ lh.sector[tail + 1] \in Sector
  BY <1>1, Zenon DEF LogInv, GoodHeader
<1>3. disk' \in [Sector -> Data] /\ buf' \in [Sector -> Data] /\ pinned' \subseteq Sector
  BY <1>2, Zenon DEF TypeOK
<1>4. SameHeader'
  BY Zenon DEF SameHeader
<1>5. \A i \in 1 .. tail : lh.sector[i] \in Sector /\ lh.sector[i] # lh.sector[tail + 1]
  BY <1>1 DEF LogInv, GoodHeader, InstalledPrefix, TypeOK
<1>6. InstalledPrefix'
  BY <1>1, <1>2, <1>5 DEF InstalledPrefix, TypeOK
<1> QED BY <1>1, <1>2, <1>3, <1>4, <1>6, Zenon

LEMMA RecoverInstallIInv == IInv /\ RecoverInstall => IInv'
<1> SUFFICES ASSUME IInv, RecoverInstall PROVE IInv'
  OBVIOUS
<1> USE DEF IInv, RecoverInstall, InstallOne
<1>1. SameHeader /\ InstalledPrefix /\ buf = disk /\ pinned = {} /\ \A p \in Proc : pc[p] = "out"
  BY Zenon DEF LogInv, Booting
<1>2. TypeOK' /\ InstalledPrefix' /\ SameHeader'
  BY <1>1, InstallOneFacts, Zenon DEF TypeOK
<1>3. GoodHeader(dhead)' /\ GoodHeader(lh)'
  BY Zenon DEF LogInv, GoodHeader, Slot
<1>4. OneWriter' /\ Quiet' /\ Collecting' /\ Installing'
  BY <1>1, Zenon DEF LogInv, OneWriter, Quiet, Collecting, Installing, Inside
<1>5. Booting'
  BY <1>1, <1>2, Zenon DEF Booting
<1> QED BY <1>2, <1>3, <1>4, <1>5, Zenon DEF LogInv

(* Erasing the header empties both headers. *)
LEMMA EraseFacts ==
  ASSUME IInv, Erase
  PROVE  /\ lh' \in Header /\ dhead' \in Header /\ lh'.n = 0 /\ dhead'.n = 0
         /\ GoodHeader(dhead)' /\ GoodHeader(lh)'
<1> USE DEF IInv, Erase
<1>1. lh' \in Header /\ lh'.n = 0
  BY LogAssumption DEF TypeOK, Header
<1>2. dhead' \in Header /\ dhead'.n = 0
  BY <1>1, CopyHeaderFacts, Zenon DEF TypeOK
<1>3. GoodHeader(dhead)' /\ GoodHeader(lh)'
  BY <1>1, <1>2 DEF GoodHeader
<1> QED BY <1>1, <1>2, <1>3, Zenon

LEMMA RecoverEraseIInv == IInv /\ RecoverErase => IInv'
<1> SUFFICES ASSUME IInv, RecoverErase PROVE IInv'
  OBVIOUS
<1> USE DEF IInv, RecoverErase
<1>1. buf = disk /\ pinned = {} /\ \A p \in Proc : pc[p] = "out"
  BY Zenon DEF LogInv, Booting
<1>2. /\ lh' \in Header /\ dhead' \in Header /\ lh'.n = 0 /\ dhead'.n = 0
      /\ GoodHeader(dhead)' /\ GoodHeader(lh)'
  BY EraseFacts, Zenon
<1> USE DEF Erase, caches
<1>3. TypeOK'
  BY <1>2, LogAssumption DEF TypeOK
<1>4. OneWriter' /\ Quiet' /\ Collecting' /\ Installing' /\ Booting'
  BY <1>1, <1>2, Zenon DEF LogInv, OneWriter, Quiet, Collecting, Installing, Inside, Booting
<1> QED BY <1>2, <1>3, <1>4, Zenon DEF LogInv

LEMMA BeginTransIInv == ASSUME NEW p \in Proc PROVE IInv /\ BeginTrans(p) => IInv'
<1> SUFFICES ASSUME IInv, BeginTrans(p) PROVE IInv'
  OBVIOUS
<1> USE DEF IInv, BeginTrans, disks, caches
<1>1. pc' \in [Proc -> Location] /\ \A q \in Proc \ {p} : pc'[q] = pc[q]
  BY Zenon DEF TypeOK, Location
<1>2. TypeOK'
  <2>1. busy' \in BOOLEAN
    BY Zenon
  <2> QED BY <1>1, <2>1, Zenon DEF TypeOK
<1>3. GoodHeader(dhead)' /\ GoodHeader(lh)'
  BY Zenon DEF LogInv, GoodHeader, Slot
<1>a. CASE busy
  <2>1. pc'[p] = "asleep"
    BY <1>a, Zenon DEF TypeOK
  <2>2. OneWriter'
    BY <2>1, <1>1, <1>a, Zenon DEF LogInv, OneWriter, Inside
  <2>3. Booting' /\ Quiet' /\ Collecting' /\ Installing'
    BY <2>1, <1>1 DEF LogInv, Booting, Quiet, Collecting, Installing, InCache, SameHeader, InstalledPrefix
  <2> QED BY <1>2, <1>3, <2>2, <2>3, Zenon DEF LogInv
<1>b. CASE ~busy
  <2>1. pc'[p] = "in"
    BY <1>b, Zenon DEF TypeOK
  <2>2. \A q \in Proc : pc[q] \notin Inside
    BY <1>b, Zenon DEF LogInv, OneWriter
  <2>3. lh.n = 0 /\ dhead.n = 0 /\ pinned = {} /\ buf = disk
    BY <2>2, Zenon DEF LogInv, Quiet, Inside
  <2>4. OneWriter'
    BY <2>1, <2>2, <1>1, Zenon DEF OneWriter, Inside
  <2>5. Booting' /\ Quiet' /\ Installing'
    BY <2>1, <2>2, <1>1, Zenon DEF Booting, Quiet, Installing, Inside
  <2>6. Collecting'
    BY <2>1, <2>2, <2>3, <1>1 DEF Collecting, InCache, Logged, Inside
  <2> QED BY <1>2, <1>3, <2>4, <2>5, <2>6, Zenon DEF LogInv
<1> QED BY <1>a, <1>b, Zenon

LEMMA KillIInv == ASSUME NEW p \in Proc PROVE IInv /\ Kill(p) => IInv'
<1> SUFFICES ASSUME IInv, Kill(p) PROVE IInv'
  OBVIOUS
<1> USE DEF IInv, Kill, disks, caches
<1>1. pc' \in [Proc -> Location] /\ pc'[p] = "begin" /\ \A q \in Proc \ {p} : pc'[q] = pc[q]
  BY Zenon DEF TypeOK, Location
<1>2. TypeOK'
  BY <1>1, Zenon DEF TypeOK
<1>3. GoodHeader(dhead)' /\ GoodHeader(lh)'
  BY Zenon DEF LogInv, GoodHeader, Slot
<1>4. OneWriter' /\ Booting' /\ Quiet' /\ Collecting' /\ Installing'
  BY <1>1 DEF LogInv, OneWriter, Inside, Booting, Quiet, Collecting, Installing, InCache, SameHeader, InstalledPrefix
<1> QED BY <1>2, <1>3, <1>4, Zenon DEF LogInv

(* The entry log_write() picks is the sector's own or the first free one. *)
LEMMA EntryFacts ==
  ASSUME IInv, ~TooBig, NEW s \in Sector
  PROVE  /\ Entry(s) \in 1 .. lh.n + 1 /\ Entry(s) \in 1 .. LOGSIZE /\ Entry(s) \in Slot
         /\ s \in Logged(lh) => Entry(s) \in 1 .. lh.n /\ lh.sector[Entry(s)] = s
         /\ s \notin Logged(lh) => Entry(s) = lh.n + 1
<1>n. lh.n \in 0 .. LOGSIZE /\ lh.n + 1 \in 1 .. LOGSIZE /\ lh.n + 1 \in Slot
  BY LogAssumption DEF IInv, TypeOK, Header, TooBig, Slot
<1>1. CASE s \in Logged(lh)
  <2>1. \E i \in 1 .. lh.n : lh.sector[i] = s
    BY <1>1, Zenon DEF Logged
  <2>2. Entry(s) \in 1 .. lh.n /\ lh.sector[Entry(s)] = s
    BY <1>1, <2>1, Zenon DEF Entry
  <2>3. Entry(s) \in Slot
    BY <2>2, Zenon DEF IInv, LogInv, GoodHeader
  <2> QED BY <1>n, <1>1, <2>2, <2>3, LogAssumption
<1>2. CASE s \notin Logged(lh)
  BY <1>n, <1>2, LogAssumption DEF Entry
<1> QED BY <1>1, <1>2, Zenon

LEMMA LogWriteIInv ==
  ASSUME NEW p \in Proc, NEW s \in Sector, NEW v \in Data
  PROVE  IInv /\ LogWrite(p, s, v) => IInv'
<1> SUFFICES ASSUME IInv, LogWrite(p, s, v) PROVE IInv'
  OBVIOUS
<1> DEFINE e == Entry(s)
<1>1. /\ e \in 1 .. lh.n + 1 /\ e \in 1 .. LOGSIZE /\ e \in Slot
      /\ s \in Logged(lh) => e \in 1 .. lh.n /\ lh.sector[e] = s
      /\ s \notin Logged(lh) => e = lh.n + 1
  BY EntryFacts, Zenon DEF LogWrite
<1>2. /\ buf' = [buf EXCEPT ![s] = v] /\ dlog' = [dlog EXCEPT ![e] = v]
      /\ lh' = [n |-> IF s \in Logged(lh) THEN lh.n ELSE lh.n + 1, sector |-> [lh.sector EXCEPT ![e] = s]]
      /\ pinned' = pinned \cup {s}
      /\ UNCHANGED <<disk, dhead, busy, tail, pc, sys, crashes>>
      /\ pc[p] = "in" /\ sys = "up"
  BY Zenon DEF LogWrite, Pin
<1> HIDE DEF e
<1> USE DEF IInv
<1>3. lh.n \in 0 .. LOGSIZE /\ lh.sector \in [1 .. LOGSIZE -> Sector \cup {NoSector}]
  BY Zenon DEF TypeOK, Header
<1>4. lh'.n \in 0 .. LOGSIZE /\ lh'.sector \in [1 .. LOGSIZE -> Sector \cup {NoSector}] /\ lh' \in Header
  BY <1>1, <1>2, <1>3 DEF Header
<1>5. TypeOK'
  BY <1>1, <1>2, <1>4, Zenon DEF TypeOK
<1>6. /\ lh'.sector[e] = s /\ e \in 1 .. lh'.n
      /\ \A i \in 1 .. lh'.n : i # e => i \in 1 .. lh.n /\ lh'.sector[i] = lh.sector[i]
      /\ \A i \in 1 .. lh.n : i # e => i \in 1 .. lh'.n /\ lh.sector[i] # s
  <2>1. \A i \in 1 .. lh.n : i # e => lh.sector[i] # s
    BY <1>1, Zenon DEF LogInv, GoodHeader, Logged
  <2>2. lh'.sector = [lh.sector EXCEPT ![e] = s] /\ (s \in Logged(lh) => lh'.n = lh.n)
        /\ (s \notin Logged(lh) => lh'.n = lh.n + 1)
    BY <1>2, Zenon
  <2>3. CASE s \in Logged(lh)
    BY <1>1, <1>3, <2>1, <2>2, <2>3, Zenon
  <2>4. CASE s \notin Logged(lh)
    <3>1. e = lh.n + 1 /\ lh'.n = lh.n + 1 /\ lh.n \in Nat
      BY <1>1, <1>3, <2>2, <2>4, LogAssumption
    <3>2. \A i \in 1 .. lh'.n : i # e => i \in 1 .. lh.n /\ i \in 1 .. LOGSIZE
      BY <3>1, <1>3, LogAssumption
    <3>3. \A i \in 1 .. lh'.n : i # e => lh'.sector[i] = lh.sector[i]
      BY <3>2, <1>3, <2>2, Zenon
    <3>4. lh'.sector[e] = s /\ e \in 1 .. lh'.n
      BY <3>1, <1>1, <1>3, <2>2, Zenon
    <3>5. \A i \in 1 .. lh.n : i \in 1 .. lh'.n
      BY <3>1
    <3> QED BY <3>2, <3>3, <3>4, <3>5, <2>1, Zenon
  <2> QED BY <2>3, <2>4, Zenon
<1>7. Logged(lh)' = Logged(lh) \cup {s}
  BY <1>1, <1>6, <1>3 DEF Logged
<1>8. GoodHeader(lh)'
  BY <1>1, <1>6, Zenon DEF LogInv, GoodHeader, Slot
<1>9. GoodHeader(dhead)'
  BY <1>2, Zenon DEF LogInv, GoodHeader, Slot
<1>10. OneWriter' /\ Booting' /\ Quiet'
  BY <1>2, Zenon DEF LogInv, OneWriter, Booting, Quiet
<1>11. Installing' /\ \A q \in Proc : pc[q] = "in" => q = p
  BY <1>2, Zenon DEF LogInv, OneWriter, Installing, Inside
<1>12. InCache'
  <2>1. InCache
    BY <1>2, Zenon DEF LogInv, Collecting
  <2>2. \A i \in 1 .. lh'.n : buf'[lh'.sector[i]] = dlog'[i]
    <3> SUFFICES ASSUME NEW i \in 1 .. lh'.n PROVE buf'[lh'.sector[i]] = dlog'[i]
      OBVIOUS
    <3>1. CASE i = e
      BY <3>1, <1>1, <1>2, <1>6 DEF TypeOK
    <3>2. CASE i # e
      <4>1. i \in 1 .. lh.n /\ lh'.sector[i] = lh.sector[i] /\ lh.sector[i] # s
        BY <3>2, <1>6, Zenon
      <4>2. i \in Slot /\ lh.sector[i] \in Sector
        BY <4>1, Zenon DEF LogInv, GoodHeader
      <4> QED BY <4>1, <4>2, <3>2, <2>1, <1>2, Zenon DEF TypeOK, InCache
    <3> QED BY <3>1, <3>2, Zenon
  <2>3. \A t \in Sector \ Logged(lh)' : buf'[t] = disk'[t]
    BY <2>1, <1>2, <1>7, Zenon DEF InCache, TypeOK
  <2> QED BY <2>2, <2>3, Zenon DEF InCache
<1>13. Collecting'
  BY <1>2, <1>7, <1>11, <1>12, Zenon DEF LogInv, Collecting
<1> QED BY <1>5, <1>8, <1>9, <1>10, <1>11, <1>13, Zenon DEF LogInv

(* A step that leaves the disk, the cache and both headers alone keeps them *)
(* well formed.                                                             *)
LEMMA PanicIInv == ASSUME NEW p \in Proc PROVE IInv /\ LogWritePanic(p) => IInv'
<1> SUFFICES ASSUME IInv, LogWritePanic(p) PROVE IInv'
  OBVIOUS
<1> USE DEF IInv, LogWritePanic, disks, caches
<1>1. TypeOK' /\ GoodHeader(dhead)' /\ GoodHeader(lh)'
  BY Zenon DEF LogInv, TypeOK, GoodHeader, Slot
<1>2. \A q \in Proc : pc[q] # "install"
  BY Zenon DEF LogInv, OneWriter, Inside
<1>3. OneWriter' /\ Booting' /\ Quiet' /\ Collecting' /\ Installing'
  BY <1>2, Zenon DEF LogInv, OneWriter, Inside, Booting, Quiet, Collecting, Installing, InCache
<1> QED BY <1>1, <1>3, Zenon DEF LogInv

LEMMA WriteHeadIInv == ASSUME NEW p \in Proc PROVE IInv /\ WriteHead(p) => IInv'
<1> SUFFICES ASSUME IInv, WriteHead(p) PROVE IInv'
  OBVIOUS
<1> USE DEF IInv, WriteHead, caches
<1>1. dhead' \in Header /\ dhead'.n = lh.n /\ \A i \in 1 .. lh.n : dhead'.sector[i] = lh.sector[i]
  BY CopyHeaderFacts, Zenon DEF TypeOK
<1>2. pc' \in [Proc -> Location] /\ pc'[p] = "install" /\ \A q \in Proc \ {p} : pc'[q] = pc[q]
  BY Zenon DEF TypeOK, Location
<1>3. TypeOK'
  BY <1>1, <1>2, LogAssumption DEF TypeOK
<1>4. GoodHeader(dhead)' /\ GoodHeader(lh)'
  BY <1>1, GoodCopy DEF LogInv, TypeOK, GoodHeader, Slot
<1>5. \A q \in Proc \ {p} : pc[q] \notin Inside
  BY Zenon DEF LogInv, OneWriter, Inside
<1>6. OneWriter' /\ Booting' /\ Quiet' /\ Collecting'
  BY <1>2, <1>5, Zenon DEF LogInv, OneWriter, Inside, Booting, Quiet, Collecting
<1>7. SameHeader' /\ InstalledPrefix' /\ InCache'
  BY <1>1 DEF LogInv, Collecting, SameHeader, InstalledPrefix, InCache, TypeOK, Header, Logged
<1>8. pinned' = {lh'.sector[i] : i \in tail' + 1 .. lh'.n}
  BY DEF LogInv, Collecting, Logged
<1>9. Installing'
  BY <1>2, <1>5, <1>7, <1>8, Zenon DEF Installing, Inside
<1> QED BY <1>3, <1>4, <1>6, <1>9, Zenon DEF LogInv

LEMMA CommitEmptyIInv == ASSUME NEW p \in Proc PROVE IInv /\ CommitEmpty(p) => IInv'
<1> SUFFICES ASSUME IInv, CommitEmpty(p) PROVE IInv'
  OBVIOUS
<1> USE DEF IInv, CommitEmpty, disks, caches
<1>1. pc' \in [Proc -> Location] /\ pc'[p] = "end" /\ \A q \in Proc \ {p} : pc'[q] = pc[q]
  BY Zenon DEF TypeOK, Location
<1>2. TypeOK' /\ GoodHeader(dhead)' /\ GoodHeader(lh)'
  BY <1>1 DEF LogInv, TypeOK, GoodHeader, Slot
<1>3. \A q \in Proc \ {p} : pc[q] \notin Inside
  BY Zenon DEF LogInv, OneWriter, Inside
<1>4. OneWriter' /\ Booting' /\ Collecting' /\ Installing'
  BY <1>1, <1>3, Zenon DEF LogInv, OneWriter, Inside, Booting, Collecting, Installing
<1>5. buf = disk /\ dhead.n = 0 /\ pinned = {}
  <2>1. dhead.n = 0 /\ pinned = Logged(lh) /\ InCache /\ Logged(lh) = {}
    BY GoodEmpty, Zenon DEF LogInv, Collecting
  <2> QED BY <2>1 DEF InCache, TypeOK
<1>6. Quiet'
  BY <1>5, Zenon DEF Quiet
<1> QED BY <1>2, <1>4, <1>6, Zenon DEF LogInv

LEMMA CommitInstallIInv == ASSUME NEW p \in Proc PROVE IInv /\ CommitInstall(p) => IInv'
<1> SUFFICES ASSUME IInv, CommitInstall(p) PROVE IInv'
  OBVIOUS
<1> USE DEF IInv, CommitInstall
<1>1. SameHeader /\ InstalledPrefix /\ InCache /\ pinned = {lh.sector[i] : i \in tail + 1 .. lh.n}
  BY Zenon DEF LogInv, Installing
<1>2. /\ disk' \in [Sector -> Data] /\ buf' \in [Sector -> Data] /\ pinned' \subseteq Sector
      /\ tail' \in 0 .. LOGSIZE
      /\ tail + 1 \in 1 .. lh.n /\ tail + 1 \in Slot /\ lh.sector[tail + 1] \in Sector
      /\ InstalledPrefix' /\ SameHeader'
  BY <1>1, InstallOneFacts, Zenon
<1> USE DEF InstallOne
<1>3. TypeOK' /\ GoodHeader(dhead)' /\ GoodHeader(lh)'
  BY <1>2, Zenon DEF LogInv, TypeOK, GoodHeader, Slot
<1>4. \A q \in Proc \ {p} : pc[q] \notin Inside
  BY Zenon DEF LogInv, OneWriter, Inside
<1>5. OneWriter' /\ Booting' /\ Quiet' /\ Collecting'
  BY <1>4, Zenon DEF LogInv, OneWriter, Inside, Booting, Quiet, Collecting
<1>6. buf' = buf
  BY <1>1, <1>2, Zenon DEF InCache, TypeOK
<1>7. InCache'
  BY <1>1, <1>2, <1>6 DEF InCache, TypeOK, Logged
<1>8. pinned' = {lh'.sector[i] : i \in tail' + 1 .. lh'.n}
  <2>1. tail \in Nat /\ lh.n \in Nat /\ tail + 1 \in 1 .. lh.n
    BY <1>2, LogAssumption DEF TypeOK, Header
  <2>2. \A i \in tail + 2 .. lh.n : lh.sector[i] # lh.sector[tail + 1]
    BY <2>1 DEF LogInv, GoodHeader
  <2>3. pinned' = {lh.sector[i] : i \in tail + 2 .. lh.n}
    BY <1>1, <2>1, <2>2
  <2> QED BY <2>1, <2>3
<1>9. Installing'
  BY <1>2, <1>7, <1>8, <1>4, Zenon DEF Installing, Inside
<1> QED BY <1>3, <1>5, <1>9, Zenon DEF LogInv

LEMMA CommitEraseIInv == ASSUME NEW p \in Proc PROVE IInv /\ CommitErase(p) => IInv'
<1> SUFFICES ASSUME IInv, CommitErase(p) PROVE IInv'
  OBVIOUS
<1> USE DEF IInv, CommitErase
<1>1. /\ lh' \in Header /\ dhead' \in Header /\ lh'.n = 0 /\ dhead'.n = 0
      /\ GoodHeader(dhead)' /\ GoodHeader(lh)'
  BY EraseFacts, Zenon
<1> USE DEF Erase, caches
<1>2. pc' \in [Proc -> Location] /\ pc'[p] = "end" /\ \A q \in Proc \ {p} : pc'[q] = pc[q]
  BY Zenon DEF TypeOK, Location
<1>3. TypeOK'
  BY <1>1, <1>2, LogAssumption DEF TypeOK
<1>4. \A q \in Proc \ {p} : pc[q] \notin Inside
  BY Zenon DEF LogInv, OneWriter, Inside
<1>5. OneWriter' /\ Booting' /\ Collecting' /\ Installing'
  BY <1>2, <1>4, Zenon DEF LogInv, OneWriter, Inside, Booting, Collecting, Installing
<1>6. InstalledPrefix /\ InCache /\ pinned = {lh.sector[i] : i \in tail + 1 .. lh.n}
  BY Zenon DEF LogInv, Installing
<1>7. pinned = {}
  BY <1>6 DEF TypeOK, Header
<1>8. buf = disk
  <2> SUFFICES ASSUME NEW s \in Sector PROVE buf[s] = disk[s]
    BY DEF TypeOK
  <2>1. CASE s \in Logged(lh)
    BY <2>1, <1>6 DEF Logged, InstalledPrefix, InCache
  <2>2. CASE s \notin Logged(lh)
    BY <2>2, <1>6, Zenon DEF InCache
  <2> QED BY <2>1, <2>2, Zenon
<1>9. Quiet'
  BY <1>1, <1>7, <1>8, Zenon DEF Quiet
<1> QED BY <1>1, <1>3, <1>5, <1>9, Zenon DEF LogInv

LEMMA EndTransIInv == ASSUME NEW p \in Proc PROVE IInv /\ EndTrans(p) => IInv'
<1> SUFFICES ASSUME IInv, EndTrans(p) PROVE IInv'
  OBVIOUS
<1> USE DEF IInv, EndTrans, disks, caches
<1>1. /\ pc' \in [Proc -> Location] /\ pc'[p] = "out"
      /\ \A q \in Proc : pc'[q] = pc[q] \/ pc'[q] \in {"out", "begin"}
  BY Zenon DEF TypeOK, Location, ReturnAndWakeup
<1>2. TypeOK'
  <2>1. busy' \in BOOLEAN
    BY Zenon
  <2> QED BY <1>1, <2>1, Zenon DEF TypeOK
<1>3. GoodHeader(dhead)' /\ GoodHeader(lh)'
  BY Zenon DEF LogInv, GoodHeader, Slot
<1>4. \A q \in Proc : pc'[q] \notin Inside
  BY <1>1, Zenon DEF LogInv, OneWriter, Inside
<1>5. OneWriter' /\ Booting' /\ Collecting' /\ Installing'
  BY <1>4, Zenon DEF OneWriter, Inside, Booting, Collecting, Installing
<1>6. \A q \in Proc : pc[q] \notin {"in", "install"}
  BY Zenon DEF LogInv, OneWriter, Inside
<1>7. Quiet'
  BY <1>6, Zenon DEF LogInv, Quiet
<1> QED BY <1>2, <1>3, <1>5, <1>7, Zenon DEF LogInv

LEMMA CrashIInv == IInv /\ Crash => IInv'
<1> SUFFICES ASSUME IInv, Crash PROVE IInv'
  OBVIOUS
<1> USE DEF IInv, Crash, disks
<1>1. lh' \in Header /\ lh'.n = 0 /\ GoodHeader(lh)' /\ GoodHeader(dhead)'
  BY ZeroHeaderFacts DEF LogInv, GoodHeader, Slot
<1>2. TypeOK'
  <2>1. busy' \in BOOLEAN
    BY Zenon
  <2>2. pc' \in [Proc -> Location]
    BY Zenon DEF Location
  <2> QED BY <1>1, <2>1, <2>2, LogAssumption DEF TypeOK
<1>3. OneWriter' /\ Booting' /\ Quiet' /\ Collecting' /\ Installing'
  BY Zenon DEF OneWriter, Inside, Booting, Quiet, Collecting, Installing
<1> QED BY <1>1, <1>2, <1>3, Zenon DEF LogInv

LEMMA StutterIInv == IInv /\ UNCHANGED vars => IInv'
<1> SUFFICES ASSUME IInv, UNCHANGED vars PROVE IInv'
  OBVIOUS
<1> USE DEF IInv, vars
<1>1. TypeOK'
  BY Zenon DEF TypeOK
<1>2. GoodHeader(dhead)' /\ GoodHeader(lh)'
  BY Zenon DEF LogInv, GoodHeader, Slot
<1>3. OneWriter'
  BY Zenon DEF LogInv, OneWriter, Inside
<1>4. Booting'
  BY Zenon DEF LogInv, Booting, SameHeader, InstalledPrefix
<1>5. Quiet'
  BY Zenon DEF LogInv, Quiet
<1>6. Collecting'
  BY Zenon DEF LogInv, Collecting, InCache, Logged
<1>7. Installing'
  <2>1. SameHeader' <=> SameHeader
    BY Zenon DEF SameHeader
  <2>2. InstalledPrefix' <=> InstalledPrefix
    BY Zenon DEF InstalledPrefix
  <2>3. InCache' <=> InCache
    BY Zenon DEF InCache, Logged
  <2> QED BY <2>1, <2>2, <2>3, Zenon DEF LogInv, Installing
<1> QED BY <1>1, <1>2, <1>3, <1>4, <1>5, <1>6, <1>7, Zenon DEF LogInv

LEMMA NextIInv == IInv /\ [Next]_vars => IInv'
<1> SUFFICES ASSUME IInv, [Next]_vars PROVE IInv'
  OBVIOUS
<1>1. CASE Recovery
  BY <1>1, ReadHeadIInv, RecoverInstallIInv, RecoverEraseIInv, Zenon DEF Recovery
<1>2. ASSUME NEW p \in Proc, Step(p) PROVE IInv'
  BY <1>2, BeginTransIInv, LogWriteIInv, PanicIInv, WriteHeadIInv, CommitEmptyIInv,
     CommitInstallIInv, CommitEraseIInv, EndTransIInv, Zenon DEF Step
<1>3. ASSUME NEW p \in Proc, Kill(p) PROVE IInv'
  BY <1>3, KillIInv, Zenon
<1>4. CASE Crash
  BY <1>4, CrashIInv, Zenon
<1>5. CASE Spin \/ UNCHANGED vars
  BY <1>5, StutterIInv, Zenon DEF Spin
<1> QED BY <1>1, <1>2, <1>3, <1>4, <1>5, Zenon DEF Next

LEMMA SpecIInv == Spec => []IInv
BY InitIInv, NextIInv, PTL DEF Spec

(* Every variable of log.c, on disk and in memory, keeps its type: in       *)
(* particular log.lh.n never passes LOGSIZE and install_trans()'s counter   *)
(* never passes it either.                                                  *)
THEOREM LogTypeCorrect == Spec => []TypeOK
BY SpecIInv, PTL DEF IInv

(* The log's invariant holds for every log size and number of crashes.      *)
THEOREM LogInvariant == Spec => []LogInv
BY SpecIInv, PTL DEF IInv

(* A clean buffer can always be recycled without losing an update.          *)
THEOREM LogEvictionSafe == Spec => []EvictionSafe
<1>1. IInv => EvictionSafe
  <2> SUFFICES ASSUME IInv, sys = "up", NEW s \in Sector \ pinned PROVE buf[s] = disk[s]
    BY Zenon DEF EvictionSafe
  <2> USE DEF IInv, LogInv
  <2>1. ASSUME NEW p \in Proc, pc[p] = "in" PROVE buf[s] = disk[s]
    BY <2>1, Zenon DEF Collecting, InCache
  <2>2. ASSUME NEW p \in Proc, pc[p] = "install" PROVE buf[s] = disk[s]
    <3>1. InCache /\ InstalledPrefix /\ pinned = {lh.sector[i] : i \in tail + 1 .. lh.n}
      BY <2>2, Zenon DEF Installing
    <3>2. CASE s \in Logged(lh)
      <4>1. PICK i \in 1 .. lh.n : lh.sector[i] = s
        BY <3>2, Zenon DEF Logged
      <4>2. i \in 1 .. tail
        BY <3>1, <4>1 DEF TypeOK, Header
      <4> QED BY <3>1, <4>1, <4>2, Zenon DEF InCache, InstalledPrefix
    <3> QED BY <3>1, <3>2, Zenon DEF InCache
  <2>3. CASE \A p \in Proc : pc[p] \notin {"in", "install"}
    BY <2>3, Zenon DEF Quiet
  <2> QED BY <2>1, <2>2, <2>3, Zenon
<1> QED BY <1>1, SpecIInv, PTL

-----------------------------------------------------------------------------
(* Overlay is the one assignment that agrees with the log blocks where the  *)
(* header names a sector and with the home sectors elsewhere.               *)
LEMMA OverlayFacts ==
  ASSUME NEW h \in Header, GoodHeader(h), NEW blocks \in [Slot -> Data], NEW home \in [Sector -> Data]
  PROVE  /\ Overlay(h, blocks, home) \in [Sector -> Data]
         /\ \A i \in 1 .. h.n : Overlay(h, blocks, home)[h.sector[i]] = blocks[i]
         /\ \A s \in Sector \ Logged(h) : Overlay(h, blocks, home)[s] = home[s]
<1> DEFINE at(s) == CHOOSE i \in 1 .. h.n : h.sector[i] = s
<1>1. \A s \in Logged(h) : at(s) \in 1 .. h.n /\ h.sector[at(s)] = s
  <2> SUFFICES ASSUME NEW s \in Logged(h) PROVE at(s) \in 1 .. h.n /\ h.sector[at(s)] = s
    OBVIOUS
  <2>1. \E i \in 1 .. h.n : h.sector[i] = s
    BY Zenon DEF Logged
  <2> QED BY <2>1, Zenon
<1>2. \A s \in Logged(h) : at(s) \in Slot
  BY <1>1, Zenon DEF GoodHeader
<1>3. \A i \in 1 .. h.n : h.sector[i] \in Logged(h) /\ h.sector[i] \in Sector
  BY Zenon DEF Logged, GoodHeader
<1>4. \A i \in 1 .. h.n : at(h.sector[i]) = i
  BY <1>1, <1>3, Zenon DEF GoodHeader
<1>5. Overlay(h, blocks, home) = [s \in Sector |-> IF s \in Logged(h) THEN blocks[at(s)] ELSE home[s]]
  BY Zenon DEF Overlay
<1> HIDE DEF at
<1> QED BY <1>2, <1>3, <1>4, <1>5

LEMMA OverlayUnique ==
  ASSUME NEW h \in Header, GoodHeader(h), NEW blocks \in [Slot -> Data], NEW home \in [Sector -> Data],
         NEW x \in [Sector -> Data],
         \A i \in 1 .. h.n : x[h.sector[i]] = blocks[i],
         \A s \in Sector \ Logged(h) : x[s] = home[s]
  PROVE  Overlay(h, blocks, home) = x
<1> DEFINE o == Overlay(h, blocks, home)
<1>1. /\ o \in [Sector -> Data]
      /\ \A i \in 1 .. h.n : o[h.sector[i]] = blocks[i]
      /\ \A s \in Sector \ Logged(h) : o[s] = home[s]
  BY OverlayFacts, Zenon
<1> HIDE DEF o
<1>2. \A s \in Logged(h) : o[s] = x[s]
  BY <1>1 DEF Logged
<1>3. \A s \in Sector : o[s] = x[s]
  BY <1>1, <1>2, Zenon
<1>4. o = x
  BY <1>1, <1>3
<1> QED BY <1>4, Zenon DEF o

LEMMA OverlayEmpty ==
  ASSUME NEW h \in Header, h.n = 0, NEW blocks \in [Slot -> Data], NEW home \in [Sector -> Data]
  PROVE  Overlay(h, blocks, home) = home
BY GoodEmpty, OverlayUnique

(* The process inside a transaction is the writer. *)
LEMMA WriterFacts ==
  ASSUME NEW loc \in [Proc -> Location]
  PROVE  /\ (\A p \in Proc : loc[p] \notin Inside) => WriterIn(loc) = NoProc
         /\ \A p \in Proc : loc[p] \in Inside /\ (\A q \in Proc \ {p} : loc[q] \notin Inside) => WriterIn(loc) = p
BY Zenon DEF WriterIn

(* In every state of the invariant the header on disk is well formed, and   *)
(* the committed contents are the log's blocks over the home sectors.       *)
LEMMA DiskTypes ==
  ASSUME IInv
  PROVE  dhead \in Header /\ GoodHeader(dhead) /\ dlog \in [Slot -> Data] /\ disk \in [Sector -> Data]
         /\ buf \in [Sector -> Data]
BY Zenon DEF IInv, LogInv, TypeOK

LEMMA AppliedFacts ==
  ASSUME IInv
  PROVE  /\ Applied(dhead) \in [Sector -> Data]
         /\ \A i \in 1 .. dhead.n : Applied(dhead)[dhead.sector[i]] = dlog[i]
         /\ \A s \in Sector \ Logged(dhead) : Applied(dhead)[s] = disk[s]
BY DiskTypes, OverlayFacts, Zenon DEF Applied

(* While a transaction is installed the committed contents are those the    *)
(* cache holds.                                                             *)
LEMMA AppliedInstalling ==
  ASSUME IInv, NEW p \in Proc, pc[p] = "install"
  PROVE  Applied(dhead) = buf
<1>1. SameHeader /\ InCache
  BY Zenon DEF IInv, LogInv, Installing
<1>2. \A i \in 1 .. dhead.n : buf[dhead.sector[i]] = dlog[i]
  BY <1>1, Zenon DEF SameHeader, InCache
<1>3. Logged(dhead) = Logged(lh)
  BY <1>1, GoodCopy, Zenon DEF IInv, LogInv, TypeOK, SameHeader
<1>4. \A s \in Sector \ Logged(dhead) : buf[s] = disk[s]
  BY <1>1, <1>3, Zenon DEF InCache
<1> QED BY <1>2, <1>4, DiskTypes, OverlayUnique, Zenon DEF Applied

(* The write-ahead rule, for every log size: install_trans() is the only    *)
(* code that changes home sectors, and what it writes is already committed. *)
LEMMA WriteAheadStep ==
  ASSUME IInv, [Next]_vars, NEW s \in Sector, disk'[s] # disk[s]
  PROVE  s \in Logged(dhead) /\ disk'[s] = Applied(dhead)[s]
<1>1. InstallOne /\ SameHeader
  <2>1. CASE RecoverInstall
    BY <2>1, Zenon DEF RecoverInstall, IInv, LogInv, Booting
  <2>2. ASSUME NEW p \in Proc, CommitInstall(p) PROVE InstallOne /\ SameHeader
    BY <2>2, Zenon DEF CommitInstall, IInv, LogInv, Installing
  <2> QED BY <2>1, <2>2, Zenon DEF Next, vars, Recovery, ReadHead, RecoverErase, Erase, Step, Kill, Crash, Spin, disks,
             BeginTrans, LogWrite, LogWritePanic, WriteHead, CommitEmpty, CommitErase, EndTrans
<1>2. tail + 1 \in 1 .. lh.n /\ s = lh.sector[tail + 1] /\ disk'[s] = dlog[tail + 1]
  BY <1>1 DEF InstallOne, IInv, TypeOK, Header
<1>3. tail + 1 \in 1 .. dhead.n /\ s = dhead.sector[tail + 1]
  BY <1>1, <1>2, Zenon DEF SameHeader
<1>4. Applied(dhead)[s] = dlog[tail + 1]
  BY <1>3, AppliedFacts, Zenon
<1> QED BY <1>2, <1>3, <1>4, Zenon DEF Logged

(* A home sector changes only to contents that a header on disk commits.    *)
THEOREM LogWriteAhead == Spec => WriteAhead
<1>1. IInv /\ [Next]_vars =>
        [\A s \in Sector : disk'[s] # disk[s] => s \in Logged(dhead) /\ disk'[s] = Applied(dhead)[s]]_vars
  BY WriteAheadStep, Zenon
<1> QED BY <1>1, SpecIInv, PTL DEF Spec, WriteAhead

-----------------------------------------------------------------------------
(* The initial states are initial states of AtomicDisk. *)
LEMMA RefineInit == Init => AD!DInit
<1> SUFFICES ASSUME Init PROVE AD!DInit
  OBVIOUS
<1>1. IInv
  BY InitIInv, Zenon
<1>2. Applied(dhead) \in [Sector -> Data]
  BY <1>1, AppliedFacts, Zenon
<1>3. WriterIn(pc) = NoProc
  BY <1>1, WriterFacts, Zenon DEF Init, IInv, TypeOK, Inside
<1>4. View = Applied(dhead)
  BY Zenon DEF Init, View
<1> QED BY <1>2, <1>3, <1>4, Zenon DEF AD!DInit

(* Only p is inside a transaction. *)
LEMMA SoleWriter ==
  ASSUME IInv, NEW p \in Proc, pc[p] \in Inside
  PROVE  WriterIn(pc) = p /\ \A q \in Proc \ {p} : pc[q] \notin Inside
BY WriterFacts, Zenon DEF IInv, LogInv, OneWriter, TypeOK

(* Steps of recovery change nothing that the abstract disk shows. *)
LEMMA RefineRecovery == ASSUME IInv, IInv', Recovery PROVE UNCHANGED AD!dvars
<1>1. CASE ReadHead
  BY <1>1 DEF ReadHead, disks, caches, AD!dvars, Applied, View, Overlay, Logged
<1>2. CASE RecoverInstall
  <2>1. SameHeader /\ InstalledPrefix /\ InstallOne /\ UNCHANGED <<pc, sys>> /\ sys = "recover"
    BY <1>2, Zenon DEF RecoverInstall, IInv, LogInv, Booting
  <2>2. tail + 1 \in 1 .. lh.n /\ tail + 1 \in Slot /\ lh.sector[tail + 1] \in Sector
    BY <2>1, InstallOneFacts, Zenon
  <2>3. disk' = [disk EXCEPT ![dhead.sector[tail + 1]] = dlog[tail + 1]]
    BY <2>1, <2>2, Zenon DEF InstallOne, SameHeader
  <2>4. tail + 1 \in 1 .. dhead.n /\ dhead.sector[tail + 1] \in Logged(dhead)
    BY <2>1, <2>2, Zenon DEF SameHeader, Logged
  <2>5. dhead' = dhead /\ dlog' = dlog
    BY <2>1, Zenon DEF InstallOne
  <2>6. \A i \in 1 .. dhead.n : Applied(dhead)[dhead.sector[i]] = dlog[i]
    BY AppliedFacts, Zenon
  <2>7. \A s \in Sector \ Logged(dhead) : Applied(dhead)[s] = disk'[s]
    BY <2>3, <2>4, DiskTypes, AppliedFacts, Zenon
  <2>8. Applied(dhead) \in [Sector -> Data]
    BY AppliedFacts, Zenon
  <2>9. Overlay(dhead, dlog, disk') = Applied(dhead)
    <3>1. disk' \in [Sector -> Data]
      BY Zenon DEF IInv, TypeOK
    <3> QED BY <2>6, <2>7, <2>8, <3>1, DiskTypes, OverlayUnique, Zenon
  <2>10. Applied(dhead)' = Applied(dhead)
    BY <2>5, <2>9, Zenon DEF Applied
  <2> QED BY <2>1, <2>10, Zenon DEF View, AD!dvars
<1>3. CASE RecoverErase
  <2>1. SameHeader /\ InstalledPrefix /\ buf = disk /\ sys = "recover" /\ sys' = "up" /\ Erase /\ pc' = pc
    BY <1>3, Zenon DEF RecoverErase, IInv, LogInv, Booting
  <2>2. dhead'.n = 0 /\ dhead' \in Header
    BY <2>1, EraseFacts, Zenon
  <2>3. disk' = disk /\ dlog' = dlog /\ buf' = buf /\ tail = lh.n
    BY <2>1, Zenon DEF Erase, caches
  <2>4. \A i \in 1 .. dhead.n : disk[dhead.sector[i]] = dlog[i]
    BY <2>1, <2>3, Zenon DEF SameHeader, InstalledPrefix
  <2>5. Applied(dhead) = disk
    BY <2>4, DiskTypes, OverlayUnique, Zenon DEF Applied
  <2>6. Applied(dhead)' = disk
    BY <2>2, <2>3, OverlayEmpty, Zenon DEF IInv, TypeOK, Applied
  <2> QED BY <2>1, <2>3, <2>5, <2>6, Zenon DEF View, AD!dvars
<1> QED BY <1>1, <1>2, <1>3, Zenon DEF Recovery

LEMMA RefineBegin == ASSUME IInv, IInv', NEW p \in Proc, BeginTrans(p) PROVE [AD!DNext]_(AD!dvars)
<1> USE DEF BeginTrans, disks, caches
<1>1. Applied(dhead)' = Applied(dhead) /\ View' = View
  BY DEF Applied, View, Overlay, Logged
<1>2. pc \in [Proc -> Location] /\ pc' \in [Proc -> Location]
  BY Zenon DEF IInv, TypeOK
<1>3. CASE busy
  <2>1. pc'[p] = "asleep" /\ \A q \in Proc \ {p} : pc'[q] = pc[q]
    BY <1>2, <1>3, Zenon
  <2>2. \A q \in Proc : pc'[q] \in Inside <=> pc[q] \in Inside
    BY <2>1, Zenon DEF Inside
  <2>3. PICK w \in Proc : pc[w] \in Inside
    BY <1>3, Zenon DEF IInv, LogInv, OneWriter
  <2>4. \A q \in Proc \ {w} : pc[q] \notin Inside
    BY <2>3, SoleWriter, Zenon
  <2>5. WriterIn(pc) = w /\ WriterIn(pc') = w
    BY <1>2, <2>2, <2>3, <2>4, WriterFacts, Zenon
  <2> QED BY <1>1, <2>5, Zenon DEF AD!dvars
<1>4. CASE ~busy
  <2>1. \A q \in Proc : pc[q] \notin Inside
    BY <1>4, Zenon DEF IInv, LogInv, OneWriter
  <2>2. pc'[p] \in Inside /\ \A q \in Proc \ {p} : pc'[q] \notin Inside
    BY <1>2, <1>4, <2>1, Zenon DEF Inside
  <2>3. WriterIn(pc) = NoProc /\ WriterIn(pc') = p
    BY <1>2, <2>1, <2>2, WriterFacts, Zenon
  <2>4. AD!Begin(p)
    BY <1>1, <2>3, Zenon DEF AD!Begin
  <2> QED BY <2>4, Zenon DEF AD!DNext
<1> QED BY <1>3, <1>4, Zenon

LEMMA RefineLogWrite ==
  ASSUME IInv, IInv', NEW p \in Proc, NEW s \in Sector, NEW v \in Data, LogWrite(p, s, v)
  PROVE  AD!Write(p, s, v)
<1> USE DEF LogWrite
<1>1. dhead.n = 0 /\ WriterIn(pc) = p
  BY SoleWriter, Zenon DEF IInv, LogInv, Collecting, Inside
<1>2. Applied(dhead)' = disk /\ Applied(dhead) = disk
  BY <1>1, OverlayEmpty, Zenon DEF IInv, TypeOK, Applied
<1>3. View = buf /\ View' = [buf EXCEPT ![s] = v]
  BY Zenon DEF View
<1> QED BY <1>1, <1>2, <1>3, Zenon DEF AD!Write

(* write_head() is the commit point. *)
LEMMA RefineWriteHead == ASSUME IInv, IInv', NEW p \in Proc, WriteHead(p) PROVE AD!Commit(p)
<1> USE DEF WriteHead, caches
<1>1. WriterIn(pc) = p
  BY SoleWriter, Zenon DEF Inside
<1>2. pc'[p] = "install" /\ pc' \in [Proc -> Location] /\ \A q \in Proc \ {p} : pc'[q] \notin Inside
  BY SoleWriter, Zenon DEF IInv, TypeOK, Inside
<1>3. WriterIn(pc') = p
  BY <1>2, WriterFacts, Zenon DEF Inside
<1>4. dhead'.n = lh.n /\ dhead' \in Header /\ \A i \in 1 .. lh.n : dhead'.sector[i] = lh.sector[i]
  BY CopyHeaderFacts DEF IInv, TypeOK
<1>5. Logged(dhead') = Logged(lh) /\ GoodHeader(dhead')
  BY <1>4, GoodCopy, Zenon DEF IInv, LogInv, TypeOK
<1>6. InCache
  BY Zenon DEF IInv, LogInv, Collecting
<1>7. Overlay(dhead', dlog, disk) = buf
  <2>1. \A i \in 1 .. dhead'.n : buf[dhead'.sector[i]] = dlog[i]
    BY <1>4, <1>6, Zenon DEF InCache
  <2>2. \A s \in Sector \ Logged(dhead') : buf[s] = disk[s]
    BY <1>5, <1>6, Zenon DEF InCache
  <2> QED BY <2>1, <2>2, <1>4, <1>5, OverlayUnique, Zenon DEF IInv, TypeOK
<1>8. Applied(dhead)' = buf
  BY <1>7, Zenon DEF Applied
<1>9. View = buf /\ View' = buf
  BY Zenon DEF View
<1> QED BY <1>1, <1>3, <1>8, <1>9, Zenon DEF AD!Commit

(* The rest of commit_trans() is invisible until log.busy is cleared. *)
LEMMA RefineFinish ==
  ASSUME IInv, IInv', NEW p \in Proc, CommitEmpty(p) \/ CommitInstall(p) \/ CommitErase(p)
  PROVE  UNCHANGED AD!dvars
<1>1. /\ pc[p] \in Inside /\ pc'[p] \in Inside /\ sys = "up" /\ sys' = "up"
      /\ \A q \in Proc \ {p} : pc'[q] = pc[q]
  BY Zenon DEF CommitEmpty, CommitInstall, CommitErase, Inside, IInv, TypeOK
<1>2. WriterIn(pc) = p /\ \A q \in Proc \ {p} : pc[q] \notin Inside
  BY <1>1, SoleWriter, Zenon
<1>3. WriterIn(pc') = p
  BY <1>1, <1>2, WriterFacts, Zenon DEF IInv, TypeOK
<1>4. View = buf /\ View' = buf'
  BY <1>1, Zenon DEF View
<1>5. CASE CommitEmpty(p)
  <2>1. Applied(dhead)' = Applied(dhead) /\ buf' = buf
    BY <1>5 DEF CommitEmpty, disks, caches, Applied, Overlay, Logged
  <2> QED BY <2>1, <1>2, <1>3, <1>4, Zenon DEF AD!dvars
<1>6. CASE CommitInstall(p)
  <2>1. SameHeader /\ InstalledPrefix /\ InCache /\ InstallOne
    BY <1>6, Zenon DEF CommitInstall, IInv, LogInv, Installing
  <2>2. tail + 1 \in 1 .. lh.n /\ lh.sector[tail + 1] \in Sector
    BY <2>1, InstallOneFacts, Zenon
  <2>3. buf' = buf /\ dhead' = dhead /\ dlog' = dlog
    BY <2>1, <2>2, Zenon DEF InstallOne, InCache, IInv, TypeOK
  <2>4. Applied(dhead) = buf
    BY <1>6, AppliedInstalling, Zenon DEF CommitInstall
  <2>5. dhead.sector[tail + 1] = lh.sector[tail + 1] /\ dhead.sector[tail + 1] \in Logged(dhead)
    BY <2>1, <2>2, Zenon DEF SameHeader, Logged
  <2>6. \A s \in Sector \ Logged(dhead) : buf[s] = disk'[s]
    <3>1. \A s \in Sector \ Logged(dhead) : buf[s] = disk[s]
      BY <2>4, AppliedFacts, Zenon
    <3> QED BY <3>1, <2>1, <2>5, DiskTypes, Zenon DEF InstallOne
  <2>7. \A i \in 1 .. dhead.n : buf[dhead.sector[i]] = dlog[i]
    BY <2>4, AppliedFacts, Zenon
  <2>8. Overlay(dhead, dlog, disk') = buf
    <3>1. disk' \in [Sector -> Data]
      BY Zenon DEF IInv, TypeOK
    <3> QED BY <2>6, <2>7, <3>1, DiskTypes, OverlayUnique, Zenon
  <2>9. Applied(dhead)' = buf
    BY <2>3, <2>8, Zenon DEF Applied
  <2> QED BY <2>3, <2>4, <2>9, <1>2, <1>3, <1>4, Zenon DEF AD!dvars
<1>7. CASE CommitErase(p)
  <2>1. Erase /\ pc[p] = "install" /\ pc'[p] = "end" /\ sys' = "up"
    BY <1>7, Zenon DEF CommitErase, IInv, TypeOK
  <2>2. dhead'.n = 0 /\ dhead' \in Header
    BY <2>1, EraseFacts, Zenon
  <2>3. disk' = disk /\ buf' = buf /\ dlog' = dlog
    BY <2>1, Zenon DEF Erase, caches
  <2>4. Applied(dhead)' = disk
    BY <2>2, <2>3, OverlayEmpty, Zenon DEF IInv, TypeOK, Applied
  <2>5. buf' = disk'
    <3>1. \A q \in Proc : pc'[q] \notin {"in", "install"}
      BY <1>1, <1>2, <2>1, Zenon DEF Inside
    <3> QED BY <3>1, <2>1, Zenon DEF IInv, LogInv, Quiet
  <2>6. Applied(dhead) = buf
    BY <2>1, AppliedInstalling, Zenon
  <2> QED BY <2>3, <2>4, <2>5, <2>6, <1>2, <1>3, <1>4, Zenon DEF AD!dvars
<1> QED BY <1>5, <1>6, <1>7, Zenon

LEMMA RefineEnd == ASSUME IInv, IInv', NEW p \in Proc, EndTrans(p) PROVE AD!End(p)
<1> USE DEF EndTrans, disks, caches
<1>1. WriterIn(pc) = p /\ \A q \in Proc \ {p} : pc[q] \notin Inside
  BY SoleWriter, Zenon DEF Inside
<1>2. \A q \in Proc : pc'[q] \notin Inside
  BY <1>1, Zenon DEF ReturnAndWakeup, Inside
<1>3. WriterIn(pc') = NoProc
  BY <1>2, WriterFacts, Zenon DEF IInv, TypeOK
<1>4. dhead.n = 0 /\ buf = disk
  BY <1>1, Zenon DEF IInv, LogInv, Quiet, Inside
<1>5. Applied(dhead) = disk /\ Applied(dhead)' = disk
  BY <1>4, OverlayEmpty, Zenon DEF IInv, TypeOK, Applied
<1>6. View = buf /\ View' = buf
  BY Zenon DEF View
<1> QED BY <1>1, <1>3, <1>4, <1>5, <1>6, Zenon DEF AD!End

LEMMA RefineCrash == ASSUME IInv, IInv', Crash PROVE AD!Lose
<1> USE DEF Crash, disks
<1>1. Applied(dhead)' = Applied(dhead)
  BY DEF Applied, Overlay, Logged
<1>2. View' = Applied(dhead)
  BY <1>1, Zenon DEF View
<1>3. WriterIn(pc') = NoProc
  BY WriterFacts, Zenon DEF IInv, TypeOK, Inside
<1> QED BY <1>1, <1>2, <1>3, Zenon DEF AD!Lose

(* kill() and a panic change nothing the abstract disk shows. *)
LEMMA RefineOther ==
  ASSUME IInv, IInv', NEW p \in Proc, Kill(p) \/ LogWritePanic(p)
  PROVE  UNCHANGED AD!dvars
<1>1. /\ Applied(dhead)' = Applied(dhead) /\ View' = View
  BY DEF Kill, LogWritePanic, disks, caches, Applied, View, Overlay, Logged
<1>2. \A q \in Proc : pc'[q] \in Inside <=> pc[q] \in Inside
  BY Zenon DEF Kill, LogWritePanic, Inside, IInv, TypeOK
<1>3. WriterIn(pc') = WriterIn(pc)
  <2>1. CASE \E w \in Proc : pc[w] \in Inside
    <3>1. PICK w \in Proc : pc[w] \in Inside
      BY <2>1, Zenon
    <3>2. WriterIn(pc) = w /\ \A q \in Proc \ {w} : pc[q] \notin Inside
      BY <3>1, SoleWriter, Zenon
    <3> QED BY <1>2, <3>1, <3>2, WriterFacts, Zenon DEF IInv, TypeOK
  <2>2. CASE \A w \in Proc : pc[w] \notin Inside
    BY <1>2, <2>2, WriterFacts, Zenon DEF IInv, TypeOK
  <2> QED BY <2>1, <2>2, Zenon
<1> QED BY <1>1, <1>3, Zenon DEF AD!dvars

LEMMA RefineNext == ASSUME IInv, IInv', [Next]_vars PROVE [AD!DNext]_(AD!dvars)
<1>1. CASE Recovery
  BY <1>1, RefineRecovery, Zenon
<1>2. ASSUME NEW p \in Proc, Step(p) PROVE [AD!DNext]_(AD!dvars)
  <2>1. CASE BeginTrans(p)
    BY <2>1, RefineBegin, Zenon
  <2>2. ASSUME NEW s \in Sector, NEW v \in Data, LogWrite(p, s, v) PROVE AD!DNext
    BY <2>2, RefineLogWrite, Zenon DEF AD!DNext
  <2>3. CASE WriteHead(p)
    BY <2>3, RefineWriteHead, Zenon DEF AD!DNext
  <2>4. CASE CommitEmpty(p) \/ CommitInstall(p) \/ CommitErase(p)
    BY <2>4, RefineFinish, Zenon
  <2>5. CASE EndTrans(p)
    BY <2>5, RefineEnd, Zenon DEF AD!DNext
  <2>6. CASE LogWritePanic(p)
    BY <2>6, RefineOther, Zenon
  <2> QED BY <1>2, <2>1, <2>2, <2>3, <2>4, <2>5, <2>6, Zenon DEF Step
<1>3. ASSUME NEW p \in Proc, Kill(p) PROVE [AD!DNext]_(AD!dvars)
  BY <1>3, RefineOther, Zenon
<1>4. CASE Crash
  BY <1>4, RefineCrash, Zenon DEF AD!DNext
<1>5. CASE Spin \/ UNCHANGED vars
  BY <1>5 DEF Spin, vars, AD!dvars, Applied, Overlay, Logged, View
<1> QED BY <1>1, <1>2, <1>3, <1>4, <1>5, Zenon DEF Next

(* The log implements transactions that are atomic across crashes, for any  *)
(* number of crashes at any points, those during recovery included.         *)
THEOREM LogIsAtomic == Spec => Atomic
BY RefineInit, RefineNext, SpecIInv, PTL DEF Spec, Atomic, AD!DSpec
=============================================================================
