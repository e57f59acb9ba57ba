---------------------------- MODULE InodeProofs -----------------------------
(***************************************************************************)
(* Theorems about Inode, for every number of processes, cache entries,     *)
(* files and names: the reference counts of inodes and files are exact,    *)
(* and ilock() and iput() never meet an entry that nobody refers to.  The  *)
(* steps proved here are those that change open files and current          *)
(* directories (open, close, chdir, exec, retprt, fork, exit), and boot.   *)
(***************************************************************************)
EXTENDS InodeStepProofs

(* Steps that change the directory or the file of a process *)

Changes(p, u, d, g) ==
  /\ DOMAIN th' = Proc /\ \A q \in Proc : th'[q] = IF q = p THEN u ELSE th[q]
  /\ cwd' = [cwd EXCEPT ![p] = d] /\ ofile' = [ofile EXCEPT ![p] = g]
Fits(u, d, g) ==
  /\ Thread(u) /\ ~Using(u) /\ d \in Ptr /\ g \in 0 .. NFILE
  /\ d = 0 => g = 0 /\ Place(u) = "idle"

(* Only entry f of the file table changes, and its inode only when no      *)
(* process but p has it open. *)
OnlyFile(p, f) ==
  /\ \A h \in File : h # f => ftable'[h] = ftable[h]
  /\ \A q \in Proc : q # p /\ ofile[q] = f => ftable'[f].ip = ftable[f].ip
Counted(p, g) == \A h \in File : ftable'[h].ref + Bit(ofile[p] = h) = ftable[h].ref + Bit(g = h)
Balanced(p, f) == \A s \in Slot : Balance(p, f, s)

LEMMA ChangeStep ==
  ASSUME Sums, IInv, NEW p \in Proc, NEW u, NEW d, NEW g, NEW f, Changes(p, u, d, g), Fits(u, d, g),
         OnlyFile(p, f), Files', Counted(p, g), Cache(icache'), Balanced(p, f)
  PROVE  IInv'
<1>1. /\ DOMAIN th' = Proc /\ cwd' \in [Proc -> Ptr] /\ ofile' \in [Proc -> 0 .. NFILE]
      /\ th'[p] = u /\ cwd'[p] = d /\ ofile'[p] = g
  BY DEF IInv, Changes, Fits
<1>2. \A q \in Proc : q # p => th'[q] = th[q] /\ cwd'[q] = cwd[q] /\ ofile'[q] = ofile[q]
  BY Zenon DEF IInv, Changes
<1>3. ASSUME NEW q \in Proc PROVE Process(q)'
  <2>1. CASE q = p
    BY <1>1, <2>1, Zenon DEF Process, Fits
  <2>2. CASE q # p
    <3>1. Process(q) /\ (ofile[q] # 0 => ofile[q] \in File)
      BY Facts, Zenon DEF IInv
    <3>2. ofile[q] # 0 => ftable'[ofile[q]].ip = ftable[ofile[q]].ip
      BY <2>2, <3>1, Zenon DEF OnlyFile
    <3> QED BY <1>2, <2>2, <3>1, <3>2, Zenon DEF Process
  <2> QED BY <2>1, <2>2, Zenon
<1>4. ASSUME NEW h \in File PROVE ftable'[h].ref = Cardinality({q \in Proc : ofile'[q] = h})
  <2>. DEFINE S == {q \in Proc : ofile[q] = h}
              T == {q \in Proc : ofile'[q] = h}
  <2>1. /\ Cardinality(S) \in Nat /\ Cardinality(T) \in Nat
        /\ Cardinality(T) + Bit(ofile[p] = h) = Cardinality(S) + Bit(ofile'[p] = h)
    <3>1. \A q \in Proc : q # p => ofile'[q] = ofile[q]
      BY <1>2, Zenon
    <3>2. S \in SUBSET Proc /\ T \in SUBSET Proc /\ \A x \in Proc : x # p => (x \in S <=> x \in T)
      BY <3>1, Zenon
    <3>3. (p \in S <=> ofile[p] = h) /\ (p \in T <=> ofile'[p] = h)
      BY Zenon
    <3>. HIDE DEF S, T
    <3>4. /\ Cardinality(S) \in Nat /\ Cardinality(T) \in Nat
          /\ Cardinality(T) + Bit(p \in S) = Cardinality(S) + Bit(p \in T)
      BY <3>2, FileFinite, CardStep DEF OneApart
    <3> QED BY <3>3, <3>4 DEF Bit
  <2>2. ftable[h].ref = Cardinality(S) /\ ftable'[h].ref \in Nat
    <3>1. ftable[h].ref = Cardinality(S)
      BY Zenon DEF IInv, RefExact
    <3>2. ftable'[h].ref \in Nat
      BY Zenon DEF Files
    <3> QED BY <3>1, <3>2
  <2>3. ftable'[h].ref + Bit(ofile[p] = h) = ftable[h].ref + Bit(ofile'[p] = h)
    BY <1>1, Zenon DEF Counted
  <2>4. Bit(ofile[p] = h) \in Nat
    BY DEF Bit
  <2>. HIDE DEF S, T
  <2>5. ftable'[h].ref = Cardinality(T)
    BY <2>1, <2>2, <2>3, <2>4
  <2> QED BY <2>5, Zenon DEF T
<1>5. ASSUME NEW s \in Slot
      PROVE  \/ icache'[s].ref = Pointers(s)'
             \/ icache'[s].inum = ROOTINO /\ icache'[s].ref > Pointers(s)'
  <2>1. \A h \in File : h # f => ftable'[h].ip = ftable[h].ip
    BY Zenon DEF OnlyFile
  <2>2. \A q \in Proc : q # p => th'[q] = th[q] /\ cwd'[q] = cwd[q]
    BY <1>2, Zenon
  <2>3. Balance(p, f, s)
    BY Zenon DEF Balanced
  <2> QED BY <2>1, <2>2, <2>3, RefStep, Zenon DEF Others, Right
<1>6. RefExact'
  BY <1>4, <1>5, Zenon DEF RefExact, inum
<1> QED BY <1>1, <1>3, <1>6, Zenon DEF IInv

(* The directory alone: p becomes u in directory d. *)
Weighs(p, u, d, s) ==
  /\ \/ icache'[s].ref + (Mine(th[p], s) + Bit(cwd[p] = s)) = icache[s].ref + (Mine(u, s) + Bit(d = s))
     \/ /\ icache'[s].inum = ROOTINO
        /\ icache'[s].ref + (Mine(th[p], s) + Bit(cwd[p] = s)) >= icache[s].ref + (Mine(u, s) + Bit(d = s))
  /\ icache'[s].inum = icache[s].inum \/ icache[s].ref = 0 \/ icache'[s].ref = 0

LEMMA MoveStep ==
  ASSUME Sums, IInv, NEW p \in Proc, NEW u, NEW d, Fits(u, d, ofile[p]), Cache(icache'),
         th' = [th EXCEPT ![p] = u], cwd' = [cwd EXCEPT ![p] = d], ofile' = ofile, ftable' = ftable,
         \A s \in Slot : Weighs(p, u, d, s)
  PROVE  IInv'
<1>1. Changes(p, u, d, ofile[p])
  BY DEF IInv, Changes
<1>2. OnlyFile(p, 0) /\ Files' /\ Counted(p, ofile[p])
  BY Zenon DEF OnlyFile, Counted, IInv, Files
<1>3. Balanced(p, 0)
  <2>1. ASSUME NEW s \in Slot PROVE Balance(p, 0, s)
    <3>1. /\ Mine(th[p], s) \in Nat /\ Mine(u, s) \in Nat /\ Bit(cwd[p] = s) \in Nat /\ Bit(d = s) \in Nat
          /\ Bit(0 \in File /\ ftable[0].ip = s) = 0
      BY InodeAssumption DEF Mine, Bit, File
    <3>2. th'[p] = u /\ cwd'[p] = d
      BY Zenon DEF IInv
    <3>. DEFINE old == Mine(th[p], s) + Bit(cwd[p] = s) + Bit(0 \in File /\ ftable[0].ip = s)
                new == Mine(u, s) + Bit(d = s) + Bit(0 \in File /\ ftable[0].ip = s)
    <3>3. old = Mine(th[p], s) + Bit(cwd[p] = s) /\ new = Mine(u, s) + Bit(d = s)
      BY <3>1
    <3>. HIDE DEF old, new
    <3>4. /\ \/ icache'[s].ref + old = icache[s].ref + new
             \/ icache'[s].inum = ROOTINO /\ icache'[s].ref + old >= icache[s].ref + new
          /\ icache'[s].inum = icache[s].inum \/ icache[s].ref = 0 \/ icache'[s].ref = 0
      <4>1. Weighs(p, u, d, s)
        BY Zenon
      <4> QED BY <3>3, <4>1 DEF Weighs
    <3>. USE DEF old, new
    <3> QED BY <3>2, <3>4, Zenon DEF Balance
  <2> QED BY <2>1, Zenon DEF Balanced
<1> QED BY <1>1, <1>2, <1>3, ChangeStep, Zenon

(* A process that puts its old directory c and is then done. *)
LEMMA PutLast ==
  ASSUME NEW v, Rec(v), v.cur = 0, v.ip = 0, v.dp = 0, v.aft = "idle", NEW c \in Slot,
         NEW u, u = ThenPut(v, c, "idle")
  PROVE  /\ Thread(u) /\ ~Using(u) /\ Place(u) = "idle"
         /\ \A s \in Slot : Mine(u, s) = Bit(c = s)
<1>1. /\ Rec(u) /\ u.pc = "iput" /\ u.k = "idle" /\ u.aft = "idle"
      /\ u.cur = 0 /\ u.ip = 0 /\ u.dp = 0 /\ u.pt = c
  BY PutIs DEF Left
<1>2. Thread(u)
  <2>1. ToPut(u)
    BY <1>1, Rooms DEF Puts, ToPut
  <2>2. u.pc \in Putting
    BY <1>1 DEF Putting
  <2> QED BY <2>1, <2>2, PutThread, Zenon
<1>3. ~Using(u) /\ Place(u) = "idle"
  BY <1>1 DEF Using, Place, Putting
<1>4. \A s \in Slot : Mine(u, s) = Bit(c = s)
  BY <1>1, Rooms DEF Mine, Bit
<1> QED BY <1>2, <1>3, <1>4, Zenon

(* It has another directory, with a reference that it has just taken ... *)
LEMMA MoveNew ==
  ASSUME Sums, IInv, NEW p \in Proc, th[p].pc \in {"root", "retget"}, NEW n \in Slot, More(icache, icache', n),
         th' = [th EXCEPT ![p] = ThenPut(th[p], cwd[p], "idle")], cwd' = [cwd EXCEPT ![p] = n],
         ofile' = ofile, ftable' = ftable
  PROVE  IInv'
<1>. DEFINE t == th[p]
<1>1. /\ Rec(t) /\ Place(t) # "idle" /\ t.pt = 0 /\ t.cur = 0 /\ t.ip = 0 /\ t.dp = 0 /\ t.aft = "idle"
  BY Plain DEF Walks, InPath, Putting, PlainAt
<1>2. cwd[p] \in Slot /\ n \in Ptr /\ n # 0 /\ ofile[p] \in 0 .. NFILE
  BY <1>1, Facts, Rooms
<1>3. PICK u : u = ThenPut(t, cwd[p], "idle")
  OBVIOUS
<1>4. Thread(u) /\ ~Using(u) /\ \A s \in Slot : Mine(u, s) = Bit(cwd[p] = s)
  BY <1>1, <1>2, <1>3, PutLast
<1>5. Fits(u, n, ofile[p]) /\ Cache(icache')
  BY <1>2, <1>4, Zenon DEF Fits, More
<1>6. ASSUME NEW s \in Slot PROVE Weighs(p, u, n, s)
  <2>1. Mine(t, s) = 0
    BY <1>1, Rooms DEF Mine, Bit
  <2>2. Mine(u, s) = Bit(cwd[p] = s) /\ Bit(cwd[p] = s) \in Nat /\ Bit(n = s) \in Nat
    BY <1>4 DEF Bit
  <2>3. icache'[s].ref = icache[s].ref + Bit(n = s) /\ icache[s].ref \in Nat
    BY Facts DEF More, Cache
  <2>4. icache'[s].ref + (Mine(t, s) + Bit(cwd[p] = s)) = icache[s].ref + (Mine(u, s) + Bit(n = s))
    BY <2>1, <2>2, <2>3
  <2> QED BY <2>4, Zenon DEF Weighs, More
<1> QED BY <1>3, <1>5, <1>6, MoveStep, Zenon

(* ... or with the one it had in a local variable. *)
LEMMA SysChdirStep == ASSUME Sums, IInv, NEW p \in Proc, SysChdir(p) PROVE IInv'
<1>. DEFINE t == th[p]
<1>1. t.pc = "chdir" /\ icache' = iunlock(icache, t.ip) /\ ofile' = ofile /\ ftable' = ftable
  BY Zenon DEF SysChdir, At, Step
<1>2. Kept(icache, icache')
  BY <1>1, Facts, UnlockKept
<1>3. CASE cwd' = cwd /\ th' = [th EXCEPT ![p] = PutIp(t, "idle")]
  BY <1>1, <1>2, <1>3, PutIpStep, Zenon DEF Becomes, PutsIp
<1>4. CASE /\ cwd' = [cwd EXCEPT ![p] = t.ip]
           /\ th' = [th EXCEPT ![p] = ThenPut([t EXCEPT !.ip = 0], cwd[p], "idle")]
  <2>1. /\ Rec(t) /\ Place(t) # "idle" /\ t.pt = 0 /\ t.cur = 0 /\ t.dp = 0 /\ t.aft = "idle"
        /\ t.ip \in Ptr /\ t.ip # 0
    BY <1>1, Plain DEF Walks, InPath, Putting, PlainAt
  <2>2. cwd[p] \in Slot /\ ofile[p] \in 0 .. NFILE
    BY <2>1, Facts
  <2>3. PICK v : v = [t EXCEPT !.ip = 0]
    OBVIOUS
  <2>4. Rec(v) /\ v.cur = 0 /\ v.ip = 0 /\ v.dp = 0 /\ v.aft = "idle"
    BY <2>1, <2>3 DEF Rec, Field
  <2>5. PICK u : u = ThenPut(v, cwd[p], "idle")
    OBVIOUS
  <2>6. Thread(u) /\ ~Using(u) /\ \A s \in Slot : Mine(u, s) = Bit(cwd[p] = s)
    BY <2>2, <2>4, <2>5, PutLast
  <2>7. Fits(u, t.ip, ofile[p]) /\ Cache(icache')
    BY <1>2, <2>1, <2>2, <2>6, Zenon DEF Fits, Kept
  <2>8. ASSUME NEW s \in Slot PROVE Weighs(p, u, t.ip, s)
    <3>1. Mine(t, s) = Bit(t.ip = s)
      BY <2>1, Rooms DEF Mine, Bit
    <3>2. Mine(u, s) = Bit(cwd[p] = s) /\ Bit(cwd[p] = s) \in Nat /\ Bit(t.ip = s) \in Nat
      BY <2>6 DEF Bit
    <3>3. icache'[s].ref = icache[s].ref /\ icache[s].ref \in Nat
      BY <1>2, Facts DEF Kept, Cache
    <3>4. icache'[s].ref + (Mine(t, s) + Bit(cwd[p] = s)) = icache[s].ref + (Mine(u, s) + Bit(t.ip = s))
      BY <3>1, <3>2, <3>3
    <3> QED BY <1>2, <3>4, Zenon DEF Weighs, Kept
  <2> QED BY <1>1, <1>4, <2>3, <2>5, <2>7, <2>8, MoveStep, Zenon
<1> QED BY <1>3, <1>4, Zenon DEF SysChdir, Step, Goto

LEMMA RetprtGetStep == ASSUME Sums, IInv, NEW p \in Proc, RetprtGet(p) PROVE IInv'
<1>1. th[p].pc = "retget" /\ ofile' = ofile /\ ftable' = ftable /\ Cache(icache)
  BY Facts DEF RetprtGet, At
<1>2. PICK i : /\ HasSlot(i) /\ icache' = Iget(i) /\ cwd' = [cwd EXCEPT ![p] = SlotOf(i)]
               /\ th' = [th EXCEPT ![p] = ThenPut(th[p], cwd[p], "idle")]
  BY Zenon DEF RetprtGet, Goto
<1>3. SlotOf(i) \in Slot /\ More(icache, icache', SlotOf(i))
  BY <1>1, <1>2, IgetMore, Zenon
<1> QED BY <1>1, <1>2, <1>3, MoveNew, Zenon

(* exec() and sys_retprt() keep a reference to the root in no variable. *)
LEMMA LeakStep ==
  ASSUME Sums, IInv, NEW p \in Proc, NEW u, NEW n \in Slot, More(icache, icache', n),
         icache'[n].inum = ROOTINO, Becomes(p, u), Thread(u), ~Using(u), Same(th[p], u),
         Place(th[p]) # "idle"
  PROVE  IInv'
<1>1. cwd[p] \in Slot /\ cwd[p] \in Ptr /\ cwd[p] # 0 /\ ofile[p] \in 0 .. NFILE
  BY Facts, Rooms
<1>2. Fits(u, cwd[p], ofile[p]) /\ Cache(icache')
  BY <1>1, Zenon DEF Fits, More
<1>3. cwd' = [cwd EXCEPT ![p] = cwd[p]]
  BY DEF Becomes, IInv
<1>4. ASSUME NEW s \in Slot PROVE Weighs(p, u, cwd[p], s)
  <2>1. Mine(u, s) = Mine(th[p], s) /\ Mine(th[p], s) \in Nat /\ Bit(cwd[p] = s) \in Nat
    BY DEF Same, Mine, Bit
  <2>2. /\ icache'[s].ref = icache[s].ref + Bit(n = s) /\ icache[s].ref \in Nat
        /\ icache'[s].inum = icache[s].inum \/ icache[s].ref = 0
    BY Facts DEF More, Cache
  <2>3. PICK m \in Nat : m = Mine(th[p], s) + Bit(cwd[p] = s) /\ m = Mine(u, s) + Bit(cwd[p] = s)
    BY <2>1
  <2>4. \/ icache'[s].ref + m = icache[s].ref + m
        \/ icache'[s].inum = ROOTINO /\ icache'[s].ref + m >= icache[s].ref + m
    BY <2>2 DEF Bit
  <2> QED BY <2>2, <2>3, <2>4, Zenon DEF Weighs
<1> QED BY <1>2, <1>3, <1>4, MoveStep, Zenon DEF Becomes

LEMMA RootStep == ASSUME Sums, IInv, NEW p \in Proc, Root(p) PROVE IInv'
<1>. DEFINE t == th[p]
            n == SlotOf(ROOTINO)
<1>1. /\ t.pc = "root" /\ HasSlot(ROOTINO) /\ icache' = Iget(ROOTINO)
      /\ ofile' = ofile /\ ftable' = ftable
  BY Zenon DEF Root, At
<1>2. n \in Slot /\ More(icache, icache', n) /\ icache'[n].inum = ROOTINO
  BY <1>1, Facts, IgetMore
<1>. HIDE DEF n
<1>3. /\ Rec(t) /\ Place(t) # "idle" /\ t.pt = 0 /\ t.cur = 0 /\ t.ip = 0 /\ t.dp = 0 /\ t.aft = "idle"
      /\ 0 \in Ptr
  BY <1>1, Plain DEF Walks, InPath, Putting, PlainAt
<1>4. CASE t.op = "exec" /\ cwd' = cwd /\ th' = [th EXCEPT ![p] = [t EXCEPT !.pc = "namex", !.to = t.path]]
  <2>1. PICK u : u = [t EXCEPT !.pc = "namex", !.to = t.path]
    OBVIOUS
  <2>2. /\ Rec(u) /\ u.pc = "namex" /\ u.op = "exec" /\ u.aft = "idle" /\ u.pt = 0 /\ u.cur = 0
        /\ u.ip = 0 /\ u.dp = 0
    BY <1>3, <1>4, <2>1 DEF Rec, Field
  <2>3. Thread(u) /\ ~Using(u)
    BY <1>3, <2>2, PlainThread DEF Putting, Walks, Parent, Using, Place, OnOwn
  <2>4. Same(t, u)
    BY <1>3, <2>2, Zenon DEF Same, Mine
  <2>5. Becomes(p, u)
    BY <1>1, <1>4, <2>1, Zenon DEF Becomes
  <2> QED BY <1>2, <1>3, <2>3, <2>4, <2>5, LeakStep, Zenon
<1>5. CASE cwd' = cwd /\ th' = [th EXCEPT ![p] = [t EXCEPT !.pc = "retprt"]]
  <2>1. PICK u : u = [t EXCEPT !.pc = "retprt"]
    OBVIOUS
  <2>2. /\ Rec(u) /\ u.pc = "retprt" /\ u.op = t.op /\ u.aft = t.aft
        /\ u.cur = t.cur /\ u.ip = t.ip /\ u.dp = t.dp /\ u.pt = t.pt
    BY <1>3, <2>1, GoIs DEF Left
  <2>3. Thread(u) /\ ~Using(u)
    BY <1>3, <2>2, PlainThread DEF Putting, Walks, Using, Place, OnOwn
  <2>4. Same(t, u)
    BY <2>2, Zenon DEF Same, Mine
  <2>5. Becomes(p, u)
    BY <1>1, <1>5, <2>1, Zenon DEF Becomes
  <2> QED BY <1>2, <1>3, <2>3, <2>4, <2>5, LeakStep, Zenon
<1>6. CASE cwd' = [cwd EXCEPT ![p] = n] /\ th' = [th EXCEPT ![p] = ThenPut(t, cwd[p], "idle")]
  BY <1>1, <1>2, <1>6, MoveNew, Zenon
<1> QED BY <1>4, <1>5, <1>6, Zenon DEF Root, Goto, n

LEMMA ExitStep == ASSUME Sums, IInv, NEW p \in Proc, Exit(p) PROVE IInv'
<1>1. /\ th[p].pc = "idle" /\ cwd[p] # 0 /\ ofile[p] = 0 /\ icache' = icache
      /\ ofile' = ofile /\ ftable' = ftable /\ cwd' = [cwd EXCEPT ![p] = 0]
      /\ th' = [th EXCEPT ![p] = ThenPut(th[p], cwd[p], "idle")]
  BY Zenon DEF Exit, At, Goto
<1>2. th[p] = Idle /\ cwd[p] \in Slot /\ 0 \in Ptr /\ Cache(icache')
  BY <1>1, AtIdle, Facts, Rooms
<1>3. PICK u : u = ThenPut(th[p], cwd[p], "idle")
  OBVIOUS
<1>4. Thread(u) /\ ~Using(u) /\ Place(u) = "idle" /\ \A s \in Slot : Mine(u, s) = Bit(cwd[p] = s)
  BY <1>2, <1>3, IdleIs, PutLast
<1>5. Fits(u, 0, ofile[p])
  BY <1>1, <1>2, <1>4, Facts DEF Fits
<1>6. ASSUME NEW s \in Slot PROVE Weighs(p, u, 0, s)
  <2>1. Mine(th[p], s) = 0 /\ Mine(u, s) = Bit(cwd[p] = s) /\ Bit(cwd[p] = s) \in Nat /\ Bit(0 = s) = 0
    BY <1>2, <1>4, IdleMine, Rooms DEF Bit
  <2>2. icache'[s].ref + (Mine(th[p], s) + Bit(cwd[p] = s)) = icache[s].ref + (Mine(u, s) + Bit(0 = s))
    BY <1>1, <2>1
  <2> QED BY <1>1, <2>2, Zenon DEF Weighs
<1> QED BY <1>1, <1>2, <1>3, <1>5, <1>6, MoveStep, Zenon

LEMMA Openers ==
  ASSUME Sums, IInv, NEW f \in File
  PROVE  /\ ftable[f].ref = 0 => \A q \in Proc : ofile[q] # f
         /\ ftable[f].ref <= 1 =>
              \A p \in Proc : ofile[p] = f => \A q \in Proc : q # p => ofile[q] # f
         /\ \A p \in Proc : ofile[p] = f => ftable[f].ref > 0 /\ ftable[f].ip # 0
<1>. DEFINE S == {q \in Proc : ofile[q] = f}
<1>1. ftable[f].ref = Cardinality(S) /\ S \in SUBSET Proc /\ IsFiniteSet(Proc)
  BY FileFinite, Zenon DEF IInv, RefExact
<1>2. Cardinality(S) \in Nat /\ (S # {} => Cardinality(S) >= 1)
  BY <1>1, AtLeastOne, Zenon
<1>3. ftable[f].ref = 0 => \A q \in Proc : ofile[q] # f
  BY <1>1, <1>2
<1>4. ASSUME NEW p \in Proc, ofile[p] = f PROVE ftable[f].ref > 0 /\ ftable[f].ip # 0
  <2>1. ftable[f].ref > 0
    BY <1>1, <1>2, <1>4
  <2> QED BY <2>1 DEF IInv, Files
<1>5. ASSUME ftable[f].ref <= 1, NEW p \in Proc, ofile[p] = f, NEW q \in Proc, q # p PROVE ofile[q] # f
  <2>. DEFINE T == S \ {p}
  <2>1. p \in S /\ p \notin T /\ T \in SUBSET Proc /\ \A x \in Proc : x # p => (x \in S <=> x \in T)
    BY <1>1, <1>5
  <2>. HIDE DEF S, T
  <2>2. Cardinality(T) \in Nat /\ Cardinality(T) + Bit(p \in S) = Cardinality(S) + Bit(p \in T)
    BY <1>1, <2>1, CardStep DEF OneApart
  <2>3. Cardinality(T) = 0
    BY <1>1, <1>2, <1>5, <2>1, <2>2 DEF Bit
  <2>4. T = {}
    BY <1>1, <2>1, <2>3, AtLeastOne
  <2> QED BY <1>5, <2>4, Zenon DEF S, T
<1> QED BY <1>3, <1>4, <1>5, Zenon

LEMMA SysOpenStep == ASSUME Sums, IInv, NEW p \in Proc, SysOpen(p) PROVE IInv'
<1>. DEFINE t == th[p]
            f == Min(FreeFiles)
<1>1. t.pc \in {"open", "opened"} /\ icache' = iunlock(icache, t.ip) /\ cwd' = cwd
  BY Zenon DEF SysOpen, At, Step
<1>2. Kept(icache, icache')
  BY <1>1, Facts, UnlockKept
<1>3. CASE ofile' = ofile /\ ftable' = ftable /\ th' = [th EXCEPT ![p] = PutIp(t, "idle")]
  BY <1>1, <1>2, <1>3, PutIpStep, Zenon DEF Becomes, PutsIp
<1>4. CASE /\ FreeFiles # {} /\ ofile[p] = 0 /\ th' = [th EXCEPT ![p] = Idle]
           /\ ftable' = [ftable EXCEPT ![f] = [ref |-> 1, ip |-> t.ip]]
           /\ ofile' = [ofile EXCEPT ![p] = f]
  <2>1. /\ Rec(t) /\ Place(t) # "idle" /\ t.pt = 0 /\ t.cur = 0 /\ t.dp = 0
        /\ t.ip \in Ptr /\ t.ip # 0
    BY <1>1, Plain DEF Walks, InPath, Putting, PlainAt
  <2>2. cwd[p] \in Slot /\ cwd[p] \in Ptr /\ cwd[p] # 0
    BY <2>1, Facts, Rooms
  <2>3. f \in FreeFiles
    BY <1>4, InodeAssumption, Smallest DEF FreeFiles, File
  <2>4. f \in File /\ ftable[f].ref = 0 /\ f \in 0 .. NFILE
    BY <2>3, InodeAssumption DEF FreeFiles, File
  <2>. HIDE DEF f
  <2>5. ftable[f].ip = 0 /\ Files' /\ ftable'[f].ip = t.ip /\ ftable'[f].ref = 1
    BY <1>4, <2>1, <2>4, Facts DEF Files
  <2>6. \A q \in Proc : ofile[q] # f
    BY <2>4, Openers
  <2>7. OnlyFile(p, f)
    BY <1>4, <2>6, Facts DEF OnlyFile, Files
  <2>8. Counted(p, f)
    <3>1. ASSUME NEW h \in File PROVE ftable'[h].ref + Bit(ofile[p] = h) = ftable[h].ref + Bit(f = h)
      <4>1. Bit(ofile[p] = h) = 0
        BY <1>4, InodeAssumption DEF Bit, File
      <4>2. CASE h = f
        BY <2>4, <2>5, <4>1, <4>2 DEF Bit
      <4>3. CASE h # f
        <5>1. ftable'[h] = ftable[h] /\ ftable[h].ref \in Nat
          BY <4>3, <2>7, Facts DEF OnlyFile, Files
        <5> QED BY <4>1, <4>3, <5>1 DEF Bit
      <4> QED BY <4>2, <4>3
    <3> QED BY <3>1, Zenon DEF Counted
  <2>9. Changes(p, Idle, cwd[p], f)
    BY <1>1, <1>4 DEF Changes, IInv
  <2>10. Fits(Idle, cwd[p], f)
    <3>1. ~Using(Idle)
      BY IdleIs DEF Using, Place, Putting
    <3> QED BY <2>2, <2>4, <3>1, IdleThread, Zenon DEF Fits
  <2>11. Balanced(p, f)
    <3>1. ASSUME NEW s \in Slot PROVE Balance(p, f, s)
      <4>1. Mine(t, s) = Bit(t.ip = s) /\ Mine(Idle, s) = 0 /\ Bit(f \in File /\ ftable[f].ip = s) = 0
        BY <2>1, <2>5, Rooms, IdleMine DEF Mine, Bit
      <4>2. th'[p] = Idle /\ cwd'[p] = cwd[p] /\ Bit(f \in File /\ ftable'[f].ip = s) = Bit(t.ip = s)
        BY <1>1, <1>4, <2>4, <2>5 DEF IInv
      <4>3. Bit(t.ip = s) \in Nat /\ Bit(cwd[p] = s) \in Nat
        BY DEF Bit
      <4>4. icache'[s].ref = icache[s].ref /\ icache'[s].inum = icache[s].inum
        BY <1>2, Zenon DEF Kept
      <4>5. Mine(t, s) + Bit(cwd[p] = s) + Bit(f \in File /\ ftable[f].ip = s)
            = Mine(Idle, s) + Bit(cwd[p] = s) + Bit(t.ip = s)
        BY <4>1, <4>3
      <4> QED BY <4>2, <4>4, <4>5 DEF Balance
    <3> QED BY <3>1, Zenon DEF Balanced
  <2> QED BY <1>2, <2>5, <2>7, <2>8, <2>9, <2>10, <2>11, ChangeStep, Zenon DEF Kept
<1> QED BY <1>3, <1>4, Zenon DEF SysOpen, Step, Goto

LEMMA SysCloseStep == ASSUME Sums, IInv, NEW p \in Proc, SysClose(p) PROVE IInv'
<1>. DEFINE f == ofile[p]
<1>1. /\ th[p].pc = "idle" /\ f # 0 /\ ofile' = [ofile EXCEPT ![p] = 0] /\ icache' = icache /\ cwd' = cwd
  BY Zenon DEF SysClose, At
<1>2. /\ th[p] = Idle /\ f \in File /\ cwd[p] \in Ptr /\ cwd[p] # 0 /\ Cache(icache') /\ Files
      /\ 0 \in 0 .. NFILE /\ 0 \notin File
  BY <1>1, AtIdle, Facts, InodeAssumption DEF File
<1>3. ftable[f].ref \in Nat /\ ftable[f].ref > 0 /\ ftable[f].ip # 0 /\ ftable[f].ip \in Ptr
  BY <1>2, Openers DEF Files
<1>4. ASSUME NEW h \in File PROVE Bit(0 = h) = 0 /\ ftable[h].ref \in Nat
  BY <1>2, <1>4 DEF Bit, Files
<1>5. CASE ftable[f].ref > 1 /\ ftable' = [ftable EXCEPT ![f].ref = @ - 1] /\ th' = th
  <2>1. Files' /\ ftable'[f].ref + 1 = ftable[f].ref /\ ftable'[f].ip = ftable[f].ip
    BY <1>2, <1>3, <1>5 DEF Files
  <2>2. OnlyFile(p, f)
    BY <1>2, <1>5, <2>1 DEF OnlyFile, Files
  <2>3. Counted(p, 0)
    <3>1. ASSUME NEW h \in File PROVE ftable'[h].ref + Bit(ofile[p] = h) = ftable[h].ref + Bit(0 = h)
      <4>1. CASE h = f
        BY <1>3, <1>4, <2>1, <4>1 DEF Bit
      <4>2. CASE h # f
        BY <1>4, <2>2, <4>2 DEF Bit, OnlyFile
      <4> QED BY <4>1, <4>2
    <3> QED BY <3>1, Zenon DEF Counted
  <2>4. Changes(p, Idle, cwd[p], 0)
    BY <1>1, <1>2, <1>5 DEF Changes, IInv
  <2>5. Fits(Idle, cwd[p], 0)
    <3>1. ~Using(Idle)
      BY IdleIs DEF Using, Place, Putting
    <3> QED BY <1>2, <3>1, IdleThread, Zenon DEF Fits
  <2>6. Balanced(p, f)
    <3>1. ASSUME NEW s \in Slot PROVE Balance(p, f, s)
      BY <1>1, <1>5, <2>1, Zenon DEF Balance
    <3> QED BY <3>1, Zenon DEF Balanced
  <2> QED BY <1>2, <2>1, <2>2, <2>3, <2>4, <2>5, <2>6, ChangeStep, Zenon
<1>6. CASE /\ ~ (ftable[f].ref > 1) /\ ftable' = [ftable EXCEPT ![f] = NoFile]
           /\ th' = [th EXCEPT ![p] = [th[p] EXCEPT !.pc = "begin", !.op = "close", !.ip = ftable[f].ip]]
  <2>1. PICK u : u = [th[p] EXCEPT !.pc = "begin", !.op = "close", !.ip = ftable[f].ip]
    OBVIOUS
  <2>2. /\ Rec(u) /\ u.pc = "begin" /\ u.op = "close" /\ u.aft = "idle" /\ u.cur = 0 /\ u.dp = 0
        /\ u.pt = 0 /\ u.ip = ftable[f].ip
    BY <1>2, <2>1, IdleIs DEF Rec, Field
  <2>3. Thread(u) /\ ~Using(u)
    BY <1>3, <2>2, Rooms, PlainThread DEF Putting, Walks, Using, Place, OnOwn
  <2>4. Files' /\ ftable'[f].ref = 0 /\ ftable'[f].ip = 0 /\ ftable[f].ref = 1
    BY <1>2, <1>3, <1>6, Rooms DEF Files, NoFile
  <2>5. \A q \in Proc : q # p => ofile[q] # f
    BY <1>2, <2>4, Openers
  <2>6. OnlyFile(p, f)
    BY <1>2, <1>6, <2>5 DEF OnlyFile, Files
  <2>7. Counted(p, 0)
    <3>1. ASSUME NEW h \in File PROVE ftable'[h].ref + Bit(ofile[p] = h) = ftable[h].ref + Bit(0 = h)
      <4>1. CASE h = f
        BY <1>3, <1>4, <2>4, <4>1 DEF Bit
      <4>2. CASE h # f
        BY <1>4, <2>6, <4>2 DEF Bit, OnlyFile
      <4> QED BY <4>1, <4>2
    <3> QED BY <3>1, Zenon DEF Counted
  <2>8. Changes(p, u, cwd[p], 0)
    BY <1>1, <1>6, <2>1 DEF Changes, IInv
  <2>9. Fits(u, cwd[p], 0)
    BY <1>2, <2>3, Zenon DEF Fits
  <2>10. Balanced(p, f)
    <3>1. ASSUME NEW s \in Slot PROVE Balance(p, f, s)
      <4>1. /\ Mine(th[p], s) = 0 /\ Mine(u, s) = Bit(ftable[f].ip = s)
            /\ Bit(f \in File /\ ftable'[f].ip = s) = 0
        BY <1>2, <2>2, <2>4, Rooms, IdleMine DEF Mine, Bit
      <4>2. th'[p] = u /\ cwd'[p] = cwd[p] /\ Bit(f \in File /\ ftable[f].ip = s) = Bit(ftable[f].ip = s)
        BY <1>1, <1>2, <1>6, <2>1 DEF IInv
      <4>3. Bit(ftable[f].ip = s) \in Nat /\ Bit(cwd[p] = s) \in Nat
        BY DEF Bit
      <4>4. Mine(th[p], s) + Bit(cwd[p] = s) + Bit(ftable[f].ip = s)
            = Mine(u, s) + Bit(cwd[p] = s) + Bit(f \in File /\ ftable'[f].ip = s)
        BY <4>1, <4>3
      <4> QED BY <1>1, <4>2, <4>4 DEF Balance
    <3> QED BY <3>1, Zenon DEF Balanced
  <2> QED BY <1>2, <2>4, <2>6, <2>7, <2>8, <2>9, <2>10, ChangeStep, Zenon
<1> QED BY <1>5, <1>6, Zenon DEF SysClose, Goto

LEMMA ForkStep == ASSUME Sums, IInv, NEW p \in Proc, NEW q \in Proc, Fork(p, q) PROVE IInv'
<1>. DEFINE f == ofile[p]
            n == cwd[p]
<1>1. /\ n # 0 /\ cwd[q] = 0 /\ th[q] = Idle /\ th' = th
      /\ cwd' = [cwd EXCEPT ![q] = n] /\ ofile' = [ofile EXCEPT ![q] = f] /\ icache' = idup(n)
      /\ ftable' = IF f = 0 THEN ftable ELSE [ftable EXCEPT ![f].ref = @ + 1]
  BY Zenon DEF Fork
<1>2. /\ n \in Slot /\ n \in Ptr /\ f \in 0 .. NFILE /\ (f # 0 => f \in File) /\ ofile[q] = 0 /\ Files
      /\ More(icache, icache', n) /\ 0 \notin File
  BY <1>1, Facts, Rooms, IdupMore, InodeAssumption DEF File
<1>3. ASSUME NEW h \in File
      PROVE  /\ ftable[h].ref \in Nat /\ ftable'[h].ip = ftable[h].ip
             /\ ftable'[h].ref + Bit(ofile[q] = h) = ftable[h].ref + Bit(f = h)
  <2>1. DOMAIN ftable = File /\ DOMAIN ftable[h] = {"ref", "ip"} /\ ftable[h].ref \in Nat
    BY <1>2, Zenon DEF Files
  <2>2. Bit(ofile[q] = h) = 0
    BY <1>2 DEF Bit
  <2>3. CASE h = f
    BY <1>1, <1>2, <2>1, <2>2, <2>3 DEF Bit
  <2>4. CASE h # f
    BY <1>1, <1>2, <2>1, <2>2, <2>4 DEF Bit
  <2> QED BY <2>3, <2>4
<1>4. OnlyFile(q, f) /\ Counted(q, f)
  <2>1. \A h \in File : h # f => ftable'[h] = ftable[h]
    BY <1>1, <1>2 DEF Files
  <2>2. ftable'[f].ip = ftable[f].ip
    BY <1>1, <1>2, <1>3
  <2> QED BY <1>3, <2>1, <2>2, Zenon DEF OnlyFile, Counted
<1>5. Files'
  BY <1>1, <1>2, Openers DEF Files
<1>6. Changes(q, Idle, n, f)
  BY <1>1 DEF Changes, IInv
<1>7. Fits(Idle, n, f)
  <2>1. ~Using(Idle)
    BY IdleIs DEF Using, Place, Putting
  <2> QED BY <1>1, <1>2, <2>1, IdleThread, Zenon DEF Fits
<1>8. Balanced(q, f)
  <2>1. ASSUME NEW s \in Slot PROVE Balance(q, f, s)
    <3>1. th'[q] = Idle /\ th[q] = Idle /\ cwd'[q] = n /\ Mine(Idle, s) = 0 /\ Bit(cwd[q] = s) = 0
      BY <1>1, IdleMine, Rooms DEF Bit, IInv
    <3>2. /\ icache'[s].ref = icache[s].ref + Bit(n = s) /\ icache[s].ref \in Nat
          /\ icache'[s].inum = icache[s].inum \/ icache[s].ref = 0
      BY <1>2, Facts DEF More, Cache
    <3>3. PICK m \in Nat : m = Bit(f \in File /\ ftable[f].ip = s) /\ m = Bit(f \in File /\ ftable'[f].ip = s)
      BY <1>3 DEF Bit
    <3>4. Bit(n = s) \in Nat
      BY DEF Bit
    <3>5. icache'[s].ref + (0 + 0 + m) = icache[s].ref + (0 + Bit(n = s) + m)
      BY <3>2, <3>4
    <3> QED BY <3>1, <3>2, <3>3, <3>5 DEF Balance
  <2> QED BY <2>1, Zenon DEF Balanced
<1> QED BY <1>2, <1>4, <1>5, <1>6, <1>7, <1>8, ChangeStep, Zenon DEF More

-----------------------------------------------------------------------------
(* All steps *)

LEMMA PanicStep ==
  ASSUME Sums, IInv, NEW p \in Proc,
         IlockSleep(p) \/ IlockPanic(p) \/ LogWritePanic(p) \/ LogRace(p) \/ IgetPanic(p) \/ IallocPanic(p)
  PROVE  IInv'
<1>1. icache' = icache /\ th' = th /\ cwd' = cwd /\ ofile' = ofile /\ ftable' = ftable
  BY Zenon DEF IlockSleep, IlockPanic, LogWritePanic, LogRace, IgetPanic, IallocPanic, Panic, procs
<1> QED BY <1>1, SameStep, Zenon

LEMMA KernelStep == ASSUME Sums, IInv, NEW p \in Proc, Kernel(p) PROVE IInv'
<1>1. CASE NameStep(p)
  BY <1>1, NamexStartStep, LookStep, IlockStep, PanicStep, Zenon DEF NameStep
<1>2. CASE PutStep(p)
  BY <1>2, IputStep, IputLastStep, ItruncStep, IputEndStep, PanicStep, Zenon DEF PutStep
<1>3. CASE CreateStep(p)
  BY <1>3, CreateFoundStep, CreateOldStep, IallocStep, PanicStep, CreateNewStep, PutIpCalls, SysOpenStep,
     Zenon DEF CreateStep
<1>4. CASE LinkStep(p)
  BY <1>4, SysUnlinkStep, SysUnlinkBadStep, SysUnlinkEraseStep, PutIpCalls, SysLinkStep, SysLinkEnterStep,
     Zenon DEF LinkStep
<1>5. CASE ExecStep(p)
  BY <1>5, SysChdirStep, RootStep, ReadEntryStep, ExecGetStep, PutIpCalls, RetprtGetStep, Zenon DEF ExecStep
<1>6. CASE Begin(p) \/ Commit(p) \/ Used(p)
  BY <1>6, BeginStep, CommitStep, UsedStep, Zenon
<1> QED BY <1>1, <1>2, <1>3, <1>4, <1>5, <1>6, Zenon DEF Kernel

LEMMA UserStep == ASSUME Sums, IInv, NEW p \in Proc, User(p) PROVE IInv'
BY SyscallStep, SysCloseStep, SysReadStep, SysWriteStep, ExitStep, ForkStep, Zenon DEF User

(* Whoever is about to lock an inode, or to put one, points to its entry,  *)
(* or has the file open that does. *)
LEMMA HeldRefs == ASSUME Sums, IInv PROVE RefsHeld
<1>1. ASSUME NEW p \in Proc, th[p].pc = "ilock" PROVE icache[th[p].lk].ref > 0
  <2>. DEFINE t == th[p]
  <2>1. Thread(t) /\ t.k \in Locks /\ Place(t) = t.k
    BY <1>1, Facts DEF Thread, Typed, Place
  <2>2. CASE t.k = "used"
    <3>1. ofile[p] # 0 /\ ofile[p] \in File /\ t.lk = ftable[ofile[p]].ip
      BY <1>1, <2>1, <2>2, Facts DEF Using
    <3>2. t.lk \in Slot
      BY <3>1, Facts, Openers, Rooms DEF Files
    <3> QED BY <3>1, <3>2, InUse
  <2>3. CASE t.k # "used"
    <3>1. /\ t.lk = Target(t) /\ t.cur \in Ptr /\ t.dp \in Ptr /\ t.ip \in Ptr
          /\ t.cur # 0 <=> t.k \in Walks
          /\ t.dp # 0 <=> HasDp(t)
          /\ t.ip # 0 <=> HasIp(t)
      BY <1>1, <2>1, <2>3, Zenon DEF Thread, Typed, Shape, Lock
    <3>2. CASE t.k = "look"
      <4>1. t.lk = t.cur /\ t.lk \in Slot
        BY <3>1, <3>2, Rooms DEF Target, Walks
      <4> QED BY <4>1, InUse
    <3>3. CASE t.k \in {"create", "unlink", "link2"}
      <4>1. t.lk = t.dp /\ t.lk \in Slot
        BY <2>1, <3>1, <3>3, Rooms DEF Target, HasDp
      <4> QED BY <4>1, InUse
    <3>4. CASE t.k \in {"open", "chdir", "exec", "link", "linkbad", "createold", "createnew", "erase"}
      <4>1. t.lk = t.ip /\ t.lk \in Slot
        BY <2>1, <3>1, <3>4, Rooms DEF Target, HasIp
      <4> QED BY <4>1, InUse
    <3> QED BY <2>1, <2>3, <3>2, <3>3, <3>4 DEF Locks
  <2> QED BY <2>2, <2>3
<1>2. ASSUME NEW p \in Proc, th[p].pc = "iput" PROVE icache[th[p].pt].ref > 0
  BY <1>2, PutInUse DEF Putting
<1> QED BY <1>1, <1>2, Zenon DEF RefsHeld

-----------------------------------------------------------------------------
(* Numbers and finite sets *)

INSTANCE FiniteSetTheorems

LEMMA Counting == Sums
<1>1. ASSUME NEW S \in SUBSET Nat, S # {} PROVE \E n \in S : \A m \in S : n <= m
  <2>. DEFINE R == {d \in Nat \X Nat : d[1] < d[2]}
  <2>1. IsWellFoundedOn(R, Nat)
    BY NatLessThanWellFounded DEF OpToRel
  <2>. HIDE DEF R
  <2>2. PICK n \in S : \A m \in S : ~(<<m, n>> \in R)
    BY <1>1, <2>1, WFMin, Zenon
  <2>3. ASSUME NEW m \in S PROVE n <= m
    <3>1. ~(m < n)
      BY <2>2 DEF R
    <3> QED BY <3>1
  <2> QED BY <2>3, Zenon
<1>2. ASSUME NEW A, IsFiniteSet(A), NEW S \in SUBSET A, NEW T \in SUBSET A, NEW p,
             \A x \in A : x # p => (x \in S <=> x \in T)
      PROVE  OneApart(S, T, p)
  <2>1. IsFiniteSet(S) /\ IsFiniteSet(T)
    BY <1>2, FS_Subset, Zenon
  <2>2. Cardinality(S) \in Nat /\ Cardinality(T) \in Nat
    BY <2>1, FS_CardinalityType, Zenon
  <2>3. CASE p \in S <=> p \in T
    <3>1. S = T
      BY <1>2, <2>3
    <3> QED BY <2>2, <2>3, <3>1 DEF OneApart
  <2>4. CASE p \in S /\ p \notin T
    <3>1. T = S \ {p}
      BY <1>2, <2>4
    <3>2. Cardinality(S \ {p}) = Cardinality(S) - 1
      BY <2>1, <2>4, FS_RemoveElement, Zenon
    <3> QED BY <2>2, <2>4, <3>1, <3>2 DEF Bit, OneApart
  <2>5. CASE p \notin S /\ p \in T
    <3>1. S = T \ {p}
      BY <1>2, <2>5
    <3>2. Cardinality(T \ {p}) = Cardinality(T) - 1
      BY <2>1, <2>5, FS_RemoveElement, Zenon
    <3> QED BY <2>2, <2>5, <3>1, <3>2 DEF Bit, OneApart
  <2> QED BY <2>3, <2>4, <2>5, Zenon
<1>3. ASSUME NEW A, IsFiniteSet(A), NEW S \in SUBSET A
      PROVE  Cardinality(S) \in Nat /\ (S # {} => Cardinality(S) >= 1)
  <2>1. IsFiniteSet(S)
    BY <1>3, FS_Subset, Zenon
  <2>2. Cardinality(S) \in Nat /\ (Cardinality(S) = 0 <=> S = {})
    BY <2>1, FS_CardinalityType, FS_EmptySet, Zenon
  <2> QED BY <2>2
<1>4. IsFiniteSet(File)
  BY InodeAssumption, FS_Interval DEF File
<1> QED BY <1>1, <1>2, <1>3, <1>4, Zenon DEF Sums

-----------------------------------------------------------------------------
(* Boot, at the start and after a crash *)

Booted ==
  /\ \E d : icache = BootCache(d)
  /\ cwd = BootCwd
  /\ th = [p \in Proc |-> Idle]
  /\ ofile = [p \in Proc |-> 0] /\ ftable = [f \in File |-> NoFile]

LEMMA BootCount ==
  ASSUME Booted, NEW s \in Slot
  PROVE  /\ s # 1 => Pointers(s) = 0
         /\ s = 1 => Pointers(s) = 1
<1>1. InitProc \in Proc
  BY InodeAssumption DEF InitProc
<1>2. {p \in Proc : cwd[p] = s} = IF s = 1 THEN {InitProc} ELSE {}
  BY <1>1, Rooms DEF Booted, BootCwd
<1>3. {f \in File : ftable[f].ip = s} = {}
  BY Rooms DEF Booted, NoFile
<1>4. /\ {p \in Proc : th[p].cur = s} = {} /\ {p \in Proc : th[p].ip = s} = {}
      /\ {p \in Proc : th[p].dp = s} = {} /\ {p \in Proc : th[p].pt = s} = {}
  BY Rooms, IdleIs DEF Booted
<1>5. Cardinality({}) = 0 /\ Cardinality({InitProc}) = 1
  BY FS_EmptySet, FS_Singleton
<1>6. Pointers(s) = Cardinality(IF s = 1 THEN {InitProc} ELSE {}) + Cardinality({}) + Cardinality({})
                    + Cardinality({}) + Cardinality({}) + Cardinality({})
  BY <1>2, <1>3, <1>4, Zenon DEF Pointers
<1> QED BY <1>5, <1>6

LEMMA BootRefs == Booted => IInv
<1>. SUFFICES ASSUME Booted PROVE IInv
  OBVIOUS
<1>1. DOMAIN th = Proc /\ cwd \in [Proc -> Ptr] /\ ofile \in [Proc -> 0 .. NFILE]
  BY Rooms, InodeAssumption DEF Booted, BootCwd
<1>2. PICK d : icache = BootCache(d)
  BY DEF Booted
<1>3. Cache(icache)
  BY <1>2 DEF Cache, BootCache, RootSlot, NoSlot, SlotField
<1>4. Files
  BY Rooms DEF Booted, Files, NoFile
<1>5. ASSUME NEW p \in Proc PROVE Process(p)
  <2>1. th[p] = Idle /\ ofile[p] = 0
    BY DEF Booted
  <2>2. ~Using(Idle) /\ Place(Idle) = "idle"
    BY IdleIs DEF Using, Place, Putting
  <2> QED BY <2>1, <2>2, IdleThread, Zenon DEF Process
<1>6. ASSUME NEW f \in File PROVE ftable[f].ref = Cardinality({p \in Proc : ofile[p] = f})
  <2>1. ftable[f].ref = 0 /\ {p \in Proc : ofile[p] = f} = {}
    BY InodeAssumption DEF Booted, NoFile, File
  <2> QED BY <2>1, FS_EmptySet
<1>7. ASSUME NEW s \in Slot
      PROVE  \/ icache[s].ref = Pointers(s)
             \/ inum(s) = ROOTINO /\ icache[s].ref > Pointers(s)
  <2>1. CASE s = 1
    <3>1. icache[s].ref = 2 /\ inum(s) = ROOTINO
      BY <1>2, <2>1 DEF BootCache, RootSlot, inum
    <3> QED BY <2>1, <3>1, BootCount
  <2>2. CASE s # 1
    <3>1. icache[s].ref = 0
      BY <1>2, <2>2 DEF BootCache, NoSlot
    <3> QED BY <2>2, <3>1, BootCount
  <2> QED BY <2>1, <2>2
<1>8. RefExact
  BY <1>6, <1>7, Zenon DEF RefExact
<1> QED BY <1>1, <1>3, <1>4, <1>5, <1>8, Zenon DEF IInv

LEMMA RebootRefs == Booted' => IInv'
BY BootRefs, PTL

LEMMA CrashStep == ASSUME Crash PROVE IInv'
<1>1. Booted'
  BY Zenon DEF Crash, Booted
<1> QED BY <1>1, RebootRefs

LEMMA InitRefs == Init => IInv
<1>1. Init => Booted
  BY Zenon DEF Init, Booted
<1> QED BY <1>1, BootRefs

-----------------------------------------------------------------------------
(* The theorems *)

LEMMA NextIInv == ASSUME IInv, [Next]_vars PROVE IInv'
<1>1. CASE UNCHANGED vars
  BY <1>1, Counting, SameStep, Zenon DEF vars
<1>2. CASE Next
  BY <1>2, Counting, KernelStep, UserStep, CrashStep, SameStep, Zenon DEF Next, Rest, vars
<1> QED BY <1>1, <1>2, Zenon

(* From boot or from any state in which the counts and the local variables *)
(* of the system calls agree, they go on to agree: through namex(), the    *)
(* error paths of create(), sys_link() and sys_unlink(), iput() that lets  *)
(* go of icache.lock, fork(), exit() and crashes. *)
THEOREM InductiveRefs == IInv /\ [][Next]_vars => []IInv
<1>1. IInv /\ [Next]_vars => IInv'
  BY NextIInv, Zenon
<1> QED BY <1>1, PTL

(* ip->ref is the number of pointers to the entry, and f->ref the number   *)
(* of descriptors: no path through sysfile.c, exec.c, file.c and proc.c    *)
(* forgets or doubles an iput(), but for the root that exec() and          *)
(* sys_retprt() keep. *)
THEOREM RefsExact == Spec => []RefExact
<1>1. IInv => RefExact
  BY Zenon DEF IInv
<1> QED BY <1>1, InitRefs, InductiveRefs, PTL DEF Spec

(* ilock() and iput() never meet an entry with ip->ref < 1, which ilock()  *)
(* would panic for. *)
THEOREM RefsAlwaysHeld == Spec => []RefsHeld
<1>1. IInv => RefsHeld
  BY HeldRefs, Counting, Zenon
<1> QED BY <1>1, InitRefs, InductiveRefs, PTL DEF Spec
=============================================================================
