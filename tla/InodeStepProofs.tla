-------------------------- MODULE InodeStepProofs ---------------------------
(***************************************************************************)
(* The inductive invariant of the reference counts of inodes and files;    *)
(* what namex(), ilock(), iput() and the ends of the system calls do to    *)
(* the pointers of a process and to the counts; and that the steps that    *)
(* leave open files and current directories alone preserve the invariant.  *)
(***************************************************************************)
EXTENDS Inode, TLAPS

Bit(b) == IF b THEN 1 ELSE 0

(* What the proofs use of numbers and of finite sets: a nonempty set of    *)
(* numbers has a least one, sets that differ in one element have sizes     *)
(* that do, and what is not empty has an element.  Proved at the end. *)
OneApart(S, T, p) ==
  /\ Cardinality(S) \in Nat /\ Cardinality(T) \in Nat
  /\ Cardinality(T) + Bit(p \in S) = Cardinality(S) + Bit(p \in T)
Sums ==
  /\ \A S \in SUBSET Nat : S # {} => \E n \in S : \A m \in S : n <= m
  /\ \A A : IsFiniteSet(A) => \A S, T \in SUBSET A : \A p :
        (\A x \in A : x # p => (x \in S <=> x \in T)) => OneApart(S, T, p)
  /\ \A A : IsFiniteSet(A) => \A S \in SUBSET A :
        Cardinality(S) \in Nat /\ (S # {} => Cardinality(S) >= 1)
  /\ IsFiniteSet(File)

(* The pointers to slot s among the local variables of a process. *)
Mine(t, s) == Bit(t.cur = s) + Bit(t.ip = s) + Bit(t.dp = s) + Bit(t.pt = s)

(* Where a process is, or goes on after ilock() or iput(). *)
Putting == {"iput", "itrunc", "ifree", "iputend"}
Place(t) == IF t.pc \in {"ilock"} \cup Putting THEN t.k ELSE t.pc

Walks == {"look", "walk"}
InPath == {"namex", "look", "walk", "missing"}
Locks == {"look", "create", "unlink", "link2", "open", "chdir", "exec", "link", "linkbad",
          "createold", "createnew", "erase", "used"}
Puts == {"missing", "walk", "lockold", "commit", "made", "unlinkbad", "unlinked", "lockbad",
         "putip", "idle"}
HasDp(t) == \/ Place(t) \in {"create", "createnew", "unlink", "unlinkbad", "erase", "link2"}
            \/ t.pc = "begin" /\ t.op = "unlink"
HasIp(t) == \/ Place(t) \in {"open", "opened", "chdir", "exec", "link", "linkbad", "createold",
                             "createnew", "erase", "made", "unlinked", "lockold", "lockbad",
                             "putip", "link2"}
            \/ Place(t) \in InPath /\ t.op = "link2"
            \/ t.pc = "begin" /\ t.op \in {"link", "close"}
            \/ Place(t) = "commit" /\ t.aft = "opened"

(* The record of a process: which of its local variables point to an inode *)
(* is a matter of where it is. *)
Field == {"pc", "op", "path", "to", "wr", "cur", "ip", "dp", "pt", "lk", "ino", "k", "aft"}
Rec(t) == DOMAIN t = Field
Ptr == 0 .. NINODE
Typed(t) == /\ t.cur \in Ptr /\ t.ip \in Ptr /\ t.dp \in Ptr /\ t.pt \in Ptr
            /\ t.aft \in {"idle", "opened"}
            /\ t.pc = "ilock" => t.k \in Locks
            /\ t.pc \in Putting => t.k \in Puts
Shape(t) ==
  /\ t.cur # 0 <=> Place(t) \in Walks
  /\ t.dp # 0 <=> HasDp(t)
  /\ t.ip # 0 <=> HasIp(t)
  /\ t.pt # 0 <=> t.pc \in Putting
  /\ t.pc = "idle" => t = Idle
  /\ t.aft = "opened" => Place(t) \in {"commit", "opened", "idle"}
Ops(t) ==
  /\ Place(t) \in InPath => \/ Parent(t.op)
                            \/ t.op \in {"link", "open", "chdir", "exec"}
  /\ t.pc = "begin" => Creates(t.op) \/ t.op \in {"unlink", "link", "write", "close"}
  /\ t.pc = "root" => t.op \in {"exec", "retprt"}

(* What it is about to lock, unless that is an open file. *)
Target(t) == IF t.k = "look" THEN t.cur
             ELSE IF t.k \in {"create", "unlink", "link2"} THEN t.dp ELSE t.ip
Lock(t) == t.pc = "ilock" /\ t.k # "used" => t.lk = Target(t)

Thread(t) == Rec(t) /\ Typed(t) /\ Shape(t) /\ Ops(t) /\ Lock(t)

(* A process that is about to use, or uses, its open file. *)
Using(t) == Place(t) = "used" \/ (t.pc = "begin" /\ t.op = "write")

SlotField == {"inum", "ref", "busy", "valid", "type", "nlink"}
Cache(c) == /\ DOMAIN c = Slot
            /\ \A s \in Slot : DOMAIN c[s] = SlotField /\ c[s].ref \in Nat

Files == /\ DOMAIN ftable = File
         /\ \A f \in File : /\ DOMAIN ftable[f] = {"ref", "ip"}
                            /\ ftable[f].ref \in Nat /\ ftable[f].ip \in Ptr
                            /\ ftable[f].ref = 0 <=> ftable[f].ip = 0

Process(p) ==
  /\ Thread(th[p])
  /\ cwd[p] = 0 => ofile[p] = 0 /\ Place(th[p]) = "idle"
  /\ Using(th[p]) => ofile[p] # 0 /\ (th[p].pc = "ilock" => th[p].lk = ftable[ofile[p]].ip)

(* The inductive invariant. *)
IInv ==
  /\ DOMAIN th = Proc /\ cwd \in [Proc -> Ptr] /\ ofile \in [Proc -> 0 .. NFILE]
  /\ Cache(icache) /\ Files
  /\ \A p \in Proc : Process(p)
  /\ RefExact

-----------------------------------------------------------------------------
(* Records of processes *)

LEMMA Rooms == NINODE \in Nat /\ Ptr \subseteq Nat /\ Slot = Ptr \ {0} /\ 1 \in Slot /\ 0 \in Ptr
BY InodeAssumption DEF Ptr, Slot

LEMMA IdleIs ==
  /\ Rec(Idle) /\ Idle.pc = "idle" /\ Idle.op = "none" /\ Idle.cur = 0 /\ Idle.ip = 0
  /\ Idle.dp = 0 /\ Idle.pt = 0 /\ Idle.k = "idle" /\ Idle.aft = "idle"
BY DEF Idle, Rec, Field

LEMMA IdleThread == Thread(Idle)
<1>1. Typed(Idle)
  BY IdleIs, Rooms, Zenon DEF Typed, Putting
<1>2. Shape(Idle)
  BY IdleIs, Zenon DEF Shape, Place, HasDp, HasIp, Walks, InPath, Putting
<1>3. Ops(Idle) /\ Lock(Idle)
  BY IdleIs, Zenon DEF Ops, Lock, Place, InPath, Putting
<1> QED BY <1>1, <1>2, <1>3, IdleIs, Zenon DEF Thread

LEMMA IdleMine == ASSUME NEW s \in Slot PROVE Mine(Idle, s) = 0
BY IdleIs, Rooms DEF Mine, Bit

(* What ThenLock, ThenPut, PutIp and PutDp leave. *)
Left(u, t, pc, k, ip, dp, pt) ==
  /\ Rec(u) /\ u.pc = pc /\ u.k = k /\ u.op = t.op /\ u.aft = t.aft
  /\ u.cur = t.cur /\ u.ip = ip /\ u.dp = dp /\ u.pt = pt

LEMMA LockIs ==
  ASSUME NEW t, Rec(t), NEW s, NEW k, NEW u, u = ThenLock(t, s, k)
  PROVE  u.lk = s /\ Left(u, t, "ilock", k, t.ip, t.dp, t.pt)
BY DEF ThenLock, Rec, Field, Left

LEMMA PutIs ==
  ASSUME NEW t, Rec(t), NEW s, NEW k, NEW u, u = ThenPut(t, s, k)
  PROVE  Left(u, t, "iput", k, t.ip, t.dp, s)
BY DEF ThenPut, Rec, Field, Left

LEMMA PutIpIs ==
  ASSUME NEW t, Rec(t), NEW k, NEW u, u = PutIp(t, k)
  PROVE  Left(u, t, "iput", k, 0, t.dp, t.ip)
BY DEF PutIp, ThenPut, Rec, Field, Left

LEMMA PutDpIs ==
  ASSUME NEW t, Rec(t), NEW k, NEW u, u = PutDp(t, k)
  PROVE  Left(u, t, "iput", k, t.ip, 0, t.dp)
BY DEF PutDp, ThenPut, Rec, Field, Left

LEMMA GoIs ==
  ASSUME NEW t, Rec(t), NEW pc, NEW u, u = [t EXCEPT !.pc = pc]
  PROVE  Left(u, t, pc, t.k, t.ip, t.dp, t.pt)
BY DEF Rec, Field, Left

PathOp(op) == Parent(op) \/ op \in {"link", "open", "chdir", "exec"}

(* Processes about to lock, about to put, and at any other place. *)
ToLock(u) ==
  /\ Rec(u)
  /\ u.pc = "ilock"
  /\ u.k \in Locks
  /\ u.pt = 0
  /\ u.aft = "idle"
  /\ u.cur \in Ptr
  /\ u.ip \in Ptr
  /\ u.dp \in Ptr
  /\ u.k = "used" \/ u.lk = Target(u)
  /\ u.cur # 0 <=> u.k = "look"
  /\ u.dp # 0 <=> u.k \in {"create", "createnew", "unlink", "erase", "link2"}
  /\ u.ip # 0 <=> \/ u.k \in {"open", "chdir", "exec", "link", "linkbad", "createold",
                              "createnew", "erase", "link2"}
                  \/ u.k = "look" /\ u.op = "link2"
  /\ u.k = "look" => Parent(u.op) \/ u.op \in {"link", "open", "chdir", "exec"}

LEMMA LockThread ==
  ASSUME NEW u, ToLock(u)
  PROVE  Thread(u)
<1>. USE DEF ToLock
<1>1. Place(u) = u.k /\ u.pc \notin Putting
  BY Zenon DEF Place, Putting
<1>2. Typed(u)
  BY <1>1, Rooms, Zenon DEF Typed
<1>3. Place(u) \notin {"walk", "unlinkbad", "opened", "made", "unlinked", "lockold", "lockbad",
                       "putip", "namex", "missing", "commit", "idle"}
  BY <1>1 DEF Locks
<1>4. Shape(u)
  <2>1. HasDp(u) <=> u.k \in {"create", "createnew", "unlink", "erase", "link2"}
    BY <1>1, <1>3 DEF HasDp
  <2>2. HasIp(u) <=> \/ u.k \in {"open", "chdir", "exec", "link", "linkbad", "createold",
                                 "createnew", "erase", "link2"}
                     \/ u.k = "look" /\ u.op = "link2"
    BY <1>1, <1>3 DEF HasIp, InPath
  <2> QED BY <1>1, <1>3, <2>1, <2>2, Zenon DEF Shape, Walks
<1>5. Ops(u) /\ Lock(u)
  BY <1>1, <1>3, Zenon DEF Ops, Lock, InPath
<1> QED BY <1>2, <1>4, <1>5, Zenon DEF Thread

ToPut(u) ==
  /\ Rec(u)
  /\ u.k \in Puts
  /\ u.pt \in Slot
  /\ u.aft \in {"idle", "opened"}
  /\ u.cur \in Ptr
  /\ u.ip \in Ptr
  /\ u.dp \in Ptr
  /\ u.cur # 0 <=> u.k = "walk"
  /\ u.dp # 0 <=> u.k = "unlinkbad"
  /\ u.ip # 0 <=> \/ u.k \in {"made", "unlinked", "lockold", "lockbad", "putip"}
                  \/ u.k \in {"walk", "missing"} /\ u.op = "link2"
                  \/ u.k = "commit" /\ u.aft = "opened"
  /\ u.k \in {"walk", "missing"} => PathOp(u.op)
  /\ u.aft = "opened" => u.k \in {"commit", "idle"}

LEMMA PutThread ==
  ASSUME NEW u, u.pc \in Putting, ToPut(u)
  PROVE  Thread(u) /\ ~Using(u)
<1>. USE DEF ToPut, PathOp
<1>1. Place(u) = u.k /\ u.pc \notin {"ilock", "begin", "root", "idle"} /\ u.pt \in Ptr /\ u.pt # 0
  BY Rooms DEF Place, Putting
<1>2. Typed(u)
  BY <1>1, Zenon DEF Typed
<1>3. Place(u) \notin {"look", "create", "createnew", "unlink", "erase", "link2", "open", "opened",
                       "chdir", "exec", "link", "linkbad", "createold", "namex"}
  BY <1>1 DEF Puts
<1>4. Shape(u)
  <2>1. HasDp(u) <=> u.k = "unlinkbad"
    BY <1>1, <1>3 DEF HasDp
  <2>2. HasIp(u) <=> \/ u.k \in {"made", "unlinked", "lockold", "lockbad", "putip"}
                     \/ u.k \in {"walk", "missing"} /\ u.op = "link2"
                     \/ u.k = "commit" /\ u.aft = "opened"
    BY <1>1, <1>3 DEF HasIp, InPath
  <2> QED BY <1>1, <1>3, <2>1, <2>2, Zenon DEF Shape, Walks
<1>5. Ops(u) /\ Lock(u)
  BY <1>1, <1>3, Zenon DEF Ops, Lock, InPath
<1>6. ~Using(u)
  BY <1>1 DEF Using, Puts
<1> QED BY <1>2, <1>4, <1>5, <1>6, Zenon DEF Thread

OnOwn(u) ==
  /\ Rec(u)
  /\ u.pc \notin {"ilock", "idle", "root"} \cup Putting \cup Walks \cup {"missing"}
  /\ u.pt = 0
  /\ u.cur = 0
  /\ u.ip \in Ptr
  /\ u.dp \in Ptr
  /\ u.aft \in {"idle", "opened"}
  /\ u.dp # 0 <=> \/ u.pc \in {"create", "createnew", "unlink", "unlinkbad", "erase", "link2"}
                  \/ u.pc = "begin" /\ u.op = "unlink"
  /\ u.ip # 0 <=> \/ u.pc \in {"open", "opened", "chdir", "exec", "link", "linkbad", "createold",
                               "createnew", "erase", "made", "unlinked", "lockold", "lockbad",
                               "putip", "link2"}
                  \/ u.pc = "namex" /\ u.op = "link2"
                  \/ u.pc = "begin" /\ u.op \in {"link", "close"}
                  \/ u.pc = "commit" /\ u.aft = "opened"
  /\ u.pc = "namex" => Parent(u.op) \/ u.op \in {"link", "open", "chdir", "exec"}
  /\ u.pc = "begin" => Creates(u.op) \/ u.op \in {"unlink", "link", "write", "close"}
  /\ u.aft = "opened" => u.pc \in {"commit", "opened"}

LEMMA PlainThread ==
  ASSUME NEW u, OnOwn(u)
  PROVE  Thread(u)
<1>. USE DEF OnOwn
<1>1. /\ Place(u) = u.pc /\ u.pc \notin Walks /\ u.pc \notin Putting
      /\ u.pc \notin {"ilock", "idle", "root", "missing"}
  BY Zenon DEF Place
<1>2. Typed(u)
  BY <1>1, Rooms, Zenon DEF Typed
<1>3. u.pc \in InPath <=> u.pc = "namex"
  BY <1>1, Zenon DEF InPath, Walks
<1>4. Shape(u)
  <2>1. HasDp(u) <=> u.dp # 0
    BY <1>1, Zenon DEF HasDp
  <2>2. HasIp(u) <=> u.ip # 0
    BY <1>1, <1>3, Zenon DEF HasIp
  <2> QED BY <1>1, <2>1, <2>2, Zenon DEF Shape
<1>5. Ops(u) /\ Lock(u)
  BY <1>1, <1>3, Zenon DEF Ops, Lock
<1> QED BY <1>2, <1>4, <1>5, Zenon DEF Thread

(* A process in namex(), but for the inode it is at. *)
InNamex(t) ==
  /\ Rec(t) /\ t.ip \in Ptr /\ t.dp = 0 /\ t.pt = 0 /\ t.aft = "idle"
  /\ t.ip # 0 <=> t.op = "link2"
  /\ PathOp(t.op)

(* namex() hands its reference to the caller, ... *)
FoundAt(t, s, u) ==
  /\ Rec(u) /\ u.cur = 0 /\ u.op = t.op /\ u.aft = "idle" /\ u.pt = 0
  /\ u.dp = (IF Parent(t.op) THEN s ELSE 0)
  /\ u.ip = (IF Parent(t.op) THEN t.ip ELSE s)
  /\ t.op \in {"unlink", "link"} => u.pc = "begin"
  /\ t.op \notin {"unlink", "link"} =>
       u.pc = "ilock" /\ u.lk = s /\ u.k = (IF Creates(t.op) THEN "create" ELSE t.op)

LEMMA FoundIs ==
  ASSUME NEW t, InNamex(t), NEW s \in Slot, NEW u, u = Found(t, s)
  PROVE  FoundAt(t, s, u)
<1>. DEFINE v == IF Parent(t.op) THEN [t EXCEPT !.cur = 0, !.dp = s]
                                 ELSE [t EXCEPT !.cur = 0, !.ip = s]
<1>1. /\ Rec(v) /\ v.cur = 0 /\ v.op = t.op /\ v.aft = t.aft /\ v.pt = t.pt
      /\ v.dp = (IF Parent(t.op) THEN s ELSE t.dp) /\ v.ip = (IF Parent(t.op) THEN t.ip ELSE s)
  BY DEF InNamex, Rec, Field
<1>2. u = CASE Creates(t.op)               -> ThenLock(v, s, "create")
            [] t.op \in {"unlink", "link"} -> [v EXCEPT !.pc = "begin"]
            [] OTHER                       -> ThenLock(v, s, t.op)
  BY DEF Found
<1>. HIDE DEF v
<1>3. /\ Rec(u) /\ u.cur = v.cur /\ u.op = v.op /\ u.aft = v.aft /\ u.pt = v.pt
      /\ u.dp = v.dp /\ u.ip = v.ip
      /\ t.op \in {"unlink", "link"} => u.pc = "begin"
      /\ t.op \notin {"unlink", "link"} =>
           u.pc = "ilock" /\ u.lk = s /\ u.k = (IF Creates(t.op) THEN "create" ELSE t.op)
  <2>1. CASE Creates(t.op)
    <3>1. t.op \notin {"unlink", "link"}
      BY <2>1 DEF Creates
    <3>2. u = ThenLock(v, s, "create")
      BY <1>2, <2>1, <3>1
    <3> QED BY <1>1, <2>1, <3>1, <3>2, LockIs DEF Left
  <2>2. CASE ~Creates(t.op) /\ t.op \in {"unlink", "link"}
    <3>1. u = [v EXCEPT !.pc = "begin"]
      BY <1>2, <2>2
    <3> QED BY <1>1, <2>2, <3>1, GoIs DEF Left
  <2>3. CASE ~Creates(t.op) /\ t.op \notin {"unlink", "link"}
    <3>1. u = ThenLock(v, s, t.op)
      BY <1>2, <2>3
    <3> QED BY <1>1, <2>3, <3>1, LockIs DEF Left
  <2> QED BY <2>1, <2>2, <2>3, Zenon
<1> QED BY <1>1, <1>3 DEF InNamex, FoundAt

LEMMA FoundThread ==
  ASSUME NEW t, InNamex(t), NEW s \in Slot, NEW u, u = Found(t, s)
  PROVE  Thread(u) /\ Place(u) # "idle" /\ ~Using(u)
<1>1. /\ Rec(u) /\ u.cur = 0 /\ u.op = t.op /\ u.aft = "idle" /\ u.pt = 0
      /\ u.dp = (IF Parent(t.op) THEN s ELSE 0)
      /\ u.ip = (IF Parent(t.op) THEN t.ip ELSE s)
      /\ t.op \in {"unlink", "link"} => u.pc = "begin"
      /\ t.op \notin {"unlink", "link"} =>
           u.pc = "ilock" /\ u.lk = s /\ u.k = (IF Creates(t.op) THEN "create" ELSE t.op)
  BY FoundIs DEF FoundAt
<1>2. s # 0 /\ s \in Ptr /\ 0 \in Ptr /\ u.cur \in Ptr /\ u.ip \in Ptr /\ u.dp \in Ptr
  BY <1>1, Rooms DEF InNamex
<1>3. PathOp(t.op) /\ (t.ip # 0 <=> t.op = "link2")
  BY Zenon DEF InNamex
<1>4. CASE t.op \in {"unlink", "link"}
  <2>1. u.pc = "begin" /\ (u.dp # 0 <=> t.op = "unlink") /\ (u.ip # 0 <=> t.op = "link")
    BY <1>1, <1>2, <1>3, <1>4 DEF Parent, Creates
  <2>2. Thread(u)
    BY <1>1, <1>2, <1>4, <2>1, PlainThread DEF Putting, Walks, OnOwn
  <2> QED BY <1>1, <1>4, <2>1, <2>2 DEF Place, Putting, Using
<1>5. CASE t.op \notin {"unlink", "link"}
  <2>1. /\ u.k \in {"create", "link2", "open", "chdir", "exec"}
        /\ u.dp # 0 <=> u.k \in {"create", "link2"}
        /\ u.ip # 0 <=> u.k \in {"link2", "open", "chdir", "exec"}
        /\ u.lk = Target(u)
    <3>1. \/ Creates(t.op) /\ Parent(t.op) /\ t.op \notin {"unlink", "link", "link2"}
          \/ t.op = "link2" /\ Parent(t.op) /\ ~Creates(t.op)
          \/ t.op \in {"open", "chdir", "exec"} /\ ~Parent(t.op) /\ ~Creates(t.op)
      BY <1>3, <1>5 DEF PathOp, Parent, Creates
    <3> QED BY <1>1, <1>2, <1>3, <1>5, <3>1 DEF Target
  <2>2. u.k \in Locks /\ u.k # "look"
    BY <2>1 DEF Locks
  <2>3. Thread(u)
    BY <1>1, <1>2, <1>5, <2>1, <2>2, LockThread DEF ToLock
  <2> QED BY <1>1, <1>5, <2>1, <2>3 DEF Place, Putting, Using
<1> QED BY <1>4, <1>5, Zenon

LEMMA FoundMine ==
  ASSUME NEW t, InNamex(t), NEW s \in Slot, NEW u, u = Found(t, s), NEW x \in Slot
  PROVE  Mine(u, x) + Bit(t.cur = x) = Mine(t, x) + Bit(s = x)
<1>1. /\ u.cur = 0 /\ u.pt = 0
      /\ u.dp = (IF Parent(t.op) THEN s ELSE 0)
      /\ u.ip = (IF Parent(t.op) THEN t.ip ELSE s)
  BY FoundIs DEF FoundAt
<1>2. t.dp = 0 /\ t.pt = 0 /\ x # 0 /\ (~Parent(t.op) => t.ip = 0)
  BY Rooms DEF InNamex, Parent
<1> QED BY <1>1, <1>2 DEF Mine, Bit

(* ... or has none to hand over, ... *)
LEMMA MissingThread ==
  ASSUME NEW t, InNamex(t), t.cur = 0, NEW u, u = Missing(t)
  PROVE  /\ Thread(u) /\ ~Using(u)
         /\ \A x \in Slot : Mine(u, x) = Mine(t, x)
<1>1. /\ Rec(t) /\ t.ip \in Ptr /\ t.dp = 0 /\ t.pt = 0 /\ t.aft = "idle" /\ 0 \in Ptr
      /\ t.ip # 0 <=> t.op = "link2"
  BY Rooms DEF InNamex
<1>2. u = CASE Creates(t.op)  -> [t EXCEPT !.pc = "commit"]
            [] t.op = "link2" -> ThenLock(t, t.ip, "linkbad")
            [] t.op = "exec"  -> [t EXCEPT !.pc = "execroot"]
            [] OTHER          -> Idle
  BY DEF Missing
<1>3. CASE Creates(t.op)
  <2>1. t.op \notin {"link2", "exec"}
    BY <1>3 DEF Creates
  <2>2. u = [t EXCEPT !.pc = "commit"]
    BY <1>2, <1>3, <2>1
  <2>3. /\ Rec(u) /\ u.pc = "commit" /\ u.op = t.op /\ u.aft = "idle"
        /\ u.cur = 0 /\ u.ip = 0 /\ u.dp = 0 /\ u.pt = 0
    BY <1>1, <2>1, <2>2, GoIs DEF Left
  <2>4. Thread(u) /\ ~Using(u)
    BY <1>1, <2>3, PlainThread DEF Putting, Walks, Using, Place, OnOwn
  <2> QED BY <1>1, <2>1, <2>3, <2>4 DEF Mine
<1>4. CASE t.op = "link2"
  <2>1. u = ThenLock(t, t.ip, "linkbad")
    BY <1>2, <1>4 DEF Creates
  <2>2. /\ Rec(u) /\ u.pc = "ilock" /\ u.lk = t.ip /\ u.k = "linkbad" /\ u.op = t.op /\ u.aft = "idle"
        /\ u.cur = 0 /\ u.ip = t.ip /\ u.dp = 0 /\ u.pt = 0
    BY <1>1, <2>1, LockIs DEF Left
  <2>3. Thread(u) /\ ~Using(u)
    BY <1>1, <1>4, <2>2, LockThread DEF Locks, Target, Using, Place, Putting, ToLock
  <2> QED BY <1>1, <2>2, <2>3 DEF Mine
<1>5. CASE t.op = "exec"
  <2>1. u = [t EXCEPT !.pc = "execroot"]
    BY <1>2, <1>5 DEF Creates
  <2>2. /\ Rec(u) /\ u.pc = "execroot" /\ u.op = t.op /\ u.aft = "idle"
        /\ u.cur = 0 /\ u.ip = 0 /\ u.dp = 0 /\ u.pt = 0
    BY <1>1, <1>5, <2>1, GoIs DEF Left
  <2>3. Thread(u) /\ ~Using(u)
    BY <1>1, <2>2, PlainThread DEF Putting, Walks, Using, Place, OnOwn
  <2> QED BY <1>1, <1>5, <2>2, <2>3 DEF Mine
<1>6. CASE ~Creates(t.op) /\ t.op \notin {"link2", "exec"}
  <2>1. u = Idle
    BY <1>2, <1>6
  <2>2. t.ip = 0 /\ \A x \in Slot : Mine(t, x) = 0
    BY <1>1, <1>6, Rooms DEF Mine, Bit
  <2> QED BY <2>1, <2>2, IdleThread, IdleMine, IdleIs DEF Using, Place, Putting
<1> QED BY <1>3, <1>4, <1>5, <1>6, Zenon

(* ... or goes on from the inode it is at. *)
Trades(t, u, s) == \A x \in Slot : Mine(u, x) + Bit(t.cur = x) = Mine(t, x) + Bit(s = x)

LEMMA WalkThread ==
  ASSUME NEW t, InNamex(t), NEW s \in Slot, NEW path, NEW u, u = Walk(t, s, path)
  PROVE  Thread(u) /\ ~Using(u) /\ Place(u) # "idle" /\ Trades(t, u, s)
<1>1. /\ Rec(t) /\ t.ip \in Ptr /\ t.dp = 0 /\ t.pt = 0 /\ t.aft = "idle" /\ 0 \in Ptr
      /\ t.ip # 0 <=> t.op = "link2"
      /\ s \in Ptr /\ s # 0 /\ PathOp(t.op) /\ \A x \in Slot : x # 0
  BY Rooms DEF InNamex
<1>2. CASE path # <<>>
  <2>. DEFINE v == [t EXCEPT !.cur = s, !.path = path]
  <2>1. u = ThenLock(v, s, "look")
    BY <1>2 DEF Walk
  <2>2. /\ Rec(v) /\ v.op = t.op /\ v.aft = t.aft /\ v.cur = s /\ v.ip = t.ip /\ v.dp = t.dp /\ v.pt = t.pt
    BY <1>1 DEF Rec, Field
  <2>. HIDE DEF v
  <2>3. /\ Rec(u) /\ u.pc = "ilock" /\ u.lk = s /\ u.k = "look" /\ u.op = t.op /\ u.aft = "idle"
        /\ u.cur = s /\ u.ip = t.ip /\ u.dp = 0 /\ u.pt = 0
    BY <1>1, <2>1, <2>2, LockIs DEF Left
  <2>4. Thread(u)
    BY <1>1, <2>3, LockThread DEF Locks, Target, PathOp, ToLock
  <2>5. ~Using(u) /\ Place(u) # "idle"
    BY <2>3 DEF Using, Place, Putting
  <2>6. Trades(t, u, s)
    BY <1>1, <2>3 DEF Trades, Mine, Bit
  <2> QED BY <2>4, <2>5, <2>6, Zenon
<1>3. CASE path = <<>> /\ Parent(t.op)
  <2>. DEFINE v == [t EXCEPT !.cur = 0]
  <2>1. u = ThenPut(v, s, "missing")
    BY <1>3 DEF Walk
  <2>2. /\ Rec(v) /\ v.op = t.op /\ v.aft = t.aft /\ v.cur = 0 /\ v.ip = t.ip /\ v.dp = t.dp /\ v.pt = t.pt
    BY <1>1 DEF Rec, Field
  <2>. HIDE DEF v
  <2>3. /\ Rec(u) /\ u.pc = "iput" /\ u.k = "missing" /\ u.op = t.op /\ u.aft = "idle"
        /\ u.cur = 0 /\ u.ip = t.ip /\ u.dp = 0 /\ u.pt = s
    BY <1>1, <2>1, <2>2, PutIs DEF Left
  <2>4. Thread(u)
    <3>1. ToPut(u)
      BY <1>1, <2>3 DEF Puts, PathOp, ToPut
    <3>2. u.pc \in Putting
      BY <2>3 DEF Putting
    <3> QED BY <3>1, <3>2, PutThread, Zenon
  <2>5. ~Using(u) /\ Place(u) # "idle"
    BY <2>3 DEF Using, Place, Putting
  <2>6. Trades(t, u, s)
    BY <1>1, <2>3 DEF Trades, Mine, Bit
  <2> QED BY <2>4, <2>5, <2>6, Zenon
<1>4. CASE path = <<>> /\ ~Parent(t.op)
  <2>1. u = Found(t, s)
    BY <1>4 DEF Walk
  <2> QED BY <2>1, FoundThread, FoundMine DEF Trades
<1> QED BY <1>2, <1>3, <1>4, Zenon

(* What Thread says of a process in iput(), and at a place of its own. *)
LEMMA PutFacts ==
  ASSUME NEW t, Thread(t), t.pc \in Putting
  PROVE  Place(t) = t.k /\ ToPut(t)
<1>1. Place(t) = t.k /\ t.pc \notin {"begin", "idle", "root", "ilock"}
  BY DEF Place, Putting
<1>2. t.k \in Puts /\ t.pt # 0 /\ t.pt \in Ptr
  BY Zenon DEF Thread, Typed, Shape
<1>3. t.k \notin {"look", "create", "createnew", "unlink", "erase", "link2", "open", "opened",
                  "chdir", "exec", "link", "linkbad", "createold", "namex"}
  BY <1>2 DEF Puts
<1>4. HasDp(t) <=> t.k = "unlinkbad"
  BY <1>1, <1>3 DEF HasDp
<1>5. HasIp(t) <=> \/ t.k \in {"made", "unlinked", "lockold", "lockbad", "putip"}
                   \/ t.k \in {"walk", "missing"} /\ t.op = "link2"
                   \/ t.k = "commit" /\ t.aft = "opened"
  BY <1>1, <1>3 DEF HasIp, InPath
<1>6. t.cur # 0 <=> t.k = "walk"
  BY <1>1, <1>3, Zenon DEF Thread, Shape, Walks
<1>7. t.k \in {"walk", "missing"} => PathOp(t.op)
  BY <1>1, Zenon DEF Thread, Ops, InPath, PathOp
<1>8. t.aft = "opened" => t.k \in {"commit", "idle"}
  BY <1>1, <1>3, Zenon DEF Thread, Shape
<1>9. t.pt \in Slot
  BY <1>2, Rooms
<1> QED BY <1>1, <1>2, <1>4, <1>5, <1>6, <1>7, <1>8, <1>9, Zenon DEF Thread, Typed, Shape, ToPut

PlainAt(t) ==
  /\ Rec(t) /\ t.pt = 0 /\ t.aft \in {"idle", "opened"}
  /\ t.cur \in Ptr /\ t.ip \in Ptr /\ t.dp \in Ptr /\ 0 \in Ptr
  /\ t.cur # 0 <=> t.pc \in Walks
  /\ t.dp # 0 <=> \/ t.pc \in {"create", "createnew", "unlink", "unlinkbad", "erase", "link2"}
                  \/ t.pc = "begin" /\ t.op = "unlink"
  /\ t.ip # 0 <=> \/ t.pc \in {"open", "opened", "chdir", "exec", "link", "linkbad", "createold",
                               "createnew", "erase", "made", "unlinked", "lockold", "lockbad",
                               "putip", "link2"}
                  \/ t.pc \in InPath /\ t.op = "link2"
                  \/ t.pc = "begin" /\ t.op \in {"link", "close"}
                  \/ t.pc = "commit" /\ t.aft = "opened"
  /\ t.pc \in InPath => PathOp(t.op)
  /\ t.pc = "begin" => Creates(t.op) \/ t.op \in {"unlink", "link", "write", "close"}
  /\ t.aft = "opened" => t.pc \in {"commit", "opened", "idle"}
  /\ t.pc = "idle" => t = Idle

LEMMA PlainFacts ==
  ASSUME NEW t, Thread(t), t.pc \notin {"ilock"} \cup Putting
  PROVE  Place(t) = t.pc /\ PlainAt(t)
<1>1. Place(t) = t.pc /\ t.pc \notin Putting
  BY Zenon DEF Place
<1>2. t.pt = 0 /\ (t.cur # 0 <=> t.pc \in Walks) /\ (t.dp # 0 <=> HasDp(t)) /\ (t.ip # 0 <=> HasIp(t))
      /\ (t.pc = "idle" => t = Idle) /\ (t.aft = "opened" => t.pc \in {"commit", "opened", "idle"})
  BY <1>1, Zenon DEF Thread, Shape
<1>3. /\ Rec(t) /\ t.aft \in {"idle", "opened"} /\ t.cur \in Ptr /\ t.ip \in Ptr /\ t.dp \in Ptr
      /\ 0 \in Ptr
  BY Rooms, Zenon DEF Thread, Typed
<1>4. /\ t.pc \in InPath => PathOp(t.op)
      /\ t.pc = "begin" => Creates(t.op) \/ t.op \in {"unlink", "link", "write", "close"}
  BY <1>1, Zenon DEF Thread, Ops, PathOp
<1> QED BY <1>1, <1>2, <1>3, <1>4, Zenon DEF HasDp, HasIp, PlainAt

(* After iput() the pointer that it was called with is gone. *)
LEMMA ResumeThread ==
  ASSUME NEW t, Thread(t), t.pc \in {"iput", "iputend"}, NEW u, u = Resume(t)
  PROVE  /\ Thread(u) /\ ~Using(u) /\ (t.k = "idle" => Place(u) = "idle")
         /\ \A x \in Slot : Mine(u, x) + Bit(t.pt = x) = Mine(t, x)
<1>. DEFINE v == [t EXCEPT !.pt = 0]
<1>1. /\ Rec(t) /\ t.k \in Puts /\ t.pt \in Slot /\ t.aft \in {"idle", "opened"}
      /\ t.cur \in Ptr /\ t.ip \in Ptr /\ t.dp \in Ptr
      /\ t.cur # 0 <=> t.k = "walk"
      /\ t.dp # 0 <=> t.k = "unlinkbad"
      /\ t.ip # 0 <=> \/ t.k \in {"made", "unlinked", "lockold", "lockbad", "putip"}
                      \/ t.k \in {"walk", "missing"} /\ t.op = "link2"
                      \/ t.k = "commit" /\ t.aft = "opened"
      /\ t.k \in {"walk", "missing"} => PathOp(t.op)
      /\ t.aft = "opened" => t.k \in {"commit", "idle"}
  <2>1. t.pc \in Putting
    BY DEF Putting
  <2> QED BY <2>1, PutFacts, Zenon DEF ToPut
<1>2. /\ Rec(v) /\ v.cur = t.cur /\ v.ip = t.ip /\ v.dp = t.dp /\ v.pt = 0 /\ v.op = t.op /\ v.aft = t.aft
  BY <1>1 DEF Rec, Field
<1>3. u = CASE t.k = "walk"    -> Walk(v, t.cur, t.path)
            [] t.k = "missing" -> Missing(v)
            [] t.k = "lockold" -> ThenLock(v, t.ip, "createold")
            [] t.k = "lockbad" -> ThenLock(v, t.ip, "linkbad")
            [] t.k = "putip"   -> PutIp(v, "commit")
            [] t.k = "idle"    -> Idle
            [] OTHER           -> [v EXCEPT !.pc = t.k]
  BY DEF Resume
<1>. HIDE DEF v
<1>4. 0 \in Ptr /\ \A x \in Slot : x # 0
  BY Rooms
<1>5. \A x \in Slot : Mine(v, x) + Bit(t.pt = x) = Mine(t, x) /\ Mine(v, x) \in Int
  BY <1>1, <1>2, <1>4 DEF Mine, Bit
<1>6. CASE t.k \in {"walk", "missing"}
  <2>1. InNamex(v)
    BY <1>1, <1>2, <1>6 DEF InNamex
  <2>2. CASE t.k = "walk"
    <3>1. u = Walk(v, t.cur, t.path) /\ t.cur \in Slot
      BY <1>1, <1>3, <2>2, Rooms
    <3>2. Thread(u) /\ ~Using(u) /\ Trades(v, u, t.cur)
      BY <2>1, <3>1, WalkThread, Zenon
    <3>3. \A x \in Slot : Mine(u, x) = Mine(v, x)
      BY <1>2, <1>5, <3>2 DEF Trades, Mine, Bit
    <3> QED BY <1>5, <2>2, <3>2, <3>3
  <2>3. CASE t.k = "missing"
    <3>1. u = Missing(v) /\ v.cur = 0
      BY <1>1, <1>2, <1>3, <2>3
    <3> QED BY <1>5, <2>1, <2>3, <3>1, MissingThread
  <2> QED BY <1>6, <2>2, <2>3
<1>7. CASE t.k \in {"lockold", "lockbad"}
  <2>1. PICK k \in {"createold", "linkbad"} : u = ThenLock(v, t.ip, k)
    BY <1>3, <1>7
  <2>2. /\ Rec(u) /\ u.pc = "ilock" /\ u.lk = t.ip /\ u.k = k /\ u.op = t.op /\ u.aft = "idle"
        /\ u.cur = 0 /\ u.ip = t.ip /\ u.dp = 0 /\ u.pt = 0
    BY <1>1, <1>2, <1>7, <2>1, LockIs DEF Left
  <2>3. t.ip # 0 /\ k \in Locks
    BY <1>1, <1>7 DEF Locks
  <2>4. Thread(u)
    BY <1>1, <1>4, <2>2, <2>3, LockThread DEF Target, ToLock
  <2>5. ~Using(u)
    BY <2>2 DEF Using, Place, Putting
  <2>6. \A x \in Slot : Mine(u, x) = Mine(v, x)
    BY <1>1, <1>2, <1>7, <2>2 DEF Mine
  <2> QED BY <1>5, <1>7, <2>4, <2>5, <2>6
<1>8. CASE t.k = "putip"
  <2>1. u = PutIp(v, "commit")
    BY <1>3, <1>8
  <2>2. /\ Rec(u) /\ u.pc = "iput" /\ u.k = "commit" /\ u.op = t.op /\ u.aft = "idle"
        /\ u.cur = 0 /\ u.ip = 0 /\ u.dp = 0 /\ u.pt = t.ip
    BY <1>1, <1>2, <1>8, <2>1, PutIpIs DEF Left
  <2>3. t.ip \in Slot
    BY <1>1, <1>8, Rooms
  <2>4. Thread(u)
    <3>1. ToPut(u)
      BY <1>4, <2>2, <2>3 DEF Puts, ToPut
    <3>2. u.pc \in Putting
      BY <2>2 DEF Putting
    <3> QED BY <3>1, <3>2, PutThread, Zenon
  <2>5. ~Using(u)
    BY <2>2 DEF Using, Place, Putting
  <2>6. \A x \in Slot : Mine(u, x) = Mine(v, x)
    BY <1>1, <1>2, <1>4, <1>8, <2>2 DEF Mine, Bit
  <2> QED BY <1>5, <1>8, <2>4, <2>5, <2>6
<1>9. CASE t.k = "idle"
  <2>1. u = Idle
    BY <1>3, <1>9
  <2>2. \A x \in Slot : Mine(v, x) = 0
    BY <1>1, <1>2, <1>4, <1>9 DEF Mine, Bit
  <2>3. Thread(u) /\ ~Using(u) /\ Place(u) = "idle"
    BY <2>1, IdleThread, IdleIs DEF Using, Place, Putting
  <2>4. \A x \in Slot : Mine(u, x) = Mine(v, x)
    BY <2>1, <2>2, IdleMine
  <2> QED BY <1>5, <2>3, <2>4
<1>10. CASE t.k \in {"commit", "made", "unlinkbad", "unlinked"}
  <2>1. u = [v EXCEPT !.pc = t.k]
    BY <1>3, <1>10
  <2>2. /\ Rec(u) /\ u.pc = t.k /\ u.op = t.op /\ u.aft = t.aft
        /\ u.cur = 0 /\ u.ip = t.ip /\ u.dp = t.dp /\ u.pt = 0
    BY <1>1, <1>2, <1>10, <2>1, GoIs DEF Left
  <2>3. Thread(u)
    BY <1>1, <1>10, <2>2, PlainThread DEF Putting, Walks, OnOwn
  <2>4. ~Using(u)
    BY <1>10, <2>2 DEF Using, Place, Putting
  <2>5. \A x \in Slot : Mine(u, x) = Mine(v, x)
    BY <1>1, <1>2, <1>10, <2>2 DEF Mine
  <2> QED BY <1>5, <1>10, <2>3, <2>4, <2>5
<1> QED BY <1>1, <1>6, <1>7, <1>8, <1>9, <1>10 DEF Puts

-----------------------------------------------------------------------------
(* The inode cache *)

(* From c to d no count changes; one more for slot n; one less for slot n. *)
Kept(c, d) == Cache(d) /\ \A s \in Slot : d[s].ref = c[s].ref /\ d[s].inum = c[s].inum
More(c, d, n) == /\ Cache(d)
                 /\ \A s \in Slot : /\ d[s].ref = c[s].ref + Bit(n = s)
                                    /\ d[s].inum = c[s].inum \/ c[s].ref = 0
Less(c, d, n) == /\ Cache(d)
                 /\ \A s \in Slot : /\ d[s].ref + Bit(n = s) = c[s].ref
                                    /\ d[s].inum = c[s].inum \/ d[s].ref = 0

LEMMA KeptItself == ASSUME NEW c, Cache(c) PROVE Kept(c, c)
BY Zenon DEF Kept

LEMMA UnlockKept == ASSUME NEW c, Cache(c), NEW s PROVE Kept(c, iunlock(c, s))
BY DEF Kept, Cache, iunlock, SlotField

LEMMA UnlockMore ==
  ASSUME NEW b, NEW c, NEW n, More(b, c, n), NEW s
  PROVE  More(b, iunlock(c, s), n)
<1>1. Kept(c, iunlock(c, s))
  BY UnlockKept, Zenon DEF More
<1> QED BY <1>1, Zenon DEF More, Kept

LEMMA LinksKept == ASSUME NEW c, Cache(c), NEW s, NEW n PROVE Kept(c, Links(c, s, n))
BY DEF Kept, Cache, Links, SlotField

LEMMA KeptTwice == ASSUME NEW b, NEW c, NEW d, Kept(b, c), Kept(c, d) PROVE Kept(b, d)
BY Zenon DEF Kept

LEMMA LockKept ==
  ASSUME Cache(icache), NEW s
  PROVE  /\ Kept(icache, [icache EXCEPT ![s] = [Loaded(s) EXCEPT !.busy = TRUE]])
         /\ Kept(icache, [icache EXCEPT ![s].busy = TRUE])
         /\ Kept(icache, [icache EXCEPT ![s].busy = FALSE, ![s].valid = FALSE, ![s].type = "none"])
<1>1. Kept(icache, [icache EXCEPT ![s] = [Loaded(s) EXCEPT !.busy = TRUE]])
  <2>1. CASE s \in Slot
    <3>1. DOMAIN Loaded(s) = SlotField /\ Loaded(s).ref = icache[s].ref /\ Loaded(s).inum = icache[s].inum
      BY <2>1 DEF Loaded, Cache, SlotField
    <3> QED BY <2>1, <3>1 DEF Kept, Cache, SlotField
  <2>2. CASE s \notin Slot
    BY <2>2 DEF Kept, Cache
  <2> QED BY <2>1, <2>2, Zenon
<1>2. Kept(icache, [icache EXCEPT ![s].busy = TRUE])
  BY DEF Kept, Cache, SlotField
<1>3. Kept(icache, [icache EXCEPT ![s].busy = FALSE, ![s].valid = FALSE, ![s].type = "none"])
  BY DEF Kept, Cache, SlotField
<1> QED BY <1>1, <1>2, <1>3, Zenon

LEMMA IdupMore == ASSUME Cache(icache), NEW n \in Slot PROVE More(icache, idup(n), n)
BY DEF More, Cache, idup, SlotField, Bit

LEMMA DroppedLess ==
  ASSUME NEW c, Cache(c), NEW n \in Slot, c[n].ref > 0
  PROVE  Less(c, Dropped(c, n), n)
<1>1. CASE c[n].ref = 1
  BY <1>1 DEF Less, Cache, Dropped, NoSlot, SlotField, Bit
<1>2. CASE c[n].ref # 1
  BY <1>2 DEF Less, Cache, Dropped, SlotField, Bit
<1> QED BY <1>1, <1>2, Zenon

LEMMA Smallest ==
  ASSUME Sums, NEW S \in SUBSET Nat, S # {}
  PROVE  Min(S) \in S
BY Zenon DEF Sums, Min

LEMMA IgetMore ==
  ASSUME Sums, Cache(icache), NEW i, HasSlot(i)
  PROVE  /\ SlotOf(i) \in Slot /\ More(icache, Iget(i), SlotOf(i))
         /\ Iget(i)[SlotOf(i)].inum = i
<1>. DEFINE n == SlotOf(i)
<1>1. CASE Caching(i) # {}
  <2>1. n \in Caching(i)
    BY <1>1, Zenon DEF SlotOf
  <2>2. n \in Slot /\ icache[n].inum = i
    BY <2>1, Zenon DEF Caching
  <2>3. Iget(i) = [icache EXCEPT ![n].ref = @ + 1]
    BY <1>1, Zenon DEF Iget
  <2>. HIDE DEF n
  <2>4. More(icache, Iget(i), n) /\ Iget(i)[n].inum = i
    BY <2>2, <2>3 DEF More, Cache, SlotField, Bit
  <2> QED BY <2>2, <2>4, Zenon DEF n
<1>2. CASE Caching(i) = {}
  <2>1. Free # {} /\ Free \in SUBSET Nat
    BY <1>2, Rooms DEF HasSlot, Free
  <2>2. n = Min(Free)
    BY <1>2, Zenon DEF SlotOf
  <2>3. n \in Free
    BY <2>1, <2>2, Smallest, Zenon
  <2>4. n \in Slot /\ icache[n].ref = 0
    BY <2>3, Zenon DEF Free
  <2>5. Iget(i) = [icache EXCEPT ![n] = [NoSlot EXCEPT !.inum = i, !.ref = 1]]
    BY <1>2, Zenon DEF Iget
  <2>. HIDE DEF n
  <2>6. More(icache, Iget(i), n) /\ Iget(i)[n].inum = i
    BY <2>4, <2>5 DEF More, Cache, SlotField, NoSlot, Bit
  <2> QED BY <2>4, <2>6, Zenon DEF n
<1> QED BY <1>1, <1>2, Zenon

-----------------------------------------------------------------------------
(* Counting *)

LEMMA CardStep ==
  ASSUME Sums, NEW A, IsFiniteSet(A), NEW S \in SUBSET A, NEW T \in SUBSET A, NEW p,
         \A x \in A : x # p => (x \in S <=> x \in T)
  PROVE  OneApart(S, T, p)
BY Zenon DEF Sums

LEMMA FileFinite == ASSUME Sums PROVE IsFiniteSet(File) /\ IsFiniteSet(Proc)
BY InodeAssumption, Zenon DEF Sums

(* Pointers, with the variables as arguments. *)
Refs(c, tab, t, s) ==
    Cardinality({p \in Proc : c[p] = s}) + Cardinality({f \in File : tab[f].ip = s})
    + Cardinality({p \in Proc : t[p].cur = s}) + Cardinality({p \in Proc : t[p].ip = s})
    + Cardinality({p \in Proc : t[p].dp = s}) + Cardinality({p \in Proc : t[p].pt = s})

LEMMA RefsAre ==
  ASSUME NEW s
  PROVE  Pointers(s) = Refs(cwd, ftable, th, s) /\ Pointers(s)' = Refs(cwd', ftable', th', s)
BY Zenon DEF Pointers, Refs

(* A step that changes the pointers of one process and of one file. *)
Others(p, f) ==
  /\ \A q \in Proc : q # p => th'[q] = th[q] /\ cwd'[q] = cwd[q]
  /\ \A g \in File : g # f => ftable'[g].ip = ftable[g].ip
Follow(p, f, s) ==
  /\ Refs(cwd, ftable, th, s) \in Nat /\ Refs(cwd', ftable', th', s) \in Nat
  /\ Refs(cwd', ftable', th', s) + (Mine(th[p], s) + Bit(cwd[p] = s) + Bit(f \in File /\ ftable[f].ip = s))
     = Refs(cwd, ftable, th, s) + (Mine(th'[p], s) + Bit(cwd'[p] = s) + Bit(f \in File /\ ftable'[f].ip = s))

LEMMA PointersStep ==
  ASSUME Sums, NEW p \in Proc, NEW f, NEW s \in Slot, Others(p, f)
  PROVE  Follow(p, f, s)
<1>. DEFINE a1 == Cardinality({q \in Proc : cwd[q] = s})
            b1 == Cardinality({q \in Proc : cwd'[q] = s})
            a2 == Cardinality({g \in File : ftable[g].ip = s})
            b2 == Cardinality({g \in File : ftable'[g].ip = s})
            a3 == Cardinality({q \in Proc : th[q].cur = s})
            b3 == Cardinality({q \in Proc : th'[q].cur = s})
            a4 == Cardinality({q \in Proc : th[q].ip = s})
            b4 == Cardinality({q \in Proc : th'[q].ip = s})
            a5 == Cardinality({q \in Proc : th[q].dp = s})
            b5 == Cardinality({q \in Proc : th'[q].dp = s})
            a6 == Cardinality({q \in Proc : th[q].pt = s})
            b6 == Cardinality({q \in Proc : th'[q].pt = s})
            x3 == Bit(th[p].cur = s)
            y3 == Bit(th'[p].cur = s)
            x4 == Bit(th[p].ip = s)
            y4 == Bit(th'[p].ip = s)
            x5 == Bit(th[p].dp = s)
            y5 == Bit(th'[p].dp = s)
            x6 == Bit(th[p].pt = s)
            y6 == Bit(th'[p].pt = s)
<1>1. a1 \in Nat /\ b1 \in Nat /\ b1 + Bit(cwd[p] = s) = a1 + Bit(cwd'[p] = s)
  <2>. DEFINE S == {q \in Proc : cwd[q] = s}
              T == {q \in Proc : cwd'[q] = s}
  <2>1. /\ S \in SUBSET Proc /\ T \in SUBSET Proc /\ \A q \in Proc : q # p => (q \in S <=> q \in T)
        /\ (p \in S) = (cwd[p] = s) /\ (p \in T) = (cwd'[p] = s)
    BY DEF Others
  <2>. HIDE DEF S, T
  <2>2. Cardinality(S) \in Nat /\ Cardinality(T) \in Nat /\ Cardinality(T) + Bit(p \in S) = Cardinality(S) + Bit(p \in T)
    BY <2>1, FileFinite, CardStep DEF OneApart
  <2> QED BY <2>1, <2>2 DEF S, T
<1>2. a2 \in Nat /\ b2 \in Nat /\ b2 + Bit(f \in File /\ ftable[f].ip = s) = a2 + Bit(f \in File /\ ftable'[f].ip = s)
  <2>. DEFINE S == {g \in File : ftable[g].ip = s}
              T == {g \in File : ftable'[g].ip = s}
  <2>1. /\ S \in SUBSET File /\ T \in SUBSET File /\ \A g \in File : g # f => (g \in S <=> g \in T)
        /\ (f \in S) = (f \in File /\ ftable[f].ip = s) /\ (f \in T) = (f \in File /\ ftable'[f].ip = s)
    BY DEF Others
  <2>. HIDE DEF S, T
  <2>2. Cardinality(S) \in Nat /\ Cardinality(T) \in Nat /\ Cardinality(T) + Bit(f \in S) = Cardinality(S) + Bit(f \in T)
    BY <2>1, FileFinite, CardStep DEF OneApart
  <2> QED BY <2>1, <2>2 DEF S, T
<1>3. a3 \in Nat /\ b3 \in Nat /\ b3 + x3 = a3 + y3
  <2>. DEFINE S == {q \in Proc : th[q].cur = s}
              T == {q \in Proc : th'[q].cur = s}
  <2>1. /\ S \in SUBSET Proc /\ T \in SUBSET Proc /\ \A q \in Proc : q # p => (q \in S <=> q \in T)
        /\ (p \in S) = (th[p].cur = s) /\ (p \in T) = (th'[p].cur = s)
    BY DEF Others
  <2>. HIDE DEF S, T
  <2>2. Cardinality(S) \in Nat /\ Cardinality(T) \in Nat /\ Cardinality(T) + Bit(p \in S) = Cardinality(S) + Bit(p \in T)
    BY <2>1, FileFinite, CardStep DEF OneApart
  <2> QED BY <2>1, <2>2 DEF S, T
<1>4. a4 \in Nat /\ b4 \in Nat /\ b4 + x4 = a4 + y4
  <2>. DEFINE S == {q \in Proc : th[q].ip = s}
              T == {q \in Proc : th'[q].ip = s}
  <2>1. /\ S \in SUBSET Proc /\ T \in SUBSET Proc /\ \A q \in Proc : q # p => (q \in S <=> q \in T)
        /\ (p \in S) = (th[p].ip = s) /\ (p \in T) = (th'[p].ip = s)
    BY DEF Others
  <2>. HIDE DEF S, T
  <2>2. Cardinality(S) \in Nat /\ Cardinality(T) \in Nat /\ Cardinality(T) + Bit(p \in S) = Cardinality(S) + Bit(p \in T)
    BY <2>1, FileFinite, CardStep DEF OneApart
  <2> QED BY <2>1, <2>2 DEF S, T
<1>5. a5 \in Nat /\ b5 \in Nat /\ b5 + x5 = a5 + y5
  <2>. DEFINE S == {q \in Proc : th[q].dp = s}
              T == {q \in Proc : th'[q].dp = s}
  <2>1. /\ S \in SUBSET Proc /\ T \in SUBSET Proc /\ \A q \in Proc : q # p => (q \in S <=> q \in T)
        /\ (p \in S) = (th[p].dp = s) /\ (p \in T) = (th'[p].dp = s)
    BY DEF Others
  <2>. HIDE DEF S, T
  <2>2. Cardinality(S) \in Nat /\ Cardinality(T) \in Nat /\ Cardinality(T) + Bit(p \in S) = Cardinality(S) + Bit(p \in T)
    BY <2>1, FileFinite, CardStep DEF OneApart
  <2> QED BY <2>1, <2>2 DEF S, T
<1>6. a6 \in Nat /\ b6 \in Nat /\ b6 + x6 = a6 + y6
  <2>. DEFINE S == {q \in Proc : th[q].pt = s}
              T == {q \in Proc : th'[q].pt = s}
  <2>1. /\ S \in SUBSET Proc /\ T \in SUBSET Proc /\ \A q \in Proc : q # p => (q \in S <=> q \in T)
        /\ (p \in S) = (th[p].pt = s) /\ (p \in T) = (th'[p].pt = s)
    BY DEF Others
  <2>. HIDE DEF S, T
  <2>2. Cardinality(S) \in Nat /\ Cardinality(T) \in Nat /\ Cardinality(T) + Bit(p \in S) = Cardinality(S) + Bit(p \in T)
    BY <2>1, FileFinite, CardStep DEF OneApart
  <2> QED BY <2>1, <2>2 DEF S, T
<1>7. Refs(cwd, ftable, th, s) = a1 + a2 + a3 + a4 + a5 + a6 /\ Refs(cwd', ftable', th', s) = b1 + b2 + b3 + b4 + b5 + b6
  BY DEF Refs
<1>8. /\ x3 \in Nat /\ y3 \in Nat /\ x4 \in Nat /\ y4 \in Nat
      /\ x5 \in Nat /\ y5 \in Nat /\ x6 \in Nat /\ y6 \in Nat
      /\ Bit(cwd[p] = s) \in Nat /\ Bit(cwd'[p] = s) \in Nat
      /\ Bit(f \in File /\ ftable[f].ip = s) \in Nat /\ Bit(f \in File /\ ftable'[f].ip = s) \in Nat
  BY DEF Bit
<1>9. Mine(th[p], s) = x3 + x4 + x5 + x6 /\ Mine(th'[p], s) = y3 + y4 + y5 + y6
  BY Zenon DEF Mine
<1>. HIDE DEF a1, a2, a3, a4, a5, a6, b1, b2, b3, b4, b5, b6, x3, x4, x5, x6, y3, y4, y5, y6
<1>10. /\ Mine(th[p], s) \in Nat /\ Mine(th'[p], s) \in Nat
       /\ (b3 + b4 + b5 + b6) + Mine(th[p], s) = (a3 + a4 + a5 + a6) + Mine(th'[p], s)
  BY <1>3, <1>4, <1>5, <1>6, <1>8, <1>9
<1>11. a3 + a4 + a5 + a6 \in Nat /\ b3 + b4 + b5 + b6 \in Nat
  BY <1>3, <1>4, <1>5, <1>6
<1>12. /\ Refs(cwd, ftable, th, s) = a1 + a2 + (a3 + a4 + a5 + a6)
       /\ Refs(cwd', ftable', th', s) = b1 + b2 + (b3 + b4 + b5 + b6)
  BY <1>1, <1>2, <1>3, <1>4, <1>5, <1>6, <1>7
<1>13. /\ Refs(cwd, ftable, th, s) \in Nat /\ Refs(cwd', ftable', th', s) \in Nat
       /\ Refs(cwd', ftable', th', s) + (Mine(th[p], s) + Bit(cwd[p] = s) + Bit(f \in File /\ ftable[f].ip = s))
          = Refs(cwd, ftable, th, s) + (Mine(th'[p], s) + Bit(cwd'[p] = s) + Bit(f \in File /\ ftable'[f].ip = s))
  BY <1>1, <1>2, <1>8, <1>10, <1>11, <1>12
<1> QED BY <1>13, Zenon DEF Follow

LEMMA AtLeastOne ==
  ASSUME Sums, NEW A, IsFiniteSet(A), NEW S \in SUBSET A
  PROVE  Cardinality(S) \in Nat /\ (S # {} => Cardinality(S) >= 1)
BY Zenon DEF Sums

(* What somebody points to is in use. *)
LEMMA InUse ==
  ASSUME Sums, IInv, NEW s \in Slot,
         \/ \E p \in Proc : s \in {cwd[p], th[p].cur, th[p].ip, th[p].dp, th[p].pt}
         \/ \E f \in File : ftable[f].ip = s
  PROVE  icache[s].ref > 0
<1>. DEFINE a1 == {q \in Proc : cwd[q] = s}
            a2 == {g \in File : ftable[g].ip = s}
            a3 == {q \in Proc : th[q].cur = s}
            a4 == {q \in Proc : th[q].ip = s}
            a5 == {q \in Proc : th[q].dp = s}
            a6 == {q \in Proc : th[q].pt = s}
<1>1. /\ a1 \in SUBSET Proc /\ a2 \in SUBSET File /\ a3 \in SUBSET Proc /\ a4 \in SUBSET Proc
      /\ a5 \in SUBSET Proc /\ a6 \in SUBSET Proc
      /\ a1 # {} \/ a2 # {} \/ a3 # {} \/ a4 # {} \/ a5 # {} \/ a6 # {}
  OBVIOUS
<1>2. Pointers(s) = Cardinality(a1) + Cardinality(a2) + Cardinality(a3) + Cardinality(a4)
                    + Cardinality(a5) + Cardinality(a6)
  BY DEF Pointers
<1>. HIDE DEF a1, a2, a3, a4, a5, a6
<1>3. /\ Cardinality(a1) \in Nat /\ (a1 # {} => Cardinality(a1) >= 1)
      /\ Cardinality(a2) \in Nat /\ (a2 # {} => Cardinality(a2) >= 1)
      /\ Cardinality(a3) \in Nat /\ (a3 # {} => Cardinality(a3) >= 1)
  BY <1>1, FileFinite, AtLeastOne
<1>4. /\ Cardinality(a4) \in Nat /\ (a4 # {} => Cardinality(a4) >= 1)
      /\ Cardinality(a5) \in Nat /\ (a5 # {} => Cardinality(a5) >= 1)
      /\ Cardinality(a6) \in Nat /\ (a6 # {} => Cardinality(a6) >= 1)
  BY <1>1, FileFinite, AtLeastOne
<1>5. Pointers(s) \in Nat /\ Pointers(s) >= 1
  BY <1>1, <1>2, <1>3, <1>4
<1>6. icache[s].ref \in Nat /\ (icache[s].ref = Pointers(s) \/ icache[s].ref > Pointers(s))
  BY Zenon DEF IInv, Cache, RefExact
<1> QED BY <1>5, <1>6

(* The counts keep up with the pointers, but for one lost to the root. *)
Balance(p, f, s) ==
  LET old == Mine(th[p], s) + Bit(cwd[p] = s) + Bit(f \in File /\ ftable[f].ip = s)
      new == Mine(th'[p], s) + Bit(cwd'[p] = s) + Bit(f \in File /\ ftable'[f].ip = s)
  IN  /\ \/ icache'[s].ref + old = icache[s].ref + new
         \/ icache'[s].inum = ROOTINO /\ icache'[s].ref + old >= icache[s].ref + new
      /\ icache'[s].inum = icache[s].inum \/ icache[s].ref = 0 \/ icache'[s].ref = 0

Right(s) == \/ icache[s].ref = Pointers(s)
            \/ icache[s].inum = ROOTINO /\ icache[s].ref > Pointers(s)

LEMMA RefStep ==
  ASSUME Sums, IInv, NEW p \in Proc, NEW f, NEW s \in Slot, Cache(icache'), Balance(p, f, s), Others(p, f)
  PROVE  Right(s)'
<1>. DEFINE old == Mine(th[p], s) + Bit(cwd[p] = s) + Bit(f \in File /\ ftable[f].ip = s)
            new == Mine(th'[p], s) + Bit(cwd'[p] = s) + Bit(f \in File /\ ftable'[f].ip = s)
<1>1. /\ Mine(th[p], s) \in Nat /\ Bit(cwd[p] = s) \in Nat /\ Bit(f \in File /\ ftable[f].ip = s) \in Nat
      /\ Mine(th'[p], s) \in Nat /\ Bit(cwd'[p] = s) \in Nat /\ Bit(f \in File /\ ftable'[f].ip = s) \in Nat
  BY DEF Mine, Bit
<1>5. old \in Nat /\ new \in Nat
  BY <1>1
<1>2. Pointers(s) \in Nat /\ Pointers(s)' \in Nat /\ Pointers(s)' + old = Pointers(s) + new
  <2>1. Follow(p, f, s)
    BY PointersStep, Zenon
  <2> QED BY <2>1, RefsAre, Zenon DEF Follow
<1>3. /\ icache[s].ref = Pointers(s) \/ (icache[s].inum = ROOTINO /\ icache[s].ref > Pointers(s))
      /\ icache[s].ref \in Nat /\ icache'[s].ref \in Nat
  BY Zenon DEF IInv, RefExact, Cache, inum
<1>4. /\ \/ icache'[s].ref + old = icache[s].ref + new
         \/ icache'[s].inum = ROOTINO /\ icache'[s].ref + old >= icache[s].ref + new
      /\ icache'[s].inum = icache[s].inum \/ icache[s].ref = 0 \/ icache'[s].ref = 0
  BY Zenon DEF Balance
<1>. HIDE DEF old, new
<1> QED BY <1>2, <1>3, <1>4, <1>5 DEF Right

(* What p may become while its files and its directory stay. *)
Fit(p, u) ==
  /\ Thread(u) /\ (Place(th[p]) # "idle" \/ cwd[p] # 0 \/ Place(u) = "idle")
  /\ Using(u) => ofile[p] # 0 /\ (u.pc = "ilock" => u.lk = ftable[ofile[p]].ip)

(* A step of p that changes its local variables and the inode cache. *)
Becomes(p, u) == th' = [th EXCEPT ![p] = u] /\ cwd' = cwd /\ ofile' = ofile /\ ftable' = ftable
Even(p, u) ==
  \A s \in Slot :
     /\ icache'[s].ref + Mine(th[p], s) = icache[s].ref + Mine(u, s)
     /\ icache'[s].inum = icache[s].inum \/ icache[s].ref = 0 \/ icache'[s].ref = 0

LEMMA LocalStep ==
  ASSUME Sums, IInv, NEW p \in Proc, NEW u, Becomes(p, u), Fit(p, u), Cache(icache'), Even(p, u)
  PROVE  IInv'
<1>. USE DEF Becomes, Even
<1>1. DOMAIN th' = Proc /\ th'[p] = u /\ \A q \in Proc : q # p => th'[q] = th[q]
  BY DEF IInv
<1>2. cwd' \in [Proc -> Ptr] /\ ofile' \in [Proc -> 0 .. NFILE] /\ Files'
  BY Zenon DEF IInv, Files
<1>3. ASSUME NEW q \in Proc PROVE Process(q)'
  <2>1. Process(q)
    BY Zenon DEF IInv
  <2>2. CASE q # p
    BY <1>1, <2>1, <2>2, Zenon DEF Process
  <2>3. CASE q = p
    BY <1>1, <2>1, <2>3, Zenon DEF Process, Fit
  <2> QED BY <2>2, <2>3, Zenon
<1>4. \A f \in File : ftable'[f].ref = Cardinality({q \in Proc : ofile'[q] = f})
  BY Zenon DEF IInv, RefExact
<1>5. ASSUME NEW s \in Slot
      PROVE  \/ icache'[s].ref = Pointers(s)'
             \/ icache'[s].inum = ROOTINO /\ icache'[s].ref > Pointers(s)'
  <2>1. /\ Mine(th[p], s) \in Nat /\ Mine(u, s) \in Nat /\ Bit(cwd[p] = s) \in Nat
        /\ Bit(0 \in File /\ ftable[0].ip = s) = 0
    BY InodeAssumption DEF Mine, Bit, File
  <2>2. icache[s].ref \in Nat /\ icache'[s].ref \in Nat
    BY Zenon DEF IInv, Cache
  <2>3. icache'[s].ref + (Mine(th[p], s) + Bit(cwd[p] = s) + Bit(0 \in File /\ ftable[0].ip = s))
        = icache[s].ref + (Mine(u, s) + Bit(cwd[p] = s) + Bit(0 \in File /\ ftable[0].ip = s))
    BY <2>1, <2>2
  <2>4. Balance(p, 0, s)
    BY <1>1, <2>3, Zenon DEF Balance
  <2> QED BY <1>1, <2>4, RefStep, Zenon DEF Others, Right
<1>6. RefExact'
  BY <1>4, <1>5, Zenon DEF RefExact, inum
<1> QED BY <1>1, <1>2, <1>3, <1>6, Zenon DEF IInv

(* Its local variables point to the same slots, to n once more, or to n once less. *)
Same(t, u) == \A s \in Slot : Mine(u, s) = Mine(t, s)
Gains(t, u, n) == \A s \in Slot : Mine(u, s) = Mine(t, s) + Bit(n = s)
Loses(t, u, n) == \A s \in Slot : Mine(u, s) + Bit(n = s) = Mine(t, s)

(* The three ways in which the cache follows. *)
LEMMA KeepStep ==
  ASSUME Sums, IInv, NEW p \in Proc, NEW u, Becomes(p, u), Fit(p, u), Kept(icache, icache'),
         Same(th[p], u)
  PROVE  IInv'
<1>1. Even(p, u)
  BY DEF Even, Kept, Same
<1> QED BY <1>1, LocalStep, Zenon DEF Kept

LEMMA TakeStep ==
  ASSUME Sums, IInv, NEW p \in Proc, NEW u, Becomes(p, u), Fit(p, u),
         NEW n, More(icache, icache', n),
         Gains(th[p], u, n)
  PROVE  IInv'
<1>1. ASSUME NEW s \in Slot
      PROVE  /\ icache'[s].ref + Mine(th[p], s) = icache[s].ref + Mine(u, s)
             /\ icache'[s].inum = icache[s].inum \/ icache[s].ref = 0 \/ icache'[s].ref = 0
  <2>1. Mine(th[p], s) \in Nat /\ Bit(n = s) \in Nat /\ icache[s].ref \in Nat
    BY DEF Mine, Bit, IInv, Cache
  <2>2. icache'[s].ref = icache[s].ref + Bit(n = s) /\ Mine(u, s) = Mine(th[p], s) + Bit(n = s)
    BY Zenon DEF More, Gains
  <2>3. icache'[s].ref + Mine(th[p], s) = icache[s].ref + Mine(u, s)
    BY <2>1, <2>2
  <2> QED BY <2>3, Zenon DEF More
<1>2. Even(p, u) /\ Cache(icache')
  BY <1>1, Zenon DEF Even, More
<1> QED BY <1>2, LocalStep, Zenon

LEMMA DropStep ==
  ASSUME Sums, IInv, NEW p \in Proc, NEW u, Becomes(p, u), Fit(p, u),
         NEW n, Less(icache, icache', n),
         Loses(th[p], u, n)
  PROVE  IInv'
<1>1. ASSUME NEW s \in Slot
      PROVE  /\ icache'[s].ref + Mine(th[p], s) = icache[s].ref + Mine(u, s)
             /\ icache'[s].inum = icache[s].inum \/ icache[s].ref = 0 \/ icache'[s].ref = 0
  <2>1. Mine(u, s) \in Nat /\ Bit(n = s) \in Nat /\ icache'[s].ref \in Nat
    BY DEF Mine, Bit, Less, Cache
  <2>2. icache'[s].ref + Bit(n = s) = icache[s].ref /\ Mine(u, s) + Bit(n = s) = Mine(th[p], s)
    BY Zenon DEF Less, Loses
  <2>3. icache'[s].ref + Mine(th[p], s) = icache[s].ref + Mine(u, s)
    BY <2>1, <2>2
  <2> QED BY <2>3, Zenon DEF Less
<1>2. Even(p, u) /\ Cache(icache')
  BY <1>1, Zenon DEF Even, Less
<1> QED BY <1>2, LocalStep, Zenon

LEMMA Facts ==
  ASSUME Sums, IInv, NEW p \in Proc
  PROVE  /\ Thread(th[p]) /\ Cache(icache) /\ Files /\ cwd[p] \in Ptr /\ ofile[p] \in 0 .. NFILE
         /\ cwd[p] = 0 => ofile[p] = 0 /\ Place(th[p]) = "idle"
         /\ Using(th[p]) =>
              ofile[p] # 0 /\ (th[p].pc = "ilock" => th[p].lk = ftable[ofile[p]].ip)
         /\ Place(th[p]) # "idle" => cwd[p] \in Slot
         /\ ofile[p] # 0 => ofile[p] \in File
<1>1. /\ Thread(th[p]) /\ Cache(icache) /\ Files /\ cwd[p] \in Ptr /\ ofile[p] \in 0 .. NFILE
      /\ cwd[p] = 0 => ofile[p] = 0 /\ Place(th[p]) = "idle"
      /\ Using(th[p]) =>
           ofile[p] # 0 /\ (th[p].pc = "ilock" => th[p].lk = ftable[ofile[p]].ip)
  BY Zenon DEF IInv, Process
<1>2. Place(th[p]) # "idle" => cwd[p] \in Slot
  BY <1>1, Rooms
<1>3. ofile[p] # 0 => ofile[p] \in File
  BY <1>1, InodeAssumption DEF File
<1> QED BY <1>1, <1>2, <1>3, Zenon

LEMMA SameStep ==
  ASSUME Sums, IInv, icache' = icache, th' = th, cwd' = cwd, ofile' = ofile, ftable' = ftable
  PROVE  IInv'
<1>1. \A s \in Slot : Pointers(s)' = Pointers(s)
  BY Zenon DEF Pointers
<1>2. RefExact'
  BY <1>1, Zenon DEF IInv, RefExact, inum
<1>3. Files' /\ \A p \in Proc : Process(p)'
  BY Zenon DEF IInv, Files, Process
<1> QED BY <1>2, <1>3, Zenon DEF IInv

-----------------------------------------------------------------------------
(* namex() *)

LEMMA AtNamex ==
  ASSUME NEW t, Thread(t), t.pc \in {"namex", "look"}
  PROVE  /\ InNamex(t) /\ Place(t) = t.pc /\ ~Using(t)
         /\ t.pc = "namex" => t.cur = 0
         /\ t.pc = "look" => t.cur \in Slot
<1>1. t.pc \notin {"ilock"} \cup Putting
  BY DEF Putting
<1>2. /\ Rec(t) /\ Place(t) = t.pc /\ t.pt = 0 /\ t.aft \in {"idle", "opened"}
      /\ t.cur \in Ptr /\ t.ip \in Ptr /\ t.dp \in Ptr
      /\ t.cur # 0 <=> t.pc \in Walks
      /\ t.dp # 0 <=> \/ t.pc \in {"create", "createnew", "unlink", "unlinkbad", "erase", "link2"}
                      \/ t.pc = "begin" /\ t.op = "unlink"
      /\ t.ip # 0 <=> \/ t.pc \in {"open", "opened", "chdir", "exec", "link", "linkbad", "createold",
                                   "createnew", "erase", "made", "unlinked", "lockold", "lockbad",
                                   "putip", "link2"}
                      \/ t.pc \in InPath /\ t.op = "link2"
                      \/ t.pc = "begin" /\ t.op \in {"link", "close"}
                      \/ t.pc = "commit" /\ t.aft = "opened"
      /\ t.pc \in InPath => PathOp(t.op)
      /\ t.aft = "opened" => t.pc \in {"commit", "opened", "idle"}
  BY <1>1, PlainFacts, Zenon DEF PlainAt
<1>3. t.dp = 0 /\ (t.ip # 0 <=> t.op = "link2") /\ t.aft = "idle" /\ PathOp(t.op)
  BY <1>2 DEF InPath
<1>4. t.pc = "namex" => t.cur = 0
  BY <1>2 DEF Walks
<1>5. t.pc = "look" => t.cur \in Slot
  BY <1>2, Rooms DEF Walks
<1> QED BY <1>2, <1>3, <1>4, <1>5 DEF InNamex, Using

LEMMA NamexTakes ==
  ASSUME Sums, IInv, NEW p \in Proc, th[p].pc = "namex", NEW n \in Slot, More(icache, icache', n),
         NEW path, Becomes(p, Walk(th[p], n, path))
  PROVE  IInv'
<1>1. InNamex(th[p]) /\ Place(th[p]) = "namex" /\ th[p].cur = 0
  BY Facts, AtNamex
<1>2. PICK u : u = Walk(th[p], n, path)
  OBVIOUS
<1>3. /\ Thread(u) /\ ~Using(u)
      /\ Trades(th[p], u, n)
  BY <1>1, <1>2, WalkThread, Zenon
<1>4. Gains(th[p], u, n)
  BY <1>1, <1>3, Rooms DEF Gains, Trades, Mine, Bit
<1>5. Fit(p, u)
  BY <1>1, <1>3 DEF Fit
<1> QED BY <1>2, <1>4, <1>5, TakeStep, Zenon

LEMMA NamexStartStep == ASSUME Sums, IInv, NEW p \in Proc, NamexStart(p) PROVE IInv'
<1>1. th[p].pc = "namex" /\ cwd' = cwd /\ ofile' = ofile /\ ftable' = ftable
  BY Zenon DEF NamexStart, At, procs
<1>2. Cache(icache) /\ cwd[p] \in Slot
  BY <1>1, Facts, AtNamex
<1>3. CASE Head(th[p].path) = "/"
  <2>1. /\ HasSlot(ROOTINO) /\ icache' = Iget(ROOTINO)
        /\ Becomes(p, Walk(th[p], SlotOf(ROOTINO), Tail(th[p].path)))
    BY <1>1, <1>3, Zenon DEF NamexStart, Step, Goto, Becomes
  <2>2. SlotOf(ROOTINO) \in Slot /\ More(icache, icache', SlotOf(ROOTINO))
    BY <1>2, <2>1, IgetMore, Zenon
  <2> QED BY <1>1, <2>1, <2>2, NamexTakes, Zenon
<1>4. CASE Head(th[p].path) # "/"
  <2>1. icache' = idup(cwd[p]) /\ Becomes(p, Walk(th[p], cwd[p], th[p].path))
    BY <1>1, <1>4, Zenon DEF NamexStart, Step, Goto, Becomes
  <2>2. More(icache, icache', cwd[p])
    BY <1>2, <2>1, IdupMore, Zenon
  <2> QED BY <1>1, <1>2, <2>1, <2>2, NamexTakes, Zenon
<1> QED BY <1>3, <1>4, Zenon

LEMMA LookStep == ASSUME Sums, IInv, NEW p \in Proc, Look(p) PROVE IInv'
<1>. DEFINE t == th[p]
            s == t.cur
            i == disk.ents[inum(s)][Head(t.path)]
<1>1. t.pc = "look" /\ cwd' = cwd /\ ofile' = ofile /\ ftable' = ftable
  BY Zenon DEF Look, At, procs
<1>2. Cache(icache) /\ InNamex(t) /\ Place(t) = "look" /\ s \in Slot /\ s # 0 /\ s \in Ptr
  BY <1>1, Facts, AtNamex, Rooms
<1>3. /\ Rec(t) /\ t.ip \in Ptr /\ t.dp = 0 /\ t.pt = 0 /\ t.aft = "idle" /\ PathOp(t.op)
      /\ t.ip # 0 <=> t.op = "link2"
  BY <1>2, Zenon DEF InNamex
<1>4. CASE icache' = iunlock(icache, s) /\ Becomes(p, Found(t, s))
  <2>1. Kept(icache, icache')
    BY <1>2, <1>4, UnlockKept, Zenon
  <2>2. PICK u : u = Found(t, s)
    OBVIOUS
  <2>3. Thread(u) /\ ~Using(u)
    BY <1>2, <2>2, FoundThread
  <2>4. Same(t, u)
    <3>1. \A x \in Slot : Mine(u, x) + Bit(s = x) = Mine(t, x) + Bit(s = x)
      BY <1>2, <2>2, FoundMine
    <3> QED BY <3>1 DEF Same, Mine, Bit
  <2>5. Fit(p, u)
    BY <1>2, <2>3 DEF Fit
  <2> QED BY <1>4, <2>1, <2>2, <2>4, <2>5, KeepStep, Zenon
<1>5. CASE icache' = iunlock(icache, s) /\ Becomes(p, ThenPut([t EXCEPT !.cur = 0], s, "missing"))
  <2>1. Kept(icache, icache')
    BY <1>2, <1>5, UnlockKept, Zenon
  <2>2. PICK v : v = [t EXCEPT !.cur = 0]
    OBVIOUS
  <2>3. PICK u : u = ThenPut(v, s, "missing")
    OBVIOUS
  <2>4. Rec(v) /\ v.op = t.op /\ v.aft = t.aft /\ v.cur = 0 /\ v.ip = t.ip /\ v.dp = t.dp /\ v.pt = t.pt
    BY <1>3, <2>2 DEF Rec, Field
  <2>5. /\ Rec(u) /\ u.pc = "iput" /\ u.k = "missing" /\ u.op = t.op /\ u.aft = "idle"
        /\ u.cur = 0 /\ u.ip = t.ip /\ u.dp = 0 /\ u.pt = s
    BY <1>3, <2>3, <2>4, PutIs DEF Left
  <2>6. Thread(u) /\ ~Using(u)
    <3>1. ToPut(u)
      BY <1>2, <1>3, <2>5, Rooms DEF Puts, PathOp, ToPut
    <3>2. u.pc \in Putting
      BY <2>5 DEF Putting
    <3> QED BY <3>1, <3>2, PutThread, Zenon
  <2>7. Same(t, u)
    BY <1>3, <2>5, Rooms DEF Same, Mine, Bit
  <2>8. Fit(p, u)
    BY <1>2, <2>6 DEF Fit
  <2> QED BY <1>5, <2>1, <2>2, <2>3, <2>7, <2>8, KeepStep, Zenon
<1>6. CASE /\ HasSlot(i) /\ icache' = iunlock(Iget(i), s)
           /\ Becomes(p, ThenPut([t EXCEPT !.cur = SlotOf(i), !.path = Tail(@)], s, "walk"))
  <2>1. PICK n : n = SlotOf(i)
    OBVIOUS
  <2>2. n \in Slot /\ n \in Ptr /\ n # 0 /\ More(icache, Iget(i), n)
    BY <1>2, <1>6, <2>1, IgetMore, Rooms
  <2>3. More(icache, icache', n)
    BY <1>6, <2>2, UnlockMore, Zenon
  <2>4. PICK v : v = [t EXCEPT !.cur = n, !.path = Tail(@)]
    OBVIOUS
  <2>5. PICK u : u = ThenPut(v, s, "walk")
    OBVIOUS
  <2>6. Rec(v) /\ v.op = t.op /\ v.aft = t.aft /\ v.cur = n /\ v.ip = t.ip /\ v.dp = t.dp /\ v.pt = t.pt
    BY <1>3, <2>4 DEF Rec, Field
  <2>7. /\ Rec(u) /\ u.pc = "iput" /\ u.k = "walk" /\ u.op = t.op /\ u.aft = "idle"
        /\ u.cur = n /\ u.ip = t.ip /\ u.dp = 0 /\ u.pt = s
    BY <1>3, <2>5, <2>6, PutIs DEF Left
  <2>8. Thread(u) /\ ~Using(u)
    <3>1. ToPut(u)
      BY <1>2, <1>3, <2>2, <2>7, Rooms DEF Puts, PathOp, ToPut
    <3>2. u.pc \in Putting
      BY <2>7 DEF Putting
    <3> QED BY <3>1, <3>2, PutThread, Zenon
  <2>9. Gains(t, u, n)
    BY <1>3, <2>7, Rooms DEF Gains, Mine, Bit
  <2>10. Fit(p, u)
    BY <1>2, <2>8 DEF Fit
  <2> QED BY <1>6, <2>1, <2>3, <2>4, <2>5, <2>9, <2>10, TakeStep, Zenon
<1> QED BY <1>1, <1>4, <1>5, <1>6, Zenon DEF Look, Step, Goto, Becomes

-----------------------------------------------------------------------------
(* ilock() and iput() *)

LEMMA Locked ==
  ASSUME NEW t, Thread(t), t.pc = "ilock", NEW u, u = [t EXCEPT !.pc = t.k]
  PROVE  Thread(u) /\ Place(u) = Place(t) /\ u.pc # "ilock" /\ Same(t, u)
<1>1. /\ Rec(u) /\ u.pc = t.k /\ u.k = t.k /\ u.op = t.op /\ u.aft = t.aft
      /\ u.cur = t.cur /\ u.ip = t.ip /\ u.dp = t.dp /\ u.pt = t.pt
  BY GoIs DEF Thread, Left
<1>2. t.k \in Locks /\ t.pc # "begin"
  BY DEF Thread, Typed
<1>3. u.pc \notin {"ilock", "idle", "begin", "root"} \cup Putting
  BY <1>1, <1>2 DEF Locks, Putting
<1>4. Place(u) = t.k /\ Place(t) = t.k
  BY <1>1, <1>3 DEF Place
<1>5. Typed(u)
  BY <1>1, <1>3, Zenon DEF Thread, Typed
<1>6. Shape(u)
  <2>1. /\ t.cur # 0 <=> t.k \in Walks
        /\ t.dp # 0 <=> HasDp(t)
        /\ t.ip # 0 <=> HasIp(t)
        /\ t.pt # 0 <=> t.pc \in Putting
        /\ t.aft = "opened" => t.k \in {"commit", "opened", "idle"}
    BY <1>4, Zenon DEF Thread, Shape
  <2>2. HasDp(u) <=> HasDp(t)
    BY <1>1, <1>2, <1>3, <1>4, Zenon DEF HasDp
  <2>3. HasIp(u) <=> HasIp(t)
    BY <1>1, <1>2, <1>3, <1>4, Zenon DEF HasIp
  <2>4. t.pc \notin Putting
    BY DEF Putting
  <2> QED BY <1>1, <1>3, <1>4, <2>1, <2>2, <2>3, <2>4, Zenon DEF Shape
<1>7. Ops(u)
  BY <1>1, <1>3, <1>4, Zenon DEF Thread, Ops
<1>8. Lock(u)
  BY <1>3, Zenon DEF Lock
<1>9. Same(t, u)
  BY <1>1, Zenon DEF Same, Mine
<1> QED BY <1>1, <1>3, <1>4, <1>5, <1>6, <1>7, <1>8, <1>9, Zenon DEF Thread

LEMMA IlockStep == ASSUME Sums, IInv, NEW p \in Proc, Ilock(p) PROVE IInv'
<1>1. /\ th[p].pc = "ilock" /\ Becomes(p, [th[p] EXCEPT !.pc = th[p].k])
      /\ icache' = [icache EXCEPT ![th[p].lk] = [Loaded(th[p].lk) EXCEPT !.busy = TRUE]]
  BY Zenon DEF Ilock, At, Step, Goto, procs, Becomes
<1>2. Thread(th[p]) /\ (Using(th[p]) => ofile[p] # 0) /\ Kept(icache, icache')
  BY <1>1, Facts, LockKept
<1>3. PICK u : u = [th[p] EXCEPT !.pc = th[p].k]
  OBVIOUS
<1>4. Thread(u) /\ Place(u) = Place(th[p]) /\ u.pc # "ilock" /\ Same(th[p], u)
  BY <1>1, <1>2, <1>3, Locked
<1>5. Using(u) => Using(th[p])
  <2>1. u.op = th[p].op /\ u.pc = th[p].k /\ th[p].k \in Locks
    BY <1>1, <1>2, <1>3, GoIs DEF Thread, Typed, Left
  <2> QED BY <1>4, <2>1 DEF Using, Locks
<1>6. Fit(p, u)
  BY <1>2, <1>4, <1>5, Zenon DEF Fit
<1> QED BY <1>1, <1>2, <1>3, <1>4, <1>6, KeepStep, Zenon

LEMMA PuttingOn ==
  ASSUME Sums, IInv, NEW p \in Proc, th[p].pc \in Putting, NEW pc \in Putting,
         Becomes(p, [th[p] EXCEPT !.pc = pc]), Kept(icache, icache')
  PROVE  IInv'
<1>. DEFINE t == th[p]
<1>1. Thread(t)
  BY Facts
<1>2. PICK u : u = [t EXCEPT !.pc = pc]
  OBVIOUS
<1>3. /\ Rec(t) /\ t.k \in Puts /\ t.pt \in Slot /\ t.aft \in {"idle", "opened"} /\ Place(t) = t.k
      /\ t.cur \in Ptr /\ t.ip \in Ptr /\ t.dp \in Ptr
      /\ t.cur # 0 <=> t.k = "walk"
      /\ t.dp # 0 <=> t.k = "unlinkbad"
      /\ t.ip # 0 <=> \/ t.k \in {"made", "unlinked", "lockold", "lockbad", "putip"}
                      \/ t.k \in {"walk", "missing"} /\ t.op = "link2"
                      \/ t.k = "commit" /\ t.aft = "opened"
      /\ t.k \in {"walk", "missing"} => PathOp(t.op)
      /\ t.aft = "opened" => t.k \in {"commit", "idle"}
  BY <1>1, PutFacts, Zenon DEF ToPut
<1>4. /\ Rec(u) /\ u.pc = pc /\ u.k = t.k /\ u.op = t.op /\ u.aft = t.aft
      /\ u.cur = t.cur /\ u.ip = t.ip /\ u.dp = t.dp /\ u.pt = t.pt
  BY <1>2, <1>3, GoIs DEF Left
<1>5. Thread(u)
  BY <1>3, <1>4, PutThread, Zenon DEF PathOp, ToPut
<1>6. Place(u) = Place(t)
  BY <1>3, <1>4, Zenon DEF Place
<1>7. ~Using(u)
  BY <1>3, <1>4, <1>6 DEF Using, Puts, Putting
<1>8. Same(t, u)
  BY <1>4, Zenon DEF Same, Mine
<1>9. Fit(p, u)
  BY <1>5, <1>6, <1>7, Zenon DEF Fit
<1> QED BY <1>2, <1>8, <1>9, KeepStep, Zenon

LEMMA IputLastStep == ASSUME Sums, IInv, NEW p \in Proc, IputLast(p) PROVE IInv'
<1>1. /\ th[p].pc \in Putting /\ Becomes(p, [th[p] EXCEPT !.pc = "itrunc"])
      /\ icache' = [icache EXCEPT ![th[p].pt].busy = TRUE]
  BY Zenon DEF IputLast, At, Step, Goto, procs, Becomes, Putting
<1>2. Kept(icache, icache')
  BY <1>1, Facts, LockKept
<1> QED BY <1>1, <1>2, PuttingOn, Zenon DEF Putting

LEMMA ItruncStep == ASSUME Sums, IInv, NEW p \in Proc, Itrunc(p) \/ Ifree(p) PROVE IInv'
<1>1. PICK pc \in Putting : Becomes(p, [th[p] EXCEPT !.pc = pc])
  BY Zenon DEF Itrunc, Ifree, Step, Goto, procs, Becomes, Putting
<1>2. th[p].pc \in Putting /\ icache' = icache
  BY Zenon DEF Itrunc, Ifree, At, Step, Putting
<1>3. Kept(icache, icache')
  BY <1>2, Facts, KeptItself
<1> QED BY <1>1, <1>2, <1>3, PuttingOn, Zenon

LEMMA PutEnds ==
  ASSUME Sums, IInv, NEW p \in Proc, th[p].pc \in {"iput", "iputend"}, Becomes(p, Resume(th[p])),
         Less(icache, icache', th[p].pt)
  PROVE  IInv'
<1>1. Thread(th[p]) /\ th[p].pc \in Putting
  BY Facts DEF Putting
<1>2. PICK u : u = Resume(th[p])
  OBVIOUS
<1>3. /\ Thread(u) /\ ~Using(u) /\ (th[p].k = "idle" => Place(u) = "idle")
      /\ \A x \in Slot : Mine(u, x) + Bit(th[p].pt = x) = Mine(th[p], x)
  BY <1>1, <1>2, ResumeThread
<1>4. Loses(th[p], u, th[p].pt)
  BY <1>3, Zenon DEF Loses
<1>5. Fit(p, u)
  BY <1>1, <1>3, PutFacts, Zenon DEF Fit, ToPut
<1> QED BY <1>2, <1>4, <1>5, DropStep, Zenon

LEMMA PutInUse ==
  ASSUME Sums, IInv, NEW p \in Proc, th[p].pc \in Putting
  PROVE  th[p].pt \in Slot /\ icache[th[p].pt].ref > 0
<1>1. th[p].pt \in Slot
  BY Facts, PutFacts DEF ToPut
<1> QED BY <1>1, InUse

LEMMA IputStep == ASSUME Sums, IInv, NEW p \in Proc, Iput(p) PROVE IInv'
<1>1. /\ th[p].pc \in {"iput", "iputend"} /\ th[p].pc \in Putting /\ Becomes(p, Resume(th[p]))
      /\ icache' = Dropped(icache, th[p].pt)
  BY Zenon DEF Iput, At, Step, Goto, procs, Becomes, Putting
<1>2. Less(icache, icache', th[p].pt)
  BY <1>1, Facts, PutInUse, DroppedLess
<1> QED BY <1>1, <1>2, PutEnds, Zenon

LEMMA IputEndStep == ASSUME Sums, IInv, NEW p \in Proc, IputEnd(p) PROVE IInv'
<1>. DEFINE s == th[p].pt
<1>1. PICK c : c = [icache EXCEPT ![s].busy = FALSE, ![s].valid = FALSE, ![s].type = "none"]
  OBVIOUS
<1>2. /\ th[p].pc \in {"iput", "iputend"} /\ th[p].pc \in Putting /\ Becomes(p, Resume(th[p]))
      /\ icache' = Dropped(c, s)
  BY <1>1, Zenon DEF IputEnd, At, Step, Goto, procs, Becomes, Putting
<1>3. s \in Slot /\ icache[s].ref > 0 /\ Kept(icache, c)
  BY <1>1, <1>2, Facts, PutInUse, LockKept
<1>4. Less(c, icache', s)
  BY <1>2, <1>3, DroppedLess DEF Kept
<1>5. Less(icache, icache', s)
  BY <1>3, <1>4, Zenon DEF Less, Kept
<1> QED BY <1>2, <1>5, PutEnds, Zenon

-----------------------------------------------------------------------------
(* System calls that keep the references they have *)

(* A process away from ilock() and iput(), as far as its pointers go. *)
LEMMA Plain ==
  ASSUME Sums, IInv, NEW p \in Proc, th[p].pc \notin {"ilock", "idle"} \cup Putting
  PROVE  Cache(icache) /\ Place(th[p]) = th[p].pc /\ Place(th[p]) # "idle" /\ PlainAt(th[p])
<1>1. Thread(th[p]) /\ Cache(icache) /\ th[p].pc \notin {"ilock"} \cup Putting /\ th[p].pc # "idle"
  BY Facts
<1> QED BY <1>1, PlainFacts, Zenon

PutsIp(t, k) ==
  \/ t.pc \in {"createold", "made", "unlinked", "link", "linkbad"} /\ k = "commit"
  \/ t.pc = "begin" /\ t.op = "close" /\ k = "commit"
  \/ t.pc \in {"open", "opened", "chdir", "exec"} /\ k = "idle"
  \/ t.pc = "erase" /\ k = "unlinkbad"

LEMMA PutIpStep ==
  ASSUME Sums, IInv, NEW p \in Proc, NEW k, Becomes(p, PutIp(th[p], k)), Kept(icache, icache'),
         PutsIp(th[p], k)
  PROVE  IInv'
<1>. DEFINE t == th[p]
<1>1. t.pc \notin {"ilock", "idle"} \cup Putting
  BY DEF Putting, PutsIp
<1>2. /\ Rec(t) /\ Place(t) # "idle" /\ t.pt = 0 /\ t.cur = 0 /\ t.ip \in Slot /\ t.dp \in Ptr /\ 0 \in Ptr
      /\ t.dp # 0 <=> k = "unlinkbad"
      /\ t.aft \in {"idle", "opened"} /\ (t.aft = "opened" => k = "idle")
  BY <1>1, Plain, Rooms DEF Walks, PlainAt, PutsIp
<1>3. PICK u : u = PutIp(t, k)
  OBVIOUS
<1>4. /\ Rec(u) /\ u.pc = "iput" /\ u.k = k /\ u.op = t.op /\ u.aft = t.aft
      /\ u.cur = t.cur /\ u.ip = 0 /\ u.dp = t.dp /\ u.pt = t.ip
  BY <1>2, <1>3, PutIpIs DEF Left
<1>5. k \in {"commit", "idle", "unlinkbad"}
  BY DEF PutsIp
<1>6. Thread(u) /\ ~Using(u)
  <2>1. ToPut(u)
    BY <1>2, <1>4, <1>5 DEF Puts, ToPut
  <2>2. u.pc \in Putting
    BY <1>4 DEF Putting
  <2> QED BY <2>1, <2>2, PutThread, Zenon
<1>7. Same(t, u)
  BY <1>2, <1>4, Rooms DEF Same, Mine, Bit
<1>8. Fit(p, u)
  BY <1>2, <1>6, Zenon DEF Fit
<1> QED BY <1>3, <1>7, <1>8, KeepStep, Zenon

PutsDp(t, k) ==
  \/ t.pc \in {"unlink", "unlinkbad"} /\ k = "commit"
  \/ t.pc = "erase" /\ k = "unlinked"
  \/ t.pc = "link2" /\ k \in {"lockbad", "putip"}
  \/ t.pc = "createnew" /\ k = "made"

LEMMA PutDpStep ==
  ASSUME Sums, IInv, NEW p \in Proc, NEW k, Becomes(p, PutDp(th[p], k)), Kept(icache, icache'),
         PutsDp(th[p], k)
  PROVE  IInv'
<1>. DEFINE t == th[p]
<1>1. t.pc \notin {"ilock", "idle"} \cup Putting
  BY DEF Putting, PutsDp
<1>2. /\ Rec(t) /\ Place(t) # "idle" /\ t.pt = 0 /\ t.cur = 0 /\ t.dp \in Slot /\ t.ip \in Ptr /\ 0 \in Ptr
      /\ t.ip # 0 <=> k # "commit"
      /\ t.aft = "idle"
  BY <1>1, Plain, Rooms DEF Walks, InPath, PlainAt, PutsDp
<1>3. PICK u : u = PutDp(t, k)
  OBVIOUS
<1>4. /\ Rec(u) /\ u.pc = "iput" /\ u.k = k /\ u.op = t.op /\ u.aft = t.aft
      /\ u.cur = t.cur /\ u.ip = t.ip /\ u.dp = 0 /\ u.pt = t.dp
  BY <1>2, <1>3, PutDpIs DEF Left
<1>5. k \in {"commit", "unlinked", "lockbad", "putip", "made"}
  BY DEF PutsDp
<1>6. Thread(u) /\ ~Using(u)
  <2>1. ToPut(u)
    BY <1>2, <1>4, <1>5 DEF Puts, ToPut
  <2>2. u.pc \in Putting
    BY <1>4 DEF Putting
  <2> QED BY <2>1, <2>2, PutThread, Zenon
<1>7. Same(t, u)
  BY <1>2, <1>4, Rooms DEF Same, Mine, Bit
<1>8. Fit(p, u)
  BY <1>2, <1>6, Zenon DEF Fit
<1> QED BY <1>3, <1>7, <1>8, KeepStep, Zenon

(* The process is done, with no references left. *)
LEMMA DoneStep ==
  ASSUME Sums, IInv, NEW p \in Proc, Becomes(p, Idle), Kept(icache, icache'),
         th[p].pc \notin {"ilock", "idle"} \cup Putting,
         th[p].cur = 0, th[p].ip = 0, th[p].dp = 0
  PROVE  IInv'
<1>1. th[p].pt = 0
  BY Plain DEF PlainAt
<1>2. Same(th[p], Idle)
  BY <1>1, IdleIs, Zenon DEF Same, Mine
<1>3. Place(Idle) = "idle" /\ ~Using(Idle)
  BY IdleIs DEF Place, Using, Putting
<1>4. Fit(p, Idle)
  BY <1>3, IdleThread, Zenon DEF Fit
<1> QED BY <1>2, <1>4, KeepStep, Zenon

LEMMA LinksUnlockKept ==
  ASSUME NEW c, Cache(c), NEW s, NEW n, NEW r
  PROVE  Kept(c, iunlock(Links(c, s, n), r))
<1>1. Kept(c, Links(c, s, n))
  BY LinksKept
<1>2. Kept(Links(c, s, n), iunlock(Links(c, s, n), r))
  BY <1>1, UnlockKept, Zenon DEF Kept
<1> QED BY <1>1, <1>2, KeptTwice, Zenon

LEMMA PutIpCalls ==
  ASSUME Sums, IInv, NEW p \in Proc, Made(p) \/ SysUnlinkDrop(p) \/ SysLinkBad(p) \/ Exec(p)
  PROVE  IInv'
<1>1. Cache(icache)
  BY Facts
<1>2. CASE Made(p)
  <2>1. th[p].pc = "made" /\ Becomes(p, PutIp(th[p], "commit")) /\ icache' = iunlock(icache, th[p].ip)
    BY <1>2, Zenon DEF Made, At, Step, Goto, procs, Becomes
  <2>2. Kept(icache, icache')
    BY <1>1, <2>1, UnlockKept, Zenon
  <2> QED BY <2>1, <2>2, PutIpStep, Zenon DEF PutsIp
<1>3. CASE SysUnlinkDrop(p)
  <2>1. /\ th[p].pc = "unlinked" /\ Becomes(p, PutIp(th[p], "commit"))
        /\ icache' = iunlock(Links(icache, th[p].ip, icache[th[p].ip].nlink - 1), th[p].ip)
    BY <1>3, Zenon DEF SysUnlinkDrop, At, Step, Goto, procs, Becomes
  <2>2. Kept(icache, icache')
    BY <1>1, <2>1, LinksUnlockKept, Zenon
  <2> QED BY <2>1, <2>2, PutIpStep, Zenon DEF PutsIp
<1>4. CASE SysLinkBad(p)
  <2>1. /\ th[p].pc = "linkbad" /\ Becomes(p, PutIp(th[p], "commit"))
        /\ icache' = iunlock(Links(icache, th[p].ip, icache[th[p].ip].nlink - 1), th[p].ip)
    BY <1>4, Zenon DEF SysLinkBad, At, Step, Goto, procs, Becomes
  <2>2. Kept(icache, icache')
    BY <1>1, <2>1, LinksUnlockKept, Zenon
  <2> QED BY <2>1, <2>2, PutIpStep, Zenon DEF PutsIp
<1>5. CASE Exec(p)
  <2>1. th[p].pc = "exec" /\ Becomes(p, PutIp(th[p], "idle")) /\ icache' = iunlock(icache, th[p].ip)
    BY <1>5, Zenon DEF Exec, At, Step, Goto, procs, Becomes
  <2>2. Kept(icache, icache')
    BY <1>1, <2>1, UnlockKept, Zenon
  <2> QED BY <2>1, <2>2, PutIpStep, Zenon DEF PutsIp
<1> QED BY <1>2, <1>3, <1>4, <1>5, Zenon

LEMMA SysUnlinkBadStep == ASSUME Sums, IInv, NEW p \in Proc, SysUnlinkBad(p) PROVE IInv'
<1>1. /\ th[p].pc \in {"unlink", "unlinkbad"} /\ Becomes(p, PutDp(th[p], "commit"))
      /\ icache' = iunlock(icache, th[p].dp)
  BY Zenon DEF SysUnlinkBad, At, Step, Goto, procs, Becomes
<1>2. Kept(icache, icache')
  BY <1>1, Facts, UnlockKept
<1> QED BY <1>1, <1>2, PutDpStep, Zenon DEF PutsDp

LEMMA SysUnlinkEraseStep == ASSUME Sums, IInv, NEW p \in Proc, SysUnlinkErase(p) PROVE IInv'
<1>1. Cache(icache) /\ th[p].pc = "erase"
  BY Facts DEF SysUnlinkErase, At
<1>2. CASE Becomes(p, PutIp(th[p], "unlinkbad")) /\ icache' = iunlock(icache, th[p].ip)
  <2>1. Kept(icache, icache')
    BY <1>1, <1>2, UnlockKept, Zenon
  <2> QED BY <1>1, <1>2, <2>1, PutIpStep, Zenon DEF PutsIp
<1>3. CASE /\ Becomes(p, PutDp(th[p], "unlinked"))
           /\ \E n : icache' = iunlock(Links(icache, th[p].dp, n), th[p].dp)
  <2>1. Kept(icache, icache')
    BY <1>1, <1>3, LinksUnlockKept, Zenon
  <2> QED BY <1>1, <1>3, <2>1, PutDpStep, Zenon DEF PutsDp
<1> QED BY <1>2, <1>3, Zenon DEF SysUnlinkErase, Step, Goto, procs, Becomes

LEMMA SysLinkEnterStep == ASSUME Sums, IInv, NEW p \in Proc, SysLinkEnter(p) PROVE IInv'
<1>1. PICK k \in {"lockbad", "putip"} : Becomes(p, PutDp(th[p], k))
  BY Zenon DEF SysLinkEnter, Step, Goto, procs, Becomes
<1>2. th[p].pc = "link2" /\ icache' = iunlock(icache, th[p].dp)
  BY Zenon DEF SysLinkEnter, At, Step
<1>3. Kept(icache, icache')
  BY <1>2, Facts, UnlockKept
<1> QED BY <1>1, <1>2, <1>3, PutDpStep, Zenon DEF PutsDp

LEMMA SysLinkStep == ASSUME Sums, IInv, NEW p \in Proc, SysLink(p) PROVE IInv'
<1>. DEFINE t == th[p]
<1>1. Cache(icache) /\ t.pc = "link"
  BY Facts DEF SysLink, At
<1>2. CASE Becomes(p, PutIp(t, "commit")) /\ icache' = iunlock(icache, t.ip)
  <2>1. Kept(icache, icache')
    BY <1>1, <1>2, UnlockKept, Zenon
  <2> QED BY <1>1, <1>2, <2>1, PutIpStep, Zenon DEF PutsIp
<1>3. CASE /\ Becomes(p, [t EXCEPT !.pc = "namex", !.op = "link2", !.path = t.to])
           /\ \E n : icache' = iunlock(Links(icache, t.ip, n), t.ip)
  <2>1. Kept(icache, icache')
    BY <1>1, <1>3, LinksUnlockKept, Zenon
  <2>2. PICK u : u = [t EXCEPT !.pc = "namex", !.op = "link2", !.path = t.to]
    OBVIOUS
  <2>3. /\ Rec(t) /\ Place(t) # "idle" /\ t.pt = 0 /\ t.cur = 0 /\ t.dp = 0 /\ t.aft = "idle"
        /\ t.ip \in Ptr /\ t.ip # 0
    BY <1>1, Plain DEF Walks, InPath, Putting, PlainAt
  <2>4. /\ Rec(u) /\ u.pc = "namex" /\ u.op = "link2" /\ u.aft = "idle" /\ u.pt = 0 /\ u.cur = 0
        /\ u.dp = 0 /\ u.ip = t.ip
    BY <2>2, <2>3 DEF Rec, Field
  <2>5. Thread(u) /\ ~Using(u)
    BY <2>3, <2>4, PlainThread, Rooms DEF Putting, Walks, Parent, Using, Place, OnOwn
  <2>6. Same(t, u)
    BY <2>3, <2>4, Zenon DEF Same, Mine
  <2>7. Fit(p, u)
    BY <2>3, <2>5, Zenon DEF Fit
  <2> QED BY <1>3, <2>1, <2>2, <2>6, <2>7, KeepStep, Zenon
<1> QED BY <1>2, <1>3, Zenon DEF SysLink, Step, Goto, procs, Becomes

LEMMA CreateOldStep == ASSUME Sums, IInv, NEW p \in Proc, CreateOld(p) PROVE IInv'
<1>. DEFINE t == th[p]
<1>1. Cache(icache) /\ t.pc = "createold"
  BY Facts DEF CreateOld, At
<1>2. CASE Becomes(p, PutIp(t, "commit")) /\ icache' = iunlock(icache, t.ip)
  <2>1. Kept(icache, icache')
    BY <1>1, <1>2, UnlockKept, Zenon
  <2> QED BY <1>1, <1>2, <2>1, PutIpStep, Zenon DEF PutsIp
<1>3. CASE Becomes(p, [t EXCEPT !.pc = "commit", !.aft = "opened"]) /\ icache' = icache
  <2>1. Kept(icache, icache')
    BY <1>1, <1>3, KeptItself, Zenon
  <2>2. PICK u : u = [t EXCEPT !.pc = "commit", !.aft = "opened"]
    OBVIOUS
  <2>3. /\ Rec(t) /\ Place(t) # "idle" /\ t.pt = 0 /\ t.cur = 0 /\ t.dp = 0
        /\ t.ip \in Ptr /\ t.ip # 0
    BY <1>1, Plain DEF Walks, InPath, Putting, PlainAt
  <2>4. /\ Rec(u) /\ u.pc = "commit" /\ u.aft = "opened" /\ u.pt = 0 /\ u.cur = 0
        /\ u.dp = 0 /\ u.ip = t.ip
    BY <2>2, <2>3 DEF Rec, Field
  <2>5. Thread(u) /\ ~Using(u)
    BY <2>3, <2>4, PlainThread, Rooms DEF Putting, Walks, Using, Place, OnOwn
  <2>6. Same(t, u)
    BY <2>3, <2>4, Zenon DEF Same, Mine
  <2>7. Fit(p, u)
    BY <2>3, <2>5, Zenon DEF Fit
  <2> QED BY <1>3, <2>1, <2>2, <2>6, <2>7, KeepStep, Zenon
<1> QED BY <1>2, <1>3, Zenon DEF CreateOld, Step, Goto, procs, Becomes

LEMMA CreateNewStep == ASSUME Sums, IInv, NEW p \in Proc, CreateNew(p) PROVE IInv'
<1>. DEFINE t == th[p]
<1>1. Cache(icache) /\ t.pc = "createnew"
  BY Facts DEF CreateNew, At
<1>2. Kept(icache, icache')
  <2>1. PICK n : icache' = iunlock(Links(Links(icache, t.ip, 1), t.dp, n), t.dp)
    BY Zenon DEF CreateNew, Step
  <2>2. Kept(icache, Links(icache, t.ip, 1))
    BY <1>1, LinksKept
  <2>3. Kept(Links(icache, t.ip, 1), icache')
    <3>1. PICK c : c = Links(icache, t.ip, 1)
      OBVIOUS
    <3>2. Cache(c)
      BY <2>2, <3>1, Zenon DEF Kept
    <3> QED BY <2>1, <3>1, <3>2, LinksUnlockKept, Zenon
  <2> QED BY <2>2, <2>3, KeptTwice, Zenon
<1>3. CASE Becomes(p, PutDp(t, "made"))
  BY <1>1, <1>2, <1>3, PutDpStep, Zenon DEF PutsDp
<1>4. CASE Becomes(p, PutDp([t EXCEPT !.aft = "opened"], "commit"))
  <2>1. PICK v : v = [t EXCEPT !.aft = "opened"]
    OBVIOUS
  <2>2. PICK u : u = PutDp(v, "commit")
    OBVIOUS
  <2>3. /\ Rec(t) /\ Place(t) # "idle" /\ t.pt = 0 /\ t.cur = 0 /\ t.dp \in Slot
        /\ t.ip \in Ptr /\ t.ip # 0 /\ 0 \in Ptr
    BY <1>1, Plain, Rooms DEF Walks, Putting, PlainAt
  <2>4. Rec(v) /\ v.aft = "opened" /\ v.pt = 0 /\ v.cur = 0 /\ v.dp = t.dp /\ v.ip = t.ip
    BY <2>1, <2>3 DEF Rec, Field
  <2>5. /\ Rec(u) /\ u.pc = "iput" /\ u.k = "commit" /\ u.aft = "opened" /\ u.pt = t.dp /\ u.cur = 0
        /\ u.dp = 0 /\ u.ip = t.ip
    BY <2>2, <2>4, PutDpIs DEF Left
  <2>6. Thread(u) /\ ~Using(u)
    <3>1. ToPut(u)
      BY <2>3, <2>5 DEF Puts, ToPut
    <3>2. u.pc \in Putting
      BY <2>5 DEF Putting
    <3> QED BY <3>1, <3>2, PutThread, Zenon
  <2>7. Same(t, u)
    BY <2>3, <2>5, Rooms DEF Same, Mine, Bit
  <2>8. Fit(p, u)
    BY <2>3, <2>6, Zenon DEF Fit
  <2> QED BY <1>2, <1>4, <2>1, <2>2, <2>7, <2>8, KeepStep, Zenon
<1> QED BY <1>3, <1>4, Zenon DEF CreateNew, Step, Goto, procs, Becomes

(* A process that locks an inode it points to, or its open file. *)
LocksAs(p, s, k) ==
  \/ th[p].pc = "begin" /\ th[p].op = "unlink" /\ k = "unlink" /\ s = th[p].dp
  \/ th[p].pc = "begin" /\ th[p].op = "link" /\ k = "link" /\ s = th[p].ip
  \/ /\ (th[p].pc = "begin" /\ th[p].op = "write") \/ th[p].pc = "idle"
     /\ k = "used" /\ s = ftable[ofile[p]].ip /\ ofile[p] # 0

LEMMA LockStep ==
  ASSUME Sums, IInv, NEW p \in Proc, NEW s, NEW k, Becomes(p, ThenLock(th[p], s, k)),
         Kept(icache, icache'),
         LocksAs(p, s, k)
  PROVE  IInv'
<1>. DEFINE t == th[p]
<1>1. t.pc \notin {"ilock"} \cup Putting
  BY DEF Putting, LocksAs
<1>2. /\ Rec(t) /\ t.pt = 0 /\ t.cur = 0 /\ t.dp \in Ptr /\ t.ip \in Ptr /\ t.aft = "idle"
      /\ Place(t) # "idle" \/ cwd[p] # 0
      /\ t.dp # 0 <=> k = "unlink"
      /\ t.ip # 0 <=> k = "link"
  <2>1. CASE t.pc = "idle"
    <3>1. t = Idle /\ cwd[p] # 0 /\ 0 \in Ptr
      BY <1>1, <2>1, Facts, PlainFacts DEF PlainAt, LocksAs
    <3> QED BY <2>1, <3>1, IdleIs DEF LocksAs
  <2>2. CASE t.pc = "begin"
    BY <1>1, <2>2, Plain DEF Walks, InPath, PlainAt, LocksAs
  <2> QED BY <2>1, <2>2 DEF LocksAs
<1>3. PICK u : u = ThenLock(t, s, k)
  OBVIOUS
<1>4. /\ Rec(u) /\ u.pc = "ilock" /\ u.lk = s /\ u.k = k /\ u.op = t.op /\ u.aft = t.aft
      /\ u.cur = t.cur /\ u.ip = t.ip /\ u.dp = t.dp /\ u.pt = t.pt
  BY <1>2, <1>3, LockIs DEF Left
<1>5. k \in {"unlink", "link", "used"} /\ (k = "unlink" => s = t.dp) /\ (k = "link" => s = t.ip)
  BY DEF LocksAs
<1>6. u.k = "used" \/ u.lk = Target(u)
  BY <1>4, <1>5 DEF Target
<1>7. Thread(u)
  BY <1>2, <1>4, <1>5, <1>6, LockThread DEF Locks, ToLock
<1>8. Same(t, u)
  BY <1>4, Zenon DEF Same, Mine
<1>9. Fit(p, u)
  BY <1>2, <1>4, <1>7 DEF Fit, Using, Place, LocksAs
<1> QED BY <1>3, <1>8, <1>9, KeepStep, Zenon

LEMMA BeginStep == ASSUME Sums, IInv, NEW p \in Proc, Begin(p) PROVE IInv'
<1>. DEFINE t == th[p]
<1>1. t.pc = "begin" /\ icache' = icache
  BY Zenon DEF Begin, At, Step
<1>2. Thread(t) /\ (Using(t) => ofile[p] # 0) /\ Kept(icache, icache')
  BY <1>1, Facts, KeptItself
<1>3. t.op = "write" => ofile[p] # 0
  BY <1>1, <1>2, Zenon DEF Using
<1>4. Creates(t.op) \/ t.op \in {"unlink", "link", "write", "close"}
  BY <1>1, Plain DEF Putting, PlainAt
<1>5. PICK u : /\ Becomes(p, u)
               /\ u = CASE Creates(t.op)   -> [t EXCEPT !.pc = "namex"]
                        [] t.op = "unlink" -> ThenLock(t, t.dp, "unlink")
                        [] t.op = "link"   -> ThenLock(t, t.ip, "link")
                        [] t.op = "write"  -> ThenLock(t, ftable[ofile[p]].ip, "used")
                        [] t.op = "close"  -> PutIp(t, "commit")
  BY Zenon DEF Begin, Step, Goto, procs, Becomes
<1>6. CASE Creates(t.op)
  <2>1. u = [t EXCEPT !.pc = "namex"] /\ t.op \in {"creat", "mkdir", "mknod"}
    BY <1>5, <1>6 DEF Creates
  <2>2. /\ Rec(t) /\ Place(t) # "idle" /\ t.pt = 0 /\ t.cur = 0 /\ t.dp = 0 /\ t.ip = 0
        /\ t.aft = "idle" /\ 0 \in Ptr
    BY <1>1, <2>1, Plain DEF Walks, InPath, Putting, PlainAt
  <2>3. /\ Rec(u) /\ u.pc = "namex" /\ u.op = t.op /\ u.aft = t.aft
        /\ u.cur = t.cur /\ u.ip = t.ip /\ u.dp = t.dp /\ u.pt = t.pt
    BY <2>1, <2>2, GoIs DEF Left
  <2>4. Thread(u) /\ ~Using(u)
    BY <2>1, <2>2, <2>3, PlainThread DEF Putting, Walks, Parent, Creates, Using, Place, OnOwn
  <2>5. Same(t, u)
    BY <2>3, Zenon DEF Same, Mine
  <2>6. Fit(p, u)
    BY <2>2, <2>4, Zenon DEF Fit
  <2> QED BY <1>2, <1>5, <2>5, <2>6, KeepStep, Zenon
<1>7. CASE t.op = "unlink"
  <2>1. u = ThenLock(t, t.dp, "unlink")
    BY <1>5, <1>7 DEF Creates
  <2> QED BY <1>1, <1>2, <1>5, <1>7, <2>1, LockStep, Zenon DEF LocksAs
<1>8. CASE t.op = "link"
  <2>1. u = ThenLock(t, t.ip, "link")
    BY <1>5, <1>8 DEF Creates
  <2> QED BY <1>1, <1>2, <1>5, <1>8, <2>1, LockStep, Zenon DEF LocksAs
<1>9. CASE t.op = "write"
  <2>1. u = ThenLock(t, ftable[ofile[p]].ip, "used")
    BY <1>5, <1>9 DEF Creates
  <2> QED BY <1>1, <1>2, <1>3, <1>5, <1>9, <2>1, LockStep, Zenon DEF LocksAs
<1>10. CASE t.op = "close"
  <2>1. u = PutIp(t, "commit")
    BY <1>5, <1>10 DEF Creates
  <2> QED BY <1>1, <1>2, <1>5, <1>10, <2>1, PutIpStep, Zenon DEF PutsIp
<1> QED BY <1>4, <1>6, <1>7, <1>8, <1>9, <1>10, Zenon

LEMMA CommitStep == ASSUME Sums, IInv, NEW p \in Proc, Commit(p) PROVE IInv'
<1>. DEFINE t == th[p]
<1>1. t.pc = "commit" /\ icache' = icache
  BY Zenon DEF Commit, At, Step
<1>2. Kept(icache, icache')
  BY <1>1, Facts, KeptItself
<1>3. /\ t.pc \notin {"ilock", "idle"} \cup Putting
      /\ Rec(t) /\ Place(t) # "idle" /\ t.pt = 0 /\ t.cur = 0 /\ t.dp = 0 /\ t.ip \in Ptr /\ 0 \in Ptr
      /\ t.ip # 0 <=> t.aft = "opened"
      /\ t.aft \in {"idle", "opened"}
  BY <1>1, Plain DEF Walks, InPath, Putting, PlainAt
<1>4. CASE t.aft = "idle"
  <2>1. Becomes(p, Idle)
    BY <1>4, Zenon DEF Commit, Step, Goto, procs, Becomes
  <2>2. t.ip = 0
    BY <1>3, <1>4
  <2> QED BY <1>2, <1>3, <2>1, <2>2, DoneStep, Zenon
<1>5. CASE t.aft = "opened"
  <2>1. Becomes(p, [t EXCEPT !.pc = "opened"])
    BY <1>5 DEF Commit, Step, Goto, procs, Becomes
  <2>2. PICK u : u = [t EXCEPT !.pc = "opened"]
    OBVIOUS
  <2>3. /\ Rec(u) /\ u.pc = "opened" /\ u.op = t.op /\ u.aft = t.aft
        /\ u.cur = t.cur /\ u.ip = t.ip /\ u.dp = t.dp /\ u.pt = t.pt
    BY <1>3, <2>2, GoIs DEF Left
  <2>4. Thread(u) /\ ~Using(u)
    BY <1>3, <1>5, <2>3, PlainThread DEF Putting, Walks, Using, Place, OnOwn
  <2>5. Same(t, u)
    BY <2>3, Zenon DEF Same, Mine
  <2>6. Fit(p, u)
    BY <1>3, <2>4, Zenon DEF Fit
  <2> QED BY <1>2, <2>1, <2>2, <2>5, <2>6, KeepStep, Zenon
<1> QED BY <1>3, <1>4, <1>5, Zenon

LEMMA UsedStep == ASSUME Sums, IInv, NEW p \in Proc, Used(p) PROVE IInv'
<1>. DEFINE t == th[p]
<1>1. t.pc = "used" /\ icache' = iunlock(icache, t.lk)
  BY Zenon DEF Used, At, Step
<1>2. Kept(icache, icache')
  BY <1>1, Facts, UnlockKept
<1>3. /\ t.pc \notin {"ilock", "idle"} \cup Putting
      /\ Rec(t) /\ Place(t) # "idle" /\ t.pt = 0 /\ t.cur = 0 /\ t.dp = 0 /\ t.ip = 0 /\ 0 \in Ptr
      /\ t.aft = "idle"
  BY <1>1, Plain DEF Walks, InPath, Putting, PlainAt
<1>4. CASE Becomes(p, Idle)
  BY <1>2, <1>3, <1>4, DoneStep, Zenon
<1>5. CASE Becomes(p, [t EXCEPT !.pc = "commit"])
  <2>1. PICK u : u = [t EXCEPT !.pc = "commit"]
    OBVIOUS
  <2>2. /\ Rec(u) /\ u.pc = "commit" /\ u.op = t.op /\ u.aft = t.aft
        /\ u.cur = t.cur /\ u.ip = t.ip /\ u.dp = t.dp /\ u.pt = t.pt
    BY <1>3, <2>1, GoIs DEF Left
  <2>3. Thread(u) /\ ~Using(u)
    BY <1>3, <2>2, PlainThread DEF Putting, Walks, Using, Place, OnOwn
  <2>4. Same(t, u)
    BY <2>2, Zenon DEF Same, Mine
  <2>5. Fit(p, u)
    BY <1>3, <2>3, Zenon DEF Fit
  <2> QED BY <1>2, <1>5, <2>1, <2>4, <2>5, KeepStep, Zenon
<1> QED BY <1>4, <1>5, Zenon DEF Used, Step, Goto, procs, Becomes

(* The start of a system call. *)
LEMMA RootThread ==
  ASSUME NEW u, Rec(u), u.pc = "root", u.op \in {"exec", "retprt"}, u.aft = "idle",
         u.cur = 0, u.ip = 0, u.dp = 0, u.pt = 0
  PROVE  Thread(u)
<1>1. Place(u) = "root"
  BY DEF Place, Putting
<1>2. Typed(u)
  BY Rooms DEF Typed, Putting
<1>3. Shape(u)
  BY <1>1 DEF Shape, HasDp, HasIp, Walks, InPath, Putting
<1>4. Ops(u) /\ Lock(u)
  BY <1>1 DEF Ops, Lock, InPath
<1> QED BY <1>2, <1>3, <1>4, Zenon DEF Thread

LEMMA AtIdle ==
  ASSUME Sums, IInv, NEW p \in Proc, th[p].pc = "idle"
  PROVE  th[p] = Idle /\ (ofile[p] # 0 => cwd[p] # 0)
BY Facts, PlainFacts DEF Putting, PlainAt

LEMMA SyscallStep == ASSUME Sums, IInv, NEW p \in Proc, Syscall(p) PROVE IInv'
<1>1. th[p] = Idle /\ cwd[p] # 0 /\ icache' = icache
  BY AtIdle DEF Syscall, At
<1>2. Kept(icache, icache')
  BY <1>1, Facts, KeptItself
<1>3. PICK c \in Calls[p] :
        Becomes(p, [Idle EXCEPT !.pc = IF Creates(c.op) THEN "begin"
                                       ELSE IF c.op \in {"exec", "retprt"} THEN "root"
                                       ELSE "namex",
                                !.op = c.op, !.path = c.path, !.to = c.to, !.wr = c.wr])
  BY Zenon DEF Syscall, Goto, procs, Becomes
<1>4. PICK u : u = [Idle EXCEPT !.pc = IF Creates(c.op) THEN "begin"
                                       ELSE IF c.op \in {"exec", "retprt"} THEN "root"
                                       ELSE "namex",
                                !.op = c.op, !.path = c.path, !.to = c.to, !.wr = c.wr]
  OBVIOUS
<1>5. /\ Rec(u) /\ u.op = c.op /\ u.aft = "idle" /\ u.cur = 0 /\ u.ip = 0 /\ u.dp = 0 /\ u.pt = 0
      /\ u.pc = IF Creates(c.op) THEN "begin"
                ELSE IF c.op \in {"exec", "retprt"} THEN "root" ELSE "namex"
  BY <1>4, IdleIs DEF Rec, Field
<1>6. c.op \in {"creat", "mkdir", "mknod", "unlink", "link", "open", "chdir", "exec", "retprt"}
  BY InodeAssumption, Zenon
<1>7. Thread(u) /\ ~Using(u)
  <2>1. CASE Creates(c.op)
    <3>1. u.pc = "begin" /\ u.op \in {"creat", "mkdir", "mknod"} /\ Creates(u.op)
      BY <1>5, <2>1 DEF Creates
    <3> QED BY <1>5, <3>1, Rooms, PlainThread DEF Putting, Walks, Using, Place, OnOwn
  <2>2. CASE c.op \in {"exec", "retprt"}
    <3>1. u.pc = "root" /\ u.op \in {"exec", "retprt"}
      BY <1>5, <2>2 DEF Creates
    <3> QED BY <1>5, <3>1, RootThread DEF Putting, Using, Place
  <2>3. CASE c.op \in {"unlink", "link", "open", "chdir"}
    <3>1. u.pc = "namex" /\ u.op \in {"unlink", "link", "open", "chdir"}
      BY <1>5, <2>3 DEF Creates
    <3> QED BY <1>5, <3>1, Rooms, PlainThread DEF Putting, Walks, Parent, Using, Place, OnOwn
  <2> QED BY <1>6, <2>1, <2>2, <2>3 DEF Creates
<1>8. Same(th[p], u)
  BY <1>1, <1>5, IdleIs, Zenon DEF Same, Mine
<1>9. Fit(p, u)
  BY <1>1, <1>7, Zenon DEF Fit
<1> QED BY <1>2, <1>3, <1>4, <1>8, <1>9, KeepStep, Zenon

LEMMA SysReadStep == ASSUME Sums, IInv, NEW p \in Proc, SysRead(p) PROVE IInv'
<1>1. /\ th[p].pc = "idle" /\ ofile[p] # 0 /\ icache' = icache
      /\ Becomes(p, ThenLock(th[p], ftable[ofile[p]].ip, "used"))
  BY Zenon DEF SysRead, At, Goto, procs, Becomes
<1>2. Kept(icache, icache')
  BY <1>1, Facts, KeptItself
<1> QED BY <1>1, <1>2, LockStep, Zenon DEF LocksAs

LEMMA SysWriteStep == ASSUME Sums, IInv, NEW p \in Proc, SysWrite(p) PROVE IInv'
<1>1. /\ th[p].pc = "idle" /\ ofile[p] # 0 /\ icache' = icache
      /\ Becomes(p, [th[p] EXCEPT !.pc = "begin", !.op = "write"])
  BY Zenon DEF SysWrite, At, Goto, procs, Becomes
<1>2. th[p] = Idle /\ cwd[p] # 0 /\ Kept(icache, icache')
  BY <1>1, AtIdle, Facts, KeptItself
<1>3. PICK u : u = [th[p] EXCEPT !.pc = "begin", !.op = "write"]
  OBVIOUS
<1>4. /\ Rec(u) /\ u.pc = "begin" /\ u.op = "write" /\ u.aft = "idle" /\ u.cur = 0 /\ u.ip = 0
      /\ u.dp = 0 /\ u.pt = 0
  BY <1>2, <1>3, IdleIs DEF Rec, Field
<1>5. Thread(u)
  BY <1>4, Rooms, PlainThread DEF Putting, Walks, OnOwn
<1>6. Same(th[p], u)
  BY <1>2, <1>4, IdleIs, Zenon DEF Same, Mine
<1>7. Fit(p, u)
  BY <1>1, <1>2, <1>4, <1>5 DEF Fit
<1> QED BY <1>1, <1>2, <1>3, <1>6, <1>7, KeepStep, Zenon

-----------------------------------------------------------------------------
(* System calls that take a reference *)

LocksNew(pc, k) ==
  \/ pc = "create" /\ k = "createnew"
  \/ pc = "unlink" /\ k = "erase"
  \/ pc = "execget" /\ k = "exec"

LEMMA LockNewStep ==
  ASSUME Sums, IInv, NEW p \in Proc, NEW n \in Slot, NEW k, More(icache, icache', n),
         Becomes(p, ThenLock([th[p] EXCEPT !.ip = n], n, k)),
         LocksNew(th[p].pc, k)
  PROVE  IInv'
<1>. USE DEF LocksNew
<1>. DEFINE t == th[p]
<1>1. /\ Rec(t) /\ Place(t) # "idle" /\ t.pt = 0 /\ t.cur = 0 /\ t.ip = 0 /\ t.dp \in Ptr
      /\ t.aft = "idle" /\ 0 \in Ptr /\ n \in Ptr /\ n # 0
      /\ t.dp # 0 <=> k # "exec"
  BY Plain, Rooms DEF Walks, InPath, Putting, PlainAt
<1>2. PICK v : v = [t EXCEPT !.ip = n]
  OBVIOUS
<1>3. PICK u : u = ThenLock(v, n, k)
  OBVIOUS
<1>4. Rec(v) /\ v.op = t.op /\ v.aft = t.aft /\ v.cur = t.cur /\ v.ip = n /\ v.dp = t.dp /\ v.pt = t.pt
  BY <1>1, <1>2 DEF Rec, Field
<1>5. /\ Rec(u) /\ u.pc = "ilock" /\ u.lk = n /\ u.k = k /\ u.op = t.op /\ u.aft = "idle"
      /\ u.cur = 0 /\ u.ip = n /\ u.dp = t.dp /\ u.pt = 0
  BY <1>1, <1>3, <1>4, LockIs DEF Left
<1>6. k \in {"createnew", "erase", "exec"}
  OBVIOUS
<1>7. u.lk = Target(u)
  BY <1>5, <1>6 DEF Target
<1>8. Thread(u) /\ ~Using(u)
  BY <1>1, <1>5, <1>6, <1>7, LockThread DEF Locks, Using, Place, ToLock
<1>9. Gains(t, u, n)
  BY <1>1, <1>5, Rooms DEF Gains, Mine, Bit
<1>10. Fit(p, u)
  BY <1>1, <1>8, Zenon DEF Fit
<1> QED BY <1>2, <1>3, <1>9, <1>10, TakeStep, Zenon

LEMMA IallocStep == ASSUME Sums, IInv, NEW p \in Proc, Ialloc(p) PROVE IInv'
<1>1. PICK i : /\ HasSlot(i) /\ icache' = Iget(i)
               /\ Becomes(p, ThenLock([th[p] EXCEPT !.ip = SlotOf(i)], SlotOf(i), "createnew"))
  BY Zenon DEF Ialloc, Step, Goto, procs, Becomes
<1>2. SlotOf(i) \in Slot /\ More(icache, icache', SlotOf(i))
  BY <1>1, Facts, IgetMore
<1>3. th[p].pc = "create"
  BY Zenon DEF Ialloc, At
<1> QED BY <1>1, <1>2, <1>3, LockNewStep, Zenon DEF LocksNew

LEMMA SysUnlinkStep == ASSUME Sums, IInv, NEW p \in Proc, SysUnlink(p) PROVE IInv'
<1>1. PICK i : /\ HasSlot(i) /\ icache' = Iget(i)
               /\ Becomes(p, ThenLock([th[p] EXCEPT !.ip = SlotOf(i)], SlotOf(i), "erase"))
  BY Zenon DEF SysUnlink, Step, Goto, procs, Becomes
<1>2. SlotOf(i) \in Slot /\ More(icache, icache', SlotOf(i))
  BY <1>1, Facts, IgetMore
<1>3. th[p].pc = "unlink"
  BY Zenon DEF SysUnlink, At
<1> QED BY <1>1, <1>2, <1>3, LockNewStep, Zenon DEF LocksNew

LEMMA ExecGetStep == ASSUME Sums, IInv, NEW p \in Proc, ExecGet(p) PROVE IInv'
<1>1. PICK i : /\ HasSlot(i) /\ icache' = Iget(i)
               /\ Becomes(p, ThenLock([th[p] EXCEPT !.ip = SlotOf(i)], SlotOf(i), "exec"))
  BY Zenon DEF ExecGet, Goto, procs, Becomes
<1>2. SlotOf(i) \in Slot /\ More(icache, icache', SlotOf(i))
  BY <1>1, Facts, IgetMore
<1>3. th[p].pc = "execget"
  BY Zenon DEF ExecGet, At
<1> QED BY <1>1, <1>2, <1>3, LockNewStep, Zenon DEF LocksNew

(* An entry of the root is read, without the lock. *)
LEMMA ReadEntryStep == ASSUME Sums, IInv, NEW p \in Proc, ExecRoot(p) \/ SysRetprt(p) PROVE IInv'
<1>. DEFINE t == th[p]
<1>1. t.pc \in {"execroot", "retprt"} /\ icache' = icache
  BY Zenon DEF ExecRoot, SysRetprt, At, Step
<1>2. Kept(icache, icache')
  BY <1>1, Facts, KeptItself
<1>3. /\ t.pc \notin {"ilock", "idle"} \cup Putting
      /\ Rec(t) /\ Place(t) # "idle" /\ t.pt = 0 /\ t.cur = 0 /\ t.dp = 0 /\ t.ip = 0 /\ 0 \in Ptr
      /\ t.aft = "idle"
  BY <1>1, Plain, Rooms DEF Walks, InPath, Putting, PlainAt
<1>4. CASE Becomes(p, Idle)
  BY <1>2, <1>3, <1>4, DoneStep, Zenon
<1>5. ASSUME NEW pc \in {"execget", "retget"}, NEW i, Becomes(p, [t EXCEPT !.pc = pc, !.ino = i]) PROVE IInv'
  <2>1. PICK u : u = [t EXCEPT !.pc = pc, !.ino = i]
    OBVIOUS
  <2>2. /\ Rec(u) /\ u.pc = pc /\ u.op = t.op /\ u.aft = t.aft
        /\ u.cur = t.cur /\ u.ip = t.ip /\ u.dp = t.dp /\ u.pt = t.pt
    BY <1>3, <2>1 DEF Rec, Field
  <2>3. Thread(u) /\ ~Using(u)
    BY <1>3, <2>2, PlainThread DEF Putting, Walks, Using, Place, OnOwn
  <2>4. Same(t, u)
    BY <2>2, Zenon DEF Same, Mine
  <2>5. Fit(p, u)
    BY <1>3, <2>3, Zenon DEF Fit
  <2> QED BY <1>2, <1>5, <2>1, <2>4, <2>5, KeepStep, Zenon
<1> QED BY <1>4, <1>5, Zenon DEF ExecRoot, SysRetprt, Step, Goto, procs, Becomes

LEMMA CreateFoundStep == ASSUME Sums, IInv, NEW p \in Proc, CreateFound(p) PROVE IInv'
<1>. DEFINE t == th[p]
<1>1. PICK i : /\ HasSlot(i) /\ icache' = iunlock(Iget(i), t.dp)
               /\ Becomes(p, PutDp([t EXCEPT !.ip = SlotOf(i)], "lockold"))
  BY Zenon DEF CreateFound, Step, Goto, procs, Becomes
<1>2. PICK n : n = SlotOf(i)
  OBVIOUS
<1>3. n \in Slot /\ More(icache, Iget(i), n)
  BY <1>1, <1>2, Facts, IgetMore
<1>4. More(icache, icache', n)
  BY <1>1, <1>3, UnlockMore, Zenon
<1>5. t.pc = "create"
  BY Zenon DEF CreateFound, At
<1>6. /\ Rec(t) /\ Place(t) # "idle" /\ t.pt = 0 /\ t.cur = 0 /\ t.ip = 0 /\ t.dp \in Slot
      /\ t.aft = "idle" /\ 0 \in Ptr /\ n \in Ptr /\ n # 0
  BY <1>3, <1>5, Plain, Rooms DEF Walks, InPath, Putting, PlainAt
<1>7. PICK v : v = [t EXCEPT !.ip = n]
  OBVIOUS
<1>8. PICK u : u = PutDp(v, "lockold")
  OBVIOUS
<1>9. Rec(v) /\ v.op = t.op /\ v.aft = t.aft /\ v.cur = t.cur /\ v.ip = n /\ v.dp = t.dp /\ v.pt = t.pt
  BY <1>6, <1>7 DEF Rec, Field
<1>10. /\ Rec(u) /\ u.pc = "iput" /\ u.k = "lockold" /\ u.op = t.op /\ u.aft = "idle"
       /\ u.cur = 0 /\ u.ip = n /\ u.dp = 0 /\ u.pt = t.dp
  BY <1>6, <1>8, <1>9, PutDpIs DEF Left
<1>11. Thread(u) /\ ~Using(u)
  <2>1. ToPut(u)
    BY <1>6, <1>10 DEF Puts, ToPut
  <2>2. u.pc \in Putting
    BY <1>10 DEF Putting
  <2> QED BY <2>1, <2>2, PutThread, Zenon
<1>12. Gains(t, u, n)
  BY <1>6, <1>10, Rooms DEF Gains, Mine, Bit
<1>13. Fit(p, u)
  BY <1>6, <1>11, Zenon DEF Fit
<1> QED BY <1>1, <1>2, <1>4, <1>7, <1>8, <1>12, <1>13, TakeStep, Zenon
=============================================================================
