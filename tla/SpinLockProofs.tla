--------------------------- MODULE SpinLockProofs ---------------------------
(***************************************************************************)
(* Theorems about spin locks and interrupt masking, for any number of      *)
(* CPUs, threads and locks and any lock order: the bookkeeping invariant   *)
(* SpinInv, and from it mutual exclusion, the absence of panics, and that  *)
(* interrupts are off inside locks and restored outside. A step of one CPU *)
(* that stays on its context needs checking at that CPU only (LocalStep);  *)
(* the two swtch() calls hand ptable.lock from context to context.         *)
(***************************************************************************)
EXTENDS SpinLock, FiniteSetTheorems, TLAPS

IInv == TypeOK /\ SpinInv /\ NoPanic

(* The nesting count of a CPU is zero exactly outside all locks. *)
LEMMA CountFacts ==
  ASSUME TypeOK, Held, NEW c \in CPU, Counted(c)
  PROVE  /\ on[c] \in Ctx
         /\ IsFiniteSet(held[on[c]]) /\ Cardinality(held[on[c]]) \in Nat
         /\ Cardinality(held[on[c]]) = 0 <=> held[on[c]] = {}
         /\ ncli[c] \in Nat
         /\ ncli[c] = 0 <=> held[on[c]] = {} /\ pc[on[c]] \notin {"spin", "pop"}
         /\ \A l : held[on[c]] = {l} => Cardinality(held[on[c]]) = 1
<1>1. on[c] \in Ctx /\ ncli[c] \in Nat
  BY Zenon DEF TypeOK
<1>2. IsFiniteSet(held[on[c]])
  BY <1>1, Zenon DEF Held
<1>3. Cardinality(held[on[c]]) \in Nat
  BY <1>2, FS_CardinalityType, Zenon
<1>4. Cardinality(held[on[c]]) = 0 <=> held[on[c]] = {}
  BY <1>2, FS_EmptySet, Zenon
<1>5. ASSUME NEW l, held[on[c]] = {l} PROVE Cardinality(held[on[c]]) = 1
  <2>1. Cardinality({l}) = 1
    BY FS_Singleton, Zenon
  <2> QED BY <1>5, <2>1, Zenon
<1>6. ncli[c] = 0 <=> held[on[c]] = {} /\ pc[on[c]] \notin {"spin", "pop"}
  <2>1. CASE pc[on[c]] \in {"spin", "pop"}
    BY <1>1, <1>3, <2>1 DEF Counted
  <2>2. CASE pc[on[c]] \notin {"spin", "pop"}
    BY <1>1, <1>3, <1>4, <2>2 DEF Counted
  <2> QED BY <2>1, <2>2, Zenon
<1> QED BY <1>1, <1>2, <1>3, <1>4, <1>5, <1>6, Zenon

(* What Held says of the context on CPU c and of the lock words *)
HeldHere(c) ==
  /\ IsFiniteSet(held[on[c]])
  /\ \A l \in Lock : locked[l] <=> \E k \in Ctx : l \in held[k]
  /\ pc[on[c]] \in {"flags", "spin"} => lk[on[c]] \in Lock \ held[on[c]]
  /\ pc[on[c]] \in {"own", "unlock"} => lk[on[c]] \in held[on[c]]

(* The count at CPU c is a number, zero exactly outside all locks *)
CountHere(c) ==
  /\ ncli[c] \in Nat /\ Cardinality(held[on[c]]) \in Nat
  /\ ncli[c] = 0 <=> held[on[c]] = {} /\ pc[on[c]] \notin {"spin", "pop"}
  /\ Cardinality(held[on[c]]) = 0 <=> held[on[c]] = {}

(* The invariant at CPU c *)
Here(c) ==
  /\ pc[on[c]] \notin {"off", "fresh"}
  /\ HeldHere(c) /\ Owned(c) /\ Counted(c) /\ Masked(c) /\ Restorable(c) /\ Framed(on[c])

(* A step of CPU c that stays on its context leaves the others alone. *)
Elsewhere(c) ==
  /\ on' = on
  /\ \A d \in CPU \ {c} : ncli'[d] = ncli[d] /\ IF_'[d] = IF_[d] /\ intena'[d] = intena[d]
  /\ \A k \in Ctx \ {on[c]} :
       /\ pc'[k] = pc[k] /\ lk'[k] = lk[k] /\ eflags'[k] = eflags[k] /\ held'[k] = held[k]
       /\ frame'[k] = frame[k] /\ sint'[k] = sint[k] /\ born'[k] = born[k]
  /\ \A d \in CPU \ {c}, l \in Lock : owner'[l] = d <=> owner[l] = d

(* What the invariant says at CPU c and the context it runs *)
LEMMA HereFacts ==
  ASSUME IInv, NEW c \in CPU
  PROVE  /\ TypeOK /\ Placed /\ Held /\ MutualExclusion /\ ~panicked
         /\ HeldHere(c) /\ Owned(c) /\ Counted(c) /\ Masked(c) /\ Restorable(c) /\ Framed(on[c])
         /\ CountHere(c) /\ on[c] \in Ctx
         /\ \A d \in CPU \ {c} : on[d] # on[c]
<1>1. /\ TypeOK /\ Placed /\ Held /\ MutualExclusion /\ ~panicked
      /\ Owned(c) /\ Counted(c) /\ Masked(c) /\ Restorable(c) /\ Framed(on[c]) /\ on[c] \in Ctx
  BY Zenon DEF IInv, SpinInv, TypeOK, NoPanic
<1>2. \A d \in CPU \ {c} : on[d] # on[c]
  BY <1>1, Zenon DEF Placed
<1>3. HeldHere(c)
  BY <1>1, Zenon DEF Held, HeldHere
<1>4. CountHere(c)
  BY <1>1, CountFacts, Zenon DEF CountHere
<1> QED BY <1>1, <1>2, <1>3, <1>4, Zenon

(* A step of CPU c that leaves the others alone preserves the invariant when it does so at c. *)
LEMMA LocalStep ==
  ASSUME IInv, NEW c \in CPU, TypeOK', Elsewhere(c), Here(c)', MutualExclusion', NoPanic'
  PROVE  IInv'
<1>. /\ Placed /\ Held /\ on[c] \in Ctx /\ on' = on
     /\ \A d \in CPU \ {c} : on[d] \in Ctx \ {on[c]}
  BY HereFacts, Zenon DEF IInv, TypeOK, Elsewhere
<1>1. Placed'
  BY DEF Placed, Ctx, Here, Elsewhere
<1>2. ASSUME NEW d \in CPU PROVE Owned(d)' /\ Counted(d)' /\ Masked(d)' /\ Restorable(d)'
  <2>1. CASE d = c
    BY <2>1, Zenon DEF Here
  <2>2. CASE d # c
    <3>. /\ on[d] \in Ctx \ {on[c]} /\ Owned(d) /\ Counted(d) /\ Masked(d) /\ Restorable(d)
         /\ d \in CPU \ {c}
      BY <2>2, Zenon DEF IInv, SpinInv
    <3>1. Owned(d)'
      BY DEF Owned, Elsewhere
    <3>2. Counted(d)'
      BY DEF Counted, Elsewhere
    <3>3. Masked(d)'
      BY DEF Masked, Elsewhere
    <3>4. Restorable(d)'
      BY DEF Restorable, Elsewhere
    <3> QED BY <3>1, <3>2, <3>3, <3>4, Zenon
  <2> QED BY <2>1, <2>2, Zenon
<1>3. ASSUME NEW k \in Ctx PROVE Framed(k)'
  BY DEF IInv, SpinInv, Framed, Here, Elsewhere
<1>4. ASSUME NEW k \in Thread PROVE Saved(k)'
  BY DEF IInv, SpinInv, Saved, Ctx, Here, Elsewhere
<1>5. Held'
  BY DEF Held, Here, HeldHere, Elsewhere
<1> QED BY <1>1, <1>2, <1>3, <1>4, <1>5, Zenon DEF IInv, SpinInv

(* The owner of a lock that the context on CPU c has is no other CPU. *)
LEMMA NotOwnedElsewhere ==
  ASSUME IInv, NEW c \in CPU, NEW d \in CPU \ {c}, NEW l \in held[on[c]]
  PROVE  l \in Lock /\ owner[l] # d
<1>1. Owned(d) /\ on[d] \in Ctx /\ on[c] \in Ctx /\ on[d] # on[c] /\ l \in Lock /\ MutualExclusion
  BY HereFacts, Zenon DEF IInv, SpinInv, TypeOK
<1> QED BY <1>1, Zenon DEF Owned, MutualExclusion

(* acquire() reads eflags. *)
LEMMA AcquireStep == ASSUME IInv, NEW c \in CPU, NEW l \in Lock, Acquire(c, l) PROVE IInv'
<1>. /\ TypeOK /\ MutualExclusion /\ HeldHere(c) /\ Owned(c) /\ Counted(c) /\ Masked(c) /\ Restorable(c)
     /\ Framed(on[c]) /\ CountHere(c) /\ on[c] \in Ctx /\ ~panicked
  BY HereFacts, Zenon
<1>1. /\ pc[on[c]] = "run" /\ pc'[on[c]] = "flags" /\ lk'[on[c]] = l /\ (eflags'[on[c]] <=> IF_[c])
      /\ \A h \in held[on[c]] : Rank[h] < Rank[l]
      /\ on' = on /\ held' = held /\ locked' = locked /\ owner' = owner /\ frame' = frame /\ born' = born
      /\ IF_' = IF_ /\ ncli' = ncli /\ intena' = intena /\ panicked' = panicked
  BY Zenon DEF Acquire, cpuvars, TypeOK
<1>2. TypeOK'
  BY Zenon DEF Acquire, cpuvars, TypeOK, Location
<1>3. Elsewhere(c)
  BY Zenon DEF Acquire, cpuvars, TypeOK, Elsewhere
<1>4. HeldHere(c)'
  BY <1>1, SpinLockAssumption DEF HeldHere, TypeOK
<1>5. MutualExclusion'
  BY <1>1, Zenon DEF MutualExclusion
<1>6. Owned(c)'
  BY <1>1, Zenon DEF Owned
<1>7. Counted(c)'
  BY <1>1, Zenon DEF Counted
<1>8. Masked(c)'
  BY <1>1, Zenon DEF Masked
<1>9. Restorable(c)'
  BY <1>1, Zenon DEF Restorable
<1>10. Framed(on[c])'
  BY <1>1, Zenon DEF Framed
<1>11. NoPanic'
  BY <1>1, Zenon DEF NoPanic
<1>12. pc'[on'[c]] \notin {"off", "fresh"}
  BY <1>1, Zenon
<1> QED BY <1>2, <1>3, <1>4, <1>5, <1>6, <1>7, <1>8, <1>9, <1>10, <1>11, <1>12, LocalStep, Zenon DEF Here

(* cli(), the count and the saved flag; the lock is not this CPU's. *)
LEMMA PushcliStep == ASSUME IInv, NEW c \in CPU, Pushcli(c) PROVE IInv'
<1>. /\ TypeOK /\ MutualExclusion /\ HeldHere(c) /\ Owned(c) /\ Counted(c) /\ Masked(c) /\ Restorable(c)
     /\ Framed(on[c]) /\ CountHere(c) /\ on[c] \in Ctx /\ ~panicked
  BY HereFacts, Zenon
<1>1. /\ pc[on[c]] = "flags" /\ pc'[on[c]] = "spin" /\ ~IF_'[c] /\ ncli'[c] = ncli[c] + 1
      /\ intena'[c] <=> IF ncli[c] = 0 THEN eflags[on[c]] ELSE intena[c]
      /\ on' = on /\ held' = held /\ locked' = locked /\ owner' = owner /\ lk' = lk
      /\ frame' = frame /\ born' = born /\ panicked' = holding(c, lk[on[c]])
  BY Zenon DEF Pushcli, cpuvars, TypeOK
<1>2. TypeOK'
  BY DEF Pushcli, TypeOK, Location, holding
<1>3. Elsewhere(c)
  BY Zenon DEF Pushcli, cpuvars, TypeOK, Elsewhere
<1>4. HeldHere(c)'
  BY <1>1, Zenon DEF HeldHere
<1>5. MutualExclusion'
  BY <1>1, Zenon DEF MutualExclusion
<1>6. Owned(c)'
  BY <1>1, Zenon DEF Owned
<1>7. Counted(c)'
  BY <1>1 DEF Counted, CountHere
<1>8. Masked(c)'
  BY <1>1, Zenon DEF Masked
<1>9. Restorable(c)'
  <2>1. ncli'[c] > 0 /\ (ncli[c] > 0 <=> ncli[c] # 0)
    BY <1>1 DEF CountHere
  <2>2. eflags[on[c]] <=> IF_[c]
    BY <1>1, Zenon DEF Masked
  <2>3. intena'[c] <=> IF ncli[c] > 0 THEN intena[c] ELSE IF_[c]
    BY <1>1, <2>1, <2>2, Zenon
  <2>4. frame[on[c]] # NoFrame => ~intena'[c]
    BY <2>3, Zenon DEF Restorable, Masked
  <2>5. on[c] \in Thread /\ ~born[on[c]] /\ frame[on[c]] = NoFrame => intena'[c]
    BY <2>3, Zenon DEF Restorable
  <2>6. on' = on /\ frame' = frame /\ born' = born
    BY <1>1, Zenon
  <2> QED BY <2>1, <2>4, <2>5, <2>6, Zenon DEF Restorable
<1>10. Framed(on[c])'
  BY <1>1, Zenon DEF Framed
<1>11. NoPanic'
  BY <1>1, Zenon DEF NoPanic, HeldHere, Owned, holding
<1>12. pc'[on'[c]] \notin {"off", "fresh"}
  BY <1>1, Zenon
<1> QED BY <1>2, <1>3, <1>4, <1>5, <1>6, <1>7, <1>8, <1>9, <1>10, <1>11, <1>12, LocalStep, Zenon DEF Here

(* The lock was free, so no context had it. *)
LEMMA XchgStep == ASSUME IInv, NEW c \in CPU, Xchg(c) PROVE IInv'
<1>. /\ TypeOK /\ MutualExclusion /\ HeldHere(c) /\ Owned(c) /\ Counted(c) /\ Masked(c) /\ Restorable(c)
     /\ Framed(on[c]) /\ CountHere(c) /\ on[c] \in Ctx /\ ~panicked
  BY HereFacts, Zenon
<1>1. /\ pc[on[c]] = "spin" /\ pc'[on[c]] = "own" /\ ~locked[lk[on[c]]]
      /\ held'[on[c]] = held[on[c]] \cup {lk[on[c]]} /\ \A k \in Ctx \ {on[c]} : held'[k] = held[k]
      /\ lk[on[c]] \in Lock \ held[on[c]]
      /\ locked'[lk[on[c]]] /\ \A l \in Lock \ {lk[on[c]]} : locked'[l] = locked[l]
      /\ on' = on /\ lk' = lk /\ owner' = owner /\ frame' = frame /\ born' = born
      /\ IF_' = IF_ /\ ncli' = ncli /\ intena' = intena /\ panicked' = panicked
  BY DEF Xchg, cpuvars, TypeOK, HeldHere
<1>2. TypeOK'
  <2>1. held'[on[c]] \in SUBSET Lock
    BY <1>1, Zenon DEF TypeOK
  <2>2. locked' \in [Lock -> BOOLEAN] /\ pc' \in [Ctx -> Location]
    BY Zenon DEF Xchg, TypeOK, Location
  <2>3. held' \in [Ctx -> SUBSET Lock]
    BY <2>1, Zenon DEF Xchg, TypeOK
  <2> QED BY <1>1, <2>2, <2>3 DEF Xchg, cpuvars, TypeOK
<1>3. Elsewhere(c)
  BY Zenon DEF Xchg, cpuvars, TypeOK, Elsewhere
<1>4. HeldHere(c)'
  <2>1. IsFiniteSet(held'[on[c]])
    <3>1. IsFiniteSet(held[on[c]]) /\ held'[on[c]] = held[on[c]] \cup {lk[on[c]]}
      BY <1>1, Zenon DEF HeldHere
    <3>2. IsFiniteSet(held[on[c]] \cup {lk[on[c]]})
      BY <3>1, FS_AddElement, Zenon
    <3> QED BY <3>1, <3>2, Zenon
  <2>2. ASSUME NEW l \in Lock PROVE locked'[l] <=> \E k \in Ctx : l \in held'[k]
    <3>1. CASE l = lk[on[c]]
      BY <1>1, <3>1, Zenon
    <3>2. CASE l # lk[on[c]]
      <4>1. locked[l] <=> \E k \in Ctx : l \in held[k]
        BY Zenon DEF HeldHere
      <4>2. \A k \in Ctx : l \in held'[k] <=> l \in held[k]
        BY <1>1, <3>2, Zenon
      <4> QED BY <1>1, <3>2, <4>1, <4>2, Zenon
    <3> QED BY <3>1, <3>2, Zenon
  <2> QED BY <1>1, <2>1, <2>2, Zenon DEF HeldHere
<1>5. MutualExclusion'
  <2>1. \A k \in Ctx : lk[on[c]] \notin held[k]
    BY <1>1, Zenon DEF HeldHere
  <2>2. ASSUME NEW j \in Ctx, NEW k \in Ctx, j # k, NEW l, l \in held'[j], l \in held'[k] PROVE FALSE
    <3>1. CASE l = lk[on[c]]
      BY <1>1, <2>1, <2>2, <3>1, Zenon
    <3>2. CASE l # lk[on[c]]
      <4>1. l \in held[j] /\ l \in held[k]
        BY <1>1, <2>2, <3>2, Zenon
      <4> QED BY <2>2, <4>1, Zenon DEF MutualExclusion
    <3> QED BY <3>1, <3>2, Zenon
  <2> QED BY <2>2, Zenon DEF MutualExclusion
<1>6. Owned(c)'
  BY <1>1, Zenon DEF Owned
<1>7. Counted(c)'
  <2>. DEFINE l == lk[on[c]]
             H == held[on[c]]
  <2>. IsFiniteSet(H) /\ l \notin H /\ held'[on[c]] = H \cup {l}
    BY <1>1, Zenon DEF HeldHere
  <2>1. Cardinality(held'[on[c]]) = Cardinality(H) + 1
    <3>. HIDE DEF l, H
    <3> QED BY FS_AddElement, Zenon
  <2>2. Cardinality(held[on[c]]) \in Nat
    BY Zenon DEF CountHere
  <2>3. ncli[c] = Cardinality(held[on[c]]) + 1
    BY <1>1, Zenon DEF Counted
  <2>4. ncli[c] = Cardinality(held'[on[c]]) + 0
    BY <2>1, <2>2, <2>3
  <2> QED BY <1>1, <2>4, Zenon DEF Counted
<1>8. Masked(c)'
  BY <1>1, Zenon DEF Masked
<1>9. Restorable(c)'
  BY <1>1, Zenon DEF Restorable
<1>10. Framed(on[c])'
  BY <1>1, Zenon DEF Framed
<1>11. NoPanic'
  BY <1>1, Zenon DEF NoPanic
<1>12. pc'[on'[c]] \notin {"off", "fresh"}
  BY <1>1, Zenon
<1> QED BY <1>2, <1>3, <1>4, <1>5, <1>6, <1>7, <1>8, <1>9, <1>10, <1>11, <1>12, LocalStep, Zenon DEF Here

(* Between the xchg and this write, no other CPU is named. *)
LEMMA SetOwnerStep == ASSUME IInv, NEW c \in CPU, SetOwner(c) PROVE IInv'
<1>. /\ TypeOK /\ MutualExclusion /\ HeldHere(c) /\ Owned(c) /\ Counted(c) /\ Masked(c) /\ Restorable(c)
     /\ Framed(on[c]) /\ CountHere(c) /\ on[c] \in Ctx /\ ~panicked
  BY HereFacts, Zenon
<1>1. /\ pc[on[c]] = "own" /\ pc'[on[c]] = "run" /\ lk[on[c]] \in held[on[c]] /\ lk[on[c]] \in Lock
      /\ lk'[on[c]] = NoLock
      /\ owner'[lk[on[c]]] = c /\ \A l \in Lock \ {lk[on[c]]} : owner'[l] = owner[l]
      /\ on' = on /\ held' = held /\ locked' = locked /\ frame' = frame /\ born' = born
      /\ IF_' = IF_ /\ ncli' = ncli /\ intena' = intena /\ panicked' = panicked
  BY Zenon DEF SetOwner, cpuvars, TypeOK, HeldHere
<1>2. TypeOK'
  BY Zenon DEF SetOwner, cpuvars, TypeOK, Location
<1>3. Elsewhere(c)
  <2>1. ASSUME NEW d \in CPU \ {c}, NEW l \in Lock PROVE owner'[l] = d <=> owner[l] = d
    <3>1. CASE l = lk[on[c]]
      <4>1. owner[l] # d
        BY <1>1, <3>1, NotOwnedElsewhere, Zenon
      <4> QED BY <1>1, <3>1, <4>1, Zenon
    <3>2. CASE l # lk[on[c]]
      BY <1>1, <3>2, Zenon
    <3> QED BY <3>1, <3>2, Zenon
  <2> QED BY <2>1 DEF SetOwner, cpuvars, TypeOK, Elsewhere
<1>4. HeldHere(c)'
  BY <1>1, Zenon DEF HeldHere
<1>5. MutualExclusion'
  BY <1>1, Zenon DEF MutualExclusion
<1>6. Owned(c)'
  BY <1>1, Zenon DEF Owned
<1>7. Counted(c)'
  BY <1>1, Zenon DEF Counted
<1>8. Masked(c)'
  BY <1>1, Zenon DEF Masked
<1>9. Restorable(c)'
  BY <1>1, Zenon DEF Restorable
<1>10. Framed(on[c])'
  BY <1>1, Zenon DEF Framed
<1>11. NoPanic'
  BY <1>1, Zenon DEF NoPanic
<1>12. pc'[on'[c]] \notin {"off", "fresh"}
  BY <1>1, Zenon
<1> QED BY <1>2, <1>3, <1>4, <1>5, <1>6, <1>7, <1>8, <1>9, <1>10, <1>11, <1>12, LocalStep, Zenon DEF Here

-----------------------------------------------------------------------------
(* release(), interrupts and the returns from them *)

(* release() finds this CPU in lk->cpu. *)
LEMMA ReleaseStep == ASSUME IInv, NEW c \in CPU, NEW l \in Lock, Release(c, l) PROVE IInv'
<1>. /\ TypeOK /\ MutualExclusion /\ HeldHere(c) /\ Owned(c) /\ Counted(c) /\ Masked(c) /\ Restorable(c)
     /\ Framed(on[c]) /\ CountHere(c) /\ on[c] \in Ctx /\ ~panicked
  BY HereFacts, Zenon
<1>1. /\ pc[on[c]] = "run" /\ pc'[on[c]] = "unlock" /\ l \in held[on[c]] /\ lk'[on[c]] = l
      /\ owner'[l] = NoCPU /\ \A m \in Lock \ {l} : owner'[m] = owner[m]
      /\ on' = on /\ held' = held /\ locked' = locked /\ frame' = frame /\ born' = born
      /\ IF_' = IF_ /\ ncli' = ncli /\ intena' = intena /\ panicked' = ~holding(c, l)
  BY Zenon DEF Release, cpuvars, TypeOK
<1>2. TypeOK'
  BY Zenon DEF Release, cpuvars, TypeOK, Location
<1>3. Elsewhere(c)
  <2>1. ASSUME NEW d \in CPU \ {c}, NEW m \in Lock PROVE owner'[m] = d <=> owner[m] = d
    <3>1. CASE m = l
      <4>1. l \in held[on[c]] /\ owner'[l] = NoCPU
        BY <1>1, Zenon
      <4>2. owner[l] # d
        BY <4>1, NotOwnedElsewhere, Zenon
      <4>3. d # NoCPU
        BY SpinLockAssumption, Zenon
      <4> QED BY <3>1, <4>1, <4>2, <4>3, Zenon
    <3>2. CASE m # l
      BY <1>1, <3>2, Zenon
    <3> QED BY <3>1, <3>2, Zenon
  <2> QED BY <2>1 DEF Release, cpuvars, TypeOK, Elsewhere
<1>4. HeldHere(c)'
  BY <1>1, Zenon DEF HeldHere
<1>5. MutualExclusion'
  BY <1>1, Zenon DEF MutualExclusion
<1>6. Owned(c)'
  BY <1>1, SpinLockAssumption, Zenon DEF Owned
<1>7. Counted(c)'
  BY <1>1, Zenon DEF Counted
<1>8. Masked(c)'
  BY <1>1, Zenon DEF Masked
<1>9. Restorable(c)'
  BY <1>1, Zenon DEF Restorable
<1>10. Framed(on[c])'
  BY <1>1, Zenon DEF Framed
<1>11. NoPanic'
  BY <1>1, Zenon DEF NoPanic, HeldHere, Owned, holding
<1>12. pc'[on'[c]] \notin {"off", "fresh"}
  BY <1>1, Zenon
<1> QED BY <1>2, <1>3, <1>4, <1>5, <1>6, <1>7, <1>8, <1>9, <1>10, <1>11, <1>12, LocalStep, Zenon DEF Here

(* The lock becomes free, and no other context had it. *)
LEMMA UnlockStep == ASSUME IInv, NEW c \in CPU, Unlock(c) PROVE IInv'
<1>. /\ TypeOK /\ MutualExclusion /\ HeldHere(c) /\ Owned(c) /\ Counted(c) /\ Masked(c) /\ Restorable(c)
     /\ Framed(on[c]) /\ CountHere(c) /\ on[c] \in Ctx /\ ~panicked
  BY HereFacts, Zenon
<1>1. /\ pc[on[c]] = "unlock" /\ pc'[on[c]] = "pop" /\ lk[on[c]] \in held[on[c]] /\ lk[on[c]] \in Lock
      /\ held'[on[c]] = held[on[c]] \ {lk[on[c]]} /\ \A k \in Ctx \ {on[c]} : held'[k] = held[k]
      /\ ~locked'[lk[on[c]]] /\ \A l \in Lock \ {lk[on[c]]} : locked'[l] = locked[l]
      /\ on' = on /\ lk' = lk /\ owner' = owner /\ frame' = frame /\ born' = born
      /\ IF_' = IF_ /\ ncli' = ncli /\ intena' = intena /\ panicked' = panicked
  BY Zenon DEF Unlock, cpuvars, TypeOK, HeldHere
<1>2. TypeOK'
  BY Zenon DEF Unlock, cpuvars, TypeOK, Location
<1>3. Elsewhere(c)
  BY Zenon DEF Unlock, cpuvars, TypeOK, Elsewhere
<1>4. HeldHere(c)'
  <2>1. IsFiniteSet(held'[on[c]])
    <3>1. IsFiniteSet(held[on[c]]) /\ held'[on[c]] = held[on[c]] \ {lk[on[c]]}
      BY <1>1, Zenon DEF HeldHere
    <3>2. IsFiniteSet(held[on[c]] \ {lk[on[c]]})
      BY <3>1, FS_RemoveElement, Zenon
    <3> QED BY <3>1, <3>2, Zenon
  <2>2. \A k \in Ctx \ {on[c]} : lk[on[c]] \notin held[k]
    BY <1>1, Zenon DEF MutualExclusion
  <2>3. ASSUME NEW l \in Lock PROVE locked'[l] <=> \E k \in Ctx : l \in held'[k]
    <3>1. CASE l = lk[on[c]]
      BY <1>1, <2>2, <3>1, Zenon
    <3>2. CASE l # lk[on[c]]
      BY <1>1, <3>2, Zenon DEF HeldHere
    <3> QED BY <3>1, <3>2, Zenon
  <2> QED BY <1>1, <2>1, <2>3, Zenon DEF HeldHere
<1>5. MutualExclusion'
  <2>1. ASSUME NEW j \in Ctx, NEW k \in Ctx, j # k, NEW l, l \in held'[j], l \in held'[k] PROVE FALSE
    <3>1. l \in held[j] /\ l \in held[k]
      BY <1>1, <2>1, Zenon
    <3> QED BY <2>1, <3>1, Zenon DEF MutualExclusion
  <2> QED BY <2>1, Zenon DEF MutualExclusion
<1>6. Owned(c)'
  BY <1>1, Zenon DEF Owned
<1>7. Counted(c)'
  <2>. DEFINE l == lk[on[c]]
             H == held[on[c]]
  <2>. IsFiniteSet(H) /\ l \in H /\ held'[on[c]] = H \ {l}
    BY <1>1, Zenon DEF HeldHere
  <2>1. Cardinality(held'[on[c]]) = Cardinality(H) - 1
    <3>. HIDE DEF l, H
    <3> QED BY FS_RemoveElement, Zenon
  <2>2. Cardinality(held[on[c]]) \in Nat
    BY Zenon DEF CountHere
  <2>3. ncli[c] = Cardinality(held[on[c]]) + 0
    BY <1>1, Zenon DEF Counted
  <2>4. ncli[c] = Cardinality(held'[on[c]]) + 1
    BY <2>1, <2>2, <2>3
  <2> QED BY <1>1, <2>4, Zenon DEF Counted
<1>8. Masked(c)'
  BY <1>1, Zenon DEF Masked
<1>9. Restorable(c)'
  BY <1>1, Zenon DEF Restorable
<1>10. Framed(on[c])'
  BY <1>1, Zenon DEF Framed
<1>11. NoPanic'
  BY <1>1, Zenon DEF NoPanic
<1>12. pc'[on'[c]] \notin {"off", "fresh"}
  BY <1>1, Zenon
<1> QED BY <1>2, <1>3, <1>4, <1>5, <1>6, <1>7, <1>8, <1>9, <1>10, <1>11, <1>12, LocalStep, Zenon DEF Here

(* The count was positive; at zero the flag of the outermost pushcli() returns. *)
LEMMA PopcliStep == ASSUME IInv, NEW c \in CPU, Popcli(c) PROVE IInv'
<1>. /\ TypeOK /\ MutualExclusion /\ HeldHere(c) /\ Owned(c) /\ Counted(c) /\ Masked(c) /\ Restorable(c)
     /\ Framed(on[c]) /\ CountHere(c) /\ on[c] \in Ctx /\ ~panicked
  BY HereFacts, Zenon
<1>1. /\ pc[on[c]] = "pop" /\ pc'[on[c]] = "run" /\ ncli'[c] = ncli[c] - 1
      /\ IF_'[c] <=> IF_[c] \/ (ncli[c] = 1 /\ intena[c])
      /\ on' = on /\ held' = held /\ locked' = locked /\ owner' = owner /\ frame' = frame /\ born' = born
      /\ intena' = intena /\ panicked' = (IF_[c] \/ ncli[c] = 0)
  BY Zenon DEF Popcli, cpuvars, TypeOK
<1>2. TypeOK'
  <2>1. ncli[c] \in Nat /\ ncli[c] # 0
    BY <1>1, Zenon DEF CountHere
  <2>2. ncli[c] - 1 \in Nat
    BY <2>1
  <2> QED BY <2>2, Zenon DEF Popcli, TypeOK, Location
<1>3. Elsewhere(c)
  BY Zenon DEF Popcli, cpuvars, TypeOK, Elsewhere
<1>4. HeldHere(c)'
  BY <1>1, Zenon DEF HeldHere
<1>5. MutualExclusion'
  BY <1>1, Zenon DEF MutualExclusion
<1>6. Owned(c)'
  BY <1>1, Zenon DEF Owned
<1>7. Counted(c)'
  BY <1>1 DEF Counted, CountHere
<1>8. Masked(c)'
  <2>1. ~IF_[c]
    BY <1>1, Zenon DEF Masked
  <2>2. ncli[c] = 1 => held[on[c]] = {}
    BY <1>1 DEF Counted, CountHere
  <2>3. ncli[c] = 1 /\ intena[c] => frame[on[c]] = NoFrame
    BY DEF Restorable
  <2> QED BY <1>1, <2>1, <2>2, <2>3, Zenon DEF Masked
<1>9. Restorable(c)'
  <2>1. ncli[c] \in Nat /\ ncli[c] # 0
    BY <1>1, Zenon DEF CountHere
  <2>2. ncli[c] > 0 /\ (ncli'[c] > 0 \/ ncli[c] = 1)
    BY <1>1, <2>1
  <2> QED BY <1>1, <2>2, Zenon DEF Restorable
<1>10. Framed(on[c])'
  BY <1>1, Zenon DEF Framed
<1>11. NoPanic'
  BY <1>1, Zenon DEF NoPanic, Masked, CountHere
<1>12. pc'[on'[c]] \notin {"off", "fresh"}
  BY <1>1, Zenon
<1> QED BY <1>2, <1>3, <1>4, <1>5, <1>6, <1>7, <1>8, <1>9, <1>10, <1>11, <1>12, LocalStep, Zenon DEF Here

(* An interrupt finds the context outside all locks, maybe before cli(). *)
LEMMA InterruptStep == ASSUME IInv, NEW c \in CPU, Interrupt(c) PROVE IInv'
<1>. /\ TypeOK /\ MutualExclusion /\ HeldHere(c) /\ Owned(c) /\ Counted(c) /\ Masked(c) /\ Restorable(c)
     /\ Framed(on[c]) /\ CountHere(c) /\ on[c] \in Ctx /\ ~panicked
  BY HereFacts, Zenon
<1>1. /\ held[on[c]] = {} /\ pc[on[c]] \in {"run", "flags"}
      /\ pc[on[c]] = "flags" => eflags[on[c]] /\ lk[on[c]] \in Lock
      /\ pc'[on[c]] = "run" /\ lk'[on[c]] = NoLock /\ ~IF_'[c]
      /\ frame'[on[c]] = [pc |-> pc[on[c]], lk |-> lk[on[c]], eflags |-> eflags[on[c]]]
      /\ on' = on /\ held' = held /\ locked' = locked /\ owner' = owner /\ born' = born
      /\ ncli' = ncli /\ intena' = intena /\ panicked' = panicked
  BY Zenon DEF Interrupt, TypeOK, Masked, HeldHere
<1>2. TypeOK'
  BY <1>1, Zenon DEF Interrupt, TypeOK, Location
<1>3. Elsewhere(c)
  BY Zenon DEF Interrupt, cpuvars, TypeOK, Elsewhere
<1>4. HeldHere(c)'
  BY <1>1, Zenon DEF HeldHere
<1>5. MutualExclusion'
  BY <1>1, Zenon DEF MutualExclusion
<1>6. Owned(c)'
  BY <1>1, Zenon DEF Owned
<1>7. Counted(c)'
  BY <1>1, Zenon DEF Counted
<1>8. Masked(c)'
  BY <1>1, Zenon DEF Masked
<1>9. Restorable(c)'
  <2>1. ncli[c] = 0 /\ ~(ncli[c] > 0)
    <3>1. ncli[c] = 0
      BY <1>1, Zenon DEF CountHere
    <3> QED BY <3>1
  <2>2. frame'[on[c]] # NoFrame
    <3>1. frame'[on[c]].pc # NoFrame.pc
      BY <1>1 DEF NoFrame
    <3> QED BY <3>1, Zenon
  <2> QED BY <1>1, <2>1, <2>2, Zenon DEF Restorable
<1>10. Framed(on[c])'
  <2>1. frame'[on[c]].pc = pc[on[c]]
    BY <1>1
  <2>2. frame'[on[c]].lk = lk[on[c]] /\ frame'[on[c]].eflags = eflags[on[c]]
    BY <1>1
  <2>3. on' = on /\ pc[on[c]] # "none" /\ (pc[on[c]] = "flags" => eflags[on[c]] /\ lk[on[c]] \in Lock)
    BY <1>1, Zenon
  <2> QED BY <2>1, <2>2, <2>3, Zenon DEF Framed
<1>11. NoPanic'
  BY <1>1, Zenon DEF NoPanic
<1>12. pc'[on'[c]] \notin {"off", "fresh"}
  BY <1>1, Zenon
<1> QED BY <1>2, <1>3, <1>4, <1>5, <1>6, <1>7, <1>8, <1>9, <1>10, <1>11, <1>12, LocalStep, Zenon DEF Here

(* iret goes back there, and eflags still has what FL_IF is. *)
LEMMA IretStep == ASSUME IInv, NEW c \in CPU, Iret(c) PROVE IInv'
<1>. /\ TypeOK /\ MutualExclusion /\ HeldHere(c) /\ Owned(c) /\ Counted(c) /\ Masked(c) /\ Restorable(c)
     /\ Framed(on[c]) /\ CountHere(c) /\ on[c] \in Ctx /\ ~panicked
  BY HereFacts, Zenon
<1>1. /\ frame[on[c]].pc \in {"run", "flags"} /\ pc[on[c]] = "run" /\ held[on[c]] = {}
      /\ pc'[on[c]] = frame[on[c]].pc /\ frame'[on[c]] = NoFrame /\ IF_'[c]
      /\ pc'[on[c]] = "flags" => eflags'[on[c]] /\ lk'[on[c]] \in Lock
      /\ on' = on /\ held' = held /\ locked' = locked /\ owner' = owner /\ born' = born
      /\ ncli' = ncli /\ intena' = intena /\ panicked' = panicked
  BY Zenon DEF Iret, TypeOK, Framed
<1>2. TypeOK'
  BY <1>1, Zenon DEF Iret, TypeOK, Location, NoFrame
<1>3. Elsewhere(c)
  BY Zenon DEF Iret, cpuvars, TypeOK, Elsewhere
<1>4. HeldHere(c)'
  BY <1>1, Zenon DEF HeldHere
<1>5. MutualExclusion'
  BY <1>1, Zenon DEF MutualExclusion
<1>6. Owned(c)'
  BY <1>1, Zenon DEF Owned
<1>7. Counted(c)'
  BY <1>1, Zenon DEF Counted
<1>8. Masked(c)'
  BY <1>1, Zenon DEF Masked
<1>9. Restorable(c)'
  <2>1. ncli[c] = 0
    BY <1>1, Zenon DEF CountHere
  <2>2. ~(ncli[c] > 0)
    BY <2>1
  <2> QED BY <1>1, <2>2, Zenon DEF Restorable
<1>10. Framed(on[c])'
  <2>1. NoFrame.pc = "none"
    BY DEF NoFrame
  <2> QED BY <1>1, <2>1, Zenon DEF Framed
<1>11. NoPanic'
  BY <1>1, Zenon DEF NoPanic
<1>12. pc'[on'[c]] \notin {"off", "fresh"}
  BY <1>1, Zenon
<1> QED BY <1>2, <1>3, <1>4, <1>5, <1>6, <1>7, <1>8, <1>9, <1>10, <1>11, <1>12, LocalStep, Zenon DEF Here

(* The scheduler enables interrupts only outside ptable.lock. *)
LEMMA StiStep == ASSUME IInv, NEW c \in CPU, Sti(c) PROVE IInv'
<1>. /\ TypeOK /\ MutualExclusion /\ HeldHere(c) /\ Owned(c) /\ Counted(c) /\ Masked(c) /\ Restorable(c)
     /\ Framed(on[c]) /\ CountHere(c) /\ on[c] \in Ctx /\ ~panicked
  BY HereFacts, Zenon
<1>1. /\ on[c] = c /\ frame[c] = NoFrame /\ pc[c] = "run" /\ held[c] = {} /\ IF_'[c]
      /\ on' = on /\ pc' = pc /\ held' = held /\ locked' = locked /\ owner' = owner /\ lk' = lk
      /\ frame' = frame /\ born' = born /\ ncli' = ncli /\ intena' = intena /\ panicked' = panicked
  BY Zenon DEF Sti, TypeOK, Scheduling
<1>2. TypeOK'
  BY Zenon DEF Sti, cpuvars, TypeOK, Location
<1>3. Elsewhere(c)
  BY Zenon DEF Sti, cpuvars, TypeOK, Elsewhere
<1>4. HeldHere(c)'
  BY <1>1, Zenon DEF HeldHere
<1>5. MutualExclusion'
  BY <1>1, Zenon DEF MutualExclusion
<1>6. Owned(c)'
  BY <1>1, Zenon DEF Owned
<1>7. Counted(c)'
  BY <1>1, Zenon DEF Counted
<1>8. Masked(c)'
  BY <1>1, Zenon DEF Masked
<1>9. Restorable(c)'
  BY <1>1, SpinLockAssumption, Zenon DEF Restorable
<1>10. Framed(on[c])'
  BY <1>1, Zenon DEF Framed
<1>11. NoPanic'
  BY <1>1, Zenon DEF NoPanic
<1>12. pc'[on'[c]] \notin {"off", "fresh"}
  BY <1>1, Zenon
<1> QED BY <1>2, <1>3, <1>4, <1>5, <1>6, <1>7, <1>8, <1>9, <1>10, <1>11, <1>12, LocalStep, Zenon DEF Here

(* A new thread leaves the kernel for the first time. *)
LEMMA TrapretStep == ASSUME IInv, NEW c \in CPU, Trapret(c) PROVE IInv'
<1>. /\ TypeOK /\ MutualExclusion /\ HeldHere(c) /\ Owned(c) /\ Counted(c) /\ Masked(c) /\ Restorable(c)
     /\ Framed(on[c]) /\ CountHere(c) /\ on[c] \in Ctx /\ ~panicked
  BY HereFacts, Zenon
<1>1. /\ pc[on[c]] = "run" /\ frame[on[c]] = NoFrame /\ held[on[c]] = {} /\ IF_'[c]
      /\ on' = on /\ pc' = pc /\ held' = held /\ locked' = locked /\ owner' = owner /\ lk' = lk
      /\ frame' = frame /\ ncli' = ncli /\ intena' = intena /\ panicked' = panicked
  BY Zenon DEF Trapret, cpuvars, TypeOK
<1>2. TypeOK'
  BY Zenon DEF Trapret, cpuvars, TypeOK, Location
<1>3. Elsewhere(c)
  BY Zenon DEF Trapret, cpuvars, TypeOK, Elsewhere
<1>4. HeldHere(c)'
  BY <1>1, Zenon DEF HeldHere
<1>5. MutualExclusion'
  BY <1>1, Zenon DEF MutualExclusion
<1>6. Owned(c)'
  BY <1>1, Zenon DEF Owned
<1>7. Counted(c)'
  BY <1>1, Zenon DEF Counted
<1>8. Masked(c)'
  BY <1>1, Zenon DEF Masked
<1>9. Restorable(c)'
  <2>1. ncli[c] = 0
    BY <1>1, Zenon DEF CountHere
  <2>2. ~(ncli[c] > 0)
    BY <2>1
  <2> QED BY <1>1, <2>2, Zenon DEF Restorable
<1>10. Framed(on[c])'
  BY <1>1, Zenon DEF Framed
<1>11. NoPanic'
  BY <1>1, Zenon DEF NoPanic
<1>12. pc'[on'[c]] \notin {"off", "fresh"}
  BY <1>1, Zenon
<1> QED BY <1>2, <1>3, <1>4, <1>5, <1>6, <1>7, <1>8, <1>9, <1>10, <1>11, <1>12, LocalStep, Zenon DEF Here

-----------------------------------------------------------------------------
(* The two swtch() calls, and the theorems *)

(* The other CPUs do not notice a switch of contexts on CPU c. *)
LEMMA OtherCPU ==
  ASSUME IInv, NEW d \in CPU, on'[d] = on[d], ncli'[d] = ncli[d], IF_'[d] = IF_[d], intena'[d] = intena[d],
         pc'[on[d]] = pc[on[d]], held'[on[d]] = held[on[d]],
         owner' = owner, lk' = lk, eflags' = eflags, frame' = frame, born' = born
  PROVE  Owned(d)' /\ Counted(d)' /\ Masked(d)' /\ Restorable(d)'
<1>1. Owned(d) /\ Counted(d) /\ Masked(d) /\ Restorable(d)
  BY Zenon DEF IInv, SpinInv
<1>2. Owned(d)'
  BY <1>1, Zenon DEF Owned
<1>3. Counted(d)'
  BY <1>1, Zenon DEF Counted
<1>4. Masked(d)'
  BY <1>1, Zenon DEF Masked
<1>5. Restorable(d)'
  BY <1>1, Zenon DEF Restorable
<1> QED BY <1>2, <1>3, <1>4, <1>5, Zenon

(* swtch() moves ptable.lock from one context to another on the same CPU. *)
LEMMA HandOver ==
  ASSUME IInv, NEW from \in Ctx, NEW to \in Ctx, from # to,
         held[from] = {ptable}, held[to] = {},
         held' = [held EXCEPT ![from] = {}, ![to] = {ptable}], locked' = locked
  PROVE  /\ \A k \in Ctx : IsFiniteSet(held'[k])
         /\ \A l \in Lock : locked'[l] <=> \E k \in Ctx : l \in held'[k]
         /\ MutualExclusion'
         /\ held'[from] = {} /\ held'[to] = {ptable} /\ \A k \in Ctx \ {from, to} : held'[k] = held[k]
<1>1. Held /\ MutualExclusion /\ held \in [Ctx -> SUBSET Lock]
  BY Zenon DEF IInv, SpinInv, TypeOK
<1>2. held'[from] = {} /\ held'[to] = {ptable} /\ \A k \in Ctx \ {from, to} : held'[k] = held[k]
  BY <1>1, Zenon
<1>3. \A k \in Ctx : IsFiniteSet(held'[k])
  <2>1. IsFiniteSet(held'[from])
    BY <1>2, FS_EmptySet, Zenon
  <2>2. IsFiniteSet({ptable})
    BY FS_Singleton, Zenon
  <2>3. IsFiniteSet(held'[to])
    BY <1>2, <2>2, Zenon
  <2>4. \A k \in Ctx \ {from, to} : IsFiniteSet(held'[k])
    BY <1>1, <1>2, Zenon DEF Held
  <2> QED BY <2>1, <2>3, <2>4, Zenon
<1>4. \A k \in Ctx \ {from} : ptable \notin held[k]
  BY <1>1, Zenon DEF MutualExclusion
<1>5. MutualExclusion'
  <2>1. ASSUME NEW j \in Ctx, NEW k \in Ctx, j # k, NEW l, l \in held'[j], l \in held'[k] PROVE FALSE
    <3>1. CASE j = to \/ k = to
      BY <2>1, <3>1, <1>2, <1>4, Zenon
    <3>2. CASE j # to /\ k # to
      <4>1. l \in held[j] /\ l \in held[k]
        BY <2>1, <3>2, <1>2, Zenon
      <4> QED BY <2>1, <4>1, <1>1, Zenon DEF MutualExclusion
    <3> QED BY <3>1, <3>2, Zenon
  <2> QED BY <2>1, Zenon DEF MutualExclusion
<1>6. ASSUME NEW l \in Lock PROVE locked'[l] <=> \E k \in Ctx : l \in held'[k]
  <2>1. locked[l] <=> \E k \in Ctx : l \in held[k]
    BY <1>1, Zenon DEF Held
  <2>2. CASE l = ptable
    BY <2>1, <2>2, <1>2, Zenon
  <2>3. CASE l # ptable
    BY <2>1, <2>3, <1>2, Zenon
  <2> QED BY <2>2, <2>3, Zenon
<1> QED BY <1>2, <1>3, <1>5, <1>6, Zenon

(* swtch() from the scheduler to a thread, with its own intena *)
LEMMA DispatchStep == ASSUME IInv, NEW c \in CPU, NEW k \in Thread, Dispatch(c, k) PROVE IInv'
<1>1. /\ TypeOK /\ Placed /\ Held /\ MutualExclusion /\ ~panicked
      /\ Owned(c) /\ Counted(c) /\ Masked(c)
  BY HereFacts, Zenon
<1>2. /\ on[c] = c /\ frame[c] = NoFrame /\ pc[c] = "run" /\ held[c] = {ptable}
      /\ pc[k] \in {"off", "fresh"}
      /\ Framed(k) /\ Saved(k)
  BY Zenon DEF Dispatch, Scheduling, IInv, SpinInv, Ctx
<1>3. /\ k \in Ctx /\ c \in Ctx /\ k # c /\ k \notin CPU
      /\ \A d \in CPU : on[d] # k
      /\ \A d \in CPU \ {c} : on[d] # c /\ on[d] \in Ctx
  BY <1>1, <1>2, SpinLockAssumption DEF Placed, Ctx, TypeOK
<1>4. held[k] = {}
  BY <1>1, <1>3, Zenon DEF Held
<1>5. /\ on' = [on EXCEPT ![c] = k] /\ pc' = [pc EXCEPT ![k] = "run"]
      /\ held' = [held EXCEPT ![c] = {}, ![k] = {ptable}]
      /\ intena' = [intena EXCEPT ![c] = IF pc[k] = "off" THEN sint[k] ELSE @]
      /\ locked' = locked /\ owner' = owner /\ IF_' = IF_ /\ ncli' = ncli /\ lk' = lk /\ eflags' = eflags
      /\ frame' = frame /\ sint' = sint /\ born' = born /\ panicked' = panicked
  BY Zenon DEF Dispatch
<1>6. /\ \A j \in Ctx : IsFiniteSet(held'[j])
      /\ \A l \in Lock : locked'[l] <=> \E j \in Ctx : l \in held'[j]
      /\ MutualExclusion'
      /\ held'[c] = {} /\ held'[k] = {ptable} /\ \A j \in Ctx \ {c, k} : held'[j] = held[j]
  <2>1. c \in Ctx /\ k \in Ctx /\ c # k /\ held[c] = {ptable} /\ held[k] = {}
    BY <1>2, <1>3, <1>4, Zenon
  <2>2. held' = [held EXCEPT ![c] = {}, ![k] = {ptable}] /\ locked' = locked
    BY <1>5, Zenon
  <2> QED BY <2>1, <2>2, HandOver, Zenon
<1>7. /\ on'[c] = k /\ \A d \in CPU \ {c} : on'[d] = on[d] /\ intena'[d] = intena[d]
      /\ pc'[k] = "run" /\ \A j \in Ctx \ {k} : pc'[j] = pc[j]
  BY <1>1, <1>3, <1>5, Zenon DEF TypeOK
<1>8. TypeOK'
  BY <1>1, <1>3, <1>5, SpinLockAssumption, Zenon DEF TypeOK, Location
<1>9. Placed'
  <2>1. \A d \in CPU : on'[d] \in CPU => on'[d] = d
    BY <1>1, <1>3, <1>7, Zenon DEF Placed
  <2>2. \A d, e \in CPU : on'[d] = on'[e] => d = e
    <3>1. \A d, e \in CPU : on[d] = on[e] => d = e
      BY <1>1, Zenon DEF Placed
    <3>2. ASSUME NEW d \in CPU, NEW e \in CPU, on'[d] = on'[e], d # e PROVE FALSE
      <4>1. CASE d = c \/ e = c
        BY <3>2, <4>1, <1>3, <1>7, Zenon
      <4>2. CASE d # c /\ e # c
        <5>1. on'[d] = on[d] /\ on'[e] = on[e]
          BY <4>2, <1>7, Zenon
        <5> QED BY <3>1, <3>2, <5>1, Zenon
      <4> QED BY <4>1, <4>2, Zenon
    <3> QED BY <3>2, Zenon
  <2>3. ASSUME NEW j \in Thread PROVE pc'[j] \in {"off", "fresh"} <=> \A d \in CPU : on'[d] # j
    <3>1. CASE j = k
      BY <3>1, <1>7, Zenon
    <3>2. CASE j # k
      <4>1. pc'[j] = pc[j] /\ j # c
        BY <3>2, <1>7, SpinLockAssumption, Zenon DEF Ctx
      <4>2. pc[j] \in {"off", "fresh"} <=> \A d \in CPU : on[d] # j
        BY <1>1, Zenon DEF Placed
      <4> QED BY <3>2, <4>1, <4>2, <1>2, <1>7, Zenon
    <3> QED BY <3>1, <3>2, Zenon
  <2>4. \A d \in CPU : d \in Ctx \ {k} /\ pc'[d] = pc[d]
    BY <1>3, <1>7, Zenon DEF Ctx
  <2>5. \A d \in CPU : pc'[d] \notin {"off", "fresh"}
    BY <1>1, <2>4, Zenon DEF Placed
  <2>6. ASSUME NEW d \in CPU, on'[d] # d PROVE pc'[d] = "run" /\ frame'[d] = NoFrame
    <3>1. CASE d = c
      BY <3>1, <1>2, <1>5, <2>4, Zenon
    <3>2. CASE d # c
      <4>1. on[d] # d
        BY <2>6, <3>2, <1>7, Zenon
      <4>2. pc[d] = "run" /\ frame[d] = NoFrame
        BY <4>1, <1>1, Zenon DEF Placed
      <4> QED BY <4>2, <1>5, <2>4, Zenon
    <3> QED BY <3>1, <3>2, Zenon
  <2> QED BY <2>1, <2>2, <2>3, <2>5, <2>6, Zenon DEF Placed
<1>10. Held'
  <2>1. ASSUME NEW j \in Ctx, \A d \in CPU : on'[d] # j PROVE held'[j] = {}
    <3>1. CASE j = c
      BY <3>1, <1>6, Zenon
    <3>2. CASE j # c
      <4>1. j # k /\ \A d \in CPU : on[d] # j
        BY <2>1, <3>2, <1>2, <1>7, Zenon
      <4>2. held[j] = {}
        BY <4>1, <1>1, Zenon DEF Held
      <4> QED BY <3>2, <4>1, <4>2, <1>6, Zenon
    <3> QED BY <3>1, <3>2, Zenon
  <2>2. ASSUME NEW j \in Ctx
        PROVE  /\ pc'[j] \in {"flags", "spin"} => lk'[j] \in Lock \ held'[j]
               /\ pc'[j] \in {"own", "unlock"} => lk'[j] \in held'[j]
    <3>1. CASE j \in {c, k}
      BY <3>1, <1>2, <1>3, <1>7, Zenon
    <3>2. CASE j \notin {c, k}
      <4>1. pc'[j] = pc[j] /\ lk'[j] = lk[j] /\ held'[j] = held[j]
        BY <3>2, <1>5, <1>6, <1>7, Zenon
      <4>2. /\ pc[j] \in {"flags", "spin"} => lk[j] \in Lock \ held[j]
            /\ pc[j] \in {"own", "unlock"} => lk[j] \in held[j]
        BY <1>1, Zenon DEF Held
      <4> QED BY <4>1, <4>2, Zenon
    <3> QED BY <3>1, <3>2, Zenon
  <2> QED BY <1>6, <2>1, <2>2, Zenon DEF Held
<1>11. ASSUME NEW d \in CPU PROVE Owned(d)' /\ Counted(d)' /\ Masked(d)' /\ Restorable(d)'
  <2>1. CASE d # c
    <3>1. on[d] \in Ctx \ {c, k} /\ on'[d] = on[d] /\ intena'[d] = intena[d]
      BY <2>1, <1>3, <1>7, Zenon
    <3>2. pc'[on[d]] = pc[on[d]] /\ held'[on[d]] = held[on[d]]
      BY <3>1, <1>6, <1>7, Zenon
    <3> QED BY <3>1, <3>2, <1>5, OtherCPU, Zenon
  <2>2. CASE d = c
    <3>1. Owned(c)'
      BY <1>1, <1>2, <1>5, <1>6, <1>7, Zenon DEF Owned
    <3>. Cardinality({ptable}) = 1
      BY FS_Singleton, Zenon
    <3>2. ncli[c] = 1
      BY <1>1, <1>2 DEF Counted
    <3>3. Counted(c)'
      <4>1. held'[on'[c]] = {ptable} /\ pc'[on'[c]] = "run" /\ ncli'[c] = 1
        BY <3>2, <1>5, <1>6, <1>7, Zenon
      <4> QED BY <4>1 DEF Counted
    <3>4. Masked(c)'
      BY <1>1, <1>2, <1>5, <1>7, Zenon DEF Masked
    <3>5. intena'[c] <=> IF pc[k] = "off" THEN sint[k] ELSE intena[c]
      BY <1>1, <1>5, Zenon DEF TypeOK
    <3>6. Restorable(c)'
      <4>1. ncli'[c] > 0
        BY <1>5, <3>2
      <4>2. on'[c] = k /\ frame'[k] = frame[k] /\ born'[k] = born[k]
        BY <1>5, <1>7, Zenon
      <4>3. intena'[c] <=> IF pc[k] = "off" THEN sint[k] ELSE intena[c]
        BY <3>5, Zenon
      <4>4. /\ pc[k] = "off" => (frame[k] # NoFrame => ~sint[k]) /\ (frame[k] = NoFrame /\ ~born[k] => sint[k])
            /\ pc[k] # "off" => born[k] /\ frame[k] = NoFrame
        BY <1>2, Zenon DEF Saved
      <4> QED BY <4>1, <4>2, <4>3, <4>4, Zenon DEF Restorable
    <3> QED BY <2>2, <3>1, <3>3, <3>4, <3>6, Zenon
  <2> QED BY <2>1, <2>2, Zenon
<1>12. \A j \in Ctx : Framed(j)'
  BY <1>5, Zenon DEF IInv, SpinInv, Framed
<1>13. ASSUME NEW j \in Thread PROVE Saved(j)'
  <2>1. Saved(j) /\ j \in Ctx
    BY Zenon DEF IInv, SpinInv, Ctx
  <2> QED BY <2>1, <1>5, <1>7, Zenon DEF Saved
<1>14. NoPanic'
  BY <1>1, <1>5, Zenon DEF NoPanic
<1> QED BY <1>6, <1>8, <1>9, <1>10, <1>11, <1>12, <1>13, <1>14, Zenon DEF IInv, SpinInv

(* swtch() back to the scheduler; none of sched()'s checks fails. *)
LEMMA SchedStep == ASSUME IInv, NEW c \in CPU, Sched(c) PROVE IInv'
<1> DEFINE k == on[c]
<1>1. /\ TypeOK /\ Placed /\ Held /\ MutualExclusion /\ ~panicked
      /\ Owned(c) /\ Counted(c) /\ Masked(c) /\ Restorable(c)
  BY HereFacts, Zenon
<1>2. k \in Thread /\ pc[k] = "run" /\ held[k] = {ptable}
  BY Zenon DEF Sched
<1>3. /\ k \in Ctx /\ c \in Ctx /\ k # c /\ k \notin CPU
      /\ pc[c] = "run" /\ frame[c] = NoFrame
      /\ \A d \in CPU \ {c} : on[d] # c /\ on[d] # k /\ on[d] \in Ctx
  BY <1>1, <1>2, SpinLockAssumption DEF Placed, Ctx, TypeOK
<1>4. held[c] = {}
  BY <1>1, <1>3, Zenon DEF Held
<1>5. /\ on' = [on EXCEPT ![c] = c] /\ pc' = [pc EXCEPT ![k] = "off"]
      /\ held' = [held EXCEPT ![k] = {}, ![c] = {ptable}]
      /\ sint' = [sint EXCEPT ![k] = intena[c]]
      /\ locked' = locked /\ owner' = owner /\ IF_' = IF_ /\ ncli' = ncli /\ intena' = intena /\ lk' = lk
      /\ eflags' = eflags /\ frame' = frame /\ born' = born
      /\ panicked' = (~holding(c, ptable) \/ ncli[c] # 1 \/ IF_[c])
  BY Zenon DEF Sched, cpuvars
<1> HIDE DEF k
<1>6. /\ \A j \in Ctx : IsFiniteSet(held'[j])
      /\ \A l \in Lock : locked'[l] <=> \E j \in Ctx : l \in held'[j]
      /\ MutualExclusion'
      /\ held'[k] = {} /\ held'[c] = {ptable} /\ \A j \in Ctx \ {k, c} : held'[j] = held[j]
  <2>1. c \in Ctx /\ k \in Ctx /\ k # c /\ held[k] = {ptable} /\ held[c] = {}
    BY <1>2, <1>3, <1>4, Zenon
  <2>2. held' = [held EXCEPT ![k] = {}, ![c] = {ptable}] /\ locked' = locked
    BY <1>5, Zenon
  <2> QED BY <2>1, <2>2, HandOver, Zenon
<1>7. /\ on'[c] = c /\ \A d \in CPU \ {c} : on'[d] = on[d]
      /\ pc'[k] = "off" /\ \A j \in Ctx \ {k} : pc'[j] = pc[j]
      /\ sint'[k] = intena[c] /\ \A j \in Ctx \ {k} : sint'[j] = sint[j]
  BY <1>1, <1>3, <1>5, Zenon DEF TypeOK
<1>. Cardinality({ptable}) = 1
  BY FS_Singleton, Zenon
<1>8. ncli[c] = 1
  BY <1>1, <1>2 DEF Counted, k
<1>9. ~IF_[c]
  BY <1>1, <1>2, Zenon DEF Masked, k
<1>10. holding(c, ptable)
  BY <1>1, <1>2, <1>3, SpinLockAssumption, Zenon DEF Owned, Held, holding, k
<1>11. NoPanic'
  BY <1>5, <1>8, <1>9, <1>10, Zenon DEF NoPanic
<1>12. TypeOK'
  BY <1>1, <1>3, <1>5, <1>11, SpinLockAssumption, Zenon DEF TypeOK, Location, NoPanic
<1>13. Placed'
  <2>1. \A d \in CPU : on'[d] \in CPU => on'[d] = d
    BY <1>1, <1>3, <1>7, Zenon DEF Placed
  <2>2. \A d, e \in CPU : on'[d] = on'[e] => d = e
    <3>1. \A d, e \in CPU : on[d] = on[e] => d = e
      BY <1>1, Zenon DEF Placed
    <3>2. ASSUME NEW d \in CPU, NEW e \in CPU, on'[d] = on'[e], d # e PROVE FALSE
      <4>1. CASE d = c \/ e = c
        BY <3>2, <4>1, <1>3, <1>7, Zenon
      <4>2. CASE d # c /\ e # c
        <5>1. on'[d] = on[d] /\ on'[e] = on[e]
          BY <4>2, <1>7, Zenon
        <5> QED BY <3>1, <3>2, <5>1, Zenon
      <4> QED BY <4>1, <4>2, Zenon
    <3> QED BY <3>2, Zenon
  <2>3. ASSUME NEW j \in Thread PROVE pc'[j] \in {"off", "fresh"} <=> \A d \in CPU : on'[d] # j
    <3>1. CASE j = k
      BY <3>1, <1>3, <1>7, Zenon
    <3>2. CASE j # k
      <4>1. pc'[j] = pc[j] /\ j # c
        BY <3>2, <1>7, SpinLockAssumption, Zenon DEF Ctx
      <4>2. pc[j] \in {"off", "fresh"} <=> \A d \in CPU : on[d] # j
        BY <1>1, Zenon DEF Placed
      <4> QED BY <3>2, <4>1, <4>2, <1>2, <1>7, Zenon DEF k
    <3> QED BY <3>1, <3>2, Zenon
  <2>4. \A d \in CPU : d \in Ctx \ {k} /\ pc'[d] = pc[d]
    BY <1>3, <1>7, Zenon DEF Ctx
  <2>5. \A d \in CPU : pc'[d] \notin {"off", "fresh"}
    BY <1>1, <2>4, Zenon DEF Placed
  <2>6. ASSUME NEW d \in CPU, on'[d] # d PROVE pc'[d] = "run" /\ frame'[d] = NoFrame
    <3>1. d # c /\ on[d] # d
      BY <2>6, <1>7, Zenon
    <3>2. pc[d] = "run" /\ frame[d] = NoFrame
      BY <3>1, <1>1, Zenon DEF Placed
    <3> QED BY <3>2, <1>5, <2>4, Zenon
  <2> QED BY <2>1, <2>2, <2>3, <2>5, <2>6, Zenon DEF Placed
<1>14. Held'
  <2>1. ASSUME NEW j \in Ctx, \A d \in CPU : on'[d] # j PROVE held'[j] = {}
    <3>1. CASE j = k
      BY <3>1, <1>6, Zenon
    <3>2. CASE j # k
      <4>1. j # c /\ \A d \in CPU : on[d] # j
        BY <2>1, <3>2, <1>7, Zenon DEF k
      <4>2. held[j] = {}
        BY <4>1, <1>1, Zenon DEF Held
      <4> QED BY <3>2, <4>1, <4>2, <1>6, Zenon
    <3> QED BY <3>1, <3>2, Zenon
  <2>2. ASSUME NEW j \in Ctx
        PROVE  /\ pc'[j] \in {"flags", "spin"} => lk'[j] \in Lock \ held'[j]
               /\ pc'[j] \in {"own", "unlock"} => lk'[j] \in held'[j]
    <3>1. CASE j \in {c, k}
      BY <3>1, <1>3, <1>7, Zenon
    <3>2. CASE j \notin {c, k}
      <4>1. pc'[j] = pc[j] /\ lk'[j] = lk[j] /\ held'[j] = held[j]
        BY <3>2, <1>5, <1>6, <1>7, Zenon
      <4>2. /\ pc[j] \in {"flags", "spin"} => lk[j] \in Lock \ held[j]
            /\ pc[j] \in {"own", "unlock"} => lk[j] \in held[j]
        BY <1>1, Zenon DEF Held
      <4> QED BY <4>1, <4>2, Zenon
    <3> QED BY <3>1, <3>2, Zenon
  <2> QED BY <1>6, <2>1, <2>2, Zenon DEF Held
<1>15. ASSUME NEW d \in CPU PROVE Owned(d)' /\ Counted(d)' /\ Masked(d)' /\ Restorable(d)'
  <2>1. CASE d # c
    <3>1. on[d] \in Ctx \ {c, k} /\ on'[d] = on[d]
      BY <2>1, <1>3, <1>7, Zenon
    <3>2. pc'[on[d]] = pc[on[d]] /\ held'[on[d]] = held[on[d]]
      BY <3>1, <1>6, <1>7, Zenon
    <3> QED BY <3>1, <3>2, <1>5, OtherCPU, Zenon
  <2>2. CASE d = c
    <3>. pc'[c] = "run" /\ frame'[c] = NoFrame /\ c \notin Thread
      BY <1>3, <1>5, <1>7, SpinLockAssumption, Zenon
    <3>1. Owned(c)'
      BY <1>1, <1>2, <1>5, <1>6, <1>7, Zenon DEF Owned, k
    <3>2. Counted(c)'
      <4>1. held'[on'[c]] = {ptable} /\ pc'[on'[c]] = "run" /\ ncli'[c] = 1
        BY <1>5, <1>6, <1>7, <1>8, Zenon
      <4> QED BY <4>1 DEF Counted
    <3>3. Masked(c)'
      BY <1>5, <1>7, <1>9, Zenon DEF Masked
    <3>4. Restorable(c)'
      BY <1>5, <1>7, Zenon DEF Restorable
    <3> QED BY <2>2, <3>1, <3>2, <3>3, <3>4, Zenon
  <2> QED BY <2>1, <2>2, Zenon
<1>16. \A j \in Ctx : Framed(j)'
  BY <1>5, Zenon DEF IInv, SpinInv, Framed
<1>17. ASSUME NEW j \in Thread PROVE Saved(j)'
  <2>1. CASE j = k
    <3>1. ncli[c] > 0
      BY <1>8
    <3>2. /\ frame[k] # NoFrame => ~intena[c]
          /\ frame[k] = NoFrame /\ ~born[k] => intena[c]
      BY <1>1, <1>2, <3>1, Zenon DEF Restorable, k
    <3>3. sint'[k] = intena[c] /\ pc'[k] = "off" /\ frame' = frame /\ born' = born
      BY <1>5, <1>7, Zenon
    <3> QED BY <2>1, <3>2, <3>3, Zenon DEF Saved
  <2>2. CASE j # k
    <3>1. Saved(j) /\ j \in Ctx
      BY Zenon DEF IInv, SpinInv, Ctx
    <3> QED BY <2>2, <3>1, <1>5, <1>7, Zenon DEF Saved
  <2> QED BY <2>1, <2>2, Zenon
<1> QED BY <1>6, <1>11, <1>12, <1>13, <1>14, <1>15, <1>16, <1>17, Zenon DEF IInv, SpinInv

(* The invariant holds when every CPU enters scheduler(). *)
LEMMA InitIInv == Init => IInv
<1> SUFFICES ASSUME Init PROVE IInv
  OBVIOUS
<1> USE SpinLockAssumption DEF Init
<1>1. TypeOK
  <2>1. pc \in [Ctx -> Location] /\ on \in [CPU -> Ctx]
    BY Zenon DEF Ctx, Location
  <2>2. frame \in [Ctx -> [pc : {"none", "run", "flags"}, lk : Lock \cup {NoLock}, eflags : BOOLEAN]]
    BY Zenon DEF NoFrame
  <2>3. born \in [Ctx -> BOOLEAN]
    OBVIOUS
  <2> QED BY <2>1, <2>2, <2>3, Zenon DEF TypeOK
<1>2. Placed
  BY Zenon DEF Placed, Ctx
<1>3. Held /\ MutualExclusion
  BY FS_EmptySet, Zenon DEF Held, MutualExclusion, Ctx
<1>4. ASSUME NEW c \in CPU PROVE Owned(c) /\ Counted(c) /\ Masked(c) /\ Restorable(c)
  BY FS_EmptySet DEF Owned, Counted, Masked, Restorable, Ctx
<1>5. \A k \in Ctx : Framed(k)
  BY Zenon DEF Framed, NoFrame
<1>6. \A k \in Thread : Saved(k)
  BY Zenon DEF Saved, Ctx
<1> QED BY <1>1, <1>2, <1>3, <1>4, <1>5, <1>6, Zenon DEF IInv, SpinInv, NoPanic

(* Every step of every CPU preserves the invariant. *)
LEMMA NextIInv == IInv /\ [Next]_vars => IInv'
<1> SUFFICES ASSUME IInv, [Next]_vars PROVE IInv'
  OBVIOUS
<1>1. CASE UNCHANGED vars
  <2>1. TypeOK' /\ NoPanic' /\ Placed' /\ Held' /\ MutualExclusion'
    <3>1. TypeOK /\ NoPanic /\ Placed /\ Held /\ MutualExclusion
      BY Zenon DEF IInv, SpinInv
    <3>2. TypeOK'
      BY <1>1, <3>1, Zenon DEF vars, TypeOK
    <3>3. NoPanic' /\ Placed' /\ MutualExclusion'
      BY <1>1, <3>1 DEF vars, NoPanic, Placed, MutualExclusion
    <3>4. Held'
      BY <1>1, <3>1, Zenon DEF vars, Held
    <3> QED BY <3>2, <3>3, <3>4, Zenon
  <2>2. \A c \in CPU : Owned(c)' /\ Counted(c)' /\ Masked(c)' /\ Restorable(c)'
    BY <1>1, OtherCPU, Zenon DEF vars
  <2>3. (\A k \in Ctx : Framed(k)') /\ \A k \in Thread : Saved(k)'
    BY <1>1, Zenon DEF vars, IInv, SpinInv, Framed, Saved
  <2> QED BY <2>1, <2>2, <2>3, Zenon DEF IInv, SpinInv
<1>2. ASSUME NEW c \in CPU, NEW l \in Lock, Acquire(c, l) \/ Release(c, l) PROVE IInv'
  BY <1>2, AcquireStep, ReleaseStep, Zenon
<1>3. ASSUME NEW c \in CPU, Pushcli(c) \/ Xchg(c) \/ SetOwner(c) \/ Unlock(c) \/ Popcli(c) PROVE IInv'
  BY <1>3, PushcliStep, XchgStep, SetOwnerStep, UnlockStep, PopcliStep, Zenon
<1>4. ASSUME NEW c \in CPU, Interrupt(c) \/ Iret(c) \/ Sti(c) \/ Sched(c) \/ Trapret(c) PROVE IInv'
  BY <1>4, InterruptStep, IretStep, StiStep, SchedStep, TrapretStep, Zenon
<1>5. ASSUME NEW c \in CPU, NEW k \in Thread, Dispatch(c, k) PROVE IInv'
  BY <1>5, DispatchStep, Zenon
<1> QED BY <1>1, <1>2, <1>3, <1>4, <1>5, Zenon DEF Next

(* The invariant holds in every reachable state. *)
LEMMA SpecIInv == Spec => []IInv
BY InitIInv, NextIInv, PTL DEF Spec

-----------------------------------------------------------------------------
(* The state keeps its type; in particular popcli() never counts below 0.   *)
THEOREM SpinTypeCorrect == Spec => []TypeOK
BY SpecIInv, PTL DEF IInv

(* lk->locked, lk->cpu, cpu->ncli and cpu->intena are exact at every step,  *)
(* for any number of CPUs, threads and locks.                               *)
THEOREM SpinInvariant == Spec => []SpinInv
BY SpecIInv, PTL DEF IInv

(* acquire() and release() give mutual exclusion, also when the holder      *)
(* moves to another CPU inside sched().                                     *)
THEOREM SpinMutualExclusion == Spec => []MutualExclusion
BY SpecIInv, PTL DEF IInv, SpinInv

(* No check in acquire(), release(), popcli() or sched() ever fails.        *)
THEOREM SpinNoPanic == Spec => []NoPanic
BY SpecIInv, PTL DEF IInv

(* pushcli() keeps interrupts off wherever a lock is held or waited for.    *)
THEOREM SpinHandlersNeverWait == Spec => []HandlersNeverWait
<1>1. IInv => HandlersNeverWait
  BY Zenon DEF IInv, SpinInv, Masked, HandlersNeverWait
<1> QED BY <1>1, SpecIInv, PTL

(* popcli() of the last lock restores the interrupt flag, on whatever CPU.  *)
THEOREM SpinInterruptsRestored == Spec => []InterruptsRestored
<1>1. IInv => InterruptsRestored
  <2> SUFFICES ASSUME IInv, NEW c \in CPU, on[c] \in Thread, pc[on[c]] = "run", held[on[c]] = {}, ~born[on[c]]
               PROVE  IF_[c] <=> frame[on[c]] = NoFrame
    BY Zenon DEF InterruptsRestored
  <2>1. TypeOK /\ Held /\ Counted(c) /\ Masked(c) /\ Restorable(c)
    BY Zenon DEF IInv, SpinInv
  <2>2. ncli[c] = 0
    BY <2>1, CountFacts, Zenon
  <2> QED BY <2>1, <2>2 DEF Masked, Restorable
<1> QED BY <1>1, SpecIInv, PTL
=============================================================================
