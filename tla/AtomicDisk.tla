----------------------------- MODULE AtomicDisk -----------------------------
(***************************************************************************)
(* What the logging layer promises the rest of the file system: a disk     *)
(* whose sectors are changed by transactions, one transaction at a time,   *)
(* each of which survives a crash completely or not at all.                *)
(***************************************************************************)
CONSTANTS Proc,    \* the processes that run transactions
          Sector,  \* the sectors of the file system proper
          Data,    \* what a sector can hold
          NoProc   \* nobody

VARIABLES stable,  \* the contents a crash cannot take away
          view,    \* the contents a read returns now
          writer   \* the process in a transaction, or NoProc

dvars == <<stable, view, writer>>

DInit ==
  /\ stable \in [Sector -> Data]
  /\ view = stable
  /\ writer = NoProc

Begin(p) ==
  /\ writer = NoProc
  /\ writer' = p
  /\ UNCHANGED <<stable, view>>

Write(p, s, v) ==
  /\ writer = p
  /\ view' = [view EXCEPT ![s] = v]
  /\ UNCHANGED <<stable, writer>>

Commit(p) ==
  /\ writer = p
  /\ stable' = view
  /\ UNCHANGED <<view, writer>>

End(p) ==
  /\ writer = p
  /\ stable = view
  /\ writer' = NoProc
  /\ UNCHANGED <<stable, view>>

Lose ==
  /\ view' = stable
  /\ writer' = NoProc
  /\ UNCHANGED stable

DNext ==
  \/ \E p \in Proc : Begin(p) \/ Commit(p) \/ End(p)
  \/ \E p \in Proc, s \in Sector, v \in Data : Write(p, s, v)
  \/ Lose

DSpec == DInit /\ [][DNext]_dvars
=============================================================================
