----------------------------- MODULE BlockStore -----------------------------
(***************************************************************************)
(* What the buffer cache promises: every sector has one current contents,  *)
(* which one process at a time may see and change (bio.c:8-14).            *)
(***************************************************************************)
CONSTANTS Proc, Sector, Data, NoProc

VARIABLES val,     \* the current contents of each sector
          holder   \* the process that has the sector between bread and brelse

svars == <<val, holder>>

SInit ==
  /\ val \in [Sector -> Data]
  /\ holder = [s \in Sector |-> NoProc]

Acquire(p, s) ==
  /\ holder[s] = NoProc
  /\ holder' = [holder EXCEPT ![s] = p]
  /\ UNCHANGED val

Change(p, s, v) ==
  /\ holder[s] = p
  /\ val' = [val EXCEPT ![s] = v]
  /\ UNCHANGED holder

Release(p, s) ==
  /\ holder[s] = p
  /\ holder' = [holder EXCEPT ![s] = NoProc]
  /\ UNCHANGED val

SNext ==
  \E p \in Proc, s \in Sector :
    \/ Acquire(p, s)
    \/ \E v \in Data : Change(p, s, v)
    \/ Release(p, s)

SSpec == SInit /\ [][SNext]_svars
=============================================================================
