----------------------------- MODULE Namespace -----------------------------
(***************************************************************************)
(* What the file system promises of its names: the directories on the disk *)
(* change by one whole operation at a time, whatever system calls run and  *)
(* crash meanwhile.  Inodes that have lost their last link are freed       *)
(* whenever nobody uses them any more, together with any operation.        *)
(***************************************************************************)
EXTENDS Naturals, FiniteSets

CONSTANTS Inum, ROOTINO, Name

VARIABLE fs     \* type, nlink and directory entries of every inode

Elem == Name \cup {".", ".."}
NoEntries == [n \in Elem |-> 0]
Dots(i, parent) == [NoEntries EXCEPT !["."] = i, ![".."] = parent]

Directories(f) == {d \in Inum : f.type[d] = "dir"}

(* The directories of the tree: those that have a path from the root.      *)
Reachable(f) ==
    LET reach[k \in 0 .. Cardinality(Inum)] ==
            IF k = 0 THEN {ROOTINO}
            ELSE LET r == reach[k - 1]
                 IN  r \cup ({f.ents[x[1]][x[2]] : x \in r \X Name} \ {0})
    IN  reach[Cardinality(Inum)]

(* Every inode has a link for each name by which the tree refers to it.    *)
Covered(f) ==
    LET names == Reachable(f) \X (Elem \ {"."}) IN
    \A i \in Inum :
        f.nlink[i] >= Cardinality({x \in names : f.ents[x[1]][x[2]] = i})

Free(f, S) ==
    [type  |-> [i \in Inum |-> IF i \in S THEN "none" ELSE f.type[i]],
     nlink |-> f.nlink,
     ents  |-> [i \in Inum |-> IF i \in S THEN NoEntries ELSE f.ents[i]]]

Unlinked(f) == {i \in Inum : f.type[i] # "none" /\ f.nlink[i] = 0}

(* A new file or device i in d, or a new directory with its two names.     *)
Create(f, d, n, i, t) ==
    [type  |-> [f.type EXCEPT ![i] = t],
     nlink |-> [f.nlink EXCEPT ![i] = 1],
     ents  |-> [f.ents EXCEPT ![d][n] = i]]

Mkdir(f, d, n, i) ==
    [type  |-> [f.type EXCEPT ![i] = "dir"],
     nlink |-> [f.nlink EXCEPT ![i] = 1, ![d] = @ + 1],
     ents  |-> [f.ents EXCEPT ![d][n] = i, ![i] = Dots(i, d)]]

Link(f, d, n, i) ==
    [f EXCEPT !.nlink[i] = @ + 1, !.ents[d][n] = i]

Unlink(f, d, n) ==
    LET i == f.ents[d][n]
        g == [f EXCEPT !.nlink[i] = @ - 1, !.ents[d][n] = 0]
    IN  IF f.type[i] = "dir" THEN [g EXCEPT !.nlink[d] = @ - 1] ELSE g

(* The operation that leaves g, and the inodes that are freed with it.     *)
Leaves(g) == \E S \in SUBSET Unlinked(g) : fs' = Free(g, S)

Operation(f) ==
    \E d \in Directories(f), n \in Name :
       \/ /\ f.ents[d][n] = 0
          /\ \E i \in Inum :
                \/ /\ f.type[i] = "none"
                   /\ \/ \E t \in {"file", "dev"} : Leaves(Create(f, d, n, i, t))
                      \/ Leaves(Mkdir(f, d, n, i))
                \/ f.type[i] \in {"file", "dev"} /\ Leaves(Link(f, d, n, i))
       \/ /\ f.ents[d][n] # 0
          /\ f.type[f.ents[d][n]] = "dir" =>
                \A m \in Name : f.ents[f.ents[d][n]][m] = 0
          /\ Leaves(Unlink(f, d, n))

Init == fs.type[ROOTINO] = "dir" /\ Covered(fs)

Next == /\ fs' # fs
        /\ \E S \in SUBSET Unlinked(fs) :
              Leaves(Free(fs, S)) \/ Operation(Free(fs, S))

Spec == Init /\ [][Next]_fs
=============================================================================
