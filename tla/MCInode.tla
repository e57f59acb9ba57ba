------------------------------ MODULE MCInode ------------------------------
EXTENDS Inode

(* The disk after mkdir("/a") and mkdir("/a/a").                           *)
MCTree == [Mkfs EXCEPT !.type[2] = "dir", !.type[3] = "dir",
                       !.nlink[1] = 2, !.nlink[2] = 2, !.nlink[3] = 1,
                       !.ents[1]["a"] = 2, !.ents[2] = [Dots(2, 1) EXCEPT !["a"] = 3],
                       !.ents[3] = Dots(3, 2), !.used = {1, 2, 3}]

(* The kernel some calls after boot: a second process works in /a/a.       *)
MCInit ==
    /\ disk = MCTree /\ stable = MCTree
    /\ icache = [s \in Slot |->
                   CASE s = 1 -> RootSlot(MCTree)
                     [] s = 2 -> [RootSlot(MCTree) EXCEPT !.inum = 3, !.ref = 1,
                                                          !.nlink = 1]
                     [] OTHER -> NoSlot]
    /\ cwd = [p \in Proc |-> IF p = InitProc THEN 1 ELSE 2]
    /\ trans = NoProc
    /\ th = [p \in Proc |-> Idle] /\ sleeping = {}
    /\ ofile = [p \in Proc |-> 0] /\ ftable = [f \in File |-> NoFile]
    /\ foreign = FALSE /\ stale = {} /\ panicked = "" /\ calls = [p \in Proc |-> 0] /\ crashes = 0

MCSpec == MCInit /\ [][Next]_vars

Op(op, path) == [op |-> op, path |-> path, to |-> <<>>, wr |-> FALSE]

(* The first process changes the tree while the second, in /a/a, looks     *)
(* things up, moves and opens a file.                                      *)
MCCalls == [x \in Proc |->
    IF x = InitProc
    THEN {Op("creat", <<"b">>), Op("mknod", <<"b">>), Op("mkdir", <<"a", "b">>),
          Op("unlink", <<"b">>), Op("unlink", <<"a">>), Op("unlink", <<"a", "a">>),
          Op("unlink", <<"a", ".">>), Op("chdir", <<"b">>),
          [Op("link", <<"b">>) EXCEPT !.to = <<"a", "b">>],
          [Op("link", <<"a">>) EXCEPT !.to = <<"b">>]}
    ELSE {[Op("open", <<"..">>) EXCEPT !.wr = TRUE], Op("creat", <<"/", "b">>),
          [Op("open", <<"/", "b">>) EXCEPT !.wr = FALSE], Op("mkdir", <<"a">>),
          [Op("link", <<"/", "b">>) EXCEPT !.to = <<"b">>],
          Op("exec", <<"b">>), Op("retprt", <<>>), Op("retprt", <<"a">>),
          Op("chdir", <<"/">>)}]
MCMaxCalls == [x \in Proc |-> IF x = InitProc THEN 2 ELSE 2]
=============================================================================
