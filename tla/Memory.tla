------------------------------- MODULE Memory -------------------------------
(***************************************************************************)
(* Physical memory: the page allocator of kalloc.c, the page tables of     *)
(* vm.c, and the system calls that use them: sbrk, fork, exec, exit and    *)
(* wait.  Processes run on several CPUs, so each kalloc() is a step and    *)
(* the free list may run dry, or fill up again, between two of them.       *)
(* kfree() only adds pages, so freeing a whole address space is one step.  *)
(* Sizes are in units of which PGSIZE make a page.                         *)
(***************************************************************************)
EXTENDS Integers, FiniteSetsExt

CONSTANTS
    Proc, Initproc,
    Sizes,       \* pages of physical memory, between end and PHYSTOP
    PGSIZE,
    NPTENTRIES,  \* pages that one page-table page maps
    NPD,         \* user page-table pages of a page directory
    Sbrk,        \* the arguments of sbrk()
    Headers,     \* the program headers that exec() reads
    WORD,        \* 2^32, where the addresses wrap
    MaxCalls     \* bound on the system calls of a process

None == 0

ASSUME MemoryAssumption ==
    /\ Initproc \in Proc /\ None \notin Proc
    /\ Sizes \subseteq Nat /\ \A n \in Sizes : n >= 5
    /\ PGSIZE \in Nat \ {0} /\ NPTENTRIES \in Nat \ {0} /\ NPD \in Nat \ {0}
    /\ Sbrk \subseteq Int
    /\ WORD \in Nat /\ WORD > NPD * NPTENTRIES * PGSIZE
    /\ Headers \subseteq [vaddr : 0 .. WORD - 1, memsz : 0 .. WORD - 1, filesz : 0 .. WORD - 1]

VARIABLES
    npage,       \* pages of the machine
    freelist,    \* kmem.freelist
    proc,        \* the processes and where each is in the kernel
    calls,       \* system calls made
    leaked,      \* history: pages whose last pointer the code dropped
    panicked

vars == <<npage, freelist, proc, calls, leaked, panicked>>

Page == 1 .. npage
NUPAGES == NPD * NPTENTRIES
Vpn == 0 .. NUPAGES - 1
KERNBASE == NUPAGES * PGSIZE
PGROUNDUP(n) == ((n + PGSIZE - 1) \div PGSIZE) * PGSIZE
Pages(n) == PGROUNDUP(n) \div PGSIZE
PDX(n) == n \div NPTENTRIES

(* A page directory: its page, the page table of the kernel's half, the    *)
(* page tables and pages of the user's half, the guard page that           *)
(* clearpteu() made, and, as a history, the pages that allocuvm() ever     *)
(* counted although mappages() failed.                                     *)
NoPgdir == [dir |-> None, kern |-> None, tab |-> [t \in 0 .. NPD - 1 |-> None],
            pte |-> [n \in Vpn |-> None], guard |-> {}, torn |-> {}]

Present(pg) == {n \in Vpn : pg.pte[n] # None}
UserPages(pg) == {pg.pte[n] : n \in Present(pg)}
TablePages(pg) == ({pg.tab[t] : t \in DOMAIN pg.tab} \cup {pg.dir, pg.kern}) \ {None}

(* A process, where it is in the kernel, and what the call there works on: *)
(* a new image, the next page, two sizes, and the header being loaded.     *)
NoSegment == [vaddr |-> 0, memsz |-> 0, filesz |-> 0]
UnusedProc == [st |-> "UNUSED", kstack |-> None, pg |-> NoPgdir, sz |-> 0,
               pc |-> "none", new |-> NoPgdir, a |-> 0, old |-> 0, hi |-> 0,
               seg |-> NoSegment, call |-> "none", child |-> None, parent |-> None]

-----------------------------------------------------------------------------
(* kalloc() takes the page at the head of the list, any page for all the   *)
(* callers know.                                                           *)
kalloc == Min(freelist)
NoMemory == freelist = {}

Running == panicked = ""
At(p, pc) == Running /\ proc[p].pc = pc
Goto(p, pc) == proc' = [proc EXCEPT ![p].pc = pc]

Panic(why) ==
    /\ panicked' = why
    /\ UNCHANGED <<npage, freelist, proc, calls, leaked>>

VisitedDown(pg, newsz, oldsz) ==
    {n \in newsz \div PGSIZE .. Pages(oldsz) - 1 : pg.tab[PDX(n)] # None}

(* deallocuvm(): from newsz up, skipping a whole table's worth of pages    *)
(* from the first page found without a table.                              *)
Visited(pg, newsz, oldsz) ==
    LET visit[n \in 0 .. 2 * NUPAGES] ==
            IF n >= Pages(oldsz) THEN {}
            ELSE IF pg.tab[PDX(n)] = None THEN visit[n + NPTENTRIES]
            ELSE {n} \cup visit[n + 1]
    IN  visit[Pages(newsz)]

Unmapped(pg, newsz, oldsz) ==
    [pg EXCEPT !.pte = [n \in Vpn |-> IF n \in Visited(pg, newsz, oldsz) THEN None ELSE @[n]]]

Deallocated(pg, newsz, oldsz) ==
    {pg.pte[n] : n \in Visited(pg, newsz, oldsz)} \ {None}

FreedUser(pg) == Deallocated(pg, 0, KERNBASE) \cup ({pg.dir} \ {None})

(* freevm(): the user's pages, the page tables, the directory.             *)
Freed(pg) == Deallocated(pg, 0, KERNBASE) \cup TablePages(pg)

-----------------------------------------------------------------------------
(* Starting a call.                                                        *)
Call(p) == /\ At(p, "user") /\ calls[p] < MaxCalls[p]
           /\ calls' = [calls EXCEPT ![p] = @ + 1]

(* growproc(n) with n > 0, up to the loop of allocuvm().                   *)
Grow(p, n) ==
    /\ n > 0 /\ proc[p].sz + n < KERNBASE
    /\ Call(p)
    /\ proc' = [proc EXCEPT ![p].pc = "allocuvm", ![p].call = "sbrk", ![p].new = proc[p].pg,
                            ![p].a = Pages(proc[p].sz), ![p].old = proc[p].sz,
                            ![p].hi = proc[p].sz + n]
    /\ UNCHANGED <<npage, freelist, leaked, panicked>>

(* growproc(n) with n < 0.  A new size of 0 looks like deallocuvm()'s      *)
(* failure: the pages are gone and the size stays, and the process, whose  *)
(* code is gone too, faults.                                               *)
Shrink(p, n) ==
    LET newsz == proc[p].sz + n IN
    /\ n < 0 /\ newsz >= 0
    /\ Call(p)
    /\ freelist' = freelist \cup Deallocated(proc[p].pg, newsz, proc[p].sz)
    /\ proc' = [proc EXCEPT ![p].pg = Unmapped(@, newsz, proc[p].sz),
                            ![p].sz = IF newsz = 0 THEN @ ELSE newsz,
                            ![p].pc = IF newsz = 0 THEN "fault" ELSE @]
    /\ UNCHANGED <<npage, leaked, panicked>>

(* fork(): allocproc() finds a slot, then a kernel stack.                  *)
Fork(p) ==
    /\ Call(p)
    /\ \E q \in Proc :
          /\ proc[q].st = "UNUSED"
          /\ proc' = [proc EXCEPT ![q].st = "EMBRYO", ![p].pc = "allocproc",
                                  ![p].call = "fork", ![p].child = q]
    /\ UNCHANGED <<npage, freelist, leaked, panicked>>

Allocproc(p) ==
    LET q == proc[p].child IN
    /\ At(p, "allocproc")
    /\ \/ /\ NoMemory
          /\ proc' = [proc EXCEPT ![q] = UnusedProc, ![p].pc = "user", ![p].child = None]
          /\ UNCHANGED freelist
       \/ /\ ~ NoMemory
          /\ proc' = [proc EXCEPT ![q].kstack = kalloc, ![p].pc = "setupkvm"]
          /\ freelist' = freelist \ {kalloc}
    /\ UNCHANGED <<npage, calls, leaked, panicked>>

(* exec(), after the header of the file was read.                          *)
Exec(p) ==
    /\ Call(p)
    /\ proc' = [proc EXCEPT ![p].pc = "setupkvm", ![p].call = "exec"]
    /\ UNCHANGED <<npage, freelist, leaked, panicked>>

-----------------------------------------------------------------------------
(* What fork() and exec() do when they fail: free the new page directory;  *)
(* fork() then gives up the slot.                                          *)
Back(pr, p) ==
    LET q == pr[p].child
        me == [pr[p] EXCEPT !.pc = "user", !.call = "none", !.new = NoPgdir, !.child = None,
                            !.a = 0, !.old = 0, !.hi = 0, !.seg = NoSegment]
    IN  [r \in Proc |-> IF r = p THEN me ELSE IF r = q THEN UnusedProc ELSE pr[r]]

Bad(p, lost) ==
    LET stack == IF proc[p].child = None THEN {} ELSE {proc[proc[p].child].kstack}
    IN  /\ freelist' = (freelist \cup Freed(proc[p].new) \cup stack) \ lost
        /\ leaked' = leaked \cup lost
        /\ proc' = Back(proc, p)
        /\ UNCHANGED <<npage, calls, panicked>>

(* setupkvm(): the directory, then the tables of the kernel's half.  If    *)
(* one of these is missing it returns without freeing the others.          *)
Setupkvm(p) ==
    /\ At(p, "setupkvm")
    /\ \/ /\ NoMemory
          /\ Bad(p, {})
       \/ /\ ~ NoMemory
          /\ proc' = [proc EXCEPT ![p].new.dir = kalloc, ![p].pc = "kmap"]
          /\ freelist' = freelist \ {kalloc}
          /\ UNCHANGED <<npage, calls, leaked, panicked>>

Kmap(p) ==
    /\ At(p, "kmap")
    /\ \/ /\ NoMemory
          /\ Bad(p, {proc[p].new.dir})
       \/ /\ ~ NoMemory
          /\ proc' = [proc EXCEPT ![p].new.kern = kalloc,
                                  ![p].pc = IF proc[p].call = "fork" THEN "copyuvm" ELSE "segment"]
          /\ freelist' = freelist \ {kalloc}
          /\ UNCHANGED <<npage, calls, leaked, panicked>>

-----------------------------------------------------------------------------
(* mappages() of one page of the user's half.                              *)
Mapped(pg, n, m, t) ==
    [pg EXCEPT !.pte[n] = m, !.tab[PDX(n)] = IF @ = None THEN t ELSE @]

HasTable(pg, n) == pg.tab[PDX(n)] # None

(* Taking a page for page n and, when there is no table, one for that.     *)
MapPage(p, n) ==
    LET m == kalloc
        t == IF HasTable(proc[p].new, n) THEN None ELSE Min(freelist \ {m})
    IN  /\ HasTable(proc[p].new, n) \/ freelist # {m}
        /\ proc' = [proc EXCEPT ![p].new = Mapped(@, n, m, t), ![p].a = @ + 1]
        /\ freelist' = freelist \ {m, t}
        /\ UNCHANGED <<npage, calls, leaked, panicked>>

TableMissing(p, n) == ~ NoMemory /\ ~ HasTable(proc[p].new, n) /\ freelist = {kalloc}

(* mappages() panics if the page is mapped already.                        *)
Remap(p) ==
    /\ At(p, "allocuvm") /\ proc[p].a < Pages(proc[p].hi) /\ ~ NoMemory
    /\ proc[p].new.pte[proc[p].a] # None

(* allocuvm(): one page.  It does not look at what mappages() returns.     *)
Allocuvm(p) ==
    LET n == proc[p].a
    IN  /\ At(p, "allocuvm") /\ n < Pages(proc[p].hi)
        /\ ~ NoMemory /\ ~ Remap(p)
        /\ \/ MapPage(p, n)
           \/ /\ TableMissing(p, n)
              /\ proc' = [proc EXCEPT ![p].new.torn = @ \cup {n}, ![p].a = @ + 1]
              /\ leaked' = leaked \cup {kalloc}
              /\ freelist' = {}
              /\ UNCHANGED <<npage, calls, panicked>>

AllocuvmFailsKeeps(p) ==
    LET pr == proc[p] IN
    /\ At(p, "allocuvm") /\ pr.a < Pages(pr.hi) /\ NoMemory
    /\ \/ /\ pr.call # "sbrk"
          /\ Bad(p, {})
       \/ /\ pr.call = "sbrk"
          /\ UNCHANGED freelist
          /\ proc' = Back([proc EXCEPT ![p].pg = pr.new], p)
          /\ UNCHANGED <<npage, calls, leaked, panicked>>

(* Out of memory: deallocuvm() down to the old size; exec() then frees all *)
(* that it has built.                                                      *)
AllocuvmFails(p) ==
    LET pr == proc[p] IN
    /\ At(p, "allocuvm") /\ pr.a < Pages(pr.hi) /\ NoMemory
    /\ \/ /\ pr.call # "sbrk"
          /\ Bad(p, {})
       \/ /\ pr.call = "sbrk"
          /\ freelist' = freelist \cup Deallocated(pr.new, pr.old, pr.hi)
          /\ proc' = Back([proc EXCEPT ![p].pg = Unmapped(pr.new, pr.old, pr.hi)], p)
          /\ UNCHANGED <<npage, calls, leaked, panicked>>

AllocuvmEnds(p) ==
    /\ At(p, "allocuvm") /\ proc[p].a >= Pages(proc[p].hi)
    /\ proc' = CASE proc[p].call = "sbrk" ->
                      Back([proc EXCEPT ![p].pg = proc[p].new, ![p].sz = proc[p].hi], p)
                 [] proc[p].call = "exec" -> [proc EXCEPT ![p].pc = "loaduvm"]
                 [] proc[p].call = "stack" -> [proc EXCEPT ![p].pc = "args"]
    /\ UNCHANGED <<npage, freelist, calls, leaked, panicked>>

(* allocuvm() for a header, or for the two pages of the stack.  It returns *)
(* the larger size, and exec() takes a size of 0 for a failure.            *)
Allocating(p, call, seg, lo, newsz) ==
    LET hi == IF newsz < lo THEN lo ELSE newsz IN
    \/ /\ newsz >= KERNBASE \/ hi = 0
       /\ Bad(p, {})
    \/ /\ newsz < KERNBASE /\ hi # 0
       /\ proc' = [proc EXCEPT ![p].pc = "allocuvm", ![p].call = call, ![p].seg = seg,
                               ![p].old = lo, ![p].hi = hi, ![p].a = Pages(lo)]
       /\ UNCHANGED <<npage, freelist, calls, leaked, panicked>>

(* The sum of two addresses.                                               *)
Wrapped(n) == IF n < WORD THEN n ELSE n - WORD

(* The next program header, none left, or a file too short.  Nothing but   *)
(* the two sizes of a header is looked at.                                 *)
Segment(p) ==
    /\ At(p, "segment")
    /\ \/ \E h \in Headers :
             /\ h.memsz >= h.filesz
             /\ Allocating(p, "exec", h, proc[p].hi, Wrapped(h.vaddr + h.memsz))
       \/ Bad(p, {})
       \/ Goto(p, "stack") /\ UNCHANGED <<npage, freelist, calls, leaked, panicked>>

(* The pages that loaduvm() fills.  Under a table that is there it takes   *)
(* an entry of 0 for physical page 0, and goes on.                         *)
Filled(seg) ==
    {Wrapped(seg.vaddr + i) \div PGSIZE : i \in {j \in 0 .. seg.filesz - 1 : j % PGSIZE = 0}}
Loads(pg, n) == n \in Vpn /\ HasTable(pg, n)

(* loaduvm(), with a file that may be too short.                           *)
Loaduvm(p) ==
    LET seg == proc[p].seg
        new == proc[p].new
    IN  /\ At(p, "loaduvm") /\ seg.vaddr % PGSIZE = 0
        /\ \/ /\ seg.filesz > 0 /\ Loads(new, seg.vaddr \div PGSIZE)
              /\ Bad(p, {})
           \/ /\ \A n \in Filled(seg) : Loads(new, n)
              /\ Goto(p, "segment")
              /\ UNCHANGED <<npage, freelist, calls, leaked, panicked>>

Stack(p) ==
    LET lo == PGROUNDUP(proc[p].hi) IN
    /\ At(p, "stack")
    /\ Allocating(p, "stack", NoSegment, lo, lo + 2 * PGSIZE)

Clearpteu(pg, n) == [pg EXCEPT !.guard = @ \cup {n}]

(* copyout() to page n, by way of uva2ka().                                *)
Copyout(pg, n) == pg.pte[n] # None /\ n \notin pg.guard

(* The guard page and the arguments, which may not fit; the new image.     *)
Args(p) ==
    LET pr == proc[p]
        top == Pages(pr.hi) - 1
        image == Clearpteu(pr.new, top - 1)
    IN  /\ At(p, "args") /\ HasTable(pr.new, top - 1)
        /\ \/ Bad(p, {})
           \/ /\ Copyout(image, top)
              /\ freelist' = freelist \cup Freed(pr.pg)
              /\ proc' = Back([proc EXCEPT ![p].sz = pr.hi, ![p].pg = image], p)
              /\ UNCHANGED <<npage, calls, leaked, panicked>>

(* copyuvm(): one page; the copy is accessible whatever the original is.   *)
Copyuvm(p) ==
    LET n == proc[p].a
        pg == proc[p].pg
    IN  /\ At(p, "copyuvm") /\ n < Pages(proc[p].sz)
        /\ pg.pte[n] # None
        /\ \/ NoMemory /\ Bad(p, {})
           \/ ~ NoMemory /\ MapPage(p, n)
           \/ TableMissing(p, n) /\ Bad(p, {kalloc})

ForkEnds(p) ==
    LET q == proc[p].child IN
    /\ At(p, "copyuvm") /\ proc[p].a >= Pages(proc[p].sz)
    /\ proc' = [Back(proc, p) EXCEPT
                  ![q] = [UnusedProc EXCEPT !.st = "RUNNABLE", !.kstack = proc[q].kstack,
                            !.pg = proc[p].new, !.sz = proc[p].sz, !.pc = "user",
                            !.parent = p]]
    /\ UNCHANGED <<npage, freelist, calls, leaked, panicked>>

(* What vm.c takes for granted: a fresh place in mappages(), an aligned    *)
(* address in loaduvm(), a table under every page that loaduvm(),          *)
(* clearpteu() and copyuvm() look at, and pages to copy.  A header that    *)
(* reaches into the kernel's half, where loaduvm() writes over the kernel, *)
(* is not followed any further either.                                     *)
Fails(p) ==
    LET pr == proc[p] IN
    \/ Remap(p)
    \/ /\ At(p, "loaduvm")
       /\ \/ pr.seg.vaddr % PGSIZE # 0
          \/ \E n \in Filled(pr.seg) : ~ Loads(pr.new, n)
    \/ At(p, "args") /\ ~ HasTable(pr.new, Pages(pr.hi) - 2)
    \/ At(p, "copyuvm") /\ pr.a < Pages(pr.sz) /\ pr.pg.pte[pr.a] = None

VmPanic(p) == Fails(p) /\ Panic("vm")

Exit(p) ==
    /\ p # Initproc /\ Running /\ proc[p].pc \in {"user", "fault"}
    /\ proc' = [q \in Proc |->
                  IF q = p THEN [proc[p] EXCEPT !.st = "ZOMBIE", !.pc = "none"]
                  ELSE IF proc[q].parent = p THEN [proc[q] EXCEPT !.parent = Initproc]
                  ELSE proc[q]]
    /\ UNCHANGED <<npage, freelist, calls, leaked, panicked>>

Wait(p) ==
    /\ At(p, "user")
    /\ \E q \in Proc :
          /\ proc[q].parent = p /\ proc[q].st = "ZOMBIE"
          /\ freelist' = freelist \cup Freed(proc[q].pg) \cup {proc[q].kstack}
          /\ proc' = [proc EXCEPT ![q] = UnusedProc]
    /\ UNCHANGED <<npage, calls, leaked, panicked>>

Halted == ~ Running /\ UNCHANGED vars

(* inituvm() and userinit(): one process with one page.                    *)
Inituvm == Mapped([NoPgdir EXCEPT !.dir = 2, !.kern = 3], 0, 4, 5)

Userinit == [UnusedProc EXCEPT !.st = "RUNNABLE", !.pc = "user", !.kstack = 1,
                               !.sz = PGSIZE, !.pg = Inituvm]

Init ==
    /\ proc = [p \in Proc |-> IF p = Initproc THEN Userinit ELSE UnusedProc]
    /\ npage \in Sizes
    /\ freelist = Page \ 1 .. 5
    /\ calls = [p \in Proc |-> 0]
    /\ leaked = {}
    /\ panicked = ""

System(p) ==
    \/ \E n \in Sbrk : Grow(p, n) \/ Shrink(p, n)
    \/ Fork(p) \/ Allocproc(p) \/ Exec(p) \/ Setupkvm(p) \/ Kmap(p)
    \/ Allocuvm(p) \/ AllocuvmFails(p) \/ AllocuvmEnds(p)
    \/ Segment(p) \/ Loaduvm(p) \/ Stack(p) \/ Args(p)
    \/ Copyuvm(p) \/ ForkEnds(p) \/ VmPanic(p) \/ Exit(p) \/ Wait(p)

Next == (\E p \in Proc : System(p)) \/ Halted

Spec == Init /\ [][Next]_vars

-----------------------------------------------------------------------------
(* Properties                                                              *)

(* No page is in two entries of a table, or of a page directory.           *)
OnceIn(f) == \A x, y \in DOMAIN f : f[x] = f[y] /\ f[x] # None => x = y
OncePgdir(pg) ==
    /\ OnceIn(pg.pte) /\ OnceIn(pg.tab)
    /\ pg.dir = pg.kern => pg.dir = None
    /\ \A t \in DOMAIN pg.tab : pg.tab[t] \in {pg.dir, pg.kern} => pg.tab[t] = None
    /\ UserPages(pg) \cap TablePages(pg) = {}

(* The pages that a process holds.  During sbrk() its page directory is    *)
(* the one that allocuvm() works on.                                       *)
PagesOf(pg) == UserPages(pg) \cup TablePages(pg)
OwnPages(pr) == IF pr.call = "sbrk" THEN {} ELSE PagesOf(pr.pg)
StackPage(pr) == {pr.kstack} \ {None}
HeldBy(pr) == OwnPages(pr) \cup PagesOf(pr.new) \cup StackPage(pr)

(* Each of them at one place.                                              *)
HeldOnce(pr) ==
    /\ OncePgdir(pr.pg) /\ OncePgdir(pr.new)
    /\ OwnPages(pr) \cap PagesOf(pr.new) = {}
    /\ StackPage(pr) \cap (OwnPages(pr) \cup PagesOf(pr.new)) = {}

(* Every page is on the free list, held at exactly one place by exactly    *)
(* one process, or one of those that setupkvm(), allocuvm() and copyuvm()  *)
(* drop when a page-table page is missing: no error path of fork, exec and *)
(* sbrk, and no order of two of them, frees a page that is in use, frees   *)
(* one twice, or shares one.                                               *)
PagesOwned ==
    /\ freelist \cup leaked \cup UNION {HeldBy(proc[p]) : p \in Proc} = Page
    /\ freelist \cap leaked = {}
    /\ \A p \in Proc : HeldOnce(proc[p]) /\ HeldBy(proc[p]) \cap (freelist \cup leaked) = {}
    /\ \A p, q \in Proc : p # q => HeldBy(proc[p]) \cap HeldBy(proc[q]) = {}

(* In user mode a process has the pages below its size, except those for   *)
(* which allocuvm() ignored mappages(), and if there never were such pages *)
(* it has no others.  (deallocuvm() may skip pages in the table after a    *)
(* missing one.)                                                           *)
ImageExact ==
    \A p \in Proc : proc[p].pc = "user" =>
       LET pg == proc[p].pg IN
       /\ 0 .. Pages(proc[p].sz) - 1 \ pg.torn \subseteq Present(pg)
       /\ pg.torn = {} => Present(pg) \subseteq 0 .. Pages(proc[p].sz) - 1

(* A header that the linker makes: aligned, and not wrapping.              *)
WellFormed(seg) == seg.vaddr % PGSIZE = 0 /\ seg.vaddr + seg.memsz < WORD

(* The panics of vm.c stay silent as long as no address space was torn,    *)
(* but for that of loaduvm() on a header that is not aligned or that wraps *)
(* (exec() does not look): headers that overlap, lie below one another or  *)
(* have nothing to load, and memory that runs out anywhere, do not lead to *)
(* a page mapped twice or to one that is looked for and missing.           *)
PanicsOnlyTorn ==
    panicked # "" => \E p \in Proc :
       \/ proc[p].pg.torn \cup proc[p].new.torn # {}
       \/ proc[p].pc = "loaduvm" /\ ~ WellFormed(proc[p].seg)

=============================================================================
