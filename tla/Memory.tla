-------------------------------- MODULE Memory --------------------------------
(***************************************************************************)
(* The memory of processes: fork(), exec(), sbrk() and exit/wait as far as *)
(* they allocate, copy and free memory (kernel/proc.c, exec.c, sysfile.c,  *)
(* sysproc.c), over the operators of Vm.  A system call is one step; what  *)
(* the other CPUs do to the free list meanwhile is the number quota of     *)
(* pages they leave it.                                                    *)
(***************************************************************************)
EXTENDS Vm

CONSTANTS
  Proc,       \* slots of the process table
  Program,    \* executable files, see exec()
  Incr,       \* arguments of sbrk()
  UINT64,     \* addresses and sizes count modulo UINT64, 2^64
  USERSTACK,  \* pages of user stack, kernel/param.h
  NArgs,      \* numbers of arguments given to exec()
  Limit,      \* no process gets larger than this
  MaxCalls    \* length of a behaviour

VARIABLES
  mem,        \* physical memory
  proc,       \* pagetable, trapframe and sz of every slot, Nil if unused
  image,      \* what every process should see: contents and permissions by page
  calls       \* steps so far

vars == <<mem, proc, image, calls>>

NPages == Cardinality(Page)

(* allocproc() after a slot is found, freeproc(). *)
WithPagetable(pt, trapframe) ==
  IF pt.pt = Nil THEN [m |-> kfree(pt.m, trapframe), p |-> Nil]
  ELSE [m |-> pt.m, p |-> [pagetable |-> pt.pt, trapframe |-> trapframe, sz |-> 0]]
WithTrapframe(k) == IF k.pa = Nil THEN [m |-> k.m, p |-> Nil] ELSE WithPagetable(proc_pagetable(k.m, k.pa), k.pa)
allocproc(m) == WithTrapframe(kalloc(m))

(* Mutation: freeproc() forgets the trapframe. *)
freeprocLeak(m, p) == proc_freepagetable(m, p.pagetable, p.sz)

freeproc(m, p) == proc_freepagetable(kfree(m, p.trapframe), p.pagetable, p.sz)

(* kinit() and userinit(): all pages are free but those of the first process. *)
kinit == [free |-> Page, nfree |-> NPages, page |-> [g \in Page |-> Junk], quota |-> NPages, panic |-> FALSE]
UserPerm == {"r", "w", "x", "u"}
uvmfirst(k, pt) == mappages([k.m EXCEPT !.page[k.pa] = 1], pt, 0, k.pa, UserPerm).m

Init ==
  /\ \E a \in {allocproc(kinit)} :
       /\ mem = [uvmfirst(kalloc(a.m), a.p.pagetable) EXCEPT !.quota = 0]
       /\ proc = [p \in Proc |-> IF p = Min(Proc) THEN [a.p EXCEPT !.sz = PGSIZE] ELSE Nil]
  /\ image = [p \in Proc |-> IF p = Min(Proc) THEN <<[val |-> 1, perm |-> UserPerm]>> ELSE <<>>]
  /\ calls = 0

(* Memory as a system call finds it, and as it leaves it. *)
Enter(k) == [mem EXCEPT !.quota = k]
Leave(m) == mem' = [m EXCEPT !.quota = 0]

-----------------------------------------------------------------------------
Fork(p, q) ==
  /\ proc[p] # Nil /\ proc[q] = Nil
  /\ \E k \in 0 .. NPages : \E a \in {allocproc(Enter(k))} :
     \E c \in {IF a.p = Nil THEN [m |-> a.m, ok |-> FALSE]
               ELSE uvmcopy(a.m, proc[p].pagetable, a.p.pagetable, proc[p].sz)} :
       \/ /\ ~ c.ok
          /\ Leave(IF a.p = Nil THEN c.m ELSE freeproc(c.m, a.p)) /\ UNCHANGED <<proc, image>>
       \/ /\ c.ok
          /\ Leave(c.m)
          /\ proc' = [proc EXCEPT ![q] = [a.p EXCEPT !.sz = proc[p].sz]]
          /\ image' = [image EXCEPT ![q] = image[p]]

(* wait() reaps p: freeproc(). *)
Reap(p) ==
  /\ proc[p] # Nil /\ \E q \in Proc \ {p} : proc[q] # Nil
  /\ Leave(freeproc(mem, proc[p]))
  /\ proc' = [proc EXCEPT ![p] = Nil]
  /\ image' = [image EXCEPT ![p] = <<>>]

(* sys_sbrk() and growproc().  A negative n beyond sz wraps around to a size *)
(* uvmdealloc() takes for larger, and nothing happens.                       *)
growproc(m, pt, sz, n) ==
  IF n > 0 THEN uvmalloc(m, pt, sz, sz + n, {"w"}) ELSE uvmdealloc(m, pt, sz, (sz + n) % UINT64)
Resized(img, n) == [i \in 1 .. n |-> IF i <= Len(img) THEN img[i] ELSE [val |-> 0, perm |-> {"r", "w", "u"}]]

Sbrk(p, n) ==
  /\ proc[p] # Nil /\ proc[p].sz + n <= Limit
  /\ \E k \in 0 .. NPages : \E r \in {growproc(Enter(k), proc[p].pagetable, proc[p].sz, n)} :
       /\ Leave(r.m)
       /\ IF n > 0 /\ r.sz = 0 THEN UNCHANGED <<proc, image>>
          ELSE /\ proc' = [proc EXCEPT ![p].sz = r.sz]
               /\ image' = [image EXCEPT ![p] = Resized(@, PGROUNDUP(r.sz) \div PGSIZE)]

(* p stores its own mark at va. *)
Store(p, va) ==
  /\ proc[p] # Nil /\ va < proc[p].sz
  /\ \E pa \in {OutPage(mem, proc[p].pagetable, va)} \ {Nil} : mem' = [mem EXCEPT !.page[pa] = p]
  /\ image' = [image EXCEPT ![p][va \div PGSIZE + 1].val = p]
  /\ UNCHANGED proc

-----------------------------------------------------------------------------
(* A program: its segments (vaddr, memsz, filesz, the permissions flags2perm *)
(* gives, the contents val, whether the file is too short for it), whether   *)
(* it has an ELF header, and whether the arguments fit on the stack.         *)
Loaded(a, pt, s, sz) ==
  IF a.sz = 0 THEN [m |-> a.m, sz |-> sz, ok |-> FALSE]
  ELSE IF s.short THEN [m |-> a.m, sz |-> a.sz, ok |-> FALSE]
  ELSE [m |-> loadseg(a.m, pt, s.vaddr, s.filesz, s.val), sz |-> a.sz, ok |-> TRUE]
SegmentEnd(s) == (s.vaddr + s.memsz) % UINT64
LoadSegment(x, pt, s) ==
  IF ~ x.ok \/ s.memsz < s.filesz \/ SegmentEnd(s) < s.vaddr \/ s.vaddr % PGSIZE # 0
  THEN [x EXCEPT !.ok = FALSE]
  ELSE Loaded(uvmalloc(x.m, pt, x.sz, SegmentEnd(s), s.perm), pt, s, x.sz)
LoadSegs(m, pt, segs) ==
  FoldLeft(LAMBDA x, s : LoadSegment(x, pt, s), [m |-> m, sz |-> 0, ok |-> TRUE], segs)

Replaced(m, pt, sz, p) ==
  [m |-> proc_freepagetable(m, p.pagetable, p.sz), ok |-> TRUE, p |-> [p EXCEPT !.pagetable = pt, !.sz = sz]]
Failed(m, p) == [m |-> m, ok |-> FALSE, p |-> p]
Bad(m, pt, sz, p) == Failed(proc_freepagetable(m, pt, sz), p)

(* exec() with the new image complete: the old one goes only now. *)
Commit(m, pt, sz, p, fits) == IF fits THEN Replaced(m, pt, sz, p) ELSE Bad(m, pt, sz, p)

(* exec(): a new page table, the segments, a guard page and the stack. *)
WithStack(st, pt, base, p, prg) ==
  IF st.sz = 0 THEN Bad(st.m, pt, base, p) ELSE Commit(uvmclear(st.m, pt, base), pt, st.sz, p, prg.fits)
WithSegments(l, pt, p, prg) ==
  IF ~ l.ok THEN Bad(l.m, pt, l.sz, p)
  ELSE WithStack(uvmalloc(l.m, pt, PGROUNDUP(l.sz), PGROUNDUP(l.sz) + (USERSTACK + 1) * PGSIZE, {"w"}),
                 pt, PGROUNDUP(l.sz), p, prg)
WithNewTable(pt, p, prg) ==
  IF pt.pt = Nil THEN Failed(pt.m, p) ELSE WithSegments(LoadSegs(pt.m, pt.pt, prg.segs), pt.pt, p, prg)
exec(m, p, prg) == IF prg.elf THEN WithNewTable(proc_pagetable(m, p.trapframe), p, prg) ELSE Failed(m, p)

(* The image a program should get: every page has the permissions of the     *)
(* segment it was allocated for and the contents of the last segment that    *)
(* has file data in it; then the guard page and the stack.                   *)
Fresh(prg) ==
  LET n == Len(prg.segs)
      end[i \in 0 .. n] == IF i = 0 THEN 0
                           ELSE LET e == PGROUNDUP(prg.segs[i].vaddr + prg.segs[i].memsz) \div PGSIZE
                                IN IF e > end[i - 1] THEN e ELSE end[i - 1]
      Perm(g) == {"r", "u"} \cup prg.segs[Min({i \in 1 .. n : g <= end[i]})].perm
      Data(g) == {i \in 1 .. n : (g - 1) * PGSIZE >= prg.segs[i].vaddr
                                 /\ (g - 1) * PGSIZE < prg.segs[i].vaddr + prg.segs[i].filesz}
  IN [g \in 1 .. end[n] |-> [val |-> IF Data(g) = {} THEN 0 ELSE prg.segs[Max(Data(g))].val, perm |-> Perm(g)]]
     \o <<[val |-> 0, perm |-> {"r", "w"}]>>
     \o [g \in 1 .. USERSTACK |-> [val |-> 0, perm |-> {"r", "w", "u"}]]

(* sys_exec(): a page for every argument, freed again on every path. *)
ArgPage(x, k) == IF k.pa = Nil THEN [x EXCEPT !.ok = FALSE] ELSE [m |-> k.m, got |-> Append(x.got, k.pa), ok |-> TRUE]
Args(m, n) ==
  FoldLeft(LAMBDA x, i : IF x.ok THEN ArgPage(x, kalloc(x.m)) ELSE x,
           [m |-> m, got |-> <<>>, ok |-> TRUE], [i \in 1 .. n |-> i])

Exec(p, prg, n) ==
  /\ proc[p] # Nil
  /\ \E k \in 0 .. NPages : \E x \in {Args(Enter(k), n)} :
     \E e \in {IF x.ok THEN exec(x.m, proc[p], prg) ELSE Failed(x.m, proc[p])} :
       /\ Leave(FoldLeft(kfree, e.m, x.got))
       /\ proc' = [proc EXCEPT ![p] = e.p]
       /\ image' = IF e.ok THEN [image EXCEPT ![p] = Fresh(prg)] ELSE image

Next ==
  /\ calls < MaxCalls /\ calls' = calls + 1
  /\ \/ \E p, q \in Proc : Fork(p, q)
     \/ \E p \in Proc :
          \/ Reap(p)
          \/ \E n \in Incr : Sbrk(p, n)
          \/ \E va \in 0 .. Limit - 1 : Store(p, va)
          \/ \E prg \in Program, n \in NArgs : Exec(p, prg, n)

Spec == Init /\ [][Next]_vars

-----------------------------------------------------------------------------
(* The table pages and the user pages of a page table. *)
Nodes(pt) ==
  LET Kids(S) == UNION {{m.pa : m \in {mem.page[t][i] : i \in 0 .. FAN - 1} \ {Nil}} : t \in S}
  IN <<{pt}, Kids({pt}), Kids(Kids({pt}))>>
UserPage(p, g) == walk(mem, proc[p].pagetable, g * PGSIZE, FALSE).pte

(* No page is lost, freed twice or used twice, on any path of fork(),        *)
(* exec(), sbrk() and exit(), wherever memory runs out: the free pages, the  *)
(* table pages, the trapframes and the user pages of the processes are       *)
(* disjoint and are all pages, and nb_free_pages is the number of free ones. *)
PagesPartition ==
  LET live == {p \in Proc : proc[p] # Nil}
      tables(p) == UNION {Nodes(proc[p].pagetable)[i] : i \in 1 .. 3}
      user(p) == {UserPage(p, g).pa : g \in 0 .. Len(image[p]) - 1}
      own(p) == tables(p) \cup user(p) \cup {proc[p].trapframe}
  IN /\ mem.nfree = Cardinality(mem.free)
     /\ \A p \in live : Cardinality(own(p)) = Cardinality(tables(p)) + Len(image[p]) + 1
     /\ \A p, q \in live : p # q => own(p) \cap own(q) = {}
     /\ mem.free \cap UNION {own(p) : p \in live} = {}
     /\ mem.free \cup UNION {own(p) : p \in live} = Page

(* Every process sees exactly its own memory: the pages below p->sz, with    *)
(* the contents and permissions fork() copied, exec() loaded and sbrk()      *)
(* cleared, and no page beyond; a call that fails changes none of it.        *)
ImageExact ==
  \A p \in Proc : proc[p] # Nil =>
    /\ PGROUNDUP(proc[p].sz) = Len(image[p]) * PGSIZE
    /\ \A g \in 0 .. TRAPFRAME \div PGSIZE - 1 :
         IF g >= Len(image[p]) THEN UserPage(p, g) = Nil
         ELSE /\ UserPage(p, g).perm = image[p][g + 1].perm
              /\ mem.page[UserPage(p, g).pa] = image[p][g + 1].val

(* None of the panics of vm.c is reached: no remapping, no page missing in   *)
(* uvmunmap(), uvmcopy(), uvmclear() and loadseg(), no leaf in freewalk().   *)
NoPanic == ~ mem.panic

==============================================================================
