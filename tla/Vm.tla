---------------------------------- MODULE Vm ----------------------------------
(***************************************************************************)
(* Physical memory (kernel/kalloc.c) and page tables (kernel/vm.c, with    *)
(* proc_pagetable() of kernel/proc.c) as operators on a record m:          *)
(*   m.free   the pages on the free list (kalloc() hands out the least one: *)
(*            pages are interchangeable)                                   *)
(*   m.nfree  kmem.nb_free_pages                                           *)
(*   m.page   what every page holds: a page table, a value, or Junk        *)
(*   m.quota  how many more calls of kalloc() find a page: the others are  *)
(*            lost to the other CPUs                                       *)
(*   m.panic  the kernel has panicked                                      *)
(* An operation that returns a value gives a record with it and the new m. *)
(* Addresses are in bytes, pages in PGSIZE bytes; the tables have three    *)
(* levels of FAN entries.                                                  *)
(***************************************************************************)
EXTENDS Integers, Sequences, FiniteSets, SequencesExt, FiniteSetsExt, Functions

CONSTANTS Page, PGSIZE, FAN, Nil

ASSUME VmAssumption == PGSIZE \in Nat \ {0} /\ FAN \in Nat /\ FAN > 1 /\ IsFiniteSet(Page)

Junk == -1                        \* what kalloc() and kfree() fill a page with
Trampoline == "trampoline"        \* the page of trampoline.S, not kalloc()ed
MAXVA == FAN * FAN * FAN * PGSIZE
TRAMPOLINE == MAXVA - PGSIZE
TRAPFRAME == TRAMPOLINE - PGSIZE

PGROUNDUP(sz) == ((sz + PGSIZE - 1) \div PGSIZE) * PGSIZE
PX(level, va) == ((va \div PGSIZE) \div (IF level = 2 THEN FAN * FAN ELSE IF level = 1 THEN FAN ELSE 1)) % FAN
EmptyTable == [i \in 0 .. FAN - 1 |-> Nil]
PanicIf(b, m) == [m EXCEPT !.panic = @ \/ b]

-----------------------------------------------------------------------------
kfree(m, pa) ==
  [m EXCEPT !.page[pa] = Junk, !.free = @ \cup {pa}, !.nfree = @ + 1]

Taken(m, pa) ==
  [m |-> [m EXCEPT !.page[pa] = Junk, !.free = @ \ {pa}, !.nfree = @ - 1, !.quota = @ - 1], pa |-> pa]
kalloc(m) ==
  IF m.free = {} \/ m.quota = 0 THEN [m |-> m, pa |-> Nil]
  ELSE Taken(m, Min(m.free))

(* walk(): down a level, into the page of the next table; st.pt is Nil when  *)
(* there is none and alloc is FALSE, or no page for it.                      *)
NewTable(a, pt, i) ==
  IF a.pa = Nil THEN [m |-> a.m, pt |-> Nil]
  ELSE [m |-> [a.m EXCEPT !.page[a.pa] = EmptyTable, !.page[pt][i] = [pa |-> a.pa, perm |-> {}]], pt |-> a.pa]
Down(st, i, alloc) ==
  IF st.pt = Nil THEN st
  ELSE IF st.m.page[st.pt][i] # Nil THEN [st EXCEPT !.pt = st.m.page[st.pt][i].pa]
  ELSE IF alloc THEN NewTable(kalloc(st.m), st.pt, i)
  ELSE [st EXCEPT !.pt = Nil]

(* The entry for va: its table, its index and what it holds. *)
Found(st, i) == [m |-> st.m, pt |-> st.pt, i |-> i, pte |-> IF st.pt = Nil THEN Nil ELSE st.m.page[st.pt][i]]
walk(m, pt, va, alloc) ==
  Found(Down(Down([m |-> PanicIf(va >= MAXVA, m), pt |-> pt], PX(2, va), alloc), PX(1, va), alloc), PX(0, va))

(* The page behind an entry with the permissions perm, Nil without them. *)
PageIf(e, perm) == IF e = Nil THEN Nil ELSE IF perm \subseteq e.perm THEN e.pa ELSE Nil

(* walkaddr(): the page a user address is in. *)
walkaddr(m, pt, va) == IF va >= MAXVA THEN Nil ELSE PageIf(walk(m, pt, va, FALSE).pte, {"u"})

(* mappages() of one page; every caller maps one at a time. *)
Entered(w, pa, perm) ==
  IF w.pt = Nil THEN [m |-> w.m, ok |-> FALSE]
  ELSE [m |-> [PanicIf(w.pte # Nil, w.m) EXCEPT !.page[w.pt][w.i] = [pa |-> pa, perm |-> perm]], ok |-> TRUE]
mappages(m, pt, va, pa, perm) == Entered(walk(m, pt, va, TRUE), pa, perm)

(* uvmunmap() of n pages from va. *)
Pages(va, n) == [i \in 1 .. n |-> va + (i - 1) * PGSIZE]
UnmapOne(m, w, do_free) ==
  IF w.pte = Nil THEN PanicIf(TRUE, m)
  ELSE [IF do_free THEN kfree(m, w.pte.pa) ELSE m EXCEPT !.page[w.pt][w.i] = Nil]
uvmunmap(m, pt, va, n, do_free) ==
  FoldLeft(LAMBDA mm, a : UnmapOne(mm, walk(mm, pt, a, FALSE), do_free), m, Pages(va, n))

(* uvmcreate() *)
Cleared(a) == IF a.pa = Nil THEN a ELSE [a EXCEPT !.m.page[a.pa] = EmptyTable]
uvmcreate(m) == Cleared(kalloc(m))

uvmdealloc(m, pt, oldsz, newsz) ==
  IF newsz >= oldsz THEN [m |-> m, sz |-> oldsz]
  ELSE [m |-> uvmunmap(m, pt, PGROUNDUP(newsz), (PGROUNDUP(oldsz) - PGROUNDUP(newsz)) \div PGSIZE, TRUE),
        sz |-> newsz]

(* uvmalloc(): one page at a; when there is none, or none for its table, the *)
(* pages from oldsz up to it are given back.                                 *)
Undone(m, pt, a, oldsz) == [m |-> uvmdealloc(m, pt, a, oldsz).m, ok |-> FALSE]
Grown(mp, pa, pt, a, oldsz) == IF mp.ok THEN mp ELSE Undone(kfree(mp.m, pa), pt, a, oldsz)

(* Mutation: the new page is not cleared. *)
GrowDirty(k, pt, a, oldsz, perm) ==
  IF k.pa = Nil THEN Undone(k.m, pt, a, oldsz)
  ELSE Grown(mappages(k.m, pt, a, k.pa, perm), k.pa, pt, a, oldsz)

GrowOne(k, pt, a, oldsz, perm) ==
  IF k.pa = Nil THEN Undone(k.m, pt, a, oldsz)
  ELSE Grown(mappages([k.m EXCEPT !.page[k.pa] = 0], pt, a, k.pa, perm), k.pa, pt, a, oldsz)
Sized(st, sz) == [m |-> st.m, sz |-> IF st.ok THEN sz ELSE 0]
uvmalloc(m, pt, oldsz, newsz, xperm) ==
  IF newsz < oldsz THEN [m |-> m, sz |-> oldsz]
  ELSE Sized(FoldLeft(LAMBDA st, a : IF st.ok THEN GrowOne(kalloc(st.m), pt, a, PGROUNDUP(oldsz), {"r", "u"} \cup xperm)
                                     ELSE st,
                      [m |-> m, ok |-> TRUE],
                      Pages(PGROUNDUP(oldsz), (PGROUNDUP(newsz) - PGROUNDUP(oldsz)) \div PGSIZE)),
             newsz)

(* freewalk(): frees the tables below pt, level by level, and pt; a page     *)
(* still mapped is a panic.                                                  *)
FreeLeaf(m, pt) == kfree(PanicIf(\E i \in 0 .. FAN - 1 : m.page[pt][i] # Nil, m), pt)
FreeMiddle(m, pt) ==
  kfree(FoldFunction(LAMBDA e, mm : IF e = Nil THEN mm ELSE FreeLeaf(mm, e.pa), m, m.page[pt]), pt)
freewalk(m, pt) ==
  kfree(FoldFunction(LAMBDA e, mm : IF e = Nil THEN mm ELSE FreeMiddle(mm, e.pa), m, m.page[pt]), pt)

uvmfree(m, pt, sz) == freewalk(uvmunmap(m, pt, 0, PGROUNDUP(sz) \div PGSIZE, TRUE), pt)

(* uvmcopy(): one page; on failure the copies before it are given back. *)
CopyErr(m, new, i) == [m |-> uvmunmap(m, new, 0, i \div PGSIZE, TRUE), ok |-> FALSE]
Copied(mp, pa, new, i) == IF mp.ok THEN mp ELSE CopyErr(kfree(mp.m, pa), new, i)
CopyOne(m, e, k, new, i) ==
  IF e = Nil THEN [m |-> PanicIf(TRUE, m), ok |-> FALSE]
  ELSE IF k.pa = Nil THEN CopyErr(k.m, new, i)
  ELSE Copied(mappages([k.m EXCEPT !.page[k.pa] = m.page[e.pa]], new, i, k.pa, e.perm), k.pa, new, i)
uvmcopy(m, old, new, sz) ==
  FoldLeft(LAMBDA st, i : IF st.ok THEN CopyOne(st.m, walk(st.m, old, i, FALSE).pte, kalloc(st.m), new, i) ELSE st,
           [m |-> m, ok |-> TRUE], Pages(0, PGROUNDUP(sz) \div PGSIZE))

Guarded(m, w) == IF w.pte = Nil THEN PanicIf(TRUE, m) ELSE [m EXCEPT !.page[w.pt][w.i].perm = @ \ {"u"}]
uvmclear(m, pt, va) == Guarded(m, walk(m, pt, va, FALSE))

-----------------------------------------------------------------------------
(* proc_pagetable(): the table, the trampoline and the trapframe. *)
NoFrame(m, pt) == [m |-> uvmfree(uvmunmap(m, pt, TRAMPOLINE, 1, FALSE), pt, 0), pt |-> Nil]

NoTrampoline(m, pt) == [m |-> uvmfree(m, pt, 0), pt |-> Nil]

WithFrame(f, pt) == IF f.ok THEN [m |-> f.m, pt |-> pt] ELSE NoFrame(f.m, pt)
WithTrampoline(t, pt, trapframe) ==
  IF t.ok THEN WithFrame(mappages(t.m, pt, TRAPFRAME, trapframe, {"r", "w"}), pt) ELSE NoTrampoline(t.m, pt)
WithTable(c, trapframe) ==
  IF c.pa = Nil THEN [m |-> c.m, pt |-> Nil]
  ELSE WithTrampoline(mappages(c.m, c.pa, TRAMPOLINE, Trampoline, {"r", "x"}), c.pa, trapframe)
proc_pagetable(m, trapframe) == WithTable(uvmcreate(m), trapframe)

(* Mutation: the trapframe stays mapped. *)
FreeFramed(m, pt, sz) == uvmfree(uvmunmap(m, pt, TRAMPOLINE, 1, FALSE), pt, sz)

proc_freepagetable(m, pt, sz) ==
  uvmfree(uvmunmap(uvmunmap(m, pt, TRAMPOLINE, 1, FALSE), pt, TRAPFRAME, 1, FALSE), pt, sz)

(* copyout() of one byte: the page it goes to, or Nil for -1. *)
OutPage(m, pt, va) == IF va >= MAXVA THEN Nil ELSE PageIf(walk(m, pt, va, FALSE).pte, {"u", "w"})

(* loadseg(): the pages of filesz bytes at va get the contents val. *)
LoadOne(m, pa, val) == IF pa = Nil THEN PanicIf(TRUE, m) ELSE [m EXCEPT !.page[pa] = val]
loadseg(m, pt, va, filesz, val) ==
  FoldLeft(LAMBDA mm, a : LoadOne(mm, walkaddr(mm, pt, a), val), m, Pages(va, PGROUNDUP(filesz) \div PGSIZE))

==============================================================================
