------------------------------- MODULE MCMemory -------------------------------
(* TLC instance of Memory: pages of two bytes, and programs that load, that  *)
(* are cut off, that are not programs and whose arguments do not fit.        *)
EXTENDS Memory

MCPage == 1 .. 23
MCIncr == {3, -1, -9}

Text == [vaddr |-> 0, memsz |-> 2, filesz |-> 2, perm |-> {"x"}, val |-> 7, short |-> FALSE]
Data == [vaddr |-> 2, memsz |-> 3, filesz |-> 1, perm |-> {"w"}, val |-> 8, short |-> FALSE]
Prg(segs) == [segs |-> segs, elf |-> TRUE, fits |-> TRUE]

MCProgram == {
  Prg(<<Text, Data>>),
  Prg(<<Text, [Data EXCEPT !.short = TRUE]>>),
  [Prg(<<Text>>) EXCEPT !.fits = FALSE],
  Prg(<<Text, [Data EXCEPT !.vaddr = 3]>>),
  Prg(<<Text, [Data EXCEPT !.vaddr = UINT64 - PGSIZE]>>),
  [Prg(<<Text>>) EXCEPT !.elf = FALSE] }
==============================================================================
