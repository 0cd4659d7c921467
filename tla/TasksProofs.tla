------------------------------ MODULE TasksProofs ------------------------------
(***************************************************************************)
(* Proofs about Tasks, for any number of processes, descriptors, files and *)
(* pipes and whatever the programs do: a file's references and a pipe's    *)
(* ends are counted exactly, and nobody sleeps in a pipe without reason.   *)
(* Here fork(), pipeclose(), piperead() and pipewrite(); the other steps   *)
(* are in DescriptorProofs.                                                *)
(***************************************************************************)
EXTENDS DescriptorProofs

(* Most leaves are reasoning about sets; the ones that are not say so. *)
USE ZenonT(60)

-----------------------------------------------------------------------------
(* What fork() does to the files and the child's descriptors. *)
Copied(p, q) ==
  /\ file' \in [Ftable -> FileStruct] /\ ofile' \in [Proc -> [Fd -> Ftable \cup {Nil}]]
  /\ \A f \in Ftable :
       /\ file'[f].ref = file[f].ref + Cardinality({fd \in Fd : ofile[p][fd] = f})
       /\ file'[f].type = file[f].type /\ file'[f].pipe = file[f].pipe /\ file'[f].ip = file[f].ip
       /\ file'[f].readable = file[f].readable /\ file'[f].writable = file[f].writable
  /\ \A x \in Proc, d \in Fd : ofile'[x][d] = IF x = q THEN ofile[p][d] ELSE ofile[x][d]

(* filedup() for every descriptor of the parent: the counts grow with the    *)
(* child's copies, and no file changes its kind.                             *)
LEMMA CopiedFiles ==
  ASSUME TypeInv, CountInv, NEW p \in Proc, NEW q \in Proc, q # p, \A d \in Fd : ofile[q][d] = Nil, Copied(p, q)
  PROVE  CountInv' /\ KeptFiles /\ SameIsEnds /\ \A f \in Ftable : FileInv(f) => FileInv(f)'
<1>1. ASSUME NEW f \in Ftable PROVE file'[f].ref = Cardinality(Holders(f)')
  <2>1. \A d \in Fd : ofile[q][d] # f
    BY FileAssumption
  <2>2. Cardinality(Holders(f)') = Cardinality(Holders(f)) + Cardinality({fd \in Fd : ofile[p][fd] = f})
    BY <2>1, CopyHolders DEF Copied
  <2>3. file[f].ref = Cardinality(Holders(f))
    BY DEF CountInv
  <2>4. file'[f].ref = file[f].ref + Cardinality({fd \in Fd : ofile[p][fd] = f})
    BY DEF Copied
  <2> QED
    BY <2>2, <2>3, <2>4
<1>2. ASSUME NEW f \in Ftable PROVE file'[f].ref > 0 <=> file[f].ref > 0
  <2> DEFINE S == {fd \in Fd : ofile[p][fd] = f}
  <2>1. file'[f].ref = file[f].ref + Cardinality(S)
    BY DEF Copied
  <2>2. Cardinality(S) \in Nat
    <3>1. IsFiniteSet(Fd)
      BY FS_Interval, FileAssumption, SMTT(30) DEF Fd
    <3> QED
      BY <3>1, FS_Subset, FS_CardinalityType
  <2>3. file[f].ref = 0 => Cardinality(S) = 0
    <3>1. ASSUME file[f].ref = 0, NEW d \in S PROVE FALSE
      <4>1. <<p, d>> \in Holders(f)
        BY <3>1 DEF Holders
      <4> QED
        BY <3>1, <4>1, NoHolders
    <3>2. file[f].ref = 0 => S = {}
      BY <3>1
    <3> QED
      BY <3>2, FS_EmptySet
  <2>4. file[f].ref \in Nat
    BY DEF TypeInv, FileStruct
  <2> HIDE DEF S
  <2>5. file[f].ref + Cardinality(S) > 0 <=> file[f].ref > 0
    BY <2>2, <2>3, <2>4, SumPositive
  <2> QED
    BY <2>1, <2>5
<1>3. KeptFiles
  <2>1. \A x \in Proc, d \in Fd : ofile[x][d] # Nil => ofile'[x][d] = ofile[x][d]
    BY DEF Copied
  <2> QED
    BY <1>2, <2>1 DEF KeptFiles, Copied
<1>4. SameIsEnds
  <2>1. ASSUME NEW f \in Ftable, NEW pi \in Pipes, NEW w \in BOOLEAN PROVE IsEnd(f, pi, w)' <=> IsEnd(f, pi, w)
    BY <1>2 DEF IsEnd, Copied
  <2> QED
    BY <2>1 DEF SameIsEnds
<1>5. ASSUME NEW f \in Ftable, FileInv(f) PROVE FileInv(f)'
  BY <1>2, <1>5 DEF FileInv, Copied
<1> QED
  BY <1>1, <1>3, <1>4, <1>5 DEF CountInv

(* fork() copies the descriptors into an unused process. *)
LEMMA ForkKeeps ==
  ASSUME IInv, NEW p \in Proc, sys[p] # Nil, Plain(sys[p]), sys' = [sys EXCEPT ![p] = Nil],
         NEW q \in Proc, state[q] = "unused", state' = [state EXCEPT ![q] = "run"],
         killed' = [killed EXCEPT ![q] = FALSE], Copied(p, q),
         UNCHANGED <<pipe, plock, chan, content, kills>>
  PROVE  IInv'
<1>1. SysInv /\ Types /\ TypeInv /\ ContentInv /\ IdleInv /\ CountInv /\ EndInv /\ UserInv /\ LockInv /\ SleepInv
  BY DEF IInv, Types, PipeParts
<1>2. SysInv' /\ sys'[p] = Nil /\ \A x \in Proc : x # p => sys'[x] = sys[x]
  BY <1>1, SysSet
<1>3. q # p /\ \A d \in Fd : ofile[q][d] = Nil
  <2>1. state[p] = "run"
    BY <1>1, InSysRuns
  <2>2. state[q] # "run"
    OBVIOUS
  <2> QED
    BY <1>1, <2>1, <2>2 DEF IdleInv
<1>4. /\ state' \in [Proc -> {"unused", "run", "zombie"}] /\ \A x \in Proc : state'[x] # "run" => state[x] # "run" /\ x # q
      /\ killed' \in [Proc -> BOOLEAN] /\ \A x \in Proc : killed'[x] => killed[x]
  BY <1>1 DEF TypeInv
<1>5. TypeInv'
  BY <1>1, <1>4 DEF TypeInv, Copied
<1>6. ContentInv'
  BY <1>1 DEF ContentInv, Copied
<1>7. IdleInv'
  <2>1. ASSUME NEW x \in Proc, state'[x] # "run" PROVE sys'[x] = Nil /\ \A d \in Fd : ofile'[x][d] = Nil
    <3>1. state[x] # "run" /\ x # q
      BY <1>4, <2>1
    <3>2. sys[x] = Nil /\ \A d \in Fd : ofile[x][d] = Nil
      BY <1>1, <3>1 DEF IdleInv
    <3>3. sys'[x] = Nil
      BY <1>2, <3>2
    <3>4. \A d \in Fd : ofile'[x][d] = ofile[x][d]
      BY <3>1 DEF Copied
    <3> QED
      BY <3>2, <3>3, <3>4
  <2> QED
    BY <2>1 DEF IdleInv
<1>8. CountInv' /\ KeptFiles /\ SameIsEnds /\ \A f \in Ftable : FileInv(f) => FileInv(f)'
  BY <1>1, <1>3, CopiedFiles
<1>9. SameDrops /\ SameLoops
  <2>1. PlainStep
    BY <1>2, NilPlain DEF PlainStep
  <2> QED
    BY <2>1, PlainFrame
<1>10. EndInv'
  <2>1. SameFlags
    BY DEF SameFlags
  <2>2. \A f \in Ftable : FileInv(f)'
    BY <1>1, <1>8 DEF EndInv
  <2> QED
    BY <1>1, <1>8, <1>9, <2>1, <2>2, EndFrame
<1>11. UserInv'
  BY <1>1, <1>8, <1>9, KeptHasEnd, UserFrame DEF SameLoops
<1>12. LockInv' /\ SleepInv'
  BY <1>1, <1>4, <1>9, LockFrame, SleepFrame
<1> QED
  BY <1>2, <1>5, <1>6, <1>7, <1>8, <1>10, <1>11, <1>12 DEF IInv, Types, PipeParts

(* fork() *)
LEMMA SysForkKeeps == ASSUME IInv, NEW p \in Proc, SysFork(p) PROVE IInv'
<1> DEFINE slots == {x \in Proc : state[x] = "unused"}
           q == Least(slots)
           Copies(f) == Cardinality({fd \in Fd : ofile[p][fd] = f})
<1>1. sys[p] # Nil /\ sys[p].op = "fork" /\ Plain(sys[p])
  BY DEF SysFork, InSys, Plain
<1>2. UNCHANGED <<pipe, plock, chan, content, kills>>
  BY DEF SysFork, pipeVars
<1>3. CASE slots = {}
  <2>1. Return(p, -1) /\ UNCHANGED <<killed, file, ofile, state>>
    BY <1>3 DEF SysFork, treeVars
  <2> QED
    BY <1>1, <1>2, <2>1, ReturnKeeps
<1>4. CASE slots # {}
  <2>1. /\ state' = [state EXCEPT ![q] = "run"] /\ killed' = [killed EXCEPT ![q] = FALSE]
        /\ ofile' = [ofile EXCEPT ![q] = ofile[p]] /\ sys' = [sys EXCEPT ![p] = Nil]
        /\ file' = [f \in Ftable |-> [file[f] EXCEPT !.ref = @ + Copies(f)]]
    BY <1>4 DEF SysFork
  <2>2. q \in Proc /\ state[q] = "unused"
    <3>1. slots \in SUBSET Nat
      BY TasksAssumption
    <3>2. q \in slots
      BY <1>4, <3>1, LeastIn
    <3> QED
      BY <3>2
  <2> HIDE DEF q
  <2>3. TypeInv
    BY DEF IInv, Types
  <2>4. \A f : Copies(f) \in Nat
    <3>1. IsFiniteSet(Fd)
      BY FS_Interval, FileAssumption, SMTT(30) DEF Fd
    <3> QED
      BY <3>1, FS_Subset, FS_CardinalityType
  <2>5. ASSUME NEW f \in Ftable
        PROVE  /\ file'[f] \in FileStruct /\ file'[f].ref = file[f].ref + Copies(f)
               /\ file'[f].type = file[f].type /\ file'[f].pipe = file[f].pipe /\ file'[f].ip = file[f].ip
               /\ file'[f].readable = file[f].readable /\ file'[f].writable = file[f].writable
    <3> DEFINE c == Copies(f)
    <3>1. c \in Nat
      BY <2>4
    <3>2. file'[f] = [file[f] EXCEPT !.ref = @ + c]
      BY <2>1
    <3>3. file[f] \in FileStruct
      BY <2>3 DEF TypeInv
    <3> HIDE DEF c
    <3>4. /\ file'[f] \in FileStruct /\ file'[f].ref = file[f].ref + c
          /\ file'[f].type = file[f].type /\ file'[f].pipe = file[f].pipe /\ file'[f].ip = file[f].ip
          /\ file'[f].readable = file[f].readable /\ file'[f].writable = file[f].writable
      BY <3>1, <3>2, <3>3, SMTT(30) DEF FileStruct
    <3> QED
      BY <3>4 DEF c
  <2>6. file' \in [Ftable -> FileStruct]
    BY <2>1, <2>5
  <2>7. /\ ofile' \in [Proc -> [Fd -> Ftable \cup {Nil}]]
        /\ \A x \in Proc, d \in Fd : ofile'[x][d] = IF x = q THEN ofile[p][d] ELSE ofile[x][d]
    BY <2>1, <2>2, <2>3 DEF TypeInv
  <2>8. Copied(p, q)
    BY <2>5, <2>6, <2>7 DEF Copied
  <2> QED
    BY <1>1, <1>2, <2>1, <2>2, <2>8, ForkKeeps
<1> QED
  BY <1>3, <1>4

-----------------------------------------------------------------------------
(* What pipeclose() does to the pipe. *)
ClosedEnd(pi, w) ==
  /\ pipe' \in [Pipes -> PipeStruct \cup {Nil}] /\ \A x \in Pipes : x # pi => pipe'[x] = pipe[x]
  /\ IF IF w THEN pipe[pi].readopen ELSE pipe[pi].writeopen
       THEN /\ pipe'[pi] # Nil
            /\ pipe'[pi].writeopen = (pipe[pi].writeopen /\ ~ w)
            /\ pipe'[pi].readopen = (pipe[pi].readopen /\ w)
       ELSE pipe'[pi] = Nil

(* pipeclose() leaves the pipe with the other end, or frees it. *)
LEMMA CloseEnd ==
  ASSUME TypeInv, NEW p, NEW pi \in Pipes, NEW w \in BOOLEAN, pipe[pi] # Nil, PipeClose(p, pi, w)
  PROVE  ClosedEnd(pi, w)
<1> DEFINE q == IF w THEN [pipe[pi] EXCEPT !.writeopen = FALSE] ELSE [pipe[pi] EXCEPT !.readopen = FALSE]
           x == IF q.readopen \/ q.writeopen THEN q ELSE Nil
<1>1. pipe' = [pipe EXCEPT ![pi] = x]
  BY DEF PipeClose
<1>2. pipe \in [Pipes -> PipeStruct \cup {Nil}] /\ pipe[pi] \in PipeStruct
  BY DEF TypeInv
<1>3. /\ q \in PipeStruct
      /\ q.writeopen = (pipe[pi].writeopen /\ ~ w) /\ q.readopen = (pipe[pi].readopen /\ w)
  <2>1. CASE w = TRUE
    BY <1>2, <2>1 DEF PipeStruct
  <2>2. CASE w = FALSE
    BY <1>2, <2>2 DEF PipeStruct
  <2> QED
    BY <2>1, <2>2
<1>4. q # Nil
  BY <1>3, PipeAssumption
<1> HIDE DEF q
<1>5. pipe' \in [Pipes -> PipeStruct \cup {Nil}] /\ pipe'[pi] = x /\ \A y \in Pipes : y # pi => pipe'[y] = pipe[y]
  BY <1>1, <1>2, <1>3
<1>6. q.readopen \/ q.writeopen <=> IF w THEN pipe[pi].readopen ELSE pipe[pi].writeopen
  BY <1>3
<1> QED
  BY <1>3, <1>4, <1>5, <1>6 DEF ClosedEnd

(* The end that p closes was nowhere else. *)
LEMMA EndGone ==
  ASSUME EndInv, NEW p \in Proc, NEW pi \in Pipes, NEW w \in BOOLEAN, Drops(p, pi, w), ClosedEnd(pi, w),
         pipe[pi] # Nil, SameIsEnds, \A f \in Ftable : FileInv(f)',
         \A q \in Proc, x \in Pipes, v \in BOOLEAN : Drops(q, x, v)' <=> Drops(q, x, v) /\ q # p
  PROVE  EndInv'
<1>1. ASSUME NEW f \in Ftable, NEW x \in Pipes, NEW v \in BOOLEAN PROVE IsEnd(f, x, v)' <=> IsEnd(f, x, v)
  BY DEF SameIsEnds
<1>2. ASSUME NEW x \in Pipes, NEW v \in BOOLEAN, OneEnd(x, v) PROVE OneEnd(x, v)'
  <2>1. \A f \in Ftable : IsEnd(f, x, v)' => IsEnd(f, x, v)
    BY <1>1
  <2>2. \A q \in Proc : Drops(q, x, v)' => Drops(q, x, v)
    OBVIOUS
  <2> QED
    BY <1>2, <2>1, <2>2 DEF OneEnd
<1>3. ASSUME NEW x \in Pipes, NEW v \in BOOLEAN, x # pi \/ v # w PROVE EndOpen(x, v)' = EndOpen(x, v)
  <2>1. ~ Drops(p, x, v)
    BY <1>3 DEF Drops
  <2>2. EndOpen(x, v)' <=> EndOpen(x, v)
    BY <1>1, <2>1, EndOpenDef
  <2> QED
    BY <2>2 DEF EndOpen
<1>4. EndOpen(pi, w)' = FALSE
  <2>1. OneEnd(pi, w)
    BY DEF EndInv
  <2>2. \A f \in Ftable : ~ IsEnd(f, pi, w)
    BY <2>1 DEF OneEnd
  <2>3. \A q \in Proc : ~ Drops(q, pi, w)'
    BY <2>1 DEF OneEnd
  <2>4. ~ EndOpen(pi, w)'
    BY <1>1, <2>2, <2>3, EndOpenDef
  <2> QED
    BY <2>4 DEF EndOpen
<1>5. ASSUME NEW x \in Pipes, x # pi PROVE PageInv(x)'
  <2>1. EndOpen(x, TRUE)' = EndOpen(x, TRUE) /\ EndOpen(x, FALSE)' = EndOpen(x, FALSE)
    BY <1>3, <1>5
  <2>2. PageInv(x) /\ pipe'[x] = pipe[x]
    BY <1>5 DEF EndInv, ClosedEnd
  <2> QED
    BY <2>1, <2>2 DEF PageInv
<1>6. PageInv(pi)'
  <2>1. pipe[pi].writeopen = EndOpen(pi, TRUE) /\ pipe[pi].readopen = EndOpen(pi, FALSE)
    BY DEF EndInv, PageInv
  <2>2. CASE w = TRUE
    <3>1. EndOpen(pi, TRUE)' = FALSE /\ EndOpen(pi, FALSE)' = EndOpen(pi, FALSE)
      BY <1>3, <1>4, <2>2
    <3>2. CASE pipe[pi].readopen
      <4>1. pipe'[pi] # Nil /\ pipe'[pi].writeopen = FALSE /\ pipe'[pi].readopen = pipe[pi].readopen
        BY <2>1, <2>2, <3>2 DEF ClosedEnd, EndOpen
      <4> QED
        BY <2>1, <3>1, <4>1 DEF PageInv
    <3>3. CASE ~ pipe[pi].readopen
      BY <2>1, <2>2, <3>1, <3>3 DEF ClosedEnd, PageInv
    <3> QED
      BY <3>2, <3>3
  <2>3. CASE w = FALSE
    <3>1. EndOpen(pi, FALSE)' = FALSE /\ EndOpen(pi, TRUE)' = EndOpen(pi, TRUE)
      BY <1>3, <1>4, <2>3
    <3>2. CASE pipe[pi].writeopen
      <4>1. pipe'[pi] # Nil /\ pipe'[pi].readopen = FALSE /\ pipe'[pi].writeopen = pipe[pi].writeopen
        BY <2>1, <2>3, <3>2 DEF ClosedEnd, EndOpen
      <4> QED
        BY <2>1, <3>1, <4>1 DEF PageInv
    <3>3. CASE ~ pipe[pi].writeopen
      BY <2>1, <2>3, <3>1, <3>3 DEF ClosedEnd, PageInv
    <3> QED
      BY <3>2, <3>3
  <2> QED
    BY <2>2, <2>3
<1>7. ASSUME NEW x \in Pipes PROVE PageInv(x)' /\ OneEnd(x, TRUE)' /\ OneEnd(x, FALSE)'
  <2>1. OneEnd(x, TRUE) /\ OneEnd(x, FALSE)
    BY DEF EndInv
  <2> QED
    BY <1>2, <1>5, <1>6, <2>1
<1> QED
  BY <1>7 DEF EndInv

(* fileclose(), second half: nobody works on the end that goes, and who      *)
(* waits on the other side is woken.                                         *)
LEMMA FilePipeCloseKeeps == ASSUME IInv, NEW p \in Proc, FilePipeClose(p), UNCHANGED <<kills, state>> PROVE IInv'
<1> DEFINE pi == sys[p].pi
           w == sys[p].writable
           done == sys[p].done
<1>1. sys[p] # Nil /\ sys[p].op = "pipeclose" /\ PipeClose(p, pi, w) /\ sys' = [sys EXCEPT ![p] = done]
  BY DEF FilePipeClose, InSys
<1>2. UNCHANGED <<killed, file, ofile, content>>
  BY DEF FilePipeClose, fileVars
<1>3. SysInv /\ Types /\ TypeInv /\ ContentInv /\ IdleInv /\ CountInv /\ EndInv /\ UserInv /\ LockInv /\ SleepInv
  BY DEF IInv, Types, PipeParts
<1>4. sys[p] \in [op : {"pipeclose"}, pi : Pipes, writable : BOOLEAN, done : {Nil, [op |-> "exit"]}]
  BY <1>1, <1>3, InSysShape DEF Shaped, Closing
<1>5. pi \in Pipes /\ w \in BOOLEAN /\ done \in {Nil, [op |-> "exit"]}
  BY <1>4
<1>6. Plain(done) /\ (done # Nil => Known(done))
  BY <1>5, DonePlain
<1>7. SysInv' /\ sys'[p] = done /\ \A q \in Proc : q # p => sys'[q] = sys[q]
  BY <1>1, <1>3, <1>6, SysSet
<1>8. Drops(p, pi, w)
  BY <1>1 DEF Drops
<1>9. PICK c \in Pipes, v \in BOOLEAN : c = pi /\ v = w
  BY <1>5
<1>10. Drops(p, c, v) /\ PipeClose(p, c, v)
  BY <1>1, <1>8, <1>9
<1>11. OneEnd(c, v) /\ PageInv(c)
  BY <1>3 DEF EndInv
<1>12. pipe[c] # Nil
  <2>1. EndOpen(c, v)
    BY <1>10, EndOpenDef
  <2> QED
    BY <1>11, <2>1 DEF PageInv
<1>13. ClosedEnd(c, v)
  BY <1>3, <1>10, <1>12, CloseEnd
<1>14. /\ chan' = [q \in Proc |-> IF chan[q] = <<c, IF v THEN "nread" ELSE "nwrite">> THEN Nil ELSE chan[q]]
       /\ plock' = plock /\ Locked(p, c)
  BY <1>10 DEF PipeClose, Wakeup
<1> HIDE DEF pi, w, done
<1>15. TypeInv'
  <2>1. chan' \in [Proc -> (Pipes \X {"nread", "nwrite"}) \cup {Nil}]
    BY <1>3, <1>14 DEF TypeInv
  <2> QED
    BY <1>2, <1>3, <1>13, <1>14, <2>1 DEF TypeInv, ClosedEnd
<1>16. ContentInv'
  BY <1>2, <1>3 DEF ContentInv
<1>17. IdleInv'
  <2>1. state[p] = "run"
    BY <1>1, <1>3, InSysRuns
  <2> QED
    BY <1>2, <1>3, <1>7, <2>1 DEF IdleInv
<1>18. CountInv'
  BY <1>2, <1>3, CountFrame
<1>19. SameEnds
  BY <1>2 DEF SameEnds
<1>20. EndInv'
  <2>1. ASSUME NEW q \in Proc, NEW x \in Pipes, NEW u \in BOOLEAN PROVE Drops(q, x, u)' <=> Drops(q, x, u) /\ q # p
    <3>1. CASE q = p
      BY <1>6, <1>7, <3>1 DEF Drops, Plain
    <3>2. CASE q # p
      BY <1>7, <3>2 DEF Drops
    <3> QED
      BY <3>1, <3>2
  <2> QED
    BY <1>3, <1>10, <1>12, <1>13, <1>19, <2>1, SameFiles, EndGone
<1>21. SameLoops
  <2>1. ASSUME NEW q \in Proc, NEW x \in Pipes
        PROVE  /\ Reads(q, x)' <=> Reads(q, x)
               /\ Writes(q, x)' <=> Writes(q, x)
               /\ Reads(q, x) => sys'[q].copy = sys[q].copy
    <3>1. CASE q = p
      BY <1>1, <1>6, <1>7, <3>1 DEF Reads, Writes, Plain
    <3>2. CASE q # p
      BY <1>7, <3>2 DEF Reads, Writes
    <3> QED
      BY <3>1, <3>2
  <2> QED
    BY <2>1 DEF SameLoops
<1>22. UserInv'
  BY <1>2, <1>3, <1>19, <1>21, SameHasEnd, UserFrame DEF SameLoops
<1>23. LockInv'
  BY <1>3, <1>14, <1>21, LockWake
<1>24. SleepInv'
  <2>1. ASSUME NEW x \in Pipes, NEW k \in {"nread", "nwrite"}, NEW q \in Proc, chan'[q] = <<x, k>>
        PROVE  chan[q] = <<x, k>> /\ <<x, k>> # <<c, IF v THEN "nread" ELSE "nwrite">>
    BY <1>14, <2>1, NilChan
  <2>2. ASSUME NEW x \in Pipes, ReasonInv(x), x # c PROVE ReasonInv(x)'
    <3>1. pipe'[x] = pipe[x]
      BY <1>13, <2>2 DEF ClosedEnd
    <3>2. ASSUME NEW k \in {"nread", "nwrite"}, Asleep(x, k)' PROVE Asleep(x, k)
      BY <2>1, <3>2 DEF Asleep
    <3> QED
      BY <1>14, <1>21, <2>2, <3>1, <3>2 DEF ReasonInv, SameLoops, Empty, Full
  <2>3. ASSUME NEW q \in Proc, HasEnd(q, c, v) PROVE FALSE
    BY <1>10, <1>11, <2>3 DEF HasEnd, OneEnd
  <2>4. ~ Asleep(c, "nread")'
    <3>1. ASSUME NEW q \in Proc, chan'[q] = <<c, "nread">> PROVE FALSE
      <4>1. chan[q] = <<c, "nread">> /\ v = FALSE
        BY <2>1, <3>1
      <4>2. Reads(q, c)
        BY <1>3, <4>1 DEF LockInv
      <4> QED
        BY <1>3, <2>3, <4>1, <4>2 DEF UserInv
    <3> QED
      BY <3>1 DEF Asleep
  <2>5. ~ Asleep(c, "nwrite")'
    <3>1. ASSUME NEW q \in Proc, chan'[q] = <<c, "nwrite">> PROVE FALSE
      <4>1. chan[q] = <<c, "nwrite">> /\ v = TRUE
        BY <2>1, <3>1
      <4>2. Writes(q, c)
        BY <1>3, <4>1 DEF LockInv
      <4> QED
        BY <1>3, <2>3, <4>1, <4>2 DEF UserInv
    <3> QED
      BY <3>1 DEF Asleep
  <2>6. \A q \in Proc : plock'[c] # q
    <3>1. ~ Reads(p, c) /\ ~ Writes(p, c)
      BY <1>1 DEF Reads, Writes
    <3>2. plock[c] # p
      BY <1>3, <3>1 DEF LockInv
    <3> QED
      BY <1>14, <3>2, PipeAssumption DEF Locked
  <2>7. ReasonInv(c)'
    BY <2>4, <2>5, <2>6 DEF ReasonInv
  <2> QED
    BY <1>2, <1>3, <2>2, <2>7 DEF SleepInv
<1> QED
  BY <1>7, <1>15, <1>16, <1>17, <1>18, <1>20, <1>22, <1>23, <1>24 DEF IInv, Types, PipeParts

-----------------------------------------------------------------------------
(* A step of p in the loop of piperead() or pipewrite() on c, which leaves   *)
(* the lock to h.                                                            *)
InLoop(p, c) == sys[p] # Nil /\ sys[p].op \in {"piperead", "pipewrite"} /\ sys[p].pi = c /\ chan[p] = Nil /\ Locked(p, c)
StepSys(p, c) ==
  /\ SysInv' /\ \A q \in Proc : q # p => sys'[q] = sys[q]
  /\ sys'[p] # Nil => sys'[p].op = sys[p].op /\ sys'[p].pi = c
StepPipe(c) ==
  /\ pipe' \in [Pipes -> PipeStruct \cup {Nil}] /\ \A x \in Pipes : x # c => pipe'[x] = pipe[x]
  /\ pipe'[c] # Nil /\ pipe'[c].readopen = pipe[c].readopen /\ pipe'[c].writeopen = pipe[c].writeopen
StepChan(p, c) ==
  /\ chan' \in [Proc -> (Pipes \X {"nread", "nwrite"}) \cup {Nil}]
  /\ \A q \in Proc : q # p => chan'[q] \in {chan[q], Nil}
  /\ \/ chan'[p] = Nil
     \/ chan'[p] = <<c, "nread">> /\ Reads(p, c)' /\ ~ sys'[p].copy
     \/ chan'[p] = <<c, "nwrite">> /\ Writes(p, c)'
StepLock(p, c, h) ==
  /\ plock' = [plock EXCEPT ![c] = h]
  /\ h = p => chan'[p] = Nil /\ (Writes(p, c)' \/ (Reads(p, c)' /\ sys'[p].copy))

(* Who has pi->lock and who sleeps is in its loop after a step, too. *)
LEMMA LoopLock ==
  ASSUME LockInv, TypeInv, NEW p \in Proc, NEW c \in Pipes, InLoop(p, c), NEW h \in {Nil, p},
         StepSys(p, c), StepChan(p, c), StepLock(p, c, h)
  PROVE  LockInv' /\ \A x \in Pipes : x # c => plock'[x] = plock[x] /\ plock[x] # p
<1>1. plock'[c] = h /\ \A x \in Pipes : x # c => plock'[x] = plock[x]
  BY DEF TypeInv, StepLock
<1>2. \A x \in Pipes : x # c => plock[x] # p
  BY DEF LockInv, InLoop, Reads, Writes
<1>3. ASSUME NEW q \in Proc, q # p, NEW x \in Pipes
      PROVE  (Reads(q, x)' <=> Reads(q, x)) /\ (Writes(q, x)' <=> Writes(q, x)) /\ sys'[q].copy = sys[q].copy
  BY <1>3 DEF StepSys, Reads, Writes
<1>4. ASSUME NEW x \in Pipes, NEW q \in Proc, plock'[x] = q
      PROVE  chan'[q] = Nil /\ (Writes(q, x)' \/ (Reads(q, x)' /\ sys'[q].copy))
  <2>1. CASE x = c
    <3>1. q = p /\ h = p
      BY <1>1, <1>4, <2>1, PipeAssumption
    <3> QED
      BY <2>1, <3>1 DEF StepLock
  <2>2. CASE x # c
    <3>1. plock[x] = q /\ q # p
      BY <1>1, <1>2, <1>4, <2>2
    <3>2. chan[q] = Nil /\ (Writes(q, x) \/ (Reads(q, x) /\ sys[q].copy))
      BY <3>1 DEF LockInv
    <3>3. chan'[q] = Nil
      BY <3>1, <3>2 DEF StepChan
    <3> QED
      BY <1>3, <3>1, <3>2, <3>3
  <2> QED
    BY <2>1, <2>2
<1>5. ASSUME NEW q \in Proc, NEW x \in Pipes
      PROVE  /\ chan'[q] = <<x, "nread">> => Reads(q, x)' /\ ~ sys'[q].copy
             /\ chan'[q] = <<x, "nwrite">> => Writes(q, x)'
  <2>1. <<x, "nread">> # Nil /\ <<x, "nwrite">> # Nil
    BY NilChan
  <2>2. CASE q = p
    <3>1. <<c, "nread">> = <<x, "nread">> => x = c
      OBVIOUS
    <3>2. <<c, "nwrite">> = <<x, "nwrite">> => x = c
      OBVIOUS
    <3>3. <<c, "nread">> # <<x, "nwrite">> /\ <<c, "nwrite">> # <<x, "nread">>
      OBVIOUS
    <3>4. CASE chan'[p] = Nil
      BY <2>1, <2>2, <3>4
    <3>5. CASE chan'[p] = <<c, "nread">> /\ Reads(p, c)' /\ ~ sys'[p].copy
      BY <2>2, <3>1, <3>3, <3>5
    <3>6. CASE chan'[p] = <<c, "nwrite">> /\ Writes(p, c)'
      BY <2>2, <3>2, <3>3, <3>6
    <3> QED
      BY <3>4, <3>5, <3>6 DEF StepChan
  <2>3. CASE q # p
    <3>1. chan'[q] = chan[q] \/ chan'[q] = Nil
      BY <2>3 DEF StepChan
    <3>2. /\ chan[q] = <<x, "nread">> => Reads(q, x) /\ ~ sys[q].copy
          /\ chan[q] = <<x, "nwrite">> => Writes(q, x)
      BY DEF LockInv
    <3> QED
      BY <1>3, <2>1, <2>3, <3>1, <3>2
  <2> QED
    BY <2>2, <2>3
<1> QED
  BY <1>1, <1>2, <1>4, <1>5 DEF LockInv

(* A step of the loop keeps the invariant if it leaves the sleepers of its   *)
(* pipe a reason.                                                            *)
LEMMA LoopKeeps ==
  ASSUME IInv, NEW p \in Proc, NEW c \in Pipes, InLoop(p, c), NEW h \in {Nil, p},
         StepSys(p, c), StepPipe(c), StepChan(p, c), StepLock(p, c, h),
         UNCHANGED <<file, ofile, content, state>>,
         killed' \in [Proc -> BOOLEAN], kills' \in Nat, kills' = 0 => kills = 0 /\ killed' = killed,
         kills' = 0 /\ ReasonInv(c) /\ (\A q \in Proc : ~ killed[q]) => ReasonInv(c)'
  PROVE  IInv'
<1>1. SysInv /\ Types /\ TypeInv /\ ContentInv /\ IdleInv /\ CountInv /\ EndInv /\ UserInv /\ LockInv /\ SleepInv
  BY DEF IInv, Types, PipeParts
<1>2. TypeInv'
  <2>1. plock' \in [Pipes -> Proc \cup {Nil}]
    BY <1>1 DEF TypeInv, StepLock
  <2> QED
    BY <1>1, <2>1 DEF TypeInv, StepPipe, StepChan
<1>3. ContentInv'
  BY <1>1 DEF ContentInv
<1>4. IdleInv'
  <2>1. state[p] = "run"
    BY <1>1, InSysRuns DEF InLoop
  <2> QED
    BY <1>1, <2>1 DEF IdleInv, StepSys
<1>5. SameEnds
  BY DEF SameEnds
<1>6. CountInv'
  BY <1>1, CountFrame
<1>7. EndInv'
  <2>1. SameDrops
    <3>1. ASSUME NEW q \in Proc, NEW x \in Pipes, NEW w \in BOOLEAN PROVE Drops(q, x, w)' <=> Drops(q, x, w)
      <4>1. CASE q = p
        BY <4>1 DEF Drops, StepSys, InLoop
      <4>2. CASE q # p
        BY <4>2 DEF Drops, StepSys
      <4> QED
        BY <4>1, <4>2
    <3> QED
      BY <3>1 DEF SameDrops
  <2>2. pipe[c] # Nil
    <3>1. Reads(p, c) \/ Writes(p, c)
      BY DEF InLoop, Reads, Writes
    <3> QED
      BY <3>1, LoopOpen
  <2>3. SameFlags
    BY <2>2 DEF SameFlags, StepPipe
  <2> QED
    BY <1>1, <1>5, <2>1, <2>3, EndFrame, SameFiles
<1>8. UserInv'
  <2>1. ASSUME NEW q \in Proc, NEW x \in Pipes PROVE (Reads(q, x)' => Reads(q, x)) /\ (Writes(q, x)' => Writes(q, x))
    <3>1. CASE q = p
      BY <3>1 DEF Reads, Writes, StepSys, InLoop
    <3>2. CASE q # p
      BY <3>2 DEF Reads, Writes, StepSys
    <3> QED
      BY <3>1, <3>2
  <2> QED
    BY <1>1, <1>5, <2>1, SameHasEnd, UserFrame
<1>9. LockInv' /\ \A x \in Pipes : x # c => plock'[x] = plock[x] /\ plock[x] # p
  BY <1>1, LoopLock
<1>10. SleepInv'
  <2>1. ASSUME NEW x \in Pipes, ReasonInv(x), x # c PROVE ReasonInv(x)'
    <3>1. pipe'[x] = pipe[x] /\ plock'[x] = plock[x] /\ plock[x] # p
      BY <1>9, <2>1 DEF StepPipe
    <3>2. ASSUME NEW k \in {"nread", "nwrite"}, Asleep(x, k)' PROVE Asleep(x, k)
      <4>1. PICK q \in Proc : chan'[q] = <<x, k>>
        BY <3>2 DEF Asleep
      <4>2. <<x, k>> # Nil /\ <<x, k>> # <<c, "nread">> /\ <<x, k>> # <<c, "nwrite">>
        BY <2>1, NilChan
      <4>3. q # p /\ chan[q] = <<x, k>>
        BY <4>1, <4>2 DEF StepChan
      <4> QED
        BY <4>3 DEF Asleep
    <3>3. \A q \in Proc : plock'[x] = q /\ Reads(q, x)' => plock[x] = q /\ Reads(q, x)
      BY <3>1 DEF StepSys, Reads
    <3>4. \A q \in Proc : plock'[x] = q /\ Writes(q, x)' => plock[x] = q /\ Writes(q, x)
      BY <3>1 DEF StepSys, Writes
    <3> QED
      BY <2>1, <3>1, <3>2, <3>3, <3>4 DEF ReasonInv, Empty, Full
  <2> QED
    BY <1>1, <2>1 DEF SleepInv
<1> QED
  BY <1>2, <1>3, <1>4, <1>6, <1>7, <1>8, <1>9, <1>10 DEF IInv, Types, PipeParts, StepSys

(* What every step of the two loops starts from. *)
LEMMA LoopCall ==
  ASSUME IInv, NEW p \in Proc, NEW op \in {"piperead", "pipewrite"}, InSys(p, op), Locked(p, sys[p].pi)
  PROVE  /\ sys[p].pi \in Pipes /\ InLoop(p, sys[p].pi) /\ pipe[sys[p].pi] \in PipeStruct
         /\ plock[sys[p].pi] # Nil => plock[sys[p].pi] = p
         /\ op = "piperead" => /\ Reads(p, sys[p].pi) /\ ~ Writes(p, sys[p].pi)
                               /\ sys[p] \in [op : {"piperead"}, pi : Pipes, n : Int, room : Int,
                                              got : Seq(Byte \cup {Nil}), copy : BOOLEAN]
         /\ op = "pipewrite" => /\ Writes(p, sys[p].pi) /\ ~ Reads(p, sys[p].pi)
                                /\ sys[p] \in [op : {"pipewrite"}, pi : Pipes, bytes : Seq(Byte \cup {Nil}), n : Int]
<1>1. Types /\ TypeInv
  BY DEF IInv, Types
<1>2. sys[p] # Nil /\ sys[p].op = op /\ chan[p] = Nil
  BY DEF InSys
<1>3. Shaped(sys[p])
  BY <1>1, <1>2, InSysShape
<1>4. /\ op = "piperead" => sys[p] \in [op : {"piperead"}, pi : Pipes, n : Int, room : Int,
                                        got : Seq(Byte \cup {Nil}), copy : BOOLEAN]
      /\ op = "pipewrite" => sys[p] \in [op : {"pipewrite"}, pi : Pipes, bytes : Seq(Byte \cup {Nil}), n : Int]
  BY <1>2, <1>3 DEF Shaped
<1>5. sys[p].pi \in Pipes
  <2>1. CASE op = "piperead"
    BY <1>4, <2>1
  <2>2. CASE op = "pipewrite"
    BY <1>4, <2>2
  <2> QED
    BY <2>1, <2>2
<1>6. InLoop(p, sys[p].pi)
  BY <1>2 DEF InLoop
<1>7. /\ op = "piperead" => Reads(p, sys[p].pi) /\ ~ Writes(p, sys[p].pi)
      /\ op = "pipewrite" => Writes(p, sys[p].pi) /\ ~ Reads(p, sys[p].pi)
  BY <1>2 DEF Reads, Writes
<1>8. pipe[sys[p].pi] # Nil
  BY <1>5, <1>7, LoopOpen
<1>9. pipe[sys[p].pi] \in PipeStruct
  <2>1. pipe \in [Pipes -> PipeStruct \cup {Nil}]
    BY <1>1 DEF TypeInv
  <2>2. pipe[sys[p].pi] \in PipeStruct \cup {Nil}
    BY <1>5, <2>1
  <2> QED
    BY <1>8, <2>2
<1>10. plock[sys[p].pi] # Nil => plock[sys[p].pi] = p
  BY DEF Locked
<1> QED
  BY <1>4, <1>5, <1>6, <1>7, <1>9, <1>10

(* The same pipe after the step. *)
LEMMA SamePipe ==
  ASSUME IInv, NEW c \in Pipes, pipe[c] \in PipeStruct, pipe' = pipe
  PROVE  StepPipe(c)
<1>1. pipe[c] # Nil
  BY PipeAssumption
<1> QED
  BY <1>1 DEF IInv, Types, TypeInv, StepPipe

(* The call of p returns, or nothing becomes of it. *)
LEMMA LoopReturn ==
  ASSUME IInv, NEW p \in Proc, NEW c, sys' = [sys EXCEPT ![p] = Nil]
  PROVE  StepSys(p, c) /\ \A x : ~ Reads(p, x)' /\ ~ Writes(p, x)'
<1>1. SysInv
  BY DEF IInv, Types
<1>2. SysInv' /\ sys'[p] = Nil /\ \A q \in Proc : q # p => sys'[q] = sys[q]
  BY <1>1, SysSet
<1> QED
  BY <1>2 DEF StepSys, Reads, Writes

(* The call of p goes to sleep where it is. *)
LEMMA LoopStays ==
  ASSUME IInv, NEW p \in Proc, NEW c, InLoop(p, c), sys' = sys
  PROVE  StepSys(p, c) /\ \A x : (Reads(p, x)' <=> Reads(p, x)) /\ (Writes(p, x)' <=> Writes(p, x))
<1>1. SysInv'
  BY DEF IInv, Types, SysInv
<1> QED
  BY <1>1 DEF StepSys, InLoop, Reads, Writes

(* wakeup() of the one side, and the sleepers of the other. *)
LEMMA WakeChan ==
  ASSUME IInv, NEW c \in Pipes, NEW k \in {"nread", "nwrite"}, chan' = Wakeup(<<c, k>>)
  PROVE  /\ chan' \in [Proc -> (Pipes \X {"nread", "nwrite"}) \cup {Nil}]
         /\ \A q \in Proc : chan'[q] \in {chan[q], Nil}
         /\ ~ Asleep(c, k)' /\ \A j \in {"nread", "nwrite"} : Asleep(c, j)' => Asleep(c, j)
<1>1. chan \in [Proc -> (Pipes \X {"nread", "nwrite"}) \cup {Nil}]
  BY DEF IInv, Types, TypeInv
<1>2. /\ chan' \in [Proc -> (Pipes \X {"nread", "nwrite"}) \cup {Nil}]
      /\ \A q \in Proc : chan'[q] = IF chan[q] = <<c, k>> THEN Nil ELSE chan[q]
  BY <1>1 DEF Wakeup
<1>3. ASSUME NEW j \in {"nread", "nwrite"}, NEW q \in Proc, chan'[q] = <<c, j>> PROVE chan[q] = <<c, j>> /\ j # k
  <2>1. <<c, j>> # Nil
    BY NilChan
  <2> QED
    BY <1>2, <1>3, <2>1
<1> QED
  BY <1>2, <1>3 DEF Asleep

(* What goes with a step of p in a pipe: nothing outside the pipe changes,   *)
(* save that a kill() can come in (KillLate()).                              *)
KillMay == /\ UNCHANGED <<file, ofile, content, state>>
           /\ killed' \in [Proc -> BOOLEAN] /\ kills' \in Nat
           /\ kills' = 0 => kills = 0 /\ killed' = killed
SleepersRight(c) ==
  /\ Asleep(c, "nread") => Empty(c) /\ pipe[c].writeopen
  /\ Asleep(c, "nwrite") => Full(c) /\ pipe[c].readopen

(* A step that ends with release(&pi->lock), or with sleep(), which releases *)
(* it: who sleeps then must have the reason that the state shows.            *)
LEMMA LoopReleases ==
  ASSUME IInv, NEW p \in Proc, NEW c \in Pipes, InLoop(p, c), StepSys(p, c), StepPipe(c), StepChan(p, c),
         plock' = [plock EXCEPT ![c] = Nil], KillMay,
         ReasonInv(c) /\ (\A q \in Proc : ~ killed[q]) => SleepersRight(c)'
  PROVE  IInv'
<1>1. StepLock(p, c, Nil)
  BY PipeAssumption DEF StepLock
<1>2. plock'[c] = Nil
  BY DEF IInv, Types, TypeInv
<1>3. ReasonInv(c) /\ (\A q \in Proc : ~ killed[q]) => ReasonInv(c)'
  <2>1. \A q \in Proc : plock'[c] # q
    BY <1>2, PipeAssumption
  <2> QED
    BY <2>1 DEF SleepersRight, ReasonInv
<1> QED
  BY <1>1, <1>3, LoopKeeps DEF KillMay

(* A step that keeps the lock: pipewrite() and piperead() between two bytes. *)
LEMMA LoopHolds ==
  ASSUME IInv, NEW p \in Proc, NEW c \in Pipes, InLoop(p, c), StepSys(p, c), StepPipe(c),
         chan' = chan, plock' = [plock EXCEPT ![c] = p], KillMay,
         Writes(p, c)' \/ (Reads(p, c)' /\ sys'[p].copy),
         ReasonInv(c) /\ (\A q \in Proc : ~ killed[q]) =>
           /\ Reads(p, c)' => ~ Asleep(c, "nread")
           /\ Writes(p, c)' => ~ Asleep(c, "nwrite") /\ pipe[c].readopen
  PROVE  IInv'
<1>1. TypeInv
  BY DEF IInv, Types
<1>2. StepChan(p, c)
  BY <1>1 DEF StepChan, InLoop, TypeInv
<1>3. StepLock(p, c, p)
  BY DEF StepLock, InLoop
<1>4. plock'[c] = p
  BY <1>1 DEF TypeInv
<1>5. \A k \in {"nread", "nwrite"} : Asleep(c, k)' <=> Asleep(c, k)
  BY DEF Asleep
<1>6. ReasonInv(c) /\ (\A q \in Proc : ~ killed[q]) => ReasonInv(c)'
  <2>1. plock'[c] # Nil
    BY <1>4, PipeAssumption
  <2>2. pipe'[c].readopen = pipe[c].readopen
    BY DEF StepPipe
  <2> QED
    BY <1>4, <1>5, <2>1, <2>2 DEF ReasonInv
<1> QED
  BY <1>2, <1>3, <1>6, LoopKeeps DEF KillMay

(* Who has the lock found it so; a reader that has copied nothing has not    *)
(* kept it, and neither has who is of the other kind.                        *)
LEMMA LockFree ==
  ASSUME IInv, NEW p \in Proc, NEW c \in Pipes, plock[c] # Nil => plock[c] = p, ~ Writes(p, c), ~ sys[p].copy
  PROVE  plock[c] = Nil
BY DEF IInv, PipeParts, LockInv

(* pipewrite(): nobody reads any more, or the writer was killed. *)
LEMMA PipeWriteFailKeeps ==
  ASSUME IInv, NEW p \in Proc, PipeWriteFail(p), KillMay
  PROVE  IInv'
<1>1. InSys(p, "pipewrite") /\ Locked(p, sys[p].pi)
  BY DEF PipeWriteFail
<1>2. PICK c \in Pipes : /\ c = sys[p].pi /\ InLoop(p, c) /\ pipe[c] \in PipeStruct
                         /\ (plock[c] # Nil => plock[c] = p) /\ Writes(p, c)
  BY <1>1, LoopCall
<1>3. /\ plock' = [plock EXCEPT ![c] = Nil] /\ sys' = [sys EXCEPT ![p] = Nil] /\ pipe' = pipe /\ chan' = chan
      /\ ~ pipe[c].readopen \/ killed[p]
  BY <1>2 DEF PipeWriteFail, Unlock, Return
<1>4. StepSys(p, c)
  BY <1>3, LoopReturn
<1>5. StepPipe(c)
  BY <1>2, <1>3, SamePipe
<1>6. StepChan(p, c)
  BY <1>2, <1>3 DEF StepChan, InLoop, IInv, Types, TypeInv
<1>7. ASSUME ReasonInv(c), \A q \in Proc : ~ killed[q] PROVE SleepersRight(c)'
  <2>1. plock[c] = Nil
    BY <1>2, <1>3, <1>7 DEF ReasonInv
  <2>2. SleepersRight(c)
    BY <1>7, <2>1 DEF ReasonInv, SleepersRight
  <2> QED
    BY <1>3, <2>2 DEF SleepersRight, Asleep, Empty, Full
<1> QED
  BY <1>2, <1>3, <1>4, <1>5, <1>6, <1>7, LoopReleases

(* pipewrite(): full; the readers are woken, and the writer sleeps. *)
LEMMA PipeWriteSleepKeeps ==
  ASSUME IInv, NEW p \in Proc, PipeWriteSleep(p), KillMay
  PROVE  IInv'
<1>1. InSys(p, "pipewrite") /\ Locked(p, sys[p].pi)
  BY DEF PipeWriteSleep
<1>2. PICK c \in Pipes : /\ c = sys[p].pi /\ InLoop(p, c) /\ pipe[c] \in PipeStruct
                         /\ (plock[c] # Nil => plock[c] = p) /\ Writes(p, c)
  BY <1>1, LoopCall
<1>3. /\ plock' = [plock EXCEPT ![c] = Nil] /\ sys' = sys /\ pipe' = pipe
      /\ chan' = [Wakeup(<<c, "nread">>) EXCEPT ![p] = <<c, "nwrite">>]
      /\ pipe[c].readopen /\ Full(c)
  BY <1>2 DEF PipeWriteSleep, Unlock
<1>4. StepSys(p, c) /\ Writes(p, c)'
  BY <1>2, <1>3, LoopStays
<1>5. StepPipe(c)
  BY <1>2, <1>3, SamePipe
<1>6. chan \in [Proc -> (Pipes \X {"nread", "nwrite"}) \cup {Nil}]
  BY DEF IInv, Types, TypeInv
<1>7. /\ chan' \in [Proc -> (Pipes \X {"nread", "nwrite"}) \cup {Nil}]
      /\ chan'[p] = <<c, "nwrite">>
      /\ \A q \in Proc : q # p => chan'[q] = IF chan[q] = <<c, "nread">> THEN Nil ELSE chan[q]
  BY <1>3, <1>6 DEF Wakeup
<1>8. StepChan(p, c)
  BY <1>4, <1>7 DEF StepChan
<1>9. ASSUME NEW q \in Proc PROVE chan'[q] # <<c, "nread">>
  <2>1. <<c, "nread">> # Nil /\ <<c, "nread">> # <<c, "nwrite">>
    BY NilChan
  <2> QED
    BY <1>7, <2>1
<1>10. SleepersRight(c)'
  BY <1>3, <1>9 DEF SleepersRight, Asleep, Full
<1> QED
  BY <1>2, <1>3, <1>4, <1>5, <1>8, <1>10, LoopReleases

(* piperead(): empty; the reader sleeps. *)
LEMMA PipeReadSleepKeeps ==
  ASSUME IInv, NEW p \in Proc, PipeReadSleep(p), KillMay
  PROVE  IInv'
<1>1. InSys(p, "piperead") /\ Locked(p, sys[p].pi)
  BY DEF PipeReadSleep
<1>2. PICK c \in Pipes : /\ c = sys[p].pi /\ InLoop(p, c) /\ pipe[c] \in PipeStruct
                         /\ (plock[c] # Nil => plock[c] = p) /\ Reads(p, c) /\ ~ Writes(p, c)
  BY <1>1, LoopCall
<1>3. /\ plock' = [plock EXCEPT ![c] = Nil] /\ sys' = sys /\ pipe' = pipe
      /\ chan' = [chan EXCEPT ![p] = <<c, "nread">>]
      /\ ~ sys[p].copy /\ Empty(c) /\ pipe[c].writeopen
  BY <1>2 DEF PipeReadSleep, Unlock, Waiting
<1>4. StepSys(p, c) /\ Reads(p, c)'
  BY <1>2, <1>3, LoopStays
<1>5. StepPipe(c)
  BY <1>2, <1>3, SamePipe
<1>6. chan \in [Proc -> (Pipes \X {"nread", "nwrite"}) \cup {Nil}]
  BY DEF IInv, Types, TypeInv
<1>7. /\ chan' \in [Proc -> (Pipes \X {"nread", "nwrite"}) \cup {Nil}]
      /\ chan'[p] = <<c, "nread">>
      /\ \A q \in Proc : q # p => chan'[q] = chan[q]
  BY <1>3, <1>6
<1>8. StepChan(p, c)
  BY <1>3, <1>4, <1>7 DEF StepChan
<1>9. ASSUME ReasonInv(c) PROVE SleepersRight(c)'
  <2>1. plock[c] = Nil
    BY <1>2, <1>3, LockFree
  <2>2. Asleep(c, "nwrite")' => Asleep(c, "nwrite")
    <3>1. <<c, "nread">> # <<c, "nwrite">>
      OBVIOUS
    <3> QED
      BY <1>7, <3>1 DEF Asleep
  <2>3. Asleep(c, "nwrite") => Full(c) /\ pipe[c].readopen
    BY <1>9, <2>1 DEF ReasonInv
  <2> QED
    BY <1>3, <2>2, <2>3 DEF SleepersRight, Empty, Full
<1> QED
  BY <1>2, <1>3, <1>4, <1>5, <1>8, <1>9, LoopReleases

(* The call of p goes on with r, at the same pipe. *)
LEMMA LoopGoesOn ==
  ASSUME IInv, NEW p \in Proc, NEW c, InLoop(p, c), NEW r, InPipe(r), r.op = sys[p].op, r.pi = c,
         sys' = [sys EXCEPT ![p] = r]
  PROVE  StepSys(p, c) /\ sys'[p] = r /\ sys'[p] # Nil
<1>1. SysInv
  BY DEF IInv, Types
<1>2. Known(r)
  BY DEF Known
<1>3. SysInv' /\ sys'[p] = r /\ \A q \in Proc : q # p => sys'[q] = sys[q]
  BY <1>1, <1>2, SysSet
<1>4. r # Nil
  BY PipeAssumption
<1> QED
  BY <1>3, <1>4 DEF StepSys

(* The records of the two calls and of the pipe, with a byte more or less. *)
ReadCall == [op : {"piperead"}, pi : Pipes, n : Int, room : Int, got : Seq(Byte \cup {Nil}), copy : BOOLEAN]
WriteCall == [op : {"pipewrite"}, pi : Pipes, bytes : Seq(Byte \cup {Nil}), n : Int]

(* sys[p] of a writer after a byte: the rest is a call of the same pipe. *)
LEMMA WriteRest ==
  ASSUME NEW s, s \in WriteCall, NEW b \in Seq(Byte \cup {Nil})
  PROVE  /\ [s EXCEPT !.bytes = b] \in WriteCall
         /\ [s EXCEPT !.bytes = b].pi = s.pi /\ [s EXCEPT !.bytes = b].op = "pipewrite"
BY DEF WriteCall

(* sys[p] of a reader after a byte. *)
LEMMA ReadRest ==
  ASSUME NEW s, s \in ReadCall, NEW b \in Seq(Byte \cup {Nil})
  PROVE  /\ [s EXCEPT !.got = b, !.copy = TRUE] \in ReadCall
         /\ [s EXCEPT !.got = b, !.copy = TRUE].pi = s.pi /\ [s EXCEPT !.got = b, !.copy = TRUE].op = "piperead"
         /\ [s EXCEPT !.got = b, !.copy = TRUE].copy
<1>1. TRUE \in BOOLEAN
  OBVIOUS
<1> QED
  BY <1>1 DEF ReadCall

(* struct pipe with the byte b stored at i and the counter v. *)
WithByte(s, i, b, v) == [s EXCEPT !.data[i] = b, !.nwrite = v]

(* Storing a byte leaves a struct pipe with the same open ends. *)
LEMMA StoreByte ==
  ASSUME NEW s, s \in PipeStruct, NEW i \in 0 .. PIPESIZE - 1, NEW b \in Byte \cup {Nil}, NEW v \in 0 .. WRAP - 1
  PROVE  /\ WithByte(s, i, b, v) \in PipeStruct
         /\ WithByte(s, i, b, v).readopen = s.readopen
         /\ WithByte(s, i, b, v).writeopen = s.writeopen
<1>1. [s.data EXCEPT ![i] = b] \in [0 .. PIPESIZE - 1 -> Byte \cup {Nil}]
  BY DEF PipeStruct
<1>2. PICK d : d = [s.data EXCEPT ![i] = b]
  OBVIOUS
<1>3. WithByte(s, i, b, v) = [s EXCEPT !.data = d, !.nwrite = v]
  BY <1>2 DEF WithByte
<1> QED
  BY <1>1, <1>2, <1>3 DEF PipeStruct

(* The pipe c has the contents s after the step. *)
LEMMA PipeSet ==
  ASSUME TypeInv, NEW c \in Pipes, NEW s \in PipeStruct, s.readopen = pipe[c].readopen,
         s.writeopen = pipe[c].writeopen, pipe' = [pipe EXCEPT ![c] = s]
  PROVE  StepPipe(c)
<1>1. pipe' \in [Pipes -> PipeStruct \cup {Nil}] /\ pipe'[c] = s /\ \A x \in Pipes : x # c => pipe'[x] = pipe[x]
  BY DEF TypeInv
<1>2. s # Nil
  BY PipeAssumption
<1> QED
  BY <1>1, <1>2 DEF StepPipe

(* pipewrite() stores a byte and goes on. *)
LEMMA PipeWriteByteKeeps ==
  ASSUME IInv, NEW p \in Proc, PipeWriteByte(p), KillMay
  PROVE  IInv'
<1>1. InSys(p, "pipewrite") /\ Locked(p, sys[p].pi)
  BY DEF PipeWriteByte
<1>2. PICK c \in Pipes : /\ c = sys[p].pi /\ InLoop(p, c) /\ pipe[c] \in PipeStruct
                         /\ (plock[c] # Nil => plock[c] = p) /\ Writes(p, c)
                         /\ sys[p] \in WriteCall
  BY <1>1, LoopCall DEF WriteCall
<1>3. PICK b, w : b = sys[p].bytes /\ w = pipe[c].nwrite
  OBVIOUS
<1>4. /\ plock' = [plock EXCEPT ![c] = p] /\ chan' = chan
      /\ sys' = [sys EXCEPT ![p].bytes = Tail(@)]
      /\ pipe' = [pipe EXCEPT ![c] = [pipe[c] EXCEPT !.data[w % PIPESIZE] = Head(b), !.nwrite = (w + 1) % WRAP]]
      /\ b # <<>> /\ pipe[c].readopen /\ ~ Full(c)
  BY <1>2, <1>3 DEF PipeWriteByte, Lock
<1>5. b \in Seq(Byte \cup {Nil}) /\ Head(b) \in Byte \cup {Nil} /\ Tail(b) \in Seq(Byte \cup {Nil})
  <2>1. b \in Seq(Byte \cup {Nil})
    BY <1>2, <1>3 DEF WriteCall
  <2> QED
    BY <1>4, <2>1, SeqIn
<1>6. StepPipe(c)
  <2>1. w \in 0 .. WRAP - 1 /\ w % PIPESIZE \in 0 .. PIPESIZE - 1 /\ (w + 1) % WRAP \in 0 .. WRAP - 1
    <3>1. w \in 0 .. WRAP - 1
      BY <1>2, <1>3 DEF PipeStruct
    <3> QED
      BY <3>1, Wraps
  <2>2. PICK i, v : i = w % PIPESIZE /\ v = (w + 1) % WRAP
    OBVIOUS
  <2>3. PICK P : P = WithByte(pipe[c], i, Head(b), v)
    OBVIOUS
  <2>4. P \in PipeStruct /\ P.readopen = pipe[c].readopen /\ P.writeopen = pipe[c].writeopen
    <3>1. i \in 0 .. PIPESIZE - 1 /\ v \in 0 .. WRAP - 1
      BY <2>1, <2>2
    <3> QED
      BY <1>2, <1>5, <2>3, <3>1, StoreByte
  <2>5. pipe' = [pipe EXCEPT ![c] = P]
    BY <1>4, <2>2, <2>3 DEF WithByte
  <2> QED
    BY <2>4, <2>5, PipeSet DEF IInv, Types
<1>7. PICK r : r = [sys[p] EXCEPT !.bytes = Tail(b)]
  OBVIOUS
<1>8. r \in WriteCall /\ r.pi = c /\ r.op = "pipewrite"
  BY <1>2, <1>5, <1>7, WriteRest
<1>9. sys' = [sys EXCEPT ![p] = r]
  BY <1>3, <1>4, <1>7
<1>10. StepSys(p, c) /\ Writes(p, c)' /\ ~ Reads(p, c)'
  <2>1. InPipe(r) /\ r.op = sys[p].op
    BY <1>2, <1>8 DEF InPipe, WriteCall, Writes
  <2>2. StepSys(p, c) /\ sys'[p] = r /\ sys'[p] # Nil
    BY <1>2, <1>8, <1>9, <2>1, LoopGoesOn
  <2> QED
    BY <1>8, <2>2 DEF Reads, Writes
<1>11. ASSUME ReasonInv(c) PROVE ~ Asleep(c, "nwrite")
  BY <1>2, <1>4, <1>11 DEF ReasonInv
<1> QED
  BY <1>2, <1>4, <1>6, <1>10, <1>11, LoopHolds

(* pipewrite() wakes the readers and returns what it wrote. *)
LEMMA PipeWriteDoneKeeps ==
  ASSUME IInv, NEW p \in Proc, PipeWriteDone(p), KillMay
  PROVE  IInv'
<1>1. InSys(p, "pipewrite") /\ Locked(p, sys[p].pi)
  BY DEF PipeWriteDone
<1>2. PICK c \in Pipes : /\ c = sys[p].pi /\ InLoop(p, c) /\ pipe[c] \in PipeStruct
                         /\ (plock[c] # Nil => plock[c] = p) /\ Writes(p, c)
  BY <1>1, LoopCall
<1>3. /\ plock' = [plock EXCEPT ![c] = Nil] /\ sys' = [sys EXCEPT ![p] = Nil] /\ pipe' = pipe
      /\ chan' = Wakeup(<<c, "nread">>)
  BY <1>2 DEF PipeWriteDone, Unlock, Return
<1>4. StepSys(p, c)
  BY <1>3, LoopReturn
<1>5. StepPipe(c)
  BY <1>2, <1>3, SamePipe
<1>6. /\ chan' \in [Proc -> (Pipes \X {"nread", "nwrite"}) \cup {Nil}]
      /\ \A q \in Proc : chan'[q] \in {chan[q], Nil}
      /\ ~ Asleep(c, "nread")' /\ (Asleep(c, "nwrite")' => Asleep(c, "nwrite"))
  BY <1>3, WakeChan
<1>7. StepChan(p, c)
  BY <1>2, <1>6 DEF StepChan, InLoop
<1>8. ASSUME ReasonInv(c) PROVE SleepersRight(c)'
  <2>1. Asleep(c, "nwrite") => Full(c) /\ pipe[c].readopen
    BY <1>2, <1>8 DEF ReasonInv
  <2> QED
    BY <1>3, <1>6, <2>1 DEF SleepersRight, Full
<1> QED
  BY <1>2, <1>3, <1>4, <1>5, <1>7, <1>8, LoopReleases

(* piperead(): the reader was killed. *)
LEMMA PipeReadKilledKeeps ==
  ASSUME IInv, NEW p \in Proc, PipeReadKilled(p), KillMay
  PROVE  IInv'
<1>1. InSys(p, "piperead") /\ Locked(p, sys[p].pi)
  BY DEF PipeReadKilled
<1>2. PICK c \in Pipes : c = sys[p].pi /\ InLoop(p, c) /\ pipe[c] \in PipeStruct
  BY <1>1, LoopCall
<1>3. /\ plock' = [plock EXCEPT ![c] = Nil] /\ sys' = [sys EXCEPT ![p] = Nil] /\ pipe' = pipe /\ chan' = chan
      /\ killed[p]
  BY <1>2 DEF PipeReadKilled, Unlock, Return
<1>4. StepSys(p, c)
  BY <1>3, LoopReturn
<1>5. StepPipe(c)
  BY <1>2, <1>3, SamePipe
<1>6. StepChan(p, c)
  BY <1>2, <1>3 DEF StepChan, InLoop, IInv, Types, TypeInv
<1> QED
  BY <1>2, <1>3, <1>4, <1>5, <1>6, LoopReleases

(* piperead() takes a byte from the pipe. *)
LEMMA ReadOne ==
  ASSUME IInv, NEW c \in Pipes, pipe[c] \in PipeStruct, pipe' = [pipe EXCEPT ![c].nread = (pipe[c].nread + 1) % WRAP]
  PROVE  StepPipe(c)
<1>1. PICK v : v = (pipe[c].nread + 1) % WRAP
  OBVIOUS
<1>2. v \in 0 .. WRAP - 1
  <2>1. pipe[c].nread \in 0 .. WRAP - 1
    BY DEF PipeStruct
  <2> QED
    BY <1>1, <2>1, Wraps
<1>3. PICK P : P = [pipe[c] EXCEPT !.nread = v]
  OBVIOUS
<1>4. P \in PipeStruct /\ P.readopen = pipe[c].readopen /\ P.writeopen = pipe[c].writeopen
  BY <1>2, <1>3, SMTT(30) DEF PipeStruct
<1>5. pipe' = [pipe EXCEPT ![c] = P]
  BY <1>1, <1>3
<1> QED
  BY <1>4, <1>5, PipeSet DEF IInv, Types

(* piperead() copies a byte and goes on. *)
LEMMA PipeReadByteKeeps ==
  ASSUME IInv, NEW p \in Proc, PipeReadByte(p), KillMay
  PROVE  IInv'
<1>1. InSys(p, "piperead") /\ Locked(p, sys[p].pi)
  BY DEF PipeReadByte
<1>2. PICK c \in Pipes : /\ c = sys[p].pi /\ InLoop(p, c) /\ pipe[c] \in PipeStruct
                         /\ (plock[c] # Nil => plock[c] = p) /\ Reads(p, c)
                         /\ sys[p] \in ReadCall
  BY <1>1, LoopCall DEF ReadCall
<1>3. PICK x : x = pipe[c].data[pipe[c].nread % PIPESIZE]
  OBVIOUS
<1>4. /\ plock' = [plock EXCEPT ![c] = p] /\ chan' = chan
      /\ pipe' = [pipe EXCEPT ![c].nread = (pipe[c].nread + 1) % WRAP]
      /\ sys' = [sys EXCEPT ![p] = [sys[p] EXCEPT !.got = Append(@, x), !.copy = TRUE]]
      /\ ~ Empty(c)
  BY <1>2, <1>3 DEF PipeReadByte, Lock, Copying
<1>5. x \in Byte \cup {Nil}
  <2>1. pipe[c].nread \in 0 .. WRAP - 1 /\ pipe[c].data \in [0 .. PIPESIZE - 1 -> Byte \cup {Nil}]
    BY <1>2 DEF PipeStruct
  <2>2. pipe[c].nread % PIPESIZE \in 0 .. PIPESIZE - 1
    BY <2>1, Wraps
  <2> QED
    BY <1>3, <2>1, <2>2
<1>6. StepPipe(c)
  BY <1>2, <1>4, ReadOne
<1>7. PICK r : r = [sys[p] EXCEPT !.got = Append(@, x), !.copy = TRUE]
  OBVIOUS
<1>8. r \in ReadCall /\ r.pi = c /\ r.op = "piperead" /\ r.copy
  <2>1. Append(sys[p].got, x) \in Seq(Byte \cup {Nil})
    <3>1. sys[p].got \in Seq(Byte \cup {Nil})
      BY <1>2 DEF ReadCall
    <3> QED
      BY <1>5, <3>1, SeqIn
  <2> QED
    BY <1>2, <1>7, <2>1, ReadRest
<1>9. sys' = [sys EXCEPT ![p] = r]
  BY <1>4, <1>7
<1>10. StepSys(p, c) /\ Reads(p, c)' /\ ~ Writes(p, c)' /\ sys'[p].copy
  <2>1. InPipe(r) /\ r.op = sys[p].op
    BY <1>2, <1>8 DEF InPipe, ReadCall, Reads
  <2>2. StepSys(p, c) /\ sys'[p] = r /\ sys'[p] # Nil
    BY <1>2, <1>8, <1>9, <2>1, LoopGoesOn
  <2> QED
    BY <1>8, <2>2 DEF Reads, Writes
<1>11. ASSUME ReasonInv(c) PROVE ~ Asleep(c, "nread")
  BY <1>2, <1>4, <1>11 DEF ReasonInv
<1> QED
  BY <1>2, <1>4, <1>6, <1>10, <1>11, LoopHolds

(* piperead() wakes the writers and returns what it copied. *)
LEMMA PipeReadDoneKeeps ==
  ASSUME IInv, NEW p \in Proc, PipeReadDone(p), KillMay
  PROVE  IInv'
<1>1. InSys(p, "piperead") /\ Locked(p, sys[p].pi)
  BY DEF PipeReadDone
<1>2. PICK c \in Pipes : /\ c = sys[p].pi /\ InLoop(p, c) /\ pipe[c] \in PipeStruct
                         /\ (plock[c] # Nil => plock[c] = p) /\ Reads(p, c)
  BY <1>1, LoopCall
<1>3. /\ plock' = [plock EXCEPT ![c] = Nil] /\ sys' = [sys EXCEPT ![p] = Nil]
      /\ chan' = Wakeup(<<c, "nwrite">>)
      /\ \/ pipe' = pipe
         \/ pipe' = [pipe EXCEPT ![c].nread = (pipe[c].nread + 1) % WRAP] /\ ~ Empty(c)
  BY <1>2 DEF PipeReadDone, Unlock, Return, Copying
<1>4. StepSys(p, c)
  BY <1>3, LoopReturn
<1>5. StepPipe(c)
  BY <1>2, <1>3, SamePipe, ReadOne
<1>6. /\ chan' \in [Proc -> (Pipes \X {"nread", "nwrite"}) \cup {Nil}]
      /\ \A q \in Proc : chan'[q] \in {chan[q], Nil}
      /\ ~ Asleep(c, "nwrite")' /\ (Asleep(c, "nread")' => Asleep(c, "nread"))
  BY <1>3, WakeChan
<1>7. StepChan(p, c)
  BY <1>2, <1>6 DEF StepChan, InLoop
<1>8. ASSUME ReasonInv(c) PROVE SleepersRight(c)'
  <2>1. Asleep(c, "nread") => Empty(c) /\ pipe[c].writeopen
    BY <1>2, <1>8 DEF ReasonInv
  <2>2. Asleep(c, "nread") => pipe' = pipe
    BY <1>3, <2>1
  <2> QED
    BY <1>6, <2>1, <2>2 DEF SleepersRight, Empty
<1> QED
  BY <1>2, <1>3, <1>4, <1>5, <1>7, <1>8, LoopReleases

(* kill() between the test of p->killed and sleep(). *)
LEMMA KillLateKeeps == ASSUME IInv, NEW p \in Proc, KillLate(p) PROVE IInv'
<1>1. KillMay
  <2>1. killed \in [Proc -> BOOLEAN] /\ kills \in Nat
    BY DEF IInv, Types, TypeInv
  <2>2. killed' \in [Proc -> BOOLEAN]
    BY <2>1 DEF KillLate
  <2>3. kills' \in Nat /\ kills' # 0
    <3>1. kills' = kills + 1
      BY DEF KillLate
    <3> QED
      BY <2>1, <3>1, SMTT(30)
  <2> QED
    BY <2>2, <2>3 DEF KillLate, KillMay, fileVars, treeVars
<1>2. PipeWriteSleep(p) \/ PipeReadSleep(p)
  BY DEF KillLate, PipeSleep
<1> QED
  BY <1>1, <1>2, PipeWriteSleepKeeps, PipeReadSleepKeeps

(* piperead() and pipewrite(). *)
LEMMA PipeStepKeeps ==
  ASSUME IInv, NEW p \in Proc, PipeStep(p), UNCHANGED fileVars, UNCHANGED <<kills, state>>
  PROVE  IInv'
<1>1. UNCHANGED killed
  BY DEF PipeStep, PipeWriteFail, PipeWriteByte, PipeWriteDone, PipeReadKilled, PipeReadByte, PipeReadDone
<1>2. KillMay
  BY <1>1 DEF KillMay, fileVars, IInv, Types, TypeInv
<1> QED
  BY <1>2, PipeWriteFailKeeps, PipeWriteByteKeeps, PipeWriteDoneKeeps, PipeReadKilledKeeps, PipeReadByteKeeps,
     PipeReadDoneKeeps, PipeWriteSleepKeeps, PipeReadSleepKeeps DEF PipeStep, PipeSleep

(* The system calls on descriptors. *)
LEMMA SyscallKeeps == ASSUME IInv, NEW p \in Proc, Syscall(p) PROVE IInv'
<1>1. FileStep(p) /\ UNCHANGED <<kills, state>>
  BY DEF Syscall, treeVars
<1> QED
  BY <1>1, SysDupKeeps, SysCloseKeeps, SysPipeKeeps, SysOpenKeeps, SysReadKeeps, SysWriteKeeps, SysLseekKeeps,
     FilePipeCloseKeeps, PipeStepKeeps DEF FileStep

(* Nothing changes. *)
LEMMA StutterKeeps == ASSUME IInv, UNCHANGED vars PROVE IInv'
<1>1. UNCHANGED <<pipe, plock, chan, killed, sys, file, ofile, content, state, kills>>
  BY DEF vars, pipeVars, procVars, fileVars, treeVars
<1>2. Types'
  BY <1>1 DEF IInv, Types, SysInv, TypeInv, ContentInv, IdleInv
<1>3. PlainStep /\ SameEnds
  BY <1>1 DEF PlainStep, SameEnds
<1>4. PipeParts'
  BY <1>1, <1>3, PlainKeeps DEF IInv
<1> QED
  BY <1>2, <1>4 DEF IInv

(* Every step keeps the invariant. *)
LEMMA NextIInv == ASSUME IInv, [Next]_vars PROVE IInv'
<1>1. CASE UNCHANGED vars
  BY <1>1, StutterKeeps
<1>2. CASE Next
  <2>1. PICK p \in Proc : Run(p) \/ Kill(p) \/ KillLate(p)
    BY <1>2 DEF Next
  <2> QED
    BY <2>1, UserStepKeeps, SyscallKeeps, SysForkKeeps, ExitCloseKeeps, ExitDoneKeeps, SysWaitKeeps, KillKeeps,
       KillLateKeeps DEF Run
<1> QED
  BY <1>1, <1>2

(* The file table at the start: the console's file, and closed ones. *)
LEMMA InitFiles ==
  ASSUME Init
  PROVE  /\ file \in [Ftable -> FileStruct] /\ 1 \in Ftable
         /\ file[1].ref = 3 /\ file[1].type = "device"
         /\ \A f \in Ftable : f # 1 => file[f].ref = 0 /\ file[f].type = "none"
<1>1. 1 \in Ftable /\ 0 \in Nat /\ 3 \in Nat
  BY FileAssumption, TasksAssumption, SMTT(30) DEF Ftable
<1>2. PICK con : con = [ClosedFile EXCEPT !.ref = 3, !.type = "device", !.ip = Console,
                                          !.readable = TRUE, !.writable = TRUE]
  OBVIOUS
<1>3. con \in FileStruct /\ con.ref = 3 /\ con.type = "device"
  BY <1>1, <1>2 DEF ClosedFile, FileStruct, Inodes
<1>4. ClosedFile \in FileStruct /\ ClosedFile.ref = 0 /\ ClosedFile.type = "none"
  BY <1>1 DEF ClosedFile, FileStruct
<1>5. file = [f \in Ftable |-> IF f = 1 THEN con ELSE ClosedFile]
  BY <1>2 DEF Init
<1> QED
  BY <1>1, <1>3, <1>4, <1>5

(* The first process has three descriptors for the console. *)
LEMMA InitHolders ==
  ASSUME Init
  PROVE  CountInv
<1>1. Sh \in Proc
  BY LeastIn, TasksAssumption DEF Sh
<1>2. 0 \in Fd /\ 1 \in Fd /\ 2 \in Fd /\ \A fd \in Fd : fd < 3 <=> fd \in {0, 1, 2}
  BY FileAssumption, TasksAssumption, SMTT(30) DEF Fd
<1>3. /\ \A fd \in Fd : ofile[Sh][fd] = IF fd \in {0, 1, 2} THEN 1 ELSE Nil
      /\ \A p \in Proc : p # Sh => \A fd \in Fd : ofile[p][fd] = Nil
  BY <1>1, <1>2 DEF Init
<1>4. 1 # Nil /\ \A f \in Ftable : f # Nil
  BY InitFiles, FileAssumption
<1>5. Holders(1) = {<<Sh, 0>>, <<Sh, 1>>, <<Sh, 2>>}
  <2>1. ASSUME NEW x \in Holders(1) PROVE x \in {<<Sh, 0>>, <<Sh, 1>>, <<Sh, 2>>}
    <3>1. x \in Proc \X Fd /\ ofile[x[1]][x[2]] = 1
      BY <2>1 DEF Holders
    <3>2. PICK q \in Proc, d \in Fd : x = <<q, d>>
      BY <3>1, SMTT(30)
    <3>3. ofile[q][d] = 1
      BY <3>1, <3>2
    <3>4. q = Sh /\ d \in {0, 1, 2}
      BY <1>3, <1>4, <3>3
    <3> QED
      BY <3>2, <3>4
  <2>2. ASSUME NEW d \in {0, 1, 2} PROVE <<Sh, d>> \in Holders(1)
    <3>1. d \in Fd /\ ofile[Sh][d] = 1
      BY <1>2, <1>3
    <3> QED
      BY <1>1, <3>1 DEF Holders
  <2> QED
    BY <2>1, <2>2
<1>6. Cardinality(Holders(1)) = 3
  <2>1. IsFiniteSet({}) /\ Cardinality({}) = 0
    BY FS_EmptySet
  <2>2. IsFiniteSet({<<Sh, 0>>}) /\ Cardinality({<<Sh, 0>>}) = 1
    BY FS_Singleton
  <2>3. <<Sh, 1>> # <<Sh, 0>> /\ <<Sh, 2>> # <<Sh, 0>> /\ <<Sh, 2>> # <<Sh, 1>>
    BY SMTT(30)
  <2>4. IsFiniteSet({<<Sh, 0>>} \cup {<<Sh, 1>>}) /\ Cardinality({<<Sh, 0>>} \cup {<<Sh, 1>>}) = 1 + 1
    BY <2>2, <2>3, FS_AddElement
  <2>5. Cardinality({<<Sh, 0>>} \cup {<<Sh, 1>>} \cup {<<Sh, 2>>}) = 1 + 1 + 1
    BY <2>3, <2>4, FS_AddElement
  <2>6. {<<Sh, 0>>} \cup {<<Sh, 1>>} \cup {<<Sh, 2>>} = {<<Sh, 0>>, <<Sh, 1>>, <<Sh, 2>>}
    OBVIOUS
  <2>7. 1 + 1 + 1 = 3
    BY SMTT(30)
  <2> QED
    BY <1>5, <2>5, <2>6, <2>7
<1>7. ASSUME NEW f \in Ftable, f # 1 PROVE Cardinality(Holders(f)) = 0
  <2>1. ASSUME NEW q \in Proc, NEW d \in Fd PROVE ofile[q][d] # f
    BY <1>3, <1>4, <1>7
  <2>2. Holders(f) = {}
    <3>1. ASSUME NEW x \in Holders(f) PROVE FALSE
      <4>1. x \in Proc \X Fd /\ ofile[x[1]][x[2]] = f
        BY <3>1 DEF Holders
      <4>2. PICK q \in Proc, d \in Fd : x = <<q, d>>
        BY <4>1, SMTT(30)
      <4> QED
        BY <2>1, <4>1, <4>2
    <3> QED
      BY <3>1
  <2> QED
    BY <2>2, FS_EmptySet
<1> QED
  BY <1>6, <1>7, InitFiles DEF CountInv

(* The invariant holds at the start. *)
LEMMA InitIInv == Init => IInv
<1> SUFFICES ASSUME Init PROVE IInv
  OBVIOUS
<1>1. Sh \in Proc
  BY LeastIn, TasksAssumption DEF Sh
<1>2. /\ sys = [p \in Proc |-> Nil] /\ chan = [p \in Proc |-> Nil] /\ killed = [p \in Proc |-> FALSE]
      /\ pipe = [pi \in Pipes |-> Nil] /\ plock = [pi \in Pipes |-> Nil] /\ kills = 0
      /\ content = [f \in Name |-> <<>>]
      /\ ofile = [p \in Proc |-> [fd \in Fd |-> IF p = Sh /\ fd < 3 THEN 1 ELSE Nil]]
      /\ state = [p \in Proc |-> IF p = Sh THEN "run" ELSE "unused"]
  BY DEF Init
<1>3. SysInv
  BY <1>2 DEF SysInv
<1>4. TypeInv
  <2>1. 0 \in Nat /\ FALSE \in BOOLEAN
    BY SMTT(30)
  <2>2. kills \in Nat /\ killed \in [Proc -> BOOLEAN]
    BY <1>2, <2>1
  <2>3. /\ pipe \in [Pipes -> PipeStruct \cup {Nil}] /\ plock \in [Pipes -> Proc \cup {Nil}]
        /\ chan \in [Proc -> (Pipes \X {"nread", "nwrite"}) \cup {Nil}]
    BY <1>2
  <2>4. ofile \in [Proc -> [Fd -> Ftable \cup {Nil}]]
    BY <1>2, InitFiles
  <2>5. state \in [Proc -> {"unused", "run", "zombie"}]
    BY <1>2
  <2> QED
    BY <2>2, <2>3, <2>4, <2>5, InitFiles DEF TypeInv
<1>5. ContentInv
  <2>1. <<>> \in Seq(Byte \cup {Nil})
    BY SMTT(30)
  <2>2. \A f \in Ftable : file[f].type # "inode"
    BY InitFiles
  <2> QED
    BY <1>2, <2>1, <2>2 DEF ContentInv
<1>6. IdleInv
  BY <1>2 DEF IdleInv
<1>7. \A pi, w : \A f \in Ftable : ~ IsEnd(f, pi, w)
  BY InitFiles DEF IsEnd
<1>8. \A p \in Proc : \A pi, w : ~ Drops(p, pi, w) /\ ~ Reads(p, pi) /\ ~ Writes(p, pi)
  BY <1>2 DEF Drops, Reads, Writes
<1>9. EndInv
  <2>1. ASSUME NEW pi \in Pipes PROVE PageInv(pi)
    BY <1>2, <1>7, <1>8, EndOpenDef DEF PageInv
  <2>2. ASSUME NEW pi \in Pipes, NEW w \in BOOLEAN PROVE OneEnd(pi, w)
    BY <1>7, <1>8 DEF OneEnd
  <2>3. ASSUME NEW f \in Ftable PROVE FileInv(f)
    <3>1. CASE f = 1
      BY <3>1, InitFiles DEF FileInv
    <3>2. CASE f # 1
      <4>1. file[f].ref = 0
        BY <3>2, InitFiles
      <4> QED
        BY <4>1, SMTT(30) DEF FileInv
    <3> QED
      BY <3>1, <3>2
  <2> QED
    BY <2>1, <2>2, <2>3 DEF EndInv
<1>10. UserInv
  BY <1>8 DEF UserInv
<1>11. \A p \in Proc, pi \in Pipes : chan[p] # <<pi, "nread">> /\ chan[p] # <<pi, "nwrite">> /\ plock[pi] # p
  BY <1>2, NilChan, PipeAssumption
<1>12. LockInv
  BY <1>11 DEF LockInv
<1>13. SleepInv
  BY <1>2, <1>11 DEF SleepInv, ReasonInv, Asleep
<1> QED
  BY <1>3, <1>4, <1>5, <1>6, <1>9, <1>10, <1>12, <1>13, InitHolders DEF IInv, Types, PipeParts

-----------------------------------------------------------------------------
(* The inductive invariant of descriptors, pipes and processes, for all      *)
(* programs: types, exact counts, one place for every end of a pipe, who has *)
(* pi->lock, and why a process sleeps in piperead() or pipewrite().          *)
THEOREM TasksInvariant == Spec => []IInv
<1>1. IInv /\ [Next]_vars => IInv'
  BY NextIInv
<1> QED
  BY InitIInv, <1>1, PTL DEF Spec

(* filedup(), fileclose(), fork(), exit() and pipealloc() keep f->ref equal  *)
(* to the number of descriptors for f, and an end of a pipe open exactly as  *)
(* long as a file refers to it or a process is about to close it.            *)
THEOREM TasksRefsExact == Spec => []RefsExact
<1>1. IInv => RefsExact
  BY DEF IInv, PipeParts, CountInv, Holders, EndInv, PageInv, RefsExact
<1> QED
  BY TasksInvariant, <1>1, PTL

(* Who sleeps in piperead() or pipewrite() sleeps in a pipe that exists, and *)
(* without a kill() only while there is nothing to read, or no room to       *)
(* write, and the other side is there.                                       *)
THEOREM TasksSleepsForReason == Spec => []SleepsForReason
<1>1. IInv => SleepsForReason
  <2> SUFFICES ASSUME IInv, NEW p \in Proc, chan[p] # Nil
               PROVE  LET pi == chan[p][1]
                      IN  /\ pipe[pi] # Nil
                          /\ plock[pi] = Nil /\ kills = 0 =>
                               IF chan[p][2] = "nread" THEN Empty(pi) /\ pipe[pi].writeopen
                                                       ELSE Full(pi) /\ pipe[pi].readopen
    BY DEF SleepsForReason
  <2>1. chan[p] \in Pipes \X {"nread", "nwrite"}
    BY DEF IInv, Types, TypeInv
  <2>2. PICK c \in Pipes, k \in {"nread", "nwrite"} : chan[p] = <<c, k>>
    BY <2>1, SMTT(30)
  <2>3. chan[p][1] = c /\ chan[p][2] = k
    BY <2>2, SMTT(30)
  <2>4. Reads(p, c) \/ Writes(p, c)
    BY <2>2 DEF IInv, PipeParts, LockInv
  <2>5. pipe[c] # Nil
    BY <2>4, LoopOpen
  <2>6. Asleep(c, k)
    BY <2>2 DEF Asleep
  <2>7. ASSUME plock[c] = Nil, kills = 0
        PROVE  IF k = "nread" THEN Empty(c) /\ pipe[c].writeopen ELSE Full(c) /\ pipe[c].readopen
    <3>1. ReasonInv(c)
      BY <2>7 DEF IInv, PipeParts, SleepInv
    <3> QED
      BY <2>6, <2>7, <3>1 DEF ReasonInv
  <2> QED
    BY <2>3, <2>5, <2>7
<1> QED
  BY TasksInvariant, <1>1, PTL

==============================================================================
