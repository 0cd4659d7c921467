--------------------------------- MODULE Shell ---------------------------------
(***************************************************************************)
(* The shell, user/sh.c, running one command line over Tasks: the          *)
(* processes it forks, the descriptors it moves and the programs it runs.  *)
(* ShellCompute, which Tasks takes for Compute, works out the next system  *)
(* call from what is left of a program; the message runcmd() prints when   *)
(* exec() fails is left out.                                               *)
(***************************************************************************)
EXTENDS Tasks, ShParse, Programs

CONSTANT NBytes     \* bytes the program s writes

Fork(pr) == <<"fork", pr>>
Check == <<"check">>
Wait == Sys([op |-> "wait"])

(* Mutation: the ends of a pipe stay open in the processes around it. *)
KeepEnds == <<>>

(* close(p[0]); close(p[1]) *)
CloseEnds == <<<<"close p", 1>>, <<"close p", 2>>>>

(* runcmd(), as the calls it makes; a child's part is the argument of Fork. *)
RunCmd(c) ==
  CASE c[1] = "panic" -> <<Exit>>
    [] c[1] = "EXEC" -> IF c[2] = <<>> THEN <<Exit>> ELSE <<<<"program", Head(c[2]), Tail(c[2])>>>>
    [] c[1] = "REDIR" -> <<Sys([op |-> "close", fd |-> c[5]]),
                           Sys([op |-> "open", ip |-> c[3], omode |-> c[4]]), Check,
                           <<"run", c[2]>>>>
    [] c[1] = "LIST" -> <<Fork(<<<<"run", c[2]>>>>), Check, Wait, <<"run", c[3]>>>>
    [] c[1] = "PIPE" -> <<Sys([op |-> "pipe"]), Check,
                          Fork(<<Sys([op |-> "close", fd |-> 1]), <<"dup p", 2>>>> \o CloseEnds
                               \o <<<<"run", c[2]>>>>), Check,
                          Fork(<<Sys([op |-> "close", fd |-> 0]), <<"dup p", 1>>>> \o CloseEnds
                               \o <<<<"run", c[3]>>>>), Check>>
                        \o CloseEnds \o <<Wait, Wait, Exit>>
    [] c[1] = "BACK" -> <<Fork(<<<<"run", c[2]>>>>), Check, Exit>>

(* exec() of a program of Programs; or of one that makes a single call: s    *)
(* writes NBytes bytes; h reads one byte; r reads two where one is mapped; b *)
(* writes from an address that is mapped for one byte only; k is cat from    *)
(* the last byte on.  exec() of anything else fails and runcmd() exits.      *)
Program(w, args) ==
  CASE w = "s" -> <<Write([k \in 1 .. NBytes |-> k]), Exit>>
    [] w = "h" -> <<Read(0, 1), Exit>>
    [] w = "r" -> <<Sys([op |-> "read", fd |-> 0, n |-> 2, room |-> 1]), Exit>>
    [] w = "k" -> <<Sys([op |-> "lseek", fd |-> 0, offset |-> -1, whence |-> "end"])>> \o Main("cat", <<>>)
    [] w = "b" -> <<Write(<<1, Nil>>), Exit>>
    [] w \in {"cat", "wc", "grep", "echo"} -> Main(w, args)
    [] OTHER -> <<Exit>>

(* What p computes between two system calls: r and b are the last call's     *)
(* result and buffer, fds is the array p[2].                                 *)
RECURSIVE Norm(_, _, _, _)
Norm(pr, r, b, fds) ==
  LET o == Head(pr) IN
  IF pr = <<>> THEN <<Exit>>
  ELSE CASE o[1] = "run" -> Norm(RunCmd(o[2]), r, b, fds)
         [] o[1] = "program" -> Norm(Program(o[2], o[3]), r, b, fds)
         [] o[1] = "check" -> IF r = -1 THEN <<Exit>> ELSE Norm(Tail(pr), r, b, fds)
         [] o[1] \in Points -> Norm(Resume(o, r, b) \o Tail(pr), r, b, fds)
         [] o[1] = "close p" -> <<Sys([op |-> "close", fd |-> fds[o[2]]])>> \o Tail(pr)
         [] o[1] = "dup p" -> <<Sys([op |-> "dup", fd |-> fds[o[2]]])>> \o Tail(pr)
         [] o[1] = "fork" -> <<Sys([op |-> "fork"]), <<"forked", o[2]>>>> \o Tail(pr)
         [] o[1] = "forked" -> Norm(IF r = 0 THEN o[2] ELSE Tail(pr), r, b, fds)
         [] OTHER -> pr

ShellCompute(pr, r, b, fds) ==
  LET calls == Norm(pr, r, b, fds) IN [call |-> Head(calls)[2], rest |-> Tail(calls)]

-----------------------------------------------------------------------------
(* Every command line, parsed. *)
Parsed == [t \in Job |-> parsecmd(Text(t, 0))]

(* main() forks a child that parses and runs the line, and waits for it. *)
ShellMain(t) == <<Fork(<<<<"run", Parsed[t]>>>>), Check, Wait, Exit>>

-----------------------------------------------------------------------------
(* What a command means: from its input and the files, its output, what is   *)
(* left of its input, and the files.  Commands in a pipeline that use the    *)
(* same file have no meaning here, and b leaves nothing in an empty file:    *)
(* the block it cannot fill is not counted.                                  *)
RECURSIVE Sem(_, _, _)
Sem(c, in, fs) ==
  CASE c[1] = "EXEC" ->
         LET w == IF c[2] = <<>> THEN "" ELSE Head(c[2])
             re == IF w = "grep" THEN Chars[c[2][2]] ELSE <<>>
             files == SubSeq(c[2], IF w = "grep" THEN 3 ELSE 2, Len(c[2]))
             filter == w \in {"cat", "wc", "grep"}
         IN [o |-> CASE w = "s" -> [k \in 1 .. NBytes |-> k]
                     [] w = "k" /\ in # <<>> -> <<in[Len(in)]>>
                     [] w = "b" -> <<1>>
                     [] w = "echo" -> EchoMeaning(files)
                     [] filter /\ files = <<>> -> FilterMeaning(w, re, in, <<>>)
                     [] filter /\ files # <<>> ->
                          FlattenSeq([k \in 1 .. Len(files) |->
                                        FilterMeaning(w, re, fs[files[k]], Chars[files[k]])])
                     [] OTHER -> <<>>,
             i |-> IF w = "h" /\ in # <<>> THEN Tail(in)
                   ELSE IF w = "k" \/ (filter /\ files = <<>>) THEN <<>> ELSE in,
             fs |-> fs]
    [] c[1] = "REDIR" ->
         LET f == c[3] IN
         IF c[5] = 0 THEN [Sem(c[2], fs[f], fs) EXCEPT !.i = in]
         ELSE LET r == Sem(c[2], in, IF "trunc" \in c[4] THEN [fs EXCEPT ![f] = <<>>] ELSE fs)
                   o == IF c[2] = execcmd(<<"b">>) THEN <<>> ELSE r.o
              IN [r EXCEPT !.o = <<>>, !.fs[f] = Stored(@, 0, o)]
    [] c[1] = "PIPE" -> LET l == Sem(c[2], in, fs)
                            r == Sem(c[3], l.o, l.fs)
                        IN [r EXCEPT !.i = l.i]
    [] c[1] = "LIST" -> LET l == Sem(c[2], in, fs)
                            r == Sem(c[3], l.i, l.fs)
                        IN [r EXCEPT !.o = l.o \o r.o]

Sequential(c) == c[1] # "BACK" /\ (c[1] = "LIST" => c[2][1] # "BACK")

(* When a command line has run to its end undisturbed, the console and the   *)
(* files have what the line means: the parser, the forks, the moved          *)
(* descriptors and the pipes of runcmd() lose, repeat or reorder nothing.    *)
OutputIsMeaning ==
  Finished /\ ~ bad /\ Sequential(job) =>
    LET m == Sem(job, <<>>, [f \in Name |-> <<>>]) IN out = m.o /\ content = m.fs

(* Every command line comes to its end, whatever is killed on the way and    *)
(* whichever side of a pipe leaves first, and gives back every file and pipe. *)
EverythingFinishes ==
  <>(Finished /\ (\A f \in Ftable : file[f].ref = 0) /\ \A pi \in Pipes : pipe[pi] = Nil)

==============================================================================
