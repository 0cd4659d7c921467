------------------------------- MODULE Programs -------------------------------
(***************************************************************************)
(* The programs a command line runs: user/cat.c, grep.c, wc.c and echo.c.  *)
(* A program is a sequence of system calls Sys(r) and of points <<name,    *)
(* ...>> at which it looks at what the last call gave it and goes on; a    *)
(* point carries the program's own variables.  Characters are their codes, *)
(* so that lines, words and patterns are what the programs see; messages   *)
(* about failures are left out.                                            *)
(***************************************************************************)
EXTENDS Integers, Sequences, FiniteSets, SequencesExt

CONSTANTS
  BufSize,    \* sizeof(buf) of cat and wc
  GrepSize,   \* sizeof(buf) of grep
  Chars       \* the characters of every word the command lines have

Newline == 10
Space == 32
White == {Space, 13, 9, Newline, 11}

Sys(r) == <<"sys", r>>
Exit == Sys([op |-> "exit"])
Read(fd, n) == Sys([op |-> "read", fd |-> fd, n |-> n, room |-> n])
Write(b) == Sys([op |-> "write", fd |-> 1, bytes |-> b, n |-> Len(b)])
Rest(s, k) == SubSeq(s, k, Len(s))

-----------------------------------------------------------------------------
(* printf() writes one character at a time. *)
Puts(b) == [k \in 1 .. Len(b) |-> Write(<<b[k]>>)]

RECURSIVE printint(_)
printint(n) == IF n < 10 THEN <<48 + n>> ELSE printint(n \div 10) \o <<48 + (n % 10)>>

(* echo: the words, each followed by a blank or, the last, by a newline. *)
Echo(args) ==
  FlattenSeq([k \in 1 .. Len(args) |->
    <<Write(Chars[args[k]]), Write(<<IF k < Len(args) THEN Space ELSE Newline>>)>>])

(* cat() of descriptor fd. *)
Cat(fd) == <<Read(fd, BufSize), <<"cat read", fd>>>>
CatRead(fd, r, b) == IF r > 0 THEN <<Write(b), <<"cat write", fd>>>> ELSE IF r < 0 THEN <<Exit>> ELSE <<>>
CatWrite(fd, r, b) == IF r = Len(b) THEN Cat(fd) ELSE <<Exit>>

(* wc(): n has the counts l, w, c and the flag inword. *)
Wc(fd, name, n) == <<Read(fd, BufSize), <<"wc read", fd, name, n>>>>
WcByte(n, ch) ==
  [l |-> IF ch = Newline THEN n.l + 1 ELSE n.l,
   w |-> IF ch \notin White /\ ~ n.inword THEN n.w + 1 ELSE n.w,
   c |-> n.c + 1,
   inword |-> ch \notin White]
WcLine(l, w, c, name) ==
  printint(l) \o <<Space>> \o printint(w) \o <<Space>> \o printint(c) \o <<Space>> \o name \o <<Newline>>
WcRead(fd, name, n, r, b) ==
  IF r > 0 THEN Wc(fd, name, FoldLeft(WcByte, n, b))
  ELSE IF r < 0 THEN <<Exit>> ELSE Puts(WcLine(n.l, n.w, n.c, name))

-----------------------------------------------------------------------------
(* The matcher of grep.c.  A string ends with the character 0. *)
At(s, k) == IF k <= Len(s) THEN s[k] ELSE 0
Star == 42
Dot == 46
Caret == 94
Dollar == 36

RECURSIVE matchhere(_, _), matchstar(_, _, _)
matchhere(re, text) ==
  IF re = <<>> THEN TRUE
  ELSE IF At(re, 2) = Star THEN matchstar(re[1], Rest(re, 3), text)
  ELSE IF re = <<Dollar>> THEN text = <<>>
  ELSE text # <<>> /\ re[1] \in {Dot, text[1]} /\ matchhere(Tail(re), Tail(text))

matchstar(c, re, text) ==
  \/ matchhere(re, text)
  \/ text # <<>> /\ c \in {Dot, text[1]} /\ matchstar(c, re, Tail(text))

match(re, text) ==
  IF At(re, 1) = Caret THEN matchhere(Tail(re), text)
  ELSE \E k \in 1 .. Len(text) + 1 : matchhere(re, Rest(text, k))

(* grep(): buf holds what is left of a line; read() gets what is free of it  *)
(* but one byte.                                                             *)
Grep(re, fd, held) == <<Read(fd, GrepSize - Len(held) - 1), <<"grep read", re, fd, held>>>>

RECURSIVE GrepLines(_, _, _)
GrepLines(re, fd, text) ==
  IF Newline \notin {text[k] : k \in 1 .. Len(text)} THEN Grep(re, fd, text)
  ELSE LET q == SelectInSeq(text, LAMBDA ch : ch = Newline)
       IN (IF match(re, SubSeq(text, 1, q - 1)) THEN <<Write(SubSeq(text, 1, q))>> ELSE <<>>)
          \o GrepLines(re, fd, Rest(text, q + 1))

GrepRead(re, fd, held, r, b) == IF r > 0 THEN GrepLines(re, fd, held \o b) ELSE <<>>

-----------------------------------------------------------------------------
(* One of the three on fd; name is the file's, for wc. *)
Filter(w, re, fd, name) ==
  CASE w = "cat" -> Cat(fd)
    [] w = "wc" -> Wc(fd, name, [l |-> 0, w |-> 0, c |-> 0, inword |-> FALSE])
    [] w = "grep" -> Grep(re, fd, <<>>)

(* main() of the three: standard input, or each file in turn. *)
Open(f) == Sys([op |-> "open", ip |-> f, omode |-> {"rdonly"}])
Files(w, re, args) ==
  FlattenSeq([k \in 1 .. Len(args) |-> <<Open(args[k]), <<"opened", w, re, args[k]>>>>])
Opened(w, re, f, r) ==
  IF r < 0 THEN <<Exit>> ELSE Filter(w, re, r, Chars[f]) \o <<Sys([op |-> "close", fd |-> r])>>
FilterMain(w, re, args) == (IF args = <<>> THEN Filter(w, re, 0, <<>>) ELSE Files(w, re, args)) \o <<Exit>>

GrepMain(args) == IF args = <<>> THEN <<Exit>> ELSE FilterMain("grep", Chars[Head(args)], Tail(args))

Main(w, args) ==
  CASE w = "echo" -> Echo(args) \o <<Exit>>
    [] w = "grep" -> GrepMain(args)
    [] w \in {"cat", "wc"} -> FilterMain(w, <<>>, args)

(* What a program does at point o when the last call returned r and read     *)
(* the bytes b.                                                              *)
Resume(o, r, b) ==
  CASE o[1] = "cat read" -> CatRead(o[2], r, b)
    [] o[1] = "cat write" -> CatWrite(o[2], r, b)
    [] o[1] = "wc read" -> WcRead(o[2], o[3], o[4], r, b)
    [] o[1] = "grep read" -> GrepRead(o[2], o[3], o[4], r, b)
    [] o[1] = "opened" -> Opened(o[2], o[3], o[4], r)
Points == {"cat read", "cat write", "wc read", "grep read", "opened"}

-----------------------------------------------------------------------------
(* What the programs are for, said without their loops.  A line for grep     *)
(* ends with a newline; one that does not fit into buf ends the search.      *)
Fits(c, ch) == c \in {Dot, ch}

(* The places of text up to which re can match from a place in S. *)
RECURSIVE Reach(_, _, _)
Reach(re, S, text) ==
  IF re = <<>> THEN S
  ELSE IF At(re, 2) = Star
  THEN Reach(Rest(re, 3), {k \in 0 .. Len(text) : \E j \in S : j <= k /\ \A i \in j + 1 .. k : Fits(re[1], text[i])}, text)
  ELSE IF re = <<Dollar>> THEN S \cap {Len(text)}
  ELSE Reach(Tail(re), {k \in 1 .. Len(text) : k - 1 \in S /\ Fits(re[1], text[k])}, text)

Selected(re, line) ==
  IF At(re, 1) = Caret THEN Reach(Tail(re), {0}, line) # {} ELSE Reach(re, 0 .. Len(line), line) # {}

GrepMeaning(re, in) ==
  LET ends == <<0>> \o SetToSortSeq({k \in 1 .. Len(in) : in[k] = Newline}, LAMBDA x, y : x < y)
      line == [k \in 1 .. Len(ends) - 1 |-> SubSeq(in, ends[k] + 1, ends[k + 1])]
  IN FlattenSeq([k \in 1 .. Len(ends) - 1 |->
       IF (\A j \in 1 .. k : Len(line[j]) < GrepSize) /\ Selected(re, SubSeq(line[k], 1, Len(line[k]) - 1))
       THEN line[k] ELSE <<>>])

WcMeaning(in, name) ==
  WcLine(Cardinality({k \in 1 .. Len(in) : in[k] = Newline}),
         Cardinality({k \in 1 .. Len(in) : in[k] \notin White /\ (k > 1 => in[k - 1] \in White)}),
         Len(in), name)

FilterMeaning(w, re, in, name) ==
  CASE w = "cat" -> in [] w = "wc" -> WcMeaning(in, name) [] w = "grep" -> GrepMeaning(re, in)

EchoMeaning(args) ==
  IF args = <<>> THEN <<>>
  ELSE Tail(FlattenSeq([k \in 1 .. Len(args) |-> <<Space>> \o Chars[args[k]]])) \o <<Newline>>

==============================================================================
