-------------------------------- MODULE ShParse --------------------------------
(***************************************************************************)
(* The parser of user/sh.c.  A command line is a sequence of tokens: a     *)
(* word or a symbol, as gettoken() cuts them.  A parsing function gives    *)
(* back the command and the rest of the line; panic() ends the shell       *)
(* process: the command is Panic, and nothing after it is parsed.          *)
(***************************************************************************)
EXTENDS Integers, Sequences

CONSTANT MAXARGS      \* words of one command, user/sh.c

Panic == <<"panic">>
Symbols == {"<", "|", ">", ">>", "&", ";", "(", ")"}

(* The constructors. *)
execcmd(args) == <<"EXEC", args>>
redircmd(c, f, mode, fd) == <<"REDIR", c, f, mode, fd>>
pipecmd(l, r) == <<"PIPE", l, r>>
listcmd(l, r) == <<"LIST", l, r>>
backcmd(c) == <<"BACK", c>>

(* gettoken(): "" at the end of the line. *)
gettoken(s) == IF s = <<>> THEN "" ELSE Head(s)
IsWord(t) == t \notin Symbols \cup {""}
peek(s, toks) == gettoken(s) \in toks

Failed(s) == [cmd |-> Panic, rest |-> s]
Goes(r, toks) == r.cmd # Panic /\ peek(r.rest, toks)

RECURSIVE parseredirs(_), Args(_, _), Backs(_), Below(_, _), parseline(_), parsepipe(_)

(* parseredirs(): every redirection is wrapped around the ones before it. *)
Redir(c, op, f) ==
  CASE op = "<" -> redircmd(c, f, {"rdonly"}, 0)
    [] op = ">" -> redircmd(c, f, {"wronly", "create", "trunc"}, 1)
    [] op = ">>" -> redircmd(c, f, {"wronly", "create"}, 1)
parseredirs(r) ==
  IF ~ Goes(r, {"<", ">", ">>"}) THEN r
  ELSE IF ~ IsWord(gettoken(Tail(r.rest))) THEN Failed(r.rest)
  ELSE parseredirs([cmd |-> Redir(r.cmd, Head(r.rest), r.rest[2]), rest |-> Tail(Tail(r.rest))])

(* parseexec() puts the words it meets into the one EXEC node, below the     *)
(* redirections it meets: Below(c, a) is c with that node's words a.         *)
Below(c, a) ==
  IF c[1] = "EXEC" THEN execcmd(a) ELSE redircmd(Below(c[2], a), c[3], c[4], c[5])

Args(r, a) ==
  IF r.cmd = Panic THEN r
  ELSE IF peek(r.rest, {"|", ")", "&", ";", ""}) THEN [r EXCEPT !.cmd = Below(@, a)]
  ELSE IF ~ IsWord(Head(r.rest)) \/ Len(a) + 1 >= MAXARGS THEN Failed(r.rest)
  ELSE Args(parseredirs([r EXCEPT !.rest = Tail(@)]), Append(a, Head(r.rest)))

parseblock(r) == IF Goes(r, {")"}) THEN parseredirs([r EXCEPT !.rest = Tail(@)]) ELSE Failed(r.rest)

parseexec(s) ==
  IF peek(s, {"("}) THEN parseblock(parseline(Tail(s)))
  ELSE Args(parseredirs([cmd |-> execcmd(<<>>), rest |-> s]), <<>>)

(* The two commands of a pair become one, unless the right one fails. *)
Piped(l, r) == IF r.cmd = Panic THEN r ELSE [r EXCEPT !.cmd = pipecmd(l.cmd, @)]
Listed(l, r) == IF r.cmd = Panic THEN r ELSE [r EXCEPT !.cmd = listcmd(l.cmd, @)]

(* Mutation: a pipeline ends after its second command. *)
PipeOnce(l) == IF Goes(l, {"|"}) THEN Piped(l, parseexec(Tail(l.rest))) ELSE l

PipeRest(l) == IF Goes(l, {"|"}) THEN Piped(l, parsepipe(Tail(l.rest))) ELSE l
parsepipe(s) == PipeRest(parseexec(s))

Backs(r) == IF Goes(r, {"&"}) THEN Backs([cmd |-> backcmd(r.cmd), rest |-> Tail(r.rest)]) ELSE r
LineRest(l) == IF Goes(l, {";"}) THEN Listed(l, parseline(Tail(l.rest))) ELSE l
parseline(s) == LineRest(Backs(parsepipe(s)))

(* parsecmd(): the test for a builtin cd looks at what is left of the line,  *)
(* which is empty there, so that a command is never a BUILTIN; main() has    *)
(* already dealt with cd.  nulterminate() ends the words in place.           *)
Whole(r) == IF r.rest # <<>> THEN Panic ELSE r.cmd
parsecmd(s) == Whole(parseline(s))

-----------------------------------------------------------------------------
(* A command written as a line, from the grammar the parser is meant for:    *)
(*   line ::= pipe &* [; line]     pipe ::= exec [| pipe]                    *)
(*   exec ::= redir* word (word | redir)*  or  ( line ) redir*               *)
RECURSIVE Text(_, _), Plain(_)

(* Plain(c): c is one EXEC with redirections. *)
Plain(c) == c[1] = "EXEC" \/ (c[1] = "REDIR" /\ Plain(c[2]))

(* Text(c, level): level 0 is a line, 1 a pipe with its &, 2 a pipe, 3 an exec. *)
Level(c) == CASE c[1] = "LIST" -> 0 [] c[1] = "BACK" -> 1 [] c[1] = "PIPE" -> 2 [] OTHER -> 3
RedirOp(c) == IF c[5] = 0 THEN "<" ELSE IF "trunc" \in c[4] THEN ">" ELSE ">>"
Paren(t, need) == IF need THEN <<"(">> \o t \o <<")">> ELSE t
Text(c, level) ==
  Paren(CASE c[1] = "EXEC" -> c[2]
          [] c[1] = "REDIR" -> Text(c[2], IF Plain(c[2]) THEN 3 ELSE 4) \o <<RedirOp(c), c[3]>>
          [] c[1] = "PIPE" -> Text(c[2], 3) \o <<"|">> \o Text(c[3], 2)
          [] c[1] = "LIST" -> Text(c[2], 1) \o <<";">> \o Text(c[3], 0)
          [] c[1] = "BACK" -> Text(c[2], 1) \o <<"&">>,
        Level(c) < level /\ ~ Plain(c))

==============================================================================
