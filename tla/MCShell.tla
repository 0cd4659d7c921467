-------------------------------- MODULE MCShell --------------------------------
(* TLC instance of Shell: command lines with every construct of the grammar. *)
EXTENDS Shell, TLC

P(w) == execcmd(<<w>>)
W(w, a) == execcmd(<<w>> \o a)
To(c) == redircmd(c, "f", {"wronly", "create", "trunc"}, 1)
Onto(c) == redircmd(c, "f", {"wronly", "create"}, 1)
From(c) == redircmd(c, "f", {"rdonly"}, 0)

MCTrees == {
  P("cat"),
  pipecmd(P("s"), P("cat")),
  pipecmd(P("s"), P("r")),
  To(pipecmd(P("x"), pipecmd(P("b"), P("cat")))),
  pipecmd(listcmd(P("b"), P("b")), P("cat")),
  pipecmd(P("s"), listcmd(P("h"), P("cat"))),
  listcmd(To(P("s")), From(P("k"))),
  listcmd(To(P("s")), From(listcmd(P("r"), P("cat")))),
  listcmd(P("b"), listcmd(To(P("b")), From(P("cat")))),
  listcmd(To(listcmd(P("s"), P("s"))), listcmd(Onto(P("x")), From(P("cat")))),
  listcmd(backcmd(P("s")), P("s")),
  pipecmd(listcmd(W("echo", <<"ab">>), W("echo", <<"b">>)), W("grep", <<"b">>)),
  pipecmd(listcmd(W("echo", <<"b">>), W("echo", <<"abb">>)), W("grep", <<"b">>)),
  pipecmd(W("echo", <<"ab", "b">>), P("wc")),
  listcmd(To(W("echo", <<"ab", "b">>)), W("wc", <<"f", "f">>)),
  listcmd(To(listcmd(W("echo", <<"ab">>), W("echo", <<"b">>))), W("grep", <<"^a*b$", "f">>)),
  listcmd(To(listcmd(W("echo", <<"ab">>), W("echo", <<"b">>))), W("grep", <<"^.*b$", "f">>)) }

CharsOf == [ab |-> <<97, 98>>, b |-> <<98>>, abb |-> <<97, 98, 98>>, f |-> <<102>>] @@
           [w \in {"^.*b$"} |-> <<94, 46, 42, 98, 36>>] @@ [w \in {"^a*b$"} |-> <<94, 97, 42, 98, 36>>]

MCKillable == {pipecmd(P("s"), P("cat")), listcmd(To(P("s")), From(P("k")))}

ModeOf == [f \in {"f", "console"} |-> {"r", "w"}]
==============================================================================
