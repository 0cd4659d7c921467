--------------------------------- MODULE MCFs ---------------------------------
(* TLC instance of Fs: pairs of processes whose calls meet in a directory, an *)
(* inode, the last block or the last inode.                                   *)
EXTENDS Fs, TLC

Call(op) == [op |-> op, path |-> <<>>, new |-> <<>>, omode |-> {}, mode |-> {}, major |-> 0, fd |-> 0,
             n |-> 0, good |-> 0, parent |-> FALSE]
On(op, path_) == [Call(op) EXCEPT !.path = path_]
Open(path_, o) == [On("open", path_) EXCEPT !.omode = o]
Link(old, new_) == [On("link", old) EXCEPT !.new = new_]
Chmod_(path_, m) == [On("chmod", path_) EXCEPT !.mode = m]
Mknod(path_, m) == [On("mknod", path_) EXCEPT !.major = m]
Copies(op, k, g) == [Call(op) EXCEPT !.n = k, !.good = g]
Wr(k) == Copies("write", k, k)
Rd(k) == Copies("read", k, k)

A == <<"/", "a">>
B == <<"/", "b">>
D == <<"/", "d">>
E == <<"/", "d", "e">>
New == {"wronly", "create"}
Ro == {"rdonly"}

Pair(x, y, crash_, room_) == [calls |-> (1 :> x @@ 2 :> y), crash |-> crash_, room |-> room_]

MCScenario == {
  Pair(<<On("unlink", A)>>, <<Open(A, Ro), Rd(2), Call("close"), Call("exit")>>, TRUE, 2),
  Pair(<<Link(A, B), Link(A, B), Link(A, <<"a", "x">>)>>, <<On("unlink", A), On("unlink", B)>>, FALSE, 2),
  Pair(<<Open(B, New), Wr(3), Rd(1), On("mkdir", D)>>,
       <<Open(B, New \union {"trunc"}), On("unlink", B), Wr(1), Call("close")>>, FALSE, 2),
  Pair(<<Open(A, {"rdwr"}), Copies("write", 3, 2), Copies("read", 2, 1), Call("close")>>,
       <<Open(B, {"rdwr", "create"}), Copies("write", 2, 0), Rd(1)>>, TRUE, 1),
  Pair(<<On("mkdir", D), On("chdir", D), Open(<<"x">>, New), Call("close"), On("chdir", <<"/">>)>>,
       <<On("unlink", D), On("mkdir", D), On("mkdir", <<"/">>)>>, TRUE, 2),
  Pair(<<On("mkdir", D), Mknod(<<"d", "x">>, 1), On("unlink", D), On("unlink", <<"d", "x">>)>>,
       <<On("unlink", D), On("chdir", A), Open(D, {"wronly"}), Link(D, B), On("unlink", <<"d", ".">>)>>, FALSE, 2),
  Pair(<<On("mkdir", D), On("mkdir", E), On("chdir", E), Open(<<"..">>, Ro), Call("close"), Open(<<>>, Ro)>>,
       <<On("unlink", D), On("unlink", E)>>, FALSE, 2),
  Pair(<<On("mkdir", D), On("mkdir", E), On("chdir", E), Open(<<"x">>, New), On("chdir", <<"/">>)>>,
       <<On("unlink", E), On("unlink", D), On("mkdir", B)>>, TRUE, 2),
  Pair(<<Mknod(B, 0), Open(B, Ro), Wr(1)>>, <<Open(B, {"rdwr"}), Rd(1), On("unlink", B), Mknod(B, 1)>>, FALSE, 2),
  Pair(<<Chmod_(A, {"r"}), Open(A, {"wronly"}), Open(A, Ro), Wr(1)>>,
       <<On("unlink", A), Open(A, New), Wr(1)>>, FALSE, 2) }

(* A process stays in a directory whose parent is removed as well, and goes   *)
(* up from there.                                                             *)
ParentScenario == {
  Pair(<<On("mkdir", D), On("mkdir", E), On("chdir", E), Open(<<"..">>, Ro)>>,
       <<On("unlink", E), On("unlink", D)>>, FALSE, 2) }

MCNames == <<"a">>
==============================================================================
