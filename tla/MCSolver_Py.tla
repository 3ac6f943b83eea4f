----------------------------- MODULE MCSolver_Py -----------------------------
(***************************************************************************)
(* Solver_Py for TLC: a project /r with a module m.py and a package p that *)
(* holds b.py and the package s; q is both a module q.pyw and a package;   *)
(* d is a directory, but no package, with modules n.py and b.py.           *)
(***************************************************************************)
EXTENDS Solver_Py, TLC

M == <<"/r/m.py">>      P == <<"/r/p/__init__.py">>
N == <<"/r/d/n.py">>
MCFiles   == {M, P}
MCJobFile == <<M, P, M>>
MCNoPath  == <<>>

MCFiles2   == {M, N}
MCJobFile2 == <<M, N>>

Root == <<"/r">>        Sub == <<"/r/p">>           Dir == <<"/r/d">>
MCProcessPath == <<Root, <<"/elsewhere">> >>

MCParentDir(path) ==
  CASE path \in {M, Sub, Dir} -> Root
    [] path = P              -> Sub
    [] path = N              -> Dir
    [] OTHER                 -> <<"/">>

MCModuleFile(dir, path, extension) ==
  CASE dir = Root /\ path = <<"p", "/", "b">> /\ extension = "py" -> <<"/r/p/b.py">>
    [] dir = Sub /\ path = <<"b">> /\ extension = "py"          -> <<"/r/p/b.py">>
    [] dir = Dir /\ path = <<"b">> /\ extension = "py"            -> <<"/r/d/b.py">>
    [] dir = Root /\ path = <<"q">> /\ extension = "pyw"           -> <<"/r/q.pyw">>
    [] dir = Root /\ path = <<"m">> /\ extension = "py"            -> M
    [] OTHER                                                       -> NoPath
MCPackageFile(dir, path) ==
  CASE dir = Root /\ path = <<"p">>    -> P
    [] dir = Root /\ path = <<"q">>    -> <<"/r/q/__init__.py">>
    [] dir = Sub /\ path = <<"s">>  -> <<"/r/p/s/__init__.py">>
    [] dir = Sub /\ path = <<>>     -> P
    [] OTHER                           -> NoPath

pb == <<"p", "b">>
on_lines(imports) ==
  [i \in 1..Len(imports) |-> [import |-> imports[i], line_no |-> i]]

(* Lists and single imports of every form; the same file twice; an import  *)
(* that is not of the project before one of the same name that is (b).     *)
MCReports == { on_lines(imports) : imports \in {
  << Import(<<Simple(0, pb), Renamed(0, <<"p">>), Simple(0, <<"x">>)>>),
     From(Simple(0, <<"p">>), <<Simple(0, <<"b">>), Simple(0, <<"y">>)>>) >>,
  << Import(<<Simple(0, <<"b">>)>>), Import(<<Simple(1, <<"b">>)>>),
     FromStar(Simple(2, <<"q">>)) >>,
  << All(<<Simple(0, <<"b">>), Simple(0, <<"s">>)>>),
     From(Simple(2, <<"p">>), <<Renamed(0, <<"b">>)>>),
     Import(<<Renamed(0, <<"q">>), Simple(0, <<"m">>)>>) >>,
  << FromStar(Simple(0, <<"p">>)), Import(<<Renamed(0, <<"p">>)>>),
     All(<<Simple(0, <<"s">>)>>) >> } }

(* Lists with dots and with as.                                            *)
MCListReports == { on_lines(imports) : imports \in {
  << Import(<<Simple(0, <<"m">>), Renamed(0, <<"p">>)>>) >>,
  << Import(<<Simple(1, <<"b">>), Simple(1, <<"s">>)>>) >>,
  << From(Simple(0, <<"p">>), <<Renamed(0, <<"b">>), Simple(0, <<"y">>)>>) >>,
  << All(<<Simple(0, <<"b">>), Simple(0, <<"s">>)>>), Import(<<Simple(0, <<"q">>)>>) >> } }

(* import b, which is not of the project, before import .b; and __all__ =  *)
(* [] before an import of something that is not of the project.            *)
MCSameEdgeReports == { on_lines(imports) : imports \in {
  << FromStar(Simple(0, <<"p">>)) >>,
  << Import(<<Simple(0, <<"b">>)>>), Import(<<Simple(1, <<"b">>)>>),
     All(<<>>), Import(<<Simple(0, <<"x">>)>>) >> } }
=============================================================================
