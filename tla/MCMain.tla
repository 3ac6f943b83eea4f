------------------------------- MODULE MCMain -------------------------------
(***************************************************************************)
(* Instance of Main: every command line of up to two arguments, and longer *)
(* ones that set several options together.                                 *)
(***************************************************************************)
EXTENDS Main

MCToLower(text) == CASE text = "PY" -> "py" [] text = "C" -> "c" [] OTHER -> text

MCNumber(text) ==
  CASE text = "-1" -> -1 [] text = "0" -> 0 [] text = "1" -> 1 [] text = "2" -> 2
    [] text = "3" -> 3 [] OTHER -> BadNumber

arg(opt, value) == [opt |-> opt, value |-> value]

MCArguments ==
  {arg(opt, NoValue) : opt \in FlagOptions \cup {"unknown", "format", "process-path"}}
  \cup {arg("threads", text) : text \in {"-1", "0", "2", "many"}}
  \cup {arg("format", text) : text \in {"xml", "", "svg"}}
  \cup {arg("language", text) : text \in {"PY", "perl"}}
  \cup {arg("out-file", "g.dot"), arg("process-path", "src"), arg("I", "inc")}

path == arg("process-path", "src")
MCLongLines ==
  { <<path, arg("threads", "3")>>,
    <<arg("threads", "2"), arg("out-file", "g.dot"), path>>,
    <<arg("format", "graphml"), path, arg("threads", "2"), arg("out-file", "g.xml")>>,
    <<arg("language", "ruby"), path, arg("ruby-include-path", "lib"), arg("I", "inc")>>,
    <<arg("language", "ruby"), path, arg("c-include-path", "inc")>>,
    <<arg("language", "PY"), path, arg("I", "inc")>>,
    <<arg("I", "inc"), path, arg("c-include-path", "gen")>>,
    <<path, arg("exclude", "old"), arg("recursive-limit", "1"), path>>,
    <<path, arg("threads", "0"), arg("help", NoValue)>>,
    <<arg("help", NoValue), path, arg("format", "svg")>> }

MCCommandLines ==
  UNION {[1..n -> MCArguments] : n \in 0..2} \cup MCLongLines
=============================================================================
