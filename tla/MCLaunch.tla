------------------------------ MODULE MCLaunch ------------------------------
(***************************************************************************)
(* Small builds for Launch: every short command line of callers, single    *)
(* compilations by each driver, pairs of compilations at the same time, of *)
(* files of the same name or not, and a list of commands for cmake.        *)
(***************************************************************************)
EXTENDS Launch

\* a/u.c and b/u.c have the same base name; so have their C++ twins.
MCCFiles == {"a/u.c", "b/u.c", "v.c"}
MCCppFiles == {"a/u.cpp", "b/u.cpp"}
MCObjects == {"u.o", "v.o"}
MCOWords == {"-o", "-object"}
MCLongWords == {"--param"}
MCBaseName ==
  [f \in MCCFiles \cup MCCppFiles |->
     CASE f \in {"a/u.c", "b/u.c"} -> "u.c" [] f = "v.c" -> "v.c" [] OTHER -> "u.cpp"]

Job(driver, type, args) == [driver |-> driver, type |-> type, commands |-> <<args>>]

\* callers by hand: all command lines of up to four words.
Lines == UNION {[1 .. n -> {"-o", "-object", "--param", "--version", "v.c"}] : n \in 0 .. 4}
ByHand == {<<Job("callers", "unset", l)>> : l \in Lines}

\* One compilation, with one option more or less and each kind of analysis.
Extra == {<< >>, <<"-O2">>, <<"--param", "x=1">>, <<"-object", "x">>, <<"--version">>}
Compilations(src) ==
  {<<"-c">> \o e \o <<"-o", "u.o", src>> : e \in Extra}
    \cup {<<"-c", src>>, <<"-o", "u.o", src>>, <<"-o", "u", "u.o">>,
          <<"-c", "-o", "u.o", src, "v.c", "a/u.cpp">>}
Single ==
  {<<Job(d, t, args)>> :
     d \in {"ccc", "c++"}, t \in Types,
     args \in Compilations("a/u.c") \cup Compilations("a/u.cpp")}

\* Two compilations at the same time.
Compile(src) == <<"-c", "-o", "u.o", src>>
Link(src) == <<"-o", "u.o", src>>
Pairs ==
  {<<Job("ccc", "callers", Compile("a/u.c")), Job("ccc", "callers", Link("b/u.c"))>>,
   <<Job("c++", "unset", Compile("a/u.cpp")), Job("c++", "unset", Compile("b/u.cpp"))>>,
   <<Job("ccc", "frama-c", Link("a/u.c")), Job("ccc", "frama-c", Compile("v.c"))>>,
   <<Job("cmake", "callers", Link("a/u.c")), Job("cmake", "callers", Link("b/u.c"))>>}

\* Two commands of a list, the second refused, endless or not, and one without
\* an object file between them.
CMakes ==
  {<<[driver |-> "cmake", type |-> t,
      commands |-> <<Compile("a/u.c"), <<"-c", "v.c">>, <<"-c">> \o e \o <<"-o", "v.o", "b/u.cpp">>>>]>> :
     t \in {"callers", "framaCIRGen", "all"}, e \in Extra}
  \cup {<<[driver |-> "cmake", type |-> "callers",
           commands |-> <<<<"-c", "-object", "x", "-o", "v.o", "b/u.cpp">>, Compile("a/u.c")>>]>>}

MCBuilds == ByHand \cup Single \cup Pairs \cup CMakes
=============================================================================
