# Callers: a TLA+ verification project

`callers` and `callers++` are clang frontends that record, for every file of a
C or C++ program, the functions it declares and defines, who calls them and
whom they call, its records, namespaces and threads.  Results are json files
below `/tmp/callers`, one per source or header file, that every analysis of a
translation unit reads and rewrites: "a distributed database, gathering
incrementally the analysis results of each analysis step"
(`doc/callers.org:1457`).  This directory holds a specification of that program
in TLA+, the TLC configurations that check it on small instances, and proofs
that TLAPS checks for instances of any size.

## 1. Inventory

### The parts of the system

| part | code | state | operations |
|---|---|---|---|
| Drivers | `bin/scan-callers`, `bin/ccc-analyzer`, `bin/c++-analyzer`, `bin/cmake_analysis.sh`, `bin/prepare_frama_clang_analysis.sh` | launch scripts, written and sourced in the directory of the build; exit statuses | run one analysis per compilation, one after the other or as many at a time as `make -j` |
| Frontends | `c/callers.cpp`, `cpp/callers++.cpp` | command line, `CompilerInstance` | parse arguments, run `CallersAction` |
| Traversal | `visitor.cpp`, `visitor.h` | `pfdParent`, `sParent` (the current function), `currentJsonFile` | `VisitFunctionDecl`, `VisitCallExpr`, `VisitRecordDecl`, ...: turn AST nodes into calls of the operations below |
| Dir | `CallersData.cpp:235-400` | the set of opened `File`s, ordered by path | `create_or_get_file`, `output_json_files`, `update_metrics` |
| File | `CallersData.cpp:404-2360` | sets of namespaces, records, threads, declared and defined functions | `parse_json_file`, `get_or_create_*`, `add_*`, `add_function_call`, `output_json_desc` |
| Declarations, definitions | `CallersData.cpp:3486-4640` | callers, callees, definitions, redeclared methods of a function | `add_local_caller`, `add_external_callee`, ... |
| Records, inheritance | `CallersData.cpp:2755-3320`, `visitor.cpp:2138-2277` | bases, children, methods, members, redeclared methods | `VisitInheritanceList`, `try_to_add_redeclared_and_redeclaration_methods` |
| Namespaces | `CallersData.cpp:2360-2755` | records and calls of a namespace | `get_namespaces`, `add_namespace_calls` |
| Threads | `CallersData.cpp:1441-1483, 3320-3485` | routine and creator of a thread | `add_thread` |
| Writer | `CallersData.cpp:181-232` | the json file being written, its symbolic link | constructor truncates, destructor links and closes |
| Metrics | throughout `CallersData.cpp` | counters beside the sets | `complete_metrics`, `output_metrics` |

A process analyses one unit.  The constructor of `Visitor` opens the json file
of the unit.  The traversal asks the `Dir` for the other files as it comes to
them; a file is created in memory, registered, and filled from its json file,
which may open further files.  The destructor of `Visitor` rewrites every file
that was opened.  Processes share nothing but the json files, and lock nothing.

### What is hard, and what makes each part correct

* *The store.*  Reading and rewriting are far apart, so analyses run in
  parallel can lose each other's facts; a file is truncated long before its
  text is complete; `exit()` and `ASSERT` run no destructor; no `FILE` is ever
  closed; headers of the same base name share a json file.  Correct means: what
  was written is kept, what was not finished leaves no trace, and a file becomes
  unreadable only for a reason one can name.
* *The call graph.*  A call is recorded at its caller and at its callee, most
  often in two files that are rewritten one after the other; declarations and
  definitions come in any order, from several units, more than once.  Correct
  means: both ends agree, what was analysed is recorded, and analysing again
  changes nothing.
* *The traversal.*  The caller of an expression is a pair of member variables
  that every function declaration sets and nothing restores.  Correct means: a
  call is attributed to the function that contains it.
* *Records.*  Inheritance, redeclaration and calls between records are recorded at
  both ends, most often in two files; a base class may never be visited (its
  namespace is filtered), a record may be used before it is defined, and another
  configuration may have recorded it without its bases.  Correct means: both ends
  agree, and what is in a unit is recorded whatever was known before.
* *Namespaces.*  The namespace of a record is computed from clang's scopes and
  from the text of its name, and asserted to be the same; reading a json file runs
  these assertions again.  Correct means: an analysis stops only at declarations
  one can name, what it writes can be read, and calls between namespaces are those
  of the program.
* *Identity of files.*  A header is recognised by the end of its base name, and
  its json file by its base name.  Correct means that the properties of records
  and of the store do not depend on these names; those of the store do.
* *Launching.*  A driver writes a script piece by piece, named after the base name
  of its unit, in a directory it shares with the jobs of the same build.  Statuses
  are lost in several places, and one loop over the arguments may not end.
  Correct means: a status of zero says that the unit was analysed, a job runs its
  own script, and everything ends.
* *Metrics.*  Counters are kept beside the sets, asserted equal to their sizes,
  and counted again from what the json file holds.  Correct means: the assertions
  never fail, and what is printed is what the files say.

Each hazard is listed with its line and the properties that cover it in
`PROJECT.json`; those without a property say why.

## 2. Plan

The modules, in the order in which they were written:

1. `JsonStore` (+ `AnalysisDatabase`, the abstract specification it implements):
   the shared json files.  *Checked and proved.*
2. `CallGraph`: declarations, definitions, calls and both their ends.
   *Checked and proved.*
3. `Traversal`: the current function of the visitor (`VisitFunctionDecl`,
   `Traverse*Decl`, the four kinds of call expression) against "the function
   whose body contains this expression".  *Checked and proved.*
4. `Records`: inheritance lists, redeclared virtual methods, calls between
   records, and headers recognised by the end of their names.  *Checked and
   proved.*
5. `Namespaces`: the namespace of a declaration, computed in two ways, and the
   calls between namespaces.  *Checked and proved.*
6. `Launch`: the scripts that drivers write, source and overwrite, and the
   arguments of `callers`.  *Checked and proved.*
7. `Metrics`: counters against sizes of sets, through a write and a read.
   *Checked and proved.*

`JsonStore`, `CallGraph`, `Traversal`, `Records`, `Namespaces` and `Metrics` look
at the same process from six sides.  In `Traversal` a visit only says who calls
what; what it registers is in `CallGraph` for functions, in `Records` for records,
in `Namespaces` for namespaces, where facts have a structure and the steps of one
process between two rewritten files matter; in `Metrics` what is registered is
counted; in `JsonStore` a fact is opaque and the interleaving of processes is
everything.  `Launch` is what happens around these processes.

Left: a module that composes `Traversal` with `CallGraph`, the events of `CallGraph`
being those `Traversal` emits.

## 3. The modules

### `JsonStore`

| TLA+ | code |
|---|---|
| `status[d]`, `json[d]` | the physical json file `d`: absent, unreadable (empty, cut, malformed) or readable with these facts |
| `links` | symbolic links from logical to physical paths |
| `pc[p]` | where process `p` is: constructor of `Visitor` (`init`), traversal (`visit`), `output_json_files` (`output`, `writing`, `closing`, `linking`), or how it ended |
| `opened[p]`, `mem[p][f]` | the `File`s of its `Dir` and the facts in their sets |
| `todo[p][f]`, `nested[p][f]` | the facts the traversal, or an operation under way, has still to register |
| `fds[p]` | the json files that were opened for reading, never closed |
| `written[p]` | the files whose text is out |
| `contended[p]` | another writer had the file `p` is writing truncated meanwhile (for `Write`) |

`Start` is the driver.  `OpenAbsent`, `OpenParsed` and `OpenMalformed` are
`create_or_get_file` with the three outcomes of `parse_json_file`; the file is
registered before it is parsed, and what parsing registers elsewhere goes to
`nested`.  `Register` is any `add_*` operation.  `OpenForWrite`, `Write`,
`Close`, `MissLink`, `CreateLink` are a `JsonFileWriter` from its constructor to
its destructor; `OpenForWriteFails`, `WriteFails`, `CreateLinkFails`,
`CompileError` and `Kill` are the ways out.

`Persistent` are the facts that `parse_json_file` reads back: all but some that
a process keeps in memory only, such as the virtual methods a record may
redeclare.  `Breaking` are those whose text is not json: names are written
without escaping, so a function `operator"" _km` breaks its file.

`AnalysisDatabase` is what the documentation promises: a file only gains facts,
until it is lost with all it holds.  `JsonStore` implements it with `base <-
Gathered` and `lost <- LostFiles`, where a file that is being rewritten counts
for the text it is about to receive.

### `CallGraph`

A fact says that file `in` lists, for function `of`, the function `to` under
`rel`: its declaration, its definition, a local or external caller or callee.
`graph` is what the running process sees, `disk` what the json files hold;
`opened` and `written` tell them apart.  An entry equal by signature to one
already there is not inserted (`Insert`), as in the `std::set`s of the code.
`Visit` is one event of the traversal: it opens the files it needs (`OpenWith`,
with those that parsing opens in turn, and `Relink`, the definitions that
parsing links to their declarations again), then applies
`VisitFunctionDeclaration`, `VisitFunctionDefinition` or `add_function_call`
(`Effect`).  `Rewrite` is one file of `output_json_files`.  `Stop` is the end of
the process anywhere.

The module models the C frontend: free functions of the global namespace, where
the parts of `add_function_call` about records and namespaces and
`try_to_add_redeclared_and_redeclaration_methods` do nothing.  The main file of
a unit is a source file, so `is_same_file` is equality of paths.  Analyses run
one after the other and files are rewritten at once; what happens otherwise is
`JsonStore`'s subject.  The set `File::calls` is written and never read, and is
left out.  Events carry the position of a declaration because the visitor
computes it; the position of a definition is its file.

### `Traversal`

| TLA+ | code |
|---|---|
| `unit` | the nodes clang hands to the visitor, in the order of its walk, with their depth in the tree |
| `next` | the node it comes to next |
| `pfdParent` | the member variable of that name (`sParent` follows it): the last function visited |
| `calls`, `defined` | what `add_function_call` and the visits of definitions registered, and where it matters here: who calls what, and what is listed as defined |
| `status` | running, at its end, crashed (a null pointer) or aborted (`ASSERT`) |

`TraverseNot` are the `Traverse*Decl` methods when they return without going
down: templates, members of templates, builtins, friends; clang's walk itself
passes over what clang declares without a place in the source (`unplaced`), such as
the global `operator new` and `operator delete`.  `VisitFunctionDecl`
sets the caller, and asks a definition for the lines of its first declaration
(`visitor.cpp:1903`), which must have a place; so must what `VisitCallExpr` is about
to register (`visitor.cpp:1592`), which for a definition is its first declaration as
well (`Unplaced`).  The visits of calls, constructors, `new` and `delete` each have
their own order of filtering, checking `pfdParent` and registering.  A node refers to the first declaration of the
function it is about, or to `None`: a builtin, the `malloc` of an implicit
`operator new`, nothing for an implicit `operator delete`.  Calls through a
pointer are not nodes, since `VisitCallExpr` does nothing for them.  The branch
of `VisitCXXDeleteExpr` that calls the destructor is dead: it looks for a record
in the type of the delete expression, which is `void`.  `ASSERT` is taken to
abort (`gdb_debug.h`), as it does unless `NDEBUG` is defined.

### `Records`

A fact says that file `in` lists, for the record or function `of`, the record or
function `to` under `rel`, and that `to` is at `at`.  The relations with two ends
are `inherits`/`inherited` (bases and children), `redeclared`/`redeclaration`
(of virtual methods) and `calls`/`called` (between records).  `candidate` are
the virtual methods of the bases of a record, `Record::redeclared_methods`, which
are kept in memory and not output.  `at` is `NoPlace` for a record with lines -1,
and for a declaration that was read back, whose file is known by its base name
only.

`VisitRecord` is `VisitRecordDecl` with `VisitInheritanceList`; `Declare` is
`get_or_create_declared_function` with
`try_to_add_redeclared_and_redeclaration_methods`, whose recursion through the
redeclared method's own record is the closed form `Redeclared`, the least set
closed under "what this one redeclares"; `VisitCall` is the part of
`add_function_call` about records.  `place` is the file of the caller's
declaration as the visit of the call says it, which for a construction is the
file of the constructor.  `Start`, `Rewrite`, `Finish` and `Stop` are as in
`CallGraph`.

`Home` is `is_same_file` with its two arguments: a header takes for itself every
file whose base name ends with its own (`Endings`), so that the candidate
`data.h` gives to a class of `a.h` is looked for, and the redeclared method
registered, in `a.h`.

Assumed: a record and the declarations of its methods are in one file, and
records are found by their full name (`Namespaces`).  `SourceAssumption` and
`CalleesAssumption`, which TLC evaluates on the program of the runs, say of a
method that redeclares a virtual one what C++ and the traversal make sure of.  Its
record is defined once in a unit, before the method is visited, since the walk
comes to a class before its members; whoever derives from this record has its
definition above, hence the declaration of the method, for a base class is
complete (and the namespace that decides whether they are of interest,
`visitor.cpp:2062`, is the same in every unit); and a unit that calls the method
declares it.  Without them a unit could register the method as if its class had no
base (`NoRecord`), and the next would find it and leave it so.
The members of a record are
never added by the visitor, and the redeclarations of a record, as opposed to
those of a method, by nobody.

### `Namespaces`

| TLA+ | code |
|---|---|
| a `String` | a name, as the sequence of its parts between two `::`: concatenation with `::` is `\o`, the empty string has one empty part, and the name `"::"` of the root namespace two |
| a `Scope` | a namespace or a class around a declaration: its name, and the text that has its template arguments too |
| `printQualification`, `printQualifiedName`, `printRecordName`, `printRootQualification`, `printRootNamespace` | the operations of `visitor.cpp` with these names |
| `get_namespaces` | that of `CallersData.cpp`; `Failed` when its assertion about the record fails |
| `NamespaceOfInterest` | `isDeclarationOfInterest`, with the namespaces of its string in `Filtered` |
| a `Request` | `get_or_create_record`: which file asks for which record, in which namespace, in which file |
| `Inconsistent` | the assertions of the constructor of `Record` |
| `Registered`, `NamespaceCalls` | `get_or_create_record`, and the end of `add_function_call` |
| `graph`, `disk`, `opened`, `written` | as in `CallGraph` |
| `aborted`, `done` | the visits at which an assertion failed, and the units analysed to their end |

A `Visit` either aborts (`Fails`), and then nothing of the process is kept, or
registers.  `Rewrite`, `Finish` and `Stop` are as in `CallGraph`.

The programs are those clang accepts, with names the analyser does not use itself
(`Identifiers` has none of `Reserved`): a class called `C_code` would be taken for
no class at all.  A text of several parts is one with template arguments, whose last
part ends with `>`; a name of several parts is that of a conversion, whose first
part begins with `operator`.  An inner part of a text is empty when an argument is a
type of an anonymous namespace (`T<::::key>`); no part of a method's name is, since
clang itself writes it, with `(anonymous namespace)`.  The namespace that is no
namespace is not one of those filtered, as their string has no `"::"` in it
(`visitor.cpp:2073`).

### `Launch`

| TLA+ | code |
|---|---|
| `build` | the jobs `make` runs at the same time in one directory, each a driver, the analysis type and its commands |
| `script[s]` | a launch script: its pieces, the lines for one tool of one command |
| `unwritten[j]`, `offset[j]` | what the function that writes the script has still to `echo`, and where the next one goes |
| `running[j]` | what is left of the script after `source` has read it |
| `status[j]` | `$?`, and the exit status at the end |
| `parsing[j]` | the loop over the arguments in `ProcessArguments` |
| `done`, `outputs` | which tool has gone through which command, and the files `gzip` wants |
| `unbegun` | the units that `callers` ended with zero for without analysing them (history) |
| `mixed` | the jobs that were at a script of the same name at the same time (history) |

`SourceOf`, `ToolsOf`, `ToolPieces` are `prepare_frama_clang_analysis.sh`: which
tools a command gets, and what follows each of them.  `Check` is the test of
`$?` that returns from the script; `Ignore` is the same test with `$?` expanded
while the script is written, which the C++ functions of frama-clang and
framaCIRGen have; `Gzip` compresses the output and fails without one.  A command
that names no object file, or a `.c` and a `.cpp` file, gives an empty script.
`Return` is the end of the driver, where `c++-analyzer` has its `exit` commented
out.  `ProcessOutput`, `ProcessLong`, `ProcessOther` are the cases of
`ProcessArguments::process`, `Analyse` is the rest of `main`: an analysis ends
well, or with a failure, or clang cannot begin with the unit, for instance because
its precompiled header was made without the language options that `main` sets.
`main` does not look at what `ExecuteAction` returns (`c/callers.cpp:184`,
`cpp/callers++.cpp:179`), so that it ends with zero then too, and the output file is
there, which the constructor of `CallersAction` has opened (`visitor.h:45`).

Two jobs that compile files of one base name write one script: the shell of each
truncates it and then writes at its own offset, so that one's pieces fall on the
other's or leave a hole, which `Readings` lets the shell skip or refuse.  So do
two runs of `cmake_analysis.sh`, whose script has one name for all.  The compiler and the frama tools are external: they end, with either status.

### `Metrics`

A file has a set of entries (namespaces, records, declared and defined functions),
a counter for each kind and one of lines.  `Add` is `add_namespace`, `add_record`,
`add_declared_function` and `add_defined_function`: an entry is counted if the set
has grown, with the lines of what is inserted (the copy in the set loses those of
a record).  `Parsed` is the reading of a json file, whose counters are not read:
the entries are counted again.  A record registered by its name has lines -1 to -1:
none when it is created, `-1 + 1 - -1`, that is one, when it is read back
(`LinesVisited`, `LinesRead`).  Opening a file opens those where what it defines is
declared (`ToOpen`), and so on, so that the files an analysis counts depend on
those before it.  `UpdateMetrics`, `Rewrite` and `OutputMetrics` are the three statements
of `~Visitor`, in their order.

## 4. The runs

| run | shows | bounds |
|---|---|---|
| `store_seq` | analyses one after the other: all properties and the refinement | 3 processes, 4 files, 4 facts, 2 descriptors |
| `store_par` | analyses in parallel: what holds without a lock | 3 processes sharing a header, one of them with a second header of the same base name |
| `store_lost` | violation: in parallel, a fact written by one analysis is lost | 2 processes |
| `graph_ends` | the call graph: both ends, recording, names of callees, analysing again | 3 units, 4 files, 6 functions |
| `traversal_callers` | the caller of a call, the calls of a unit, what stops a walk | all units of up to 3 nodes, all of 4 nodes of 5 kinds, one of 31 nodes |
| `traversal_assert` | violation: an initializer before the first function has no caller | same |
| `records_ends` | records: both ends, recording, lines, analysing again | 3 units, 5 files, 7 records |
| `records_homes` | violation: a caller's record in the file of a constructor | same |
| `namespaces_stops` | which declarations stop an analysis, what is registered of namespaces, that it can be read | every declaration in up to 3 scopes, 168 calls, 2 units sharing a header |
| `namespaces_assert` | violation: the two namespaces of a record differ | same |
| `launch` | what a status of zero says, whose script is run, that everything ends | command lines of up to 4 words, 204 single compilations, 4 pairs, 16 lists of commands |
| `metrics` | counters and sets, totals printed and written | 3 units, 4 files, 7 names |

Bounds.  `store_seq` has two units that include one header and a third analysis
of the first unit that does not, two files that derive facts in one another (so
that opening them is cyclic), a fact that breaks its file and one that does not
survive reading; `MaxFds` = 2 makes descriptors run out for some processes and
not for others.  A loss in parallel needs two processes; `store_par` has a third, so that the last
of them reads what the first two have left, and two headers in one json file.  `graph_ends` has a header
with inline functions that call into another header function and into the main
file, static functions of one signature in two files, recursion, builtins and
two configurations of one source file; the number of analyses is not bounded:
the graph is.

In `traversal_callers` every sequence of nodes that C++ allows, up to the bound,
is an initial state: a property of two nodes and something between them has all
its cases with three or four nodes (a function, a declaration in its body, a call
after it, something skipped).  The unit of 31 nodes has them together: a header
with a class and members that use later members, a template, a constructor, an
initializer, a prototype in a body, operators new and delete.  Functions that
clang declares itself are taken at the outermost level, called, declared again and defined.  `records_ends` has
a class hierarchy of three levels over two headers, two bases that declare the
same virtual method, one of them in a library that is never visited, a nested
class used before its definition, and two configurations of a unit, one of which
lacks an inheritance list; the name of the library's header ends with that of one
of the program.  The number of analyses is again not bounded.

`namespaces_stops` takes every chain of up to three scopes that has namespaces
outside and classes inside, of two names, of none, and with template arguments
that contain one `::`, two, or two with nothing in between; what the operations tell
apart is the first and the last scope, whether there is one in between, and whether
a text has two parts or more.  `launch` has each driver with each kind of
analysis and of command line, one compilation at a time; the pairs are two C units
of one base name, one of which is only linked, two C++ units of one base name, and
two units with scripts of their own.  `metrics` has files that open one another
through a declaration that only one configuration has, a record registered before
its definition, and entries that two units share.

Properties of `JsonStore`:

* `OnlyPublishedFacts`: a json file holds only work of processes whose traversal
  went to its end.  Holds in parallel too.
* `FactsKept`: what a process wrote stays, unless the file becomes unreadable.
  Holds when analyses run one after the other and no two headers share a json
  file, with descriptors running out: then the rewriting fails as well, before
  truncating.  In parallel it is violated (`store_lost`), and so it would be with
  one process that includes two headers of the same base name
  (`CallersData.cpp:429`): the second to be written replaces the first.
* `BrokenForAReason`, `BrokenForever`: an unreadable file was being written by
  the process that stopped, or holds a fact with malformed text; and it stays so,
  because whoever needs it exits.
* `EveryAnalysisEnds`: files that refer to one another do not make an analysis
  loop.  Under weak fairness of the steps of each process: a process waits for
  nothing but the disk, so the operating system's scheduling is enough.  Starting
  an analysis and the faults are not fair.
* `DatabaseSpec`: the refinement.

Properties of `CallGraph`:

* `CallsAtBothEnds`: who asks whether a function is dead code looks at its
  callers (`doc/callers.org:36-39`), who draws a call graph follows callees; both
  see the same calls, but for units stopped between two rewritten files, until
  they are analysed again.
* `AnalysedIsRecorded`: what has been analysed to the end is recorded and stays.
* `AnalysedAgain`: analysing again changes no call.
* `CalleesNamed`: a callee in another file is listed under the mangled name its
  declaration has there, so that following a call ends at a function.  One of the
  four cases of `add_function_call` gives the name of the caller instead
  (`CallersData.cpp:1951`): a function of a header that calls one of the main file;
  the property says that it is the only one.

Properties of `Traversal`:

* `CallerIsEnclosing`: a call in a body is a call by that function, as long as no
  other function is declared in the body before it.  The condition is what the
  code needs: after a prototype in a body, or a member of a local record, the
  calls that follow are attributed to it.
* `CallsComplete`: a walk that ends has recorded the calls of the unit, all and
  only, with one caller each; skipping a declaration loses nothing but what is
  below it.
* `BodiesAreSafe`: what a visit needs of the caller and of what is called is there
  in every body, but in three cases, which end the analysis: the first
  `pthread_create` (`visitor.cpp:1704`); the call of a function that clang declared
  at no place of the source, such as `::operator new(n)` (`visitor.cpp:1592`), or of a
  definition that has such a first declaration; and the visit of such a definition
  (`visitor.cpp:1903`).  Any other visit that stops a walk is in an initializer.
* `ParentAsserted`: what the assertions of the visitor expect of the caller of an
  expression.  Violated (`visitor.cpp:1553`).

Properties of `Records`:

* `BothEnds`, `AnalysedIsRecorded`, `AnalysedAgain`: as for calls.  What is
  redeclared is recorded also when another configuration has left declarations
  behind that redeclare nothing.  Of several base classes that declare a virtual
  method only the first by name is kept, which `FirstBases` says.  Analysing
  again changes nothing at all in the json files, not even the place of an entry.
* `PlacelessForAReason`: a record that was visited has the lines of its definition,
  unless something had registered it by its name before, in the same unit or in
  another (`CallersData.cpp:1350`).
* `CallersAtHome`: a record calls from the file that defines it.  Violated
  (`visitor.cpp:1095`).

Properties of `Namespaces` (they define namespaces again, from scopes alone):

* `StopsForAReason`: the assertions stop an analysis at the declarations of `Stops`
  and only there: a class in a named scope of an anonymous namespace, a class
  whose outermost name has template arguments with `::`, a nameless class directly
  in a namespace, a base class in a global class, a method of a nameless class of
  a global class, a method of a global class whose own name has a `::`
  (a conversion to `ns::T`).  The exceptions are part of it: a nameless class of
  `Hash<ns::Key>` is found in the namespace `Hash<ns` both ways; a method of a
  global class `C` that converts to `ns::C::T` is taken for one of a class `C` of a
  namespace, the name of the operator up to its first `::` (`Misread`), and two
  methods of one class may call one another without the caller's class being asked
  for.
* `ReadsBack`: what is on the disk satisfies the assertions of the operations that
  read it.
* `RecordsListed`: a record is in the file that defines it and in the namespace of
  its outermost scope, there and in the main file of every unit that has it.
* `CallsExact`: the calls between namespaces of a source file are those of its
  functions, at both ends, none missing and none made up.
* `NamespacesAgree`: no assertion ever fails.  Violated (`CallersData.cpp:2882`).

Properties of `Launch`:

* `ToldOrDone`: when `ccc-analyzer` or `cmake_analysis.sh` ends with a status of
  zero, `callers` went through every unit, but in three cases.  One is a unit that
  clang could not begin to read: `callers` ends with zero, and there is a file for
  `gzip`, so that nobody is told (`callers.cpp:184`).  The others are a unit whose
  arguments it refuses, or which asks for its version (`--version` is an option of
  compilers too): both end with zero as well (`callers.cpp:134`), and what is then
  seen is that `gzip` has no file, if nothing comes after it and no earlier build has
  left one (the directory is taken to have none).  An analysis that
  failed is always told.  `c++-analyzer` passes no failure on.
* `OwnWork`: what runs for a job comes from its own command, unless another job was
  at a script of the same name at the same time.
* `EveryJobEnds`: each job ends, but for one that gives `callers` a long option
  other than `--version`, which the loop never counts (`callers.cpp:97`).  Under
  weak fairness of the steps of each job: jobs are processes that wait for nothing
  but their own children, which the operating system runs; the external tools are
  taken to end.
* `ArgumentsRead`: the loop does what the argument list says by a definition without
  a loop: which lists are refused, which are endless, and that a refused one leaves
  nothing behind.

Properties of `Metrics`:

* `CountersExact`: counters are sizes of sets, and lines those of the entries, but
  for the records a process has created by their name.
* `TotalsWritten`: what is printed is the sums of what the rewritten files say.
* `NeverLess`: a counter of a json file never decreases.
* `SameTotals`: analysing a unit again at once prints the same totals, with one
  line more for each record without lines that the first analysis has created.

Each property of a passing run has a mutant: a definition of the model changed as
a plausible bug would, for which TLC finds the property violated.

## 5. The proofs

`JsonStoreProofs`, from `StoreAssumption` and `WorkClosed`:

* `TypeCorrect`: `Spec => []TypeOK`.
* `AllOrNothing`: `Spec => []OnlyPublishedFacts`.  The property says nothing of
  facts on their way (`todo`, `nested`); the invariant adds that both belong to
  the work of the process or come from published facts, which `WorkClosed` makes
  closed under derivation, and that a process writes only when nothing is left.
* `Kept`: `Exclusive => (Spec => []FactsKept)`.  The invariant follows a fact
  from the file to the memory of the one process that runs: whoever has a file
  opened has all its persistent facts in memory or still to come through
  `nested`, or has no descriptor left and so cannot write.
* `NeverRepaired`: `Spec => BrokenForever`, in parallel too.  Whoever comes to
  need a broken file exits, or has no descriptor left and then takes it for one
  that does not exist; the invariant `WriterInv` adds that a process which writes
  has a descriptor, so the latter never writes.
* `BrokenHasReason`: `~Parallel => (Spec => []BrokenForAReason)`.  At most one
  process runs, so that no two texts are ever mixed (`SequentialInv`); a text that
  comes out broken holds a fact that has no well-formed text, and
  `OnlyPublishedFacts` says whose.  Files may share a json file here.

`JsonStoreRefinement`, from the same assumptions:

* `GathersIncrementally`: `Exclusive => (Spec => DatabaseSpec)`.  Each step maps
  to a step of `AnalysisDatabase` or to a stutter.  Opening a file for writing
  makes it count for the text the writer holds, so the proof needs that the writer
  holds all that the file had (`Holds`, for whoever has a descriptor left); every
  step of one process leaves alone what the others count for, because there are no
  others that run.

`CallGraphProofs`, from `CallGraphAssumption`:

* Lemmas on the operators: each of them only adds facts, in the files it opened,
  and leaves its event recorded; one that is recorded already adds no call.
* `TypeCorrect`, and `Inv`: what is not opened, or is rewritten, is the same in
  memory and on the disk; calls that are in memory only are the unit's; events
  before `next` are recorded.
* `Recording`: `Spec => []AnalysedIsRecorded`; at the end memory and disk are
  equal, and the disk only grows.
* `Repeatable`: `Spec => AnalysedAgain`; when the unit was analysed before, its
  memory has the calls of the disk and no others.
* `BothEnds`: `Spec => []CallsAtBothEnds`.  On the disk alone it is not
  inductive; `DiskEnds` adds the unit whose files are being rewritten.
* `CalleesFound`: `Spec => []CalleesNamed`, from `NamesAssumption` as well: in C the
  mangled name of a function is its signature, but the caller of a builtin is given
  the builtin's.  `NamesInv` says under which name a callee may be listed,
  `GraphDeclared` and `DiskDeclared` that it is declared in its file, unless a
  process was stopped in between.

`TraversalProofs`, from `TraversalAssumption` (the shape of a unit: functions are
declared before they are used, but for members of a record):

* Lemmas on trees given as sequences with depths: what is below what, and that
  `TraverseNot` passes over exactly what is below its node.
* `TypeCorrect`, and `Attribution`: the invariant `Walked` says that `pfdParent`
  is the last function before `next` that is not skipped, `CallsOK` the same of
  the caller of each recorded call.
* `Safe`: `DeathOK` says that a walk that stopped, but not at a thread or at a
  function without a place, had no caller, so by `Walked` no function was visited
  before.
* `Complete`: `RecordedOK` says that the calls recorded are those before `next`.

`RecordsProofs`, from `RecordsAssumption`, and the last three from
`SourceAssumption`, the very last from `CalleesAssumption`:

* Lemmas on what each visit registers: all operations only add entries, an entry
  equal to a known one is not added, and what they add is of a shape (`Shaped`) that
  depends on the relation.
* `TypeCorrect`, with `FilesInv`: a file that is rewritten holds the output of what
  is in memory, one that is not holds only what is in memory too.
* `PlacelessExplained`: `Spec => []PlacelessForAReason`.  `ReasonsInv` names, for
  each record without lines, a unit that mentions it before its lines, among those
  analysed, stopped while they were rewritten, and the running one.
* `AnalysesRecord`: `Spec => []AnalysedIsRecorded`.  What a method redeclares is
  found among the candidates of its record, which live in memory only:
  `CandidatesInv` says where they come from, and `UnmaskedInv` that no declaration
  without a record takes the place of one that redeclares something.
* `AnalysingAgain`: `Spec => AnalysedAgain`.  A second analysis has the same
  candidates at each visit (`KnownInv`), so that what it would register is there:
  `SettledInv` describes, visit by visit, a set of candidates closed under
  `Redeclared` whose redeclarations are all registered; the least such set is the
  one the visit uses, and can only be smaller.
* `EndsFound`: `Spec => []BothEnds`.  As for `CallGraph` the invariant speaks of
  the memory, of the json files, and of what only the memory has; a fact without its
  other end needs a stopped unit that `Registers` it, and this has to survive that
  other units declare more.

`MetricsProofs`, from `MetricsAssumption`:

* Lemmas on finite sets and sums: induction over the subsets of a finite set, from
  the well-foundedness of strict inclusion; what `FoldSet` and `SumFunction` return,
  and that a sum grows by what is added to it, in whatever order it is taken.
* Lemmas on the operators: `Add` keeps a file counted; `Parsed` counts each entry of
  the text once, so that a file that is read says what was written.
* `TypeCorrect`, with `TypeInv`: entries of one file differ in name, records that the
  process has created are its own, totals are added when the traversal is over.
* `Counting`: `Spec => []CountersExact`.  It is inductive beside `TypeInv`, since
  what is on the disk enters the memory through `Parsed` only.
* `TotalsAgree`: `Spec => []TotalsWritten`; the totals are those of the memory
  (`TotalsInv`), and what is rewritten is the memory.
* `Growing`: `Spec => NeverLess`.  A file that is rewritten was read first, and then
  only got more: `GrowInv` compares each opened file with the json file it has still
  to replace, whose counters are those of a process that may have been stopped.
* `AgainSame`: `Spec => SameTotals`.  It speaks of two analyses, so the invariant has
  to say what the first leaves behind.  The files an analysis has opened are those
  `OpenWith` gives for all its visits at once, in the files as it finds or has made
  them (`RunInv`): they can be computed again from the json files it leaves, which
  have all that its unit visits (`LastInv`).  So the second opens the same files, adds
  nothing, and has in memory what it has read (`AgainInv`); `SumMore` adds up the
  lines that the first did not count.

`LaunchProofs`, from `LaunchAssumption` (a build is a sequence of jobs, each with
one command unless cmake gives them; `-o` is an option and `--version` is not one of
the others):

* Lemmas on sequences: induction up to a bound, what `FlattenSeq` and `FoldLeft`
  compute step by step, hence what `Without` keeps and what a script is made of:
  each piece belongs to a command of its job, each run of `callers` is followed by
  the test of its status (`Guarded`), and each unit to be analysed has one.
* `TypeCorrect`, with `TypeInv`: which job may be where (`PlaceOK`), and whose
  arguments `callers` goes through (`GivenArgs`).
* `LoopReads`: `Spec => ArgumentsRead`.  `ParseInv` says, of the arguments already
  passed, which there cannot be (`Passed`): none that is refused, none that is
  looked at for ever, and `--version` just when it was seen.
* `OwnCommands`: `Spec => []OwnWork`.  Not inductive: what is done was read from a
  script.  `ScriptInv` says that the script of a job that is not mixed is the part of
  its own that it has written, and that it runs the rest of it after what is behind
  it; `MixedInv` that two jobs at one script are mixed, which is where names of
  scripts, base names and drivers come in (`Rivalry`).
* `DoneOrTold`: `Spec => []ToldOrDone`.  `Behind` adds that a failure of `callers` is
  seen before anything else of the script runs, and that a unit left out could not be
  begun (`Given`), was refused or asked for the version, and in the last two cases
  that its `gzip` failed: by `OutputInv` nothing of it was ever there to be
  compressed.

`NamespacesProofs`, from `NamespacesAssumption` (what names and scopes can be, see
the module above):

* Lemmas on chains of scopes: induction over their length, up to a bound, from the
  well-foundedness of strict inclusion (`UpTo`); hence what the recursive
  `printQualification` returns, by where the first scope with a name is and whether
  it is a namespace.
* A record's scopes are in one of five cases (`RecordCases`): in an anonymous
  namespace, in a named one, the outermost class itself, or in a class, directly or
  deeper.  In each case the two namespaces are computed (`RecordIs`, `MethodIs`), so
  that `FailsIffStops` compares the assertions of the code with `Stops`, which is
  about scopes only, for every declaration and every call.
* `Invariant`: `IInv` is inductive.  Beside types it says what each fact was
  asserted to be (`StoreOK`), which is what a record that is found again needs to be
  in the right namespace, and that a record of a file is listed in the same file
  (`Paired`); that memory only adds to the files, in files still to be rewritten
  (`ProcessOK`), without which the end of an analysis would not say anything of the
  disk; and what was visited (`VisitedOK`), analysed (`DoneOK`) or aborted
  (`AbortedOK`).
* `TypeCorrect`, `AssertionsExplained` (`StopsForAReason`), `FilesReadBack`
  (`ReadsBack`), `RecordsInTheirNamespace` (`RecordsListed`) and
  `NamespaceCallsExact` (`CallsExact`) follow from it.

Only model-checked: the two liveness properties, `EveryAnalysisEnds` and
`EveryJobEnds` (liveness under fairness is out of the prover's reach).

## 6. Not modelled

The formatting of signatures, types and mangled names, the layout of the json text
beyond what survives it, what clang makes of the arguments it is given, the options
and the environment `scan-callers` prepares, the `--help` of the drivers, output files
that an earlier build has left in the directory (`gzip` would find one where `callers`
wrote none), the scripts that post-process results,
and the OCaml backends the documentation describes, whose sources are not in the
repository.  `getKind` is a parameter (which files are headers), as are the
namespaces that are filtered; `isDeclarationOfInterest` looks for them as substrings
of one string, so that a namespace called `st` is filtered too.  `add_thread` and
the class `Thread` are never reached, since the visit of `pthread_create` dies
before.  The counters of a single record (methods, members, base and child classes)
are not in `Metrics`.
