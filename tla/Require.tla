------------------------------ MODULE Require ------------------------------
(***************************************************************************)
(* The require function of one runtime (require/resolve.go) over a         *)
(* registry (require/module.go).  A module's code runs inside the require  *)
(* call that loads it, may require others, itself included, and returns or *)
(* throws; who required it may catch that and go on.                       *)
(*                                                                         *)
(* A path is the sequence of its names, its extension last: a.js is        *)
(* <<"a", ".js">>, p/index.js is <<"p", "index", ".js">> and "." is <<>>.  *)
(* Scripts are named relative to "." unless the host gives them absolute   *)
(* names, as the comment of DefaultPathResolver says.                      *)
(* A require call that throws at once changes nothing and is no action.    *)
(***************************************************************************)
EXTENDS Integers, Sequences, SequencesExt, FiniteSets, FiniteSetsExt

CONSTANTS
    Requests,       \* what scripts require (is it a file path, and its names) and
                    \* from which directory
    Exists,         \* the files of the source loader
    Unreliable,     \* the ones it sometimes fails to read
    Links,          \* the symbolic links, a function
    Main,           \* for each package, the path that its package.json gives
    GlobalFolders,  \* the registry's global folders
    Core,           \* the names given to RegisterCoreModule
    Natives,        \* the names given to RegisterNativeModule
    MaxModules      \* bound on the module objects

ASSUME NamesAssumption ==
    /\ \A req \in Requests : req.isPath \in BOOLEAN
    /\ Core \subseteq Seq(STRING)

VARIABLES
    native,         \* the names registered so far
    compiled,       \* the files whose program the registry keeps
    modules,        \* RequireModule.modules: module objects by path or name
    nodeModules,    \* RequireModule.nodeModules, by the path asked for
    objects,        \* the module objects made, with the state of their code
    evaluating,     \* the loads in progress, innermost last
    partial         \* history: the objects required while their code ran

requireVars == <<native, compiled, modules, nodeModules, objects, evaluating, partial>>

RequireInit ==
    /\ native = {} /\ compiled = {}
    /\ modules = <<>> /\ nodeModules = <<>>
    /\ objects = <<>> /\ evaluating = <<>> /\ partial = {}

RegisterNativeModule(name) ==
    /\ name \notin native
    /\ native' = native \cup {name}
    /\ UNCHANGED <<compiled, modules, nodeModules, objects, evaluating, partial>>

-----------------------------------------------------------------------------
(* The search: which files are tried, in which order.                      *)

DefaultPathResolver(base, path) ==
    LET p == base \o path IN IF p \in DOMAIN Links THEN Links[p] ELSE p

loadAsFile(path) == <<path, path \o <<".js">>, path \o <<".json">>>>

loadIndex(path) ==
    <<DefaultPathResolver(path, <<"index", ".js">>), DefaultPathResolver(path, <<"index", ".json">>)>>

\* A package.json that is missing or cannot be read is not an error.
loadAsDirectory(path, unread) ==
    IF path \notin DOMAIN Main \/ DefaultPathResolver(path, <<"package", ".json">>) \in unread
      THEN loadIndex(path)
      ELSE LET m == DefaultPathResolver(path, Main[path]) IN loadAsFile(m) \o loadIndex(m)

loadAsFileOrDirectory(path, unread) == loadAsFile(path) \o loadAsDirectory(path, unread)

\* The node_modules directory of start and of each directory above it.
nodeModulesOf(start) ==
    [i \in 1..Len(start) + 1 |->
       LET dir == SubSeq(start, 1, Len(start) + 1 - i)
       IN IF dir # <<>> /\ Last(dir) = "node_modules" THEN dir ELSE Append(dir, "node_modules")]

loadNodeModules(path, start, unread) ==
    LET folders == GlobalFolders \o nodeModulesOf(start)
    IN FlattenSeq([i \in DOMAIN folders |->
         loadAsFileOrDirectory(DefaultPathResolver(folders[i], path), unread)])

keyOf(req) == DefaultPathResolver(req.start, req.path)

\* The files tried for each request, with the ones that cannot be read meanwhile.
Tried ==
    [q \in Requests \X SUBSET Unreliable |->
       IF q[1].isPath THEN loadAsFileOrDirectory(keyOf(q[1]), q[2])
       ELSE loadNodeModules(q[1].path, q[1].start, q[2])]

-----------------------------------------------------------------------------
(* Loading.                                                                *)

\* A program that is compiled is not read again.
getCompiledSource(path, unread) == path \in compiled \/ path \notin unread

\* The table with m under all of keys.
Entered(table, keys, m) == [k \in DOMAIN table \cup keys |-> IF k \in keys THEN m ELSE table[k]]

\* resolve enters what the search returned under the path that was asked for.
Enter(isPath, key, m) ==
    IF isPath THEN modules' = Entered(modules, {key}, m) /\ UNCHANGED nodeModules
    ELSE nodeModules' = Entered(nodeModules, {key}, m) /\ UNCHANGED modules

\* A module whose code is running is handed out as it is.
HandOut(m) == partial' = IF objects[m].state = "running" THEN partial \cup {m} ELSE partial

\* The object is in the table before its code runs.
Evaluate(object, keys, load) ==
    /\ Len(objects) < MaxModules
    /\ objects' = Append(objects, object)
    /\ modules' = Entered(modules, keys, Len(objects) + 1)
    /\ evaluating' = Append(evaluating, load)
    /\ UNCHANGED <<native, nodeModules, partial>>

loadModule(path, req) ==
    /\ Evaluate([kind |-> "file", of |-> path, state |-> "running"], {path},
                [object |-> Len(objects) + 1, isPath |-> req.isPath, key |-> keyOf(req)])
    /\ compiled' = compiled \cup {path}

\* The first of paths that is in the table or a file, if there is one.
Hit(paths) ==
    LET known == Exists \cup DOMAIN modules
        first == {i \in DOMAIN paths : paths[i] \in known /\ \A j \in 1..i - 1 : paths[j] \notin known}
    IN {paths[i] : i \in first}

\* The first file that is there, or was loaded before, ends the search; a file
\* that cannot be read or compiled ends it with an error.
search(req, unread) ==
    \E path \in Hit(Tried[<<req, unread>>]) :
      IF path \in DOMAIN modules
        THEN /\ Enter(req.isPath, keyOf(req), modules[path]) /\ HandOut(modules[path])
             /\ UNCHANGED <<native, compiled, objects, evaluating>>
        ELSE getCompiledSource(path, unread) /\ loadModule(path, req)

\* node:fs is <<"node:", "fs">>.  A core module registered without the prefix
\* goes by both names.
hasPrefix(name) == Head(name) = "node:"
coreOf(name) == IF name \notin Core /\ hasPrefix(name) THEN Tail(name) ELSE name
coreNames(name) == IF hasPrefix(name) THEN {name} ELSE {name, <<"node:">> \o name}

isNative(name) == name \in native \/ coreOf(name) \in Core

\* The registered loader goes before the core module.
loadNative(name) ==
    /\ name \notin DOMAIN modules
    /\ LET load == [object |-> Len(objects) + 1, isPath |-> TRUE, key |-> name]
       IN \/ /\ name \in native
             /\ Evaluate([kind |-> "native", of |-> name, state |-> "running"], {name}, load)
          \/ /\ name \notin native /\ coreOf(name) \in Core
             /\ Evaluate([kind |-> "core", of |-> coreOf(name), state |-> "running"],
                         coreNames(coreOf(name)), load)
    /\ UNCHANGED compiled

\* What a table holds is returned as it is.
fromTable(table, key) ==
    /\ key \in DOMAIN table /\ HandOut(table[key])
    /\ UNCHANGED <<native, compiled, modules, nodeModules, objects, evaluating>>

resolve(req, unread) ==
    LET p == keyOf(req)
    IN \/ /\ req.isPath
          /\ \/ fromTable(modules, p)
             \/ p \notin DOMAIN modules /\ search(req, unread)
       \/ /\ ~req.isPath
          /\ \/ fromTable(modules, req.path)
             \/ loadNative(req.path)
             \/ /\ req.path \notin DOMAIN modules
                /\ ~isNative(req.path) /\ ~hasPrefix(req.path)
                /\ \/ fromTable(nodeModules, p)
                   \/ p \notin DOMAIN nodeModules /\ search(req, unread)

Running == objects[Last(evaluating).object]

\* Any code but the JSON.parse that a .json file becomes.
require(req, unread) ==
    /\ evaluating # <<>> => Last(Running.of) # ".json"
    /\ resolve(req, unread)

Ended(state) == objects' = [objects EXCEPT ![Last(evaluating).object].state = state]

\* The code of the innermost module returns, and so does the require call.
CodeReturns ==
    /\ evaluating # <<>> /\ Ended("done")
    /\ IF Running.kind = "file"
         THEN Enter(Last(evaluating).isPath, Last(evaluating).key, Last(evaluating).object)
         ELSE UNCHANGED <<modules, nodeModules>>
    /\ evaluating' = Front(evaluating)
    /\ UNCHANGED <<native, compiled, partial>>

\* Faulty variant: the failed module stays under its path.
CodeThrowsKeepsEntry ==
    /\ evaluating # <<>> /\ Ended("failed")
    /\ evaluating' = Front(evaluating)
    /\ UNCHANGED <<native, compiled, modules, nodeModules, partial>>

\* It throws: a file is taken out of the table, a native module is not.
CodeThrows ==
    /\ evaluating # <<>> /\ Ended("failed")
    /\ modules' = IF Running.kind = "file"
                    THEN [k \in DOMAIN modules \ {Running.of} |-> modules[k]] ELSE modules
    /\ evaluating' = Front(evaluating)
    /\ UNCHANGED <<native, compiled, nodeModules, partial>>

RequireNext ==
    \/ \E name \in Natives : RegisterNativeModule(name)
    \/ \E req \in Requests, unread \in SUBSET Unreliable :
         require(req, unread)
    \/ CodeReturns
    \/ CodeThrows

RequireSpec == RequireInit /\ [][RequireNext]_requireVars

-----------------------------------------------------------------------------
(* What is correct.                                                        *)

\* The modules loaded from files.  A file whose path is the name of a native module
\* (a file "fs" in ".", without extension) shares its entry with that module.
FileModules ==
    {i \in DOMAIN objects : objects[i].kind = "file" /\ ~isNative(objects[i].of)}

\* Code that ran, or is running, is the one entered under its path: no file is
\* evaluated again, inside a cycle or after it, unless it failed.
EvaluatedOnce ==
    \A i \in FileModules : objects[i].state # "failed" =>
      objects[i].of \in DOMAIN modules /\ modules[objects[i].of] = i

\* A module whose code threw is not served again, but to who required it while
\* its code ran: then the name used in that cycle keeps it.
FailedOnlyByCycle ==
    \A i \in FileModules : objects[i].state = "failed" =>
      /\ \A k \in DOMAIN modules : modules[k] = i => i \in partial /\ k # objects[i].of
      /\ \A k \in DOMAIN nodeModules : nodeModules[k] = i => i \in partial

\* What a search may find: a path asked for, and a file tried for it.
Findable ==
    UNION {{<<q[1].isPath, keyOf(q[1]), f>> : f \in Range(Tried[q])} : q \in DOMAIN Tried}

\* The paths that the search for k tries: a file path comes first itself, and the search
\* goes on from it to the others.
Others(isPath, k) ==
    {t[3] : t \in {u \in Findable : u[1] = isPath /\ u[2] = k}} \ (IF isPath THEN {k} ELSE {})

\* The entry k is made for the module m itself: by its name, or by its search.
IsOwn(k, m) ==
    IF m.kind = "file" THEN k = m.of \/ <<TRUE, k, m.of>> \in Findable ELSE k \in coreNames(m.of)

\* A path that scripts ask for, or a name of a native module.
Asked(k) ==
    \/ \E req \in Requests : req.isPath /\ keyOf(req) = k
    \/ \E name \in Core \cup Natives : k \in coreNames(name)

\* The search for k takes what another entry f holds, and f may in turn have been taken
\* from an entry that is asked for.
Taken(isPath, k, m) ==
    \E f \in Others(isPath, k) : IsOwn(f, m) \/ \E g \in Others(TRUE, f) : Asked(g)

\* Whatever is entered under a path is a module that the search for a request
\* with that path tries, or finds entered under a path that it tries; under the name
\* of a native module it may only be another one if a script in "." required that
\* name as a file.
FoundByTheSearch ==
    /\ \A k \in DOMAIN modules :
         LET m == objects[modules[k]] IN IsOwn(k, m) \/ Taken(TRUE, k, m)
    /\ \A k \in DOMAIN nodeModules :
         LET m == objects[nodeModules[k]] IN <<FALSE, k, m.of>> \in Findable \/ Taken(FALSE, k, m)

\* The two tables of a runtime: one evaluation per file, no failed module outside
\* cycles and no module that the search for its name does not try.
RequireSound == EvaluatedOnce /\ FailedOnlyByCycle /\ FoundByTheSearch
=============================================================================
