------------------------------ MODULE AppLoading ------------------------------
(***************************************************************************)
(* The construction of Python handlers: `new Python(options)`, which turns *)
(* the options into a target and has Asgi::new load the application.       *)
(*                                                                         *)
(* Handlers are constructed by threads of their own (the main thread of    *)
(* Node.js and its workers) in one Python interpreter.  Asgi::new holds    *)
(* the GIL from the look for the file to the end of sys.path's set-up, but *)
(* the application's module is Python code, and the interpreter may switch *)
(* threads between any two of its statements.  sys.path and sys.modules    *)
(* belong to all.                                                          *)
(*                                                                         *)
(* The code of a module is: a global `config`, an import of a module       *)
(* `helper`, and the function `app`, which reads both.  A global and a     *)
(* function are known by the docroot their code comes from.                *)
(***************************************************************************)
EXTENDS Naturals, Sequences, FiniteSets

CONSTANTS
    Handlers,       \* The handlers that are constructed
    Docroots,       \* The document roots they may have
    CurrentDir      \* The one used when the options name none

ASSUME LoadingAssumption ==
    /\ IsFiniteSet(Handlers)
    /\ CurrentDir \in Docroots
    /\ Docroots \cap {"none", "venv", "lib", "lib64", "system"} = {}

VARIABLES
    environment,    \* VIRTUAL_ENV, if set, and its site-packages
    helperIn,       \* The directories that hold a module `helper`
    sysPath,        \* sys.path
    modules,        \* sys.modules, for the targets' files: namespaces, or 0
    helper,         \* sys.modules["helper"], by the directory it comes from
    globals,        \* The namespaces created, in order: what each name means
    stage,          \* How far the construction of a handler is
    docroot,        \* The document root of a handler
    target,         \* The target of a handler
    imported,       \* The `helper` that the handler's module has imported
    app             \* The application function of a handler

diskVars == <<environment, helperIn>>
pythonVars == <<sysPath, modules, helper, globals>>
handlerVars == <<stage, docroot, target, imported, app>>
vars == <<diskVars, pythonVars, handlerVars>>

\* PythonHandlerTarget. A name is the sequence of its parts between colons.
Target(file, function) == [file |-> file, function |-> function]
DefaultTarget == Target(<<"main">>, <<"app">>)

\* What JavaScript may give as appTarget: nothing, a string with its parts
\* between colons, an object, and anything else.
Missing == [kind |-> "missing", parts |-> <<>>]
String(parts) == [kind |-> "string", parts |-> parts]
Object(file, function) == [kind |-> "object", parts |-> <<file, function>>]

TargetValues == {
    Missing,
    [kind |-> "other", parts |-> <<>>],
    String(<<"main">>), String(<<"main", "app">>),
    String(<<"main", "app", "x">>), String(<<"other", "app">>),
    String(<<"main", "absent">>),
    Object(<<"other">>, <<"app">>), Object(<<"main", "app">>, <<"app">>)}

\* The files in each document root; their modules define `app` only.
Files == {<<"main">>, <<"other">>}

NoTarget == Target(<<>>, <<>>)
NoApp == [space |-> 0, code |-> "none"]
Unbound == [config |-> "none", app |-> "none"]

Codes == Docroots \cup {"none"}

TypeOK ==
    /\ environment \subseteq {"venv", "lib", "lib64"}
    /\ helperIn \subseteq Docroots \cup {"lib", "system"}
    /\ sysPath \in Seq(Docroots \cup {"venv", "lib", "lib64", "system"})
    /\ modules \in [Files -> 0..Len(globals)]
    /\ helper \in Codes \cup {"lib", "system"}
    /\ globals \in Seq([config: Codes, app: Codes])
    /\ stage \in [Handlers -> {"new", "load", "config", "import", "define",
                               "lookup", "loaded", "failed"}]
    /\ docroot \in [Handlers -> Codes]
    /\ imported \in [Handlers -> Codes \cup {"lib", "system"}]
    /\ app \in [Handlers -> [space: 0..Len(globals), code: Codes]]

Init ==
    /\ environment \in {{}, {"venv"}, {"venv", "lib"},
                        {"venv", "lib", "lib64"}}
    /\ helperIn \in SUBSET (Docroots \cup {"lib", "system"})
    /\ sysPath = <<"system">>
    /\ modules = [f \in Files |-> 0]
    /\ helper = "none"
    /\ globals = <<>>
    /\ stage = [h \in Handlers |-> "new"]
    /\ docroot = [h \in Handlers |-> "none"]
    /\ target = [h \in Handlers |-> NoTarget]
    /\ imported = [h \in Handlers |-> "none"]
    /\ app = [h \in Handlers |-> NoApp]

Goto(h, next) == stage' = [stage EXCEPT ![h] = next]

-----------------------------------------------------------------------------
(* The options. *)

\* A string has to have exactly one colon; an object may have any two strings.
IsTarget(value) ==
    \/ value.kind \in {"missing", "object"}
    \/ value.kind = "string" /\ Len(value.parts) = 2

TargetOf(value) ==
    LET parts == value.parts IN
    CASE value.kind = "missing" -> DefaultTarget
      [] value.kind = "string"  -> Target(<<parts[1]>>, <<parts[2]>>)
      [] value.kind = "object"  -> Target(parts[1], parts[2])

DocrootOf(dir) == IF dir = "none" THEN CurrentDir ELSE dir

\* The constructor gets its options: a document root, or none, and a target.
New(h, value, dir) ==
    /\ stage[h] = "new"
    /\ IF IsTarget(value)
          THEN /\ target' = [target EXCEPT ![h] = TargetOf(value)]
               /\ docroot' = [docroot EXCEPT ![h] = DocrootOf(dir)]
               /\ Goto(h, "load")
          ELSE /\ Goto(h, "failed")
               /\ UNCHANGED <<target, docroot>>
    /\ UNCHANGED <<diskVars, pythonVars, imported, app>>

-----------------------------------------------------------------------------
(* Asgi::new, in Python::attach. *)

\* The directories with site-packages are found in lib, then in lib64. Each is
\* inserted in front of those before, the environment's root of them all.
Present(dir) == IF dir \in environment THEN <<dir>> ELSE <<>>

EnvironmentPaths == Present("venv") \o Present("lib64") \o Present("lib")

\* Faulty variant: the document root is appended.
PathAppended(dir) == EnvironmentPaths \o Append(sysPath, dir)

\* The document root is inserted first, so the environment comes before it.
PathWith(dir) == EnvironmentPaths \o <<dir>> \o sysPath

\* Faulty variant: every application is loaded as module `main`.
FixedModuleName(h) == <<"main">>

\* The name in sys.modules is the file's, whatever directory it is in.
ModuleName(h) == target[h].file

\* The construction fails before the module runs: its file is not there or
\* cannot be read, or, with sys.path set up already, its code does not compile.
LoadFails(h) ==
    /\ stage[h] = "load"
    /\ \/ sysPath' = sysPath
       \/ target[h].file \in Files /\ sysPath' = PathWith(docroot[h])
    /\ Goto(h, "failed")
    /\ UNCHANGED <<diskVars, modules, helper, globals, docroot, target, imported,
                   app>>

\* The file is found and read, sys.path is set up, and the namespace is made
\* ready: that of a module of this name, if there is one.
Load(h) ==
    /\ stage[h] = "load"
    /\ target[h].file \in Files
    /\ sysPath' = PathWith(docroot[h])
    /\ IF modules[ModuleName(h)] = 0
          THEN /\ globals' = Append(globals, Unbound)
               /\ modules' = [modules EXCEPT ![ModuleName(h)] = Len(globals) + 1]
          ELSE UNCHANGED <<globals, modules>>
    /\ app' = [app EXCEPT ![h].space = modules'[ModuleName(h)]]
    /\ Goto(h, "config")
    /\ UNCHANGED <<diskVars, helper, docroot, target, imported>>

\* A function object keeps the namespace it was defined in.
Function(space) == [space |-> space, code |-> globals[space].app]

HasFunction(h) ==
    /\ modules[ModuleName(h)] # 0
    /\ globals[modules[ModuleName(h)]].app # "none"
    /\ target[h].function = <<"app">>

\* getattr on the module sys.modules holds when the code has run: there may be
\* none any more, or the target's function may be missing in it.
Lookup(h) ==
    /\ stage[h] = "lookup"
    /\ IF HasFunction(h)
          THEN /\ app' = [app EXCEPT ![h] = Function(modules[ModuleName(h)])]
               /\ Goto(h, "loaded")
          ELSE /\ Goto(h, "failed")
               /\ app' = app
    /\ UNCHANGED <<diskVars, pythonVars, docroot, target, imported>>

-----------------------------------------------------------------------------
(* PyModule::from_code runs the module: Python's doing.                      *)

Bind(h, name) == globals' = [globals EXCEPT ![app[h].space][name] = docroot[h]]

SetConfig(h) ==
    /\ stage[h] = "config"
    /\ Bind(h, "config")
    /\ Goto(h, "import")
    /\ UNCHANGED <<diskVars, sysPath, modules, helper, docroot, target,
                   imported, app>>

\* A module that was imported before is not looked for again.
Providers == {i \in 1..Len(sysPath) : sysPath[i] \in helperIn}

FirstProvider ==
    sysPath[CHOOSE i \in Providers : \A j \in Providers : i <= j]

ImportHelper(h) ==
    /\ stage[h] = "import"
    /\ helper # "none" \/ Providers # {}
    /\ helper' = IF helper # "none" THEN helper ELSE FirstProvider
    /\ imported' = [imported EXCEPT ![h] = helper']
    /\ Goto(h, "define")
    /\ UNCHANGED <<diskVars, sysPath, modules, globals, docroot, target, app>>

DefineApp(h) ==
    /\ stage[h] = "define"
    /\ Bind(h, "app")
    /\ Goto(h, "lookup")
    /\ UNCHANGED <<diskVars, sysPath, modules, helper, docroot, target,
                   imported, app>>

\* The module raises: its name is taken out of sys.modules, the names it has
\* bound stay bound in the namespace.
Raise(h) ==
    /\ stage[h] \in {"config", "import", "define"}
    /\ modules' = [modules EXCEPT ![ModuleName(h)] = 0]
    /\ Goto(h, "failed")
    /\ UNCHANGED <<diskVars, sysPath, helper, globals, docroot, target,
                   imported, app>>

RunModule(h) == SetConfig(h) \/ ImportHelper(h) \/ DefineApp(h) \/ Raise(h)

-----------------------------------------------------------------------------

Next == \E h \in Handlers :
    \/ \E value \in TargetValues, dir \in Codes : New(h, value, dir)
    \/ Load(h)
    \/ LoadFails(h)
    \/ RunModule(h)
    \/ Lookup(h)

Spec == Init /\ [][Next]_vars

-----------------------------------------------------------------------------
(* Correctness. *)

\* Another handler has begun to load from a document root of its own.
Others(h) == {g \in Handlers \ {h} :
                  stage[g] # "new" /\ docroot[g] \notin {"none", docroot[h]}}

\* A handler serves its own application, and that application finds its own
\* globals, whatever other handlers are constructed, fail to be or have been:
\* unless one of them loads a file of the same name from elsewhere.
AppIsOwn == \A h \in Handlers :
    /\ stage[h] = "loaded"
    /\ \A g \in Others(h) : target[g].file # target[h].file
    => /\ app[h].code = docroot[h]
       /\ globals[app[h].space].config = docroot[h]

\* The modules beside an application come before the interpreter's own: what it
\* imports is not taken from there while its document root has it. The virtual
\* environment, and the document root of another handler, may come first.
ImportsOwn == \A h \in Handlers :
    imported[h] # "none" /\ docroot[h] \in helperIn /\ Others(h) = {} =>
        imported[h] \in {docroot[h]} \cup environment

=============================================================================
